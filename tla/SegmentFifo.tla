------------------------------ MODULE SegmentFifo ------------------------------
(***************************************************************************)
(* What one stream's ProcessTask (streaming/process.go) promises, seen     *)
(* from outside: TS segments are numbered in the order they are accepted,  *)
(* leave in that order, and none leaves before Window newer ones are held, *)
(* unless one of its files disappeared.  ProcessTask implements this       *)
(* module: its four queues and the segments its goroutines carry between   *)
(* them are one FIFO.                                                      *)
(***************************************************************************)
EXTENDS Naturals, Sequences

CONSTANTS Window,      \* segments that stay available to players
          MaxSegments  \* bound: number of segments accepted

VARIABLES pipe,      \* the segments held, oldest first
          accepted,  \* how many were accepted so far; also the newest number
          lost       \* the segments that lost a file

vars == <<pipe, accepted, lost>>

Init == pipe = <<>> /\ accepted = 0 /\ lost = {}

Accept ==
    /\ accepted < MaxSegments
    /\ accepted' = accepted + 1
    /\ pipe' = Append(pipe, accepted + 1)
    /\ UNCHANGED lost

LoseFile(s) ==
    /\ lost' = lost \cup {s}
    /\ UNCHANGED <<pipe, accepted>>

\* A segment that lost a file may leave from any place.
Skip ==
    /\ \E i \in 1..Len(pipe) :
          /\ pipe[i] \in lost
          /\ pipe' = SubSeq(pipe, 1, i - 1) \o SubSeq(pipe, i + 1, Len(pipe))
    /\ UNCHANGED <<accepted, lost>>

\* Every other segment leaves as the oldest one, with Window newer ones held.
Retire ==
    /\ Len(pipe) > Window
    /\ pipe' = Tail(pipe)
    /\ UNCHANGED <<accepted, lost>>

Next ==
    \/ Accept
    \/ \E s \in 1..accepted : LoseFile(s)
    \/ Skip
    \/ Retire

Spec == Init /\ [][Next]_vars
================================================================================
