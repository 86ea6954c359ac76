----------------------------- MODULE FinishPlaylist -----------------------------
(***************************************************************************)
(* The playlist of a stream, built while the finish queue changes.         *)
(*                                                                         *)
(* ProcessQueue is a Go slice: a view of the first cells of an array.      *)
(* finishSegments returns another view of the same array, which            *)
(* hlsM3u8Handler reads cell by cell without a lock, while dequeue moves   *)
(* the cells of the queue, and enqueue writes behind them or leaves the    *)
(* array for a larger one.  The cells are moved by memmove, in any order.  *)
(*                                                                         *)
(* A segment is known by its place among those that the queue got (that    *)
(* they get here one by one is the subject of ProcessTask), and has SRS's  *)
(* number besides, of which the code promises nothing.                     *)
(***************************************************************************)
EXTENDS Integers, Sequences, FiniteSets, SequencesExt

CONSTANTS
    MaxFinish,      \* maxFinishSegments, 9 in the code
    MaxSegments,    \* bound: segments handed to the queue
    MaxRequests,    \* bound: playlists requested
    SeqNo,          \* bound: the numbers that SRS may begin with or jump to
    MaxJumps        \* bound: numbers that do not follow the one before

\* The queue never becomes empty again, so that only a stream without segments is
\* answered by an error.
ASSUME PlaylistAssumption ==
    /\ MaxFinish \in Nat \ {0} /\ MaxSegments \in Nat /\ MaxRequests \in Nat
    /\ SeqNo \subseteq Nat /\ MaxJumps \in Nat

VARIABLES
    arrays,     \* the arrays so far; the queue is in the last one
    len,        \* len(FinishQueue.Segments)
    moving,     \* the queue at the begin of the dequeue in progress, or <<>>
    moved,      \* the cells this dequeue has written
    added,      \* number of segments handed to the queue
    seqNos,     \* their TsFile.SeqNo
    reader,     \* the request in progress: [at, array, len, files]
    requests,   \* number of requests
    answer,     \* the latest playlist: [sequence, files, tags]
    snapshot,   \* history: the queue when the latest request looked at it
    dequeues    \* history: dequeues while it read

vars == <<arrays, len, moving, moved, added, seqNos, reader, requests, answer, snapshot,
          dequeues>>

Segment == 1..MaxSegments
Nil == 0
NoRequest == [at |-> "idle"]
Cells == Last(arrays)
Queue == SubSeq(Cells, 1, len)

\* The shape of the state: every view is inside its array, and what hlsM3u8Handler reads
\* there without a lock and dereferences (segment.TsFile) is never nil, though the queue
\* shrinks and grows under it.
TypeOK ==
    /\ \A a \in Range(arrays) : a \in Seq(Segment \cup {Nil})
    /\ len \in 0..Len(Cells)
    /\ Len(moving) \in {0, len} /\ moved \subseteq 1..len
    /\ added \in 0..MaxSegments /\ seqNos \in [1..added -> Nat] /\ requests \in 0..MaxRequests
    /\ reader # NoRequest =>
         /\ reader.at = "read" /\ reader.array \in 1..Len(arrays)
         /\ reader.files \in Seq(Segment) /\ Len(reader.files) <= reader.len
         /\ reader.len <= Len(arrays[reader.array])
    /\ answer.files \in Seq(Segment) /\ answer.tags \subseteq 1..Len(answer.files)
    /\ dequeues \in 0..MaxSegments

Init ==
    /\ arrays = << <<>> >> /\ len = 0
    /\ moving = <<>> /\ moved = {} /\ added = 0 /\ seqNos = <<>>
    /\ reader = NoRequest /\ requests = 0
    /\ answer = [sequence |-> 0, files |-> <<>>, tags |-> {}]
    /\ snapshot = <<>> /\ dequeues = 0

--------------------------------------------------------------------------------
\* The queue.  ProcessTask.lock is held during enqueue and dequeue.

Unlocked == moving = <<>>

\* append: into the next cell, or into a copy of twice the size.
AppendSegment(s) ==
    IF len < Len(Cells)
      THEN [arrays EXCEPT ![Len(arrays)][len + 1] = s]
      ELSE Append(arrays, Append(Cells, s) \o [i \in 1..(Len(Cells) - 1) |-> Nil])

\* Segment k + 1 does not continue segment k.
Jump(k) == seqNos[k] + 1 # seqNos[k + 1]

\* SRS counts, but its message may fail to be copied, be dropped or be overtaken before
\* the segment comes here, and a restarted SRS counts anew.
NextNumbers ==
    {seqNos[k] + 1 : k \in {added} \ {0}} \cup
    {n \in SeqNo : added = 0 \/ Cardinality({k \in 1..(added - 1) : Jump(k)}) < MaxJumps}

Enqueue ==
    /\ Unlocked /\ added < MaxSegments
    /\ added' = added + 1 /\ len' = len + 1
    /\ \E n \in NextNumbers : seqNos' = Append(seqNos, n)
    /\ arrays' = AppendSegment(added + 1)
    /\ UNCHANGED <<moving, moved, reader, requests, answer, snapshot, dequeues>>

\* DriveFinishQueue dequeues the first segment when more than MaxFinish are held.
BeginDequeue ==
    /\ Unlocked /\ len > MaxFinish
    /\ moving' = Queue /\ moved' = {}
    /\ dequeues' = IF reader = NoRequest THEN dequeues ELSE dequeues + 1
    /\ UNCHANGED <<arrays, len, added, seqNos, reader, requests, answer, snapshot>>

Unmoved == 1..(Len(moving) - 1) \ moved

\* The last segment takes the place of the first one.
SwapCell(i) ==
    /\ i \in Unmoved
    /\ moved' = moved \cup {i}
    /\ arrays' = [arrays EXCEPT ![Len(arrays)][i] = IF i = 1 THEN Last(moving) ELSE @]
    /\ UNCHANGED <<len, moving, added, seqNos, reader, requests, answer, snapshot, dequeues>>

\* append(v.Segments[:0], v.Segments[1:]...): one cell of the move.
MoveCell(i) ==
    /\ i \in Unmoved
    /\ moved' = moved \cup {i}
    /\ arrays' = [arrays EXCEPT ![Len(arrays)][i] = moving[i + 1]]
    /\ UNCHANGED <<len, moving, added, seqNos, reader, requests, answer, snapshot, dequeues>>

\* As slices.Delete does: the cell that is free now is cleared.
EndDequeueClears ==
    /\ moving # <<>> /\ Unmoved = {}
    /\ len' = len - 1 /\ moving' = <<>> /\ moved' = {}
    /\ arrays' = [arrays EXCEPT ![Len(arrays)][len] = Nil]
    /\ UNCHANGED <<added, seqNos, reader, requests, answer, snapshot, dequeues>>

\* The last cell keeps its segment.
EndDequeue ==
    /\ moving # <<>> /\ Unmoved = {}
    /\ len' = len - 1 /\ moving' = <<>> /\ moved' = {}
    /\ UNCHANGED <<arrays, added, seqNos, reader, requests, answer, snapshot, dequeues>>

--------------------------------------------------------------------------------
\* A request of the playlist.

LookShort ==
    /\ reader = NoRequest /\ Unlocked /\ requests < MaxRequests
    /\ requests' = requests + 1
    /\ reader' = [at |-> "read", array |-> Len(arrays), files |-> <<>>,
                  len |-> IF len = 0 THEN 0 ELSE len - 1]
    /\ snapshot' = Queue /\ dequeues' = 0
    /\ UNCHANGED <<arrays, len, moving, moved, added, seqNos, answer>>

\* finishSegments, with ProcessTask.lock.
Look ==
    /\ reader = NoRequest /\ Unlocked /\ requests < MaxRequests
    /\ requests' = requests + 1
    /\ reader' = [at |-> "read", array |-> Len(arrays), files |-> <<>>, len |-> len]
    /\ snapshot' = Queue /\ dequeues' = 0
    /\ UNCHANGED <<arrays, len, moving, moved, added, seqNos, answer>>

ReadCell ==
    /\ reader # NoRequest /\ Len(reader.files) < reader.len
    /\ reader' = [reader EXCEPT !.files =
                    Append(@, arrays[reader.array][Len(reader.files) + 1])]
    /\ UNCHANGED <<arrays, len, moving, moved, added, seqNos, requests, answer, snapshot,
                   dequeues>>

\* The indices that get a #EXT-X-DISCONTINUITY; the last pair is not compared.
TagsAtRepeats(files) == {i \in 1..(Len(files) - 2) : seqNos[files[i]] # seqNos[files[i + 1]]}
Tags(files) == {i \in 1..(Len(files) - 2) : seqNos[files[i]] + 1 # seqNos[files[i + 1]]}

\* #EXT-X-MEDIA-SEQUENCE counts the files.
BuildCounted(files) == [sequence |-> Len(files), files |-> files, tags |-> Tags(files)]

BuildLive(files) ==
    [sequence |-> seqNos[Head(files)], files |-> files, tags |-> Tags(files)]

\* buildLiveM3u8ForLocal; without files it is an error.
Answer ==
    /\ reader # NoRequest /\ Len(reader.files) = reader.len
    /\ reader' = NoRequest
    /\ answer' = IF reader.files = <<>> THEN answer ELSE BuildLive(reader.files)
    /\ UNCHANGED <<arrays, len, moving, moved, added, seqNos, requests, snapshot, dequeues>>

--------------------------------------------------------------------------------
Dequeue == BeginDequeue \/ (\E i \in 1..MaxSegments : MoveCell(i)) \/ EndDequeue
Request == Look \/ ReadCell \/ Answer

Next == Enqueue \/ Dequeue \/ Request

Spec == Init /\ [][Next]_vars

--------------------------------------------------------------------------------
\* Properties.

Files == IF reader = NoRequest THEN answer.files ELSE reader.files

\* No playlist goes back in the queue, in whatever order the cells are moved, unless
\* two dequeues come while it is built: the second leaves an older segment behind
\* the one that enqueue then writes.
InOrder ==
    dequeues <= 1 => \A i, j \in 1..Len(Files) : i < j => Files[i] <= Files[j]

\* A playlist is exact when no dequeue came while it was built, whatever enqueue did to
\* the array, and its end is never older than the queue was.
UndisturbedIsExact ==
    reader # NoRequest /\ Len(reader.files) = reader.len =>
        /\ dequeues = 0 => reader.files = snapshot
        /\ snapshot # <<>> => Last(snapshot) <= Last(reader.files)

\* Without a dequeue while it is built, a playlist marks a discontinuity exactly where
\* the numbers of SRS jump between two segments that came one after the other (utils.go
\* 186-193), but for its last pair, which the code does not compare.  A dequeue can make
\* it mark a segment that it repeats or leaves out.
TagsTellJumps ==
    reader = NoRequest /\ dequeues = 0 =>
        answer.tags = {i \in 1..(Len(answer.files) - 2) : Jump(answer.files[i])}

\* The media sequence of successive playlists goes back, which players do not expect,
\* only from one segment to a later one to which SRS, or a segment overtaken on the way,
\* gave the lower number: no change of the queue takes it back by itself.
MediaSequenceGrows ==
    [][\/ answer'.sequence >= answer.sequence
       \/ \E i, j \in 1..added : /\ i < j
                                /\ seqNos[i] = answer.sequence
                                /\ seqNos[j] = answer'.sequence]_vars
================================================================================
