------------------------------ MODULE StreamHooks ------------------------------
(***************************************************************************)
(* What is known of a stream while encoders connect to and leave SRS.      *)
(*                                                                         *)
(*   SRS --on_publish, on_unpublish--> streaming/srs-hooks.go              *)
(*                --> the API (stream.service.ts): status of the row       *)
(*                --> redis: SRS_STREAM_ACTIVE                             *)
(*                                                                         *)
(* Each hook is a handler of its own, so those of two connections          *)
(* interleave, and each of its calls may fail.  Redis has an entry for     *)
(* each URL, [vhost/]app/stream, the API a row for each stream key: the    *)
(* same key may be published under several URLs, with one row for all.     *)
(* SRS itself is external: it publishes a URL for one connection at a      *)
(* time, and calls on_unpublish for a connection that on_publish accepted, *)
(* whether or not it came to publish.                                      *)
(***************************************************************************)
EXTENDS Naturals

CONSTANTS
    App,        \* [vhost/]app
    Stream,     \* stream keys
    Conn,       \* connections of encoders, each publishes at most once
    NoConn,
    MaxFaults   \* bound: calls of redis and of the API that fail

ASSUME HooksAssumption == MaxFaults \in Nat /\ NoConn \notin Conn

VARIABLES
    conn,       \* [at, app, key]: where a connection and its hook handler are
    srs,        \* the connection that publishes each URL
    status,     \* column status of the stream's row
    active,     \* redis hash SRS_STREAM_ACTIVE: its URLs
    faults,     \* number of failed calls
    overlapped  \* history: streams of which a connection ended while another one
                \* began or published

vars == <<conn, srs, status, active, faults, overlapped>>

Url == App \X Stream
StreamURL(c) == <<conn[c].app, conn[c].key>>

Verifying == {"find", "setLive"}
Starting == Verifying \cup {"hset", "count", "accepted"}
Ending == {"hdel", "endFind", "setIdle"}
Exists(s) == status[s] \in {"IDLE", "LIVE"}

\* The shape of the state; a connection gets past the verification only with the
\* key of a stream that was created.
TypeOK ==
    /\ conn \in [Conn -> [at : {"new", "refused", "publishing", "away", "closed"}
                                  \cup Starting \cup Ending,
                           app : App, key : Stream]]
    /\ srs \in [Url -> Conn \cup {NoConn}]
    /\ status \in [Stream -> {"none", "IDLE", "LIVE", "deleted"}]
    /\ active \subseteq Url /\ overlapped \subseteq Stream
    /\ faults \in 0..MaxFaults
    /\ \A c \in Conn :
         conn[c].at \notin {"new", "refused", "find"} => status[conn[c].key] # "none"

Init ==
    /\ conn \in [Conn -> [at : {"new"}, app : App, key : Stream]]
    /\ srs = [u \in Url |-> NoConn]
    /\ status = [s \in Stream |-> "none"]
    /\ active = {} /\ faults = 0 /\ overlapped = {}

Goto(c, place) == conn' = [conn EXCEPT ![c].at = place]

\* A call fails, and the hook answers with an error.
Fault(c, place) ==
    /\ faults < MaxFaults
    /\ faults' = faults + 1
    /\ Goto(c, place)

\* Another connection of the stream, under whatever URL, is in one of the places.
NoteOverlap(c, places) ==
    overlapped' = overlapped \cup
        {conn[d].key : d \in {d \in Conn \ {c} : /\ conn[d].key = conn[c].key
                                                 /\ conn[d].at \in places}}

--------------------------------------------------------------------------------
\* The API's own requests.

CreateStream(s) ==
    /\ status[s] = "none"
    /\ status' = [status EXCEPT ![s] = "IDLE"]
    /\ UNCHANGED <<conn, srs, active, faults, overlapped>>

DeleteStream(s) ==
    /\ Exists(s)
    /\ status' = [status EXCEPT ![s] = "deleted"]
    /\ UNCHANGED <<conn, srs, active, faults, overlapped>>

\* update({ streamKey }, { status }) of a row that is gone changes nothing.
SetStatus(s, to) == status' = IF Exists(s) THEN [status EXCEPT ![s] = to] ELSE status

--------------------------------------------------------------------------------
\* on_publish.

Publish(c) ==
    /\ conn[c].at = "new"
    /\ Goto(c, "find")
    /\ NoteOverlap(c, Ending)
    /\ UNCHANGED <<srs, status, active, faults>>

\* As endStream does: the exception is returned, and the answer is 201.
FindReturns(c) ==
    /\ conn[c].at = "find"
    /\ Goto(c, IF Exists(conn[c].key) THEN "setLive" ELSE "hset")
    /\ UNCHANGED <<srs, status, active, faults, overlapped>>

\* startStream: findOne, and an exception, hence 404, when there is no row.
Find(c) ==
    /\ conn[c].at = "find"
    /\ \/ Goto(c, IF Exists(conn[c].key) THEN "setLive" ELSE "refused")
          /\ UNCHANGED faults
       \/ Fault(c, "refused")
    /\ UNCHANGED <<srs, status, active, overlapped>>

\* startStream: update.  A failing call may have been carried out.
SetLive(c) ==
    /\ conn[c].at = "setLive"
    /\ \/ SetStatus(conn[c].key, "LIVE") /\ Goto(c, "hset") /\ UNCHANGED faults
       \/ SetStatus(conn[c].key, "LIVE") /\ Fault(c, "refused")
       \/ Fault(c, "refused") /\ UNCHANGED status
    /\ UNCHANGED <<srs, active, overlapped>>

\* The error of HSET is logged only.
HSetUnchecked(c) ==
    /\ conn[c].at = "hset"
    /\ \/ active' = active \cup {StreamURL(c)} /\ Goto(c, "count") /\ UNCHANGED faults
       \/ Fault(c, "count") /\ UNCHANGED active
    /\ UNCHANGED <<srs, status, overlapped>>

HSet(c) ==
    /\ conn[c].at = "hset"
    /\ \/ active' = active \cup {StreamURL(c)} /\ Goto(c, "count") /\ UNCHANGED faults
       \/ active' = active \cup {StreamURL(c)} /\ Fault(c, "refused")
       \/ Fault(c, "refused") /\ UNCHANGED active
    /\ UNCHANGED <<srs, status, overlapped>>

\* HINCRBY of the statistics, then the answer.
Count(c) ==
    /\ conn[c].at = "count"
    /\ \/ Goto(c, "accepted") /\ UNCHANGED faults
       \/ Fault(c, "refused")
    /\ UNCHANGED <<srs, status, active, overlapped>>

--------------------------------------------------------------------------------
\* SRS: an accepted connection publishes its URL, or is turned away if another one does.
Acquire(c) ==
    /\ conn[c].at = "accepted"
    /\ LET u == StreamURL(c) IN
         \/ srs[u] = NoConn /\ srs' = [srs EXCEPT ![u] = c] /\ Goto(c, "publishing")
         \/ srs[u] # NoConn /\ Goto(c, "away") /\ UNCHANGED srs
    /\ UNCHANGED <<status, active, faults, overlapped>>

--------------------------------------------------------------------------------
\* on_unpublish.

\* The hook does not know whether the connection published.
Unpublish(c) ==
    /\ conn[c].at \in {"publishing", "away"}
    /\ srs' = [srs EXCEPT ![StreamURL(c)] = IF @ = c THEN NoConn ELSE @]
    /\ Goto(c, "hdel")
    /\ NoteOverlap(c, Starting \cup {"publishing"})
    /\ UNCHANGED <<status, active, faults>>

\* The error of HDEL is logged only.
HDelUnchecked(c) ==
    /\ conn[c].at = "hdel"
    /\ \/ active' = active \ {StreamURL(c)} /\ Goto(c, "endFind") /\ UNCHANGED faults
       \/ Fault(c, "endFind") /\ UNCHANGED active
    /\ UNCHANGED <<srs, status, overlapped>>

\* The API is not called.
HDelOnly(c) ==
    /\ conn[c].at = "hdel"
    /\ active' = active \ {StreamURL(c)} /\ Goto(c, "closed")
    /\ UNCHANGED <<srs, status, faults, overlapped>>

HDel(c) ==
    /\ conn[c].at = "hdel"
    /\ \/ active' = active \ {StreamURL(c)} /\ Goto(c, "endFind") /\ UNCHANGED faults
       \/ active' = active \ {StreamURL(c)} /\ Fault(c, "closed")
       \/ Fault(c, "closed") /\ UNCHANGED active
    /\ UNCHANGED <<srs, status, overlapped>>

\* endStream: findOne; without a row the exception is returned, not thrown.
EndFind(c) ==
    /\ conn[c].at = "endFind"
    /\ \/ Goto(c, IF Exists(conn[c].key) THEN "setIdle" ELSE "closed")
          /\ UNCHANGED faults
       \/ Fault(c, "closed")
    /\ UNCHANGED <<srs, status, active, overlapped>>

\* endStream: update.
SetIdle(c) ==
    /\ conn[c].at = "setIdle"
    /\ \/ SetStatus(conn[c].key, "IDLE") /\ Goto(c, "closed") /\ UNCHANGED faults
       \/ SetStatus(conn[c].key, "IDLE") /\ Fault(c, "closed")
       \/ Fault(c, "closed") /\ UNCHANGED status
    /\ UNCHANGED <<srs, active, overlapped>>

--------------------------------------------------------------------------------
OnPublish(c) == Find(c) \/ SetLive(c) \/ HSet(c) \/ Count(c)
OnUnpublish(c) == HDel(c) \/ EndFind(c) \/ SetIdle(c)

Next ==
    \/ \E c \in Conn :
         Publish(c) \/ OnPublish(c) \/ Acquire(c) \/ Unpublish(c) \/ OnUnpublish(c)
    \/ \E s \in Stream : CreateStream(s) \/ DeleteStream(s)

Spec == Init /\ [][Next]_vars

\* A hook that was called goes on to its answer.
Fairness == \A c \in Conn : WF_vars(OnPublish(c)) /\ WF_vars(OnUnpublish(c))

FairSpec == Spec /\ Fairness

--------------------------------------------------------------------------------
\* Properties.

\* The key is used under this URL only.
SoleUrl(u) == \A c \in Conn : conn[c].key = u[2] /\ conn[c].at # "new" => conn[c].app = u[1]

\* A URL in SRS_STREAM_ACTIVE is LIVE for the API, whichever call of a hook failed, as
\* long as its key has no other URL and no connection of the stream ended while another
\* one began or published: on_publish tells the API first, on_unpublish redis first.
ActiveIsLive ==
    \A u \in active :
        SoleUrl(u) /\ u[2] \notin overlapped => status[u[2]] \in {"LIVE", "deleted"}

\* A URL that SRS publishes is in SRS_STREAM_ACTIVE and LIVE, whatever failed for other
\* connections, with the same URL or another one of the stream, as long as none of them
\* ended while another one began or published.  If one did, its on_unpublish, even that
\* of an encoder which SRS turned away, can make the stream of the publisher IDLE.
PublishedIsActive ==
    \A u \in Url :
        srs[u] # NoConn /\ u[2] \notin overlapped
            => u \in active /\ status[u[2]] \in {"LIVE", "deleted"}

\* When a connection leaves, its URL becomes inactive and its stream IDLE, if no call
\* fails and no other connection of the stream is there meanwhile.
EndsIdle ==
    \A c \in Conn :
        LET s == conn[c].key IN
        conn[c].at = "hdel"
            ~> \/ StreamURL(c) \notin active /\ status[s] \in {"IDLE", "deleted"}
               \/ faults > 0 \/ s \in overlapped
================================================================================
