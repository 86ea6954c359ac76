------------------------------ MODULE DetectWorker ------------------------------
(***************************************************************************)
(* streaming/detect.go: from the on_hls hook of SRS to the ProcessWorker   *)
(* of each stream.                                                         *)
(*                                                                         *)
(*   hook --msgs--> copier --one goroutine per file--> tsfiles             *)
(*        --> router --tsfiles of the worker--> ProcessTask                *)
(*                                                                         *)
(* The copier copies the TS file (OnHlsTsMessageImpl), the router finds or *)
(* starts the worker of the stream (createWorker) and waits for room in    *)
(* its channel.  ProcessTask models what follows.                          *)
(***************************************************************************)
EXTENDS Naturals, FiniteSets, Sequences, SequencesExt

CONSTANTS
    Stream,         \* the streams that are published
    Cap,            \* capacity of DetectWorker.msgs and tsfiles, 1024 in the code
    WorkerCap,      \* capacity of ProcessWorker.tsfiles, 1024 in the code
    MaxTs,          \* bound: TS files per stream
    Unstartable,    \* bound: streams whose directory cannot be created
    MayCancel       \* bound: whether the context is cancelled

ASSUME DetectAssumption ==
    /\ Cap \in Nat \ {0} /\ WorkerCap \in Nat \ {0} /\ MaxTs \in Nat
    /\ Unstartable \subseteq Stream /\ MayCancel \in BOOLEAN

VARIABLES
    hooked,     \* number of TS files SRS announced, per stream
    msgs,       \* DetectWorker.msgs
    copier,     \* [at, msg]
    senders,    \* files whose hand-over goroutine has not ended
    tsfiles,    \* DetectWorker.tsfiles
    router,     \* [at, msg]
    workers,    \* DetectWorker.workers: what became of each stream's worker
    queue,      \* ProcessWorker.tsfiles of each worker
    entered,    \* what the task of each worker received
    cancelled,  \* the context is cancelled
    gone,       \* history: files given up with an error or by the cancel
    late        \* history: files a newer one overtook while they waited to be sent

vars == <<hooked, msgs, copier, senders, tsfiles, router, workers, queue, entered,
          cancelled, gone, late>>

Ts == [stream : Stream, seq : 1..MaxTs]
Idle == [at |-> "idle"]
Ended == [at |-> "ended"]
At(place, m) == [at |-> place, msg |-> m]

\* The shape of the state; a worker has entries only once it is in the map.
TypeOK ==
    /\ hooked \in [Stream -> 0..MaxTs]
    /\ msgs \in Seq(Ts) /\ tsfiles \in Seq(Ts)
    /\ Len(msgs) <= Cap /\ Len(tsfiles) <= Cap
    /\ copier \in {Idle, Ended} \cup [at : {"copy", "stat"}, msg : Ts]
    /\ router \in {Idle, Ended} \cup [at : {"create", "feed"}, msg : Ts]
    /\ senders \subseteq Ts
    /\ workers \in [Stream -> {"none", "stored", "running", "stopped"}]
    /\ queue \in [Stream -> Seq(Ts)] /\ entered \in [Stream -> Seq(Ts)]
    /\ \A s \in Stream :
         /\ Len(queue[s]) <= WorkerCap
         /\ workers[s] = "none" => queue[s] = <<>> /\ entered[s] = <<>>
    /\ cancelled \in BOOLEAN /\ gone \subseteq Ts /\ late \subseteq Ts

Init ==
    /\ hooked = [s \in Stream |-> 0]
    /\ msgs = <<>> /\ tsfiles = <<>> /\ senders = {}
    /\ copier = Idle /\ router = Idle
    /\ workers = [s \in Stream |-> "none"]
    /\ queue = [s \in Stream |-> <<>>] /\ entered = [s \in Stream |-> <<>>]
    /\ cancelled = FALSE /\ gone = {} /\ late = {}

GiveUp(m) == gone' = gone \cup {m}

--------------------------------------------------------------------------------
\* The hook: it answers after the send, or at once when the context is
\* cancelled.
OnHlsTsMessage(s) ==
    /\ hooked[s] < MaxTs
    /\ hooked' = [hooked EXCEPT ![s] = @ + 1]
    /\ LET m == [stream |-> s, seq |-> hooked[s] + 1] IN
         \/ Len(msgs) < Cap /\ msgs' = Append(msgs, m) /\ UNCHANGED gone
         \/ cancelled /\ GiveUp(m) /\ UNCHANGED msgs
    /\ UNCHANGED <<copier, senders, tsfiles, router, workers, queue, entered, cancelled,
                   late>>

--------------------------------------------------------------------------------
\* The copier.

TakeMsg ==
    /\ copier = Idle /\ msgs # <<>>
    /\ copier' = At("copy", Head(msgs))
    /\ msgs' = Tail(msgs)
    /\ UNCHANGED <<hooked, senders, tsfiles, router, workers, queue, entered, cancelled,
                   gone, late>>

\* cp fails when SRS removed its file, or because of the cancel.
Copy ==
    /\ copier.at = "copy"
    /\ \/ copier' = At("stat", copier.msg) /\ UNCHANGED gone
       \/ copier' = Idle /\ GiveUp(copier.msg)
    /\ UNCHANGED <<hooked, msgs, senders, tsfiles, router, workers, queue, entered,
                   cancelled, late>>

\* os.Stat of the file of SRS; then a goroutine of its own sends the copy.
StatAndGo ==
    /\ copier.at = "stat"
    /\ copier' = Idle
    /\ \/ senders' = senders \cup {copier.msg} /\ UNCHANGED gone
       \/ GiveUp(copier.msg) /\ UNCHANGED senders
    /\ UNCHANGED <<hooked, msgs, tsfiles, router, workers, queue, entered, cancelled,
                   late>>

EndCopier ==
    /\ copier = Idle /\ cancelled
    /\ copier' = Ended
    /\ UNCHANGED <<hooked, msgs, senders, tsfiles, router, workers, queue, entered,
                   cancelled, gone, late>>

--------------------------------------------------------------------------------
\* The goroutine of one file.

Older(m) == {n \in senders : n.stream = m.stream /\ n.seq < m.seq}

SendOrDrop(m) ==
    /\ m \in senders
    /\ senders' = senders \ {m}
    /\ IF Len(tsfiles) < Cap
         THEN tsfiles' = Append(tsfiles, m) /\ late' = late \cup Older(m)
         ELSE UNCHANGED <<tsfiles, late>>
    /\ UNCHANGED <<hooked, msgs, copier, router, workers, queue, entered, cancelled, gone>>

Send(m) ==
    /\ m \in senders
    /\ senders' = senders \ {m}
    /\ \/ /\ Len(tsfiles) < Cap
          /\ tsfiles' = Append(tsfiles, m)
          /\ late' = late \cup Older(m)
          /\ UNCHANGED gone
       \/ cancelled /\ GiveUp(m) /\ UNCHANGED <<tsfiles, late>>
    /\ UNCHANGED <<hooked, msgs, copier, router, workers, queue, entered, cancelled>>

--------------------------------------------------------------------------------
\* The router.

TakeNewest ==
    /\ router = Idle /\ tsfiles # <<>>
    /\ router' = At("create", Last(tsfiles))
    /\ tsfiles' = Front(tsfiles)
    /\ UNCHANGED <<hooked, msgs, copier, senders, workers, queue, entered, cancelled, gone,
                   late>>

TakeTs ==
    /\ router = Idle /\ tsfiles # <<>>
    /\ router' = At("create", Head(tsfiles))
    /\ tsfiles' = Tail(tsfiles)
    /\ UNCHANGED <<hooked, msgs, copier, senders, workers, queue, entered, cancelled, gone,
                   late>>

\* Store instead of LoadOrStore.
CreateAnew ==
    /\ router.at = "create"
    /\ router' = [router EXCEPT !.at = "feed"]
    /\ workers' = [workers EXCEPT ![router.msg.stream] = "running"]
    /\ queue' = [queue EXCEPT ![router.msg.stream] = <<>>]
    /\ UNCHANGED <<hooked, msgs, copier, senders, tsfiles, entered, cancelled, gone, late>>

\* LoadOrStore; a fresh worker is initialized and started.  When its directory
\* cannot be created it stays in the map without goroutines.
CreateWorker ==
    /\ router.at = "create"
    /\ router' = [router EXCEPT !.at = "feed"]
    /\ LET s == router.msg.stream IN
         IF workers[s] # "none" THEN UNCHANGED workers
         ELSE workers' = [workers EXCEPT ![s] =
                            IF s \in Unstartable THEN "stored" ELSE "running"]
    /\ UNCHANGED <<hooked, msgs, copier, senders, tsfiles, queue, entered, cancelled, gone,
                   late>>

FeedUncancelled ==
    /\ router.at = "feed"
    /\ Len(queue[router.msg.stream]) < WorkerCap
    /\ queue' = [queue EXCEPT ![router.msg.stream] = Append(@, router.msg)]
    /\ router' = Idle
    /\ UNCHANGED <<hooked, msgs, copier, senders, tsfiles, workers, entered, cancelled,
                   gone, late>>

\* OnHlsTsObject blocks while the channel of the worker is full.
Feed ==
    /\ router.at = "feed"
    /\ router' = Idle
    /\ LET s == router.msg.stream IN
         \/ /\ Len(queue[s]) < WorkerCap
            /\ queue' = [queue EXCEPT ![s] = Append(@, router.msg)]
            /\ UNCHANGED gone
         \/ cancelled /\ GiveUp(router.msg) /\ UNCHANGED queue
    /\ UNCHANGED <<hooked, msgs, copier, senders, tsfiles, workers, entered, cancelled,
                   late>>

EndRouter ==
    /\ router = Idle /\ cancelled
    /\ router' = Ended
    /\ UNCHANGED <<hooked, msgs, copier, senders, tsfiles, workers, queue, entered,
                   cancelled, gone, late>>

--------------------------------------------------------------------------------
\* The worker of stream s: its rx goroutine receives (see ProcessTask).
Enter(s) ==
    /\ workers[s] = "running" /\ queue[s] # <<>>
    /\ entered' = [entered EXCEPT ![s] = Append(@, Head(queue[s]))]
    /\ queue' = [queue EXCEPT ![s] = Tail(@)]
    /\ UNCHANGED <<hooked, msgs, copier, senders, tsfiles, router, workers, cancelled, gone,
                   late>>

StopWorker(s) ==
    /\ workers[s] = "running" /\ cancelled
    /\ workers' = [workers EXCEPT ![s] = "stopped"]
    /\ UNCHANGED <<hooked, msgs, copier, senders, tsfiles, router, queue, entered,
                   cancelled, gone, late>>

\* Close, or the cancel of the program's context.
Cancel ==
    /\ MayCancel /\ ~cancelled
    /\ cancelled' = TRUE
    /\ UNCHANGED <<hooked, msgs, copier, senders, tsfiles, router, workers, queue, entered,
                   gone, late>>

--------------------------------------------------------------------------------
Copier == TakeMsg \/ Copy \/ StatAndGo \/ EndCopier
Router == TakeTs \/ CreateWorker \/ Feed \/ EndRouter

Next ==
    \/ \E s \in Stream : OnHlsTsMessage(s) \/ Enter(s) \/ StopWorker(s)
    \/ Copier \/ Router
    \/ \E m \in Ts : Send(m)
    \/ Cancel

Spec == Init /\ [][Next]_vars

\* Every goroutine goes on when it can.
Fairness ==
    /\ WF_vars(Copier) /\ WF_vars(Router)
    /\ \A m \in Ts : WF_vars(Send(m))
    /\ \A s \in Stream : WF_vars(Enter(s)) /\ WF_vars(StopWorker(s))

FairSpec == Spec /\ Fairness

--------------------------------------------------------------------------------
\* Properties.

InHand(g) == IF g.at \in {"idle", "ended"} THEN <<>> ELSE <<g.msg>>

\* What was sent, oldest first: the files in the worker of stream s, and those of
\* every stream that the router has yet to feed.
Sent(s) == entered[s] \o queue[s] \o InHand(router) \o tsfiles

Count(q, m) == Cardinality({i \in 1..Len(q) : q[i] = m})

\* Every announced file is in one place, in the worker of its own stream or on the
\* way there, until it is given up with an error or by the cancel: no channel,
\* hand-over goroutine or worker creation loses or duplicates one.
Conserved ==
    \A m \in Ts :
        Count(msgs \o InHand(copier) \o Sent(m.stream), m)
            + (IF m \in senders THEN 1 ELSE 0) + (IF m \in gone THEN 1 ELSE 0)
        = IF m.seq <= hooked[m.stream] THEN 1 ELSE 0

\* The hand-over goroutines are the only place where the order of a stream changes:
\* a newer file is ahead of an older one only if it overtook it there.
OnlyWaitingIsOvertaken ==
    \A s \in Stream : \A i, j \in 1..Len(Sent(s)) :
        i < j /\ Sent(s)[i].stream = s /\ Sent(s)[j].stream = s =>
            Sent(s)[i].seq < Sent(s)[j].seq \/ Sent(s)[j] \in late

\* Every file that is announced reaches the task of its stream, if it can be copied
\* and the program is not stopped, whatever the other streams do.
Delivered ==
    \A m \in Ts :
        m.seq <= hooked[m.stream]
            ~> m \in Range(entered[m.stream]) \cup gone \/ cancelled

\* After the cancel both goroutines that Close waits for end, also when the router
\* is blocked on the full channel of a worker that has stopped.
CloseReturns == cancelled ~> copier = Ended /\ router = Ended

\* "Process all messages about HLS ts segments." (detect.go:210): what is sent to
\* the router reaches its task, at least for a stream whose worker runs.
AllProcessed ==
    \A m \in Ts :
        m \in Range(tsfiles) /\ workers[m.stream] = "running"
            ~> m \in Range(entered[m.stream])
================================================================================
