------------------------------ MODULE ProcessTask ------------------------------
(***************************************************************************)
(* streaming/process.go: the pipeline of one live stream.  A ProcessWorker *)
(* runs six goroutines on one ProcessTask:                                 *)
(*                                                                         *)
(*   tsfiles --rx--> LiveQueue --live--> DetectQueue --detect-->           *)
(*                   FinishQueue --finish--> disposed                      *)
(*                                                                         *)
(*   rx      receives TS objects from the channel (Start, OnTsSegment)     *)
(*   live    extracts an image with ffmpeg       (DriveLiveQueue)          *)
(*   detect  asks the AI server, reports accidents (DriveDetectQueue)      *)
(*   finish  retires the oldest segment          (DriveFinishQueue)        *)
(*   save    writes the task to redis on a signal (doProcess, saveTask)    *)
(*                                                                         *)
(* The goroutine "accident" is the consumer of AccidentWorker.msgs         *)
(* (accident.go), as far as it reads this task's files.                    *)
(*                                                                         *)
(* Each queue operation is atomic (ProcessQueue.lock).  ProcessTask.lock   *)
(* is held across several steps only by the save goroutine, so every other *)
(* critical section is one step guarded by LockFree.  A segment is the     *)
(* number it got on entering the tsfiles channel.                          *)
(***************************************************************************)
EXTENDS Naturals, Sequences, SequencesExt

CONSTANTS
    MaxFinish,      \* maxFinishSegments, 9 in the code
    TsCap,          \* capacity of ProcessWorker.tsfiles, 1024 in the code
    AccidentCap,    \* capacity of AccidentWorker.msgs, 1024 in the code
    MaxSegments,    \* bound: segments that arrive
    MaxBoxes,       \* bound: boxes of a known category in one image
    MaxToolFails,   \* bound: failures of ffmpeg and ffprobe
    MaxRedisFails,  \* bound: failures of HSET
    Losable         \* bound: segments whose files may vanish from the disk

ASSUME TaskAssumption ==
    /\ MaxFinish \in Nat /\ MaxSegments \in Nat /\ MaxBoxes \in Nat
    /\ TsCap \in Nat /\ AccidentCap \in Nat
    /\ MaxToolFails \in Nat /\ MaxRedisFails \in Nat
    /\ Losable \subseteq Nat

VARIABLES
    tsfiles,    \* channel of TS objects, newest last
    live,       \* LiveQueue.Segments
    detect,     \* DetectQueue.Segments
    finish,     \* FinishQueue.Segments
    accidents,  \* AccidentWorker.msgs: the segment each message points to
    pc,         \* where each goroutine is
    seg,        \* the segment each goroutine holds in a local variable
    boxes,      \* boxes the detect goroutine still has to report
    tsOnDisk,   \* segments whose TS file exists
    imgOnDisk,  \* segments whose extracted image exists
    orphans,    \* segments of which a failed extraction left an image behind
    signal,     \* signalPersistence holds a value
    snap,       \* the marshalled task, while the save goroutine writes it
    saved,      \* the task stored in redis
    arrived,    \* number of segments that entered tsfiles
    toolFails, redisFails,
    lost,       \* history: segments that lost a file to the environment
    stale       \* history: a change nobody has to save yet (see Persistence)

queues == <<tsfiles, live, detect, finish>>
disk == <<tsOnDisk, imgOnDisk, orphans>>
store == <<signal, snap, saved, redisFails, stale>>
vars == <<queues, accidents, pc, seg, boxes, disk, store, arrived, toolFails, lost>>

Goroutine == {"rx", "live", "detect", "finish", "save", "accident"}

Segment == 1..MaxSegments
None == 0

Location == {"idle", "lock", "enqueue", "extract", "move", "post", "add", "probe",
             "dequeue", "hand", "drop", "dispose", "notify", "copy",
             "readDetect", "readFinish", "hset"}

\* What json.Marshal writes of the task, as far as a reload would need it.
Snapshot == [live : Seq(Segment), detect : Seq(Segment), finish : Seq(Segment)]
NoSnapshot == [live |-> <<>>, detect |-> <<>>, finish |-> <<>>]
Current == [live |-> live, detect |-> detect, finish |-> finish]

\* The shape of the state: queues of segments, each goroutine at one of its places.
TypeOK ==
    /\ tsfiles \in Seq(Segment) /\ live \in Seq(Segment)
    /\ detect \in Seq(Segment) /\ finish \in Seq(Segment)
    /\ accidents \in Seq(Segment)
    /\ pc \in [Goroutine -> Location]
    /\ seg \in [Goroutine -> Segment \cup {None}]
    /\ boxes \in 0..MaxBoxes
    /\ tsOnDisk \subseteq Segment /\ imgOnDisk \subseteq Segment /\ orphans \subseteq Segment
    /\ signal \in BOOLEAN /\ stale \in BOOLEAN
    /\ snap \in Snapshot /\ saved \in Snapshot
    /\ arrived \in 0..MaxSegments
    /\ toolFails \in 0..MaxToolFails /\ redisFails \in 0..MaxRedisFails
    /\ lost \subseteq Segment

Init ==
    /\ tsfiles = <<>> /\ live = <<>> /\ detect = <<>> /\ finish = <<>>
    /\ accidents = <<>>
    /\ pc = [g \in Goroutine |-> "idle"]
    /\ seg = [g \in Goroutine |-> None]
    /\ boxes = 0
    /\ tsOnDisk = {} /\ imgOnDisk = {} /\ orphans = {}
    /\ signal = FALSE /\ stale = FALSE
    /\ snap = NoSnapshot /\ saved = NoSnapshot
    /\ arrived = 0 /\ toolFails = 0 /\ redisFails = 0
    /\ lost = {}

--------------------------------------------------------------------------------
\* Moving a goroutine.

Goto(g, l) == pc' = [pc EXCEPT ![g] = l] /\ UNCHANGED seg

\* Goroutine g reads s into its local variable and goes on at l.
Hold(g, s, l) == pc' = [pc EXCEPT ![g] = l] /\ seg' = [seg EXCEPT ![g] = s]

\* The driver returns; its loop calls it again after a pause.
Return(g) == Hold(g, None, "idle")

\* No goroutine holds ProcessTask.lock across steps but the one in saveTask.
NoLock == TRUE
LockFree == pc["save"] \in {"idle", "lock"}

\* ProcessQueue.dequeue: the first entry that is this very segment.
DequeueNewest(q, s) == SubSeq(q, 1, Len(q) - 1)
Dequeue(q, s) == RemoveFirst(q, s)

--------------------------------------------------------------------------------
\* Segments enter: DetectWorker copied the TS file and sends the object.

Arrive ==
    /\ arrived < MaxSegments
    /\ Len(tsfiles) < TsCap
    /\ arrived' = arrived + 1
    /\ tsfiles' = Append(tsfiles, arrived + 1)
    /\ tsOnDisk' = tsOnDisk \cup {arrived + 1}
    /\ UNCHANGED <<live, detect, finish, accidents, pc, seg, boxes, imgOnDisk, orphans,
                   store, toolFails, lost>>

ReceiveTs ==
    /\ pc["rx"] = "idle" /\ tsfiles # <<>>
    /\ Hold("rx", Head(tsfiles), "lock")
    /\ tsfiles' = Tail(tsfiles)
    /\ UNCHANGED <<live, detect, finish, accidents, boxes, disk, store, arrived,
                   toolFails, lost>>

\* OnTsSegment locks and unlocks at once: it waits for a save that is running
\* and excludes none that starts before the enqueue below.
PassLock ==
    /\ pc["rx"] = "lock" /\ LockFree
    /\ Goto("rx", "enqueue")
    /\ UNCHANGED <<queues, accidents, boxes, disk, store, arrived, toolFails, lost>>

EnqueueLive ==
    /\ pc["rx"] = "enqueue"
    /\ live' = Append(live, seg["rx"])
    /\ Goto("rx", "notify")
    /\ UNCHANGED <<tsfiles, detect, finish, accidents, boxes, disk, store, arrived,
                   toolFails, lost>>

--------------------------------------------------------------------------------
\* DriveLiveQueue.

DetectHasRoomLate == Len(detect) <= MaxFinish + 1
DetectHasRoomShared == Len(detect) + Len(finish) < MaxFinish
DetectHasRoom == Len(detect) < MaxFinish + 1

\* count, first, os.Stat and the check of the detect queue in one step: only this
\* driver takes from live and adds to detect, so the segment stays the head and
\* the room it saw does not shrink before the next step.
BeginLive ==
    /\ pc["live"] = "idle" /\ live # <<>>
    /\ \/ /\ Head(live) \notin tsOnDisk
          /\ Hold("live", Head(live), "drop")
       \/ /\ Head(live) \in tsOnDisk
          /\ DetectHasRoom
          /\ Hold("live", Head(live), "extract")
    /\ UNCHANGED <<queues, accidents, boxes, disk, store, arrived, toolFails, lost>>

\* An external tool on goroutine g's TS file fails: the file is gone, or one of
\* the MaxToolFails other failures happens.
ToolFails(g) ==
    \/ seg[g] \notin tsOnDisk /\ UNCHANGED toolFails
    \/ toolFails < MaxToolFails /\ toolFails' = toolFails + 1

\* ffmpeg, twice in parallel, then os.Stat of the image.  On an error the
\* segment stays at the head of live and the driver comes back to it; the image,
\* which the first ffmpeg may have written by then, stays under a name nobody keeps.
ExtractUnchecked ==
    /\ pc["live"] = "extract"
    /\ imgOnDisk' \in {imgOnDisk, imgOnDisk \cup {seg["live"]}}
    /\ Goto("live", "move")
    /\ UNCHANGED <<queues, accidents, boxes, tsOnDisk, orphans, store, arrived, toolFails,
                   lost>>

Extract ==
    /\ pc["live"] = "extract"
    /\ \/ /\ seg["live"] \in tsOnDisk
          /\ imgOnDisk' = imgOnDisk \cup {seg["live"]}
          /\ Goto("live", "move")
          /\ UNCHANGED <<toolFails, orphans>>
       \/ /\ ToolFails("live")
          /\ orphans' \in {orphans, orphans \cup {seg["live"]}}
          /\ Return("live")
          /\ UNCHANGED imgOnDisk
    /\ UNCHANGED <<queues, accidents, boxes, tsOnDisk, store, arrived, lost>>

MoveToDetect ==
    /\ pc["live"] = "move" /\ LockFree
    /\ live' = Dequeue(live, seg["live"])
    /\ detect' = Append(detect, seg["live"])
    /\ Goto("live", "notify")
    /\ UNCHANGED <<tsfiles, finish, accidents, boxes, disk, store, arrived, toolFails,
                   lost>>

\* The TS file is gone: dequeue, and nobody is told to save the change.
DropLive ==
    /\ pc["live"] = "drop" /\ LockFree
    /\ live' = Dequeue(live, seg["live"])
    /\ stale' = TRUE
    /\ Goto("live", "dispose")
    /\ UNCHANGED <<tsfiles, detect, finish, accidents, boxes, disk, signal, snap, saved,
                   redisFails, arrived, toolFails, lost>>

--------------------------------------------------------------------------------
\* DriveDetectQueue.

BeginDetect ==
    /\ pc["detect"] = "idle" /\ detect # <<>>
    /\ Hold("detect", Head(detect),
            IF Head(detect) \in imgOnDisk THEN "post" ELSE "drop")
    /\ UNCHANGED <<queues, accidents, boxes, disk, store, arrived, toolFails, lost>>

\* Read the image and post it.  An error of the AI server is only logged, which
\* is no box; a read error returns with the segment still queued.
PostImage ==
    /\ pc["detect"] = "post"
    /\ \/ /\ seg["detect"] \in imgOnDisk
          /\ boxes' \in 0..MaxBoxes
          /\ Goto("detect", IF boxes' = 0 THEN "probe" ELSE "add")
       \/ /\ seg["detect"] \notin imgOnDisk
          /\ Return("detect")
          /\ UNCHANGED boxes
    /\ UNCHANGED <<queues, accidents, disk, store, arrived, toolFails, lost>>

\* OnAccidentAdded blocks while the channel is full.
AddAccidentOnceMore ==
    /\ pc["detect"] = "add"
    /\ Len(accidents) < AccidentCap
    /\ accidents' = Append(accidents, seg["detect"])
    /\ boxes' = boxes - 1
    /\ Goto("detect", IF boxes = 0 THEN "probe" ELSE "add")
    /\ UNCHANGED <<queues, disk, store, arrived, toolFails, lost>>

AddAccident ==
    /\ pc["detect"] = "add"
    /\ Len(accidents) < AccidentCap
    /\ accidents' = Append(accidents, seg["detect"])
    /\ boxes' = boxes - 1
    /\ Goto("detect", IF boxes' = 0 THEN "probe" ELSE "add")
    /\ UNCHANGED <<queues, disk, store, arrived, toolFails, lost>>

\* ffprobe runs after the accidents are reported; when it fails the segment
\* stays at the head and is posted and reported again.
ProbeRequeues ==
    /\ pc["detect"] = "probe"
    /\ \/ /\ seg["detect"] \in tsOnDisk
          /\ Goto("detect", "dequeue")
          /\ UNCHANGED <<detect, toolFails>>
       \/ /\ ToolFails("detect")
          /\ detect' = Append(Tail(detect), seg["detect"])
          /\ Return("detect")
    /\ UNCHANGED <<tsfiles, live, finish, accidents, boxes, disk, store, arrived, lost>>

Probe ==
    /\ pc["detect"] = "probe"
    /\ \/ /\ seg["detect"] \in tsOnDisk
          /\ Goto("detect", "dequeue")
          /\ UNCHANGED toolFails
       \/ /\ ToolFails("detect")
          /\ Return("detect")
    /\ UNCHANGED <<queues, accidents, boxes, disk, store, arrived, lost>>

\* Dequeue and enqueue are two critical sections: in between the segment is in
\* no queue.
TakeFromDetect ==
    /\ pc["detect"] = "dequeue" /\ LockFree
    /\ detect' = Dequeue(detect, seg["detect"])
    /\ Goto("detect", "hand")
    /\ UNCHANGED <<tsfiles, live, finish, accidents, boxes, disk, store, arrived,
                   toolFails, lost>>

HandToFinish ==
    /\ pc["detect"] = "hand" /\ LockFree
    /\ finish' = Append(finish, seg["detect"])
    /\ Goto("detect", "notify")
    /\ UNCHANGED <<tsfiles, live, detect, accidents, boxes, disk, store, arrived,
                   toolFails, lost>>

DropDetect ==
    /\ pc["detect"] = "drop" /\ LockFree
    /\ detect' = Dequeue(detect, seg["detect"])
    /\ stale' = TRUE
    /\ Goto("detect", "dispose")
    /\ UNCHANGED <<tsfiles, live, finish, accidents, boxes, disk, signal, snap, saved,
                   redisFails, arrived, toolFails, lost>>

--------------------------------------------------------------------------------
\* DriveFinishQueue.

FinishFullEarly == Len(finish) >= MaxFinish
FinishFull == Len(finish) > MaxFinish

BeginFinish ==
    /\ pc["finish"] = "idle"
    /\ FinishFull
    /\ Hold("finish", Head(finish), "dequeue")
    /\ UNCHANGED <<queues, accidents, boxes, disk, store, arrived, toolFails, lost>>

TakeFromFinish ==
    /\ pc["finish"] = "dequeue" /\ LockFree
    /\ finish' = Dequeue(finish, seg["finish"])
    /\ Goto("finish", "notify")
    /\ UNCHANGED <<tsfiles, live, detect, accidents, boxes, disk, store, arrived,
                   toolFails, lost>>

--------------------------------------------------------------------------------
\* Steps the drivers share.

\* notifyPersistence: a non-blocking send on a channel of capacity 1.  The
\* deferred Dispose of the finish driver runs after it.
NotifyIdleSaver(g) ==
    /\ pc[g] = "notify"
    /\ signal' = (signal \/ pc["save"] = "idle")
    /\ IF g = "finish" THEN Goto(g, "dispose") ELSE Return(g)
    /\ UNCHANGED <<queues, accidents, boxes, disk, snap, saved, redisFails, stale,
                   arrived, toolFails, lost>>

NotifyUnlessFinish(g) ==
    /\ pc[g] = "notify"
    /\ signal' = (signal \/ g # "finish")
    /\ IF g = "finish" THEN Goto(g, "dispose") ELSE Return(g)
    /\ UNCHANGED <<queues, accidents, boxes, disk, snap, saved, redisFails, stale,
                   arrived, toolFails, lost>>

Notify(g) ==
    /\ pc[g] = "notify"
    /\ signal' = TRUE
    /\ IF g = "finish" THEN Goto(g, "dispose") ELSE Return(g)
    /\ UNCHANGED <<queues, accidents, boxes, disk, snap, saved, redisFails, stale,
                   arrived, toolFails, lost>>

\* ProcessSegment.Dispose removes what is left of the segment's files.
DisposeTs(g) ==
    /\ pc[g] = "dispose"
    /\ tsOnDisk' = tsOnDisk \ {seg[g]}
    /\ Return(g)
    /\ UNCHANGED <<queues, accidents, boxes, imgOnDisk, orphans, store, arrived, toolFails,
                   lost>>

Dispose(g) ==
    /\ pc[g] = "dispose"
    /\ tsOnDisk' = tsOnDisk \ {seg[g]}
    /\ imgOnDisk' = imgOnDisk \ {seg[g]}
    /\ Return(g)
    /\ UNCHANGED <<queues, accidents, boxes, orphans, store, arrived, toolFails, lost>>

--------------------------------------------------------------------------------
\* Persistence: doProcess waits for the signal, saveTask marshals and writes
\* under the lock.

WakeSave ==
    /\ pc["save"] = "idle" /\ signal
    /\ signal' = FALSE
    /\ Goto("save", "lock")
    /\ UNCHANGED <<queues, accidents, boxes, disk, snap, saved, redisFails, stale,
                   arrived, toolFails, lost>>

\* json.Marshal reads the queues in the order of the fields, under the lock.
MarshalLive ==
    /\ pc["save"] = "lock"
    /\ snap' = [snap EXCEPT !.live = live]
    /\ stale' = FALSE
    /\ Goto("save", "readDetect")
    /\ UNCHANGED <<queues, accidents, boxes, disk, signal, saved, redisFails, arrived,
                   toolFails, lost>>

MarshalDetect ==
    /\ pc["save"] = "readDetect"
    /\ snap' = [snap EXCEPT !.detect = detect]
    /\ Goto("save", "readFinish")
    /\ UNCHANGED <<queues, accidents, boxes, disk, signal, saved, redisFails, stale,
                   arrived, toolFails, lost>>

MarshalFinish ==
    /\ pc["save"] = "readFinish"
    /\ snap' = [snap EXCEPT !.finish = finish]
    /\ Goto("save", "hset")
    /\ UNCHANGED <<queues, accidents, boxes, disk, signal, saved, redisFails, stale,
                   arrived, toolFails, lost>>

\* The reply of HSET.  A failed call may have been applied or not; nobody
\* sends the consumed signal again.
HSet ==
    /\ pc["save"] = "hset"
    /\ Goto("save", "idle")
    /\ snap' = NoSnapshot
    /\ \/ saved' = snap /\ UNCHANGED <<redisFails, stale>>
       \/ /\ redisFails < MaxRedisFails
          /\ redisFails' = redisFails + 1
          /\ saved' \in {saved, snap}
          /\ stale' = TRUE
    /\ UNCHANGED <<queues, accidents, boxes, disk, signal, arrived, toolFails, lost>>

--------------------------------------------------------------------------------
\* The accident worker takes a message, then copies the TS file it names.

ReceiveAccident ==
    /\ pc["accident"] = "idle" /\ accidents # <<>>
    /\ Hold("accident", Head(accidents), "copy")
    /\ accidents' = Tail(accidents)
    /\ UNCHANGED <<queues, boxes, disk, store, arrived, toolFails, lost>>

CopyEvidence ==
    /\ pc["accident"] = "copy"
    /\ Return("accident")
    /\ UNCHANGED <<queues, accidents, boxes, disk, store, arrived, toolFails, lost>>

\* Somebody outside the program removes a file.
LoseFile(s) ==
    /\ \/ s \in tsOnDisk /\ tsOnDisk' = tsOnDisk \ {s} /\ UNCHANGED imgOnDisk
       \/ s \in imgOnDisk /\ imgOnDisk' = imgOnDisk \ {s} /\ UNCHANGED tsOnDisk
    /\ lost' = lost \cup {s}
    /\ UNCHANGED <<queues, accidents, pc, seg, boxes, orphans, store, arrived, toolFails>>

--------------------------------------------------------------------------------
Rx == ReceiveTs \/ PassLock \/ EnqueueLive \/ Notify("rx")
DriveLive == BeginLive \/ Extract \/ MoveToDetect \/ DropLive \/ Notify("live")
                \/ Dispose("live")
DriveDetect == BeginDetect \/ PostImage \/ AddAccident \/ Probe \/ TakeFromDetect
                \/ HandToFinish \/ DropDetect \/ Notify("detect") \/ Dispose("detect")
DriveFinish == BeginFinish \/ TakeFromFinish \/ Notify("finish") \/ Dispose("finish")
Save == WakeSave \/ MarshalLive \/ MarshalDetect \/ MarshalFinish \/ HSet
Accident == ReceiveAccident \/ CopyEvidence

Next ==
    \/ Arrive
    \/ Rx \/ DriveLive \/ DriveDetect \/ DriveFinish \/ Save
    \/ Accident
    \/ \E s \in Losable : LoseFile(s)

Spec == Init /\ [][Next]_vars

\* Each goroutine is a loop with bounded pauses, and a goroutine that waits for
\* ProcessTask.lock gets it (sync.Mutex does not starve a waiter).
Fairness ==
    /\ WF_vars(Rx) /\ WF_vars(DriveLive) /\ WF_vars(DriveDetect)
    /\ WF_vars(DriveFinish) /\ WF_vars(Save) /\ WF_vars(Accident)

FairSpec == Spec /\ Fairness

--------------------------------------------------------------------------------
\* Properties.

\* The segments between two queues, oldest first.
InHand(g, locations) == IF pc[g] \in locations THEN <<seg[g]>> ELSE <<>>

\* Everything the task holds, oldest first.
Pipeline ==
    finish \o InHand("detect", {"hand"}) \o detect \o live
           \o InHand("rx", {"lock", "enqueue"}) \o tsfiles

Increasing(q) == \A i, j \in 1..Len(q) : i < j => q[i] < q[j]

\* Hand-overs neither duplicate a segment nor change the order of two, although
\* each queue is changed by two goroutines and each dequeue acts on a segment
\* read before the lock was taken.
FifoOrder == Increasing(Pipeline)

\* No hand-over drops a segment: one that did not lose a file leaves the task
\* only when maxFinishSegments newer ones are finished, so a player that reads
\* the playlist always finds the newest ones.
NoSegmentLost ==
    \A s \in 1..arrived :
        \/ s \in Range(Pipeline) \cup lost
        \/ /\ Len(finish) >= MaxFinish
           /\ \A i \in 1..Len(finish) : s < finish[i]

\* The detect queue stays at its limit although the room is checked long before
\* the segment is added and without a lock.
DetectBound == Len(detect) <= MaxFinish + 1

\* What a queue refers to exists: the TS file of every held segment, so that the
\* playlist and the accident worker can read it, and the image of every segment
\* past extraction, unless the environment removed one.
FilesPresent ==
    \A s \in Range(Pipeline) \ lost :
        /\ s \in tsOnDisk
        /\ s \in Range(finish \o InHand("detect", {"hand"}) \o detect) => s \in imgOnDisk

\* No file outlives its segment but the images of failed extractions ("TODO: FIXME:
\* Cleanup the failed file", process.go:743): any other file belongs to a segment that is
\* held or that a driver is about to dispose of, and an image is left behind only by a
\* tool that failed or of a segment whose files vanished.
NoFileLeak ==
    /\ \A s \in tsOnDisk \cup imgOnDisk :
         \/ s \in Range(Pipeline)
         \/ \E g \in Goroutine : pc[g] \in {"notify", "dispose"} /\ seg[g] = s
    /\ \A s \in orphans : s \in lost \/ toolFails > 0

\* The snapshot being written will be the current task.
SnapCurrent ==
    /\ pc["save"] \in {"readDetect", "readFinish", "hset"}
    /\ snap.live = live
    /\ pc["save"] \in {"readFinish", "hset"} => snap.detect = detect
    /\ pc["save"] = "hset" => snap.finish = finish

\* Coalescing the signals loses none: while redis is behind the task, a save is
\* due, running with what is current, or a driver is about to signal.  Dropped
\* segments and failed writes, recorded in stale, wait for the next signal.
NoLostWakeup ==
    \/ saved = Current
    \/ stale \/ signal \/ pc["save"] = "lock" \/ SnapCurrent
    \/ pc["detect"] = "hand"
    \/ \E g \in Goroutine : pc[g] = "notify"

\* A stored task holds no segment twice and none out of order, whichever
\* hand-overs run while it is marshalled queue by queue.
SnapshotOrdered == Increasing(saved.finish \o saved.detect \o saved.live)

\* Accidents reach the accident worker in the order of the stream, also when a
\* failed ffprobe reports a segment's accidents again.
AccidentOrder ==
    LET q == InHand("accident", {"copy"}) \o accidents
    IN \A i, j \in 1..Len(q) : i < j => q[i] <= q[j]

\* Every segment that arrives gets through detection, when the files stay and the
\* tools do not fail for ever: it is finished, or a newer one is.
Processed ==
    \A s \in 1..MaxSegments :
        s <= arrived ~> \E i \in 1..Len(finish) : s <= finish[i]

\* When the stream pauses, redis gets the current task.
Persisted == <>[](saved = Current)

\* The task implements the FIFO with a window of MaxFinish segments.
Fifo == INSTANCE SegmentFifo WITH
            Window <- MaxFinish, pipe <- Pipeline, accepted <- arrived
ImplementsFifo == Fifo!Spec
================================================================================
