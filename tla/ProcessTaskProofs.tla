--------------------------- MODULE ProcessTaskProofs ---------------------------
(***************************************************************************)
(* Proofs about ProcessTask for every value of its constants.  The         *)
(* inductive invariant has five parts: the types, where each goroutine can *)
(* be (Control), that a segment a driver read before taking the lock is    *)
(* still the head of its queue (HoldsHead), that the detect queue has room *)
(* for what is on its way to it (Room), and that the segments are held in  *)
(* the order they arrived (Ordered).  On it rest three smaller ones, for   *)
(* what is stored (SaveDue, SnapOrdered) and what is reported              *)
(* (ReportedFirst).                                                        *)
(***************************************************************************)
EXTENDS ProcessTask, SequenceTheorems, TLAPS

\* Where each goroutine can be, and that it has a segment in its hands there.
Control ==
    /\ pc["rx"] \in {"idle", "lock", "enqueue", "notify"}
    /\ pc["live"] \in {"idle", "extract", "move", "drop", "notify", "dispose"}
    /\ pc["detect"] \in {"idle", "post", "add", "probe", "dequeue", "hand", "drop",
                         "notify", "dispose"}
    /\ pc["finish"] \in {"idle", "dequeue", "notify", "dispose"}
    /\ pc["save"] \in {"idle", "lock", "readDetect", "readFinish", "hset"}
    /\ pc["accident"] \in {"idle", "copy"}
    /\ \A g \in Goroutine \ {"save"} : pc[g] # "idle" => seg[g] \in Segment
    /\ pc["detect"] = "add" => boxes > 0

\* A driver that works on a segment works on the head of its queue: no other
\* goroutine takes from that queue.
HoldsHead ==
    /\ pc["live"] \in {"extract", "move", "drop"} =>
          live # <<>> /\ seg["live"] = Head(live)
    /\ pc["detect"] \in {"post", "add", "probe", "dequeue", "drop"} =>
          detect # <<>> /\ seg["detect"] = Head(detect)
    /\ pc["finish"] = "dequeue" =>
          Len(finish) > MaxFinish /\ seg["finish"] = Head(finish)

\* The room that the live driver saw in the detect queue is still there.
Room ==
    /\ Len(detect) <= MaxFinish + 1
    /\ pc["live"] \in {"extract", "move"} => Len(detect) < MaxFinish + 1

--------------------------------------------------------------------------------
\* Lemmas about sequences.

\* dequeue of the head leaves the tail.
LEMMA DequeueHead ==
    ASSUME NEW S, NEW q \in Seq(S), q # <<>>
    PROVE  Dequeue(q, Head(q)) = Tail(q)
<1>1. SelectInSeq(q, LAMBDA v : v = Head(q)) = 1
  BY DEF SelectInSeq, Min
<1>2. RemoveAt(q, 1) = Tail(q)
  <2>1. SubSeq(q, 1, 0) = <<>>
    BY SubSeqEmpty
  <2>2. Tail(q) = SubSeq(q, 2, Len(q))
    BY TailIsSubSeq
  <2>3. Tail(q) \in Seq(S)
    BY HeadTailProperties
  <2>. QED BY <2>1, <2>2, <2>3, ConcatEmptySeq DEF RemoveAt
<1>3. \E i \in 1..Len(q) : q[i] = Head(q)
  BY HeadTailProperties
<1>. QED BY <1>1, <1>2, <1>3 DEF RemoveFirst, Dequeue

\* dequeue of any segment yields a queue of segments.
LEMMA DequeueType ==
    ASSUME NEW S, NEW q \in Seq(S), q # <<>>
    PROVE  /\ Head(q) \in S
           /\ Dequeue(q, Head(q)) \in Seq(S)
           /\ Len(Dequeue(q, Head(q))) = Len(q) - 1
BY DequeueHead, HeadTailProperties

\* enqueue leaves the head where it is.
LEMMA AppendHead ==
    ASSUME NEW S, NEW q \in Seq(S), NEW e \in S
    PROVE  /\ Append(q, e) # <<>>
           /\ q # <<>> => Head(Append(q, e)) = Head(q)
           /\ Len(Append(q, e)) = Len(q) + 1
BY AppendProperties, HeadTailAppend

\* The elements of a sequence after enqueueing one.
LEMMA RangeAppend ==
    ASSUME NEW S, NEW q \in Seq(S), NEW e \in S
    PROVE  Range(Append(q, e)) = Range(q) \cup {e}
<1>1. /\ DOMAIN Append(q, e) = 1..(Len(q) + 1) /\ DOMAIN q = 1..Len(q) /\ Len(q) \in Nat
      /\ Append(q, e)[Len(q) + 1] = e
      /\ \A i \in 1..Len(q) : Append(q, e)[i] = q[i]
  OBVIOUS
<1>2. Range(Append(q, e)) \subseteq Range(q) \cup {e}
  BY <1>1 DEF Range
<1>3. Range(q) \cup {e} \subseteq Range(Append(q, e))
  BY <1>1 DEF Range
<1>. QED BY <1>2, <1>3

\* The head is an element, and the tail has no others.
LEMMA HeadInRange ==
    ASSUME NEW S, NEW q \in Seq(S), q # <<>>
    PROVE  Head(q) \in Range(q) /\ Range(Tail(q)) \subseteq Range(q)
BY DEF Range

--------------------------------------------------------------------------------
\* Types, control and the heads of the queues.

Core == TypeOK /\ Control /\ HoldsHead /\ Room

\* The initial state has its type and satisfies the invariant's other parts but the order.
LEMMA InitCore == Init => Core
<1>. SUFFICES ASSUME Init PROVE Core
  OBVIOUS
<1>1. TypeOK
  <2>1. NoSnapshot \in Snapshot
    BY DEF NoSnapshot, Snapshot
  <2>2. pc \in [Goroutine -> Location] /\ seg \in [Goroutine -> Segment \cup {None}]
    BY DEF Init, Goroutine, Location
  <2>3. tsfiles \in Seq(Segment) /\ live \in Seq(Segment) /\ accidents \in Seq(Segment) BY DEF Init
  <2>4. detect \in Seq(Segment) /\ finish \in Seq(Segment) BY DEF Init
  <2>5. boxes \in 0..MaxBoxes /\ arrived \in 0..MaxSegments BY TaskAssumption DEF Init, TaskAssumption
  <2>6. toolFails \in 0..MaxToolFails /\ redisFails \in 0..MaxRedisFails BY TaskAssumption DEF Init, TaskAssumption
  <2>7. /\ tsOnDisk \subseteq Segment /\ imgOnDisk \subseteq Segment
        /\ orphans \subseteq Segment /\ lost \subseteq Segment
    BY DEF Init
  <2>8. snap \in Snapshot /\ saved \in Snapshot BY <2>1 DEF Init
  <2>9. signal \in BOOLEAN /\ stale \in BOOLEAN BY DEF Init
  <2>. QED BY <2>2, <2>3, <2>4, <2>5, <2>6, <2>7, <2>8, <2>9 DEF TypeOK
<1>2. Control /\ HoldsHead /\ Room
  BY TaskAssumption DEF Init, Control, HoldsHead, Room, Goroutine
<1>. QED BY <1>1, <1>2 DEF Core

\* Every step keeps the types; one proof step per action.
LEMMA TypeStep == Core /\ [Next]_vars => TypeOK'
<1>. SUFFICES ASSUME Core, [Next]_vars
              PROVE  TypeOK'
  OBVIOUS
<1>. USE DEF Core, TypeOK, Control, HoldsHead, Goroutine, Location, store, queues, disk, Goto, Hold, Return
<1>1. CASE Arrive
  <2>1. arrived + 1 \in Segment
    BY <1>1, TaskAssumption DEF Arrive, Segment, TaskAssumption
  <2>2. arrived' \in 0..MaxSegments
    BY <1>1, TaskAssumption DEF Arrive, TaskAssumption
  <2>. QED BY <1>1, <2>1, <2>2 DEF Arrive
<1>2. CASE ReceiveTs
  BY <1>2 DEF ReceiveTs
<1>3. CASE PassLock
  BY <1>3 DEF PassLock
<1>4. CASE EnqueueLive
  BY <1>4 DEF EnqueueLive
<1>5. CASE BeginLive
  BY <1>5 DEF BeginLive
<1>6. CASE Extract
  <2>1. toolFails' \in 0..MaxToolFails
    BY <1>6, TaskAssumption DEF Extract, ToolFails, TaskAssumption
  <2>. QED BY <1>6, <2>1 DEF Extract
<1>7. CASE MoveToDetect
  <2>1. live \in Seq(Segment) /\ live # <<>> /\ seg["live"] = Head(live)
    BY <1>7, TaskAssumption DEF TaskAssumption, MoveToDetect
  <2>2. Dequeue(live, seg["live"]) \in Seq(Segment)
    BY <2>1, DequeueType
  <2>. QED BY <1>7, <2>2 DEF MoveToDetect
<1>8. CASE DropLive
  <2>1. live \in Seq(Segment) /\ live # <<>> /\ seg["live"] = Head(live)
    BY <1>8, TaskAssumption DEF TaskAssumption, DropLive
  <2>2. Dequeue(live, seg["live"]) \in Seq(Segment)
    BY <2>1, DequeueType
  <2>. QED BY <1>8, <2>2 DEF DropLive
<1>9. CASE BeginDetect
  BY <1>9 DEF BeginDetect
<1>10. CASE PostImage
  BY <1>10 DEF PostImage
<1>11. CASE AddAccident
  <2>1. boxes' \in 0..MaxBoxes
    BY <1>11, TaskAssumption DEF AddAccident, TaskAssumption
  <2>2. accidents' \in Seq(Segment)
    BY <1>11, AppendProperties DEF AddAccident
  <2>. QED BY <1>11, <2>1, <2>2 DEF AddAccident
<1>12. CASE Probe
  <2>1. toolFails' \in 0..MaxToolFails
    BY <1>12, TaskAssumption DEF Probe, ToolFails, TaskAssumption
  <2>. QED BY <1>12, <2>1 DEF Probe
<1>13. CASE TakeFromDetect
  <2>1. detect \in Seq(Segment) /\ detect # <<>> /\ seg["detect"] = Head(detect)
    BY <1>13, TaskAssumption DEF TaskAssumption, TakeFromDetect
  <2>2. Dequeue(detect, seg["detect"]) \in Seq(Segment)
    BY <2>1, DequeueType
  <2>. QED BY <1>13, <2>2 DEF TakeFromDetect
<1>14. CASE HandToFinish
  BY <1>14 DEF HandToFinish
<1>15. CASE DropDetect
  <2>1. detect \in Seq(Segment) /\ detect # <<>> /\ seg["detect"] = Head(detect)
    BY <1>15, TaskAssumption DEF TaskAssumption, DropDetect
  <2>2. Dequeue(detect, seg["detect"]) \in Seq(Segment)
    BY <2>1, DequeueType
  <2>. QED BY <1>15, <2>2 DEF DropDetect
<1>16. CASE BeginFinish
  <2>1. finish # <<>>
    BY <1>16, TaskAssumption DEF BeginFinish, FinishFull, TaskAssumption
  <2>. QED BY <1>16, <2>1 DEF BeginFinish
<1>17. CASE TakeFromFinish
  <2>1. finish \in Seq(Segment) /\ finish # <<>> /\ seg["finish"] = Head(finish)
    BY <1>17, TaskAssumption DEF TaskAssumption, TakeFromFinish
  <2>2. Dequeue(finish, seg["finish"]) \in Seq(Segment)
    BY <2>1, DequeueType
  <2>. QED BY <1>17, <2>2 DEF TakeFromFinish
<1>18. CASE WakeSave
  BY <1>18 DEF WakeSave
<1>19. CASE MarshalLive
  <2>1. snap' \in Snapshot
    BY <1>19 DEF MarshalLive, Snapshot
  <2>. QED BY <1>19, <2>1 DEF MarshalLive
<1>20. CASE MarshalDetect
  <2>1. snap' \in Snapshot
    BY <1>20 DEF MarshalDetect, Snapshot
  <2>. QED BY <1>20, <2>1 DEF MarshalDetect
<1>21. CASE MarshalFinish
  <2>1. snap' \in Snapshot
    BY <1>21 DEF MarshalFinish, Snapshot
  <2>. QED BY <1>21, <2>1 DEF MarshalFinish
<1>22. CASE HSet
  <2>1. snap' \in Snapshot /\ saved' \in Snapshot
    BY <1>22 DEF HSet, Snapshot, NoSnapshot
  <2>2. redisFails' \in 0..MaxRedisFails
    BY <1>22, TaskAssumption DEF HSet, TaskAssumption
  <2>. QED BY <1>22, <2>1, <2>2 DEF HSet
<1>23. CASE ReceiveAccident
  BY <1>23 DEF ReceiveAccident
<1>24. CASE CopyEvidence
  BY <1>24 DEF CopyEvidence
<1>25. ASSUME NEW g \in {"rx", "live", "detect", "finish"}, Notify(g)
      PROVE  TypeOK'
  BY <1>25 DEF Notify
<1>26. ASSUME NEW g \in {"live", "detect", "finish"}, Dispose(g)
      PROVE  TypeOK'
  BY <1>26 DEF Dispose
<1>27. ASSUME NEW s \in Losable, LoseFile(s)
      PROVE  TypeOK'
  BY <1>27 DEF LoseFile
<1>28. CASE UNCHANGED vars
  BY <1>28 DEF vars
<1>. QED
  BY <1>1, <1>2, <1>3, <1>4, <1>5, <1>6, <1>7, <1>8, <1>9, <1>10, <1>11, <1>12,
     <1>13, <1>14, <1>15, <1>16, <1>17, <1>18, <1>19, <1>20, <1>21, <1>22,
     <1>23, <1>24, <1>25, <1>26, <1>27, <1>28
     DEF Next, Rx, DriveLive, DriveDetect, DriveFinish, Save, Accident

\* Every step keeps each goroutine where its code can be, with a segment in hand.
LEMMA ControlStep == Core /\ [Next]_vars => Control'
<1>. SUFFICES ASSUME Core, [Next]_vars
              PROVE  Control'
  OBVIOUS
<1>. USE DEF Core, TypeOK, Control, HoldsHead, Goroutine, store, queues, disk, Goto, Hold, Return
<1>1. CASE Arrive
  BY <1>1 DEF Arrive
<1>2. CASE ReceiveTs
  BY <1>2 DEF ReceiveTs
<1>3. CASE PassLock
  BY <1>3 DEF PassLock
<1>4. CASE EnqueueLive
  BY <1>4 DEF EnqueueLive
<1>5. CASE BeginLive
  BY <1>5 DEF BeginLive
<1>6. CASE Extract
  BY <1>6 DEF Extract
<1>7. CASE MoveToDetect
  BY <1>7 DEF MoveToDetect
<1>8. CASE DropLive
  BY <1>8 DEF DropLive
<1>9. CASE BeginDetect
  BY <1>9 DEF BeginDetect
<1>10. CASE PostImage
  BY <1>10 DEF PostImage
<1>11. CASE AddAccident
  BY <1>11 DEF AddAccident
<1>12. CASE Probe
  BY <1>12 DEF Probe
<1>13. CASE TakeFromDetect
  BY <1>13 DEF TakeFromDetect
<1>14. CASE HandToFinish
  BY <1>14 DEF HandToFinish
<1>15. CASE DropDetect
  BY <1>15 DEF DropDetect
<1>16. CASE BeginFinish
  <2>1. finish # <<>>
    BY <1>16, TaskAssumption DEF BeginFinish, FinishFull, TaskAssumption
  <2>. QED BY <1>16, <2>1 DEF BeginFinish
<1>17. CASE TakeFromFinish
  BY <1>17 DEF TakeFromFinish
<1>18. CASE WakeSave
  BY <1>18 DEF WakeSave
<1>19. CASE MarshalLive
  BY <1>19 DEF MarshalLive
<1>20. CASE MarshalDetect
  BY <1>20 DEF MarshalDetect
<1>21. CASE MarshalFinish
  BY <1>21 DEF MarshalFinish
<1>22. CASE HSet
  BY <1>22 DEF HSet
<1>23. CASE ReceiveAccident
  BY <1>23 DEF ReceiveAccident
<1>24. CASE CopyEvidence
  BY <1>24 DEF CopyEvidence
<1>25. ASSUME NEW g \in {"rx", "live", "detect", "finish"}, Notify(g)
      PROVE  Control'
  BY <1>25 DEF Notify
<1>26. ASSUME NEW g \in {"live", "detect", "finish"}, Dispose(g)
      PROVE  Control'
  BY <1>26 DEF Dispose
<1>27. ASSUME NEW s \in Losable, LoseFile(s)
      PROVE  Control'
  BY <1>27 DEF LoseFile
<1>28. CASE UNCHANGED vars
  BY <1>28 DEF vars
<1>. QED
  BY <1>1, <1>2, <1>3, <1>4, <1>5, <1>6, <1>7, <1>8, <1>9, <1>10, <1>11, <1>12,
     <1>13, <1>14, <1>15, <1>16, <1>17, <1>18, <1>19, <1>20, <1>21, <1>22,
     <1>23, <1>24, <1>25, <1>26, <1>27, <1>28
     DEF Next, Rx, DriveLive, DriveDetect, DriveFinish, Save, Accident

\* No step of another goroutine changes the head a driver works on.
LEMMA HoldsHeadStep == Core /\ [Next]_vars => HoldsHead'
<1>. SUFFICES ASSUME Core, [Next]_vars
              PROVE  HoldsHead'
  OBVIOUS
<1>. USE DEF Core, TypeOK, Control, HoldsHead, Goroutine, store, queues, disk, Goto, Hold, Return
<1>1. CASE Arrive
  BY <1>1 DEF Arrive
<1>2. CASE ReceiveTs
  BY <1>2 DEF ReceiveTs
<1>3. CASE PassLock
  BY <1>3 DEF PassLock
<1>4. CASE EnqueueLive
  <2>1. live \in Seq(Segment) /\ seg["rx"] \in Segment
    BY <1>4 DEF EnqueueLive
  <2>. DEFINE added == Append(live, seg["rx"])
  <2>2. added # <<>> /\ (live # <<>> => Head(added) = Head(live)) /\ Len(added) = Len(live) + 1
    BY <2>1, AppendHead
  <2>3. live' = added
    BY <1>4 DEF EnqueueLive
  <2>. HIDE DEF added
  <2>. QED BY <1>4, <2>2, <2>3 DEF EnqueueLive
<1>5. CASE BeginLive
  BY <1>5 DEF BeginLive
<1>6. CASE Extract
  BY <1>6 DEF Extract
<1>7. CASE MoveToDetect
  <2>1. detect \in Seq(Segment) /\ seg["live"] \in Segment
    BY <1>7 DEF MoveToDetect
  <2>. DEFINE added == Append(detect, seg["live"])
  <2>2. added # <<>> /\ (detect # <<>> => Head(added) = Head(detect)) /\ Len(added) = Len(detect) + 1
    BY <2>1, AppendHead
  <2>3. detect' = added
    BY <1>7 DEF MoveToDetect
  <2>. HIDE DEF added
  <2>. QED BY <1>7, <2>2, <2>3 DEF MoveToDetect
<1>8. CASE DropLive
  BY <1>8 DEF DropLive
<1>9. CASE BeginDetect
  BY <1>9 DEF BeginDetect
<1>10. CASE PostImage
  BY <1>10 DEF PostImage
<1>11. CASE AddAccident
  BY <1>11 DEF AddAccident
<1>12. CASE Probe
  BY <1>12 DEF Probe
<1>13. CASE TakeFromDetect
  BY <1>13 DEF TakeFromDetect
<1>14. CASE HandToFinish
  <2>1. finish \in Seq(Segment) /\ seg["detect"] \in Segment
    BY <1>14 DEF HandToFinish
  <2>. DEFINE added == Append(finish, seg["detect"])
  <2>2. added # <<>> /\ (finish # <<>> => Head(added) = Head(finish)) /\ Len(added) = Len(finish) + 1
    BY <2>1, AppendHead
  <2>3. finish' = added
    BY <1>14 DEF HandToFinish
  <2>. HIDE DEF added
  <2>4. pc["finish"] = "dequeue" => finish # <<>>
    BY TaskAssumption DEF TaskAssumption
  <2>5. Len(finish) \in Nat /\ MaxFinish \in Nat
    BY TaskAssumption DEF TaskAssumption
  <2>. QED BY <1>14, <2>2, <2>3, <2>4, <2>5 DEF HandToFinish
<1>15. CASE DropDetect
  BY <1>15 DEF DropDetect
<1>16. CASE BeginFinish
  BY <1>16 DEF BeginFinish, FinishFull
<1>17. CASE TakeFromFinish
  BY <1>17 DEF TakeFromFinish
<1>18. CASE WakeSave
  BY <1>18 DEF WakeSave
<1>19. CASE MarshalLive
  BY <1>19 DEF MarshalLive
<1>20. CASE MarshalDetect
  BY <1>20 DEF MarshalDetect
<1>21. CASE MarshalFinish
  BY <1>21 DEF MarshalFinish
<1>22. CASE HSet
  BY <1>22 DEF HSet
<1>23. CASE ReceiveAccident
  BY <1>23 DEF ReceiveAccident
<1>24. CASE CopyEvidence
  BY <1>24 DEF CopyEvidence
<1>25. ASSUME NEW g \in {"rx", "live", "detect", "finish"}, Notify(g)
      PROVE  HoldsHead'
  BY <1>25 DEF Notify
<1>26. ASSUME NEW g \in {"live", "detect", "finish"}, Dispose(g)
      PROVE  HoldsHead'
  BY <1>26 DEF Dispose
<1>27. ASSUME NEW s \in Losable, LoseFile(s)
      PROVE  HoldsHead'
  BY <1>27 DEF LoseFile
<1>28. CASE UNCHANGED vars
  BY <1>28 DEF vars
<1>. QED
  BY <1>1, <1>2, <1>3, <1>4, <1>5, <1>6, <1>7, <1>8, <1>9, <1>10, <1>11, <1>12,
     <1>13, <1>14, <1>15, <1>16, <1>17, <1>18, <1>19, <1>20, <1>21, <1>22,
     <1>23, <1>24, <1>25, <1>26, <1>27, <1>28
     DEF Next, Rx, DriveLive, DriveDetect, DriveFinish, Save, Accident

\* No step takes the room the live driver saw in the detect queue.
LEMMA RoomStep == Core /\ [Next]_vars => Room'
<1>. SUFFICES ASSUME Core, [Next]_vars
              PROVE  Room'
  OBVIOUS
<1>. USE DEF Core, TypeOK, Control, HoldsHead, Room, Goroutine, store, queues, disk, Goto, Hold, Return
<1>1. CASE Arrive
  BY <1>1 DEF Arrive
<1>2. CASE ReceiveTs
  BY <1>2 DEF ReceiveTs
<1>3. CASE PassLock
  BY <1>3 DEF PassLock
<1>4. CASE EnqueueLive
  BY <1>4 DEF EnqueueLive
<1>5. CASE BeginLive
  BY <1>5 DEF BeginLive, DetectHasRoom
<1>6. CASE Extract
  BY <1>6 DEF Extract
<1>7. CASE MoveToDetect
  <2>1. Len(detect') = Len(detect) + 1 /\ Len(detect) \in Nat /\ MaxFinish \in Nat
    BY <1>7, AppendProperties, TaskAssumption DEF MoveToDetect, TaskAssumption
  <2>. QED BY <1>7, <2>1 DEF MoveToDetect
<1>8. CASE DropLive
  BY <1>8 DEF DropLive
<1>9. CASE BeginDetect
  BY <1>9 DEF BeginDetect
<1>10. CASE PostImage
  BY <1>10 DEF PostImage
<1>11. CASE AddAccident
  BY <1>11 DEF AddAccident
<1>12. CASE Probe
  BY <1>12 DEF Probe
<1>13. CASE TakeFromDetect
  <2>1. detect \in Seq(Segment) /\ detect # <<>> /\ seg["detect"] = Head(detect)
    BY <1>13 DEF TakeFromDetect
  <2>2. Len(detect') = Len(detect) - 1 /\ Len(detect) \in Nat /\ MaxFinish \in Nat
    BY <1>13, <2>1, DequeueType, TaskAssumption DEF TakeFromDetect, TaskAssumption
  <2>. QED BY <1>13, <2>2 DEF TakeFromDetect
<1>14. CASE HandToFinish
  BY <1>14 DEF HandToFinish
<1>15. CASE DropDetect
  <2>1. detect \in Seq(Segment) /\ detect # <<>> /\ seg["detect"] = Head(detect)
    BY <1>15 DEF DropDetect
  <2>2. Len(detect') = Len(detect) - 1 /\ Len(detect) \in Nat /\ MaxFinish \in Nat
    BY <1>15, <2>1, DequeueType, TaskAssumption DEF DropDetect, TaskAssumption
  <2>. QED BY <1>15, <2>2 DEF DropDetect
<1>16. CASE BeginFinish
  BY <1>16 DEF BeginFinish
<1>17. CASE TakeFromFinish
  BY <1>17 DEF TakeFromFinish
<1>18. CASE WakeSave
  BY <1>18 DEF WakeSave
<1>19. CASE MarshalLive
  BY <1>19 DEF MarshalLive
<1>20. CASE MarshalDetect
  BY <1>20 DEF MarshalDetect
<1>21. CASE MarshalFinish
  BY <1>21 DEF MarshalFinish
<1>22. CASE HSet
  BY <1>22 DEF HSet
<1>23. CASE ReceiveAccident
  BY <1>23 DEF ReceiveAccident
<1>24. CASE CopyEvidence
  BY <1>24 DEF CopyEvidence
<1>25. ASSUME NEW g \in {"rx", "live", "detect", "finish"}, Notify(g)
      PROVE  Room'
  BY <1>25 DEF Notify
<1>26. ASSUME NEW g \in {"live", "detect", "finish"}, Dispose(g)
      PROVE  Room'
  BY <1>26 DEF Dispose
<1>27. ASSUME NEW s \in Losable, LoseFile(s)
      PROVE  Room'
  BY <1>27 DEF LoseFile
<1>28. CASE UNCHANGED vars
  BY <1>28 DEF vars
<1>. QED
  BY <1>1, <1>2, <1>3, <1>4, <1>5, <1>6, <1>7, <1>8, <1>9, <1>10, <1>11, <1>12,
     <1>13, <1>14, <1>15, <1>16, <1>17, <1>18, <1>19, <1>20, <1>21, <1>22,
     <1>23, <1>24, <1>25, <1>26, <1>27, <1>28
     DEF Next, Rx, DriveLive, DriveDetect, DriveFinish, Save, Accident
--------------------------------------------------------------------------------
\* The order of the segments.

\* q with its i-th element removed.
Without(q, i) == SubSeq(q, 1, i - 1) \o SubSeq(q, i + 1, Len(q))

\* Handing the head of t over to the end of p changes nothing in p followed by t.
LEMMA Shift ==
    ASSUME NEW S, NEW p \in Seq(S), NEW t \in Seq(S), t # <<>>
    PROVE  (p \o <<Head(t)>>) \o Tail(t) = p \o t
<1>1. Head(t) \in S /\ Tail(t) \in Seq(S) /\ <<Head(t)>> \in Seq(S)
  BY HeadTailProperties
<1>2. <<Head(t)>> \o Tail(t) = t
  <2>. DEFINE u == <<Head(t)>> \o Tail(t)
  <2>1. u \in Seq(S) /\ Len(u) = Len(t)
    BY <1>1, ConcatProperties, HeadTailProperties
  <2>2. \A i \in 1..Len(t) : u[i] = t[i]
    BY <1>1, ConcatProperties, HeadTailProperties
  <2>. HIDE DEF u
  <2>3. u = t
    BY <2>1, <2>2, SeqEqual
  <2>. QED BY <2>3 DEF u
<1>3. (p \o <<Head(t)>>) \o Tail(t) = p \o (<<Head(t)>> \o Tail(t))
  BY <1>1, ConcatAssociative
<1>. QED BY <1>2, <1>3

\* Appending to the second of two sequences.
LEMMA Absorb ==
    ASSUME NEW S, NEW p \in Seq(S), NEW q \in Seq(S), NEW e \in S
    PROVE  p \o Append(q, e) = (p \o q) \o <<e>>
<1>1. Append(q, e) = q \o <<e>> /\ <<e>> \in Seq(S)
  BY AppendIsConcat
<1>. QED BY <1>1, ConcatAssociative

\* What Without does, element by element.
LEMMA WithoutElements ==
    ASSUME NEW S, NEW q \in Seq(S), NEW k \in 1..Len(q)
    PROVE  /\ Without(q, k) \in Seq(S)
           /\ Len(Without(q, k)) = Len(q) - 1
           /\ \A i \in 1..Len(q) - 1 :
                 Without(q, k)[i] = IF i < k THEN q[i] ELSE q[i + 1]
<1>. DEFINE a == SubSeq(q, 1, k - 1)
            b == SubSeq(q, k + 1, Len(q))
<1>0. Len(q) \in Nat /\ \A i \in 1..Len(q) : q[i] \in S
  BY ElementOfSeq
<1>1. /\ a \in Seq(S) /\ Len(a) = k - 1
      /\ \A i \in 1..k - 1 : a[i] = q[i]
  BY <1>0, SubSeqProperties
<1>2. /\ b \in Seq(S) /\ Len(b) = Len(q) - k
      /\ \A i \in 1..Len(q) - k : b[i] = q[k + i]
  BY <1>0, SubSeqProperties
<1>3. Without(q, k) = a \o b
  BY DEF Without
<1>. HIDE DEF a, b
<1>4. /\ a \o b \in Seq(S) /\ Len(a \o b) = Len(q) - 1
      /\ \A i \in 1..Len(a) + Len(b) :
            (a \o b)[i] = IF i <= Len(a) THEN a[i] ELSE b[i - Len(a)]
  BY <1>0, <1>1, <1>2, ConcatProperties
<1>5. ASSUME NEW i \in 1..Len(q) - 1
      PROVE  (a \o b)[i] = IF i < k THEN q[i] ELSE q[i + 1]
  <2>1. CASE i < k
    BY <2>1, <1>0, <1>1, <1>2, <1>4
  <2>2. CASE i >= k
    <3>1. i - (k - 1) \in 1..Len(q) - k /\ k + (i - (k - 1)) = i + 1
      BY <2>2, <1>0
    <3>2. (a \o b)[i] = b[i - (k - 1)]
      BY <2>2, <1>0, <1>1, <1>2, <1>4
    <3>. QED BY <2>2, <3>1, <3>2, <1>2
  <2>3. i < k \/ i >= k
    BY <1>0
  <2>. QED BY <2>1, <2>2, <2>3
<1>. QED BY <1>3, <1>4, <1>5

\* Taking the head of the middle one of three sequences removes one element.
LEMMA TakeMiddle ==
    ASSUME NEW S, NEW x \in Seq(S), NEW c \in Seq(S), NEW y \in Seq(S), c # <<>>
    PROVE  /\ Len(x) + 1 \in 1..Len((x \o c) \o y)
           /\ ((x \o c) \o y)[Len(x) + 1] = Head(c)
           /\ (x \o Tail(c)) \o y = Without((x \o c) \o y, Len(x) + 1)
<1>. DEFINE q == (x \o c) \o y
            d == Tail(c)
            r == (x \o d) \o y
            w == Without(q, Len(x) + 1)
<1>1. Len(x) \in Nat /\ Len(c) \in Nat \ {0} /\ Len(y) \in Nat /\ Head(c) = c[1]
  BY EmptySeq
<1>2. /\ d \in Seq(S) /\ Len(d) = Len(c) - 1
      /\ \A i \in 1..Len(c) - 1 : d[i] = c[i + 1]
  BY HeadTailProperties
<1>. HIDE DEF d
<1>3. /\ x \o c \in Seq(S) /\ Len(x \o c) = Len(x) + Len(c)
      /\ \A i \in 1..Len(x) + Len(c) :
            (x \o c)[i] = IF i <= Len(x) THEN x[i] ELSE c[i - Len(x)]
      /\ x \o d \in Seq(S) /\ Len(x \o d) = Len(x) + Len(d)
      /\ \A i \in 1..Len(x) + Len(d) :
            (x \o d)[i] = IF i <= Len(x) THEN x[i] ELSE d[i - Len(x)]
  BY <1>2, ConcatProperties
<1>4. /\ q \in Seq(S) /\ Len(q) = Len(x) + Len(c) + Len(y)
      /\ \A i \in 1..Len(q) : q[i] = IF i <= Len(x) + Len(c) THEN (x \o c)[i]
                                    ELSE y[i - (Len(x) + Len(c))]
  BY <1>3, ConcatProperties
<1>5. /\ r \in Seq(S) /\ Len(r) = Len(x) + (Len(c) - 1) + Len(y)
      /\ \A i \in 1..Len(r) : r[i] = IF i <= Len(x) + (Len(c) - 1) THEN (x \o d)[i]
                                    ELSE y[i - (Len(x) + (Len(c) - 1))]
  BY <1>2, <1>3, ConcatProperties
<1>. HIDE DEF q, r
<1>6. Len(x) + 1 \in 1..Len(q) /\ q[Len(x) + 1] = Head(c)
  BY <1>1, <1>3, <1>4
<1>7. /\ w \in Seq(S) /\ Len(w) = Len(q) - 1
      /\ \A i \in 1..Len(q) - 1 : w[i] = IF i < Len(x) + 1 THEN q[i] ELSE q[i + 1]
  BY <1>4, <1>6, WithoutElements
<1>. HIDE DEF w
<1>8. ASSUME NEW i \in 1..Len(r) PROVE r[i] = w[i]
  <2>0. i \in 1..Len(q) - 1 /\ i \in 1..Len(q) /\ i + 1 \in 1..Len(q)
    BY <1>1, <1>4, <1>5
  <2>1. CASE i <= Len(x)
    <3>1. i \in 1..Len(x) + Len(c) /\ i \in 1..Len(x) + Len(d)
      BY <2>1, <1>1, <1>2
    <3>2. r[i] = x[i]
      BY <2>1, <3>1, <1>1, <1>2, <1>3, <1>5
    <3>3. w[i] = x[i]
      BY <2>0, <2>1, <3>1, <1>1, <1>3, <1>4, <1>7
    <3>. QED BY <3>2, <3>3
  <2>2. CASE i > Len(x) /\ i <= Len(x) + (Len(c) - 1)
    <3>1. /\ i \in 1..Len(x) + Len(d) /\ i - Len(x) \in 1..Len(c) - 1
          /\ i + 1 \in 1..Len(x) + Len(c) /\ (i + 1) - Len(x) = (i - Len(x)) + 1
      BY <2>2, <1>1, <1>2
    <3>2. r[i] = (x \o d)[i]
      BY <2>2, <1>5
    <3>3. (x \o d)[i] = d[i - Len(x)]
      BY <2>2, <3>1, <1>1, <1>3
    <3>4. w[i] = q[i + 1]
      BY <2>0, <2>2, <1>1, <1>7
    <3>5. q[i + 1] = (x \o c)[i + 1]
      BY <2>0, <2>2, <3>1, <1>1, <1>4
    <3>6. (x \o c)[i + 1] = c[(i + 1) - Len(x)]
      BY <2>2, <3>1, <1>1, <1>3
    <3>. QED BY <3>1, <3>2, <3>3, <3>4, <3>5, <3>6, <1>2
  <2>3. CASE i > Len(x) + (Len(c) - 1)
    <3>1. r[i] = y[i - (Len(x) + (Len(c) - 1))]
      BY <2>3, <1>1, <1>5
    <3>2. w[i] = y[(i + 1) - (Len(x) + Len(c))]
      BY <2>0, <2>3, <1>1, <1>4, <1>7
    <3>. QED BY <3>1, <3>2, <1>1
  <2>. QED BY <2>1, <2>2, <2>3, <1>1
<1>9. r = w
  <2>1. Len(r) = Len(w)
    BY <1>1, <1>4, <1>5, <1>7
  <2>. QED BY <2>1, <1>5, <1>7, <1>8, SeqEqual
<1>. QED BY <1>6, <1>9 DEF q, r, d, w

\* Removing an element of an increasing sequence leaves an increasing one.
LEMMA IncreasingWithout ==
    ASSUME NEW q \in Seq(Segment), NEW k \in 1..Len(q), NEW n,
           Increasing(q), \A i \in 1..Len(q) : q[i] <= n
    PROVE  /\ Increasing(Without(q, k))
           /\ \A i \in 1..Len(Without(q, k)) : Without(q, k)[i] <= n
<1>1. /\ Len(q) \in Nat
      /\ Len(Without(q, k)) = Len(q) - 1
      /\ \A i \in 1..Len(q) - 1 : Without(q, k)[i] = IF i < k THEN q[i] ELSE q[i + 1]
  BY WithoutElements
<1>. QED BY <1>1 DEF Increasing

\* A concatenation is increasing when its parts are, and the second one is newer.
LEMMA IncreasingConcat ==
    ASSUME NEW a \in Seq(Segment), NEW b \in Seq(Segment)
    PROVE  Increasing(a \o b) <=> /\ Increasing(a) /\ Increasing(b)
                                  /\ \A i \in 1..Len(a), j \in 1..Len(b) : a[i] < b[j]
<1>1. /\ Len(a) \in Nat /\ Len(b) \in Nat /\ Len(a \o b) = Len(a) + Len(b)
      /\ \A i \in 1..Len(a) + Len(b) :
            (a \o b)[i] = IF i <= Len(a) THEN a[i] ELSE b[i - Len(a)]
  BY ConcatProperties
<1>2. /\ \A i \in 1..Len(a) : i \in 1..Len(a \o b) /\ (a \o b)[i] = a[i]
      /\ \A j \in 1..Len(b) : Len(a) + j \in 1..Len(a \o b) /\ (a \o b)[Len(a) + j] = b[j]
  <2>1. ASSUME NEW j \in 1..Len(b)
        PROVE  Len(a) + j \in 1..Len(a \o b) /\ (a \o b)[Len(a) + j] = b[j]
    <3>1. Len(a) + j \in 1..Len(a) + Len(b) /\ ~(Len(a) + j <= Len(a))
          /\ (Len(a) + j) - Len(a) = j
      BY <1>1
    <3>. QED BY <1>1, <3>1
  <2>. QED BY <1>1, <2>1
<1>3. ASSUME Increasing(a \o b)
      PROVE  /\ Increasing(a) /\ Increasing(b)
             /\ \A i \in 1..Len(a), j \in 1..Len(b) : a[i] < b[j]
  <2>1. Increasing(a)
    BY <1>2, <1>3 DEF Increasing
  <2>2. ASSUME NEW i \in 1..Len(b), NEW j \in 1..Len(b), i < j
        PROVE  b[i] < b[j]
    <3>1. Len(a) + i < Len(a) + j
      BY <1>1, <2>2
    <3>. QED BY <1>2, <1>3, <3>1 DEF Increasing
  <2>3. ASSUME NEW i \in 1..Len(a), NEW j \in 1..Len(b)
        PROVE  a[i] < b[j]
    <3>1. i < Len(a) + j
      BY <1>1
    <3>. QED BY <1>2, <1>3, <3>1 DEF Increasing
  <2>. QED BY <2>1, <2>2, <2>3 DEF Increasing
<1>4. ASSUME Increasing(a), Increasing(b),
             \A i \in 1..Len(a), j \in 1..Len(b) : a[i] < b[j]
      PROVE  Increasing(a \o b)
  <2>. SUFFICES ASSUME NEW i \in 1..Len(a \o b), NEW j \in 1..Len(a \o b), i < j
                PROVE  (a \o b)[i] < (a \o b)[j]
    BY DEF Increasing
  <2>1. CASE j <= Len(a)
    <3>1. /\ i \in 1..Len(a) /\ j \in 1..Len(a)
          /\ (a \o b)[i] = a[i] /\ (a \o b)[j] = a[j]
      BY <1>1, <2>1
    <3>. QED BY <1>4, <3>1 DEF Increasing
  <2>2. CASE i <= Len(a) /\ j > Len(a)
    <3>1. /\ i \in 1..Len(a) /\ j - Len(a) \in 1..Len(b)
          /\ (a \o b)[i] = a[i] /\ (a \o b)[j] = b[j - Len(a)]
      BY <1>1, <2>2
    <3>. QED BY <1>4, <3>1
  <2>3. CASE i > Len(a)
    <3>1. /\ i - Len(a) \in 1..Len(b) /\ j - Len(a) \in 1..Len(b) /\ i - Len(a) < j - Len(a)
          /\ (a \o b)[i] = b[i - Len(a)] /\ (a \o b)[j] = b[j - Len(a)]
      BY <1>1, <2>3
    <3>. QED BY <1>4, <3>1 DEF Increasing
  <2>. QED BY <1>1, <2>1, <2>2, <2>3
<1>. QED BY <1>3, <1>4

\* The same in terms of the elements.
LEMMA IncreasingRanges ==
    ASSUME NEW a \in Seq(Segment), NEW b \in Seq(Segment), Increasing(a \o b)
    PROVE  /\ Increasing(a) /\ Increasing(b)
           /\ Range(a) \subseteq Range(a \o b) /\ Range(b) \subseteq Range(a \o b)
           /\ \A x \in Range(a), y \in Range(b) : x < y
<1>1. /\ Increasing(a) /\ Increasing(b)
      /\ \A i \in 1..Len(a), j \in 1..Len(b) : a[i] < b[j]
  BY IncreasingConcat
<1>2. Range(a) = {a[i] : i \in 1..Len(a)} /\ Range(b) = {b[i] : i \in 1..Len(b)}
  BY RangeEquality
<1>3. Range(a \o b) = Range(a) \cup Range(b)
  BY RangeConcatenation
<1>. QED BY <1>1, <1>2, <1>3

\* A part of the middle can be left out.
LEMMA IncreasingOmit ==
    ASSUME NEW f \in Seq(Segment), NEW h \in Seq(Segment), NEW d \in Seq(Segment),
           NEW l \in Seq(Segment), Increasing(((f \o h) \o d) \o l)
    PROVE  Increasing((f \o d) \o l)
<1>1. /\ f \o h \in Seq(Segment) /\ (f \o h) \o d \in Seq(Segment) /\ f \o d \in Seq(Segment)
      /\ h \o d \in Seq(Segment) /\ d \o l \in Seq(Segment) /\ h \o (d \o l) \in Seq(Segment)
  BY ConcatProperties
<1>2. ((f \o h) \o d) \o l = f \o (h \o (d \o l))
  <2>1. ((f \o h) \o d) \o l = (f \o h) \o (d \o l)
    BY <1>1, ConcatAssociative
  <2>. DEFINE r == d \o l
  <2>2. r \in Seq(Segment)
    BY <1>1
  <2>. HIDE DEF r
  <2>3. (f \o h) \o r = f \o (h \o r)
    BY <2>2, ConcatAssociative
  <2>. QED BY <2>1, <2>3 DEF r
<1>3. Increasing(f) /\ Increasing(h \o (d \o l))
  BY <1>1, <1>2, IncreasingConcat
<1>4. Increasing(d \o l)
  BY <1>1, <1>3, IncreasingConcat
<1>5. \A i \in 1..Len(f), j \in 1..Len(d \o l) : f[i] < (d \o l)[j]
  <2>. DEFINE r == d \o l
              q == h \o r
  <2>1. /\ r \in Seq(Segment) /\ q \in Seq(Segment) /\ Len(q) = Len(h) + Len(r)
        /\ Len(h) \in Nat /\ Len(r) \in Nat
        /\ \A i \in 1..Len(h) + Len(r) : q[i] = IF i <= Len(h) THEN h[i] ELSE r[i - Len(h)]
    BY <1>1, ConcatProperties
  <2>2. \A i \in 1..Len(f), j \in 1..Len(q) : f[i] < q[j]
    BY <1>1, <1>2, IncreasingConcat
  <2>. HIDE DEF r, q
  <2>3. ASSUME NEW i \in 1..Len(f), NEW j \in 1..Len(r)
        PROVE  f[i] < r[j]
    <3>1. Len(h) + j \in 1..Len(q) /\ q[Len(h) + j] = r[j]
      <4>1. /\ Len(h) + j \in 1..Len(h) + Len(r) /\ ~(Len(h) + j <= Len(h))
            /\ (Len(h) + j) - Len(h) = j
        BY <2>1
      <4>. QED BY <2>1, <4>1
    <3>. QED BY <2>2, <3>1
  <2>. QED BY <2>3 DEF r
<1>6. Increasing(f \o (d \o l))
  BY <1>1, <1>3, <1>4, <1>5, IncreasingConcat
<1>7. (f \o d) \o l = f \o (d \o l)
  BY ConcatAssociative
<1>. QED BY <1>6, <1>7

\* Adding a number above all others to an increasing sequence.
LEMMA IncreasingAppend ==
    ASSUME NEW q \in Seq(Segment), NEW n \in Nat, n + 1 \in Segment,
           Increasing(q), \A i \in 1..Len(q) : q[i] <= n
    PROVE  /\ Increasing(Append(q, n + 1))
           /\ \A i \in 1..Len(Append(q, n + 1)) : Append(q, n + 1)[i] <= n + 1
<1>1. \A i \in 1..Len(q) : q[i] \in Segment
  BY ElementOfSeq
<1>. QED BY <1>1, AppendProperties DEF Increasing, Segment

--------------------------------------------------------------------------------
\* What each step does to the pipeline.
HandOut == InHand("detect", {"hand"})
HandIn == InHand("rx", {"lock", "enqueue"})

\* The parts the pipeline is put together from, and their types.
LEMMA PipelineParts ==
    Core => /\ finish \in Seq(Segment) /\ HandOut \in Seq(Segment)
            /\ detect \in Seq(Segment) /\ live \in Seq(Segment)
            /\ HandIn \in Seq(Segment) /\ tsfiles \in Seq(Segment)
            /\ finish \o HandOut \in Seq(Segment)
            /\ (finish \o HandOut) \o detect \in Seq(Segment)
            /\ ((finish \o HandOut) \o detect) \o live \in Seq(Segment)
            /\ (((finish \o HandOut) \o detect) \o live) \o HandIn \in Seq(Segment)
            /\ Pipeline \in Seq(Segment)
            /\ Pipeline = ((((finish \o HandOut) \o detect) \o live) \o HandIn) \o tsfiles
<1>. SUFFICES ASSUME Core
              PROVE  /\ HandOut \in Seq(Segment) /\ HandIn \in Seq(Segment)
                     /\ finish \in Seq(Segment) /\ detect \in Seq(Segment)
                     /\ live \in Seq(Segment) /\ tsfiles \in Seq(Segment)
  BY ConcatProperties DEF Pipeline, HandOut, HandIn
<1>1. seg["detect"] \in Segment \/ pc["detect"] # "hand"
  BY DEF Core, Control, Goroutine
<1>2. seg["rx"] \in Segment \/ pc["rx"] \notin {"lock", "enqueue"}
  BY DEF Core, Control, Goroutine
<1>. QED BY <1>1, <1>2 DEF Core, TypeOK, HandOut, HandIn, InHand

\* The steps that hand a segment over or leave the queues alone, and their effect.
Quiet ==
    \/ ReceiveTs \/ PassLock \/ EnqueueLive
    \/ BeginLive \/ Extract \/ MoveToDetect
    \/ BeginDetect \/ PostImage \/ AddAccident \/ Probe \/ TakeFromDetect \/ HandToFinish
    \/ BeginFinish
    \/ Save \/ Accident
    \/ \E g \in {"rx", "live", "detect", "finish"} : Notify(g)
    \/ \E g \in {"live", "detect", "finish"} : Dispose(g)
    \/ \E s \in Losable : LoseFile(s)
    \/ UNCHANGED vars

Unmoved == Pipeline' = Pipeline /\ arrived' = arrived

\* A step adds the next segment at the end, removes one, or only hands over.
PipelineChange ==
    \/ Unmoved
    \/ /\ Pipeline' = Append(Pipeline, arrived + 1)
       /\ arrived' = arrived + 1
       /\ arrived < MaxSegments
    \/ \E i \in 1..Len(Pipeline) : Pipeline' = Without(Pipeline, i) /\ arrived' = arrived

\* Concatenation as an operator of its own: kept folded, it leaves the provers
\* nothing to do but the algebra below.
Segs == Seq(Segment)
Cat(a, b) == a \o b
Line(f, h, d, l, r, s) == Cat(Cat(Cat(Cat(Cat(f, h), d), l), r), s)

\* Concatenation is associative and has an empty sequence as its unit.
LEMMA CatFacts ==
    /\ \A a, b \in Segs : Cat(a, b) \in Segs
    /\ \A a, b, c \in Segs : Cat(Cat(a, b), c) = Cat(a, Cat(b, c))
    /\ <<>> \in Segs /\ \A a \in Segs : Cat(<<>>, a) = a
    /\ \A a \in Segs : a # <<>> => Tail(a) \in Segs
<1>1. \A a, b \in Segs : Cat(a, b) \in Segs
  BY ConcatProperties DEF Cat, Segs
<1>2. \A a, b, c \in Segs : Cat(Cat(a, b), c) = Cat(a, Cat(b, c))
  BY ConcatAssociative DEF Cat, Segs
<1>3. <<>> \in Segs /\ \A a \in Segs : Cat(<<>>, a) = a
  BY ConcatEmptySeq DEF Cat, Segs
<1>4. \A a \in Segs : a # <<>> => Tail(a) \in Segs
  BY HeadTailProperties DEF Segs
<1>. QED BY <1>1, <1>2, <1>3, <1>4

\* What follows can be regrouped behind a change in the middle.
LEMMA CatRight ==
    \A a, b, c, d \in Segs : Cat(Cat(Cat(a, b), c), d) = Cat(a, Cat(b, Cat(c, d)))
<1>. TAKE a, b, c, d \in Segs
<1>1. Cat(a, b) \in Segs /\ Cat(c, d) \in Segs
  BY CatFacts
<1>2. Cat(Cat(Cat(a, b), c), d) = Cat(Cat(a, b), Cat(c, d))
  BY <1>1, CatFacts
<1>3. Cat(Cat(a, b), Cat(c, d)) = Cat(a, Cat(b, Cat(c, d)))
  BY <1>1, CatFacts
<1>. QED BY <1>2, <1>3

\* q results from p by removing the element e.
OneLess(p, q, e) == \E i \in 1..Len(p) : p[i] = e /\ q = Without(p, i)

\* TakeMiddle, for concatenation behind its abbreviation.
LEMMA CatTakeMiddle ==
    \A x, c, y \in Segs :
        c # <<>> => OneLess(Cat(Cat(x, c), y), Cat(Cat(x, Tail(c)), y), Head(c))
<1>. TAKE x, c, y \in Segs
<1>. HAVE c # <<>>
<1>1. /\ Len(x) + 1 \in 1..Len((x \o c) \o y)
      /\ ((x \o c) \o y)[Len(x) + 1] = Head(c)
      /\ (x \o Tail(c)) \o y = Without((x \o c) \o y, Len(x) + 1)
  BY TakeMiddle DEF Segs
<1>. QED BY <1>1 DEF Cat, OneLess

\* Taking the head of live, of detect or of finish removes one element of the line.
LEMMA LineTake ==
    ASSUME NEW f \in Segs, NEW h \in Segs, NEW d \in Segs, NEW l \in Segs,
           NEW r \in Segs, NEW s \in Segs
    PROVE  /\ l # <<>> => OneLess(Line(f, h, d, l, r, s), Line(f, h, d, Tail(l), r, s), Head(l))
           /\ d # <<>> => OneLess(Line(f, h, d, l, r, s), Line(f, h, Tail(d), l, r, s), Head(d))
           /\ f # <<>> => OneLess(Line(f, h, d, l, r, s), Line(Tail(f), h, d, l, r, s), Head(f))
<1>1. /\ Cat(f, h) \in Segs /\ Cat(Cat(f, h), d) \in Segs
      /\ Cat(r, s) \in Segs /\ Cat(l, Cat(r, s)) \in Segs
      /\ Cat(d, Cat(l, Cat(r, s))) \in Segs /\ Cat(h, Cat(d, Cat(l, Cat(r, s)))) \in Segs
  BY CatFacts
<1>2. \A c \in Segs : Line(f, h, d, c, r, s) = Cat(Cat(Cat(Cat(f, h), d), c), Cat(r, s))
  <2>. TAKE c \in Segs
  <2>1. Cat(Cat(Cat(f, h), d), c) \in Segs
    BY <1>1, CatFacts
  <2>. QED BY <2>1, CatFacts DEF Line
<1>3. \A c \in Segs : Line(f, h, c, l, r, s) = Cat(Cat(Cat(f, h), c), Cat(l, Cat(r, s)))
  <2>. TAKE c \in Segs
  <2>1. Cat(Cat(f, h), c) \in Segs
    BY <1>1, CatFacts
  <2>. QED BY <2>1, CatRight DEF Line
<1>4. \A c \in Segs :
         Line(c, h, d, l, r, s) = Cat(Cat(<<>>, c), Cat(h, Cat(d, Cat(l, Cat(r, s)))))
  <2>. TAKE c \in Segs
  <2>1. Cat(Cat(c, h), d) \in Segs
    BY <1>1, CatFacts
  <2>2. Line(c, h, d, l, r, s) = Cat(Cat(Cat(c, h), d), Cat(l, Cat(r, s)))
    BY <2>1, CatRight DEF Line
  <2>3. Cat(Cat(Cat(c, h), d), Cat(l, Cat(r, s))) = Cat(c, Cat(h, Cat(d, Cat(l, Cat(r, s)))))
    BY <1>1, CatRight
  <2>4. Cat(<<>>, c) = c
    BY CatFacts
  <2>. QED BY <2>2, <2>3, <2>4
<1>5. l # <<>> => OneLess(Line(f, h, d, l, r, s), Line(f, h, d, Tail(l), r, s), Head(l))
  BY <1>1, <1>2, CatFacts, CatTakeMiddle
<1>6. d # <<>> => OneLess(Line(f, h, d, l, r, s), Line(f, h, Tail(d), l, r, s), Head(d))
  BY <1>1, <1>3, CatFacts, CatTakeMiddle
<1>7. f # <<>> => OneLess(Line(f, h, d, l, r, s), Line(Tail(f), h, d, l, r, s), Head(f))
  BY <1>1, <1>4, CatFacts, CatTakeMiddle
<1>. QED BY <1>5, <1>6, <1>7

\* q results from p by removing the head, which is the head of its part f.
FirstOut(p, q, f) == p # <<>> /\ Head(p) = Head(f) /\ Len(p) >= Len(f) /\ q = Tail(p)

\* Taking the head of finish takes the head of the line.
LEMMA LineTail ==
    ASSUME NEW f \in Segs, NEW h \in Segs, NEW d \in Segs, NEW l \in Segs,
           NEW r \in Segs, NEW s \in Segs, f # <<>>
    PROVE  FirstOut(Line(f, h, d, l, r, s), Line(Tail(f), h, d, l, r, s), f)
<1>. DEFINE rest == Cat(h, Cat(d, Cat(l, Cat(r, s))))
<1>1. Cat(r, s) \in Segs /\ Cat(l, Cat(r, s)) \in Segs /\ rest \in Segs
  BY CatFacts
<1>2. \A c \in Segs : Line(c, h, d, l, r, s) = Cat(c, rest)
  <2>. TAKE c \in Segs
  <2>1. Cat(Cat(c, h), d) \in Segs
    BY CatFacts
  <2>2. Line(c, h, d, l, r, s) = Cat(Cat(Cat(c, h), d), Cat(l, Cat(r, s)))
    BY <2>1, CatRight DEF Line
  <2>. QED BY <1>1, <2>2, CatRight
<1>. HIDE DEF rest
<1>3. Tail(f) \in Segs
  BY CatFacts
<1>. DEFINE x == f \o rest
            y == Tail(f) \o rest
<1>4. /\ x \in Seq(Segment) /\ Len(x) = Len(f) + Len(rest)
      /\ \A i \in 1..Len(x) : x[i] = IF i <= Len(f) THEN f[i] ELSE rest[i - Len(f)]
  BY <1>1, ConcatProperties DEF Segs
<1>5. /\ y \in Seq(Segment) /\ Len(y) = Len(Tail(f)) + Len(rest)
      /\ \A i \in 1..Len(y) : y[i] = IF i <= Len(Tail(f)) THEN Tail(f)[i]
                                      ELSE rest[i - Len(Tail(f))]
  BY <1>1, <1>3, ConcatProperties DEF Segs
<1>. HIDE DEF x, y
<1>6. /\ Len(f) \in Nat \ {0} /\ Len(rest) \in Nat /\ Len(Tail(f)) = Len(f) - 1
      /\ \A i \in 1..Len(f) - 1 : Tail(f)[i] = f[i + 1]
  BY <1>1, EmptySeq, HeadTailProperties DEF Segs
<1>7. x # <<>> /\ Head(x) = x[1] /\ Head(f) = f[1]
  BY <1>4, <1>6, EmptySeq DEF Segs
<1>8. Head(x) = Head(f) /\ Len(x) >= Len(f)
  BY <1>4, <1>6, <1>7
<1>9. /\ Tail(x) \in Seq(Segment) /\ Len(Tail(x)) = Len(x) - 1
      /\ \A i \in 1..Len(x) - 1 : Tail(x)[i] = x[i + 1]
  BY <1>4, <1>7, HeadTailProperties
<1>10. Tail(x) = y
  <2>1. Len(Tail(x)) = Len(y)
    BY <1>4, <1>5, <1>6, <1>9
  <2>2. ASSUME NEW i \in 1..Len(y) PROVE Tail(x)[i] = y[i]
    <3>1. i \in 1..Len(x) - 1 /\ i + 1 \in 1..Len(x)
      BY <1>4, <1>5, <1>6
    <3>2. Tail(x)[i] = IF i + 1 <= Len(f) THEN f[i + 1] ELSE rest[(i + 1) - Len(f)]
      BY <1>4, <1>9, <3>1
    <3>3. y[i] = IF i <= Len(f) - 1 THEN f[i + 1] ELSE rest[i - (Len(f) - 1)]
      <4>1. i <= Len(f) - 1 => i \in 1..Len(f) - 1
        BY <1>6, <3>1
      <4>. QED BY <1>5, <1>6, <4>1
    <3>4. i <= Len(f) - 1 <=> i + 1 <= Len(f)
      BY <1>6, <3>1
    <3>5. (i + 1) - Len(f) = i - (Len(f) - 1)
      BY <1>6, <3>1
    <3>6. CASE i <= Len(f) - 1
      BY <3>2, <3>3, <3>4, <3>6
    <3>7. CASE ~(i <= Len(f) - 1)
      BY <3>2, <3>3, <3>4, <3>5, <3>7
    <3>. QED BY <3>6, <3>7
  <2>. QED BY <1>5, <1>9, <2>1, <2>2, SeqEqual
<1>. QED BY <1>2, <1>3, <1>7, <1>8, <1>10 DEF FirstOut, Cat, x, y

\* A hand-over changes which goroutine or queue has a segment, not the line of segments.
LEMMA QuietLine == Core /\ Quiet => Unmoved
<1>. SUFFICES ASSUME Core, Quiet
              PROVE  Unmoved
  OBVIOUS
<1>. USE DEF queues, Goto, Hold, Return
<1>0. /\ finish \in Seq(Segment) /\ HandOut \in Seq(Segment)
      /\ detect \in Seq(Segment) /\ live \in Seq(Segment)
      /\ HandIn \in Seq(Segment) /\ tsfiles \in Seq(Segment)
      /\ finish \o HandOut \in Seq(Segment)
      /\ (finish \o HandOut) \o detect \in Seq(Segment)
      /\ ((finish \o HandOut) \o detect) \o live \in Seq(Segment)
      /\ (((finish \o HandOut) \o detect) \o live) \o HandIn \in Seq(Segment)
      /\ Pipeline \in Seq(Segment)
      /\ Pipeline = ((((finish \o HandOut) \o detect) \o live) \o HandIn) \o tsfiles
  BY PipelineParts
<1>1. CASE ReceiveTs
  <2>. DEFINE p == ((finish \o HandOut) \o detect) \o live
  <2>0. p \in Seq(Segment)
    BY <1>0
  <2>. HIDE DEF p
  <2>1. HandOut' = HandOut /\ HandIn = <<>> /\ HandIn' = <<Head(tsfiles)>>
    BY <1>1 DEF ReceiveTs, HandOut, HandIn, InHand, Core, TypeOK, Control, HoldsHead, Goroutine
  <2>2. (p \o <<Head(tsfiles)>>) \o Tail(tsfiles) = p \o tsfiles
    BY <1>1, <1>0, <2>0, Shift DEF ReceiveTs
  <2>3. p \o <<>> = p
    BY <1>0, <2>0, ConcatEmptySeq
  <2>4. Pipeline' = (p \o <<Head(tsfiles)>>) \o Tail(tsfiles)
    BY <1>1, <2>1 DEF p, ReceiveTs, Pipeline, HandOut, HandIn
  <2>. QED BY <1>1, <1>0, <2>1, <2>2, <2>3, <2>4 DEF p, ReceiveTs, Unmoved
<1>2. CASE PassLock
  <2>1. HandOut' = HandOut /\ HandIn' = HandIn
    BY <1>2 DEF PassLock, HandOut, HandIn, InHand, Core, TypeOK, Control, HoldsHead, Goroutine
  <2>. QED BY <1>2, <2>1, <1>0 DEF PassLock, Unmoved, Pipeline, HandOut, HandIn
<1>3. CASE EnqueueLive
  <2>. DEFINE p == (finish \o HandOut) \o detect
  <2>0. p \in Seq(Segment)
    BY <1>0
  <2>. HIDE DEF p
  <2>1. /\ HandOut' = HandOut /\ HandIn = <<seg["rx"]>> /\ HandIn' = <<>>
        /\ seg["rx"] \in Segment
    BY <1>3 DEF EnqueueLive, HandOut, HandIn, InHand, Core, TypeOK, Control, HoldsHead, Goroutine
  <2>2. p \o Append(live, seg["rx"]) = (p \o live) \o <<seg["rx"]>>
    BY <1>0, <2>0, <2>1, Absorb
  <2>3. ((p \o live) \o <<seg["rx"]>>) \o <<>> = (p \o live) \o <<seg["rx"]>>
    BY <1>0, <2>0, <2>1, ConcatEmptySeq
  <2>4. Pipeline' = ((p \o Append(live, seg["rx"])) \o <<>>) \o tsfiles
    BY <1>3, <2>1 DEF p, EnqueueLive, Pipeline, HandOut, HandIn
  <2>. QED BY <1>3, <1>0, <2>1, <2>2, <2>3, <2>4 DEF p, EnqueueLive, Unmoved
<1>4. CASE BeginLive
  <2>1. HandOut' = HandOut /\ HandIn' = HandIn
    BY <1>4 DEF BeginLive, HandOut, HandIn, InHand, Core, TypeOK, Control, HoldsHead, Goroutine
  <2>. QED BY <1>4, <2>1, <1>0 DEF BeginLive, Unmoved, Pipeline, HandOut, HandIn
<1>5. CASE Extract
  <2>1. HandOut' = HandOut /\ HandIn' = HandIn
    BY <1>5 DEF Extract, HandOut, HandIn, InHand, Core, TypeOK, Control, HoldsHead, Goroutine
  <2>. QED BY <1>5, <2>1, <1>0 DEF Extract, Unmoved, Pipeline, HandOut, HandIn
<1>6. CASE MoveToDetect
  <2>. DEFINE p == finish \o HandOut
  <2>0. p \in Seq(Segment)
    BY <1>0
  <2>. HIDE DEF p
  <2>1. /\ HandOut' = HandOut /\ HandIn' = HandIn
        /\ live # <<>> /\ seg["live"] = Head(live) /\ Head(live) \in Segment
    BY <1>6 DEF MoveToDetect, HandOut, HandIn, InHand, Core, TypeOK, Control, HoldsHead, Goroutine
  <2>2. live' = Tail(live)
    BY <1>6, <1>0, <2>1, DequeueHead DEF MoveToDetect
  <2>3. p \o Append(detect, Head(live)) = (p \o detect) \o <<Head(live)>>
    BY <1>0, <2>0, <2>1, Absorb
  <2>4. ((p \o detect) \o <<Head(live)>>) \o Tail(live) = (p \o detect) \o live
    BY <1>0, <2>0, <2>1, Shift
  <2>5. Pipeline' = (((p \o Append(detect, Head(live))) \o Tail(live)) \o HandIn) \o tsfiles
    BY <1>6, <2>1, <2>2 DEF p, MoveToDetect, Pipeline, HandOut, HandIn
  <2>. QED BY <1>6, <1>0, <2>3, <2>4, <2>5 DEF p, MoveToDetect, Unmoved
<1>7. CASE BeginDetect
  <2>1. HandOut' = HandOut /\ HandIn' = HandIn
    BY <1>7 DEF BeginDetect, HandOut, HandIn, InHand, Core, TypeOK, Control, HoldsHead, Goroutine
  <2>. QED BY <1>7, <2>1, <1>0 DEF BeginDetect, Unmoved, Pipeline, HandOut, HandIn
<1>8. CASE PostImage
  <2>1. HandOut' = HandOut /\ HandIn' = HandIn
    BY <1>8 DEF PostImage, HandOut, HandIn, InHand, Core, TypeOK, Control, HoldsHead, Goroutine
  <2>. QED BY <1>8, <2>1, <1>0 DEF PostImage, Unmoved, Pipeline, HandOut, HandIn
<1>9. CASE AddAccident
  <2>1. HandOut' = HandOut /\ HandIn' = HandIn
    BY <1>9 DEF AddAccident, HandOut, HandIn, InHand, Core, TypeOK, Control, HoldsHead, Goroutine
  <2>. QED BY <1>9, <2>1, <1>0 DEF AddAccident, Unmoved, Pipeline, HandOut, HandIn
<1>10. CASE Probe
  <2>1. HandOut' = HandOut /\ HandIn' = HandIn
    BY <1>10 DEF Probe, HandOut, HandIn, InHand, Core, TypeOK, Control, HoldsHead, Goroutine
  <2>. QED BY <1>10, <2>1, <1>0 DEF Probe, Unmoved, Pipeline, HandOut, HandIn
<1>11. CASE TakeFromDetect
  <2>1. /\ HandOut = <<>> /\ HandOut' = <<Head(detect)>> /\ HandIn' = HandIn
        /\ detect # <<>> /\ seg["detect"] = Head(detect)
    BY <1>11 DEF TakeFromDetect, HandOut, HandIn, InHand, Core, TypeOK, Control, HoldsHead, Goroutine
  <2>2. detect' = Tail(detect)
    BY <1>11, <1>0, <2>1, DequeueHead DEF TakeFromDetect
  <2>3. (finish \o <<Head(detect)>>) \o Tail(detect) = finish \o detect
    BY <1>0, <2>1, Shift
  <2>4. finish \o <<>> = finish
    BY <1>0, ConcatEmptySeq
  <2>5. Pipeline' = ((((finish \o <<Head(detect)>>) \o Tail(detect)) \o live) \o HandIn) \o tsfiles
    BY <1>11, <2>1, <2>2 DEF TakeFromDetect, Pipeline, HandOut, HandIn
  <2>. QED BY <1>11, <1>0, <2>1, <2>3, <2>4, <2>5 DEF TakeFromDetect, Unmoved
<1>12. CASE HandToFinish
  <2>1. /\ HandOut = <<seg["detect"]>> /\ HandOut' = <<>> /\ HandIn' = HandIn
        /\ seg["detect"] \in Segment
    BY <1>12 DEF HandToFinish, HandOut, HandIn, InHand, Core, TypeOK, Control, HoldsHead, Goroutine
  <2>2. Append(finish, seg["detect"]) = finish \o HandOut
    BY <1>0, <2>1, AppendIsConcat
  <2>3. (finish \o HandOut) \o <<>> = finish \o HandOut
    BY <1>0, ConcatEmptySeq
  <2>4. Pipeline' = (((Append(finish, seg["detect"]) \o <<>>) \o detect \o live) \o HandIn) \o tsfiles
    BY <1>12, <2>1 DEF HandToFinish, Pipeline, HandOut, HandIn
  <2>. QED BY <1>12, <1>0, <2>2, <2>3, <2>4 DEF HandToFinish, Unmoved
<1>13. CASE BeginFinish
  <2>1. HandOut' = HandOut /\ HandIn' = HandIn
    BY <1>13 DEF BeginFinish, HandOut, HandIn, InHand, Core, TypeOK, Control, HoldsHead, Goroutine
  <2>. QED BY <1>13, <2>1, <1>0 DEF BeginFinish, Unmoved, Pipeline, HandOut, HandIn
<1>14. CASE WakeSave
  <2>1. HandOut' = HandOut /\ HandIn' = HandIn
    BY <1>14 DEF WakeSave, HandOut, HandIn, InHand, Core, TypeOK, Control, HoldsHead, Goroutine
  <2>. QED BY <1>14, <2>1, <1>0 DEF WakeSave, Unmoved, Pipeline, HandOut, HandIn
<1>15. CASE MarshalLive
  <2>1. HandOut' = HandOut /\ HandIn' = HandIn
    BY <1>15 DEF MarshalLive, HandOut, HandIn, InHand, Core, TypeOK, Control, HoldsHead, Goroutine
  <2>. QED BY <1>15, <2>1, <1>0 DEF MarshalLive, Unmoved, Pipeline, HandOut, HandIn
<1>16. CASE MarshalDetect
  <2>1. HandOut' = HandOut /\ HandIn' = HandIn
    BY <1>16 DEF MarshalDetect, HandOut, HandIn, InHand, Core, TypeOK, Control, HoldsHead, Goroutine
  <2>. QED BY <1>16, <2>1, <1>0 DEF MarshalDetect, Unmoved, Pipeline, HandOut, HandIn
<1>17. CASE MarshalFinish
  <2>1. HandOut' = HandOut /\ HandIn' = HandIn
    BY <1>17 DEF MarshalFinish, HandOut, HandIn, InHand, Core, TypeOK, Control, HoldsHead, Goroutine
  <2>. QED BY <1>17, <2>1, <1>0 DEF MarshalFinish, Unmoved, Pipeline, HandOut, HandIn
<1>18. CASE HSet
  <2>1. HandOut' = HandOut /\ HandIn' = HandIn
    BY <1>18 DEF HSet, HandOut, HandIn, InHand, Core, TypeOK, Control, HoldsHead, Goroutine
  <2>. QED BY <1>18, <2>1, <1>0 DEF HSet, Unmoved, Pipeline, HandOut, HandIn
<1>19. CASE ReceiveAccident
  <2>1. HandOut' = HandOut /\ HandIn' = HandIn
    BY <1>19 DEF ReceiveAccident, HandOut, HandIn, InHand, Core, TypeOK, Control, HoldsHead, Goroutine
  <2>. QED BY <1>19, <2>1, <1>0 DEF ReceiveAccident, Unmoved, Pipeline, HandOut, HandIn
<1>20. CASE CopyEvidence
  <2>1. HandOut' = HandOut /\ HandIn' = HandIn
    BY <1>20 DEF CopyEvidence, HandOut, HandIn, InHand, Core, TypeOK, Control, HoldsHead, Goroutine
  <2>. QED BY <1>20, <2>1, <1>0 DEF CopyEvidence, Unmoved, Pipeline, HandOut, HandIn
<1>21. ASSUME NEW g \in {"rx", "live", "detect", "finish"}, Notify(g)
      PROVE  Unmoved
  <2>1. HandOut' = HandOut /\ HandIn' = HandIn
    BY <1>21 DEF Notify, HandOut, HandIn, InHand, Core, TypeOK, Control, HoldsHead, Goroutine
  <2>. QED BY <1>21, <2>1, <1>0 DEF Notify, Unmoved, Pipeline, HandOut, HandIn
<1>22. ASSUME NEW g \in {"live", "detect", "finish"}, Dispose(g)
      PROVE  Unmoved
  <2>1. HandOut' = HandOut /\ HandIn' = HandIn
    BY <1>22 DEF Dispose, HandOut, HandIn, InHand, Core, TypeOK, Control, HoldsHead, Goroutine
  <2>. QED BY <1>22, <2>1, <1>0 DEF Dispose, Unmoved, Pipeline, HandOut, HandIn
<1>23. ASSUME NEW s \in Losable, LoseFile(s)
      PROVE  Unmoved
  <2>1. HandOut' = HandOut /\ HandIn' = HandIn
    BY <1>23 DEF LoseFile, HandOut, HandIn, InHand, Core, TypeOK, Control, HoldsHead, Goroutine
  <2>. QED BY <1>23, <2>1, <1>0 DEF LoseFile, Unmoved, Pipeline, HandOut, HandIn
<1>24. CASE UNCHANGED vars
  <2>1. Pipeline' = Pipeline
    BY <1>24 DEF vars, Pipeline, InHand
  <2>. QED BY <1>24, <2>1 DEF vars, Unmoved
<1>. QED
  BY <1>1, <1>2, <1>3, <1>4, <1>5, <1>6, <1>7, <1>8, <1>9, <1>10, <1>11, <1>12,
     <1>13, <1>14, <1>15, <1>16, <1>17, <1>18, <1>19, <1>20, <1>21, <1>22, <1>23,
     <1>24
     DEF Quiet, Save, Accident

\* A segment that arrives is the new end of the line.
LEMMA ArriveLine ==
    ASSUME Core, Arrive
    PROVE  /\ Pipeline' = Append(Pipeline, arrived + 1)
           /\ arrived + 1 \in Segment /\ arrived' = arrived + 1 /\ arrived < MaxSegments
<1>. USE DEF queues
<1>0. /\ finish \in Seq(Segment) /\ HandOut \in Seq(Segment)
      /\ detect \in Seq(Segment) /\ live \in Seq(Segment)
      /\ HandIn \in Seq(Segment) /\ tsfiles \in Seq(Segment)
      /\ finish \o HandOut \in Seq(Segment)
      /\ (finish \o HandOut) \o detect \in Seq(Segment)
      /\ ((finish \o HandOut) \o detect) \o live \in Seq(Segment)
      /\ (((finish \o HandOut) \o detect) \o live) \o HandIn \in Seq(Segment)
      /\ Pipeline \in Seq(Segment)
      /\ Pipeline = ((((finish \o HandOut) \o detect) \o live) \o HandIn) \o tsfiles
  BY PipelineParts
<1>1. HandOut' = HandOut /\ HandIn' = HandIn
  BY DEF Arrive, HandOut, HandIn, InHand
<1>2. arrived + 1 \in Segment
  BY TaskAssumption DEF Arrive, Segment, TaskAssumption, Core, TypeOK
<1>. DEFINE p == (((finish \o HandOut) \o detect) \o live) \o HandIn
<1>3. p \in Seq(Segment)
  BY <1>0
<1>4. Pipeline' = p \o Append(tsfiles, arrived + 1)
  BY <1>1 DEF Arrive, Pipeline, HandOut, HandIn
<1>5. Append(Pipeline, arrived + 1) = (p \o tsfiles) \o <<arrived + 1>>
  BY <1>0, <1>2, AppendIsConcat
<1>. HIDE DEF p
<1>6. p \o Append(tsfiles, arrived + 1) = (p \o tsfiles) \o <<arrived + 1>>
  BY <1>0, <1>2, <1>3, Absorb
<1>. QED BY <1>2, <1>4, <1>5, <1>6 DEF Arrive

\* A driver that drops a segment takes it out of the line and moves no other.
LEMMA DropLiveLine ==
    ASSUME Core, DropLive
    PROVE  OneLess(Pipeline, Pipeline', seg["live"]) /\ arrived' = arrived
<1>. USE DEF queues, Goto
<1>0. /\ finish \in Seq(Segment) /\ HandOut \in Seq(Segment)
      /\ detect \in Seq(Segment) /\ live \in Seq(Segment)
      /\ HandIn \in Seq(Segment) /\ tsfiles \in Seq(Segment)
      /\ finish \o HandOut \in Seq(Segment)
      /\ (finish \o HandOut) \o detect \in Seq(Segment)
      /\ ((finish \o HandOut) \o detect) \o live \in Seq(Segment)
      /\ (((finish \o HandOut) \o detect) \o live) \o HandIn \in Seq(Segment)
      /\ Pipeline \in Seq(Segment)
      /\ Pipeline = ((((finish \o HandOut) \o detect) \o live) \o HandIn) \o tsfiles
  BY PipelineParts
<1>1. HandOut' = HandOut /\ HandIn' = HandIn
  BY DEF DropLive, HandOut, HandIn, InHand, Core, TypeOK, Goroutine
<1>2. live # <<>> /\ seg["live"] = Head(live)
  BY TaskAssumption DEF DropLive, Core, TypeOK, HoldsHead, TaskAssumption
<1>3. live' = Tail(live)
  BY <1>0, <1>2, DequeueHead DEF DropLive
<1>4. Pipeline = Line(finish, HandOut, detect, live, HandIn, tsfiles)
  BY <1>0 DEF Line, Cat
<1>5. Pipeline' = Line(finish, HandOut, detect, Tail(live), HandIn, tsfiles)
  BY <1>1, <1>3 DEF DropLive, Pipeline, HandOut, HandIn, Line, Cat
<1>6. /\ finish \in Segs /\ HandOut \in Segs /\ detect \in Segs
      /\ live \in Segs /\ HandIn \in Segs /\ tsfiles \in Segs
  BY <1>0 DEF Segs
<1>. QED BY <1>2, <1>4, <1>5, <1>6, LineTake DEF DropLive

\* The same for the detect driver.
LEMMA DropDetectLine ==
    ASSUME Core, DropDetect
    PROVE  OneLess(Pipeline, Pipeline', seg["detect"]) /\ arrived' = arrived
<1>. USE DEF queues, Goto
<1>0. /\ finish \in Seq(Segment) /\ HandOut \in Seq(Segment)
      /\ detect \in Seq(Segment) /\ live \in Seq(Segment)
      /\ HandIn \in Seq(Segment) /\ tsfiles \in Seq(Segment)
      /\ finish \o HandOut \in Seq(Segment)
      /\ (finish \o HandOut) \o detect \in Seq(Segment)
      /\ ((finish \o HandOut) \o detect) \o live \in Seq(Segment)
      /\ (((finish \o HandOut) \o detect) \o live) \o HandIn \in Seq(Segment)
      /\ Pipeline \in Seq(Segment)
      /\ Pipeline = ((((finish \o HandOut) \o detect) \o live) \o HandIn) \o tsfiles
  BY PipelineParts
<1>1. HandOut' = HandOut /\ HandIn' = HandIn
  BY DEF DropDetect, HandOut, HandIn, InHand, Core, TypeOK, Goroutine
<1>2. detect # <<>> /\ seg["detect"] = Head(detect)
  BY TaskAssumption DEF DropDetect, Core, TypeOK, HoldsHead, TaskAssumption
<1>3. detect' = Tail(detect)
  BY <1>0, <1>2, DequeueHead DEF DropDetect
<1>4. Pipeline = Line(finish, HandOut, detect, live, HandIn, tsfiles)
  BY <1>0 DEF Line, Cat
<1>5. Pipeline' = Line(finish, HandOut, Tail(detect), live, HandIn, tsfiles)
  BY <1>1, <1>3 DEF DropDetect, Pipeline, HandOut, HandIn, Line, Cat
<1>6. /\ finish \in Segs /\ HandOut \in Segs /\ detect \in Segs
      /\ live \in Segs /\ HandIn \in Segs /\ tsfiles \in Segs
  BY <1>0 DEF Segs
<1>. QED BY <1>2, <1>4, <1>5, <1>6, LineTake DEF DropDetect

\* The finish driver retires the first of the line, and only when more than
\* MaxFinish are held.
LEMMA RetireLine ==
    ASSUME Core, TakeFromFinish
    PROVE  /\ OneLess(Pipeline, Pipeline', seg["finish"]) /\ arrived' = arrived
           /\ Pipeline # <<>> /\ Pipeline' = Tail(Pipeline) /\ Head(Pipeline) = seg["finish"]
           /\ Len(Pipeline) > MaxFinish
<1>. USE DEF queues, Goto
<1>0. /\ finish \in Seq(Segment) /\ HandOut \in Seq(Segment)
      /\ detect \in Seq(Segment) /\ live \in Seq(Segment)
      /\ HandIn \in Seq(Segment) /\ tsfiles \in Seq(Segment)
      /\ finish \o HandOut \in Seq(Segment)
      /\ (finish \o HandOut) \o detect \in Seq(Segment)
      /\ ((finish \o HandOut) \o detect) \o live \in Seq(Segment)
      /\ (((finish \o HandOut) \o detect) \o live) \o HandIn \in Seq(Segment)
      /\ Pipeline \in Seq(Segment)
      /\ Pipeline = ((((finish \o HandOut) \o detect) \o live) \o HandIn) \o tsfiles
  BY PipelineParts
<1>1. HandOut' = HandOut /\ HandIn' = HandIn
  BY DEF TakeFromFinish, HandOut, HandIn, InHand, Core, TypeOK, Goroutine
<1>2. finish # <<>> /\ seg["finish"] = Head(finish)
  BY TaskAssumption DEF TakeFromFinish, Core, TypeOK, HoldsHead, TaskAssumption
<1>3. finish' = Tail(finish)
  BY <1>0, <1>2, DequeueHead DEF TakeFromFinish
<1>4. Pipeline = Line(finish, HandOut, detect, live, HandIn, tsfiles)
  BY <1>0 DEF Line, Cat
<1>5. Pipeline' = Line(Tail(finish), HandOut, detect, live, HandIn, tsfiles)
  BY <1>1, <1>3 DEF TakeFromFinish, Pipeline, HandOut, HandIn, Line, Cat
<1>6. /\ finish \in Segs /\ HandOut \in Segs /\ detect \in Segs
      /\ live \in Segs /\ HandIn \in Segs /\ tsfiles \in Segs
  BY <1>0 DEF Segs
<1>7. OneLess(Pipeline, Pipeline', seg["finish"])
  BY <1>2, <1>4, <1>5, <1>6, LineTake
<1>8. /\ Pipeline # <<>> /\ Pipeline' = Tail(Pipeline) /\ Head(Pipeline) = seg["finish"]
      /\ Len(Pipeline) >= Len(finish)
  <2>1. FirstOut(Pipeline, Pipeline', finish)
    BY <1>2, <1>4, <1>5, <1>6, LineTail
  <2>. QED BY <1>2, <2>1 DEF FirstOut
<1>9. Len(finish) > MaxFinish /\ Len(finish) \in Nat /\ Len(Pipeline) \in Nat /\ MaxFinish \in Nat
  BY <1>0, TaskAssumption DEF TakeFromFinish, Core, HoldsHead, TaskAssumption
<1>. QED BY <1>7, <1>8, <1>9 DEF TakeFromFinish

\* Every step leaves the pipeline as it is, extends it with a newer segment, or
\* removes one segment: nothing else can happen to it.
LEMMA PipelineStep == Core /\ [Next]_vars => PipelineChange
<1>. SUFFICES ASSUME Core, [Next]_vars
              PROVE  PipelineChange
  OBVIOUS
<1>1. CASE Quiet
  BY <1>1, QuietLine DEF PipelineChange
<1>2. CASE Arrive
  BY <1>2, ArriveLine DEF PipelineChange
<1>3. CASE DropLive
  BY <1>3, DropLiveLine DEF PipelineChange, OneLess
<1>4. CASE DropDetect
  BY <1>4, DropDetectLine DEF PipelineChange, OneLess
<1>5. CASE TakeFromFinish
  BY <1>5, RetireLine DEF PipelineChange, OneLess
<1>. QED
  BY <1>1, <1>2, <1>3, <1>4, <1>5
     DEF Next, Rx, DriveLive, DriveDetect, DriveFinish, Quiet

--------------------------------------------------------------------------------
\* The inductive invariant.

\* The segments are held in order, and none has a number nobody gave out yet.
Ordered == FifoOrder /\ \A i \in 1..Len(Pipeline) : Pipeline[i] <= arrived

IInv == Core /\ Ordered

\* Nothing is held at first.
LEMMA InitPipeline == Init => Pipeline = <<>>
<1>. SUFFICES ASSUME Init PROVE Pipeline = <<>>
  OBVIOUS
<1>1. InHand("detect", {"hand"}) = <<>> /\ InHand("rx", {"lock", "enqueue"}) = <<>>
  BY DEF Init, InHand, Goroutine
<1>2. <<>> \o <<>> = <<>>
  BY ConcatEmptySeq, EmptySeq
<1>. QED BY <1>1, <1>2 DEF Pipeline, Init

\* The empty pipeline is ordered.
LEMMA InitOrdered == Init => Ordered
BY InitPipeline, EmptySeq DEF Ordered, FifoOrder, Increasing

\* Each kind of change of the pipeline keeps it ordered.
LEMMA OrderedStep == IInv /\ [Next]_vars => Ordered'
<1>. SUFFICES ASSUME Core, Ordered, PipelineChange PROVE Ordered'
  BY PipelineStep DEF IInv
<1>1. Pipeline \in Seq(Segment)
  BY PipelineParts
<1>2. arrived \in Nat /\ MaxSegments \in Nat
  BY TaskAssumption DEF Core, TypeOK, TaskAssumption
<1>3. Increasing(Pipeline) /\ \A i \in 1..Len(Pipeline) : Pipeline[i] <= arrived
  BY DEF Ordered, FifoOrder
<1>4. CASE Unmoved
  BY <1>3, <1>4 DEF Unmoved, Ordered, FifoOrder, Increasing
<1>5. CASE /\ Pipeline' = Append(Pipeline, arrived + 1)
           /\ arrived' = arrived + 1
           /\ arrived < MaxSegments
  <2>1. arrived + 1 \in Segment
    BY <1>2, <1>5 DEF Segment
  <2>2. /\ Increasing(Append(Pipeline, arrived + 1))
        /\ \A i \in 1..Len(Append(Pipeline, arrived + 1)) :
              Append(Pipeline, arrived + 1)[i] <= arrived + 1
    BY <1>1, <1>2, <1>3, <2>1, IncreasingAppend
  <2>. QED BY <1>5, <2>2 DEF Ordered, FifoOrder, Increasing
<1>6. ASSUME NEW k \in 1..Len(Pipeline),
             Pipeline' = Without(Pipeline, k), arrived' = arrived
      PROVE  Ordered'
  <2>1. /\ Increasing(Without(Pipeline, k))
        /\ \A i \in 1..Len(Without(Pipeline, k)) : Without(Pipeline, k)[i] <= arrived
    BY <1>1, <1>3, IncreasingWithout
  <2>. QED BY <1>6, <2>1 DEF Ordered, FifoOrder, Increasing
<1>. QED BY <1>4, <1>5, <1>6 DEF PipelineChange

\* IInv is an invariant of the specification.
LEMMA Invariance == Spec => []IInv
<1>1. Init => IInv
  BY InitCore, InitOrdered DEF IInv
<1>2. IInv /\ [Next]_vars => IInv'
  BY TypeStep, ControlStep, HoldsHeadStep, RoomStep, OrderedStep DEF IInv, Core
<1>. QED BY <1>1, <1>2, PTL DEF Spec

--------------------------------------------------------------------------------
\* Persistence.

\* Somebody will signal, has signalled, or the change waits for the next signal.
Pending ==
    \/ stale \/ signal
    \/ pc["detect"] = "hand"
    \/ \E g \in Goroutine : pc[g] = "notify"

\* NoLostWakeup, with the place of the save goroutine: between two saves redis
\* has what the task is, during one the snapshot has, unless a signal is due.
SaveDue ==
    \/ Pending
    \/ pc["save"] = "lock"
    \/ pc["save"] = "idle" /\ saved = Current
    \/ SnapCurrent

\* Every step that changes a queue leaves a signal due, and no step consumes
\* one without reading the queues afterwards.
LEMMA SaveDueStep == Core /\ SaveDue /\ [Next]_vars => SaveDue'
<1>. SUFFICES ASSUME Core, SaveDue, [Next]_vars
              PROVE  SaveDue'
  OBVIOUS
<1>0. /\ pc \in [Goroutine -> Location]
      /\ snap \in Snapshot
  BY DEF Core, TypeOK
<1>. USE DEF queues, store, disk, Goto, Hold, Return, Goroutine, SaveDue, Pending
<1>1. CASE EnqueueLive
  BY <1>0, <1>1 DEF EnqueueLive
<1>2. CASE MoveToDetect \/ DropLive
  BY <1>0, <1>2 DEF MoveToDetect, DropLive
<1>3. CASE TakeFromDetect \/ HandToFinish \/ DropDetect
  BY <1>0, <1>3 DEF TakeFromDetect, HandToFinish, DropDetect
<1>4. CASE TakeFromFinish
  BY <1>0, <1>4 DEF TakeFromFinish
<1>5. ASSUME NEW g \in {"rx", "live", "detect", "finish"}, Notify(g)
      PROVE  SaveDue'
  BY <1>0, <1>5 DEF Notify
<1>6. CASE WakeSave
  BY <1>0, <1>6 DEF WakeSave
<1>7. CASE MarshalLive
  BY <1>0, <1>7 DEF MarshalLive, SnapCurrent, Snapshot
<1>8. CASE MarshalDetect
  BY <1>0, <1>8 DEF MarshalDetect, SnapCurrent, Snapshot
<1>9. CASE MarshalFinish
  BY <1>0, <1>9 DEF MarshalFinish, SnapCurrent, Snapshot
<1>10. CASE HSet
  <2>1. CASE stale'
    BY <2>1
  <2>2. CASE saved' = snap /\ SnapCurrent
    <3>1. snap = Current
      BY <1>0, <1>10, <2>2 DEF HSet, SnapCurrent, Current, Snapshot
    <3>2. pc' = [pc EXCEPT !["save"] = "idle"] /\ Current' = Current
      BY <1>10 DEF HSet, Current
    <3>. QED BY <1>0, <2>2, <3>1, <3>2
  <2>3. CASE Pending /\ stale' = stale
    BY <1>0, <1>10, <2>3 DEF HSet
  <2>. QED BY <1>10, <2>1, <2>2, <2>3 DEF HSet
<1>11. ASSUME Current' = Current,
              pc'["save"] = pc["save"], UNCHANGED <<signal, snap, saved, stale>>,
              pc["detect"] = "hand" => pc'["detect"] = "hand",
              \A g \in Goroutine : pc[g] = "notify" => pc'[g] = "notify"
       PROVE  SaveDue'
  BY <1>11 DEF SnapCurrent, Current
<1>. HIDE DEF SaveDue, Pending
<1>12. CASE Arrive \/ ReceiveTs \/ PassLock
  BY <1>0, <1>11, <1>12 DEF Arrive, ReceiveTs, PassLock, Current
<1>13. CASE BeginLive \/ Extract
  BY <1>0, <1>11, <1>13 DEF BeginLive, Extract, Current
<1>14. CASE BeginDetect \/ PostImage \/ AddAccident \/ Probe
  BY <1>0, <1>11, <1>14 DEF BeginDetect, PostImage, AddAccident, Probe, Current
<1>15. CASE BeginFinish
  BY <1>0, <1>11, <1>15 DEF BeginFinish, Current
<1>16. CASE Accident
  BY <1>0, <1>11, <1>16 DEF Accident, ReceiveAccident, CopyEvidence, Current
<1>17. ASSUME NEW g \in {"live", "detect", "finish"}, Dispose(g)
       PROVE  SaveDue'
  BY <1>0, <1>11, <1>17 DEF Dispose, Current
<1>18. ASSUME NEW s \in Losable, LoseFile(s)
       PROVE  SaveDue'
  BY <1>0, <1>11, <1>18 DEF LoseFile, Current
<1>19. CASE UNCHANGED vars
  BY <1>0, <1>11, <1>19 DEF vars, Current
<1>. QED
  BY <1>1, <1>2, <1>3, <1>4, <1>5, <1>6, <1>7, <1>8, <1>9, <1>10, <1>12, <1>13,
     <1>14, <1>15, <1>16, <1>17, <1>18, <1>19
     DEF Next, Rx, DriveLive, DriveDetect, DriveFinish, Save

\* The queues alone are in order: what json.Marshal would read at one instant.
LEMMA QueuesOrdered == IInv => Increasing((finish \o detect) \o live)
<1>. SUFFICES ASSUME IInv PROVE Increasing((finish \o detect) \o live)
  OBVIOUS
<1>1. /\ finish \in Seq(Segment) /\ HandOut \in Seq(Segment)
      /\ detect \in Seq(Segment) /\ live \in Seq(Segment)
      /\ HandIn \in Seq(Segment) /\ tsfiles \in Seq(Segment)
      /\ ((finish \o HandOut) \o detect) \o live \in Seq(Segment)
      /\ (((finish \o HandOut) \o detect) \o live) \o HandIn \in Seq(Segment)
      /\ Pipeline = ((((finish \o HandOut) \o detect) \o live) \o HandIn) \o tsfiles
      /\ Increasing(Pipeline)
  BY PipelineParts DEF IInv, Ordered, FifoOrder
<1>2. Increasing((((finish \o HandOut) \o detect) \o live) \o HandIn)
  BY <1>1, IncreasingConcat
<1>3. Increasing(((finish \o HandOut) \o detect) \o live)
  BY <1>1, <1>2, IncreasingConcat
<1>. QED BY <1>1, <1>3, IncreasingOmit

\* While the save goroutine marshals, detect and finish stand still and live only
\* grows, so that what is read queue by queue is in order together.
SnapOrdered ==
    /\ pc["save"] \in {"readDetect", "readFinish", "hset"} =>
          Increasing((finish \o detect) \o snap.live)
    /\ pc["save"] \in {"readFinish", "hset"} => snap.detect = detect
    /\ pc["save"] = "hset" => snap.finish = finish

\* No hand-over disturbs the snapshot, and what is stored is a snapshot.
LEMMA SnapStep ==
    IInv /\ SnapOrdered /\ SnapshotOrdered /\ [Next]_vars => SnapOrdered' /\ SnapshotOrdered'
<1>. SUFFICES ASSUME IInv, SnapOrdered, SnapshotOrdered, [Next]_vars
              PROVE  SnapOrdered' /\ SnapshotOrdered'
  OBVIOUS
<1>0. /\ pc \in [Goroutine -> Location]
      /\ snap \in Snapshot
      /\ pc["save"] \in {"idle", "lock", "readDetect", "readFinish", "hset"}
  BY DEF IInv, Core, TypeOK, Control
<1>. USE DEF queues, store, disk, Goto, Hold, Return, Goroutine
<1>1. CASE WakeSave
  BY <1>0, <1>1 DEF WakeSave, SnapOrdered, SnapshotOrdered
<1>2. CASE MarshalLive
  <2>1. snap'.live = live /\ UNCHANGED <<finish, detect, saved>> /\ pc'["save"] = "readDetect"
    BY <1>0, <1>2 DEF MarshalLive, Snapshot
  <2>. QED BY <2>1, QueuesOrdered DEF SnapOrdered, SnapshotOrdered
<1>3. CASE MarshalDetect
  <2>1. /\ snap'.live = snap.live /\ snap'.detect = detect
        /\ UNCHANGED <<finish, detect, saved>>
        /\ pc["save"] = "readDetect" /\ pc'["save"] = "readFinish"
    BY <1>0, <1>3 DEF MarshalDetect, Snapshot
  <2>. QED BY <2>1 DEF SnapOrdered, SnapshotOrdered
<1>4. CASE MarshalFinish
  <2>1. /\ snap'.live = snap.live /\ snap'.detect = snap.detect /\ snap'.finish = finish
        /\ UNCHANGED <<finish, detect, saved>>
        /\ pc["save"] = "readFinish" /\ pc'["save"] = "hset"
    BY <1>0, <1>4 DEF MarshalFinish, Snapshot
  <2>. QED BY <2>1 DEF SnapOrdered, SnapshotOrdered
<1>5. CASE HSet
  <2>1. pc["save"] = "hset" /\ pc'["save"] = "idle" /\ saved' \in {saved, snap}
    BY <1>0, <1>5 DEF HSet
  <2>2. Increasing((snap.finish \o snap.detect) \o snap.live)
    BY <2>1 DEF SnapOrdered
  <2>. QED BY <2>1, <2>2 DEF SnapOrdered, SnapshotOrdered
<1>6. ASSUME UNCHANGED <<snap, saved>>, pc'["save"] = pc["save"],
             LockFree \/ UNCHANGED <<detect, finish>>
      PROVE  SnapOrdered' /\ SnapshotOrdered'
  <2>1. SnapshotOrdered'
    BY <1>6 DEF SnapshotOrdered
  <2>2. CASE LockFree
    BY <1>6, <2>1, <2>2 DEF LockFree, SnapOrdered
  <2>3. CASE UNCHANGED <<detect, finish>>
    BY <1>6, <2>1, <2>3 DEF SnapOrdered
  <2>. QED BY <1>6, <2>2, <2>3
<1>7. CASE Arrive \/ ReceiveTs \/ PassLock \/ EnqueueLive
  BY <1>0, <1>6, <1>7 DEF Arrive, ReceiveTs, PassLock, EnqueueLive
<1>8. CASE BeginLive \/ Extract \/ MoveToDetect \/ DropLive
  BY <1>0, <1>6, <1>8 DEF BeginLive, Extract, MoveToDetect, DropLive
<1>9. CASE BeginDetect \/ PostImage \/ AddAccident \/ Probe
  BY <1>0, <1>6, <1>9 DEF BeginDetect, PostImage, AddAccident, Probe
<1>10. CASE TakeFromDetect \/ HandToFinish \/ DropDetect
  BY <1>0, <1>6, <1>10 DEF TakeFromDetect, HandToFinish, DropDetect
<1>11. CASE BeginFinish \/ TakeFromFinish
  BY <1>0, <1>6, <1>11 DEF BeginFinish, TakeFromFinish
<1>12. CASE Accident
  BY <1>0, <1>6, <1>12 DEF Accident, ReceiveAccident, CopyEvidence
<1>13. ASSUME NEW g \in {"rx", "live", "detect", "finish"}, Notify(g) \/ Dispose(g)
       PROVE  SnapOrdered' /\ SnapshotOrdered'
  BY <1>0, <1>6, <1>13 DEF Notify, Dispose
<1>14. ASSUME NEW s \in Losable, LoseFile(s)
       PROVE  SnapOrdered' /\ SnapshotOrdered'
  BY <1>0, <1>6, <1>14 DEF LoseFile
<1>15. CASE UNCHANGED vars
  BY <1>0, <1>6, <1>15 DEF vars
<1>. QED
  BY <1>1, <1>2, <1>3, <1>4, <1>5, <1>7, <1>8, <1>9, <1>10, <1>11, <1>12, <1>13,
     <1>14, <1>15
     DEF Next, Rx, DriveLive, DriveDetect, DriveFinish, Save

--------------------------------------------------------------------------------
\* The accidents.

\* What was reported and is not copied yet, oldest first.
Reports == InHand("accident", {"copy"}) \o accidents

\* What detection may still report.
Unreported == Range(detect) \cup Range(live) \cup Range(HandIn) \cup Range(tsfiles)

\* Nothing is reported that is newer than a segment whose detection is to come.
ReportedFirst ==
    \A x \in Range(Reports) : x <= arrived /\ \A y \in Unreported : x <= y

\* The head of the detect queue is the oldest segment that detection may report.
LEMMA HeadIsOldest ==
    ASSUME IInv, detect # <<>>
    PROVE  Head(detect) <= arrived /\ \A y \in Unreported : Head(detect) <= y
<1>. DEFINE p1 == finish \o HandOut
            p2 == p1 \o detect
            p3 == p2 \o live
            p4 == p3 \o HandIn
<1>1. /\ detect \in Seq(Segment) /\ live \in Seq(Segment)
      /\ HandIn \in Seq(Segment) /\ tsfiles \in Seq(Segment)
      /\ p1 \in Seq(Segment) /\ p2 \in Seq(Segment) /\ p3 \in Seq(Segment) /\ p4 \in Seq(Segment)
      /\ Pipeline \in Seq(Segment) /\ Pipeline = p4 \o tsfiles
      /\ Increasing(Pipeline)
  BY PipelineParts DEF IInv, Ordered, FifoOrder
<1>2. p2 = p1 \o detect /\ p3 = p2 \o live /\ p4 = p3 \o HandIn
  OBVIOUS
<1>. HIDE DEF p1, p2, p3, p4
<1>3. /\ Increasing(p4) /\ Range(p4) \subseteq Range(Pipeline)
      /\ Range(tsfiles) \subseteq Range(Pipeline)
      /\ \A x \in Range(p4), y \in Range(tsfiles) : x < y
  BY <1>1, IncreasingRanges
<1>4. /\ Increasing(p3) /\ Range(p3) \subseteq Range(p4) /\ Range(HandIn) \subseteq Range(p4)
      /\ \A x \in Range(p3), y \in Range(HandIn) : x < y
  BY <1>1, <1>2, <1>3, IncreasingRanges
<1>5. /\ Increasing(p2) /\ Range(p2) \subseteq Range(p3) /\ Range(live) \subseteq Range(p3)
      /\ \A x \in Range(p2), y \in Range(live) : x < y
  BY <1>1, <1>2, <1>4, IncreasingRanges
<1>6. Increasing(detect) /\ Range(detect) \subseteq Range(p2)
  BY <1>1, <1>2, <1>5, IncreasingRanges
<1>7. Head(detect) \in Range(detect) /\ \A y \in Range(detect) : Head(detect) <= y
  <2>1. /\ Len(detect) \in Nat /\ 1 \in 1..Len(detect) /\ Head(detect) = detect[1]
        /\ \A i \in 1..Len(detect) : detect[i] \in Nat
    <3>1. \A i \in 1..Len(detect) : detect[i] \in Segment
      BY <1>1, ElementOfSeq
    <3>. QED BY <1>1, <3>1, EmptySeq DEF Segment
  <2>2. \A i \in 1..Len(detect) : detect[1] <= detect[i]
    <3>1. \A i \in 1..Len(detect) : i = 1 \/ 1 < i
      BY <2>1
    <3>. QED BY <1>6, <2>1, <3>1 DEF Increasing
  <2>3. Range(detect) = {detect[i] : i \in 1..Len(detect)}
    BY <1>1, RangeEquality
  <2>. QED BY <2>1, <2>2, <2>3
<1>8. Range(Pipeline) \subseteq Nat /\ \A x \in Range(Pipeline) : x <= arrived
  <2>1. Range(Pipeline) = {Pipeline[i] : i \in 1..Len(Pipeline)}
    BY PipelineParts, RangeEquality DEF IInv
  <2>2. Range(Pipeline) \subseteq Segment
    BY <1>1, RangeOfSeq
  <2>. QED BY <2>1, <2>2 DEF IInv, Ordered, Segment
<1>9. Head(detect) <= arrived
  BY <1>3, <1>4, <1>5, <1>6, <1>7, <1>8
<1>10. \A y \in Range(live) \cup Range(HandIn) \cup Range(tsfiles) : Head(detect) < y
  BY <1>3, <1>4, <1>5, <1>6, <1>7
<1>11. \A y \in Range(live) \cup Range(HandIn) \cup Range(tsfiles) : Head(detect) <= y
  BY <1>3, <1>4, <1>5, <1>6, <1>7, <1>8, <1>10
<1>. QED BY <1>7, <1>9, <1>11 DEF Unreported

\* Nothing joins what detection may report but a new segment.
LEMMA UnreportedStep ==
    ASSUME IInv, [Next]_vars
    PROVE  \/ Unreported' \subseteq Unreported /\ arrived' = arrived
           \/ Unreported' \subseteq Unreported \cup {arrived + 1} /\ arrived' = arrived + 1
<1>. USE DEF queues, Goto, Hold, Return
<1>0. /\ detect \in Seq(Segment) /\ live \in Seq(Segment)
      /\ tsfiles \in Seq(Segment)
      /\ pc \in [Goroutine -> Location] /\ seg \in [Goroutine -> Segment \cup {None}]
      /\ pc["rx"] \in {"lock", "enqueue"} => seg["rx"] \in Segment
  BY DEF IInv, Core, TypeOK, Control, Goroutine
<1>1. \A s : Range(<<s>>) = {s} /\ Range(<<>>) = {}
  BY DEF Range
<1>2. CASE UNCHANGED <<detect, live, tsfiles, arrived>> /\ HandIn' = HandIn
  BY <1>2 DEF Unreported
<1>3. CASE Arrive
  <2>1. arrived + 1 \in Segment
    BY <1>3, ArriveLine DEF IInv
  <2>2. Range(tsfiles') = Range(tsfiles) \cup {arrived + 1}
    BY <1>0, <1>3, <2>1, RangeAppend DEF Arrive
  <2>3. UNCHANGED <<detect, live>> /\ HandIn' = HandIn /\ arrived' = arrived + 1
    BY <1>3 DEF Arrive, HandIn, InHand
  <2>. QED BY <2>2, <2>3 DEF Unreported
<1>4. CASE ReceiveTs
  <2>1. HandIn' = <<Head(tsfiles)>> /\ UNCHANGED <<detect, live, arrived>>
    BY <1>0, <1>4 DEF ReceiveTs, HandIn, InHand, Goroutine
  <2>2. Head(tsfiles) \in Range(tsfiles) /\ Range(tsfiles') \subseteq Range(tsfiles)
    BY <1>0, <1>4, HeadInRange DEF ReceiveTs
  <2>. QED BY <1>1, <2>1, <2>2 DEF Unreported
<1>5. CASE EnqueueLive
  <2>1. /\ HandIn = <<seg["rx"]>> /\ HandIn' = <<>> /\ seg["rx"] \in Segment
        /\ UNCHANGED <<detect, tsfiles, arrived>>
    BY <1>0, <1>5 DEF EnqueueLive, HandIn, InHand, Goroutine
  <2>2. Range(live') = Range(live) \cup {seg["rx"]}
    BY <1>0, <1>5, <2>1, RangeAppend DEF EnqueueLive
  <2>. QED BY <1>1, <2>1, <2>2 DEF Unreported
<1>6. CASE MoveToDetect
  <2>1. /\ HandIn' = HandIn /\ UNCHANGED <<tsfiles, arrived>>
        /\ live # <<>> /\ seg["live"] = Head(live) /\ Head(live) \in Segment
    BY <1>0, <1>6 DEF MoveToDetect, HandIn, InHand, Goroutine, IInv, Core, HoldsHead
  <2>2. live' = Tail(live)
    BY <1>0, <1>6, <2>1, DequeueHead DEF MoveToDetect
  <2>3. Range(detect') = Range(detect) \cup {Head(live)}
    BY <1>0, <1>6, <2>1, RangeAppend DEF MoveToDetect
  <2>4. Head(live) \in Range(live) /\ Range(live') \subseteq Range(live)
    BY <1>0, <2>1, <2>2, HeadInRange
  <2>. QED BY <2>1, <2>3, <2>4 DEF Unreported
<1>7. CASE DropLive
  <2>1. /\ HandIn' = HandIn /\ UNCHANGED <<detect, tsfiles, arrived>>
        /\ live # <<>> /\ live' = Tail(live)
    BY <1>0, <1>7, DequeueHead DEF DropLive, HandIn, InHand, Goroutine, IInv, Core, HoldsHead
  <2>2. Range(live') \subseteq Range(live)
    BY <1>0, <2>1, HeadInRange
  <2>. QED BY <2>1, <2>2 DEF Unreported
<1>8. CASE TakeFromDetect \/ DropDetect
  <2>1. /\ HandIn' = HandIn /\ UNCHANGED <<live, tsfiles, arrived>>
        /\ detect # <<>> /\ detect' = Tail(detect)
    BY <1>0, <1>8, DequeueHead
       DEF TakeFromDetect, DropDetect, HandIn, InHand, Goroutine, IInv, Core, HoldsHead
  <2>2. Range(detect') \subseteq Range(detect)
    BY <1>0, <2>1, HeadInRange
  <2>. QED BY <2>1, <2>2 DEF Unreported
<1>9. ASSUME ~Arrive, ~ReceiveTs, ~EnqueueLive, ~MoveToDetect, ~DropLive, ~TakeFromDetect,
             ~DropDetect
      PROVE  UNCHANGED <<detect, live, tsfiles, arrived>> /\ HandIn' = HandIn
  <2>. USE <1>0 DEF HandIn, InHand, Goroutine
  <2>1. CASE PassLock
    BY <2>1 DEF PassLock
  <2>2. CASE BeginLive \/ Extract
    BY <2>2 DEF BeginLive, Extract
  <2>3. CASE BeginDetect \/ PostImage \/ AddAccident \/ Probe \/ HandToFinish
    BY <2>3 DEF BeginDetect, PostImage, AddAccident, Probe, HandToFinish
  <2>4. CASE BeginFinish \/ TakeFromFinish
    BY <2>4 DEF BeginFinish, TakeFromFinish
  <2>5. CASE Save \/ Accident
    BY <2>5 DEF Save, Accident, WakeSave, MarshalLive, MarshalDetect, MarshalFinish, HSet,
                ReceiveAccident, CopyEvidence
  <2>6. ASSUME NEW g \in {"rx", "live", "detect", "finish"}, Notify(g) \/ Dispose(g)
        PROVE  UNCHANGED <<detect, live, tsfiles, arrived>> /\ HandIn' = HandIn
    BY <2>6 DEF Notify, Dispose
  <2>7. ASSUME NEW s \in Losable, LoseFile(s)
        PROVE  UNCHANGED <<detect, live, tsfiles, arrived>> /\ HandIn' = HandIn
    BY <2>7 DEF LoseFile
  <2>8. CASE UNCHANGED vars
    BY <2>8 DEF vars
  <2>. QED BY <1>9, <2>1, <2>2, <2>3, <2>4, <2>5, <2>6, <2>7, <2>8
           DEF Next, Rx, DriveLive, DriveDetect, DriveFinish
<1>. QED BY <1>2, <1>3, <1>4, <1>5, <1>6, <1>7, <1>8, <1>9

\* What each step does to the reports: one of the head of detect at the end, the
\* oldest copied, or nothing.
LEMMA ReportsStep ==
    ASSUME IInv, [Next]_vars
    PROVE  /\ Reports \in Seq(Segment)
           /\ \/ Reports' = Reports
              \/ detect # <<>> /\ Head(detect) \in Segment /\ Reports' = Append(Reports, Head(detect))
              \/ Reports # <<>> /\ Reports' = Tail(Reports)
<1>. USE DEF queues, Goto, Hold, Return
<1>0. /\ detect \in Seq(Segment) /\ accidents \in Seq(Segment)
      /\ pc \in [Goroutine -> Location] /\ seg \in [Goroutine -> Segment \cup {None}]
      /\ pc["accident"] = "copy" => seg["accident"] \in Segment
      /\ pc["accident"] \in {"idle", "copy"}
  BY DEF IInv, Core, TypeOK, Control, Goroutine
<1>. DEFINE hand == InHand("accident", {"copy"})
<1>1. hand \in Seq(Segment)
  BY <1>0 DEF InHand
<1>2. Reports \in Seq(Segment)
  BY <1>0, <1>1, ConcatProperties DEF Reports
<1>3. CASE accidents' = accidents /\ hand' = hand
  BY <1>2, <1>3 DEF Reports
<1>4. CASE AddAccident
  <2>1. /\ hand' = hand /\ accidents' = Append(accidents, Head(detect))
        /\ detect # <<>> /\ Head(detect) \in Segment
    BY <1>0, <1>4 DEF AddAccident, InHand, Goroutine, IInv, Core, HoldsHead
  <2>2. Reports' = hand \o Append(accidents, Head(detect))
    BY <2>1 DEF Reports
  <2>. HIDE DEF hand
  <2>3. hand \o Append(accidents, Head(detect)) = (hand \o accidents) \o <<Head(detect)>>
    BY <1>0, <1>1, <2>1, Absorb
  <2>4. Append(Reports, Head(detect)) = Reports \o <<Head(detect)>>
    BY <1>2, <2>1, AppendIsConcat
  <2>. QED BY <1>2, <2>1, <2>2, <2>3, <2>4 DEF Reports, hand
<1>5. CASE ReceiveAccident
  <2>1. /\ hand = <<>> /\ hand' = <<Head(accidents)>> /\ accidents # <<>>
        /\ accidents' = Tail(accidents)
    BY <1>0, <1>5 DEF ReceiveAccident, InHand, Goroutine
  <2>2. Reports' = (<<>> \o <<Head(accidents)>>) \o Tail(accidents)
    <3>1. <<Head(accidents)>> = <<>> \o <<Head(accidents)>>
      OBVIOUS
    <3>. QED BY <2>1, <3>1 DEF Reports
  <2>3. (<<>> \o <<Head(accidents)>>) \o Tail(accidents) = <<>> \o accidents
    BY <1>0, <2>1, Shift, EmptySeq
  <2>. QED BY <1>2, <2>1, <2>2, <2>3 DEF Reports
<1>6. CASE CopyEvidence
  <2>1. /\ hand = <<seg["accident"]>> /\ hand' = <<>> /\ accidents' = accidents
        /\ seg["accident"] \in Segment
    BY <1>0, <1>6 DEF CopyEvidence, InHand, Goroutine
  <2>2. Reports = <<seg["accident"]>> \o accidents /\ Reports' = accidents
    BY <1>0, <2>1, ConcatEmptySeq DEF Reports
  <2>3. Reports # <<>> /\ Tail(Reports) = accidents
    BY <1>0, <2>1, <2>2
  <2>. QED BY <1>2, <2>2, <2>3
<1>7. ASSUME ~AddAccident, ~ReceiveAccident, ~CopyEvidence
      PROVE  accidents' = accidents /\ hand' = hand
  <2>. USE <1>0 DEF InHand, Goroutine
  <2>1. CASE Arrive \/ ReceiveTs \/ PassLock \/ EnqueueLive
    BY <2>1 DEF Arrive, ReceiveTs, PassLock, EnqueueLive
  <2>2. CASE BeginLive \/ Extract \/ MoveToDetect \/ DropLive
    BY <2>2 DEF BeginLive, Extract, MoveToDetect, DropLive
  <2>3. CASE BeginDetect \/ PostImage \/ Probe \/ TakeFromDetect \/ HandToFinish \/ DropDetect
    BY <2>3 DEF BeginDetect, PostImage, Probe, TakeFromDetect, HandToFinish, DropDetect
  <2>4. CASE BeginFinish \/ TakeFromFinish
    BY <2>4 DEF BeginFinish, TakeFromFinish
  <2>5. CASE Save
    BY <2>5 DEF Save, WakeSave, MarshalLive, MarshalDetect, MarshalFinish, HSet
  <2>6. ASSUME NEW g \in {"rx", "live", "detect", "finish"}, Notify(g) \/ Dispose(g)
        PROVE  accidents' = accidents /\ hand' = hand
    BY <2>6 DEF Notify, Dispose
  <2>7. ASSUME NEW s \in Losable, LoseFile(s)
        PROVE  accidents' = accidents /\ hand' = hand
    BY <2>7 DEF LoseFile
  <2>8. CASE UNCHANGED vars
    BY <2>8 DEF vars
  <2>. QED BY <1>7, <2>1, <2>2, <2>3, <2>4, <2>5, <2>6, <2>7, <2>8
           DEF Next, Rx, DriveLive, DriveDetect, DriveFinish, Accident
<1>. QED BY <1>2, <1>3, <1>4, <1>5, <1>6, <1>7

\* A newer or the same segment at the end, or the oldest taken away, keeps the order.
LEMMA AccidentStep ==
    IInv /\ ReportedFirst /\ AccidentOrder /\ [Next]_vars => ReportedFirst' /\ AccidentOrder'
<1>. SUFFICES ASSUME IInv, ReportedFirst, AccidentOrder, [Next]_vars
              PROVE  ReportedFirst' /\ AccidentOrder'
  OBVIOUS
<1>1. Reports \in Seq(Segment) /\ Range(Reports) \subseteq Nat /\ arrived \in Nat
  <2>1. Reports \in Seq(Segment)
    BY ReportsStep
  <2>2. Range(Reports) \subseteq Segment
    BY <2>1, RangeOfSeq
  <2>. QED BY <2>1, <2>2 DEF IInv, Core, TypeOK, Segment
<1>2. \A i, j \in 1..Len(Reports) : i < j => Reports[i] <= Reports[j]
  BY DEF AccidentOrder, Reports
<1>3. AccidentOrder' <=> \A i, j \in 1..Len(Reports') : i < j => Reports'[i] <= Reports'[j]
  BY DEF AccidentOrder, Reports
<1>4. ASSUME Range(Reports') \subseteq Range(Reports)
      PROVE  ReportedFirst'
  BY <1>1, <1>4, UnreportedStep DEF ReportedFirst
<1>5. CASE Reports' = Reports
  BY <1>2, <1>3, <1>4, <1>5
<1>6. CASE Reports # <<>> /\ Reports' = Tail(Reports)
  <2>1. /\ Len(Reports) \in Nat /\ Len(Tail(Reports)) = Len(Reports) - 1
        /\ \A i \in 1..Len(Reports) - 1 : Tail(Reports)[i] = Reports[i + 1]
        /\ Range(Tail(Reports)) \subseteq Range(Reports)
    BY <1>1, <1>6, HeadTailProperties, HeadInRange
  <2>2. \A i \in 1..Len(Reports) - 1 : i + 1 \in 1..Len(Reports)
    BY <2>1
  <2>3. \A i, j \in 1..Len(Reports) - 1 : i < j => i + 1 < j + 1
    BY <2>1
  <2>. QED BY <1>2, <1>3, <1>4, <1>6, <2>1, <2>2, <2>3
<1>7. CASE /\ detect # <<>> /\ Head(detect) \in Segment
           /\ Reports' = Append(Reports, Head(detect))
  <2>1. Head(detect) <= arrived /\ \A y \in Unreported : Head(detect) <= y
    BY <1>7, HeadIsOldest
  <2>2. Head(detect) \in Unreported
    BY <1>7, HeadInRange DEF Unreported, IInv, Core, TypeOK
  <2>3. Range(Reports') = Range(Reports) \cup {Head(detect)}
    BY <1>1, <1>7, RangeAppend
  <2>4. ReportedFirst'
    BY <1>1, <1>7, <2>1, <2>3, UnreportedStep DEF ReportedFirst, Segment
  <2>5. \A i \in 1..Len(Reports) : Reports[i] <= Head(detect)
    <3>1. \A i \in 1..Len(Reports) : Reports[i] \in Range(Reports)
      BY <1>1, RangeEquality
    <3>. QED BY <2>2, <3>1 DEF ReportedFirst
  <2>6. /\ Len(Reports) \in Nat /\ Len(Reports') = Len(Reports) + 1
        /\ Reports'[Len(Reports) + 1] = Head(detect)
        /\ \A i \in 1..Len(Reports) : Reports'[i] = Reports[i]
    BY <1>1, <1>7, AppendProperties
  <2>7. \A i, j \in 1..Len(Reports') : i < j =>
           i \in 1..Len(Reports) /\ (j \in 1..Len(Reports) \/ j = Len(Reports) + 1)
    BY <2>6
  <2>. QED BY <1>2, <1>3, <2>4, <2>5, <2>6, <2>7
<1>. QED BY <1>5, <1>6, <1>7, ReportsStep

--------------------------------------------------------------------------------
\* The theorems.

\* The variables of the task keep their types: in particular every queue holds
\* segments only, however the goroutines interleave.
THEOREM TypeCorrect == Spec => []TypeOK
<1>1. IInv => TypeOK
  BY DEF IInv, Core
<1>. QED BY <1>1, Invariance, PTL

\* DriveLiveQueue never overfills the detect queue, whatever the limit is.
THEOREM DetectQueueBounded == Spec => []DetectBound
<1>1. IInv => DetectBound
  BY DEF IInv, Core, Room, DetectBound
<1>. QED BY <1>1, Invariance, PTL

\* The six goroutines together keep the order of the stream and never hold a
\* segment twice, for any number of segments, failures and lost files.
THEOREM SegmentsInOrder == Spec => []FifoOrder
<1>1. IInv => FifoOrder
  BY DEF IInv, Ordered
<1>. QED BY <1>1, Invariance, PTL

\* What the task changed and did not store yet, somebody will store: coalescing
\* the signals loses none, however the drivers and the save goroutine interleave.
THEOREM WakeupsKept == Spec => []NoLostWakeup
<1>1. Init => SaveDue
  BY DEF Init, SaveDue, Current, NoSnapshot, Goroutine
<1>2. IInv /\ SaveDue /\ [Next]_vars => SaveDue'
  BY SaveDueStep DEF IInv
<1>3. SaveDue => NoLostWakeup
  BY DEF SaveDue, Pending, NoLostWakeup
<1>. QED BY <1>1, <1>2, <1>3, Invariance, PTL DEF Spec

\* A stored task is in order, although it is marshalled queue by queue while the
\* drivers and the receivers go on.
THEOREM SnapshotsInOrder == Spec => []SnapshotOrdered
<1>1. Init => SnapOrdered /\ SnapshotOrdered
  <2>1. <<>> \o <<>> = <<>>
    BY ConcatEmptySeq, EmptySeq
  <2>2. Increasing(<<>>)
    BY EmptySeq DEF Increasing
  <2>. QED BY <2>1, <2>2 DEF Init, SnapOrdered, SnapshotOrdered, NoSnapshot, Goroutine
<1>. QED BY <1>1, SnapStep, Invariance, PTL DEF Spec

\* The accident worker receives the reports in the order of the stream, also when
\* detection reports a segment again.
THEOREM AccidentsInOrder == Spec => []AccidentOrder
<1>1. Init => ReportedFirst /\ AccidentOrder
  <2>1. Init => Reports = <<>>
    <3>1. <<>> \o <<>> = <<>>
      BY ConcatEmptySeq, EmptySeq
    <3>. QED BY <3>1 DEF Init, Reports, InHand, Goroutine
  <2>2. Len(<<>>) = 0 /\ Range(<<>>) = {}
    BY EmptySeq DEF Range
  <2>. QED BY <2>1, <2>2 DEF ReportedFirst, AccidentOrder, Reports
<1>. QED BY <1>1, AccidentStep, Invariance, PTL DEF Spec
================================================================================
