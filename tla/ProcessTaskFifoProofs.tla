------------------------- MODULE ProcessTaskFifoProofs -------------------------
(***************************************************************************)
(* ProcessTask loses nothing: proofs that it implements SegmentFifo, that  *)
(* no segment is lost, and that the files on disk are those of the         *)
(* segments it holds, for every value of the constants.                    *)
(*                                                                         *)
(* The drivers decide on what os.Stat told them, so order and files need   *)
(* each other.  A driver drops a segment only because a file is missing,   *)
(* and Kept says that then the environment took it (DropsLost); Dispose    *)
(* removes files only of a segment that left the pipeline (Disposed),      *)
(* which is what keeps the files of all others.  FilesInv is that          *)
(* argument; with IInv, of ProcessTaskProofs, it is inductive.             *)
(***************************************************************************)
EXTENDS ProcessTaskProofs

Held == Range(Pipeline)

\* The segments past extraction.
Imaged == Range(finish) \cup Range(HandOut) \cup Range(detect)

\* The drivers that dispose of a segment, and when they are about to.
Drivers == {"live", "detect", "finish"}
Leaves(g) == pc[g] = "dispose" \/ (g = "finish" /\ pc[g] = "notify")

\* FilesPresent, in terms of sets.
Kept == \A s \in Held \ lost : s \in tsOnDisk /\ (s \in Imaged => s \in imgOnDisk)

\* The image is there before the segment moves on.
ImageReady == pc["live"] = "move" => seg["live"] \in imgOnDisk \cup lost

\* A driver drops only what lost a file.
DropsLost == \A g \in {"live", "detect"} : pc[g] = "drop" => seg[g] \in lost

\* What is disposed of left the pipeline, and does not come back.
Disposed == \A g \in Drivers : Leaves(g) => seg[g] <= arrived /\ seg[g] \notin Held

\* The first part of NoFileLeak, with the drivers that take care of the rest.
Owned ==
    \A s \in tsOnDisk \cup imgOnDisk :
        s \in Held \/ (\E g \in Drivers : Leaves(g) /\ seg[g] = s)

\* The second part of NoFileLeak: what an image is left behind for.
Abandoned == \A s \in orphans : s \in lost \/ toolFails > 0

\* NoSegmentLost, for the whole pipeline instead of the finish queue: with
\* MaxFinish = 0 that queue may be empty.
Retained ==
    \A s \in 1..arrived :
        \/ s \in Held \cup lost
        \/ Len(finish) >= MaxFinish /\ \A x \in Held : s < x

FilesInv ==
    Kept /\ ImageReady /\ DropsLost /\ Disposed /\ Owned /\ Retained

--------------------------------------------------------------------------------
\* Removing an element of an increasing sequence removes it altogether.
LEMMA RangeWithout ==
    ASSUME NEW q \in Seq(Segment), NEW k \in 1..Len(q), Increasing(q)
    PROVE  Range(Without(q, k)) = Range(q) \ {q[k]}
<1>. DEFINE w == Without(q, k)
<1>1. /\ Len(q) \in Nat /\ w \in Seq(Segment) /\ Len(w) = Len(q) - 1
      /\ \A i \in 1..Len(q) - 1 : w[i] = IF i < k THEN q[i] ELSE q[i + 1]
      /\ \A i \in 1..Len(q) : q[i] \in Nat
  <2>1. \A i \in 1..Len(q) : q[i] \in Segment
    BY ElementOfSeq
  <2>2. Len(q) \in Nat /\ Segment \subseteq Nat
    BY DEF Segment
  <2>. QED BY <2>1, <2>2, WithoutElements
<1>. HIDE DEF w
<1>2. Range(w) = {w[i] : i \in 1..Len(q) - 1} /\ Range(q) = {q[i] : i \in 1..Len(q)}
  BY <1>1, RangeEquality
<1>3. \A i, j \in 1..Len(q) : i # j => q[i] # q[j]
  BY <1>1 DEF Increasing
<1>4. ASSUME NEW i \in 1..Len(q) - 1
      PROVE  w[i] \in Range(q) \ {q[k]}
  <2>1. CASE i < k
    BY <2>1, <1>1, <1>2, <1>3
  <2>2. CASE i >= k
    <3>1. i + 1 \in 1..Len(q) /\ i + 1 # k /\ w[i] = q[i + 1]
      BY <2>2, <1>1
    <3>. QED BY <3>1, <1>2, <1>3
  <2>. QED BY <2>1, <2>2, <1>1
<1>5. ASSUME NEW i \in 1..Len(q), i # k
      PROVE  q[i] \in Range(w)
  <2>1. CASE i < k
    <3>1. i \in 1..Len(q) - 1 /\ w[i] = q[i]
      BY <2>1, <1>1
    <3>. QED BY <3>1, <1>2
  <2>2. CASE i > k
    <3>1. i - 1 \in 1..Len(q) - 1 /\ w[i - 1] = q[i]
      BY <2>2, <1>1
    <3>. QED BY <3>1, <1>2
  <2>. QED BY <2>1, <2>2, <1>5, <1>1
<1>6. Range(w) \subseteq Range(q) \ {q[k]}
  BY <1>2, <1>4
<1>7. Range(q) \ {q[k]} \subseteq Range(w)
  BY <1>2, <1>5
<1>. QED BY <1>6, <1>7 DEF w

--------------------------------------------------------------------------------
\* Sets of segments.

\* The segments held, queue by queue, and where the heads of the queues are among them.
LEMMA HeldParts ==
    ASSUME Core
    PROVE  /\ Held = Imaged \cup Range(live) \cup Range(HandIn) \cup Range(tsfiles)
           /\ Held \subseteq Segment
           /\ live # <<>> => Head(live) \in Held
           /\ detect # <<>> => Head(detect) \in Held /\ Head(detect) \in Imaged
           /\ Range(finish) \subseteq Imaged
           /\ Range(finish \o HandOut \o detect) = Imaged
<1>1. /\ finish \in Seq(Segment) /\ HandOut \in Seq(Segment)
      /\ detect \in Seq(Segment) /\ live \in Seq(Segment)
      /\ HandIn \in Seq(Segment) /\ tsfiles \in Seq(Segment)
      /\ finish \o HandOut \in Seq(Segment)
      /\ (finish \o HandOut) \o detect \in Seq(Segment)
      /\ ((finish \o HandOut) \o detect) \o live \in Seq(Segment)
      /\ (((finish \o HandOut) \o detect) \o live) \o HandIn \in Seq(Segment)
      /\ Pipeline \in Seq(Segment)
      /\ Pipeline = ((((finish \o HandOut) \o detect) \o live) \o HandIn) \o tsfiles
  BY PipelineParts
<1>2. Range(finish \o HandOut) = Range(finish) \cup Range(HandOut)
  BY <1>1, RangeConcatenation
<1>3. Range((finish \o HandOut) \o detect) = Range(finish \o HandOut) \cup Range(detect)
  BY <1>1, RangeConcatenation
<1>4. Range(((finish \o HandOut) \o detect) \o live)
        = Range((finish \o HandOut) \o detect) \cup Range(live)
  BY <1>1, RangeConcatenation
<1>5. Range((((finish \o HandOut) \o detect) \o live) \o HandIn)
        = Range(((finish \o HandOut) \o detect) \o live) \cup Range(HandIn)
  BY <1>1, RangeConcatenation
<1>6. Held = Range((((finish \o HandOut) \o detect) \o live) \o HandIn) \cup Range(tsfiles)
  <2>. DEFINE p == (((finish \o HandOut) \o detect) \o live) \o HandIn
  <2>1. p \in Seq(Segment) /\ Pipeline = p \o tsfiles
    BY <1>1
  <2>. HIDE DEF p
  <2>2. Range(p \o tsfiles) = Range(p) \cup Range(tsfiles)
    BY <1>1, <2>1, RangeConcatenation
  <2>. QED BY <2>1, <2>2 DEF Held, p
<1>7. Held = Imaged \cup Range(live) \cup Range(HandIn) \cup Range(tsfiles)
  BY <1>2, <1>3, <1>4, <1>5, <1>6 DEF Imaged
<1>8. Held \subseteq Segment
  BY <1>1, RangeOfSeq DEF Held
<1>9. /\ live # <<>> => Head(live) \in Range(live)
      /\ detect # <<>> => Head(detect) \in Range(detect)
  BY <1>1, HeadInRange
<1>. QED BY <1>2, <1>3, <1>7, <1>8, <1>9 DEF Imaged

\* What each kind of change of the pipeline does to the set of segments held.
LEMMA HeldChange ==
    ASSUME IInv
    PROVE  /\ Unmoved => Held' = Held /\ arrived' = arrived
           /\ Pipeline' = Append(Pipeline, arrived + 1) /\ arrived + 1 \in Segment
                => Held' = Held \cup {arrived + 1}
           /\ \A e : OneLess(Pipeline, Pipeline', e) => Held' = Held \ {e}
<1>1. Pipeline \in Seq(Segment) /\ Increasing(Pipeline)
  BY PipelineParts DEF IInv, Ordered, FifoOrder
<1>2. ASSUME NEW e, OneLess(Pipeline, Pipeline', e)
      PROVE  Held' = Held \ {e}
  <2>1. PICK k \in 1..Len(Pipeline) : Pipeline[k] = e /\ Pipeline' = Without(Pipeline, k)
    BY <1>2 DEF OneLess
  <2>2. Range(Without(Pipeline, k)) = Range(Pipeline) \ {Pipeline[k]}
    BY <1>1, RangeWithout
  <2>. QED BY <2>1, <2>2 DEF Held
<1>3. ASSUME Pipeline' = Append(Pipeline, arrived + 1), arrived + 1 \in Segment
      PROVE  Held' = Held \cup {arrived + 1}
  BY <1>1, <1>3, RangeAppend DEF Held
<1>. QED BY <1>2, <1>3 DEF Unmoved, Held

\* A segment gets past extraction only by MoveToDetect.
LEMMA ImagedStep ==
    ASSUME IInv, [Next]_vars
    PROVE  \/ Imaged' \subseteq Imaged
           \/ MoveToDetect /\ Imaged' = Imaged \cup {seg["live"]}
<1>. USE DEF queues, Goto, Hold, Return
<1>0. /\ finish \in Seq(Segment) /\ detect \in Seq(Segment)
      /\ pc \in [Goroutine -> Location] /\ seg \in [Goroutine -> Segment \cup {None}]
      /\ pc["detect"] = "hand" => seg["detect"] \in Segment
  BY DEF IInv, Core, TypeOK, Control, Goroutine
<1>1. \A s : Range(<<s>>) = {s} /\ Range(<<>>) = {}
  BY DEF Range
<1>2. CASE UNCHANGED <<finish, detect>> /\ HandOut' = HandOut
  BY <1>2 DEF Imaged
<1>3. CASE MoveToDetect
  <2>1. seg["live"] \in Segment
    BY <1>3 DEF MoveToDetect, IInv, Core, Control, Goroutine
  <2>2. Range(detect') = Range(detect) \cup {seg["live"]}
    BY <1>0, <1>3, <2>1, RangeAppend DEF MoveToDetect
  <2>3. HandOut' = HandOut /\ finish' = finish
    BY <1>0, <1>3 DEF MoveToDetect, HandOut, InHand, Goroutine
  <2>. QED BY <1>3, <2>2, <2>3 DEF Imaged
<1>4. CASE TakeFromDetect
  <2>1. /\ HandOut = <<>> /\ HandOut' = <<Head(detect)>> /\ finish' = finish
        /\ detect # <<>> /\ detect' = Tail(detect)
    BY <1>0, <1>4, DequeueHead
       DEF TakeFromDetect, HandOut, InHand, Goroutine, IInv, Core, HoldsHead
  <2>2. Head(detect) \in Range(detect) /\ Range(Tail(detect)) \subseteq Range(detect)
    BY <1>0, <2>1, HeadInRange
  <2>. QED BY <1>1, <2>1, <2>2 DEF Imaged
<1>5. CASE HandToFinish
  <2>1. /\ HandOut = <<seg["detect"]>> /\ HandOut' = <<>> /\ detect' = detect
        /\ seg["detect"] \in Segment
    BY <1>0, <1>5 DEF HandToFinish, HandOut, InHand, Goroutine
  <2>2. Range(finish') = Range(finish) \cup {seg["detect"]}
    BY <1>0, <1>5, <2>1, RangeAppend DEF HandToFinish
  <2>. QED BY <1>1, <2>1, <2>2 DEF Imaged
<1>6. CASE DropDetect
  <2>1. HandOut' = HandOut /\ finish' = finish /\ detect # <<>> /\ detect' = Tail(detect)
    BY <1>0, <1>6, DequeueHead
       DEF DropDetect, HandOut, InHand, Goroutine, IInv, Core, HoldsHead
  <2>2. Range(Tail(detect)) \subseteq Range(detect)
    BY <1>0, <2>1, HeadInRange
  <2>. QED BY <2>1, <2>2 DEF Imaged
<1>7. CASE TakeFromFinish
  <2>1. HandOut' = HandOut /\ detect' = detect /\ finish # <<>> /\ finish' = Tail(finish)
    BY <1>0, <1>7, DequeueHead, TaskAssumption
       DEF TakeFromFinish, HandOut, InHand, Goroutine, IInv, Core, HoldsHead, TaskAssumption
  <2>2. Range(Tail(finish)) \subseteq Range(finish)
    BY <1>0, <2>1, HeadInRange
  <2>. QED BY <2>1, <2>2 DEF Imaged
<1>8. ASSUME [Next]_vars, ~MoveToDetect, ~TakeFromDetect, ~HandToFinish, ~DropDetect,
             ~TakeFromFinish
      PROVE  UNCHANGED <<finish, detect>> /\ HandOut' = HandOut
  <2>. USE <1>0 DEF HandOut, InHand, Goroutine
  <2>1. CASE Arrive \/ ReceiveTs \/ PassLock \/ EnqueueLive
    BY <2>1 DEF Arrive, ReceiveTs, PassLock, EnqueueLive
  <2>2. CASE BeginLive \/ Extract \/ DropLive
    BY <2>2 DEF BeginLive, Extract, DropLive
  <2>3. CASE BeginDetect \/ PostImage \/ AddAccident \/ Probe
    BY <2>3 DEF BeginDetect, PostImage, AddAccident, Probe
  <2>4. CASE BeginFinish
    BY <2>4 DEF BeginFinish
  <2>5. CASE Save \/ Accident
    BY <2>5 DEF Save, Accident, WakeSave, MarshalLive, MarshalDetect, MarshalFinish, HSet,
                ReceiveAccident, CopyEvidence
  <2>6. ASSUME NEW g \in {"rx", "live", "detect", "finish"}, Notify(g) \/ Dispose(g)
        PROVE  UNCHANGED <<finish, detect>> /\ HandOut' = HandOut
    BY <2>6 DEF Notify, Dispose
  <2>7. ASSUME NEW s \in Losable, LoseFile(s)
        PROVE  UNCHANGED <<finish, detect>> /\ HandOut' = HandOut
    BY <2>7 DEF LoseFile
  <2>8. CASE UNCHANGED vars
    BY <2>8 DEF vars
  <2>. QED BY <1>8, <2>1, <2>2, <2>3, <2>4, <2>5, <2>6, <2>7, <2>8
           DEF Next, Rx, DriveLive, DriveDetect, DriveFinish
<1>. QED BY <1>2, <1>3, <1>4, <1>5, <1>6, <1>7, <1>8

--------------------------------------------------------------------------------
\* The files.

\* Nothing is held and nothing is on disk when the worker starts.
LEMMA InitFiles == Init => FilesInv
<1>. SUFFICES ASSUME Init PROVE FilesInv
  OBVIOUS
<1>1. Pipeline = <<>>
  BY InitPipeline
<1>2. Held = {}
  BY <1>1 DEF Held, Range
<1>. QED
  BY <1>2 DEF Init, FilesInv, Kept, ImageReady, DropsLost, Disposed, Owned, Retained,
              Leaves, Drivers, Goroutine

\* The steps that neither touch files nor add, drop or retire a segment.
Routine ==
    \/ ReceiveTs \/ PassLock \/ EnqueueLive
    \/ PostImage \/ AddAccident \/ Probe \/ TakeFromDetect \/ HandToFinish
    \/ BeginFinish
    \/ Save \/ Accident
    \/ UNCHANGED vars

\* Goroutine g is where it was, as far as FilesInv can tell, with the same segment.
SamePlace(g) ==
    /\ Leaves(g)' <=> Leaves(g)
    /\ pc'[g] = "drop" <=> pc[g] = "drop"
    /\ pc'[g] = "move" <=> pc[g] = "move"
    /\ Leaves(g) \/ pc[g] \in {"drop", "move"} => seg'[g] = seg[g]

\* What the routine steps leave alone.
LEMMA RoutineFrame ==
    ASSUME Core, Routine
    PROVE  /\ UNCHANGED <<disk, lost, arrived>>
           /\ \A g \in Drivers : SamePlace(g)
           /\ Len(finish') >= Len(finish)
<1>. USE DEF queues, store, disk, Goto, Hold, Return, Goroutine, Drivers, SamePlace, Leaves
<1>0. /\ pc \in [Goroutine -> Location] /\ seg \in [Goroutine -> Segment \cup {None}]
      /\ finish \in Seq(Segment) /\ Len(finish) \in Nat
  BY DEF Core, TypeOK
<1>1. CASE ReceiveTs \/ PassLock \/ EnqueueLive
  BY <1>0, <1>1 DEF ReceiveTs, PassLock, EnqueueLive
<1>2. CASE PostImage \/ AddAccident \/ Probe \/ TakeFromDetect
  BY <1>0, <1>2 DEF PostImage, AddAccident, Probe, TakeFromDetect
<1>3. CASE HandToFinish
  <2>1. seg["detect"] \in Segment
    BY <1>3 DEF HandToFinish, Core, Control
  <2>2. Len(finish') = Len(finish) + 1
    BY <1>0, <1>3, <2>1, AppendProperties DEF HandToFinish
  <2>. QED BY <1>0, <1>3, <2>2 DEF HandToFinish
<1>4. CASE BeginFinish
  BY <1>0, <1>4 DEF BeginFinish
<1>5. CASE Save
  BY <1>0, <1>5 DEF Save, WakeSave, MarshalLive, MarshalDetect, MarshalFinish, HSet
<1>6. CASE Accident
  BY <1>0, <1>6 DEF Accident, ReceiveAccident, CopyEvidence
<1>7. CASE UNCHANGED vars
  BY <1>0, <1>7 DEF vars
<1>. QED BY <1>1, <1>2, <1>3, <1>4, <1>5, <1>6, <1>7 DEF Routine

\* Every step keeps the files of what is held, and only those.
LEMMA FilesStep == IInv /\ FilesInv /\ [Next]_vars => FilesInv'
<1>. SUFFICES ASSUME IInv, FilesInv, [Next]_vars
              PROVE  FilesInv'
  OBVIOUS
<1>0. /\ pc \in [Goroutine -> Location] /\ seg \in [Goroutine -> Segment \cup {None}]
      /\ arrived \in Nat
      /\ MaxFinish \in Nat /\ Len(finish) \in Nat
      /\ Segment \subseteq Nat
  BY TaskAssumption DEF IInv, Core, TypeOK, TaskAssumption, Segment
<1>1. /\ Held \subseteq Segment
      /\ live # <<>> => Head(live) \in Held
      /\ detect # <<>> => Head(detect) \in Held /\ Head(detect) \in Imaged
      /\ Imaged \subseteq Held
  BY HeldParts DEF IInv
<1>2. \A s \in Held : s <= arrived
  <2>1. Held = {Pipeline[i] : i \in 1..Len(Pipeline)}
    BY PipelineParts, RangeEquality DEF IInv, Held
  <2>. QED BY <2>1 DEF IInv, Ordered
<1>3. Quiet => Held' = Held /\ arrived' = arrived
  BY QuietLine, HeldChange DEF IInv, Unmoved
<1>4. Imaged' \subseteq Held /\ \A x \in Imaged' \ lost : x \in imgOnDisk
  <2>1. \A x \in Imaged \ lost : x \in imgOnDisk
    BY <1>1 DEF FilesInv, Kept
  <2>2. MoveToDetect => seg["live"] \in Held /\ seg["live"] \in imgOnDisk \cup lost
    BY <1>1 DEF MoveToDetect, IInv, Core, HoldsHead, FilesInv, ImageReady
  <2>. QED BY <1>1, <2>1, <2>2, ImagedStep
<1>5. /\ pc["live"] \in {"extract", "move", "drop"} => seg["live"] \in Held
      /\ pc["detect"] = "drop" => seg["detect"] \in Held
  BY <1>1 DEF IInv, Core, HoldsHead
<1>. USE DEF queues, disk, store, Goto, Hold, Return, Goroutine, Drivers
<1>6. CASE Routine
  <2>1. Held' = Held
    BY <1>3, <1>6 DEF Routine, Quiet
  <2>2. /\ UNCHANGED <<disk, lost, arrived>> /\ \A g \in Drivers : SamePlace(g)
        /\ Len(finish') >= Len(finish)
    BY <1>6, RoutineFrame DEF IInv
  <2>3. Kept'
    BY <1>4, <2>1, <2>2 DEF FilesInv, Kept, SamePlace
  <2>4. ImageReady'
    BY <2>2 DEF FilesInv, ImageReady, SamePlace
  <2>5. DropsLost'
    BY <2>2 DEF FilesInv, DropsLost, SamePlace
  <2>6. Disposed'
    BY <2>1, <2>2 DEF FilesInv, Disposed, SamePlace, Leaves
  <2>7. Owned'
    BY <2>1, <2>2 DEF FilesInv, Owned, SamePlace, Leaves
  <2>8. Retained'
    BY <1>0, <2>1, <2>2 DEF FilesInv, Retained
  <2>. QED BY <2>3, <2>4, <2>5, <2>6, <2>7, <2>8 DEF FilesInv
<1>7. CASE BeginLive
  <2>1. Held' = Held
    BY <1>7, <1>3 DEF Quiet
  <2>2. /\ UNCHANGED <<disk, lost, arrived, finish>> /\ live # <<>>
        /\ \/ Head(live) \notin tsOnDisk /\ pc' = [pc EXCEPT !["live"] = "drop"]
           \/ pc' = [pc EXCEPT !["live"] = "extract"]
        /\ seg' = [seg EXCEPT !["live"] = Head(live)] /\ pc["live"] = "idle"
    BY <1>7 DEF BeginLive
  <2>3. Head(live) \notin tsOnDisk => Head(live) \in lost
    BY <1>1, <2>2 DEF FilesInv, Kept
  <2>4. Kept'
    BY <1>4, <2>1, <2>2 DEF FilesInv, Kept
  <2>5. ImageReady'
    BY <1>0, <2>2 DEF FilesInv, ImageReady
  <2>6. DropsLost'
    BY <1>0, <2>2, <2>3 DEF FilesInv, DropsLost
  <2>7. Disposed'
    BY <1>0, <2>1, <2>2 DEF FilesInv, Disposed, Leaves
  <2>8. Owned'
    BY <1>0, <2>1, <2>2 DEF FilesInv, Owned, Leaves
  <2>9. Retained'
    BY <2>1, <2>2 DEF FilesInv, Retained
  <2>. QED BY <2>4, <2>5, <2>6, <2>7, <2>8, <2>9 DEF FilesInv
<1>8. CASE Extract
  <2>1. Held' = Held
    BY <1>8, <1>3 DEF Quiet
  <2>2. /\ UNCHANGED <<tsOnDisk, lost, arrived, finish>> /\ pc["live"] = "extract"
        /\ \/ /\ imgOnDisk' = imgOnDisk \cup {seg["live"]}
              /\ pc' = [pc EXCEPT !["live"] = "move"] /\ seg' = seg
           \/ /\ imgOnDisk' = imgOnDisk
              /\ pc' = [pc EXCEPT !["live"] = "idle"] /\ seg' = [seg EXCEPT !["live"] = None]
    BY <1>8 DEF Extract
  <2>3. Kept'
    BY <1>4, <2>1, <2>2 DEF FilesInv, Kept
  <2>4. ImageReady'
    BY <1>0, <2>2 DEF FilesInv, ImageReady
  <2>5. DropsLost'
    BY <1>0, <2>2 DEF FilesInv, DropsLost
  <2>6. Disposed'
    BY <1>0, <2>1, <2>2 DEF FilesInv, Disposed, Leaves
  <2>7. Owned'
    BY <1>0, <1>5, <2>1, <2>2 DEF FilesInv, Owned, Leaves
  <2>8. Retained'
    BY <2>1, <2>2 DEF FilesInv, Retained
  <2>. QED BY <2>3, <2>4, <2>5, <2>6, <2>7, <2>8 DEF FilesInv
<1>9. CASE MoveToDetect
  <2>1. Held' = Held
    BY <1>9, <1>3 DEF Quiet
  <2>2. /\ UNCHANGED <<disk, lost, arrived, finish, seg>> /\ pc["live"] = "move"
        /\ pc' = [pc EXCEPT !["live"] = "notify"]
    BY <1>9 DEF MoveToDetect
  <2>3. Kept'
    BY <1>4, <2>1, <2>2 DEF FilesInv, Kept
  <2>4. ImageReady'
    BY <2>2 DEF FilesInv, ImageReady
  <2>5. DropsLost'
    BY <2>2 DEF FilesInv, DropsLost
  <2>6. Disposed'
    BY <2>1, <2>2 DEF FilesInv, Disposed, Leaves
  <2>7. Owned'
    BY <2>1, <2>2 DEF FilesInv, Owned, Leaves
  <2>8. Retained'
    BY <2>1, <2>2 DEF FilesInv, Retained
  <2>. QED BY <2>3, <2>4, <2>5, <2>6, <2>7, <2>8 DEF FilesInv
<1>10. CASE DropLive
  <2>1. Held' = Held \ {seg["live"]}
    BY <1>10, DropLiveLine, HeldChange DEF IInv
  <2>2. /\ UNCHANGED <<disk, lost, arrived, finish, seg>> /\ pc["live"] = "drop"
        /\ pc' = [pc EXCEPT !["live"] = "dispose"]
    BY <1>10 DEF DropLive
  <2>3. seg["live"] \in lost
    BY <2>2 DEF FilesInv, DropsLost
  <2>4. Kept'
    BY <1>4, <2>1, <2>2 DEF FilesInv, Kept
  <2>5. ImageReady'
    BY <2>2 DEF FilesInv, ImageReady
  <2>6. DropsLost'
    BY <2>2 DEF FilesInv, DropsLost
  <2>7. Disposed'
    BY <1>2, <1>5, <2>1, <2>2 DEF FilesInv, Disposed, Leaves
  <2>8. Owned'
    BY <1>0, <2>1, <2>2 DEF FilesInv, Owned, Leaves
  <2>9. Retained'
    BY <2>1, <2>2, <2>3 DEF FilesInv, Retained
  <2>. QED BY <2>4, <2>5, <2>6, <2>7, <2>8, <2>9 DEF FilesInv
<1>11. CASE BeginDetect
  <2>1. Held' = Held
    BY <1>11, <1>3 DEF Quiet
  <2>2. /\ UNCHANGED <<disk, lost, arrived, finish>> /\ detect # <<>>
        /\ \/ Head(detect) \notin imgOnDisk /\ pc' = [pc EXCEPT !["detect"] = "drop"]
           \/ pc' = [pc EXCEPT !["detect"] = "post"]
        /\ seg' = [seg EXCEPT !["detect"] = Head(detect)] /\ pc["detect"] = "idle"
    BY <1>11 DEF BeginDetect
  <2>3. Head(detect) \notin imgOnDisk => Head(detect) \in lost
    BY <1>1, <2>2 DEF FilesInv, Kept
  <2>4. Kept'
    BY <1>4, <2>1, <2>2 DEF FilesInv, Kept
  <2>5. ImageReady'
    BY <1>0, <2>2 DEF FilesInv, ImageReady
  <2>6. DropsLost'
    BY <1>0, <2>2, <2>3 DEF FilesInv, DropsLost
  <2>7. Disposed'
    BY <1>0, <2>1, <2>2 DEF FilesInv, Disposed, Leaves
  <2>8. Owned'
    BY <1>0, <2>1, <2>2 DEF FilesInv, Owned, Leaves
  <2>9. Retained'
    BY <2>1, <2>2 DEF FilesInv, Retained
  <2>. QED BY <2>4, <2>5, <2>6, <2>7, <2>8, <2>9 DEF FilesInv
<1>12. CASE DropDetect
  <2>1. Held' = Held \ {seg["detect"]}
    BY <1>12, DropDetectLine, HeldChange DEF IInv
  <2>2. /\ UNCHANGED <<disk, lost, arrived, finish, seg>> /\ pc["detect"] = "drop"
        /\ pc' = [pc EXCEPT !["detect"] = "dispose"]
    BY <1>12 DEF DropDetect
  <2>3. seg["detect"] \in lost
    BY <2>2 DEF FilesInv, DropsLost
  <2>4. Kept'
    BY <1>4, <2>1, <2>2 DEF FilesInv, Kept
  <2>5. ImageReady'
    BY <2>2 DEF FilesInv, ImageReady
  <2>6. DropsLost'
    BY <2>2 DEF FilesInv, DropsLost
  <2>7. Disposed'
    BY <1>2, <1>5, <2>1, <2>2 DEF FilesInv, Disposed, Leaves
  <2>8. Owned'
    BY <1>0, <2>1, <2>2 DEF FilesInv, Owned, Leaves
  <2>9. Retained'
    BY <2>1, <2>2, <2>3 DEF FilesInv, Retained
  <2>. QED BY <2>4, <2>5, <2>6, <2>7, <2>8, <2>9 DEF FilesInv
<1>13. CASE TakeFromFinish
  <2>1. Held' = Held \ {seg["finish"]}
    BY <1>13, RetireLine, HeldChange DEF IInv
  <2>2. /\ UNCHANGED <<disk, lost, arrived, seg>> /\ pc["finish"] = "dequeue"
        /\ pc' = [pc EXCEPT !["finish"] = "notify"]
    BY <1>13 DEF TakeFromFinish
  <2>3. /\ Len(finish') >= MaxFinish
        /\ seg["finish"] \in Held /\ \A x \in Held \ {seg["finish"]} : seg["finish"] < x
    <3>1. Pipeline \in Seq(Segment) /\ Pipeline # <<>> /\ seg["finish"] = Head(Pipeline)
      BY <1>13, PipelineParts, RetireLine DEF IInv
    <3>2. /\ Held = {Pipeline[i] : i \in 1..Len(Pipeline)} /\ seg["finish"] = Pipeline[1]
          /\ 1 \in 1..Len(Pipeline)
      BY <3>1, RangeEquality DEF Held
    <3>3. \A i \in 1..Len(Pipeline) : i # 1 => 1 < i
      OBVIOUS
    <3>4. \A x \in Held \ {seg["finish"]} : seg["finish"] < x
      BY <3>2 DEF IInv, Ordered, FifoOrder, Increasing
    <3>5. /\ finish \in Seq(Segment) /\ finish # <<>> /\ seg["finish"] = Head(finish)
          /\ Len(finish) > MaxFinish
      BY <1>0, <2>2 DEF IInv, Core, TypeOK, HoldsHead
    <3>6. Len(finish') = Len(finish) - 1
      BY <1>13, <3>5, DequeueType DEF TakeFromFinish
    <3>7. Len(finish') >= MaxFinish
      BY <1>0, <3>5, <3>6
    <3>8. seg["finish"] \in Held
      BY <3>2
    <3>. QED BY <3>4, <3>7, <3>8
  <2>4. Kept'
    BY <1>4, <2>1, <2>2 DEF FilesInv, Kept
  <2>5. ImageReady'
    BY <2>2 DEF FilesInv, ImageReady
  <2>6. DropsLost'
    BY <2>2 DEF FilesInv, DropsLost
  <2>7. Disposed'
    BY <1>2, <2>1, <2>2, <2>3 DEF FilesInv, Disposed, Leaves
  <2>8. Owned'
    BY <1>0, <2>1, <2>2 DEF FilesInv, Owned, Leaves
  <2>9. Retained'
    BY <2>1, <2>2, <2>3 DEF FilesInv, Retained
  <2>. QED BY <2>4, <2>5, <2>6, <2>7, <2>8, <2>9 DEF FilesInv
<1>14. CASE Arrive
  <2>1. Held' = Held \cup {arrived + 1} /\ arrived' = arrived + 1
    BY <1>14, ArriveLine, HeldChange DEF IInv
  <2>2. /\ UNCHANGED <<imgOnDisk, lost, pc, seg, finish>>
        /\ tsOnDisk' = tsOnDisk \cup {arrived + 1}
    BY <1>14 DEF Arrive
  <2>3. Kept'
    BY <1>4, <2>1, <2>2 DEF FilesInv, Kept
  <2>4. ImageReady'
    BY <2>2 DEF FilesInv, ImageReady
  <2>5. DropsLost'
    BY <2>2 DEF FilesInv, DropsLost
  <2>6. Disposed'
    <3>1. \A g \in Drivers : Leaves(g)' <=> Leaves(g)
      BY <2>2 DEF Leaves
    <3>2. \A g \in Drivers : seg[g] \in Nat
      <4>1. None \in Nat
        BY DEF None
      <4>. QED BY <1>0, <4>1
    <3>3. ASSUME NEW g \in Drivers, Leaves(g)
          PROVE  seg[g] <= arrived + 1 /\ seg[g] \notin Held'
      BY <1>0, <2>1, <3>2, <3>3 DEF FilesInv, Disposed
    <3>. QED BY <2>1, <2>2, <3>1, <3>3 DEF Disposed
  <2>7. Owned'
    BY <2>1, <2>2 DEF FilesInv, Owned, Leaves
  <2>8. Retained'
    BY <1>0, <2>1, <2>2 DEF FilesInv, Retained
  <2>. QED BY <2>3, <2>4, <2>5, <2>6, <2>7, <2>8 DEF FilesInv
<1>15. ASSUME NEW g \in {"rx", "live", "detect", "finish"}, Notify(g)
       PROVE  FilesInv'
  <2>1. Held' = Held
    BY <1>15, <1>3 DEF Quiet
  <2>2. /\ UNCHANGED <<disk, lost, arrived, finish>> /\ pc[g] = "notify"
        /\ \/ g = "finish" /\ pc' = [pc EXCEPT ![g] = "dispose"] /\ seg' = seg
           \/ /\ g # "finish" /\ pc' = [pc EXCEPT ![g] = "idle"]
              /\ seg' = [seg EXCEPT ![g] = None]
    BY <1>15 DEF Notify
  <2>3. Kept'
    BY <1>4, <2>1, <2>2 DEF FilesInv, Kept
  <2>4. ImageReady'
    BY <1>0, <2>2 DEF FilesInv, ImageReady
  <2>5. DropsLost'
    BY <1>0, <2>2 DEF FilesInv, DropsLost
  <2>6. Disposed'
    BY <1>0, <2>1, <2>2 DEF FilesInv, Disposed, Leaves
  <2>7. Owned'
    BY <1>0, <2>1, <2>2 DEF FilesInv, Owned, Leaves
  <2>8. Retained'
    BY <2>1, <2>2 DEF FilesInv, Retained
  <2>. QED BY <2>3, <2>4, <2>5, <2>6, <2>7, <2>8 DEF FilesInv
<1>16. ASSUME NEW g \in Drivers, Dispose(g)
       PROVE  FilesInv'
  <2>1. Held' = Held
    BY <1>16, <1>3 DEF Quiet
  <2>2. /\ UNCHANGED <<lost, arrived, finish>> /\ pc[g] = "dispose"
        /\ tsOnDisk' = tsOnDisk \ {seg[g]} /\ imgOnDisk' = imgOnDisk \ {seg[g]}
        /\ pc' = [pc EXCEPT ![g] = "idle"] /\ seg' = [seg EXCEPT ![g] = None]
    BY <1>16 DEF Dispose
  <2>3. seg[g] \notin Held
    BY <2>2 DEF FilesInv, Disposed, Leaves
  <2>4. Kept'
    BY <1>4, <2>1, <2>2, <2>3 DEF FilesInv, Kept
  <2>5. ImageReady'
    BY <1>5, <2>2, <2>3 DEF FilesInv, ImageReady
  <2>6. DropsLost'
    BY <2>2 DEF FilesInv, DropsLost
  <2>7. Disposed'
    BY <1>0, <2>1, <2>2 DEF FilesInv, Disposed, Leaves
  <2>8. Owned'
    BY <2>1, <2>2 DEF FilesInv, Owned, Leaves
  <2>9. Retained'
    BY <2>1, <2>2 DEF FilesInv, Retained
  <2>. QED BY <2>4, <2>5, <2>6, <2>7, <2>8, <2>9 DEF FilesInv
<1>17. ASSUME NEW s \in Losable, LoseFile(s)
       PROVE  FilesInv'
  <2>1. Held' = Held
    BY <1>17, <1>3 DEF Quiet
  <2>2. /\ UNCHANGED <<arrived, finish, pc, seg>> /\ lost' = lost \cup {s}
        /\ tsOnDisk' \in {tsOnDisk, tsOnDisk \ {s}}
        /\ imgOnDisk' \in {imgOnDisk, imgOnDisk \ {s}}
    BY <1>17 DEF LoseFile
  <2>3. Kept'
    BY <1>4, <2>1, <2>2 DEF FilesInv, Kept
  <2>4. ImageReady'
    BY <2>2 DEF FilesInv, ImageReady
  <2>5. DropsLost'
    BY <2>2 DEF FilesInv, DropsLost
  <2>6. Disposed'
    BY <2>1, <2>2 DEF FilesInv, Disposed, Leaves
  <2>7. Owned'
    BY <2>1, <2>2 DEF FilesInv, Owned, Leaves
  <2>8. Retained'
    BY <2>1, <2>2 DEF FilesInv, Retained
  <2>. QED BY <2>3, <2>4, <2>5, <2>6, <2>7, <2>8 DEF FilesInv
<1>. QED
  BY <1>6, <1>7, <1>8, <1>9, <1>10, <1>11, <1>12, <1>13, <1>14, <1>15, <1>16, <1>17
     DEF Next, Rx, DriveLive, DriveDetect, DriveFinish, Routine

\* IInv and FilesInv together are an invariant of the specification.
LEMMA FilesInvariance == Spec => [](IInv /\ FilesInv)
<1>1. Init => FilesInv
  BY InitFiles
<1>2. IInv /\ FilesInv /\ [Next]_vars => FilesInv'
  BY FilesStep
<1>. QED BY <1>1, <1>2, Invariance, PTL DEF Spec

--------------------------------------------------------------------------------
\* The theorems.

\* No hand-over between the goroutines drops a segment: it is held until
\* MaxFinish newer ones are finished, unless it lost a file.
THEOREM NothingLost == Spec => []NoSegmentLost
<1>1. IInv /\ FilesInv => NoSegmentLost
  <2>. SUFFICES ASSUME IInv, FilesInv, NEW s \in 1..arrived, s \notin Held \cup lost
                PROVE  Len(finish) >= MaxFinish /\ \A i \in 1..Len(finish) : s < finish[i]
    BY DEF NoSegmentLost, Held
  <2>1. Len(finish) >= MaxFinish /\ \A x \in Held : s < x
    BY DEF FilesInv, Retained
  <2>2. \A i \in 1..Len(finish) : finish[i] \in Held
    <3>1. finish \in Seq(Segment) /\ Range(finish) \subseteq Held
      BY HeldParts DEF IInv, Core, TypeOK
    <3>. QED BY <3>1, RangeEquality
  <2>. QED BY <2>1, <2>2
<1>. QED BY <1>1, FilesInvariance, PTL

\* Every segment held still has its TS file, and its image once extracted, unless
\* somebody else removed them: no Dispose hits a segment that is still in use.
THEOREM FilesStay == Spec => []FilesPresent
<1>1. IInv /\ FilesInv => FilesPresent
  <2>. SUFFICES ASSUME IInv, FilesInv PROVE FilesPresent
    OBVIOUS
  <2>1. Range(finish \o InHand("detect", {"hand"}) \o detect) = Imaged
    BY HeldParts DEF IInv, HandOut
  <2>. QED BY <2>1 DEF FilesInv, Kept, FilesPresent, Held
<1>. QED BY <1>1, FilesInvariance, PTL

\* Failures are only counted up, and nobody forgets that a file vanished.
LEMMA FailuresStay ==
    ASSUME IInv, [Next]_vars
    PROVE  /\ toolFails > 0 => toolFails' > 0
           /\ lost \subseteq lost'
           /\ ~Extract => orphans' = orphans
<1>. USE DEF store, disk, queues
<1>0. toolFails \in Nat
  BY DEF IInv, Core, TypeOK
<1>1. CASE Arrive \/ Rx
  BY <1>1 DEF Arrive, Rx, ReceiveTs, PassLock, EnqueueLive, Notify
<1>2. CASE DriveLive
  <2>1. CASE Extract
    BY <1>0, <2>1 DEF Extract, ToolFails
  <2>. QED BY <1>2, <2>1 DEF DriveLive, BeginLive, MoveToDetect, DropLive, Notify, Dispose
<1>3. CASE DriveDetect
  <2>1. CASE Probe
    BY <1>0, <2>1 DEF Probe, ToolFails
  <2>. QED BY <1>3, <2>1 DEF DriveDetect, BeginDetect, PostImage, AddAccident,
              TakeFromDetect, HandToFinish, DropDetect, Notify, Dispose
<1>4. CASE DriveFinish
  BY <1>4 DEF DriveFinish, BeginFinish, TakeFromFinish, Notify, Dispose
<1>5. CASE Save \/ Accident
  BY <1>5 DEF Save, Accident, WakeSave, MarshalLive, MarshalDetect, MarshalFinish, HSet,
              ReceiveAccident, CopyEvidence
<1>6. ASSUME NEW s \in Losable, LoseFile(s)
      PROVE  UNCHANGED <<toolFails, orphans>> /\ lost \subseteq lost'
  BY <1>6 DEF LoseFile
<1>7. CASE UNCHANGED vars
  BY <1>7 DEF vars
<1>. QED BY <1>1, <1>2, <1>3, <1>4, <1>5, <1>6, <1>7 DEF Next

\* The driver holds a segment of the pipeline while it extracts: when ffmpeg does not
\* find its file, the environment took it.
LEMMA AbandonedStep == IInv /\ FilesInv /\ Abandoned /\ [Next]_vars => Abandoned'
<1>. SUFFICES ASSUME IInv, FilesInv, Abandoned, [Next]_vars
              PROVE  Abandoned'
  OBVIOUS
<1>1. /\ toolFails > 0 => toolFails' > 0
      /\ lost \subseteq lost'
      /\ ~Extract => orphans' = orphans
  BY FailuresStay
<1>2. CASE ~Extract
  BY <1>1, <1>2 DEF Abandoned
<1>3. CASE Extract
  <2>1. orphans' \subseteq orphans \/ ToolFails("live")
    BY <1>3 DEF Extract
  <2>2. orphans' \subseteq orphans \cup {seg["live"]}
    BY <1>3 DEF Extract
  <2>3. seg["live"] \notin tsOnDisk => seg["live"] \in lost
    BY <1>3, HeldParts DEF Extract, IInv, Core, HoldsHead, FilesInv, Kept
  <2>4. toolFails \in Nat
    BY DEF IInv, Core, TypeOK
  <2>5. ToolFails("live") => seg["live"] \in lost \/ toolFails' > 0
    BY <2>3, <2>4 DEF ToolFails
  <2>. QED BY <1>1, <2>1, <2>2, <2>5 DEF Abandoned
<1>. QED BY <1>2, <1>3

\* The files on disk are those of the segments held and of the segments a driver
\* is about to dispose of, and the images of failed extractions: nothing else fills the
\* disk with the files of a stream.
THEOREM NothingLeaks == Spec => []NoFileLeak
<1>1. IInv /\ FilesInv /\ Abandoned => NoFileLeak
  BY DEF FilesInv, Owned, Abandoned, NoFileLeak, Held, Leaves, Drivers, Goroutine
<1>2. Init => Abandoned
  BY DEF Init, Abandoned
<1>. QED BY <1>1, <1>2, AbandonedStep, FilesInvariance, PTL DEF Spec

\* The environment takes a file only of a segment that arrived, and no step of
\* the program adds to lost.
LEMMA LostStep ==
    ASSUME IInv, FilesInv, [Next]_vars
    PROVE  \/ lost' = lost
           \/ /\ Pipeline' = Pipeline /\ arrived' = arrived
              /\ \E s \in 1..arrived : lost' = lost \cup {s}
<1>1. ASSUME NEW s \in Losable, LoseFile(s)
      PROVE  /\ Pipeline' = Pipeline /\ arrived' = arrived
             /\ s \in 1..arrived /\ lost' = lost \cup {s}
  <2>1. s \in tsOnDisk \cup imgOnDisk /\ lost' = lost \cup {s}
    BY <1>1 DEF LoseFile
  <2>2. s \in Segment
    BY <2>1 DEF IInv, Core, TypeOK
  <2>3. s <= arrived
    <3>1. Held = {Pipeline[i] : i \in 1..Len(Pipeline)}
      BY PipelineParts, RangeEquality DEF IInv, Held
    <3>. QED BY <2>1, <3>1 DEF FilesInv, Owned, Disposed, IInv, Ordered
  <2>4. Unmoved
    BY <1>1, QuietLine DEF IInv, Quiet
  <2>5. arrived \in Nat
    BY DEF IInv, Core, TypeOK
  <2>. QED BY <2>1, <2>2, <2>3, <2>4, <2>5 DEF Unmoved, Segment
<1>2. ASSUME ~\E s \in Losable : LoseFile(s)
      PROVE  lost' = lost
  <2>1. CASE Arrive \/ Rx
    BY <2>1 DEF Arrive, Rx, ReceiveTs, PassLock, EnqueueLive, Notify
  <2>2. CASE DriveLive
    BY <2>2 DEF DriveLive, BeginLive, Extract, MoveToDetect, DropLive, Notify, Dispose
  <2>3. CASE DriveDetect
    BY <2>3 DEF DriveDetect, BeginDetect, PostImage, AddAccident, Probe, TakeFromDetect,
                HandToFinish, DropDetect, Notify, Dispose
  <2>4. CASE DriveFinish
    BY <2>4 DEF DriveFinish, BeginFinish, TakeFromFinish, Notify, Dispose
  <2>5. CASE Save \/ Accident
    BY <2>5 DEF Save, Accident, WakeSave, MarshalLive, MarshalDetect, MarshalFinish, HSet,
                ReceiveAccident, CopyEvidence
  <2>6. CASE UNCHANGED vars
    BY <2>6 DEF vars
  <2>. QED BY <1>2, <2>1, <2>2, <2>3, <2>4, <2>5, <2>6 DEF Next
<1>. QED BY <1>1, <1>2

\* The four queues and what the goroutines carry between them are one FIFO: each
\* step of the task is a step of SegmentFifo or leaves what it shows unchanged.
THEOREM TaskImplementsFifo == Spec => ImplementsFifo
<1>1. Init => Fifo!Init
  BY InitPipeline DEF Init, Fifo!Init
<1>2. IInv /\ FilesInv /\ [Next]_vars => [Fifo!Next]_(Fifo!vars)
  <2>. SUFFICES ASSUME IInv, FilesInv, [Next]_vars
                PROVE  [Fifo!Next]_(Fifo!vars)
    OBVIOUS
  <2>1. CASE lost' # lost
    BY <2>1, LostStep DEF Fifo!Next, Fifo!LoseFile
  <2>2. CASE lost' = lost /\ Quiet
    BY <2>2, QuietLine DEF IInv, Unmoved, Fifo!vars
  <2>3. CASE lost' = lost /\ Arrive
    BY <2>3, ArriveLine DEF IInv, Fifo!Next, Fifo!Accept
  <2>4. CASE lost' = lost /\ DropLive
    <3>1. seg["live"] \in lost
      BY <2>4 DEF DropLive, FilesInv, DropsLost
    <3>2. OneLess(Pipeline, Pipeline', seg["live"]) /\ arrived' = arrived
      BY <2>4, DropLiveLine DEF IInv
    <3>. QED BY <2>4, <3>1, <3>2 DEF OneLess, Without, Fifo!Next, Fifo!Skip
  <2>5. CASE lost' = lost /\ DropDetect
    <3>1. seg["detect"] \in lost
      BY <2>5 DEF DropDetect, FilesInv, DropsLost
    <3>2. OneLess(Pipeline, Pipeline', seg["detect"]) /\ arrived' = arrived
      BY <2>5, DropDetectLine DEF IInv
    <3>. QED BY <2>5, <3>1, <3>2 DEF OneLess, Without, Fifo!Next, Fifo!Skip
  <2>6. CASE lost' = lost /\ TakeFromFinish
    BY <2>6, RetireLine DEF IInv, Fifo!Next, Fifo!Retire
  <2>. QED BY <2>1, <2>2, <2>3, <2>4, <2>5, <2>6
           DEF Next, Rx, DriveLive, DriveDetect, DriveFinish, Quiet
<1>. QED BY <1>1, <1>2, FilesInvariance, PTL DEF Spec, ImplementsFifo, Fifo!Spec
================================================================================
