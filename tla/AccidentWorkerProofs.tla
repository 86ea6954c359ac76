-------------------------- MODULE AccidentWorkerProofs --------------------------
(***************************************************************************)
(* Theorems about AccidentWorker, for any number of messages, faults and   *)
(* restarts.  Besides the types, the inductive invariant says that a batch *)
(* is the beginning of its object's messages (BatchIsNext), that messages  *)
(* reach the builder in the order they were reported, each making at most  *)
(* one object (Order), and what the map, the Run goroutines and redis know *)
(* of the newest object (Registry, Saved).  For the videos: what the       *)
(* objects hold are pieces of the stream of messages that do not overlap   *)
(* (Cut), and files, directory, video and artifact of an object agree as   *)
(* far as its Run goroutine has come (Artifacts).  That each message is    *)
(* in one place (Account) needs all of it: a message that fails is given   *)
(* up only because it is not in the directory yet (Cut, Artifacts,         *)
(* MovedFirst).  Who serves the lists (Lists) follows from the map, and    *)
(* which copies are there (Copies) from the account.                       *)
(***************************************************************************)
EXTENDS AccidentWorker, SequenceTheorems, TLAPS

\* A Run goroutine serves its messages from the first one on.
BatchIsNext ==
    \A o \in Object : run[o] \in {"serve", "saved"} =>
        /\ batch[o] # <<>> /\ Len(batch[o]) <= Len(messages[o])
        /\ \A i \in 1..Len(batch[o]) : messages[o][i] = batch[o][i]

\* Message m is still on its way to the builder.
Coming(m) == created < m /\ m <= added

Order ==
    /\ created <= added
    /\ \A i \in 1..Len(tsfiles) :
         /\ Coming(tsfiles[i])
         /\ \A j \in 1..Len(tsfiles) : i < j => tsfiles[i] < tsfiles[j]
         /\ copier.at # "idle" => tsfiles[i] < copier.msg
         /\ \A j \in 1..Len(msgs) : tsfiles[i] < msgs[j]
    /\ copier.at # "idle" =>
         Coming(copier.msg) /\ \A j \in 1..Len(msgs) : copier.msg < msgs[j]
    /\ \A i \in 1..Len(msgs) :
         /\ Coming(msgs[i])
         /\ \A j \in 1..Len(msgs) : i < j => msgs[i] < msgs[j]

\* An object is live from the start of its Run goroutine until it leaves the map.
Live(o) == run[o] \in Recording \cup {"convert", "delete"}
Redis == faults["redis"] > 0

\* The map holds the newest object or none.
Registry ==
    /\ streams \in {None, created}
    /\ \A o \in Object :
         /\ run[o] # "none" => o <= created
         /\ Live(o) => streams = o
         /\ streams = o => Live(o) \/ (builder.fresh /\ builder.obj = o) \/ Redis
    /\ builder.at # "idle" => builder.obj = created
    /\ builder.fresh => streams = builder.obj /\ run[builder.obj] = "none"
    /\ builder.at \in {"init", "begin"} => builder.fresh

\* The record of a live object is there, or will be removed by an older one's end.
Saved ==
    /\ \A o \in Object \ overtaken : Live(o) => working = o \/ Redis
    /\ \A p \in Object : run[p] \in Ending /\ streams # None => streams \in overtaken

IInv == TypeOK /\ BatchIsNext /\ Order /\ Registry /\ Saved

--------------------------------------------------------------------------------
\* Lemmas about sequences and the state.

\* Removing the first message leaves the others.
LEMMA RemoveHead ==
    ASSUME NEW S, NEW q \in Seq(S), q # <<>>
    PROVE  RemoveFirst(q, Head(q)) = Tail(q)
<1>1. SelectInSeq(q, LAMBDA v : v = Head(q)) = 1
  BY DEF SelectInSeq, Min
<1>2. RemoveAt(q, 1) = Tail(q)
  <2>1. SubSeq(q, 1, 0) = <<>> /\ Tail(q) = SubSeq(q, 2, Len(q)) /\ Tail(q) \in Seq(S)
    BY SubSeqEmpty, TailIsSubSeq, HeadTailProperties
  <2> QED
    BY <2>1, ConcatEmptySeq DEF RemoveAt
<1>3. \E i \in 1..Len(q) : q[i] = Head(q)
  BY HeadTailProperties
<1> QED
  BY <1>1, <1>2, <1>3 DEF RemoveFirst

\* What a Run goroutine serves is a message, the first of its object.
LEMMA Served ==
    ASSUME TypeOK, BatchIsNext, NEW o \in Object, run[o] \in {"serve", "saved"}
    PROVE  /\ Head(batch[o]) \in Message /\ messages[o] # <<>>
           /\ Head(batch[o]) = Head(messages[o])
           /\ RemoveFirst(messages[o], Head(batch[o])) = Tail(messages[o])
           /\ Tail(messages[o]) \in Seq(Message) /\ Tail(batch[o]) \in Seq(Message)
<1>1. batch[o] \in Seq(Message) /\ messages[o] \in Seq(Message)
  BY DEF TypeOK, RunTypes, ObjectTypes
<1>2. batch[o] # <<>> /\ messages[o] # <<>> /\ Head(batch[o]) = Head(messages[o])
  BY <1>1 DEF BatchIsNext
<1> QED
  BY <1>1, <1>2, RemoveHead, HeadTailProperties

\* The first file that comes to the builder is newer than every object.
LEMMA NextObject ==
    ASSUME TypeOK, Order, tsfiles # <<>>
    PROVE  /\ Head(tsfiles) \in Message /\ created < Head(tsfiles)
           /\ created + 1 \in Object
<1>1. Head(tsfiles) = tsfiles[1] /\ 1 \in 1..Len(tsfiles) /\ tsfiles[1] \in Message
  BY DEF TypeOK, ChannelTypes
<1>2. created < tsfiles[1] /\ created \in 0..MaxMessages
  BY <1>1 DEF Order, Coming, TypeOK, RegistryTypes
<1> QED
  BY <1>1, <1>2, AccidentAssumption DEF AccidentAssumption, Message, Object

\* What a step leaves alone keeps its type.
LEMMA Unchanged ==
    ASSUME TypeOK
    PROVE  /\ UNCHANGED channels => ChannelTypes'
           /\ UNCHANGED copier => CopierType'
           /\ UNCHANGED builder => BuilderType'
           /\ UNCHANGED registry => RegistryTypes'
           /\ UNCHANGED object => ObjectTypes'
           /\ UNCHANGED runs => RunTypes'
           /\ UNCHANGED disk => DiskTypes'
           /\ UNCHANGED redis => RedisTypes'
           /\ UNCHANGED <<rows, gone, bounds>> => BoundTypes'
<1>1. UNCHANGED channels => ChannelTypes'
  BY DEF TypeOK, channels, ChannelTypes
<1>2. UNCHANGED copier => CopierType'
  BY DEF TypeOK, CopierType
<1>3. UNCHANGED builder => BuilderType'
  BY DEF TypeOK, BuilderType
<1>4. UNCHANGED registry => RegistryTypes'
  BY DEF TypeOK, registry, RegistryTypes
<1>5. UNCHANGED object => ObjectTypes'
  BY DEF TypeOK, object, ObjectTypes
<1>6. UNCHANGED runs => RunTypes'
  BY DEF TypeOK, runs, RunTypes
<1>7. UNCHANGED disk => DiskTypes'
  BY DEF TypeOK, disk, DiskTypes
<1>8. UNCHANGED redis => RedisTypes'
  BY DEF TypeOK, redis, RedisTypes
<1>9. UNCHANGED <<rows, gone, bounds>> => BoundTypes'
  BY DEF TypeOK, bounds, BoundTypes
<1> QED
  BY <1>1, <1>2, <1>3, <1>4, <1>5, <1>6, <1>7, <1>8, <1>9

\* Faults stay within their bound.
LEMMA FaultType ==
    ASSUME TypeOK, faults' = faults \/ (\E k \in FaultKind : Fault(k))
    PROVE  faults' \in [FaultKind -> 0..MaxFaults]
  BY AccidentAssumption DEF TypeOK, BoundTypes, Fault, AccidentAssumption

\* A busy builder has a message and an object, a busy copier a message.
LEMMA InHands ==
    ASSUME TypeOK
    PROVE  /\ builder.at # "idle" =>
                /\ builder.msg \in Message /\ builder.obj \in Object
                /\ builder.at \in {"init", "begin", "add", "save"}
                /\ \A a \in {"init", "begin", "add", "save"} :
                     [builder EXCEPT !.at = a] \in
                       [at : {"init", "begin", "add", "save"}, msg : Message,
                        obj : Object, fresh : BOOLEAN]
           /\ copier.at # "idle" =>
                /\ copier.msg \in Message
                /\ \A a \in {"cp", "stat", "send"} :
                     [copier EXCEPT !.at = a] \in [at : {"cp", "stat", "send"}, msg : Message]
  BY DEF TypeOK, BuilderType, CopierType, Idle, IdleCopier

\* A new record of an object keeps the type of redis.
LEMMA ArtifactType ==
    ASSUME TypeOK, NEW o \in Object,
           NEW a \in [saved : BOOLEAN, files : Seq(Message), processing : BOOLEAN]
    PROVE  [artifact EXCEPT ![o] = a] \in
             [Object -> [saved : BOOLEAN, files : Seq(Message), processing : BOOLEAN]]
  BY DEF TypeOK, RedisTypes

--------------------------------------------------------------------------------
\* Types.

\* Everything is empty at first.
LEMMA InitInv == Init => IInv
<1> SUFFICES ASSUME Init PROVE IInv
  OBVIOUS
<1>1. ChannelTypes /\ CopierType /\ BuilderType /\ RegistryTypes
  BY AccidentAssumption
     DEF AccidentAssumption, Init, ChannelTypes, CopierType, BuilderType, RegistryTypes
<1>2. ObjectTypes /\ RunTypes /\ DiskTypes
  BY DEF Init, ObjectTypes, RunTypes, DiskTypes
<1>3. RedisTypes
  BY DEF Init, RedisTypes, NoArtifact, None
<1>4. BoundTypes
  BY AccidentAssumption DEF AccidentAssumption, Init, BoundTypes
<1>5. BatchIsNext
  BY DEF Init, BatchIsNext
<1>6. Order /\ Registry /\ Saved
  BY DEF Init, Order, Registry, Saved, Live, IdleCopier, Idle, Recording, Ending, None, Object
<1> QED
  BY <1>1, <1>2, <1>3, <1>4, <1>5, <1>6 DEF IInv, TypeOK

\* The copier and the channels.
LEMMA CopierTypes == ASSUME TypeOK, OnAccidentAdded \/ Copier PROVE TypeOK'
<1>1. CASE OnAccidentAdded
  <2>1. ChannelTypes'
    BY <1>1, AccidentAssumption
       DEF AccidentAssumption, OnAccidentAdded, TypeOK, ChannelTypes, Message
  <2> QED
    BY <1>1, <2>1, Unchanged DEF OnAccidentAdded, TypeOK
<1>2. CASE ReceiveMsg
  <2>1. ChannelTypes' /\ CopierType'
    BY <1>2 DEF ReceiveMsg, TypeOK, ChannelTypes, CopierType
  <2> QED
    BY <1>2, <2>1, Unchanged DEF ReceiveMsg, TypeOK
<1>3. CASE CopyFile
  <2>1. copier.msg \in Message /\ CopierType'
    BY <1>3, InHands DEF CopyFile, CopierType
  <2>2. DiskTypes'
    BY <1>3, <2>1 DEF CopyFile, TypeOK, DiskTypes
  <2>3. BoundTypes'
    BY <1>3, <2>1 DEF CopyFile, TypeOK, BoundTypes, bounds, GiveUp
  <2> QED
    BY <1>3, <2>1, <2>2, <2>3, Unchanged DEF CopyFile, TypeOK
<1>4. CASE StatSource
  <2>1. copier.msg \in Message /\ CopierType'
    BY <1>4, InHands DEF StatSource, CopierType
  <2>2. BoundTypes'
    BY <1>4, <2>1 DEF StatSource, TypeOK, BoundTypes, bounds, GiveUp
  <2> QED
    BY <1>4, <2>1, <2>2, Unchanged DEF StatSource, TypeOK
<1>5. CASE SendTs
  <2>1. copier.msg \in Message
    BY <1>5, InHands DEF SendTs
  <2>2. ChannelTypes' /\ CopierType'
    BY <1>5, <2>1 DEF SendTs, TypeOK, ChannelTypes, CopierType
  <2> QED
    BY <1>5, <2>2, Unchanged DEF SendTs, TypeOK
<1> QED
  BY <1>1, <1>2, <1>3, <1>4, <1>5 DEF Copier

\* The builder.
LEMMA BuilderTypes == ASSUME TypeOK, Order, Builder PROVE TypeOK'
<1>1. CASE LoadOrStore
  <2>1. /\ Head(tsfiles) \in Message /\ created + 1 \in Object
        /\ created + 1 \in 0..MaxMessages
    BY <1>1, NextObject DEF LoadOrStore, Object
  <2>2. ChannelTypes'
    BY <1>1 DEF LoadOrStore, TypeOK, ChannelTypes
  <2>3. BuilderType'
    <3>1. CASE streams # None
      <4>1. streams \in Object
        BY <3>1 DEF TypeOK, RegistryTypes
      <4>2. builder' = [at |-> "add", msg |-> Head(tsfiles), obj |-> streams, fresh |-> FALSE]
        BY <1>1, <3>1 DEF LoadOrStore
      <4> QED
        BY <2>1, <4>1, <4>2 DEF BuilderType
    <3>2. CASE streams = None
      <4>1. builder' = [at |-> "init", msg |-> Head(tsfiles), obj |-> created + 1,
                        fresh |-> TRUE]
        BY <1>1, <3>2 DEF LoadOrStore
      <4> QED
        BY <2>1, <4>1 DEF BuilderType
    <3> QED
      BY <3>1, <3>2
  <2>4. RegistryTypes'
    BY <1>1, <2>1 DEF LoadOrStore, TypeOK, RegistryTypes, registry
  <2> QED
    BY <1>1, <2>2, <2>3, <2>4, Unchanged DEF LoadOrStore, TypeOK
<1>2. CASE Initialize
  <2>1. builder.msg \in Message /\ builder.obj \in Object /\ BuilderType'
    BY <1>2, InHands DEF Initialize, Write, BuilderType
  <2>2. [saved |-> TRUE, files |-> <<>>, processing |-> TRUE] \in
          [saved : BOOLEAN, files : Seq(Message), processing : BOOLEAN]
    OBVIOUS
  <2>3. RedisTypes'
    BY <1>2, <2>1, <2>2, ArtifactType DEF Initialize, Write, TypeOK, RedisTypes
  <2>4. faults' = faults \/ Fault("redis")
    BY <1>2 DEF Initialize, Write
  <2>5. BoundTypes'
    BY <1>2, <2>1, <2>4, FaultType DEF Initialize, Write, GiveUp, TypeOK, BoundTypes, FaultKind
  <2> QED
    BY <1>2, <2>1, <2>3, <2>5, Unchanged DEF Initialize, TypeOK
<1>3. CASE CallbackBegin
  <2>1. builder.obj \in Object /\ BuilderType'
    BY <1>3, InHands DEF CallbackBegin, BuilderType
  <2>2. BoundTypes'
    BY <1>3, <2>1 DEF CallbackBegin, TypeOK, BoundTypes, bounds
  <2> QED
    BY <1>3, <2>1, <2>2, Unchanged DEF CallbackBegin, TypeOK
<1>4. CASE AddMessage
  <2>1. builder.msg \in Message /\ builder.obj \in Object /\ BuilderType'
    BY <1>4, InHands DEF AddMessage, BuilderType
  <2>2. ObjectTypes'
    BY <1>4, <2>1 DEF AddMessage, Refresh, TypeOK, ObjectTypes
  <2> QED
    BY <1>4, <2>1, <2>2, Unchanged DEF AddMessage, TypeOK
<1>5. CASE SaveObject
  <2>1. builder.obj \in Object /\ BuilderType'
    BY <1>5, InHands DEF SaveObject, BuilderType
  <2>2. RedisTypes'
    BY <1>5, <2>1 DEF SaveObject, Write, TypeOK, RedisTypes
  <2>3. RunTypes'
    BY <1>5, <2>1 DEF SaveObject, Write, TypeOK, RunTypes, Recording
  <2>4. BoundTypes'
    BY <1>5, FaultType DEF SaveObject, Write, TypeOK, BoundTypes, FaultKind
  <2> QED
    BY <1>5, <2>1, <2>2, <2>3, <2>4, Unchanged DEF SaveObject, TypeOK
<1> QED
  BY <1>1, <1>2, <1>3, <1>4, <1>5 DEF Builder

\* The Run goroutines.
LEMMA RunGoroutineTypes == ASSUME TypeOK, BatchIsNext, NEW o \in Object, Run(o) PROVE TypeOK'
<1> USE DEF Goto
<1>1. CASE CopyMessages(o)
  <2>1. RunTypes'
    BY <1>1 DEF CopyMessages, TypeOK, RunTypes, ObjectTypes, Recording
  <2> QED
    BY <1>1, <2>1, Unchanged DEF CopyMessages, TypeOK
<1>2. CASE ServeMessage(o)
  <2>1. Head(batch[o]) \in Message
    BY <1>2, Served DEF ServeMessage
  <2>2. RunTypes'
    BY <1>2, <2>1 DEF ServeMessage, TypeOK, RunTypes, Recording
  <2>3. DiskTypes'
    BY <1>2, <2>1 DEF ServeMessage, TypeOK, DiskTypes
  <2> QED
    BY <1>2, <2>2, <2>3, Unchanged DEF ServeMessage, TypeOK
<1>3. CASE ServeFails(o)
  <2>1. ObjectTypes'
    BY <1>3, Served DEF ServeFails, RemoveMessage, TypeOK, ObjectTypes
  <2>2. RunTypes'
    BY <1>3, Served DEF ServeFails, NextMessage, TypeOK, RunTypes, Recording
  <2>3. faults' = faults \/ Fault("rename")
    BY <1>3 DEF ServeFails
  <2>4. BoundTypes'
    BY <1>3, <2>3, Served, FaultType DEF ServeFails, GiveUp, TypeOK, BoundTypes, FaultKind
  <2> QED
    BY <1>3, <2>1, <2>2, <2>4, Unchanged DEF ServeFails, TypeOK
<1>4. CASE SaveServed(o)
  <2>1. ObjectTypes'
    BY <1>4, Served DEF SaveServed, RemoveMessage, TypeOK, ObjectTypes
  <2>2. RunTypes'
    BY <1>4, Served DEF SaveServed, NextMessage, TypeOK, RunTypes, Recording
  <2>3. [artifact[o] EXCEPT !.saved = TRUE, !.files = files[o]] \in
           [saved : BOOLEAN, files : Seq(Message), processing : BOOLEAN]
    BY DEF TypeOK, RunTypes, RedisTypes
  <2>4. RedisTypes'
    BY <1>4, <2>3, ArtifactType DEF SaveServed, Write, TypeOK, RedisTypes
  <2>5. BoundTypes'
    BY <1>4, FaultType DEF SaveServed, Write, TypeOK, BoundTypes, FaultKind
  <2> QED
    BY <1>4, <2>1, <2>2, <2>4, <2>5, Unchanged DEF SaveServed, TypeOK
<1>5. CASE SaveRound(o)
  <2>1. RunTypes' /\ RedisTypes'
    BY <1>5 DEF SaveRound, Write, TypeOK, RunTypes, RedisTypes, Recording
  <2>2. BoundTypes'
    BY <1>5, FaultType DEF SaveRound, Write, TypeOK, BoundTypes, FaultKind
  <2> QED
    BY <1>5, <2>1, <2>2, Unchanged DEF SaveRound, TypeOK
<1>6. CASE CheckExpired(o) \/ CallbackEnd(o)
  <2>1. RunTypes'
    BY <1>6 DEF CheckExpired, CallbackEnd, TypeOK, RunTypes, Recording, Finishing
  <2> QED
    BY <1>6, <2>1, Unchanged DEF CheckExpired, CallbackEnd, TypeOK
<1>7. CASE Convert(o)
  <2>1. RunTypes' /\ DiskTypes'
    BY <1>7 DEF Convert, TypeOK, RunTypes, DiskTypes, Recording, Finishing
  <2>2. faults' = faults \/ Fault("ffmpeg")
    BY <1>7 DEF Convert
  <2>3. BoundTypes'
    BY <1>7, <2>2, FaultType DEF Convert, TypeOK, BoundTypes, FaultKind
  <2> QED
    BY <1>7, <2>1, <2>3, Unchanged DEF Convert, TypeOK
<1>8. CASE Unregister(o) \/ Cleanup(o)
  <2>1. RunTypes' /\ DiskTypes' /\ RegistryTypes'
    BY <1>8 DEF Unregister, Cleanup, TypeOK, RunTypes, DiskTypes, RegistryTypes, registry,
                disk, Finishing
  <2> QED
    BY <1>8, <2>1, Unchanged DEF Unregister, Cleanup, TypeOK
<1>9. CASE FinishArtifact(o)
  <2>1. files[o] \in Seq(Message)
    BY DEF TypeOK, RunTypes
  <2>5. RunTypes'
    BY <1>9 DEF FinishArtifact, TypeOK, RunTypes, Finishing
  <2>4. [saved |-> TRUE, files |-> files[o], processing |-> FALSE] \in
          [saved : BOOLEAN, files : Seq(Message), processing : BOOLEAN]
    BY <2>1
  <2>2. RedisTypes'
    BY <1>9, <2>4, ArtifactType DEF FinishArtifact, Write, TypeOK, RedisTypes
  <2>3. BoundTypes'
    BY <1>9, FaultType DEF FinishArtifact, Write, TypeOK, BoundTypes, FaultKind
  <2> QED
    BY <1>9, <2>5, <2>2, <2>3, Unchanged DEF FinishArtifact, TypeOK
<1>10. CASE DeleteObject(o)
  <2>1. RunTypes' /\ RedisTypes'
    BY <1>10 DEF DeleteObject, Write, TypeOK, RunTypes, RedisTypes, Finishing
  <2>2. BoundTypes'
    BY <1>10, FaultType DEF DeleteObject, Write, TypeOK, BoundTypes, FaultKind
  <2> QED
    BY <1>10, <2>1, <2>2, Unchanged DEF DeleteObject, TypeOK
<1> QED
  BY <1>1, <1>2, <1>3, <1>4, <1>5, <1>6, <1>7, <1>8, <1>9, <1>10 DEF Run

\* A crash gives up messages only.
LEMMA CrashTypes == ASSUME TypeOK, Crash PROVE TypeOK'
<1>1. ChannelTypes' /\ CopierType' /\ BuilderType' /\ RegistryTypes'
  BY DEF Crash, TypeOK, ChannelTypes, CopierType, BuilderType, RegistryTypes
<1>2. ObjectTypes' /\ RunTypes'
  BY DEF Crash, TypeOK, ObjectTypes, RunTypes
<1>3. InHand \subseteq Message /\ InBuilder \subseteq Message
  BY InHands DEF TypeOK, CopierType, IdleCopier, InHand, InBuilder
<1>4. \A o \in Object : Range(messages[o]) \subseteq Message
  BY DEF TypeOK, ObjectTypes, Range
<1>5. Range(msgs) \subseteq Message /\ Range(tsfiles) \subseteq Message
  BY DEF TypeOK, ChannelTypes, Range
<1>6. gone' \subseteq Message
  BY <1>3, <1>4, <1>5 DEF Crash, TypeOK, BoundTypes
<1>7. BoundTypes'
  BY <1>6, AccidentAssumption DEF AccidentAssumption, Crash, TypeOK, BoundTypes
<1> QED
  BY <1>1, <1>2, <1>7, Unchanged DEF Crash, TypeOK

\* No step breaks the types.
LEMMA TypeStep == TypeOK /\ BatchIsNext /\ Order /\ [Next]_vars => TypeOK'
<1> SUFFICES ASSUME TypeOK, BatchIsNext, Order, [Next]_vars PROVE TypeOK'
  OBVIOUS
<1>1. ASSUME NEW o \in Object, Age(o) PROVE TypeOK'
  <2>1. ObjectTypes'
    BY <1>1 DEF Age, TypeOK, ObjectTypes
  <2> QED
    BY <1>1, <2>1, Unchanged DEF Age, TypeOK
<1>2. CASE UNCHANGED vars
  BY <1>2, Unchanged DEF vars, TypeOK
<1> QED
  BY <1>1, <1>2, CopierTypes, BuilderTypes, RunGoroutineTypes, CrashTypes DEF Next

--------------------------------------------------------------------------------
\* Batches.

\* A batch is a prefix of the list: Run removes the head, the builder appends.
LEMMA BatchStep == TypeOK /\ BatchIsNext /\ [Next]_vars => BatchIsNext'
<1> SUFFICES ASSUME TypeOK, BatchIsNext, [Next]_vars PROVE BatchIsNext'
  OBVIOUS
<1> USE DEF Goto
<1>1. messages \in [Object -> Seq(Message)] /\ batch \in [Object -> Seq(Message)]
  BY DEF TypeOK, ObjectTypes, RunTypes
<1>2. run \in [Object -> {"none", "done"} \cup Recording \cup Finishing]
  BY DEF TypeOK, RunTypes
<1>3. ASSUME UNCHANGED <<run, batch, messages>> PROVE BatchIsNext'
  BY <1>3 DEF BatchIsNext
<1>4. CASE OnAccidentAdded \/ Copier
  BY <1>4, <1>3 DEF OnAccidentAdded, Copier, ReceiveMsg, CopyFile, StatSource, SendTs, object, runs
<1>5. CASE Builder
  <2>1. CASE AddMessage
    <3>1. builder.msg \in Message /\ builder.obj \in Object
      BY <2>1, InHands DEF AddMessage
    <3>2. \A o \in Object : /\ Len(messages[o]) <= Len(messages'[o])
                            /\ \A i \in 1..Len(messages[o]) : messages'[o][i] = messages[o][i]
      BY <2>1, <3>1, <1>1 DEF AddMessage
    <3>3. \A o \in Object : Len(messages[o]) \in Nat /\ Len(messages'[o]) \in Nat
                             /\ Len(batch[o]) \in Nat
      BY <2>1, <3>1, <1>1 DEF AddMessage
    <3> QED
      BY <2>1, <3>2, <3>3 DEF AddMessage, BatchIsNext, runs
  <2>2. CASE SaveObject
    BY <2>2, <1>2 DEF SaveObject, Write, BatchIsNext, object
  <2>3. CASE LoadOrStore \/ Initialize \/ CallbackBegin
    BY <2>3, <1>3 DEF LoadOrStore, Initialize, CallbackBegin, object, runs
  <2> QED
    BY <1>5, <2>1, <2>2, <2>3 DEF Builder
<1>6. ASSUME NEW o \in Object, Run(o) PROVE BatchIsNext'
  <2>1. CASE CopyMessages(o)
    BY <2>1, <1>1, <1>2 DEF CopyMessages, BatchIsNext, object
  <2>2. CASE ServeMessage(o)
    BY <2>2, <1>1, <1>2 DEF ServeMessage, BatchIsNext, object
  <2>3. CASE ServeFails(o) \/ SaveServed(o)
    <3>1. /\ run[o] \in {"serve", "saved"}
          /\ messages' = [messages EXCEPT ![o] = Tail(messages[o])]
          /\ batch' = [batch EXCEPT ![o] = Tail(batch[o])]
          /\ run' = [run EXCEPT ![o] = IF Len(batch[o]) = 1 THEN "save" ELSE "serve"]
      BY <2>3, <1>1, Served DEF ServeFails, SaveServed, RemoveMessage, NextMessage
    <3>2. /\ batch[o] # <<>> /\ Len(batch[o]) <= Len(messages[o])
          /\ \A i \in 1..Len(batch[o]) : messages[o][i] = batch[o][i]
      BY <3>1 DEF BatchIsNext
    <3>3. /\ Len(batch[o]) # 1 => Tail(batch[o]) # <<>>
          /\ Len(Tail(batch[o])) <= Len(Tail(messages[o]))
          /\ \A i \in 1..Len(Tail(batch[o])) : Tail(messages[o])[i] = Tail(batch[o])[i]
      <4>1. /\ Len(Tail(batch[o])) = Len(batch[o]) - 1
            /\ \A i \in 1..Len(Tail(batch[o])) : Tail(batch[o])[i] = batch[o][i + 1]
            /\ Len(Tail(messages[o])) = Len(messages[o]) - 1
            /\ \A i \in 1..Len(Tail(messages[o])) : Tail(messages[o])[i] = messages[o][i + 1]
        BY <3>2, <1>1, HeadTailProperties
      <4>2. /\ Len(batch[o]) \in Nat /\ Len(messages[o]) \in Nat
            /\ Tail(batch[o]) \in Seq(Message)
        BY <3>2, <1>1
      <4>3. \A i \in 1..Len(Tail(batch[o])) :
              i \in 1..Len(Tail(messages[o])) /\ i + 1 \in 1..Len(batch[o])
        BY <3>2, <4>1, <4>2
      <4>4. Len(batch[o]) # 1 => Len(Tail(batch[o])) # 0
        BY <4>1, <4>2
      <4>5. Len(Tail(batch[o])) # 0 => Tail(batch[o]) # <<>>
        <5>1. Len(<<>>) = 0
          OBVIOUS
        <5> QED
          BY <5>1
      <4> QED
        BY <3>2, <4>1, <4>2, <4>3, <4>4, <4>5
    <3>4. ASSUME NEW p \in Object, run'[p] \in {"serve", "saved"}
          PROVE  /\ batch'[p] # <<>> /\ Len(batch'[p]) <= Len(messages'[p])
                 /\ \A i \in 1..Len(batch'[p]) : messages'[p][i] = batch'[p][i]
      BY <3>1, <3>3, <3>4, <1>1, <1>2 DEF BatchIsNext
    <3> QED
      BY <3>4 DEF BatchIsNext
  <2>4. CASE \/ SaveRound(o) \/ CheckExpired(o) \/ Convert(o) \/ Unregister(o) \/ CallbackEnd(o)
             \/ FinishArtifact(o) \/ DeleteObject(o) \/ Cleanup(o)
    <3>1. /\ UNCHANGED <<batch, messages>>
          /\ run'[o] \notin {"serve", "saved"}
          /\ \A p \in Object \ {o} : run'[p] = run[p]
      <4>1. CASE SaveRound(o) \/ CheckExpired(o)
        BY <4>1, <1>2 DEF SaveRound, CheckExpired, Write, object
      <4>2. CASE Convert(o) \/ Unregister(o) \/ CallbackEnd(o)
        BY <4>2, <1>2 DEF Convert, Unregister, CallbackEnd, object
      <4>3. CASE FinishArtifact(o) \/ DeleteObject(o) \/ Cleanup(o)
        BY <4>3, <1>2 DEF FinishArtifact, DeleteObject, Cleanup, object
      <4> QED
        BY <2>4, <4>1, <4>2, <4>3
    <3> QED
      BY <3>1 DEF BatchIsNext
  <2> QED
    BY <1>6, <2>1, <2>2, <2>3, <2>4 DEF Run
<1>7. ASSUME NEW o \in Object, Age(o) PROVE BatchIsNext'
  BY <1>7, <1>3 DEF Age, runs
<1>8. CASE Crash
  BY <1>8 DEF Crash, BatchIsNext
<1>9. CASE UNCHANGED vars
  BY <1>9, <1>3 DEF vars, object, runs
<1> QED
  BY <1>4, <1>5, <1>6, <1>7, <1>8, <1>9 DEF Next

--------------------------------------------------------------------------------
\* Messages in order.

\* The messages stay in order on their way to the builder.
LEMMA OrderStep == TypeOK /\ Order /\ [Next]_vars => Order'
<1> SUFFICES ASSUME TypeOK, Order, [Next]_vars PROVE Order'
  OBVIOUS
<1>1. /\ msgs \in Seq(Message) /\ tsfiles \in Seq(Message) /\ added \in Nat /\ created \in Nat
      /\ \A m \in Message : m \in Nat
  BY AccidentAssumption
     DEF AccidentAssumption, TypeOK, ChannelTypes, RegistryTypes, Message
<1>2. copier.at # "idle" => copier.msg \in Message
  BY InHands
<1>3. ASSUME UNCHANGED <<channels, copier, created>> PROVE Order'
  BY <1>3 DEF Order, Coming, channels
<1>4. CASE OnAccidentAdded
  <2>1. /\ added' = added + 1 /\ msgs' = Append(msgs, added + 1)
        /\ UNCHANGED <<tsfiles, copier, created>>
    BY <1>4 DEF OnAccidentAdded, registry
  <2>2. /\ Len(msgs') = Len(msgs) + 1 /\ msgs'[Len(msgs) + 1] = added + 1
        /\ \A i \in 1..Len(msgs) : msgs'[i] = msgs[i]
        /\ Len(msgs) \in Nat /\ Len(tsfiles) \in Nat
    BY <2>1, <1>1
  <2>3. /\ \A i \in 1..Len(msgs) : msgs[i] \in Nat
        /\ \A i \in 1..Len(tsfiles) : tsfiles[i] \in Nat
    BY <1>1
  <2>4. ASSUME NEW i \in 1..Len(msgs')
        PROVE  /\ created < msgs'[i] /\ msgs'[i] <= added + 1
               /\ \A j \in 1..Len(msgs') : i < j => msgs'[i] < msgs'[j]
    <3>1. CASE i \in 1..Len(msgs)
      <4>1. /\ created < msgs[i] /\ msgs[i] <= added /\ msgs[i] \in Nat
            /\ \A j \in 1..Len(msgs) : i < j => msgs[i] < msgs[j]
        BY <2>3, <3>1 DEF Order, Coming
      <4>2. ASSUME NEW j \in 1..(Len(msgs) + 1), i < j PROVE msgs[i] < msgs'[j]
        <5>1. CASE j \in 1..Len(msgs)
          BY <2>2, <4>1, <4>2, <5>1
        <5>2. CASE j = Len(msgs) + 1
          BY <2>2, <4>1, <5>2, <1>1
        <5> QED
          BY <2>2, <5>1, <5>2
      <4>3. msgs'[i] = msgs[i]
        BY <2>2, <3>1
      <4> QED
        BY <2>2, <4>1, <4>2, <4>3, <1>1
    <3>2. CASE i = Len(msgs) + 1
      BY <2>2, <3>2, <1>1 DEF Order
    <3> QED
      <4> i \in 1..(Len(msgs) + 1)
        BY <2>2
      <4> QED
        BY <2>2, <3>1, <3>2
  <2>5. \A i \in 1..Len(tsfiles) :
          Coming(tsfiles[i])' /\ \A j \in 1..Len(msgs') : tsfiles[i] < msgs'[j]
    BY <2>1, <2>2, <2>3, <1>1 DEF Order, Coming
  <2>6. copier.at # "idle" =>
          Coming(copier.msg)' /\ \A j \in 1..Len(msgs') : copier.msg < msgs'[j]
    BY <2>1, <2>2, <2>3, <1>1, <1>2 DEF Order, Coming
  <2> QED
    <3>1. \A i \in 1..Len(msgs') : Coming(msgs[i])'
      BY <2>1, <2>4 DEF Coming
    <3>2. created' <= added'
      BY <2>1, <1>1 DEF Order
    <3>3. \A i \in 1..Len(tsfiles') :
            /\ \A j \in 1..Len(tsfiles') : i < j => tsfiles'[i] < tsfiles'[j]
            /\ copier'.at # "idle" => tsfiles'[i] < copier'.msg
      BY <2>1 DEF Order
    <3> QED
      BY <2>1, <2>4, <2>5, <2>6, <3>1, <3>2, <3>3 DEF Order
<1>5. CASE Copier
  <2>1. CASE ReceiveMsg
    BY <2>1, <1>1 DEF ReceiveMsg, Order, Coming, registry
  <2>2. CASE CopyFile \/ StatSource
    <3>1. copier' = IdleCopier \/ (copier.at # "idle" /\ copier'.msg = copier.msg)
      BY <2>2, InHands DEF CopyFile, StatSource
    <3> QED
      BY <2>2, <3>1 DEF CopyFile, StatSource, Order, Coming, registry, channels, IdleCopier
  <2>3. CASE SendTs
    BY <2>3, <1>1, <1>2 DEF SendTs, Order, Coming, registry, IdleCopier
  <2> QED
    BY <1>5, <2>1, <2>2, <2>3 DEF Copier
<1>6. CASE Builder
  <2>1. CASE LoadOrStore
    <3>1. created' \in {created, created + 1} /\ tsfiles' = Tail(tsfiles) /\ tsfiles # <<>>
          /\ UNCHANGED <<added, msgs, copier>>
      BY <2>1 DEF LoadOrStore, registry
    <3>2. /\ \A i \in 1..Len(Tail(tsfiles)) : Tail(tsfiles)[i] = tsfiles[i + 1]
          /\ Len(Tail(tsfiles)) = Len(tsfiles) - 1 /\ Len(tsfiles) \in Nat \ {0}
      BY <3>1, <1>1
    <3>3. created < tsfiles[1] /\ tsfiles[1] \in Nat /\ tsfiles[1] <= added
      BY <3>2, <1>1 DEF Order, Coming
    <3>4. \A i \in 1..Len(tsfiles) : tsfiles[i] \in Nat
      BY <1>1
    <3>5. ASSUME NEW i \in 1..Len(tsfiles')
          PROVE  /\ i + 1 \in 1..Len(tsfiles) /\ tsfiles'[i] = tsfiles[i + 1]
                 /\ created' < tsfiles'[i]
                 /\ \A j \in 1..Len(tsfiles') : i < j => tsfiles'[i] < tsfiles'[j]
      BY <3>1, <3>2, <3>3, <3>4, <1>1 DEF Order
    <3>6. \A j \in 1..Len(msgs) : created' < msgs[j]
      BY <3>1, <3>2, <3>3, <1>1 DEF Order
    <3>7. copier.at # "idle" => created' < copier.msg
      BY <3>1, <3>2, <3>3, <1>1, <1>2 DEF Order
    <3>8. created' <= added
      BY <3>1, <3>3, <1>1
    <3> QED
      BY <3>1, <3>5, <3>6, <3>7, <3>8 DEF Order, Coming
  <2>2. CASE Initialize \/ CallbackBegin \/ AddMessage \/ SaveObject
    BY <2>2, <1>3 DEF Initialize, CallbackBegin, AddMessage, SaveObject, registry
  <2> QED
    BY <1>6, <2>1, <2>2 DEF Builder
<1>7. ASSUME NEW o \in Object, Run(o) \/ Age(o) PROVE Order'
  BY <1>7, <1>3 DEF Run, Age, CopyMessages, ServeMessage, ServeFails, SaveServed, SaveRound,
        CheckExpired, Convert, Unregister, CallbackEnd, FinishArtifact, DeleteObject, Cleanup,
        registry
<1>8. CASE Crash
  BY <1>8, <1>1 DEF Crash, Order, Coming, IdleCopier
<1>9. CASE UNCHANGED vars
  BY <1>9, <1>3 DEF vars, registry
<1> QED
  BY <1>4, <1>5, <1>6, <1>7, <1>8, <1>9 DEF Next

--------------------------------------------------------------------------------
\* The map, the Run goroutines and the redis record.

\* What the steps below need of the types.
LEMMA Known ==
    ASSUME TypeOK
    PROVE  /\ run \in [Object -> {"none", "done"} \cup Recording \cup Finishing]
           /\ created \in Nat /\ streams \in Object \cup {None}
           /\ \A o \in Object : o \in Nat /\ o # None
           /\ faults["redis"] \in Nat
           /\ builder.at # "idle" => builder.obj \in Object
           /\ builder.fresh => builder.at # "idle"
<1>1. run \in [Object -> {"none", "done"} \cup Recording \cup Finishing]
  BY DEF TypeOK, RunTypes
<1>2. /\ created \in Nat /\ streams \in Object \cup {None}
      /\ \A o \in Object : o \in Nat /\ o # None
  BY AccidentAssumption DEF AccidentAssumption, TypeOK, RegistryTypes, Object, None
<1>3. faults["redis"] \in Nat
  BY AccidentAssumption DEF AccidentAssumption, TypeOK, BoundTypes, FaultKind
<1>4. /\ builder.at # "idle" => builder.obj \in Object
      /\ builder.fresh => builder.at # "idle"
  BY InHands DEF TypeOK, BuilderType, Idle
<1> QED
  BY <1>1, <1>2, <1>3, <1>4

\* A redis write that fails is remembered.
LEMMA FailedWrite ==
    ASSUME TypeOK
    PROVE  /\ Fault("redis") => Redis'
           /\ \A k \in FaultKind : Fault(k) /\ Redis => Redis'
           /\ UNCHANGED faults => Redis' = Redis
  BY AccidentAssumption
     DEF AccidentAssumption, TypeOK, BoundTypes, Fault, FaultKind, Redis

\* No step breaks the agreement of the map, the Run goroutines and redis.
LEMMA RegistryStep == TypeOK /\ Order /\ Registry /\ Saved /\ [Next]_vars => Registry' /\ Saved'
<1> SUFFICES ASSUME TypeOK, Order, Registry, Saved, [Next]_vars PROVE Registry' /\ Saved'
  OBVIOUS
<1> DEFINE Goal == Registry' /\ Saved'
<1> USE Known, FailedWrite DEF Goto
<1>1. ASSUME UNCHANGED <<builder, registry, run, working, faults>> PROVE Goal
  BY <1>1 DEF Registry, Saved, Live, Redis, registry
<1>2. CASE OnAccidentAdded \/ Copier
  BY <1>2, <1>1 DEF OnAccidentAdded, Copier, ReceiveMsg, CopyFile, StatSource, SendTs, runs, redis,
        bounds
<1>3. CASE LoadOrStore
  <2>1. CASE streams # None
    BY <1>3, <2>1 DEF LoadOrStore, Registry, Saved, Live, Redis, registry, runs, redis, bounds
  <2>2. CASE streams = None
    BY <1>3, <2>2, NextObject
       DEF LoadOrStore, Registry, Saved, Live, Redis, registry, runs, redis, bounds, None
  <2> QED
    BY <2>1, <2>2
<1>4. CASE Initialize
  <2>1. builder.at = "init" /\ UNCHANGED <<streams, created, overtaken, run, working>>
    BY <1>4 DEF Initialize, registry, runs
  <2>2. CASE builder' = [builder EXCEPT !.at = "begin"] /\ UNCHANGED faults
    <3>1. builder'.at = "begin" /\ builder'.obj = builder.obj /\ builder'.fresh = builder.fresh
      BY <2>1, <2>2, InHands
    <3> QED
      BY <2>1, <2>2, <3>1 DEF Registry, Saved, Live
  <2>3. CASE builder' = Idle /\ Fault("redis")
    <3>1. builder'.at = "idle" /\ builder'.fresh = FALSE /\ Redis'
      BY <2>3 DEF Idle
    <3> QED
      BY <2>1, <3>1 DEF Registry, Saved, Live
  <2> QED
    BY <1>4, <2>2, <2>3 DEF Initialize, Write
<1>5. CASE CallbackBegin \/ AddMessage
  <2>1. /\ builder.at \in {"begin", "add"}
        /\ UNCHANGED <<streams, created, overtaken, run, working, faults>>
    BY <1>5 DEF CallbackBegin, AddMessage, registry, runs, redis, bounds
  <2>2. /\ builder'.at \in {"add", "save"} /\ builder'.obj = builder.obj
        /\ builder'.fresh = builder.fresh
    BY <1>5, <2>1, InHands DEF CallbackBegin, AddMessage
  <2> QED
    BY <2>1, <2>2 DEF Registry, Saved, Live
<1>6. CASE SaveObject
  BY <1>6 DEF SaveObject, Write, Registry, Saved, Live, Redis, registry, Idle, Recording, Ending
<1>7. ASSUME NEW o \in Object, Run(o) PROVE Goal
  <2>1. CASE CopyMessages(o) \/ CheckExpired(o) \/ ServeMessage(o)
    BY <1>7, <2>1 DEF CopyMessages, CheckExpired, ServeMessage, Registry, Saved, Live, Redis, registry,
          redis, bounds, Recording, Ending
  <2>2. CASE ServeFails(o) \/ SaveServed(o)
    BY <2>2 DEF ServeFails, SaveServed, NextMessage, Write, Registry, Saved, Live, Redis, registry,
          redis, FaultKind, Recording, Ending
  <2>3. CASE SaveRound(o)
    BY <2>3 DEF SaveRound, Write, Registry, Saved, Live, Redis, registry, Recording, Ending
  <2>4. CASE Convert(o)
    BY <2>4 DEF Convert, Registry, Saved, Live, Redis, registry, redis, FaultKind, Recording, Ending
  <2>5. CASE Unregister(o)
    BY <2>5 DEF Unregister, Registry, Saved, Live, Redis, redis, bounds, Recording, Ending
  <2>6. CASE CallbackEnd(o) \/ Cleanup(o)
    BY <2>6 DEF CallbackEnd, Cleanup, Registry, Saved, Live, Redis, registry, redis, bounds, Recording,
          Ending
  <2>7. CASE FinishArtifact(o)
    BY <2>7 DEF FinishArtifact, Write, Registry, Saved, Live, Redis, registry, Recording, Ending
  <2>8. CASE DeleteObject(o)
    BY <2>8 DEF DeleteObject, Write, Registry, Saved, Live, Redis, registry, Recording, Ending
  <2> QED
    BY <1>7, <2>1, <2>2, <2>3, <2>4, <2>5, <2>6, <2>7, <2>8 DEF Run
<1>8. ASSUME NEW o \in Object, Age(o) PROVE Goal
  BY <1>8, <1>1 DEF Age, runs, redis, bounds
<1>9. CASE Crash
  BY <1>9 DEF Crash, Registry, Saved, Live, Redis, Idle, Recording, Ending
<1>10. CASE UNCHANGED vars
  BY <1>10, <1>1 DEF vars, runs, redis, bounds
<1> QED
  BY <1>2, <1>3, <1>4, <1>5, <1>6, <1>7, <1>8, <1>9, <1>10 DEF Next, Builder

--------------------------------------------------------------------------------
\* The recordings cut the stream of messages in pieces that do not overlap.

Increasing(s) == \A i, j \in 1..Len(s) : i < j => s[i] < s[j]

\* Every message object o has or had and did not give up.
Of(o) == Range(mp4[o]) \cup Range(files[o]) \cup Range(messages[o])

\* The messages of o that are not in its files.
Rest(o) == IF run[o] = "saved" THEN Tail(messages[o]) ELSE messages[o]

\* The messages behind the one the builder has.
Behind == Range(tsfiles) \cup InHand \cup Range(msgs)

Sorted(o) ==
    /\ Increasing(mp4[o]) /\ Increasing(files[o]) /\ Increasing(messages[o])
    /\ \A x \in Range(files[o]), y \in Range(Rest(o)) : x < y

Cut ==
    /\ \A o, p \in Object : o < p => \A x \in Of(o), y \in Of(p) : x < y
    /\ \A o \in Object :
         /\ \A x \in Of(o) : x <= added /\ \A y \in InBuilder \cup Behind : x < y
         /\ o > created => Of(o) = {}
         /\ Sorted(o)
    /\ \A x \in InBuilder : x <= added /\ \A y \in Behind : x < y

\* The range of a longer sequence.
LEMMA RangeAppend ==
    ASSUME NEW S, NEW s \in Seq(S), NEW e \in S
    PROVE  Range(Append(s, e)) = Range(s) \cup {e}
<1>1. /\ DOMAIN Append(s, e) = 1..(Len(s) + 1) /\ DOMAIN s = 1..Len(s) /\ Len(s) \in Nat
      /\ Append(s, e)[Len(s) + 1] = e
      /\ \A i \in 1..Len(s) : Append(s, e)[i] = s[i]
  OBVIOUS
<1>2. Range(Append(s, e)) \subseteq Range(s) \cup {e}
  BY <1>1 DEF Range
<1>3. Range(s) \cup {e} \subseteq Range(Append(s, e))
  BY <1>1 DEF Range
<1> QED
  BY <1>2, <1>3

\* The range of a tail.
LEMMA RangeTail ==
    ASSUME NEW S, NEW s \in Seq(S), s # <<>>
    PROVE  Head(s) \in Range(s) /\ Range(Tail(s)) \subseteq Range(s)
  BY DEF Range

\* A larger message at the end keeps the order.
LEMMA IncreasingAppend ==
    ASSUME NEW s \in Seq(Message), NEW e \in Message, Increasing(s), \A x \in Range(s) : x < e
    PROVE  Increasing(Append(s, e))
<1>1. /\ Len(Append(s, e)) = Len(s) + 1 /\ Len(s) \in Nat
      /\ Append(s, e)[Len(s) + 1] = e
      /\ \A i \in 1..Len(s) : Append(s, e)[i] = s[i]
  OBVIOUS
<1>2. \A i \in 1..Len(s) : s[i] < e
  BY DEF Range
<1>3. ASSUME NEW i \in 1..(Len(s) + 1), NEW j \in 1..(Len(s) + 1), i < j
      PROVE  Append(s, e)[i] < Append(s, e)[j]
  <2>1. i \in 1..Len(s)
    BY <1>1, <1>3
  <2>2. CASE j \in 1..Len(s)
    BY <1>1, <1>3, <2>1, <2>2 DEF Increasing
  <2>3. CASE j = Len(s) + 1
    BY <1>1, <1>2, <2>1, <2>3
  <2> QED
    BY <1>1, <2>2, <2>3
<1> QED
  BY <1>1, <1>3 DEF Increasing

\* The head of an increasing sequence is below its tail.
LEMMA IncreasingTail ==
    ASSUME NEW s \in Seq(Message), Increasing(s), s # <<>>
    PROVE  Increasing(Tail(s)) /\ \A x \in Range(Tail(s)) : Head(s) < x
<1>1. /\ Len(Tail(s)) = Len(s) - 1 /\ Len(s) \in Nat /\ Tail(s) \in Seq(Message)
      /\ \A i \in 1..Len(Tail(s)) : Tail(s)[i] = s[i + 1]
  BY HeadTailProperties
<1>2. Head(s) = s[1] /\ Len(s) # 0
  OBVIOUS
<1>3. \A i \in 1..Len(Tail(s)) : i + 1 \in 1..Len(s) /\ 1 < i + 1
  BY <1>1
<1>4. Increasing(Tail(s))
  BY <1>1, <1>3 DEF Increasing
<1>5. \A i \in 1..Len(Tail(s)) : Head(s) < Tail(s)[i]
  BY <1>1, <1>2, <1>3 DEF Increasing
<1> QED
  BY <1>1, <1>4, <1>5 DEF Range

\* What the cut is made of.
LEMMA CutTypes ==
    ASSUME TypeOK
    PROVE  /\ \A o \in Object : /\ mp4[o] \in Seq(Message) /\ files[o] \in Seq(Message)
                                /\ messages[o] \in Seq(Message) /\ Of(o) \subseteq Message
           /\ Behind \subseteq Message /\ InBuilder \subseteq Message
           /\ \A m \in Message : m \in Nat
           /\ added \in Nat /\ created \in Nat
<1>1. \A o \in Object : mp4[o] \in Seq(Message) /\ files[o] \in Seq(Message)
                         /\ messages[o] \in Seq(Message)
  BY DEF TypeOK, DiskTypes, RunTypes, ObjectTypes
<1>2. \A s \in Seq(Message) : Range(s) \subseteq Message
  BY DEF Range
<1>3. \A o \in Object : Of(o) \subseteq Message
  BY <1>1, <1>2 DEF Of
<1>4. InHand \subseteq Message /\ InBuilder \subseteq Message
  BY InHands DEF TypeOK, CopierType, IdleCopier, InHand, InBuilder
<1>5. Behind \subseteq Message
  BY <1>2, <1>4 DEF TypeOK, ChannelTypes, Behind
<1>6. (\A m \in Message : m \in Nat) /\ added \in Nat /\ created \in Nat
  BY AccidentAssumption
     DEF AccidentAssumption, TypeOK, ChannelTypes, RegistryTypes, Message
<1> QED
  BY <1>1, <1>3, <1>4, <1>5, <1>6

\* Where the messages behind the builder are.
LEMMA BehindInOrder ==
    ASSUME TypeOK, Order
    PROVE  /\ \A y \in Behind : created < y /\ y <= added
           /\ tsfiles # <<>> =>
                /\ Head(tsfiles) \in Behind
                /\ \A y \in Range(Tail(tsfiles)) \cup InHand \cup Range(msgs) :
                     Head(tsfiles) < y
<1>1. tsfiles \in Seq(Message) /\ msgs \in Seq(Message)
  BY DEF TypeOK, ChannelTypes
<1>2. /\ \A y \in Range(tsfiles) : \E i \in 1..Len(tsfiles) : y = tsfiles[i]
      /\ \A y \in Range(msgs) : \E i \in 1..Len(msgs) : y = msgs[i]
  BY <1>1 DEF Range
<1>3. \A y \in InHand : y = copier.msg /\ copier.at # "idle"
  BY DEF InHand, TypeOK, CopierType, IdleCopier
<1>4. \A y \in Behind : created < y /\ y <= added
  BY <1>2, <1>3 DEF Order, Coming, Behind
<1>5. ASSUME tsfiles # <<>>
      PROVE  /\ Head(tsfiles) \in Behind
             /\ \A y \in Range(Tail(tsfiles)) \cup InHand \cup Range(msgs) : Head(tsfiles) < y
  <2>1. Head(tsfiles) = tsfiles[1] /\ 1 \in 1..Len(tsfiles) /\ Head(tsfiles) \in Behind
    BY <1>1, <1>5, RangeTail DEF Behind
  <2>2. Increasing(tsfiles)
    BY DEF Order, Increasing
  <2>3. \A y \in Range(Tail(tsfiles)) : Head(tsfiles) < y
    BY <1>1, <1>5, <2>2, IncreasingTail
  <2> QED
    BY <1>2, <1>3, <2>1, <2>3 DEF Order
<1> QED
  BY <1>4, <1>5

\* A step after which nothing is held that was not held before keeps the cut.
LEMMA CutShrinks ==
    ASSUME TypeOK, Order, Cut, added' = added, created' \in {created, created + 1},
           \A o \in Object : Of(o)' \subseteq Of(o) /\ Sorted(o)',
           InBuilder' \subseteq InBuilder \cup Behind, Behind' \subseteq Behind,
           \A x \in InBuilder', y \in Behind' : x < y
    PROVE  Cut'
  BY BehindInOrder, CutTypes DEF Cut, Object

\* So does one that leaves the recordings and the builder's message alone.
LEMMA CutUnchanged ==
    ASSUME TypeOK, Order, Cut, UNCHANGED <<added, created, mp4, files, messages>>,
           \A o \in Object : Rest(o)' = Rest(o),
           InBuilder' \subseteq InBuilder, Behind' \subseteq Behind
    PROVE  Cut'
<1>1. \A o \in Object : Of(o)' = Of(o) /\ Sorted(o)'
  BY DEF Of, Sorted, Cut
<1> QED
  BY <1>1, CutShrinks, CutTypes DEF Cut

\* Nothing to cut at first.
LEMMA InitCut == Init => Cut
  BY DEF Init, Cut, Of, Sorted, Rest, InBuilder, Behind, InHand, Idle, IdleCopier, Increasing, Range

\* The reports and the copier.
LEMMA CopierCut == ASSUME TypeOK, Order, Cut, OnAccidentAdded \/ Copier PROVE Cut'
<1>1. /\ UNCHANGED <<created, mp4, files, messages, run, builder>>
      /\ \A o \in Object : Rest(o)' = Rest(o)
      /\ InBuilder' = InBuilder
  BY DEF OnAccidentAdded, Copier, ReceiveMsg, CopyFile, StatSource, SendTs, registry, object, runs, disk,
         Rest, InBuilder
<1>2. tsfiles \in Seq(Message) /\ msgs \in Seq(Message)
  BY DEF TypeOK, ChannelTypes
<1>3. CASE OnAccidentAdded
  <2>1. added' = added + 1 /\ added + 1 \in Message
    BY <1>3, CutTypes, AccidentAssumption DEF AccidentAssumption, OnAccidentAdded, Message
  <2>2. Behind' = Behind \cup {added + 1}
    BY <1>2, <1>3, <2>1, RangeAppend DEF OnAccidentAdded, Behind, InHand
  <2>3. \A o \in Object : Of(o)' = Of(o) /\ Sorted(o)'
    BY <1>1 DEF Of, Sorted, Cut
  <2> QED
    BY <1>1, <2>1, <2>2, <2>3, CutTypes DEF Cut
<1>4. CASE ReceiveMsg
  <2>1. Behind' \subseteq Behind
    BY <1>2, <1>4, RangeTail DEF ReceiveMsg, Behind, InHand
  <2> QED
    BY <1>1, <1>4, <2>1, CutUnchanged DEF ReceiveMsg
<1>5. CASE CopyFile \/ StatSource
  <2>1. Behind' \subseteq Behind /\ added' = added
    BY <1>5, InHands DEF CopyFile, StatSource, Behind, InHand, IdleCopier, channels
  <2> QED
    BY <1>1, <2>1, CutUnchanged
<1>6. CASE SendTs
  <2>1. copier.msg \in InHand /\ copier.msg \in Message
    BY <1>6, InHands DEF SendTs, InHand, Message, None
  <2>2. Behind' \subseteq Behind
    BY <1>2, <1>6, <2>1, RangeAppend DEF SendTs, Behind, InHand, IdleCopier
  <2> QED
    BY <1>1, <1>6, <2>2, CutUnchanged DEF SendTs
<1> QED
  BY <1>3, <1>4, <1>5, <1>6 DEF Copier

\* The builder appends to the newest object what is newer than all.
LEMMA BuilderCut == ASSUME TypeOK, Order, Registry, Cut, Builder PROVE Cut'
<1>1. CASE LoadOrStore
  <2>1. /\ UNCHANGED <<added, mp4, files, messages, run, copier, msgs>>
        /\ created' \in {created, created + 1} /\ tsfiles # <<>> /\ tsfiles' = Tail(tsfiles)
        /\ builder'.msg = Head(tsfiles)
    BY <1>1 DEF LoadOrStore, registry, object, runs, disk
  <2>2. InBuilder' \subseteq {Head(tsfiles)}
    BY <2>1 DEF InBuilder
  <2>3. Behind' = Range(Tail(tsfiles)) \cup InHand \cup Range(msgs)
    BY <2>1 DEF Behind, InHand
  <2>4. Range(Tail(tsfiles)) \subseteq Range(tsfiles)
    BY <2>1, RangeTail DEF TypeOK, ChannelTypes
  <2>5. \A o \in Object : Of(o)' = Of(o) /\ Sorted(o)'
    BY <2>1 DEF Of, Sorted, Rest, Cut
  <2>6. InBuilder' \subseteq Behind /\ \A x \in InBuilder', y \in Behind' : x < y
    BY <2>1, <2>2, <2>3, BehindInOrder
  <2>7. Behind' \subseteq Behind
    BY <2>3, <2>4 DEF Behind
  <2> QED
    BY <2>1, <2>5, <2>6, <2>7, CutShrinks
<1>2. CASE Initialize \/ CallbackBegin
  <2>1. InBuilder' \subseteq InBuilder
    BY <1>2, InHands DEF Initialize, CallbackBegin, Write, InBuilder, Idle
  <2>2. UNCHANGED <<added, created, mp4, files, messages, run, copier, msgs, tsfiles>>
    BY <1>2 DEF Initialize, CallbackBegin, registry, object, runs, disk, channels
  <2> QED
    BY <2>1, <2>2, CutUnchanged DEF Rest, Behind, InHand
<1>3. CASE AddMessage
  <2>1. PICK m \in Message, b \in Object :
          m = builder.msg /\ b = builder.obj /\ InBuilder = {m} /\ InBuilder' = {} /\ b = created
    BY <1>3, InHands DEF AddMessage, InBuilder, Registry
  <2>2. UNCHANGED <<added, created, mp4, files, run, copier, msgs, tsfiles>>
    BY <1>3 DEF AddMessage, registry, runs, disk, channels
  <2>3. messages \in [Object -> Seq(Message)] /\ messages' = [messages EXCEPT ![b] = Append(@, m)]
    BY <1>3, <2>1 DEF AddMessage, TypeOK, ObjectTypes
  <2>4. Of(b)' = Of(b) \cup {m} /\ \A o \in Object \ {b} : Of(o)' = Of(o)
    BY <2>1, <2>2, <2>3, RangeAppend DEF Of
  <2>5. Behind' = Behind
    BY <2>2 DEF Behind, InHand
  <2>6. \A o \in Object \ {b} : Sorted(o)'
    BY <2>1, <2>2, <2>3 DEF Cut, Sorted, Rest
  <2>7. Sorted(b)'
    <3>1. Sorted(b) /\ \A x \in Of(b) : x < m
      BY <2>1 DEF Cut
    <3>2. Increasing(messages'[b])
      BY <2>1, <2>3, <3>1, IncreasingAppend DEF Sorted, Of
    <3>3. Range(Rest(b)') \subseteq Range(Rest(b)) \cup {m}
      <4>1. CASE run[b] = "saved"
        <5>1. Range(Tail(Append(messages[b], m))) \subseteq Range(Tail(messages[b])) \cup {m}
          <6>1. CASE messages[b] = <<>>
            BY <2>1, <6>1 DEF Range
          <6>2. CASE messages[b] # <<>>
            <7>1. Tail(Append(messages[b], m)) = Append(Tail(messages[b]), m)
              BY <2>1, <2>3, <6>2
            <7>2. Tail(messages[b]) \in Seq(Message)
              BY <2>3, <6>2
            <7> QED
              BY <2>1, <7>1, <7>2, RangeAppend
          <6> QED
            BY <6>1, <6>2
        <5> QED
          BY <2>1, <2>2, <2>3, <4>1, <5>1 DEF Rest
      <4>2. CASE run[b] # "saved"
        BY <2>1, <2>2, <2>3, <4>2, RangeAppend DEF Rest
      <4> QED
        BY <4>1, <4>2
    <3> QED
      BY <2>2, <3>1, <3>2, <3>3 DEF Sorted, Of
  <2>8. ASSUME NEW o \in Object, NEW p \in Object, o < p, NEW x \in Of(o)', NEW y \in Of(p)'
        PROVE  x < y
    <3>1. CASE p = b
      BY <2>1, <2>4, <2>8, <3>1, CutTypes DEF Cut, Object
    <3>2. CASE p # b
      <4>1. Of(p)' = Of(p)
        BY <2>4, <3>2
      <4>2. p <= created
        BY <2>8, <4>1, CutTypes DEF Cut, Object
      <4>3. o # b
        BY <2>1, <2>8, <4>2, CutTypes DEF Object
      <4> QED
        BY <2>4, <2>8, <4>1, <4>3 DEF Cut
    <3> QED
      BY <3>1, <3>2
  <2>9. ASSUME NEW o \in Object
        PROVE  /\ \A x \in Of(o)' : x <= added' /\ \A y \in InBuilder' \cup Behind' : x < y
               /\ o > created' => Of(o)' = {}
    BY <2>1, <2>2, <2>4, <2>5, CutTypes DEF Cut, Object
  <2> QED
    BY <2>1, <2>6, <2>7, <2>8, <2>9 DEF Cut
<1>4. CASE SaveObject
  <2>1. /\ UNCHANGED <<added, created, mp4, files, messages, copier, msgs, tsfiles>>
        /\ InBuilder' = {}
    BY <1>4 DEF SaveObject, registry, object, disk, channels, InBuilder, Idle
  <2>2. \A o \in Object : run'[o] = run[o] \/ (run[o] # "saved" /\ run'[o] # "saved")
    BY <1>4, InHands DEF SaveObject, Write, Registry, TypeOK, RunTypes
  <2> QED
    BY <2>1, <2>2, CutUnchanged DEF Rest, Behind, InHand
<1> QED
  BY <1>1, <1>2, <1>3, <1>4 DEF Builder

\* What a Run goroutine leaves alone in every case.
LEMMA RunLeaves ==
    ASSUME NEW o \in Object, Run(o)
    PROVE  UNCHANGED <<added, msgs, tsfiles, copier, builder, created>>
  BY DEF Run, CopyMessages, ServeMessage, ServeFails, SaveServed, SaveRound, CheckExpired, Convert,
         Unregister, CallbackEnd, FinishArtifact, DeleteObject, Cleanup, channels, registry

\* A Run goroutine only drops messages or moves them within its object.
LEMMA RunCut == ASSUME TypeOK, BatchIsNext, Order, Cut, NEW o \in Object, Run(o) PROVE Cut'
<1> USE DEF Goto
<1>1. UNCHANGED <<added, created>> /\ InBuilder' = InBuilder /\ Behind' = Behind
  BY RunLeaves DEF InBuilder, Behind, InHand
<1>2. /\ run \in [Object -> {"none", "done"} \cup Recording \cup Finishing]
      /\ messages \in [Object -> Seq(Message)] /\ files \in [Object -> Seq(Message)]
      /\ mp4 \in [Object -> Seq(Message)]
  BY DEF TypeOK, RunTypes, ObjectTypes, DiskTypes
<1>3. \A x \in InBuilder, y \in Behind : x < y
  BY DEF Cut
<1>4. ASSUME Of(o)' \subseteq Of(o), Sorted(o)',
             \A p \in Object \ {o} : Of(p)' = Of(p) /\ Sorted(p)'
      PROVE  Cut'
  BY <1>1, <1>3, <1>4, CutShrinks, CutTypes
<1>5. Sorted(o)
  BY DEF Cut
<1>6. CASE ServeMessage(o)
  <2>1. PICK m \in Message :
          /\ m = Head(batch[o]) /\ m = Head(messages[o]) /\ messages[o] # <<>>
    BY <1>6, Served DEF ServeMessage
  <2>2. /\ files' = [files EXCEPT ![o] = Append(@, m)]
        /\ UNCHANGED <<messages, mp4>>
        /\ run[o] = "serve" /\ run' = [run EXCEPT ![o] = "saved"]
    BY <1>6, <2>1 DEF ServeMessage, object
  <2>3. \A p \in Object \ {o} : Of(p)' = Of(p) /\ Sorted(p)'
    BY <1>2, <2>2 DEF Of, Sorted, Rest, Cut
  <2>4. m \in Range(messages[o]) /\ Range(Tail(messages[o])) \subseteq Range(messages[o])
    BY <1>2, <2>1, RangeTail
  <2>5. Range(files'[o]) = Range(files[o]) \cup {m} /\ files'[o] = Append(files[o], m)
    BY <1>2, <2>2, RangeAppend
  <2>6. Of(o)' \subseteq Of(o)
    BY <2>2, <2>4, <2>5 DEF Of
  <2>7. Rest(o)' = Tail(messages[o]) /\ Rest(o) = messages[o]
    BY <1>2, <2>2 DEF Rest
  <2>8. \A x \in Range(files[o]) : x < m
    BY <1>5, <2>4, <2>7 DEF Sorted
  <2>9. Increasing(files'[o])
    BY <1>2, <1>5, <2>5, <2>8, IncreasingAppend DEF Sorted
  <2>10. \A y \in Range(Tail(messages[o])) : m < y
    BY <1>2, <1>5, <2>1, IncreasingTail DEF Sorted
  <2>11. \A x \in Range(files'[o]), y \in Range(Rest(o)') : x < y
    BY <1>5, <2>4, <2>5, <2>7, <2>10 DEF Sorted
  <2>12. Sorted(o)'
    BY <1>5, <2>2, <2>9, <2>11 DEF Sorted
  <2> QED
    BY <1>4, <2>3, <2>6, <2>12
<1>7. CASE ServeFails(o) \/ SaveServed(o)
  <2>1. /\ run[o] \in {"serve", "saved"} /\ UNCHANGED <<files, mp4>>
        /\ messages' = [messages EXCEPT ![o] = Tail(messages[o])]
        /\ run' = [run EXCEPT ![o] = IF Len(batch[o]) = 1 THEN "save" ELSE "serve"]
    <3>1. CASE ServeFails(o)
      BY <3>1, Served DEF ServeFails, RemoveMessage, NextMessage, disk
    <3>2. CASE SaveServed(o)
      BY <3>2, Served DEF SaveServed, RemoveMessage, NextMessage, disk
    <3> QED
      BY <1>7, <3>1, <3>2
  <2>2. messages[o] # <<>>
    BY <2>1, Served
  <2>3. \A p \in Object \ {o} : Of(p)' = Of(p) /\ Sorted(p)'
    BY <1>2, <2>1 DEF Of, Sorted, Rest, Cut
  <2>4. Range(Tail(messages[o])) \subseteq Range(messages[o]) /\ Increasing(Tail(messages[o]))
    BY <1>2, <1>5, <2>2, RangeTail, IncreasingTail DEF Sorted
  <2>5. Rest(o)' = Tail(messages[o])
    BY <1>2, <2>1 DEF Rest
  <2>6. Range(Rest(o)') \subseteq Range(Rest(o))
    BY <2>4, <2>5 DEF Rest
  <2>7. Sorted(o)' /\ Of(o)' \subseteq Of(o)
    BY <1>2, <1>5, <2>1, <2>4, <2>6 DEF Sorted, Of
  <2> QED
    BY <1>4, <2>3, <2>7
<1>8. CASE Convert(o)
  <2>1. /\ UNCHANGED <<messages, files>> /\ run[o] = "convert"
        /\ run'[o] # "saved" /\ \A p \in Object \ {o} : run'[p] = run[p] /\ mp4'[p] = mp4[p]
        /\ mp4'[o] \in {mp4[o], files[o]}
    BY <1>8, <1>2 DEF Convert, object
  <2>2. \A p \in Object \ {o} : Of(p)' = Of(p) /\ Sorted(p)'
    BY <2>1 DEF Of, Sorted, Rest, Cut
  <2>3. Sorted(o)' /\ Of(o)' \subseteq Of(o)
    BY <1>5, <2>1 DEF Sorted, Of, Rest
  <2> QED
    BY <1>4, <2>2, <2>3
<1>9. CASE \/ CopyMessages(o) \/ SaveRound(o) \/ CheckExpired(o) \/ Unregister(o) \/ CallbackEnd(o)
           \/ FinishArtifact(o) \/ DeleteObject(o) \/ Cleanup(o)
  <2>1. UNCHANGED <<mp4, files, messages>> /\ run[o] # "saved" /\ run'[o] # "saved"
        /\ \A p \in Object \ {o} : run'[p] = run[p]
    <3>1. CASE CopyMessages(o) \/ CheckExpired(o) \/ Unregister(o) \/ CallbackEnd(o) \/ Cleanup(o)
      BY <3>1, <1>2 DEF CopyMessages, CheckExpired, Unregister, CallbackEnd, Cleanup, object, disk
    <3>2. CASE SaveRound(o) \/ FinishArtifact(o) \/ DeleteObject(o)
      BY <3>2, <1>2 DEF SaveRound, FinishArtifact, DeleteObject, Write, object, disk
    <3> QED
      BY <1>9, <3>1, <3>2
  <2> QED
    BY <1>1, <2>1, CutUnchanged DEF Rest
<1> QED
  BY <1>6, <1>7, <1>8, <1>9 DEF Run

\* No step breaks the cut.
LEMMA CutStep ==
    TypeOK /\ BatchIsNext /\ Order /\ Registry /\ Cut /\ [Next]_vars => Cut'
<1> SUFFICES ASSUME TypeOK, BatchIsNext, Order, Registry, Cut, [Next]_vars PROVE Cut'
  OBVIOUS
<1>1. ASSUME NEW o \in Object, Age(o) PROVE Cut'
  <2>1. UNCHANGED <<added, msgs, tsfiles, copier, builder, created, mp4, files, messages, run>>
    BY <1>1 DEF Age, channels, registry, runs, disk
  <2> QED
    BY <2>1, CutUnchanged DEF Rest, InBuilder, Behind, InHand
<1>2. CASE Crash
  <2>1. /\ UNCHANGED <<added, created, mp4>> /\ InBuilder' = {} /\ Behind' = {}
        /\ \A o \in Object : files'[o] = <<>> /\ messages'[o] = <<>> /\ run'[o] = "none"
    BY <1>2 DEF Crash, disk, InBuilder, Behind, InHand, Idle, IdleCopier, Range
  <2>2. Increasing(<<>>) /\ Range(<<>>) = {}
    BY DEF Increasing, Range
  <2>3. \A o \in Object : Of(o)' \subseteq Of(o) /\ Sorted(o)'
    BY <2>1, <2>2 DEF Of, Sorted, Rest, Cut
  <2> QED
    BY <2>1, <2>3, CutShrinks, CutTypes
<1>3. CASE UNCHANGED vars
  <2>1. UNCHANGED <<added, msgs, tsfiles, copier, builder, created, mp4, files, messages, run>>
    BY <1>3 DEF vars, channels, registry, object, runs, disk
  <2> QED
    BY <2>1, CutUnchanged DEF Rest, InBuilder, Behind, InHand
<1> QED
  BY <1>1, <1>2, <1>3, CopierCut, BuilderCut, RunCut DEF Next

--------------------------------------------------------------------------------
\* Where every message is, and what a finished recording is made of.

\* Object o has no Run goroutine yet: it is to come, or the builder has just made it.
Unused(o) == o > created \/ (builder.fresh /\ builder.obj = o)

\* What the artifact, the video, the list of files and the directory of object o have
\* to do with each other: files are what is in the directory as long as Run knows it,
\* the video has all of them once it is made, and redis says so last.
Whole(o) ==
    /\ Unused(o) => files[o] = <<>> /\ recorded[o] = {} /\ artifact[o].processing
    /\ run[o] # "none" => Range(files[o]) = recorded[o]
    /\ run[o] \in Finishing \ {"convert"} => mp4[o] = files[o] /\ files[o] # <<>>
    /\ ~artifact[o].processing =>
         /\ run[o] \in {"none", "hdel", "cleanup", "done"}
         /\ artifact[o].files = mp4[o] /\ mp4[o] # <<>> /\ Range(mp4[o]) = recorded[o]

Artifacts == \A o \in Object : Whole(o)

\* The messages that reached object o and were not given up.
Held(o) == Range(messages[o]) \cup recorded[o]

Account ==
    /\ \A m : m \in 1..added <=>
                m \in Waiting \cup gone \/ \E o \in Object : m \in Held(o)
    /\ Waiting \cap gone = {}
    /\ \A o \in Object : Held(o) \cap (Waiting \cup gone) = {}
    /\ \A o, p \in Object : o # p => Held(o) \cap Held(p) = {}

\* A message is removed from the list after its file was moved.
MovedFirst == \A o \in Object : run[o] = "saved" => Head(messages[o]) \in recorded[o]

\* Nothing is recorded at first.
LEMMA InitArtifacts == Init => Artifacts /\ MovedFirst
  BY DEF Init, Artifacts, Whole, MovedFirst, NoArtifact, Finishing

\* What the steps below need of the types.
LEMMA WholeTypes ==
    ASSUME TypeOK
    PROVE  /\ run \in [Object -> {"none", "done"} \cup Recording \cup Finishing]
           /\ messages \in [Object -> Seq(Message)] /\ files \in [Object -> Seq(Message)]
           /\ batch \in [Object -> Seq(Message)]
           /\ recorded \in [Object -> SUBSET Message] /\ mp4 \in [Object -> Seq(Message)]
           /\ artifact \in [Object -> [saved : BOOLEAN, files : Seq(Message),
                                       processing : BOOLEAN]]
  BY DEF TypeOK, RunTypes, ObjectTypes, DiskTypes, RedisTypes

\* The builder makes an object, writes its first artifact and starts its Run goroutine.
LEMMA BuilderArtifacts == ASSUME TypeOK, Registry, Artifacts, Builder PROVE Artifacts'
<1> USE Known
<1>1. ASSUME UNCHANGED <<run, files, recorded, mp4, artifact>>,
             \A o \in Object : Unused(o)' => Unused(o)
      PROVE  Artifacts'
  BY <1>1 DEF Artifacts, Whole
<1>2. CASE LoadOrStore
  <2>1. UNCHANGED <<run, files, recorded, mp4, artifact>>
    BY <1>2 DEF LoadOrStore, runs, disk, redis
  <2>2. \/ builder'.fresh = FALSE /\ created' = created
        \/ builder'.obj = created + 1 /\ created' = created + 1
    BY <1>2 DEF LoadOrStore, registry
  <2>3. \A o \in Object : Unused(o)' => Unused(o)
    BY <2>2 DEF Unused
  <2> QED
    BY <1>1, <2>1, <2>3
<1>3. CASE CallbackBegin \/ AddMessage
  <2>1. UNCHANGED <<run, files, recorded, mp4, artifact, created>>
    BY <1>3 DEF CallbackBegin, AddMessage, runs, disk, redis, registry
  <2>2. builder'.fresh = builder.fresh /\ builder'.obj = builder.obj
    BY <1>3, InHands DEF CallbackBegin, AddMessage
  <2> QED
    BY <1>1, <2>1, <2>2 DEF Unused
<1>4. CASE Initialize
  <2>1. PICK b \in Object : b = builder.obj /\ Unused(b)
    BY <1>4 DEF Initialize, Registry, Unused
  <2>2. UNCHANGED <<run, files, recorded, mp4, created>>
    BY <1>4 DEF Initialize, runs, disk, registry
  <2>3. \/ builder'.fresh = builder.fresh /\ builder'.obj = builder.obj
        \/ builder'.fresh = FALSE
    BY <1>4, InHands DEF Initialize, Write, Idle
  <2>4. \A o \in Object : Unused(o)' => Unused(o)
    BY <2>2, <2>3 DEF Unused
  <2>5. \/ artifact' = artifact
        \/ artifact' = [artifact EXCEPT ![b] =
                          [saved |-> TRUE, files |-> <<>>, processing |-> TRUE]]
    BY <1>4, <2>1 DEF Initialize, Write
  <2>6. \A o \in Object : artifact'[o] = artifact[o] \/ (o = b /\ artifact'[o].processing)
    BY <2>5, WholeTypes
  <2> QED
    BY <2>1, <2>2, <2>4, <2>6 DEF Artifacts, Whole
<1>5. CASE SaveObject
  <2>1. PICK b \in Object : b = builder.obj
    BY <1>5 DEF SaveObject
  <2>2. UNCHANGED <<files, recorded, mp4, artifact, created>> /\ builder'.fresh = FALSE
    BY <1>5 DEF SaveObject, disk, registry, Idle
  <2>3. \A o \in Object : Unused(o)' => Unused(o)
    BY <2>2 DEF Unused
  <2>4. run' = run \/ (builder.fresh /\ run' = [run EXCEPT ![b] = "idle"])
    BY <1>5, <2>1 DEF SaveObject, Write
  <2>5. CASE builder.fresh /\ run' = [run EXCEPT ![b] = "idle"]
    <3>1. files[b] = <<>> /\ recorded[b] = {} /\ artifact[b].processing
      BY <2>1, <2>5 DEF Artifacts, Whole, Unused
    <3>2. Range(<<>>) = {}
      BY DEF Range
    <3>3. run'[b] = "idle" /\ \A o \in Object \ {b} : run'[o] = run[o]
      BY <2>5, WholeTypes
    <3>4. \A o \in Object : Whole(o)
      BY DEF Artifacts
    <3>5. Whole(b)'
      BY <2>2, <3>1, <3>2, <3>3 DEF Whole, Finishing
    <3>6. \A o \in Object \ {b} : Whole(o)'
      BY <2>2, <2>3, <3>3, <3>4 DEF Whole
    <3> QED
      BY <3>5, <3>6 DEF Artifacts
  <2> QED
    BY <1>1, <2>2, <2>3, <2>4, <2>5
<1> QED
  BY <1>2, <1>3, <1>4, <1>5 DEF Builder

\* An object that runs is not unused.
LEMMA RunningIsUsed ==
    ASSUME TypeOK, Registry, NEW o \in Object, run[o] # "none"
    PROVE  ~Unused(o)
  BY Known DEF Registry, Unused

\* The Run goroutine moves files, converts them, and reports the video at its end.
LEMMA RunArtifacts ==
    ASSUME TypeOK, BatchIsNext, Registry, Artifacts, NEW o \in Object, Run(o)
    PROVE  Artifacts'
<1> USE DEF Goto
<1>1. UNCHANGED <<created, builder>>
  BY RunLeaves
<1>2. Whole(o) /\ \A p \in Object \ {o} : Whole(p)
  BY DEF Artifacts
<1>3. run[o] # "none"
  BY DEF Run, CopyMessages, ServeMessage, ServeFails, SaveServed, SaveRound, CheckExpired,
         Convert, Unregister, CallbackEnd, FinishArtifact, DeleteObject, Cleanup
<1>4. ~Unused(o)'
  BY <1>1, <1>3, RunningIsUsed DEF Unused
<1>5. ASSUME \A p \in Object \ {o} :
                /\ run'[p] = run[p] /\ files'[p] = files[p] /\ recorded'[p] = recorded[p]
                /\ mp4'[p] = mp4[p] /\ artifact'[p] = artifact[p],
             Whole(o)'
      PROVE  Artifacts'
  <2>1. \A p \in Object \ {o} : Whole(p)'
    BY <1>1, <1>2, <1>5 DEF Whole, Unused
  <2> QED
    BY <1>5, <2>1 DEF Artifacts
<1>6. CASE ServeMessage(o)
  <2>1. PICK m \in Message : m = Head(batch[o])
    BY <1>6, Served DEF ServeMessage
  <2>2. /\ run[o] = "serve" /\ run' = [run EXCEPT ![o] = "saved"]
        /\ files' = [files EXCEPT ![o] = Append(@, m)]
        /\ recorded' = [recorded EXCEPT ![o] = @ \cup {m}]
        /\ UNCHANGED <<mp4, artifact>>
    BY <1>6, <2>1 DEF ServeMessage, redis
  <2>3. /\ run'[o] = "saved" /\ files'[o] = Append(files[o], m)
        /\ recorded'[o] = recorded[o] \cup {m}
        /\ \A p \in Object \ {o} : run'[p] = run[p] /\ files'[p] = files[p]
                                   /\ recorded'[p] = recorded[p]
    BY <2>2, WholeTypes
  <2>4. Range(files'[o]) = recorded'[o] /\ artifact[o].processing
    <3>1. Range(files[o]) = recorded[o] /\ artifact[o].processing
      BY <1>2, <2>2 DEF Whole
    <3> QED
      BY <2>3, <3>1, RangeAppend, WholeTypes
  <2>5. Whole(o)'
    BY <1>4, <2>2, <2>3, <2>4 DEF Whole, Finishing
  <2> QED
    BY <1>5, <2>2, <2>3, <2>5
<1>7. CASE SaveServed(o)
  <2>1. run[o] = "saved" /\ UNCHANGED <<files, recorded, mp4>>
        /\ run' = [run EXCEPT ![o] = IF Len(batch[o]) = 1 THEN "save" ELSE "serve"]
        /\ \/ artifact' = artifact
           \/ artifact' = [artifact EXCEPT ![o] =
                             [@ EXCEPT !.saved = TRUE, !.files = files[o]]]
    BY <1>7 DEF SaveServed, NextMessage, Write, disk
  <2>2. /\ run'[o] \in {"save", "serve"} /\ artifact'[o].processing = artifact[o].processing
        /\ \A p \in Object \ {o} : run'[p] = run[p] /\ artifact'[p] = artifact[p]
    BY <2>1, WholeTypes
  <2>3. artifact[o].processing /\ Range(files[o]) = recorded[o]
    BY <1>2, <2>1 DEF Whole
  <2>4. Whole(o)'
    BY <1>4, <2>1, <2>2, <2>3 DEF Whole, Finishing
  <2> QED
    BY <1>5, <2>1, <2>2, <2>4
<1>8. CASE Convert(o)
  <2>1. /\ run[o] = "convert" /\ UNCHANGED <<files, recorded, artifact>>
        /\ \/ run' = [run EXCEPT ![o] = "idle"] /\ mp4' = mp4
           \/ /\ run' = [run EXCEPT ![o] = "delete"] /\ files[o] # <<>>
              /\ mp4' = [mp4 EXCEPT ![o] = files[o]]
    BY <1>8 DEF Convert, redis
  <2>2. /\ \/ run'[o] = "idle" /\ mp4'[o] = mp4[o]
           \/ run'[o] = "delete" /\ files[o] # <<>> /\ mp4'[o] = files[o]
        /\ \A p \in Object \ {o} : run'[p] = run[p] /\ mp4'[p] = mp4[p]
    BY <2>1, WholeTypes
  <2>3. artifact[o].processing /\ Range(files[o]) = recorded[o]
    BY <1>2, <2>1 DEF Whole
  <2>4. Whole(o)'
    BY <1>4, <2>1, <2>2, <2>3 DEF Whole, Finishing
  <2> QED
    BY <1>5, <2>1, <2>2, <2>4
<1>9. CASE FinishArtifact(o)
  <2>1. /\ run[o] = "artifact" /\ run' = [run EXCEPT ![o] = "hdel"]
        /\ UNCHANGED <<files, recorded, mp4>>
        /\ \/ artifact' = artifact
           \/ artifact' = [artifact EXCEPT ![o] =
                             [saved |-> TRUE, files |-> files[o], processing |-> FALSE]]
    BY <1>9 DEF FinishArtifact, Write, disk
  <2>2. /\ run'[o] = "hdel" /\ artifact'[o].files \in {artifact[o].files, files[o]}
        /\ artifact'[o].files = files[o] \/ artifact'[o] = artifact[o]
        /\ \A p \in Object \ {o} : run'[p] = run[p] /\ artifact'[p] = artifact[p]
    BY <2>1, WholeTypes
  <2>3. /\ Range(files[o]) = recorded[o] /\ mp4[o] = files[o] /\ files[o] # <<>>
        /\ artifact[o].processing
    BY <1>2, <2>1 DEF Whole, Finishing
  <2>4. Whole(o)'
    BY <1>4, <2>1, <2>2, <2>3 DEF Whole, Finishing
  <2> QED
    BY <1>5, <2>1, <2>2, <2>4
<1>10. CASE CopyMessages(o) \/ ServeFails(o) \/ SaveRound(o) \/ CheckExpired(o)
  <2>1. /\ UNCHANGED <<files, recorded, mp4, artifact>> /\ run[o] \in Recording
        /\ \E l \in Recording \cup {"convert"} : run' = [run EXCEPT ![o] = l]
    <3>1. CASE CopyMessages(o) \/ CheckExpired(o)
      BY <3>1 DEF CopyMessages, CheckExpired, Recording, disk, redis
    <3>2. CASE ServeFails(o)
      BY <3>2 DEF ServeFails, NextMessage, Recording, disk, redis
    <3>3. CASE SaveRound(o)
      BY <3>3 DEF SaveRound, Write, Recording, disk
    <3> QED
      BY <1>10, <3>1, <3>2, <3>3
  <2>2. /\ run'[o] \in Recording \cup {"convert"}
        /\ \A p \in Object \ {o} : run'[p] = run[p]
    BY <2>1, WholeTypes
  <2>3. artifact[o].processing /\ Range(files[o]) = recorded[o]
    BY <1>2, <1>3, <2>1 DEF Whole, Recording
  <2>4. Whole(o)'
    BY <1>4, <2>1, <2>2, <2>3 DEF Whole, Recording, Finishing
  <2> QED
    BY <1>5, <2>1, <2>2, <2>4
<1>11. CASE Unregister(o) \/ CallbackEnd(o) \/ DeleteObject(o) \/ Cleanup(o)
  <2>1. /\ UNCHANGED <<files, recorded, mp4, artifact>>
        /\ \/ /\ run[o] \in {"delete", "end"}
              /\ \E l \in {"end", "artifact"} : run' = [run EXCEPT ![o] = l]
           \/ /\ run[o] \in {"hdel", "cleanup"}
              /\ \E l \in {"cleanup", "done"} : run' = [run EXCEPT ![o] = l]
    <3>1. CASE Unregister(o) \/ CallbackEnd(o)
      BY <3>1 DEF Unregister, CallbackEnd, disk, redis
    <3>2. CASE DeleteObject(o) \/ Cleanup(o)
      BY <3>2 DEF DeleteObject, Cleanup, Write, disk, redis
    <3> QED
      BY <1>11, <3>1, <3>2
  <2>2. /\ \/ run[o] \in {"delete", "end"} /\ run'[o] \in {"end", "artifact"}
           \/ run[o] \in {"hdel", "cleanup"} /\ run'[o] \in {"cleanup", "done"}
        /\ \A p \in Object \ {o} : run'[p] = run[p]
    BY <2>1, WholeTypes
  <2>3. Whole(o)'
    BY <1>2, <1>4, <2>1, <2>2 DEF Whole, Finishing
  <2> QED
    BY <1>5, <2>1, <2>2, <2>3
<1> QED
  BY <1>6, <1>7, <1>8, <1>9, <1>10, <1>11 DEF Run

\* A restart forgets the objects, not their artifacts and videos.
LEMMA ArtifactsStep ==
    TypeOK /\ BatchIsNext /\ Registry /\ Artifacts /\ [Next]_vars => Artifacts'
<1> SUFFICES ASSUME TypeOK, BatchIsNext, Registry, Artifacts, [Next]_vars PROVE Artifacts'
  OBVIOUS
<1>1. ASSUME UNCHANGED <<run, files, recorded, mp4, artifact, builder, created>>
      PROVE  Artifacts'
  BY <1>1 DEF Artifacts, Whole, Unused
<1>2. CASE OnAccidentAdded \/ Copier
  BY <1>1, <1>2 DEF OnAccidentAdded, Copier, ReceiveMsg, CopyFile, StatSource, SendTs, registry,
                    runs, disk, redis
<1>3. ASSUME NEW o \in Object, Age(o) PROVE Artifacts'
  BY <1>1, <1>3 DEF Age, registry, runs, disk, redis
<1>4. CASE UNCHANGED vars
  BY <1>1, <1>4 DEF vars, registry, runs, disk, redis
<1>5. CASE Crash
  <2>1. /\ UNCHANGED <<recorded, mp4, artifact, created>> /\ builder'.fresh = FALSE
        /\ \A o \in Object : files'[o] = <<>> /\ run'[o] = "none"
    BY <1>5 DEF Crash, disk, redis, Idle
  <2>2. \A o \in Object : Whole(o)'
    BY <2>1 DEF Artifacts, Whole, Unused, Finishing
  <2> QED
    BY <2>2 DEF Artifacts
<1> QED
  BY <1>2, <1>3, <1>4, <1>5, BuilderArtifacts, RunArtifacts DEF Next

\* A message is served from the first one on, after its file was moved.
LEMMA MovedFirstStep == TypeOK /\ BatchIsNext /\ MovedFirst /\ [Next]_vars => MovedFirst'
<1> SUFFICES ASSUME TypeOK, BatchIsNext, MovedFirst, [Next]_vars PROVE MovedFirst'
  OBVIOUS
<1> USE DEF Goto
<1>1. ASSUME \A o \in Object :
               run'[o] = "saved" =>
                 run[o] = "saved" /\ messages'[o] = messages[o] /\ recorded'[o] = recorded[o]
      PROVE  MovedFirst'
  BY <1>1 DEF MovedFirst
<1>2. CASE OnAccidentAdded \/ Copier
  BY <1>1, <1>2 DEF OnAccidentAdded, Copier, ReceiveMsg, CopyFile, StatSource, SendTs, object,
                    runs, disk
<1>3. CASE LoadOrStore \/ Initialize \/ CallbackBegin
  BY <1>1, <1>3 DEF LoadOrStore, Initialize, CallbackBegin, object, runs, disk
<1>4. CASE AddMessage
  <2>1. PICK b \in Object, m \in Message : b = builder.obj /\ m = builder.msg
    BY <1>4, InHands DEF AddMessage
  <2>2. /\ UNCHANGED <<run, recorded>> /\ messages'[b] = Append(messages[b], m)
        /\ \A o \in Object \ {b} : messages'[o] = messages[o]
    BY <1>4, <2>1, WholeTypes DEF AddMessage, runs, disk
  <2>3. ASSUME run[b] = "saved" PROVE Head(messages'[b]) = Head(messages[b])
    BY <2>2, <2>3, Served, WholeTypes
  <2> QED
    BY <2>2, <2>3 DEF MovedFirst
<1>5. CASE SaveObject
  <2>1. \A o \in Object : run'[o] = run[o] \/ run'[o] = "idle"
    BY <1>5, WholeTypes DEF SaveObject, Write
  <2> QED
    BY <1>1, <1>5, <2>1 DEF SaveObject, object, disk
<1>6. ASSUME NEW o \in Object, Run(o) PROVE MovedFirst'
  <2>1. CASE ServeMessage(o)
    <3>1. PICK m \in Message : m = Head(batch[o]) /\ m = Head(messages[o])
      BY <2>1, Served DEF ServeMessage
    <3>2. /\ UNCHANGED messages /\ m \in recorded'[o]
          /\ \A p \in Object \ {o} : run'[p] = run[p] /\ recorded'[p] = recorded[p]
      BY <2>1, <3>1, WholeTypes DEF ServeMessage, object
    <3> QED
      BY <3>1, <3>2 DEF MovedFirst
  <2>2. CASE ServeFails(o) \/ SaveServed(o)
    <3>1. /\ run'[o] \in {"save", "serve"} /\ recorded' = recorded
          /\ \A p \in Object \ {o} : run'[p] = run[p] /\ messages'[p] = messages[p]
      <4>1. CASE ServeFails(o)
        BY <4>1, WholeTypes DEF ServeFails, RemoveMessage, NextMessage, disk
      <4>2. CASE SaveServed(o)
        BY <4>2, WholeTypes DEF SaveServed, RemoveMessage, NextMessage, disk
      <4> QED
        BY <2>2, <4>1, <4>2
    <3> QED
      BY <1>1, <3>1
  <2>3. CASE \/ CopyMessages(o) \/ SaveRound(o) \/ CheckExpired(o) \/ Convert(o)
             \/ Unregister(o) \/ CallbackEnd(o) \/ FinishArtifact(o) \/ DeleteObject(o)
             \/ Cleanup(o)
    <3>1. /\ UNCHANGED <<messages, recorded>> /\ run'[o] # "saved"
          /\ \A p \in Object \ {o} : run'[p] = run[p]
      <4>1. CASE CopyMessages(o) \/ CheckExpired(o) \/ Unregister(o) \/ CallbackEnd(o)
                 \/ Cleanup(o) \/ Convert(o)
        BY <4>1, WholeTypes DEF CopyMessages, CheckExpired, Unregister, CallbackEnd, Cleanup,
                                Convert, object, disk
      <4>2. CASE SaveRound(o) \/ FinishArtifact(o) \/ DeleteObject(o)
        BY <4>2, WholeTypes DEF SaveRound, FinishArtifact, DeleteObject, Write, object, disk
      <4> QED
        BY <2>3, <4>1, <4>2
    <3> QED
      BY <1>1, <3>1
  <2> QED
    BY <1>6, <2>1, <2>2, <2>3 DEF Run
<1>7. CASE Crash
  BY <1>1, <1>7 DEF Crash
<1>8. ASSUME NEW o \in Object, Age(o) PROVE MovedFirst'
  BY <1>1, <1>8 DEF Age, runs, disk
<1>9. CASE UNCHANGED vars
  BY <1>1, <1>9 DEF vars, object, runs, disk
<1> QED
  BY <1>2, <1>3, <1>4, <1>5, <1>6, <1>7, <1>8, <1>9 DEF Next, Builder

--------------------------------------------------------------------------------
\* The account of the messages: a step moves at most one, but for a crash.

\* Every message stays where it is.
Kept ==
    UNCHANGED <<added, gone>> /\ Waiting' = Waiting /\ \A o \in Object : Held(o)' = Held(o)

\* A message is reported.
Reported ==
    /\ added' = added + 1 /\ Waiting' = Waiting \cup {added + 1} /\ gone' = gone
    /\ \A o \in Object : Held(o)' = Held(o)

\* A message is given up on its way to the builder.
Dropped(m) ==
    /\ m \in Waiting /\ Waiting' = Waiting \ {m} /\ gone' = gone \cup {m} /\ added' = added
    /\ \A o \in Object : Held(o)' = Held(o)

\* The builder hands a message to object b.
Handed(m, b) ==
    /\ m \in Waiting /\ Waiting' = Waiting \ {m} /\ UNCHANGED <<gone, added>>
    /\ Held(b)' = Held(b) \cup {m} /\ \A o \in Object \ {b} : Held(o)' = Held(o)

\* Object b gives a message up.
Failed(m, b) ==
    /\ m \in Held(b) /\ Held(b)' = Held(b) \ {m} /\ gone' = gone \cup {m}
    /\ Waiting' = Waiting /\ added' = added
    /\ \A o \in Object \ {b} : Held(o)' = Held(o)

\* Only what was recorded outlives a crash.
Forgotten ==
    /\ Waiting' = {} /\ added' = added
    /\ \A o \in Object : Held(o)' \subseteq Held(o)
    /\ \A m : m \in gone' <=>
         m \in gone \/ m \in Waiting \/ \E o \in Object : m \in Held(o) /\ m \notin Held(o)'

\* Each of these keeps the account.
LEMMA AccountMoves ==
    ASSUME added \in Nat, Account,
           \/ Kept \/ Reported \/ Forgotten
           \/ \E m \in Message : Dropped(m) \/ \E b \in Object : Handed(m, b) \/ Failed(m, b)
    PROVE  Account'
<1>1. CASE Kept
  BY <1>1 DEF Kept, Account
<1>2. CASE Reported
  <2>1. 1..(added + 1) = (1..added) \cup {added + 1} /\ added + 1 \notin 1..added
    OBVIOUS
  <2> QED
    BY <1>2, <2>1 DEF Reported, Account
<1>3. CASE Forgotten
  <2>1. \A m : m \in 1..added' <=>
          m \in Waiting' \cup gone' \/ \E o \in Object : m \in Held(o)'
    BY <1>3 DEF Forgotten, Account
  <2>2. \A o \in Object : Held(o)' \cap gone' = {}
    BY <1>3 DEF Forgotten, Account
  <2> QED
    BY <1>3, <2>1, <2>2 DEF Forgotten, Account
<1>4. ASSUME NEW m \in Message, Dropped(m) PROVE Account'
  BY <1>4 DEF Dropped, Account
<1>5. ASSUME NEW m \in Message, NEW b \in Object, Handed(m, b) PROVE Account'
  BY <1>5 DEF Handed, Account
<1>6. ASSUME NEW m \in Message, NEW b \in Object, Failed(m, b) PROVE Account'
  BY <1>6 DEF Failed, Account
<1> QED
  BY <1>1, <1>2, <1>3, <1>4, <1>5, <1>6

\* The head of a sequence and its tail make up its range, apart if it increases.
LEMMA RangeHead ==
    ASSUME NEW s \in Seq(Message), s # <<>>
    PROVE  /\ Range(s) = {Head(s)} \cup Range(Tail(s)) /\ Head(s) \in Message
           /\ Increasing(s) => Range(Tail(s)) = Range(s) \ {Head(s)}
<1>1. /\ Len(s) \in Nat /\ Len(Tail(s)) = Len(s) - 1 /\ DOMAIN s = 1..Len(s)
      /\ DOMAIN Tail(s) = 1..Len(Tail(s)) /\ Head(s) = s[1] /\ Head(s) \in Message
      /\ \A i \in 1..Len(Tail(s)) : Tail(s)[i] = s[i + 1]
  BY HeadTailProperties
<1>2. ASSUME NEW i \in 1..Len(s), i # 1 PROVE s[i] \in Range(Tail(s))
  <2>1. i - 1 \in 1..Len(Tail(s)) /\ (i - 1) + 1 = i
    BY <1>1, <1>2
  <2> QED
    BY <1>1, <2>1 DEF Range
<1>3. Range(s) = {Head(s)} \cup Range(Tail(s))
  BY <1>1, <1>2, RangeTail DEF Range
<1>4. Increasing(s) => Head(s) \notin Range(Tail(s))
  <2> SUFFICES ASSUME Increasing(s), Head(s) \in Range(Tail(s)) PROVE FALSE
    OBVIOUS
  <2>1. Head(s) < Head(s) /\ Head(s) \in Nat
    BY <1>1, IncreasingTail, AccidentAssumption DEF AccidentAssumption, Message
  <2> QED
    BY <2>1
<1> QED
  BY <1>1, <1>3, <1>4

\* A message the copier or the builder holds is nowhere else on the way.
LEMMA HeldOnce ==
    ASSUME TypeOK, Order, Cut
    PROVE  /\ copier.at # "idle" =>
                /\ copier.msg \in Message /\ InHand = {copier.msg}
                /\ copier.msg \notin Range(msgs) \cup Range(tsfiles) \cup InBuilder
           /\ copier.at = "idle" => InHand = {}
           /\ builder.at \in {"init", "begin", "add"} =>
                builder.msg \in Message /\ InBuilder = {builder.msg} /\ builder.msg \notin Behind
           /\ builder.at \notin {"init", "begin", "add"} => InBuilder = {}
<1>1. copier.at # "idle" => copier.msg \in Message /\ InHand = {copier.msg}
  BY InHands DEF InHand, Message, None
<1>2. copier.at = "idle" => InHand = {}
  BY DEF InHand, TypeOK, CopierType, IdleCopier
<1>3. /\ \A y \in Range(tsfiles) : \E i \in 1..Len(tsfiles) : y = tsfiles[i]
      /\ \A y \in Range(msgs) : \E i \in 1..Len(msgs) : y = msgs[i]
  BY DEF TypeOK, ChannelTypes, Range
<1>4. \A m \in Message : ~(m < m)
  BY CutTypes
<1>5. copier.at # "idle" => copier.msg \notin Range(msgs) \cup Range(tsfiles)
  BY <1>1, <1>3, <1>4 DEF Order
<1>6. \A x \in InBuilder : x \notin Behind
  BY <1>4, CutTypes DEF Cut
<1>7. copier.at # "idle" => copier.msg \notin InBuilder
  BY <1>1, <1>6 DEF Behind
<1>8. builder.at \in {"init", "begin", "add"} => builder.msg \in Message
  BY InHands
<1> QED
  BY <1>1, <1>2, <1>5, <1>6, <1>7, <1>8 DEF InBuilder

\* The reports and the copier.
LEMMA CopierAccount ==
    ASSUME TypeOK, Order, Cut, OnAccidentAdded \/ Copier
    PROVE  Kept \/ Reported \/ \E m \in Message : Dropped(m)
<1>1. /\ \A o \in Object : Held(o)' = Held(o)
      /\ InBuilder' = InBuilder
  BY DEF OnAccidentAdded, Copier, ReceiveMsg, CopyFile, StatSource, SendTs, object, disk, Held,
         InBuilder
<1>2. tsfiles \in Seq(Message) /\ msgs \in Seq(Message)
  BY DEF TypeOK, ChannelTypes
<1>3. CASE OnAccidentAdded
  <2>1. added' = added + 1 /\ added + 1 \in Message
    BY <1>3, CutTypes, AccidentAssumption DEF AccidentAssumption, OnAccidentAdded, Message
  <2>2. Range(msgs') = Range(msgs) \cup {added + 1}
    BY <1>2, <1>3, <2>1, RangeAppend DEF OnAccidentAdded
  <2>3. Waiting' = Waiting \cup {added + 1}
    BY <1>1, <1>3, <2>2 DEF OnAccidentAdded, Waiting, InHand
  <2> QED
    BY <1>1, <1>3, <2>1, <2>3 DEF OnAccidentAdded, Reported
<1>4. CASE ReceiveMsg
  <2>1. Range(msgs) = {Head(msgs)} \cup Range(msgs') /\ Head(msgs) \in Message
    BY <1>2, <1>4, RangeHead DEF ReceiveMsg
  <2>2. InHand = {} /\ InHand' = {Head(msgs)}
    BY <1>4, <2>1, HeldOnce DEF ReceiveMsg, InHand, Message, None
  <2>3. Waiting' = Waiting
    BY <1>1, <1>4, <2>1, <2>2 DEF ReceiveMsg, Waiting
  <2> QED
    BY <1>1, <1>4, <2>3 DEF ReceiveMsg, Kept
<1>5. CASE CopyFile \/ StatSource
  <2>1. copier.at # "idle" /\ UNCHANGED <<added, msgs, tsfiles>>
    BY <1>5 DEF CopyFile, StatSource, channels
  <2>2. \/ copier'.msg = copier.msg /\ gone' = gone
        \/ copier' = IdleCopier /\ gone' = gone \cup {copier.msg}
    BY <1>5, InHands DEF CopyFile, StatSource, GiveUp, TypeOK, CopierType, IdleCopier
  <2>3. CASE copier'.msg = copier.msg /\ gone' = gone
    <3>1. Waiting' = Waiting
      BY <1>1, <2>1, <2>3 DEF Waiting, InHand
    <3> QED
      BY <1>1, <2>1, <2>3, <3>1 DEF Kept
  <2>4. CASE copier' = IdleCopier /\ gone' = gone \cup {copier.msg}
    <3>1. InHand' = {}
      BY <2>4 DEF InHand, IdleCopier
    <3>2. copier.msg \in Waiting /\ Waiting' = Waiting \ {copier.msg}
      BY <1>1, <2>1, <3>1, HeldOnce DEF Waiting
    <3> QED
      BY <1>1, <2>1, <2>4, <3>2, HeldOnce DEF Dropped
  <2> QED
    BY <2>2, <2>3, <2>4
<1>6. CASE SendTs
  <2>1. copier.msg \in Message /\ InHand = {copier.msg}
    BY <1>6, HeldOnce DEF SendTs
  <2>2. Range(tsfiles') = Range(tsfiles) \cup {copier.msg}
    BY <1>2, <1>6, <2>1, RangeAppend DEF SendTs
  <2>3. InHand' = {}
    BY <1>6 DEF SendTs, InHand, IdleCopier
  <2>4. Waiting' = Waiting
    BY <1>1, <1>6, <2>1, <2>2, <2>3 DEF SendTs, Waiting
  <2> QED
    BY <1>1, <1>6, <2>4 DEF SendTs, Kept
<1> QED
  BY <1>3, <1>4, <1>5, <1>6 DEF Copier

\* The builder.
LEMMA BuilderAccount ==
    ASSUME TypeOK, Order, Cut, Builder
    PROVE  Kept \/ \E m \in Message : Dropped(m) \/ \E b \in Object : Handed(m, b)
<1>1. UNCHANGED <<added, msgs, copier, recorded>> /\ InHand' = InHand
  BY DEF Builder, LoadOrStore, Initialize, CallbackBegin, AddMessage, SaveObject, channels,
         disk, InHand
<1>2. ASSUME UNCHANGED messages PROVE \A o \in Object : Held(o)' = Held(o)
  BY <1>1, <1>2 DEF Held
<1>3. CASE LoadOrStore
  <2>1. /\ tsfiles # <<>> /\ tsfiles' = Tail(tsfiles) /\ UNCHANGED <<messages, gone>>
        /\ builder.at = "idle" /\ builder'.at \in {"add", "init"}
        /\ builder'.msg = Head(tsfiles)
    BY <1>3 DEF LoadOrStore, object
  <2>2. Range(tsfiles) = {Head(tsfiles)} \cup Range(tsfiles')
    BY <2>1, RangeHead DEF TypeOK, ChannelTypes
  <2>3. InBuilder = {} /\ InBuilder' = {Head(tsfiles)}
    BY <2>1 DEF InBuilder
  <2>4. Waiting' = Waiting
    BY <1>1, <2>2, <2>3 DEF Waiting
  <2> QED
    BY <1>1, <1>2, <2>1, <2>4 DEF Kept
<1>4. CASE Initialize
  <2>1. builder.at = "init" /\ UNCHANGED <<tsfiles, messages>>
    BY <1>4 DEF Initialize, channels, object
  <2>2. \/ InBuilder' = InBuilder /\ gone' = gone
        \/ InBuilder' = {} /\ gone' = gone \cup {builder.msg}
    BY <1>4, InHands DEF Initialize, Write, GiveUp, InBuilder, Idle
  <2>3. CASE InBuilder' = InBuilder /\ gone' = gone
    BY <1>1, <1>2, <2>1, <2>3 DEF Kept, Waiting
  <2>4. CASE InBuilder' = {} /\ gone' = gone \cup {builder.msg}
    <3>1. builder.msg \in Message /\ InBuilder = {builder.msg} /\ builder.msg \notin Behind
      BY <2>1, HeldOnce
    <3>2. builder.msg \in Waiting /\ Waiting' = Waiting \ {builder.msg}
      BY <1>1, <2>1, <2>4, <3>1 DEF Waiting, Behind
    <3> QED
      BY <1>1, <1>2, <2>1, <2>4, <3>1, <3>2 DEF Dropped
  <2> QED
    BY <2>2, <2>3, <2>4
<1>5. CASE CallbackBegin
  <2>1. UNCHANGED <<tsfiles, messages, gone>> /\ InBuilder' = InBuilder
    BY <1>5, InHands DEF CallbackBegin, channels, object, InBuilder
  <2> QED
    BY <1>1, <1>2, <2>1 DEF Kept, Waiting
<1>6. CASE AddMessage
  <2>1. PICK m \in Message, b \in Object :
          m = builder.msg /\ b = builder.obj /\ InBuilder = {m} /\ m \notin Behind
    BY <1>6, InHands, HeldOnce DEF AddMessage
  <2>2. /\ UNCHANGED <<tsfiles, gone>> /\ messages' = [messages EXCEPT ![b] = Append(@, m)]
        /\ InBuilder' = {}
    BY <1>6, <2>1, InHands DEF AddMessage, channels, InBuilder
  <2>3. /\ Range(messages'[b]) = Range(messages[b]) \cup {m}
        /\ \A o \in Object \ {b} : messages'[o] = messages[o]
    BY <2>1, <2>2, RangeAppend, WholeTypes
  <2>4. m \in Waiting /\ Waiting' = Waiting \ {m}
    BY <1>1, <2>1, <2>2 DEF Waiting, Behind
  <2>5. Held(b)' = Held(b) \cup {m} /\ \A o \in Object \ {b} : Held(o)' = Held(o)
    BY <1>1, <2>3 DEF Held
  <2> QED
    BY <1>1, <2>2, <2>4, <2>5 DEF Handed
<1>7. CASE SaveObject
  <2>1. UNCHANGED <<tsfiles, messages, gone>> /\ InBuilder = {} /\ InBuilder' = {}
    BY <1>7 DEF SaveObject, channels, object, InBuilder, Idle
  <2> QED
    BY <1>1, <1>2, <2>1 DEF Kept, Waiting
<1> QED
  BY <1>3, <1>4, <1>5, <1>6, <1>7 DEF Builder

\* The Run goroutine.
LEMMA RunAccount ==
    ASSUME TypeOK, BatchIsNext, Cut, Artifacts, MovedFirst, NEW o \in Object, Run(o)
    PROVE  Kept \/ \E m \in Message : Failed(m, o)
<1>1. Waiting' = Waiting /\ added' = added
  BY RunLeaves DEF Waiting, InHand, InBuilder
<1>2. CASE ServeMessage(o)
  <2>1. PICK m \in Message : m = Head(batch[o]) /\ m = Head(messages[o]) /\ messages[o] # <<>>
    BY <1>2, Served DEF ServeMessage
  <2>2. UNCHANGED <<messages, gone>> /\ recorded' = [recorded EXCEPT ![o] = @ \cup {m}]
    BY <1>2, <2>1 DEF ServeMessage, object
  <2>3. m \in Range(messages[o])
    BY <2>1, RangeTail, WholeTypes
  <2>4. \A p \in Object : Held(p)' = Held(p)
    BY <2>2, <2>3, WholeTypes DEF Held
  <2> QED
    BY <1>1, <2>2, <2>4 DEF Kept
<1>3. CASE ServeFails(o) \/ SaveServed(o)
  <2>1. PICK m \in Message :
          /\ m = Head(batch[o]) /\ m = Head(messages[o]) /\ messages[o] # <<>>
          /\ RemoveFirst(messages[o], m) = Tail(messages[o])
    BY <1>3, Served DEF ServeFails, SaveServed
  <2>2. /\ recorded' = recorded /\ messages'[o] = Tail(messages[o])
        /\ \A p \in Object \ {o} : messages'[p] = messages[p]
    <3>1. CASE ServeFails(o)
      BY <2>1, <3>1, WholeTypes DEF ServeFails, RemoveMessage, disk
    <3>2. CASE SaveServed(o)
      BY <2>1, <3>2, WholeTypes DEF SaveServed, RemoveMessage, disk
    <3> QED
      BY <1>3, <3>1, <3>2
  <2>3. Range(messages'[o]) = Range(messages[o]) \ {m} /\ m \in Range(messages[o])
    BY <2>1, <2>2, RangeHead, WholeTypes DEF Cut, Sorted
  <2>4. \A p \in Object \ {o} : Held(p)' = Held(p)
    BY <2>2 DEF Held
  <2>5. CASE ServeFails(o)
    <3>1. gone' = gone \cup {m} /\ run[o] = "serve"
      BY <2>1, <2>5 DEF ServeFails, GiveUp
    <3>2. Range(files[o]) = recorded[o] /\ m \in Range(Rest(o))
      BY <2>3, <3>1 DEF Artifacts, Whole, Rest
    <3>3. m \notin recorded[o]
      <4>1. \A x \in Range(files[o]) : x < m
        BY <3>2 DEF Cut, Sorted
      <4>2. ~(m < m)
        BY CutTypes
      <4> QED
        BY <3>2, <4>1, <4>2
    <3>4. Held(o)' = Held(o) \ {m} /\ m \in Held(o)
      BY <2>2, <2>3, <3>3 DEF Held
    <3> QED
      BY <1>1, <2>4, <3>1, <3>4 DEF Failed
  <2>6. CASE SaveServed(o)
    <3>1. gone' = gone /\ m \in recorded[o]
      BY <2>1, <2>6 DEF SaveServed, MovedFirst
    <3>2. Held(o)' = Held(o)
      BY <2>2, <2>3, <3>1 DEF Held
    <3> QED
      BY <1>1, <2>4, <3>1, <3>2 DEF Kept
  <2> QED
    BY <1>3, <2>5, <2>6
<1>4. CASE \/ CopyMessages(o) \/ SaveRound(o) \/ CheckExpired(o) \/ Convert(o) \/ Unregister(o)
           \/ CallbackEnd(o) \/ FinishArtifact(o) \/ DeleteObject(o) \/ Cleanup(o)
  <2>1. UNCHANGED <<messages, recorded, gone>>
    BY <1>4 DEF CopyMessages, SaveRound, CheckExpired, Convert, Unregister, CallbackEnd,
                FinishArtifact, DeleteObject, Cleanup, object, disk
  <2> QED
    BY <1>1, <2>1 DEF Kept, Held
<1> QED
  BY <1>2, <1>3, <1>4 DEF Run

\* No step breaks the account.
LEMMA AccountStep ==
    IInv /\ Cut /\ Artifacts /\ MovedFirst /\ Account /\ [Next]_vars => Account'
<1> SUFFICES ASSUME IInv, Cut, Artifacts, MovedFirst, Account, [Next]_vars PROVE Account'
  OBVIOUS
<1>1. TypeOK /\ Order /\ BatchIsNext /\ added \in Nat
  BY CutTypes DEF IInv
<1>2. CASE OnAccidentAdded \/ Copier
  BY <1>1, <1>2, CopierAccount, AccountMoves
<1>3. CASE Builder
  BY <1>1, <1>3, BuilderAccount, AccountMoves
<1>4. ASSUME NEW o \in Object, Run(o) PROVE Account'
  BY <1>1, <1>4, RunAccount, AccountMoves
<1>5. CASE UNCHANGED vars \/ \E o \in Object : Age(o)
  <2>1. Kept
    BY <1>5 DEF Kept, Age, vars, channels, object, runs, disk, Waiting, InHand, InBuilder, Held
  <2> QED
    BY <1>1, <2>1, AccountMoves
<1>6. CASE Crash
  <2>1. Waiting' = {}
    BY <1>6 DEF Crash, Waiting, InHand, InBuilder, Idle, IdleCopier, Range
  <2>2. \A o \in Object : Held(o)' = recorded[o]
    BY <1>6 DEF Crash, Held, disk, Range
  <2>3. \A m : m \in gone' <=>
          m \in gone \/ m \in Waiting \/ \E o \in Object : m \in Range(messages[o]) \ recorded[o]
    BY <1>6 DEF Crash, Waiting
  <2>4. Forgotten
    BY <1>6, <2>1, <2>2, <2>3 DEF Crash, Forgotten, Held
  <2> QED
    BY <1>1, <2>4, AccountMoves
<1> QED
  BY <1>2, <1>3, <1>4, <1>5, <1>6 DEF Next

\* No message was reported at first.
LEMMA InitAccount == Init => Account
<1> SUFFICES ASSUME Init PROVE Account
  OBVIOUS
<1>1. Waiting = {} /\ gone = {} /\ \A o \in Object : Held(o) = {}
  BY DEF Init, Waiting, InHand, InBuilder, Idle, IdleCopier, Held, Range
<1>2. 1..added = {}
  BY DEF Init
<1> QED
  BY <1>1, <1>2 DEF Account

--------------------------------------------------------------------------------
\* Who serves the lists.

\* A list is served, or late, or redis kept it from being served.
Lists ==
    /\ \A o \in Object : run[o] \in Finishing \cup {"done"} => Range(messages[o]) \subseteq late
    /\ \A o \in Object : run[o] = "none" /\ messages[o] # <<>> =>
                         Redis \/ (builder.fresh /\ builder.obj = o)
    /\ builder.at # "idle" /\ ~builder.fresh => run[builder.obj] # "none" \/ Redis

\* The lists are empty at first.
LEMMA InitLists == Init => Lists
  BY DEF Init, Lists, Idle, Range, Finishing

\* A list that a Run goroutine may finish with is empty, and what comes later is late.
LEMMA ListsStep ==
    TypeOK /\ BatchIsNext /\ Registry /\ Lists /\ [Next]_vars => Lists'
<1> SUFFICES ASSUME TypeOK, BatchIsNext, Registry, Lists, [Next]_vars PROVE Lists'
  OBVIOUS
<1> USE DEF Goto
<1>1. ASSUME UNCHANGED <<builder, run, messages, late, faults>> PROVE Lists'
  BY <1>1 DEF Lists, Redis
<1>2. CASE OnAccidentAdded \/ Copier
  BY <1>1, <1>2 DEF OnAccidentAdded, Copier, ReceiveMsg, CopyFile, StatSource, SendTs, object,
                    runs, bounds
<1>3. CASE LoadOrStore
  <2>1. /\ UNCHANGED <<run, messages, late, faults>> /\ ~builder.fresh
        /\ builder'.fresh \/ (builder'.obj = streams /\ streams \in Object)
    BY <1>3, Known DEF LoadOrStore, object, runs, bounds
  <2>2. ~builder'.fresh => run[builder'.obj] # "none" \/ Redis
    BY <2>1 DEF Registry, Live, Recording
  <2> QED
    BY <2>1, <2>2 DEF Lists, Redis
<1>4. CASE Initialize
  <2>1. /\ UNCHANGED <<run, messages, late>>
        /\ \/ UNCHANGED faults /\ builder'.obj = builder.obj /\ builder'.fresh = builder.fresh
              /\ builder.at # "idle"
           \/ Redis' /\ builder'.at = "idle"
    BY <1>4, InHands, FailedWrite DEF Initialize, Write, object, runs, Idle
  <2> QED
    BY <2>1 DEF Lists, Redis
<1>5. CASE CallbackBegin
  <2>1. /\ UNCHANGED <<run, messages, late, faults>> /\ builder.at # "idle"
        /\ builder'.obj = builder.obj /\ builder'.fresh = builder.fresh
    BY <1>5, InHands DEF CallbackBegin, object, runs, bounds
  <2> QED
    BY <2>1 DEF Lists, Redis
<1>6. CASE AddMessage
  <2>1. PICK b \in Object, m \in Message : b = builder.obj /\ m = builder.msg
    BY <1>6, InHands DEF AddMessage
  <2>2. /\ UNCHANGED <<run, faults>> /\ builder.at # "idle"
        /\ builder'.obj = b /\ builder'.fresh = builder.fresh
        /\ Range(messages'[b]) = Range(messages[b]) \cup {m}
        /\ \A o \in Object \ {b} : messages'[o] = messages[o]
        /\ late \subseteq late'
        /\ run[b] \in Finishing \cup {"done"} => m \in late'
    <3>1. /\ UNCHANGED <<run, faults>> /\ builder.at # "idle"
          /\ builder' = [builder EXCEPT !.at = "save"]
          /\ messages' = [messages EXCEPT ![b] = Append(@, m)]
      BY <1>6, <2>1 DEF AddMessage, runs, bounds
    <3>2. builder'.obj = b /\ builder'.fresh = builder.fresh
      BY <2>1, <3>1, InHands
    <3>3. /\ Range(messages'[b]) = Range(messages[b]) \cup {m}
          /\ \A o \in Object \ {b} : messages'[o] = messages[o]
      BY <3>1, RangeAppend, WholeTypes
    <3>4. late' = IF run[b] \in Finishing \cup {"done"} THEN late \cup {m} ELSE late
      BY <1>6, <2>1 DEF AddMessage, Refresh
    <3> QED
      BY <3>1, <3>2, <3>3, <3>4
  <2>3. run[b] = "none" => Redis \/ builder.fresh
    BY <2>1, <2>2 DEF Lists
  <2> QED
    BY <2>1, <2>2, <2>3 DEF Lists, Redis
<1>7. CASE SaveObject
  <2>1. /\ UNCHANGED <<messages, late>> /\ builder.at # "idle" /\ builder'.at = "idle"
        /\ \/ UNCHANGED faults
              /\ run' = IF builder.fresh THEN [run EXCEPT ![builder.obj] = "idle"] ELSE run
           \/ UNCHANGED run /\ Redis'
    BY <1>7, FailedWrite DEF SaveObject, Write, object, Idle
  <2>2. CASE UNCHANGED run /\ Redis'
    BY <2>1, <2>2 DEF Lists
  <2>3. CASE UNCHANGED faults /\ ~builder.fresh /\ UNCHANGED run
    BY <2>1, <2>3 DEF Lists, Redis
  <2>4. CASE UNCHANGED faults /\ builder.fresh /\ run' = [run EXCEPT ![builder.obj] = "idle"]
    BY <2>1, <2>4, Known DEF Lists, Redis, Finishing
  <2> QED
    BY <2>1, <2>2, <2>3, <2>4
<1>8. ASSUME NEW o \in Object, Run(o) PROVE Lists'
  <2>1. UNCHANGED <<builder, late>> /\ (Redis => Redis') /\ \A p \in Object \ {o} :
          run'[p] = run[p] /\ messages'[p] = messages[p]
    <3>1. CASE \/ CopyMessages(o) \/ ServeMessage(o) \/ CheckExpired(o) \/ Convert(o)
               \/ Unregister(o) \/ CallbackEnd(o) \/ Cleanup(o)
      BY <3>1, Known, FailedWrite
         DEF CopyMessages, ServeMessage, CheckExpired, Convert, Unregister, CallbackEnd, Cleanup,
             object, bounds, FaultKind
    <3>2. CASE SaveRound(o) \/ FinishArtifact(o) \/ DeleteObject(o)
      BY <3>2, Known, FailedWrite DEF SaveRound, FinishArtifact, DeleteObject, Write, object
    <3>3. CASE ServeFails(o)
      BY <3>3, WholeTypes, FailedWrite DEF ServeFails, RemoveMessage, NextMessage, FaultKind
    <3>4. CASE SaveServed(o)
      BY <3>4, WholeTypes, FailedWrite DEF SaveServed, RemoveMessage, NextMessage, Write
    <3> QED
      BY <1>8, <3>1, <3>2, <3>3, <3>4 DEF Run
  <2>2. run'[o] # "none" /\ run[o] # "none"
    BY <1>8, Known DEF Run, CopyMessages, ServeMessage, ServeFails, SaveServed, SaveRound,
       CheckExpired, Convert, Unregister, CallbackEnd, FinishArtifact, DeleteObject, Cleanup,
       NextMessage, Write
  <2>3. run'[o] \in Finishing \cup {"done"} => Range(messages'[o]) \subseteq late
    <3>1. CASE \/ CopyMessages(o) \/ ServeMessage(o) \/ ServeFails(o) \/ SaveServed(o)
               \/ SaveRound(o)
      BY <3>1, Known DEF CopyMessages, ServeMessage, ServeFails, SaveServed, SaveRound,
                         NextMessage, Write, Finishing
    <3>2. CASE CheckExpired(o)
      BY <3>2, Known DEF CheckExpired, Finishing, object, Range
    <3>3. CASE Convert(o) \/ Unregister(o) \/ CallbackEnd(o) \/ Cleanup(o)
      BY <3>3 DEF Convert, Unregister, CallbackEnd, Cleanup, Lists, Finishing, object
    <3>4. CASE FinishArtifact(o) \/ DeleteObject(o)
      BY <3>4 DEF FinishArtifact, DeleteObject, Lists, Finishing, object
    <3> QED
      BY <1>8, <3>1, <3>2, <3>3, <3>4 DEF Run
  <2>4. \A p \in Object : run'[p] = "none" => p # o /\ run[p] = "none"
    BY <2>1, <2>2
  <2>5. builder.at # "idle" => builder.obj \in Object
    BY Known
  <2>6. builder.at # "idle" /\ ~builder.fresh => run'[builder.obj] # "none" \/ Redis'
    BY <2>1, <2>2, <2>5 DEF Lists
  <2>7. \A p \in Object \ {o} :
          run'[p] \in Finishing \cup {"done"} => Range(messages'[p]) \subseteq late
    BY <2>1 DEF Lists
  <2> QED
    BY <2>1, <2>3, <2>4, <2>6, <2>7 DEF Lists
<1>9. ASSUME NEW o \in Object, Age(o) PROVE Lists'
  BY <1>1, <1>9 DEF Age, runs, bounds
<1>10. CASE Crash
  BY <1>10 DEF Crash, Lists, Idle, Range, Finishing
<1>11. CASE UNCHANGED vars
  BY <1>1, <1>11 DEF vars, object, runs, bounds
<1> QED
  BY <1>2, <1>3, <1>4, <1>5, <1>6, <1>7, <1>8, <1>9, <1>10, <1>11 DEF Next, Builder

--------------------------------------------------------------------------------
\* The copies.

\* The copies are those of the messages to come, of the lists, but for objects that
\* ended, and of messages given up.
Copies ==
    /\ Copied \subseteq tmp
    /\ \A o \in Object : run[o] # "done" => Pending(o) \subseteq tmp
    /\ \A m \in tmp : m \in Copied \cup gone \/ \E o \in Object : m \in Pending(o)

\* There are no copies at first.
LEMMA InitCopies == Init => Copies
  BY DEF Init, Copies, Copied, Pending, InBuilder, Idle, IdleCopier, Range

\* The copier.
LEMMA CopierCopies ==
    ASSUME TypeOK, Copies, OnAccidentAdded \/ Copier
    PROVE  Copies'
<1>1. UNCHANGED <<run, messages, recorded, builder>>
  BY DEF OnAccidentAdded, Copier, ReceiveMsg, CopyFile, StatSource, SendTs, object, runs, disk
<1>2. /\ InBuilder' = InBuilder
      /\ \A o \in Object : Pending(o)' = Pending(o)
  BY <1>1 DEF InBuilder, Pending
<1>3. CASE OnAccidentAdded \/ ReceiveMsg
  <2>1. UNCHANGED <<tmp, gone>> /\ Copied' = Copied
    BY <1>2, <1>3 DEF OnAccidentAdded, ReceiveMsg, Copied, disk
  <2> QED
    BY <1>1, <1>2, <2>1 DEF Copies
<1>4. CASE CopyFile
  <2>1. \/ /\ tmp' = tmp \cup {copier.msg} /\ gone' = gone
           /\ Copied' = Copied \cup {copier.msg}
        \/ /\ tmp \subseteq tmp' /\ tmp' \subseteq tmp \cup {copier.msg}
           /\ gone' = gone \cup {copier.msg} /\ Copied' = Copied
    BY <1>2, <1>4, InHands DEF CopyFile, GiveUp, Copied, channels, IdleCopier
  <2> QED
    BY <1>1, <1>2, <2>1 DEF Copies
<1>5. CASE StatSource
  <2>1. /\ UNCHANGED tmp
        /\ \/ UNCHANGED gone /\ Copied' = Copied
           \/ /\ gone' = gone \cup {copier.msg}
              /\ Copied \subseteq Copied' \cup {copier.msg} /\ Copied' \subseteq Copied
    BY <1>2, <1>5, InHands DEF StatSource, GiveUp, Copied, channels, disk, IdleCopier
  <2> QED
    BY <1>1, <1>2, <2>1 DEF Copies
<1>6. CASE SendTs
  <2>1. Range(tsfiles') = Range(tsfiles) \cup {copier.msg}
    BY <1>6, InHands, RangeAppend DEF SendTs, TypeOK, ChannelTypes
  <2>2. UNCHANGED <<tmp, gone>> /\ Copied' = Copied
    BY <1>2, <1>6, <2>1 DEF SendTs, Copied, disk, IdleCopier
  <2> QED
    BY <1>1, <1>2, <2>2 DEF Copies
<1> QED
  BY <1>3, <1>4, <1>5, <1>6 DEF Copier

\* The builder.
LEMMA BuilderCopies ==
    ASSUME TypeOK, Registry, Account, Copies, Builder
    PROVE  Copies'
<1>1. /\ UNCHANGED <<tmp, recorded, copier>>
      /\ \A o \in Object : run'[o] # "done" => run[o] # "done"
  <2>1. CASE SaveObject
    <3>1. builder.fresh => run[builder.obj] = "none"
      BY DEF Registry
    <3> QED
      BY <2>1, <3>1, Known DEF SaveObject, Write, disk
  <2>2. CASE LoadOrStore \/ Initialize \/ CallbackBegin \/ AddMessage
    BY <2>2 DEF LoadOrStore, Initialize, CallbackBegin, AddMessage, runs, disk
  <2> QED
    BY <2>1, <2>2 DEF Builder
<1>2. ASSUME UNCHANGED messages PROVE \A o \in Object : Pending(o)' = Pending(o)
  BY <1>1, <1>2 DEF Pending
<1>3. CASE LoadOrStore
  <2>1. /\ tsfiles # <<>> /\ tsfiles' = Tail(tsfiles) /\ UNCHANGED <<messages, gone>>
        /\ builder.at = "idle" /\ builder'.at \in {"add", "init"}
        /\ builder'.msg = Head(tsfiles)
    BY <1>3 DEF LoadOrStore, object
  <2>2. Range(tsfiles) = {Head(tsfiles)} \cup Range(tsfiles')
    BY <2>1, RangeHead DEF TypeOK, ChannelTypes
  <2>3. InBuilder = {} /\ InBuilder' = {Head(tsfiles)}
    BY <2>1 DEF InBuilder
  <2>4. Copied' = Copied
    BY <1>1, <2>2, <2>3 DEF Copied
  <2> QED
    BY <1>1, <1>2, <2>1, <2>4 DEF Copies
<1>4. CASE Initialize \/ CallbackBegin \/ SaveObject
  <2>1. UNCHANGED <<tsfiles, messages>>
    BY <1>4 DEF Initialize, CallbackBegin, SaveObject, channels, object
  <2>2. \/ InBuilder' = InBuilder /\ gone' = gone
        \/ InBuilder = {builder.msg} /\ InBuilder' = {} /\ gone' = gone \cup {builder.msg}
    <3>1. CASE Initialize
      BY <3>1, InHands DEF Initialize, Write, GiveUp, InBuilder, Idle
    <3>2. CASE CallbackBegin
      BY <3>2, InHands DEF CallbackBegin, InBuilder
    <3>3. CASE SaveObject
      BY <3>3 DEF SaveObject, InBuilder, Idle
    <3> QED
      BY <1>4, <3>1, <3>2, <3>3
  <2>3. CASE InBuilder' = InBuilder /\ gone' = gone
    BY <1>1, <1>2, <2>1, <2>3 DEF Copied, Copies
  <2>4. CASE InBuilder = {builder.msg} /\ InBuilder' = {} /\ gone' = gone \cup {builder.msg}
    <3>1. Copied' \subseteq Copied /\ Copied \subseteq Copied' \cup {builder.msg}
      BY <1>1, <2>1, <2>4 DEF Copied
    <3> QED
      BY <1>1, <1>2, <2>1, <2>4, <3>1 DEF Copies
  <2> QED
    BY <2>2, <2>3, <2>4
<1>5. CASE AddMessage
  <2>1. PICK m \in Message, b \in Object :
          m = builder.msg /\ b = builder.obj /\ InBuilder = {m}
    BY <1>5, InHands DEF AddMessage, InBuilder
  <2>2. /\ UNCHANGED <<tsfiles, gone, run>> /\ InBuilder' = {}
        /\ messages' = [messages EXCEPT ![b] = Append(@, m)]
    BY <1>5, <2>1, InHands DEF AddMessage, channels, runs, InBuilder
  <2>3. /\ Range(messages'[b]) = Range(messages[b]) \cup {m}
        /\ \A o \in Object \ {b} : messages'[o] = messages[o]
    BY <2>1, <2>2, RangeAppend, WholeTypes
  <2>4. m \in Waiting /\ m \notin recorded[b]
    BY <2>1 DEF Account, Waiting, Held
  <2>5. /\ Pending(b)' = Pending(b) \cup {m}
        /\ \A o \in Object \ {b} : Pending(o)' = Pending(o)
    BY <1>1, <2>3, <2>4 DEF Pending
  <2>6. Copied' \subseteq Copied /\ Copied \subseteq Copied' \cup {m} /\ m \in Copied
    BY <1>1, <2>1, <2>2 DEF Copied
  <2> QED
    BY <1>1, <2>2, <2>5, <2>6 DEF Copies
<1> QED
  BY <1>3, <1>4, <1>5 DEF Builder

\* The Run goroutine.
LEMMA RunCopies ==
    ASSUME TypeOK, BatchIsNext, Cut, Artifacts, MovedFirst, Account, Copies,
           NEW o \in Object, Run(o)
    PROVE  Copies'
<1>1. Copied' = Copied
  BY RunLeaves DEF Copied, InBuilder
<1>2. \A p \in Object \ {o} : run'[p] = run[p]
  BY Known DEF Run, CopyMessages, ServeMessage, ServeFails, SaveServed, SaveRound,
     CheckExpired, Convert, Unregister, CallbackEnd, FinishArtifact, DeleteObject, Cleanup,
     Goto, NextMessage, Write
<1>3. run[o] # "done"
  BY DEF Run, CopyMessages, ServeMessage, ServeFails, SaveServed, SaveRound,
     CheckExpired, Convert, Unregister, CallbackEnd, FinishArtifact, DeleteObject, Cleanup
<1>4. ASSUME NEW m, m \in Held(o)
      PROVE  m \notin Copied /\ m \notin gone /\ \A p \in Object \ {o} : m \notin Pending(p)
  <2>1. m \notin Waiting /\ m \notin gone /\ \A p \in Object \ {o} : m \notin Held(p)
    BY <1>4 DEF Account
  <2>2. copier.at \in {"stat", "send"} => copier.msg \in InHand
    BY InHands DEF InHand, Message, None
  <2> QED
    BY <2>1, <2>2 DEF Waiting, Copied, Pending, Held
<1>5. CASE ServeMessage(o)
  <2>1. PICK m \in Message : m = Head(batch[o]) /\ m = Head(messages[o]) /\ messages[o] # <<>>
    BY <1>5, Served DEF ServeMessage
  <2>2. /\ UNCHANGED <<messages, gone>> /\ tmp' = tmp \ {m}
        /\ recorded' = [recorded EXCEPT ![o] = @ \cup {m}]
    BY <1>5, <2>1 DEF ServeMessage, object
  <2>3. m \in Held(o)
    BY <2>1, RangeTail, WholeTypes DEF Held
  <2>4. /\ Pending(o)' = Pending(o) \ {m}
        /\ \A p \in Object \ {o} : Pending(p)' = Pending(p)
    BY <2>2, WholeTypes DEF Pending
  <2> QED
    BY <1>1, <1>2, <1>3, <1>4, <2>2, <2>3, <2>4 DEF Copies
<1>6. CASE ServeFails(o) \/ SaveServed(o)
  <2>1. PICK m \in Message :
          /\ m = Head(batch[o]) /\ m = Head(messages[o]) /\ messages[o] # <<>>
          /\ RemoveFirst(messages[o], m) = Tail(messages[o])
    BY <1>6, Served DEF ServeFails, SaveServed
  <2>2. /\ UNCHANGED <<recorded, tmp>> /\ messages'[o] = Tail(messages[o])
        /\ \A p \in Object \ {o} : messages'[p] = messages[p]
    <3>1. CASE ServeFails(o)
      BY <2>1, <3>1, WholeTypes DEF ServeFails, RemoveMessage, disk
    <3>2. CASE SaveServed(o)
      BY <2>1, <3>2, WholeTypes DEF SaveServed, RemoveMessage, disk
    <3> QED
      BY <1>6, <3>1, <3>2
  <2>3. Range(messages'[o]) = Range(messages[o]) \ {m}
    BY <2>1, <2>2, RangeHead, WholeTypes DEF Cut, Sorted
  <2>4. /\ Pending(o)' = Pending(o) \ {m}
        /\ \A p \in Object \ {o} : Pending(p)' = Pending(p)
    BY <2>2, <2>3 DEF Pending
  <2>5. \/ gone' = gone \cup {m}
        \/ gone' = gone /\ m \notin Pending(o)
    <3>1. CASE ServeFails(o)
      BY <2>1, <3>1 DEF ServeFails, GiveUp
    <3>2. CASE SaveServed(o)
      BY <2>1, <3>2 DEF SaveServed, MovedFirst, Pending
    <3> QED
      BY <1>6, <3>1, <3>2
  <2> QED
    BY <1>1, <1>2, <1>3, <2>2, <2>4, <2>5 DEF Copies
<1>7. CASE \/ CopyMessages(o) \/ SaveRound(o) \/ CheckExpired(o) \/ Convert(o) \/ Unregister(o)
           \/ CallbackEnd(o) \/ FinishArtifact(o) \/ DeleteObject(o)
  <2>1. UNCHANGED <<messages, recorded, gone, tmp>>
    BY <1>7 DEF CopyMessages, SaveRound, CheckExpired, Convert, Unregister, CallbackEnd,
                FinishArtifact, DeleteObject, object, disk
  <2>2. \A p \in Object : Pending(p)' = Pending(p)
    BY <2>1 DEF Pending
  <2> QED
    BY <1>1, <1>2, <1>3, <2>1, <2>2 DEF Copies
<1>8. CASE Cleanup(o)
  <2>1. /\ UNCHANGED <<messages, recorded, gone>> /\ tmp' = tmp \ Range(messages[o])
        /\ run'[o] = "done"
    BY <1>8, Known DEF Cleanup, Goto, object
  <2>2. \A p \in Object : Pending(p)' = Pending(p)
    BY <2>1 DEF Pending
  <2>3. \A m \in Range(messages[o]) : m \in Held(o)
    BY DEF Held
  <2> QED
    BY <1>1, <1>2, <1>4, <2>1, <2>2, <2>3 DEF Copies
<1> QED
  BY <1>5, <1>6, <1>7, <1>8 DEF Run

\* No step loses a copy that is needed, or leaves one that belongs to nobody.
LEMMA CopiesStep ==
    /\ IInv /\ Cut /\ Artifacts /\ MovedFirst /\ Account /\ Copies
    /\ [Next]_vars
    => Copies'
<1> SUFFICES ASSUME IInv, Cut, Artifacts, MovedFirst, Account, Copies, [Next]_vars
             PROVE  Copies'
  OBVIOUS
<1>1. TypeOK /\ BatchIsNext /\ Registry
  BY DEF IInv
<1>2. CASE OnAccidentAdded \/ Copier
  BY <1>1, <1>2, CopierCopies
<1>3. CASE Builder
  BY <1>1, <1>3, BuilderCopies
<1>4. ASSUME NEW o \in Object, Run(o) PROVE Copies'
  BY <1>1, <1>4, RunCopies
<1>5. CASE UNCHANGED vars \/ \E o \in Object : Age(o)
  <2>1. UNCHANGED <<tsfiles, copier, builder, run, messages, disk, gone>>
    BY <1>5 DEF Age, vars, channels, object, runs
  <2> QED
    BY <2>1 DEF Copies, Copied, InBuilder, Pending, disk
<1>6. CASE Crash
  <2>1. tmp' = tmp /\ gone \subseteq gone' /\ Copied' = {} /\ \A o \in Object : Pending(o)' = {}
    BY <1>6 DEF Crash, Copied, InBuilder, Pending, Idle, IdleCopier, Range, disk
  <2>2. copier.at \in {"stat", "send"} => copier.msg \in InHand
    BY <1>1, InHands DEF InHand, Message, None
  <2>3. Copied \subseteq gone'
    BY <1>6, <2>2 DEF Crash, Copied
  <2>4. \A o \in Object : Pending(o) \subseteq gone'
    BY <1>6 DEF Crash, Pending
  <2> QED
    BY <2>1, <2>3, <2>4 DEF Copies
<1> QED
  BY <1>2, <1>3, <1>4, <1>5, <1>6 DEF Next

--------------------------------------------------------------------------------
\* The theorems.

\* All parts of the invariant together.
AllInv == IInv /\ Cut /\ Artifacts /\ MovedFirst /\ Account /\ Lists /\ Copies

\* They are an invariant of the specification.
LEMMA Invariance == Spec => []AllInv
<1>1. Init => AllInv
  BY InitInv, InitCut, InitArtifacts, InitAccount, InitLists, InitCopies DEF AllInv
<1>2. AllInv /\ [Next]_vars => AllInv'
  BY TypeStep, BatchStep, OrderStep, RegistryStep, CutStep, ArtifactsStep, MovedFirstStep,
     AccountStep, ListsStep, CopiesStep
     DEF AllInv, IInv
<1> QED
  BY <1>1, <1>2, PTL DEF Spec

\* Every reachable state has its type; in particular no message makes two objects, and
\* a Run goroutine always has a message where its step uses one.
THEOREM AccidentTypeCorrect == Spec => []TypeOK
  BY Invariance, PTL DEF AllInv, IInv

\* One recorder for the URL, although the old object leaves the map before its Run
\* goroutine ends and a failed conversion records again (accident.go:598, 603).
THEOREM OneRecorderAtATime == Spec => []OneRecorder
<1>1. IInv => OneRecorder
  BY DEF IInv, Registry, Live, OneRecorder
<1> QED
  BY Invariance, <1>1, PTL DEF AllInv

\* The registered object is served unless redis failed (accident.go:227, 240).
THEOREM RegisteredObjectIsServed == Spec => []RegisteredIsServed
<1>1. IInv => RegisteredIsServed
  BY Known DEF IInv, Registry, Live, Redis, RegisteredIsServed, Finishing
<1> QED
  BY Invariance, <1>1, PTL DEF AllInv

\* The object that records has the redis record, unless redis failed or an older one
\* was still ending when it was created (accident.go:248, 344).
THEOREM RecorderIsSaved == Spec => []SavedUnlessOvertaken
<1>1. IInv => SavedUnlessOvertaken
  BY DEF IInv, Saved, Live, Redis, SavedUnlessOvertaken
<1> QED
  BY Invariance, <1>1, PTL DEF AllInv

\* The videos, in the order of their objects, play every file in the order the accidents
\* were reported, across conversions that fail and restarts (accident.go:603).
THEOREM VideosPlayInOrder == Spec => []VideosInOrder
<1>1. TypeOK /\ Cut => VideosInOrder
  <2> SUFFICES ASSUME TypeOK, Cut, NEW o \in Object, NEW p \in Object,
                      NEW i \in 1..Len(mp4[o]), NEW j \in 1..Len(mp4[p]),
                      o < p \/ (o = p /\ i < j)
               PROVE  mp4[o][i] < mp4[p][j]
    BY DEF VideosInOrder
  <2>1. mp4[o][i] \in Of(o) /\ mp4[p][j] \in Of(p)
    BY CutTypes DEF Of, Range
  <2> QED
    BY <2>1 DEF Cut, Sorted, Increasing
<1> QED
  BY Invariance, <1>1, PTL DEF AllInv, IInv

\* Every reported accident is in one place: on its way, in one object's list or recording,
\* or given up with an error, through failures, overlapping goroutines and restarts; only
\* what comes after an object began to finish is lost in its list, and the copies are
\* those of these messages (accident.go:152, 397, 413, 547, 620).
THEOREM MessagesAccounted == Spec => []Accounted
<1>1. AllInv => Accounted
  <2> SUFFICES ASSUME AllInv PROVE Accounted
    OBVIOUS
  <2>1. \A o \in Object : Pending(o) \cup recorded[o] = Held(o)
    BY DEF Pending, Held
  <2>2. 1..added = Waiting \cup gone \cup UNION {Pending(o) \cup recorded[o] : o \in Object}
    BY <2>1 DEF AllInv, Account
  <2>3. \A o \in Object :
          \/ Pending(o) = {} \/ IsServed(o)
          \/ IF run[o] = "none" THEN faults["redis"] > 0 ELSE Pending(o) \subseteq late
    <3> SUFFICES ASSUME NEW o \in Object, Pending(o) # {}, ~IsServed(o)
                 PROVE  IF run[o] = "none" THEN faults["redis"] > 0 ELSE Pending(o) \subseteq late
      OBVIOUS
    <3>1. messages[o] # <<>> /\ Pending(o) \subseteq Range(messages[o])
      BY DEF Pending, Range
    <3>2. run[o] \in {"none", "done"} \cup Finishing
      BY Known DEF AllInv, IInv, IsServed
    <3> QED
      BY <3>1, <3>2 DEF AllInv, Lists, IsServed, Redis, Finishing
  <2>4. /\ Copied \cup UNION {Pending(o) : o \in {p \in Object : run[p] # "done"}} \subseteq tmp
        /\ tmp \subseteq Copied \cup gone \cup UNION {Pending(o) : o \in Object}
    BY DEF AllInv, Copies
  <2>5. /\ \A o, p \in Object :
             o # p => (Pending(o) \cup recorded[o]) \cap (Pending(p) \cup recorded[p]) = {}
        /\ \A o \in Object : (Pending(o) \cup recorded[o]) \cap (Waiting \cup gone) = {}
    BY <2>1 DEF AllInv, Account
  <2> QED
    BY <2>2, <2>3, <2>4, <2>5 DEF Accounted
<1> QED
  BY Invariance, <1>1, PTL

\* A recording that redis shows as finished has a video of all files in its directory,
\* whatever comes while it is converted and wherever the program stops (accident.go:389, 578).
THEOREM FinishedIsComplete == Spec => []FinishedArtifactComplete
<1>1. Artifacts => FinishedArtifactComplete
  BY DEF Artifacts, Whole, FinishedArtifactComplete
<1> QED
  BY Invariance, <1>1, PTL DEF AllInv
================================================================================
