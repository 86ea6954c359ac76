--------------------------- MODULE DetectWorkerProofs ---------------------------
(***************************************************************************)
(* Theorems about DetectWorker, for any streams, capacities and numbers of *)
(* files.                                                                  *)
(*                                                                         *)
(* The invariant speaks of three lines of files: Coming (announced, not    *)
(* yet handed over), senders (waiting, in no order) and Sent (from tsfiles *)
(* to the task).  Each step of the code is a Move of at most one file from *)
(* a line to the next, or out of them; that every file is in one place and *)
(* that order is lost only among senders is then proved about the moves.   *)
(***************************************************************************)
EXTENDS DetectWorker, SequenceTheorems, FiniteSetTheorems, TLAPS

\* The router feeds a worker that is in the map.
Fed == router.at = "feed" => workers[router.msg.stream] # "none"

\* Each part of the type on its own.
Counts == hooked \in [Stream -> 0..MaxTs] /\ cancelled \in BOOLEAN
History == senders \subseteq Ts /\ gone \subseteq Ts /\ late \subseteq Ts
Channels ==
    /\ msgs \in Seq(Ts) /\ tsfiles \in Seq(Ts)
    /\ Len(msgs) <= Cap /\ Len(tsfiles) <= Cap
CopierType == copier \in {Idle, Ended} \cup [at : {"copy", "stat"}, msg : Ts]
RouterType == router \in {Idle, Ended} \cup [at : {"create", "feed"}, msg : Ts]
Queues ==
    /\ workers \in [Stream -> {"none", "stored", "running", "stopped"}]
    /\ queue \in [Stream -> Seq(Ts)] /\ entered \in [Stream -> Seq(Ts)]
    /\ \A s \in Stream :
         /\ Len(queue[s]) <= WorkerCap
         /\ workers[s] = "none" => queue[s] = <<>> /\ entered[s] = <<>>

Parts == Counts /\ History /\ Channels /\ CopierType /\ RouterType /\ Queues

\* The parts make up the type.
LEMMA TypeParts == TypeOK <=> Parts
  BY DEF TypeOK, Parts, Counts, History, Channels, CopierType, RouterType, Queues

\* What a step leaves alone keeps its type.
LEMMA Unchanged ==
    ASSUME Parts, Fed
    PROVE  /\ UNCHANGED <<hooked, cancelled>> => Counts'
           /\ UNCHANGED <<senders, gone, late>> => History'
           /\ UNCHANGED <<msgs, tsfiles>> => Channels'
           /\ UNCHANGED copier => CopierType'
           /\ UNCHANGED router => RouterType'
           /\ UNCHANGED <<workers, queue, entered>> => Queues'
           /\ UNCHANGED <<router, workers>> => Fed'
<1>1. UNCHANGED <<hooked, cancelled>> => Counts'
  BY DEF Parts, Counts
<1>2. UNCHANGED <<senders, gone, late>> => History'
  BY DEF Parts, History
<1>3. UNCHANGED <<msgs, tsfiles>> => Channels'
  BY DEF Parts, Channels
<1>4. UNCHANGED copier => CopierType'
  BY DEF Parts, CopierType
<1>5. UNCHANGED router => RouterType'
  BY DEF Parts, RouterType
<1>6. UNCHANGED <<workers, queue, entered>> => Queues'
  BY DEF Parts, Queues
<1>7. UNCHANGED <<router, workers>> => Fed'
  BY DEF Fed
<1> QED
  BY <1>1, <1>2, <1>3, <1>4, <1>5, <1>6, <1>7

\* A busy goroutine has a file in its hands.
LEMMA InHands ==
    ASSUME Parts
    PROVE  /\ copier.at \in {"copy", "stat"} => copier.msg \in Ts
           /\ router.at \in {"create", "feed"} =>
                /\ router.msg \in Ts /\ router.msg.stream \in Stream
                /\ router' = [router EXCEPT !.at = "feed"] =>
                     router'.at = "feed" /\ router'.msg = router.msg
  BY DEF Parts, CopierType, RouterType, Idle, Ended, Ts

\* All channels are empty at first, and no worker is in the map.
LEMMA InitParts == Init => Parts /\ Fed
<1> SUFFICES ASSUME Init PROVE Parts /\ Fed
  OBVIOUS
<1>1. Counts /\ History
  <2>1. 0 \in 0..MaxTs
    BY DetectAssumption DEF DetectAssumption
  <2> QED
    BY <2>1 DEF Init, Counts, History
<1>2. Channels
  BY DetectAssumption DEF DetectAssumption, Init, Channels
<1>3. CopierType /\ RouterType /\ Fed
  BY DEF Init, CopierType, RouterType, Fed, Idle
<1>4. Queues
  BY DetectAssumption DEF DetectAssumption, Init, Queues
<1> QED
  BY <1>1, <1>2, <1>3, <1>4 DEF Parts

\* The hook and the copier keep the type.
LEMMA CopierStep ==
    ASSUME Parts, Fed, Copier \/ \E s \in Stream : OnHlsTsMessage(s)
    PROVE  Parts' /\ Fed'
<1>1. ASSUME NEW s \in Stream, OnHlsTsMessage(s) PROVE Parts' /\ Fed'
  <2>1. hooked[s] + 1 \in 1..MaxTs
    BY <1>1, DetectAssumption DEF DetectAssumption, OnHlsTsMessage, Parts, Counts
  <2>2. [stream |-> s, seq |-> hooked[s] + 1] \in Ts
    BY <2>1 DEF Ts
  <2>3. Counts'
    BY <1>1, <2>1 DEF OnHlsTsMessage, Parts, Counts
  <2>4. Channels'
    <3>1. \/ Len(msgs) < Cap /\ msgs' = Append(msgs, [stream |-> s, seq |-> hooked[s] + 1])
          \/ msgs' = msgs
      BY <1>1 DEF OnHlsTsMessage
    <3>2. tsfiles' = tsfiles
      BY <1>1 DEF OnHlsTsMessage
    <3> QED
      BY <2>2, <3>1, <3>2, DetectAssumption DEF DetectAssumption, Parts, Channels
  <2>5. History'
    BY <1>1, <2>2 DEF OnHlsTsMessage, GiveUp, Parts, History
  <2> QED
    BY <1>1, <2>3, <2>4, <2>5, Unchanged DEF OnHlsTsMessage, Parts
<1>2. CASE TakeMsg
  <2>1. Head(msgs) \in Ts /\ Channels'
    BY <1>2, DetectAssumption DEF DetectAssumption, TakeMsg, Parts, Channels
  <2>2. CopierType'
    BY <1>2, <2>1 DEF TakeMsg, At, CopierType
  <2> QED
    BY <1>2, <2>1, <2>2, Unchanged DEF TakeMsg, Parts
<1>3. CASE Copy
  <2>1. CopierType'
    BY <1>3, InHands DEF Copy, At, CopierType
  <2>2. History'
    BY <1>3, InHands DEF Copy, GiveUp, Parts, History
  <2> QED
    BY <1>3, <2>1, <2>2, Unchanged DEF Copy, Parts
<1>4. CASE StatAndGo
  <2>1. CopierType' /\ History'
    BY <1>4, InHands DEF StatAndGo, GiveUp, Parts, CopierType, History
  <2> QED
    BY <1>4, <2>1, Unchanged DEF StatAndGo, Parts
<1>5. CASE EndCopier
  <2>1. CopierType'
    BY <1>5 DEF EndCopier, CopierType
  <2> QED
    BY <1>5, <2>1, Unchanged DEF EndCopier, Parts
<1> QED
  BY <1>1, <1>2, <1>3, <1>4, <1>5 DEF Copier

\* The router keeps the type, and feeds only a worker that it found or created.
LEMMA RouterStep ==
    ASSUME Parts, Fed, Router
    PROVE  Parts' /\ Fed'
<1>1. CASE TakeTs
  <2>1. Head(tsfiles) \in Ts /\ Channels'
    BY <1>1, DetectAssumption DEF DetectAssumption, TakeTs, Parts, Channels
  <2>2. RouterType' /\ Fed'
    BY <1>1, <2>1 DEF TakeTs, At, RouterType, Fed
  <2> QED
    BY <1>1, <2>1, <2>2, Unchanged DEF TakeTs, Parts
<1>2. CASE CreateWorker
  <2>1. RouterType'
    BY <1>2 DEF CreateWorker, Parts, RouterType, Idle, Ended
  <2>2. Queues' /\ Fed'
    BY <1>2, InHands DEF CreateWorker, Parts, Queues, Fed
  <2> QED
    BY <1>2, <2>1, <2>2, Unchanged DEF CreateWorker, Parts
<1>3. CASE Feed
  <2>1. RouterType' /\ Fed'
    BY <1>3 DEF Feed, RouterType, Fed, Idle
  <2>2. History'
    BY <1>3, InHands DEF Feed, GiveUp, Parts, History
  <2>3. Queues'
    <3>1. PICK m \in Ts, s \in Stream :
            /\ m = router.msg /\ s = m.stream /\ workers[s] # "none"
            /\ UNCHANGED <<workers, entered>>
            /\ \/ queue' = queue
               \/ Len(queue[s]) < WorkerCap /\ queue' = [queue EXCEPT ![s] = Append(@, m)]
      BY <1>3, InHands DEF Feed, Fed
    <3> QED
      <4>1. queue' = queue => Queues'
        BY <3>1 DEF Parts, Queues
      <4>2. ASSUME Len(queue[s]) < WorkerCap, queue' = [queue EXCEPT ![s] = Append(@, m)]
            PROVE  Queues'
        <5>1. queue[s] \in Seq(Ts) /\ Append(queue[s], m) \in Seq(Ts)
              /\ Len(Append(queue[s], m)) <= WorkerCap
          BY <3>1, <4>2, DetectAssumption DEF DetectAssumption, Parts, Queues
        <5>2. /\ queue' \in [Stream -> Seq(Ts)] /\ queue'[s] = Append(queue[s], m)
              /\ \A t \in Stream \ {s} : queue'[t] = queue[t]
          BY <4>2, <5>1 DEF Parts, Queues
        <5> QED
          BY <3>1, <5>1, <5>2 DEF Parts, Queues
      <4> QED
        BY <3>1, <4>1, <4>2
  <2> QED
    BY <1>3, <2>1, <2>2, <2>3, Unchanged DEF Feed, Parts
<1>4. CASE EndRouter
  <2>1. RouterType' /\ Fed'
    BY <1>4 DEF EndRouter, RouterType, Fed, Ended
  <2> QED
    BY <1>4, <2>1, Unchanged DEF EndRouter, Parts
<1> QED
  BY <1>1, <1>2, <1>3, <1>4 DEF Router

\* So do the hand-over goroutines, the workers and the cancel.
LEMMA OtherStep ==
    ASSUME Parts, Fed,
           \/ \E m \in Ts : Send(m)
           \/ \E s \in Stream : Enter(s) \/ StopWorker(s)
           \/ Cancel \/ UNCHANGED vars
    PROVE  Parts' /\ Fed'
<1>1. ASSUME NEW m \in Ts, Send(m) PROVE Parts' /\ Fed'
  <2>1. Channels'
    BY <1>1, DetectAssumption DEF DetectAssumption, Send, Parts, Channels
  <2>2. History'
    BY <1>1 DEF Send, Older, GiveUp, Parts, History
  <2> QED
    BY <1>1, <2>1, <2>2, Unchanged DEF Send, Parts
<1>2. ASSUME NEW s \in Stream, Enter(s) PROVE Parts' /\ Fed'
  <2>1. Queues'
    BY <1>2, DetectAssumption DEF DetectAssumption, Enter, Parts, Queues
  <2> QED
    BY <1>2, <2>1, Unchanged DEF Enter, Parts
<1>3. ASSUME NEW s \in Stream, StopWorker(s) PROVE Parts' /\ Fed'
  <2>1. Queues' /\ Fed'
    BY <1>3, InHands DEF StopWorker, Parts, Queues, Fed
  <2> QED
    BY <1>3, <2>1, Unchanged DEF StopWorker, Parts
<1>4. CASE Cancel
  <2>1. Counts'
    BY <1>4 DEF Cancel, Parts, Counts
  <2> QED
    BY <1>4, <2>1, Unchanged DEF Cancel, Parts
<1>5. CASE UNCHANGED vars
  BY <1>5, Unchanged DEF vars, Parts
<1> QED
  BY <1>1, <1>2, <1>3, <1>4, <1>5

--------------------------------------------------------------------------------
\* Lemmas about sequences and about counting.

\* Handing the head of one sequence on to the end of another changes nothing.
LEMMA HandOn ==
    ASSUME NEW S, NEW a \in Seq(S), NEW b \in Seq(S), b # <<>>
    PROVE  /\ (a \o <<Head(b)>>) \o Tail(b) = a \o b
           /\ Append(a, Head(b)) \o Tail(b) = a \o b
           /\ <<Head(b)>> \o Tail(b) = b
<1>1. Head(b) \in S /\ Tail(b) \in Seq(S) /\ <<Head(b)>> \in Seq(S)
  BY HeadTailProperties
<1>2. <<Head(b)>> \o Tail(b) = b
  OBVIOUS
<1>3. (a \o <<Head(b)>>) \o Tail(b) = a \o (<<Head(b)>> \o Tail(b))
  BY <1>1, ConcatAssociative
<1>4. Append(a, Head(b)) = a \o <<Head(b)>>
  BY <1>1, AppendIsConcat
<1>. QED BY <1>2, <1>3, <1>4

\* Appending to the second sequence is appending to both.
LEMMA AppendRight ==
    ASSUME NEW S, NEW a \in Seq(S), NEW b \in Seq(S), NEW e \in S
    PROVE  /\ a \o Append(b, e) = Append(a \o b, e)
           /\ a \o Append(b, e) = (a \o b) \o <<e>>
<1>1. <<e>> \in Seq(S) /\ a \o b \in Seq(S)
  BY ConcatProperties
<1>2. a \o (b \o <<e>>) = (a \o b) \o <<e>>
  BY <1>1, ConcatAssociative
<1>3. Append(b, e) = b \o <<e>> /\ Append(a \o b, e) = (a \o b) \o <<e>>
  BY <1>1, AppendIsConcat
<1>. QED BY <1>2, <1>3

\* The places of an element are finitely many.
LEMMA CountType ==
    ASSUME NEW S, NEW q \in Seq(S), NEW m
    PROVE  /\ IsFiniteSet({i \in 1..Len(q) : q[i] = m}) /\ Count(q, m) \in Nat
           /\ Count(q, m) = 0 <=> \A i \in 1..Len(q) : q[i] # m
<1>1. IsFiniteSet(1..Len(q))
  BY LenProperties, FS_Interval
<1>2. IsFiniteSet({i \in 1..Len(q) : q[i] = m})
  BY <1>1, FS_Subset
<1>. QED BY <1>2, FS_CardinalityType, FS_EmptySet DEF Count

\* A concatenation has an element as often as its parts together.
LEMMA CountConcat ==
    ASSUME NEW S, NEW a \in Seq(S), NEW b \in Seq(S), NEW m
    PROVE  Count(a \o b, m) = Count(a, m) + Count(b, m)
<1>. DEFINE A == {i \in 1..Len(a) : a[i] = m}
            B == {i \in 1..Len(b) : b[i] = m}
            C == {i \in 1..Len(a \o b) : (a \o b)[i] = m}
            D == {i \in C : i > Len(a)}
            f == [i \in B |-> Len(a) + i]
<1>1. /\ Len(a) \in Nat /\ Len(b) \in Nat /\ a \o b \in Seq(S)
      /\ Len(a \o b) = Len(a) + Len(b)
      /\ \A i \in 1..Len(a) + Len(b) :
            (a \o b)[i] = IF i <= Len(a) THEN a[i] ELSE b[i - Len(a)]
  BY ConcatProperties
<1>2. /\ IsFiniteSet(A) /\ IsFiniteSet(B) /\ IsFiniteSet(C)
  BY <1>1, CountType
<1>3. IsFiniteSet(D)
  BY <1>2, FS_Subset
<1>4. C = A \cup D /\ A \cap D = {}
  <2>1. \A i \in 1..Len(a) : i \in 1..Len(a) + Len(b) /\ i <= Len(a) /\ ~(i > Len(a))
    BY <1>1
  <2>2. \A i \in 1..Len(a) + Len(b) : i \in 1..Len(a) \/ i > Len(a)
    BY <1>1
  <2>3. \A i \in 1..Len(a) : (a \o b)[i] = a[i]
    BY <1>1, <2>1
  <2>4. A \subseteq C
    BY <1>1, <2>1, <2>3
  <2>5. C \subseteq A \cup D
    BY <1>1, <2>2, <2>3
  <2>. QED BY <2>1, <2>4, <2>5
<1>5. f \in Bijection(B, D)
  <2>1. \A i \in B : /\ Len(a) + i \in 1..Len(a) + Len(b)
                     /\ Len(a) + i > Len(a) /\ (Len(a) + i) - Len(a) = i
    BY <1>1
  <2>2. \A i \in B : Len(a) + i \in D
    BY <1>1, <2>1
  <2>3. \A j \in D : j - Len(a) \in B /\ j = Len(a) + (j - Len(a))
    <3>1. \A j \in 1..Len(a) + Len(b) : j > Len(a) =>
             /\ j - Len(a) \in 1..Len(b) /\ j = Len(a) + (j - Len(a)) /\ ~(j <= Len(a))
      BY <1>1
    <3>. QED BY <1>1, <3>1
  <2>4. \A i, j \in B : Len(a) + i = Len(a) + j => i = j
    BY <1>1
  <2>. QED BY <2>2, <2>3, <2>4 DEF Bijection, Injection, Surjection, IsInjective
<1>6. Cardinality(D) = Cardinality(B)
  BY <1>2, <1>5, FS_Bijection DEF ExistsBijection
<1>7. Cardinality(A \cup D) = Cardinality(A) + Cardinality(D) - Cardinality(A \cap D)
  BY <1>2, <1>3, FS_Union
<1>8. Cardinality(A \cap D) = 0 /\ Cardinality(A) \in Nat /\ Cardinality(D) \in Nat
  BY <1>2, <1>3, <1>4, FS_EmptySet, FS_CardinalityType
<1>9. Cardinality(C) = Cardinality(A) + Cardinality(B)
  <2>. HIDE DEF A, B, C, D
  <2>. QED BY <1>4, <1>6, <1>7, <1>8
<1>. QED BY <1>9 DEF Count

\* A sequence of one.
LEMMA CountOne ==
    ASSUME NEW e, NEW m
    PROVE  Count(<<e>>, m) = (IF e = m THEN 1 ELSE 0) /\ Count(<<>>, m) = 0
<1>1. {i \in 1..Len(<<>>) : <<>>[i] = m} = {}
  OBVIOUS
<1>2. 1..Len(<<e>>) = {1} /\ <<e>>[1] = e
  OBVIOUS
<1>3. {i \in 1..Len(<<e>>) : <<e>>[i] = m} = IF e = m THEN {1} ELSE {}
  BY <1>2
<1>. QED BY <1>1, <1>3, FS_EmptySet, FS_Singleton DEF Count

\* Counting after enqueueing and dequeueing.
LEMMA CountAppend ==
    ASSUME NEW S, NEW q \in Seq(S), NEW e \in S, NEW m
    PROVE  Count(Append(q, e), m) = Count(q, m) + (IF e = m THEN 1 ELSE 0)
<1>1. <<e>> \in Seq(S) /\ Append(q, e) = q \o <<e>>
  BY AppendIsConcat
<1>2. Count(q \o <<e>>, m) = Count(q, m) + Count(<<e>>, m)
  BY <1>1, CountConcat
<1>. QED BY <1>1, <1>2, CountOne

\* An element of the tail is there once less if it was the head.
LEMMA CountHead ==
    ASSUME NEW S, NEW q \in Seq(S), q # <<>>, NEW m
    PROVE  Count(Tail(q), m) = Count(q, m) - (IF Head(q) = m THEN 1 ELSE 0)
<1>1. Head(q) \in S /\ Tail(q) \in Seq(S) /\ <<Head(q)>> \in Seq(S)
  BY HeadTailProperties
<1>2. Count(<<Head(q)>> \o Tail(q), m) = Count(<<Head(q)>>, m) + Count(Tail(q), m)
  BY <1>1, CountConcat
<1>3. <<Head(q)>> \o Tail(q) = q
  BY HandOn
<1>4. Count(Tail(q), m) \in Nat
  BY <1>1, CountType
<1>5. Count(<<Head(q)>>, m) = (IF Head(q) = m THEN 1 ELSE 0)
  BY CountOne
<1>6. Count(q, m) = Count(<<Head(q)>>, m) + Count(Tail(q), m)
  BY <1>2, <1>3
<1>7. Count(<<Head(q)>>, m) \in {0, 1}
  BY <1>5
<1>. QED BY <1>4, <1>5, <1>6, <1>7

--------------------------------------------------------------------------------
\* What a step does to the files that wait and to those that were sent.

\* What is still to be handed over, oldest first.
Coming == InHand(copier) \o msgs

\* The sequences of files, in the types of the state.
LEMMA LineTypes ==
    ASSUME Parts
    PROVE  /\ Coming \in Seq(Ts) /\ InHand(copier) \in Seq(Ts) /\ msgs \in Seq(Ts)
           /\ InHand(router) \in Seq(Ts) /\ tsfiles \in Seq(Ts)
           /\ \A s \in Stream : /\ Sent(s) \in Seq(Ts)
                                /\ entered[s] \in Seq(Ts) /\ queue[s] \in Seq(Ts)
                                /\ entered[s] \o queue[s] \in Seq(Ts)
                                /\ (entered[s] \o queue[s]) \o InHand(router) \in Seq(Ts)
<1>1. InHand(copier) \in Seq(Ts)
  BY DEF Parts, CopierType, InHand, Idle, Ended
<1>2. InHand(router) \in Seq(Ts)
  BY DEF Parts, RouterType, InHand, Idle, Ended
<1>3. msgs \in Seq(Ts) /\ tsfiles \in Seq(Ts)
  BY DEF Parts, Channels
<1>4. \A s \in Stream : entered[s] \in Seq(Ts) /\ queue[s] \in Seq(Ts)
  BY DEF Parts, Queues
<1>5. ASSUME NEW s \in Stream
      PROVE  /\ entered[s] \o queue[s] \in Seq(Ts)
             /\ (entered[s] \o queue[s]) \o InHand(router) \in Seq(Ts)
             /\ Sent(s) \in Seq(Ts)
  <2>. DEFINE l == entered[s] \o queue[s]
              h == l \o InHand(router)
  <2>1. l \in Seq(Ts)
    BY <1>4, ConcatProperties
  <2>. HIDE DEF l
  <2>2. h \in Seq(Ts)
    BY <1>2, <2>1, ConcatProperties
  <2>. HIDE DEF h
  <2>3. h \o tsfiles \in Seq(Ts)
    BY <1>3, <2>2, ConcatProperties
  <2>. QED BY <2>1, <2>2, <2>3 DEF h, l, Sent
<1>6. Coming \in Seq(Ts)
  BY <1>1, <1>3, ConcatProperties DEF Coming
<1>. QED BY <1>1, <1>2, <1>3, <1>4, <1>5, <1>6

\* What a goroutine holds at each of its places.
LEMMA Hands ==
    /\ InHand(Idle) = <<>> /\ InHand(Ended) = <<>>
    /\ \A m : /\ InHand(At("copy", m)) = <<m>> /\ InHand(At("stat", m)) = <<m>>
              /\ InHand(At("create", m)) = <<m>> /\ InHand(At("feed", m)) = <<m>>
BY DEF InHand, Idle, Ended, At

\* Nothing comes, waits, is sent or given up.
Still ==
    /\ Coming' = Coming /\ UNCHANGED <<senders, gone, hooked, late>>
    /\ \A s \in Stream : Sent(s)' = Sent(s)

\* The next file of stream s is announced, or given up at once.
Announced(s) ==
    /\ hooked[s] < MaxTs /\ hooked' = [hooked EXCEPT ![s] = @ + 1]
    /\ LET m == [stream |-> s, seq |-> hooked[s] + 1] IN
         \/ Coming' = Append(Coming, m) /\ gone' = gone
         \/ Coming' = Coming /\ gone' = gone \cup {m}
    /\ UNCHANGED <<senders, late>>
    /\ \A t \in Stream : Sent(t)' = Sent(t)

\* The oldest file is handed over to a goroutine of its own, or given up.
Released ==
    /\ Coming # <<>> /\ Coming' = Tail(Coming)
    /\ \/ senders' = senders \cup {Head(Coming)} /\ gone' = gone
       \/ gone' = gone \cup {Head(Coming)} /\ senders' = senders
    /\ UNCHANGED <<hooked, late>>
    /\ \A s \in Stream : Sent(s)' = Sent(s)

\* A waiting file is sent, or given up.
Posted(m) ==
    /\ m \in senders /\ senders' = senders \ {m}
    /\ Coming' = Coming /\ hooked' = hooked
    /\ \/ /\ \A s \in Stream : Sent(s)' = Append(Sent(s), m)
          /\ late' = late \cup Older(m) /\ gone' = gone
       \/ /\ \A s \in Stream : Sent(s)' = Sent(s)
          /\ late' = late /\ gone' = gone \cup {m}

\* File m leaves the line of stream s.
Leaves(s, m) ==
    \E a, b \in Seq(Ts) : Sent(s) = (a \o <<m>>) \o b /\ Sent(s)' = a \o b

\* The router hands a file to the worker of its stream, or gives it up; the other
\* streams see it no more.
Routed(m) ==
    /\ Coming' = Coming /\ UNCHANGED <<senders, hooked, late>>
    /\ \A s \in Stream : s # m.stream => Leaves(s, m)
    /\ \/ Sent(m.stream)' = Sent(m.stream) /\ gone' = gone
       \/ Leaves(m.stream, m) /\ gone' = gone \cup {m}

\* All that a step can do to the files.
Move ==
    \/ Still \/ Released
    \/ \E s \in Stream : Announced(s)
    \/ \E m \in Ts : Posted(m) \/ Routed(m)

\* The hook and the copier.
LEMMA CopierMove ==
    ASSUME Parts, Copier \/ \E s \in Stream : OnHlsTsMessage(s)
    PROVE  Move
<1>1. ASSUME UNCHANGED <<router, tsfiles, queue, entered>>
      PROVE  \A s \in Stream : Sent(s)' = Sent(s)
  BY <1>1 DEF Sent, InHand
<1>2. ASSUME NEW s \in Stream, OnHlsTsMessage(s) PROVE Move
  <2>. DEFINE m == [stream |-> s, seq |-> hooked[s] + 1]
  <2>1. m \in Ts
    BY <1>2, DetectAssumption DEF DetectAssumption, OnHlsTsMessage, Parts, Counts, Ts
  <2>2. /\ \A t \in Stream : Sent(t)' = Sent(t)
        /\ hooked[s] < MaxTs /\ hooked' = [hooked EXCEPT ![s] = @ + 1]
        /\ UNCHANGED <<senders, late, copier>>
        /\ \/ msgs' = Append(msgs, m) /\ gone' = gone
           \/ msgs' = msgs /\ gone' = gone \cup {m}
    BY <1>1, <1>2 DEF OnHlsTsMessage, GiveUp
  <2>3. InHand(copier)' = InHand(copier)
    BY <2>2 DEF InHand
  <2>. HIDE DEF m
  <2>4. msgs' = Append(msgs, m) => Coming' = Append(Coming, m)
    BY <2>1, <2>3, LineTypes, AppendRight DEF Coming
  <2>5. msgs' = msgs => Coming' = Coming
    BY <2>3 DEF Coming
  <2>6. Announced(s)
    BY <2>2, <2>4, <2>5 DEF Announced, m
  <2>. QED BY <2>6 DEF Move
<1>3. CASE TakeMsg
  <2>1. /\ InHand(copier) = <<>> /\ InHand(copier)' = <<Head(msgs)>>
        /\ msgs # <<>> /\ msgs' = Tail(msgs)
    BY <1>3, Hands DEF TakeMsg, At, InHand
  <2>2. Coming' = Coming
    <3>1. <<Head(msgs)>> \o Tail(msgs) = msgs /\ <<>> \o msgs = msgs
      BY <2>1, LineTypes, HandOn, ConcatEmptySeq
    <3>. QED BY <2>1, <3>1 DEF Coming
  <2>3. Still
    BY <1>1, <1>3, <2>2 DEF TakeMsg, Still
  <2>. QED BY <2>3 DEF Move
<1>4. ASSUME copier.at \in {"copy", "stat"}
      PROVE  /\ InHand(copier) = <<copier.msg>> /\ copier.msg \in Ts
             /\ Coming # <<>> /\ Head(Coming) = copier.msg /\ Tail(Coming) = msgs
  <2>1. InHand(copier) = <<copier.msg>> /\ copier.msg \in Ts
    BY <1>4, InHands DEF InHand
  <2>2. Coming = <<copier.msg>> \o msgs
    BY <2>1 DEF Coming
  <2>3. <<copier.msg>> \o msgs # <<>> /\ Head(<<copier.msg>> \o msgs) = copier.msg
        /\ Tail(<<copier.msg>> \o msgs) = msgs
    BY <2>1, LineTypes
  <2>. QED BY <2>1, <2>2, <2>3
<1>5. ASSUME copier' = Idle, msgs' = msgs
      PROVE  Coming' = msgs
  <2>1. InHand(copier)' = <<>>
    BY <1>5 DEF InHand, Idle
  <2>. QED BY <1>5, <2>1, LineTypes, ConcatEmptySeq DEF Coming
<1>6. CASE Copy
  <2>1. CASE copier' = At("stat", copier.msg) /\ UNCHANGED gone
    <3>1. InHand(copier)' = <<copier.msg>>
      BY <2>1 DEF InHand, At
    <3>2. Coming' = Coming
      BY <1>4, <1>6, <3>1 DEF Copy, Coming
    <3>3. Still
      BY <1>1, <1>6, <2>1, <3>2 DEF Copy, Still
    <3>. QED BY <3>3 DEF Move
  <2>2. CASE copier' = Idle /\ GiveUp(copier.msg)
    <3>1. Released
      BY <1>1, <1>4, <1>5, <1>6, <2>2 DEF Copy, Released, GiveUp
    <3>. QED BY <3>1 DEF Move
  <2>. QED BY <1>6, <2>1, <2>2 DEF Copy
<1>7. CASE StatAndGo
  <2>1. Released
    BY <1>1, <1>4, <1>5, <1>7 DEF StatAndGo, Released, GiveUp
  <2>. QED BY <2>1 DEF Move
<1>8. CASE EndCopier
  <2>1. InHand(copier)' = InHand(copier)
    BY <1>8 DEF EndCopier, InHand, Idle, Ended
  <2>2. Still
    BY <1>1, <1>8, <2>1 DEF EndCopier, Still, Coming
  <2>. QED BY <2>2 DEF Move
<1>. QED BY <1>2, <1>3, <1>6, <1>7, <1>8 DEF Copier

\* The router.
LEMMA RouterMove ==
    ASSUME Parts, Router
    PROVE  Move
<1>1. ASSUME UNCHANGED <<copier, msgs>> PROVE Coming' = Coming
  BY <1>1 DEF Coming, InHand
<1>2. CASE TakeTs
  <2>1. /\ InHand(router) = <<>> /\ InHand(router)' = <<Head(tsfiles)>>
        /\ tsfiles # <<>> /\ tsfiles' = Tail(tsfiles) /\ UNCHANGED <<entered, queue>>
    BY <1>2 DEF TakeTs, At, InHand, Idle
  <2>2. ASSUME NEW s \in Stream PROVE Sent(s)' = Sent(s)
    <3>. DEFINE l == entered[s] \o queue[s]
    <3>1. l \in Seq(Ts) /\ tsfiles \in Seq(Ts)
      BY LineTypes
    <3>2. Sent(s) = (l \o <<>>) \o tsfiles /\ Sent(s)' = (l \o <<Head(tsfiles)>>) \o Tail(tsfiles)
      BY <2>1 DEF Sent
    <3>. HIDE DEF l
    <3>. QED BY <2>1, <3>1, <3>2, HandOn, ConcatEmptySeq
  <2>3. Still
    BY <1>1, <1>2, <2>2 DEF TakeTs, Still
  <2>. QED BY <2>3 DEF Move
<1>3. CASE CreateWorker
  <2>1. InHand(router)' = InHand(router)
    BY <1>3, InHands DEF CreateWorker, InHand
  <2>2. \A s \in Stream : Sent(s)' = Sent(s)
    BY <1>3, <2>1 DEF CreateWorker, Sent
  <2>3. Still
    BY <1>1, <1>3, <2>2 DEF CreateWorker, Still
  <2>. QED BY <2>3 DEF Move
<1>4. CASE Feed
  <2>1. PICK r \in Ts : r = router.msg /\ r.stream \in Stream
    BY <1>4, InHands DEF Feed
  <2>2. InHand(router) = <<r>> /\ InHand(router)' = <<>> /\ UNCHANGED <<entered, tsfiles>>
    BY <1>4, <2>1 DEF Feed, InHand, Idle
  <2>3. ASSUME NEW s \in Stream, queue'[s] = queue[s] PROVE Leaves(s, r)
    <3>. DEFINE l == entered[s] \o queue[s]
    <3>1. l \in Seq(Ts) /\ tsfiles \in Seq(Ts)
      BY LineTypes
    <3>2. Sent(s) = (l \o <<r>>) \o tsfiles /\ Sent(s)' = (l \o <<>>) \o tsfiles
      BY <2>2, <2>3 DEF Sent
    <3>. HIDE DEF l
    <3>3. l \o <<>> = l
      BY <3>1, ConcatEmptySeq
    <3>. QED BY <3>1, <3>2, <3>3 DEF Leaves
  <2>4. CASE /\ Len(queue[r.stream]) < WorkerCap
             /\ queue' = [queue EXCEPT ![r.stream] = Append(@, r)] /\ UNCHANGED gone
    <3>. DEFINE e == entered[r.stream]
                q == queue[r.stream]
                l == e \o q
    <3>1. /\ l \in Seq(Ts) /\ tsfiles \in Seq(Ts) /\ e \in Seq(Ts) /\ q \in Seq(Ts)
      BY <2>1, LineTypes
    <3>2. queue'[r.stream] = Append(q, r) /\ \A s \in Stream \ {r.stream} : queue'[s] = queue[s]
      BY <2>1, <2>4 DEF Parts, Queues
    <3>3. Sent(r.stream)' = ((e \o Append(q, r)) \o <<>>) \o tsfiles
          /\ Sent(r.stream) = (l \o <<r>>) \o tsfiles
      BY <2>2, <3>2 DEF Sent
    <3>. HIDE DEF e, q
    <3>4. e \o Append(q, r) = l \o <<r>>
      BY <3>1, AppendRight
    <3>5. (e \o Append(q, r)) \o <<>> = e \o Append(q, r)
      <4>1. Append(q, r) \in Seq(Ts)
        BY <3>1, AppendProperties
      <4>2. e \o Append(q, r) \in Seq(Ts)
        BY <3>1, <4>1, ConcatProperties
      <4>. QED BY <4>2, ConcatEmptySeq
    <3>6. Sent(r.stream)' = Sent(r.stream)
      BY <3>3, <3>4, <3>5
    <3>7. Routed(r)
      BY <1>1, <1>4, <2>3, <2>4, <3>2, <3>6 DEF Feed, Routed
    <3>. QED BY <3>7 DEF Move
  <2>5. CASE cancelled /\ GiveUp(r) /\ UNCHANGED queue
    <3>1. Routed(r)
      BY <1>1, <1>4, <2>1, <2>3, <2>5 DEF Feed, Routed, GiveUp
    <3>. QED BY <3>1 DEF Move
  <2>. QED BY <1>4, <2>1, <2>4, <2>5 DEF Feed
<1>5. CASE EndRouter
  <2>1. InHand(router)' = InHand(router)
    BY <1>5 DEF EndRouter, InHand, Idle, Ended
  <2>2. \A s \in Stream : Sent(s)' = Sent(s)
    BY <1>5, <2>1 DEF EndRouter, Sent
  <2>3. Still
    BY <1>1, <1>5, <2>2 DEF EndRouter, Still
  <2>. QED BY <2>3 DEF Move
<1>. QED BY <1>2, <1>3, <1>4, <1>5 DEF Router

\* The hand-over goroutines, the workers and the cancel.
LEMMA OtherMove ==
    ASSUME Parts,
           \/ \E m \in Ts : Send(m)
           \/ \E s \in Stream : Enter(s) \/ StopWorker(s)
           \/ Cancel \/ UNCHANGED vars
    PROVE  Move
<1>1. ASSUME UNCHANGED <<copier, msgs>> PROVE Coming' = Coming
  BY <1>1 DEF Coming, InHand
<1>2. ASSUME NEW m \in Ts, Send(m) PROVE Move
  <2>1. ASSUME tsfiles' = Append(tsfiles, m), NEW s \in Stream
        PROVE  Sent(s)' = Append(Sent(s), m)
    <3>. DEFINE h == (entered[s] \o queue[s]) \o InHand(router)
    <3>1. h \in Seq(Ts) /\ tsfiles \in Seq(Ts)
      BY LineTypes
    <3>2. Sent(s) = h \o tsfiles /\ Sent(s)' = h \o Append(tsfiles, m)
      BY <1>2, <2>1 DEF Send, Sent, InHand
    <3>. HIDE DEF h
    <3>. QED BY <3>1, <3>2, AppendRight
  <2>2. ASSUME tsfiles' = tsfiles, NEW s \in Stream
        PROVE  Sent(s)' = Sent(s)
    BY <1>2, <2>2 DEF Send, Sent, InHand
  <2>3. Posted(m)
    BY <1>1, <1>2, <2>1, <2>2 DEF Send, Posted, GiveUp
  <2>. QED BY <2>3 DEF Move
<1>3. ASSUME NEW s \in Stream, Enter(s) PROVE Move
  <2>1. InHand(router)' = InHand(router) /\ tsfiles' = tsfiles
    BY <1>3 DEF Enter, InHand
  <2>2. entered'[s] \o queue'[s] = entered[s] \o queue[s]
    <3>1. /\ queue[s] # <<>> /\ queue'[s] = Tail(queue[s])
          /\ entered'[s] = Append(entered[s], Head(queue[s]))
      BY <1>3 DEF Enter, Parts, Queues
    <3>2. entered[s] \in Seq(Ts) /\ queue[s] \in Seq(Ts)
      BY LineTypes
    <3>3. Append(entered[s], Head(queue[s])) \o Tail(queue[s]) = entered[s] \o queue[s]
      BY <3>1, <3>2, HandOn
    <3>. QED BY <3>1, <3>3
  <2>3. \A t \in Stream \ {s} : entered'[t] = entered[t] /\ queue'[t] = queue[t]
    BY <1>3 DEF Enter, Parts, Queues
  <2>4. \A t \in Stream : Sent(t)' = Sent(t)
    BY <2>1, <2>2, <2>3 DEF Sent
  <2>5. Still
    BY <1>1, <1>3, <2>4 DEF Enter, Still
  <2>. QED BY <2>5 DEF Move
<1>4. ASSUME NEW s \in Stream, StopWorker(s) PROVE Move
  <2>1. Still
    BY <1>1, <1>4 DEF StopWorker, Still, Sent, InHand
  <2>. QED BY <2>1 DEF Move
<1>5. CASE Cancel \/ UNCHANGED vars
  <2>1. Still
    BY <1>1, <1>5 DEF Cancel, vars, Still, Sent, InHand
  <2>. QED BY <2>1 DEF Move
<1>. QED BY <1>2, <1>3, <1>4, <1>5

\* Every step is a move of at most one file.
LEMMA MoveStep ==
    ASSUME Parts, [Next]_vars
    PROVE  Move
BY CopierMove, RouterMove, OtherMove DEF Next

--------------------------------------------------------------------------------
\* Nothing is lost or duplicated.

One(P) == IF P THEN 1 ELSE 0

\* In how many places a file is.
Places(m) ==
    Count(Coming, m) + Count(Sent(m.stream), m) + One(m \in senders) + One(m \in gone)

Due(m) == One(m.seq <= hooked[m.stream])

\* Conserved, in terms of what comes and what was sent.
LEMMA ConservedPlaces ==
    ASSUME Parts
    PROVE  /\ Conserved <=> \A m \in Ts : Places(m) = Due(m)
           /\ \A m \in Ts : /\ Count(Coming, m) \in Nat /\ Count(Sent(m.stream), m) \in Nat
                            /\ One(m \in senders) \in {0, 1} /\ One(m \in gone) \in {0, 1}
<1>. SUFFICES ASSUME NEW m \in Ts
              PROVE  /\ Count(msgs \o InHand(copier) \o Sent(m.stream), m)
                          = Count(Coming, m) + Count(Sent(m.stream), m)
                     /\ Count(Coming, m) \in Nat /\ Count(Sent(m.stream), m) \in Nat
  BY DEF Conserved, Places, Due, One
<1>. DEFINE h == InHand(copier)
            q == Sent(m.stream)
<1>1. m.stream \in Stream
  BY DEF Ts
<1>2. h \in Seq(Ts) /\ q \in Seq(Ts) /\ msgs \in Seq(Ts) /\ Coming \in Seq(Ts)
      /\ Coming = h \o msgs
  BY <1>1, LineTypes DEF Coming
<1>. HIDE DEF h, q
<1>3. msgs \o h \in Seq(Ts)
  BY <1>2, ConcatProperties
<1>4. Count((msgs \o h) \o q, m) = Count(msgs \o h, m) + Count(q, m)
  BY <1>2, <1>3, CountConcat
<1>5. Count(msgs \o h, m) = Count(msgs, m) + Count(h, m)
      /\ Count(h \o msgs, m) = Count(h, m) + Count(msgs, m)
  BY <1>2, CountConcat
<1>6. Count(msgs, m) \in Nat /\ Count(h, m) \in Nat /\ Count(q, m) \in Nat
      /\ Count(Coming, m) \in Nat
  BY <1>2, CountType
<1>7. Count((msgs \o h) \o q, m) = Count(Coming, m) + Count(q, m)
  BY <1>2, <1>4, <1>5, <1>6
<1>. QED BY <1>6, <1>7 DEF h, q

InPlaces == \A m \in Ts : Places(m) = Due(m)

\* Conserved is about the places of every file.
LEMMA InPlacesNow == Parts => (Conserved <=> InPlaces)
BY ConservedPlaces DEF InPlaces

\* The same after a step.
LEMMA InPlacesNext == Parts' => (Conserved' <=> InPlaces')
BY InPlacesNow, PTL

\* A file that leaves a line is there once less.
LEMMA CountLeaves ==
    ASSUME NEW s \in Stream, NEW x \in Ts, Leaves(s, x), NEW m
    PROVE  Count(Sent(s)', m) = Count(Sent(s), m) - One(x = m) /\ Count(Sent(s)', m) \in Nat
<1>1. PICK a \in Seq(Ts), b \in Seq(Ts) : Sent(s) = (a \o <<x>>) \o b /\ Sent(s)' = a \o b
  BY DEF Leaves
<1>2. <<x>> \in Seq(Ts) /\ a \o <<x>> \in Seq(Ts)
  BY ConcatProperties
<1>3. Count((a \o <<x>>) \o b, m) = Count(a \o <<x>>, m) + Count(b, m)
      /\ Count(a \o b, m) = Count(a, m) + Count(b, m)
  BY <1>2, CountConcat
<1>4. Count(a \o <<x>>, m) = Count(a, m) + Count(<<x>>, m)
  BY <1>2, CountConcat
<1>5. Count(<<x>>, m) = One(x = m)
  BY CountOne DEF One
<1>6. Count(a, m) \in Nat /\ Count(b, m) \in Nat /\ One(x = m) \in {0, 1}
  BY CountType DEF One
<1>. QED BY <1>1, <1>3, <1>4, <1>5, <1>6

\* Every file moves from one place to another.
LEMMA ConservedStep ==
    ASSUME Parts, Parts', Conserved, Move
    PROVE  Conserved'
<1>1. /\ \A m \in Ts : Places(m) = Due(m)
      /\ \A m \in Ts : /\ Count(Coming, m) \in Nat /\ Count(Sent(m.stream), m) \in Nat
                       /\ One(m \in senders) \in {0, 1} /\ One(m \in gone) \in {0, 1}
      /\ InPlaces' => Conserved'
  BY ConservedPlaces, InPlacesNext
<1>. SUFFICES ASSUME NEW m \in Ts PROVE Places(m)' = Due(m)'
  BY <1>1 DEF InPlaces
<1>2. /\ m.stream \in Stream /\ m.seq \in 1..MaxTs /\ MaxTs \in Nat
      /\ Coming \in Seq(Ts) /\ Sent(m.stream) \in Seq(Ts)
      /\ hooked \in [Stream -> 0..MaxTs]
  BY LineTypes, DetectAssumption DEF DetectAssumption, Ts, Parts, Counts
<1>. DEFINE c == Count(Coming, m)
            q == Count(Sent(m.stream), m)
            w == One(m \in senders)
            g == One(m \in gone)
            d == Due(m)
<1>3. /\ c \in Nat /\ q \in Nat /\ w \in {0, 1} /\ g \in {0, 1} /\ d \in {0, 1}
      /\ c + q + w + g = d
  BY <1>1 DEF Places, Due, One
<1>4. /\ Places(m)' = Count(Coming', m) + Count(Sent(m.stream)', m)
                          + One(m \in senders') + One(m \in gone')
      /\ Due(m)' = One(m.seq <= hooked'[m.stream])
  BY DEF Places, Due, One
<1>5. CASE Still
  <2>1. /\ Coming' = Coming /\ Sent(m.stream)' = Sent(m.stream)
        /\ senders' = senders /\ gone' = gone /\ hooked' = hooked
    BY <1>2, <1>5 DEF Still
  <2>. QED BY <1>3, <1>4, <2>1 DEF Due
<1>6. ASSUME NEW s \in Stream, Announced(s) PROVE Places(m)' = Due(m)'
  <2>. DEFINE x == [stream |-> s, seq |-> hooked[s] + 1]
  <2>1. x \in Ts /\ hooked[s] \in Nat /\ hooked'[s] = hooked[s] + 1
        /\ \A t \in Stream \ {s} : hooked'[t] = hooked[t]
    BY <1>2, <1>6 DEF Announced, Ts
  <2>2. x = m => d = 0
    BY <1>2, <2>1 DEF Due, One
  <2>3. Due(m)' = d + One(x = m)
    <3>1. CASE x = m
      BY <1>2, <2>1, <2>2, <3>1 DEF Due, One
    <3>2. CASE x # m
      <4>1. CASE m.stream # s
        BY <1>2, <2>1, <3>2, <4>1 DEF Due, One
      <4>2. CASE m.stream = s
        <5>1. m.seq # hooked[s] + 1
          BY <3>2, <4>2 DEF Ts
        <5>2. m.seq <= hooked[s] + 1 <=> m.seq <= hooked[s]
          BY <1>2, <2>1, <5>1
        <5>. QED BY <1>4, <2>1, <3>2, <4>2, <5>2 DEF Due, One
      <4>. QED BY <4>1, <4>2
    <3>. QED BY <3>1, <3>2
  <2>4. /\ UNCHANGED <<senders, late>> /\ Sent(m.stream)' = Sent(m.stream)
        /\ \/ Coming' = Append(Coming, x) /\ gone' = gone
           \/ Coming' = Coming /\ gone' = gone \cup {x}
    BY <1>2, <1>6 DEF Announced
  <2>. HIDE DEF x
  <2>5. CASE Coming' = Append(Coming, x) /\ gone' = gone
    <3>1. Count(Coming', m) = c + One(x = m)
      BY <1>2, <2>1, <2>5, CountAppend DEF One
    <3>. QED BY <1>3, <1>4, <2>3, <2>4, <2>5, <3>1 DEF One
  <2>6. CASE Coming' = Coming /\ gone' = gone \cup {x}
    <3>1. One(m \in gone') = g + One(x = m)
      BY <1>3, <2>2, <2>6 DEF One
    <3>. QED BY <1>3, <1>4, <2>3, <2>4, <2>6, <3>1 DEF One
  <2>. QED BY <2>4, <2>5, <2>6
<1>7. CASE Released
  <2>. DEFINE x == Head(Coming)
  <2>1. Count(Coming', m) = c - One(x = m) /\ Count(Coming', m) \in Nat
    <3>1. Tail(Coming) \in Seq(Ts) /\ Count(Tail(Coming), m) = Count(Coming, m) - One(x = m)
      BY <1>2, <1>7, HeadTailProperties, CountHead DEF Released, One
    <3>. QED BY <1>7, <3>1, CountType DEF Released
  <2>2. Due(m)' = d /\ Sent(m.stream)' = Sent(m.stream)
    BY <1>2, <1>7 DEF Released, Due
  <2>. HIDE DEF x
  <2>3. x = m => c >= 1
    BY <1>3, <2>1 DEF One
  <2>4. CASE senders' = senders \cup {x} /\ gone' = gone
    <3>1. One(m \in senders') = w + One(x = m)
      BY <1>3, <2>3, <2>4 DEF One
    <3>. QED BY <1>3, <1>4, <2>1, <2>2, <2>4, <3>1 DEF One
  <2>5. CASE senders' = senders /\ gone' = gone \cup {x}
    <3>1. One(m \in gone') = g + One(x = m)
      BY <1>3, <2>3, <2>5 DEF One
    <3>. QED BY <1>3, <1>4, <2>1, <2>2, <2>5, <3>1 DEF One
  <2>. QED BY <1>7, <2>4, <2>5 DEF Released, x
<1>8. ASSUME NEW x \in Ts, Posted(x) PROVE Places(m)' = Due(m)'
  <2>1. One(m \in senders') = w - One(x = m) /\ Coming' = Coming /\ Due(m)' = d
    BY <1>8 DEF Posted, Due, One
  <2>2. CASE Sent(m.stream)' = Append(Sent(m.stream), x) /\ gone' = gone
    <3>1. Count(Sent(m.stream)', m) = q + One(x = m)
      BY <1>2, <2>2, CountAppend DEF One
    <3>. QED BY <1>3, <1>4, <2>1, <2>2, <3>1 DEF One
  <2>3. CASE Sent(m.stream)' = Sent(m.stream) /\ gone' = gone \cup {x}
    <3>1. One(m \in gone') = g + One(x = m)
      BY <1>3, <1>8, <2>3 DEF One, Posted
    <3>. QED BY <1>3, <1>4, <2>1, <2>3, <3>1 DEF One
  <2>. QED BY <1>2, <1>8, <2>2, <2>3 DEF Posted
<1>9. ASSUME NEW x \in Ts, Routed(x) PROVE Places(m)' = Due(m)'
  <2>1. Coming' = Coming /\ senders' = senders /\ Due(m)' = d /\ x.stream \in Stream
    BY <1>9 DEF Routed, Due, Ts
  <2>2. CASE m.stream = x.stream /\ Sent(m.stream)' = Sent(m.stream) /\ gone' = gone
    BY <1>3, <1>4, <2>1, <2>2
  <2>3. CASE m.stream # x.stream
    <3>1. Count(Sent(m.stream)', m) = q - One(x = m)
      BY <1>2, <1>9, <2>3, CountLeaves DEF Routed
    <3>2. One(x = m) = 0
      BY <2>3 DEF One
    <3>3. One(m \in gone') = g
      BY <1>9, <2>3 DEF Routed, One
    <3>. QED BY <1>3, <1>4, <2>1, <3>1, <3>2, <3>3
  <2>4. CASE m.stream = x.stream /\ Leaves(m.stream, x) /\ gone' = gone \cup {x}
    <3>1. Count(Sent(m.stream)', m) = q - One(x = m) /\ Count(Sent(m.stream)', m) \in Nat
      BY <1>2, <2>4, CountLeaves
    <3>2. x = m => q >= 1
      BY <1>3, <3>1 DEF One
    <3>3. One(m \in gone') = g + One(x = m)
      BY <1>3, <2>4, <3>2 DEF One
    <3>. QED BY <1>3, <1>4, <2>1, <3>1, <3>3 DEF One
  <2>. QED BY <1>9, <2>2, <2>3, <2>4 DEF Routed
<1>. QED BY <1>5, <1>6, <1>7, <1>8, <1>9 DEF Move

--------------------------------------------------------------------------------
\* The order of the files.

\* What is to be handed over is in order, and newer than what waits to be sent.
ComingIsNewer ==
    \A i \in 1..Len(Coming) :
        /\ \A j \in 1..Len(Coming) :
              i < j /\ Coming[i].stream = Coming[j].stream => Coming[i].seq < Coming[j].seq
        /\ \A m \in senders : m.stream = Coming[i].stream => m.seq < Coming[i].seq

\* For one stream: it is newer than what was sent too, who waits and was overtaken
\* is known, and so is who came after a newer file.
SentBeforeComing(s) ==
    \A i \in 1..Len(Coming), j \in 1..Len(Sent(s)) :
        Coming[i].stream = s /\ Sent(s)[j].stream = s => Sent(s)[j].seq < Coming[i].seq
OvertakenIsLate(s) ==
    \A m \in senders, j \in 1..Len(Sent(s)) :
        m.stream = s /\ Sent(s)[j].stream = s /\ m.seq < Sent(s)[j].seq => m \in late
LateOrOlder(s) ==
    \A i, j \in 1..Len(Sent(s)) :
        i < j /\ Sent(s)[i].stream = s /\ Sent(s)[j].stream = s =>
            Sent(s)[i].seq < Sent(s)[j].seq \/ Sent(s)[j] \in late

LineOrder(s) == SentBeforeComing(s) /\ OvertakenIsLate(s) /\ LateOrOlder(s)

Order == ComingIsNewer /\ \A s \in Stream : LineOrder(s)

\* A file is in one place only, and has been announced.
LEMMA Apart ==
    ASSUME Parts, Conserved
    PROVE  /\ \A i \in 1..Len(Coming) :
                 Coming[i] \in Ts /\ Coming[i].seq <= hooked[Coming[i].stream]
           /\ \A m \in senders : m \in Ts /\ m.seq <= hooked[m.stream]
           /\ \A s \in Stream : \A j \in 1..Len(Sent(s)) :
                 /\ Sent(s)[j] \in Ts
                 /\ Sent(s)[j].stream = s =>
                       Sent(s)[j].seq <= hooked[s] /\ Sent(s)[j] \notin senders
<1>1. \A m \in Ts : Places(m) = Due(m)
  BY ConservedPlaces
<1>2. ASSUME NEW m \in Ts
      PROVE  /\ Count(Coming, m) \in Nat /\ Count(Sent(m.stream), m) \in Nat
             /\ One(m \in senders) \in {0, 1} /\ One(m \in gone) \in {0, 1}
             /\ m.seq \in Nat /\ m.stream \in Stream
             /\ Due(m) \in {0, 1} /\ (Due(m) = 1 <=> m.seq <= hooked[m.stream])
  <2>1. m.seq \in Nat /\ m.stream \in Stream
    BY DEF Ts
  <2>2. Due(m) \in {0, 1} /\ (Due(m) = 1 <=> m.seq <= hooked[m.stream])
    BY DEF Due, One
  <2>. QED BY <2>1, <2>2, ConservedPlaces
<1>3. ASSUME NEW i \in 1..Len(Coming)
      PROVE  Coming[i] \in Ts /\ Coming[i].seq <= hooked[Coming[i].stream]
  <2>1. Coming \in Seq(Ts)
    BY LineTypes
  <2>. DEFINE m == Coming[i]
  <2>2. m \in Ts /\ Count(Coming, m) # 0
    BY <2>1, CountType, ElementOfSeq
  <2>. HIDE DEF m
  <2>3. Due(m) = 1
    BY <1>1, <1>2, <2>2 DEF Places
  <2>. QED BY <1>2, <2>2, <2>3 DEF m
<1>4. ASSUME NEW m \in senders
      PROVE  m \in Ts /\ m.seq <= hooked[m.stream]
  <2>1. m \in Ts /\ One(m \in senders) = 1
    BY DEF Parts, History, One
  <2>. QED BY <1>1, <1>2, <2>1 DEF Places
<1>5. ASSUME NEW s \in Stream, NEW j \in 1..Len(Sent(s))
      PROVE  /\ Sent(s)[j] \in Ts
             /\ Sent(s)[j].stream = s =>
                   Sent(s)[j].seq <= hooked[s] /\ Sent(s)[j] \notin senders
  <2>1. Sent(s) \in Seq(Ts)
    BY LineTypes
  <2>. DEFINE m == Sent(s)[j]
  <2>2. m \in Ts /\ Count(Sent(s), m) # 0
    BY <2>1, CountType, ElementOfSeq
  <2>. HIDE DEF m
  <2>3. ASSUME m.stream = s PROVE m.seq <= hooked[s] /\ m \notin senders
    <3>1. Due(m) = 1 /\ One(m \in senders) = 0
      BY <1>1, <1>2, <2>2, <2>3 DEF Places
    <3>. QED BY <1>2, <2>2, <2>3, <3>1 DEF One
  <2>. QED BY <2>2, <2>3 DEF m
<1>. QED BY <1>3, <1>4, <1>5

\* When a file leaves, the others stay in their order.
LEMMA LeavesOrder ==
    ASSUME NEW s \in Stream, NEW x \in Ts, Leaves(s, x)
    PROVE  \E h \in [1..Len(Sent(s)') -> 1..Len(Sent(s))] :
              /\ \A i \in 1..Len(Sent(s)') : Sent(s)'[i] = Sent(s)[h[i]]
              /\ \A i, j \in 1..Len(Sent(s)') : i < j => h[i] < h[j]
<1>1. PICK a \in Seq(Ts), b \in Seq(Ts) : Sent(s) = (a \o <<x>>) \o b /\ Sent(s)' = a \o b
  BY DEF Leaves
<1>. DEFINE p == (a \o <<x>>) \o b
            q == a \o b
<1>2. /\ Len(a) \in Nat /\ Len(b) \in Nat /\ Len(q) = Len(a) + Len(b)
      /\ \A i \in 1..Len(a) + Len(b) : q[i] = IF i <= Len(a) THEN a[i] ELSE b[i - Len(a)]
  BY ConcatProperties
<1>3. /\ Len(p) = Len(a) + 1 + Len(b)
      /\ \A i \in 1..Len(a) : p[i] = a[i]
      /\ \A i \in 1..Len(b) : p[Len(a) + 1 + i] = b[i]
  <2>. DEFINE c == a \o <<x>>
  <2>1. <<x>> \in Seq(Ts) /\ Len(<<x>>) = 1
    OBVIOUS
  <2>2. /\ c \in Seq(Ts) /\ Len(c) = Len(a) + 1
        /\ \A i \in 1..Len(a) + 1 : c[i] = IF i <= Len(a) THEN a[i] ELSE <<x>>[i - Len(a)]
    BY <2>1, ConcatProperties
  <2>. HIDE DEF c
  <2>3. /\ Len(c \o b) = Len(c) + Len(b)
        /\ \A i \in 1..Len(c) + Len(b) : (c \o b)[i] = IF i <= Len(c) THEN c[i] ELSE b[i - Len(c)]
    BY <2>2, ConcatProperties
  <2>4. \A i \in 1..Len(a) : (c \o b)[i] = a[i]
    <3>1. \A i \in 1..Len(a) :
             i \in 1..Len(c) + Len(b) /\ i <= Len(c) /\ i \in 1..Len(a) + 1 /\ i <= Len(a)
      BY <1>2, <2>2
    <3>. QED BY <2>2, <2>3, <3>1
  <2>5. \A i \in 1..Len(b) : (c \o b)[Len(a) + 1 + i] = b[i]
    <3>1. \A i \in 1..Len(b) :
             /\ Len(a) + 1 + i \in 1..Len(c) + Len(b) /\ ~(Len(a) + 1 + i <= Len(c))
             /\ (Len(a) + 1 + i) - Len(c) = i
      BY <1>2, <2>2
    <3>. QED BY <2>3, <3>1
  <2>. QED BY <1>2, <2>2, <2>3, <2>4, <2>5 DEF c
<1>. HIDE DEF p, q
<1>. DEFINE h == [i \in 1..Len(q) |-> IF i <= Len(a) THEN i ELSE i + 1]
<1>4. h \in [1..Len(q) -> 1..Len(p)]
  BY <1>2, <1>3
<1>5. \A i \in 1..Len(q) : q[i] = p[h[i]]
  <2>. SUFFICES ASSUME NEW i \in 1..Len(q) PROVE q[i] = p[h[i]]
    OBVIOUS
  <2>1. CASE i <= Len(a)
    <3>1. i \in 1..Len(a) /\ h[i] = i
      BY <1>2, <2>1
    <3>. QED BY <1>2, <1>3, <2>1, <3>1
  <2>2. CASE ~(i <= Len(a))
    <3>1. /\ i - Len(a) \in 1..Len(b) /\ h[i] = i + 1 /\ i + 1 = Len(a) + 1 + (i - Len(a))
      BY <1>2, <2>2
    <3>. QED BY <1>2, <1>3, <2>2, <3>1
  <2>. QED BY <2>1, <2>2
<1>6. \A i, j \in 1..Len(q) : i < j => h[i] < h[j]
  BY <1>2
<1>7. Sent(s) = p /\ Sent(s)' = q
  BY <1>1 DEF p, q
<1>. QED BY <1>4, <1>5, <1>6, <1>7

\* The next file is newer than all that were announced before.
LEMMA OrderAnnounced ==
    ASSUME Parts, Conserved, Order, NEW s \in Stream, Announced(s)
    PROVE  Order'
<1>. DEFINE x == [stream |-> s, seq |-> hooked[s] + 1]
<1>1. /\ UNCHANGED <<senders, late>> /\ \A t \in Stream : Sent(t)' = Sent(t)
      /\ Coming' \in {Coming, Append(Coming, x)}
  BY DEF Announced
<1>2. CASE Coming' = Coming
  BY <1>1, <1>2 DEF Order, ComingIsNewer, LineOrder, SentBeforeComing, OvertakenIsLate, LateOrOlder
<1>3. CASE Coming' = Append(Coming, x)
  <2>1. x \in Ts /\ hooked[s] \in Nat /\ x.stream = s /\ x.seq = hooked[s] + 1
    BY DetectAssumption DEF DetectAssumption, Announced, Parts, Counts, Ts
  <2>. HIDE DEF x
  <2>2. Coming \in Seq(Ts)
    BY LineTypes
  <2>3. /\ Len(Coming) \in Nat /\ Len(Coming') = Len(Coming) + 1
        /\ \A i \in 1..Len(Coming) : Coming'[i] = Coming[i]
        /\ Coming'[Len(Coming) + 1] = x
    BY <1>3, <2>1, <2>2, AppendProperties
  <2>4. \A i \in 1..Len(Coming') : i \in 1..Len(Coming) \/ i = Len(Coming) + 1
    BY <2>3
  <2>5. /\ \A i \in 1..Len(Coming) : Coming[i].stream = s => Coming[i].seq < x.seq
        /\ \A m \in senders : m.stream = s => m.seq < x.seq
        /\ \A j \in 1..Len(Sent(s)) : Sent(s)[j].stream = s => Sent(s)[j].seq < x.seq
    <3>1. \A m \in Ts : m.seq \in Nat
      BY DEF Ts
    <3>. QED BY <2>1, <3>1, Apart
  <2>6. ComingIsNewer'
    <3>1. ASSUME NEW i \in 1..Len(Coming'), NEW j \in 1..Len(Coming'),
                 i < j, Coming'[i].stream = Coming'[j].stream
          PROVE  Coming'[i].seq < Coming'[j].seq
      <4>1. i \in 1..Len(Coming)
        BY <2>3, <2>4, <3>1
      <4>. QED BY <2>1, <2>3, <2>4, <2>5, <3>1, <4>1 DEF Order, ComingIsNewer
    <3>2. ASSUME NEW i \in 1..Len(Coming'), NEW m \in senders, m.stream = Coming'[i].stream
          PROVE  m.seq < Coming'[i].seq
      BY <2>1, <2>3, <2>4, <2>5, <3>2 DEF Order, ComingIsNewer
    <3>. QED BY <1>1, <3>1, <3>2 DEF ComingIsNewer
  <2>7. ASSUME NEW t \in Stream PROVE LineOrder(t)'
    <3>1. LineOrder(t) /\ Sent(t)' = Sent(t)
      BY <1>1 DEF Order
    <3>2. SentBeforeComing(t)'
      BY <2>1, <2>3, <2>4, <2>5, <3>1 DEF LineOrder, SentBeforeComing
    <3>. QED BY <1>1, <3>1, <3>2 DEF LineOrder, OvertakenIsLate, LateOrOlder
  <2>. QED BY <2>6, <2>7 DEF Order
<1>. QED BY <1>1, <1>2, <1>3

\* The file that is handed over was newer than all that were before it.
LEMMA OrderReleased ==
    ASSUME Parts, Conserved, Order, Released
    PROVE  Order'
<1>1. Coming \in Seq(Ts) /\ Coming # <<>> /\ Coming' = Tail(Coming)
  BY LineTypes DEF Released
<1>2. PICK x \in Ts :
        /\ x = Head(Coming)
        /\ \A t \in Stream : Sent(t)' = Sent(t)
        /\ late' = late /\ senders' \subseteq senders \cup {x}
  BY <1>1, HeadTailProperties DEF Released
<1>3. /\ Len(Coming) \in Nat /\ Len(Coming') = Len(Coming) - 1 /\ 1 \in 1..Len(Coming)
      /\ x = Coming[1]
      /\ \A i \in 1..Len(Coming') :
            i + 1 \in 1..Len(Coming) /\ 1 < i + 1 /\ Coming'[i] = Coming[i + 1]
  BY <1>1, <1>2, HeadTailProperties, EmptySeq
<1>4. ComingIsNewer'
  <2>1. ASSUME NEW i \in 1..Len(Coming'), NEW j \in 1..Len(Coming'),
               i < j, Coming'[i].stream = Coming'[j].stream
        PROVE  Coming'[i].seq < Coming'[j].seq
    <3>1. i + 1 < j + 1
      BY <1>3, <2>1
    <3>. QED BY <1>3, <2>1, <3>1 DEF Order, ComingIsNewer
  <2>2. ASSUME NEW i \in 1..Len(Coming'), NEW m \in senders', m.stream = Coming'[i].stream
        PROVE  m.seq < Coming'[i].seq
    <3>1. CASE m \in senders
      BY <1>3, <2>2, <3>1 DEF Order, ComingIsNewer
    <3>2. CASE m = x
      <4>1. i + 1 \in 1..Len(Coming) /\ 1 < i + 1 /\ Coming'[i] = Coming[i + 1]
        BY <1>3, <2>2
      <4>2. Coming[1].stream = Coming[i + 1].stream
        BY <1>3, <2>2, <3>2, <4>1
      <4>3. Coming[1].seq < Coming[i + 1].seq
        BY <1>3, <4>1, <4>2 DEF Order, ComingIsNewer
      <4>. QED BY <1>3, <3>2, <4>1, <4>3
    <3>3. senders' \subseteq senders \cup {x}
      BY <1>2
    <3>4. m \in senders \/ m = x
      BY <2>2, <3>3
    <3>. QED BY <3>1, <3>2, <3>4
  <2>. QED BY <2>1, <2>2 DEF ComingIsNewer
<1>5. ASSUME NEW t \in Stream PROVE LineOrder(t)'
  <2>1. LineOrder(t) /\ Sent(t)' = Sent(t)
    BY <1>2 DEF Order
  <2>2. SentBeforeComing(t)'
    BY <1>3, <2>1 DEF LineOrder, SentBeforeComing
  <2>3. OvertakenIsLate(t)'
    <3>1. ASSUME NEW j \in 1..Len(Sent(t)), x.stream = t, Sent(t)[j].stream = t
          PROVE  ~(x.seq < Sent(t)[j].seq)
      <4>1. Sent(t)[j].seq < x.seq
        BY <1>3, <2>1, <3>1 DEF LineOrder, SentBeforeComing
      <4>2. Sent(t)[j].seq \in Nat /\ x.seq \in Nat
        BY Apart DEF Ts
      <4>. QED BY <4>1, <4>2
    <3>. QED BY <1>2, <2>1, <3>1 DEF LineOrder, OvertakenIsLate
  <2>. QED BY <1>2, <2>1, <2>2, <2>3 DEF LineOrder, LateOrOlder
<1>. QED BY <1>4, <1>5 DEF Order

\* The file that is sent goes to the end; those that it overtakes are recorded.
LEMMA OrderPosted ==
    ASSUME Parts, Conserved, Order, NEW x \in Ts, Posted(x)
    PROVE  Order'
<1>1. x \in senders /\ senders' = senders \ {x} /\ Coming' = Coming
  BY DEF Posted
<1>2. ComingIsNewer'
  BY <1>1 DEF Order, ComingIsNewer
<1>3. CASE late' = late /\ \A s \in Stream : Sent(s)' = Sent(s)
  BY <1>1, <1>2, <1>3 DEF Order, LineOrder, SentBeforeComing, OvertakenIsLate, LateOrOlder
<1>4. CASE late' = late \cup Older(x) /\ \A s \in Stream : Sent(s)' = Append(Sent(s), x)
  <2>. SUFFICES ASSUME NEW s \in Stream PROVE LineOrder(s)'
    BY <1>2 DEF Order
  <2>1. LineOrder(s) /\ Sent(s) \in Seq(Ts)
    BY LineTypes DEF Order
  <2>2. /\ Len(Sent(s)) \in Nat /\ Len(Sent(s)') = Len(Sent(s)) + 1
        /\ \A i \in 1..Len(Sent(s)) : Sent(s)'[i] = Sent(s)[i]
        /\ Sent(s)'[Len(Sent(s)) + 1] = x
    BY <1>4, <2>1, AppendProperties
  <2>3. \A i \in 1..Len(Sent(s)') : i \in 1..Len(Sent(s)) \/ i = Len(Sent(s)) + 1
    BY <2>2
  <2>4. SentBeforeComing(s)'
    <3>1. \A i \in 1..Len(Coming) : Coming[i].stream = x.stream => x.seq < Coming[i].seq
      BY <1>1 DEF Order, ComingIsNewer
    <3>. QED BY <1>1, <2>1, <2>2, <2>3, <3>1 DEF LineOrder, SentBeforeComing
  <2>5. OvertakenIsLate(s)'
    <3>1. \A m \in senders : m.stream = x.stream /\ m.seq < x.seq => m \in Older(x)
      BY DEF Older
    <3>. QED BY <1>1, <1>4, <2>1, <2>2, <2>3, <3>1 DEF LineOrder, OvertakenIsLate
  <2>6. LateOrOlder(s)'
    <3>1. ASSUME NEW i \in 1..Len(Sent(s)), Sent(s)[i].stream = s, x.stream = s
          PROVE  Sent(s)[i].seq < x.seq \/ x \in late
      <4>1. Sent(s)[i] \in Ts /\ Sent(s)[i] # x
        BY <1>1, <3>1, Apart
      <4>2. Sent(s)[i].seq # x.seq /\ Sent(s)[i].seq \in Nat /\ x.seq \in Nat
        BY <3>1, <4>1 DEF Ts
      <4>3. x.seq < Sent(s)[i].seq => x \in late
        BY <1>1, <2>1, <3>1 DEF LineOrder, OvertakenIsLate
      <4>. QED BY <4>2, <4>3
    <3>2. ASSUME NEW i \in 1..Len(Sent(s)'), NEW j \in 1..Len(Sent(s)'), i < j,
                 Sent(s)'[i].stream = s, Sent(s)'[j].stream = s
          PROVE  Sent(s)'[i].seq < Sent(s)'[j].seq \/ Sent(s)'[j] \in late'
      <4>1. i \in 1..Len(Sent(s))
        BY <2>2, <2>3, <3>2
      <4>2. CASE j \in 1..Len(Sent(s))
        BY <1>4, <2>1, <2>2, <3>2, <4>1, <4>2 DEF LineOrder, LateOrOlder
      <4>3. CASE j = Len(Sent(s)) + 1
        BY <1>4, <2>2, <3>1, <3>2, <4>1, <4>3
      <4>. QED BY <2>3, <4>2, <4>3
    <3>. QED BY <3>2 DEF LateOrOlder
  <2>. QED BY <2>4, <2>5, <2>6 DEF LineOrder
<1>. QED BY <1>3, <1>4 DEF Posted

\* What the router takes out of the other streams' lines, or gives up, leaves the
\* rest in order.
LEMMA OrderRouted ==
    ASSUME Parts, Conserved, Order, NEW x \in Ts, Routed(x)
    PROVE  Order'
<1>1. Coming' = Coming /\ UNCHANGED <<senders, late>>
      /\ \A s \in Stream : Sent(s)' = Sent(s) \/ Leaves(s, x)
  BY DEF Routed
<1>2. ComingIsNewer'
  BY <1>1 DEF Order, ComingIsNewer
<1>3. ASSUME NEW s \in Stream PROVE LineOrder(s)'
  <2>1. LineOrder(s)
    BY DEF Order
  <2>2. CASE Sent(s)' = Sent(s)
    BY <1>1, <2>1, <2>2 DEF LineOrder, SentBeforeComing, OvertakenIsLate, LateOrOlder
  <2>3. CASE Leaves(s, x)
    <3>1. PICK h \in [1..Len(Sent(s)') -> 1..Len(Sent(s))] :
             /\ \A i \in 1..Len(Sent(s)') : Sent(s)'[i] = Sent(s)[h[i]]
             /\ \A i, j \in 1..Len(Sent(s)') : i < j => h[i] < h[j]
      BY <2>3, LeavesOrder
    <3>2. \A i \in 1..Len(Sent(s)') : h[i] \in 1..Len(Sent(s))
      OBVIOUS
    <3>3. SentBeforeComing(s)'
      BY <1>1, <2>1, <3>1, <3>2 DEF LineOrder, SentBeforeComing
    <3>4. OvertakenIsLate(s)'
      BY <1>1, <2>1, <3>1, <3>2 DEF LineOrder, OvertakenIsLate
    <3>5. LateOrOlder(s)'
      BY <1>1, <2>1, <3>1, <3>2 DEF LineOrder, LateOrOlder
    <3>. QED BY <3>3, <3>4, <3>5 DEF LineOrder
  <2>. QED BY <1>1, <2>2, <2>3
<1>. QED BY <1>2, <1>3 DEF Order

\* No step breaks the order.
LEMMA OrderStep ==
    ASSUME Parts, Conserved, Order, Move
    PROVE  Order'
<1>1. CASE Still
  BY <1>1 DEF Still, Order, ComingIsNewer, LineOrder, SentBeforeComing, OvertakenIsLate,
              LateOrOlder
<1>. QED BY <1>1, OrderAnnounced, OrderReleased, OrderPosted, OrderRouted DEF Move

--------------------------------------------------------------------------------
\* The theorems.

IInv == Parts /\ Fed /\ Conserved /\ Order

\* Nothing comes, waits or was sent at first.
LEMMA InitIInv == Init => IInv
<1>. SUFFICES ASSUME Init PROVE IInv
  OBVIOUS
<1>1. Parts /\ Fed
  BY InitParts
<1>2. Coming = <<>> /\ \A s \in Stream : Sent(s) = <<>>
  <2>1. <<>> \o <<>> = <<>>
    BY ConcatEmptySeq, EmptySeq
  <2>2. InHand(copier) = <<>> /\ InHand(router) = <<>>
    BY Hands DEF Init
  <2>. QED BY <2>1, <2>2 DEF Init, Coming, Sent
<1>3. Conserved
  <2>. SUFFICES ASSUME NEW m \in Ts PROVE Places(m) = Due(m)
    BY <1>1, ConservedPlaces
  <2>1. m.stream \in Stream /\ hooked[m.stream] = 0 /\ ~(m.seq <= 0)
    BY DEF Init, Ts
  <2>2. Count(Coming, m) = 0 /\ Count(Sent(m.stream), m) = 0
    BY <1>2, <2>1, CountOne
  <2>3. One(m \in senders) = 0 /\ One(m \in gone) = 0
    BY DEF Init, One
  <2>4. Due(m) = 0
    BY <2>1 DEF Due, One
  <2>. QED BY <2>2, <2>3, <2>4 DEF Places
<1>4. Order
  BY <1>2, EmptySeq DEF Init, Order, ComingIsNewer, LineOrder, SentBeforeComing,
                        OvertakenIsLate, LateOrOlder
<1>. QED BY <1>1, <1>3, <1>4 DEF IInv

\* IInv is an invariant of the specification.
LEMMA Invariance == Spec => []IInv
<1>1. IInv /\ [Next]_vars => IInv'
  <2>. SUFFICES ASSUME IInv, [Next]_vars PROVE IInv'
    OBVIOUS
  <2>1. Parts' /\ Fed'
    BY CopierStep, RouterStep, OtherStep DEF Next, IInv
  <2>2. Move
    BY MoveStep DEF IInv
  <2>. QED BY <2>1, <2>2, ConservedStep, OrderStep DEF IInv
<1>. QED BY <1>1, InitIInv, PTL DEF Spec

\* Channels stay within their capacities, and no worker has a file before it is in the
\* map: what the router feeds is a worker that it found or created (detect.go:164).
THEOREM DetectTypeCorrect == Spec => []TypeOK
<1>1. IInv => TypeOK
  BY TypeParts DEF IInv
<1>. QED BY <1>1, Invariance, PTL

\* No announced file is lost or duplicated on its way to the worker of its stream,
\* whatever the channels, the hand-over goroutines and the cancel do.
THEOREM FilesConserved == Spec => []Conserved
<1>1. IInv => Conserved
  BY DEF IInv
<1>. QED BY <1>1, Invariance, PTL

\* A newer file of a stream is ahead of an older one only if it overtook it in the
\* hand-over goroutines: the copier, the channels and the router keep the order.
THEOREM OvertakingIsWaiting == Spec => []OnlyWaitingIsOvertaken
<1>1. IInv => OnlyWaitingIsOvertaken
  BY DEF IInv, Order, LineOrder, LateOrOlder, OnlyWaitingIsOvertaken
<1>. QED BY <1>1, Invariance, PTL
================================================================================
