-------------------------- MODULE FinishPlaylistProofs --------------------------
(***************************************************************************)
(* Proofs about FinishPlaylist for every value of its constants.           *)
(*                                                                         *)
(* The segments are numbered as they come, so the queue is known by two    *)
(* numbers: its cell i holds added - len + i, and one more once a dequeue  *)
(* has moved it (Queued).  What a request reads is compared with Base, the *)
(* number before the first segment it saw: its cell i never goes below     *)
(* Base + i, and before the second dequeue never above Base + i + 1        *)
(* (Within), whether the queue is still in this array or has left it.      *)
(* So the answers begin ever later in the queue (Fronts), and SRS's        *)
(* numbers, of which nothing is assumed, are compared only between         *)
(* segments of which the order is known (Numbered).                        *)
(***************************************************************************)
EXTENDS FinishPlaylist, SequenceTheorems, TLAPS

Cell == Segment \cup {Nil}

\* The types, with the arrays and the answer in full.
Types ==
    /\ arrays \in Seq(Seq(Cell)) /\ arrays # <<>>
    /\ len \in Nat /\ len <= Len(Cells)
    /\ moving \in Seq(Segment) /\ Len(moving) \in {0, len}
    /\ moved \subseteq 1..(Len(moving) - 1)
    /\ added \in 0..MaxSegments /\ requests \in 0..MaxRequests
    /\ seqNos \in Seq(Nat) /\ Len(seqNos) = added
    /\ answer \in [sequence : Nat, files : Seq(Segment), tags : SUBSET Nat]
    /\ answer.tags \subseteq 1..Len(answer.files)
    /\ snapshot \in Seq(Segment)
    /\ dequeues \in 0..MaxSegments

\* The request in progress is inside its array.
Reading ==
    reader # NoRequest =>
        /\ reader \in [at : {"read"}, array : 1..Len(arrays), files : Seq(Segment), len : Nat]
        /\ Len(reader.files) <= reader.len
        /\ reader.len <= Len(arrays[reader.array])

\* What cell i of the queue holds, a dequeue in progress included.
Held(i) == added - len + i + (IF i \in moved THEN 1 ELSE 0)

Queued ==
    /\ len <= added /\ (len = 0 => added = 0)
    /\ moving # <<>> => len > MaxFinish
    /\ \A i \in 1..len : Cells[i] = Held(i)
    /\ \A i \in 1..Len(moving) : moving[i] = added - len + i

\* While a request is read: the number before the first segment that it saw.
Base == added - len - dequeues + (IF moving = <<>> THEN 0 ELSE 1)

\* What the request can find at place i.
Within(i, v) ==
    /\ v \in Segment
    /\ Base + i <= v
    /\ dequeues <= 1 => v <= Base + i + dequeues

Views ==
    reader # NoRequest =>
        /\ Base \in Nat /\ Base + reader.len <= added
        /\ Len(snapshot) = reader.len
        /\ \A i \in 1..reader.len : snapshot[i] = Base + i
        /\ \A i \in 1..reader.len : Within(i, arrays[reader.array][i])
        /\ \A i \in 1..Len(reader.files) : Within(i, reader.files[i])

\* The first segment that a request could read now: it never goes back.
Foremost == Held(1)

\* Where the answer begins.
Began == IF answer.files = <<>> THEN 0 ELSE answer.files[1]

\* Successive answers: none began behind the front, and the request in progress
\* began at or after the answer.
Fronts ==
    /\ Began <= Foremost
    /\ added = 0 => answer.files = <<>> /\ answer.tags = {}
    /\ reader # NoRequest =>
        /\ reader.len = 0 => answer.files = <<>> /\ answer.tags = {}
        /\ reader.len > 0 => /\ Began <= Base + 1
                             /\ arrays[reader.array][1] <= Foremost
        /\ Len(reader.files) > 0 => reader.files[1] <= Foremost

\* What the requests and the answer promise together.
Answered ==
    reader = NoRequest =>
        /\ dequeues <= 1 => \A i, j \in 1..Len(answer.files) :
                               i < j => answer.files[i] <= answer.files[j]

\* The numbers of SRS that the answer shows.
Numbered ==
    /\ answer.files # <<>> => Began \in 1..added /\ answer.sequence = seqNos[Began]
    /\ answer.files = <<>> => answer.sequence = 0
    /\ reader = NoRequest /\ dequeues = 0 =>
        /\ \A i \in 1..(Len(answer.files) - 2) : answer.files[i] \in 1..(added - 1)
        /\ TagsTellJumps

IInv == Types /\ Reading /\ Queued /\ Views /\ Fronts /\ Answered /\ Numbered

--------------------------------------------------------------------------------
\* Lemmas about the arrays.

\* Writing one cell of one array leaves every other cell alone.
LEMMA WriteCell ==
    ASSUME NEW A \in Seq(Seq(Cell)), NEW n \in 1..Len(A), NEW i \in 1..Len(A[n]),
           NEW v \in Cell
    PROVE  LET B == [A EXCEPT ![n][i] = v]
           IN  /\ B \in Seq(Seq(Cell)) /\ Len(B) = Len(A)
               /\ \A a \in 1..Len(A) : Len(B[a]) = Len(A[a])
               /\ \A a \in 1..Len(A) : \A j \in 1..Len(A[a]) :
                     B[a][j] = IF a = n /\ j = i THEN v ELSE A[a][j]
<1>. DEFINE c == [A[n] EXCEPT ![i] = v]
<1>1. A[n] \in Seq(Cell)
  BY ElementOfSeq
<1>2. /\ c \in Seq(Cell) /\ Len(c) = Len(A[n])
      /\ \A j \in 1..Len(A[n]) : c[j] = IF j = i THEN v ELSE A[n][j]
  BY <1>1, ExceptSeq
<1>3. [A EXCEPT ![n][i] = v] = [A EXCEPT ![n] = c]
  OBVIOUS
<1>. HIDE DEF c
<1>4. /\ [A EXCEPT ![n] = c] \in Seq(Seq(Cell)) /\ Len([A EXCEPT ![n] = c]) = Len(A)
      /\ \A a \in 1..Len(A) : [A EXCEPT ![n] = c][a] = IF a = n THEN c ELSE A[a]
  <2>. DEFINE S == Seq(Cell)
  <2>1. A \in Seq(S) /\ c \in S
    BY <1>2
  <2>. HIDE DEF S
  <2>2. /\ [A EXCEPT ![n] = c] \in Seq(S) /\ Len([A EXCEPT ![n] = c]) = Len(A)
        /\ \A a \in 1..Len(A) : [A EXCEPT ![n] = c][a] = IF a = n THEN c ELSE A[a]
    BY <2>1, ExceptSeq
  <2>. QED BY <2>2 DEF S
<1>. QED BY <1>2, <1>3, <1>4

\* A larger array begins with the cells of the full one and the new segment.
LEMMA LargerArray ==
    ASSUME NEW c \in Seq(Cell), NEW s \in Segment
    PROVE  LET d == Append(c, s) \o [i \in 1..(Len(c) - 1) |-> Nil]
           IN  /\ d \in Seq(Cell) /\ Len(c) + 1 <= Len(d)
               /\ \A i \in 1..Len(c) : d[i] = c[i]
               /\ d[Len(c) + 1] = s
<1>. DEFINE e == [i \in 1..(Len(c) - 1) |-> Nil]
            b == Append(c, s)
<1>1. /\ b \in Seq(Cell) /\ Len(b) = Len(c) + 1 /\ Len(c) \in Nat
      /\ \A i \in 1..Len(c) : b[i] = c[i]
      /\ b[Len(c) + 1] = s
  BY AppendProperties DEF Cell
<1>2. e \in Seq(Cell) /\ Len(e) \in Nat
  <2>1. CASE Len(c) = 0
    <3>1. 1..(Len(c) - 1) = {}
      BY <2>1
    <3>2. e = <<>>
      BY <3>1
    <3>. QED BY <3>2, EmptySeq
  <2>2. CASE Len(c) # 0
    <3>1. Len(c) - 1 \in Nat
      BY <1>1, <2>2
    <3>. QED BY <3>1 DEF Cell
  <2>. QED BY <2>1, <2>2
<1>. HIDE DEF e, b
<1>3. /\ b \o e \in Seq(Cell) /\ Len(b \o e) = Len(b) + Len(e)
      /\ \A i \in 1..Len(b) + Len(e) : (b \o e)[i] = IF i <= Len(b) THEN b[i] ELSE e[i - Len(b)]
  BY <1>1, <1>2, ConcatProperties
<1>4. /\ b \o e \in Seq(Cell) /\ Len(c) + 1 <= Len(b \o e)
      /\ \A i \in 1..Len(c) : (b \o e)[i] = c[i]
      /\ (b \o e)[Len(c) + 1] = s
  BY <1>1, <1>2, <1>3
<1>. QED BY <1>4 DEF e, b

\* The array of the queue.
LEMMA CellsFacts ==
    ASSUME Types
    PROVE  /\ Len(arrays) \in Nat \ {0} /\ Len(arrays) \in 1..Len(arrays)
           /\ Cells = arrays[Len(arrays)] /\ Cells \in Seq(Cell) /\ Len(Cells) \in Nat
           /\ \A a \in 1..Len(arrays) : arrays[a] \in Seq(Cell) /\ Len(arrays[a]) \in Nat
<1>. DEFINE S == Seq(Cell)
<1>1. arrays \in Seq(S) /\ arrays # <<>>
  BY DEF Types
<1>. HIDE DEF S
<1>2. Len(arrays) \in Nat \ {0} /\ Cells = arrays[Len(arrays)]
      /\ \A a \in 1..Len(arrays) : arrays[a] \in S
  BY <1>1, EmptySeq, ElementOfSeq DEF Cells, Last
<1>. QED BY <1>2 DEF S

\* enqueue writes the new segment behind the queue, in this array or in the next.
LEMMA EnqueueCells ==
    ASSUME Types, Enqueue
    PROVE  /\ arrays' \in Seq(Seq(Cell)) /\ arrays' # <<>> /\ Len(arrays) <= Len(arrays')
           /\ \A a \in 1..Len(arrays) : Len(arrays'[a]) = Len(arrays[a])
           /\ \A a \in 1..Len(arrays) : \A j \in 1..Len(arrays[a]) :
                 \/ arrays'[a][j] = arrays[a][j]
                 \/ j = len + 1 /\ arrays'[a][j] = added + 1
           /\ len + 1 <= Len(Cells') /\ Cells'[len + 1] = added + 1
           /\ \A j \in 1..len : Cells'[j] = Cells[j]
<1>1. /\ Len(arrays) \in Nat \ {0} /\ Len(arrays) \in 1..Len(arrays)
      /\ Cells = arrays[Len(arrays)] /\ Cells \in Seq(Cell) /\ Len(Cells) \in Nat
      /\ \A a \in 1..Len(arrays) : arrays[a] \in Seq(Cell) /\ Len(arrays[a]) \in Nat
      /\ arrays \in Seq(Seq(Cell)) /\ len \in Nat /\ len <= Len(Cells)
  BY CellsFacts DEF Types
<1>2. added + 1 \in Segment /\ added + 1 \in Cell
  BY PlaylistAssumption DEF PlaylistAssumption, Types, Enqueue, Segment, Cell
<1>3. Cells' = arrays'[Len(arrays')]
  BY DEF Cells, Last
<1>4. CASE len < Len(Cells)
  <2>. DEFINE B == [arrays EXCEPT ![Len(arrays)][len + 1] = added + 1]
  <2>1. arrays' = B
    BY <1>4 DEF Enqueue, AppendSegment
  <2>2. len + 1 \in 1..Len(arrays[Len(arrays)])
    BY <1>1, <1>4
  <2>3. /\ B \in Seq(Seq(Cell)) /\ Len(B) = Len(arrays)
        /\ \A a \in 1..Len(arrays) : Len(B[a]) = Len(arrays[a])
        /\ \A a \in 1..Len(arrays) : \A j \in 1..Len(arrays[a]) :
              B[a][j] = IF a = Len(arrays) /\ j = len + 1 THEN added + 1 ELSE arrays[a][j]
    BY <1>1, <1>2, <2>2, WriteCell
  <2>. HIDE DEF B
  <2>4. B # <<>>
    BY <1>1, <2>3, EmptySeq
  <2>5. /\ len + 1 <= Len(B[Len(B)]) /\ B[Len(B)][len + 1] = added + 1
        /\ \A j \in 1..len : B[Len(B)][j] = Cells[j]
    BY <1>1, <1>4, <2>2, <2>3
  <2>. QED BY <1>3, <2>1, <2>3, <2>4, <2>5
<1>5. CASE len = Len(Cells)
  <2>. DEFINE S == Seq(Cell)
              d == Append(Cells, added + 1) \o [i \in 1..(Len(Cells) - 1) |-> Nil]
  <2>1. arrays' = Append(arrays, d)
    <3>1. ~(len < Len(Cells))
      BY <1>1, <1>5
    <3>. QED BY <3>1 DEF Enqueue, AppendSegment
  <2>2. /\ d \in S /\ Len(Cells) + 1 <= Len(d)
        /\ \A i \in 1..Len(Cells) : d[i] = Cells[i]
        /\ d[Len(Cells) + 1] = added + 1
    BY <1>1, <1>2, LargerArray
  <2>3. arrays \in Seq(S)
    BY <1>1
  <2>. HIDE DEF d, S
  <2>4. /\ arrays' \in Seq(S) /\ arrays' # <<>> /\ Len(arrays') = Len(arrays) + 1
        /\ \A a \in 1..Len(arrays) : arrays'[a] = arrays[a]
        /\ arrays'[Len(arrays) + 1] = d
    BY <2>1, <2>2, <2>3, AppendProperties
  <2>5. Cells' = d
    BY <1>3, <2>4
  <2>6. arrays' \in Seq(Seq(Cell))
    BY <2>4 DEF S
  <2>7. /\ len + 1 <= Len(Cells') /\ Cells'[len + 1] = added + 1
        /\ \A j \in 1..len : Cells'[j] = Cells[j]
    BY <1>5, <2>2, <2>5
  <2>8. Len(arrays) <= Len(arrays')
    BY <1>1, <2>4
  <2>. QED BY <2>4, <2>6, <2>7, <2>8
<1>6. len < Len(Cells) \/ len = Len(Cells)
  BY <1>1
<1>. QED BY <1>4, <1>5, <1>6

\* dequeue moves the cells forward, one by one.
LEMMA MoveCells ==
    ASSUME Types, Queued, NEW i \in 1..MaxSegments, MoveCell(i)
    PROVE  /\ arrays' \in Seq(Seq(Cell)) /\ arrays' # <<>> /\ Len(arrays') = Len(arrays)
           /\ \A a \in 1..Len(arrays) : Len(arrays'[a]) = Len(arrays[a])
           /\ \A a \in 1..Len(arrays) : \A j \in 1..Len(arrays[a]) :
                 \/ arrays'[a][j] = arrays[a][j]
                 \/ j = i /\ arrays'[a][j] = added - len + i + 1
           /\ Len(Cells') = Len(Cells) /\ Cells'[i] = added - len + i + 1
           /\ \A j \in 1..len : j # i => Cells'[j] = Cells[j]
           /\ i < len /\ moving # <<>> /\ i \notin moved /\ Len(moving) = len
           /\ added - len + i + 1 \in Segment
<1>1. /\ Len(arrays) \in Nat \ {0} /\ Len(arrays) \in 1..Len(arrays)
      /\ Cells = arrays[Len(arrays)] /\ Cells \in Seq(Cell) /\ Len(Cells) \in Nat
      /\ \A a \in 1..Len(arrays) : arrays[a] \in Seq(Cell) /\ Len(arrays[a]) \in Nat
      /\ arrays \in Seq(Seq(Cell)) /\ len \in Nat /\ len <= Len(Cells)
  BY CellsFacts DEF Types
<1>2. i \in 1..(Len(moving) - 1) /\ i \notin moved
  BY DEF MoveCell, Unmoved
<1>3. Len(moving) = len /\ i < len /\ i + 1 \in 1..Len(moving) /\ moving # <<>>
  <2>1. Len(moving) \in {0, len}
    BY DEF Types
  <2>2. moving # <<>>
    BY <1>1, <1>2, <2>1, EmptySeq
  <2>. QED BY <1>1, <1>2, <2>1, <2>2
<1>4. moving[i + 1] = added - len + i + 1 /\ moving[i + 1] \in Segment
  <2>1. moving[i + 1] \in Segment
    BY <1>3, ElementOfSeq DEF Types
  <2>2. moving[i + 1] = added - len + (i + 1)
    BY <1>3 DEF Queued
  <2>. QED BY <1>1, <1>3, <2>1, <2>2 DEF Types
<1>. DEFINE v == moving[i + 1]
            B == [arrays EXCEPT ![Len(arrays)][i] = v]
<1>5. arrays' = B
  BY DEF MoveCell
<1>6. v \in Cell /\ v = added - len + i + 1 /\ v \in Segment
  BY <1>4 DEF Cell
<1>. HIDE DEF v
<1>7. i \in 1..Len(arrays[Len(arrays)])
  BY <1>1, <1>3
<1>8. /\ B \in Seq(Seq(Cell)) /\ Len(B) = Len(arrays)
      /\ \A a \in 1..Len(arrays) : Len(B[a]) = Len(arrays[a])
      /\ \A a \in 1..Len(arrays) : \A j \in 1..Len(arrays[a]) :
            B[a][j] = IF a = Len(arrays) /\ j = i THEN v ELSE arrays[a][j]
  BY <1>1, <1>6, <1>7, WriteCell
<1>. HIDE DEF B
<1>9. Cells' = B[Len(B)]
  BY <1>5 DEF Cells, Last
<1>10. B # <<>>
  BY <1>1, <1>8, EmptySeq
<1>11. /\ Len(Cells') = Len(Cells) /\ Cells'[i] = v
       /\ \A j \in 1..len : j # i => Cells'[j] = Cells[j]
  <2>1. Cells' = B[Len(arrays)]
    BY <1>8, <1>9
  <2>2. \A j \in 1..len : j \in 1..Len(arrays[Len(arrays)])
    BY <1>1
  <2>3. /\ Len(B[Len(arrays)]) = Len(Cells) /\ B[Len(arrays)][i] = v
        /\ \A j \in 1..len : j # i => B[Len(arrays)][j] = arrays[Len(arrays)][j]
    BY <1>1, <1>7, <1>8, <2>2
  <2>. QED BY <1>1, <2>1, <2>3
<1>12. \A a \in 1..Len(arrays) : \A j \in 1..Len(arrays[a]) :
          \/ arrays'[a][j] = arrays[a][j]
          \/ j = i /\ arrays'[a][j] = v
  BY <1>5, <1>8
<1>. QED BY <1>2, <1>3, <1>5, <1>6, <1>8, <1>10, <1>11, <1>12

--------------------------------------------------------------------------------
\* The steps of the queue.

\* What the numbers are, and that nothing is moved but during a dequeue.
LEMMA Numbers ==
    ASSUME Types
    PROVE  /\ len \in Nat /\ added \in Nat /\ dequeues \in Nat /\ Began \in Nat
           /\ moving = <<>> => moved = {} /\ Len(moving) = 0
           /\ moving # <<>> => Len(moving) = len /\ len > 0
           /\ \A i \in Nat : Held(i) = added - len + i + (IF i \in moved THEN 1 ELSE 0)
<1>1. len \in Nat /\ added \in Nat /\ dequeues \in Nat /\ Began \in Nat
  <2>1. answer.files # <<>> => 1 \in 1..Len(answer.files) /\ answer.files[1] \in Segment
    BY EmptySeq, ElementOfSeq DEF Types
  <2>. QED BY <2>1, PlaylistAssumption DEF PlaylistAssumption, Types, Began, Segment
<1>2. CASE moving = <<>>
  <2>1. Len(moving) = 0
    BY <1>2, EmptySeq
  <2>2. 1..(Len(moving) - 1) = {}
    BY <2>1
  <2>. QED BY <1>1, <1>2, <2>1, <2>2 DEF Types, Held
<1>3. CASE moving # <<>>
  <2>1. Len(moving) \in Nat \ {0}
    BY <1>3, EmptySeq DEF Types
  <2>. QED BY <1>1, <1>3, <2>1 DEF Types, Held
<1>. QED BY <1>2, <1>3

\* The request in progress and its array.
LEMMA ReaderFacts ==
    ASSUME Types, Reading, reader # NoRequest
    PROVE  /\ reader.array \in 1..Len(arrays)
           /\ reader.len \in Nat /\ reader.len <= Len(arrays[reader.array])
           /\ \A j \in 1..reader.len : j \in 1..Len(arrays[reader.array])
           /\ reader.files \in Seq(Segment) /\ Len(reader.files) \in Nat
           /\ Len(reader.files) <= reader.len
           /\ Len(reader.files) > 0 => reader.files[1] \in Nat
<1>1. /\ reader.array \in 1..Len(arrays) /\ reader.len \in Nat
      /\ reader.files \in Seq(Segment)
      /\ Len(reader.files) <= reader.len /\ reader.len <= Len(arrays[reader.array])
  BY DEF Reading
<1>2. Len(reader.files) \in Nat /\ Len(arrays[reader.array]) \in Nat
  BY <1>1, CellsFacts, LenProperties
<1>3. Len(reader.files) > 0 => reader.files[1] \in Segment
  <2>1. Len(reader.files) > 0 => 1 \in 1..Len(reader.files)
    BY <1>2
  <2>. QED BY <1>1, <2>1, ElementOfSeq
<1>. QED BY <1>1, <1>2, <1>3 DEF Segment

\* A request in progress keeps what it has and what it will find, when the step
\* writes nothing that it may not find.
LEMMA ViewsKept ==
    ASSUME Types, Reading, Views,
           Base' = Base, added <= added', added' \in Nat,
           reader' = reader, snapshot' = snapshot, dequeues' \in {dequeues, dequeues + 1},
           reader # NoRequest =>
              \A j \in 1..reader.len :
                 \/ arrays'[reader.array][j] = arrays[reader.array][j]
                 \/ /\ arrays'[reader.array][j] \in Segment
                    /\ arrays'[reader.array][j] = Base + j + dequeues
                    /\ dequeues' = dequeues
    PROVE  Views'
<1>. SUFFICES ASSUME reader # NoRequest PROVE Views'
  BY DEF Views
<1>0. Segment \subseteq Nat
  BY DEF Segment
<1>1. /\ added \in Nat /\ dequeues \in Nat /\ Base \in Nat
      /\ reader.len \in Nat /\ Len(reader.files) \in Nat
  BY Numbers, ReaderFacts DEF Views
<1>2. ASSUME NEW i \in Nat, NEW v, Within(i, v)
      PROVE  v \in Segment /\ Base' + i <= v /\ (dequeues' <= 1 => v <= Base' + i + dequeues')
  <2>1. v \in Nat
    BY <1>0, <1>2 DEF Within
  <2>2. CASE dequeues' = dequeues
    BY <1>1, <1>2, <2>1, <2>2 DEF Within
  <2>3. CASE dequeues' = dequeues + 1
    BY <1>1, <1>2, <2>1, <2>3 DEF Within
  <2>. QED BY <2>2, <2>3
<1>3. \A i \in 1..reader.len : Within(i, arrays[reader.array][i])'
  <2>. SUFFICES ASSUME NEW i \in 1..reader.len
                PROVE  Within(i, arrays[reader.array][i])'
    BY <1>1
  <2>. DEFINE v == arrays'[reader.array][i]
  <2>0. i \in Nat
    BY <1>1
  <2>1. CASE v = arrays[reader.array][i]
    <3>1. Within(i, v)
      BY <2>1 DEF Views
    <3>. QED BY <1>2, <2>0, <3>1 DEF Within
  <2>2. CASE v \in Segment /\ v = Base + i + dequeues /\ dequeues' = dequeues
    BY <1>1, <2>2 DEF Within
  <2>. QED BY <2>1, <2>2
<1>4. \A i \in 1..Len(reader.files) : Within(i, reader.files[i])'
  BY <1>1, <1>2 DEF Views, Within
<1>. QED BY <1>1, <1>3, <1>4 DEF Views

\* SRS's number of a segment never changes, so an answer shows what it did.
LEMMA NumberedKept ==
    ASSUME Types, Numbered, answer' = answer, added' \in Nat, added <= added',
           \A k \in 1..added : seqNos'[k] = seqNos[k],
           reader' = NoRequest => reader = NoRequest /\ dequeues' = dequeues
    PROVE  Numbered'
<1>1. added \in Nat
  BY Numbers
<1>2. answer.files # <<>> => Began' = Began /\ (Began \in 1..added => seqNos'[Began] = seqNos[Began])
  BY DEF Began
<1>3. ASSUME reader' = NoRequest, dequeues' = 0
      PROVE  /\ \A i \in 1..(Len(answer.files) - 2) : answer.files[i] \in 1..(added - 1)
             /\ answer.tags = {i \in 1..(Len(answer.files) - 2) : Jump(answer.files[i])}
             /\ \A i \in 1..(Len(answer.files) - 2) : Jump(answer.files[i])' <=> Jump(answer.files[i])
  <2>1. /\ \A i \in 1..(Len(answer.files) - 2) : answer.files[i] \in 1..(added - 1)
        /\ answer.tags = {i \in 1..(Len(answer.files) - 2) : Jump(answer.files[i])}
    BY <1>3 DEF Numbered, TagsTellJumps
  <2>2. \A k \in 1..(added - 1) : seqNos'[k] = seqNos[k] /\ seqNos'[k + 1] = seqNos[k + 1]
    BY <1>1
  <2>. QED BY <2>1, <2>2 DEF Jump
<1>4. reader' = NoRequest /\ dequeues' = 0 =>
        /\ \A i \in 1..(Len(answer'.files) - 2) : answer'.files[i] \in 1..(added' - 1)
        /\ TagsTellJumps'
  <2>. SUFFICES ASSUME reader' = NoRequest, dequeues' = 0
                PROVE  /\ \A i \in 1..(Len(answer'.files) - 2) : answer'.files[i] \in 1..(added' - 1)
                       /\ TagsTellJumps'
    OBVIOUS
  <2>1. 1..(added - 1) \subseteq 1..(added' - 1)
    BY <1>1
  <2>2. answer'.tags = {i \in 1..(Len(answer'.files) - 2) : Jump(answer.files[i])'}
    BY <1>3
  <2>. QED BY <1>3, <2>1, <2>2 DEF TagsTellJumps
<1>. QED BY <1>1, <1>2, <1>4 DEF Numbered

\* SRS's numbers are numbers, and a new one leaves the others alone.
LEMMA NewNumber ==
    ASSUME Types, NEW n \in NextNumbers
    PROVE  /\ n \in Nat
           /\ Append(seqNos, n) \in Seq(Nat) /\ Len(Append(seqNos, n)) = added + 1
           /\ \A k \in 1..added : Append(seqNos, n)[k] = seqNos[k]
<1>1. seqNos \in Seq(Nat) /\ Len(seqNos) = added /\ added \in Nat
  BY Numbers DEF Types
<1>2. \A k \in {added} \ {0} : seqNos[k] + 1 \in Nat
  BY <1>1, ElementOfSeq
<1>3. n \in Nat
  BY <1>2, PlaylistAssumption DEF NextNumbers, PlaylistAssumption
<1>. QED BY <1>1, <1>3, AppendProperties

\* enqueue: the new segment has the number that the cell behind the queue is due.
LEMMA EnqueueStep == IInv /\ Enqueue => IInv'
<1>. SUFFICES ASSUME IInv, Enqueue PROVE IInv'
  OBVIOUS
<1>. USE DEF IInv
<1>1. /\ added' = added + 1 /\ len' = len + 1 /\ moving = <<>> /\ added < MaxSegments
      /\ UNCHANGED <<moving, moved, reader, requests, answer, snapshot, dequeues>>
  BY DEF Enqueue, Unlocked
<1>0. /\ seqNos' \in Seq(Nat) /\ Len(seqNos') = added + 1
      /\ \A k \in 1..added : seqNos'[k] = seqNos[k]
  BY NewNumber DEF Enqueue
<1>2. /\ len \in Nat /\ added \in Nat /\ dequeues \in Nat /\ moved = {} /\ Len(moving) = 0
      /\ \A i \in Nat : Held(i) = added - len + i + (IF i \in moved THEN 1 ELSE 0)
  BY <1>1, Numbers
<1>3. \A i \in Nat : Held(i)' = added - len + i
  BY <1>1, <1>2 DEF Held
<1>4. Types'
  <2>1. arrays' \in Seq(Seq(Cell)) /\ arrays' # <<>> /\ len' <= Len(Cells')
    BY <1>1, EnqueueCells
  <2>3. len' \in Nat /\ added' \in 0..MaxSegments
    BY <1>1, <1>2, PlaylistAssumption DEF PlaylistAssumption
  <2>2. Len(moving') \in {0, len'} /\ moved' \subseteq 1..(Len(moving') - 1)
    BY <1>1, <1>2
  <2>. QED BY <1>0, <1>1, <2>1, <2>2, <2>3 DEF Types
<1>5. Reading'
  BY <1>1, CellsFacts, EnqueueCells DEF Reading
<1>6. Queued'
  <2>1. \A i \in 1..(len + 1) : Cells'[i] = Held(i)'
    <3>1. \A i \in 1..len : Cells'[i] = added - len + i
      <4>1. \A i \in 1..len : i \in Nat /\ Cells'[i] = Held(i)
        <5>1. \A i \in 1..len : i \in Nat /\ Cells[i] = Held(i)
          BY DEF Queued
        <5>. QED BY <5>1, EnqueueCells
      <4>2. \A i \in Nat : Held(i) = added - len + i
        BY <1>2
      <4>. QED BY <4>1, <4>2
    <3>2. Cells'[len + 1] = added - len + (len + 1)
      BY <1>2, EnqueueCells
    <3>3. \A i \in 1..(len + 1) : i \in Nat /\ (i \in 1..len \/ i = len + 1)
      BY <1>2
    <3>. QED BY <1>3, <3>1, <3>2, <3>3
  <2>. QED BY <1>1, <1>2, <2>1 DEF Queued
<1>7. Base' = Base
  BY <1>1, <1>2 DEF Base
<1>8. Base = added - len - dequeues /\ added + 1 \in Segment
  BY <1>1, <1>2, PlaylistAssumption DEF Base, Segment, PlaylistAssumption
<1>9. reader # NoRequest =>
         /\ reader.array \in 1..Len(arrays) /\ reader.len \in Nat
         /\ \A j \in 1..reader.len : j \in 1..Len(arrays[reader.array])
  BY ReaderFacts
<1>10. reader # NoRequest =>
          \A j \in 1..reader.len :
             \/ arrays'[reader.array][j] = arrays[reader.array][j]
             \/ j = len + 1 /\ arrays'[reader.array][j] = added + 1
  BY <1>9, EnqueueCells
<1>11. Views'
  <2>1. reader # NoRequest =>
           \A j \in 1..reader.len :
              \/ arrays'[reader.array][j] = arrays[reader.array][j]
              \/ /\ arrays'[reader.array][j] \in Segment
                 /\ arrays'[reader.array][j] = Base + j + dequeues
                 /\ dequeues' = dequeues
    <3>. SUFFICES ASSUME reader # NoRequest, NEW j \in 1..reader.len
                  PROVE  \/ arrays'[reader.array][j] = arrays[reader.array][j]
                         \/ /\ arrays'[reader.array][j] \in Segment
                            /\ arrays'[reader.array][j] = Base + j + dequeues
                            /\ dequeues' = dequeues
      OBVIOUS
    <3>1. added + 1 = Base + (len + 1) + dequeues
      BY <1>2, <1>8
    <3>. QED BY <1>1, <1>8, <1>10, <3>1
  <2>. QED BY <1>1, <1>2, <1>7, <2>1, ViewsKept
<1>12. Fronts'
  <2>1. Foremost' = Foremost /\ Foremost = added - len + 1
    BY <1>2, <1>3 DEF Foremost
  <2>2. reader # NoRequest /\ reader.len > 0 => arrays'[reader.array][1] <= Foremost
    <3>. SUFFICES ASSUME reader # NoRequest, reader.len > 0
                  PROVE  arrays'[reader.array][1] <= Foremost
      OBVIOUS
    <3>1. \/ arrays'[reader.array][1] = arrays[reader.array][1]
          \/ 1 = len + 1 /\ arrays'[reader.array][1] = added + 1
      BY <1>9, <1>10
    <3>. QED BY <1>2, <2>1, <3>1 DEF Fronts
  <2>. QED BY <1>1, <1>2, <1>7, <2>1, <2>2 DEF Fronts, Began
<1>13. Answered'
  BY <1>1 DEF Answered
<1>14. Numbered'
  BY <1>0, <1>1, <1>2, NumberedKept
<1>. QED BY <1>4, <1>5, <1>6, <1>11, <1>12, <1>13, <1>14

\* Between two dequeues the queue holds the newest segments, in order.
LEMMA QueueFacts ==
    ASSUME Types, Queued, moving = <<>>
    PROVE  /\ Queue \in Seq(Segment) /\ Len(Queue) = len
           /\ \A i \in 1..len : /\ Queue[i] = added - len + i
                                /\ Cells[i] = added - len + i
                                /\ added - len + i \in Segment
<1>1. /\ len \in Nat /\ added \in Nat /\ moved = {} /\ MaxSegments \in Nat
      /\ \A i \in Nat : Held(i) = added - len + i + (IF i \in moved THEN 1 ELSE 0)
  BY Numbers, PlaylistAssumption DEF PlaylistAssumption
<1>2. \A i \in 1..len : Cells[i] = added - len + i
  <2>1. \A i \in 1..len : i \in Nat /\ Cells[i] = Held(i)
    BY DEF Queued
  <2>2. \A i \in Nat : Held(i) = added - len + i
    BY <1>1
  <2>. QED BY <2>1, <2>2
<1>3. len <= added /\ added <= MaxSegments
  BY <1>1 DEF Queued, Types
<1>4. \A i \in 1..len : added - len + i \in Segment
  BY <1>1, <1>3 DEF Segment
<1>5. /\ SubSeq(Cells, 1, len) \in Seq(Segment) /\ Len(SubSeq(Cells, 1, len)) = len
      /\ \A i \in 1..len : SubSeq(Cells, 1, len)[i] = Cells[i]
  <2>1. \A i \in 1..len : Cells[i] \in Segment
    BY <1>2, <1>4
  <2>. QED BY <1>1, <2>1, SubSeqProperties
<1>. QED BY <1>2, <1>4, <1>5 DEF Queue

\* A dequeue begins: the queue is as it was.
LEMMA BeginDequeueStep == IInv /\ BeginDequeue => IInv'
<1>. SUFFICES ASSUME IInv, BeginDequeue PROVE IInv'
  OBVIOUS
<1>. USE DEF IInv
<1>1. /\ moving = <<>> /\ len > MaxFinish /\ moving' = Queue /\ moved' = {}
      /\ dequeues' = IF reader = NoRequest THEN dequeues ELSE dequeues + 1
      /\ UNCHANGED <<arrays, len, added, seqNos, reader, requests, answer, snapshot>>
  BY DEF BeginDequeue, Unlocked
<1>2. /\ len \in Nat /\ added \in Nat /\ dequeues \in Nat /\ moved = {} /\ Len(moving) = 0
      /\ \A i \in Nat : Held(i) = added - len + i + (IF i \in moved THEN 1 ELSE 0)
      /\ MaxFinish \in Nat \ {0} /\ MaxSegments \in Nat
  BY <1>1, Numbers, PlaylistAssumption DEF PlaylistAssumption
<1>3. \A i \in Nat : Held(i)' = added - len + i /\ Held(i) = added - len + i
  BY <1>1, <1>2 DEF Held
<1>4. /\ Queue \in Seq(Segment) /\ Len(Queue) = len
      /\ \A i \in 1..len : Queue[i] = added - len + i
  BY <1>1, QueueFacts
<1>5. moving' # <<>> /\ len > 0
  BY <1>1, <1>2, <1>4, EmptySeq
<1>6. reader # NoRequest => Base' = Base
  BY <1>1, <1>2, <1>5 DEF Base
<1>7. dequeues' \in 0..MaxSegments
  BY <1>1, <1>2, <1>5, <1>6 DEF Types, Views, Base
<1>8. Types'
  BY <1>1, <1>2, <1>4, <1>7 DEF Types, Cells
<1>9. Reading'
  BY <1>1 DEF Reading
<1>10. Queued'
  <2>1. Cells' = Cells
    BY <1>1 DEF Cells
  <2>2. \A i \in 1..len : Cells'[i] = Held(i)'
    BY <1>2, <1>3, <2>1 DEF Queued
  <2>. QED BY <1>1, <1>2, <1>4, <2>2 DEF Queued
<1>11. Views'
  <2>1. CASE reader = NoRequest
    BY <1>1, <2>1 DEF Views
  <2>2. CASE reader # NoRequest
    BY <1>1, <1>2, <1>6, <2>2, ViewsKept
  <2>. QED BY <2>1, <2>2
<1>12. Fronts'
  <2>1. Foremost' = Foremost
    BY <1>3 DEF Foremost
  <2>. QED BY <1>1, <1>6, <2>1 DEF Fronts, Began
<1>13. Answered'
  BY <1>1 DEF Answered
<1>14. Numbered'
  BY <1>1, <1>2, NumberedKept
<1>. QED BY <1>8, <1>9, <1>10, <1>11, <1>12, <1>13, <1>14

\* A cell moves: it holds the number that it holds once the dequeue has ended.
LEMMA MoveCellStep ==
    ASSUME IInv, NEW i \in 1..MaxSegments, MoveCell(i)
    PROVE  IInv'
<1>. USE DEF IInv
<1>1. /\ moved' = moved \cup {i}
      /\ UNCHANGED <<len, moving, added, seqNos, reader, requests, answer, snapshot,
                   dequeues>>
  BY DEF MoveCell
<1>2. /\ len \in Nat /\ added \in Nat /\ dequeues \in Nat /\ Len(moving) = len
      /\ i \in Nat /\ i < len /\ moving # <<>> /\ i \notin moved
      /\ \A j \in Nat : Held(j) = added - len + j + (IF j \in moved THEN 1 ELSE 0)
  <2>1. moving # <<>> /\ i \notin moved /\ i < len /\ i \in Nat
    BY MoveCells
  <2>. QED BY <2>1, Numbers
<1>3. /\ \A j \in Nat : j # i => Held(j)' = Held(j)
      /\ Held(i)' = added - len + i + 1 /\ Held(i) = added - len + i
  BY <1>1, <1>2 DEF Held
<1>4. Types'
  <2>1. /\ arrays' \in Seq(Seq(Cell)) /\ arrays' # <<>>
        /\ len' <= Len(Cells')
    BY <1>1, MoveCells DEF Types
  <2>2. moved' \subseteq 1..(Len(moving') - 1)
    <3>1. moved \subseteq 1..(len - 1) /\ i \in 1..(len - 1)
      BY <1>2 DEF Types
    <3>. QED BY <1>1, <1>2, <3>1
  <2>. QED BY <1>1, <2>1, <2>2 DEF Types
<1>5. Reading'
  BY <1>1, CellsFacts, MoveCells DEF Reading
<1>6. Queued'
  <2>1. \A j \in 1..len : Cells'[j] = Held(j)'
    <3>1. \A j \in 1..len : j \in Nat /\ Cells[j] = Held(j)
      BY DEF Queued
    <3>. QED BY <1>3, <3>1, MoveCells
  <2>. QED BY <1>1, <2>1 DEF Queued
<1>7. Base' = Base /\ Base = added - len - dequeues + 1
  BY <1>1, <1>2 DEF Base
<1>8. Views'
  <2>1. ASSUME reader # NoRequest, NEW j \in 1..reader.len
        PROVE  \/ arrays'[reader.array][j] = arrays[reader.array][j]
               \/ /\ arrays'[reader.array][j] \in Segment
                  /\ arrays'[reader.array][j] = Base + j + dequeues
                  /\ dequeues' = dequeues
    <3>1. reader.array \in 1..Len(arrays) /\ j \in 1..Len(arrays[reader.array])
      BY <2>1, ReaderFacts
    <3>2. \/ arrays'[reader.array][j] = arrays[reader.array][j]
          \/ j = i /\ arrays'[reader.array][j] = added - len + i + 1
      BY <3>1, MoveCells
    <3>3. added - len + i + 1 = Base + i + dequeues /\ added - len + i + 1 \in Segment
      BY <1>2, <1>7, MoveCells
    <3>. QED BY <1>1, <3>2, <3>3
  <2>. QED BY <1>1, <1>2, <1>7, <2>1, ViewsKept
<1>9. Fronts'
  <2>1. Foremost <= Foremost'
    BY <1>2, <1>3 DEF Foremost
  <2>2. ASSUME reader # NoRequest, reader.len > 0
        PROVE  arrays'[reader.array][1] <= Foremost'
    <3>1. 1 \in 1..reader.len /\ reader.array \in 1..Len(arrays)
          /\ 1 \in 1..Len(arrays[reader.array])
      BY <2>2, ReaderFacts
    <3>2. \/ arrays'[reader.array][1] = arrays[reader.array][1]
          \/ 1 = i /\ arrays'[reader.array][1] = added - len + i + 1
      BY <3>1, MoveCells
    <3>3. CASE arrays'[reader.array][1] = arrays[reader.array][1]
      <4>1. arrays[reader.array][1] \in Segment
        BY <2>2, <3>1 DEF Views, Within
      <4>. QED BY <1>2, <1>3, <2>1, <2>2, <3>3, <4>1 DEF Fronts, Foremost, Segment
    <3>4. CASE 1 = i /\ arrays'[reader.array][1] = added - len + i + 1
      BY <1>2, <1>3, <3>4 DEF Foremost
    <3>. QED BY <3>2, <3>3, <3>4
  <2>3. Foremost \in Int /\ Foremost' \in Int
    BY <1>2, <1>3 DEF Foremost
  <2>4. Began <= Foremost'
    BY <2>1, <2>3, Numbers DEF Fronts
  <2>5. reader # NoRequest /\ Len(reader.files) > 0 => reader.files[1] <= Foremost'
    <3>1. reader # NoRequest /\ Len(reader.files) > 0 => reader.files[1] \in Nat
      BY ReaderFacts
    <3>. QED BY <2>1, <2>3, <3>1 DEF Fronts
  <2>. QED BY <1>1, <1>7, <2>2, <2>4, <2>5 DEF Fronts, Began
<1>10. Answered'
  BY <1>1 DEF Answered
<1>11. Numbered'
  BY <1>1, <1>2, NumberedKept
<1>. QED BY <1>4, <1>5, <1>6, <1>8, <1>9, <1>10, <1>11

\* A dequeue ends: the cells it moved are the queue.
LEMMA EndDequeueStep == IInv /\ EndDequeue => IInv'
<1>. SUFFICES ASSUME IInv, EndDequeue PROVE IInv'
  OBVIOUS
<1>. USE DEF IInv
<1>1. /\ moving # <<>> /\ Unmoved = {} /\ len' = len - 1 /\ moving' = <<>> /\ moved' = {}
      /\ UNCHANGED <<arrays, added, seqNos, reader, requests, answer, snapshot, dequeues>>
  BY DEF EndDequeue
<1>2. /\ len \in Nat /\ added \in Nat /\ dequeues \in Nat /\ Len(moving) = len /\ len > 0
      /\ \A i \in Nat : Held(i) = added - len + i + (IF i \in moved THEN 1 ELSE 0)
      /\ len > MaxFinish /\ MaxFinish \in Nat \ {0}
  BY <1>1, Numbers, PlaylistAssumption DEF PlaylistAssumption, Queued
<1>3. moved = 1..(len - 1)
  BY <1>1, <1>2 DEF Unmoved, Types
<1>4. /\ \A i \in 1..(len - 1) : i \in 1..len /\ Held(i)' = Held(i)
      /\ Foremost' = added - len + 2
      /\ Foremost \in Int /\ Foremost <= added - len + 2
  BY <1>1, <1>2, <1>3 DEF Held, Foremost
<1>5. Cells' = Cells
  BY <1>1 DEF Cells
<1>6. Types'
  <2>1. /\ len' \in Nat /\ len' <= Len(Cells')
    BY <1>1, <1>2, <1>5, CellsFacts DEF Types
  <2>2. moving' \in Seq(Segment) /\ Len(moving') = 0 /\ moved' \subseteq 1..(Len(moving') - 1)
    BY <1>1, EmptySeq
  <2>. QED BY <1>1, <2>1, <2>2 DEF Types
<1>7. Reading'
  BY <1>1 DEF Reading
<1>8. Queued'
  <2>1. \A i \in 1..len' : Cells'[i] = Held(i)'
    BY <1>1, <1>4, <1>5 DEF Queued
  <2>2. len' <= added' /\ len' # 0 /\ Len(moving') = 0
    BY <1>1, <1>2, EmptySeq DEF Queued
  <2>. QED BY <1>1, <2>1, <2>2 DEF Queued
<1>9. Base' = Base
  BY <1>1, <1>2 DEF Base
<1>10. Views'
  BY <1>1, <1>2, <1>9, ViewsKept
<1>11. Fronts'
  <2>1. Began <= Foremost'
    BY <1>2, <1>4, Numbers DEF Fronts
  <2>2. ASSUME reader # NoRequest
        PROVE  /\ reader.len > 0 => arrays[reader.array][1] <= Foremost'
               /\ Len(reader.files) > 0 => reader.files[1] <= Foremost'
    <3>1. reader.len > 0 => arrays[reader.array][1] \in Nat
      BY <2>2, ReaderFacts DEF Views, Within, Segment
    <3>2. Len(reader.files) > 0 => reader.files[1] \in Nat
      BY <2>2, ReaderFacts
    <3>. QED BY <1>2, <1>4, <2>2, <3>1, <3>2 DEF Fronts
  <2>. QED BY <1>1, <1>9, <2>1, <2>2 DEF Fronts, Began
<1>12. Answered'
  BY <1>1 DEF Answered
<1>13. Numbered'
  BY <1>1, <1>2, NumberedKept
<1>. QED BY <1>6, <1>7, <1>8, <1>10, <1>11, <1>12, <1>13

--------------------------------------------------------------------------------
\* The steps of a request.

\* A request sees the queue between two dequeues.
LEMMA LookStep == IInv /\ Look => IInv'
<1>. SUFFICES ASSUME IInv, Look PROVE IInv'
  OBVIOUS
<1>. USE DEF IInv
<1>1. /\ moving = <<>> /\ snapshot' = Queue /\ dequeues' = 0
      /\ requests' = requests + 1 /\ requests < MaxRequests
      /\ reader' = [at |-> "read", array |-> Len(arrays), files |-> <<>>, len |-> len]
      /\ UNCHANGED <<arrays, len, moving, moved, added, seqNos, answer>>
  BY DEF Look, Unlocked
<1>2. /\ len \in Nat /\ added \in Nat /\ moved = {} /\ len <= added
      /\ \A i \in Nat : Held(i) = added - len + i + (IF i \in moved THEN 1 ELSE 0)
      /\ MaxSegments \in Nat /\ MaxRequests \in Nat
  BY <1>1, Numbers, PlaylistAssumption DEF PlaylistAssumption, Queued
<1>3. /\ Queue \in Seq(Segment) /\ Len(Queue) = len
      /\ \A i \in 1..len : /\ Queue[i] = added - len + i
                           /\ Cells[i] = added - len + i
                           /\ added - len + i \in Segment
  BY <1>1, QueueFacts
<1>4. /\ Len(arrays) \in 1..Len(arrays) /\ Cells = arrays[Len(arrays)] /\ len <= Len(Cells)
      /\ Cells' = Cells
  BY <1>1, CellsFacts DEF Types, Cells
<1>5. Types'
  <2>1. /\ UNCHANGED <<arrays, len, moving, moved, added, seqNos, answer>> /\ snapshot' \in Seq(Segment)
        /\ requests' \in 0..MaxRequests /\ dequeues' \in 0..MaxSegments
    BY <1>1, <1>2, <1>3 DEF Types
  <2>. QED BY <1>4, <2>1 DEF Types
<1>6. Reading'
  BY <1>1, <1>2, <1>4, EmptySeq DEF Reading
<1>7. Queued'
  BY <1>1, <1>4 DEF Queued, Held
<1>8. Base' = added - len
  BY <1>1, <1>2 DEF Base
<1>9. Views'
  <2>1. \A i \in 1..len : Within(i, arrays[Len(arrays)][i])'
    <3>. SUFFICES ASSUME NEW i \in 1..len PROVE Within(i, arrays[Len(arrays)][i])'
      BY <1>1
    <3>1. arrays'[Len(arrays')][i] = added - len + i /\ added - len + i \in Segment
      BY <1>1, <1>3, <1>4
    <3>2. Base' + i = added - len + i /\ Base' + i + dequeues' = added - len + i
      BY <1>1, <1>2, <1>8
    <3>3. added - len + i <= added - len + i
      BY <1>2
    <3>. QED BY <3>1, <3>2, <3>3 DEF Within
  <2>2. Len(<<>>) = 0
    BY EmptySeq
  <2>. QED BY <1>1, <1>2, <1>3, <1>8, <2>1, <2>2 DEF Views
<1>10. Fronts'
  <2>1. Foremost' = Foremost /\ Foremost = added - len + 1
    BY <1>1, <1>2 DEF Foremost, Held
  <2>2. len = 0 => answer.files = <<>> /\ answer.tags = {}
    BY DEF Queued, Fronts
  <2>3. len > 0 => Cells[1] = Foremost
    BY <1>2, <1>3, <2>1
  <2>4. Len(<<>>) = 0
    BY EmptySeq
  <2>5. /\ len > 0 => Began <= added - len + 1 /\ Cells[1] <= Foremost
        /\ Foremost \in Int
    BY <1>2, <2>1, <2>3 DEF Fronts
  <2>6. /\ answer' = answer /\ added' = added
        /\ reader'.len = len /\ reader'.files = <<>>
        /\ len > 0 => arrays'[reader'.array][1] = Cells[1]
    BY <1>1, <1>4
  <2>7. Began <= Foremost /\ (added = 0 => answer.files = <<>> /\ answer.tags = {})
    BY DEF Fronts
  <2>. QED BY <1>8, <2>1, <2>2, <2>4, <2>5, <2>6, <2>7 DEF Fronts, Began
<1>11. Answered'
  BY <1>1 DEF Answered, NoRequest
<1>12. Numbered'
  <2>1. reader' # NoRequest
    BY <1>1 DEF NoRequest
  <2>. QED BY <1>1, <1>2, <2>1, NumberedKept
<1>. QED BY <1>5, <1>6, <1>7, <1>9, <1>10, <1>11, <1>12

\* A request reads one cell, whatever became of it since it looked.
LEMMA ReadCellStep == IInv /\ ReadCell => IInv'
<1>. SUFFICES ASSUME IInv, ReadCell PROVE IInv'
  OBVIOUS
<1>. USE DEF IInv
<1>. DEFINE n == Len(reader.files) + 1
            v == arrays[reader.array][n]
<1>1. /\ reader # NoRequest /\ Len(reader.files) < reader.len
      /\ reader' = [reader EXCEPT !.files = Append(@, v)]
      /\ UNCHANGED <<arrays, len, moving, moved, added, seqNos, requests, answer, snapshot,
                   dequeues>>
  BY DEF ReadCell
<1>2. /\ reader.array \in 1..Len(arrays)
      /\ reader.len \in Nat /\ reader.len <= Len(arrays[reader.array])
      /\ reader.files \in Seq(Segment) /\ Len(reader.files) \in Nat
      /\ reader \in [at : {"read"}, array : 1..Len(arrays), files : Seq(Segment), len : Nat]
  BY <1>1, ReaderFacts DEF Reading
<1>3. n \in 1..reader.len
  BY <1>1, <1>2
<1>4. Within(n, v) /\ v \in Segment
  BY <1>1, <1>3 DEF Views, Within
<1>. HIDE DEF v
<1>5. /\ Append(reader.files, v) \in Seq(Segment)
      /\ Len(Append(reader.files, v)) = n
      /\ \A i \in 1..Len(reader.files) : Append(reader.files, v)[i] = reader.files[i]
      /\ Append(reader.files, v)[n] = v
  BY <1>2, <1>4, AppendProperties
<1>6. /\ reader' \in [at : {"read"}, array : 1..Len(arrays), files : Seq(Segment), len : Nat]
      /\ reader'.array = reader.array /\ reader'.len = reader.len /\ reader'.at = "read"
      /\ reader'.files = Append(reader.files, v)
  BY <1>1, <1>2, <1>5
<1>. HIDE DEF n
<1>7. Types'
  BY <1>1 DEF Types, Cells
<1>8. Reading'
  BY <1>1, <1>2, <1>3, <1>5, <1>6 DEF Reading
<1>9. Queued'
  BY <1>1 DEF Queued, Held, Cells
<1>10. Base' = Base /\ Foremost' = Foremost
  BY <1>1 DEF Base, Foremost, Held
<1>11. Views'
  <2>1. \A i \in 1..n : Within(i, reader'.files[i])
    <3>1. \A i \in 1..n : i \in 1..Len(reader.files) \/ i = n
      BY <1>2 DEF n
    <3>2. \A i \in 1..Len(reader.files) : Within(i, reader.files[i])
      BY <1>1 DEF Views
    <3>. QED BY <1>4, <1>5, <1>6, <3>1, <3>2
  <2>. QED BY <1>1, <1>5, <1>6, <1>10, <2>1 DEF Views, Within
<1>12. Fronts'
  <2>1. reader'.files[1] <= Foremost
    <3>1. CASE n = 1
      BY <1>1, <1>2, <1>5, <1>6, <3>1 DEF Fronts, n, v
    <3>2. CASE n # 1
      BY <1>1, <1>2, <1>5, <1>6, <3>2 DEF Fronts, n
    <3>. QED BY <3>1, <3>2
  <2>. QED BY <1>1, <1>6, <1>10, <2>1 DEF Fronts, Began
<1>13. Answered'
  BY <1>6 DEF Answered, NoRequest
<1>14. Numbered'
  BY <1>1, <1>6, Numbers, NumberedKept DEF NoRequest
<1>. QED BY <1>7, <1>8, <1>9, <1>11, <1>12, <1>13, <1>14

\* What a request has read is in order until a second dequeue, and one segment after
\* the other until the first.
LEMMA FilesRead ==
    ASSUME Types, Reading, Views, reader # NoRequest
    PROVE  LET f == reader.files
           IN  /\ dequeues <= 1 => \A i, j \in 1..Len(f) : i < j => f[i] <= f[j]
               /\ dequeues = 0 =>
                    /\ \A i \in 1..(Len(f) - 2) : f[i] \in 1..(added - 1)
                    /\ Tags(f) = {i \in 1..(Len(f) - 2) : Jump(f[i])}
<1>. DEFINE f == reader.files
<1>1. /\ Len(f) \in Nat /\ f \in Seq(Segment) /\ dequeues \in Nat /\ Base \in Nat
      /\ Segment \subseteq Nat
  BY ReaderFacts, Numbers DEF Views, Segment
<1>6. Base + Len(f) <= added /\ added \in Nat
  <2>1. Base + reader.len <= added /\ Len(f) <= reader.len /\ reader.len \in Nat
    BY ReaderFacts DEF Views
  <2>. QED BY <1>1, <2>1, Numbers
<1>2. \A i \in 1..Len(f) : /\ f[i] \in Nat /\ i \in Nat /\ Base + i <= f[i]
                           /\ dequeues <= 1 => f[i] <= Base + i + dequeues
  <2>. SUFFICES ASSUME NEW i \in 1..Len(f)
                PROVE  /\ f[i] \in Nat /\ i \in Nat /\ Base + i <= f[i]
                       /\ dequeues <= 1 => f[i] <= Base + i + dequeues
    OBVIOUS
  <2>1. Within(i, f[i])
    BY DEF Views
  <2>2. /\ f[i] \in Segment /\ Base + i <= f[i]
        /\ dequeues <= 1 => f[i] <= Base + i + dequeues
    BY <2>1 DEF Within
  <2>. HIDE DEF f
  <2>3. Len(f) \in Nat /\ Segment \subseteq Nat
    BY <1>1
  <2>4. f[i] \in Nat
    BY <2>2, <2>3, Zenon
  <2>5. i \in Nat
    BY <2>3
  <2>. QED BY <2>2, <2>4, <2>5
<1>. HIDE DEF f
<1>3. ASSUME dequeues <= 1, NEW i \in 1..Len(f), NEW j \in 1..Len(f), i < j
      PROVE  f[i] <= f[j]
  BY <1>1, <1>2, <1>3
<1>4. ASSUME dequeues = 0, NEW i \in 1..(Len(f) - 2)
      PROVE  f[i + 1] = f[i] + 1 /\ f[i] \in 1..(added - 1)
  <2>1. i \in 1..Len(f) /\ i + 1 \in 1..Len(f)
    BY <1>1
  <2>2. ASSUME NEW j \in 1..Len(f) PROVE f[j] = Base + j
    <3>1. dequeues <= 1 /\ j \in Int
      BY <1>1, <1>4
    <3>2. f[j] \in Nat /\ Base + j <= f[j] /\ f[j] <= Base + j + dequeues
      BY <1>2, <3>1
    <3>. QED BY <1>1, <1>4, <3>1, <3>2
  <2>3. f[i] = Base + i /\ f[i + 1] = Base + (i + 1)
    BY <2>1, <2>2
  <2>. QED BY <1>1, <1>6, <2>3
<1>5. dequeues = 0 => Tags(f) = {i \in 1..(Len(f) - 2) : Jump(f[i])}
  BY <1>4 DEF Tags, Jump
<1>. QED BY <1>3, <1>4, <1>5 DEF f

\* The media sequence goes back only with SRS's numbers.
Grows ==
    \/ answer'.sequence >= answer.sequence
    \/ \E i, j \in 1..added : /\ i < j
                             /\ seqNos[i] = answer.sequence
                             /\ seqNos[j] = answer'.sequence

\* The answer begins at or after the one before it.
LEMMA AnswerStep == IInv /\ Answer => IInv' /\ Grows
<1>. SUFFICES ASSUME IInv, Answer PROVE IInv' /\ Grows
  OBVIOUS
<1>. USE DEF IInv
<1>. DEFINE f == reader.files
<1>1. /\ reader # NoRequest /\ Len(f) = reader.len /\ reader' = NoRequest
      /\ answer' = IF f = <<>> THEN answer ELSE BuildLive(f)
      /\ UNCHANGED <<arrays, len, moving, moved, added, seqNos, requests, snapshot,
                   dequeues>>
  BY DEF Answer
<1>2. /\ f \in Seq(Segment) /\ Len(f) \in Nat /\ dequeues \in Nat /\ added \in Nat
      /\ answer.sequence \in Nat /\ Began \in Nat /\ seqNos \in Seq(Nat) /\ Len(seqNos) = added
  BY <1>1, ReaderFacts, Numbers DEF Types
<1>3. /\ dequeues <= 1 => \A i, j \in 1..Len(f) : i < j => f[i] <= f[j]
      /\ dequeues = 0 =>
           /\ \A i \in 1..(Len(f) - 2) : f[i] \in 1..(added - 1)
           /\ Tags(f) = {i \in 1..(Len(f) - 2) : Jump(f[i])}
  BY <1>1, FilesRead
<1>. HIDE DEF f
<1>4. Base' = Base /\ Foremost' = Foremost /\ Cells' = Cells
  BY <1>1 DEF Base, Foremost, Held, Cells
<1>5. Reading' /\ Queued' /\ Views'
  BY <1>1, <1>4 DEF Reading, Queued, Views, Held
<1>6. CASE f = <<>>
  <2>1. answer' = answer /\ reader.len = 0
    BY <1>1, <1>6, EmptySeq
  <2>2. Types'
    BY <1>1, <1>4, <2>1 DEF Types
  <2>3. answer.files = <<>> /\ answer.tags = {}
    BY <1>1, <2>1 DEF Fronts
  <2>4. Len(answer.files) = 0
    BY <2>3, EmptySeq
  <2>5. Fronts'
    BY <1>1, <1>4, <2>1 DEF Fronts, Began
  <2>6. Answered'
    BY <2>1, <2>3, <2>4 DEF Answered
  <2>7. Numbered'
    BY <1>1, <2>1, <2>3, <2>4 DEF Numbered, TagsTellJumps, Began
  <2>8. Grows
    BY <1>2, <2>1 DEF Grows
  <2>. QED BY <1>5, <2>2, <2>5, <2>6, <2>7, <2>8
<1>7. CASE f # <<>>
  <2>1. answer' = [sequence |-> seqNos[Head(f)], files |-> f, tags |-> Tags(f)]
    BY <1>1, <1>7 DEF BuildLive
  <2>2. Len(f) > 0 /\ Head(f) = f[1] /\ 1 \in 1..Len(f)
    BY <1>2, <1>7, EmptySeq
  <2>3. f[1] \in Nat /\ Base \in Nat /\ Base + 1 <= f[1]
    BY <1>1, <2>2 DEF Views, Within, Segment, f
  <2>4. /\ Began <= Base + 1 /\ f[1] <= Foremost
        /\ added # 0
    BY <1>1, <1>2, <2>2, <2>3 DEF Fronts, Views, f
  <2>14. len \in Nat /\ len > 0
    BY <2>4, Numbers DEF Queued
  <2>9. Foremost <= added /\ Foremost \in Int
    <3>1. Foremost = added - len + 1 + (IF 1 \in moved THEN 1 ELSE 0)
      BY Numbers DEF Foremost
    <3>2. 1 \in moved => len > 1
      BY Numbers DEF Types
    <3>. QED BY <1>2, <2>14, <3>1, <3>2
  <2>10. f[1] \in 1..added /\ Began <= f[1] /\ seqNos[f[1]] \in Nat
    <3>1. f[1] \in 1..added /\ Began <= f[1]
      BY <1>2, <2>3, <2>4, <2>9
    <3>. QED BY <1>2, <3>1, ElementOfSeq
  <2>5. Tags(f) \subseteq 1..Len(f) /\ Tags(f) \subseteq Nat
    BY <1>2 DEF Tags
  <2>6. Types'
    <3>1. answer' \in [sequence : Nat, files : Seq(Segment), tags : SUBSET Nat]
      BY <1>2, <2>1, <2>2, <2>10, <2>5
    <3>2. /\ UNCHANGED <<arrays, len, moving, moved, added, seqNos, requests, snapshot,
                        dequeues>>
          /\ Cells' = Cells /\ answer'.tags \subseteq 1..Len(answer'.files)
      BY <1>1, <1>4, <2>1, <2>5
    <3>. HIDE DEF f
    <3>. QED BY <3>1, <3>2 DEF Types
  <2>7. Fronts'
    BY <1>1, <1>4, <2>1, <2>2, <2>4 DEF Fronts, Began
  <2>8. Answered'
    BY <1>1, <1>2, <1>3, <2>1 DEF Answered
  <2>11. Began' = f[1] /\ answer'.sequence = seqNos[f[1]]
    BY <1>7, <2>1, <2>2 DEF Began
  <2>12. Numbered'
    BY <1>1, <1>3, <1>7, <2>1, <2>10, <2>11 DEF Numbered, TagsTellJumps, Jump
  <2>13. Grows
    <3>1. CASE answer.files = <<>>
      BY <2>10, <2>11, <3>1 DEF Numbered, Grows
    <3>2. CASE answer.files # <<>>
      <4>1. Began \in 1..added /\ answer.sequence = seqNos[Began]
        BY <3>2 DEF Numbered
      <4>. QED BY <1>2, <2>10, <2>11, <4>1 DEF Grows
    <3>. QED BY <3>1, <3>2
  <2>. QED BY <1>5, <2>6, <2>7, <2>8, <2>12, <2>13
<1>. QED BY <1>6, <1>7

--------------------------------------------------------------------------------
\* The theorems.

\* At first there is one array without a cell, and no answer.
LEMMA InitIInv == Init => IInv
<1>. SUFFICES ASSUME Init PROVE IInv
  OBVIOUS
<1>1. /\ MaxFinish \in Nat \ {0} /\ MaxSegments \in Nat /\ MaxRequests \in Nat
      /\ Len(<<>>) = 0 /\ <<>> \in Seq(Cell) /\ <<>> \in Seq(Segment)
  BY PlaylistAssumption, EmptySeq DEF PlaylistAssumption
<1>2. << <<>> >> \in Seq(Seq(Cell)) /\ Len(<< <<>> >>) = 1 /\ << <<>> >>[1] = <<>>
  BY <1>1
<1>3. Cells = <<>> /\ arrays # <<>>
  BY <1>1, <1>2 DEF Init, Cells, Last
<1>4. Types
  BY <1>1, <1>2, <1>3 DEF Init, Types
<1>5. Queued
  BY <1>1 DEF Init, Queued
<1>6. Fronts
  BY DEF Init, Fronts, Foremost, Held, NoRequest, Began
<1>7. Answered
  BY <1>1 DEF Init, Answered
<1>8. Numbered
  BY <1>1 DEF Init, Numbered, TagsTellJumps, Began
<1>. QED BY <1>4, <1>5, <1>6, <1>7, <1>8 DEF IInv, Init, Reading, Views

\* IInv is an invariant, and no step takes the media sequence back.
LEMMA Step == IInv /\ [Next]_vars => IInv' /\ Grows
<1>. SUFFICES ASSUME IInv, [Next]_vars
              PROVE  IInv' /\ Grows
  OBVIOUS
<1>1. answer.sequence \in Nat
  BY DEF IInv, Types
<1>2. CASE Enqueue
  BY <1>1, <1>2, EnqueueStep DEF Enqueue, Grows
<1>3. CASE Dequeue
  <2>1. CASE BeginDequeue
    BY <1>1, <2>1, BeginDequeueStep DEF BeginDequeue, Grows
  <2>2. ASSUME NEW i \in 1..MaxSegments, MoveCell(i)
        PROVE  IInv' /\ Grows
    <3>1. answer' = answer
      BY <2>2 DEF MoveCell
    <3>. QED BY <1>1, <2>2, <3>1, MoveCellStep DEF Grows
  <2>3. CASE EndDequeue
    BY <1>1, <2>3, EndDequeueStep DEF EndDequeue, Grows
  <2>. QED BY <1>3, <2>1, <2>2, <2>3 DEF Dequeue
<1>4. CASE Look \/ ReadCell
  BY <1>1, <1>4, LookStep, ReadCellStep DEF Look, ReadCell, Grows
<1>5. CASE Answer
  BY <1>5, AnswerStep
<1>6. CASE UNCHANGED vars
  <2>1. /\ Types' /\ Reading' /\ Queued' /\ Views' /\ Fronts' /\ Answered'
        /\ Numbered'
    BY <1>6 DEF vars, IInv, Types, Reading, Queued, Views, Fronts, Answered, Held, Base,
                Within, Foremost, Cells, Numbered, TagsTellJumps, Jump, Began
  <2>. QED BY <1>1, <1>6, <2>1 DEF vars, IInv, Grows
<1>. QED BY <1>2, <1>3, <1>4, <1>5, <1>6 DEF Next, Request

\* IInv is an invariant of the specification.
LEMMA Invariance == Spec => []IInv
<1>1. IInv /\ [Next]_vars => IInv'
  BY Step
<1>. QED BY <1>1, InitIInv, PTL DEF Spec

\* Every view stays inside its array, and no request reads a nil: a dequeue never
\* clears a cell and enqueue never shrinks an array.
THEOREM TypeCorrect == Spec => []TypeOK
<1>1. IInv => TypeOK
  <2>. SUFFICES ASSUME IInv PROVE TypeOK
    OBVIOUS
  <2>1. Range(arrays) = {arrays[a] : a \in 1..Len(arrays)}
    <3>. DEFINE S == Seq(Cell)
    <3>1. arrays \in Seq(S)
      BY DEF IInv, Types
    <3>. HIDE DEF S
    <3>. QED BY <3>1, RangeEquality
  <2>2. \A a \in Range(arrays) : a \in Seq(Segment \cup {Nil})
    BY <2>1, CellsFacts DEF IInv, Cell
  <2>3. len \in 0..Len(Cells) /\ Len(moving) \in {0, len} /\ moved \subseteq 1..len
    <3>1. len \in 0..Len(Cells) /\ Len(moving) \in {0, len}
      BY CellsFacts DEF IInv, Types
    <3>2. 1..(Len(moving) - 1) \subseteq 1..len
      BY <3>1
    <3>. QED BY <3>1, <3>2 DEF IInv, Types
  <2>4. seqNos \in [1..added -> Nat]
    BY DEF IInv, Types
  <2>5. answer.files \in Seq(Segment)
    BY DEF IInv, Types
  <2>. QED BY <2>2, <2>3, <2>4, <2>5 DEF IInv, Types, Reading, TypeOK
<1>. QED BY <1>1, Invariance, PTL

\* No playlist goes back in the stream, whenever its cells are read and in
\* whatever order they are moved, unless two dequeues come meanwhile.
THEOREM PlaylistInOrder == Spec => []InOrder
<1>1. IInv => InOrder
  BY FilesRead DEF IInv, InOrder, Files, Answered
<1>. QED BY <1>1, Invariance, PTL

\* An undisturbed playlist is exact, and no playlist ends before the queue did when
\* the request looked at it, however many dequeues and enqueues come meanwhile.
THEOREM PlaylistExact == Spec => []UndisturbedIsExact
<1>1. IInv => UndisturbedIsExact
  <2>. SUFFICES ASSUME IInv, reader # NoRequest, Len(reader.files) = reader.len
                PROVE  /\ dequeues = 0 => reader.files = snapshot
                       /\ snapshot # <<>> => Last(snapshot) <= Last(reader.files)
    BY DEF UndisturbedIsExact
  <2>. DEFINE f == reader.files
  <2>1. /\ f \in Seq(Segment) /\ snapshot \in Seq(Segment) /\ Len(f) = Len(snapshot)
        /\ Len(f) \in Nat /\ Base \in Nat /\ dequeues \in Nat
    BY ReaderFacts, Numbers DEF IInv, Types, Views
  <2>2. \A i \in 1..Len(f) : /\ snapshot[i] = Base + i /\ f[i] \in Nat /\ Base + i <= f[i]
                             /\ dequeues <= 1 => f[i] <= Base + i + dequeues
    BY DEF IInv, Views, Within, Segment
  <2>. HIDE DEF f
  <2>3. ASSUME dequeues = 0 PROVE f = snapshot
    <3>1. \A i \in 1..Len(f) : f[i] = snapshot[i]
      <4>. SUFFICES ASSUME NEW i \in 1..Len(f) PROVE f[i] = snapshot[i]
        OBVIOUS
      <4>1. dequeues <= 1 /\ i \in Int
        BY <2>1, <2>3
      <4>2. /\ snapshot[i] = Base + i /\ f[i] \in Nat /\ Base + i <= f[i]
            /\ f[i] <= Base + i + dequeues
        BY <2>2, <4>1
      <4>. QED BY <2>1, <2>3, <4>1, <4>2
    <3>. QED BY <2>1, <3>1, SeqEqual
  <2>4. ASSUME snapshot # <<>> PROVE Last(snapshot) <= Last(f)
    <3>1. Len(f) \in 1..Len(f)
      BY <2>1, <2>4, EmptySeq
    <3>. QED BY <2>1, <2>2, <3>1 DEF Last
  <2>. QED BY <2>3, <2>4 DEF f
<1>. QED BY <1>1, Invariance, PTL

\* A playlist that no dequeue disturbed marks the jumps of SRS's numbers, and nothing
\* else, whatever enqueue did while it was read.
THEOREM TagsTell == Spec => []TagsTellJumps
<1>1. IInv => TagsTellJumps
  BY DEF IInv, Numbered, TagsTellJumps
<1>. QED BY <1>1, Invariance, PTL

\* Successive playlists take the media sequence back only with SRS's numbers, although
\* the queue shrinks, grows and changes its array between and during the requests.
THEOREM SequenceGrows == Spec => MediaSequenceGrows
<1>1. IInv /\ [Next]_vars => [Grows]_vars
  BY Step
<1>. QED BY <1>1, Invariance, PTL DEF Spec, MediaSequenceGrows, Grows
================================================================================
