--------------------------- MODULE StreamHooksProofs ---------------------------
(***************************************************************************)
(* ActiveIsLive and PublishedIsActive for any applications, streams,       *)
(* connections and number of failing calls.  The inductive invariant adds  *)
(* what the hooks of a stream have done so far, and that connections that  *)
(* have not met do not undo it.                                            *)
(***************************************************************************)
EXTENDS StreamHooks, TLAPS

\* A URL is published for the connection that publishes it.
Publisher ==
    \A c \in Conn, u \in Url :
        StreamURL(c) = u /\ conn[c].at = "publishing" <=> srs[u] = c

\* Unless they are noted, nobody starts or publishes a stream while somebody ends.
Apart ==
    \A c, d \in Conn :
        conn[c].key = conn[d].key /\ conn[c].key \notin overlapped =>
            (conn[c].at \in Ending => conn[d].at \notin Starting \cup {"publishing"})

\* What an on_publish has done so far still holds.
Begun ==
    \A c \in Conn :
        conn[c].key \notin overlapped =>
            /\ conn[c].at \in {"hset", "count", "accepted"}
                 => status[conn[c].key] \in {"LIVE", "deleted"}
            /\ conn[c].at \in {"count", "accepted"} => StreamURL(c) \in active

\* What an on_unpublish has done so far still holds.
Ended ==
    \A c \in Conn :
        conn[c].key \notin overlapped /\ conn[c].at \in {"endFind", "setIdle"}
            => StreamURL(c) \notin active

IInv ==
    /\ TypeOK /\ Publisher /\ Apart /\ Begun /\ Ended
    /\ ActiveIsLive /\ PublishedIsActive

--------------------------------------------------------------------------------
\* A URL is its application and its key.
LEMMA UrlFacts ==
    /\ \A c \in Conn : StreamURL(c)[1] = conn[c].app /\ StreamURL(c)[2] = conn[c].key
    /\ TypeOK => \A c \in Conn : StreamURL(c) \in Url
    /\ \A c \in Conn, u \in Url : u[1] = conn[c].app /\ u[2] = conn[c].key => u = StreamURL(c)
BY DEF StreamURL, Url, TypeOK

\* A connection keeps its URL, and does not become new again.
LEMMA UrlKept ==
    TypeOK /\ [Next]_vars =>
        \A c \in Conn : /\ conn'[c].key = conn[c].key /\ conn'[c].app = conn[c].app
                        /\ StreamURL(c)' = StreamURL(c)
                        /\ conn'[c].at = "new" => conn[c].at = "new"
<1>. SUFFICES ASSUME TypeOK, [Next]_vars, NEW c \in Conn
              PROVE  /\ conn'[c].key = conn[c].key /\ conn'[c].app = conn[c].app
                     /\ conn'[c].at = "new" => conn[c].at = "new"
  BY DEF StreamURL
<1>1. \/ conn' = conn
      \/ \E d \in Conn, place \in {"find", "setLive", "hset", "count", "accepted", "refused",
                                   "publishing", "away", "hdel", "endFind", "setIdle", "closed"} :
             Goto(d, place)
  BY DEF Next, Publish, OnPublish, Find, SetLive, HSet, Count, Acquire, Unpublish, OnUnpublish,
         HDel, EndFind, SetIdle, Fault, CreateStream, DeleteStream, vars
<1>. QED BY <1>1 DEF Goto, TypeOK

\* If a key has one URL after a step, it had one before.
LEMMA SoleKept ==
    TypeOK /\ [Next]_vars => \A u : SoleUrl(u)' => SoleUrl(u)
BY UrlKept DEF SoleUrl

\* Every step keeps the types, and the key of a connection that was verified stays
\* the key of a stream that was created.
LEMMA TypeStep == IInv /\ [Next]_vars => TypeOK'
<1>. SUFFICES ASSUME TypeOK, [Next]_vars PROVE TypeOK'
  BY DEF IInv
<1>. USE DEF TypeOK, Goto, Verifying, Starting, Ending
<1>0. /\ \A c \in Conn : /\ StreamURL(c) \in Url /\ StreamURL(c)[2] = conn[c].key
                         /\ StreamURL(c)' = StreamURL(c) /\ conn'[c].key = conn[c].key
  BY UrlFacts, UrlKept
<1>1. CASE \E c \in Conn : Publish(c) \/ Unpublish(c)
  BY <1>0, <1>1 DEF Publish, Unpublish, NoteOverlap
<1>2. CASE \E c \in Conn : OnPublish(c)
  <2>1. CASE \E c \in Conn : Find(c)
    BY HooksAssumption, <1>0, <2>1 DEF Find, Fault, Exists, HooksAssumption
  <2>2. CASE \E c \in Conn : SetLive(c)
    BY HooksAssumption, <1>0, <2>2 DEF SetLive, Fault, SetStatus, Exists, HooksAssumption
  <2>3. CASE \E c \in Conn : HSet(c)
    BY HooksAssumption, <1>0, <2>3 DEF HSet, Fault, HooksAssumption
  <2>4. CASE \E c \in Conn : Count(c)
    BY HooksAssumption, <1>0, <2>4 DEF Count, Fault, HooksAssumption
  <2>. QED BY <1>2, <2>1, <2>2, <2>3, <2>4 DEF OnPublish
<1>3. CASE \E c \in Conn : Acquire(c)
  BY <1>0, <1>3 DEF Acquire
<1>4. CASE \E c \in Conn : OnUnpublish(c)
  <2>1. ASSUME NEW c \in Conn, HDel(c) PROVE TypeOK'
    <3>1. /\ conn[c].at = "hdel" /\ status' = status /\ srs' = srs /\ overlapped' = overlapped
          /\ active' \subseteq active
          /\ Goto(c, "endFind") \/ Goto(c, "closed")
      BY <2>1 DEF HDel, Fault
    <3>2. faults' \in 0..MaxFaults
      BY HooksAssumption, <2>1 DEF HDel, Fault, HooksAssumption
    <3>. QED BY <1>0, <3>1, <3>2
  <2>2. CASE \E c \in Conn : EndFind(c)
    BY HooksAssumption, <1>0, <2>2 DEF EndFind, Fault, Exists, HooksAssumption
  <2>3. CASE \E c \in Conn : SetIdle(c)
    BY HooksAssumption, <1>0, <2>3 DEF SetIdle, Fault, SetStatus, Exists, HooksAssumption
  <2>. QED BY <1>4, <2>1, <2>2, <2>3 DEF OnUnpublish
<1>5. CASE \E s \in Stream : CreateStream(s) \/ DeleteStream(s)
  BY HooksAssumption, <1>0, <1>5 DEF CreateStream, DeleteStream, Exists, HooksAssumption
<1>6. CASE UNCHANGED vars
  BY <1>0, <1>6 DEF vars
<1>. QED BY <1>1, <1>2, <1>3, <1>4, <1>5, <1>6 DEF Next

\* SRS and its connections agree on who publishes.
LEMMA PublisherStep == IInv /\ [Next]_vars => Publisher'
<1>. SUFFICES ASSUME TypeOK, Publisher, [Next]_vars PROVE Publisher'
  BY DEF IInv
<1>. USE DEF TypeOK, Publisher, Goto, Verifying, Starting, Ending
<1>0. /\ \A c \in Conn : /\ StreamURL(c) \in Url /\ StreamURL(c)[2] = conn[c].key
                         /\ StreamURL(c)' = StreamURL(c) /\ conn'[c].key = conn[c].key
  BY UrlFacts, UrlKept
<1>1. CASE \E c \in Conn : Publish(c) \/ Unpublish(c)
  BY HooksAssumption, <1>0, <1>1 DEF Publish, Unpublish, NoteOverlap, HooksAssumption
<1>2. CASE \E c \in Conn : OnPublish(c)
  BY HooksAssumption, <1>0, <1>2 DEF OnPublish, Find, SetLive, HSet, Count, Fault, SetStatus, Exists, HooksAssumption
<1>3. CASE \E c \in Conn : Acquire(c)
  BY HooksAssumption, <1>0, <1>3 DEF Acquire, HooksAssumption
<1>4. CASE \E c \in Conn : OnUnpublish(c)
  BY HooksAssumption, <1>0, <1>4 DEF OnUnpublish, HDel, EndFind, SetIdle, Fault, SetStatus, Exists, HooksAssumption
<1>5. CASE \E s \in Stream : CreateStream(s) \/ DeleteStream(s)
  BY HooksAssumption, <1>0, <1>5 DEF CreateStream, DeleteStream, Exists, HooksAssumption
<1>6. CASE UNCHANGED vars
  BY HooksAssumption, <1>0, <1>6 DEF vars, HooksAssumption
<1>. QED BY <1>1, <1>2, <1>3, <1>4, <1>5, <1>6 DEF Next

\* A hook that starts while a hook of the other kind runs is noted as an overlap.
LEMMA ApartStep == IInv /\ [Next]_vars => Apart'
<1>. SUFFICES ASSUME TypeOK, Publisher, Apart, [Next]_vars PROVE Apart'
  BY DEF IInv
<1>. USE DEF TypeOK, Publisher, Apart, Goto, Verifying, Starting, Ending
<1>1. CASE \E c \in Conn : Publish(c) \/ Unpublish(c)
  <2>1. ASSUME NEW c \in Conn, Publish(c) PROVE Apart'
    <3>1. \A d \in Conn : d # c => conn'[d] = conn[d]
      BY <2>1 DEF Publish
    <3>2. conn'[c].at = "find" /\ conn'[c].key = conn[c].key
      BY <2>1 DEF Publish
    <3>3. /\ overlapped \subseteq overlapped'
          /\ \A d \in Conn : d # c /\ conn[d].key = conn[c].key /\ conn[d].at \in Ending
                => conn[c].key \in overlapped'
      BY <2>1 DEF Publish, NoteOverlap
    <3>. SUFFICES ASSUME NEW a \in Conn, NEW b \in Conn,
                         conn'[a].key = conn'[b].key, conn'[a].key \notin overlapped',
                         conn'[a].at \in Ending
                  PROVE  conn'[b].at \notin Starting \cup {"publishing"}
      OBVIOUS
    <3>5. CASE a = c
      BY <3>5, <3>1, <3>2, <3>3
    <3>6. CASE b = c /\ a # c
      BY <3>6, <3>1, <3>2, <3>3
    <3>7. CASE a # c /\ b # c
      BY <3>7, <3>1, <3>3
    <3>. QED BY <3>5, <3>6, <3>7
  <2>2. ASSUME NEW c \in Conn, Unpublish(c) PROVE Apart'
    <3>1. \A d \in Conn : d # c => conn'[d] = conn[d]
      BY <2>2 DEF Unpublish
    <3>2. conn'[c].at = "hdel" /\ conn'[c].key = conn[c].key
      BY <2>2 DEF Unpublish
    <3>3. /\ overlapped \subseteq overlapped'
          /\ \A d \in Conn : d # c /\ conn[d].key = conn[c].key
                            /\ conn[d].at \in Starting \cup {"publishing"}
                => conn[c].key \in overlapped'
      BY <2>2 DEF Unpublish, NoteOverlap
    <3>. SUFFICES ASSUME NEW a \in Conn, NEW b \in Conn,
                         conn'[a].key = conn'[b].key, conn'[a].key \notin overlapped',
                         conn'[a].at \in Ending
                  PROVE  conn'[b].at \notin Starting \cup {"publishing"}
      OBVIOUS
    <3>5. CASE a = c
      BY <3>5, <3>1, <3>2, <3>3
    <3>6. CASE b = c /\ a # c
      BY <3>6, <3>1, <3>2, <3>3
    <3>7. CASE a # c /\ b # c
      BY <3>7, <3>1, <3>3
    <3>. QED BY <3>5, <3>6, <3>7
  <2>. QED BY <1>1, <2>1, <2>2
<1>2. CASE \E c \in Conn : OnPublish(c)
  BY <1>2 DEF OnPublish, Find, SetLive, HSet, Count, Fault, SetStatus, Exists
<1>3. CASE \E c \in Conn : Acquire(c)
  BY <1>3 DEF Acquire
<1>4. CASE \E c \in Conn : OnUnpublish(c)
  BY <1>4 DEF OnUnpublish, HDel, EndFind, SetIdle, Fault, SetStatus, Exists
<1>5. CASE \E s \in Stream : CreateStream(s) \/ DeleteStream(s)
  BY <1>5 DEF CreateStream, DeleteStream, Exists
<1>6. CASE UNCHANGED vars
  BY <1>6 DEF vars
<1>. QED BY <1>1, <1>2, <1>3, <1>4, <1>5, <1>6 DEF Next

\* Only an on_unpublish, which is kept apart, could undo what an on_publish did.
LEMMA BegunStep == IInv /\ [Next]_vars => Begun'
<1>. SUFFICES ASSUME TypeOK, Apart, Begun, [Next]_vars PROVE Begun'
  BY DEF IInv
<1>. USE DEF TypeOK, Apart, Begun, Goto, Verifying, Starting, Ending
<1>0. /\ \A c \in Conn : /\ StreamURL(c) \in Url /\ StreamURL(c)[2] = conn[c].key
                         /\ StreamURL(c)' = StreamURL(c) /\ conn'[c].key = conn[c].key
  BY UrlFacts, UrlKept
<1>1. CASE \E c \in Conn : Publish(c) \/ Unpublish(c)
  BY <1>0, <1>1 DEF Publish, Unpublish, NoteOverlap
<1>2. CASE \E c \in Conn : OnPublish(c)
  <2>1. CASE \E c \in Conn : Find(c)
    BY <1>0, <2>1 DEF Find, Fault, Exists
  <2>2. CASE \E c \in Conn : SetLive(c)
    BY <1>0, <2>2 DEF SetLive, Fault, SetStatus, Exists
  <2>3. CASE \E c \in Conn : HSet(c)
    BY <1>0, <2>3 DEF HSet, Fault
  <2>4. CASE \E c \in Conn : Count(c)
    BY <1>0, <2>4 DEF Count, Fault
  <2>. QED BY <1>2, <2>1, <2>2, <2>3, <2>4 DEF OnPublish
<1>3. CASE \E c \in Conn : Acquire(c)
  BY <1>0, <1>3 DEF Acquire
<1>4. CASE \E c \in Conn : OnUnpublish(c)
  <2>1. CASE \E c \in Conn : HDel(c)
    BY <1>0, <2>1 DEF HDel, Fault
  <2>2. CASE \E c \in Conn : EndFind(c)
    BY <1>0, <2>2 DEF EndFind, Fault, Exists
  <2>3. CASE \E c \in Conn : SetIdle(c)
    BY <1>0, <2>3 DEF SetIdle, Fault, SetStatus, Exists
  <2>. QED BY <1>4, <2>1, <2>2, <2>3 DEF OnUnpublish
<1>5. CASE \E s \in Stream : CreateStream(s) \/ DeleteStream(s)
  BY <1>0, <1>5 DEF CreateStream, DeleteStream, Exists
<1>6. CASE UNCHANGED vars
  BY <1>0, <1>6 DEF vars
<1>. QED BY <1>1, <1>2, <1>3, <1>4, <1>5, <1>6 DEF Next

\* Only an on_publish, which is kept apart, could undo what an on_unpublish did.
LEMMA EndedStep == IInv /\ [Next]_vars => Ended'
<1>. SUFFICES ASSUME TypeOK, Apart, Ended, [Next]_vars PROVE Ended'
  BY DEF IInv
<1>. USE DEF TypeOK, Apart, Ended, Goto, Verifying, Starting, Ending
<1>0. /\ \A c \in Conn : /\ StreamURL(c) \in Url /\ StreamURL(c)[2] = conn[c].key
                         /\ StreamURL(c)' = StreamURL(c) /\ conn'[c].key = conn[c].key
  BY UrlFacts, UrlKept
<1>1. CASE \E c \in Conn : Publish(c) \/ Unpublish(c)
  BY <1>0, <1>1 DEF Publish, Unpublish, NoteOverlap
<1>2. CASE \E c \in Conn : OnPublish(c)
  <2>1. CASE \E c \in Conn : Find(c)
    BY <1>0, <2>1 DEF Find, Fault, Exists
  <2>2. CASE \E c \in Conn : SetLive(c)
    BY <1>0, <2>2 DEF SetLive, Fault, SetStatus, Exists
  <2>3. ASSUME NEW c \in Conn, HSet(c) PROVE Ended'
    <3>1. /\ active' \in {active, active \cup {StreamURL(c)}} /\ overlapped' = overlapped
          /\ \A d \in Conn : conn'[d].at \in Ending => conn[d].at = conn'[d].at
          /\ conn[c].at \in Starting
      BY <2>3 DEF HSet, Fault
    <3>2. \A d \in Conn : conn[d].key \notin overlapped /\ conn[d].at \in Ending
                            => StreamURL(d) # StreamURL(c)
      BY <1>0, <3>1
    <3>. QED BY <1>0, <3>1, <3>2
  <2>4. CASE \E c \in Conn : Count(c)
    BY <1>0, <2>4 DEF Count, Fault
  <2>. QED BY <1>2, <2>1, <2>2, <2>3, <2>4 DEF OnPublish
<1>3. CASE \E c \in Conn : Acquire(c)
  BY <1>0, <1>3 DEF Acquire
<1>4. CASE \E c \in Conn : OnUnpublish(c)
  <2>1. CASE \E c \in Conn : HDel(c)
    BY <1>0, <2>1 DEF HDel, Fault
  <2>2. CASE \E c \in Conn : EndFind(c)
    BY <1>0, <2>2 DEF EndFind, Fault, Exists
  <2>3. CASE \E c \in Conn : SetIdle(c)
    BY <1>0, <2>3 DEF SetIdle, Fault, SetStatus, Exists
  <2>. QED BY <1>4, <2>1, <2>2, <2>3 DEF OnUnpublish
<1>5. CASE \E s \in Stream : CreateStream(s) \/ DeleteStream(s)
  BY <1>0, <1>5 DEF CreateStream, DeleteStream, Exists
<1>6. CASE UNCHANGED vars
  BY <1>0, <1>6 DEF vars
<1>. QED BY <1>1, <1>2, <1>3, <1>4, <1>5, <1>6 DEF Next

\* HSET follows the update to LIVE, and the update to IDLE follows HDEL.
LEMMA ActiveStep == IInv /\ [Next]_vars => ActiveIsLive'
<1>. SUFFICES ASSUME IInv, [Next]_vars, NEW u \in active', SoleUrl(u)', u[2] \notin overlapped'
              PROVE  status'[u[2]] \in {"LIVE", "deleted"}
  BY DEF ActiveIsLive
<1>. DEFINE k == u[2]
            Live == status[k] \in {"LIVE", "deleted"}
<1>1. TypeOK /\ Begun /\ Ended
  BY DEF IInv
<1>2. u \in Url /\ k \in Stream
  BY TypeStep DEF TypeOK, Url
<1>3. SoleUrl(u)
  BY <1>1, SoleKept
<1>4. \A c \in Conn : conn[c].key = k /\ conn[c].at # "new" => StreamURL(c) = u
  BY <1>2, <1>3, UrlFacts DEF SoleUrl
<1>5. \A c \in Conn : StreamURL(c)[2] = conn[c].key
  BY UrlFacts
<1>6. u \in active /\ k \notin overlapped => Live
  BY <1>3 DEF IInv, ActiveIsLive
<1>. HIDE DEF k
<1>. USE DEF Goto, Fault
<1>7. CASE \E c \in Conn : Publish(c) \/ Unpublish(c)
  BY <1>6, <1>7 DEF Publish, Unpublish, NoteOverlap, k
<1>8. CASE \E c \in Conn : OnPublish(c)
  <2>1. CASE \E c \in Conn : Find(c) \/ Count(c)
    BY <1>6, <2>1 DEF Find, Count, k
  <2>2. CASE \E c \in Conn : SetLive(c)
    BY <1>1, <1>2, <1>6, <2>2 DEF SetLive, SetStatus, TypeOK, Exists, k
  <2>3. ASSUME NEW c \in Conn, HSet(c) PROVE status'[k] \in {"LIVE", "deleted"}
    <3>1. /\ conn[c].at = "hset" /\ status' = status /\ overlapped' = overlapped
          /\ u \in active \/ u = StreamURL(c)
      BY <2>3 DEF HSet
    <3>2. CASE u \in active
      BY <1>6, <3>1, <3>2 DEF k
    <3>3. CASE u = StreamURL(c)
      <4>1. conn[c].key = k /\ conn[c].key \notin overlapped
        BY <1>5, <3>1, <3>3 DEF k
      <4>. QED BY <1>1, <3>1, <4>1 DEF Begun
    <3>. QED BY <3>1, <3>2, <3>3
  <2>. QED BY <1>8, <2>1, <2>2, <2>3 DEF OnPublish, k
<1>9. CASE \E c \in Conn : Acquire(c)
  BY <1>6, <1>9 DEF Acquire, k
<1>10. CASE \E c \in Conn : OnUnpublish(c)
  <2>1. CASE \E c \in Conn : HDel(c) \/ EndFind(c)
    BY <1>6, <2>1 DEF HDel, EndFind, k
  <2>2. ASSUME NEW c \in Conn, SetIdle(c) PROVE status'[k] \in {"LIVE", "deleted"}
    <3>1. /\ conn[c].at = "setIdle" /\ active' = active /\ overlapped' = overlapped
          /\ status' \in {status, IF Exists(conn[c].key)
                                    THEN [status EXCEPT ![conn[c].key] = "IDLE"] ELSE status}
      BY <2>2 DEF SetIdle, SetStatus
    <3>2. conn[c].key # k
      <4>1. conn[c].key = k => StreamURL(c) = u /\ k \notin overlapped
        BY <1>4, <3>1 DEF k
      <4>. QED BY <1>1, <3>1, <4>1 DEF Ended
    <3>. QED BY <1>1, <1>2, <1>6, <3>1, <3>2 DEF TypeOK, k
  <2>. QED BY <1>10, <2>1, <2>2 DEF OnUnpublish, k
<1>11. CASE \E s \in Stream : CreateStream(s) \/ DeleteStream(s)
  BY <1>1, <1>2, <1>6, <1>11 DEF CreateStream, DeleteStream, TypeOK, Exists, k
<1>12. CASE UNCHANGED vars
  BY <1>6, <1>12 DEF vars, k
<1>. QED BY <1>7, <1>8, <1>9, <1>10, <1>11, <1>12 DEF Next, k

\* A connection is accepted after HSET, and on_unpublish follows the release.
LEMMA PublishedStep == IInv /\ [Next]_vars => PublishedIsActive'
<1>. SUFFICES ASSUME TypeOK, Publisher, Apart, Begun, PublishedIsActive, [Next]_vars PROVE PublishedIsActive'
  BY DEF IInv
<1>. USE DEF TypeOK, Publisher, Apart, Begun, PublishedIsActive, Goto, Verifying, Starting, Ending
<1>0. /\ \A c \in Conn : /\ StreamURL(c) \in Url /\ StreamURL(c)[2] = conn[c].key
                         /\ StreamURL(c)' = StreamURL(c) /\ conn'[c].key = conn[c].key
  BY UrlFacts, UrlKept
<1>1. CASE \E c \in Conn : Publish(c) \/ Unpublish(c)
  BY <1>0, <1>1 DEF Publish, Unpublish, NoteOverlap
<1>2. CASE \E c \in Conn : OnPublish(c)
  <2>1. CASE \E c \in Conn : Find(c)
    BY <1>0, <2>1 DEF Find, Fault, Exists
  <2>2. CASE \E c \in Conn : SetLive(c)
    BY <1>0, <2>2 DEF SetLive, Fault, SetStatus, Exists
  <2>3. CASE \E c \in Conn : HSet(c)
    BY <1>0, <2>3 DEF HSet, Fault
  <2>4. CASE \E c \in Conn : Count(c)
    BY <1>0, <2>4 DEF Count, Fault
  <2>. QED BY <1>2, <2>1, <2>2, <2>3, <2>4 DEF OnPublish
<1>3. CASE \E c \in Conn : Acquire(c)
  BY <1>0, <1>3 DEF Acquire
<1>4. CASE \E c \in Conn : OnUnpublish(c)
  <2>1. CASE \E c \in Conn : HDel(c)
    BY <1>0, <2>1 DEF HDel, Fault
  <2>2. CASE \E c \in Conn : EndFind(c)
    BY <1>0, <2>2 DEF EndFind, Fault, Exists
  <2>3. CASE \E c \in Conn : SetIdle(c)
    BY <1>0, <2>3 DEF SetIdle, Fault, SetStatus, Exists
  <2>. QED BY <1>4, <2>1, <2>2, <2>3 DEF OnUnpublish
<1>5. CASE \E s \in Stream : CreateStream(s) \/ DeleteStream(s)
  BY <1>0, <1>5 DEF CreateStream, DeleteStream, Exists
<1>6. CASE UNCHANGED vars
  BY <1>0, <1>6 DEF vars
<1>. QED BY <1>1, <1>2, <1>3, <1>4, <1>5, <1>6 DEF Next

\* IInv holds at first and every step keeps it.
LEMMA Invariance == Spec => []IInv
<1>1. Init => IInv
  <2>. SUFFICES ASSUME Init PROVE IInv
    OBVIOUS
  <2>1. \A c \in Conn : conn[c].at = "new" /\ conn[c].key \in Stream
    BY DEF Init
  <2>2. TypeOK
    BY HooksAssumption, <2>1 DEF Init, HooksAssumption, TypeOK
  <2>3. Publisher
    BY HooksAssumption, <2>1 DEF Init, HooksAssumption, Publisher
  <2>4. Apart
    BY <2>1 DEF Apart, Ending
  <2>5. Begun /\ Ended
    BY <2>1 DEF Begun, Ended
  <2>6. ActiveIsLive /\ PublishedIsActive
    BY DEF Init, ActiveIsLive, PublishedIsActive
  <2>. QED BY <2>2, <2>3, <2>4, <2>5, <2>6 DEF IInv
<1>2. IInv /\ [Next]_vars => IInv'
  BY TypeStep, PublisherStep, ApartStep, BegunStep, EndedStep, ActiveStep, PublishedStep
     DEF IInv
<1>. QED BY <1>1, <1>2, PTL DEF Spec

\* What redis calls active is LIVE for the API, for any number of URLs, connections and
\* failing calls, as long as its key has no other URL and no connection of the stream
\* ended while another one began or published.
THEOREM ActiveStreamsAreLive == Spec => []ActiveIsLive
<1>1. IInv => ActiveIsLive
  BY DEF IInv
<1>. QED BY <1>1, Invariance, PTL

\* A published URL is active and LIVE, whatever other URLs its key has, unless a
\* connection of the stream ended while another one began or published.
THEOREM PublishedStreamsAreActive == Spec => []PublishedIsActive
<1>1. IInv => PublishedIsActive
  BY DEF IInv
<1>. QED BY <1>1, Invariance, PTL

\* Types, and: a connection gets past the verification only with a created key.
THEOREM HooksTypeCorrect == Spec => []TypeOK
<1>1. IInv => TypeOK
  BY DEF IInv
<1>. QED BY <1>1, Invariance, PTL
================================================================================
