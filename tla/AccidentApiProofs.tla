--------------------------- MODULE AccidentApiProofs ---------------------------
(***************************************************************************)
(* Theorems about AccidentApi, for any recordings, streams and users.      *)
(***************************************************************************)
EXTENDS AccidentApi, SequenceTheorems, TLAPS

\* The users, in some order, each with the own device or none.
Found(us) ==
    /\ us \in Users /\ Len(us) = NumUsers
    /\ \A i \in 1..NumUsers : us[i].deviceToken \in {us[i].id, NoToken}

\* How far a request has come determines what is in the database.
Progress ==
    \A r \in Recording :
        /\ rec[r] = "new" => handler[r] = "none"
        /\ handler[r] \in {"none", "save", "find", "push", "insert"} =>
             r \notin notified /\ answer[r] = "none"
        /\ handler[r] = "answer" => r \in notified /\ answer[r] = "none"
        /\ handler[r] = "closed" => answer[r] # "none"

\* What a handler has read and sent so far.
Matched ==
    \A r \in Recording :
        /\ handler[r] \in {"push", "insert"} => Found(users[r])
        /\ handler[r] = "insert" => accepted[r] = {users[r][i].id : i \in responses[r]}

IInv == TypeOK /\ Progress /\ Matched /\ AnswerIsTrue /\ SentIsAccepted

\* What a query of the users returns.
LEMMA FoundUsers ==
    ASSUME NEW f \in Orders
    PROVE  Found([i \in 1..NumUsers |-> [id |-> f[i],
                   deviceToken |-> IF f[i] \in tokens THEN f[i] ELSE NoToken]])
<1> DEFINE E == [id : User, deviceToken : User \cup {NoToken}]
           e(i) == [id |-> f[i], deviceToken |-> IF f[i] \in tokens THEN f[i] ELSE NoToken]
<1>1. \A i \in 1..NumUsers : e(i) \in E /\ e(i).deviceToken \in {e(i).id, NoToken}
  BY DEF Orders
<1> HIDE DEF E, e
<1>2. /\ [i \in 1..NumUsers |-> e(i)] \in Seq(E)
      /\ Len([i \in 1..NumUsers |-> e(i)]) = NumUsers
  BY <1>1, ApiAssumption DEF ApiAssumption
<1> QED
  BY <1>1, <1>2 DEF Found, Users, E, e

\* The responses match the tokens by their place in the list, and so the users.
LEMMA Responses ==
    ASSUME NEW r \in Recording, Found(users[r]), Multicast(r, TokensOf(users[r]))
    PROVE  \E ok \in SUBSET (1..Len(users[r])) :
              /\ responses' = [responses EXCEPT ![r] = ok]
              /\ accepted' = [accepted EXCEPT ![r] = {users[r][i].id : i \in ok}]
              /\ ok \subseteq User /\ {users[r][i].id : i \in ok} \subseteq User
<1> DEFINE us == users[r]
           list == TokensOf(us)
<1>1. Len(us) = NumUsers /\ NumUsers \in Nat
  BY ApiAssumption DEF Found, ApiAssumption
<1>2. Len(list) = NumUsers /\ \A i \in 1..NumUsers : list[i] = us[i].deviceToken
  BY <1>1 DEF TokensOf
<1>3. PICK ok \in SUBSET {i \in 1..Len(list) : list[i] # NoToken} :
         /\ responses' = [responses EXCEPT ![r] = ok]
         /\ accepted' = [accepted EXCEPT ![r] = {list[i] : i \in ok}]
  BY DEF Multicast
<1>4. \A i \in 1..NumUsers : us[i].id \in User /\ us[i].deviceToken \in {us[i].id, NoToken}
  <2> DEFINE E == [id : User, deviceToken : User \cup {NoToken}]
  <2>1. us \in Seq(E) /\ \A e \in E : e.id \in User
    BY DEF Found, Users
  <2> HIDE DEF E
  <2>2. \A i \in 1..NumUsers : us[i] \in E
    BY <1>1, <2>1, ElementOfSeq
  <2> QED
    BY <2>1, <2>2 DEF Found
<1>5. ok \subseteq 1..NumUsers /\ \A i \in ok : list[i] = us[i].id /\ us[i].id \in User
  BY <1>2, <1>3, <1>4
<1>6. {list[i] : i \in ok} = {us[i].id : i \in ok} /\ {us[i].id : i \in ok} \subseteq User
  BY <1>5
<1>7. accepted' = [accepted EXCEPT ![r] = {us[i].id : i \in ok}]
  BY <1>3, <1>6
<1> QED
  BY <1>1, <1>3, <1>5, <1>6, <1>7 DEF User

\* Nothing is stored at first.
LEMMA InitInv == Init => IInv
<1> SUFFICES ASSUME Init PROVE IInv
  OBVIOUS
<1>1. <<>> \in Users
  BY DEF Users
<1>2. TypeOK
  BY <1>1 DEF Init, TypeOK
<1> QED
  BY <1>2 DEF Init, IInv, Progress, Matched, AnswerIsTrue, SentIsAccepted

\* No step breaks the types, given how far the handlers are.
LEMMA TypeStep == IInv /\ [Next]_vars => TypeOK'
<1> SUFFICES ASSUME TypeOK, Progress, Matched, [Next]_vars PROVE TypeOK'
  BY DEF IInv
<1> USE DEF TypeOK, InProgress, Goto, Close, program, request, push, notification, others
<1>1. ASSUME NEW r \in Recording, Begin(r) \/ Begun(r) \/ End(r) PROVE TypeOK'
  BY <1>1 DEF Begin, Begun, End
<1>2. ASSUME NEW r \in Recording, StartAccident(r) PROVE TypeOK'
  <2>1. CASE Save(r)
    BY <2>1 DEF Save, Progress
  <2>2. CASE Find(r)
    <3>1. users' \in [Recording -> Users]
      <4>1. CASE UNCHANGED users
        BY <4>1
      <4>2. ASSUME NEW us, Found(us), users' = [users EXCEPT ![r] = us]
            PROVE  users' \in [Recording -> Users]
        BY <4>2 DEF Found
      <4> QED
        BY <2>2, <4>1, <4>2, FoundUsers DEF Find
    <3>2. /\ handler' \in [Recording -> {"none", "closed"} \cup InProgress]
          /\ answer' \in [Recording -> {"none", "created", "error"}]
          /\ UNCHANGED <<program, row, others, responses, accepted, notification, torn>>
      BY <2>2 DEF Find
    <3> QED
      BY <3>1, <3>2
  <2>3. CASE Push(r)
    <3>1. Multicast(r, TokensOf(users[r])) /\ Found(users[r])
      BY <2>3 DEF Push, Matched
    <3>2. responses' \in [Recording -> SUBSET User] /\ accepted' \in [Recording -> SUBSET User]
      <4>1. PICK ok \in SUBSET (1..Len(users[r])) :
              /\ responses' = [responses EXCEPT ![r] = ok]
              /\ accepted' = [accepted EXCEPT ![r] = {users[r][i].id : i \in ok}]
              /\ ok \subseteq User /\ {users[r][i].id : i \in ok} \subseteq User
        BY <3>1, Responses
      <4> QED
        BY <4>1
    <3>3. /\ handler' \in [Recording -> {"none", "closed"} \cup InProgress]
          /\ answer' \in [Recording -> {"none", "created", "error"}]
          /\ UNCHANGED <<program, row, others, users, notification, torn>>
      BY <2>3 DEF Push
    <3> QED
      BY <3>2, <3>3
  <2>4. CASE Insert(r)
    <3>1. {users[r][i].id : i \in responses[r]} \subseteq User
      BY <2>4 DEF Insert, Matched
    <3>2. /\ notified' \subseteq Recording /\ torn' \subseteq Recording
          /\ isSent' \in [Recording -> SUBSET User]
          /\ notified \subseteq notified' /\ \A q \in notified' : row[q] = "open"
      BY <2>4, <3>1 DEF Insert
    <3>3. /\ handler' \in [Recording -> {"none", "closed"} \cup InProgress]
          /\ answer' \in [Recording -> {"none", "created", "error"}]
          /\ UNCHANGED <<program, row, others, push, readed>>
      BY <2>4 DEF Insert
    <3>4. readed' \subseteq notified' \X User
      BY <3>2, <3>3
    <3> QED
      BY <3>2, <3>3, <3>4
  <2>5. CASE Answer(r)
    BY <2>5 DEF Answer
  <2> QED
    BY <1>2, <2>1, <2>2, <2>3, <2>4, <2>5 DEF StartAccident
<1>3. ASSUME NEW r \in Recording, DeleteAccident(r) PROVE TypeOK'
  BY <1>3 DEF DeleteAccident
<1>4. CASE RestartGo
  <2>1. rec' \in [Recording -> {"new", "begin", "recording", "done", "lost"}]
    BY <1>4 DEF RestartGo
  <2> QED
    BY <1>4, <2>1 DEF RestartGo
<1>8. CASE RestartApi
  <2>1. /\ handler' \in [Recording -> {"none", "closed"} \cup InProgress]
        /\ answer' \in [Recording -> {"none", "created", "error"}]
        /\ torn' \subseteq Recording
        /\ UNCHANGED <<program, row, others, push, notification>>
    BY <1>8 DEF RestartApi
  <2> QED
    BY <2>1
<1>5. ASSUME NEW s \in Stream, DeleteStream(s) PROVE TypeOK'
  BY <1>5 DEF DeleteStream
<1>6. ASSUME NEW u \in User, RegisterDeviceToken(u) \/ ReadAllNotifications(u)
      PROVE  TypeOK'
  BY <1>6 DEF RegisterDeviceToken, ReadAllNotifications
<1>7. CASE UNCHANGED vars
  BY <1>7 DEF vars
<1> QED
  BY <1>1, <1>2, <1>3, <1>4, <1>5, <1>6, <1>7, <1>8 DEF Next

\* No step makes an answer false.
LEMMA AnswerStep == IInv /\ [Next]_vars => Progress' /\ AnswerIsTrue'
<1> SUFFICES ASSUME TypeOK, Progress, AnswerIsTrue, [Next]_vars PROVE Progress' /\ AnswerIsTrue'
  BY DEF IInv
<1> USE DEF TypeOK, Progress, AnswerIsTrue, InProgress, Goto, Close,
        program, request, push, notification, others
<1> DEFINE Goal == Progress' /\ AnswerIsTrue'
<1>1. ASSUME NEW r \in Recording, Begin(r) \/ Begun(r) \/ End(r) PROVE Goal
  BY <1>1 DEF Begin, Begun, End
<1>2. ASSUME NEW r \in Recording, StartAccident(r) PROVE Goal
  <2>1. CASE Save(r)
    BY <2>1 DEF Save
  <2>2. CASE Find(r)
    BY <2>2 DEF Find
  <2>3. CASE Push(r)
    BY <2>3 DEF Push
  <2>4. CASE Insert(r)
    <3>1. handler[r] = "insert" /\ r \notin notified /\ answer[r] = "none" /\ UNCHANGED <<row, rec>>
      BY <2>4 DEF Insert
    <3>2. \A q \in Recording : q # r =>
            /\ handler'[q] = handler[q] /\ answer'[q] = answer[q]
            /\ q \in notified' <=> q \in notified
            /\ q \in torn => q \in torn'
      BY <2>4 DEF Insert
    <3>3. \/ /\ handler'[r] = "answer" /\ answer'[r] = "none" /\ r \in notified'
          \/ /\ handler'[r] = "closed" /\ answer'[r] = "error"
             /\ r \in torn' \/ r \notin notified'
      BY <2>4, <3>1 DEF Insert
    <3>4. rec[r] # "new"
      BY <3>1
    <3> QED
      BY <3>1, <3>2, <3>3, <3>4
  <2>5. CASE Answer(r)
    BY <2>5 DEF Answer
  <2> QED
    BY <1>2, <2>1, <2>2, <2>3, <2>4, <2>5 DEF StartAccident
<1>3. ASSUME NEW r \in Recording, DeleteAccident(r) PROVE Goal
  BY <1>3 DEF DeleteAccident
<1>4. CASE RestartGo
  BY <1>4 DEF RestartGo
<1>5. CASE RestartApi
  BY <1>5 DEF RestartApi
<1>6. ASSUME NEW s \in Stream, DeleteStream(s) PROVE Goal
  BY <1>6 DEF DeleteStream
<1>7. ASSUME NEW u \in User, RegisterDeviceToken(u) \/ ReadAllNotifications(u) PROVE Goal
  BY <1>7 DEF RegisterDeviceToken, ReadAllNotifications
<1>8. CASE UNCHANGED vars
  BY <1>8 DEF vars
<1> QED
  BY <1>1, <1>2, <1>3, <1>4, <1>5, <1>6, <1>7, <1>8 DEF Next

\* No step makes a sent notification false: what was read and sent stays with the handler,
\* and is_sent is stored once.
LEMMA MatchedStep == IInv /\ [Next]_vars => Matched' /\ SentIsAccepted'
<1> SUFFICES ASSUME TypeOK, Progress, Matched, SentIsAccepted, [Next]_vars
             PROVE  Matched' /\ SentIsAccepted'
  BY DEF IInv
<1> DEFINE Goal == Matched' /\ SentIsAccepted'
           Kept == /\ UNCHANGED <<users, responses, accepted, isSent>>
                   /\ notified' \subseteq notified
                   /\ \A q \in Recording :
                        handler'[q] \in {"push", "insert"} => handler'[q] = handler[q]
<1> USE DEF InProgress, Goto, Close, program, request, push, notification, others
<1>0. ASSUME Kept PROVE Goal
  BY <1>0 DEF Matched, SentIsAccepted
<1>1. ASSUME NEW r \in Recording, Begin(r) \/ Begun(r) \/ End(r) \/ DeleteAccident(r) PROVE Goal
  <2>1. Kept
    BY <1>1 DEF Begin, Begun, End, DeleteAccident, TypeOK
  <2> QED
    BY <1>0, <2>1
<1>2. ASSUME NEW r \in Recording, StartAccident(r) PROVE Goal
  <2>1. CASE Save(r) \/ Answer(r)
    <3>1. Kept
      BY <2>1 DEF Save, Answer, TypeOK
    <3> QED
      BY <1>0, <3>1
  <2>2. CASE Find(r)
    <3>1. /\ UNCHANGED <<responses, accepted, notified, isSent>>
          /\ handler'[r] \in {"push", "closed"}
          /\ \A q \in Recording \ {r} : handler'[q] = handler[q] /\ users'[q] = users[q]
      BY <2>2 DEF Find, TypeOK
    <3>2. handler'[r] = "push" => Found(users'[r])
      <4>1. ASSUME NEW us, Found(us), users' = [users EXCEPT ![r] = us]
            PROVE  Found(users'[r])
        BY <4>1 DEF TypeOK
      <4>2. CASE Close(r, "error")
        BY <4>2 DEF TypeOK
      <4> QED
        BY <2>2, <4>1, <4>2, FoundUsers DEF Find
    <3> QED
      BY <3>1, <3>2 DEF Matched, SentIsAccepted
  <2>3. CASE Push(r)
    <3>1. Multicast(r, TokensOf(users[r])) /\ Found(users[r])
      BY <2>3 DEF Push, Matched
    <3>2. PICK ok \in SUBSET (1..Len(users[r])) :
             /\ responses' = [responses EXCEPT ![r] = ok]
             /\ accepted' = [accepted EXCEPT ![r] = {users[r][i].id : i \in ok}]
      BY <3>1, Responses
    <3>3. /\ handler[r] = "push" /\ r \notin notified
          /\ UNCHANGED <<users, notified, isSent>>
          /\ \A q \in Recording : q # r => handler'[q] = handler[q]
      BY <2>3 DEF Push, Progress, TypeOK
    <3>4. responses'[r] = ok /\ accepted'[r] = {users[r][i].id : i \in ok}
      BY <3>2 DEF TypeOK
    <3>5. \A q \in Recording \ {r} : responses'[q] = responses[q] /\ accepted'[q] = accepted[q]
      BY <3>2 DEF TypeOK
    <3>6. Matched'
      <4>1. Found(users'[r]) /\ accepted'[r] = {users'[r][i].id : i \in responses'[r]}
        BY <3>1, <3>3, <3>4
      <4>2. \A q \in Recording \ {r} :
              /\ handler'[q] = handler[q] /\ users'[q] = users[q]
              /\ responses'[q] = responses[q] /\ accepted'[q] = accepted[q]
        BY <3>3, <3>5
      <4> QED
        BY <4>1, <4>2 DEF Matched
    <3>7. SentIsAccepted'
      BY <3>3, <3>5 DEF SentIsAccepted, TypeOK
    <3> QED
      BY <3>6, <3>7
  <2>4. CASE Insert(r)
    <3>1. accepted[r] = {users[r][i].id : i \in responses[r]}
      BY <2>4 DEF Insert, Matched
    <3>2. /\ UNCHANGED <<users, responses, accepted>>
          /\ handler'[r] \in {"answer", "closed"}
          /\ \A q \in Recording \ {r} : handler'[q] = handler[q]
      BY <2>4 DEF Insert, TypeOK
    <3>3. \/ UNCHANGED <<notified, isSent>>
          \/ notified' = notified \cup {r} /\ isSent' = [isSent EXCEPT ![r] = accepted[r]]
      BY <2>4, <3>1 DEF Insert
    <3>4. Matched'
      BY <3>2 DEF Matched
    <3>5. SentIsAccepted'
      BY <3>2, <3>3 DEF SentIsAccepted, TypeOK
    <3> QED
      BY <3>4, <3>5
  <2> QED
    BY <1>2, <2>1, <2>2, <2>3, <2>4 DEF StartAccident
<1>3. CASE RestartGo \/ RestartApi
  <2>1. Kept
    BY <1>3 DEF RestartGo, RestartApi, TypeOK
  <2> QED
    BY <1>0, <2>1
<1>4. ASSUME NEW s \in Stream, DeleteStream(s) PROVE Goal
  BY <1>0, <1>4 DEF DeleteStream
<1>5. ASSUME NEW u \in User, RegisterDeviceToken(u) \/ ReadAllNotifications(u) PROVE Goal
  BY <1>0, <1>5 DEF RegisterDeviceToken, ReadAllNotifications
<1>6. CASE UNCHANGED vars
  BY <1>0, <1>6 DEF vars
<1>7. Goal
  BY <1>1, <1>2, <1>3, <1>4, <1>5, <1>6 DEF Next
<1> QED
  BY <1>7 DEF Goal

\* IInv is an invariant of the specification.
LEMMA Invariance == Spec => []IInv
<1>1. IInv /\ [Next]_vars => IInv'
  BY TypeStep, AnswerStep, MatchedStep DEF IInv
<1> QED
  BY InitInv, <1>1, PTL DEF Spec

\* An accident answered with success stays, with a notification for every user; one
\* answered with an error has none unless the API restarted or lost the reply to its
\* COMMIT (accident.service.ts:63, notification.service.ts:40).
THEOREM AnswersAreTrue == Spec => []AnswerIsTrue
  BY Invariance, PTL DEF IInv

\* is_sent, stored by position, says for whose device Firebase accepted the push
\* (notification.service.ts:62).
THEOREM SentMeansAccepted == Spec => []SentIsAccepted
  BY Invariance, PTL DEF IInv
================================================================================
