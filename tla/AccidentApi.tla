------------------------------ MODULE AccidentApi ------------------------------
(***************************************************************************)
(* How an accident gets from the program to the users' phones.             *)
(*                                                                         *)
(*   streaming/accident.go   callbackBegin, once for each recording, in    *)
(*                           the builder goroutine, and callbackEnd        *)
(*     --> the API           startAccident: save the accident, and in a    *)
(*                           transaction find the users, push, and save a  *)
(*                           notification for each; endAccident            *)
(*     --> Firebase          external; accepts or refuses each push        *)
(*                                                                         *)
(* Meanwhile operators delete accidents and streams, users register        *)
(* devices and read, and either program restarts.  Foreign keys (NO        *)
(* ACTION, see the migration) make the database refuse to delete what is   *)
(* referred to.  Users and contents neither come nor go, and a user's      *)
(* device is known by the user.                                            *)
(***************************************************************************)
EXTENDS Naturals, Sequences, SequencesExt

CONSTANTS
    Recording,  \* bound: recordings
    Stream,     \* stream keys
    NumUsers    \* bound: users

ASSUME ApiAssumption == NumUsers \in Nat

VARIABLES
    rec,        \* where a recording is in the Go program
    key,        \* the stream it records
    handler,    \* where its startAccident handler is
    answer,     \* what the API answered, or "none"
    row,        \* its row of table accident
    streams,    \* rows of table stream
    tokens,     \* users with a deviceToken
    users,      \* the users that the handler found: [id, deviceToken]
    responses,  \* results.responses: the indices of those with success
    accepted,   \* history: the devices for which Firebase accepted a push
    notified,   \* recordings with a row of notification for each user
    isSent,     \* column is_sent of these rows
    readed,     \* column readed_at is set: pairs of a recording and a user
    torn        \* history: handlers that ended without the database's answer: the
                \* API restarted, or the reply to COMMIT was lost

program == <<rec, key>>
request == <<handler, answer>>
push == <<users, responses, accepted>>
notification == <<notified, isSent, readed>>
others == <<streams, tokens>>
vars == <<program, request, row, push, notification, others, torn>>

User == 1..NumUsers
NoToken == 0
InProgress == {"save", "find", "push", "insert", "answer"}
Users == Seq([id : User, deviceToken : User \cup {NoToken}])

\* The shape of the database: what is referred to exists.
TypeOK ==
    /\ rec \in [Recording -> {"new", "begin", "recording", "done", "lost"}]
    /\ key \in [Recording -> Stream]
    /\ handler \in [Recording -> {"none", "closed"} \cup InProgress]
    /\ answer \in [Recording -> {"none", "created", "error"}]
    /\ row \in [Recording -> {"none", "open", "deleted"}]
    /\ streams \subseteq Stream /\ tokens \subseteq User
    /\ users \in [Recording -> Users]
    /\ responses \in [Recording -> SUBSET User] /\ accepted \in [Recording -> SUBSET User]
    /\ notified \subseteq Recording /\ torn \subseteq Recording
    /\ isSent \in [Recording -> SUBSET User] /\ readed \subseteq notified \X User
    /\ \A r \in Recording : row[r] = "open" => key[r] \in streams
    /\ \A r \in notified : row[r] = "open"

Init ==
    /\ rec = [r \in Recording |-> "new"] /\ key \in [Recording -> Stream]
    /\ handler = [r \in Recording |-> "none"] /\ answer = [r \in Recording |-> "none"]
    /\ row = [r \in Recording |-> "none"]
    /\ streams = Stream /\ tokens \in SUBSET User
    /\ users = [r \in Recording |-> <<>>] /\ responses = [r \in Recording |-> {}]
    /\ accepted = [r \in Recording |-> {}] /\ notified = {}
    /\ isSent = [r \in Recording |-> {}] /\ readed = {} /\ torn = {}

--------------------------------------------------------------------------------
\* streaming/accident.go.

\* callbackBegin: the builder posts and waits; or the post fails, or the category
\* has no name, and the recording goes on without.
Begin(r) ==
    /\ rec[r] = "new" /\ \A q \in Recording : rec[q] # "begin"
    /\ \/ /\ rec' = [rec EXCEPT ![r] = "begin"]
          /\ handler' = [handler EXCEPT ![r] = "save"]
       \/ /\ rec' = [rec EXCEPT ![r] = "recording"]
          /\ UNCHANGED handler
    /\ UNCHANGED <<key, answer, row, others, push, notification, torn>>

\* Initialize ignores what callbackBegin returns.  The answer has the accident's "id",
\* callbackBegin reads "accidentId": AccidentId stays 0.
Begun(r) ==
    /\ rec[r] = "begin" /\ answer[r] # "none"
    /\ rec' = [rec EXCEPT ![r] = "recording"]
    /\ UNCHANGED <<key, request, row, others, push, notification, torn>>

\* callbackEnd, and endAccident: the row with id 0 is updated, and there is none.
End(r) ==
    /\ rec[r] = "recording"
    /\ rec' = [rec EXCEPT ![r] = "done"]
    /\ UNCHANGED <<key, request, row, others, push, notification, torn>>

\* The Go program restarts; handlers of the API do not notice.
RestartGo ==
    /\ \E r \in Recording : rec[r] \in {"begin", "recording"}
    /\ rec' = [r \in Recording |->
                 IF rec[r] \in {"begin", "recording"} THEN "lost" ELSE rec[r]]
    /\ UNCHANGED <<key, request, row, others, push, notification, torn>>

--------------------------------------------------------------------------------
\* startAccident and sendNotificationToAllUsers.

Goto(r, place) == handler' = [handler EXCEPT ![r] = place] /\ UNCHANGED answer

Close(r, status) ==
    /\ handler' = [handler EXCEPT ![r] = "closed"]
    /\ answer' = [answer EXCEPT ![r] = status]

\* The query of the stream is not awaited: that it is missing is left to the foreign key,
\* and that it fails, handled by nobody, ends the API (RestartApi).  A failing save may
\* have been carried out.
Save(r) ==
    /\ handler[r] = "save"
    /\ \/ /\ key[r] \in streams
          /\ row' = [row EXCEPT ![r] = "open"]
          /\ Goto(r, "find") \/ Close(r, "error")
       \/ Close(r, "error") /\ UNCHANGED row
    /\ UNCHANGED <<program, others, push, notification, torn>>

\* startAccident does not await the notification.
FindLater(r) ==
    /\ handler[r] = "find"
    /\ Close(r, "created")
    /\ UNCHANGED <<program, row, others, push, notification, torn>>

\* manager.find(User) has no order.
Orders == {f \in [1..NumUsers -> User] : \A u \in User : \E i \in User : f[i] = u}

\* The transaction begins: users and content.
Find(r) ==
    /\ handler[r] = "find"
    /\ \/ /\ \E f \in Orders :
               users' = [users EXCEPT ![r] =
                  [i \in 1..NumUsers |->
                     [id |-> f[i],
                      deviceToken |-> IF f[i] \in tokens THEN f[i] ELSE NoToken]]]
          /\ Goto(r, "push")
       \/ Close(r, "error") /\ UNCHANGED users
    /\ UNCHANGED <<program, row, others, responses, accepted, notification, torn>>

\* Users without a device are left out of the multicast.
TokensOfDevices(found) ==
    LET registered == SelectSeq(found, LAMBDA user : user.deviceToken # NoToken)
    IN  [i \in 1..Len(registered) |-> registered[i].deviceToken]

\* users.map((user) => user.deviceToken), null for a user without a device.
TokensOf(found) == [i \in 1..Len(found) |-> found[i].deviceToken]

\* Firebase (external) answers for each token of the list, in its order; a push
\* without a token is never accepted.
Multicast(r, list) ==
    \E ok \in SUBSET {i \in 1..Len(list) : list[i] # NoToken} :
        /\ responses' = [responses EXCEPT ![r] = ok]
        /\ accepted' = [accepted EXCEPT ![r] = {list[i] : i \in ok}]

\* The error is caught and not answered.
PushUnanswered(r) ==
    /\ handler[r] = "push" /\ User # {}
    /\ Multicast(r, TokensOf(users[r]))
    /\ \/ Goto(r, "insert")
       \/ handler' = [handler EXCEPT ![r] = "closed"] /\ UNCHANGED answer
    /\ UNCHANGED <<program, row, others, users, notification, torn>>

\* sendEachForMulticast: it fails without tokens, and may fail when pushes are under way.
Push(r) ==
    /\ handler[r] = "push"
    /\ Multicast(r, TokensOf(users[r]))
    /\ \/ User # {} /\ Goto(r, "insert")
       \/ Close(r, "error")
    /\ UNCHANGED <<program, row, others, users, notification, torn>>

\* One insert for all users, is_sent by the index, and the commit; rolled back when the
\* accident is gone.  The reply to COMMIT may be lost, and the answer is then an error.
Insert(r) ==
    /\ handler[r] = "insert"
    /\ \/ /\ row[r] = "open"
          /\ notified' = notified \cup {r}
          /\ isSent' = [isSent EXCEPT ![r] = {users[r][i].id : i \in responses[r]}]
          /\ \/ Goto(r, "answer") /\ UNCHANGED torn
             \/ Close(r, "error") /\ torn' = torn \cup {r}
       \/ Close(r, "error") /\ UNCHANGED <<notified, isSent, torn>>
    /\ UNCHANGED <<program, row, others, push, readed>>

Answer(r) ==
    /\ handler[r] = "answer"
    /\ Close(r, "created")
    /\ UNCHANGED <<program, row, others, push, notification, torn>>

\* The API restarts: transactions are rolled back, and clients get an error.
RestartApi ==
    LET open == {r \in Recording : handler[r] \in InProgress}
    IN /\ open # {}
       /\ torn' = torn \cup open
       /\ handler' = [r \in Recording |-> IF r \in open THEN "closed" ELSE handler[r]]
       /\ answer' = [r \in Recording |-> IF r \in open THEN "error" ELSE answer[r]]
       /\ UNCHANGED <<program, row, others, push, notification>>

--------------------------------------------------------------------------------
\* Other requests.

\* Deleting an accident takes its notifications with it (ON DELETE CASCADE).
DeleteCascade(r) ==
    /\ row[r] = "open"
    /\ row' = [row EXCEPT ![r] = "deleted"]
    /\ notified' = notified \ {r} /\ readed' = {p \in readed : p[1] # r}
    /\ UNCHANGED <<program, request, others, push, isSent, torn>>

\* deleteAccident, which the database refuses when there are notifications.
DeleteAccident(r) ==
    /\ row[r] = "open" /\ r \notin notified
    /\ row' = [row EXCEPT ![r] = "deleted"]
    /\ UNCHANGED <<program, request, others, push, notification, torn>>

\* deleteStream, which the database refuses when there are accidents.
DeleteStream(s) ==
    /\ s \in streams /\ \A r \in Recording : row[r] = "open" => key[r] # s
    /\ streams' = streams \ {s}
    /\ UNCHANGED <<program, request, row, tokens, push, notification, torn>>

RegisterDeviceToken(u) ==
    /\ tokens' = tokens \cup {u}
    /\ UNCHANGED <<program, request, row, streams, push, notification, torn>>

\* Every unread notification of the user, fetched or not.
ReadAllNotifications(u) ==
    /\ readed' = readed \cup (notified \X {u})
    /\ UNCHANGED <<program, request, row, others, push, notified, isSent, torn>>

--------------------------------------------------------------------------------
StartAccident(r) == Save(r) \/ Find(r) \/ Push(r) \/ Insert(r) \/ Answer(r)

Next ==
    \/ \E r \in Recording :
         Begin(r) \/ Begun(r) \/ End(r) \/ StartAccident(r) \/ DeleteAccident(r)
    \/ RestartGo \/ RestartApi
    \/ \E s \in Stream : DeleteStream(s)
    \/ \E u \in User : RegisterDeviceToken(u) \/ ReadAllNotifications(u)

Spec == Init /\ [][Next]_vars

\* Handlers go on (the database and Firebase answer or fail), and so does the builder.
Fairness == \A r \in Recording : WF_vars(StartAccident(r)) /\ WF_vars(Begun(r))

FairSpec == Spec /\ Fairness

--------------------------------------------------------------------------------
\* Properties.

\* The answer tells the truth, for good: an accident answered with success is in the
\* database with a notification for every user, and nobody can delete it afterwards;
\* one answered with an error has none, unless the API restarted after the commit or
\* did not learn that the database had committed.
AnswerIsTrue ==
    \A r \in Recording :
        /\ answer[r] = "created" => row[r] = "open" /\ r \in notified
        /\ answer[r] = "error" /\ r \in notified => r \in torn

\* is_sent, stored by position, is true for those users for whose device Firebase accepted
\* the push, and for them only, although the users come in any order, some without a
\* device, and register one between the steps of the handler.
SentIsAccepted == \A r \in notified : isSent[r] = accepted[r]

\* The builder, which has no timeout, always comes back from callbackBegin, so one
\* failing notification does not stop the other recordings.
BuilderGoesOn == \A r \in Recording : rec[r] = "begin" ~> rec[r] # "begin"
================================================================================
