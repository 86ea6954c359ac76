---------------------------- MODULE ShutdownProofs ----------------------------
(***************************************************************************)
(* Theorems about Shutdown, for any number of servers, recordings and      *)
(* process workers.                                                        *)
(***************************************************************************)
EXTENDS Shutdown, TLAPS

\* Where the workers' goroutines can be: none before Start, none of the detect
\* worker's group once its Close has returned.
Groups ==
    /\ main = "init" => running = {}
    /\ main = "waitAccident" => running \cap DetectGroup = {}

\* Without a signal, whatever cancels the service context was preceded by a recorded
\* error, and Run hands it on.
Explained ==
    "program" \notin cancelled =>
        /\ "service" \in cancelled => errors # {}
        /\ \A s \in Server : listener[s] \in {"cancel", "done"} => errors # {}
        /\ main \in Closing => result = "error"

IInv == TypeOK /\ Groups /\ Explained /\ WorkersClosed /\ FailureReported

\* Nothing is started at first.
LEMMA InitInv == Init => IInv
  BY DEF Init, IInv, TypeOK, Groups, Explained, WorkersClosed, FailureReported,
         Serving, Closing

\* No step breaks the types.
LEMMA TypeStep == TypeOK /\ [Next]_vars => TypeOK'
<1> SUFFICES ASSUME TypeOK, [Next]_vars PROVE TypeOK'
  OBVIOUS
<1> USE DEF TypeOK, Serving, Closing, AccidentGroup, DetectGroup, WorkerLoop, Cancel
<1>1. CASE OnHls \/ Exiting
  BY <1>1 DEF OnHls, Exiting, ForceWakes, ForceExit
<1>2. CASE Signal \/ InitFails \/ HandleFails
  <2>1. CASE Signal
    BY <2>1 DEF Signal
  <2>2. CASE InitFails
    BY <2>2 DEF InitFails
  <2>3. CASE HandleFails
    BY <2>3 DEF HandleFails
  <2> QED
    BY <1>2, <2>1, <2>2, <2>3
<1>3. CASE DoMain
  <2>1. CASE \E s \in Server : StartServer(s)
    BY <2>1 DEF StartServer
  <2>2. CASE RunReturns
    BY <2>2 DEF RunReturns
  <2> QED
    BY <1>3, <2>1, <2>2 DEF DoMain, StartAccident, StartDetect, AllStarted, CloseDetect,
                            CloseAccident, Return
<1>4. ASSUME NEW s \in Server, ListenEnds(s) \/ Serve(s) PROVE TypeOK'
  BY <1>4 DEF ListenEnds, Serve, Record, CancelService, Watch
<1>5. ASSUME NEW r \in Recording, Spawn("builder", r) \/ Finish(r) PROVE TypeOK'
  BY <1>5 DEF Spawn, Finish
<1>6. ASSUME NEW w \in Stream, Spawn("router", w) PROVE TypeOK'
  BY <1>6 DEF Spawn
<1>7. ASSUME NEW g \in WorkerLoop \cup Recording \cup Stream, Stop(g) PROVE TypeOK'
  BY <1>7 DEF Stop
<1>8. CASE UNCHANGED vars
  BY <1>8 DEF vars
<1> QED
  BY <1>1, <1>2, <1>3, <1>4, <1>5, <1>6, <1>7, <1>8 DEF Next

\* What waits for a group goes on only when the group is empty.
LEMMA GroupsStep ==
  TypeOK /\ Groups /\ WorkersClosed /\ [Next]_vars => Groups' /\ WorkersClosed'
<1> SUFFICES ASSUME TypeOK, Groups, WorkersClosed, [Next]_vars
             PROVE  Groups' /\ WorkersClosed'
  OBVIOUS
<1> USE ShutdownAssumption DEF ShutdownAssumption, TypeOK, Groups, WorkersClosed, Alive,
        AccidentGroup, DetectGroup, WorkerLoop, Serving, Closing
<1>1. CASE Signal \/ OnHls \/ Exiting \/ InitFails \/ HandleFails
  BY <1>1 DEF Signal, OnHls, Exiting, ForceWakes, ForceExit, InitFails, HandleFails
<1>2. CASE DoMain
  <2>1. CASE \E s \in Server : StartServer(s)
    BY <2>1 DEF StartServer
  <2>2. CASE StartAccident \/ StartDetect \/ AllStarted \/ RunReturns \/ CloseDetect
    BY <2>2 DEF StartAccident, StartDetect, AllStarted, RunReturns, CloseDetect
  <2>3. CASE CloseAccident
    BY <2>3 DEF CloseAccident
  <2>4. CASE Return
    BY <2>4 DEF Return
  <2> QED
    BY <1>2, <2>1, <2>2, <2>3, <2>4 DEF DoMain
<1>3. ASSUME NEW s \in Server, ListenEnds(s) \/ Serve(s)
      PROVE  Groups' /\ WorkersClosed'
  BY <1>3 DEF ListenEnds, Serve, Record, CancelService, Watch
<1>4. ASSUME NEW r \in Recording, Spawn("builder", r) PROVE Groups' /\ WorkersClosed'
  BY <1>4 DEF Spawn
<1>5. ASSUME NEW w \in Stream, Spawn("router", w) PROVE Groups' /\ WorkersClosed'
  BY <1>5 DEF Spawn
<1>6. ASSUME NEW g, Finish(g) \/ Stop(g) PROVE Groups' /\ WorkersClosed'
  BY <1>6 DEF Finish, Stop
<1>7. CASE UNCHANGED vars
  BY <1>7 DEF vars
<1> QED
  BY <1>1, <1>2, <1>3, <1>4, <1>5, <1>6, <1>7 DEF Next

\* A failure is recorded before anything depends on it.
LEMMA ReportStep ==
  TypeOK /\ Explained /\ FailureReported /\ [Next]_vars => Explained' /\ FailureReported'
<1> SUFFICES ASSUME TypeOK, Explained, FailureReported, [Next]_vars
             PROVE  Explained' /\ FailureReported'
  OBVIOUS
<1> USE DEF Explained, FailureReported, Alive, Closing, Serving, Done, Cancel
<1>1. CASE Signal \/ OnHls \/ Exiting \/ InitFails \/ HandleFails
  BY <1>1 DEF Signal, OnHls, Exiting, ForceWakes, ForceExit, InitFails, HandleFails
<1>2. CASE DoMain
  <2>1. CASE \E s \in Server : StartServer(s)
    BY <2>1 DEF StartServer, TypeOK
  <2>2. CASE RunReturns
    \* Run had at least one server, and that one recorded an error.
    <3>1. 1 \in Server
      BY ShutdownAssumption DEF ShutdownAssumption, Server
    <3> QED
      BY <2>2, <3>1 DEF RunReturns
  <2>3. CASE CloseDetect \/ CloseAccident \/ Return
    BY <2>3 DEF CloseDetect, CloseAccident, Return
  <2> QED
    BY <1>2, <2>1, <2>2, <2>3 DEF DoMain, StartAccident, StartDetect, AllStarted
<1>3. ASSUME NEW s \in Server, ListenEnds(s) \/ Watch(s)
      PROVE  Explained' /\ FailureReported'
  BY <1>3 DEF ListenEnds, Watch, TypeOK
<1>4. ASSUME NEW s \in Server, Record(s) PROVE Explained' /\ FailureReported'
  <2>1. "program" \notin cancelled => errors' # {}
    BY <1>4 DEF Record
  <2> QED
    BY <1>4, <2>1 DEF Record
<1>5. ASSUME NEW s \in Server, CancelService(s) PROVE Explained' /\ FailureReported'
  BY <1>5 DEF CancelService
<1>6. ASSUME NEW g, (\E b : Spawn(b, g)) \/ Finish(g) \/ Stop(g)
      PROVE  Explained' /\ FailureReported'
  BY <1>6 DEF Spawn, Finish, Stop
<1>7. CASE UNCHANGED vars
  BY <1>7 DEF vars
<1> QED
  BY <1>1, <1>2, <1>3, <1>4, <1>5, <1>6, <1>7 DEF Next, Serve

\* IInv is an invariant of the specification.
LEMMA Invariance == Spec => []IInv
<1>1. IInv /\ [Next]_vars => IInv'
  BY TypeStep, GroupsStep, ReportStep DEF IInv
<1> QED
  BY InitInv, <1>1, PTL DEF Spec

\* The types of doMain's state, and that Run leaves no goroutine behind (service.go:178).
THEOREM ShutdownTypeCorrect == Spec => []TypeOK
  BY Invariance, PTL DEF IInv

\* No failure of a server passes without an error, and none makes hooks drop messages
\* before it is recorded (service.go:102, 133).
THEOREM FailuresAreReported == Spec => []FailureReported
  BY Invariance, PTL DEF IInv

\* When doMain returns, no goroutine of a WaitGroup runs (accident.go:209, detect.go:139).
THEOREM WorkersAreClosed == Spec => []WorkersClosed
  BY Invariance, PTL DEF IInv
================================================================================
