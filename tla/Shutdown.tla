-------------------------------- MODULE Shutdown --------------------------------
(***************************************************************************)
(* How the program starts, serves and ends: doMain (streaming/main.go),    *)
(* httpService.Run and Close (streaming/service.go), and Start and Close   *)
(* of the two workers, reduced to their contexts and wait groups.          *)
(*                                                                         *)
(*   program ctx <- a signal                                               *)
(*     +- accident ctx <- AccidentWorker.Close, deferred by doMain         *)
(*     +- detect ctx   <- DetectWorker.Close, deferred by doMain           *)
(*     +- service ctx  <- either server that ends                          *)
(*                                                                         *)
(* ListenAndServe returns when listening or accepting fails, and after     *)
(* Server.Shutdown or Server.Close, which nothing calls: httpService.Close *)
(* only sets the list of servers to nil, and nothing reads that list.      *)
(***************************************************************************)
EXTENDS Naturals

CONSTANTS
    NumServers,  \* HTTP servers, 2 in the code
    Recording,   \* Run goroutines of the accident worker
    Stream       \* process workers

WorkerLoop == {"copier", "builder", "ingest", "router"}

ASSUME ShutdownAssumption ==
    /\ NumServers \in Nat \ {0}
    /\ Recording \cap Stream = {} /\ WorkerLoop \cap (Recording \cup Stream) = {}

VARIABLES
    main,       \* where doMain is
    cancelled,  \* contexts that were cancelled themselves
    running,    \* goroutines of the workers
    listener,   \* the goroutine that listens, of each server
    watcher,    \* the goroutine that waits for the service ctx, of each server
    errors,     \* servers whose error Run has recorded (r0, r1)
    result,     \* what doMain is about to return
    dropped,    \* on_hls was answered with success and its message dropped
    force,      \* the goroutine that forces the exit
    exit        \* how the program has ended

vars == <<main, cancelled, running, listener, watcher, errors, result, dropped, force, exit>>

Server == 1..NumServers

Serving == {"init", "startDetect", "serve", "wait"}
Closing == {"close", "waitDetect", "waitAccident"}

\* The goroutines each worker's WaitGroup counts; a process worker is in none.
AccidentGroup == {"copier", "builder"} \cup Recording
DetectGroup == {"ingest", "router"}
ContextOf(g) == IF g \in AccidentGroup THEN "accident" ELSE "detect"

\* ctx.Done(): a context ends with the program's.
Done(ctx) == {"program", ctx} \cap cancelled # {}

\* The shape of the state.  Once Run has returned, nothing of it is left that could
\* still write what was read: no goroutine of a server.
TypeOK ==
    /\ main \in Serving \cup Closing
    /\ cancelled \subseteq {"program", "accident", "detect", "service"}
    /\ running \subseteq AccidentGroup \cup DetectGroup \cup Stream
    /\ listener \in [Server -> {"off", "listening", "ended", "cancel", "done"}]
    /\ watcher \in [Server -> {"off", "waiting", "done"}]
    /\ errors \subseteq Server /\ result \in {"ok", "error"} /\ dropped \in BOOLEAN
    /\ force \in {"armed", "sleeping"} /\ exit \in {"no", "main", "forced"}
    /\ \A s \in Server : listener[s] = "off" <=> watcher[s] = "off"
    /\ main \in Closing =>
         \A s \in Server : {listener[s], watcher[s]} \subseteq {"off", "done"}

Init ==
    /\ main = "init" /\ cancelled = {} /\ running = {}
    /\ listener = [s \in Server |-> "off"] /\ watcher = [s \in Server |-> "off"]
    /\ errors = {} /\ result = "ok" /\ dropped = FALSE
    /\ force = "armed" /\ exit = "no"

Alive == exit = "no"
Cancel(ctx) == cancelled' = cancelled \cup {ctx}

\* SIGINT or SIGTERM, at any time.
Signal ==
    /\ Alive /\ "program" \notin cancelled
    /\ Cancel("program")
    /\ UNCHANGED <<main, running, listener, watcher, errors, result, dropped, force, exit>>

--------------------------------------------------------------------------------
\* doMain.

\* The environment, redis or a directory is not there; nothing was started.
InitFails ==
    /\ Alive /\ main = "init"
    /\ result' = "error" /\ exit' = "main"
    /\ UNCHANGED <<main, cancelled, running, listener, watcher, errors, dropped, force>>

StartAccident ==
    /\ Alive /\ main = "init" /\ main' = "startDetect"
    /\ running' = running \cup {"copier", "builder"}
    /\ UNCHANGED <<cancelled, listener, watcher, errors, result, dropped, force, exit>>

StartDetect ==
    /\ Alive /\ main = "startDetect" /\ main' = "serve"
    /\ running' = running \cup {"ingest", "router"}
    /\ UNCHANGED <<cancelled, listener, watcher, errors, result, dropped, force, exit>>

\* handleHTTPService fails: Run returns before any server.
HandleFails ==
    /\ Alive /\ main = "serve" /\ \A s \in Server : listener[s] = "off"
    /\ main' = "close" /\ result' = "error"
    /\ UNCHANGED <<cancelled, running, listener, watcher, errors, dropped, force, exit>>

\* Run starts the servers one after the other.
StartServer(s) ==
    /\ Alive /\ main = "serve" /\ listener[s] = "off"
    /\ \A t \in 1..(s - 1) : listener[t] # "off"
    /\ listener' = [listener EXCEPT ![s] = "listening"]
    /\ watcher' = [watcher EXCEPT ![s] = "waiting"]
    /\ UNCHANGED <<main, cancelled, running, errors, result, dropped, force, exit>>

AllStarted ==
    /\ Alive /\ main = "serve" /\ \A s \in Server : listener[s] # "off"
    /\ main' = "wait"
    /\ UNCHANGED <<cancelled, running, listener, watcher, errors, result, dropped, force, exit>>

\* The goroutines that watch are not in the wait group.
RunReturnsEarly ==
    /\ Alive /\ main = "wait" /\ main' = "close"
    /\ \A s \in Server : listener[s] = "done"
    /\ result' = IF errors = {} THEN result ELSE "error"
    /\ UNCHANGED <<cancelled, running, listener, watcher, errors, dropped, force, exit>>

\* wg.Wait, and the deferred httpService.Close, which has nothing to wait for.
RunReturns ==
    /\ Alive /\ main = "wait" /\ main' = "close"
    /\ \A s \in Server : listener[s] = "done" /\ watcher[s] = "done"
    /\ result' = IF errors = {} THEN result ELSE "error"
    /\ UNCHANGED <<cancelled, running, listener, watcher, errors, dropped, force, exit>>

\* DetectWorker.Close, and once that has returned, AccidentWorker.Close.
CloseDetect ==
    /\ Alive /\ main = "close" /\ main' = "waitDetect"
    /\ Cancel("detect")
    /\ UNCHANGED <<running, listener, watcher, errors, result, dropped, force, exit>>

\* Close returns without waiting.
CloseAccidentAtOnce ==
    /\ Alive /\ main = "waitDetect" /\ main' = "waitAccident"
    /\ Cancel("accident")
    /\ UNCHANGED <<running, listener, watcher, errors, result, dropped, force, exit>>

CloseAccident ==
    /\ Alive /\ main = "waitDetect" /\ main' = "waitAccident"
    /\ running \cap DetectGroup = {}
    /\ Cancel("accident")
    /\ UNCHANGED <<running, listener, watcher, errors, result, dropped, force, exit>>

Return ==
    /\ Alive /\ main = "waitAccident"
    /\ running \cap AccidentGroup = {}
    /\ exit' = "main"
    /\ UNCHANGED <<main, cancelled, running, listener, watcher, errors, result, dropped, force>>

--------------------------------------------------------------------------------
\* The goroutines of a server.

ListenEnds(s) ==
    /\ Alive /\ listener[s] = "listening"
    /\ listener' = [listener EXCEPT ![s] = "ended"]
    /\ UNCHANGED <<main, cancelled, running, watcher, errors, result, dropped, force, exit>>

\* cancel() before the error is looked at.
RecordLate(s) ==
    /\ Alive /\ listener[s] = "ended"
    /\ listener' = [listener EXCEPT ![s] = "cancel"]
    /\ Cancel("service")
    /\ errors' = IF "service" \in cancelled' THEN errors ELSE errors \cup {s}
    /\ UNCHANGED <<main, running, watcher, result, dropped, force, exit>>

\* The error is recorded unless the service ctx was cancelled already.
Record(s) ==
    /\ Alive /\ listener[s] = "ended"
    /\ listener' = [listener EXCEPT ![s] = "cancel"]
    /\ errors' = IF Done("service") THEN errors ELSE errors \cup {s}
    /\ UNCHANGED <<main, cancelled, running, watcher, result, dropped, force, exit>>

\* The deferred cancel() and wg.Done().
CancelService(s) ==
    /\ Alive /\ listener[s] = "cancel"
    /\ listener' = [listener EXCEPT ![s] = "done"]
    /\ Cancel("service")
    /\ UNCHANGED <<main, running, watcher, errors, result, dropped, force, exit>>

Watch(s) ==
    /\ Alive /\ watcher[s] = "waiting" /\ Done("service")
    /\ watcher' = [watcher EXCEPT ![s] = "done"]
    /\ UNCHANGED <<main, cancelled, running, listener, errors, result, dropped, force, exit>>

\* on_hls at a server that still listens: OnHlsTsMessage selects between the service
\* ctx and the channel, and the hook is answered with success in both cases.
OnHls ==
    /\ Alive /\ \E s \in Server : listener[s] = "listening"
    /\ Done("service") /\ dropped' = TRUE
    /\ UNCHANGED <<main, cancelled, running, listener, watcher, errors, result, force, exit>>

--------------------------------------------------------------------------------
\* The goroutines of the workers.

\* The builder starts a recording, and the router a process worker; their select
\* may choose a message although the context is done.
Spawn(by, g) ==
    /\ Alive /\ by \in running /\ g \notin running
    /\ running' = running \cup {g}
    /\ UNCHANGED <<main, cancelled, listener, watcher, errors, result, dropped, force, exit>>

\* A recording is finished.
Finish(r) ==
    /\ Alive /\ r \in running
    /\ running' = running \ {r}
    /\ UNCHANGED <<main, cancelled, listener, watcher, errors, result, dropped, force, exit>>

\* The Run goroutine got a context of its own.
StopUnlessRecording(g) ==
    /\ Alive /\ g \in running \ Recording /\ Done(ContextOf(g))
    /\ running' = running \ {g}
    /\ UNCHANGED <<main, cancelled, listener, watcher, errors, result, dropped, force, exit>>

\* A goroutine sees that its context is done and returns.
Stop(g) ==
    /\ Alive /\ g \in running /\ Done(ContextOf(g))
    /\ running' = running \ {g}
    /\ UNCHANGED <<main, cancelled, listener, watcher, errors, result, dropped, force, exit>>

--------------------------------------------------------------------------------
\* The forced exit, 15 seconds after the program ctx was cancelled.

ForceWakes ==
    /\ Alive /\ force = "armed" /\ "program" \in cancelled
    /\ force' = "sleeping"
    /\ UNCHANGED <<main, cancelled, running, listener, watcher, errors, result, dropped, exit>>

ForceExit ==
    /\ Alive /\ force = "sleeping"
    /\ exit' = "forced"
    /\ UNCHANGED <<main, cancelled, running, listener, watcher, errors, result, dropped, force>>

--------------------------------------------------------------------------------
DoMain ==
    \/ StartAccident \/ StartDetect \/ AllStarted \/ RunReturns
    \/ (\E s \in Server : StartServer(s))
    \/ CloseDetect \/ CloseAccident \/ Return
Serve(s) == Record(s) \/ CancelService(s) \/ Watch(s)
Exiting == ForceWakes \/ ForceExit

Next ==
    \/ Signal \/ InitFails \/ HandleFails \/ DoMain
    \/ \E s \in Server : ListenEnds(s) \/ Serve(s)
    \/ OnHls
    \/ \E r \in Recording : Spawn("builder", r) \/ Finish(r)
    \/ \E w \in Stream : Spawn("router", w)
    \/ \E g \in WorkerLoop \cup Recording \cup Stream : Stop(g)
    \/ Exiting

Spec == Init /\ [][Next]_vars

\* Every goroutine goes on.  Signals, failures, requests and accidents may not come,
\* and a server may serve for ever.
Fairness ==
    /\ WF_vars(DoMain)
    /\ \A s \in Server : WF_vars(Serve(s))
    /\ \A g \in WorkerLoop \cup Recording \cup Stream : WF_vars(Stop(g))

FairSpec == Spec /\ Fairness /\ WF_vars(Exiting)

\* The behaviours in which the forced exit leaves the others all the time they take.
PatientSpec == Init /\ [][Next /\ exit' # "forced"]_vars /\ Fairness

--------------------------------------------------------------------------------
\* Properties.

\* A server that fails is never passed over in silence: unless a signal came, the
\* program returns with an error, and on_hls messages are dropped only once Run has
\* recorded the error that made it so, whichever of the servers failed, or both.
FailureReported ==
    "program" \notin cancelled =>
        /\ exit = "main" => result = "error"
        /\ dropped => errors # {}

\* When doMain returns, the workers have stopped, although the builder may start
\* recordings while Close waits; only process workers, which no WaitGroup counts, may
\* still run.
WorkersClosed == exit = "main" => running \subseteq Stream

\* The program ends after a signal, whatever it was doing, and without one once all its
\* servers have ended: Close returns in spite of the recordings that start meanwhile.
ProgramEnds == "program" \in cancelled \/ main \in Closing ~> ~Alive

\* "Normally, this doesn't occur because the main thread exits after the context is
\* cancelled." (main.go:58): however long the forced exit would wait, a signal makes
\* doMain return.
MainExits == "program" \in cancelled ~> exit = "main"
================================================================================
