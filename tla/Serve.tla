-------------------------------- MODULE Serve --------------------------------
(***************************************************************************)
(* The life of one server: ServerHandle.serve and the Lifecycle in         *)
(* src/python/oxbrook/_lifecycle.py around Server::serve and serve_loop in *)
(* src/src/server.rs and the worker threads of src/src/worker.rs.  The     *)
(* process lifespan is entered, every worker loop enters its own, the      *)
(* listener accepts until somebody asks it to stop, requests drain, the    *)
(* loops tear down and the process lifespan is left.                       *)
(*                                                                         *)
(* Requests appear as far as the drain can tell them apart: one whose body *)
(* is still being read, queued, popped and not yet counted, running.       *)
(***************************************************************************)
EXTENDS Naturals, FiniteSets

CONSTANTS
    Workers,
    Requests,
    NoWorker,
    ProcessHooks,  \* what the lifespan may do when it is entered
    WorkerHooks,   \* what worker_lifespan, or the setup after it, may do
    DrainDelay,    \* health.drain_delay is not zero
    MaxAsks        \* bound: signals, and calls of shutdown()

ServeAssumption ==
    /\ NoWorker \notin Workers /\ Workers # {}
    /\ ProcessHooks \subseteq {"ok", "raises", "no_mapping"}
    /\ WorkerHooks \subseteq {"ok", "raises", "no_mapping", "clash", "no_reader"}
    /\ DrainDelay \in BOOLEAN /\ MaxAsks \in Nat

VARIABLES
    main,          \* where the serving thread is
    failed,        \* a worker could not be started
    process,       \* the process lifespan
    worker,        \* per worker thread: where it is
    lifespan,      \* per worker: its lifespan
    loops,         \* Lifecycle.loops
    signal,        \* a signal was delivered and not read yet
    draining,      \* serve_loop's deadline is set
    ready,         \* the readiness probe does not say "draining"
    expired,       \* a grace ran out
    asks,          \* signals and shutdown() calls so far
    asked,         \* a signal came
    req,           \* per request: where it is
    at             \* per request: its worker

threads == <<worker, lifespan, loops>>
asking == <<signal, asks, asked>>
reqVars == <<req, at>>
vars == <<main, failed, process, threads, draining, ready, expired, asking, reqVars>>

Set(f, x, v) == [f EXCEPT ![x] = v]

-----------------------------------------------------------------------------
(* Starting                                                                *)

(* start_process.  A lifespan that yields no mapping has been entered and  *)
(* is not remembered.                                                      *)
StartProcess ==
    /\ main = "new"
    /\ \E h \in ProcessHooks :
          /\ process' = CASE h = "ok" -> "entered"
                          [] h = "raises" -> "never"
                          [] h = "no_mapping" -> "forgotten"
          /\ main' = IF h = "ok" THEN "spawn" ELSE "returned"
    /\ UNCHANGED <<failed, threads, draining, ready, expired, asking, reqVars>>

(* Every thread is started before any is waited for; one that cannot be    *)
(* created ends the starting.                                              *)
Spawn ==
    /\ main = "spawn"
    /\ \E S \in SUBSET Workers :
          /\ worker' = [w \in Workers |-> IF w \in S THEN "starting" ELSE "gone"]
          /\ failed' = (S # Workers)
    /\ main' = "starting"
    /\ UNCHANGED <<process, lifespan, loops, draining, ready, expired, asking,
                   reqVars>>

(* start_worker on the worker's own loop, and the drain's reader.  A key   *)
(* that the process lifespan has yielded too, or a loop that cannot watch  *)
(* the socket, leaves the lifespan again.                                  *)
StartWorker(w) ==
    /\ worker[w] = "starting"
    /\ \E h \in WorkerHooks :
          /\ lifespan' = Set(lifespan, w, CASE h = "ok" -> "entered"
                                            [] h = "raises" -> "never"
                                            [] h = "no_mapping" -> "forgotten"
                                            [] OTHER -> "left")
          /\ loops' = IF h \in {"ok", "no_reader"} THEN loops \cup {w} ELSE loops
          /\ worker' = Set(worker, w, IF h = "ok" THEN "serving" ELSE "gone")
          /\ failed' = (failed \/ h # "ok")
    /\ UNCHANGED <<main, process, draining, ready, expired, asking, reqVars>>

(* All of them are waited for, even after one has failed.                  *)
Started ==
    /\ main = "starting"
    /\ \A w \in Workers : worker[w] # "starting"
    /\ main' = IF failed THEN "stop" ELSE "bind"
    /\ UNCHANGED <<failed, process, threads, draining, ready, expired, asking,
                   reqVars>>

(* A port that cannot be bound goes through the same end as a stop.        *)
Bind ==
    /\ main = "bind"
    /\ main' \in {"permit", "drain"}
    /\ UNCHANGED <<failed, process, threads, draining, ready, expired, asking,
                   reqVars>>

(* A host that is no address, "localhost" say, is refused only now, and    *)
(* the error leaves the started workers where they are.                    *)
AddressRefused ==
    /\ main = "bind"
    /\ main' = "abandon"
    /\ UNCHANGED <<failed, process, threads, draining, ready, expired, asking,
                   reqVars>>

-----------------------------------------------------------------------------
(* serve_loop: a permit, then a connection; either wait can be ended       *)

Listening == main \in {"permit", "accept"}

GetPermit ==
    /\ main = "permit"
    /\ main' = "accept"
    /\ UNCHANGED <<failed, process, threads, draining, ready, expired, asking,
                   reqVars>>

(* A connection brings a request.                                          *)
Accept(r) ==
    /\ main = "accept"
    /\ req[r] = "none"
    /\ req' = Set(req, r, "received")
    /\ main' = "permit"
    /\ UNCHANGED <<failed, process, threads, draining, ready, expired, asking, at>>

(* `stopping`: readiness fails from now on, and with a drain delay the     *)
(* first request to stop only sets the deadline.                           *)
Stopping ==
    /\ ready' = FALSE
    /\ draining' = (DrainDelay \/ draining)
    /\ main' = IF draining \/ ~DrainDelay THEN "drain" ELSE "permit"

(* Mutant of HearSignal: signals are read while waiting for a client only, *)
(* and one that comes at the connection limit is dropped.                  *)
HearSignalLate ==
    /\ Listening /\ signal
    /\ signal' = FALSE
    /\ IF main = "accept" THEN Stopping ELSE UNCHANGED <<ready, draining, main>>
    /\ UNCHANGED <<failed, process, threads, expired, asks, asked, reqVars>>

HearSignal ==
    /\ Listening /\ signal
    /\ signal' = FALSE
    /\ Stopping
    /\ UNCHANGED <<failed, process, threads, expired, asks, asked, reqVars>>

DelayPasses ==
    /\ Listening /\ draining
    /\ main' = "drain"
    /\ UNCHANGED <<failed, process, threads, draining, ready, expired, asking,
                   reqVars>>

(* A signal is kept until it is read: the handler is installed before the  *)
(* first worker starts.                                                    *)
Signal ==
    /\ main \notin {"new", "returned", "abandoned"} /\ asks < MaxAsks
    /\ asks' = asks + 1
    /\ signal' = TRUE
    /\ asked' = TRUE
    /\ UNCHANGED <<main, failed, process, threads, draining, ready, expired, reqVars>>

(* shutdown(): notify_waiters reaches the loop only while it is waiting.   *)
(* Between its two waits, and before and after them, nobody hears it.      *)
Shutdown ==
    /\ asks < MaxAsks
    /\ asks' = asks + 1
    /\ \/ Listening /\ Stopping
       \/ UNCHANGED <<ready, draining, main>>
    /\ UNCHANGED <<failed, process, threads, expired, signal, asked, reqVars>>

-----------------------------------------------------------------------------
(* The end                                                                 *)

Counted == {r \in Requests : req[r] \in {"queued", "running"}}

(* The loads are summed until they are zero or the grace is over.          *)
Drained ==
    /\ main = "drain"
    /\ expired' = (expired \/ Counted # {})
    /\ main' = "stop"
    /\ UNCHANGED <<failed, process, threads, draining, ready, asking, reqVars>>

Stop ==
    /\ main = "stop"
    /\ worker' = [w \in Workers |-> IF worker[w] = "serving" THEN "told" ELSE worker[w]]
    /\ main' = "join"
    /\ UNCHANGED <<failed, process, lifespan, loops, draining, ready, expired, asking,
                   reqVars>>

(* Mutant of Join: the workers are not waited for.                         *)
JoinNobody ==
    /\ main = "join"
    /\ main' = "stop_process"
    /\ req' = [r \in Requests |-> IF req[r] \in {"none", "answered"} THEN req[r]
                                  ELSE "cut"]
    /\ UNCHANGED <<failed, process, threads, draining, ready, expired, asking, at>>

(* Each thread is waited for, as long as the grace lasts; then the runtime *)
(* goes, and with it every connection.                                     *)
Join ==
    /\ main = "join"
    /\ expired' = (expired \/ \E w \in Workers : worker[w] # "gone")
    /\ main' = "stop_process"
    /\ req' = [r \in Requests |-> IF req[r] \in {"none", "answered"} THEN req[r]
                                  ELSE "cut"]
    /\ UNCHANGED <<failed, process, threads, draining, ready, asking, at>>

(* stop_process: sessions and the blocking pool are closed, the lifespan   *)
(* is left, and whatever it raises the state is emptied.                   *)
StopProcess ==
    /\ main \in {"stop_process", "abandon"}
    /\ process' = "left"
    /\ main' = IF main = "abandon" THEN "abandoned" ELSE "returned"
    /\ UNCHANGED <<failed, threads, draining, ready, expired, asking, reqVars>>

-----------------------------------------------------------------------------
(* Worker threads                                                          *)

(* The loop ends between two callbacks; its reader is removed.             *)
LoopStops(w) ==
    /\ worker[w] = "told"
    /\ ~\E r \in Requests : at[r] = w /\ req[r] = "popped"
    /\ worker' = Set(worker, w, "teardown")
    /\ lifespan' = Set(lifespan, w, "leaving")
    /\ UNCHANGED <<main, failed, process, loops, draining, ready, expired, asking,
                   reqVars>>

(* stop_worker: the lifespan is left, and topics stop following Redis from *)
(* this loop even if that raises.                                          *)
StopWorker(w) ==
    /\ worker[w] = "teardown"
    /\ worker' = Set(worker, w, "gone")
    /\ lifespan' = Set(lifespan, w, "left")
    /\ UNCHANGED <<main, failed, process, loops, draining, ready, expired, asking,
                   reqVars>>

-----------------------------------------------------------------------------
(* Requests                                                                *)

Enqueue(r, w) ==
    /\ req[r] = "received"
    /\ req' = Set(req, r, "queued")
    /\ at' = Set(at, r, w)
    /\ UNCHANGED <<main, failed, process, threads, draining, ready, expired, asking>>

(* The drain takes it off the queue and only then counts it in flight.     *)
Pop(r) ==
    /\ req[r] = "queued" /\ worker[at[r]] \in {"serving", "told"}
    /\ req' = Set(req, r, "popped")
    /\ UNCHANGED <<main, failed, process, threads, draining, ready, expired, asking,
                   at>>

Claim(r) ==
    /\ req[r] = "popped"
    /\ req' = Set(req, r, "running")
    /\ UNCHANGED <<main, failed, process, threads, draining, ready, expired, asking,
                   at>>

(* Teardown runs the loop too, so a handler goes on as long as its loop.   *)
Answer(r) ==
    /\ req[r] = "running" /\ worker[at[r]] # "gone"
    /\ req' = Set(req, r, "answered")
    /\ UNCHANGED <<main, failed, process, threads, draining, ready, expired, asking,
                   at>>

-----------------------------------------------------------------------------
Init ==
    /\ main = "new" /\ failed = FALSE /\ process = "never"
    /\ worker = [w \in Workers |-> "none"]
    /\ lifespan = [w \in Workers |-> "never"]
    /\ loops = {}
    /\ signal = FALSE /\ draining = FALSE /\ ready = TRUE /\ expired = FALSE
    /\ asks = 0 /\ asked = FALSE
    /\ req = [r \in Requests |-> "none"]
    /\ at = [r \in Requests |-> NoWorker]

Main ==
    \/ StartProcess \/ Spawn \/ Started \/ Bind \/ AddressRefused \/ GetPermit
    \/ HearSignal \/ DelayPasses \/ Drained \/ Stop \/ Join \/ StopProcess

Next ==
    \/ Main \/ Signal \/ Shutdown
    \/ \E r \in Requests : Accept(r) \/ Pop(r) \/ Claim(r) \/ Answer(r)
    \/ \E r \in Requests, w \in Workers : Enqueue(r, w)
    \/ \E w \in Workers : StartWorker(w) \/ LoopStops(w) \/ StopWorker(w)

(* The serving thread goes on, takes a signal or a deadline that stays,    *)
(* and lifespans come up; no handler need answer, no loop need come back   *)
(* from a callback and no teardown need end.                               *)
Fairness ==
    /\ WF_vars(Main) /\ WF_vars(HearSignal) /\ WF_vars(DelayPasses)
    /\ \A w \in Workers : WF_vars(StartWorker(w))

Spec == Init /\ [][Next]_vars /\ Fairness

-----------------------------------------------------------------------------
Spans == {"never", "entered", "leaving", "left", "forgotten"}

TypeOK ==
    /\ main \in {"new", "spawn", "starting", "bind", "permit", "accept", "drain",
                 "stop", "join", "abandon", "stop_process", "returned", "abandoned"}
    /\ process \in Spans
    /\ worker \in [Workers -> {"none", "starting", "serving", "told", "teardown",
                               "gone"}]
    /\ lifespan \in [Workers -> Spans]
    /\ loops \subseteq Workers
    /\ {failed, signal, draining, ready, expired, asked} \subseteq BOOLEAN
    /\ asks \in 0 .. MaxAsks
    /\ req \in [Requests -> {"none", "received", "queued", "popped", "running",
                             "answered", "cut"}]
    /\ at \in [Requests -> Workers \cup {NoWorker}]

(* "Wait for them ... otherwise the process teardown that follows would    *)
(* run while pools were still closing": when the process lifespan is left, *)
(* and when serve returns, no worker's lifespan is open or still starting, *)
(* whether the start failed or the server was stopped, unless a teardown   *)
(* outlasted the grace or the address was refused.                         *)
TornDownInOrder ==
    (process = "left" /\ main # "abandoned") \/ main = "returned" =>
        \/ expired
        \/ /\ process # "entered"
           /\ \A w \in Workers :
                 /\ lifespan[w] \notin {"entered", "leaving"}
                 /\ worker[w] \in {"none", "gone"}

(* "Startup failures stop the server before it accepts a connection": with *)
(* a listener open every loop has its lifespan, and is one that readiness  *)
(* checks reach.                                                           *)
ServesWhole ==
    Listening => /\ process = "entered" /\ loops = Workers
                 /\ \A w \in Workers : lifespan[w] = "entered"

(* A signal is not missed, however early it comes, and neither a handler   *)
(* that does not end nor a teardown that hangs keeps the process alive.    *)
SignalEnds == asked ~> main \in {"returned", "abandoned"}

(* The same, whatever ended the start: every worker that started runs its  *)
(* teardown before serve returns, or the grace was over.                   *)
NoneLeftBehind ==
    main = "abandoned" => \A w \in Workers : lifespan[w] # "entered"

(* Draining waits for handlers and connections "rather than dropping their *)
(* clients mid-request", unless the grace runs out.                        *)
NoneCut == \A r \in Requests : req[r] = "cut" => expired

(* Startup is all or nothing and teardown runs in order.                   *)
Safety == TypeOK /\ TornDownInOrder /\ ServesWhole

=============================================================================
