----------------------------- MODULE MCServing -------------------------------
(***************************************************************************)
(* Model-checking instance of what lives as long as a server or a          *)
(* connection: the sockets' tickets and rechecks (SocketAuth), the server  *)
(* from its start to its end (Serve), its readiness probe (HealthChecks),  *)
(* one WebSocket, one event stream (SsePump) and the supervisor of `oxbrook*)
(* dev` (Reload).  They share no state, so a behaviour is one of any:      *)
(* `which` says of which, and the others stay where they start.  SocketAuth*)
(* is run twice, to look at its sockets and at its issuers.                *)
(***************************************************************************)
EXTENDS SocketAuth

CONSTANTS u1, u2

(* Serve.                                                                  *)
CONSTANTS Workers, Calls, NoWorker, DrainDelay, MaxAsks
VARIABLES which, main, startFailed, process, worker, lifespan, loops, signal, draining, ready,
          expired, asks, asked, req, at
(* HealthChecks.                                                           *)
CONSTANTS Checks
VARIABLES serving, stuck, stopped, probe, probed, job, passing, verdict
(* WebSocket.                                                              *)
CONSTANTS SendBuffer, MaxIn, MaxOut
VARIABLES peer, sent, incoming, waiter, closed, closeWaiter, outgoing, drive, delivered,
          reader, woken, run, told, failed, out, received, ended
(* SsePump.                                                                *)
CONSTANTS Buffer, MaxEvents, Pings
VARIABLES produced, pending, pump, held, gone, sourceClosed, chunks, client, got
(* Reload.                                                                 *)
CONSTANTS Files, MaxEdits, MaxCrashes
VARIABLES edits, content, stamp, cached, server, loaded, stray, crashes, supervisor, before,
          changed, signalled, unlisted

Sv == INSTANCE Serve WITH
          Requests <- Calls, ProcessHooks <- {"ok", "raises", "no_mapping"},
          WorkerHooks <- {"ok", "raises", "no_mapping", "clash", "no_reader"},
          failed <- startFailed
Hc == INSTANCE HealthChecks WITH
          Loops <- Workers, closed <- stopped, at <- probe, asked <- probed, answer <- verdict
Ws == INSTANCE WebSocket WITH client <- peer, gone <- told
Ss == INSTANCE SsePump
Rl == INSTANCE Reload WITH at <- supervisor

ASSUME ServingAssumption ==
    Sv!ServeAssumption /\ Ws!WebSocketAssumption /\ Ss!SsePumpAssumption

serveVars == <<main, startFailed, process, worker, lifespan, loops, signal, draining, ready,
               expired, asks, asked, req, at>>
healthVars == <<serving, stuck, stopped, probe, probed, job, passing, verdict>>
webSocketVars == <<peer, sent, incoming, waiter, closed, closeWaiter, outgoing, drive,
                   delivered, reader, woken, run, told, failed, out, received, ended>>
sseVars == <<produced, pending, pump, held, gone, sourceClosed, chunks, client, got>>
reloadVars == <<edits, content, stamp, cached, server, loaded, stray, crashes, supervisor,
                before, changed, signalled, unlisted>>

(* "socket": the sockets from upgrade to close, their tickets in Redis.    *)
RedeemedFromRedis == Next /\ NextTicket' <= MaxTickets

(* "tickets": the loops issue at the same time, and a socket may redeem one*)
(* ticket.  The loops are alike, so one of them is the first to begin.     *)
LoopsRace ==
    /\ Next /\ UNCHANGED <<access, waiting>>
    /\ \A s \in Sockets : socket'[s] = Idle \/
          /\ socket'[s].phase \in {"gate", "authorize", "refused"}
          /\ socket'[s].ticket = 1 /\ socket'[s].user = None
    /\ \A s \in Sockets \ {CHOOSE s \in Sockets : TRUE} : socket'[s] = Idle
    /\ alone' \subseteq alone \cup {CHOOSE l \in Loops : TRUE}

MCInit ==
    /\ which \in {"socket", "tickets", "serve", "health", "websocket", "sse", "reload"}
    /\ Init /\ Sv!Init /\ Hc!Init /\ Ws!Init /\ Ss!Init /\ Rl!Init
    /\ inRedis = (which # "tickets")
    /\ which # "health" => serving = {}

MCNext ==
    \/ /\ which = "socket" /\ RedeemedFromRedis
       /\ UNCHANGED <<which, serveVars, healthVars, webSocketVars, sseVars, reloadVars>>
    \/ /\ which = "tickets" /\ LoopsRace
       /\ UNCHANGED <<which, serveVars, healthVars, webSocketVars, sseVars, reloadVars>>
    \/ /\ which = "serve" /\ Sv!Next
       /\ UNCHANGED <<which, vars, healthVars, webSocketVars, sseVars, reloadVars>>
    \/ /\ which = "health" /\ Hc!Next
       /\ UNCHANGED <<which, vars, serveVars, webSocketVars, sseVars, reloadVars>>
    \/ /\ which = "websocket" /\ Ws!Next
       /\ UNCHANGED <<which, vars, serveVars, healthVars, sseVars, reloadVars>>
    \/ /\ which = "sse" /\ Ss!Next
       /\ UNCHANGED <<which, vars, serveVars, healthVars, webSocketVars, reloadVars>>
    \/ /\ which = "reload" /\ Rl!Next
       /\ UNCHANGED <<which, vars, serveVars, healthVars, webSocketVars, sseVars>>

(* Each component's fairness, where it is the one that runs.               *)
MCFairness ==
    /\ Fairness
    /\ WF_serveVars(which = "serve" /\ Sv!Main)
    /\ WF_serveVars(which = "serve" /\ Sv!HearSignal)
    /\ WF_serveVars(which = "serve" /\ Sv!DelayPasses)
    /\ \A w \in Workers : WF_serveVars(which = "serve" /\ Sv!StartWorker(w))
    /\ WF_healthVars(which = "health" /\ Hc!Probe)
    /\ WF_webSocketVars(which = "websocket" /\ Ws!Driver)
    /\ WF_webSocketVars(which = "websocket" /\ Ws!Receiving)
    /\ SF_webSocketVars(which = "websocket" /\ Ws!Run)
    /\ WF_sseVars(which = "sse" /\ Ss!Pump)
    /\ WF_sseVars(which = "sse" /\ Ss!Notice)
    /\ WF_sseVars(which = "sse" /\ Ss!ClientReads)
    /\ WF_reloadVars(which = "reload" /\ Rl!Supervise)
    /\ WF_reloadVars(which = "reload" /\ Rl!Imports)

MCSpec ==
    /\ MCInit
    /\ [][MCNext]_<<which, vars, serveVars, healthVars, webSocketVars, sseVars, reloadVars>>
    /\ MCFairness

(* Startup is all or nothing, and teardown runs in order (Serve).          *)
ServeSafety == Sv!Safety

(* A signal is not missed and ends the server (Serve).                     *)
SignalEnds == Sv!SignalEnds

(* Ready is said only where every check passed on every loop               *)
(* (HealthChecks).                                                         *)
HealthSafety == Hc!Safety

(* The probe is over within its timeout (HealthChecks).                    *)
ProbeEnds == which = "health" => Hc!ProbeEnds

(* No message or close is missed, the order is kept and the slot outlives  *)
(* the handler (WebSocket).                                                *)
WebSocketSafety == Ws!Safety

(* A peer that goes away ends its handler (WebSocket).                     *)
PeerGoneEnds == Ws!PeerGoneEnds

(* A slow client misses no event (SsePump).                                *)
SseSafety == Ss!Safety

(* A client that leaves releases the source, one that stays gets all of it *)
(* (SsePump).                                                              *)
SseLiveness == Ss!Liveness

(* Every edit reaches the server, and no server is left behind (Reload).   *)
ReloadLiveness == which = "reload" => Rl!Liveness

=============================================================================
