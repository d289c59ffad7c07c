---------------------------- MODULE HealthChecks -----------------------------
(***************************************************************************)
(* The readiness probe (_health.py Health.evaluate): every check on every  *)
(* worker loop at once, within one timeout, while loops get stuck, come to *)
(* serve and close.                                                        *)
(***************************************************************************)
EXTENDS FiniteSets

CONSTANTS
    Loops,         \* worker loops
    Checks         \* registered checks

VARIABLES
    serving,       \* lifecycle.loops
    stuck,         \* loops that run nothing any more
    closed,        \* those of them that were stopped
    at,            \* "idle", "waiting", "timedout", "answered", or "raised"
    asked,         \* the loops this evaluation asks
    job,           \* per loop and check: "none", "asked", "running", or its outcome
    passing,       \* history: jobs whose check came back with anything but False
    answer         \* status and what is said of each check

vars == <<serving, stuck, closed, at, asked, job, passing, answer>>

Jobs == Loops \X Checks
Outcomes == {"passed", "failed", "cancelled"}
Waiting == {"asked", "running"}
NoAnswer == [ready |-> FALSE, said |-> [c \in Checks |-> "ok"]]

-----------------------------------------------------------------------------
(* Workers start and stop, and a handler may block a loop.                 *)

ServeLoop(l) ==
    /\ l \notin serving
    /\ serving' = serving \cup {l}
    /\ UNCHANGED <<stuck, closed, at, asked, job, passing, answer>>

(* A loop that stops stays in the list, and closes.                        *)
LoopCloses(l) ==
    /\ l \in serving \ closed
    /\ closed' = closed \cup {l} /\ stuck' = stuck \cup {l}
    /\ UNCHANGED <<serving, at, asked, job, passing, answer>>

GetStuck(l) ==
    /\ l \notin stuck
    /\ stuck' = stuck \cup {l}
    /\ UNCHANGED <<serving, closed, at, asked, job, passing, answer>>

-----------------------------------------------------------------------------
(* evaluate                                                                *)

(* On the loop that serves the probe, and through run_coroutine_threadsafe *)
(* on the others; a closed loop takes nothing.                             *)
Evaluate ==
    /\ at = "idle"
    /\ at' = "waiting"
    /\ asked' = serving
    /\ job' = [j \in Jobs |-> CASE j[1] \in closed -> "failed"
                                [] j[1] \in serving \ closed -> "asked"
                                [] OTHER -> "none"]
    /\ UNCHANGED <<serving, stuck, closed, passing, answer>>

RunJob(j) ==
    /\ job[j] = "asked" /\ j[1] \notin stuck /\ at = "waiting"
    /\ job' = [job EXCEPT ![j] = "running"]
    /\ UNCHANGED <<serving, stuck, closed, at, asked, passing, answer>>

(* It passes; returns False or raises; or raises CancelledError, which is  *)
(* not an Exception and ends the task as cancelled.                        *)
JobEnds(j) ==
    /\ job[j] = "running" /\ j[1] \notin stuck /\ at = "waiting"
    /\ \E o \in Outcomes :
         /\ job' = [job EXCEPT ![j] = o]
         /\ passing' = IF o = "passed" THEN passing \cup {j} ELSE passing
    /\ UNCHANGED <<serving, stuck, closed, at, asked, answer>>

(* Mutant of TimeOut: every check is waited for.                           *)
TimeOutNever ==
    /\ at = "waiting" /\ FALSE
    /\ UNCHANGED vars

(* asyncio.wait gives up; what is pending is cancelled.                    *)
TimeOut ==
    /\ at = "waiting"
    /\ \E j \in Jobs : job[j] \in Waiting
    /\ at' = "timedout"
    /\ UNCHANGED <<serving, stuck, closed, asked, job, passing, answer>>

Collected == at = "timedout" \/ (at = "waiting" /\ \A j \in Jobs : job[j] \notin Waiting)

(* Mutant of Said: the first loop's result stands for a check.             *)
SaidFirst(c) ==
    IF asked = {} THEN "ok"
    ELSE LET l == CHOOSE x \in asked : TRUE
         IN  CASE job[<<l, c>>] \in Waiting -> "timeout"
               [] job[<<l, c>>] = "failed" -> "failed"
               [] OTHER -> "ok"

(* A timeout on any loop, or else a failure on any.                        *)
Said(c) ==
    CASE \E l \in asked : job[<<l, c>>] \in Waiting -> "timeout"
      [] \A l \in asked : job[<<l, c>>] \notin Waiting ->
           IF \E l \in asked : job[<<l, c>>] = "failed" THEN "failed" ELSE "ok"

Answers ==
    /\ Collected
    /\ \A j \in Jobs : job[j] # "cancelled"
    /\ at' = "answered"
    /\ answer' = [ready |-> asked # {} /\ \A c \in Checks : Said(c) = "ok",
                  said |-> [c \in Checks |-> Said(c)]]
    /\ UNCHANGED <<serving, stuck, closed, asked, job, passing>>

(* task.result() of a cancelled task raises CancelledError here.           *)
Raises ==
    /\ Collected
    /\ \E j \in Jobs : job[j] = "cancelled"
    /\ at' = "raised"
    /\ UNCHANGED <<serving, stuck, closed, asked, job, passing, answer>>

-----------------------------------------------------------------------------

Init ==
    /\ serving \in SUBSET Loops /\ stuck = {} /\ closed = {}
    /\ at = "idle" /\ asked = {} /\ job = [j \in Jobs |-> "none"]
    /\ passing = {} /\ answer = NoAnswer

Probe ==
    Evaluate \/ TimeOut \/ Answers \/ Raises \/ \E j \in Jobs : RunJob(j)

Next ==
    \/ Probe
    \/ \E j \in Jobs : JobEnds(j)
    \/ \E l \in Loops : ServeLoop(l) \/ LoopCloses(l) \/ GetStuck(l)

(* The loop that serves the probe runs; the checks need not come back.     *)
Fairness == WF_vars(Probe)

Spec == Init /\ [][Next]_vars /\ Fairness

-----------------------------------------------------------------------------
(* Properties.                                                             *)

(* The shape of the state.                                                 *)
TypeOK ==
    /\ serving \subseteq Loops /\ stuck \subseteq Loops /\ asked \subseteq Loops /\ closed \subseteq stuck
    /\ at \in {"idle", "waiting", "timedout", "answered", "raised"}
    /\ job \in [Jobs -> {"none", "asked", "running"} \cup Outcomes]
    /\ passing \subseteq Jobs
    /\ answer \in [ready : BOOLEAN, said : [Checks -> {"ok", "failed", "timeout"}]]

(* Ready is said only where there was a loop to ask and every check passed *)
(* on each, whatever order they came back in and whichever was late; and   *)
(* what is said of a check is never better than its worst loop (evaluate). *)
ReadyIsTrue ==
    at = "answered" =>
        /\ answer.ready => asked # {} /\ asked \X Checks \subseteq passing
        /\ \A c \in Checks : answer.said[c] = "ok" <=> \A l \in asked : <<l, c>> \in passing

(* The probe is over within its timeout though loops are stuck or close    *)
(* while they are asked.                                                   *)
ProbeEnds == <>(at \in {"answered", "raised"})

(* Stated by Health: a check that is "raising or returning False fails"    *)
(* the probe: an answer, whatever a check raises.                          *)
RaisingFails == at # "raised"

(* A probe says ready only when every check of it said so                  *)
(* (Health.evaluate).                                                      *)
Safety == TypeOK /\ ReadyIsTrue

=============================================================================
