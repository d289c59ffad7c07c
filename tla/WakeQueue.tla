------------------------------ MODULE WakeQueue ------------------------------
(***************************************************************************)
(* How a tokio thread hands work to a Python worker without touching the   *)
(* interpreter: src/src/queue.rs (WorkerQueue), src/src/wake.rs (the wake  *)
(* pair) and the drain callback of src/src/worker.rs (Drainer).            *)
(*                                                                         *)
(* Tokio threads ("pushers") append to one of three lock-free queues and   *)
(* then call wake(), which writes one byte to a socket only when it is the *)
(* one to flip `notified`.  The worker's asyncio loop watches the socket;  *)
(* its drain callback empties the socket, clears `notified`, empties the   *)
(* three queues and re-arms itself if something arrived meanwhile.  Every  *)
(* atomic access of the code is a step of its own here.                    *)
(***************************************************************************)
EXTENDS Integers, Sequences, FiniteSets

CONSTANTS
    Pushers,      \* tokio threads
    Loop,         \* the worker's thread, which also calls wake()
    Requests,     \* requests that can be pushed, each at most once
    NoRequest,    \* what a thread holds when it holds no request
    Raising,      \* requests whose Python objects cannot be built
    Notices,      \* {"wakeup", "cancel"}: the two notice queues
    Limit,        \* max_concurrency of this worker
    MaxNotices,   \* bound: notices pushed, per kind
    MaxTime       \* bound: the clock millis() reads

Idle == -1        \* IDLE = u64::MAX, the stamp of no episode

Threads == Pushers \cup {Loop}

ASSUME WakeQueueAssumption ==
    /\ Loop \notin Pushers
    /\ IsFiniteSet(Pushers)
    /\ NoRequest \notin Requests
    /\ Raising \subseteq Requests
    /\ Notices = {"wakeup", "cancel"}
    /\ Limit \in Nat \ {0}
    /\ MaxNotices \in Nat
    /\ MaxTime \in Nat

VARIABLES
    queue,        \* SegQueue<Pending>
    notices,      \* lengths of `wakeups` and `cancels`
    notified,     \* AtomicBool
    notifiedAt,   \* AtomicU64, Idle or the time of the flip
    bytes,        \* unread bytes in the wake socket
    inflight,     \* AtomicUsize
    pc,           \* where each thread is in the code
    seen,         \* per pusher: queue.len() as load() read it
    holding,      \* per pusher: the request being pushed; Loop: being built
    unsent,       \* requests no client has made yet
    sent,         \* per kind, notices pushed so far
    running,      \* requests whose handler holds a slot
    shed,         \* requests try_push has refused
    now           \* milliseconds since epoch()

mailbox == <<queue, notices>>
wakeVars == <<notified, notifiedAt, bytes>>
vars == <<queue, notices, notified, notifiedAt, bytes, inflight, pc, seen,
          holding, unsent, sent, running, shed, now>>

Goto(t, from, to) ==
    /\ pc[t] = from
    /\ pc' = [pc EXCEPT ![t] = to]

-----------------------------------------------------------------------------
(* A pusher: try_push, push_wakeup, push_cancel.                           *)

(* load() reads the queue's length first ...                               *)
TryPush(p, r) ==
    /\ Goto(p, "idle", "load")
    /\ r \in unsent
    /\ unsent' = unsent \ {r}
    /\ holding' = [holding EXCEPT ![p] = r]
    /\ seen' = [seen EXCEPT ![p] = Len(queue)]
    /\ UNCHANGED <<mailbox, wakeVars, inflight, sent, running, shed, now>>

(* Mutant of HasRoom: one too many.                                        *)
HasRoomAtLimit(p) == seen[p] + inflight <= Limit

(* ... then the in-flight count, and has_room() decides on the sum.        *)
HasRoom(p) == seen[p] + inflight < Limit

Admit(p) ==
    /\ HasRoom(p)
    /\ Goto(p, "load", "push")
    /\ UNCHANGED <<mailbox, wakeVars, inflight, seen, holding, unsent, sent,
                   running, shed, now>>

Refuse(p) ==
    /\ ~HasRoom(p)
    /\ Goto(p, "load", "idle")
    /\ shed' = shed \cup {holding[p]}
    /\ holding' = [holding EXCEPT ![p] = NoRequest]
    /\ UNCHANGED <<mailbox, wakeVars, inflight, seen, unsent, sent, running,
                   now>>

Push(p) ==
    /\ Goto(p, "push", "swap")
    /\ queue' = Append(queue, holding[p])
    /\ holding' = [holding EXCEPT ![p] = NoRequest]
    /\ UNCHANGED <<notices, wakeVars, inflight, seen, unsent, sent, running,
                   shed, now>>

(* Mutant of PushNotice: the notice is queued and wake() forgotten.        *)
PushNoticeSilently(p, k) ==
    /\ Goto(p, "idle", "idle")
    /\ sent[k] < MaxNotices
    /\ sent' = [sent EXCEPT ![k] = @ + 1]
    /\ notices' = [notices EXCEPT ![k] = @ + 1]
    /\ UNCHANGED <<queue, wakeVars, inflight, seen, holding, unsent, running,
                   shed, now>>

PushNotice(p, k) ==
    /\ Goto(p, "idle", "swap")
    /\ sent[k] < MaxNotices
    /\ sent' = [sent EXCEPT ![k] = @ + 1]
    /\ notices' = [notices EXCEPT ![k] = @ + 1]
    /\ UNCHANGED <<queue, wakeVars, inflight, seen, holding, unsent, running,
                   shed, now>>

-----------------------------------------------------------------------------
(* wake(), by whichever thread called it.  The thread that flips the flag  *)
(* stamps the time and writes the byte; any other is done.                 *)

(* Mutant of SwapNotified: a caller that finds the flag set stamps the     *)
(* time all the same.                                                      *)
SwapRestamps(t) ==
    /\ Goto(t, "swap", IF notified THEN "idle" ELSE "stamp")
    /\ notified' = TRUE
    /\ notifiedAt' = IF notified THEN now ELSE notifiedAt
    /\ UNCHANGED <<mailbox, bytes, inflight, seen, holding, unsent, sent,
                   running, shed, now>>

SwapNotified(t) ==
    /\ Goto(t, "swap", IF notified THEN "idle" ELSE "stamp")
    /\ notified' = TRUE
    /\ UNCHANGED <<mailbox, notifiedAt, bytes, inflight, seen, holding, unsent,
                   sent, running, shed, now>>

Stamp(t) ==
    /\ Goto(t, "stamp", "byte")
    /\ notifiedAt' = now
    /\ UNCHANGED <<mailbox, notified, bytes, inflight, seen, holding, unsent,
                   sent, running, shed, now>>

WriteByte(t) ==
    /\ Goto(t, "byte", "idle")
    /\ bytes' = bytes + 1
    /\ UNCHANGED <<mailbox, notified, notifiedAt, inflight, seen, holding,
                   unsent, sent, running, shed, now>>

-----------------------------------------------------------------------------
(* The drain callback.  The loop is in select when its pc is "idle"; the   *)
(* handlers it runs there are Finish below.                                *)

ReadSocket ==
    /\ bytes > 0
    /\ Goto(Loop, "idle", "clear_at")
    /\ bytes' = 0
    /\ UNCHANGED <<mailbox, notified, notifiedAt, inflight, seen, holding,
                   unsent, sent, running, shed, now>>

(* Mutant of ClearNotified: the flag before the stamp.                     *)
ClearFlagFirst ==
    \/ /\ Goto(Loop, "clear_at", "clear_flag")
       /\ notified' = FALSE
       /\ UNCHANGED <<mailbox, notifiedAt, bytes, inflight, seen, holding,
                      unsent, sent, running, shed, now>>
    \/ /\ Goto(Loop, "clear_flag", "wakeup")
       /\ notifiedAt' = Idle
       /\ UNCHANGED <<mailbox, notified, bytes, inflight, seen, holding, unsent,
                      sent, running, shed, now>>

(* Mutant of ClearNotified: the flag is never cleared.                     *)
ClearStampOnly ==
    /\ Goto(Loop, "clear_at", "wakeup")
    /\ notifiedAt' = Idle
    /\ UNCHANGED <<mailbox, notified, bytes, inflight, seen, holding, unsent,
                   sent, running, shed, now>>

(* clear_notified: the stamp before the flag, two stores.                  *)
ClearNotified ==
    \/ /\ Goto(Loop, "clear_at", "clear_flag")
       /\ notifiedAt' = Idle
       /\ UNCHANGED <<mailbox, notified, bytes, inflight, seen, holding, unsent,
                      sent, running, shed, now>>
    \/ /\ Goto(Loop, "clear_flag", "wakeup")
       /\ notified' = FALSE
       /\ UNCHANGED <<mailbox, notifiedAt, bytes, inflight, seen, holding,
                      unsent, sent, running, shed, now>>

(* The two notice queues, callbacks first, each until it is empty.         *)
AfterNotices(k) == IF k = "wakeup" THEN "cancel" ELSE "pop"

PopNotice(k) ==
    /\ pc[Loop] = k
    /\ notices[k] > 0
    /\ notices' = [notices EXCEPT ![k] = @ - 1]
    /\ UNCHANGED <<queue, wakeVars, inflight, pc, seen, holding, unsent, sent,
                   running, shed, now>>

NoticesEmpty(k) ==
    /\ notices[k] = 0
    /\ Goto(Loop, k, AfterNotices(k))
    /\ UNCHANGED <<mailbox, wakeVars, inflight, seen, holding, unsent, sent,
                   running, shed, now>>

(* A request whose client left while it was queued is dropped unclaimed;   *)
(* whether it left is the business of module Requests.                     *)
PopAbandoned ==
    /\ pc[Loop] = "pop"
    /\ queue # <<>>
    /\ queue' = Tail(queue)
    /\ UNCHANGED <<notices, wakeVars, inflight, pc, seen, holding, unsent, sent,
                   running, shed, now>>

Pop ==
    /\ queue # <<>>
    /\ Goto(Loop, "pop", "claim")
    /\ holding' = [holding EXCEPT ![Loop] = Head(queue)]
    /\ queue' = Tail(queue)
    /\ UNCHANGED <<notices, wakeVars, inflight, seen, unsent, sent, running,
                   shed, now>>

Claim ==
    /\ Goto(Loop, "claim", "build")
    /\ inflight' = inflight + 1
    /\ UNCHANGED <<mailbox, wakeVars, seen, holding, unsent, sent, running,
                   shed, now>>

(* Parameters, request and responder built, the handler's task created.    *)
Build ==
    /\ holding[Loop] \notin Raising
    /\ Goto(Loop, "build", "pop")
    /\ running' = running \cup {holding[Loop]}
    /\ holding' = [holding EXCEPT ![Loop] = NoRequest]
    /\ UNCHANGED <<mailbox, wakeVars, inflight, seen, unsent, sent, shed, now>>

(* A constructor raised: `?` leaves the callback there and then, with the  *)
(* slot claimed and no Responder to release it, and without the re-arm.    *)
BuildRaises ==
    /\ holding[Loop] \in Raising
    /\ Goto(Loop, "build", "idle")
    /\ holding' = [holding EXCEPT ![Loop] = NoRequest]
    /\ UNCHANGED <<mailbox, wakeVars, inflight, seen, unsent, sent, running,
                   shed, now>>

QueueEmpty ==
    /\ queue = <<>>
    /\ Goto(Loop, "pop", "check_queue")
    /\ UNCHANGED <<mailbox, wakeVars, inflight, seen, holding, unsent, sent,
                   running, shed, now>>

(* rewake_if_pending: three is_empty() loads, in this order, short-circuit. *)
RewakeCheck(from, empty, to) ==
    /\ Goto(Loop, from, IF empty THEN to ELSE "swap")
    /\ UNCHANGED <<mailbox, wakeVars, inflight, seen, holding, unsent, sent,
                   running, shed, now>>

RewakeIfPending ==
    \/ RewakeCheck("check_queue", queue = <<>>, "check_wakeup")
    \/ RewakeCheck("check_wakeup", notices["wakeup"] = 0, "check_cancel")
    \/ RewakeCheck("check_cancel", notices["cancel"] = 0, "idle")

-----------------------------------------------------------------------------
(* A handler ends and its Responder releases the slot, on the loop.        *)
Finish(r) ==
    /\ pc[Loop] = "idle"
    /\ r \in running
    /\ running' = running \ {r}
    /\ inflight' = inflight - 1
    /\ UNCHANGED <<mailbox, wakeVars, pc, seen, holding, unsent, sent, shed,
                   now>>

Tick ==
    /\ now < MaxTime
    /\ now' = now + 1
    /\ UNCHANGED <<mailbox, wakeVars, inflight, pc, seen, holding, unsent, sent,
                   running, shed>>

-----------------------------------------------------------------------------
Init ==
    /\ queue = <<>>
    /\ notices = [k \in Notices |-> 0]
    /\ notified = FALSE
    /\ notifiedAt = Idle
    /\ bytes = 0
    /\ inflight = 0
    /\ pc = [t \in Threads |-> "idle"]
    /\ seen = [p \in Pushers |-> 0]
    /\ holding = [t \in Threads |-> NoRequest]
    /\ unsent = Requests
    /\ sent = [k \in Notices |-> 0]
    /\ running = {}
    /\ shed = {}
    /\ now = 0

Pusher(p) ==
    \/ \E r \in Requests : TryPush(p, r)
    \/ \E k \in Notices : PushNotice(p, k)
    \/ Admit(p) \/ Refuse(p) \/ Push(p)

Wake(t) == SwapNotified(t) \/ Stamp(t) \/ WriteByte(t)

Drain ==
    \/ ReadSocket \/ ClearNotified
    \/ \E k \in Notices : PopNotice(k) \/ NoticesEmpty(k)
    \/ PopAbandoned \/ Pop \/ Claim \/ Build \/ BuildRaises \/ QueueEmpty
    \/ RewakeIfPending

Next ==
    \/ \E p \in Pushers : Pusher(p)
    \/ \E t \in Threads : Wake(t)
    \/ Drain
    \/ \E r \in Requests : Finish(r)
    \/ Tick

(* A thread inside try_push or wake() runs on: neither blocks.  The loop   *)
(* gets back to its selector, which is the application's promise not to    *)
(* block it.  No client has to send anything and no handler has to end.    *)
Fairness ==
    /\ \A p \in Pushers : WF_vars(Admit(p) \/ Refuse(p) \/ Push(p))
    /\ \A t \in Threads : WF_vars(Wake(t))
    /\ WF_vars(Drain)

Spec == Init /\ [][Next]_vars /\ Fairness

-----------------------------------------------------------------------------
Pcs == {"idle", "load", "push", "swap", "stamp", "byte", "clear_at",
        "clear_flag", "wakeup", "cancel", "pop", "claim", "build",
        "check_queue", "check_wakeup", "check_cancel"}

TypeOK ==
    /\ queue \in Seq(Requests)
    /\ notices \in [Notices -> Nat]
    /\ notified \in BOOLEAN
    /\ notifiedAt \in Nat \cup {Idle}
    /\ bytes \in Nat
    /\ inflight \in Nat
    /\ pc \in [Threads -> Pcs]
    /\ seen \in [Pushers -> Nat]
    /\ holding \in [Threads -> Requests \cup {NoRequest}]
    /\ unsent \subseteq Requests
    /\ sent \in [Notices -> Nat]
    /\ running \subseteq Requests
    /\ shed \subseteq Requests
    /\ now \in Nat

-----------------------------------------------------------------------------
(* Properties                                                              *)

Pending == queue # <<>> \/ \E k \in Notices : notices[k] > 0

(* A thread between its push and the end of wake().                        *)
InWake == {t \in Threads : pc[t] \in {"swap", "stamp", "byte"}}

(* "At most one unread byte exists and the socket buffer can never fill"   *)
(* (wake() in queue.rs), whatever the threads do between the swap and the  *)
(* write and however the drain overlaps them.                              *)
AtMostOneByte == bytes <= 1

(* Whenever the loop is back in its selector with something queued, a byte *)
(* is unread or some thread is on its way to writing one: nothing that was *)
(* pushed during a drain waits for the next request to be noticed          *)
(* (clear_notified before popping, rewake_if_pending after).               *)
NoLostWakeup ==
    pc[Loop] = "idle" /\ Pending => bytes > 0 \/ InWake # {}

(* The liveness probe (waiting_for) sees a loop that does not come back: a *)
(* byte that nobody read has its start on record.  And it sees no stall    *)
(* that is over: a start on record belongs to an episode still open.       *)
StallVisible ==
    /\ bytes > 0 => notified /\ notifiedAt # Idle
    /\ notifiedAt # Idle => notified

(* What the loop and the probe can go by: one byte, and the true start.    *)
WakesHonest == TypeOK /\ AtMostOneByte /\ StallVisible

(* A push while a wake is pending does not restart the stall clock: from   *)
(* the byte's write to its read, notified_at keeps the flip's time.        *)
StallClockKept ==
    [][bytes > 0 /\ bytes' > 0 => notifiedAt' = notifiedAt]_vars

(* Requests this worker really has: queued, popped and not yet claimed, or *)
(* in flight.  load() may see fewer.                                       *)
Unclaimed == IF pc[Loop] = "claim" THEN 1 ELSE 0
TrueLoad == Len(queue) + Unclaimed + inflight

(* try_push is racy, and still "the number cannot grow without bound": the *)
(* overshoot over max_concurrency is at most one request per tokio thread. *)
LoadBounded == TrueLoad <= Limit + Cardinality(Pushers)

(* The inductive invariant behind these, in parts.                         *)

(* Where a thread can be and what it then holds; every handler owns a slot. *)
HoldingOK ==
    /\ \A p \in Pushers :
          /\ pc[p] \in {"idle", "load", "push", "swap", "stamp", "byte"}
          /\ pc[p] \in {"load", "push"} => holding[p] \in Requests
    /\ pc[Loop] \notin {"load", "push"}
    /\ pc[Loop] \in {"claim", "build"} => holding[Loop] \in Requests

SlotsOK ==
    /\ IsFiniteSet(running)
    /\ inflight >= Cardinality(running) + (IF pc[Loop] = "build" THEN 1 ELSE 0)

(* One wake episode at a time: its token is in turn a thread between the   *)
(* swap and the write, the byte in the socket, and the loop's clear.       *)
Waking == {t \in Threads : pc[t] \in {"stamp", "byte"}}
Clearing == pc[Loop] \in {"clear_at", "clear_flag"}

OneEpisode ==
    /\ \A t, u \in Waking : t = u
    /\ bytes > 0 => bytes = 1 /\ Waking = {} /\ ~Clearing
    /\ Clearing => Waking = {}
    /\ notified <=> (bytes > 0 \/ Waking # {} \/ Clearing)

StampOK ==
    /\ bytes > 0 => notifiedAt # Idle
    /\ \A t \in Threads : pc[t] = "byte" => notifiedAt # Idle
    /\ pc[Loop] = "clear_at" => notifiedAt # Idle
    /\ notifiedAt # Idle =>
          \/ bytes > 0
          \/ \E t \in Threads : pc[t] = "byte"
          \/ pc[Loop] = "clear_at"

(* Whatever is queued behind the loop's back has a wake on the way.  The   *)
(* loop will not look again at the requests, and at a kind of notice, once *)
(* its pc is one of these.                                                 *)
Checking == {"check_queue", "check_wakeup", "check_cancel"}
PastQueue == {"idle"} \cup Checking
Past == [k \in Notices |->
            PastQueue \cup {"pop", "claim", "build"}
                      \cup (IF k = "wakeup" THEN {"cancel"} ELSE {})]

WakeComing == notified \/ \E t \in Threads : pc[t] = "swap"

NothingForgotten ==
    /\ queue # <<>> /\ pc[Loop] \in PastQueue => WakeComing
    /\ \A k \in Notices :
          notices[k] > 0 /\ pc[Loop] \in Past[k] => WakeComing

(* Tokio threads that have been, or would be after d more releases, let in *)
(* by has_room().  Each adds at most one request to a load that is already *)
(* at its bound; a thread that starts to read when the load is over the    *)
(* limit is not among them.                                                *)
MayPush(d) ==
    {p \in Pushers : \/ pc[p] = "push"
                     \/ pc[p] = "load" /\ seen[p] + inflight < Limit + d}

OvershootBounded ==
    \A d \in 0 .. inflight :
        TrueLoad + Cardinality(MayPush(d)) <= Limit + Cardinality(Pushers) + d

Mailbox == INSTANCE WorkerMailbox WITH queue <- queue, notices <- notices

(* The protocol implements the mailbox: nothing is lost, duplicated or     *)
(* reordered, and everything pushed is eventually taken by the loop.       *)
ImplementsMailbox == Mailbox!Spec

=============================================================================
