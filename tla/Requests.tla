------------------------------ MODULE Requests ------------------------------
(***************************************************************************)
(* The life of the requests of one HTTP/2 connection on one worker: the    *)
(* tokio task that waits for a reply (handle in src/src/server.rs), the    *)
(* cell through which it abandons the handler (cancel.rs), the Responder   *)
(* through which the handler answers and gives back its slot               *)
(* (responder.rs), the drain callback (worker.rs) and the coroutine that   *)
(* runs the handler (run_handler and _respond in _runtime.py).             *)
(*                                                                         *)
(* The worker's loop is one thread: what it does between two awaits is a   *)
(* sequence of steps that no other loop step interrupts, and tokio threads *)
(* see every atomic access in between.  How the loop comes to drain is     *)
(* module WakeQueue; here the mailbox is as WorkerMailbox specifies it.    *)
(***************************************************************************)
EXTENDS Naturals, Sequences, FiniteSets

CONSTANTS
    Requests,
    NoRequest,     \* what the loop is busy with when it is not
    Cancellable,   \* requests on routes with cancel_on_disconnect
    Stubborn,      \* requests whose handlers catch CancelledError
    HasTimeout,    \* request_timeout is set
    Limit,         \* max_concurrency
    MaxStreams     \* MAX_STREAMS handlers of one connection

ASSUME RequestsAssumption ==
    /\ NoRequest \notin Requests
    /\ Cancellable \subseteq Requests
    /\ Stubborn \subseteq Requests
    /\ HasTimeout \in BOOLEAN
    /\ Limit \in Nat \ {0}
    /\ MaxStreams \in Nat \ {0}

VARIABLES
    net,           \* per request: where its tokio task is in handle()
    replied,       \* per request: its client was given the handler's reply
    connLoad,      \* the connection's ConnectionLoad
    queue,         \* the worker's requests
    cancels,       \* the worker's cancel notices
    inflight,      \* the worker's claimed slots
    cell,          \* per request: Cancel.state
    slot,          \* per request: Cancel.task is Some
    reply,         \* per request: the oneshot channel
    taken,         \* per request: Responder.tx was taken
    kept,          \* per request: Responder.kept
    released,      \* per request: Responder.released
    task,          \* per request: where its asyncio task is
    cancelling,    \* per request: task.cancel() was called, not yet raised
    pc,            \* what the loop thread is in the middle of
    cur            \* and for which request

tokioVars == <<net, replied>>
mailbox == <<queue, cancels>>
cellVars == <<cell, slot>>
responderVars == <<reply, taken, kept, released>>
taskVars == <<task, cancelling>>
loopVars == <<pc, cur>>
vars == <<net, replied, connLoad, queue, cancels, inflight, cell, slot, reply,
          taken, kept, released, task, cancelling, pc, cur>>

Set(f, r, v) == [f EXCEPT ![r] = v]

(* The tokio task of r moves on.  What its client is told if not the       *)
(* handler's reply (503, 504, 500, 400, or nothing, having left) makes no  *)
(* difference to the worker.                                               *)
Net(r, from, to) ==
    /\ net[r] = from
    /\ net' = Set(net, r, to)
    /\ UNCHANGED replied

-----------------------------------------------------------------------------
(* handle(), up to the queue.  Reservation::take adds first and looks at   *)
(* what was there, so a request that finds no place holds one for a moment. *)

TakePlace(r) ==
    /\ Net(r, "new", IF connLoad >= MaxStreams THEN "no_place" ELSE "body")
    /\ connLoad' = connLoad + 1
    /\ UNCHANGED <<mailbox, inflight, cellVars, responderVars, taskVars, loopVars>>

(* Given back with no request queued: no place (503), a bad body (400), a  *)
(* client that left while its body was read.                               *)
GiveBack(r) ==
    /\ Net(r, "no_place", "end") \/ Net(r, "body", "end")
    /\ connLoad' = connLoad - 1
    /\ UNCHANGED <<mailbox, inflight, cellVars, responderVars, taskVars, loopVars>>

HasRoom == Len(queue) + inflight < Limit

Enqueue(r) ==
    /\ HasRoom
    /\ Net(r, "body", "waiting")
    /\ queue' = Append(queue, r)
    /\ UNCHANGED <<connLoad, cancels, inflight, cellVars, responderVars, taskVars,
                   loopVars>>

(* Every worker is full (503): the place went with the request, and is     *)
(* given back here.                                                        *)
Shed(r) ==
    /\ ~HasRoom
    /\ Net(r, "body", "end")
    /\ connLoad' = connLoad - 1
    /\ UNCHANGED <<mailbox, inflight, cellVars, responderVars, taskVars, loopVars>>

-----------------------------------------------------------------------------
(* handle(), waiting for the first reply.  Whatever ends the wait other    *)
(* than a reply drops the Abandon guard armed, if the route has one.       *)

Armed(r) == IF r \in Cancellable THEN "flag" ELSE "end"

GetReply(r) ==
    /\ reply[r] \in {"full", "stream"}
    /\ net[r] = "waiting"
    /\ net' = Set(net, r, "end")
    /\ replied' = Set(replied, r, TRUE)
    /\ UNCHANGED <<connLoad, mailbox, inflight, cellVars, responderVars, taskVars,
                   loopVars>>

(* "handler finished without responding" (500)                             *)
SenderDropped(r) ==
    /\ reply[r] = "dropped"
    /\ Net(r, "waiting", Armed(r))
    /\ UNCHANGED <<connLoad, mailbox, inflight, cellVars, responderVars, taskVars,
                   loopVars>>

(* request_timeout elapsed (504)                                           *)
Timeout(r) ==
    /\ HasTimeout
    /\ reply[r] = "none"
    /\ Net(r, "waiting", Armed(r))
    /\ UNCHANGED <<connLoad, mailbox, inflight, cellVars, responderVars, taskVars,
                   loopVars>>

(* The connection closed or the stream was reset: the future is dropped,   *)
(* even with a reply in the channel.                                       *)
ClientLeaves(r) ==
    /\ Net(r, "waiting", Armed(r))
    /\ UNCHANGED <<connLoad, mailbox, inflight, cellVars, responderVars, taskVars,
                   loopVars>>

(* Mutant of Abandoning: the notice first, then the flag.                  *)
NoticeThenFlag(r) ==
    \/ /\ Net(r, "flag", "notice")
       /\ cancels' = Append(cancels, r)
       /\ UNCHANGED <<connLoad, queue, inflight, cellVars, responderVars,
                      taskVars, loopVars>>
    \/ /\ Net(r, "notice", "end")
       /\ cell' = IF cell[r] = "running" THEN Set(cell, r, "abandoned") ELSE cell
       /\ UNCHANGED <<connLoad, mailbox, inflight, slot, responderVars, taskVars,
                      loopVars>>

(* Mutant of Abandoning: the flag and no notice.                           *)
FlagOnly(r) ==
    /\ Net(r, "flag", "end")
    /\ cell' = IF cell[r] = "running" THEN Set(cell, r, "abandoned") ELSE cell
    /\ UNCHANGED <<connLoad, mailbox, inflight, slot, responderVars, taskVars,
                   loopVars>>

(* Abandon::drop: the flag first, then the notice.                         *)
Abandoning(r) ==
    \/ /\ Net(r, "flag", IF cell[r] = "running" THEN "notice" ELSE "end")
       /\ cell' = IF cell[r] = "running" THEN Set(cell, r, "abandoned") ELSE cell
       /\ UNCHANGED <<connLoad, mailbox, inflight, slot, responderVars, taskVars,
                      loopVars>>
    \/ /\ Net(r, "notice", "end")
       /\ cancels' = Append(cancels, r)
       /\ UNCHANGED <<connLoad, queue, inflight, cellVars, responderVars,
                      taskVars, loopVars>>

-----------------------------------------------------------------------------
(* The drain callback.  A task it creates takes its first step before the  *)
(* loop polls its selector again, so no drain begins with one pending.     *)

LoopMoves(from, to, r) ==
    /\ pc = from
    /\ pc' = to
    /\ cur' = r

DrainBegins ==
    /\ queue # <<>> \/ cancels # <<>>
    /\ \A r \in Requests : task[r] # "created"
    /\ LoopMoves("idle", "cancels", NoRequest)
    /\ UNCHANGED <<tokioVars, connLoad, mailbox, inflight, cellVars,
                   responderVars, taskVars>>

(* Cancel::cancel: the task is taken out of the cell, so at most once.     *)
Cancel(r) ==
    /\ slot' = Set(slot, r, FALSE)
    /\ cancelling' = IF slot[r] THEN Set(cancelling, r, TRUE) ELSE cancelling

PopCancel ==
    /\ pc = "cancels"
    /\ cancels # <<>>
    /\ cancels' = Tail(cancels)
    /\ Cancel(Head(cancels))
    /\ UNCHANGED <<tokioVars, connLoad, queue, inflight, cell, responderVars, task,
                   loopVars>>

CancelsEmpty ==
    /\ cancels = <<>>
    /\ LoopMoves("cancels", "pop", NoRequest)
    /\ UNCHANGED <<tokioVars, connLoad, mailbox, inflight, cellVars,
                   responderVars, taskVars>>

(* The client left while this waited: its place is given back, no task.    *)
(* The sender goes with the item.                                          *)
PopAbandoned ==
    /\ pc = "pop"
    /\ queue # <<>>
    /\ cell[Head(queue)] = "abandoned"
    /\ queue' = Tail(queue)
    /\ reply' = Set(reply, Head(queue), "dropped")
    /\ connLoad' = connLoad - 1
    /\ UNCHANGED <<tokioVars, cancels, inflight, cellVars, taken, kept, released,
                   taskVars, loopVars>>

(* Popped and found not abandoned; claim() is the next access.             *)
Pop ==
    /\ queue # <<>>
    /\ cell[Head(queue)] # "abandoned"
    /\ LoopMoves("pop", "claim", Head(queue))
    /\ queue' = Tail(queue)
    /\ UNCHANGED <<tokioVars, connLoad, cancels, inflight, cellVars,
                   responderVars, taskVars>>

Claim ==
    /\ LoopMoves("claim", "attach", cur)
    /\ inflight' = inflight + 1
    /\ task' = Set(task, cur, "created")
    /\ UNCHANGED <<tokioVars, connLoad, mailbox, cellVars, responderVars,
                   cancelling>>

(* Cancel::attach stores the task, then looks at the flag again.           *)
Attach ==
    /\ LoopMoves("attach", IF cur \in Cancellable THEN "recheck" ELSE "pop",
                      IF cur \in Cancellable THEN cur ELSE NoRequest)
    /\ slot' = IF cur \in Cancellable THEN Set(slot, cur, TRUE) ELSE slot
    /\ UNCHANGED <<tokioVars, connLoad, mailbox, inflight, cell, responderVars,
                   taskVars>>

AttachRecheck ==
    /\ LoopMoves("recheck", "pop", NoRequest)
    /\ IF cell[cur] = "abandoned" THEN Cancel(cur) ELSE UNCHANGED <<slot, cancelling>>
    /\ UNCHANGED <<tokioVars, connLoad, mailbox, inflight, cell, responderVars,
                   task>>

QueueEmpty ==
    /\ queue = <<>>
    /\ LoopMoves("pop", "idle", NoRequest)
    /\ UNCHANGED <<tokioVars, connLoad, mailbox, inflight, cellVars,
                   responderVars, taskVars>>

-----------------------------------------------------------------------------
(* Responder::release_once, with Cancel::forget.                           *)

ReleaseOnce(r) ==
    IF released[r] THEN UNCHANGED <<released, inflight, connLoad, cell, slot>>
    ELSE /\ released' = Set(released, r, TRUE)
         /\ inflight' = inflight - 1
         /\ connLoad' = connLoad - 1
         /\ cell' = IF r \in Cancellable /\ cell[r] = "running"
                    THEN Set(cell, r, "answered") ELSE cell
         /\ slot' = Set(slot, r, FALSE)

(* The coroutine is gone and its Responder with it: a sender still there   *)
(* is dropped.                                                             *)
DropSender(r) ==
    reply' = IF reply[r] = "none" /\ ~taken[r] THEN Set(reply, r, "dropped") ELSE reply

-----------------------------------------------------------------------------
(* run_handler, one task step at a time.                                   *)

Runs(r) == pc = "idle" /\ ~cancelling[r]

Start(r) ==
    /\ Runs(r)
    /\ task[r] = "created"
    /\ task' = Set(task, r, "running")
    /\ UNCHANGED <<tokioVars, connLoad, mailbox, inflight, cellVars,
                   responderVars, cancelling, loopVars>>

(* Cancelled before its first step: the coroutine is closed unentered, and *)
(* the Responder's Drop is what releases.                                  *)
CancelUnstarted(r) ==
    /\ pc = "idle"
    /\ task[r] = "created" /\ cancelling[r]
    /\ ReleaseOnce(r)
    /\ DropSender(r)
    /\ task' = Set(task, r, "done")
    /\ cancelling' = Set(cancelling, r, FALSE)
    /\ UNCHANGED <<tokioVars, mailbox, taken, kept, loopVars>>

(* request.after_response, by the handler.                                 *)
AfterResponse(r) ==
    /\ Runs(r)
    /\ task[r] = "running"
    /\ ~kept[r]
    /\ kept' = Set(kept, r, TRUE)
    /\ UNCHANGED <<tokioVars, connLoad, mailbox, inflight, cellVars, reply, taken,
                   released, taskVars, loopVars>>

(* Out of run_handler by an exception no Exception handler catches, from   *)
(* the handler, its stream or the work after its response: finish() on the *)
(* way.                                                                    *)
UnwindsRunHandler(r) ==
    /\ task[r] \in {"running", "streaming", "after"}
    /\ ReleaseOnce(r)
    /\ DropSender(r)
    /\ task' = Set(task, r, "done")
    /\ cancelling' = Set(cancelling, r, FALSE)
    /\ UNCHANGED <<tokioVars, mailbox, taken, kept, loopVars>>

(* CancelledError at the next await.                                       *)
CancelledOut(r) ==
    /\ pc = "idle"
    /\ cancelling[r]
    /\ UnwindsRunHandler(r)

(* One of its own: the CancelledError of something it awaited, SystemExit. *)
RaisesOut(r) ==
    /\ Runs(r)
    /\ UnwindsRunHandler(r)

CatchesCancel(r) ==
    /\ pc = "idle"
    /\ cancelling[r]
    /\ r \in Stubborn
    /\ task[r] = "running"
    /\ cancelling' = Set(cancelling, r, FALSE)
    /\ UNCHANGED <<tokioVars, connLoad, mailbox, inflight, cellVars,
                   responderVars, task, loopVars>>

(* Responder::deliver in three accesses: the sender is taken and the cell  *)
(* answered; a complete reply releases the slot unless it is kept; the     *)
(* reply is sent.  "raised" is the answer _respond gives for a handler     *)
(* that raised or returned what cannot be sent.                            *)
Kinds == {"full", "stream", "raised"}

(* Mutant of DeliverAnswer: the cell is not told.                          *)
DeliverUntold(r, kind) ==
    /\ Runs(r)
    /\ task[r] = "running"
    /\ LoopMoves("idle", "release", r)
    /\ task' = Set(task, r, kind)
    /\ taken' = Set(taken, r, TRUE)
    /\ UNCHANGED <<tokioVars, connLoad, mailbox, inflight, cellVars, reply, kept,
                   released, cancelling>>

DeliverAnswer(r, kind) ==
    /\ Runs(r)
    /\ task[r] = "running"
    /\ LoopMoves("idle", "release", r)
    /\ task' = Set(task, r, kind)
    /\ taken' = Set(taken, r, TRUE)
    /\ cell' = IF r \in Cancellable /\ cell[r] = "running"
               THEN Set(cell, r, "answered") ELSE cell
    /\ UNCHANGED <<tokioVars, connLoad, mailbox, inflight, slot, reply, kept,
                   released, cancelling>>

DeliverRelease ==
    /\ LoopMoves("release", "send", cur)
    /\ IF task[cur] # "stream" /\ ~kept[cur] THEN ReleaseOnce(cur)
       ELSE UNCHANGED <<released, inflight, connLoad, cell, slot>>
    /\ UNCHANGED <<tokioVars, mailbox, reply, taken, kept, taskVars>>

DeliverSend ==
    /\ LoopMoves("send", IF task[cur] = "stream" THEN "idle" ELSE "finish",
                    IF task[cur] = "stream" THEN NoRequest ELSE cur)
    /\ reply' = Set(reply, cur, IF task[cur] = "stream" THEN "stream" ELSE "full")
    /\ task' = IF task[cur] = "stream" THEN Set(task, cur, "streaming") ELSE task
    /\ UNCHANGED <<tokioVars, connLoad, mailbox, inflight, cellVars, taken, kept,
                   released, cancelling>>

(* finish_or_keep: with work set aside by a handler that returned, the     *)
(* task goes on to run_after; otherwise the request is over.               *)
FinishOrKeep(r, returned) ==
    IF kept[r] /\ returned
    THEN /\ task' = Set(task, r, "after")
         /\ UNCHANGED <<released, inflight, connLoad, cell, slot>>
    ELSE /\ task' = Set(task, r, "done")
         /\ ReleaseOnce(r)

Finish ==
    /\ LoopMoves("finish", "idle", NoRequest)
    /\ FinishOrKeep(cur, task[cur] = "full")
    /\ UNCHANGED <<tokioVars, mailbox, reply, taken, kept, cancelling>>

(* pump_sse returns: the source ended or the client left.  (A source that  *)
(* raises is answered by _unsendable, which finds the sender taken.)       *)
StreamEnds(r) ==
    /\ Runs(r)
    /\ task[r] = "streaming"
    /\ \E returned \in BOOLEAN : FinishOrKeep(r, returned)
    /\ UNCHANGED <<tokioVars, mailbox, reply, taken, kept, cancelling,
                   loopVars>>

AfterDone(r) ==
    /\ Runs(r)
    /\ task[r] = "after"
    /\ task' = Set(task, r, "done")
    /\ ReleaseOnce(r)
    /\ UNCHANGED <<tokioVars, mailbox, reply, taken, kept, cancelling,
                   loopVars>>

-----------------------------------------------------------------------------
Init ==
    /\ net = [r \in Requests |-> "new"]
    /\ replied = [r \in Requests |-> FALSE]
    /\ connLoad = 0
    /\ queue = <<>>
    /\ cancels = <<>>
    /\ inflight = 0
    /\ cell = [r \in Requests |-> "running"]
    /\ slot = [r \in Requests |-> FALSE]
    /\ reply = [r \in Requests |-> "none"]
    /\ taken = [r \in Requests |-> FALSE]
    /\ kept = [r \in Requests |-> FALSE]
    /\ released = [r \in Requests |-> FALSE]
    /\ task = [r \in Requests |-> "none"]
    /\ cancelling = [r \in Requests |-> FALSE]
    /\ pc = "idle"
    /\ cur = NoRequest

Tokio(r) ==
    \/ TakePlace(r) \/ GiveBack(r) \/ Enqueue(r) \/ Shed(r)
    \/ GetReply(r) \/ SenderDropped(r) \/ Timeout(r) \/ ClientLeaves(r)
    \/ Abandoning(r)

Drain ==
    \/ DrainBegins \/ PopCancel \/ CancelsEmpty \/ PopAbandoned \/ Pop \/ Claim
    \/ Attach \/ AttachRecheck \/ QueueEmpty

Deliver == DeliverRelease \/ DeliverSend \/ Finish

Unwind(r) == CancelUnstarted(r) \/ CancelledOut(r)

Handler(r) ==
    \/ Start(r) \/ AfterResponse(r) \/ CatchesCancel(r) \/ RaisesOut(r)
    \/ \E kind \in Kinds : DeliverAnswer(r, kind)
    \/ StreamEnds(r) \/ AfterDone(r) \/ Unwind(r)

Next ==
    \/ \E r \in Requests : Tokio(r) \/ Handler(r)
    \/ Drain
    \/ Deliver

(* The loop runs what is ready and comes back to its selector; tokio runs  *)
(* its tasks and timers; a stream ends and work after a response ends.  A  *)
(* handler need never answer.                                              *)
Fairness ==
    /\ WF_vars(Drain) /\ WF_vars(Deliver)
    /\ \A r \in Requests :
          /\ WF_vars(Abandoning(r))
          /\ WF_vars(GetReply(r) \/ SenderDropped(r) \/ Timeout(r))
          /\ WF_vars(Start(r)) /\ WF_vars(Unwind(r))
          /\ WF_vars(StreamEnds(r)) /\ WF_vars(AfterDone(r))

Spec == Init /\ [][Next]_vars /\ Fairness

-----------------------------------------------------------------------------
TypeOK ==
    /\ net \in [Requests -> {"new", "no_place", "body", "waiting", "flag",
                             "notice", "end"}]
    /\ replied \in [Requests -> BOOLEAN]
    /\ connLoad \in Nat
    /\ queue \in Seq(Requests)
    /\ cancels \in Seq(Requests)
    /\ inflight \in Nat
    /\ cell \in [Requests -> {"running", "abandoned", "answered"}]
    /\ slot \in [Requests -> BOOLEAN]
    /\ reply \in [Requests -> {"none", "full", "stream", "dropped"}]
    /\ taken \in [Requests -> BOOLEAN]
    /\ kept \in [Requests -> BOOLEAN]
    /\ released \in [Requests -> BOOLEAN]
    /\ task \in [Requests -> {"none", "created", "running", "streaming", "after",
                              "done"} \cup Kinds]
    /\ cancelling \in [Requests -> BOOLEAN]
    /\ pc \in {"idle", "cancels", "pop", "claim", "attach", "recheck", "release",
               "send", "finish"}
    /\ cur \in Requests \cup {NoRequest}

-----------------------------------------------------------------------------
(* Properties                                                              *)

Queued == {queue[i] : i \in DOMAIN queue}
Claimed == {r \in Requests : task[r] # "none"}
Popped == IF pc = "claim" THEN {cur} ELSE {}

(* Requests that occupy a place of their connection: a body being read, a  *)
(* queued request, a handler that has not released.                        *)
Placed ==
    {r \in Requests : net[r] = "body"} \cup Queued \cup Popped
        \cup {r \in Claimed : ~released[r]}

(* The worker's in-flight count is the number of handlers that hold a slot *)
(* and the connection's count the number of places in use: nothing leaks   *)
(* and nothing is given back twice, whichever of the reply, finish(), the  *)
(* Drop, a shed, an abandon in the queue or a client that left came first. *)
SlotsConserved ==
    /\ inflight = Cardinality({r \in Claimed : ~released[r]})
    /\ connLoad = Cardinality(Placed)
                   + Cardinality({r \in Requests : net[r] = "no_place"})

(* "A count that followed the stream would let one connection start        *)
(* handlers without limit": however a client resets its streams, at most   *)
(* MAX_STREAMS of its requests are being read, queued or handled at once.  *)
HandlersBounded == Cardinality(Placed) <= MaxStreams

(* A handler whose client is gone is on its way to being cancelled: its    *)
(* notice is queued or about to be, or its task has been told, or the loop *)
(* is about to look at the flag (attach).  No abandoned handler runs on    *)
(* unnoticed and keeps its slot.                                           *)
Waits(r) == task[r] \in {"created", "running"}

NoOrphan ==
    \A r \in Requests \ Stubborn :
        cell[r] = "abandoned" /\ Waits(r) =>
            \/ cancelling[r]
            \/ net[r] = "notice"
            \/ \E i \in DOMAIN cancels : cancels[i] = r
            \/ cur = r /\ pc \in {"attach", "recheck"}

(* "Release the slot before the reply can reach the client": whoever has a *)
(* complete reply, with no work left for after it, finds the slot free.    *)
ReplyAfterRelease ==
    \A r \in Requests :
        replied[r] /\ reply[r] = "full" /\ ~kept[r] => released[r]

(* Work after the response counts as in flight until it is done.           *)
AfterWorkCounted == \A r \in Requests : task[r] = "after" => ~released[r]

(* "A late abandon then finds the request answered and does nothing": once *)
(* the handler has begun to reply its request is never marked abandoned,   *)
(* and a request that was answered in time is never cancelled.             *)
LateAbandonHarmless ==
    [][\A r \in Requests :
          /\ taken[r] /\ cell[r] = "running" => cell'[r] # "abandoned"
          /\ cell[r] = "answered" => (cancelling'[r] => cancelling[r])]_vars

(* What holds of the counts and the answers in every state.                *)
Safety ==
    /\ TypeOK
    /\ SlotsConserved /\ HandlersBounded
    /\ NoOrphan
    /\ ReplyAfterRelease /\ AfterWorkCounted

(* Every slot a cancellable request claims is given back, though its       *)
(* handler may never answer: the timeout abandons it, the notice reaches   *)
(* its worker and the task is cancelled.                                   *)
SlotsFreed ==
    \A r \in Cancellable \ Stubborn : task[r] # "none" ~> released[r]

=============================================================================
