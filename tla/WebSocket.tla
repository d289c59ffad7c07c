------------------------------ MODULE WebSocket ------------------------------
(***************************************************************************)
(* One open WebSocket: the tokio task that owns it (websocket.rs drive),   *)
(* the bridge both sides share (Shared), and the worker loop, where the    *)
(* handler runs beside run_websocket (_runtime.py) and reads and sends     *)
(* through _websocket.py.                                                  *)
(*                                                                         *)
(* The handler is on one loop: what it does without awaiting is not        *)
(* interleaved with run_websocket, only with the tokio task.  It reads     *)
(* from one place at a time.                                               *)
(***************************************************************************)
EXTENDS Naturals, Sequences

CONSTANTS
    SendBuffer,    \* SEND_BUFFER
    MaxIn,         \* bound: messages the client sends
    MaxOut         \* bound: messages the handler sends

WebSocketAssumption == SendBuffer \in Nat \ {0} /\ MaxIn \in Nat /\ MaxOut \in Nat

VARIABLES
    client,        \* "open" or "gone"
    sent,          \* messages the client sent
    \* Shared.
    incoming,      \* Shared.incoming
    waiter,        \* Shared.waiter: none, the awaited future's, or an abandoned one's
    closed,        \* Shared.closed
    closeWaiter,   \* Shared.close_waiters is not empty
    outgoing,      \* Shared.outgoing
    \* The tokio task.
    drive,         \* where drive is
    delivered,     \* messages it has delivered
    \* The worker loop.
    reader,        \* where the handler is
    woken,         \* the awaited future's callback is in the worker's queue
    run,           \* where run_websocket is
    gone,          \* its future: "no", "queued" to be set, "set"
    failed,        \* the handler raised
    out,           \* messages the handler has sent
    received,      \* history: messages receive returned
    ended          \* history: receive returned None

clientVars == <<client, sent>>
shared == <<incoming, waiter, closed, closeWaiter, outgoing>>
task == <<drive, delivered>>
loop == <<reader, woken, run, gone, failed, out, received, ended>>
vars == <<clientVars, shared, task, loop>>

Inside == {"receiving", "asking", "installing", "checking"}

-----------------------------------------------------------------------------
(* Outgoing.try_send: not into a full buffer, nor once drive is over.      *)
Accepts == Len(outgoing) < SendBuffer /\ drive # "done"
TrySend(frame) == outgoing' = IF Accepts THEN Append(outgoing, frame) ELSE outgoing

(* Shared::wake: whichever waiter there is, its callback is queued.        *)
Wake ==
    /\ waiter' = "none"
    /\ woken' = (woken \/ waiter = "fresh")

(* The close waiters are taken and their callbacks queued.                 *)
Announce ==
    /\ closeWaiter' = FALSE
    /\ gone' = IF closeWaiter /\ gone = "no" THEN "queued" ELSE gone

-----------------------------------------------------------------------------
(* The client, and drive                                                   *)

ClientSends ==
    /\ client = "open" /\ sent < MaxIn
    /\ sent' = sent + 1
    /\ UNCHANGED <<client, shared, task, loop>>

ClientLeaves ==
    /\ client = "open"
    /\ client' = "gone"
    /\ UNCHANGED <<sent, shared, task, loop>>

(* deliver: pushed under one lock, the waiter taken under another.         *)
DriveReceive ==
    /\ drive = "select" /\ delivered < sent
    /\ incoming' = Append(incoming, delivered + 1)
    /\ delivered' = delivered + 1
    /\ drive' = "wake"
    /\ UNCHANGED <<clientVars, waiter, closed, closeWaiter, outgoing, loop>>

DriveWake ==
    /\ drive = "wake"
    /\ Wake
    /\ drive' = "select"
    /\ UNCHANGED <<clientVars, incoming, closed, closeWaiter, outgoing, delivered,
                   reader, run, gone, failed, out, received, ended>>

(* The client's close, or the connection's end or error.                   *)
DriveEnd ==
    /\ drive = "select" /\ client = "gone"
    /\ drive' = "closing"
    /\ UNCHANGED <<clientVars, shared, delivered, loop>>

DriveSend ==
    /\ drive = "select" /\ outgoing # <<>>
    /\ drive' = IF Head(outgoing) = "close" THEN "closing" ELSE "sending"
    /\ outgoing' = Tail(outgoing)
    /\ UNCHANGED <<clientVars, incoming, waiter, closed, closeWaiter, delivered, loop>>

(* The client takes the frame, or is gone and the send fails.              *)
DriveSent ==
    /\ drive = "sending"
    /\ drive' = IF client = "open" THEN "select" ELSE "closing"
    /\ UNCHANGED <<clientVars, shared, delivered, loop>>

(* sink.close, and mark_closed in its three steps.                         *)
MarkClosed ==
    /\ drive = "closing"
    /\ closed' = TRUE
    /\ drive' = "waking"
    /\ UNCHANGED <<clientVars, incoming, waiter, closeWaiter, outgoing, delivered, loop>>

MarkWake ==
    /\ drive = "waking"
    /\ Wake
    /\ drive' = "announcing"
    /\ UNCHANGED <<clientVars, incoming, closed, closeWaiter, outgoing, delivered,
                   reader, run, gone, failed, out, received, ended>>

MarkAnnounce ==
    /\ drive = "announcing"
    /\ Announce
    /\ drive' = "done"
    /\ UNCHANGED <<clientVars, incoming, waiter, closed, outgoing, delivered,
                   reader, woken, run, failed, out, received, ended>>

-----------------------------------------------------------------------------
(* WebSocket.receive                                                       *)

Handler(there) == run \in {"racing", "cancelling"} /\ reader = there

Receive ==
    /\ Handler("running") /\ ~ended
    /\ reader' = "receiving"
    /\ UNCHANGED <<clientVars, shared, task, woken, run, gone, failed, out, received, ended>>

TryReceive ==
    /\ Handler("receiving")
    /\ \/ /\ incoming # <<>>
          /\ received' = Append(received, Head(incoming))
          /\ incoming' = Tail(incoming)
          /\ reader' = "running"
       \/ /\ incoming = <<>>
          /\ reader' = "asking"
          /\ UNCHANGED <<received, incoming>>
    /\ UNCHANGED <<clientVars, waiter, closed, closeWaiter, outgoing, task,
                   woken, run, gone, failed, out, ended>>

(* `closed`: the flag, and nothing left to receive.                        *)
Ask ==
    /\ Handler("asking")
    /\ LET over == closed /\ incoming = <<>>
       IN  /\ ended' = over
           /\ reader' = IF over THEN "running" ELSE "installing"
    /\ UNCHANGED <<clientVars, shared, task, woken, run, gone, failed, out, received>>

(* notify, with a new future: the waiter is replaced.                      *)
Install ==
    /\ Handler("installing")
    /\ waiter' = "fresh" /\ woken' = FALSE
    /\ reader' = "checking"
    /\ UNCHANGED <<clientVars, incoming, closed, closeWaiter, outgoing, task,
                   run, gone, failed, out, received, ended>>

(* Mutant of Check: the waiter is only installed.                          *)
CheckNothing ==
    /\ Handler("checking")
    /\ reader' = "waiting"
    /\ UNCHANGED <<clientVars, shared, task, woken, run, gone, failed, out, received, ended>>

(* Called back at once if a message or the close came in between.          *)
Check ==
    /\ Handler("checking")
    /\ IF incoming # <<>> \/ closed THEN Wake ELSE UNCHANGED <<waiter, woken>>
    /\ reader' = "waiting"
    /\ UNCHANGED <<clientVars, incoming, closed, closeWaiter, outgoing, task,
                   run, gone, failed, out, received, ended>>

Woken ==
    /\ Handler("waiting") /\ woken
    /\ reader' = "receiving" /\ woken' = FALSE
    /\ UNCHANGED <<clientVars, shared, task, run, gone, failed, out, received, ended>>

(* A receive under a timeout: its waiter, or its callback, stays behind.   *)
GiveUp ==
    /\ Handler("waiting")
    /\ reader' = "running" /\ woken' = FALSE
    /\ waiter' = IF waiter = "fresh" THEN "stale" ELSE waiter
    /\ UNCHANGED <<clientVars, incoming, closed, closeWaiter, outgoing, task,
                   run, gone, failed, out, received, ended>>

-----------------------------------------------------------------------------
(* What else a handler does: it sends, closes, awaits something that need  *)
(* not come, returns or raises.                                            *)

(* WebSocket.send: a frame not taken raises, which a handler may catch.    *)
Send ==
    /\ Handler("running") /\ out < MaxOut
    /\ out' = out + 1
    /\ TrySend("message")
    /\ UNCHANGED <<clientVars, incoming, waiter, closed, closeWaiter, task,
                   reader, woken, run, gone, failed, received, ended>>

Close ==
    /\ Handler("running") /\ out < MaxOut
    /\ out' = out + 1
    /\ TrySend("close")
    /\ UNCHANGED <<clientVars, incoming, waiter, closed, closeWaiter, task,
                   reader, woken, run, gone, failed, received, ended>>

AwaitElsewhere ==
    /\ Handler("running")
    /\ reader' = "elsewhere"
    /\ UNCHANGED <<clientVars, shared, task, woken, run, gone, failed, out, received, ended>>

Return ==
    /\ Handler("running")
    /\ reader' = "over"
    /\ failed' \in BOOLEAN
    /\ UNCHANGED <<clientVars, shared, task, woken, run, gone, out, received, ended>>

-----------------------------------------------------------------------------
(* run_websocket                                                           *)

(* on_close: checked, registered, and checked again.                       *)
OnClose ==
    /\ run = "check"
    /\ run' = IF closed THEN "racing" ELSE "register"
    /\ gone' = IF closed THEN "queued" ELSE gone
    /\ UNCHANGED <<clientVars, shared, task, reader, woken, failed, out, received, ended>>

Register ==
    /\ run = "register"
    /\ closeWaiter' = TRUE
    /\ run' = "recheck"
    /\ UNCHANGED <<clientVars, incoming, waiter, closed, outgoing, task,
                   reader, woken, gone, failed, out, received, ended>>

(* Mutant of Recheck: the handler is started without a second look.        *)
RecheckNothing ==
    /\ run = "recheck"
    /\ run' = "racing"
    /\ UNCHANGED <<clientVars, shared, task, reader, woken, gone, failed, out, received, ended>>

Recheck ==
    /\ run = "recheck"
    /\ run' = "racing"
    /\ IF closed THEN Announce ELSE UNCHANGED <<closeWaiter, gone>>
    /\ UNCHANGED <<clientVars, incoming, waiter, closed, outgoing, task,
                   reader, woken, failed, out, received, ended>>

(* _peer_left, from the worker's queue.                                    *)
PeerLeft ==
    /\ gone = "queued" /\ reader \notin Inside
    /\ gone' = "set"
    /\ UNCHANGED <<clientVars, shared, task, reader, woken, run, failed, out, received, ended>>

(* asyncio.wait: the handler is done, or the peer left first.              *)
Race ==
    /\ run = "racing" /\ reader \notin Inside
    /\ reader = "over" \/ gone = "set"
    /\ run' = IF reader = "over" THEN "closing" ELSE "cancelling"
    /\ UNCHANGED <<clientVars, shared, task, reader, woken, gone, failed, out, received, ended>>

(* CancelledError at the await the handler is in.                          *)
Cancelled ==
    /\ run = "cancelling" /\ reader \in {"running", "waiting", "elsewhere"}
    /\ reader' = "over"
    /\ UNCHANGED <<clientVars, shared, task, woken, run, gone, failed, out, received, ended>>

Gathered ==
    /\ run = "cancelling" /\ reader = "over"
    /\ run' = "closing"
    /\ UNCHANGED <<clientVars, shared, task, reader, woken, gone, failed, out, received, ended>>

(* core.close(), whose frame is dropped when there is no room.             *)
CoreClose ==
    /\ run = "closing"
    /\ TrySend("close")
    /\ run' = IF failed THEN "finishing" ELSE "after"
    /\ UNCHANGED <<clientVars, incoming, waiter, closed, closeWaiter, task,
                   reader, woken, gone, failed, out, received, ended>>

(* run_after, and responder.finish().                                      *)
RunAfter ==
    /\ run = "after"
    /\ run' = "finishing"
    /\ UNCHANGED <<clientVars, shared, task, reader, woken, gone, failed, out, received, ended>>

Finish ==
    /\ run = "finishing"
    /\ run' = "finished"
    /\ UNCHANGED <<clientVars, shared, task, reader, woken, gone, failed, out, received, ended>>

-----------------------------------------------------------------------------

Init ==
    /\ client = "open" /\ sent = 0
    /\ incoming = <<>> /\ waiter = "none" /\ closed = FALSE
    /\ closeWaiter = FALSE /\ outgoing = <<>>
    /\ drive = "select" /\ delivered = 0
    /\ reader = "running" /\ woken = FALSE /\ run = "check" /\ gone = "no"
    /\ failed = FALSE /\ out = 0 /\ received = <<>> /\ ended = FALSE

Driver ==
    \/ DriveReceive \/ DriveWake \/ DriveEnd \/ DriveSend \/ DriveSent
    \/ MarkClosed \/ MarkWake \/ MarkAnnounce

Receiving == TryReceive \/ Ask \/ Install \/ Check \/ Woken

Application == Receive \/ GiveUp \/ Send \/ Close \/ AwaitElsewhere \/ Return

Run ==
    \/ OnClose \/ Register \/ Recheck \/ PeerLeft \/ Race \/ Cancelled
    \/ Gathered \/ CoreClose \/ RunAfter \/ Finish

Next ==
    \/ Driver \/ Receiving \/ Application \/ Run \/ ClientSends \/ ClientLeaves

(* The tokio task and the loop run what is ready; a client that stays      *)
(* takes what it is sent.  run_websocket comes to its turn at some await   *)
(* of the handler, though not at each.  The handler need do nothing.       *)
Fairness ==
    /\ WF_vars(Driver) /\ WF_vars(Receiving) /\ SF_vars(Run)

Spec == Init /\ [][Next]_vars /\ Fairness

-----------------------------------------------------------------------------
(* Properties.                                                             *)

(* The shape of the state; nothing but MaxIn bounds incoming, and the      *)
(* channel bounds outgoing.                                                *)
TypeOK ==
    /\ client \in {"open", "gone"} /\ sent \in 0 .. MaxIn
    /\ incoming \in Seq(1 .. MaxIn) /\ waiter \in {"none", "fresh", "stale"}
    /\ closed \in BOOLEAN /\ closeWaiter \in BOOLEAN
    /\ outgoing \in Seq({"message", "close"}) /\ Len(outgoing) <= SendBuffer
    /\ drive \in {"select", "wake", "sending", "closing", "waking", "announcing", "done"}
    /\ delivered \in 0 .. sent
    /\ reader \in Inside \cup {"running", "waiting", "elsewhere", "over"}
    /\ woken \in BOOLEAN /\ gone \in {"no", "queued", "set"}
    /\ run \in {"check", "register", "recheck", "racing", "cancelling", "closing", "after",
                "finishing", "finished"}
    /\ failed \in BOOLEAN /\ out \in 0 .. MaxOut /\ ended \in BOOLEAN

(* "notify fires immediately if something arrived in the meantime, so this *)
(* cannot miss a message": a handler that waits in receive, with a message *)
(* or the close there, has its wake queued or about to be, though earlier  *)
(* receives gave up and left their waiters (receive, notify, wake).        *)
NoneMissed ==
    reader = "waiting" /\ (incoming # <<>> \/ closed) =>
        woken \/ (waiter = "fresh" /\ drive \in {"wake", "waking"})

(* Messages come out in the order they came in, and all that were          *)
(* delivered before the None that says the peer has closed (receive).      *)
AllBeforeEnd ==
    /\ received \o incoming = [i \in 1 .. delivered |-> i]
    /\ ended => incoming = <<>> /\ closed

(* A handler does not outlive its slot: the request is finished, and what  *)
(* it left for later runs, once the handler is over, also when the peer    *)
(* left first (run_websocket).                                             *)
SlotOutlives == run \in {"closing", "after", "finishing", "finished"} => reader = "over"

(* "A handler is cancelled when its peer goes away": whatever the handler  *)
(* is waiting for, and whenever the close comes, also while on_close is    *)
(* being registered, the request ends and gives its slot back.             *)
PeerGoneEnds == client = "gone" ~> run = "finished"

(* Stated by www/streams/websockets.md: "the connection closes when the    *)
(* handler returns".                                                       *)
ReturnCloses == run = "finished" ~> drive = "done"

(* A message is given to the handler once and in order, before the end is  *)
(* told, and the worker's slot outlives the handler.                       *)
Safety == TypeOK /\ NoneMissed /\ AllBeforeEnd /\ SlotOutlives

=============================================================================
