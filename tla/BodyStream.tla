----------------------------- MODULE BodyStream -----------------------------
(***************************************************************************)
(* A request body on its way from the socket to a handler: the pump, which *)
(* runs inside the request's tokio future, and the tasks of the worker     *)
(* loop that read the body (src/src/body.rs, wait_while_streaming in       *)
(* src/src/server.rs, src/python/oxbrook/_bodies.py).                      *)
(*                                                                         *)
(* A chunk is the number of its frame.  The loop is one thread: a reading  *)
(* task runs from one await to the next without another between, while the *)
(* pump interleaves with its every access of the shared state.             *)
(***************************************************************************)
EXTENDS Naturals, Sequences, FiniteSetsExt

CONSTANTS
    Iterators,     \* tasks that iterate over a BodyStream
    Collectors,    \* tasks that await request.read()
    Impatient,     \* readers whose wait may be cancelled, and who read again
    HasTimeout,    \* request_timeout is set
    Lingers,       \* HTTP/1 and no `expect: 100-continue`
    HighWater,     \* HIGH_WATER, in chunks
    MaxBody,       \* max_body, in chunks
    MaxFrames      \* bound: frames a client sends

Readers == Iterators \cup Collectors

BodyStreamAssumption ==
    /\ Iterators \cap Collectors = {}
    /\ Impatient \subseteq Readers
    /\ HasTimeout \in BOOLEAN /\ Lingers \in BOOLEAN
    /\ HighWater \in Nat /\ MaxBody \in Nat /\ MaxFrames \in Nat

VARIABLES
    chunks,        \* BodyShared.chunks
    buffered,      \* BodyShared.buffered
    permit,        \* BodyShared.demand holds a permit
    waiters,       \* BodyShared.waiters
    bound,         \* BodyShared.queue is set
    finished,      \* BodyShared.finished
    reading,       \* BodyShared.reading
    whole,         \* BodyShared.whole
    discard,       \* BodyShared.discard
    pump,          \* where the pump is
    pushing,       \* the chunk it is pushing
    total,         \* data frames it has read
    oversized,     \* the declared length is over max_body
    complete,      \* the client ended its body
    wait,          \* where handle() is: waiting for the reply, lingering, over
    task,          \* per reader: where it is
    filled,        \* Request.filled is set
    result,        \* per reader: what its read came to
    scheduled,     \* readers whose callback is on the worker's queue
    taken          \* chunks handed to readers, in order

sharedVars == <<chunks, buffered, waiters, finished, scheduled>>
pumpVars == <<pump, pushing, total, complete, reading>>
readerVars == <<task, filled, result, taken>>
fixedVars == <<bound, oversized>>
vars == <<chunks, buffered, permit, waiters, bound, finished, reading, whole,
          discard, pump, pushing, total, oversized, complete, wait, task, filled,
          result, scheduled, taken>>

Data(n) == [kind |-> "data", frame |-> n]
Marker(k) == [kind |-> k, frame |-> 0]
Failures == {"large", "idle", "incomplete"}
Markers == {"end"} \cup Failures

IsData(c) == c.kind = "data"

(* What is buffered ends with a marker, and Arrived chunks are in front.   *)
Marks == {i \in DOMAIN chunks : ~IsData(chunks[i])}
Ended == Marks # {}
Arrived == IF Ended THEN Min(Marks) - 1 ELSE Len(chunks)

(* wake(): every waiting callback goes to the worker's queue, if it is     *)
(* known yet.                                                              *)
Wake ==
    /\ waiters' = {}
    /\ scheduled' = IF bound THEN scheduled \cup waiters ELSE scheduled

-----------------------------------------------------------------------------
(* handle(): the request is queued before its worker is known to the body. *)

BindQueue ==
    /\ pump = "binding"
    /\ pump' = "unpolled"
    /\ bound' = TRUE
    /\ UNCHANGED <<sharedVars, permit, whole, discard, pushing, total, complete,
                   reading, oversized, wait, readerVars>>

(* The select polls the pump: only now does its Abandon guard exist.       *)
FirstPoll ==
    /\ pump = "unpolled"
    /\ pump' = "lazy"
    /\ UNCHANGED <<sharedVars, permit, whole, discard, pushing, total, complete,
                   reading, fixedVars, wait, readerVars>>

(* Where the pump awaits something, and its future can be dropped.         *)
Awaiting == {"lazy", "room", "frame", "linger_large", "linger_discard"}

(* Dropped, it tells its readers that there is no more, unless they know   *)
(* or its guard was never made.                                            *)
DropPump ==
    /\ pump' = IF pump = "unpolled" THEN "gone" ELSE IF finished THEN "stopped" ELSE "push"
    /\ pushing' = IF finished \/ pump = "unpolled" THEN pushing ELSE Marker("incomplete")
    /\ wait' = "over"

(* wait_while_streaming returns: the reply is there, or the handler has    *)
(* stalled past its timeout.  What is left of the body is read away for a  *)
(* while, or the pump is dropped at once.                                  *)
Replied ==
    /\ wait = "reply"
    /\ pump \in Awaiting \cup {"unpolled", "stopped"}
    /\ IF Lingers /\ ~finished
       THEN /\ wait' = "linger"
            /\ discard' = TRUE
            /\ permit' = TRUE
            /\ UNCHANGED <<pump, pushing>>
       ELSE DropPump /\ UNCHANGED <<discard, permit>>
    /\ UNCHANGED <<sharedVars, whole, total, complete, reading, fixedVars, readerVars>>

(* LINGER has passed, the pump has come to its end, or the client is gone. *)
Over ==
    /\ wait # "over"
    /\ pump \in Awaiting \cup {"stopped"}
    /\ DropPump
    /\ UNCHANGED <<sharedVars, permit, whole, discard, total, complete, reading,
                   fixedVars, readerVars>>

-----------------------------------------------------------------------------
(* pump()                                                                  *)

Pump(from, to) ==
    /\ pump = from
    /\ pump' = to

(* A push of c begins.                                                     *)
Pushes(c, from) ==
    /\ Pump(from, "push")
    /\ pushing' = c

(* The first read of the handler is what starts it.                        *)
Demanded ==
    /\ permit
    /\ permit' = FALSE
    /\ IF discard THEN Pump("lazy", "linger_discard")
       ELSE IF oversized THEN Pump("lazy", "linger_large")
       ELSE Pump("lazy", "top")
    /\ reading' = (discard \/ oversized)
    /\ UNCHANGED <<sharedVars, whole, discard, pushing, total, complete, fixedVars,
                   wait, readerVars>>

OverHighWater == buffered > HighWater

Top ==
    /\ Pump("top", IF OverHighWater /\ ~whole /\ ~discard THEN "room"
                   ELSE IF discard THEN "linger_discard" ELSE "frame")
    /\ reading' = (pump' # "room")
    /\ UNCHANGED <<sharedVars, permit, whole, discard, pushing, total, complete,
                   fixedVars, wait, readerVars>>

Room ==
    /\ permit
    /\ permit' = FALSE
    /\ Pump("room", "top")
    /\ UNCHANGED <<sharedVars, whole, discard, pushing, total, complete, reading,
                   fixedVars, wait, readerVars>>

DataFrame ==
    /\ total < MaxFrames
    /\ total' = total + 1
    /\ IF total' > MaxBody
       THEN Pump("frame", "linger_large") /\ UNCHANGED <<pushing, reading>>
       ELSE Pushes(Data(total'), "frame") /\ reading' = FALSE
    /\ UNCHANGED <<sharedVars, permit, whole, discard, complete, fixedVars, wait,
                   readerVars>>

(* The body's end, a broken connection, or a client that stopped sending.  *)
LastFrame ==
    /\ \/ Pushes(Marker("end"), "frame") /\ complete' = TRUE
       \/ Pushes(Marker("incomplete"), "frame") /\ UNCHANGED complete
       \/ HasTimeout /\ Pushes(Marker("idle"), "frame") /\ UNCHANGED complete
    /\ reading' = FALSE
    /\ UNCHANGED <<sharedVars, permit, whole, discard, total, fixedVars, wait,
                   readerVars>>

(* What was refused has been read away.                                    *)
Lingered ==
    /\ \/ Pushes(Marker("large"), "linger_large")
       \/ Pushes(Marker("incomplete"), "linger_discard")
    /\ reading' = FALSE
    /\ UNCHANGED <<sharedVars, permit, whole, discard, total, complete, fixedVars,
                   wait, readerVars>>

(* push(): the count or the flag, then the chunk ...                       *)
Push ==
    \/ /\ Pump("push", "append")
       /\ IF IsData(pushing) THEN buffered' = buffered + 1 /\ UNCHANGED finished
          ELSE finished' = TRUE /\ UNCHANGED buffered
       /\ UNCHANGED <<chunks, waiters, scheduled, permit, whole, discard, pushing,
                      total, complete, reading, fixedVars, wait, readerVars>>
    \/ /\ Pump("append", "wake")
       /\ chunks' = Append(chunks, pushing)
       /\ UNCHANGED <<buffered, waiters, finished, scheduled, permit, whole, discard,
                      pushing, total, complete, reading, fixedVars, wait, readerVars>>

(* Mutant of WakeReaders: a body collected whole is never worth a wake.    *)
WakeUnlessWhole ==
    /\ Pump("wake", IF finished THEN "stopped" ELSE "top")
    /\ IF whole THEN UNCHANGED <<waiters, scheduled>> ELSE Wake
    /\ UNCHANGED <<chunks, buffered, finished, permit, whole, discard, pushing,
                   total, complete, reading, fixedVars, wait, readerVars>>

(* ... and the callbacks, unless the body is collected whole and there is  *)
(* more of it to come.                                                     *)
WakeReaders ==
    /\ Pump("wake", IF finished THEN "stopped" ELSE "top")
    /\ IF whole /\ ~finished THEN UNCHANGED <<waiters, scheduled>> ELSE Wake
    /\ UNCHANGED <<chunks, buffered, finished, permit, whole, discard, pushing,
                   total, complete, reading, fixedVars, wait, readerVars>>

-----------------------------------------------------------------------------
(* Reading tasks.  One runs at a time.                                     *)

Resting == {"idle", "waiting", "over"}

Step(r, from, to) ==
    /\ task[r] = from
    /\ \A q \in Readers \ {r} : task[q] \in Resting
    /\ task' = [task EXCEPT ![r] = to]

Answers(r, kind) == result' = [result EXCEPT ![r] = kind]

(* BodyStream.__anext__: poll() finds a chunk, a marker it leaves in place, *)
(* or nothing.                                                             *)
Poll(r) ==
    /\ r \in Iterators
    /\ Step(r, "idle", IF chunks = <<>> THEN "ask"
                       ELSE IF IsData(Head(chunks)) THEN "sub" ELSE "over")
    /\ IF chunks # <<>> /\ IsData(Head(chunks))
       THEN /\ chunks' = Tail(chunks)
            /\ taken' = Append(taken, Head(chunks).frame)
            /\ UNCHANGED result
       ELSE /\ UNCHANGED <<chunks, taken>>
            /\ IF chunks = <<>> THEN UNCHANGED result ELSE Answers(r, Head(chunks).kind)
    /\ UNCHANGED <<buffered, waiters, finished, scheduled, permit, whole, discard,
                   pumpVars, fixedVars, wait, filled>>

(* The count follows the chunk, and a pump held at the mark is let go by   *)
(* the poll that crosses it.                                               *)
PollSub(r) ==
    /\ Step(r, "sub", "idle")
    /\ buffered' = buffered - 1
    /\ permit' = (permit \/ (buffered > HighWater /\ buffered' <= HighWater))
    /\ UNCHANGED <<chunks, waiters, finished, scheduled, whole, discard, pumpVars,
                   fixedVars, wait, filled, result, taken>>

PollAsk(r) ==
    /\ Step(r, "ask", "notify")
    /\ permit' = (permit \/ ~finished)
    /\ UNCHANGED <<sharedVars, whole, discard, pumpVars, fixedVars, wait, filled,
                   result, taken>>

(* notify(): the callback, then a second look.                             *)
Notify(r) ==
    /\ Step(r, "notify", "look")
    /\ waiters' = waiters \cup {r}
    /\ UNCHANGED <<chunks, buffered, finished, scheduled, permit, whole, discard,
                   pumpVars, fixedVars, wait, filled, result, taken>>

(* Mutant of NotifyLook: no second look.                                   *)
NotifyBlind(r) ==
    /\ Step(r, "look", "waiting")
    /\ UNCHANGED <<sharedVars, permit, whole, discard, pumpVars, fixedVars, wait,
                   filled, result, taken>>

NotifyLook(r) ==
    /\ Step(r, "look", "waiting")
    /\ IF chunks # <<>> THEN Wake ELSE UNCHANGED <<waiters, scheduled>>
    /\ UNCHANGED <<chunks, buffered, finished, permit, whole, discard, pumpVars,
                   fixedVars, wait, filled, result, taken>>

(* read_body(): another read may have kept the body; take() has all of it, *)
(* or nothing.                                                             *)
ReadFilled(r) ==
    /\ r \in Collectors
    /\ filled
    /\ Step(r, "idle", "over")
    /\ Answers(r, "end")
    /\ UNCHANGED <<sharedVars, permit, whole, discard, pumpVars, fixedVars, wait,
                   filled, taken>>

TakeNothing(r) ==
    /\ r \in Collectors
    /\ ~filled /\ ~finished
    /\ Step(r, "idle", "collect")
    /\ UNCHANGED <<sharedVars, permit, whole, discard, pumpVars, fixedVars, wait,
                   filled, result, taken>>

(* Finished: the data in front of the marker and what the marker says, or  *)
(* the end if the marker is not there yet.                                 *)
Verdict == IF Ended THEN chunks[Arrived + 1].kind ELSE "end"

TakeAll(r) ==
    /\ r \in Collectors
    /\ ~filled /\ finished
    /\ Step(r, "idle", "over")
    /\ taken' = taken \o [i \in 1 .. Arrived |-> chunks[i].frame]
    /\ buffered' = buffered - Arrived
    /\ chunks' = SubSeq(chunks, Arrived + 1, Len(chunks))
    /\ Answers(r, Verdict)
    /\ filled' = (Verdict = "end")
    /\ UNCHANGED <<waiters, finished, scheduled, permit, whole, discard, pumpVars,
                   fixedVars, wait>>

(* collect(): whole, the callback, the demand, then a second look.         *)
CollectWhole(r) ==
    /\ Step(r, "collect", "install")
    /\ whole' = TRUE
    /\ UNCHANGED <<sharedVars, permit, discard, pumpVars, fixedVars, wait, filled,
                   result, taken>>

CollectInstall(r) ==
    /\ Step(r, "install", "check")
    /\ waiters' = waiters \cup {r}
    /\ permit' = TRUE
    /\ UNCHANGED <<chunks, buffered, finished, scheduled, whole, discard, pumpVars,
                   fixedVars, wait, filled, result, taken>>

CollectLook(r) ==
    /\ Step(r, "check", "waiting")
    /\ IF finished THEN Wake ELSE UNCHANGED <<waiters, scheduled>>
    /\ UNCHANGED <<chunks, buffered, finished, permit, whole, discard, pumpVars,
                   fixedVars, wait, filled, result, taken>>

(* The worker's drain runs the callback and the future resolves.           *)
Resumes(r) ==
    /\ r \in scheduled
    /\ Step(r, "waiting", "idle")
    /\ scheduled' = scheduled \ {r}
    /\ UNCHANGED <<chunks, buffered, waiters, finished, permit, whole, discard,
                   pumpVars, fixedVars, wait, filled, result, taken>>

(* The wait is cancelled: its callback, wherever it is, finds the future   *)
(* done.  The handler may read again.                                      *)
GivesUp(r) ==
    /\ r \in Impatient
    /\ Step(r, "waiting", "idle")
    /\ waiters' = waiters \ {r}
    /\ scheduled' = scheduled \ {r}
    /\ UNCHANGED <<chunks, buffered, finished, permit, whole, discard, pumpVars,
                   fixedVars, wait, filled, result, taken>>

-----------------------------------------------------------------------------
Init ==
    /\ chunks = <<>>
    /\ buffered = 0
    /\ permit = FALSE
    /\ waiters = {}
    /\ bound = FALSE
    /\ finished = FALSE
    /\ reading = FALSE
    /\ whole = FALSE
    /\ discard = FALSE
    /\ pump = "binding"
    /\ pushing = Marker("end")
    /\ total = 0
    /\ oversized \in BOOLEAN
    /\ complete = FALSE
    /\ wait = "reply"
    /\ task = [r \in Readers |-> "idle"]
    /\ filled = FALSE
    /\ result = [r \in Readers |-> "none"]
    /\ scheduled = {}
    /\ taken = <<>>

Pumping ==
    \/ BindQueue \/ FirstPoll \/ Demanded \/ Top \/ Room \/ DataFrame \/ LastFrame \/ Lingered
    \/ Push \/ WakeReaders

Running(r) ==
    \/ PollSub(r) \/ PollAsk(r) \/ Notify(r) \/ NotifyLook(r)
    \/ CollectWhole(r) \/ CollectInstall(r) \/ CollectLook(r)

Reading(r) == Poll(r) \/ ReadFilled(r) \/ TakeNothing(r) \/ TakeAll(r)

Next ==
    \/ Pumping
    \/ Replied \/ Over
    \/ \E r \in Readers : Reading(r) \/ Running(r) \/ Resumes(r) \/ GivesUp(r)

(* The tokio task is polled, and the loop runs what is scheduled on it.  A *)
(* client may stop sending: that its frame or its timeout comes is what    *)
(* HasTimeout is for, so liveness is checked with it.  Nobody has to begin *)
(* a read, nor to answer.                                                  *)
Fairness ==
    /\ WF_vars(Pumping)
    /\ \A r \in Readers : WF_vars(Running(r)) /\ WF_vars(Resumes(r))

Spec == Init /\ [][Next]_vars /\ Fairness

-----------------------------------------------------------------------------
(* Properties                                                              *)

TypeOK ==
    /\ \A i \in DOMAIN chunks : chunks[i].kind \in {"data"} \cup Markers
    /\ buffered \in 0 .. MaxBody
    /\ permit \in BOOLEAN /\ bound \in BOOLEAN /\ finished \in BOOLEAN
    /\ reading \in BOOLEAN /\ whole \in BOOLEAN /\ discard \in BOOLEAN
    /\ waiters \subseteq Readers /\ scheduled \subseteq Readers
    /\ pump \in Awaiting \cup {"binding", "unpolled", "top", "push", "append", "wake",
                               "stopped", "gone"}
    /\ total \in 0 .. MaxFrames
    /\ wait \in {"reply", "linger", "over"}
    /\ task \in [Readers -> Resting \cup {"ask", "sub", "notify", "look", "collect",
                                          "install", "check"}]
    /\ result \in [Readers -> {"none"} \cup Markers]

(* A body that failed is never taken for one that ended: a task that       *)
(* iterates to the end was given a body its client did end.                *)
NoShortIteration == \A r \in Iterators : result[r] = "end" => complete

(* "Finished with no marker left cannot happen" (take in body.rs): nor     *)
(* does a task that reads the body whole take what arrived before a        *)
(* failure for the whole.                                                  *)
NoShortBody == \A r \in Collectors : result[r] = "end" => complete

(* The chunks handed out, followed by those still waiting, are the frames  *)
(* the client sent, each once and in order, however many tasks read.       *)
InOrder ==
    /\ \A i \in DOMAIN taken : taken[i] = i
    /\ \A i \in DOMAIN chunks : IsData(chunks[i]) => chunks[i].frame = Len(taken) + i

(* A reader that waits while there is something for it has its callback on *)
(* the worker's queue, or the pump is about to put it there: what arrives  *)
(* between a poll and the callback's installation is not missed.           *)
Ready(r) == chunks # <<>> /\ (~whole \/ Ended)

WaiterNotStranded ==
    \A r \in Readers :
        task[r] = "waiting" /\ Ready(r) => r \in scheduled \/ pump = "wake"

(* "About a megabyte waits between the socket and the handler": the pump   *)
(* reads past the high water mark by one chunk at most, and a body that is *)
(* wanted whole is bounded by max_body all the same.                       *)
BackPressure == buffered <= IF whole THEN MaxBody ELSE HighWater + 1

(* "A handler still waiting must be told the body will not complete rather *)
(* than wait forever": every wait for the body ends.                       *)
ReadersAnswered == \A r \in Readers : task[r] = "waiting" ~> task[r] # "waiting"

(* What the tasks that read a body can rely on.                            *)
Safety == TypeOK /\ NoShortIteration /\ InOrder /\ WaiterNotStranded /\ BackPressure

=============================================================================
