-------------------------------- MODULE Topic --------------------------------
(***************************************************************************)
(* An in-memory topic (src/python/oxbrook/_streams.py): emitters and       *)
(* readers on different worker loops, which on a free-threaded build are   *)
(* different threads.  Each `with self._lock` block of the code is one     *)
(* step; what the code does between two of them can be interleaved with    *)
(* any other thread.  A future resolved with call_soon_threadsafe wakes    *)
(* its waiter in a later step, on the waiter's own loop.                   *)
(***************************************************************************)
EXTENDS Naturals, Sequences, FiniteSets, SequencesExt

CONSTANTS
    Subs,          \* subscriptions, each opened at most once
    Emitters,      \* tasks that call emit() or emit_nowait()
    Offers,        \* per subscription: the policies it may be opened with
    MaxSize,       \* maxsize of every subscription
    Cancellable,   \* emitters whose task may be cancelled while it waits
    NoWaiters,     \* emitters that call emit_nowait() as well as emit()
    MaxEmits       \* bound, per emitter: messages

Policies == {"drop_oldest", "drop_newest", "block", "error"}

ASSUME TopicAssumption ==
    /\ Offers \in [Subs -> SUBSET Policies]
    /\ MaxSize \in Nat \ {0}
    /\ Cancellable \subseteq Emitters
    /\ NoWaiters \subseteq Emitters
    /\ MaxEmits \in [Emitters -> Nat]

VARIABLES
    subs,          \* Topic._subs
    policy,        \* per subscription: policy
    buffer,        \* per subscription: _buffer, of <<emitter, number>>
    closed,        \* per subscription: _closed
    getter,        \* per subscription: _getter is set
    putters,       \* per subscription: _putters, as <<emitter, number>>
    dropped,       \* per subscription: dropped
    reader,        \* per subscription: where its reader is in __anext__
    readerWoken,   \* per subscription: the reader's future is being resolved
    handed,        \* per subscription: messages handed to it while open
    taken,         \* per subscription: messages its reader has returned
    lastRead,      \* per subscription and emitter: the newest one returned
    emitter,       \* per emitter: where it is in emit()
    nowait,        \* per emitter: the call is emit_nowait
    sent,          \* per emitter: messages so far
    todo,          \* per emitter: subscriptions of the snapshot left
    seen,          \* per emitter: `dropped` as emit_nowait has read it
    woken          \* waiters of _putters that are being resolved

subVars == <<subs, policy, closed>>
readerVars == <<reader, lastRead, taken>>
emitVars == <<emitter, nowait, sent, todo, seen>>
vars == <<subs, policy, buffer, closed, getter, putters, dropped, reader,
          readerWoken, handed, taken, lastRead, emitter, nowait, sent, todo, seen,
          woken>>

Set(f, x, v) == [f EXCEPT ![x] = v]

(* The message an emitter is sending; its waiter is named the same.        *)
Message(e) == <<e, sent[e]>>

IsWaiting(w) == emitter[w[1]] = "waiting" /\ sent[w[1]] = w[2]

(* Take the getter, if there is one, and resolve it if its reader is still *)
(* waiting on it (_resolve looks at done()).                               *)
WakeReader(s) ==
    /\ getter' = Set(getter, s, FALSE)
    /\ readerWoken' = IF getter[s] /\ reader[s] = "waiting"
                      THEN Set(readerWoken, s, TRUE) ELSE readerWoken

-----------------------------------------------------------------------------
(* Subscriptions                                                           *)

Subscribe(s) ==
    /\ reader[s] = "none"
    /\ \E p \in Offers[s] : policy' = Set(policy, s, p)
    /\ subs' = Append(subs, s)
    /\ reader' = Set(reader, s, "running")
    /\ UNCHANGED <<buffer, closed, getter, putters, dropped, readerWoken, handed,
                   taken, lastRead, emitVars, woken>>

(* Mutant of Read: __anext__ leaves the waiting putters alone.             *)
ReadWakingNobody(s) ==
    /\ reader[s] = "running"
    /\ buffer[s] # <<>>
    /\ LET m == Head(buffer[s]) IN
          /\ lastRead' = [lastRead EXCEPT ![s][m[1]] = m[2]]
          /\ taken' = Set(taken, s, taken[s] + 1)
    /\ buffer' = Set(buffer, s, Tail(buffer[s]))
    /\ UNCHANGED <<subVars, getter, putters, dropped, reader, readerWoken, handed,
                   emitVars, woken>>

(* __anext__ with something buffered: one message out, one putter woken.   *)
Read(s) ==
    /\ reader[s] = "running"
    /\ buffer[s] # <<>>
    /\ LET m == Head(buffer[s]) IN
          /\ lastRead' = [lastRead EXCEPT ![s][m[1]] = m[2]]
          /\ taken' = Set(taken, s, taken[s] + 1)
    /\ buffer' = Set(buffer, s, Tail(buffer[s]))
    /\ IF putters[s] = <<>> THEN UNCHANGED <<putters, woken>>
       ELSE /\ putters' = Set(putters, s, Tail(putters[s]))
            /\ woken' = IF IsWaiting(Head(putters[s]))
                        THEN woken \cup {Head(putters[s])} ELSE woken
    /\ UNCHANGED <<subVars, getter, dropped, reader, readerWoken, handed, emitVars>>

(* ... with nothing buffered: over, or a getter is left and awaited.       *)
ReadNothing(s) ==
    /\ reader[s] = "running"
    /\ buffer[s] = <<>>
    /\ IF closed[s]
       THEN /\ reader' = Set(reader, s, "done")
            /\ UNCHANGED getter
       ELSE /\ reader' = Set(reader, s, "waiting")
            /\ getter' = Set(getter, s, TRUE)
    /\ UNCHANGED <<subVars, buffer, putters, dropped, readerWoken, handed, taken,
                   lastRead, emitVars, woken>>

ReaderResumes(s) ==
    /\ readerWoken[s]
    /\ readerWoken' = Set(readerWoken, s, FALSE)
    /\ reader' = Set(reader, s, "running")
    /\ UNCHANGED <<subVars, buffer, getter, putters, dropped, handed, taken,
                   lastRead, emitVars, woken>>

(* A timeout around __anext__, say: the wait is cancelled, the future stays *)
(* in _getter, and the reader comes back for more.                         *)
ReaderGivesUp(s) ==
    /\ reader[s] = "waiting"
    /\ reader' = Set(reader, s, "running")
    /\ readerWoken' = Set(readerWoken, s, FALSE)
    /\ UNCHANGED <<subVars, buffer, getter, putters, dropped, handed, taken,
                   lastRead, emitVars, woken>>

(* Mutant of Close: only the reader is released.                           *)
CloseForgettingPutters(s) ==
    /\ reader[s] \in {"running", "waiting"}
    /\ ~closed[s]
    /\ closed' = Set(closed, s, TRUE)
    /\ WakeReader(s)
    /\ subs' = RemoveFirst(subs, s)
    /\ UNCHANGED <<policy, buffer, putters, dropped, reader, handed, taken, lastRead,
                   emitVars, woken>>

(* Subscription.close, from the reader's side or from Topic.close.         *)
Close(s) ==
    /\ reader[s] \in {"running", "waiting"}
    /\ ~closed[s]
    /\ closed' = Set(closed, s, TRUE)
    /\ WakeReader(s)
    /\ putters' = Set(putters, s, <<>>)
    /\ woken' = woken \cup {w \in ToSet(putters[s]) : IsWaiting(w)}
    /\ subs' = RemoveFirst(subs, s)
    /\ UNCHANGED <<policy, buffer, dropped, reader, handed, taken, lastRead, emitVars>>

-----------------------------------------------------------------------------
(* Emitting                                                                *)

Emit(e) ==
    /\ emitter[e] = "idle"
    /\ sent[e] < MaxEmits[e]
    /\ sent' = Set(sent, e, sent[e] + 1)
    /\ todo' = Set(todo, e, subs)
    /\ emitter' = Set(emitter, e, "offering")
    /\ \E b \in BOOLEAN : (b => e \in NoWaiters) /\ nowait' = Set(nowait, e, b)
    /\ UNCHANGED <<subVars, buffer, getter, putters, dropped, readerVars,
                   readerWoken, handed, seen, woken>>

(* The next subscription of the snapshot, or the end of the call.          *)
Onward(e) ==
    /\ todo' = Set(todo, e, Tail(todo[e]))
    /\ emitter' = Set(emitter, e, "offering")
    /\ UNCHANGED <<nowait, sent, seen>>

Return(e) ==
    /\ emitter[e] = "offering"
    /\ todo[e] = <<>>
    /\ emitter' = Set(emitter, e, "idle")
    /\ UNCHANGED <<subVars, buffer, getter, putters, dropped, readerVars,
                   readerWoken, handed, nowait, sent, todo, seen, woken>>

(* _put, called by emit() and again at the top of _offer.                  *)
At(e, s) ==
    /\ emitter[e] \in {"offering", "offer_put"}
    /\ todo[e] # <<>>
    /\ s = Head(todo[e])

Full(s) == Len(buffer[s]) >= MaxSize

PutClosed(e, s) ==
    /\ At(e, s)
    /\ closed[s]
    /\ Onward(e)
    /\ UNCHANGED <<subVars, buffer, getter, putters, dropped, readerVars,
                   readerWoken, handed, woken>>

(* Room, or room made by dropping the oldest.                              *)
PutAppend(e, s) ==
    /\ At(e, s)
    /\ ~closed[s]
    /\ Full(s) => policy[s] = "drop_oldest"
    /\ buffer' = Set(buffer, s,
                     Append(IF Full(s) THEN Tail(buffer[s]) ELSE buffer[s], Message(e)))
    /\ dropped' = IF Full(s) THEN Set(dropped, s, dropped[s] + 1) ELSE dropped
    /\ handed' = Set(handed, s, handed[s] + 1)
    /\ WakeReader(s)
    /\ Onward(e)
    /\ UNCHANGED <<subVars, putters, readerVars, woken>>

(* drop_newest, counted under the lock.                                    *)
PutDropped(e, s) ==
    /\ At(e, s)
    /\ ~closed[s]
    /\ Full(s)
    /\ policy[s] = "drop_newest"
    /\ dropped' = Set(dropped, s, dropped[s] + 1)
    /\ handed' = Set(handed, s, handed[s] + 1)
    /\ Onward(e)
    /\ UNCHANGED <<subVars, buffer, getter, putters, readerVars, readerWoken, woken>>

(* TopicFull leaves emit(): the rest of the snapshot gets nothing.         *)
PutRaises(e, s) ==
    /\ At(e, s)
    /\ ~closed[s]
    /\ Full(s)
    /\ policy[s] = "error"
    /\ emitter' = Set(emitter, e, "idle")
    /\ todo' = Set(todo, e, <<>>)
    /\ UNCHANGED <<subVars, buffer, getter, putters, dropped, readerVars,
                   readerWoken, handed, nowait, sent, seen, woken>>

(* A full `block` subscriber: emit() goes on to _offer and from there to   *)
(* its loop; emit_nowait() has dropped the message and now counts it.      *)
PutFull(e, s) ==
    /\ At(e, s)
    /\ ~closed[s]
    /\ Full(s)
    /\ policy[s] = "block"
    /\ emitter' = Set(emitter, e, IF nowait[e] THEN "counting"
                                  ELSE IF emitter[e] = "offering" THEN "offer_put"
                                  ELSE "offer_loop")
    /\ handed' = IF nowait[e] THEN Set(handed, s, handed[s] + 1) ELSE handed
    /\ UNCHANGED <<subVars, buffer, getter, putters, dropped, readerVars,
                   readerWoken, nowait, sent, todo, seen, woken>>

Put(e, s) ==
    \/ PutClosed(e, s) \/ PutAppend(e, s) \/ PutDropped(e, s) \/ PutRaises(e, s)
    \/ PutFull(e, s)

(* `sub.dropped += 1` in emit_nowait is outside the lock: a load and a     *)
(* store, with other threads in between on a free-threaded build.          *)
CountLoad(e, s) ==
    /\ emitter[e] = "counting" /\ s = Head(todo[e])
    /\ seen' = Set(seen, e, dropped[s])
    /\ emitter' = Set(emitter, e, "counted")
    /\ UNCHANGED <<subVars, buffer, getter, putters, dropped, readerVars,
                   readerWoken, handed, nowait, sent, todo, woken>>

CountStore(e, s) ==
    /\ emitter[e] = "counted" /\ s = Head(todo[e])
    /\ dropped' = Set(dropped, s, seen[e] + 1)
    /\ emitter' = Set(emitter, e, "offering")
    /\ todo' = Set(todo, e, Tail(todo[e]))
    /\ seen' = Set(seen, e, 0)
    /\ UNCHANGED <<subVars, buffer, getter, putters, readerVars, readerWoken,
                   handed, nowait, sent, woken>>

(* The loop of _offer: closed, room, or a waiter left and awaited.         *)
AtLoop(e, s) == emitter[e] = "offer_loop" /\ s = Head(todo[e])

OfferClosed(e, s) ==
    /\ AtLoop(e, s)
    /\ closed[s]
    /\ Onward(e)
    /\ UNCHANGED <<subVars, buffer, getter, putters, dropped, readerVars,
                   readerWoken, handed, woken>>

(* Mutant of OfferAppend: the getter is not taken.                         *)
OfferAppendSilently(e, s) ==
    /\ AtLoop(e, s)
    /\ ~closed[s] /\ ~Full(s)
    /\ buffer' = Set(buffer, s, Append(buffer[s], Message(e)))
    /\ handed' = Set(handed, s, handed[s] + 1)
    /\ Onward(e)
    /\ UNCHANGED <<subVars, getter, dropped, putters, readerVars, readerWoken, woken>>

OfferAppend(e, s) ==
    /\ AtLoop(e, s)
    /\ ~closed[s] /\ ~Full(s)
    /\ buffer' = Set(buffer, s, Append(buffer[s], Message(e)))
    /\ handed' = Set(handed, s, handed[s] + 1)
    /\ WakeReader(s)
    /\ Onward(e)
    /\ UNCHANGED <<subVars, dropped, putters, readerVars, woken>>

OfferWaits(e, s) ==
    /\ AtLoop(e, s)
    /\ ~closed[s] /\ Full(s)
    /\ putters' = Set(putters, s, Append(putters[s], Message(e)))
    /\ emitter' = Set(emitter, e, "waiting")
    /\ UNCHANGED <<subVars, buffer, getter, dropped, readerVars, readerWoken,
                   handed, nowait, sent, todo, seen, woken>>

EmitterResumes(e) ==
    /\ Message(e) \in woken
    /\ woken' = woken \ {Message(e)}
    /\ emitter' = Set(emitter, e, "offer_loop")
    /\ UNCHANGED <<subVars, buffer, getter, putters, dropped, readerVars,
                   readerWoken, handed, nowait, sent, todo, seen>>

(* The emitting handler is cancelled while it waits: its waiter stays in   *)
(* _putters, and a wake already on its way is lost on it.                  *)
EmitterCancelled(e) ==
    /\ e \in Cancellable
    /\ emitter[e] = "waiting"
    /\ emitter' = Set(emitter, e, "idle")
    /\ todo' = Set(todo, e, <<>>)
    /\ woken' = woken \ {Message(e)}
    /\ UNCHANGED <<subVars, buffer, getter, putters, dropped, readerVars,
                   readerWoken, handed, nowait, sent, seen>>

-----------------------------------------------------------------------------
Init ==
    /\ subs = <<>>
    /\ policy = [s \in Subs |-> "drop_oldest"]
    /\ buffer = [s \in Subs |-> <<>>]
    /\ closed = [s \in Subs |-> FALSE]
    /\ getter = [s \in Subs |-> FALSE]
    /\ putters = [s \in Subs |-> <<>>]
    /\ dropped = [s \in Subs |-> 0]
    /\ reader = [s \in Subs |-> "none"]
    /\ readerWoken = [s \in Subs |-> FALSE]
    /\ handed = [s \in Subs |-> 0]
    /\ taken = [s \in Subs |-> 0]
    /\ lastRead = [s \in Subs |-> [e \in Emitters |-> 0]]
    /\ emitter = [e \in Emitters |-> "idle"]
    /\ nowait = [e \in Emitters |-> FALSE]
    /\ sent = [e \in Emitters |-> 0]
    /\ todo = [e \in Emitters |-> <<>>]
    /\ seen = [e \in Emitters |-> 0]
    /\ woken = {}

Reading(s) == Read(s) \/ ReadNothing(s) \/ ReaderResumes(s)

Offer(e, s) == OfferClosed(e, s) \/ OfferAppend(e, s) \/ OfferWaits(e, s)

Emitting(e) ==
    \/ Return(e)
    \/ \E s \in Subs : Put(e, s) \/ Offer(e, s) \/ CountLoad(e, s) \/ CountStore(e, s)
    \/ EmitterResumes(e)

Next ==
    \/ \E s \in Subs :
          Subscribe(s) \/ Reading(s) \/ ReaderGivesUp(s) \/ Close(s)
    \/ \E e \in Emitters : Emit(e) \/ Emitting(e) \/ EmitterCancelled(e)

(* Readers keep reading, and a loop runs what has been scheduled on it.    *)
Fairness ==
    /\ \A s \in Subs : WF_vars(Reading(s))
    /\ \A e \in Emitters : WF_vars(Emitting(e))

Spec == Init /\ [][Next]_vars /\ Fairness

-----------------------------------------------------------------------------
(* Properties                                                              *)

TypeOK ==
    /\ subs \in Seq(Subs)
    /\ policy \in [Subs -> Policies]
    /\ \A s \in Subs : Len(buffer[s]) <= MaxSize
    /\ closed \in [Subs -> BOOLEAN]
    /\ getter \in [Subs -> BOOLEAN]
    /\ dropped \in [Subs -> Nat]
    /\ reader \in [Subs -> {"none", "running", "waiting", "done"}]
    /\ readerWoken \in [Subs -> BOOLEAN]
    /\ handed \in [Subs -> Nat]
    /\ taken \in [Subs -> Nat]
    /\ emitter \in [Emitters -> {"idle", "offering", "offer_put", "offer_loop",
                                 "waiting", "counting", "counted"}]
    /\ sent \in [Emitters -> Nat]

(* A reader is never left waiting with something to read, or after its     *)
(* subscription has ended: the getter it left was taken and is being       *)
(* resolved, whichever loop the emitter ran on.                            *)
ReaderNotStranded ==
    \A s \in Subs :
        reader[s] = "waiting" /\ (buffer[s] # <<>> \/ closed[s]) => readerWoken[s]

(* `dropped` is honest: every message handed to an open subscription was   *)
(* read, is waiting to be read, was counted as dropped, or is being        *)
(* counted by an emit_nowait that has yet to return.                       *)
BeingCounted(s) ==
    {e \in Emitters : emitter[e] \in {"counting", "counted"} /\ s = Head(todo[e])}

Accounted ==
    \A s \in Subs :
        handed[s] = taken[s] + Len(buffer[s]) + dropped[s] + Cardinality(BeingCounted(s))

(* No reader sees a message twice, nor two of one emitter's messages in    *)
(* the wrong order, whatever overtakes a waiting emitter: what is buffered *)
(* is newer than what its emitter's reader has had.                        *)
InEmitterOrder ==
    \A s \in Subs : \A i \in DOMAIN buffer[s] :
        LET m == buffer[s][i] IN m[2] > lastRead[s][m[1]]

(* The emitters that will look at a subscription again.                    *)
OnItsWay(s) ==
    {e \in Emitters :
        /\ todo[e] # <<>> /\ s = Head(todo[e])
        /\ emitter[e] = "offer_loop" \/ Message(e) \in woken}

(* An emitter waits for room only while there is none: a `block`           *)
(* subscription with room, or one that has ended, has woken an emitter     *)
(* that has yet to look.                                                   *)
PutterNotStranded ==
    \A e \in Emitters, s \in Subs :
        emitter[e] = "waiting" /\ s = Head(todo[e]) /\ (~Full(s) \/ closed[s])
            => OnItsWay(s) # {}

(* "Wait until the subscriber has room": an emitter that waits goes on, as *)
(* its subscriber reads or closes.                                         *)
BlockedEmitGoesOn ==
    \A e \in Emitters : emitter[e] = "waiting" ~> emitter[e] # "waiting"

(* What every reader can rely on.                                          *)
Safety == TypeOK /\ ReaderNotStranded /\ Accounted /\ InEmitterOrder

=============================================================================
