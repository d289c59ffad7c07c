---------------------------- MODULE DurableTopic ----------------------------
(***************************************************************************)
(* A durable topic in one process (Topic and Subscription of               *)
(* src/python/oxbrook/_streams.py over RedisBackend of _redis.py): emit    *)
(* appends to a Redis stream and delivers locally, a tail task feeds local *)
(* subscriptions what the stream brings, and a subscription opened with    *)
(* `since` first replays what the stream still holds.                      *)
(*                                                                         *)
(* An entry's id is its place in the stream.  Emitters, readers and the    *)
(* tail run on different worker loops; a step here is a Redis command as   *)
(* the server executes it, or a block under a subscription's lock.  How a  *)
(* reader waits for a buffered message is module Topic; here it reads when *)
(* there is one.                                                           *)
(***************************************************************************)
EXTENDS Naturals, Sequences, FiniteSets, SequencesExt

CONSTANTS
    Subs,          \* subscriptions, each opened at most once
    Emitters,      \* tasks that emit, one message at a time each
    Modes,         \* per subscription: the ways it may be opened
    Policies,      \* per subscription: the policies it may be opened with
    MaxSize,       \* maxsize of every subscription
    Batch,         \* entries per read of the tail (count=64)
    Page,          \* REPLAY_PAGE
    MaxEntries,    \* bound: entries appended
    MaxTrims,      \* bound: entries trimmed away
    MaxOutages,    \* bound: commands of the tail that fail
    None           \* Python's None: a place or a flag not known yet

ASSUME DurableAssumption ==
    /\ Modes \in [Subs -> SUBSET {"plain", "new", "since"}]
    /\ Policies \in [Subs -> SUBSET {"drop_oldest", "drop_newest", "block", "error"}]
    /\ MaxSize \in Nat \ {0} /\ Batch \in Nat \ {0} /\ Page \in Nat \ {0}
    /\ MaxEntries \in Nat /\ MaxTrims \in Nat /\ MaxOutages \in Nat
    /\ None \notin Nat \cup BOOLEAN \cup {"plain", "new", "since"}
    /\ None \notin Seq(Nat) \cup Seq(Subs)

VARIABLES
    stream,        \* the Redis stream: who published each entry
    trimmed,       \* oldest entries no longer in it
    tail,          \* where the tail task is in _pump
    position,      \* its position: the last entry it has handed out
    live,          \* Topic._live
    batch,         \* entries the tail has read and not handed out
    todo,          \* subscriptions of _fan_out's snapshot left
    looked,        \* the tail has passed _try_offer's look at _after
    outages,       \* failures so far
    emitting,      \* per emitter: the entry its emit() delivers, or None
    emitTodo,      \* per emitter: subscriptions of its snapshot left
    subs,          \* Topic._subs
    mode,          \* per subscription: how it was opened
    policy,        \* per subscription: its policy
    from,          \* per subscription: the entry it asked to start after
    closed,        \* per subscription: _closed
    buffer,        \* per subscription: _buffer
    after,         \* per subscription: _after
    backlog,       \* per subscription: _backlog
    replaying,     \* per subscription: _replaying
    asked,         \* per subscription: `live` as _replayed read it, or None
    page,          \* per subscription: the answer to its history(), or None
    got,           \* per subscription: what its reader has returned
    lost           \* per subscription: what its full buffer cost it

redis == <<stream, trimmed>>
tailVars == <<tail, position, live, batch, todo, looked, outages>>
emitVars == <<emitting, emitTodo>>
openVars == <<subs, mode, policy, from>>
replayVars == <<backlog, replaying, asked, page>>
readVars == <<after, got>>
bufferVars == <<buffer, lost>>
vars == <<redis, tailVars, emitVars, openVars, closed, bufferVars, readVars,
          replayVars>>

Set(f, x, v) == [f EXCEPT ![x] = v]
Ids(s) == mode[s] \in {"new", "since"}

(* The first n entries after p that the stream still holds.                *)
After(p, n) ==
    LET lo == IF p < trimmed THEN trimmed ELSE p
        hi == IF lo + n < Len(stream) THEN lo + n ELSE Len(stream)
    IN  [k \in 1 .. hi - lo |-> lo + k]

-----------------------------------------------------------------------------
(* Redis, and what other processes do to the stream                        *)

Publish(node) ==
    /\ Len(stream) < MaxEntries
    /\ stream' = Append(stream, node)

AppendElsewhere ==
    /\ Publish("other")
    /\ UNCHANGED <<trimmed, tailVars, emitVars, openVars, closed, bufferVars,
                   readVars, replayVars>>

(* maxlen of XADD, or trim(): the oldest entry goes.                       *)
Trim ==
    /\ trimmed < MaxTrims /\ trimmed < Len(stream)
    /\ trimmed' = trimmed + 1
    /\ UNCHANGED <<stream, tailVars, emitVars, openVars, closed, bufferVars,
                   readVars, replayVars>>

-----------------------------------------------------------------------------
(* Delivery to one subscription                                            *)

Full(s) == Len(buffer[s]) >= MaxSize

(* _put under the lock; a full `block` or `error` buffer is the caller's   *)
(* business.                                                               *)
Put(s, i) ==
    /\ ~closed[s] /\ Full(s) => policy[s] \in {"drop_oldest", "drop_newest"}
    /\ buffer' = IF closed[s] \/ (Full(s) /\ policy[s] = "drop_newest") THEN buffer
                 ELSE IF Full(s) THEN Set(buffer, s, Append(Tail(buffer[s]), i))
                 ELSE Set(buffer, s, Append(buffer[s], i))
    /\ lost' = IF closed[s] \/ ~Full(s) THEN lost
               ELSE Set(lost, s, lost[s] \cup
                        {IF policy[s] = "drop_newest" THEN i ELSE Head(buffer[s])})

-----------------------------------------------------------------------------
(* subscribe, with _ensure_tail: a subscription opened with a position     *)
(* replays, one opened with "$" or with none does not.                     *)
Subscribe(s) ==
    /\ mode[s] = None /\ tail # "stopped"
    /\ \E m \in Modes[s], p \in 0 .. Len(stream) :
          /\ m # "since" => p = Len(stream)
          /\ mode' = Set(mode, s, m)
          /\ from' = Set(from, s, p)
          /\ after' = Set(after, s, IF m = "since" THEN p ELSE None)
          /\ replaying' = Set(replaying, s, m = "since")
    /\ \E p \in Policies[s] : policy' = Set(policy, s, p)
    /\ subs' = Append(subs, s)
    /\ tail' = IF tail = "off" THEN "fixing" ELSE tail
    /\ UNCHANGED <<redis, position, live, batch, todo, looked, outages, emitVars,
                   closed, bufferVars, backlog, asked, page, got>>

Close(s) ==
    /\ mode[s] # None /\ ~closed[s]
    /\ closed' = Set(closed, s, TRUE)
    /\ subs' = RemoveFirst(subs, s)
    /\ UNCHANGED <<redis, tailVars, emitVars, mode, policy, from, bufferVars, readVars,
                   replayVars>>

-----------------------------------------------------------------------------
(* The tail: _pump over backend.follow                                     *)

(* last_id: a definite place, from which on delivery is live.              *)
FixPosition ==
    /\ tail = "fixing"
    /\ position' = IF trimmed = Len(stream) THEN 0 ELSE Len(stream)
    /\ live' = TRUE
    /\ tail' = "reading"
    /\ UNCHANGED <<redis, batch, todo, looked, outages, emitVars, openVars, closed,
                   bufferVars, readVars, replayVars>>

(* XREAD as Redis executes it; its entries are handed out later.           *)
Follow ==
    /\ tail = "reading"
    /\ After(position, Batch) # <<>>
    /\ batch' = After(position, Batch)
    /\ tail' = "read"
    /\ UNCHANGED <<redis, position, live, todo, looked, outages, emitVars, openVars,
                   closed, bufferVars, readVars, replayVars>>

(* _fan_out of an entry begins with a snapshot of the subscriptions.       *)
FanOut ==
    /\ tail = "read"
    /\ todo' = subs
    /\ tail' = "handing"
    /\ UNCHANGED <<redis, position, live, batch, looked, outages, emitVars, openVars,
                   closed, bufferVars, readVars, replayVars>>

(* Mutant of TailSkips: own entries are handed to everyone.                *)
SkipsNothing(s) ==
    LET i == Head(batch) IN Ids(s) /\ after[s] # None /\ i <= after[s]

(* _fan_out and _try_offer leave a subscription out that emit has served,  *)
(* or whose reader is past the entry already.                              *)
TailSkips(s) ==
    LET i == Head(batch) IN
    \/ stream[i] = "own" /\ ~Ids(s)
    \/ Ids(s) /\ after[s] # None /\ i <= after[s]

TailLook ==
    /\ tail = "handing" /\ todo # <<>> /\ ~looked
    /\ IF TailSkips(Head(todo)) THEN todo' = Tail(todo) /\ UNCHANGED looked
       ELSE looked' = TRUE /\ UNCHANGED todo
    /\ UNCHANGED <<redis, tail, position, live, batch, outages, emitVars, openVars,
                   closed, bufferVars, readVars, replayVars>>

(* Delivered; a full `block` buffer loses the entry, as drop_newest would. *)
TailPut ==
    /\ tail = "handing" /\ looked
    /\ LET s == Head(todo)
           i == Head(batch)
       IN  \/ Put(s, i)
           \/ /\ ~closed[s] /\ Full(s) /\ policy[s] = "block"
              /\ lost' = Set(lost, s, lost[s] \cup {i})
              /\ UNCHANGED buffer
    /\ looked' = FALSE
    /\ todo' = Tail(todo)
    /\ UNCHANGED <<redis, tail, position, live, batch, outages, emitVars, openVars,
                   closed, readVars, replayVars>>

(* TopicFull leaves _fan_out with the position still before the entry.     *)
TailRaises ==
    /\ tail = "handing" /\ looked
    /\ LET s == Head(todo) IN ~closed[s] /\ Full(s) /\ policy[s] = "error"
    /\ tail' = "broken"
    /\ batch' = <<>> /\ todo' = <<>> /\ looked' = FALSE
    /\ UNCHANGED <<redis, position, live, outages, emitVars, openVars, closed,
                   bufferVars, readVars, replayVars>>

TailNext ==
    /\ tail = "handing" /\ todo = <<>>
    /\ position' = Head(batch)
    /\ batch' = Tail(batch)
    /\ tail' = IF Tail(batch) = <<>> THEN "reading" ELSE "read"
    /\ UNCHANGED <<redis, live, todo, looked, outages, emitVars, openVars, closed,
                   bufferVars, readVars, replayVars>>

(* Mutant of Outage: the tail gives up on the first dropped connection.    *)
OutageEndsTail ==
    /\ tail \in {"fixing", "reading"} /\ outages < MaxOutages
    /\ outages' = outages + 1
    /\ tail' = "off"
    /\ UNCHANGED <<redis, position, live, batch, todo, looked, emitVars, openVars,
                   closed, bufferVars, readVars, replayVars>>

Outage ==
    /\ tail \in {"fixing", "reading"} /\ outages < MaxOutages
    /\ outages' = outages + 1
    /\ tail' = "broken"
    /\ UNCHANGED <<redis, position, live, batch, todo, looked, emitVars, openVars,
                   closed, bufferVars, readVars, replayVars>>

(* After its delay the tail goes on from the position it had.              *)
Reconnect ==
    /\ tail = "broken"
    /\ tail' = IF position = None THEN "fixing" ELSE "reading"
    /\ UNCHANGED <<redis, position, live, batch, todo, looked, outages, emitVars,
                   openVars, closed, bufferVars, readVars, replayVars>>

(* Topic.close: the tail is cancelled at an await and every subscription   *)
(* ends.  One opened later starts a new tail.                              *)
CloseTopic ==
    /\ tail \in {"fixing", "reading", "broken"}
    /\ tail' = "off" /\ position' = None
    /\ live' = FALSE
    /\ closed' = [s \in Subs |-> closed[s] \/ mode[s] # None]
    /\ subs' = <<>>
    /\ UNCHANGED <<redis, batch, todo, looked, outages, emitVars, mode, policy, from,
                   bufferVars, readVars, replayVars>>

(* _stop_tail as the server stops: the subscriptions are left alone, and   *)
(* nothing is opened afterwards.                                           *)
StopTail ==
    /\ tail \in {"fixing", "reading", "broken"}
    /\ tail' = "stopped"
    /\ live' = FALSE
    /\ UNCHANGED <<redis, position, batch, todo, looked, outages, emitVars, openVars,
                   closed, bufferVars, readVars, replayVars>>

-----------------------------------------------------------------------------
(* emit: the stream first, then the subscriptions that the tail leaves to  *)
(* it.                                                                     *)
Emit(e) ==
    /\ emitting[e] = None
    /\ Publish("own")
    /\ emitting' = Set(emitting, e, Len(stream) + 1)
    /\ emitTodo' = Set(emitTodo, e, None)
    /\ UNCHANGED <<trimmed, tailVars, openVars, closed, bufferVars, readVars,
                   replayVars>>

(* Redis has answered: the snapshot of the subscriptions.                  *)
EmitLook(e) ==
    /\ emitting[e] # None /\ emitTodo[e] = None
    /\ emitTodo' = Set(emitTodo, e, subs)
    /\ UNCHANGED <<redis, tailVars, emitting, openVars, closed, bufferVars, readVars,
                   replayVars>>

Emits(e, s) ==
    /\ emitting[e] # None /\ emitTodo[e] # None
    /\ emitTodo[e] # <<>> /\ s = Head(emitTodo[e])

EmitSkips(e, s) ==
    /\ Emits(e, s)
    /\ Ids(s)
    /\ emitTodo' = Set(emitTodo, e, Tail(emitTodo[e]))
    /\ UNCHANGED <<redis, tailVars, emitting, openVars, closed, bufferVars, readVars,
                   replayVars>>

(* _try_offer or, when a `block` buffer is full, _offer once it has room.  *)
EmitPut(e, s) ==
    /\ Emits(e, s)
    /\ ~Ids(s)
    /\ Put(s, emitting[e])
    /\ emitTodo' = Set(emitTodo, e, Tail(emitTodo[e]))
    /\ UNCHANGED <<redis, tailVars, emitting, openVars, closed, readVars, replayVars>>

(* emit ends: everyone is served, TopicFull, or it is cancelled while it   *)
(* waits for Redis or for room.                                            *)
EmitReturns(e) ==
    /\ emitting[e] # None
    /\ \/ emitTodo[e] \in {None, <<>>}
       \/ \E s \in Subs : /\ Emits(e, s) /\ ~Ids(s)
                          /\ ~closed[s] /\ Full(s) /\ policy[s] \in {"error", "block"}
    /\ emitting' = Set(emitting, e, None)
    /\ emitTodo' = Set(emitTodo, e, <<>>)
    /\ UNCHANGED <<redis, tailVars, openVars, closed, bufferVars, readVars,
                   replayVars>>

-----------------------------------------------------------------------------
(* The reader: _replayed, then the buffer                                  *)

Reads(s) == mode[s] # None /\ asked[s] = None

Deliver(s, i) ==
    /\ got' = Set(got, s, Append(got[s], i))
    /\ after' = IF Ids(s) THEN Set(after, s, i) ELSE after

ReplayTake(s) ==
    /\ Reads(s) /\ replaying[s] /\ backlog[s] # <<>>
    /\ Deliver(s, Head(backlog[s]))
    /\ backlog' = Set(backlog, s, Tail(backlog[s]))
    /\ UNCHANGED <<redis, tailVars, emitVars, openVars, closed, bufferVars,
                   replaying, asked, page>>

(* Whether the tail is live is read before the page is asked for.          *)
ReplayAsk(s) ==
    /\ Reads(s) /\ replaying[s] /\ backlog[s] = <<>>
    /\ IF closed[s] THEN replaying' = Set(replaying, s, FALSE) /\ UNCHANGED asked
       ELSE asked' = Set(asked, s, live) /\ UNCHANGED replaying
    /\ UNCHANGED <<redis, tailVars, emitVars, openVars, closed, bufferVars,
                   readVars, backlog, page>>

(* The flag an empty page is judged by.                                    *)
Asked(s) == asked[s]

(* The items of q at the places in K, in their order.                      *)
ItemsAt(q, K) ==
    [n \in 1 .. Cardinality(K) |->
        q[CHOOSE k \in K : Cardinality({j \in K : j < k}) = n - 1]]

(* _prune: buffered live copies of what the replay gave are dropped.       *)
Pruned(s) == ItemsAt(buffer[s], {k \in DOMAIN buffer[s] : buffer[s][k] > after[s]})

(* XRANGE as Redis executes it; the answer is dealt with later.            *)
History(s) ==
    /\ asked[s] # None /\ page[s] = None
    /\ page' = Set(page, s, After(after[s], Page))
    /\ UNCHANGED <<redis, tailVars, emitVars, openVars, closed, bufferVars,
                   readVars, backlog, replaying, asked>>

ReplayPage(s) ==
    /\ page[s] # None
    /\ LET over == page[s] = <<>> /\ Asked(s)
       IN  /\ backlog' = Set(backlog, s, page[s])
           /\ replaying' = Set(replaying, s, ~over)
           /\ buffer' = IF over THEN Set(buffer, s, Pruned(s)) ELSE buffer
    /\ asked' = Set(asked, s, None)
    /\ page' = Set(page, s, None)
    /\ UNCHANGED <<redis, tailVars, emitVars, openVars, closed, lost, readVars>>

(* Delivered live while the replay also read it.                           *)
Stale(s, i) == Ids(s) /\ after[s] # None /\ i <= after[s]

Read(s) ==
    /\ Reads(s) /\ ~replaying[s] /\ buffer[s] # <<>>
    /\ IF Stale(s, Head(buffer[s])) THEN UNCHANGED readVars
       ELSE Deliver(s, Head(buffer[s]))
    /\ buffer' = Set(buffer, s, Tail(buffer[s]))
    /\ UNCHANGED <<redis, tailVars, emitVars, openVars, closed, lost, replayVars>>

-----------------------------------------------------------------------------
Init ==
    /\ stream = <<>> /\ trimmed = 0
    /\ tail = "off" /\ position = None /\ live = FALSE
    /\ batch = <<>> /\ todo = <<>> /\ looked = FALSE /\ outages = 0
    /\ emitting = [e \in Emitters |-> None] /\ emitTodo = [e \in Emitters |-> <<>>]
    /\ subs = <<>>
    /\ mode = [s \in Subs |-> None]
    /\ policy = [s \in Subs |-> None]
    /\ from = [s \in Subs |-> 0]
    /\ closed = [s \in Subs |-> FALSE]
    /\ buffer = [s \in Subs |-> <<>>]
    /\ after = [s \in Subs |-> None]
    /\ backlog = [s \in Subs |-> <<>>]
    /\ replaying = [s \in Subs |-> FALSE]
    /\ asked = [s \in Subs |-> None]
    /\ page = [s \in Subs |-> None]
    /\ got = [s \in Subs |-> <<>>]
    /\ lost = [s \in Subs |-> {}]

Pump ==
    \/ FixPosition \/ Follow \/ FanOut \/ TailLook \/ TailPut \/ TailRaises \/ TailNext
    \/ Reconnect

Emitter(e) ==
    \/ Emit(e) \/ EmitLook(e) \/ EmitReturns(e)
    \/ \E s \in Subs : EmitSkips(e, s) \/ EmitPut(e, s)

Reader(s) == ReplayTake(s) \/ ReplayAsk(s) \/ History(s) \/ ReplayPage(s) \/ Read(s)

Next ==
    \/ AppendElsewhere \/ Trim \/ Outage
    \/ Pump
    \/ CloseTopic \/ StopTail
    \/ \E e \in Emitters : Emitter(e)
    \/ \E s \in Subs : Subscribe(s) \/ Close(s) \/ Reader(s)

(* Loops run what is ready, Redis answers or fails, and readers go on      *)
(* reading; nobody need publish, subscribe or close.                       *)
Fairness == WF_vars(Pump) /\ \A s \in Subs : WF_vars(Reader(s))

Spec == Init /\ [][Next]_vars /\ Fairness

-----------------------------------------------------------------------------
Place == Nat \cup {None}

TypeOK ==
    /\ stream \in Seq({"own", "other"}) /\ trimmed \in Nat
    /\ tail \in {"off", "fixing", "reading", "read", "handing", "broken",
                "stopped"}
    /\ position \in Place /\ live \in BOOLEAN
    /\ batch \in Seq(Nat) /\ todo \in Seq(Subs) /\ looked \in BOOLEAN
    /\ outages \in 0 .. MaxOutages
    /\ emitting \in [Emitters -> Place]
    /\ emitTodo \in [Emitters -> Seq(Subs) \cup {None}] /\ subs \in Seq(Subs)
    /\ mode \in [Subs -> {None, "plain", "new", "since"}]
    /\ policy \in [Subs -> {None, "drop_oldest", "drop_newest", "block", "error"}]
    /\ from \in [Subs -> Nat] /\ closed \in [Subs -> BOOLEAN]
    /\ buffer \in [Subs -> Seq(Nat)] /\ \A s \in Subs : Len(buffer[s]) <= MaxSize
    /\ after \in [Subs -> Place] /\ backlog \in [Subs -> Seq(Nat)]
    /\ replaying \in [Subs -> BOOLEAN]
    /\ asked \in [Subs -> BOOLEAN \cup {None}]
    /\ page \in [Subs -> Seq(Nat) \cup {None}]
    /\ got \in [Subs -> Seq(Nat)] /\ lost \in [Subs -> SUBSET Nat]

Given(s) == {got[s][k] : k \in DOMAIN got[s]}
Buffered(s) == {buffer[s][k] : k \in DOMAIN buffer[s]}

(* "none ... repeated across the switch": the reader of a subscription     *)
(* opened with `since` sees stream ids in strictly rising order, though    *)
(* the same entry comes from the replay and from the tail.                 *)
ResumedInOrder ==
    \A s \in Subs : Ids(s) =>
        \A j, k \in DOMAIN got[s] : j < k => got[s][j] < got[s][k]

(* "none missed": once the replay has met live delivery, every entry after *)
(* the asked position that the tail has gone past was returned, is         *)
(* buffered, was dropped by the policy, or was trimmed from the stream.    *)
HandOverComplete ==
    \A s \in Subs :
        mode[s] = "since" /\ ~replaying[s] /\ ~closed[s] =>
            \A i \in from[s] + 1 .. Len(stream) :
                position # None /\ i <= position =>
                    \/ i \in Given(s) \cup Buffered(s) \cup lost[s]
                    \/ i <= trimmed

(* "nobody sees a message twice": a plain subscription is fed by emit and  *)
(* by the tail and gets each entry from one of them only.                  *)
PlainOnce ==
    \A s \in Subs : ~Ids(s) =>
        \A j, k \in DOMAIN got[s] : j # k => got[s][j] # got[s][k]

(* "what other nodes publish during an outage arrives late rather than not *)
(* at all": an entry after the asked position reaches the reader, unless   *)
(* its buffer was full, the stream was trimmed or somebody stopped.        *)
ArrivesLate ==
    \A s \in Subs : \A i \in 1 .. MaxEntries :
        (mode[s] = "since" /\ from[s] < i /\ i <= Len(stream)) ~>
            \/ i \in Given(s) \cup lost[s]
            \/ closed[s] \/ tail = "stopped" \/ i <= trimmed

(* "One opened with `since` gets this from the tail": what is appended     *)
(* once a subscription is open with "$" and its topic is being followed is *)
(* not passed over.                                                        *)
NewSeesNew ==
    \A s \in Subs :
        mode[s] = "new" /\ ~closed[s] =>
            \A i \in from[s] + 1 .. Len(stream) :
                position # None /\ i <= position =>
                    i \in Given(s) \cup Buffered(s) \cup lost[s]

(* What the reader of a durable topic can rely on.                         *)
Safety == TypeOK /\ ResumedInOrder /\ HandOverComplete /\ PlainOnce

=============================================================================
