---------------------------- MODULE McpSessions -----------------------------
(***************************************************************************)
(* Sessions of the MCP endpoint and the topics they follow (_mcp.py Feed,  *)
(* Session, Sessions, and MCP's post, get, delete, subscribe, read_resource*)
(* and listen).                                                            *)
(*                                                                         *)
(* There is one topic.  A request finds its session in the registry, waits *)
(* at the topic's gate, and then acts on the session object, which may have*)
(* left the registry meanwhile.  On one worker loop what follows an await  *)
(* is one step; with several loops it interleaves with everything else.    *)
(* A stream is a session's GET; a listener is a `subscriptions/listen`.    *)
(***************************************************************************)
EXTENDS Integers, Sequences, FiniteSets, SequencesExt

CONSTANTS
    Ids,           \* session ids
    Calls,         \* POST requests in flight
    Feeds,         \* Feed objects
    Streams,       \* GET requests
    Listeners,     \* subscriptions/listen requests
    Limit,         \* MAX_SESSIONS
    Idle,          \* SESSION_IDLE
    FeedBuffer,    \* FEED_BUFFER
    NoFeed,        \* no feed, in a session
    MaxMessages,   \* bound: messages emitted
    MaxTime        \* bound: clock ticks

VARIABLES
    oneLoop,       \* the server has one worker loop
    now,           \* time.monotonic()
    live,          \* Sessions._by_id
    used,          \* ids given out
    touched,       \* Session.touched
    channel,       \* sessions that have a channel
    listening,     \* per session, the streams subscribed to its channel
    feeds,         \* per session, Session.feeds
    call,          \* per call: its operation, session, phase, and what it holds
    feed,          \* per feed: [session, open, pending, buffer, notified, pump]
    stream,        \* per stream: [session, phase]
    listener,      \* per listener: [phase, queue]
    emitted,       \* messages emitted
    \* History.
    since,         \* per feed and listener, what was emitted before it
    dropped,       \* per feed, messages the bounded buffer dropped
    taken,         \* per feed, what reads were answered with
    told,          \* sessions a notification reached since their last read
    late,          \* feeds and streams that joined a session gone, or followed by another
    heard          \* per listener, what its client was sent

regVars == <<live, used, touched, channel, listening, feeds>>
history == <<since, dropped, taken, told, late, heard>>
vars == <<oneLoop, now, live, used, touched, channel, listening, feeds, call, feed, stream,
          listener, emitted, since, dropped, taken, told, late, heard>>

Sessions == Ids \cup {NoFeed}

TypeOK ==
    /\ oneLoop \in BOOLEAN /\ now \in 0..MaxTime /\ emitted \in 0..MaxMessages
    /\ live \subseteq used /\ used \subseteq Ids
    /\ touched \in [Ids -> 0..MaxTime]
    /\ channel \subseteq Ids /\ listening \in [Ids -> SUBSET Streams]
    /\ feeds \in [Ids -> Feeds \cup {NoFeed}]
    /\ call \in [Calls -> [op : {"none", "subscribe", "read"}, session : Sessions,
                           phase : {"new", "gate", "store", "clear", "rearm", "over"},
                           feed : Feeds \cup {NoFeed}, got : Seq(1..MaxMessages)]]
    /\ feed \in [Feeds -> [session : Sessions, open : BOOLEAN,
                           pending : Seq(1..MaxMessages), buffer : Seq(1..MaxMessages),
                           notified : BOOLEAN,
                           pump : {"none", "idle", "test", "post"}]]
    /\ \A f \in Feeds : Len(feed[f].buffer) <= FeedBuffer
    /\ \A s \in Ids : listening[s] # {} => s \in channel
    /\ \A l \in Listeners : Len(listener[l].queue) <= FeedBuffer

NoCall(p) == [op |-> "none", session |-> NoFeed, phase |-> p, feed |-> NoFeed, got |-> <<>>]

Init ==
    /\ oneLoop \in BOOLEAN
    /\ now = 0 /\ live = {} /\ used = {} /\ touched = [s \in Ids |-> 0]
    /\ channel = {} /\ listening = [s \in Ids |-> {}] /\ feeds = [s \in Ids |-> NoFeed]
    /\ call = [c \in Calls |-> NoCall("new")]
    /\ feed = [f \in Feeds |-> [session |-> NoFeed, open |-> FALSE, pending |-> <<>>,
                                buffer |-> <<>>, notified |-> FALSE, pump |-> "none"]]
    /\ stream = [g \in Streams |-> [session |-> NoFeed, phase |-> "idle"]]
    /\ listener = [l \in Listeners |-> [phase |-> "idle", queue |-> <<>>]]
    /\ emitted = 0
    /\ since = [x \in Feeds \cup Listeners |-> 0]
    /\ dropped = [f \in Feeds |-> 0] /\ taken = [f \in Feeds |-> <<>>] /\ told = {}
    /\ late = {} /\ heard = [l \in Listeners |-> <<>>]

(* Between two awaits a task has its loop to itself.                       *)
Busy == {c \in Calls : call[c].phase \in {"store", "clear", "rearm"}}
        \cup {f \in Feeds : feed[f].pump \in {"test", "post"}}
Turn(t) == oneLoop => Busy \subseteq {t}
Free == oneLoop => Busy = {}

-----------------------------------------------------------------------------
(* The registry.                                                           *)

Expired(s) == listening[s] = {} /\ now - touched[s] > Idle

(* Feed.close: its subscription ends, and with it the pump; nobody reads   *)
(* what it still holds.                                                    *)
Closed(f) == [feed[f] EXCEPT !.open = FALSE, !.pending = <<>>, !.buffer = <<>>]

(* Sessions `gone` leave the registry and are closed: their channel, which *)
(* ends the streams on it, and their feeds.                                *)
CloseSessions(gone) ==
    /\ channel' = channel \ gone
    /\ listening' = [s \in Ids |-> IF s \in gone THEN {} ELSE listening[s]]
    /\ feeds' = [s \in Ids |-> IF s \in gone THEN NoFeed ELSE feeds[s]]
    /\ feed' = [f \in Feeds |->
                  IF \E s \in gone : feeds[s] = f THEN Closed(f)
                  ELSE feed[f]]
    /\ stream' = [g \in Streams |->
                    IF \E s \in gone : g \in listening[s] THEN [stream[g] EXCEPT !.phase = "over"]
                    ELSE stream[g]]

(* Room(n): another session fits beside n.                                 *)
Room(n) == n < Limit

(* Sessions.create, for an `initialize`: the expired ones are swept first. *)
Create(s) ==
    /\ Free
    /\ s \in Ids \ used
    /\ LET dead == {x \in live : Expired(x)}
           kept == live \ dead
           made == IF Room(Cardinality(kept)) THEN {s} ELSE {}
       IN  /\ CloseSessions(dead)
           /\ live' = kept \cup made
           /\ used' = used \cup made
           /\ touched' = [touched EXCEPT ![s] = now]
    /\ UNCHANGED <<oneLoop, now, call, listener, emitted, history>>

(* Sessions.get finds it expired: it goes, and the client is answered 404. *)
Expire(s) ==
    /\ Free
    /\ s \in live /\ Expired(s)
    /\ live' = live \ {s}
    /\ CloseSessions({s})
    /\ UNCHANGED <<oneLoop, now, used, touched, call, listener, emitted, history>>

(* Sessions.get: live, and touched.                                        *)
Found(s) ==
    /\ s \in live /\ ~Expired(s)
    /\ touched' = [touched EXCEPT ![s] = now]

(* DELETE.                                                                 *)
Drop(s) ==
    /\ Free
    /\ s \in live
    /\ live' = live \ {s}
    /\ CloseSessions({s})
    /\ UNCHANGED <<oneLoop, now, used, touched, call, listener, emitted, history>>

(* Sessions.close, when the server stops.                                  *)
Shutdown ==
    /\ Free
    /\ live # {}
    /\ live' = {}
    /\ CloseSessions(live)
    /\ UNCHANGED <<oneLoop, now, used, touched, call, listener, emitted, history>>

-----------------------------------------------------------------------------
(* POST.                                                                   *)

Post(c, s, op) ==
    /\ Free
    /\ call[c].phase = "new"
    /\ Found(s)
    /\ call' = [call EXCEPT ![c] = [op |-> op, session |-> s, phase |-> "gate",
                                    feed |-> NoFeed, got |-> <<>>]]
    /\ UNCHANGED <<oneLoop, now, live, used, channel, listening, feeds, feed, stream,
                   listener, emitted, history>>

(* The topic is not one this caller may read: answered as unknown.         *)
Refused(c) ==
    /\ Free
    /\ call[c].phase = "gate"
    /\ call' = [call EXCEPT ![c] = NoCall("over")]
    /\ UNCHANGED <<oneLoop, now, regVars, feed, stream, listener, emitted, history>>

(* subscribe: a feed for a session that follows nothing yet.               *)
Subscribe(c) ==
    /\ Free
    /\ call[c].phase = "gate" /\ call[c].op = "subscribe"
    /\ IF feeds[call[c].session] # NoFeed
       THEN call' = [call EXCEPT ![c] = NoCall("over")] /\ UNCHANGED <<feed, since>>
       ELSE \E f \in Feeds :
              /\ feed[f].session = NoFeed
              /\ feed' = [feed EXCEPT ![f].session = call[c].session, ![f].open = TRUE]
              /\ call' = [call EXCEPT ![c].phase = "store", ![c].feed = f]
              /\ since' = [since EXCEPT ![f] = emitted]
    /\ UNCHANGED <<oneLoop, now, regVars, stream, listener, emitted, dropped, taken, told, late,
                   heard>>

Store(c) ==
    /\ Turn(c)
    /\ call[c].phase = "store"
    /\ LET s == call[c].session
           f == call[c].feed
       IN  /\ feeds' = [feeds EXCEPT ![s] = f]
           /\ feed' = [feed EXCEPT ![f].pump = "idle"]
           /\ late' = IF s \notin live THEN late \cup {f}
                      ELSE IF feeds[s] # NoFeed THEN late \cup {feeds[s]} ELSE late
    /\ call' = [call EXCEPT ![c] = NoCall("over")]
    /\ UNCHANGED <<oneLoop, now, live, used, touched, channel, listening, stream, listener,
                   emitted, since, dropped, taken, told, heard>>

(* unsubscribe awaits nothing.                                             *)
Unsubscribe(s) ==
    /\ Free
    /\ Found(s)
    /\ feeds[s] # NoFeed
    /\ feeds' = [feeds EXCEPT ![s] = NoFeed]
    /\ feed' = [feed EXCEPT ![feeds[s]] = Closed(feeds[s])]
    /\ UNCHANGED <<oneLoop, now, live, used, channel, listening, call, stream, listener,
                   emitted, history>>

(* read_resource of a followed topic: Feed.take, statement by statement.   *)
Read(c) ==
    /\ Free
    /\ call[c].phase = "gate" /\ call[c].op = "read"
    /\ LET f == feeds[call[c].session]
       IN  call' = [call EXCEPT ![c] =
                      IF f = NoFeed THEN NoCall("over")
                      ELSE [@ EXCEPT !.phase = "clear", !.feed = f, !.got = feed[f].buffer]]
    /\ UNCHANGED <<oneLoop, now, regVars, feed, stream, listener, emitted, history>>

Clear(c) ==
    /\ Turn(c)
    /\ call[c].phase = "clear"
    /\ feed' = [feed EXCEPT ![call[c].feed].buffer = <<>>]
    /\ call' = [call EXCEPT ![c].phase = "rearm"]
    /\ UNCHANGED <<oneLoop, now, regVars, stream, listener, emitted, history>>

(* Mutant of Rearm: take() leaves the latch as it is.                      *)
RearmNever(c) ==
    /\ Turn(c)
    /\ call[c].phase = "rearm"
    /\ taken' = [taken EXCEPT ![call[c].feed] = @ \o call[c].got]
    /\ told' = told \ {call[c].session}
    /\ call' = [call EXCEPT ![c] = NoCall("over")]
    /\ UNCHANGED <<oneLoop, now, regVars, feed, stream, listener, emitted, since, dropped, late,
                   heard>>

Rearm(c) ==
    /\ Turn(c)
    /\ call[c].phase = "rearm"
    /\ feed' = [feed EXCEPT ![call[c].feed].notified = FALSE]
    /\ taken' = [taken EXCEPT ![call[c].feed] = @ \o call[c].got]
    /\ told' = told \ {call[c].session}
    /\ call' = [call EXCEPT ![c] = NoCall("over")]
    /\ UNCHANGED <<oneLoop, now, regVars, stream, listener, emitted, since, dropped, late, heard>>

-----------------------------------------------------------------------------
(* The topic, and the pump of each feed.                                   *)

(* deque(maxlen): the oldest goes.                                         *)
Bounded(q, m) == IF Len(q) < FeedBuffer THEN Append(q, m) ELSE Append(Tail(q), m)

Emit ==
    /\ Free
    /\ emitted < MaxMessages
    /\ emitted' = emitted + 1
    /\ feed' = [f \in Feeds |->
                  IF feed[f].open THEN [feed[f] EXCEPT !.pending = Append(@, emitted')]
                  ELSE feed[f]]
    /\ listener' = [l \in Listeners |->
                      IF listener[l].phase = "open"
                      THEN [listener[l] EXCEPT !.queue = Bounded(@, emitted')]
                      ELSE listener[l]]
    /\ UNCHANGED <<oneLoop, now, regVars, call, stream, history>>

Pump(f) ==
    /\ Free
    /\ feed[f].pump = "idle" /\ feed[f].open /\ feed[f].pending # <<>>
    /\ feed' = [feed EXCEPT ![f].pending = Tail(@),
                            ![f].buffer = Bounded(@, Head(feed[f].pending)),
                            ![f].pump = "test"]
    /\ dropped' = [dropped EXCEPT ![f] = IF Len(feed[f].buffer) < FeedBuffer THEN @ ELSE @ + 1]
    /\ UNCHANGED <<oneLoop, now, regVars, call, stream, listener, emitted, since, taken, told, late,
                   heard>>

Latch(f) ==
    /\ Turn(f)
    /\ feed[f].pump = "test"
    /\ feed' = [feed EXCEPT ![f].pump = IF feed[f].notified THEN "idle" ELSE "post",
                            ![f].notified = TRUE]
    /\ UNCHANGED <<oneLoop, now, regVars, call, stream, listener, emitted, history>>

(* Session.post: to the channel, if there is one.                          *)
Notify(f) ==
    /\ Turn(f)
    /\ feed[f].pump = "post"
    /\ feed' = [feed EXCEPT ![f].pump = "idle"]
    /\ told' = IF listening[feed[f].session] # {} THEN told \cup {feed[f].session} ELSE told
    /\ UNCHANGED <<oneLoop, now, regVars, call, stream, listener, emitted, since, dropped, taken,
                   late, heard>>

-----------------------------------------------------------------------------
(* GET: the stream's generator runs, and subscribes, after the handler has *)
(* returned it.                                                            *)

Get(g, s) ==
    /\ Free
    /\ stream[g].phase = "idle"
    /\ Found(s)
    /\ stream' = [stream EXCEPT ![g] = [session |-> s, phase |-> "opening"]]
    /\ UNCHANGED <<oneLoop, now, live, used, channel, listening, feeds, call, feed, listener,
                   emitted, history>>

StreamStart(g) ==
    /\ Free
    /\ stream[g].phase = "opening"
    /\ LET s == stream[g].session
       IN  /\ channel' = channel \cup {s}
           /\ listening' = [listening EXCEPT ![s] = @ \cup {g}]
           /\ late' = IF s \in live THEN late ELSE late \cup {g}
    /\ stream' = [stream EXCEPT ![g].phase = "open"]
    /\ UNCHANGED <<oneLoop, now, live, used, touched, feeds, call, feed, listener, emitted,
                   since, dropped, taken, told, heard>>

StreamLeft(g) ==
    /\ Free
    /\ stream[g].phase = "open"
    /\ listening' = [listening EXCEPT ![stream[g].session] = @ \ {g}]
    /\ stream' = [stream EXCEPT ![g].phase = "over"]
    /\ UNCHANGED <<oneLoop, now, live, used, touched, channel, feeds, call, feed, listener,
                   emitted, history>>

(* listen: subscribed before it is acknowledged, each message of its own.  *)
Listen(l) ==
    /\ Free
    /\ listener[l].phase = "idle"
    /\ listener' = [listener EXCEPT ![l].phase = "open"]
    /\ since' = [since EXCEPT ![l] = emitted]
    /\ UNCHANGED <<oneLoop, now, regVars, call, feed, stream, emitted, dropped, taken, told,
                   late, heard>>

Hear(l) ==
    /\ Free
    /\ listener[l].phase = "open" /\ listener[l].queue # <<>>
    /\ heard' = [heard EXCEPT ![l] = Append(@, Head(listener[l].queue))]
    /\ listener' = [listener EXCEPT ![l].queue = Tail(@)]
    /\ UNCHANGED <<oneLoop, now, regVars, call, feed, stream, emitted, since, dropped,
                   taken, told, late>>

Tick ==
    /\ now < MaxTime
    /\ now' = now + 1
    /\ UNCHANGED <<oneLoop, regVars, call, feed, stream, listener, emitted, history>>

Next ==
    \/ \E s \in Ids : Create(s) \/ Expire(s) \/ Drop(s) \/ Unsubscribe(s)
    \/ \E c \in Calls, s \in Ids, op \in {"subscribe", "read"} : Post(c, s, op)
    \/ \E c \in Calls : Refused(c) \/ Subscribe(c) \/ Store(c) \/ Read(c) \/ Clear(c) \/ Rearm(c)
    \/ \E f \in Feeds : Pump(f) \/ Latch(f) \/ Notify(f)
    \/ \E g \in Streams, s \in Ids : Get(g, s)
    \/ \E g \in Streams : StreamStart(g) \/ StreamLeft(g)
    \/ \E l \in Listeners : Listen(l) \/ Hear(l)
    \/ Emit \/ Shutdown \/ Tick

Spec == Init /\ [][Next]_vars

-----------------------------------------------------------------------------
(* Properties.                                                             *)

(* The process never holds more sessions than its limit, whatever expires, *)
(* is deleted or arrives in between (Sessions.create).                     *)
SessionsBounded == Cardinality(live) <= Limit

(* Whatever a session followed or streamed when it left the registry, by   *)
(* DELETE, expiry, sweep or shutdown, is closed: a feed or a stream that is*)
(* still open is a live session's, is just being stored, or joined it late *)
(* (Session.close).                                                        *)
GoneIsClosed ==
    /\ \A f \in Feeds \ late :
         feed[f].open => \/ \E s \in live : feeds[s] = f
                         \/ \E c \in Calls : call[c].phase = "store" /\ call[c].feed = f
    /\ \A g \in Streams \ late : stream[g].phase = "open" => stream[g].session \in live

(* On one worker loop no message emitted after a session followed the topic*)
(* is lost or given twice on its way through the pump and the reads: they  *)
(* are read in order, but for the ones its bounded buffer dropped          *)
(* (Feed.take, MCP._pump).                                                 *)
NothingLost ==
    oneLoop /\ Busy = {} =>
        \A f \in Feeds :
            LET all == taken[f] \o feed[f].buffer \o feed[f].pending
            IN  /\ \A i, j \in 1..Len(all) : i < j => all[i] < all[j]
                /\ feed[f].open => Len(all) + dropped[f] = emitted - since[f]

(* What a listener is sent next ends with the newest message, however far  *)
(* behind its client is (_drain_into drops the oldest).                    *)
NewestHeard ==
    \A l \in Listeners :
        listener[l].phase = "open" /\ emitted > since[l] =>
            Last(heard[l] \o listener[l].queue) = emitted

(* On one worker loop, a feed with something to read has its latch set, so *)
(* that a notification was posted for it, and one that is empty may post   *)
(* again (Feed.notified).                                                  *)
LatchKept ==
    oneLoop => \A f \in Feeds :
        feed[f].open /\ Busy = {} => (feed[f].notified <=> feed[f].buffer # <<>>)

(* Stated by MCP.subscribe: "so the agent is told when it has something    *)
(* new".  Here: a session that listens, and whose feed holds something, was*)
(* told so after it last read.                                             *)
NewsTold ==
    \A s \in live :
        feeds[s] # NoFeed /\ listening[s] # {} /\ Busy = {} =>
            (feed[feeds[s]].buffer # <<>> => s \in told)

(* Sessions are bounded and closed whole, and news is not lost.            *)
Safety ==
    /\ TypeOK
    /\ SessionsBounded /\ GoneIsClosed
    /\ NothingLost /\ NewestHeard /\ LatchKept

=============================================================================
