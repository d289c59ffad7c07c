# Verification of oxbrook

TLA+ specifications of oxbrook, a Python web framework whose network side is
Rust (tokio, hyper) and whose handlers run on asyncio loops, one per worker
thread. A tokio thread may never touch the interpreter, so requests, wake-ups,
cancellations, replies and body chunks cross through shared memory with
lock-free queues, flags and callbacks. On a free-threaded CPython the worker
loops are threads too, and share topics, signing keys, sessions and limits.
Around this border stand the parts that speak to others: Redis, identity
providers, browsers, agents.

Paths below are relative to the repository root, with `src/` in front as in
`PROJECT.json` (`src/src/queue.rs` is the Rust crate's `queue.rs`).

## Inventory

| Component | State | Operations | Interacts with | What makes it correct |
|---|---|---|---|---|
| Wake queue and drain (`queue.rs`, `wake.rs`, `worker.rs`) | three queues, `notified`, `notified_at`, `inflight`, wake socket | `try_push`, `push_wakeup`, `push_cancel`, `wake`, the drain callback, `waiting_for` | every tokio thread pushes, the loop drains, probes read | no lost wake-up, one byte, load bounded, honest stall clock |
| Requests (`server.rs`, `cancel.rs`, `responder.rs`, `_runtime.py`) | connection load, `Cancel` cell, reply channel, `released`, `kept`, asyncio task | reserve, enqueue, shed, reply, time out, leave, abandon, attach, cancel, finish, work after the response | wake queue; streams; bodies | slots conserved, handlers bounded, no orphan, late abandon harmless |
| Topics (`_streams.py`) | per subscription: buffer, getter, putters, closed, dropped | subscribe, emit, emit_nowait, read, close | emitters and readers on any loop | nobody stranded, order kept, drops counted |
| Bodies (`body.rs`, `_bodies.py`, `server.rs`) | chunks, buffered, demand, waiters, finished, whole, discard | pump, poll, collect, take, notify, discard, abandon | pump inside the request's future, readers on the loop | order, completeness, back-pressure, every wait ends |
| Durable topics (`_streams.py`, `_redis.py`) | tail position, replay position, backlog | publish, tail, replay, hand over, reconnect | Redis | no gap and no duplicate between replay and tail |
| Consumer groups (`_redis.py`) | buffered entries, recovering, claims | read, ack, claim, recover | Redis | at least once, nothing skipped |
| Serving (`server.rs`, `_lifecycle.py`) | stopping flag, connections, workers, lifespans | start, accept, shut down, drain, join | all of the above | startup all or nothing, teardown in order, a signal ends it |
| Websockets (`websocket.rs`, `_websocket.py`, `_auth.py`) | inbox, waiter, close callbacks, tickets, hand-offs | upgrade, gate, drive, receive, send, close, re-check | wake queue, authentication | no missed message or close; a ticket is good once |
| Server-sent events (`_runtime.py`, `_sse.py`) | channel, disconnect callback | pump, wait for room, ping | responder | no gap; the source is closed when the client leaves |
| Rate limits (`limit.rs`, `_limits.py`) | arrival time per key, here and in Redis | spend, sweep, shared spend | requests, gates, tools | a token bucket; spent once however a route is reached |
| Signing keys (`_jwks.py`, `auth.py`) | keys, fetch in progress, times, verified tokens | find, fetch, refresh, remember | authentication | one fetch at a time, spacing kept, keys catch up |
| Authentication (`auth.py`, `_auth.py`, `_login.py`, `_sessions.py`) | declarations, cookie sessions, pending logins | authenticate, admit, begin and finish a login | gates of routes, lists, documents | admits by the declaration; a login is its browser's own |
| Application (`_app.py`, `_routers.py`, `_routing.py`, `_middleware.py`, `_depends.py`, `_errors.py`) | routes, routers, mounts, pools; per request: links, cache, exit stack | declare, include, build, call, bind, unwind | everything served | served as declared, arguments filled, teardown in reverse |
| MCP (`_mcp.py`, `_capabilities.py`) | sessions, feeds, latches, listeners | post, get, delete, subscribe, read, listen, call a tool | topics, gates, limits | one answer per message, sessions bounded and closed whole |
| Health (`health.rs`, `_health.py`) | loops that serve, checks | evaluate | loops | ready only if every check passed on every loop, in time |
| Reload (`_cli.py`) | modification times, child | poll, settle, stop, forget bytecode, start | files, server | every edit is served in the end |
| Dispatch over workers, idle connections, files, forms, compression, CORS, metrics, TLS | see "Not modelled" | | | |

The hard behaviours are interleavings of tokio threads with the drain and with
handlers; a client leaving, or a timeout, at any await; the second look that
each "install a waiter, then sleep" needs; counts with more than one way to be
released; futures dropped before their first poll; a session, ticket or key
that is looked up, awaited on and then used; Redis or a provider out of reach
between two steps; and one declaration served through several doors.
`PROJECT.json` lists the hazards at their lines with the properties that watch
them.

## Modules

| Module | What it is |
|---|---|
| `WorkerMailbox` | What dispatch promises of one worker: post, and eventually take in order. |
| `WakeQueue` | The wake protocol, one step per atomic access. Implements `WorkerMailbox`. |
| `WakeQueueProofs`, `RequestsProofs`, `DurableTopicProofs`, `ConsumerGroupProofs`, `SigningKeysProofs` | Theorems about the module each is named after, and their proofs. |
| `StreamsProofs`, `ServingProofs`, `DoorsProofs` | The same for what `MCStreams` (`Topic`, `BodyStream`), `MCServing` (`SocketAuth`, `SsePump`, `HealthChecks`, `WebSocket`, `Serve`) and `MCDoors` (`RateLimit`, `LoginFlow`) compose. |
| `Requests` | The requests of one HTTP/2 connection on one worker, over a mailbox as `WorkerMailbox` has it. |
| `Topic` | An in-memory topic with its four policies. |
| `BodyStream` | A request body between the socket and the tasks that read it. |
| `DurableTopic` | A topic over a Redis stream: emitters, tail, replay, hand-over. |
| `ConsumerGroup` | The members of a consumer group: deliver, acknowledge, claim, recover. |
| `Serve` | A server from its first lifespan to its last. |
| `HealthChecks` | The readiness probe over loops that get stuck or close. |
| `WebSocket` | One open socket between its tokio task and its handler. |
| `SocketAuth` | Tickets, the hand-off to a socket's handler and its re-check. |
| `SsePump` | One stream of server-sent events. |
| `Reload` | The supervisor of `--reload`. |
| `TokenBucket` | What a rate limit promises. |
| `RateLimit` | Both halves of a limit with every rounding. Implements `TokenBucket`. |
| `SigningKeys` | A provider's keys and the memory of verified tokens. |
| `Gate` | One request before a route's `auth=` declaration. |
| `LoginFlow` | Logging in with authorization code and cookie session. |
| `McpSessions` | Sessions, feeds, streams and listeners of the MCP endpoint. |
| `McpWire` | What each message to that endpoint is answered; the test client as one of its clients. |
| `Registration` | Routers, their inclusion and what the app serves. |
| `Signature` | From a handler's signature to a call of it, over HTTP and as a tool. |
| `Pipeline` | One request through middleware, gate, dependencies, handler, reply and after-work. |
| `Assembly` | `build_server`, what it adds by itself, and where limits are spent. |
| `MC...` | Instances for TLC. |

Most components share no state with one another: a login and a rate limit meet
only in the application. An MC module that checks several of them starts with
`which`, a component chosen in the initial state; the steps are that
component's and the others stay at their initial state. A behaviour of the
instance is so a behaviour of one component, and its reachable states are the
sum of theirs rather than the product. Where components do interact they are in
one module: `Requests` runs over the mailbox that `WakeQueue` implements,
`RateLimit` has the local and the shared half of one spend, `SigningKeys` the
key set with the token memory it clears, `McpSessions` the registry with the
topic its feeds follow, `Pipeline` the whole path of a request.

### WakeQueue

`pc` gives each tokio thread's and the loop's place in the code; `seen[p]` is
the queue length that `load()` read before the in-flight count, which is why
`has_room` is racy. `SwapNotified`, `Stamp` and `WriteByte` are the three
accesses of `wake()`, which the loop also calls (`rewake_if_pending`).
`ReadSocket`, `ClearNotified`, `PopNotice`, `Pop`, `Claim`, `Build` follow the
drain callback line by line. `BuildRaises` is the `?` that leaves the callback
when a Python constructor refuses a value: constant `Raising` says for which
requests. A `Relaxed` access is a step on the same memory as a `SeqCst` one;
the counts are read-modify-write or used only in the racy limit.

### Requests

`net` is the tokio task in `handle()`, `cell` and `slot` are `Cancel`, `reply`
is the oneshot channel, `taken`, `kept`, `released` are the `Responder`'s, `task`
is where the asyncio task is, `pc`/`cur` what the loop thread is in the middle
of. The loop is one thread: `Runs` and `pc` keep a handler's step from
overlapping a drain, while tokio steps come between any two accesses. A client
can leave at any time while its request waits, even with a reply in the channel.
`Stubborn` handlers catch `CancelledError`. A drain never begins with a task
that has not taken its first step, because asyncio runs a new task before it
polls its selector again; the one way to cancel an unstarted task is the second
look in `attach`, and then the slot comes back by the Responder's `Drop`
(`CancelUnstarted`). A request abandoned just before its handler answers is
cancelled when the notice is drained, in its after-response work if it is there
by then (`CancelledOut`). A request built from values Python refuses is left to
`WakeQueue`.

### Topic and BodyStream

In `Topic` each `with self._lock` block is one step. Futures resolved with
`call_soon_threadsafe` are `readerWoken` and `woken`: the waiter resumes in a
later step. A cancelled wait leaves its future behind, in `_getter` or in
`_putters`, as in the code. `handed`, `taken`, `lastRead` record history for the
properties. The unlocked `dropped += 1` of `emit_nowait` is a load and a store.

In `BodyStream` sizes are in chunks: a data frame is one chunk. `pump` is the
place of the pump in its future, with the drop of that future possible at every
await (`Awaiting`), and before the first poll if the reply was there already
(`unpolled`). `Push` is two accesses, flag or count and then the queue.
Iterating and collecting readers run one at a time on the loop between awaits.
Trailers and empty frames, which the pump skips, are left out.

### DurableTopic and ConsumerGroup

An entry's id is its place in the stream; a step is one Redis command as the
server executes it, or a block under a subscription's lock. The tail fixes its
position, reads a batch (`Follow`), takes a snapshot of the subscriptions for
each entry (`FanOut`) and offers it to them in turn, so that another loop can
subscribe, close or emit between two offers. A `TopicFull` of policy `error`
ends the fan-out, and the tail begins at that entry again. Each emitter does the
same for its own entry: `Emit` is the append, `EmitLook` the snapshot once Redis
has answered, then one offer at a time, and its task may be cancelled while it
waits for Redis or for room. `CloseTopic` is `Topic.close`; `StopTail` is the
server's stop, which leaves the subscriptions as they are. A topic is closed
while its tail awaits: a tail that finishes its batch after `close()` beside the
tail of a subscription opened meanwhile is left out, as is a `history()` that
fails. In a group, Redis keeps what was delivered to whom and since when; a
member that dies loses its buffer and comes back recovering, one page of `Count`
pending entries at a time. `before` is what it held then and has not been handed
since; `cut` notes that its recovery ended on a full page of which nothing was
left in the stream. Entries are numbers in stream order, so a page or a buffer is
a set of them and the next one to hand out its least.

### Serve, HealthChecks, WebSocket, SsePump, SocketAuth, Reload

`Serve` follows `ServerHandle.serve`: the process lifespan, the worker threads
with their own, binding, `serve_loop` with its permits and its `select!` over
`notify_waiters`, the drain wait over the summed loads, stop, join and the
process lifespan again. A hook may raise or return something that is no
mapping; a request is where the drain can tell it apart. `HealthChecks` has one
evaluation over all loops and checks, with loops that come to serve, get stuck
or close meanwhile. `WebSocket` has the three accesses of `notify` (install,
then look again) against `deliver` and `mark_closed`, the handler with one read
at a time, and `run_websocket`'s race between handler and close. `SsePump` is
the loop of `pump_sse` against a bounded channel. `SocketAuth` has tickets in
memory or in Redis, the principal that waits between gate and handler, and the
watcher. `Tickets.issue` holds no lock, so on every loop each look at the dict and
each change of it is a step (`IssueBegin` to `Insert`), and a listing that another
loop disturbs skips the trim (`TrimCutShort`). The watcher's close is a `try_send`:
where the outgoing buffer is full it is lost, and the socket stays open with nobody
watching it (`RecheckUnheard`, phase "unwatched"). `Reload` knows of a file its content, its modification time and the
coarser stamp that bytecode is compared by.

### RateLimit, SigningKeys, Gate, LoginFlow

`RateLimit` counts time in the finest unit of the code and rounds where the code
rounds: nanoseconds in `limit.rs`, microseconds and milliseconds in the Redis
script, seconds in `Retry-After`. A request reads the clock (`ReadClock`) before
it holds the map (`TakeLocal`), so others, and their sweep, may come between with
a later reading; `Lag` bounds how long. Its refinement of `TokenBucket` maps the
arrival time kept for a key to the tokens that are left, once per process and
key, within `Lag`, and once per key in Redis, exactly, with swept and expired keys
full. `caller` follows, per key, someone alone on it who comes back when told to. In
`SigningKeys` a step is a block under the key set's lock or an unlocked access.
`Gate` runs a declaration (schemes, alternatives, requirements, optional) as the
plan the code makes of it and compares the outcome with the tree. In
`LoginFlow` a request carries the cookie of the moment it was sent, and its
reply replaces the cookie whole. The ten minutes of a pending login are looked at
when its callback comes in and not again: the exchange and the checks that follow
(`_login.py:616`, `631`-`636`) may end after them, in the model as in the code.

### Registration, Signature, Pipeline, Assembly, McpSessions, McpWire

`Registration` has every order of declaring, including and mounting on two
routers, each of which may include several under prefixes of its own, and an
include that fails half-way. `Signature` has every handler of up to two arguments
with every annotation and default the code tells apart, and a caller that leaves
out or adds what it likes (`args`). `Pipeline` chooses freely what application code
does at each place (return, raise a mapped or an unmapped exception, be cancelled)
and follows what propagates; any of it, an exception handler and a middleware on
its way out included, may set work aside, and `after` and `ran` tell what was set
aside before a handler failed from what was since. `Assembly` builds and rebuilds an app and then follows one request
to its handler, noting every limit it spends from. `McpSessions` separates the
lookup of a session from its use; with one worker loop what follows an await is
one step, with several each access is. `McpWire` has every kind of message of
both protocols, well formed or not.

## Runs

Every run sets `CHECK_DEADLOCK FALSE`: requests, emits, frames, edits and logins
are finite, so each model comes to rest when they are used up.

| Run | Bounds | Shows |
|---|---|---|
| `wake_safety` | 2 threads, 4 requests of which one raises, limit 1, one notice per kind, 2 clock values | one byte, honest stall clock, bounded load; limit 1 with 4 requests is enough to be overshot by both threads, and the raising one leaks its slot |
| `request_slots` | 3 requests: one cancellable, one that also catches its cancellation, one neither; 1 slot, 2 places | conservation, bounds, no orphan, release order (`Safety`), a late abandon; three requests for two places and one slot reach both refusals |
| `loop_liveness` | wake queue: 2 threads, 2 requests, none raises; requests: 2 cancellable, one stubborn, 2 slots | no lost wake-up, refinement of the mailbox with its fairness, slots come back |
| `stream_waits` | 3 emitters on one `block` subscription of size 1; an iterator and two collectors on a body of 4 frames, high water 1, limit 3 | nobody stranded; every wait ends; two emitters wait at once, and frames pass both marks |
| `topic_feeds` | a `block` subscription and one of any other policy, 2 emitters; 2 sessions, 2 calls, 2 feeds, one stream, one listener, one or several loops | accounting and order under every policy; sessions bounded and closed whole, nothing lost between pump, buffer and latch |
| `durable_topic` | one subscription of any mode and policy, one emitter, 2 entries, batch 2, page 1, a trim, an outage | replay, hand-over and reconnection give each entry once; page 1 makes a replay of two pages, batch 2 a fan-out that is interrupted |
| `consumer_group` | 2 members of which one may die, twice; 2 entries in pages of 1, 2 trims, an unacknowledged message, a lost reply | recovery before news, over two pages, and cut short by a trimmed one; every entry acknowledged in the end |
| `serving` | 2 workers, 2 requests, 2 asks to stop, all hook outcomes; 2 loops, 2 checks; 2 messages each way, send buffer 1; 4 events, channel 2; 2 sockets, 2 loops issuing 3 tickets at a limit of 1; 2 files, 2 edits, a crash | order of startup and teardown; ends of everything that must end |
| `signing_keys` | 2 loops, 2 threads, 2 tokens, a rotation, an outage, a memory of one token | one spaced fetch at a time; checks end; keys catch up |
| `doors` | 2 processes that share a limit through Redis, 2 keys, `Fine`=2, `Period`=12, `Count`=3, burst 2, `Lag`=1, 8 time units; 2 requests, one by one through both halves, or racing in one process; 2 browsers, 2 tabs, 2 logins of which one may be pending | bucket, three refusals at most, one's own login; 8 units are enough for a key to expire in Redis, to be swept here under a request with an older reading, and for every chain of refusals |
| `handling` | 2 routers, one route each, 2 includes under 2 prefixes, 2 `auth=` settings; handlers of 2 arguments; every declaration of the shipped schemes in the shapes of `MCHandling`; 2 links, dependencies with sharing, one uncached and one cycle; 2 of 7 routes, 2 builds, 21 apps; one client with every message, 3 session ids, limit 1, 2 calls of the test client | from declaration to answer: served as declared, admitted by the tree, torn down, answered once |
| `wake_lost` | as `wake_safety` | counterexample, below |

`OneFault`, a state constraint of `doors`, allows a login one edit or one outage,
not both. `OneWire`, one of `topic_feeds`, leaves out states in which sessions and
listeners are both in use: they share nothing but the topic.
Symmetry is used only where no liveness property is checked. A property of an
instance that several modules name `Safety` is restated in the MC module
(`ServeSafety`, `GateSafety`, ...); each is a conjunction of named parts, with a
comment at every part in the component's module.

Several bounds are what a run of some minutes can afford. The wake protocol's
results do not depend on them, nor does most of what the runs check of requests,
topics, bodies, durable topics, consumer groups, tickets, sockets, event streams,
probes, the server's start and end, rate limits, logins and signing keys (see
Proofs); the others show their instances.

### Where code and text disagree

`wake_lost` is a run that TLC ends with a counterexample; `PROJECT.json` quotes
the lines: a date of year 0000 passes the router and fails in Python; the drain
returns early with the slot claimed and without its re-arm, and what is queued
behind it waits for the next push.

The modules also state what a doc or a comment says and the model refutes.
These definitions are in no run; adding one to its run's cfg as an invariant (or
property) gives the counterexample.

| Module, definition | What is said | What happens |
|---|---|---|
| `Topic` `BlockedEmitGoesOn`, with `Cancellable` emitters | `_streams.py:46`, `block` "wait until the subscriber has room. Guarantees delivery" | a cancelled emitter's entry in `_putters` swallows the wake meant for the one behind it (`_streams.py:296`) |
| `Topic` `Accounted`, with two `NoWaiters` | `_streams.py:134`, state is "guarded" | two unlocked `dropped += 1` count once (`_streams.py:567`) |
| `BodyStream` `NoShortBody` | `body.rs:443`, "Finished with no marker left cannot happen" | `take()` between `finished` and its marker returns a failed body as complete (`body.rs:139`) |
| `BodyStream` `ReadersAnswered`, over HTTP/2 | `body.rs:168`, a waiting handler "must be told" | a pump dropped before its first poll tells nobody (`body.rs:248`) |
| `DurableTopic` `NewSeesNew` | `_streams.py`, one opened with `since` gets its messages "from the tail, in stream order" | a message emitted between subscribing and the tail's first position is not seen |
| `DurableTopic` `PlainOnce`, with a plain subscription of policy `error` and one of another | `_streams.py:330`, "nobody sees a message twice" | the full one raises out of the fan-out with the position before the entry (`_streams.py:385`); after reconnecting the tail hands that entry again to the one that had it |
| `ConsumerGroup` `RecoversBehindTrimmed` | `_redis.py:189`, reading from "0" "is how a restarted worker picks up what it never acked" | a page of pending entries that were all trimmed ends the recovery, though later ones are still in the stream |
| `Serve` `NoneCut` | `server.rs`, the wait before stopping lets requests finish | the summed loads miss a request popped and not yet claimed (`server.rs:441`) |
| `Serve` `NoneLeftBehind` | `www/guide/lifespan.md`, teardown on every exit | a worker that does not stop in time keeps its lifespan; so do all workers when the address is refused after they started (`server.rs:408`) |
| `HealthChecks` `RaisingFails` | a check that raises is a failed one | one that raises `CancelledError` makes the evaluation raise |
| `WebSocket` `ReturnCloses` | `www/streams/websockets.md`, returning closes the socket | with a full send buffer the close frame is dropped |
| `SocketAuth` `TicketKept` | `auth.py:1544`, a ticket is "good for one socket within `ttl` seconds" | at the limit at least one ticket goes even where the expired made room |
| `SocketAuth` `LimitKept` | `auth.py`, `limit` | loops that issue at once each find room, or skip their trim; `TicketsBounded` is what holds |
| `SocketAuth` `RevokedAlwaysCloses` | `www/guide/auth.md:744`, "A socket whose credentials are now refused is closed" | the close is dropped where the outgoing buffer is full (`websocket.rs:206`), and the watcher has returned |
| `RateLimit` `WaitIsEnough` | `limit.rs:238`, "a client that waits what it was told must find a request available" | the shared half may refuse it next, and then the process once more |
| `RateLimit` `SweepChangesNothing` | `limit.rs:180`, "dropping it changes no answer" | it does to a request that read the clock before the sweep's (`limit.rs:165`) and gets the map after it |
| `Reload` `EditsReload`, `NoStray` | `_cli.py`, an edit reloads; the child is stopped in an orderly way | an edit made while another settles is in the new snapshot but not in the list, so its bytecode is not forgotten; a signal between the fork and the assignment leaves a child nobody stops |
| `SigningKeys` `WithdrawnForgotten` | `auth.py:566`, the memory is emptied whenever keys change | a check that had decoded with the old key remembers its token after the clear |
| `Gate` `EveryRequestSpends` | `_auth.py:121`, "Every request spends from them exactly once" | one whose scheme raises anything but a refusal spends nothing |
| `LoginFlow` `GoodOnce` | `_login.py`, "a callback is good once" | two callbacks with the same cookie both go on to the exchange; the provider's single use of the code decides |
| `Pipeline` `RaisedRunsNothing` | `www/guide/after-response.md`, nothing runs if the handler raises | it does where a middleware answers the exception itself, and so does what an exception handler or a middleware sets aside afterwards |
| `Pipeline` `KeptIsTold` | `_depends.py:23`, what cannot be encoded counts as raising | a response whose headers are refused is found out after the commit |
| `McpSessions` `NewsTold` | `_mcp.py`, "the agent is told when it has something new" | a message before the stream was opened sets the latch, and nothing is sent |
| `McpWire` `ResponsesAcknowledged` | `_mcp.py:922`, "A notification or a response gets acknowledgement" | a response is answered with an error |
| `McpWire` `RefusalForgotten` | `testing.py`, the session is opened on first use | a refused `initialize` leaves an empty id that is used from then on |
| `Signature` `AnswersAgents`, `SurfacesAtImport` | `_mcp.py:9`, `_routing.py:11` | a query parameter that may be None and has no default is not passed to a tool; a positional-only argument fails on its first call |

Two more are about documents the modules do not quote: a request refused by its
route's limit has not "still spent from the app's" (`www/` rate limits) when the
app's is keyed on the caller or kept in Redis and the route's is local; and an
app with a GET `/mcp` of its own leaves half of the endpoint registered after
the failed build (`Assembly`, excluded from `McpWhole` by `broken`).

## Fairness

* `WakeQueue`: a thread inside `try_push` or `wake()` finishes (nothing there
  blocks) and the loop comes back to its selector. No client need send and no
  handler need end.
* `Requests`: the drain and `deliver` finish, tokio polls its tasks and timers,
  a started stream and work after a response end. A handler need never answer:
  `SlotsFreed` relies on the timeout and the cancellation alone.
* `Topic`: readers keep reading and loops run what is scheduled on them.
* `BodyStream`: the tokio task is polled, and a frame or the idle timeout comes
  (`HasTimeout`); nobody need begin a read or answer.
* `DurableTopic`: the tail, a replay and readers go on; outages are finitely
  many. `ConsumerGroup`: a member that does not die keeps reading and
  acknowledges all but finitely many messages, and time passes.
* `Serve`: threads run, and the drain's and the join's deadlines pass. Neither a
  request nor a teardown need end. `HealthChecks`: the timeout passes; no check
  need end.
* `WebSocket`: the tokio task and the loop run; the handler need not return.
  `SsePump`: the loop runs, and a client that stays reads; the source need not
  yield.
* `SocketAuth`: the watcher's sleep ends. `SigningKeys`: loops and threads run
  and the clock goes on; requests, rotations and failures need not come.
* `Reload`: the supervisor polls and a server told to stop ends or is killed.

## Proofs

Every theorem holds for every value of its module's constants that the module's
own assumption (`WakeQueueAssumption`, `RequestsAssumption`, ...) admits: sizes
are numbers, values that stand for nothing are nobody's. A further hypothesis is
named at the theorem; each has a counterexample without it. A theorem of
`StreamsProofs`, `ServingProofs` or `DoorsProofs` about the specification
`MCSpec` is about the very formula its run checks, with the run's bounds as
constants of any value. Each proof is an inductive invariant of named parts, one lemma per action or group of actions,
and a last step that combines them.

### WakeQueue: a wake is a token

For any number of tokio threads, requests and notices and any limit:

* `TypeCorrect`. The type invariant is not inductive: `Finish` subtracts from
  `inflight`. `HoldingOK` (where a thread is and what it holds) and `SlotsOK`
  (as many slots claimed as handlers running) make it so.
* `OneByte`, `ProbeHonest`, `ClockKept`, and `Honest`, which joins the first two
  with `TypeCorrect`. The argument is that a wake episode is a token: a thread
  between the swap and the write, then the byte in the socket, then the loop's
  clear. `OneEpisode` says there is at most one and that `notified` is set
  exactly while it exists; `StampOK` says at which of its places the time stamp
  is there.
* `WakeupsKept`, assuming `Raising = {}` (`wake_lost` shows it is needed). Its
  invariant `NothingForgotten` says, for each place of the loop, that whatever
  it has gone past and will not look at again has a wake coming.
* `LoadStaysBounded`. The bound is not inductive: a release lets a thread in
  that read a stale length. `OvershootBounded` therefore bounds, for every number
  `d` of releases still to come, the load plus the threads that would then be
  let in.
* `MailboxSafety`: `WakeQueue` implements the safety part of `WorkerMailbox`.

### Requests: where it is, what its cell says, what is counted

`SlotsSafe` (`Safety`: slots conserved, bounds, no orphan, order of release) and
`AbandonHarmless` (`LateAbandonHarmless`), for any number of requests, slots and
places. The counts are not inductive by themselves: that a slot is given back
once depends on who may still give it back, and that on the cell. So there are
three layers, each proved on the one before. `WhereInv` places every request:
in the queue, with the loop, in its handler, or over. `CellInv` relates the
`Cancel` cell and the reply channel to that place: marked before it is noticed,
the slot kept while the `Responder` lives. `CountInv` then equates `inflight`
and the connection's load with the cardinality of the sets they count.

### Topic: order, and nobody left waiting

* `ReadersServed`: a waiting reader with something in its buffer has been woken,
  and a reader sees one emitter's messages in the order it emitted them.
* `NothingVanishes`: `Safety`, with it that each message handed to a
  subscription was read, is buffered or was dropped and counted. Hypothesis
  `OneNoWaiter`: two tasks in `emit_nowait` at once lose a count, as the table
  above says.
* `WaitersKept`: `PutterNotStranded`, an emitter waits only while there is no
  room that nobody has been woken for. Hypothesis `Cancellable = {}`: a
  cancelled emitter swallows a wake, as the table says.

`WhereInv` is about the reader's future and its wake, `OrderInv` about the
numbers in a buffer, `CountInv` about the ledger of `handed`, `taken` and
`dropped`, and `PutterInv` about places: every free place in a buffer that
emitters wait for is spoken for by one of them that is woken.

### BodyStream: what is counted is there

`BodySafe`: `BodySafety`, for any iterators and collectors, any high water mark,
body limit and number of frames: the frames come in order, `buffered` stays
within its mark, an iteration that ends was given a body its client did end, and
no reader sleeps over something it can read. `buffered` is not the length of the
queue: the pump counts a chunk before it appends it, a poll takes one before it
uncounts it, and the marker that ends a body is not counted at all. `BodyCounts`
therefore equates it with what is queued before the marker (`Held`), the chunk
counted and not there yet (`Partial`) and the one taken and still counted
(`Taking`); that `Taking` is one at most is that the loop runs one task at a time
(`BodyWaits`). `BodyPlace` says that a marker is last and in the queue from its
append on (`Marked`, which is later than `finished`: the table above says what
comes of that), `BodyFrames` that the pump's frame is the next one, and
`BodyEnds` that "end" is only ever said of a body that ended. That a waiting
reader has its callback installed or scheduled, and that one with something to
read is scheduled or the pump is at its wake, is inductive only together
(`BodyWaits`).

### DurableTopic: replay and tail meet

For any subscriptions, emitters, policies, sizes of buffer, batch and page, and
any number of entries, trims and outages:

* `ResumedSafe`: the type invariant, `ResumedInOrder` and `HandOverComplete`.
* `DurableSafe`: `Safety`, with it that a plain subscription sees each message
  once. Hypothesis `NobodyElseRaises`: a plain subscription shares its topic with
  no *other* one of policy `error`; the table above has the counterexample, and
  the run's instance satisfies the hypothesis.

Neither the order nor the completeness is inductive. `ShapeInv` says what is
where: the tail's batch and a replay's page and backlog are consecutive pieces
of the stream, a snapshot lists a subscription once, and a replay asks only when
its backlog is used up. On it, `OrderInv` says that the buffer of a resumed
reader rises and holds nothing the tail has not come to, and that what was
returned is not past `_after`. On both, `HandInv` says that every entry the
reader is past was returned, dropped or trimmed (`Behind`), and that from the
moment an empty page answers a replay whose tail was live when it asked, the
same or the buffer accounts for every entry the tail is past (`Ahead`): that
`live` is read before the page is asked for is what this rests on. `PlainInv` is
about the other feed: an entry is in the hands of at most one emitter, whom it
has served is no longer in its snapshot (`FromEmit`), and what a plain
subscription has from elsewhere the tail is past (`FromTail`).

### ConsumerGroup: recovery is complete

`RestartRecovers`: `Safety`, with it that a member past its recovery was handed
all it held when it came up, for any page size and any number of entries, trims,
deaths and lost replies. The exception is in the property: a recovery that ended
on a full page of trimmed entries (`cut`), for which the table has the
counterexample. `Recovered` says of a member that is done, or between two reads,
that what it still holds is trimmed or in its buffer; that recovery otherwise ends
only then is that a page short of `Count` is all there is (`Oldest`).

### SocketAuth: one ticket, one socket, its own principal

* `TicketsSafe`: `Safety` (`TicketOnce`, `HandoffWaits`), for any number of sockets
  and of loops issuing at once, in memory or in Redis. `Used` says that a ticket
  that let a socket past the gate is not there to be taken again; `Handed` that
  what waits for a socket is what its gate found, until its time is over.
* `HandlerStartsAsFound`: the action property `StartsAsFound`, from `Handed`.

### Serve, HealthChecks, WebSocket, SsePump

* `ServeSafe`: `ServeSafety`, for any number of workers and requests, whatever
  hook fails. A worker's place in its thread says what its lifespan is
  (`ServeThreads`), and the serving thread's place says where the workers and the
  process lifespan can be (`ServeWorkers`, `ServeProcess`): on its way to the
  process teardown every worker is gone, or the grace is over.
* `HealthSafe`: `HealthSafety`, for any loops and checks. `HealthJobs` says
  that `passing` is exactly the jobs that ended well, and that a probe under way
  has a job for every check on each loop it asked.
* `WebSocketSafe`: `WebSocketSafety`, for any send buffer and number of messages.
  A reader that has installed its waiter has it still, or its wake
  (`SocketWaits`), also where an earlier receive left a stale one; the messages
  received and those waiting are numbered without a gap, and none is delivered
  once the close was told (`SocketOrder`).
* `SseSafe`: `SseSafety`, for any channel and number of events. `NoGap` is about
  positions and not inductive: `SseCount` says that as long as the pump goes on
  every event produced was read, is in the channel, or is the one in hand, so
  that a retry sends the next one and no other.

### RateLimit: a bucket, with every rounding

* `BothAreBuckets`: the limit in a process and the one in Redis each implement
  `TokenBucket` (`IsBucket`), for any number of requests, keys and processes. A
  key's level is the tolerance less how far its arrival time is ahead of the
  clock; in a process of the oldest clock that a request may still be working with,
  so that a bucket there holds `Lag` more. A key that was swept or has expired is
  full, which is the same level because it was kept until its time had come
  (`KeptLongEnough`, and for a sweep that its reading is no later than the clock).
  Initial states are full buckets, and each step is a spend, a refusal, a refill
  or a stutter.
* `RetryAfterSafe`: the module's `Safety`, with it `PatientIsServed`. `CallerSound`
  relates the refusals of a caller who waits to what each half has stored of it:
  after a wait the half that asked for it has room, and stays so until the caller
  spends there. What Redis refuses has been counted in the process already, and so
  the process may refuse its next attempt once more.

Both are about numbers of any size: that the machine integers of the code do not
overflow is a matter of the checks in the constructors and not shown here.

### LoginFlow: whose a session is

* `LoginSafe`: `LoginSafety`, for any browsers, tabs and lifetimes: a browser is
  logged in as whoever finished a login begun in it, and with nothing in its
  session that was written before. What makes it inductive is that requests under
  way carry sessions too: `Belongs` says of a session that the logins it waits
  for, and the one it stands for, were begun in its browser; `JarsOwn` says it of
  every browser's cookie and `TabsOwn` of the cookie and the reply of every
  request, in whatever order they are sent, answered and received. A callback
  passed on to another browser has a state that browser's session does not wait
  for.

### SigningKeys: one fetch

`FetchesAlone`: `Safety`. The thread that is asking or has its answer is the one
`_fetching` names (`InFlight`); the memory of tokens stays without duplicates
through trims, expiries and clears on any number of loops.

### Only model-checked

* All liveness, and that a refinement's fairness is implied: it needs `ENABLED`
  and fairness, which the prover does not have.
* `Gate` and `Registration`, which walk declarations and routers with recursive
  operators, and with them the instance `MCHandling`: `Signature`, `Pipeline`,
  `Assembly` and `McpWire`.
* `McpSessions`: no proof yet. `TopicSafety` of the run `topic_feeds` is the
  `Safety` that `NothingVanishes` proves of `Topic`, in an instance next to the
  sessions.
* `TicketsBounded`, how far loops that issue at once exceed the limit of tickets.
* `Reload`: all that is checked of it is liveness.

## Not modelled

* Dispatch over several workers and idle connections: `Serve` lets a request go
  to any worker, and `Requests` has one.
* The blocking pool's inside, and with it work in a thread that outlives its
  cancelled request and uses torn-down dependencies.
* Static files, ranges, multipart parts, compression, CORS headers: sequential
  work on one request.
* Matching of URLs and parsing of values in `router.rs`, reduced in `Signature`
  to present, missing and unparsable.
* Metrics, logging, tracing, TLS, JSON Schema, settings, the command line other
  than reloading: data, or other libraries' work.
* Of modelled components: websocket upgrades through the worker's queue, the
  cancellation of `run_websocket` itself, two receives at once on a socket, a
  worker thread that cannot be spawned (`worker.rs:348` panics), a payload in a group
  that `_decode` raises on, the edges of machine integers in a limit, metrics
  stamps, the building of Python values, response headers.

## Plan

1. Proofs: the registry of `McpSessions` (bounded, closed whole); `Pipeline` and
   `McpWire` in an instance of their own, apart from the recursive modules.
2. Idle connections and dispatch over workers, the blocking pool, multipart
   iterators, and URL matching as operators against a reference definition.
