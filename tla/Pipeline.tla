------------------------------ MODULE Pipeline ------------------------------
(***************************************************************************)
(* One request on its worker loop, from run_handler to the freed slot: the *)
(* links of middleware and the gate, each inside the exception mapping     *)
(* (_app.py _compose and _layer, _middleware.py, _errors.py guard), the    *)
(* dependencies with their teardown (_depends.py), the validated body and  *)
(* the handler (_routing.py _build_target), the reply (_runtime.py         *)
(* _respond), and the work left for after it (run_after).                  *)
(*                                                                         *)
(* What the application's own code does at each place, return, raise or be *)
(* cancelled there, is chosen freely.  Going in, `at` counts the links     *)
(* entered; coming out, `out` is what propagates.                          *)
(***************************************************************************)
EXTENDS Naturals, Sequences, SequencesExt

CONSTANTS
    Deps,          \* dependency callables
    Declared,      \* per callable, the sequence of those it declares
    Signatures,    \* sequences of dependencies a handler may declare
    Generators,    \* dependencies that yield: they have teardown
    Uncached,      \* dependencies marked use_cache=False
    DepthLimit,    \* nesting that _resolve takes for a cycle
    MaxLinks       \* bound: links of the chain

PipelineAssumption ==
    /\ Generators \subseteq Deps /\ Uncached \subseteq Deps
    /\ Declared \in [Deps -> Seq(Deps)] /\ Signatures \subseteq Seq(Deps)
    /\ DepthLimit \in Nat /\ MaxLinks \in Nat

VARIABLES
    links,         \* links around the target: middleware, and the gate among them
    layered,       \* the target went through _layer: exceptions are mapped
    cancellable,   \* cancel_on_disconnect
    pc,            \* where the request is
    at,            \* links entered and not left
    todo,          \* what _resolve has still to do, the innermost first
    cache,         \* dependencies whose value is in the cache
    open,          \* AsyncExitStack, the last entered first
    out,           \* the reply or the exception on its way out
    after,         \* work set aside for after the response: "before" or "since" it failed
    kept,          \* some was: the responder keeps the slot
    sent,          \* what the client was sent
    slot,          \* the worker's slot is held
    \* History.
    calls,         \* per dependency, the times it was called
    entered,       \* teardowns in the order they were entered
    closed,        \* [dep, saw] in the order they were closed
    handler,       \* how the handler ended
    hidden,        \* a middleware answered an exception by itself
    seen,          \* exceptions that reached a middleware
    mapper,        \* exceptions raised by an exception handler
    ran            \* what of the work set aside has run

route == <<links, layered, cancellable>>
history == <<calls, entered, closed, handler, hidden, seen, mapper, ran>>
vars == <<links, layered, cancellable, pc, at, todo, cache, open, out, after, kept,
          sent, slot, calls, entered, closed, handler, hidden, seen, mapper, ran>>

Reply(v) == [kind |-> "reply", v |-> v]
Raise(e) == [kind |-> "raise", v |-> e]
Pending == [kind |-> "none", v |-> "none"]

(* HTTPError, RequestValidationError, a class of the application with a    *)
(* handler, one without, and cancellation, which is no Exception.          *)
Exceptions == {"http", "invalid", "app", "bug", "cancel"}
(* What a handler returns: a value that encodes, one that does not, a      *)
(* reply whose header HTTP cannot carry, an SSE.                           *)
Results == {"value", "unencodable", "badheader", "stream"}
(* What else can be in a reply: an exception handler's, a middleware's.    *)
Replies == Results \cup {"mapped", "own"}

Raising == out.kind = "raise"

(* find: which exceptions have a handler in the layer.                     *)
HasHandler(e) == layered /\ e \in {"http", "invalid", "app"}

TypeOK ==
    /\ links \in 0..MaxLinks /\ layered \in BOOLEAN /\ cancellable \in BOOLEAN
    /\ pc \in {"link", "resolve", "body", "handler", "teardown", "guard", "unlink",
               "respond", "stream", "finish", "after", "over"}
    /\ at \in 0..links
    /\ todo \in Seq([step : {"resolve", "call"}, dep : Deps, depth : 0..DepthLimit + 1])
    /\ cache \subseteq Deps \ Uncached
    /\ open \in Seq(Generators) /\ entered \in Seq(Generators)
    /\ out \in [kind : {"reply"}, v : Replies] \cup [kind : {"raise"}, v : Exceptions]
               \cup {Pending}
    /\ sent \in {"none", "reply", "refusal", "stream", "500"}
    /\ {kept, slot, hidden} \subseteq BOOLEAN
    /\ after \subseteq {"before", "since"} /\ ran \subseteq {"before", "since"}
    /\ closed \in Seq([dep : Generators, saw : Exceptions \cup {"none"}])
    /\ calls \in [Deps -> Nat]
    /\ handler \in {"none"} \cup Results \cup Exceptions
    /\ seen \subseteq Exceptions /\ mapper \subseteq Exceptions

Resolving(ds, depth) ==
    [i \in 1..Len(ds) |-> [step |-> "resolve", dep |-> ds[i], depth |-> depth]]

Init ==
    /\ links \in 0..MaxLinks
    /\ layered \in {b \in BOOLEAN : links > 1 => b}
    /\ cancellable \in BOOLEAN
    /\ pc = "link" /\ at = 0
    /\ \E s \in Signatures : todo = Resolving(s, 0)
    /\ cache = {} /\ open = <<>>
    /\ out = Pending /\ after = {} /\ kept = FALSE /\ sent = "none" /\ slot = TRUE
    /\ calls = [d \in Deps |-> 0] /\ entered = <<>> /\ closed = <<>>
    /\ handler = "none" /\ hidden = FALSE /\ seen = {} /\ mapper = {} /\ ran = {}

-----------------------------------------------------------------------------
(* Going in: a link calls the next one, answers by itself, or raises; the  *)
(* gate is one that raises for a caller it refuses.                        *)

(* Mutant of Leave: only the handler is mapped, not the links.             *)
LeaveUnmapped ==
    /\ at' = at - 1
    /\ pc' = IF at = 1 THEN "respond" ELSE "unlink"

(* A link returns or raises, into the mapping around it.                   *)
Leave ==
    /\ at' = at - 1
    /\ pc' = IF layered THEN "guard" ELSE "respond"

CallNext ==
    /\ pc = "link"
    /\ IF at < links THEN at' = at + 1 /\ pc' = pc ELSE at' = at /\ pc' = "resolve"
    /\ UNCHANGED <<route, todo, cache, open, out, after, kept, sent, slot, history>>

Refuse ==
    /\ pc = "link" /\ at > 0
    /\ out' \in {Raise(e) : e \in {"http", "app", "bug"}}
                \cup (IF layered THEN {Reply("own")} ELSE {})
    /\ Leave
    /\ UNCHANGED <<route, todo, cache, open, after, kept, sent, slot, history>>

(* request.after_response, from any of the application's code that runs    *)
(* before the answer or makes up a stream: a middleware on its way in or   *)
(* out, a dependency, the handler; an exception handler does it in Guard.  *)
Work == IF handler \in Exceptions THEN "since" ELSE "before"

AddAfter ==
    /\ pc \in {"link", "resolve", "handler", "teardown", "unlink", "stream"}
    /\ Work \notin after
    /\ pc \in {"link", "unlink"} => at > 0 /\ layered
    /\ after' = after \cup {Work} /\ kept' = TRUE
    /\ UNCHANGED <<route, pc, at, todo, cache, open, out, sent, slot, history>>

-----------------------------------------------------------------------------
(* bind: each argument is resolved in turn, what a dependency declares     *)
(* before it, a value already in the cache without calling anything.       *)

(* Something in the scope of the exit stack raised: it unwinds.            *)
Unwind(e) ==
    /\ out' = Raise(e)
    /\ pc' = "teardown"

Cached(d) == d \notin Uncached /\ d \in cache

Resolve ==
    /\ pc = "resolve" /\ todo # <<>> /\ Head(todo).step = "resolve"
    /\ LET d == Head(todo).dep
           depth == Head(todo).depth
       IN  \/ /\ depth > DepthLimit
              /\ Unwind("bug")
              /\ UNCHANGED todo
           \/ /\ depth <= DepthLimit /\ Cached(d)
              /\ todo' = Tail(todo)
              /\ UNCHANGED <<pc, out>>
           \/ /\ depth <= DepthLimit /\ ~Cached(d)
              /\ todo' = Resolving(Declared[d], depth + 1)
                         \o <<[step |-> "call", dep |-> d, depth |-> depth]>> \o Tail(todo)
              /\ UNCHANGED <<pc, out>>
    /\ UNCHANGED <<route, at, cache, open, after, kept, sent, slot, history>>

(* A generator is entered once it has yielded: then its teardown is pushed.*)
Produce ==
    /\ pc = "resolve" /\ todo # <<>> /\ Head(todo).step = "call"
    /\ LET d == Head(todo).dep
       IN  /\ todo' = Tail(todo)
           /\ calls' = [calls EXCEPT ![d] = @ + 1]
           /\ cache' = IF d \in Uncached THEN cache ELSE cache \cup {d}
           /\ open' = IF d \in Generators THEN <<d>> \o open ELSE open
           /\ entered' = IF d \in Generators THEN Append(entered, d) ELSE entered
    /\ UNCHANGED <<route, pc, at, out, after, kept, sent, slot, closed, handler, hidden, seen,
                   mapper, ran>>

(* It raised, or returned without yielding.                                *)
ProduceFails ==
    /\ pc = "resolve" /\ todo # <<>> /\ Head(todo).step = "call"
    /\ \E e \in {"http", "app", "bug"} : Unwind(e)
    /\ calls' = [calls EXCEPT ![Head(todo).dep] = @ + 1]
    /\ UNCHANGED <<route, at, todo, cache, open, after, kept, sent, slot, entered, closed, handler,
                   hidden, seen, mapper, ran>>

Resolved ==
    /\ pc = "resolve" /\ todo = <<>>
    /\ pc' = "body"
    /\ UNCHANGED <<route, at, todo, cache, open, out, after, kept, sent, slot, history>>

(* bind_body, bind_form and bind_stream: inside the dependencies.          *)
Validate ==
    /\ pc = "body"
    /\ \/ Unwind("invalid")
       \/ pc' = "handler" /\ UNCHANGED out
    /\ UNCHANGED <<route, at, todo, cache, open, after, kept, sent, slot, history>>

(* _encodes, where something has teardown: the value, not its headers.     *)
Encodes(v) == entered = <<>> \/ v # "unencodable"

Return ==
    /\ pc = "handler"
    /\ \E v \in Results :
         /\ handler' = v
         /\ out' = IF Encodes(v) THEN Reply(v) ELSE Raise("bug")
    /\ pc' = "teardown"
    /\ UNCHANGED <<route, at, todo, cache, open, after, kept, sent, slot, calls, entered, closed,
                   hidden, seen, mapper, ran>>

HandlerRaises ==
    /\ pc = "handler"
    /\ \E e \in {"http", "app", "bug"} : handler' = e /\ Unwind(e)
    /\ UNCHANGED <<route, at, todo, cache, open, after, kept, sent, slot, calls, entered, closed,
                   hidden, seen, mapper, ran>>

(* What leaves a teardown (_async_exit, _sync_exit): what it saw, swallowed*)
(* or not, unless it raises something of its own.                          *)
TornDown(o) == {o} \cup {Raise(e) : e \in {"http", "bug"}}

Teardown ==
    /\ pc = "teardown" /\ open # <<>>
    /\ open' = Tail(open)
    /\ closed' = Append(closed, [dep |-> Head(open), saw |-> IF Raising THEN out.v ELSE "none"])
    /\ out' \in TornDown(out)
    /\ UNCHANGED <<route, pc, at, todo, cache, after, kept, sent, slot, calls, entered, handler,
                   hidden, seen, mapper, ran>>

Unbound ==
    /\ pc = "teardown" /\ open = <<>>
    /\ pc' = IF layered THEN "guard" ELSE IF links > 0 THEN "unlink" ELSE "respond"
    /\ UNCHANGED <<route, at, todo, cache, open, out, after, kept, sent, slot, history>>

-----------------------------------------------------------------------------
(* Coming out. guard: an Exception with a handler becomes its reply, and   *)
(* what was set aside is dropped before it runs; an exception handler may  *)
(* raise HTTPError, which is mapped once more, or anything else, which is  *)
(* not.                                                                    *)

(* Out of the target, or of a link, to the link around it.                 *)
Outside == IF at = 0 THEN "respond" ELSE "unlink"

Guard ==
    /\ pc = "guard"
    /\ pc' = Outside
    /\ IF Raising /\ HasHandler(out.v)
       THEN /\ after' \in {{}, {Work}}
            /\ kept' = (kept \/ after' # {})
            /\ \/ out' = Reply("mapped") /\ UNCHANGED mapper
               \/ \E e \in {"app", "bug"} \cup (IF cancellable THEN {"cancel"} ELSE {}) :
                    out' = Raise(e) /\ mapper' = mapper \cup {e}
       ELSE UNCHANGED <<out, after, kept, mapper>>
    /\ UNCHANGED <<route, at, todo, cache, open, sent, slot, calls, entered, closed,
                   handler, hidden, seen, ran>>

(* What a link makes of what it awaited: as it is, with a header that HTTP *)
(* cannot carry, its own reply, or an exception.                           *)
Rewritten(o) ==
    {o, Reply("own"), Raise("http"), Raise("bug")}
    \cup (IF o.kind = "reply" /\ o.v # "stream" THEN {Reply("badheader")} ELSE {})

Unlink ==
    /\ pc = "unlink"
    /\ Leave
    /\ seen' = IF Raising THEN seen \cup {out.v} ELSE seen
    /\ out' \in IF ~layered \/ out = Raise("cancel") THEN {out} ELSE Rewritten(out)
    /\ hidden' = (hidden \/ (Raising /\ out'.kind = "reply"))
    /\ UNCHANGED <<route, todo, cache, open, after, kept, sent, slot, calls, entered, closed,
                   handler, mapper, ran>>

(* The client leaves, and CancelledError is raised at the await the request*)
(* is in: inside the scope of the dependencies, or in a link.              *)
Cancel ==
    /\ cancellable /\ sent = "none"
    /\ out' = Raise("cancel")
    /\ \/ /\ pc \in {"resolve", "body", "handler"}
          /\ pc' = "teardown"
          /\ handler' = IF pc = "handler" THEN "cancel" ELSE handler
          /\ UNCHANGED <<at, open, closed>>
       \/ /\ pc = "teardown" /\ open # <<>>
          /\ open' = Tail(open)
          /\ closed' = Append(closed,
                              [dep |-> Head(open), saw |-> IF Raising THEN out.v ELSE "none"])
          /\ UNCHANGED <<pc, at, handler>>
       \/ /\ pc \in {"link", "unlink"} /\ at > 0
          /\ Leave
          /\ UNCHANGED <<open, closed, handler>>
    /\ UNCHANGED <<route, todo, cache, after, kept, sent, slot, calls, entered, hidden, seen,
                   mapper, ran>>

-----------------------------------------------------------------------------
(* _respond: the reply, or the default answer to an exception that no      *)
(* layer mapped; a reply that cannot be sent is a 500.                     *)

Sendable(v) == v \notin {"unencodable", "badheader"}

(* deliver: a complete reply frees the slot, unless work was left.         *)
Send(s) ==
    /\ sent' = s
    /\ slot' = (kept \/ s = "stream")

Answer ==
    /\ pc = "respond" /\ ~Raising
    /\ IF out.v = "stream"
       THEN Send("stream") /\ pc' = "stream"
       ELSE /\ Send(IF Sendable(out.v) THEN "reply" ELSE "500")
            /\ pc' = "finish"
    /\ UNCHANGED <<route, at, todo, cache, open, out, after, kept, history>>

AnswerError ==
    /\ pc = "respond" /\ Raising /\ out.v # "cancel"
    /\ \/ Send(IF out.v \in {"http", "invalid"} THEN "refusal" ELSE "500")
       \/ out.v = "http" /\ Send("500")   \* a header that HTTP cannot carry
    /\ pc' = "finish"
    /\ UNCHANGED <<route, at, todo, cache, open, out, after, kept, history>>

(* pump_sse is over.                                                       *)
StreamEnds ==
    /\ pc = "stream"
    /\ pc' = "finish"
    /\ UNCHANGED <<route, at, todo, cache, open, out, after, kept, sent, slot, history>>

(* run_handler: cancelled, nothing set aside runs.                         *)
Abandon ==
    /\ pc = "respond" /\ Raising /\ out.v = "cancel"
    /\ slot' = FALSE
    /\ pc' = "over"
    /\ UNCHANGED <<route, at, todo, cache, open, out, after, kept, sent, history>>

(* What _respond returned: the response went out as the handler made it.   *)
Returned == ~Raising /\ sent # "500"

(* finish_or_keep.                                                         *)
Finish ==
    /\ pc = "finish"
    /\ slot' = kept
    /\ pc' = IF kept THEN "after" ELSE "over"
    /\ UNCHANGED <<route, at, todo, cache, open, out, after, kept, sent, history>>

(* run_after, one failure not stopping the rest; then finish.              *)
RunAfter ==
    /\ pc = "after"
    /\ IF Returned THEN ran' = after /\ after' = {} ELSE UNCHANGED <<ran, after>>
    /\ slot' = FALSE
    /\ pc' = "over"
    /\ UNCHANGED <<route, at, todo, cache, open, out, kept, sent, calls, entered, closed,
                   handler, hidden, seen, mapper>>

Done == pc = "over" /\ UNCHANGED vars

Next ==
    \/ CallNext \/ Refuse \/ AddAfter
    \/ Resolve \/ Produce \/ ProduceFails \/ Resolved \/ Validate
    \/ Return \/ HandlerRaises \/ Teardown \/ Unbound
    \/ Guard \/ Unlink \/ Cancel
    \/ Answer \/ AnswerError \/ StreamEnds \/ Abandon \/ Finish \/ RunAfter
    \/ Done

Spec == Init /\ [][Next]_vars

-----------------------------------------------------------------------------
(* Properties.                                                             *)

(* Every teardown that was entered is closed, once and in reverse order,   *)
(* by the time anything outside the dependencies runs, whatever raised or  *)
(* was cancelled on the way (_depends.py bind, the exit stack).            *)
Unwound ==
    pc \notin {"resolve", "body", "handler", "teardown"} =>
        [i \in 1..Len(closed) |-> closed[i].dep] = Reverse(entered)

(* A teardown commits only what its client can be told: none that closes   *)
(* after an exception, the handler's, another teardown's or that its result*)
(* does not encode, sees a success, even if one between swallowed it       *)
(* (_encodes, and `the original error stands` in _async_exit).             *)
RollsBack ==
    \A i \in 1..Len(closed) :
        closed[i].saw = "none" =>
            /\ handler \in Results \ {"unencodable"}
            /\ \A j \in 1..(i - 1) : closed[j].saw = "none"

(* A request whose task ends was answered, or was cancelled before it      *)
(* could be; and its slot is given back, not before the answer (_respond,  *)
(* run_handler: a handler crash must still answer).                        *)
Answered ==
    /\ pc = "over" => ~slot
    /\ ~slot => sent # "none" \/ out = Raise("cancel")

(* Work set aside before the handler raised or was cancelled never runs,   *)
(* unless a middleware answered the exception itself, out of sight of the  *)
(* layer; what an exception handler or a middleware sets aside afterwards  *)
(* is theirs, and may run (guard, _drop_after).                            *)
FailedWorkDropped == "before" \in ran /\ handler \in Exceptions => hidden

(* A middleware sees a reply, never an exception that has a handler, from  *)
(* everything inside it, but for one an exception handler raised (_layer). *)
SeesReplies == \A e \in seen : HasHandler(e) => e \in mapper

(* A dependency shared by several others runs once in a request, though a  *)
(* cycle among them ends in an error (_resolve's cache and depth).         *)
RunsOnce == \A d \in Deps \ Uncached : calls[d] <= 1

(* Stated by www/guide/after-response.md and request.rs: if the handler    *)
(* raises, nothing it set aside runs.                                      *)
RaisedRunsNothing == "before" \in ran => handler \notin Exceptions

(* Stated by _depends.py: a return value that cannot be encoded as a       *)
(* response counts as the handler raising, so the transaction rolls back.  *)
KeptIsTold ==
    handler = "badheader" => \A i \in 1..Len(closed) : closed[i].saw # "none"

(* What a request leaves behind, and what its client is told.              *)
Safety ==
    /\ TypeOK
    /\ Unwound /\ RollsBack /\ RunsOnce
    /\ Answered /\ SeesReplies /\ FailedWorkDropped

=============================================================================
