----------------------------- MODULE MCHandling ------------------------------
(***************************************************************************)
(* Model-checking instance of a route's life: registered on a router and   *)
(* included in the app (Registration), its handler's arguments sorted out  *)
(* (Signature), built into a server with what the app adds (Assembly), a   *)
(* request's credentials checked (Gate), and it run through its middleware *)
(* and dependencies (Pipeline), or an agent's message dispatched to it     *)
(* (McpWire).  They share no state, so a behaviour is one of any: `which`  *)
(* says of which, and the others stay where they start.                    *)
(***************************************************************************)
EXTENDS Registration, TLC

CONSTANTS r1, r2

(* Signature.                                                              *)
CONSTANTS a, b, Absent
VARIABLES which, fn, request, path, flags, route, wire, outcome, args
(* Pipeline.                                                               *)
CONSTANTS pool, tx, audit, loop
VARIABLES links, layered, cancellable, pc, at, todo, cache, open, out, after, kept, sent,
          slot, calls, entered, closed, handler, hidden, seen, mapper, ran
(* Assembly.                                                               *)
VARIABLES app, appRoutes, blocking, document, tools, server, builds, broken, visit
(* Gate.                                                                   *)
CONSTANTS Scopes, Roles
VARIABLES policy, credentials, limits, gate
(* McpWire.                                                                *)
CONSTANTS p1, tester, s1, s2, s3
VARIABLES cors, live, given, post, session, step, mcpCalls, topic, refused, lost

(* Two routers, one with a parameter in its prefix or none, each included  *)
(* twice at most; routes that conflict in shape, or only below a prefix, or*)
(* lack its parameter; and authentication said at every level, above and   *)
(* below one that says none.                                               *)
D(m, p, acc, au) == [method |-> m, path |-> p, accepts |-> acc, auth |-> au]
MCPrefixes == {(r1 :> <<>>) @@ (r2 :> p) : p \in {<<>>, <<"id">>}}
MCAuths == {<<"policy", "none", "policy">>, <<"unset", "policy", "unset">>}
MCMounts == {<<"x">>}
MCOuters == {<<>>, <<"x">>}
MCDeclarations ==
    {D("GET", <<"id">>, {"id"}, "unset"), D("GET", <<"x", "key">>, {"id", "key"}, "none"),
     D("POST", <<"x">>, {}, "policy")}

(* Two arguments of every kind that build_route tells apart.               *)
P(k, ann, d) == [kind |-> k, ann |-> ann, default |-> d]
MCParameters ==
    {P("keyword", ann, "none") : ann \in {"str", "scalar", "optional", "model", "files",
                                          "stream", "none", "odd"}}
    \cup {P("keyword", ann, "value") : ann \in {"scalar", "optional", "none"}}
    \cup {P("keyword", ann, "depends") : ann \in {"scalar", "none", "model"}}
    \cup {P("keyword", ann, "form") : ann \in {"model", "files", "scalar", "stream"}}
    \cup {P("positional", "scalar", "none"), P("positional", "scalar", "value"),
          P("positional", "optional", "none")}
Placeholder(n, star) == [name |-> n, star |-> star]
MCPaths == {<<>>, <<Placeholder(a, FALSE)>>, <<Placeholder(a, TRUE)>>,
            <<Placeholder(a, FALSE), Placeholder(b, FALSE)>>,
            <<Placeholder(a, FALSE), Placeholder(a, FALSE)>>}

Sg == INSTANCE Signature WITH
          Names <- {a, b}, Parameters <- MCParameters, Paths <- MCPaths

(* No dependency, two that share a third, one of them uncached, and one    *)
(* that declares itself.                                                   *)
MCDeclared == (pool :> <<>>) @@ (tx :> <<pool>>) @@ (audit :> <<pool, tx>>) @@ (loop :> <<loop>>)

Pl == INSTANCE Pipeline WITH
          Deps <- {pool, tx, audit, loop}, Declared <- MCDeclared,
          Signatures <- {<<>>, <<tx, audit>>, <<pool, loop>>},
          Generators <- {pool, tx, audit}, Uncached <- {audit}, DepthLimit <- 2, MaxLinks <- 2

(* Limits of both keys, here and in Redis, under every app; two tools of   *)
(* one name; sockets that can be re-checked or not; and routes where the   *)
(* app puts its own.                                                       *)
L(k, shared) == [key |-> k, shared |-> shared]
MCLimits == {Absent} \cup {L(k, s) : k \in {"address", "principal"}, s \in BOOLEAN}
App(au, l, mau, with, listed, allowed) ==
    [auth |-> au, limit |-> l, mcp_auth |-> mau, mcp |-> with # "nothing",
     docs |-> with = "docs", ready |-> with = "health", probes |-> with = "health",
     websocket_origins |-> listed, cors |-> allowed]
MCApps ==
    {App(w[1], l, w[2], w[3], Absent, {"friend", "*"}) : l \in MCLimits,
        w \in {<<"none", "unset", "health">>, <<"keys", "unset", "docs">>,
               <<"keys", "none", "agents">>}}
    \cup {App("none", Absent, "unset", "nothing", listed, allowed) :
              listed \in {Absent, {"*"}, {"friend"}}, allowed \in {Absent, {"*"}}}
R(m, p, k, t, au, l, bl, re) ==
    [id |-> <<m, p>>, kind |-> k, tool |-> t, auth |-> au, limit |-> l, blocking |-> bl,
     recheck |-> re, pool |-> Absent, own |-> TRUE]
MCRoutes ==
    {R("POST", "item", "http", "item", "unset", L("principal", TRUE), FALSE, FALSE),
     R("GET", "item", "http", "item", "none", L("address", TRUE), TRUE, FALSE),
     R("GET", "list", "http", "list", "oidc", L("address", TRUE), TRUE, FALSE),
     R("GET", "feed", "socket", Absent, "tickets", L("principal", FALSE), FALSE, TRUE),
     R("GET", "live", "socket", Absent, "unset", L("address", TRUE), FALSE, TRUE),
     R("GET", "mcp", "http", Absent, "none", Absent, FALSE, FALSE),
     R("POST", "mcp", "http", Absent, "none", Absent, FALSE, FALSE)}

As == INSTANCE Assembly WITH
          Apps <- MCApps, Declarations <- MCRoutes, None <- Absent, MaxOwn <- 2,
          MaxBuilds <- 2, routes <- appRoutes, pool <- blocking

Scheme(s) == [kind |-> "scheme", scheme |-> s]
Required(p, r) == [kind |-> "required", inner |-> p, requirement |-> r]
Either(ps) == [kind |-> "either", members |-> ps]
Optional(p) == [kind |-> "optional", inner |-> p]
Requirement(allOf, anyOf, roles, check) ==
    [all_of |-> allOf, any_of |-> anyOf, roles |-> roles, check |-> check]
Scope(s) == Requirement({s}, {}, {}, Absent)
Both == Either(<<Scheme("bearer"), Scheme("api_key")>>)

(* Declarations as the guide writes them.                                  *)
AsWritten ==
    {Scheme("session"),
     Scheme("basic"),
     Required(Both, Scope("read")),
     Either(<<Required(Scheme("bearer"), Scope("read")),
              Required(Scheme("bearer"), Requirement({}, {}, {"admin"}, Absent)),
              Scheme("session")>>),
     Required(Either(<<Required(Scheme("bearer"), Scope("read")),
                       Scheme("api_key")>>),
              Requirement({}, {"read", "write"}, {}, Absent)),
     Optional(Both),
     Optional(Either(<<Scheme("session"), Required(Scheme("bearer"), Scope("write"))>>)),
     Either(<<Required(Scheme("bearer"), Requirement({}, {}, {}, "raises")),
              Required(Scheme("bearer"), Requirement({"read"}, {}, {}, "yes")),
              Required(Scheme("basic"), Requirement({}, {}, {}, "no"))>>)}

Gt == INSTANCE Gate WITH
          Declarations <- AsWritten, MaxLimits <- 2, None <- Absent, request <- credentials,
          call <- gate

(* Every method on both wires, and messages that are wrong in one way.     *)
Plain == [origin |-> "none", json |-> "object", rpc |-> TRUE, method |-> "ping", id |-> TRUE,
          params |-> "object", version |-> "none", sid |-> Absent, caller |-> "agent"]
On(v, messages) == {[m EXCEPT !.version = v] : m \in messages}
Asked ==
    {[Plain EXCEPT !.method = m] : m \in {"initialize", "ping", "tools/call", "discover"}}
    \cup {[Plain EXCEPT !.method = m, !.caller = c] :
              m \in {"resources/list", "resources/read", "listen"}, c \in {"agent", "stranger"}}
Odd == {[Plain EXCEPT !.method = m] : m \in {Absent, "number", "notification"}}
       \cup {[Plain EXCEPT !.method = m, !.id = FALSE] :
                 m \in {"notification", "initialize", "ping"}}
       \cup {[Plain EXCEPT !.rpc = FALSE]}
MCMessages ==
    Asked \cup Odd \cup On("modern", Asked \cup Odd) \cup On("other", {Plain})
    \cup On("handshake", {Plain})
    \cup {[Plain EXCEPT !.json = j] : j \in {"bad", "list", "scalar"}}
    \cup {[Plain EXCEPT !.origin = o] : o \in {"host", "friend", "stranger"}}
    \cup {[Plain EXCEPT !.params = "list"]}

Mw == INSTANCE McpWire WITH
          Posts <- {p1}, Tester <- tester, Messages <- MCMessages, Sids <- <<s1, s2, s3>>,
          Origins <- {{"friend"}}, None <- Absent, Limit <- 1, MaxCalls <- 2,
          calls <- mcpCalls

ASSUME As!AssemblyAssumption
ASSUME Mw!WireAssumption
ASSUME Sg!SignatureAssumption
ASSUME Pl!PipelineAssumption

signatureVars == <<fn, request, path, flags, route, wire, outcome, args>>
pipelineVars == <<links, layered, cancellable, pc, at, todo, cache, open, out, after, kept,
                  sent, slot, calls, entered, closed, handler, hidden, seen, mapper, ran>>

assemblyVars == <<app, appRoutes, blocking, document, tools, server, builds, broken, visit>>
wireVars == <<cors, live, given, post, session, step, mcpCalls, topic, refused, lost>>
gateVars == <<policy, credentials, limits, gate>>
othersVars == <<assemblyVars, gateVars, wireVars>>

MCInit ==
    /\ which \in {"registration", "signature", "pipeline", "assembly", "gate", "wire"}
    /\ Init
    /\ which # "registration" => prefix = CHOOSE p \in PrefixChoices : TRUE
    /\ <<auth["app"], auth[r1], auth[r2]>> \in
          (IF which = "registration" THEN MCAuths ELSE {<<"unset", "unset", "unset">>})
    /\ IF which = "signature" THEN Sg!Init
       ELSE /\ fn = "unused" /\ request = "unused" /\ path = "unused" /\ flags = "unused"
            /\ route = "unused" /\ wire = "unused" /\ outcome = "unused" /\ args = {}
    /\ IF which = "pipeline" THEN Pl!Init
       ELSE /\ links = 0 /\ layered = FALSE /\ cancellable = FALSE /\ pc = "unused" /\ at = 0
            /\ todo = <<>> /\ cache = {} /\ open = <<>> /\ out = "unused" /\ after = {}
            /\ kept = FALSE /\ sent = "none" /\ slot = FALSE /\ calls = <<>> /\ entered = <<>>
            /\ closed = <<>> /\ handler = "none" /\ hidden = FALSE /\ seen = {} /\ mapper = {}
            /\ ran = {}
    /\ IF which = "assembly" THEN As!Init
       ELSE /\ app = "unused" /\ appRoutes = <<>> /\ blocking = 0 /\ document = Absent
            /\ tools = Absent /\ server = <<>> /\ builds = 0 /\ broken = FALSE
            /\ visit = "unused"
    /\ IF which = "gate" THEN Gt!Init
       ELSE policy = Absent /\ credentials = Absent /\ limits = Absent /\ gate = Absent
    /\ IF which = "wire" THEN Mw!Init
       ELSE /\ cors = {} /\ live = {} /\ given = 0 /\ post = "unused" /\ session = Absent
            /\ step = "unused" /\ mcpCalls = 0 /\ topic = "unused" /\ refused = FALSE
            /\ lost = FALSE

MCNext ==
    \/ /\ which = "registration" /\ Next
       /\ UNCHANGED <<which, signatureVars, pipelineVars, othersVars>>
    \/ which = "signature" /\ Sg!Next /\ UNCHANGED <<which, vars, pipelineVars, othersVars>>
    \/ which = "pipeline" /\ Pl!Next /\ UNCHANGED <<which, vars, signatureVars, othersVars>>
    \/ /\ which = "assembly" /\ As!Next
       /\ UNCHANGED <<which, vars, signatureVars, pipelineVars, gateVars, wireVars>>
    \/ /\ which = "gate" /\ Gt!Next
       /\ UNCHANGED <<which, vars, signatureVars, pipelineVars, assemblyVars, wireVars>>
    \/ /\ which = "wire" /\ Mw!Next
       /\ UNCHANGED <<which, vars, signatureVars, pipelineVars, assemblyVars, gateVars>>

MCSpec == MCInit /\ [][MCNext]_<<which, vars, signatureVars, pipelineVars, othersVars>>

(* A router is served whole or refused, under the authentication it was    *)
(* declared with, and none that asks for it is served as files             *)
(* (Registration); built into a server, every limit on a request is spent  *)
(* once however it comes (Assembly).                                       *)
RegistrationSafety ==
    /\ which = "registration" => Safety
    /\ which = "assembly" => As!Safety

(* Who is let in, at what cost, and that what is listed and documented is  *)
(* what is checked (Gate).                                                 *)
GateSafety == which = "gate" => Gt!Safety

(* An agent's message has one answer, on the wire it was sent on, and the  *)
(* test client's calls outlive its session (McpWire).                      *)
WireSafety == which = "wire" => Mw!Safety

(* A call that passed every check is taken by its handler, over HTTP and   *)
(* as a tool, but for the signatures FailsOnlySo names: an argument that   *)
(* only goes by position, and for a tool one that may be None, has no      *)
(* default and was left out (Signature).                                   *)
SignatureSafety == which = "signature" => Sg!Safety

(* What a request opened is closed in turn, and it is answered once        *)
(* (Pipeline).                                                             *)
PipelineSafety == which = "pipeline" => Pl!Safety

=============================================================================
