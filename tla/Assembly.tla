------------------------------ MODULE Assembly -------------------------------
(***************************************************************************)
(* An application becomes a server: App.build_server and what it registers *)
(* by itself (_app.py), and where a request then spends from rate limits:  *)
(* in the server before a worker sees it (State::limited in server.rs), at *)
(* the route's gate or in its place, or, for a tool called over MCP, in    *)
(* Capability.invoke (_capabilities.py) and the tool's own gate.           *)
(*                                                                         *)
(* An application may be built more than once, as a test client that is    *)
(* started again does, and given routes in between.  Registration models   *)
(* which routes may be declared together; here they are declared one by    *)
(* one, under names that differ.                                           *)
(***************************************************************************)
EXTENDS Naturals, Sequences, FiniteSets, SequencesExt

CONSTANTS
    Apps,          \* the arguments of App to try
    Declarations,  \* the routes to try
    None,
    MaxOwn,        \* bound: routes declared by the application
    MaxBuilds      \* bound: calls of build_server

VARIABLES
    app,           \* App's arguments
    routes,        \* App.routes
    pool,          \* App._blocking: which pool
    document,      \* what the OpenAPI route answers with, once there is one
    tools,         \* the capabilities of App._mcp, once there is one
    server,        \* the routes of the last server built
    builds,        \* calls of build_server
    broken,        \* a build failed while it registered routes
    visit          \* one request

vars == <<app, routes, pool, document, tools, server, builds, broken, visit>>

Limits == [key : {"address", "principal"}, shared : BOOLEAN]

AssemblyAssumption ==
    /\ MaxOwn \in Nat /\ MaxBuilds \in Nat
    /\ \A a \in Apps : a.limit \in Limits \cup {None}
    /\ \A d \in Declarations : d.limit \in Limits \cup {None} /\ d.kind \in {"http", "socket"}

-----------------------------------------------------------------------------
(* Routes                                                                  *)

Resolve(auth) == IF auth = "unset" THEN app.auth ELSE auth

Gated(r) == r.auth # "none"

Has(rs, id) == \E i \in DOMAIN rs : rs[i].id = id

(* App._add: the app's auth= is applied last, and a blocking route learns  *)
(* its pool.                                                               *)
Finished(d) == [d EXCEPT !.auth = Resolve(d.auth), !.pool = IF d.blocking THEN pool ELSE None]

(* App.get(path, auth=...), from the app itself.                           *)
Builtin(method, path, auth) ==
    [id |-> <<method, path>>, kind |-> "http", tool |-> None, auth |-> Resolve(auth),
     limit |-> None, blocking |-> FALSE, recheck |-> FALSE, pool |-> None, own |-> FALSE]

(* A decorator.                                                            *)
Declare(d) ==
    /\ ~Has(routes, d.id)
    /\ Cardinality({i \in DOMAIN routes : routes[i].own}) < MaxOwn
    /\ visit.end = "none"
    /\ routes' = Append(routes, Finished(d))
    /\ UNCHANGED <<app, pool, document, tools, server, builds, broken, visit>>

-----------------------------------------------------------------------------
(* build_server                                                            *)

(* The routes move to the new pool.                                        *)
Repooled(rs, p) ==
    [i \in DOMAIN rs |-> IF rs[i].blocking THEN [rs[i] EXCEPT !.pool = p] ELSE rs[i]]

(* App._admin: a port of its own, and something to serve there.            *)
AdminRefused(admin) ==
    admin \in {"host_alone", "no_port", "same"} \/ (admin = "port" /\ ~app.probes)

(* _register_docs.                                                         *)
RegisterDocs(rs) ==
    rs \o SelectSeq(IF app.docs THEN <<Builtin("GET", "openapi", "none"),
                                       Builtin("GET", "docs", "none")>> ELSE <<>>,
                    LAMBDA r : ~Has(rs, r.id))

Documented(rs) ==
    IF app.docs /\ ~Has(rs, <<"GET", "openapi">>) THEN {rs[i].id : i \in DOMAIN rs}
    ELSE document

(* _register_health.                                                       *)
RegisterHealth(rs) ==
    IF app.ready /\ ~Has(rs, <<"GET", "ready">>)
    THEN Append(rs, Builtin("GET", "ready", "none")) ELSE rs

(* _capabilities.build: the routes with tool=, by the handler's name.      *)
Capabilities(rs) == SelectSeq(rs, LAMBDA r : r.tool # None /\ r.kind = "http")

TwoNamedAlike(caps) ==
    \E i, j \in DOMAIN caps : i # j /\ caps[i].tool = caps[j].tool

McpMethods == <<"POST", "GET", "DELETE">>

(* authorization_servers: an OIDC provider guards the endpoint or a tool.  *)
Issuers(caps) ==
    Resolve(app.mcp_auth) = "oidc" \/ \E i \in DOMAIN caps : caps[i].auth = "oidc"

(* _register_resource_metadata.                                            *)
RegisterMetadata(rs, caps) ==
    IF Issuers(caps) /\ ~Has(rs, <<"GET", "metadata">>)
    THEN Append(rs, Builtin("GET", "metadata", "none")) ELSE rs

(* _register_mcp, where the endpoint is not there yet: the methods up to   *)
(* the first that the application has taken, which raises.                 *)
RegisterMcp(rs, caps) ==
    LET free == SelectSeq(<<1, 2, 3>>, LAMBDA i : \A j \in 1 .. i :
                                                   ~Has(rs, <<McpMethods[j], "mcp">>))
    IN  [routes |-> RegisterMetadata(rs, caps)
                        \o [i \in DOMAIN free |-> Builtin(McpMethods[i], "mcp", app.mcp_auth)],
         failed |-> Len(free) < 3]

(* The endpoint is registered once, by the first build that gets so far.   *)
McpDue(rs) == app.mcp /\ ~Has(rs, <<"POST", "mcp">>)

(* _recheck: a socket can be checked again only with a credential that     *)
(* works twice.                                                            *)
RecheckRefused(r) == r.kind = "socket" /\ r.recheck /\ r.auth \in {"none", "tickets"}

(* The pool is replaced before the options are looked at.                  *)
Refused(p) ==
    /\ pool' = p
    /\ routes' = Repooled(routes, p)
    /\ UNCHANGED <<document, tools, server, broken>>

(* Docs first, so that what follows is not in the document.                *)
BuildGoesOn(p) ==
    LET moved == Repooled(routes, p)
        ready == RegisterHealth(RegisterDocs(moved))
        caps == Capabilities(ready)
        due == McpDue(ready)
        clash == due /\ TwoNamedAlike(caps)
        mcp == IF due /\ ~clash THEN RegisterMcp(ready, caps)
               ELSE [routes |-> ready, failed |-> clash]
        done == mcp.routes
        failed == mcp.failed \/ \E i \in DOMAIN done : RecheckRefused(done[i])
    IN  /\ pool' = p
        /\ routes' = done
        /\ document' = Documented(moved)
        /\ tools' = IF due /\ ~clash THEN caps ELSE tools
        /\ server' = IF failed THEN server ELSE done
        /\ broken' = (broken \/ (mcp.failed /\ ~clash))

(* build_server(...): blocking_threads= makes a pool of its own, one of    *)
(* tls_cert= and tls_key= without the other is refused.                    *)
BuildServer ==
    /\ builds < MaxBuilds /\ visit.end = "none"
    /\ builds' = builds + 1
    /\ \E p \in {pool, builds + 1}, half \in BOOLEAN,
          admin \in {"none", "port", "host_alone", "no_port", "same"} :
          IF half \/ AdminRefused(admin) THEN Refused(p) ELSE BuildGoesOn(p)
    /\ UNCHANGED <<app, visit>>

-----------------------------------------------------------------------------
(* Rate limits                                                             *)

(* _unlimited: the readiness route.                                        *)
Unlimited(r) == app.ready /\ r.id = <<"GET", "ready">>

(* The limits that apply, the app's first.                                 *)
LimitsOf(r, ofApp) ==
    SelectSeq(<<[of |-> "app", limit |-> app.limit], [of |-> "route", limit |-> r.limit]>>,
              LAMBDA l : l.limit # None /\ (l.of = "app" => ofApp /\ ~Unlimited(r)))

Caller(l) == l.limit.key = "principal"
CallerLimits(r, ofApp) == SelectSeq(LimitsOf(r, ofApp), Caller)
SharedLimits(r, ofApp) == SelectSeq(LimitsOf(r, ofApp), LAMBDA l : l.limit.shared)

(* One half of each limit, this process's or the one in Redis, taken from  *)
(* at a place.                                                             *)
Takes(ls, half, place) ==
    [i \in DOMAIN ls |-> [of |-> ls[i].of, half |-> half, place |-> place]]

(* State::limited: what is keyed on a caller the gate will find is left to *)
(* the gate.                                                               *)
ServerTakes(r) ==
    Takes(SelectSeq(LimitsOf(r, TRUE), LAMBDA l : ~(Gated(r) /\ Caller(l))), "local", "server")

(* Gate.__call__ and Gate.spend: shared limits by address before anybody   *)
(* is authenticated, those by caller after.                                *)
GateTakes(r, ofApp) ==
    Takes(SelectSeq(SharedLimits(r, ofApp), LAMBDA l : ~Caller(l)), "shared", "door")
    \o Takes(CallerLimits(r, ofApp), "local", "gate")
    \o Takes(SelectSeq(SharedLimits(r, ofApp), Caller), "shared", "gate")

(* _compose: the gate, or the shared limits in its place.                  *)
ComposeTakes(r) ==
    IF Gated(r) THEN GateTakes(r, TRUE) ELSE Takes(SharedLimits(r, TRUE), "shared", "door")

(* _spec: a socket has something to run before its handshake only when     *)
(* there is a gate or a shared limit.                                      *)
SpecTakes(r) ==
    IF r.kind = "http" \/ Gated(r) \/ SharedLimits(r, TRUE) # <<>> THEN ComposeTakes(r) ELSE <<>>

(* Capability.invoke: what the server checks for a route of its own.       *)
InvokeTakes(r) ==
    LET own == SelectSeq(LimitsOf(r, FALSE), LAMBDA l : ~(Gated(r) /\ Caller(l)))
    IN  Takes(own, "local", "invoke")
        \o Takes(SelectSeq(own, LAMBDA l : l.limit.shared /\ ~Gated(r)), "shared", "invoke")

(* Mutant of ToolTargetTakes: the tool's gate is built like the route's.   *)
ToolTargetTakesAll(r) == ComposeTakes(r)

(* _tool_target.                                                           *)
ToolTargetTakes(r) == IF Gated(r) THEN GateTakes(r, FALSE) ELSE <<>>

McpPost == LET i == CHOOSE i \in DOMAIN server : server[i].id = <<"POST", "mcp">>
           IN  server[i]

(* Everything a request takes from on its way to the handler.              *)
Way(door, r) ==
    IF door = "tool"
    THEN ServerTakes(McpPost) \o SpecTakes(McpPost) \o InvokeTakes(r) \o ToolTargetTakes(r)
    ELSE ServerTakes(r) \o SpecTakes(r)

-----------------------------------------------------------------------------
(* A request                                                               *)

(* _socket_origins, and SocketOrigins::permits: a page of this host or of  *)
(* a listed origin; "*" counts only in websocket_origins.                  *)
SocketOrigins ==
    CASE app.websocket_origins # None -> app.websocket_origins
      [] app.websocket_origins = None /\ app.cors # None -> app.cors \ {"*"}
      [] OTHER -> {}

OriginPermitted(o) == o \in {"none", "host"} \cup SocketOrigins \/ "*" \in SocketOrigins

Idle == [end |-> "none", route |-> None, door |-> None, spent |-> <<>>, origin |-> None]

Arrive(r, door, o) ==
    visit' = [end |-> "going", route |-> r, door |-> door, spent |-> <<>>, origin |-> o]

HttpRequest ==
    /\ visit.end = "none"
    /\ \E i \in DOMAIN server : Arrive(server[i], server[i].kind, "none")
    /\ UNCHANGED <<app, routes, pool, document, tools, server, builds, broken>>

(* An upgrade from a page.                                                 *)
Upgrade ==
    /\ visit.end = "none"
    /\ \E i \in DOMAIN server, o \in {"host", "friend", "stranger"} :
          /\ server[i].kind = "socket"
          /\ OriginPermitted(o)
          /\ Arrive(server[i], "socket", o)
    /\ UNCHANGED <<app, routes, pool, document, tools, server, builds, broken>>

ToolCall ==
    /\ visit.end = "none" /\ tools # None /\ Has(server, <<"POST", "mcp">>)
    /\ \E i \in DOMAIN tools : Arrive(tools[i], "tool", "none")
    /\ UNCHANGED <<app, routes, pool, document, tools, server, builds, broken>>

(* The next limit lets it through or does not.                             *)
Take ==
    /\ visit.end = "going"
    /\ LET way == Way(visit.door, visit.route)
           next == Len(visit.spent) + 1
       IN  IF next > Len(way) THEN visit' = [visit EXCEPT !.end = "handled"]
           ELSE \E end \in {"going", "limited"} :
                   visit' = [visit EXCEPT !.spent = Append(@, way[next]), !.end = end]
    /\ UNCHANGED <<app, routes, pool, document, tools, server, builds, broken>>

-----------------------------------------------------------------------------
Init ==
    /\ app \in Apps
    /\ routes = <<>> /\ pool = 0 /\ document = None /\ tools = None
    /\ server = <<>> /\ builds = 0 /\ broken = FALSE /\ visit = Idle

Next ==
    \/ \E d \in Declarations : Declare(d)
    \/ BuildServer \/ HttpRequest \/ Upgrade \/ ToolCall \/ Take

Spec == Init /\ [][Next]_vars

-----------------------------------------------------------------------------
(* "A route's limit applies however it is reached": a request that reaches *)
(* its handler, over HTTP, as a tool or as a socket, has spent from every  *)
(* limit that applies to it, from both its halves, and none twice.         *)
Due == {[of |-> l.of, half |-> h] : l \in ToSet(LimitsOf(visit.route, TRUE)), h \in {"local"}}
       \cup {[of |-> l.of, half |-> "shared"] : l \in ToSet(SharedLimits(visit.route, TRUE))}

SpentOnce ==
    LET spent == [i \in DOMAIN visit.spent |->
                     [of |-> visit.spent[i].of, half |-> visit.spent[i].half]]
    IN  /\ \A i, j \in DOMAIN spent : i # j => spent[i] # spent[j]
        /\ visit.end = "handled" => ToSet(spent) = Due

(* A limit by caller is taken from once the caller is known, where the     *)
(* request that carries the credential has a gate.                         *)
CallerKnown ==
    \A i \in DOMAIN visit.spent :
        LET t == visit.spent[i]
            limit == IF t.of = "app" THEN app.limit ELSE visit.route.limit
            at == IF t.of = "app" /\ visit.door = "tool" THEN McpPost ELSE visit.route
        IN  (limit.key = "principal" /\ Gated(at)) <=> t.place = "gate"

(* The document describes what the server serves and nothing the app adds  *)
(* by itself, and a tool is a route of the server, however often it is     *)
(* built and whatever is declared in between.                              *)
DocumentHonest ==
    server # <<>> =>
        LET served == {server[i].id : i \in DOMAIN server}
        IN  /\ document # None =>
                  document \subseteq {server[i].id : i \in {j \in DOMAIN server :
                                                              server[j].own}}
            /\ tools # None => \A i \in DOMAIN tools : tools[i].id \in served

(* The agents' endpoint is whole or absent, and no route is served twice;  *)
(* unless a build failed in the middle of registering it.                  *)
McpWhole ==
    server # <<>> /\ ~broken =>
        /\ \A i, j \in DOMAIN server : server[i].id = server[j].id => i = j
        /\ \E i \in DOMAIN server : server[i].id = <<"POST", "mcp">> /\ ~server[i].own
           => \A m \in ToSet(McpMethods) : \E k \in DOMAIN server :
                 server[k].id = <<m, "mcp">> /\ ~server[k].own

(* Every blocking route runs in the pool the app has now: one pool for all *)
(* of them.                                                                *)
OnePool == \A i \in DOMAIN routes : routes[i].blocking => routes[i].pool = pool

(* CORS "*" opens no socket, and neither does an origin nobody listed.     *)
SocketsClosed ==
    visit.origin \in {"friend", "stranger"} =>
        \/ app.websocket_origins # None /\ {"*", visit.origin} \cap app.websocket_origins # {}
        \/ app.websocket_origins = None /\ app.cors # None /\ visit.origin \in app.cors

(* What App.build_server puts together, and where requests to it spend.    *)
Safety ==
    /\ visit.end \in {"none", "going", "limited", "handled"} /\ pool \in 0 .. MaxBuilds
    /\ SpentOnce /\ CallerKnown /\ DocumentHonest /\ McpWhole /\ OnePool /\ SocketsClosed

=============================================================================
