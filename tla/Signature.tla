------------------------------ MODULE Signature -----------------------------
(***************************************************************************)
(* From a handler's signature to a call of it: what build_route makes of   *)
(* each argument (_routing.py), and what a request over HTTP, or a tool    *)
(* call over MCP (_capabilities.py), then passes to the handler.           *)
(***************************************************************************)
EXTENDS Naturals, Sequences, FiniteSets

CONSTANTS
    Names,         \* argument names
    Parameters,    \* arguments a handler may have: [kind, ann, default]
    Paths,         \* paths: sequences of [name, star] placeholders
    Absent         \* no such argument

(* Positional-only, or one that a keyword can fill; its annotation, `odd`  *)
(* for a type nothing supports, `files` for a model with a file field; and *)
(* its default.                                                            *)
SignatureAssumption ==
    Parameters \subseteq
        [kind : {"positional", "keyword"},
         ann : {"str", "scalar", "optional", "model", "files", "stream", "none", "odd"},
         default : {"none", "value", "depends", "form"}]

VARIABLES
    fn,            \* per name, the handler's argument
    request,       \* how the first argument, the request, can be passed
    path,          \* the route's path
    flags,         \* [websocket, blocking, coroutine, tool]
    route,         \* "declared", "refused" or "accepted"
    wire,          \* "none", "http" or "tool": how it is being called
    outcome,       \* what became of the call: "none", "invalid", "called" or "broken"
    args           \* history: the names it gave values for

vars == <<fn, request, path, flags, route, wire, outcome, args>>

TypeOK ==
    /\ fn \in [Names -> Parameters \cup {Absent}]
    /\ request \in {"positional", "keyword"}
    /\ path \in Paths
    /\ route \in {"declared", "refused", "accepted"}
    /\ wire \in {"none", "http", "tool"}
    /\ outcome \in {"none", "invalid", "called", "broken"}
    /\ args \subseteq Names
    /\ wire # "none" => route = "accepted"
    /\ wire = "tool" => ~flags.websocket

(* Routes: plain, blocking, agent tools, sockets, and the two mistakes     *)
(* about `async def`.                                                      *)
Flags == {f \in [websocket : BOOLEAN, blocking : BOOLEAN, coroutine : BOOLEAN, tool : BOOLEAN] :
            Cardinality({x \in {"websocket", "blocking", "tool"} : f[x]}) <= 1}

Init ==
    /\ fn \in [Names -> Parameters \cup {Absent}]
    /\ request \in {"positional", "keyword"}
    /\ path \in Paths
    /\ flags \in Flags
    /\ route = "declared" /\ wire = "none" /\ outcome = "none" /\ args = {}

-----------------------------------------------------------------------------
(* build_route.                                                            *)

Accepted == {n \in Names : fn[n] # Absent}
Twice == \E i, j \in DOMAIN path : i # j /\ path[i].name = path[j].name
InPath(n) == \E i \in DOMAIN path : path[i].name = n
Wild(n) == \E i \in DOMAIN path : path[i].name = n /\ path[i].star

(* What an argument is bound from.  The path comes before anything its     *)
(* default or its annotation says.                                         *)
Role(n) ==
    IF InPath(n) THEN "path"
    ELSE IF fn[n].default = "depends" THEN "depends"
    ELSE IF fn[n].ann = "stream" THEN "stream"
    ELSE IF fn[n].default = "form" THEN "form"
    ELSE IF fn[n].ann \in {"model", "files"} THEN "body"
    ELSE "query"

By(role) == {n \in Accepted : Role(n) = role}
Bodies == By("stream") \cup By("form") \cup By("body")

(* How an absent query parameter is passed: it may not be, it is left to   *)
(* the handler's default, or it is None.                                   *)

(* Mutant of Presence: one that may be None is taken to have a default.    *)
PresenceByType(n) ==
    IF fn[n].default # "none" \/ fn[n].ann = "optional" THEN "omit" ELSE "required"

Presence(n) ==
    IF fn[n].default # "none" THEN "omit"
    ELSE IF fn[n].ann = "optional" THEN "null" ELSE "required"

(* A path parameter of a type the router coerces, str for the rest of the  *)
(* path.                                                                   *)
PathTyped(n) == fn[n].ann \in (IF Wild(n) THEN {"str", "none"} ELSE {"str", "scalar", "none"})

SecondBody == Cardinality(Bodies) > 1

Refused ==
    \/ flags.blocking /\ flags.websocket
    \/ flags.blocking = flags.coroutine
    \/ Twice
    \/ \E n \in Names : InPath(n) /\ fn[n] = Absent
    \/ \E n \in By("path") : ~PathTyped(n)
    \/ \E n \in By("form") : fn[n].ann \notin {"model", "files"}
    \/ \E n \in By("query") : fn[n].ann \in {"none", "odd"}
    \/ SecondBody
    \/ flags.websocket /\ Bodies # {}
    \/ flags.tool /\ By("stream") # {}
    \/ flags.tool /\ \E n \in By("form") : fn[n].ann = "files"

Register ==
    /\ route = "declared"
    /\ route' = IF Refused THEN "refused" ELSE "accepted"
    /\ UNCHANGED <<fn, request, path, flags, wire, outcome, args>>

-----------------------------------------------------------------------------
(* A call passes the request first, and everything else by name.  Python   *)
(* takes it if the handler has each argument it passes and that can be     *)
(* passed so, and every other has a default of its own; a Depends or a     *)
(* Form is only a mark.                                                    *)
Fits(supplied) ==
    /\ request = "positional"
    /\ supplied \subseteq Accepted
    /\ \A n \in supplied : fn[n].kind = "keyword"
    /\ \A n \in Accepted \ supplied : fn[n].default = "value"

(* What the route's own binding adds: its dependencies, and one argument   *)
(* of each kind of body.                                                   *)
OneOf(S) == IF S = {} THEN {} ELSE {CHOOSE n \in S : TRUE}
Bound == By("depends") \cup OneOf(By("stream")) \cup OneOf(By("form")) \cup OneOf(By("body"))

PathNames == {n \in Names : InPath(n)}

(* The server coerces path and query before it wakes a worker, and does    *)
(* not look at what the query says of other names.                         *)
FromRequest(given) ==
    PathNames \cup (By("query") \cap given)
    \cup {n \in By("query") : Presence(n) = "null"} \cup Bound

ServeHTTP ==
    /\ route = "accepted" /\ wire = "none"
    /\ wire' = "http"
    /\ \E given \in SUBSET Names, valid \in BOOLEAN :
         /\ args' = given
         /\ outcome' = IF ~valid \/ (\E n \in By("query") \ given : Presence(n) = "required")
                       THEN "invalid"
                       ELSE IF Fits(FromRequest(given)) THEN "called" ELSE "broken"
    /\ UNCHANGED <<fn, request, path, flags, route>>

(* Capability: what its input schema names and requires, and what invoke   *)
(* passes on.  A name that is neither a parameter nor a field of the body, *)
(* that of a dependency too, is refused.                                   *)
ToolKnows == PathNames \cup By("query")
ToolRequires == PathNames \cup {n \in By("query") : Presence(n) = "required"}

FromArguments(given) == given \cup Bound

CallTool ==
    /\ route = "accepted" /\ wire = "none" /\ flags.tool
    /\ wire' = "tool"
    /\ \E given \in SUBSET Names, valid \in BOOLEAN :
         /\ args' = given
         /\ outcome' = IF \/ ~valid
                          \/ ~(given \subseteq ToolKnows)
                          \/ ~(ToolRequires \subseteq given)
                       THEN "invalid"
                       ELSE IF Fits(FromArguments(given)) THEN "called" ELSE "broken"
    /\ UNCHANGED <<fn, request, path, flags, route>>

Next == Register \/ ServeHTTP \/ CallTool

Spec == Init /\ [][Next]_vars

-----------------------------------------------------------------------------
(* Properties.                                                             *)

(* The signatures that build_route accepts and Python then will not call:  *)
(* the request, or an argument that is passed, can only be passed another  *)
(* way; and, called as a tool, an argument that may be None, has no        *)
(* default and was left out.                                               *)
Callable == request = "positional" /\ \A n \in Accepted : fn[n].kind = "keyword"

Unpassable(n) ==
    fn[n].kind = "positional" /\ (n \in args \/ Role(n) # "query" \/ fn[n].default = "none")

LeftOut(n) ==
    wire = "tool" /\ n \notin args /\ Role(n) = "query"
    /\ fn[n].ann = "optional" /\ fn[n].default = "none"

(* A request that registration's checks and those of its arguments let     *)
(* through fails on the call itself for these reasons and no others:       *)
(* whatever the caller leaves out or adds, and whatever the handler        *)
(* declares, no other argument is missing, unexpected or passed as what    *)
(* the handler will not take (build_route, invoke).                        *)
FailsOnlySo ==
    outcome \in {"called", "broken"} =>
        (outcome = "broken" <=>
            request = "keyword" \/ \E n \in Accepted : Unpassable(n) \/ LeftOut(n))

(* Stated by _mcp.py: "The same service answers curl, an OpenAPI client and*)
(* an agent from one set of declarations."  Here: arguments that satisfy   *)
(* the schema the tool publishes call the handler.                         *)
AnswersAgents == wire = "tool" /\ Callable => outcome # "broken"

(* Stated by _routing.py: "Mistakes surface at import time with a message  *)
(* naming the handler, rather than as a confusing 500 later."              *)
SurfacesAtImport == outcome # "broken"

(* An accepted handler's call fails for the reasons FailsOnlySo names.     *)
Safety == TypeOK /\ FailsOnlySo

=============================================================================
