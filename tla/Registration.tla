---------------------------- MODULE Registration ----------------------------
(***************************************************************************)
(* How routes reach the application: declared on routers, which include    *)
(* one another, and flattened into the app when it includes one            *)
(* (_routers.py Router, _app.py route, _add, static and include).          *)
(*                                                                         *)
(* A path is a sequence of segments, a literal or a parameter.  A handler  *)
(* is known by the parameters it accepts.  A call that raises changes      *)
(* nothing, but for what `include` had done before it raised; it is an     *)
(* action only where that is something.                                    *)
(***************************************************************************)
EXTENDS Naturals, Sequences, FiniteSets, SequencesExt

CONSTANTS
    Routers,       \* routers
    PrefixChoices, \* prefixes that the routers may be given, per router
    Literals,      \* literal segments; every other one is a parameter
    Declarations,  \* [method, path, accepts, auth] that a route may be declared with
    Mounts,        \* prefixes of static files
    Outers,        \* prefixes that a router may be included under
    MaxRoutes,     \* bound: routes, and mounts, declared on a router
    MaxChildren,   \* bound: routers that a router includes, one of them twice too
    MaxOwn,        \* bound: routes of the app up to which it declares its own
    MaxIncludes    \* bound: calls of app.include, of any router

VARIABLES
    prefix,        \* per router, its prefix
    auth,          \* per router and for "app": "unset", "none" or "policy"
    declared,      \* Router._declared
    children,      \* Router._children: each a router and the prefix it is under
    chain,         \* routers that have middleware
    statics,       \* Router._statics, without the options
    included,      \* Router._included
    routes,        \* App.routes
    mounts,        \* App.mounts
    \* History.
    whole,         \* the routers, and the prefixes under which, the app has included
    includes       \* calls of app.include

routerVars == <<declared, children, chain, statics>>
vars == <<prefix, auth, declared, children, chain, statics, included, routes, mounts, whole, includes>>

IsParam(seg) == seg \notin Literals
Params(path) == {path[i] : i \in {j \in DOMAIN path : IsParam(path[j])}}

(* The path with parameter names replaced, for conflict detection.         *)
RouteShape(path) == [i \in DOMAIN path |-> IF IsParam(path[i]) THEN "{}" ELSE path[i]]

(* build_route, as far as a path decides it: its parameters are accepted,  *)
(* and none is there twice.                                                *)
Valid(d, path) ==
    /\ Params(path) \subseteq d.accepts
    /\ Cardinality(Params(path)) = Cardinality({i \in DOMAIN path : IsParam(path[i])})

(* The shapes of a mount: its prefix, with a slash, and all below it.      *)
MountShapes(p) == {p, p \o <<"">>, p \o <<"{}">>}

-----------------------------------------------------------------------------
(* Flattening. `via` is the sequence of routers from the one included,     *)
(* each with the prefix it was included under.                             *)

Entry(r, outer) == [router |-> r, outer |-> outer]
At(via) == Last(via).router
Passed(via) == [i \in DOMAIN via |-> via[i].router]

RECURSIVE Cyclic(_, _)
Cyclic(r, seen) ==
    r \in seen \/ \E c \in ToSet(children[r]) : Cyclic(c.router, seen \cup {r})

RECURSIVE Vias(_)
Vias(via) ==
    <<via>> \o FlattenSeq([i \in 1..Len(children[At(via)]) |->
                             Vias(Append(via, children[At(via)][i]))])

Base(via) == FlattenSeq([i \in DOMAIN via |-> via[i].outer \o prefix[via[i].router]])

(* _auth.resolve: the nearest declaration.                                 *)
Nearest(declarations) ==
    LET said == SelectSeq(declarations, LAMBDA a : a # "unset")
    IN  IF said = <<>> THEN "none" ELSE Last(said)

(* What the routers of `via` say together, handed down as _flatten does.   *)
Inherited(via) == Nearest([i \in DOMAIN via |-> auth[via[i].router]])

(* A router's own declarations, as the app would serve them.               *)
Own(via) ==
    [i \in 1..Len(declared[At(via)]) |->
       LET d == declared[At(via)][i]
       IN  [method |-> d.method, path |-> Base(via) \o d.path, decl |-> d, via |-> via,
            auth |-> Nearest(<<auth["app"]>> \o [j \in DOMAIN via |-> auth[via[j].router]]
                              \o <<d.auth>>),
            chain |-> SelectSeq(Passed(via), LAMBDA r : r \in chain)]]

(* Static mounts below `via`, and whether auth= covers them.               *)
Covered(via) == statics[At(via)] # <<>> /\ Inherited(via) = "policy"

Unserved(via) == \E x \in ToSet(Own(via)) : ~Valid(x.decl, x.path)

-----------------------------------------------------------------------------

TypeOK ==
    /\ prefix \in PrefixChoices
    /\ auth \in [Routers \cup {"app"} -> {"unset", "none", "policy"}]
    /\ declared \in [Routers -> Seq(Declarations)]
    /\ children \in [Routers -> Seq([router : Routers, outer : Outers])]
    /\ chain \subseteq Routers /\ statics \in [Routers -> Seq(Mounts)]
    /\ included \in [Routers -> BOOLEAN] /\ whole \subseteq [router : Routers, outer : Outers]
    /\ mounts \in Seq([path : Seq(Literals), via : Seq([router : Routers, outer : Outers])])
    /\ \A e \in whole : \A via \in ToSet(Vias(<<e>>)) : included[At(via)]

Init ==
    /\ prefix \in PrefixChoices
    /\ auth \in [Routers \cup {"app"} -> {"unset", "none", "policy"}]
    /\ auth["app"] # "none"   \* for the app, as good as unset
    /\ declared = [r \in Routers |-> <<>>] /\ children = [r \in Routers |-> <<>>]
    /\ chain = {} /\ statics = [r \in Routers |-> <<>>]
    /\ included = [r \in Routers |-> FALSE]
    /\ routes = <<>> /\ mounts = <<>> /\ whole = {} /\ includes = 0

(* _mutable: a router that was included does not change.                   *)
Mutable(r) == ~included[r]

(* Router.route and the decorator it returns.                              *)
Declare(r) ==
    /\ Mutable(r)
    /\ Len(declared[r]) < MaxRoutes
    /\ \E d \in Declarations :
         /\ prefix[r] \o d.path # <<>>
         /\ Valid(d, prefix[r] \o d.path)
         /\ \A i \in DOMAIN declared[r] :
              ~(/\ declared[r][i].method = d.method
                /\ RouteShape(declared[r][i].path) = RouteShape(d.path))
         /\ declared' = [declared EXCEPT ![r] = Append(@, d)]
    /\ UNCHANGED <<prefix, auth, children, chain, statics, included, routes, mounts, whole, includes>>

Include(r, c, outer) ==
    /\ Mutable(r)
    /\ r # c
    /\ Len(children[r]) < MaxChildren
    /\ children' = [children EXCEPT ![r] = Append(@, Entry(c, outer))]
    /\ UNCHANGED <<prefix, auth, declared, chain, statics, included, routes, mounts, whole, includes>>

Middleware(r) ==
    /\ Mutable(r)
    /\ chain' = chain \cup {r}
    /\ UNCHANGED <<prefix, auth, declared, children, statics, included, routes, mounts, whole, includes>>

Static(r, p) ==
    /\ Mutable(r)
    /\ Len(statics[r]) < MaxRoutes
    /\ Params(prefix[r] \o p) = {}
    /\ statics' = [statics EXCEPT ![r] = Append(@, p)]
    /\ UNCHANGED <<prefix, auth, declared, children, chain, included, routes, mounts, whole, includes>>

(* What a route of the app cannot stand beside: one of its method and      *)
(* shape, and for GET the files of a mount.                                *)
Conflicts(x, y) == x.method = y.method /\ RouteShape(x.path) = RouteShape(y.path)
InMount(x, m) == x.method = "GET" /\ RouteShape(x.path) \in MountShapes(m.path)

Refuses(served, x) ==
    \/ \E i \in DOMAIN served : Conflicts(served[i], x)
    \/ \E i \in DOMAIN mounts : InMount(x, mounts[i])

(* _add, for each in turn, as far as the first that raises.                *)
Added(new) ==
    FoldLeft(LAMBDA acc, x :
               IF ~acc.ok \/ Refuses(acc.routes, x) THEN [acc EXCEPT !.ok = FALSE]
               ELSE [acc EXCEPT !.routes = Append(@, x)],
             [ok |-> TRUE, routes |-> routes], new)

(* The mounts of the routers included.                                     *)
NewMounts(vias) ==
    FlattenSeq([i \in DOMAIN vias |->
        LET own == statics[At(vias[i])]
        IN  [k \in DOMAIN own |-> [path |-> Base(vias[i]) \o own[k], via |-> vias[i]]]])

(* build_mount and App.static: no parameter in the prefix, no route and no *)
(* other mount in the way.                                                 *)
MountRefused(served, m, others) ==
    \/ Params(m.path) # {}
    \/ \E i \in DOMAIN served : InMount(served[i], m)
    \/ \E i \in DOMAIN others : MountShapes(others[i].path) \cap MountShapes(m.path) # {}

(* App.static, for each in turn, as far as the first that raises.          *)
Mounted(served, new) ==
    FoldLeft(LAMBDA acc, m :
               IF ~acc.ok \/ MountRefused(served, m, acc.mounts) THEN [acc EXCEPT !.ok = FALSE]
               ELSE [acc EXCEPT !.mounts = Append(@, m)],
             [ok |-> TRUE, mounts |-> mounts], new)

(* _flatten: each router it comes to is included, its own routes are built *)
(* and then those of its children; one that cannot be built ends it there. *)
Reached(vias) ==
    {At(vias[i]) : i \in {j \in DOMAIN vias : \A k \in 1..(j - 1) : ~Unserved(vias[k])}}

(* App.include: nothing for a cycle or files under auth=; otherwise the    *)
(* routers are frozen, the routes added, then the files, as far as the     *)
(* first that raises.                                                      *)
Registered(vias) ==
    LET built == \A i \in DOMAIN vias : ~Unserved(vias[i])
        added == Added(FlattenSeq([i \in DOMAIN vias |-> Own(vias[i])]))
        mounted == Mounted(added.routes, NewMounts(vias))
    IN  IF ~built THEN [routes |-> routes, mounts |-> mounts, whole |-> FALSE]
        ELSE IF ~added.ok THEN [routes |-> added.routes, mounts |-> mounts, whole |-> FALSE]
        ELSE [routes |-> added.routes, mounts |-> mounted.mounts, whole |-> mounted.ok]

AppInclude(r, outer) ==
    /\ includes < MaxIncludes
    /\ includes' = includes + 1
    /\ ~Cyclic(r, {})
    /\ \E vias \in {Vias(<<Entry(r, outer)>>)} :
          /\ \A i \in DOMAIN vias : ~Covered(vias[i])
          /\ included' = [x \in Routers |-> included[x] \/ x \in Reached(vias)]
          /\ \E done \in {Registered(vias)} :
                /\ routes' = done.routes
                /\ mounts' = done.mounts
                /\ whole' = IF done.whole THEN whole \cup {Entry(r, outer)} ELSE whole
    /\ UNCHANGED <<prefix, auth, routerVars>>

(* App.route and the decorator it returns.                                 *)
AppRoute(d) ==
    /\ Valid(d, d.path)
    /\ Len(routes) < MaxOwn
    /\ LET x == [method |-> d.method, path |-> d.path, decl |-> d, via |-> <<>>,
                 auth |-> Nearest(<<auth["app"], d.auth>>), chain |-> <<>>]
       IN  /\ ~Refuses(routes, x)
           /\ routes' = Append(routes, x)
    /\ UNCHANGED <<prefix, auth, routerVars, included, mounts, whole, includes>>

(* App.static.                                                             *)
AppStatic(p) ==
    /\ LET m == [path |-> p, via |-> <<>>]
       IN  /\ ~MountRefused(routes, m, mounts)
           /\ mounts' = Append(mounts, m)
    /\ UNCHANGED <<prefix, auth, routerVars, included, routes, whole, includes>>

Next ==
    \/ \E r \in Routers : Declare(r) \/ Middleware(r)
    \/ \E r, c \in Routers, outer \in Outers : Include(r, c, outer)
    \/ \E r \in Routers, outer \in Outers : AppInclude(r, outer)
    \/ \E r \in Routers, p \in Mounts : Static(r, p)
    \/ \E p \in Mounts : AppStatic(p)
    \/ \E d \in Declarations : AppRoute(d)

Spec == Init /\ [][Next]_vars

-----------------------------------------------------------------------------
(* Properties.                                                             *)

(* The server's router can hold what is registered: no two routes of a     *)
(* method and shape, no GET in the way of a mount's files and no mount in  *)
(* that of another, in whatever order routers, routes and mounts came and  *)
(* whichever include failed half-way (_add, static).                       *)
RouterHolds ==
    /\ \A i, j \in DOMAIN routes :
         i # j /\ routes[i].method = routes[j].method
           => RouteShape(routes[i].path) # RouteShape(routes[j].path)
    /\ \A i \in DOMAIN routes, k \in DOMAIN mounts : ~InMount(routes[i], mounts[k])
    /\ \A k, l \in DOMAIN mounts :
         k # l => MountShapes(mounts[k].path) \cap MountShapes(mounts[l].path) = {}

(* Every path of routers from one the app includes.                        *)
Reachable(e) ==
    LET Entries == {e} \cup UNION {ToSet(children[r]) : r \in Routers}
    IN  {v \in UNION {[1..n -> Entries] : n \in 1..Cardinality(Routers)} :
           v[1] = e /\ \A i \in 1..(Len(v) - 1) : v[i + 1] \in ToSet(children[v[i].router])}

(* What was said nearest to a declaration, looking outwards.               *)
SaidNearest(v, d) ==
    LET said == <<auth["app"]>> \o [j \in DOMAIN v |-> auth[v[j].router]] \o <<d.auth>>
        heard == {k \in DOMAIN said : said[k] # "unset"}
    IN  IF heard = {} THEN "none" ELSE said[CHOOSE k \in heard : \A l \in heard : l <= k]

(* Whatever was declared on a router that the app has included, or on one  *)
(* below it, is served at its full path, under the authentication declared *)
(* nearest to it and inside the middleware of every router on the way: a   *)
(* router cannot change where it would no longer be seen (_mutable,        *)
(* _flatten, _auth.resolve).                                               *)
ServedAsDeclared ==
    \A e \in whole : \A v \in Reachable(e) : \A i \in DOMAIN declared[At(v)] :
        \E k \in DOMAIN routes :
            LET d == declared[At(v)][i]
            IN  /\ routes[k].method = d.method
                /\ routes[k].path = Base(v) \o d.path
                /\ routes[k].auth = SaidNearest(v, d)
                /\ routes[k].chain = SelectSeq(Passed(v), LAMBDA x : x \in chain)

(* No files that a router's auth= covers are served, though files are      *)
(* served before authentication (_mounts).                                 *)
NoHiddenFiles ==
    \A k \in DOMAIN mounts : mounts[k].via # <<>> => Inherited(mounts[k].via) # "policy"

(* What the application serves is what its routers declared, in whatever   *)
(* order they were built and included.                                     *)
Safety == TypeOK /\ RouterHolds /\ ServedAsDeclared /\ NoHiddenFiles

=============================================================================
