-------------------------------- MODULE Gate --------------------------------
(***************************************************************************)
(* Authentication of one request: the declarations schemes combine into,   *)
(* the shipped schemes, and Gate (src/python/oxbrook/auth.py, _auth.py).   *)
(* A declaration is a tree, run as a plan; every `await` of a scheme is a  *)
(* step.  The tree itself says who may pass (Satisfies), and is what the   *)
(* plan, the list of tools and the OpenAPI document are compared with.     *)
(***************************************************************************)
EXTENDS Naturals, Sequences, FiniteSets, SequencesExt

CONSTANTS
    Declarations,  \* the auth= arguments to try
    Scopes, Roles,
    MaxLimits,     \* bound on the limits keyed on the caller
    None

VARIABLES
    policy,        \* the route's declaration
    request,
    limits,        \* how many limits keyed on the caller, kept here or in Redis
    call           \* the gate's run: its place in the plan, what it spent, its end

vars == <<policy, request, limits, call>>

-----------------------------------------------------------------------------
(* Requirement, _Required, _Either, _Optional                              *)

Scheme(s) == [kind |-> "scheme", scheme |-> s]
Required(p, r) == [kind |-> "required", inner |-> p, requirement |-> r]
Either(ps) == [kind |-> "either", members |-> ps]
Optional(p) == [kind |-> "optional", inner |-> p]

(* requires(scopes, any_of=, roles=, check=); a check answers or raises.  *)
Requirement(allOf, anyOf, roles, check) ==
    [all_of |-> allOf, any_of |-> anyOf, roles |-> roles, check |-> check]

Checks == {None, "yes", "no", "raises"}

Held(r, found) ==
    /\ r.all_of \subseteq found.scopes
    /\ r.any_of = {} \/ r.any_of \cap found.scopes # {}
    /\ r.roles \subseteq found.roles

(* Requirement.met: the check runs last, and only when the rest holds.     *)
Met(r, found) ==
    IF ~Held(r, found) THEN "no" ELSE IF r.check = None THEN "yes" ELSE r.check

Missing(r, found) ==
    (r.all_of \ found.scopes)
        \cup (IF r.any_of \cap found.scopes = {} THEN r.any_of ELSE {})

MissingRoles(r, found) == r.roles \ found.roles

-----------------------------------------------------------------------------
(* plan: the tree flattened, each scheme once with every set of            *)
(* requirements it may satisfy                                             *)

RECURSIVE Alternatives(_)
Alternatives(p) ==
    CASE p.kind = "either" -> FlattenSeq([m \in DOMAIN p.members |-> Alternatives(p.members[m])])
      [] p.kind = "required" ->
            LET inner == Alternatives(p.inner)
            IN  [a \in DOMAIN inner |->
                    [inner[a] EXCEPT !.requirements = Append(@, p.requirement)]]
      [] OTHER -> <<[scheme |-> p.scheme, requirements |-> <<>>]>>

Anonymous(p) == p.kind = "optional"
Inner(p) == IF Anonymous(p) THEN p.inner ELSE p

Grouped(ways) ==
    LET first == SelectSeq([w \in DOMAIN ways |-> w],
                           LAMBDA w : \A v \in 1 .. w - 1 : ways[v].scheme # ways[w].scheme)
        Options(s) == LET own == SelectSeq(ways, LAMBDA w : w.scheme = s)
                      IN  [o \in DOMAIN own |-> own[o].requirements]
    IN  [f \in DOMAIN first |->
            [scheme |-> ways[first[f]].scheme, options |-> Options(ways[first[f]].scheme)]]

Plan(p) == Grouped(Alternatives(Inner(p)))

-----------------------------------------------------------------------------
(* The shipped schemes.  What authenticate answers: no credential of its   *)
(* kind, a wrong one, a principal, or another error.                       *)

Nothing == [is |-> "nothing"]
Wrong == [is |-> "wrong"]
Found(s) == [is |-> "found", scheme |-> s, scopes |-> request.scopes, roles |-> request.roles]

(* verify(): a principal, None, or an error of its own (a provider down).  *)
Verified(s, credential) ==
    CASE credential = "known" -> Found(s)
      [] credential = "unanswered" -> [is |-> "unavailable"]
      [] OTHER -> Wrong

Bearer ==
    IF request.authorization[1] # "bearer" THEN Nothing
    ELSE Verified("bearer", request.authorization[2])

APIKey == IF request.key = None THEN Nothing ELSE Verified("api_key", request.key)

(* Refused in clear text: the server speaks TLS, a proxy that did says so, *)
(* or the client is on this host.                                          *)
Secure == request.wire \in {"tls", "forwarded", "loopback"}

Basic ==
    IF request.authorization[1] # "basic" THEN Nothing
    ELSE IF request.authorization[2] = "malformed" \/ ~Secure THEN Wrong
    ELSE Verified("basic", request.authorization[2])

(* What a browser sends of the page behind a request (external): the site  *)
(* it is from, where the browser tells; the origin, for a request that can *)
(* change state; and a session's token, which only this site's page has.   *)
FetchSite ==
    CASE request.browser # "modern" -> None
      [] request.page = "ours" -> "same-origin"
      [] OTHER -> "cross-site"

Origin == IF request.browser = "ancient" \/ request.method = "GET" THEN None ELSE request.page

OffersToken == request.page = "ours" /\ request.browser = "ancient"

(* The Host the client used, or X-Forwarded-Host, names this server.       *)
SameOrigin(origin) == origin = "ours" /\ request.host \in {"kept", "forwarded"}

Trusted(origin) == origin = "trusted"

Forged ==
    /\ request.method # "GET"
    /\ FetchSite # "same-origin"
    /\ ~(Origin # None /\ (SameOrigin(Origin) \/ Trusted(Origin)))
    /\ Origin # None \/ FetchSite # None \/ ~OffersToken

(* A cookie that names nobody is no session, not a wrong credential.       *)
SessionAuth ==
    CASE request.cookie \in {None, "stale"} -> Nothing
      [] request.cookie \in {"user", "deleted"} /\ Forged -> [is |-> "forged"]
      [] request.cookie = "deleted" -> Nothing
      [] OTHER -> Found("session")

Authenticate(s) ==
    CASE s = "bearer" -> Bearer
      [] s = "api_key" -> APIKey
      [] s = "basic" -> Basic
      [] s = "session" -> SessionAuth

-----------------------------------------------------------------------------
(* Gate.__call__                                                           *)

Start == [pc |-> "schemes", at |-> 1, spent |-> <<>>, result |-> None]

At == Plan(policy)[call.at]
Trying == call.pc = "schemes" /\ call.at <= Len(Plan(policy))

End(result) == call' = [call EXCEPT !.pc = "done", !.result = result]

(* spend: one request from each limit, by the principal or the address;    *)
(* the first that is used up answers 429 and the rest are left.            *)
Spends(by, result) ==
    \E taken \in 0 .. limits :
       call' = [call EXCEPT !.pc = "done",
                            !.spent = [n \in 1 .. taken |-> by],
                            !.result = IF taken = limits THEN result ELSE "limited"]

NextScheme ==
    /\ Trying
    /\ Authenticate(At.scheme) = Nothing
    /\ call' = [call EXCEPT !.at = @ + 1]
    /\ UNCHANGED <<policy, request, limits>>

(* Mutant of WrongCredential: an optional route serves it as anonymous.    *)
WrongAnonymous ==
    /\ Trying
    /\ Authenticate(At.scheme) = Wrong
    /\ Spends("address", IF Anonymous(policy) THEN "anonymous" ELSE "unauthenticated")
    /\ UNCHANGED <<policy, request, limits>>

(* A wrong one ends the search: no other scheme, and not anonymous.        *)
WrongCredential ==
    /\ Trying
    /\ Authenticate(At.scheme) = Wrong
    /\ Spends("address", "unauthenticated")
    /\ UNCHANGED <<policy, request, limits>>

(* Any other error of a scheme goes up as it is.                           *)
SchemeRaises ==
    /\ Trying
    /\ Authenticate(At.scheme).is \in {"unavailable", "forged"}
    /\ End(Authenticate(At.scheme).is)
    /\ UNCHANGED <<policy, request, limits>>

(* One set of requirements, in order: the first not met, or a check that   *)
(* raises, decides.                                                        *)
Outcome(requirements, found) ==
    LET short == {i \in DOMAIN requirements : Met(requirements[i], found) # "yes"}
    IN  IF short = {} THEN "yes" ELSE Met(requirements[Min(short)], found)

(* The sets in order: the first met admits, a check that raises goes up.   *)
Admission(options, found) ==
    LET told == {i \in DOMAIN options : Outcome(options[i], found) # "no"}
    IN  IF told = {} THEN "forbidden"
        ELSE IF Outcome(options[Min(told)], found) = "yes" THEN "admitted"
        ELSE "check_raised"

Finds ==
    /\ Trying
    /\ Authenticate(At.scheme).is = "found"
    /\ Spends("principal", Admission(At.options, Authenticate(At.scheme)))
    /\ UNCHANGED <<policy, request, limits>>

NoCredential ==
    /\ call.pc = "schemes" /\ call.at > Len(Plan(policy))
    /\ Spends("address", IF Anonymous(policy) THEN "anonymous" ELSE "unauthenticated")
    /\ UNCHANGED <<policy, request, limits>>

(* forbidden: what the 403 says is missing, from the first set.            *)
MissingSaid ==
    UNION {Missing(At.options[1][i], Authenticate(At.scheme)) : i \in DOMAIN At.options[1]}
RolesSaid ==
    UNION {MissingRoles(At.options[1][i], Authenticate(At.scheme)) : i \in DOMAIN At.options[1]}

-----------------------------------------------------------------------------
(* Gate.permits, for a list: a scheme's HTTP error is a refusal, and a     *)
(* check that raises refuses only the set of requirements it is in.        *)
Permits ==
    LET plan == Plan(policy)
        shown == {i \in DOMAIN plan : Authenticate(plan[i].scheme) # Nothing}
    IN  IF shown = {} THEN Anonymous(policy)
        ELSE LET it == plan[Min(shown)]
                 found == Authenticate(it.scheme)
             IN  /\ found.is = "found"
                 /\ \E o \in DOMAIN it.options : Outcome(it.options[o], found) = "yes"

(* security: the OpenAPI alternatives, scheme and scopes.  any_of becomes  *)
(* one alternative per scope; roles and checks cannot be said.             *)
Documented(p) ==
    UNION {LET it == Plan(p)[i]
           IN  UNION {LET all == UNION {it.options[o][r].all_of : r \in DOMAIN it.options[o]}
                          asks == {r \in DOMAIN it.options[o] : it.options[o][r].any_of # {}}
                          choices == [asks -> Scopes]
                      IN  {<<it.scheme, all \cup {c[r] : r \in asks}>> :
                              c \in {c \in choices :
                                        \A r \in asks : c[r] \in it.options[o][r].any_of}}
                      : o \in DOMAIN it.options}
           : i \in DOMAIN Plan(p)}

(* authorization_servers: every scope a client could be asked for.         *)
ScopesSupported(p) ==
    UNION {UNION {UNION {it.options[o][r].all_of \cup it.options[o][r].any_of
                         : r \in DOMAIN it.options[o]}
                  : o \in DOMAIN it.options}
           : it \in Range(Plan(p))}

-----------------------------------------------------------------------------
(* The requests to try: an API client's headers, or a browser's, with the  *)
(* page behind it.                                                         *)
Plain ==
    [authorization |-> <<None>>, key |-> None, cookie |-> None, wire |-> "tls",
     method |-> "GET", page |-> "ours", browser |-> "modern", host |-> "kept",
     scopes |-> Scopes, roles |-> Roles]

ClientRequests ==
    {[Plain EXCEPT !.authorization = a, !.key = k, !.cookie = c, !.wire = w,
                   !.scopes = ss, !.roles = rs] :
        a \in {<<None>>} \cup ({"bearer"} \X {"empty", "known", "unknown", "unanswered"})
                 \cup ({"basic"} \X {"malformed", "known"}),
        k \in {None, "known", "unknown"}, c \in {None, "user"}, w \in {"tls", "plain"},
        ss \in SUBSET Scopes, rs \in SUBSET Roles}

BrowserRequests ==
    {[Plain EXCEPT !.cookie = c, !.authorization = a, !.method = m, !.page = p,
                   !.browser = b, !.host = h] :
        c \in {None, "stale", "user", "deleted"}, a \in {<<None>>, <<"bearer", "known">>},
        m \in {"GET", "POST"}, p \in {"ours", "trusted", "other"},
        b \in {"modern", "old", "ancient"}, h \in {"kept", "forwarded", "rewritten"}}

Init ==
    /\ policy \in Declarations
    /\ request \in ClientRequests \cup BrowserRequests
    /\ limits \in 0 .. MaxLimits
    /\ call = Start

Next == NextScheme \/ WrongCredential \/ SchemeRaises \/ Finds \/ NoCredential

Spec == Init /\ [][Next]_vars

-----------------------------------------------------------------------------
(* Who the tree itself lets pass with a principal of scheme s.             *)
RECURSIVE Satisfies(_, _, _)
Satisfies(p, s, found) ==
    CASE p.kind = "either" -> \E m \in DOMAIN p.members : Satisfies(p.members[m], s, found)
      [] p.kind = "required" ->
            Met(p.requirement, found) = "yes" /\ Satisfies(p.inner, s, found)
      [] p.kind = "optional" -> Satisfies(p.inner, s, found)
      [] OTHER -> p.scheme = s

RECURSIVE Mentions(_)
Mentions(p) ==
    CASE p.kind = "either" -> UNION {Mentions(m) : m \in Range(p.members)}
      [] p.kind \in {"required", "optional"} -> Mentions(p.inner)
      [] OTHER -> {p.scheme}

RECURSIVE Asks(_)
Asks(p) ==
    CASE p.kind = "either" -> UNION {Asks(m) : m \in Range(p.members)}
      [] p.kind = "required" -> {p.requirement} \cup Asks(p.inner)
      [] p.kind = "optional" -> Asks(p.inner)
      [] OTHER -> {}

Presented == {s \in Mentions(policy) : Authenticate(s) # Nothing}
Done == call.pc = "done"

TypeOK ==
    /\ policy \in Declarations /\ limits \in 0 .. MaxLimits
    /\ call.pc \in {"schemes", "done"} /\ call.at \in 1 .. Cardinality(Mentions(policy)) + 1
    /\ Len(call.spent) <= limits
    /\ call.result \in {None, "admitted", "anonymous", "unauthenticated", "forbidden",
                        "limited", "unavailable", "forged", "check_raised"}

(* A caller is let in as somebody only if a scheme of the declaration      *)
(* found them and the tree is satisfied; and one that satisfies it by the  *)
(* one credential it sent is let in, whichever of a scheme's alternatives  *)
(* it satisfies.                                                           *)
AdmitsByTheTree ==
    Done =>
       /\ call.result = "admitted" =>
             \E s \in Presented : /\ Authenticate(s).is = "found"
                                  /\ Satisfies(policy, s, Authenticate(s))
       /\ (/\ Cardinality(Presented) = 1
           /\ \E s \in Presented : /\ Authenticate(s).is = "found"
                                   /\ Satisfies(policy, s, Authenticate(s))
           /\ \A r \in Asks(policy) : r.check # "raises")
          => call.result \in {"admitted", "limited"}

(* "An expired token is not the same as none": a request with a credential *)
(* of any kind the route reads is never served as anonymous.               *)
NeverDemoted == call.result = "anonymous" => Presented = {}

(* A page of another site never acts with the user's session, and the      *)
(* site's own page is never refused as one, in whichever way its browser   *)
(* says who it is.                                                         *)
CrossSiteRefused ==
    Done /\ Mentions(policy) = {"session"} =>
       /\ request.page = "other" /\ request.method # "GET" => call.result # "admitted"
       /\ request.page = "ours" /\ request.host = "kept" => call.result # "forged"

(* The limits keyed on the caller are spent once each, by the principal    *)
(* when one was found and by the address when none was, also for a wrong   *)
(* credential; a 429 leaves the limits after the one that refused alone.   *)
SpentByCaller ==
    /\ call.result \in {"admitted", "forbidden", "check_raised"} =>
          call.spent = [n \in 1 .. limits |-> "principal"]
    /\ call.result \in {"unauthenticated", "anonymous"} =>
          call.spent = [n \in 1 .. limits |-> "address"]
    /\ call.result = "limited" => Len(call.spent) < limits

(* "Every request spends from them exactly once ... including a credential *)
(* that failed" (Gate's docstring).                                        *)
EveryRequestSpends == Done /\ call.result # "limited" => Len(call.spent) = limits

(* A list shows a caller exactly what a call would let it do, but for a    *)
(* call in which a check raises.                                           *)
ListedIfCallable ==
    Done /\ call.result \notin {"limited", "check_raised"} =>
       (Permits <=> call.result \in {"admitted", "anonymous"})

(* A caller that comes back with the scopes and roles a 403 named is let   *)
(* in, unless what failed was a check of the application's.                *)
RefusalIsFixable ==
    call.result = "forbidden" /\ (\A r \in Asks(policy) : r.check = None) =>
       Satisfies(policy, At.scheme,
                 [Authenticate(At.scheme) EXCEPT !.scopes = @ \cup MissingSaid,
                                                 !.roles = @ \cup RolesSaid])

(* Where scopes are all that is asked, the OpenAPI document's alternatives *)
(* are those of the tree, and the scopes the metadata lists are enough.    *)
DocumentedAsChecked ==
    (\A r \in Asks(policy) : r.check = None /\ r.roles = {}) =>
       \A s \in Mentions(policy) :
          LET Passes(scopes) == Satisfies(policy, s, [scopes |-> scopes, roles |-> {}])
          IN  /\ \A scopes \in SUBSET Scopes :
                    Passes(scopes) <=> \E d \in Documented(policy) :
                                          d[1] = s /\ d[2] \subseteq scopes
              /\ Passes(ScopesSupported(policy))

(* Who is let in, at what cost, and that the lists and documents agree.    *)
Safety ==
    /\ TypeOK
    /\ AdmitsByTheTree /\ NeverDemoted /\ CrossSiteRefused /\ SpentByCaller
    /\ ListedIfCallable /\ RefusalIsFixable /\ DocumentedAsChecked

=============================================================================
