------------------------------ MODULE MCDoors --------------------------------
(***************************************************************************)
(* Model-checking instance of what a client comes up against before its    *)
(* requests are served as it wants: rate limits (RateLimit) and logging in *)
(* at a provider (LoginFlow).  They share no state, so a behaviour is one  *)
(* of either: `which` says of which, and the other stays where it starts.  *)
(* RateLimit is run twice, to look at its two halves and at its map.       *)
(***************************************************************************)
EXTENDS RateLimit, TLC

CONSTANTS p1, p2, k1, k2

VARIABLE which
(* LoginFlow.                                                              *)
CONSTANTS Browsers, Tabs, PendingLimit, PendingTTL, MaxAge, MaxLogins, MaxEdits, MaxOutages,
          LoginTime
VARIABLES today, jar, tab, logins, codes, faults

OneShared == {<<p1, k1>>, <<p1, k2>>, <<p2, k1>>}

Lg == INSTANCE LoginFlow WITH now <- today, MaxTime <- LoginTime

ASSUME LoginsAssumption == Lg!LoginAssumption

loginVars == <<today, jar, tab, logins, codes, faults>>

Symmetry == Permutations(Browsers) \cup Permutations(Tabs) \cup Permutations(Requests)

(* Bound: a behaviour has an edit or an outage of the provider, not both.  *)
OneFault == which = "login" => faults.edits + faults.outages >= 1

(* "limit": the requests of one key through both halves, one by one.       *)
OneByOne ==
    /\ Next /\ \A r \in Requests : req'[r].key \in {k1, None}
    /\ Cardinality({r \in Requests : req'[r].at # "idle"}) <= 1

(* "race": requests of one process at the same time, Redis not reached.    *)
OneProcess ==
    /\ Next /\ UNCHANGED redis
    /\ \A r \in Requests : req'[r].home \in {p1, None}

MCInit ==
    /\ which \in {"limit", "race", "login"}
    /\ Init /\ Lg!Init

MCNext ==
    \/ which = "limit" /\ OneByOne /\ UNCHANGED <<which, loginVars>>
    \/ which = "race" /\ OneProcess /\ UNCHANGED <<which, loginVars>>
    \/ which = "login" /\ Lg!Next /\ UNCHANGED <<which, vars>>

MCSpec == MCInit /\ [][MCNext]_<<which, vars, loginVars>>

(* A browser is only logged in as who logged in there, with a session of   *)
(* its own (LoginFlow).                                                    *)
LoginSafety == which = "login" => Lg!Safety

=============================================================================
