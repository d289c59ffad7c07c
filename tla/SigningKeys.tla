----------------------------- MODULE SigningKeys -----------------------------
(***************************************************************************)
(* Tokens checked against a provider's published keys: KeySet in           *)
(* src/python/oxbrook/_jwks.py under _Signed.check and OIDC in             *)
(* src/python/oxbrook/auth.py.  Worker loops check tokens; fetches run on  *)
(* threads of a pool; the keys, and the memory of tokens that verified,    *)
(* are shared by all of them.  A step is what one thread does between two  *)
(* points at which another can see the difference: a lock, an await, a     *)
(* read of a shared attribute.                                             *)
(*                                                                         *)
(* A clock is kept only as the two ages the code compares, each up to the  *)
(* largest value that still makes a difference.                            *)
(***************************************************************************)
EXTENDS Naturals, Sequences, FiniteSets, SequencesExt

CONSTANTS
    Loops,
    Tokens,
    Threads,       \* of the pool
    Header,        \* per token: the key id in its header, or None
    Signer,        \* per token: the key that signed it
    Unaccepted,    \* tokens whose algorithm is not one of the provider's, or
                   \* not one for their key
    FirstKeys, LaterKeys, \* what the provider publishes, and replaces it with
    Retry, Refetch, MaxAge,
    CacheSize,
    None,
    Mortal,        \* tokens that may expire meanwhile
    MaxOutages     \* bound: fetches that fail

ASSUME KeysAssumption ==
    /\ None \notin Loops \cup Tokens \cup Threads
    /\ Retry \in Nat \ {0} /\ Refetch \in Nat /\ Refetch >= Retry /\ MaxAge \in Nat
    /\ CacheSize \in Nat /\ MaxOutages \in Nat

VARIABLES
    published,     \* at the provider
    outages,       \* fetches that may still fail
    keys,          \* KeySet.keys
    fetching,      \* KeySet._fetching: a thread, or None
    gap,           \* time since _attempted, up to Refetch
    age,           \* time since _fetched, up to MaxAge + 1
    behind,        \* _attempted > _fetched
    thread,        \* per thread: where its fetch is
    got,           \* per thread: what it fetched
    verified,      \* _Signed._verified: the tokens in it, oldest first
    expired,       \* tokens whose exp has passed
    check          \* per loop: the check it is in

provider == <<published, outages>>
keyset == <<keys, fetching, gap, age, behind>>
pool == <<thread, got>>
memory == <<verified, expired>>
vars == <<provider, keyset, pool, memory, check>>

(* at: where; token; keys: those it has read; spacing: what it has read of *)
(* the ages; awaits: the thread whose fetch it waits for.                  *)
Idle == [at |-> "idle", token |-> None, keys |-> {}, spacing |-> 0, awaits |-> None]
At(l, where) == check[l].at = where
Moved(l, where) == [check[l] EXCEPT !.at = where]
Becomes(l, c) == check' = [check EXCEPT ![l] = c]

-----------------------------------------------------------------------------
(* KeySet._start, under the lock                                           *)

Spaced(wait) == gap < wait

(* Mutant of Begins: every request that wants a fetch starts one.          *)
BeginsAnyway(wait) == ~Spaced(wait)

Begins(wait) == fetching = None /\ ~Spaced(wait)

(* What becomes of the check c: `then` when there is a fetch in flight, a  *)
(* new one or another's, and waiting for it when it asked to.              *)
Start(l, wait, waits, then, otherwise) ==
    \/ /\ Begins(wait)
       /\ \E t \in Threads :
             /\ thread[t] = "free"
             /\ thread' = [thread EXCEPT ![t] = "asking"]
             /\ fetching' = t
             /\ Becomes(l, IF waits THEN [then EXCEPT !.awaits = t] ELSE then)
       /\ gap' = 0 /\ behind' = TRUE
       /\ UNCHANGED <<provider, keys, age, got, memory>>
    \/ /\ ~Begins(wait)
       /\ Becomes(l, CASE fetching = None -> otherwise
                       [] fetching # None /\ waits -> [then EXCEPT !.awaits = fetching]
                       [] OTHER -> then)
       /\ UNCHANGED <<provider, keyset, pool, memory>>

-----------------------------------------------------------------------------
(* _Signed.check                                                           *)

Begin(l, t) ==
    /\ At(l, "idle")
    /\ Becomes(l, [Idle EXCEPT !.at = "look", !.token = t])
    /\ UNCHANGED <<provider, keyset, pool, memory>>

Remembered(t) == Contains(verified, t)

(* refresh_if_stale reads without the lock, and calls _start for keys that *)
(* are too old.  A hit is answered then, a miss goes on.                   *)
Stale == keys # None /\ age > MaxAge
Onward(c) == IF c.keys = {} THEN Idle ELSE [c EXCEPT !.at = "pick", !.spacing = 0]
Fresh(c) ==
    IF Stale THEN [c EXCEPT !.at = "refresh", !.spacing = IF behind THEN Retry ELSE 0]
    ELSE Onward(c)

(* A remembered token is good until it expires; a hit still looks whether  *)
(* the keys are stale.                                                     *)
Look(l) ==
    /\ At(l, "look")
    /\ LET t == check[l].token
           hit == Remembered(t) /\ t \notin expired
       IN  /\ verified' = IF hit THEN verified ELSE RemoveFirst(verified, t)
           /\ Becomes(l, IF hit THEN Fresh(check[l]) ELSE Moved(l, "find"))
    /\ UNCHANGED <<provider, keyset, pool, expired>>

Refresh(l) ==
    /\ At(l, "refresh")
    /\ Start(l, check[l].spacing, FALSE, Onward(check[l]), Onward(check[l]))

-----------------------------------------------------------------------------
(* KeySet.find                                                             *)

(* Without keys: a fetch, or 503 when one has failed moments ago.          *)
FindFirst(l) ==
    /\ At(l, "find") /\ keys = None
    /\ Start(l, Retry, TRUE, Moved(l, "first"), Idle)

Find(l) ==
    /\ At(l, "find") /\ keys # None
    /\ Becomes(l, Fresh([check[l] EXCEPT !.keys = keys]))
    /\ UNCHANGED <<provider, keyset, pool, memory>>

(* _pick: a token without a key id only where there is one key.            *)
Picked(set, t) ==
    IF Header[t] = None THEN (IF Cardinality(set) = 1 THEN set ELSE {})
    ELSE set \cap {Header[t]}

(* _decode: the signature, and exp.                                        *)
Decodes(set, t) == t \notin Unaccepted \cup expired /\ Signer[t] \in Picked(set, t)

Verdict(l) ==
    IF Decodes(check[l].keys, check[l].token)
    THEN [Moved(l, "remember") EXCEPT !.keys = {}] ELSE Idle

(* A key id that is not there asks for the keys again; an algorithm that   *)
(* is not accepted is refused before that.                                 *)
Unknown(l) ==
    LET t == check[l].token
    IN  t \notin Unaccepted /\ Header[t] # None /\ Picked(check[l].keys, t) = {}

Pick(l) ==
    /\ At(l, "pick") /\ ~Unknown(l)
    /\ Becomes(l, Verdict(l))
    /\ UNCHANGED <<provider, keyset, pool, memory>>

Refetched(l) ==
    /\ At(l, "pick") /\ Unknown(l)
    /\ Start(l, Refetch, TRUE, [Moved(l, "again") EXCEPT !.keys = {}], Idle)

PickAgain(l) ==
    /\ At(l, "repick")
    /\ Becomes(l, Verdict(l))
    /\ UNCHANGED <<provider, keyset, pool, memory>>

(* A request given up leaves the fetch to the others.                      *)
GiveUp(l) ==
    /\ check[l].awaits # None
    /\ Becomes(l, Idle)
    /\ UNCHANGED <<provider, keyset, pool, memory>>

-----------------------------------------------------------------------------
(* _remember                                                               *)

(* The oldest quarter makes room, unless another loop changes the memory   *)
(* meanwhile.                                                              *)
Quarter == IF CacheSize \div 4 > 1 THEN CacheSize \div 4 ELSE 1

Trim(l) ==
    /\ At(l, "remember")
    /\ \/ verified' = IF Len(verified) >= CacheSize
                      THEN SubSeq(verified, Quarter + 1, Len(verified)) ELSE verified
       \/ (\E k \in Loops \ {l} : ~At(k, "idle")) /\ UNCHANGED verified
    /\ Becomes(l, Moved(l, "insert"))
    /\ UNCHANGED <<provider, keyset, pool, expired>>

Remember(l) ==
    /\ At(l, "insert")
    /\ verified' = IF CacheSize = 0 \/ Remembered(check[l].token) THEN verified
                   ELSE Append(verified, check[l].token)
    /\ Becomes(l, Idle)
    /\ UNCHANGED <<provider, keyset, pool, expired>>

-----------------------------------------------------------------------------
(* KeySet._fetch, on a thread                                              *)

(* The future's answer reaches every loop that waits for this thread: the  *)
(* keys it fetched, or for a failure the keys there are by now.            *)
Answer(t, failed) ==
    /\ thread' = [thread EXCEPT ![t] = "free"]
    /\ got' = [got EXCEPT ![t] = {}]
    /\ check' = [l \in Loops |->
          CASE check[l].awaits # t -> check[l]
            [] check[l].awaits = t /\ At(l, "first") /\ failed -> Idle
            [] OTHER -> [check[l] EXCEPT
                           !.at = IF @ = "first" THEN "pick" ELSE "repick",
                           !.awaits = None,
                           !.keys = CASE ~failed -> got[t]
                                      [] failed /\ keys # None -> keys
                                      [] OTHER -> {}]]

FetchOk(t) ==
    /\ thread[t] = "asking"
    /\ got' = [got EXCEPT ![t] = published]
    /\ thread' = [thread EXCEPT ![t] = "got"]
    /\ UNCHANGED <<provider, keyset, memory, check>>

(* Mutant of FetchFails: the attempt stays in the way of the next.         *)
FetchFailsStuck(t) ==
    /\ thread[t] = "asking" /\ outages > 0
    /\ outages' = outages - 1
    /\ Answer(t, TRUE)
    /\ UNCHANGED <<published, keyset, memory>>

(* The provider is down, slow past the timeout, or answers nonsense.       *)
FetchFails(t) ==
    /\ thread[t] = "asking" /\ outages > 0
    /\ outages' = outages - 1
    /\ fetching' = None
    /\ Answer(t, TRUE)
    /\ UNCHANGED <<published, keys, gap, age, behind, memory>>

Differs(t) == keys # None /\ keys # got[t]

(* Under the lock; the callback for keys that differ comes after it.       *)
Store(t) ==
    /\ thread[t] = "got"
    /\ keys' = got[t]
    /\ age' = 0 /\ behind' = FALSE
    /\ fetching' = None
    /\ IF Differs(t)
       THEN /\ thread' = [thread EXCEPT ![t] = "changed"]
            /\ UNCHANGED <<got, check>>
       ELSE Answer(t, FALSE)
    /\ UNCHANGED <<provider, gap, memory>>

(* self._changed() empties the memory.                                     *)
Changed(t) ==
    /\ thread[t] = "changed"
    /\ verified' = <<>>
    /\ Answer(t, FALSE)
    /\ UNCHANGED <<provider, keyset, expired>>

-----------------------------------------------------------------------------
(* The provider rotates its keys, tokens expire, time passes               *)

Rotate ==
    /\ published = FirstKeys
    /\ published' = LaterKeys
    /\ UNCHANGED <<outages, keyset, pool, memory, check>>

Expire(t) ==
    /\ t \in Mortal \ expired
    /\ expired' = expired \cup {t}
    /\ UNCHANGED <<provider, keyset, pool, verified, check>>

Tick ==
    /\ gap < Refetch \/ age <= MaxAge
    /\ gap' = IF gap < Refetch THEN gap + 1 ELSE gap
    /\ age' = IF age <= MaxAge THEN age + 1 ELSE age
    /\ UNCHANGED <<provider, keys, fetching, behind, pool, memory, check>>

-----------------------------------------------------------------------------
Init ==
    /\ published = FirstKeys /\ outages = MaxOutages
    /\ keys = None /\ fetching = None
    /\ gap = Refetch /\ age = MaxAge + 1 /\ behind = FALSE
    /\ thread = [t \in Threads |-> "free"] /\ got = [t \in Threads |-> {}]
    /\ verified = <<>> /\ expired = {}
    /\ check = [l \in Loops |-> Idle]

Step(l) ==
    \/ Look(l) \/ Refresh(l) \/ FindFirst(l) \/ Find(l) \/ Pick(l)
    \/ Refetched(l) \/ PickAgain(l) \/ Trim(l) \/ Remember(l)

Fetch(t) == FetchOk(t) \/ FetchFails(t) \/ Store(t) \/ Changed(t)

Next ==
    \/ \E l \in Loops : Step(l) \/ GiveUp(l) \/ \E t \in Tokens : Begin(l, t)
    \/ \E t \in Threads : Fetch(t)
    \/ \E t \in Tokens : Expire(t)
    \/ Rotate \/ Tick

(* Loops and threads run and the clock goes on.  Requests, rotations and   *)
(* failures come or do not.                                                *)
Fairness ==
    /\ \A l \in Loops : WF_vars(Step(l))
    /\ \A t \in Threads : WF_vars(Fetch(t))
    /\ WF_vars(Tick)

Spec == Init /\ [][Next]_vars /\ Fairness

-----------------------------------------------------------------------------
KeySets == {FirstKeys, LaterKeys}

TypeOK ==
    /\ published \in KeySets /\ outages \in 0 .. MaxOutages
    /\ keys \in KeySets \cup {None} /\ fetching \in Threads \cup {None}
    /\ gap \in 0 .. Refetch /\ age \in 0 .. MaxAge + 1
    /\ behind \in BOOLEAN
    /\ thread \in [Threads -> {"free", "asking", "got", "changed"}]
    /\ got \in [Threads -> KeySets \cup {{}}]
    /\ IsInjective(verified)
    /\ ToSet(verified) \cup expired \subseteq Tokens
    /\ check \in [Loops -> [at : {"idle", "look", "refresh", "find", "first",
                                  "pick", "again", "repick", "remember",
                                  "insert"},
                            token : Tokens \cup {None},
                            keys : KeySets \cup {{}},
                            spacing : {0, Retry},
                            awaits : Threads \cup {None}]]

(* "One fetch is in flight at a time however many requests want one."      *)
OneFetch == Cardinality({t \in Threads : thread[t] \in {"asking", "got"}}) <= 1

(* A check ends: nobody waits for a fetch that no thread is running, and   *)
(* a request that gives up takes no other's fetch with it.                 *)
ChecksEnd == \A l \in Loops : At(l, "look") ~> At(l, "idle")

(* "A key the provider withdraws stops being accepted": while tokens keep  *)
(* being checked, the keys in hand become the ones published, remembered   *)
(* tokens or not, failed fetches or not.                                   *)
CatchesUp ==
    (\A l \in Loops : []<>At(l, "look")) => <>[](keys = published)

(* "OIDC empties it whenever the provider's keys change, so a withdrawn    *)
(* key stops working at the next refresh rather than at each token's       *)
(* expiry": no token of a key that is no longer held is remembered once    *)
(* the refresh is over.                                                    *)
WithdrawnForgotten ==
    (\A t \in Threads : thread[t] # "changed") =>
        \A i \in DOMAIN verified : Signer[verified[i]] \in keys

(* One fetch runs at a time, however many requests, loops and threads ask  *)
(* KeySet for the keys.                                                    *)
Safety == TypeOK /\ OneFetch

(* Every check of a token ends, and a key the provider rotated in is       *)
(* eventually accepted (KeySet.find and OIDC._claims).                     *)
Liveness == ChecksEnd /\ CatchesUp

=============================================================================
