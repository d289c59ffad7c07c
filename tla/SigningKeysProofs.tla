-------------------------- MODULE SigningKeysProofs --------------------------
(***************************************************************************)
(* Proofs about SigningKeys, for every set of loops, of threads and of     *)
(* tokens, and every spacing: one fetch of the keys is in flight at a      *)
(* time.                                                                   *)
(***************************************************************************)
EXTENDS SigningKeys, FiniteSetTheorems, TLAPS

-----------------------------------------------------------------------------
(* The memory of tokens that verified                                      *)

(* One more at the end, when it is not there.                              *)
LEMMA Inserted ==
  ASSUME NEW S, NEW s \in Seq(S), IsInjective(s), NEW x \in S, ~Contains(s, x)
  PROVE  Append(s, x) \in Seq(S) /\ IsInjective(Append(s, x))
<1> DEFINE t == Append(s, x)
<1>1. /\ t \in Seq(S) /\ Len(s) \in Nat /\ Len(t) = Len(s) + 1
      /\ DOMAIN s = 1 .. Len(s) /\ DOMAIN t = 1 .. Len(s) + 1
      /\ \A i \in DOMAIN s : t[i] = s[i]
      /\ t[Len(s) + 1] = x
  OBVIOUS
<1> HIDE DEF t
<1>2. \A i \in DOMAIN s : s[i] # x
  BY <1>1 DEF Contains
<1>3. IsInjective(t)
  BY <1>1, <1>2 DEF IsInjective
<1> QED BY <1>1, <1>3 DEF t

(* The oldest are let go.                                                  *)
LEMMA Trimmed ==
  ASSUME NEW S, NEW s \in Seq(S), IsInjective(s), NEW n \in Nat
  PROVE  LET t == SubSeq(s, n + 1, Len(s)) IN t \in Seq(S) /\ IsInjective(t)
<1> DEFINE t == SubSeq(s, n + 1, Len(s))
<1>1. CASE n <= Len(s)
  <2>1. /\ t \in Seq(S) /\ Len(s) \in Nat /\ DOMAIN s = 1 .. Len(s)
        /\ DOMAIN t = 1 .. Len(s) - n
        /\ \A i \in DOMAIN t : t[i] = s[n + i]
    BY <1>1
  <2> HIDE DEF t
  <2>2. IsInjective(t)
    BY <1>1, <2>1 DEF IsInjective
  <2> QED BY <2>1, <2>2 DEF t
<1>2. CASE ~(n <= Len(s))
  <2>1. t = <<>>
    BY <1>2
  <2> HIDE DEF t
  <2>2. t \in Seq(S) /\ IsInjective(t)
    BY <2>1 DEF IsInjective
  <2> QED BY <2>2 DEF t
<1> QED BY <1>1, <1>2

(* One is taken out, if it is there.                                       *)
LEMMA Removed ==
  ASSUME NEW S, NEW s \in Seq(S), IsInjective(s), NEW x
  PROVE  RemoveFirst(s, x) \in Seq(S) /\ IsInjective(RemoveFirst(s, x))
<1>1. CASE ~ \E i \in 1 .. Len(s) : s[i] = x
  BY <1>1 DEF RemoveFirst
<1>2. CASE \E i \in 1 .. Len(s) : s[i] = x
  <2>1. PICK k \in 1 .. Len(s) : s[k] = x
    BY <1>2
  <2>2. {i \in 1 .. Len(s) : s[i] = x} = {k}
    BY <2>1 DEF IsInjective
  <2>3. SelectInSeq(s, LAMBDA v : v = x) = k
    BY <2>2 DEF SelectInSeq, Min
  <2> DEFINE t == RemoveAt(s, k)
  <2>4. RemoveFirst(s, x) = t
    BY <1>2, <2>3 DEF RemoveFirst
  <2>5. /\ t \in Seq(S) /\ DOMAIN s = 1 .. Len(s) /\ DOMAIN t = 1 .. Len(s) - 1
        /\ \A i \in DOMAIN t : t[i] = s[IF i < k THEN i ELSE i + 1]
    <3> DEFINE a == SubSeq(s, 1, k - 1)
               b == SubSeq(s, k + 1, Len(s))
    <3>1. /\ a \in Seq(S) /\ Len(a) = k - 1 /\ \A i \in 1 .. k - 1 : a[i] = s[i]
          /\ b \in Seq(S) /\ Len(b) = Len(s) - k
          /\ \A i \in 1 .. Len(s) - k : b[i] = s[k + i]
      OBVIOUS
    <3>2. t = a \o b
      BY DEF RemoveAt
    <3> HIDE DEF a, b, t
    <3>3. t \in Seq(S) /\ Len(t) = Len(s) - 1
      BY <3>1, <3>2
    <3>4. ASSUME NEW i \in 1 .. Len(s) - 1
          PROVE  t[i] = s[IF i < k THEN i ELSE i + 1]
      <4>1. CASE i < k
        BY <3>1, <3>2, <4>1
      <4>2. CASE ~(i < k)
        <5>1. i - (k - 1) \in 1 .. Len(s) - k /\ k + (i - (k - 1)) = i + 1
          BY <4>2
        <5>2. t[i] = b[i - (k - 1)]
          BY <3>1, <3>2, <4>2
        <5> QED BY <3>1, <4>2, <5>1, <5>2
      <4> QED BY <4>1, <4>2
    <3> QED BY <3>3, <3>4
  <2> HIDE DEF t
  <2>6. IsInjective(t)
    BY <2>5 DEF IsInjective
  <2> QED BY <2>4, <2>5, <2>6
<1> QED BY <1>1, <1>2

-----------------------------------------------------------------------------
(* The inductive invariant                                                 *)

(* A check in progress is of a token, and only one in progress waits.      *)
Check == [at : {"idle", "look", "refresh", "find", "first", "pick", "again", "repick",
                "remember", "insert"},
          token : Tokens \cup {None}, keys : KeySets \cup {{}},
          spacing : {0, Retry}, awaits : Threads \cup {None}]

Sound(c) ==
    /\ c \in Check
    /\ c.at # "idle" => c.token \in Tokens
    /\ c.awaits # None => c.at # "idle"

Checks == check \in [Loops -> Check] /\ \A l \in Loops : Sound(check[l])

Shape ==
    /\ published \in KeySets /\ outages \in 0 .. MaxOutages
    /\ keys \in KeySets \cup {None} /\ fetching \in Threads \cup {None}
    /\ gap \in 0 .. Refetch /\ age \in 0 .. MaxAge + 1
    /\ behind \in BOOLEAN
    /\ thread \in [Threads -> {"free", "asking", "got", "changed"}]
    /\ got \in [Threads -> KeySets \cup {{}}]

Memory == verified \in Seq(Tokens) /\ IsInjective(verified) /\ expired \subseteq Tokens

(* The thread whose fetch is not over is the one that _fetching names.     *)
InFlight == \A t \in Threads : thread[t] \in {"asking", "got"} => fetching = t

(* What a thread stores is what it fetched.                                *)
Fetched == \A t \in Threads : thread[t] \in {"got", "changed"} => got[t] \in KeySets

IInv == Shape /\ Memory /\ Checks /\ InFlight /\ Fetched

(* If only the thread named is fetching, one is.                           *)
LEMMA Implied == IInv => Safety
<1> SUFFICES ASSUME IInv PROVE Safety
  OBVIOUS
<1>1. TypeOK
  <2>1. ToSet(verified) \cup expired \subseteq Tokens
    BY DEF IInv, Memory, ToSet
  <2>2. check \in [Loops -> Check]
    BY DEF IInv, Checks
  <2> QED BY <2>1, <2>2 DEF IInv, Shape, Memory, TypeOK, Check
<1>2. OneFetch
  <2> DEFINE F == {t \in Threads : thread[t] \in {"asking", "got"}}
  <2>1. F \in SUBSET {fetching}
    BY DEF IInv, InFlight
  <2>2. IsFiniteSet({fetching}) /\ Cardinality({fetching}) = 1
    BY FS_Singleton
  <2> HIDE DEF F
  <2>3. Cardinality(F) <= 1
    BY <2>1, <2>2, FS_Subset
  <2> QED BY <2>3 DEF OneFetch, F
<1> QED BY <1>1, <1>2 DEF Safety

(* A check of nothing is sound.                                            *)
LEMMA IdleSound == Sound(Idle)
BY DEF Sound, Idle, Check

(* The invariant holds before the first check.                             *)
LEMMA InitInv == Init => IInv
<1> SUFFICES ASSUME Init PROVE IInv
  OBVIOUS
<1> USE KeysAssumption DEF Init
<1>1. Shape
  <2>1. gap \in 0 .. Refetch /\ age \in 0 .. MaxAge + 1 /\ outages \in 0 .. MaxOutages
    OBVIOUS
  <2> QED BY <2>1 DEF Shape, KeySets
<1>2. Memory
  BY DEF Memory, IsInjective
<1>3. Checks
  BY IdleSound DEF Checks, Sound
<1>4. InFlight /\ Fetched
  BY DEF InFlight, Fetched
<1> QED BY <1>1, <1>2, <1>3, <1>4 DEF IInv

-----------------------------------------------------------------------------
(* The records of a check                                                  *)

(* A check of a token that goes on to another place is sound.              *)
LEMMA MovedSound ==
  ASSUME IInv, NEW l \in Loops, ~At(l, "idle"),
         NEW where \in {"find", "first", "pick", "again", "repick", "remember", "insert"}
  PROVE  Sound(Moved(l, where)) /\ Sound([Moved(l, where) EXCEPT !.keys = {}])
<1>1. /\ check[l] \in Check /\ check[l].token \in Tokens
      /\ Moved(l, where) = [check[l] EXCEPT !.at = where]
  BY DEF IInv, Checks, Sound, Moved, At
<1>2. Moved(l, where) \in Check /\ Moved(l, where).at # "idle"
      /\ Moved(l, where).token \in Tokens
  BY <1>1 DEF Check
<1>3. [Moved(l, where) EXCEPT !.keys = {}] \in Check
  BY <1>2 DEF Check
<1>4. /\ [Moved(l, where) EXCEPT !.keys = {}].at # "idle"
      /\ [Moved(l, where) EXCEPT !.keys = {}].token \in Tokens
  BY <1>2 DEF Check
<1> QED BY <1>2, <1>3, <1>4 DEF Sound

(* So is one that looks whether the keys it has are fresh.                 *)
LEMMA FreshSound ==
  ASSUME IInv, NEW c, Sound(c), c.at # "idle"
  PROVE  Sound(Onward(c)) /\ Sound(Fresh(c))
<1>1. Sound(Onward(c))
  <2>1. CASE Onward(c).at = "idle"
    BY <2>1, IdleSound DEF Sound, Check, Onward
  <2>2. CASE Onward(c).at # "idle"
    BY <2>2, IdleSound DEF Sound, Check, Onward
  <2> QED BY <2>1, <2>2
<1>2. Sound([c EXCEPT !.at = "refresh", !.spacing = IF behind THEN Retry ELSE 0])
  BY DEF Sound, Check
<1> QED BY <1>1, <1>2 DEF Fresh

(* One loop's check changes, to a sound one.                               *)
LEMMA BecomesSound ==
  ASSUME IInv, NEW l \in Loops, NEW c, Sound(c), Becomes(l, c)
  PROVE  Checks'
<1>1. check' = [check EXCEPT ![l] = c] /\ check \in [Loops -> Check] /\ c \in Check
  BY DEF Becomes, IInv, Checks, Sound
<1>2. check' \in [Loops -> Check]
  BY <1>1
<1>3. ASSUME NEW k \in Loops PROVE Sound(check'[k])
  <2>1. check'[k] = IF k = l THEN c ELSE check[k]
    BY <1>1
  <2>2. Sound(check[k])
    BY DEF IInv, Checks
  <2> QED BY <2>1, <2>2
<1> QED BY <1>2, <1>3 DEF Checks, Sound

(* A step of a check that leaves the keys, the pool and the memory alone.  *)
LEMMA CheckStep ==
  ASSUME IInv, NEW l \in Loops, NEW c, Sound(c), Becomes(l, c),
         UNCHANGED <<provider, keyset, pool, memory>>
  PROVE  IInv'
<1>1. Checks'
  BY BecomesSound
<1>2. Shape' /\ Memory' /\ InFlight' /\ Fetched'
  BY DEF IInv, Shape, Memory, InFlight, Fetched, provider, keyset, pool, memory
<1> QED BY <1>1, <1>2 DEF IInv

(* A step of a check that changes the memory of tokens.                    *)
LEMMA MemoryStep ==
  ASSUME IInv, NEW l \in Loops, NEW c, Sound(c), Becomes(l, c),
         UNCHANGED <<provider, keyset, pool, expired>>,
         verified' \in Seq(Tokens), IsInjective(verified')
  PROVE  IInv'
<1>1. Checks'
  BY BecomesSound
<1>2. Shape' /\ InFlight' /\ Fetched'
  BY DEF IInv, Shape, InFlight, Fetched, provider, keyset, pool
<1>3. Memory'
  BY DEF IInv, Memory
<1> QED BY <1>1, <1>2, <1>3 DEF IInv

(* _start: a fetch begins only when none is in flight.                     *)
LEMMA StartInv ==
  ASSUME IInv, NEW l \in Loops, NEW wait, NEW waits \in BOOLEAN,
         NEW then, Sound(then), waits => then.at # "idle",
         NEW otherwise, Sound(otherwise),
         Start(l, wait, waits, then, otherwise)
  PROVE  IInv'
<1>0. ASSUME NEW t \in Threads, waits PROVE Sound([then EXCEPT !.awaits = t])
  BY <1>0 DEF Sound, Check
<1>1. ASSUME NEW t \in Threads, Begins(wait), thread' = [thread EXCEPT ![t] = "asking"],
             fetching' = t, Becomes(l, IF waits THEN [then EXCEPT !.awaits = t] ELSE then),
             gap' = 0, behind' = TRUE, UNCHANGED <<provider, keys, age, got, memory>>
      PROVE  IInv'
  <2>1. Checks'
    <3>1. Sound(IF waits THEN [then EXCEPT !.awaits = t] ELSE then)
      BY <1>0
    <3> QED BY <1>1, <3>1, BecomesSound
  <2>2. Shape'
    BY <1>1, KeysAssumption DEF IInv, Shape, provider
  <2>3. Memory'
    BY <1>1 DEF IInv, Memory, memory
  <2>4. InFlight'
    <3>1. \A u \in Threads : thread[u] \notin {"asking", "got"}
      BY <1>1, KeysAssumption DEF IInv, InFlight, Begins
    <3> QED BY <1>1, <3>1 DEF IInv, Shape, InFlight
  <2>5. Fetched'
    BY <1>1 DEF IInv, Shape, Fetched
  <2> QED BY <2>1, <2>2, <2>3, <2>4, <2>5 DEF IInv
<1>2. ASSUME NEW c, Becomes(l, c), c = CASE fetching = None -> otherwise
                        [] fetching # None /\ waits -> [then EXCEPT !.awaits = fetching]
                        [] OTHER -> then,
             UNCHANGED <<provider, keyset, pool, memory>>
      PROVE  IInv'
  <2>1. CASE fetching = None
    BY <1>2, <2>1, CheckStep
  <2>2. CASE fetching # None /\ waits
    <3>1. fetching \in Threads
      BY <2>2 DEF IInv, Shape
    <3> QED BY <1>0, <1>2, <2>2, <3>1, CheckStep
  <2>3. CASE fetching # None /\ ~waits
    BY <1>2, <2>3, CheckStep
  <2> QED BY <2>1, <2>2, <2>3
<1> QED BY <1>1, <1>2 DEF Start

-----------------------------------------------------------------------------
(* A loop's steps                                                          *)

(* Every step of a check preserves the invariant.                          *)
LEMMA StepInv == ASSUME NEW l \in Loops PROVE IInv /\ Step(l) => IInv'
<1> SUFFICES ASSUME IInv, Step(l) PROVE IInv'
  OBVIOUS
<1>c. Sound(check[l])
  BY DEF IInv, Checks
<1>m. verified \in Seq(Tokens) /\ IsInjective(verified)
  BY DEF IInv, Memory
<1>i. Sound(Idle)
  BY IdleSound
<1>v. ASSUME ~At(l, "idle") PROVE Sound(Verdict(l))
  BY <1>v, <1>i, MovedSound DEF Verdict
<1>1. CASE Look(l)
  <2> DEFINE hit == Remembered(check[l].token) /\ check[l].token \notin expired
             c == IF hit THEN Fresh(check[l]) ELSE Moved(l, "find")
  <2>0. At(l, "look") /\ ~At(l, "idle") /\ check[l].at # "idle"
    BY <1>1 DEF Look, At
  <2>1. Sound(c)
    <3>1. Sound(Fresh(check[l]))
      BY <1>c, <2>0, FreshSound
    <3>2. Sound(Moved(l, "find"))
      BY <2>0, MovedSound
    <3> QED BY <3>1, <3>2
  <2>2. verified' \in Seq(Tokens) /\ IsInjective(verified')
    <3>1. /\ RemoveFirst(verified, check[l].token) \in Seq(Tokens)
          /\ IsInjective(RemoveFirst(verified, check[l].token))
      BY <1>m, Removed
    <3> QED BY <1>1, <1>m, <3>1 DEF Look
  <2>3. Becomes(l, c) /\ UNCHANGED <<provider, keyset, pool, expired>>
    BY <1>1 DEF Look
  <2> QED BY <2>1, <2>2, <2>3, MemoryStep
<1>2. CASE Refresh(l)
  <2>0. check[l].at # "idle"
    BY <1>2 DEF Refresh, At
  <2>1. Sound(Onward(check[l]))
    BY <1>c, <2>0, FreshSound
  <2>2. Start(l, check[l].spacing, FALSE, Onward(check[l]), Onward(check[l]))
    BY <1>2 DEF Refresh
  <2> QED BY <2>1, <2>2, StartInv
<1>3. CASE FindFirst(l)
  <2>0. ~At(l, "idle")
    BY <1>3 DEF FindFirst, At
  <2>1. Sound(Moved(l, "first"))
    BY <2>0, MovedSound
  <2>2. Moved(l, "first").at # "idle"
    BY <1>c DEF Moved, Sound, Check
  <2>3. Start(l, Retry, TRUE, Moved(l, "first"), Idle)
    BY <1>3 DEF FindFirst
  <2> QED BY <1>i, <2>1, <2>2, <2>3, StartInv
<1>4. CASE Find(l)
  <2> DEFINE c == [check[l] EXCEPT !.keys = keys]
  <2>1. Sound(c) /\ c.at # "idle"
    BY <1>4, <1>c DEF Find, At, Sound, Check, IInv, Shape
  <2> HIDE DEF c
  <2>2. Sound(Fresh(c))
    BY <2>1, FreshSound
  <2>3. Becomes(l, Fresh(c)) /\ UNCHANGED <<provider, keyset, pool, memory>>
    BY <1>4 DEF Find, c
  <2> QED BY <2>2, <2>3, CheckStep
<1>5. CASE Pick(l) \/ PickAgain(l)
  <2>1. /\ ~At(l, "idle") /\ Becomes(l, Verdict(l))
        /\ UNCHANGED <<provider, keyset, pool, memory>>
    BY <1>5 DEF Pick, PickAgain, At
  <2> QED BY <1>v, <2>1, CheckStep
<1>6. CASE Refetched(l)
  <2>0. ~At(l, "idle")
    BY <1>6 DEF Refetched, At
  <2> DEFINE c == [Moved(l, "again") EXCEPT !.keys = {}]
  <2>1. Sound(c)
    BY <2>0, MovedSound
  <2>3. c.at # "idle"
    BY <1>c DEF Moved, Sound, Check
  <2>2. Start(l, Refetch, TRUE, c, Idle)
    BY <1>6 DEF Refetched
  <2> HIDE DEF c
  <2> QED BY <1>i, <2>1, <2>2, <2>3, StartInv
<1>7. CASE Trim(l)
  <2>1. Quarter \in Nat
    BY KeysAssumption DEF Quarter
  <2>2. LET t == SubSeq(verified, Quarter + 1, Len(verified))
        IN  t \in Seq(Tokens) /\ IsInjective(t)
    BY <1>m, <2>1, Trimmed
  <2>3. verified' \in Seq(Tokens) /\ IsInjective(verified')
    BY <1>7, <1>m, <2>2 DEF Trim
  <2>4. ~At(l, "idle") /\ Becomes(l, Moved(l, "insert"))
        /\ UNCHANGED <<provider, keyset, pool, expired>>
    BY <1>7 DEF Trim, At
  <2>5. Sound(Moved(l, "insert"))
    BY <2>4, MovedSound
  <2> QED BY <2>3, <2>4, <2>5, MemoryStep
<1>8. CASE Remember(l)
  <2>1. check[l].token \in Tokens
    BY <1>8, <1>c DEF Remember, At, Sound
  <2>2. verified' \in Seq(Tokens) /\ IsInjective(verified')
    <3>1. CASE CacheSize = 0 \/ Remembered(check[l].token)
      BY <1>8, <1>m, <3>1 DEF Remember
    <3>2. CASE ~(CacheSize = 0 \/ Remembered(check[l].token))
      <4>1. /\ Append(verified, check[l].token) \in Seq(Tokens)
            /\ IsInjective(Append(verified, check[l].token))
        BY <1>m, <2>1, <3>2, Inserted DEF Remembered
      <4> QED BY <1>8, <3>2, <4>1 DEF Remember
    <3> QED BY <3>1, <3>2
  <2>3. Becomes(l, Idle) /\ UNCHANGED <<provider, keyset, pool, expired>>
    BY <1>8 DEF Remember
  <2> QED BY <1>i, <2>2, <2>3, MemoryStep
<1> QED BY <1>1, <1>2, <1>3, <1>4, <1>5, <1>6, <1>7, <1>8 DEF Step

(* So do a new check and one given up.                                     *)
LEMMA ComeAndGoInv ==
  ASSUME NEW l \in Loops
  PROVE  IInv /\ (GiveUp(l) \/ \E t \in Tokens : Begin(l, t)) => IInv'
<1> SUFFICES ASSUME IInv, GiveUp(l) \/ \E t \in Tokens : Begin(l, t) PROVE IInv'
  OBVIOUS
<1>1. CASE GiveUp(l)
  <2>1. Becomes(l, Idle) /\ UNCHANGED <<provider, keyset, pool, memory>>
    BY <1>1 DEF GiveUp
  <2> QED BY <2>1, IdleSound, CheckStep
<1>2. ASSUME NEW t \in Tokens, Begin(l, t) PROVE IInv'
  <2> DEFINE c == [Idle EXCEPT !.at = "look", !.token = t]
  <2>1. Sound(c)
    BY DEF Sound, Idle, Check
  <2>2. Becomes(l, c) /\ UNCHANGED <<provider, keyset, pool, memory>>
    BY <1>2 DEF Begin
  <2> HIDE DEF c
  <2> QED BY <2>1, <2>2, CheckStep
<1> QED BY <1>1, <1>2

-----------------------------------------------------------------------------
(* A thread's steps, and the world outside                                 *)

(* An answer reaches the loops that wait for it.                           *)
LEMMA AnswerSound ==
  ASSUME IInv, NEW t \in Threads, NEW failed \in BOOLEAN, Answer(t, failed)
  PROVE  /\ Checks'
         /\ thread' = [thread EXCEPT ![t] = "free"] /\ got' = [got EXCEPT ![t] = {}]
<1> DEFINE ks == CASE ~failed -> got[t]
                   [] failed /\ keys # None -> keys
                   [] OTHER -> {}
           on(l) == [check[l] EXCEPT !.at = IF @ = "first" THEN "pick" ELSE "repick",
                                     !.awaits = None, !.keys = ks]
<1>1. ks \in KeySets \cup {{}}
  BY DEF IInv, Shape
<1>2. check' = [l \in Loops |->
                  CASE check[l].awaits # t -> check[l]
                    [] check[l].awaits = t /\ At(l, "first") /\ failed -> Idle
                    [] OTHER -> on(l)]
  BY Zenon DEF Answer
<1> HIDE DEF ks
<1>3. ASSUME NEW l \in Loops PROVE Sound(check'[l])
  <2>c. Sound(check[l])
    BY DEF IInv, Checks
  <2>1. CASE check[l].awaits # t
    BY <1>2, <2>1, <2>c
  <2>2. CASE check[l].awaits = t /\ At(l, "first") /\ failed
    BY <1>2, <2>2, IdleSound
  <2>3. CASE check[l].awaits = t /\ ~(At(l, "first") /\ failed)
    <3>1. check'[l] = on(l)
      BY <1>2, <2>3
    <3>2. check[l].token \in Tokens
      BY <2>c, <2>3, KeysAssumption DEF Sound
    <3>3. Sound(on(l))
      BY <1>1, <2>c, <3>2 DEF Sound, Check
    <3> QED BY <3>1, <3>3
  <2> QED BY <2>1, <2>2, <2>3
<1>4. check' \in [Loops -> Check]
  <2>1. \A l \in Loops : check'[l] \in Check
    BY <1>3 DEF Sound
  <2>2. check' = [l \in Loops |-> check'[l]]
    BY <1>2
  <2> QED BY <2>1, <2>2
<1>5. Checks'
  BY <1>3, <1>4 DEF Checks, Sound
<1>6. thread' = [thread EXCEPT ![t] = "free"] /\ got' = [got EXCEPT ![t] = {}]
  BY DEF Answer
<1> QED BY <1>5, <1>6

(* A thread that is done leaves no fetch of its own behind.                *)
LEMMA FreedInv ==
  ASSUME IInv, NEW t \in Threads, NEW failed \in BOOLEAN, Answer(t, failed)
  PROVE  /\ thread' \in [Threads -> {"free", "asking", "got", "changed"}]
         /\ got' \in [Threads -> KeySets \cup {{}}]
         /\ Fetched'
         /\ \A u \in Threads : thread'[u] \in {"asking", "got"} =>
                                  u # t /\ thread[u] \in {"asking", "got"}
<1>1. thread' = [thread EXCEPT ![t] = "free"] /\ got' = [got EXCEPT ![t] = {}]
  BY AnswerSound
<1> QED BY <1>1 DEF IInv, Shape, Fetched

(* Every step of a fetch preserves the invariant.                          *)
LEMMA FetchInv == ASSUME NEW t \in Threads PROVE IInv /\ Fetch(t) => IInv'
<1> SUFFICES ASSUME IInv, Fetch(t) PROVE IInv'
  OBVIOUS
<1>1. CASE FetchOk(t)
  <2> USE <1>1 DEF FetchOk
  <2>1. Shape'
    BY DEF IInv, Shape, provider, keyset
  <2>2. Memory' /\ Checks'
    BY DEF IInv, Memory, Checks, Sound, memory
  <2>3. InFlight' /\ Fetched'
    BY DEF IInv, Shape, InFlight, Fetched, keyset
  <2> QED BY <2>1, <2>2, <2>3 DEF IInv
<1>2. CASE FetchFails(t)
  <2>0. /\ thread[t] = "asking" /\ fetching' = None /\ Answer(t, TRUE)
        /\ outages > 0 /\ outages' = outages - 1
        /\ UNCHANGED <<published, keys, gap, age, behind, memory>>
    BY <1>2 DEF FetchFails
  <2>1. Checks'
    BY <2>0, AnswerSound
  <2>2. /\ thread' \in [Threads -> {"free", "asking", "got", "changed"}]
        /\ got' \in [Threads -> KeySets \cup {{}}]
        /\ Fetched'
        /\ \A u \in Threads : thread'[u] \in {"asking", "got"} =>
                                 u # t /\ thread[u] \in {"asking", "got"}
    BY <2>0, FreedInv
  <2>3. Shape'
    BY <2>0, <2>2, KeysAssumption DEF IInv, Shape
  <2>4. InFlight'
    BY <2>0, <2>2 DEF IInv, InFlight
  <2>5. Memory'
    BY <2>0 DEF IInv, Memory, memory
  <2> QED BY <2>1, <2>2, <2>3, <2>4, <2>5 DEF IInv
<1>3. CASE Store(t)
  <2>0. /\ thread[t] = "got" /\ keys' = got[t] /\ age' = 0 /\ behind' = FALSE
        /\ fetching' = None /\ UNCHANGED <<provider, gap, memory>>
    BY <1>3 DEF Store
  <2>g. got[t] \in KeySets /\ fetching = t
    BY <2>0 DEF IInv, Fetched, InFlight
  <2>m. Memory'
    BY <2>0 DEF IInv, Memory, memory
  <2>1. CASE Differs(t)
    <3>0. thread' = [thread EXCEPT ![t] = "changed"] /\ UNCHANGED <<got, check>>
      BY <1>3, <2>1 DEF Store
    <3>1. Shape'
      <4>1. age' \in 0 .. MaxAge + 1
        BY <2>0, KeysAssumption
      <4>2. thread' \in [Threads -> {"free", "asking", "got", "changed"}]
        BY <3>0 DEF IInv, Shape
      <4> QED BY <2>0, <2>g, <3>0, <4>1, <4>2 DEF IInv, Shape, provider
    <3>2. Checks'
      BY <3>0 DEF IInv, Checks, Sound
    <3>3. Fetched'
      BY <2>g, <3>0 DEF IInv, Shape, Fetched
    <3>4. InFlight'
      BY <2>0, <2>g, <3>0 DEF IInv, Shape, InFlight
    <3> QED BY <2>m, <3>1, <3>2, <3>3, <3>4 DEF IInv
  <2>2. CASE ~Differs(t)
    <3>0. Answer(t, FALSE)
      BY <1>3, <2>2 DEF Store
    <3>1. Checks'
      BY <3>0, AnswerSound
    <3>2. /\ thread' \in [Threads -> {"free", "asking", "got", "changed"}]
          /\ got' \in [Threads -> KeySets \cup {{}}]
          /\ Fetched'
          /\ \A u \in Threads : thread'[u] \in {"asking", "got"} =>
                                   u # t /\ thread[u] \in {"asking", "got"}
      BY <3>0, FreedInv
    <3>3. Shape'
      <4>1. age' \in 0 .. MaxAge + 1
        BY <2>0, KeysAssumption
      <4> QED BY <2>0, <2>g, <3>2, <4>1 DEF IInv, Shape, provider
    <3>4. InFlight'
      BY <2>g, <3>2 DEF IInv, InFlight
    <3> QED BY <2>m, <3>1, <3>2, <3>3, <3>4 DEF IInv
  <2> QED BY <2>1, <2>2
<1>4. CASE Changed(t)
  <2>0. /\ verified' = <<>> /\ Answer(t, FALSE)
        /\ UNCHANGED <<provider, keyset, expired>>
    BY <1>4 DEF Changed
  <2>1. Checks'
    BY <2>0, AnswerSound
  <2>2. /\ thread' \in [Threads -> {"free", "asking", "got", "changed"}]
        /\ got' \in [Threads -> KeySets \cup {{}}]
        /\ Fetched'
        /\ \A u \in Threads : thread'[u] \in {"asking", "got"} =>
                                 u # t /\ thread[u] \in {"asking", "got"}
    BY <2>0, FreedInv
  <2>3. Shape'
    BY <2>0, <2>2 DEF IInv, Shape, provider, keyset
  <2>4. InFlight'
    BY <2>0, <2>2 DEF IInv, InFlight, keyset
  <2>5. Memory'
    BY <2>0 DEF IInv, Memory, IsInjective
  <2> QED BY <2>1, <2>2, <2>3, <2>4, <2>5 DEF IInv
<1> QED BY <1>1, <1>2, <1>3, <1>4 DEF Fetch

(* So do a rotation, a token that expires, time and a step of nothing.     *)
LEMMA OutsideInv ==
  IInv /\ (Rotate \/ Tick \/ (\E t \in Tokens : Expire(t)) \/ UNCHANGED vars) => IInv'
<1> SUFFICES ASSUME IInv,
                    Rotate \/ Tick \/ (\E t \in Tokens : Expire(t)) \/ UNCHANGED vars
             PROVE  IInv'
  OBVIOUS
<1>1. UNCHANGED <<outages, keys, fetching, behind, thread, got, verified, check>>
  BY DEF Rotate, Tick, Expire, vars, provider, keyset, pool, memory
<1>2. Checks' /\ InFlight' /\ Fetched'
  BY <1>1 DEF IInv, Checks, Sound, InFlight, Fetched
<1>3. Memory'
  <2>1. expired' \subseteq Tokens
    BY DEF IInv, Memory, Rotate, Tick, Expire, vars, memory
  <2> QED BY <1>1, <2>1 DEF IInv, Memory
<1>4. Shape'
  <2>1. published' \in KeySets
    BY DEF IInv, Shape, KeySets, Rotate, Tick, Expire, vars, provider
  <2>2. gap' \in 0 .. Refetch /\ age' \in 0 .. MaxAge + 1
    BY KeysAssumption DEF IInv, Shape, Rotate, Tick, Expire, vars, keyset
  <2> QED BY <1>1, <2>1, <2>2 DEF IInv, Shape
<1> QED BY <1>2, <1>3, <1>4 DEF IInv

-----------------------------------------------------------------------------
(* "One fetch is in flight at a time however many requests want one":      *)
(* whatever loops check tokens, give up, and find the keys stale or a key  *)
(* id unknown (KeySet._start, _fetch).                                     *)
THEOREM FetchesAlone == Spec => []Safety
<1>1. IInv /\ [Next]_vars => IInv'
  BY StepInv, ComeAndGoInv, FetchInv, OutsideInv DEF Next
<1> QED BY <1>1, InitInv, Implied, PTL DEF Spec

=============================================================================
