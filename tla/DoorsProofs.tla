---------------------------- MODULE DoorsProofs -----------------------------
(***************************************************************************)
(* Proofs about what MCDoors composes.  RateLimit, for every rate, burst,  *)
(* resolution of the clocks and bound on how long a thread is held, and any*)
(* number of processes, keys and requests: both halves are token buckets,  *)
(* and a caller that waits what it is told gets through.  Numbers are those*)
(* of TLA+, not the machine's.  LoginFlow, for any browsers, tabs, limits  *)
(* and times: a login finishes in the browser that began it, in a session  *)
(* of its own.                                                             *)
(***************************************************************************)
EXTENDS MCDoors, FiniteSetTheorems, SequenceTheorems, WellFoundedInduction, TLAPS

-----------------------------------------------------------------------------
(* Division, and the two times a budget is kept as                         *)

(* A quotient is the last one whose multiple is not past the dividend.     *)
LEMMA DivBounds ==
  ASSUME NEW a \in Int, NEW b \in Nat \ {0}
  PROVE  a \div b \in Int /\ b * (a \div b) <= a /\ a < b * (a \div b) + b
OBVIOUS

(* A larger factor gives a product larger by at least one divisor.         *)
LEMMA Multiples ==
  ASSUME NEW x \in Int, NEW y \in Int, NEW b \in Nat \ {0}, x < y
  PROVE  b * x + b <= b * y
OBVIOUS

(* Natural numbers divide to a natural number.                             *)
LEMMA DivNat ==
  ASSUME NEW a \in Nat, NEW b \in Nat \ {0}
  PROVE  a \div b \in Nat
<1>1. a \div b \in Int /\ a < b * (a \div b) + b
  BY DivBounds
<1>2. a \div b < 0 => b * (a \div b) + b <= b * 0
  BY <1>1, Multiples
<1> QED BY <1>1, <1>2

(* A coarser clock stays or goes on by one as a finer one goes on by one.  *)
LEMMA DivStep ==
  ASSUME NEW a \in Nat, NEW b \in Nat \ {0}
  PROVE  (a + 1) \div b \in {a \div b, (a \div b) + 1}
<1> DEFINE q == a \div b
           s == (a + 1) \div b
<1>1. /\ q \in Int /\ b * q <= a /\ a < b * q + b
      /\ s \in Int /\ b * s <= a + 1 /\ a + 1 < b * s + b
  BY DivBounds
<1> HIDE DEF q, s
<1>2. s < q => b * s + b <= b * q
  BY <1>1, Multiples
<1>3. q + 1 < s => b * (q + 1) + b <= b * s
  BY <1>1, Multiples
<1>4. b * (q + 1) = b * q + b /\ b * q \in Int /\ b * s \in Int
  BY <1>1
<1>5. s = q \/ s = q + 1
  BY <1>1, <1>2, <1>3, <1>4
<1> QED BY <1>5 DEF q, s

(* Rounding up is never too little.                                        *)
LEMMA CeilEnough ==
  ASSUME NEW a \in Int, NEW b \in Nat \ {0}
  PROVE  CeilDiv(a, b) \in Int /\ a <= b * CeilDiv(a, b)
<1>1. a + b - 1 \in Int
  OBVIOUS
<1>2. /\ (a + b - 1) \div b \in Int
      /\ a + b - 1 < b * ((a + b - 1) \div b) + b
      /\ b * ((a + b - 1) \div b) \in Int
  BY <1>1, DivBounds
<1> QED BY <1>2 DEF CeilDiv

(* Every rate has an interval of at least one unit, and tolerates at least *)
(* one interval.                                                           *)
LEMMA RateFacts ==
  /\ Burst \in Nat \ {0} /\ Interval \in Nat \ {0} /\ SharedInterval \in Nat \ {0}
  /\ Tolerance \in Nat /\ Tolerance >= Interval
  /\ SharedTolerance \in Nat /\ SharedTolerance >= SharedInterval
<1>1. Burst \in Nat \ {0}
  BY RateAssumption DEF Burst, Smaller
<1>2. Period \div Count \in Int /\ (Period \div Count) \div Fine \in Int
  BY RateAssumption, DivBounds
<1>3. Interval \in Nat \ {0} /\ SharedInterval \in Nat \ {0}
  BY <1>2 DEF Interval, SharedInterval, Larger
<1>4. ASSUME NEW i \in Nat \ {0}
      PROVE  i * Burst \in Nat /\ i * Burst >= i
  <2>1. PICK b \in Nat : Burst = b + 1
    <3>1. Burst - 1 \in Nat /\ Burst = (Burst - 1) + 1
      BY <1>1
    <3> QED BY <3>1
  <2>2. i * (b + 1) = i * b + i /\ i * b \in Nat
    OBVIOUS
  <2> QED BY <2>1, <2>2
<1> QED BY <1>1, <1>3, <1>4 DEF Tolerance, SharedTolerance

Times == Nat \cup {None}

(* How far ahead of the clock a budget is decides everything.              *)
LEMMA AheadFacts ==
  ASSUME NEW last \in Times, NEW t \in Nat, NEW i \in Nat \ {0}, NEW tol \in Nat
  PROVE  /\ Ahead(last, t) \in Nat
         /\ Nxt(last, t, i) = t + Ahead(last, t) + i
         /\ Nxt(last, t, i) \in Nat
         /\ Ahead(Nxt(last, t, i), t) = Ahead(last, t) + i
         /\ Allows(last, t, i, tol) <=> Ahead(last, t) + i <= tol
         /\ Ahead(last, t + 1) = IF Ahead(last, t) > 0 THEN Ahead(last, t) - 1 ELSE 0
BY RateAssumption DEF Times, Ahead, Nxt, Allows, Larger

(* Retry-After is never less than what is left to wait.                    *)
LEMMA RetryEnough ==
  ASSUME NEW w \in Int, NEW second \in Nat \ {0}
  PROVE  RetryAfter(w, second) \in Nat /\ w <= RetryAfter(w, second)
<1> DEFINE n == Larger(1, CeilDiv(w, second))
<1>1. CeilDiv(w, second) \in Int /\ w <= second * CeilDiv(w, second)
  BY CeilEnough
<1>2. n \in Nat \ {0} /\ CeilDiv(w, second) <= n
  BY <1>1 DEF Larger
<1> HIDE DEF n
<1>3. second * CeilDiv(w, second) <= second * n
  <2>1. CASE CeilDiv(w, second) = n
    BY <1>1, <1>2, <2>1
  <2>2. CASE CeilDiv(w, second) < n
    BY <1>1, <1>2, <2>2, Multiples
  <2> QED BY <1>1, <1>2, <2>1, <2>2
<1>4. second * n = n * second /\ n * second \in Nat /\ second * CeilDiv(w, second) \in Int
  BY <1>1, <1>2
<1>5. w <= n * second
  BY <1>1, <1>3, <1>4
<1> QED BY <1>4, <1>5 DEF RetryAfter, n

(* A later time is not earlier by a coarser clock.                         *)
LEMMA DivMono ==
  ASSUME NEW a \in Int, NEW c \in Int, NEW b \in Nat \ {0}, a <= c
  PROVE  a \div b <= c \div b
<1> DEFINE q == a \div b
           s == c \div b
<1>1. /\ q \in Int /\ b * q <= a
      /\ s \in Int /\ c < b * s + b
  BY DivBounds
<1> HIDE DEF q, s
<1>2. s < q => b * s + b <= b * q
  BY <1>1, Multiples
<1>3. b * q \in Int /\ b * s \in Int
  BY <1>1
<1>4. q <= s
  BY <1>1, <1>2, <1>3
<1> QED BY <1>4 DEF q, s

(* Whole units of a coarser clock go by on it.                             *)
LEMMA DivUnits ==
  ASSUME NEW a \in Int, NEW m \in Nat, NEW b \in Nat \ {0}
  PROVE  (a \div b) + m <= (a + m * b) \div b
<1> DEFINE q == a \div b
           s == (a + m * b) \div b
<1>0. m * b \in Int
  OBVIOUS
<1>1. /\ q \in Int /\ b * q <= a
      /\ s \in Int /\ a + m * b < b * s + b
  BY <1>0, DivBounds
<1> HIDE DEF q, s
<1>2. s < q + m => b * s + b <= b * (q + m)
  BY <1>1, Multiples
<1>3. b * q \in Int /\ b * s \in Int /\ b * (q + m) = b * q + m * b
  BY <1>1
<1>4. q + m <= s
  BY <1>0, <1>1, <1>2, <1>3
<1> QED BY <1>4 DEF q, s

-----------------------------------------------------------------------------
(* Who waits what it is told                                               *)

(* A request at time t, or at any later one, is let through.               *)
Fits(last, t, i, tol) == last = None \/ last + i <= t + tol

(* As it says.                                                             *)
LEMMA FitsAllows ==
  ASSUME NEW last \in Times, NEW t \in Nat, NEW n \in Nat, t <= n,
         NEW i \in Nat, NEW tol \in Nat, i <= tol, Fits(last, t, i, tol)
  PROVE  Allows(last, n, i, tol)
BY RateAssumption DEF Times, Fits, Allows, Nxt, Larger

(* What fits at a time fits at a later one.                                *)
LEMMA FitsLater ==
  ASSUME NEW last \in Times, NEW t \in Nat, NEW n \in Nat, t <= n,
         NEW i \in Nat, NEW tol \in Nat, Fits(last, t, i, tol)
  PROVE  Fits(last, n, i, tol)
BY RateAssumption DEF Times, Fits

(* What is left to wait is a number.                                       *)
LEMMA WaitInt ==
  ASSUME NEW last \in Times, NEW n \in Nat, NEW i \in Nat, NEW tol \in Nat
  PROVE  Wait(last, n, i, tol) \in Int
BY RateAssumption DEF Times, Wait, Nxt, Larger

(* A refused request fits once it has waited what it lacks.                *)
LEMMA WaitFits ==
  ASSUME NEW last \in Times, NEW n \in Nat, NEW i \in Nat, NEW tol \in Nat, i <= tol,
         ~Allows(last, n, i, tol), NEW t \in Nat, t >= n + Wait(last, n, i, tol)
  PROVE  Wait(last, n, i, tol) \in Int /\ last # None /\ Fits(last, t, i, tol)
BY RateAssumption DEF Times, Fits, Allows, Wait, Nxt, Larger

Halves == {"local", "shared"}

(* The refusals a patient caller can have had.                             *)
Streaks ==
    {<<>>, <<"local">>, <<"shared">>, <<"local", "shared">>, <<"shared", "local">>,
     <<"local", "shared", "local">>}
AfterLocal == {<<"local">>, <<"shared", "local">>, <<"local", "shared", "local">>}
WithShared ==
    {<<"shared">>, <<"local", "shared">>, <<"shared", "local">>, <<"local", "shared", "local">>}

(* One more refusal after one, and after two.                              *)
LEMMA AppendOne ==
  ASSUME NEW S, NEW a \in S, NEW b \in S
  PROVE  Append(<<a>>, b) = <<a, b>>
<1> DEFINE u == Append(<<a>>, b)
           v == <<a, b>>
<1>1. <<a>> \in Seq(S) /\ v \in Seq(S)
  OBVIOUS
<1>2. u \in Seq(S) /\ Len(u) = 2 /\ u[1] = a /\ u[2] = b
  BY <1>1, AppendProperties
<1>3. Len(v) = 2 /\ v[1] = a /\ v[2] = b
  OBVIOUS
<1> HIDE DEF u, v
<1>4. \A i \in 1 .. Len(u) : u[i] = v[i]
  BY <1>2, <1>3
<1>5. u = v
  BY <1>1, <1>2, <1>3, <1>4, SeqEqual
<1> QED BY <1>5 DEF u, v

(* The same, after two.                                                    *)
LEMMA AppendTwo ==
  ASSUME NEW S, NEW a \in S, NEW b \in S, NEW c \in S
  PROVE  Append(<<a, b>>, c) = <<a, b, c>>
<1> DEFINE u == Append(<<a, b>>, c)
           v == <<a, b, c>>
<1>1. <<a, b>> \in Seq(S) /\ v \in Seq(S)
  OBVIOUS
<1>2. u \in Seq(S) /\ Len(u) = 3 /\ u[1] = a /\ u[2] = b /\ u[3] = c
  BY <1>1, AppendProperties
<1>3. Len(v) = 3 /\ v[1] = a /\ v[2] = b /\ v[3] = c
  OBVIOUS
<1> HIDE DEF u, v
<1>4. \A i \in 1 .. Len(u) : u[i] = v[i]
  BY <1>2, <1>3
<1>5. u = v
  BY <1>1, <1>2, <1>3, <1>4, SeqEqual
<1> QED BY <1>5 DEF u, v

(* One more refusal by the process.                                        *)
LEMMA LocalRefusal ==
  ASSUME NEW s \in Streaks, s \notin AfterLocal
  PROVE  /\ Append(s, "local") \in Streaks
         /\ Append(s, "local") \in WithShared => s \in WithShared
<1>1. s \in {<<>>, <<"shared">>, <<"local", "shared">>}
  BY DEF Streaks, AfterLocal
<1>2. CASE s = <<>>
  <2>1. Append(s, "local") = <<"local">>
    BY <1>2
  <2>2. <<"local">> \in Streaks /\ <<"local">> \notin WithShared
    BY DEF Streaks, WithShared
  <2> QED BY <2>1, <2>2
<1>3. CASE s = <<"shared">>
  <2>0. "shared" \in Halves /\ "local" \in Halves
    BY DEF Halves
  <2>1. Append(s, "local") = <<"shared", "local">>
    BY <1>3, <2>0, AppendOne
  <2> QED BY <1>3, <2>1 DEF Streaks, WithShared
<1>4. CASE s = <<"local", "shared">>
  <2>0. "shared" \in Halves /\ "local" \in Halves
    BY DEF Halves
  <2>1. Append(s, "local") = <<"local", "shared", "local">>
    BY <1>4, <2>0, AppendTwo
  <2> QED BY <1>4, <2>1 DEF Streaks, WithShared
<1> QED BY <1>1, <1>2, <1>3, <1>4

(* One more refusal by Redis.                                              *)
LEMMA SharedRefusal ==
  ASSUME NEW s \in Streaks, s \notin WithShared
  PROVE  Append(s, "shared") \in Streaks \ AfterLocal
<1>1. s \in {<<>>, <<"local">>}
  BY DEF Streaks, WithShared
<1>2. CASE s = <<>>
  <2>1. Append(s, "shared") = <<"shared">>
    BY <1>2
  <2> QED BY <2>1 DEF Streaks, AfterLocal
<1>3. CASE s = <<"local">>
  <2>0. "shared" \in Halves /\ "local" \in Halves
    BY DEF Halves
  <2>1. Append(s, "shared") = <<"local", "shared">>
    BY <1>3, <2>0, AppendOne
  <2> QED BY <2>1 DEF Streaks, AfterLocal
<1> QED BY <1>1, <1>2, <1>3

(* Who has not been refused waits for nothing.                             *)
LEMMA NoRefusal == <<>> \in Streaks /\ <<>> \notin AfterLocal /\ <<>> \notin WithShared
BY DEF Streaks, AfterLocal, WithShared

-----------------------------------------------------------------------------
(* The invariant                                                           *)

Spending(entries) == {k \in Keys : entries[k] # None}

(* Redis keeps a time until its clock is past it.                          *)
KeptLongEnough ==
    \A k \in Keys : stored[k] # None => stored[k] < Milli * (expires[k] + 1)

(* A request is somebody's, and has not waited for the map longer than Lag.*)
RequestsSound ==
    \A r \in Requests :
       IF req[r].at = "idle" THEN req[r] = NoRequest
       ELSE /\ req[r].home \in Processes /\ req[r].key \in Keys /\ req[r].read <= now
            /\ req[r].at = "local" => now <= req[r].read + Lag

(* What the caller of k was last told fits the budgets that refused it; it *)
(* is alone there and has waited.                                          *)
CallerSound(k) ==
    LET c == caller[k]
        here == {r \in Requests : req[r].key = k}
    IN  /\ c.refusals \in Streaks
        /\ c.from = None => c.refusals = <<>>
        /\ c.from # None =>
              \A r \in here : /\ req[r].home = c.from /\ c.told <= req[r].read
                              /\ \A q \in here : q = r
        /\ c.refusals \in AfterLocal /\ (\A r \in here : req[r].at = "local") =>
              Fits(spent[c.from][k], c.told, Interval, Tolerance)
        /\ c.refusals \in WithShared =>
              Fits(stored[k], c.told \div Fine, SharedInterval, SharedTolerance)

CallersSound == \A k \in Keys : CallerSound(k)

RateInv ==
    /\ TypeOK
    /\ \A p \in Processes : IsFiniteSet(Spending(spent[p]))
    /\ KeptLongEnough
    /\ RequestsSound
    /\ CallersSound

(* The three clocks are natural numbers, and the one in milliseconds is    *)
(* the one in microseconds rounded down.                                   *)
LEMMA ClockFacts ==
  ASSUME TypeOK
  PROVE  /\ now \in Nat /\ Micros \in Nat /\ Millis \in Nat
         /\ Milli * Millis <= Micros /\ Micros < Milli * Millis + Milli
<1>1. now \in Nat
  BY RateAssumption DEF TypeOK
<1>2. Micros \in Nat
  BY <1>1, RateAssumption, DivNat DEF Micros
<1>3. Millis \in Nat
  BY <1>2, RateAssumption, DivNat DEF Millis
<1>4. Milli * Millis <= Micros /\ Micros < Milli * Millis + Milli
  <2>1. Micros \in Int /\ Milli \in Nat \ {0}
    BY <1>2, RateAssumption
  <2> QED BY <2>1, DivBounds DEF Millis
<1> QED BY <1>1, <1>2, <1>3, <1>4

(* A key that expired had nothing left to say.                             *)
LEMMA KeptFacts ==
  ASSUME RateInv, NEW k \in Keys
  PROVE  Kept(k) \in Times /\ stored[k] \in Times
         /\ Ahead(Kept(k), Micros) = Ahead(stored[k], Micros)
<1>1. stored[k] \in Times /\ Kept(k) \in Times
  BY DEF RateInv, TypeOK, Times, Kept
<1>2. ASSUME stored[k] # None, ~(Millis <= expires[k])
      PROVE  stored[k] <= Micros
  <2>1. /\ Millis \in Nat /\ Micros \in Nat /\ Milli * Millis <= Micros
        /\ expires[k] \in Nat /\ stored[k] \in Nat /\ Milli \in Nat \ {0}
    BY <1>2, ClockFacts, RateAssumption DEF RateInv, TypeOK
  <2>2. Milli * expires[k] + Milli <= Milli * Millis
    BY <1>2, <2>1, Multiples
  <2>3. stored[k] < Milli * (expires[k] + 1)
    BY <1>2 DEF RateInv, KeptLongEnough
  <2>4. Milli * (expires[k] + 1) = Milli * expires[k] + Milli
    BY <2>1
  <2>5. Milli * expires[k] \in Int /\ Milli * Millis \in Int
    BY <2>1
  <2> QED BY <2>1, <2>2, <2>3, <2>4, <2>5
<1>3. CASE Kept(k) = stored[k]
  BY <1>1, <1>3
<1>4. CASE Kept(k) # stored[k]
  <2>1. stored[k] # None /\ ~(Millis <= expires[k]) /\ Kept(k) = None
    BY <1>4 DEF Kept
  <2>2. stored[k] <= Micros /\ stored[k] \in Nat /\ Micros \in Nat
    BY <1>1, <1>2, <2>1, ClockFacts DEF RateInv, Times
  <2> QED BY <1>1, <2>1, <2>2 DEF Ahead, Larger
<1> QED BY <1>1, <1>3, <1>4

(* The invariant holds before anybody has spent anything.                  *)
LEMMA InitRate == Init => RateInv
<1> SUFFICES ASSUME Init PROVE RateInv
  OBVIOUS
<1>1. TypeOK
  <2>1. NoRequest \in [at : {"idle", "local", "shared"}, home : Processes \cup {None},
                       key : Keys \cup {None}, read : 0 .. MaxTime]
    BY RateAssumption DEF NoRequest
  <2>2. [from |-> None, told |-> 0, refusals |-> <<>>] \in Callers
    BY DEF Callers
  <2> QED BY <2>1, <2>2, RateAssumption DEF Init, TypeOK
<1>2. ASSUME NEW p \in Processes PROVE IsFiniteSet(Spending(spent[p]))
  <2>1. Spending(spent[p]) = {}
    BY DEF Init, Spending
  <2> QED BY <2>1, FS_EmptySet
<1>3. RequestsSound
  BY DEF Init, RequestsSound, NoRequest
<1>4. ASSUME NEW k \in Keys PROVE CallerSound(k)
  <2>1. caller[k].from = None /\ caller[k].refusals = <<>>
    BY DEF Init
  <2> QED BY <2>1, NoRefusal DEF CallerSound
<1> QED BY <1>1, <1>2, <1>3, <1>4 DEF Init, RateInv, KeptLongEnough, CallersSound

(* Limit::spend fills one entry; the sweep only forgets what is past.      *)
LEMMA InsertFacts ==
  ASSUME RateInv, NEW p \in Processes, NEW k \in Keys, NEW n \in Nat, Insert(p, k, n)
  PROVE  /\ spent' \in [Processes -> [Keys -> Times]]
         /\ sweepAt' \in [Processes -> {m \in Nat : m >= SweepFloor}]
         /\ IsFiniteSet(Spending(spent'[p]))
         /\ \A q \in Processes \ {p} : spent'[q] = spent[q]
         /\ spent'[p][k] = Nxt(spent[p][k], n, Interval)
         /\ \A x \in Keys \ {k} :
               \/ spent'[p][x] = spent[p][x]
               \/ spent'[p][x] = None /\ spent[p][x] \in Nat /\ spent[p][x] <= n
<1> DEFINE nxt == Nxt(spent[p][k], n, Interval)
           filled == [spent[p] EXCEPT ![k] = nxt]
           full == Tracked(filled) >= sweepAt[p]
           left == IF full THEN Swept(filled, n) ELSE filled
<1>t. /\ Interval \in Nat \ {0} /\ spent[p] \in [Keys -> Times]
      /\ spent \in [Processes -> [Keys -> Times]]
      /\ sweepAt \in [Processes -> {m \in Nat : m >= SweepFloor}]
  BY RateFacts DEF RateInv, TypeOK, Times
<1>1. /\ spent' = [spent EXCEPT ![p] = left]
      /\ sweepAt' = IF full
                    THEN [sweepAt EXCEPT ![p] = Larger(2 * Tracked(left), SweepFloor)]
                    ELSE sweepAt
  BY DEF Insert
<1>2. nxt \in Nat /\ nxt > n
  <2>0. spent[p][k] \in Times
    BY <1>t
  <2>1. nxt \in Nat /\ nxt = n + Ahead(spent[p][k], n) + Interval /\ Ahead(spent[p][k], n) \in Nat
    BY <1>t, <2>0, AheadFacts
  <2> QED BY <1>t, <2>1
<1> HIDE DEF nxt
<1>3. filled \in [Keys -> Times] /\ filled[k] = nxt /\ \A x \in Keys \ {k} : filled[x] = spent[p][x]
  BY <1>t, <1>2 DEF Times
<1>5. Spending(filled) = Spending(spent[p]) \cup {k}
  BY <1>t, <1>2, RateAssumption DEF Spending
<1>6. IsFiniteSet(Spending(filled))
  BY <1>5, FS_AddElement DEF RateInv
<1> HIDE DEF filled
<1>7. /\ Swept(filled, n) \in [Keys -> Times]
      /\ Spending(Swept(filled, n)) \subseteq Spending(filled)
      /\ Swept(filled, n)[k] = nxt
      /\ \A x \in Keys \ {k} :
            \/ Swept(filled, n)[x] = spent[p][x]
            \/ Swept(filled, n)[x] = None /\ spent[p][x] \in Nat /\ spent[p][x] <= n
  BY <1>t, <1>2, <1>3, RateAssumption DEF Swept, Spending, Times
<1>8. /\ left \in [Keys -> Times] /\ left[k] = nxt
      /\ \A x \in Keys \ {k} :
            \/ left[x] = spent[p][x]
            \/ left[x] = None /\ spent[p][x] \in Nat /\ spent[p][x] <= n
      /\ IsFiniteSet(Spending(left))
  BY <1>3, <1>6, <1>7, FS_Subset
<1>9. Tracked(left) \in Nat
  BY <1>8, FS_CardinalityType DEF Tracked, Spending
<1> HIDE DEF left, full
<1>10. sweepAt' \in [Processes -> {m \in Nat : m >= SweepFloor}]
  <2>1. Larger(2 * Tracked(left), SweepFloor) \in {m \in Nat : m >= SweepFloor}
    BY <1>9, RateAssumption DEF Larger
  <2> QED BY <1>t, <1>1, <2>1
<1>11. spent'[p] = left /\ spent' \in [Processes -> [Keys -> Times]]
       /\ \A q \in Processes \ {p} : spent'[q] = spent[q]
  BY <1>t, <1>1, <1>8
<1> QED BY <1>8, <1>10, <1>11 DEF nxt

(* The script stores the next time and keeps it long enough.               *)
LEMMA StoreFacts ==
  ASSUME RateInv, NEW k \in Keys, NEW nxt \in Nat, nxt > Micros
  PROVE  Expiry(nxt) \in Nat /\ nxt < Milli * (Expiry(nxt) + 1)
<1> DEFINE c == CeilDiv(nxt - Micros, Milli)
<1>1. /\ Micros \in Nat /\ Millis \in Nat /\ Micros < Milli * Millis + Milli
      /\ Milli \in Nat \ {0}
  BY ClockFacts, RateAssumption DEF RateInv
<1>2. c \in Int /\ nxt - Micros <= Milli * c
  BY <1>1, CeilEnough
<1>3. c >= 0
  <2>1. c < 0 => Milli * c + Milli <= Milli * 0
    BY <1>1, <1>2, Multiples
  <2> QED BY <1>1, <1>2, <2>1
<1> HIDE DEF c
<1>4. /\ Milli * (Millis + c + 1) = Milli * Millis + Milli * c + Milli
      /\ Milli * Millis \in Int /\ Milli * c \in Int
  BY <1>1, <1>2
<1> QED BY <1>1, <1>2, <1>3, <1>4 DEF Expiry, c

(* A caller is as it was when nothing of its own changes; that its entry is*)
(* swept only makes room for it.                                           *)
LEMMA Undisturbed ==
  ASSUME TypeOK, NEW x \in Keys, CallerSound(x), caller'[x] = caller[x], stored'[x] = stored[x],
         \A r \in Requests : req[r].key = x \/ req'[r].key = x => req'[r] = req[r],
         \A p \in Processes : spent'[p][x] \in {spent[p][x], None}
  PROVE  CallerSound(x)'
<1> DEFINE here == {r \in Requests : req[r].key = x}
           then == {r \in Requests : req'[r].key = x}
<1>1. then = here /\ \A r \in here : req'[r] = req[r]
  OBVIOUS
<1>2. caller[x].from \in Processes \cup {None}
  BY DEF TypeOK, Callers
<1>3. caller[x].refusals \in AfterLocal => caller[x].from # None
  BY NoRefusal DEF CallerSound
<1>4. ASSUME caller[x].refusals \in AfterLocal, \A r \in then : req'[r].at = "local"
      PROVE  Fits(spent'[caller[x].from][x], caller[x].told, Interval, Tolerance)
  <2>1. \A r \in here : req[r].at = "local"
    BY <1>1, <1>4
  <2>2. Fits(spent[caller[x].from][x], caller[x].told, Interval, Tolerance)
    BY <1>4, <2>1 DEF CallerSound
  <2> QED BY <1>2, <1>3, <1>4, <2>2 DEF Fits
<1>5. caller[x].from # None =>
        \A r \in then : /\ req'[r].home = caller[x].from /\ caller[x].told <= req'[r].read
                        /\ \A q \in then : q = r
  BY <1>1 DEF CallerSound
<1> QED BY <1>4, <1>5 DEF CallerSound

(* What a request at "local" finds: its process, key and reading.          *)
LEMMA AtLocal ==
  ASSUME RateInv, NEW r \in Requests, req[r].at = "local"
  PROVE  /\ req[r].home \in Processes /\ req[r].key \in Keys
         /\ req[r].read \in Nat /\ req[r].read <= now /\ now <= req[r].read + Lag
         /\ spent[req[r].home][req[r].key] \in Times
<1>1. req[r].home \in Processes /\ req[r].key \in Keys
      /\ req[r].read <= now /\ now <= req[r].read + Lag
  BY DEF RateInv, RequestsSound
<1>2. req[r].read \in Nat
  BY RateAssumption DEF RateInv, TypeOK
<1> QED BY <1>1, <1>2 DEF RateInv, TypeOK, Times

(* What a request at "shared" finds.                                       *)
LEMMA AtShared ==
  ASSUME RateInv, NEW r \in Requests, req[r].at = "shared"
  PROVE  /\ req[r].home \in Processes /\ req[r].key \in Keys
         /\ req[r].read \in Nat /\ req[r].read <= now
<1>1. req[r].home \in Processes /\ req[r].key \in Keys /\ req[r].read <= now
  BY DEF RateInv, RequestsSound
<1>2. req[r].read \in Nat
  BY RateAssumption DEF RateInv, TypeOK
<1> QED BY <1>1, <1>2

(* A request that is over leaves the others as they are.                   *)
LEMMA OverFacts ==
  ASSUME RateInv, NEW r \in Requests, Over(r), now' = now
  PROVE  /\ req' \in [Requests -> [at : {"idle", "local", "shared"}, home : Processes \cup {None},
                                   key : Keys \cup {None}, read : 0 .. MaxTime]]
         /\ RequestsSound'
         /\ req'[r].key = None
         /\ \A q \in Requests \ {r} : req'[q] = req[q]
<1>1. /\ NoRequest \in [at : {"idle", "local", "shared"}, home : Processes \cup {None},
                        key : Keys \cup {None}, read : 0 .. MaxTime]
      /\ NoRequest.key = None /\ NoRequest.at = "idle"
  BY RateAssumption DEF NoRequest
<1>2. /\ req' \in [Requests -> [at : {"idle", "local", "shared"}, home : Processes \cup {None},
                                key : Keys \cup {None}, read : 0 .. MaxTime]]
      /\ req'[r] = NoRequest
      /\ \A q \in Requests \ {r} : req'[q] = req[q]
  BY <1>1 DEF Over, RateInv, TypeOK
<1>3. RequestsSound'
  BY <1>1, <1>2 DEF RateInv, RequestsSound
<1> QED BY <1>1, <1>2, <1>3

(* A caller that is let through waits for nothing.                         *)
LEMMA LetFacts ==
  ASSUME RateInv, NEW r \in Requests, req[r].key \in Keys, Let(r)
  PROVE  /\ caller' \in [Keys -> Callers]
         /\ caller'[req[r].key].refusals = <<>>
         /\ caller'[req[r].key].told = 0
         /\ caller'[req[r].key].from = caller[req[r].key].from
         /\ \A x \in Keys \ {req[r].key} : caller'[x] = caller[x]
<1>1. caller \in [Keys -> Callers]
  BY DEF RateInv, TypeOK
<1>2. caller[req[r].key] \in Callers
  BY <1>1
<1> DEFINE new == [from |-> caller[req[r].key].from, told |-> 0, refusals |-> <<>>]
<1>3. new \in Callers
  <2>1. caller[req[r].key].from \in Processes \cup {None} /\ <<>> \in Seq({"local", "shared"})
    BY <1>2 DEF Callers
  <2> QED BY <2>1 DEF Callers
<1>4. caller' = [caller EXCEPT ![req[r].key] = new]
  BY DEF Let
<1>5. /\ caller' \in [Keys -> Callers] /\ caller'[req[r].key] = new
      /\ \A x \in Keys \ {req[r].key} : caller'[x] = caller[x]
  <2> HIDE DEF new
  <2> QED BY <1>1, <1>3, <1>4
<1> QED BY <1>5

(* Nobody is told anything unless it is alone on its key.                  *)
LEMMA ToldFacts ==
  ASSUME RateInv, NEW r \in Requests, req[r].key \in Keys, NEW half \in Halves, NEW w \in Nat,
         Told(r, half, w)
  PROVE  /\ caller' \in [Keys -> Callers]
         /\ \A x \in Keys \ {req[r].key} : caller'[x] = caller[x]
         /\ caller[req[r].key].from = None => caller' = caller
         /\ caller[req[r].key].from # None =>
               /\ caller'[req[r].key].from = caller[req[r].key].from
               /\ caller'[req[r].key].told = now + w
               /\ caller'[req[r].key].refusals = Append(caller[req[r].key].refusals, half)
<1> DEFINE k == req[r].key
<1>1. caller \in [Keys -> Callers] /\ now \in Nat
  BY ClockFacts DEF RateInv, TypeOK
<1>2. caller[k] \in Callers
  BY <1>1
<1> DEFINE more == Append(caller[k].refusals, half)
           new == [from |-> caller[k].from, told |-> now + w, refusals |-> more]
<1>3. Append(caller[k].refusals, half) \in Seq({"local", "shared"}) /\ now + w \in Nat
  BY <1>1, <1>2 DEF Callers, Halves
<1>4. new \in Callers
  BY <1>2, <1>3 DEF Callers
<1>5. CASE caller[k].from = None
  BY <1>1, <1>5 DEF Told
<1>6. CASE caller[k].from # None
  <2>1. caller' = [caller EXCEPT ![k] = new]
    BY <1>6 DEF Told
  <2>2. /\ caller' \in [Keys -> Callers] /\ caller'[k] = new
        /\ \A x \in Keys \ {k} : caller'[x] = caller[x]
    <3> HIDE DEF new
    <3> QED BY <1>1, <1>4, <2>1
  <2>3. new.from = caller[k].from /\ new.told = now + w /\ new.refusals = more
    <3> HIDE DEF more
    <3> QED OBVIOUS
  <2> HIDE DEF new
  <2>4. caller'[k].from = caller[k].from /\ caller'[k].told = now + w /\ caller'[k].refusals = more
    BY <2>2, <2>3
  <2> QED BY <1>6, <2>2, <2>4, Zenon
<1> QED BY <1>5, <1>6

(* A request that is over was the only one of a caller that is alone.      *)
LEMMA WasAlone ==
  ASSUME RateInv, NEW r \in Requests, req[r].at # "idle", Over(r), now' = now,
         caller[req[r].key].from # None
  PROVE  \A q \in Requests : req'[q].key # req[r].key
<1>1. req[r].key \in Keys
  BY DEF RateInv, RequestsSound
<1>2. \A q \in Requests : req[q].key = req[r].key => q = r
  BY <1>1 DEF RateInv, CallersSound, CallerSound
<1>3. req'[r].key = None /\ \A q \in Requests \ {r} : req'[q] = req[q]
  BY OverFacts
<1> QED BY <1>1, <1>2, <1>3, RateAssumption

(* The step by which the process refuses a request.                        *)
LEMMA RefusedThere ==
  ASSUME RateInv, NEW r \in Requests, RefuseLocal(r)
  PROVE  RateInv'
<1> USE DEF local, redis
<1> DEFINE k == req[r].key
           p == req[r].home
           last == spent[p][k]
           n == req[r].read
           w == RetryAfter(LocalWait(r), Second * Milli * Fine)
<1>1. /\ req[r].at = "local" /\ ~Allows(last, n, Interval, Tolerance)
      /\ Told(r, "local", w) /\ Over(r)
      /\ now' = now /\ UNCHANGED <<spent, sweepAt, stored, expires>>
  BY DEF RefuseLocal, LocalAllows
<1>2. /\ p \in Processes /\ k \in Keys /\ n \in Nat /\ n <= now /\ last \in Times /\ now \in Nat
  BY <1>1, AtLocal, ClockFacts DEF RateInv
<1>3. /\ LocalWait(r) \in Int /\ LocalWait(r) = Wait(last, n, Interval, Tolerance)
  BY <1>2, WaitInt, RateFacts DEF LocalWait
<1>4. w \in Nat /\ Wait(last, n, Interval, Tolerance) <= w
  <2>1. Second * Milli * Fine \in Nat \ {0}
    BY RateAssumption
  <2> QED BY <1>3, <2>1, RetryEnough
<1>5. "local" \in Halves
  BY DEF Halves
<1> HIDE DEF w
<1>6. /\ caller' \in [Keys -> Callers]
      /\ \A x \in Keys \ {k} : caller'[x] = caller[x]
      /\ caller[k].from = None => caller' = caller
      /\ caller[k].from # None =>
            /\ caller'[k].from = caller[k].from
            /\ caller'[k].told = now + w
            /\ caller'[k].refusals = Append(caller[k].refusals, "local")
  BY <1>1, <1>2, <1>4, <1>5, ToldFacts
<1>7. /\ req' \in [Requests -> [at : {"idle", "local", "shared"}, home : Processes \cup {None},
                                key : Keys \cup {None}, read : 0 .. MaxTime]]
      /\ RequestsSound' /\ req'[r].key = None
      /\ \A q \in Requests \ {r} : req'[q] = req[q]
  BY <1>1, OverFacts
<1>8. TypeOK'
  BY <1>1, <1>6, <1>7 DEF RateInv, TypeOK
<1>9. ASSUME NEW x \in Keys PROVE CallerSound(x)'
  <2>0. TypeOK /\ CallerSound(x) /\ CallerSound(k)
    BY <1>2 DEF RateInv, CallersSound
  <2>1. CASE x # k
    <3>1. \A q \in Requests : req[q].key = x \/ req'[q].key = x => req'[q] = req[q]
      BY <1>7, <2>1, RateAssumption
    <3>2. caller'[x] = caller[x] /\ stored'[x] = stored[x]
          /\ \A s \in Processes : spent'[s][x] \in {spent[s][x], None}
      BY <1>1, <1>6, <2>1
    <3> HIDE DEF k
    <3> QED BY <2>0, <3>1, <3>2, Undisturbed
  <2>2. CASE x = k /\ caller[k].from = None
    <3>1. caller'[x].from = None /\ caller'[x].refusals = <<>>
      BY <1>6, <2>0, <2>2 DEF CallerSound
    <3> QED BY <3>1, NoRefusal DEF CallerSound
  <2>3. CASE x = k /\ caller[k].from # None
    <3>1. \A q \in Requests : req'[q].key # x
      BY <1>1, <2>3, WasAlone
    <3>2. caller[k].from = p /\ caller[k].told <= n /\ \A q \in Requests : req[q].key = k => q = r
      BY <2>0, <2>3 DEF CallerSound
    <3>3. caller[k].told \in Nat /\ caller[k].refusals \in Streaks
      BY <1>2, <2>0 DEF TypeOK, Callers, CallerSound
    <3>4. caller[k].refusals \notin AfterLocal
      <4> SUFFICES ASSUME caller[k].refusals \in AfterLocal PROVE FALSE
        OBVIOUS
      <4>1. \A q \in Requests : req[q].key = k => req[q].at = "local"
        BY <1>1, <3>2
      <4>2. Fits(last, caller[k].told, Interval, Tolerance)
        BY <2>0, <3>2, <4>1 DEF CallerSound
      <4> QED BY <1>1, <1>2, <3>2, <3>3, <4>2, FitsAllows, RateFacts
    <3>5. /\ Append(caller[k].refusals, "local") \in Streaks
          /\ Append(caller[k].refusals, "local") \in WithShared =>
                caller[k].refusals \in WithShared
      BY <3>3, <3>4, LocalRefusal
    <3>6. Fits(last, now + w, Interval, Tolerance)
      <4>1. now + w \in Nat /\ now + w >= n + Wait(last, n, Interval, Tolerance)
        BY <1>2, <1>3, <1>4
      <4> QED BY <1>1, <1>2, <4>1, WaitFits, RateFacts
    <3>7. caller[k].refusals \in WithShared =>
            Fits(stored[k], (now + w) \div Fine, SharedInterval, SharedTolerance)
      <4> SUFFICES ASSUME caller[k].refusals \in WithShared
                   PROVE  Fits(stored[k], (now + w) \div Fine, SharedInterval, SharedTolerance)
        OBVIOUS
      <4>1. Fits(stored[k], caller[k].told \div Fine, SharedInterval, SharedTolerance)
        BY <2>0 DEF CallerSound
      <4>2. /\ caller[k].told \in Int /\ now + w \in Nat /\ caller[k].told <= now + w
            /\ Fine \in Nat \ {0}
        BY <1>2, <1>4, <3>2, <3>3, RateAssumption
      <4>3. /\ caller[k].told \div Fine \in Nat /\ (now + w) \div Fine \in Nat
            /\ caller[k].told \div Fine <= (now + w) \div Fine
        BY <3>3, <4>2, DivNat, DivMono
      <4>4. stored[k] \in Times
        BY <1>2, <2>0 DEF TypeOK, Times
      <4> QED BY <4>1, <4>3, <4>4, FitsLater, RateFacts
    <3> DEFINE more == Append(caller[k].refusals, "local")
    <3>8. caller'[x].from = p /\ caller'[x].told = now + w /\ caller'[x].refusals = more
      BY <1>6, <2>3, <3>2
    <3>9. more \in Streaks /\ (more \in WithShared => caller[k].refusals \in WithShared)
      BY <3>5
    <3> HIDE DEF more, k, p
    <3>10. caller'[x].from # None
      BY <1>2, <2>3, <3>2, <3>8
    <3>11. Fits(spent'[caller'[x].from][x], caller'[x].told, Interval, Tolerance)
      BY <1>1, <2>3, <3>6, <3>8
    <3>12. caller'[x].refusals \in WithShared =>
             Fits(stored'[x], caller'[x].told \div Fine, SharedInterval, SharedTolerance)
      BY <1>1, <2>3, <3>7, <3>8, <3>9
    <3> QED BY <3>1, <3>8, <3>9, <3>10, <3>11, <3>12 DEF CallerSound
  <2> QED BY <2>1, <2>2, <2>3
<1>10. \A s \in Processes : IsFiniteSet(Spending(spent'[s]))
  BY <1>1 DEF RateInv
<1>11. KeptLongEnough'
  BY <1>1 DEF RateInv, KeptLongEnough
<1> QED BY <1>7, <1>8, <1>9, <1>10, <1>11 DEF RateInv, CallersSound, Spending

(* The step by which Redis refuses a request.                              *)
LEMMA RefusedByRedis ==
  ASSUME RateInv, NEW r \in Requests, RefuseShared(r)
  PROVE  RateInv'
<1> USE DEF local, redis
<1> DEFINE k == req[r].key
           m == RetryAfter(SharedWait(k), Second * Milli)
           w == m * Fine
<1>1. /\ req[r].at = "shared" /\ ~Allows(Kept(k), Micros, SharedInterval, SharedTolerance)
      /\ Told(r, "shared", w) /\ Over(r)
      /\ now' = now /\ UNCHANGED <<spent, sweepAt, stored, expires>>
  BY DEF RefuseShared, SharedAllows
<1>2. /\ k \in Keys /\ req[r].home \in Processes /\ req[r].read \in Nat /\ req[r].read <= now
  BY <1>1, AtShared
<1>3. /\ Kept(k) \in Times /\ stored[k] \in Times /\ now \in Nat /\ Micros \in Nat
  BY <1>2, KeptFacts, ClockFacts DEF RateInv
<1>4. /\ SharedWait(k) \in Int
      /\ SharedWait(k) = Wait(Kept(k), Micros, SharedInterval, SharedTolerance)
  BY <1>3, WaitInt, RateFacts DEF SharedWait
<1>5. m \in Nat /\ SharedWait(k) <= m
  <2>1. Second * Milli \in Nat \ {0}
    BY RateAssumption
  <2> QED BY <1>4, <2>1, RetryEnough
<1> HIDE DEF m
<1>6. Fine \in Nat \ {0} /\ w \in Nat
  BY <1>5, RateAssumption
<1>7. "shared" \in Halves
  BY DEF Halves
<1> HIDE DEF w
<1>8. /\ caller' \in [Keys -> Callers]
      /\ \A x \in Keys \ {k} : caller'[x] = caller[x]
      /\ caller[k].from = None => caller' = caller
      /\ caller[k].from # None =>
            /\ caller'[k].from = caller[k].from
            /\ caller'[k].told = now + w
            /\ caller'[k].refusals = Append(caller[k].refusals, "shared")
  BY <1>1, <1>2, <1>6, <1>7, ToldFacts
<1>9. /\ req' \in [Requests -> [at : {"idle", "local", "shared"}, home : Processes \cup {None},
                                key : Keys \cup {None}, read : 0 .. MaxTime]]
      /\ RequestsSound' /\ req'[r].key = None
      /\ \A q \in Requests \ {r} : req'[q] = req[q]
  BY <1>1, OverFacts
<1>10. TypeOK'
  BY <1>1, <1>8, <1>9 DEF RateInv, TypeOK
<1>11. ASSUME NEW x \in Keys PROVE CallerSound(x)'
  <2>0. TypeOK /\ CallerSound(x) /\ CallerSound(k)
    BY <1>2 DEF RateInv, CallersSound
  <2>1. CASE x # k
    <3>1. \A q \in Requests : req[q].key = x \/ req'[q].key = x => req'[q] = req[q]
      BY <1>9, <2>1, RateAssumption
    <3>2. caller'[x] = caller[x] /\ stored'[x] = stored[x]
          /\ \A s \in Processes : spent'[s][x] \in {spent[s][x], None}
      BY <1>1, <1>8, <2>1
    <3> HIDE DEF k
    <3> QED BY <2>0, <3>1, <3>2, Undisturbed
  <2>2. CASE x = k /\ caller[k].from = None
    <3>1. caller'[x].from = None /\ caller'[x].refusals = <<>>
      BY <1>8, <2>0, <2>2 DEF CallerSound
    <3> QED BY <3>1, NoRefusal DEF CallerSound
  <2>3. CASE x = k /\ caller[k].from # None
    <3>1. \A q \in Requests : req'[q].key # x
      BY <1>1, <2>3, WasAlone
    <3>2. caller[k].told <= req[r].read
      BY <2>0, <2>3 DEF CallerSound
    <3>3. caller[k].told \in Nat /\ caller[k].refusals \in Streaks
      BY <1>2, <2>0 DEF TypeOK, Callers, CallerSound
    <3>4. caller[k].refusals \notin WithShared
      <4> SUFFICES ASSUME caller[k].refusals \in WithShared PROVE FALSE
        OBVIOUS
      <4>1. Fits(stored[k], caller[k].told \div Fine, SharedInterval, SharedTolerance)
        BY <2>0 DEF CallerSound
      <4>2. Fits(Kept(k), caller[k].told \div Fine, SharedInterval, SharedTolerance)
        BY <4>1 DEF Fits, Kept
      <4>3. /\ caller[k].told \div Fine \in Nat /\ caller[k].told \div Fine <= Micros
        <5>1. caller[k].told <= now
          BY <1>2, <1>3, <3>2, <3>3
        <5> QED BY <1>3, <1>6, <3>3, <5>1, DivNat, DivMono DEF Micros
      <4> QED BY <1>1, <1>3, <4>2, <4>3, FitsAllows, RateFacts
    <3> DEFINE more == Append(caller[k].refusals, "shared")
    <3>5. more \in Streaks /\ more \notin AfterLocal
      BY <3>3, <3>4, SharedRefusal
    <3>6. Fits(stored[k], (now + w) \div Fine, SharedInterval, SharedTolerance)
      <4>1. (now + w) \div Fine \in Nat /\ Micros + m <= (now + w) \div Fine
        <5>1. Micros + m <= (now + w) \div Fine
          BY <1>3, <1>5, <1>6, DivUnits DEF Micros, w
        <5>2. now + w \in Nat
          BY <1>3, <1>6
        <5> QED BY <1>6, <5>1, <5>2, DivNat
      <4>2. (now + w) \div Fine >=
              Micros + Wait(Kept(k), Micros, SharedInterval, SharedTolerance)
        BY <1>3, <1>4, <1>5, <4>1
      <4>3. /\ Kept(k) # None
            /\ Fits(Kept(k), (now + w) \div Fine, SharedInterval, SharedTolerance)
        BY <1>1, <1>3, <4>1, <4>2, WaitFits, RateFacts
      <4>4. Kept(k) = stored[k]
        BY <4>3 DEF Kept
      <4> QED BY <4>3, <4>4
    <3>7. caller'[x].from # None /\ caller'[x].told = now + w /\ caller'[x].refusals = more
      BY <1>8, <2>3
    <3> HIDE DEF more, k
    <3>8. Fits(stored'[x], caller'[x].told \div Fine, SharedInterval, SharedTolerance)
      BY <1>1, <2>3, <3>6, <3>7
    <3> QED BY <3>1, <3>5, <3>7, <3>8 DEF CallerSound
  <2> QED BY <2>1, <2>2, <2>3
<1>12. \A s \in Processes : IsFiniteSet(Spending(spent'[s]))
  BY <1>1 DEF RateInv
<1>13. KeptLongEnough'
  BY <1>1 DEF RateInv, KeptLongEnough
<1> QED BY <1>9, <1>10, <1>11, <1>12, <1>13 DEF RateInv, CallersSound, Spending

(* A caller that is let through, whatever is stored, is told nothing.      *)
LEMMA LetSound ==
  ASSUME RateInv, NEW r \in Requests, req[r].at = "shared", Over(r), Let(r), now' = now,
         spent' = spent, \A x \in Keys \ {req[r].key} : stored'[x] = stored[x]
  PROVE  CallersSound'
<1> DEFINE k == req[r].key
<1>1. k \in Keys
  BY AtShared
<1>2. /\ caller'[k].refusals = <<>> /\ caller'[k].told = 0 /\ caller'[k].from = caller[k].from
      /\ \A x \in Keys \ {k} : caller'[x] = caller[x]
  BY <1>1, LetFacts
<1>3. req'[r].key = None /\ \A q \in Requests \ {r} : req'[q] = req[q]
  BY OverFacts
<1>4. ASSUME NEW x \in Keys PROVE CallerSound(x)'
  <2>0. TypeOK /\ CallerSound(x)
    BY DEF RateInv, CallersSound
  <2>1. CASE x # k
    <3>1. \A q \in Requests : req[q].key = x \/ req'[q].key = x => req'[q] = req[q]
      BY <1>3, <2>1, RateAssumption
    <3>2. caller'[x] = caller[x] /\ stored'[x] = stored[x]
          /\ \A s \in Processes : spent'[s][x] \in {spent[s][x], None}
      BY <1>2, <2>1
    <3> HIDE DEF k
    <3> QED BY <2>0, <3>1, <3>2, Undisturbed
  <2>2. CASE x = k /\ caller[k].from = None
    <3>1. caller'[x].from = None /\ caller'[x].refusals = <<>>
      BY <1>2, <2>2
    <3> QED BY <3>1, NoRefusal DEF CallerSound
  <2>3. CASE x = k /\ caller[k].from # None
    <3>1. \A q \in Requests : req'[q].key # x
      BY <2>3, WasAlone
    <3>2. caller'[x].refusals = <<>>
      BY <1>2, <2>3
    <3> QED BY <3>1, <3>2, NoRefusal DEF CallerSound
  <2> QED BY <2>1, <2>2, <2>3
<1> QED BY <1>4 DEF CallersSound

(* The step by which a request reads the clock.                            *)
LEMMA ClockRead ==
  ASSUME RateInv, NEW r \in Requests, NEW p \in Processes, NEW k \in Keys, ReadClock(r, p, k)
  PROVE  RateInv'
<1> USE DEF local, redis
<1> DEFINE fresh == [at |-> "local", home |-> p, key |-> k, read |-> now]
<1>1. /\ req[r].at = "idle" /\ req' = [req EXCEPT ![r] = fresh]
      /\ caller' = [caller EXCEPT ![k] = Begins(p, k)]
      /\ UNCHANGED <<now, spent, sweepAt, stored, expires>>
  BY DEF ReadClock
<1>2. now \in Nat /\ now \in 0 .. MaxTime
  BY ClockFacts DEF RateInv, TypeOK
<1>3. /\ req' \in [Requests -> [at : {"idle", "local", "shared"}, home : Processes \cup {None},
                                key : Keys \cup {None}, read : 0 .. MaxTime]]
      /\ req'[r] = fresh /\ \A q \in Requests \ {r} : req'[q] = req[q]
  <2>1. fresh \in [at : {"idle", "local", "shared"}, home : Processes \cup {None},
                   key : Keys \cup {None}, read : 0 .. MaxTime]
    BY <1>2
  <2> HIDE DEF fresh
  <2> QED BY <1>1, <2>1 DEF RateInv, TypeOK
<1>4. Begins(p, k) \in Callers
  <2>1. caller[k] \in Callers
    BY DEF RateInv, TypeOK
  <2>2. <<>> \in Seq({"local", "shared"})
    OBVIOUS
  <2> QED BY <2>1, <2>2 DEF Begins, Callers
<1>5. /\ caller' \in [Keys -> Callers] /\ caller'[k] = Begins(p, k)
      /\ \A x \in Keys \ {k} : caller'[x] = caller[x]
  BY <1>1, <1>4 DEF RateInv, TypeOK
<1>6. TypeOK'
  BY <1>1, <1>3, <1>5 DEF RateInv, TypeOK
<1>7. RequestsSound'
  BY <1>1, <1>2, <1>3, RateAssumption DEF RateInv, RequestsSound
<1>8. req[r].key = None
  BY <1>1 DEF RateInv, RequestsSound, NoRequest
<1>9. ASSUME NEW x \in Keys PROVE CallerSound(x)'
  <2>0. TypeOK /\ CallerSound(x) /\ CallerSound(k)
    BY DEF RateInv, CallersSound
  <2>1. CASE x # k
    <3>1. \A q \in Requests : req[q].key = x \/ req'[q].key = x => req'[q] = req[q]
      BY <1>3, <1>8, <2>1, RateAssumption
    <3>2. caller'[x] = caller[x] /\ stored'[x] = stored[x]
          /\ \A s \in Processes : spent'[s][x] \in {spent[s][x], None}
      BY <1>1, <1>5, <2>1
    <3> QED BY <2>0, <3>1, <3>2, Undisturbed
  <2>2. CASE x = k /\ ~Alone(k)
    <3>1. ~Patient(p, k)
      BY <2>2 DEF Patient
    <3>2. caller'[x].from = None /\ caller'[x].refusals = <<>>
      BY <1>5, <2>2, <3>1 DEF Begins
    <3> QED BY <3>2, NoRefusal DEF CallerSound
  <2>3. CASE x = k /\ Alone(k)
    <3>1. \A q \in Requests : req'[q].key = x <=> q = r
      BY <1>3, <2>3 DEF Alone
    <3>2. req'[r].home = p /\ req'[r].read = now /\ req'[r].at = "local"
      BY <1>3
    <3>3. CASE Patient(p, k)
      <4>1. caller'[x] = caller[x] /\ caller[x].from = p /\ caller[x].told <= now
        <5>1. caller'[x] = caller[x] /\ caller[x].from = p /\ now >= caller[x].told
          BY <1>5, <2>3, <3>3 DEF Begins, Patient
        <5>2. caller[x].told \in Nat
          BY <2>0 DEF TypeOK, Callers
        <5> QED BY <1>2, <5>1, <5>2
      <4>2. \A q \in Requests : req[q].key # x
        BY <2>3 DEF Alone
      <4>3. caller[x].refusals \in AfterLocal =>
              Fits(spent[caller[x].from][x], caller[x].told, Interval, Tolerance)
        BY <2>0, <4>2 DEF CallerSound
      <4>4. /\ caller[x].refusals \in Streaks
            /\ caller[x].from = None => caller[x].refusals = <<>>
            /\ caller[x].refusals \in WithShared =>
                  Fits(stored[x], caller[x].told \div Fine, SharedInterval, SharedTolerance)
        BY <2>0 DEF CallerSound
      <4>5. \A q \in {q \in Requests : req'[q].key = x} :
              /\ req'[q].home = caller'[x].from /\ caller'[x].told <= req'[q].read
              /\ \A s \in {s \in Requests : req'[s].key = x} : s = q
        BY <3>1, <3>2, <4>1
      <4> QED BY <1>1, <4>1, <4>3, <4>4, <4>5 DEF CallerSound
    <3>4. CASE ~Patient(p, k)
      <4>1. caller'[x].from = p /\ caller'[x].told = 0 /\ caller'[x].refusals = <<>>
        BY <1>5, <2>3, <3>4 DEF Begins
      <4>2. \A q \in {q \in Requests : req'[q].key = x} :
              /\ req'[q].home = caller'[x].from /\ caller'[x].told <= req'[q].read
              /\ \A s \in {s \in Requests : req'[s].key = x} : s = q
        BY <1>2, <3>1, <3>2, <4>1
      <4>3. caller'[x].refusals \in Streaks /\ caller'[x].refusals \notin AfterLocal
            /\ caller'[x].refusals \notin WithShared
        BY <4>1, NoRefusal
      <4> QED BY <4>1, <4>2, <4>3 DEF CallerSound
    <3> QED BY <3>3, <3>4
  <2> QED BY <2>1, <2>2, <2>3
<1>10. \A s \in Processes : IsFiniteSet(Spending(spent'[s]))
  BY <1>1 DEF RateInv
<1>11. KeptLongEnough'
  BY <1>1 DEF RateInv, KeptLongEnough
<1> QED BY <1>6, <1>7, <1>9, <1>10, <1>11 DEF RateInv, CallersSound, Spending

(* The step by which a request takes from the process's budget.            *)
LEMMA TakenThere ==
  ASSUME RateInv, NEW r \in Requests, TakeLocal(r)
  PROVE  RateInv'
<1> USE DEF local, redis
<1> DEFINE k == req[r].key
           p == req[r].home
<1>1. /\ req[r].at = "local" /\ Insert(p, k, req[r].read)
      /\ req' = [req EXCEPT ![r].at = "shared"]
      /\ UNCHANGED <<now, stored, expires, caller>>
  BY DEF TakeLocal
<1>2. p \in Processes /\ k \in Keys /\ req[r].read \in Nat /\ req[r].read <= now
  BY <1>1, AtLocal
<1>3. /\ spent' \in [Processes -> [Keys -> Times]]
      /\ sweepAt' \in [Processes -> {m \in Nat : m >= SweepFloor}]
      /\ IsFiniteSet(Spending(spent'[p]))
      /\ \A q \in Processes \ {p} : spent'[q] = spent[q]
      /\ \A x \in Keys \ {k} : spent'[p][x] \in {spent[p][x], None}
  BY <1>1, <1>2, InsertFacts
<1>4. /\ req' \in [Requests -> [at : {"idle", "local", "shared"}, home : Processes \cup {None},
                                key : Keys \cup {None}, read : 0 .. MaxTime]]
      /\ req'[r].at = "shared" /\ req'[r].home = p /\ req'[r].key = k
      /\ req'[r].read = req[r].read
      /\ \A q \in Requests \ {r} : req'[q] = req[q]
  BY <1>1 DEF RateInv, TypeOK
<1>5. TypeOK'
  BY <1>1, <1>3, <1>4 DEF RateInv, TypeOK, Times
<1>6. RequestsSound'
  BY <1>1, <1>2, <1>4 DEF RateInv, RequestsSound
<1>7. \A s \in Processes : IsFiniteSet(Spending(spent'[s]))
  BY <1>3 DEF RateInv
<1>8. KeptLongEnough'
  BY <1>1 DEF RateInv, KeptLongEnough
<1>9. ASSUME NEW x \in Keys PROVE CallerSound(x)'
  <2>0. TypeOK /\ CallerSound(x)
    BY DEF RateInv, CallersSound
  <2>1. CASE x # k
    <3>1. \A q \in Requests : req[q].key = x \/ req'[q].key = x => req'[q] = req[q]
      BY <1>4, <2>1
    <3>2. caller'[x] = caller[x] /\ stored'[x] = stored[x]
          /\ \A s \in Processes : spent'[s][x] \in {spent[s][x], None}
      BY <1>1, <1>3, <2>1
    <3> HIDE DEF k
    <3> QED BY <2>0, <3>1, <3>2, Undisturbed
  <2>2. CASE x = k
    <3>1. ~(\A q \in {q \in Requests : req'[q].key = x} : req'[q].at = "local")
      BY <1>4, <2>2
    <3>2. caller'[x].from # None =>
            \A q \in {q \in Requests : req'[q].key = x} :
               /\ req'[q].home = caller'[x].from /\ caller'[x].told <= req'[q].read
               /\ \A s \in {s \in Requests : req'[s].key = x} : s = q
      <4>1. \A q \in Requests : /\ req'[q].key = req[q].key /\ req'[q].home = req[q].home
                                /\ req'[q].read = req[q].read
        BY <1>4
      <4> HIDE DEF k
      <4> QED BY <1>1, <2>0, <4>1 DEF CallerSound
    <3> HIDE DEF k
    <3> QED BY <1>1, <2>0, <3>1, <3>2 DEF CallerSound
  <2> QED BY <2>1, <2>2
<1> QED BY <1>5, <1>6, <1>7, <1>8, <1>9 DEF RateInv, CallersSound, Spending

(* The step by which a request takes from the budget in Redis.             *)
LEMMA TakenInRedis ==
  ASSUME RateInv, NEW r \in Requests, TakeShared(r)
  PROVE  RateInv'
<1> USE DEF local, redis
<1> DEFINE k == req[r].key
           nxt == Nxt(Kept(k), Micros, SharedInterval)
<1>1. /\ req[r].at = "shared" /\ Over(r) /\ Let(r)
      /\ stored' = [stored EXCEPT ![k] = nxt]
      /\ expires' = [expires EXCEPT ![k] = Expiry(nxt)]
      /\ UNCHANGED <<now, spent, sweepAt>>
  BY DEF TakeShared, Stores
<1>2. k \in Keys
  BY <1>1, AtShared
<1>3. nxt \in Nat /\ nxt > Micros
  <2>1. Kept(k) \in Times /\ Micros \in Nat /\ SharedInterval \in Nat \ {0}
    BY <1>2, KeptFacts, ClockFacts, RateFacts DEF RateInv
  <2>2. nxt = Micros + Ahead(Kept(k), Micros) + SharedInterval
        /\ nxt \in Nat /\ Ahead(Kept(k), Micros) \in Nat
    BY <2>1, AheadFacts
  <2> QED BY <2>1, <2>2
<1> HIDE DEF nxt
<1>4. Expiry(nxt) \in Nat /\ nxt < Milli * (Expiry(nxt) + 1)
  BY <1>2, <1>3, StoreFacts
<1>5. CallersSound'
  <2>1. \A x \in Keys \ {req[r].key} : stored'[x] = stored[x]
    BY <1>1 DEF RateInv, TypeOK
  <2> QED BY <1>1, <2>1, LetSound
<1>6. RequestsSound' /\ caller' \in [Keys -> Callers]
      /\ req' \in [Requests -> [at : {"idle", "local", "shared"}, home : Processes \cup {None},
                                key : Keys \cup {None}, read : 0 .. MaxTime]]
  BY <1>1, <1>2, OverFacts, LetFacts
<1> HIDE DEF k
<1>7. TypeOK'
  BY <1>1, <1>2, <1>3, <1>4, <1>6 DEF RateInv, TypeOK
<1>8. KeptLongEnough'
  BY <1>1, <1>2, <1>4 DEF RateInv, TypeOK, KeptLongEnough
<1>9. \A s \in Processes : IsFiniteSet(Spending(spent'[s]))
  BY <1>1 DEF RateInv
<1> QED BY <1>5, <1>6, <1>7, <1>8, <1>9 DEF RateInv, Spending

(* The step by which a request finds no Redis.                             *)
LEMMA LetThrough ==
  ASSUME RateInv, NEW r \in Requests, Unreachable(r)
  PROVE  RateInv'
<1> USE DEF local, redis
<1>1. /\ req[r].at = "shared" /\ Over(r) /\ Let(r)
      /\ UNCHANGED <<now, spent, sweepAt, stored, expires>>
  BY DEF Unreachable
<1>2. req[r].key \in Keys
  BY <1>1, AtShared
<1>3. RequestsSound' /\ caller' \in [Keys -> Callers]
      /\ req' \in [Requests -> [at : {"idle", "local", "shared"}, home : Processes \cup {None},
                                key : Keys \cup {None}, read : 0 .. MaxTime]]
  BY <1>1, <1>2, OverFacts, LetFacts
<1>4. CallersSound'
  BY <1>1, LetSound
<1>5. TypeOK'
  BY <1>1, <1>3 DEF RateInv, TypeOK
<1>6. KeptLongEnough'
  BY <1>1 DEF RateInv, KeptLongEnough
<1>7. \A s \in Processes : IsFiniteSet(Spending(spent'[s]))
  BY <1>1 DEF RateInv
<1> QED BY <1>3, <1>4, <1>5, <1>6, <1>7 DEF RateInv, Spending

(* Every step preserves the invariant, sweeps and expiries included.       *)
LEMMA NextRate == RateInv /\ [Next]_vars => RateInv'
<1> SUFFICES ASSUME RateInv, [Next]_vars PROVE RateInv'
  OBVIOUS
<1> USE DEF local, redis
<1>0. ASSUME UNCHANGED <<spent, stored, req, caller>> PROVE CallersSound'
  BY <1>0 DEF RateInv, CallersSound, CallerSound
<1>1. CASE Tick
  <2>1. /\ now < MaxTime /\ now' = now + 1
        /\ \A r \in Requests : req[r].at = "local" => now < req[r].read + Lag
        /\ UNCHANGED <<spent, sweepAt, req, stored, expires, caller>>
    BY <1>1 DEF Tick
  <2>2. now \in Nat /\ \A r \in Requests : req[r].read \in Nat
    BY ClockFacts, RateAssumption DEF RateInv, TypeOK
  <2>3. RequestsSound'
    BY <2>1, <2>2, RateAssumption DEF RateInv, RequestsSound
  <2>4. TypeOK'
    BY <2>1, <2>2, RateAssumption DEF RateInv, TypeOK
  <2> QED BY <1>0, <2>1, <2>3, <2>4 DEF RateInv, Spending, KeptLongEnough
<1>2. ASSUME NEW r \in Requests, NEW b \in Reaches, ReadClock(r, b[1], b[2])
      PROVE  RateInv'
  <2>1. b[1] \in Processes /\ b[2] \in Keys
    BY RateAssumption
  <2> QED BY <1>2, <2>1, ClockRead
<1>3. CASE UNCHANGED vars
  <2>1. CallersSound'
    BY <1>0, <1>3 DEF vars
  <2>2. TypeOK' /\ RequestsSound' /\ KeptLongEnough'
    BY <1>3 DEF vars, RateInv, TypeOK, RequestsSound, KeptLongEnough
  <2> QED BY <1>3, <2>1, <2>2 DEF vars, RateInv, Spending
<1> QED BY <1>1, <1>2, <1>3, TakenThere, RefusedThere, TakenInRedis, RefusedByRedis, LetThrough
        DEF Next

(* The invariant holds throughout.                                         *)
LEMMA RateInvariance == Spec => []RateInv
BY InitRate, NextRate, PTL DEF Spec

(* A caller alone on its key, at one process, that waits as long as it is  *)
(* told is let through after three refusals at most, for every rate, burst,*)
(* resolution of the clocks and Lag, whatever other callers do to the map  *)
(* (Limit::spend, and refused and spend_shared in _limits.py).             *)
THEOREM RetryAfterSafe == Spec => []Safety
<1>1. RateInv => Safety
  BY DEF RateInv, CallersSound, CallerSound, Streaks, Safety, PatientIsServed
<1> QED BY <1>1, RateInvariance, PTL

-----------------------------------------------------------------------------
(* The refinement                                                          *)

LocalLevel ==
    [b \in Processes \X Keys |-> (Tolerance + Lag) - Ahead(Later(spent[b[1]][b[2]]), now)]
SharedLevel == [k \in Keys |-> SharedTolerance - Ahead(Kept(k), Micros)]

(* By a reading up to Lag old, a request costs up to Lag more.             *)
LEMMA LocalCost ==
  ASSUME NEW last \in Times, NEW n \in Nat, NEW t \in Nat, n <= t, t <= n + Lag,
         Allows(last, n, Interval, Tolerance)
  PROVE  \E cost \in Interval .. Interval + Lag :
            /\ Ahead(Later(Nxt(last, n, Interval)), t) = Ahead(Later(last), t) + cost
            /\ Ahead(Later(last), t) + cost <= Tolerance + Lag
<1>1. Interval \in Nat \ {0} /\ Tolerance \in Nat /\ Lag \in Nat /\ None \notin Int
  BY RateFacts, RateAssumption
<1> DEFINE before == Ahead(Later(last), t)
           after == Ahead(Later(Nxt(last, n, Interval)), t)
<1>2. before \in Nat /\ after \in Nat /\ after <= Tolerance + Lag
  BY <1>1 DEF Times, Allows, Nxt, Ahead, Later, Larger
<1>3. before + Interval <= after /\ after <= before + Interval + Lag
  BY <1>1 DEF Times, Allows, Nxt, Ahead, Later, Larger
<1> HIDE DEF before, after
<1>4. after - before \in Interval .. Interval + Lag /\ after = before + (after - before)
  BY <1>1, <1>2, <1>3
<1> QED BY <1>2, <1>4 DEF before, after

(* What a sweep forgets was full but for Lag.                              *)
LEMMA SweptFull ==
  ASSUME NEW e \in Nat, NEW n \in Nat, NEW t \in Nat, e <= n, n <= t
  PROVE  Ahead(Later(e), t) \in 0 .. Lag /\ Ahead(Later(None), t) = 0
BY RateAssumption DEF Ahead, Later, Larger

(* The budgets of a process start as full buckets.                         *)
LEMMA LocalInit == Init => LocalBucket!Init
<1> SUFFICES ASSUME Init PROVE LocalBucket!Init
  OBVIOUS
<1>1. LocalLevel = [b \in Processes \X Keys |-> Interval * Burst + Lag]
  <2>1. ASSUME NEW b \in Processes \X Keys
        PROVE  (Tolerance + Lag) - Ahead(Later(spent[b[1]][b[2]]), now) = Interval * Burst + Lag
    <3>1. spent[b[1]][b[2]] = None
      BY DEF Init
    <3>2. (Tolerance + Lag) - 0 = Interval * Burst + Lag
      BY RateFacts, RateAssumption DEF Tolerance
    <3> QED BY <3>1, <3>2 DEF Ahead, Later
  <2> QED BY <2>1 DEF LocalLevel
<1> QED BY <1>1 DEF Init, LocalBucket!Init, LocalBucket!Capacity, LocalLevel

(* Limit::spend is a Take, the clock a Refill, all else nothing.           *)
LEMMA LocalStep ==
  RateInv /\ [Next]_vars => [LocalBucket!Next]_<<LocalLevel, now>>
<1> SUFFICES ASSUME RateInv, [Next]_vars
             PROVE  [LocalBucket!Next]_<<LocalLevel, now>>
  OBVIOUS
<1> USE DEF local, redis
<1> DEFINE Full == Tolerance + Lag
<1>t. /\ now \in Nat /\ Interval \in Nat \ {0} /\ Tolerance \in Nat /\ Lag \in Nat
      /\ \A p \in Processes, k \in Keys : spent[p][k] \in Times
  BY ClockFacts, RateFacts, RateAssumption DEF RateInv, TypeOK, Times
<1>a. ASSUME NEW p \in Processes, NEW k \in Keys
      PROVE  /\ Ahead(Later(spent[p][k]), now) \in Nat
             /\ Ahead(Later(spent[p][k]), now + 1) =
                   IF Ahead(Later(spent[p][k]), now) > 0
                   THEN Ahead(Later(spent[p][k]), now) - 1 ELSE 0
  <2>1. Later(spent[p][k]) \in Times
    BY <1>t, RateAssumption DEF Later, Times
  <2> QED BY <1>t, <2>1, AheadFacts
<1>c. LocalBucket!Capacity = Full /\ Interval * Burst = Tolerance
  BY DEF LocalBucket!Capacity, Tolerance
<1>1. CASE Tick
  <2>1. spent' = spent /\ now' = now + 1
    BY <1>1 DEF Tick
  <2>2. ASSUME NEW b \in Processes \X Keys
        PROVE  Full - Ahead(Later(spent[b[1]][b[2]]), now + 1) =
                 IF LocalLevel[b] < Full THEN LocalLevel[b] + 1 ELSE Full
    <3>1. b[1] \in Processes /\ b[2] \in Keys
      OBVIOUS
    <3>2. LocalLevel[b] = Full - Ahead(Later(spent[b[1]][b[2]]), now)
      BY DEF LocalLevel
    <3> QED BY <1>t, <1>a, <3>1, <3>2
  <2>3. LocalLevel' = [b \in Processes \X Keys |->
                         IF LocalLevel[b] < Full THEN LocalLevel[b] + 1 ELSE Full]
    BY <2>1, <2>2 DEF LocalLevel
  <2>4. LocalBucket!Refill
    BY <1>c, <2>1, <2>3 DEF LocalBucket!Refill, LocalLevel
  <2> QED BY <2>4 DEF LocalBucket!Next
<1>2. ASSUME NEW r \in Requests, TakeLocal(r)
      PROVE  LocalBucket!Next
  <2> DEFINE p == req[r].home
             k == req[r].key
             n == req[r].read
  <2>1. /\ Allows(spent[p][k], n, Interval, Tolerance)
        /\ Insert(p, k, n) /\ now' = now /\ req[r].at = "local"
    BY <1>2 DEF TakeLocal, LocalAllows
  <2>2. p \in Processes /\ k \in Keys /\ n \in Nat /\ n <= now /\ now <= n + Lag
    BY <2>1, AtLocal
  <2>3. /\ \A q \in Processes \ {p} : spent'[q] = spent[q]
        /\ spent'[p][k] = Nxt(spent[p][k], n, Interval)
        /\ \A x \in Keys \ {k} :
              \/ spent'[p][x] = spent[p][x]
              \/ spent'[p][x] = None /\ spent[p][x] \in Nat /\ spent[p][x] <= n
    BY <2>1, <2>2, InsertFacts
  <2>4. spent[p][k] \in Times
    BY <1>t, <2>2
  <2>5. PICK cost \in Interval .. Interval + Lag :
            /\ Ahead(Later(spent'[p][k]), now) = Ahead(Later(spent[p][k]), now) + cost
            /\ Ahead(Later(spent[p][k]), now) + cost <= Full
    BY <1>t, <2>1, <2>2, <2>3, <2>4, LocalCost
  <2> HIDE DEF p, k, n
  <2>6. <<p, k>> \in Processes \X Keys
    BY <2>2
  <2>7. /\ LocalLevel[<<p, k>>] = Full - Ahead(Later(spent[p][k]), now)
        /\ LocalLevel'[<<p, k>>] = Full - Ahead(Later(spent'[p][k]), now)
    BY <2>1, <2>6 DEF LocalLevel
  <2>8. /\ LocalLevel[<<p, k>>] >= cost
        /\ LocalLevel'[<<p, k>>] = LocalLevel[<<p, k>>] - cost
    BY <1>t, <1>a, <2>2, <2>5, <2>7
  <2>9. ASSUME NEW c \in (Processes \X Keys) \ {<<p, k>>}
        PROVE  \/ LocalLevel'[c] = LocalLevel[c]
               \/ LocalLevel[c] >= Tolerance /\ LocalLevel'[c] = Full
    <3>1. c[1] \in Processes /\ c[2] \in Keys /\ c = <<c[1], c[2]>>
      OBVIOUS
    <3>2. /\ LocalLevel[c] = Full - Ahead(Later(spent[c[1]][c[2]]), now)
          /\ LocalLevel'[c] = Full - Ahead(Later(spent'[c[1]][c[2]]), now)
      BY <2>1 DEF LocalLevel
    <3>3. CASE c[1] # p
      BY <2>3, <3>1, <3>2, <3>3
    <3>4. CASE c[1] = p /\ c[2] # k
      <4>1. CASE spent'[p][c[2]] = spent[p][c[2]]
        BY <3>2, <3>4, <4>1
      <4>2. CASE /\ spent'[p][c[2]] = None /\ spent[p][c[2]] \in Nat
                 /\ spent[p][c[2]] <= n
        <5>1. /\ Ahead(Later(spent[p][c[2]]), now) \in 0 .. Lag
              /\ Ahead(Later(spent'[p][c[2]]), now) = 0
          BY <1>t, <2>2, <4>2, SweptFull
        <5> QED BY <1>t, <3>2, <3>4, <5>1
      <4> QED BY <2>3, <3>1, <3>4, <4>1, <4>2
    <3> QED BY <3>1, <3>3, <3>4
  <2>10. DOMAIN LocalLevel' = Processes \X Keys
    BY DEF LocalLevel
  <2>11. LocalBucket!Take(<<p, k>>)
    BY <1>c, <2>1, <2>8, <2>9, <2>10
       DEF LocalBucket!Take, LocalBucket!TakenForFull, LocalLevel
  <2> QED BY <2>6, <2>11 DEF LocalBucket!Next
<1>3. CASE UNCHANGED <<spent, now>>
  BY <1>3 DEF LocalLevel
<1> QED BY <1>1, <1>2, <1>3
        DEF Next, vars, ReadClock, RefuseLocal, TakeShared, RefuseShared, Unreachable

KeptAhead == \A k \in Keys : Ahead(Kept(k), Micros) = Ahead(stored[k], Micros)

(* After a step, too, what has expired counts as what was stored.          *)
LEMMA KeptAheadNext == RateInv' => KeptAhead'
<1>1. RateInv => KeptAhead
  BY KeptFacts DEF KeptAhead
<1> QED BY <1>1, PTL

(* The budgets in Redis start as full buckets.                             *)
LEMMA SharedInit == Init => RedisBucket!Init
<1> SUFFICES ASSUME Init PROVE RedisBucket!Init
  OBVIOUS
<1>1. SharedLevel = [k \in Keys |-> SharedInterval * Burst + 0]
  <2>1. ASSUME NEW k \in Keys
        PROVE  SharedTolerance - Ahead(Kept(k), Micros) = SharedInterval * Burst + 0
    <3>1. Kept(k) = None
      BY DEF Init, Kept
    <3> QED BY <3>1, RateFacts DEF Ahead, SharedTolerance
  <2> QED BY <2>1 DEF SharedLevel
<1>2. Micros = 0
  <2>1. Fine \in Nat \ {0} /\ now = 0
    BY RateAssumption DEF Init
  <2>2. 0 \div Fine \in Nat /\ Fine * (0 \div Fine) <= 0
    BY <2>1, DivNat, DivBounds
  <2>3. 0 < 0 \div Fine => Fine * 0 + Fine <= Fine * (0 \div Fine)
    BY <2>1, <2>2, Multiples
  <2> QED BY <2>1, <2>2, <2>3 DEF Micros
<1> QED BY <1>1, <1>2 DEF RedisBucket!Init, RedisBucket!Capacity, SharedLevel

(* The script is a Take; a microsecond, which may be the end of a key, is  *)
(* a Refill.                                                               *)
LEMMA SharedStep ==
  RateInv /\ RateInv' /\ [Next]_vars => [RedisBucket!Next]_<<SharedLevel, Micros>>
<1> SUFFICES ASSUME RateInv, RateInv', [Next]_vars
             PROVE  [RedisBucket!Next]_<<SharedLevel, Micros>>
  OBVIOUS
<1> USE DEF local, redis
<1> DEFINE Level == [k \in Keys |-> SharedTolerance - Ahead(stored[k], Micros)]
<1>t. /\ now \in Nat /\ Micros \in Nat /\ SharedInterval \in Nat \ {0}
      /\ SharedTolerance \in Nat /\ \A k \in Keys : stored[k] \in Times
  BY ClockFacts, KeptFacts, RateFacts DEF RateInv
<1>a. ASSUME NEW k \in Keys
      PROVE  /\ Ahead(stored[k], Micros) \in Nat
             /\ Ahead(stored[k], Micros + 1) =
                   IF Ahead(stored[k], Micros) > 0 THEN Ahead(stored[k], Micros) - 1 ELSE 0
  BY <1>t, AheadFacts
<1>k. SharedLevel = Level /\ SharedLevel' = Level'
  <2>1. \A k \in Keys : Ahead(Kept(k), Micros) = Ahead(stored[k], Micros)
    BY KeptFacts
  <2>2. (\A k \in Keys : Ahead(Kept(k), Micros) = Ahead(stored[k], Micros))'
    BY KeptAheadNext DEF KeptAhead
  <2> QED BY <2>1, <2>2 DEF SharedLevel
<1>1. CASE Tick
  <2>1. stored' = stored /\ Micros' = (now + 1) \div Fine
    BY <1>1 DEF Tick, Micros
  <2>2. Micros' = Micros \/ Micros' = Micros + 1
    BY <1>t, <2>1, DivStep, RateAssumption DEF Micros
  <2>3. CASE Micros' = Micros
    BY <1>k, <2>1, <2>3
  <2>4. CASE Micros' = Micros + 1
    <3>1. ASSUME NEW k \in Keys
          PROVE  SharedTolerance - Ahead(stored[k], Micros + 1) =
                   IF Level[k] < SharedTolerance THEN Level[k] + 1 ELSE SharedTolerance
      BY <1>t, <1>a
    <3>2. Level' = [k \in Keys |-> IF Level[k] < SharedTolerance THEN Level[k] + 1
                                   ELSE SharedTolerance]
      BY <2>1, <2>4, <3>1
    <3> HIDE DEF Level
    <3>3. RedisBucket!Capacity = SharedTolerance
      BY <1>t DEF RedisBucket!Capacity, SharedTolerance
    <3>4. RedisBucket!Refill
      BY <1>k, <2>4, <3>2, <3>3 DEF RedisBucket!Refill, SharedLevel
    <3> QED BY <3>4 DEF RedisBucket!Next
  <2> QED BY <2>2, <2>3, <2>4
<1>2. ASSUME NEW r \in Requests, TakeShared(r)
      PROVE  RedisBucket!Next
  <2> DEFINE k == req[r].key
             nxt == Nxt(Kept(k), Micros, SharedInterval)
  <2>1. k \in Keys
    BY <1>2, AtShared DEF TakeShared
  <2>2. /\ Allows(Kept(k), Micros, SharedInterval, SharedTolerance)
        /\ stored' = [stored EXCEPT ![k] = nxt] /\ now' = now
    BY <1>2 DEF TakeShared, SharedAllows, Stores
  <2>3. Micros' = Micros
    BY <2>2 DEF Micros
  <2>4. /\ Kept(k) \in Times /\ Ahead(Kept(k), Micros) = Ahead(stored[k], Micros)
    BY <2>1, KeptFacts
  <2>5. /\ Ahead(nxt, Micros) = Ahead(stored[k], Micros) + SharedInterval
        /\ Ahead(stored[k], Micros) + SharedInterval <= SharedTolerance
    BY <1>t, <2>2, <2>4, AheadFacts
  <2> HIDE DEF k, nxt
  <2>6. Level[k] >= SharedInterval
    BY <1>t, <1>a, <2>1, <2>5
  <2>7. Level' = [Level EXCEPT ![k] = Level[k] - SharedInterval]
    <3>1. ASSUME NEW x \in Keys
          PROVE  SharedTolerance - Ahead(stored'[x], Micros) =
                   IF x = k THEN Level[k] - SharedInterval ELSE Level[x]
      <4>1. stored \in [Keys -> Nat \cup {None}]
        BY DEF RateInv, TypeOK
      <4>2. CASE x = k
        <5>1. stored'[x] = nxt
          BY <2>2, <4>1, <4>2
        <5> QED BY <1>t, <1>a, <2>1, <2>5, <4>2, <5>1
      <4>3. CASE x # k
        BY <2>2, <4>1, <4>3
      <4> QED BY <4>2, <4>3
    <3> QED BY <2>1, <2>3, <3>1
  <2> HIDE DEF Level
  <2>8. RedisBucket!Take(k)
    <3>1. DOMAIN Level = Keys
      BY DEF Level
    <3>2. /\ DOMAIN Level' = Keys /\ Level'[k] = Level[k] - SharedInterval
          /\ \A x \in Keys \ {k} : Level'[x] = Level[x]
      BY <2>1, <2>7, <3>1
    <3>3. SharedInterval \in SharedInterval .. SharedInterval + 0
      BY <1>t
    <3> QED BY <1>k, <2>3, <2>6, <3>2, <3>3 DEF RedisBucket!Take, SharedLevel
  <2> QED BY <2>1, <2>8 DEF RedisBucket!Next
<1>3. CASE UNCHANGED <<stored, expires, now>>
  BY <1>3 DEF SharedLevel, Kept, Micros, Millis
<1> QED BY <1>1, <1>2, <1>3
        DEF Next, vars, ReadClock, TakeLocal, RefuseLocal, RefuseShared, Unreachable

(* Both halves of a rate limit are token buckets: Limit::spend with its    *)
(* sweep, for each process and key, to within the time a thread is held    *)
(* before the map, and the script in Redis with its expiry, for each key,  *)
(* whatever the processes that share it do.                                *)
THEOREM BothAreBuckets == Spec => IsBucket
<1>1. Spec => LocalBucket!Spec
  <2>1. RateInv /\ [Next]_vars => [LocalBucket!Next]_<<[b \in Processes \X Keys |->
                 (Tolerance + Lag) - Ahead(Later(spent[b[1]][b[2]]), now)], now>>
    BY LocalStep DEF LocalLevel
  <2> QED BY <2>1, LocalInit, RateInvariance, PTL DEF Spec, LocalBucket!Spec
<1>2. Spec => RedisBucket!Spec
  <2>1. RateInv /\ RateInv' /\ [Next]_vars =>
          [RedisBucket!Next]_<<[k \in Keys |-> SharedTolerance - Ahead(Kept(k), Micros)], Micros>>
    BY SharedStep DEF SharedLevel
  <2> QED BY <2>1, SharedInit, RateInvariance, PTL DEF Spec, RedisBucket!Spec
<1> QED BY <1>1, <1>2 DEF IsBucket, LocalIsBucket, SharedIsBucket

-----------------------------------------------------------------------------
(* LoginFlow: whose a session is                                           *)

Cookies == [session : Lg!Sessions, at : Nat]
Phases == {"idle", "begin", "provider", "back", "callback", "exchange", "logout", "edit",
           "replied"}
TabSet == [phase : Phases, browser : Browsers \cup {None}, cookie : Cookies \cup {None},
           state : Lg!Ids \cup {None}, code : Lg!Ids \cup {None},
           reply : Lg!Sessions \cup {None}]

(* A session browser b may have: the logins it is waiting for, and the one *)
(* it stands for, were begun in b, and its note was made as its user.      *)
Belongs(ls, s, b) ==
    /\ s \in Lg!Sessions
    /\ Cardinality(s.pending) <= PendingLimit
    /\ \A n \in s.pending : n \in DOMAIN ls /\ ls[n].browser = b
    /\ s.user # None => s.user \in DOMAIN ls /\ ls[s.user].browser = b
    /\ s.user # None /\ s.note # None => s.note.by = s.user

(* A request is answered from its own browser's session, and a login is    *)
(* only exchanged in the browser it was begun in.                          *)
TabSound(ls, x) ==
    /\ x.phase \notin {"idle", "provider", "back"} =>
          /\ x.browser \in Browsers /\ x.cookie \in Cookies
          /\ Belongs(ls, x.cookie.session, x.browser)
    /\ x.reply # None =>
          x.phase \in {"exchange", "replied"} /\ Belongs(ls, x.reply, x.browser)
    /\ x.phase \in {"provider", "back", "callback", "exchange"} => x.state \in DOMAIN ls
    /\ x.phase = "replied" /\ x.state # None => x.state \in DOMAIN ls
    /\ x.phase = "exchange" => ls[x.state].browser = x.browser

LoginTypes ==
    /\ today \in 0 .. LoginTime
    /\ \E k \in 0 .. MaxLogins : DOMAIN logins = 1 .. k
    /\ \A n \in DOMAIN logins : logins[n] \in [browser : Browsers, at : Nat]
    /\ jar \in [Browsers -> Cookies]
    /\ tab \in [Tabs -> TabSet]

JarsOwn ==
    \A b \in Browsers : jar[b].at <= today /\ Belongs(logins, jar[b].session, b)

TabsOwn == \A t \in Tabs : TabSound(logins, tab[t])

LoginInv == LoginTypes /\ JarsOwn /\ TabsOwn

(* The invariant is what the properties of LoginFlow say, and more.        *)
LEMMA LoginImplied == LoginInv => Lg!Safety
<1> SUFFICES ASSUME LoginInv PROVE Lg!Safety
  OBVIOUS
<1>1. ASSUME NEW b \in Browsers
      PROVE  /\ jar[b] \in Cookies /\ jar[b].at <= today
             /\ Belongs(logins, jar[b].session, b)
  BY DEF LoginInv, LoginTypes, JarsOwn
<1>2. ASSUME NEW t \in Tabs PROVE tab[t].reply \in Lg!Sessions \cup {None}
  <2>1. tab[t] \in TabSet
    BY DEF LoginInv, LoginTypes
  <2> QED BY <2>1 DEF TabSet
<1>3. today \in 0 .. LoginTime /\ LoginTime \in Nat
  BY LoginsAssumption DEF LoginInv, LoginTypes, Lg!LoginAssumption
<1>4. \A b \in Browsers : jar[b].session \in Lg!Sessions /\ jar[b].at \in 0 .. today
  BY <1>1, <1>3 DEF Cookies
<1>5. \A b \in Browsers : Cardinality(jar[b].session.pending) <= PendingLimit
  BY <1>1 DEF Belongs
<1>6. Lg!TypeOK
  BY <1>2, <1>3, <1>4, <1>5 DEF Lg!TypeOK, Lg!Cardinality, Cardinality
<1>7. Lg!OwnLogin
  BY <1>1 DEF Belongs, Lg!OwnLogin
<1>8. Lg!FreshSession
  BY <1>1 DEF Belongs, Lg!FreshSession
<1> QED BY <1>6, <1>7, <1>8 DEF Lg!Safety

(* There are finitely many logins.                                         *)
LEMMA IdsFinite == IsFiniteSet(Lg!Ids) /\ Lg!Ids \subseteq Nat
<1>1. MaxLogins \in Nat
  BY LoginsAssumption DEF Lg!LoginAssumption
<1>2. IsFiniteSet(1 .. MaxLogins)
  BY <1>1, FS_Interval
<1> QED BY <1>1, <1>2 DEF Lg!Ids

(* An empty session is anyone's.                                           *)
LEMMA EmptyBelongs ==
  ASSUME NEW ls, NEW b
  PROVE  Belongs(ls, Lg!Empty, b)
<1>1. Cardinality({}) = 0 /\ PendingLimit \in Nat
  BY FS_EmptySet, LoginsAssumption DEF Lg!LoginAssumption
<1>2. Lg!Empty \in Lg!Sessions
  BY DEF Lg!Empty, Lg!Sessions
<1>3. Lg!Empty.pending = {} /\ Lg!Empty.user = None
  BY DEF Lg!Empty
<1> QED BY <1>1, <1>2, <1>3 DEF Belongs

(* What a cookie decodes to is its browser's: its session, or none.        *)
LEMMA DecodedBelongs ==
  ASSUME NEW ls, NEW b, NEW c \in Cookies, Belongs(ls, c.session, b)
  PROVE  Belongs(ls, Lg!Decode(c), b)
BY EmptyBelongs DEF Lg!Decode

(* One login more is begun, and those there were are as they were.         *)
Grown(ls, more) ==
    DOMAIN ls \subseteq DOMAIN more /\ \A n \in DOMAIN ls : more[n] = ls[n]

(* A session stays its browser's as logins are begun.                      *)
LEMMA BelongsStill ==
  ASSUME NEW ls, NEW more, Grown(ls, more), NEW s, NEW b, Belongs(ls, s, b)
  PROVE  Belongs(more, s, b)
BY DEF Grown, Belongs

(* A request stays sound as logins are begun.                              *)
LEMMA SoundStill ==
  ASSUME NEW ls, NEW more, Grown(ls, more), NEW x \in TabSet, TabSound(ls, x)
  PROVE  TabSound(more, x)
<1>1. \A s, b : Belongs(ls, s, b) => Belongs(more, s, b)
  BY BelongsStill
<1> QED BY <1>1 DEF TabSound, Grown

(* A session waits for fewer logins and is its browser's still.            *)
LEMMA FewerBelongs ==
  ASSUME NEW ls, NEW b, NEW s, Belongs(ls, s, b), NEW P \in SUBSET s.pending
  PROVE  Belongs(ls, [s EXCEPT !.pending = P], b)
<1>1. s \in Lg!Sessions /\ s.pending \in SUBSET Lg!Ids
  BY DEF Belongs, Lg!Sessions
<1>2. IsFiniteSet(s.pending)
  BY <1>1, IdsFinite, FS_Subset
<1>3. Cardinality(P) <= Cardinality(s.pending) /\ Cardinality(P) \in Nat
      /\ Cardinality(s.pending) \in Nat
  BY <1>2, FS_Subset, FS_CardinalityType
<1>4. PendingLimit \in Nat
  BY LoginsAssumption DEF Lg!LoginAssumption
<1>5. [s EXCEPT !.pending = P] \in Lg!Sessions
  BY <1>1 DEF Lg!Sessions
<1>6. /\ [s EXCEPT !.pending = P].pending = P
      /\ [s EXCEPT !.pending = P].user = s.user /\ [s EXCEPT !.pending = P].note = s.note
  BY <1>1 DEF Lg!Sessions
<1>7. Cardinality(P) <= PendingLimit
  BY <1>3, <1>4 DEF Belongs
<1> QED BY <1>5, <1>6, <1>7 DEF Belongs

(* A set of numbers that is not empty has a least one.                     *)
LEMMA Least ==
  ASSUME NEW S \in SUBSET Nat, S # {}
  PROVE  \E x \in S : \A y \in S : x <= y
<1> DEFINE R == {p \in Nat \X Nat : p[1] < p[2]}
<1>0. IsWellFoundedOn(R, Nat)
  BY NatLessThanWellFounded, Zenon DEF OpToRel
<1> HIDE DEF R
<1>1. PICK x \in S : \A y \in S : ~(<<y, x>> \in R)
  BY <1>0, WFMin
<1>2. ASSUME NEW y \in S PROVE x <= y
  <2>1. y < x => <<y, x>> \in R
    <3>1. <<y, x>> \in Nat \X Nat
      OBVIOUS
    <3> QED BY <3>1 DEF R
  <2> QED BY <1>1, <2>1
<1> QED BY <1>2

(* Of some logins one is the oldest.                                       *)
LEMMA OldestIsOne ==
  ASSUME LoginTypes, NEW S \in SUBSET DOMAIN logins, S # {}
  PROVE  Lg!Oldest(S) \in S
<1>1. \A n \in S : logins[n].at \in Nat /\ n \in Nat
  BY DEF LoginTypes
<1>0. /\ {logins[n].at : n \in S} \in SUBSET Nat
      /\ {logins[n].at : n \in S} # {}
  BY <1>1
<1>2. PICK x \in {logins[n].at : n \in S} : \A y \in {logins[n].at : n \in S} : x <= y
  BY <1>0, Least
<1>3. PICK n \in {m \in S : logins[m].at = x} :
         \A m \in {m \in S : logins[m].at = x} : n <= m
  BY <1>1, <1>2, Least
<1>4. x \in Nat
  BY <1>1, <1>2
<1>5. ASSUME NEW m \in S
      PROVE  logins[n].at < logins[m].at \/ (logins[n].at = logins[m].at /\ n <= m)
  BY <1>1, <1>2, <1>3, <1>4
<1> QED BY <1>3, <1>5 DEF Lg!Oldest

(* With the oldest gone there is room for one more.                        *)
LEMMA TrimmedHasRoom ==
  ASSUME LoginTypes, NEW S \in SUBSET DOMAIN logins, Cardinality(S) <= PendingLimit, NEW n
  PROVE  /\ Lg!Trimmed(S) \subseteq S
         /\ Cardinality(Lg!Trimmed(S) \cup {n}) <= PendingLimit
<1>1. PendingLimit \in Nat \ {0}
  BY LoginsAssumption DEF Lg!LoginAssumption
<1>2. IsFiniteSet(S)
  <2>1. PICK k \in 0 .. MaxLogins : DOMAIN logins = 1 .. k
    BY DEF LoginTypes
  <2>2. IsFiniteSet(1 .. k)
    BY FS_Interval
  <2> QED BY <2>1, <2>2, FS_Subset
<1>3. Cardinality(S) \in Nat
  BY <1>2, FS_CardinalityType
<1>4. /\ Lg!Trimmed(S) \subseteq S /\ IsFiniteSet(Lg!Trimmed(S))
      /\ Cardinality(Lg!Trimmed(S)) + 1 <= PendingLimit
  <2>1. CASE Cardinality(S) >= PendingLimit
    <3>1. S # {}
      BY <1>1, <2>1, FS_EmptySet
    <3>2. Lg!Oldest(S) \in S
      BY <3>1, OldestIsOne
    <3>3. Lg!Trimmed(S) = S \ {Lg!Oldest(S)}
      BY <2>1 DEF Lg!Trimmed, Lg!Cardinality, Cardinality
    <3>4. /\ IsFiniteSet(S \ {Lg!Oldest(S)})
          /\ Cardinality(S \ {Lg!Oldest(S)}) = Cardinality(S) - 1
      BY <1>2, <3>2, FS_RemoveElement
    <3> QED BY <1>1, <1>3, <3>3, <3>4
  <2>2. CASE ~(Cardinality(S) >= PendingLimit)
    <3>1. Lg!Trimmed(S) = S
      BY <2>2 DEF Lg!Trimmed, Lg!Cardinality, Cardinality
    <3> QED BY <1>1, <1>2, <1>3, <2>2, <3>1
  <2> QED BY <2>1, <2>2
<1>5. Cardinality(Lg!Trimmed(S)) \in Nat
  BY <1>4, FS_CardinalityType
<1>6. Cardinality(Lg!Trimmed(S) \cup {n}) <= Cardinality(Lg!Trimmed(S)) + 1
      /\ Cardinality(Lg!Trimmed(S) \cup {n}) \in Nat
  <2>1. /\ IsFiniteSet(Lg!Trimmed(S) \cup {n})
        /\ Cardinality(Lg!Trimmed(S) \cup {n}) =
              IF n \in Lg!Trimmed(S) THEN Cardinality(Lg!Trimmed(S))
              ELSE Cardinality(Lg!Trimmed(S)) + 1
    BY <1>4, FS_AddElement
  <2> QED BY <1>5, <2>1
<1> QED BY <1>1, <1>4, <1>5, <1>6

(* A step that changes one tab, to a sound one.                            *)
LEMMA TabStep ==
  ASSUME LoginInv, Grown(logins, logins'), NEW t \in Tabs, NEW x \in TabSet,
         TabSound(logins', x), tab' = [tab EXCEPT ![t] = x]
  PROVE  tab' \in [Tabs -> TabSet] /\ TabsOwn'
<1>1. tab \in [Tabs -> TabSet]
  BY DEF LoginInv, LoginTypes
<1>2. tab' \in [Tabs -> TabSet] /\ tab'[t] = x /\ \A u \in Tabs \ {t} : tab'[u] = tab[u]
  BY <1>1
<1>3. ASSUME NEW u \in Tabs \ {t} PROVE TabSound(logins', tab'[u])
  <2>1. tab[u] \in TabSet /\ TabSound(logins, tab[u])
    BY <1>1 DEF LoginInv, TabsOwn
  <2> QED BY <1>2, <2>1, SoundStill
<1> QED BY <1>2, <1>3 DEF TabsOwn

(* The same where nothing else of the login's changes.                     *)
LEMMA OnlyTab ==
  ASSUME LoginInv, UNCHANGED <<today, jar, logins>>, NEW t \in Tabs, NEW x \in TabSet,
         TabSound(logins, x), tab' = [tab EXCEPT ![t] = x]
  PROVE  LoginInv'
<1>1. Grown(logins, logins')
  BY DEF Grown
<1>2. tab' \in [Tabs -> TabSet] /\ TabsOwn'
  BY <1>1, TabStep
<1>3. LoginTypes'
  BY <1>2 DEF LoginInv, LoginTypes
<1>4. JarsOwn'
  BY DEF LoginInv, JarsOwn
<1> QED BY <1>2, <1>3, <1>4 DEF LoginInv

(* A request is sent with the cookie of its browser.                       *)
LEMMA SentKept ==
  ASSUME LoginInv, UNCHANGED <<today, jar, logins>>, NEW t \in Tabs, NEW b \in Browsers,
         NEW phase \in {"begin", "callback", "logout", "edit"},
         NEW state \in Lg!Ids \cup {None}, NEW code \in Lg!Ids \cup {None},
         phase = "callback" => state \in DOMAIN logins,
         Lg!Send(t, b, phase, state, code)
  PROVE  LoginInv'
<1> DEFINE x == [Lg!Idle EXCEPT !.phase = phase, !.browser = b, !.cookie = jar[b],
                                !.state = state, !.code = code]
<1>1. tab' = [tab EXCEPT ![t] = x]
  BY DEF Lg!Send
<1>2. jar[b] \in Cookies /\ Belongs(logins, jar[b].session, b)
  BY DEF LoginInv, LoginTypes, JarsOwn
<1>3. Lg!Idle \in TabSet /\ Lg!Idle.reply = None
  BY DEF TabSet, Phases, Lg!Idle
<1>4. x \in TabSet
  BY <1>2, <1>3 DEF TabSet, Phases
<1>5. /\ x.phase = phase /\ x.browser = b /\ x.cookie = jar[b] /\ x.state = state
      /\ x.reply = None
  BY <1>3 DEF TabSet
<1>6. TabSound(logins, x)
  BY <1>2, <1>5 DEF TabSound
<1> HIDE DEF x
<1> QED BY <1>1, <1>4, <1>6, OnlyTab

(* A request is answered, with a session that is its browser's or none.    *)
LEMMA RepliedKept ==
  ASSUME LoginInv, UNCHANGED <<today, jar, logins>>, NEW t \in Tabs,
         tab[t].phase \notin {"idle", "provider", "back"},
         NEW s, s = None \/ Belongs(logins, s, tab[t].browser),
         Lg!Replies(t, s, None)
  PROVE  LoginInv'
<1>1. tab[t] \in TabSet /\ TabSound(logins, tab[t])
  BY DEF LoginInv, LoginTypes, TabsOwn
<1> DEFINE x == [tab[t] EXCEPT !.phase = "replied", !.reply = s, !.state = None]
<1>2. tab' = [tab EXCEPT ![t] = x]
  BY DEF Lg!Replies
<1>3. s \in Lg!Sessions \cup {None}
  BY DEF Belongs
<1>4. x \in TabSet
  BY <1>1, <1>3 DEF TabSet, Phases
<1>5. /\ x.phase = "replied" /\ x.browser = tab[t].browser /\ x.cookie = tab[t].cookie
      /\ x.state = None /\ x.reply = s
  BY <1>1 DEF TabSet
<1>6. TabSound(logins, x)
  BY <1>1, <1>5 DEF TabSound
<1> HIDE DEF x
<1> QED BY <1>2, <1>4, <1>6, OnlyTab

(* The requests that are sent.                                             *)
LEMMA SendingKept ==
  ASSUME LoginInv, NEW t \in Tabs, NEW b \in Browsers,
         \/ Lg!SendBegin(t, b) \/ Lg!SendDenied(t, b) \/ Lg!SendLogout(t, b)
         \/ Lg!SendEdit(t, b) \/ (\E c \in Lg!Ids : Lg!SendCallback(t, b, c))
  PROVE  LoginInv'
<1>0. tab[t] \in TabSet /\ TabSound(logins, tab[t])
  BY DEF LoginInv, LoginTypes, TabsOwn
<1>1. CASE Lg!SendBegin(t, b)
  BY <1>1, SentKept DEF Lg!SendBegin
<1>2. CASE Lg!SendDenied(t, b)
  <2>1. tab[t].state \in DOMAIN logins /\ tab[t].state \in Lg!Ids \cup {None}
    BY <1>0, <1>2 DEF Lg!SendDenied, TabSound, TabSet
  <2> QED BY <1>2, <2>1, SentKept DEF Lg!SendDenied
<1>3. CASE Lg!SendLogout(t, b)
  BY <1>3, SentKept DEF Lg!SendLogout
<1>4. CASE Lg!SendEdit(t, b)
  BY <1>4, SentKept DEF Lg!SendEdit
<1>5. ASSUME NEW c \in Lg!Ids, Lg!SendCallback(t, b, c) PROVE LoginInv'
  <2>1. tab[t].state \in DOMAIN logins /\ tab[t].state \in Lg!Ids \cup {None}
    BY <1>0, <1>5 DEF Lg!SendCallback, TabSound, TabSet
  <2> QED BY <1>5, <2>1, SentKept DEF Lg!SendCallback
<1> QED BY <1>1, <1>2, <1>3, <1>4, <1>5

(* The browser sends a callback again.                                     *)
LEMMA AgainKept ==
  ASSUME LoginInv, NEW t \in Tabs, NEW u \in Tabs, Lg!SendAgain(t, u)
  PROVE  LoginInv'
<1>1. tab[t] \in TabSet /\ TabSound(logins, tab[t])
  BY DEF LoginInv, LoginTypes, TabsOwn
<1>2. /\ tab[t].browser \in Browsers /\ tab[t].state \in DOMAIN logins
      /\ tab[t].state \in Lg!Ids \cup {None} /\ tab[t].code \in Lg!Ids \cup {None}
  BY <1>1 DEF Lg!SendAgain, TabSound, TabSet
<1> QED BY <1>2, SentKept DEF Lg!SendAgain

(* What a handler answers, but for the start of a login.                   *)
LEMMA ServedKept ==
  ASSUME LoginInv, NEW t \in Tabs,
         \/ Lg!BeginUnavailable(t) \/ Lg!FinishUnknown(t) \/ Lg!LoggedIn(t)
         \/ Lg!LoginRefused(t) \/ Lg!LoginUnavailable(t) \/ Lg!Logout(t) \/ Lg!Edit(t)
  PROVE  LoginInv'
<1>0. tab[t] \in TabSet /\ TabSound(logins, tab[t])
  BY DEF LoginInv, LoginTypes, TabsOwn
<1>1. CASE Lg!BeginUnavailable(t) \/ Lg!FinishUnknown(t)
  BY <1>1, RepliedKept DEF Lg!BeginUnavailable, Lg!FinishUnknown, Lg!Unmodified
<1>2. CASE Lg!LoggedIn(t)
  <2>1. /\ tab[t].phase = "exchange" /\ tab[t].code # None /\ tab[t].code = tab[t].state
        /\ tab[t].code \in Lg!Ids
    BY <1>0, <1>2 DEF Lg!LoggedIn, Lg!Exchangeable, TabSet
  <2>2. /\ tab[t].code \in DOMAIN logins
        /\ logins[tab[t].code].browser = tab[t].browser
    BY <1>0, <2>1 DEF TabSound
  <2>3. Lg!Empty \in Lg!Sessions /\ Lg!Empty.note = None /\ Lg!Empty.pending = {}
    BY DEF Lg!Empty, Lg!Sessions
  <2>4. Lg!Session(t) \in Lg!Sessions
    BY <2>1, <2>3 DEF Lg!Session, Lg!Sessions
  <2>5. /\ Lg!Session(t).user = tab[t].code /\ Lg!Session(t).note = None
        /\ Lg!Session(t).pending = {}
    BY <2>3 DEF Lg!Session, Lg!Sessions
  <2>6. Cardinality({}) <= PendingLimit
    BY FS_EmptySet, LoginsAssumption DEF Lg!LoginAssumption
  <2>7. Belongs(logins, Lg!Session(t), tab[t].browser)
    BY <2>2, <2>4, <2>5, <2>6 DEF Belongs
  <2> QED BY <1>2, <2>1, <2>7, RepliedKept DEF Lg!LoggedIn
<1>3. CASE Lg!LoginRefused(t) \/ Lg!LoginUnavailable(t)
  <2>1. tab[t].reply = None \/ Belongs(logins, tab[t].reply, tab[t].browser)
    BY <1>0 DEF TabSound
  <2> QED BY <1>3, <2>1, RepliedKept DEF Lg!LoginRefused, Lg!LoginUnavailable
<1>4. CASE Lg!Logout(t)
  BY <1>4, RepliedKept, EmptyBelongs DEF Lg!Logout, Lg!Unmodified
<1>5. CASE Lg!Edit(t)
  <2> DEFINE s == Lg!Decode(tab[t].cookie)
             e == [s EXCEPT !.note = [by |-> s.user]]
  <2>1. tab[t].phase = "edit"
    BY <1>5 DEF Lg!Edit
  <2>2. Belongs(logins, s, tab[t].browser)
    BY <1>0, <2>1, DecodedBelongs DEF TabSound
  <2> HIDE DEF s
  <2>3. s \in Lg!Sessions
    BY <2>2 DEF Belongs
  <2>4. e \in Lg!Sessions
    BY <2>3 DEF Lg!Sessions
  <2>5. e.user = s.user /\ e.pending = s.pending /\ e.note = [by |-> s.user]
    BY <2>3 DEF Lg!Sessions
  <2> HIDE DEF e
  <2>6. Belongs(logins, e, tab[t].browser)
    BY <2>2, <2>4, <2>5 DEF Belongs
  <2>7. Lg!Replies(t, e, None) /\ UNCHANGED <<today, jar, logins>>
    BY <1>5 DEF Lg!Edit, e, s
  <2> QED BY <2>1, <2>6, <2>7, RepliedKept
<1> QED BY <1>1, <1>2, <1>3, <1>4, <1>5

(* A callback whose login is pending goes on to the exchange.              *)
LEMMA FinishKept ==
  ASSUME LoginInv, NEW t \in Tabs, Lg!Finish(t)
  PROVE  LoginInv'
<1>1. /\ tab[t] \in TabSet /\ TabSound(logins, tab[t])
      /\ tab[t].phase = "callback"
  BY DEF LoginInv, LoginTypes, TabsOwn, Lg!Finish
<1> DEFINE s == Lg!Decode(tab[t].cookie)
           x == [tab[t] EXCEPT !.phase = "exchange", !.reply = Lg!Popped(t)]
<1>2. Belongs(logins, s, tab[t].browser)
  BY <1>1, DecodedBelongs DEF TabSound
<1>3. tab[t].state \in s.pending
  BY DEF Lg!Finish, Lg!Pending
<1>4. Belongs(logins, Lg!Popped(t), tab[t].browser)
  <2>1. Lg!Pending(s) \ {tab[t].state} \in SUBSET s.pending
    BY DEF Lg!Pending
  <2> HIDE DEF s
  <2>2. Belongs(logins, [s EXCEPT !.pending = Lg!Pending(s) \ {tab[t].state}],
                tab[t].browser)
    BY <1>2, <2>1, FewerBelongs
  <2> QED BY <2>2 DEF Lg!Popped, s
<1>5. tab[t].state \in DOMAIN logins /\ logins[tab[t].state].browser = tab[t].browser
  BY <1>2, <1>3 DEF Belongs
<1>6. tab' = [tab EXCEPT ![t] = x]
  BY DEF Lg!Finish
<1>7. Lg!Popped(t) \in Lg!Sessions
  BY <1>4 DEF Belongs
<1>8. x \in TabSet
  BY <1>1, <1>7 DEF TabSet, Phases
<1>9. /\ x.phase = "exchange" /\ x.browser = tab[t].browser /\ x.cookie = tab[t].cookie
      /\ x.state = tab[t].state /\ x.reply = Lg!Popped(t)
  BY <1>1 DEF TabSet
<1> HIDE DEF x
<1>10. TabSound(logins, x)
  BY <1>1, <1>4, <1>5, <1>9 DEF TabSound
<1> QED BY <1>6, <1>8, <1>10, OnlyTab DEF Lg!Finish

(* A login is begun: it is this browser's, and its session waits for it in *)
(* the place of the oldest.                                                *)
LEMMA BeginKept ==
  ASSUME LoginInv, NEW t \in Tabs, Lg!Begin(t)
  PROVE  LoginInv'
<1>1. /\ tab[t] \in TabSet /\ TabSound(logins, tab[t])
      /\ tab[t].phase = "begin"
  BY DEF LoginInv, LoginTypes, TabsOwn, Lg!Begin
<1>2. PICK k \in 0 .. MaxLogins : DOMAIN logins = 1 .. k
  BY DEF LoginInv, LoginTypes
<1>3. Lg!Cardinality(DOMAIN logins) = k
  <2>1. Cardinality(1 .. k) = k
    BY FS_Interval
  <2> QED BY <1>2, <2>1 DEF Lg!Cardinality, Cardinality
<1> DEFINE n == k + 1
           s == Lg!Decode(tab[t].cookie)
           P == Lg!Trimmed(Lg!Pending(s))
           e == [s EXCEPT !.pending = P \cup {n}]
           x == [tab[t] EXCEPT !.phase = "replied", !.reply = e, !.state = n]
           new == [browser |-> tab[t].browser, at |-> today]
<1>4. /\ n \in Lg!Ids
      /\ logins' = [m \in DOMAIN logins \cup {n} |-> IF m = n THEN new ELSE logins[m]]
      /\ Lg!Replies(t, e, n) /\ UNCHANGED <<today, jar>>
  BY <1>3 DEF Lg!Begin
<1>5. /\ DOMAIN logins' = 1 .. n /\ n \in 0 .. MaxLogins /\ n \notin DOMAIN logins
      /\ logins'[n] = new /\ \A m \in DOMAIN logins : logins'[m] = logins[m]
  BY <1>2, <1>4 DEF Lg!Ids
<1>6. Grown(logins, logins')
  BY <1>2, <1>5 DEF Grown
<1>7. new \in [browser : Browsers, at : Nat]
  BY <1>1 DEF LoginInv, LoginTypes, TabSound
<1>8. Belongs(logins, s, tab[t].browser)
  BY <1>1, DecodedBelongs DEF TabSound
<1> HIDE DEF s, n
<1>9. P \subseteq s.pending /\ Cardinality(P \cup {n}) <= PendingLimit
  <2>1. s.pending \subseteq DOMAIN logins /\ s.pending \in SUBSET Lg!Ids
        /\ Cardinality(s.pending) <= PendingLimit
    BY <1>8 DEF Belongs, Lg!Sessions
  <2>2. Lg!Pending(s) \subseteq s.pending
    BY DEF Lg!Pending
  <2>3. IsFiniteSet(s.pending)
    BY <2>1, IdsFinite, FS_Subset
  <2>4. /\ Cardinality(Lg!Pending(s)) <= Cardinality(s.pending)
        /\ Cardinality(Lg!Pending(s)) \in Nat /\ Cardinality(s.pending) \in Nat
    BY <2>2, <2>3, FS_Subset, FS_CardinalityType
  <2>5. PendingLimit \in Nat
    BY LoginsAssumption DEF Lg!LoginAssumption
  <2>6. Cardinality(Lg!Pending(s)) <= PendingLimit
    BY <2>1, <2>4, <2>5
  <2>7. Lg!Pending(s) \in SUBSET DOMAIN logins
    BY <2>1, <2>2
  <2>8. LoginTypes
    BY DEF LoginInv
  <2> QED BY <2>2, <2>6, <2>7, <2>8, TrimmedHasRoom
<1> HIDE DEF P
<1>10. s \in Lg!Sessions /\ s.pending \in SUBSET Lg!Ids
  BY <1>8 DEF Belongs, Lg!Sessions
<1>11. e \in Lg!Sessions
  BY <1>4, <1>9, <1>10 DEF Lg!Sessions
<1>12. e.user = s.user /\ e.note = s.note /\ e.pending = P \cup {n}
  BY <1>10 DEF Lg!Sessions
<1> HIDE DEF e
<1>13. Belongs(logins', e, tab[t].browser)
  <2>1. Belongs(logins', s, tab[t].browser)
    BY <1>6, <1>8, BelongsStill
  <2>2. n \in DOMAIN logins' /\ logins'[n].browser = tab[t].browser
    BY <1>4, <1>5
  <2> QED BY <1>9, <1>11, <1>12, <2>1, <2>2 DEF Belongs
<1>14. tab' = [tab EXCEPT ![t] = x]
  BY <1>4 DEF Lg!Replies
<1>15. x \in TabSet
  BY <1>1, <1>4, <1>11 DEF TabSet, Phases
<1>16. /\ x.phase = "replied" /\ x.browser = tab[t].browser /\ x.cookie = tab[t].cookie
       /\ x.state = n /\ x.reply = e
  BY <1>1 DEF TabSet
<1> HIDE DEF x
<1>17. TabSound(logins', x)
  <2>1. Belongs(logins', tab[t].cookie.session, tab[t].browser)
    BY <1>1, <1>6, BelongsStill DEF TabSound
  <2>2. n \in DOMAIN logins'
    BY <1>4
  <2> QED BY <1>1, <1>13, <1>16, <2>1, <2>2 DEF TabSound
<1>18. tab' \in [Tabs -> TabSet] /\ TabsOwn'
  BY <1>6, <1>14, <1>15, <1>17, TabStep
<1>19. LoginTypes'
  <2>1. ASSUME NEW m \in DOMAIN logins' PROVE logins'[m] \in [browser : Browsers, at : Nat]
    BY <1>4, <1>5, <1>7 DEF LoginInv, LoginTypes
  <2> QED BY <1>4, <1>5, <1>18, <2>1 DEF LoginInv, LoginTypes
<1>20. JarsOwn'
  BY <1>4, <1>6, BelongsStill DEF LoginInv, JarsOwn
<1> QED BY <1>18, <1>19, <1>20 DEF LoginInv

(* A reply arrives, and the browser keeps the session in it.               *)
LEMMA ReceiveKept ==
  ASSUME LoginInv, NEW t \in Tabs, Lg!Receive(t)
  PROVE  LoginInv'
<1>1. /\ tab[t] \in TabSet /\ TabSound(logins, tab[t])
      /\ tab[t].phase = "replied" /\ jar \in [Browsers -> Cookies]
      /\ today \in Nat
  <2>1. today \in Nat
    BY LoginsAssumption DEF LoginInv, LoginTypes, Lg!LoginAssumption
  <2> QED BY <2>1 DEF LoginInv, LoginTypes, TabsOwn, Lg!Receive
<1> DEFINE x == IF tab[t].state = None THEN Lg!Idle
                ELSE [Lg!Idle EXCEPT !.phase = "provider", !.state = tab[t].state]
<1>2. Lg!Idle \in TabSet /\ Lg!Idle.phase = "idle" /\ Lg!Idle.reply = None
  BY DEF TabSet, Phases, Lg!Idle
<1>3. tab[t].state \in Lg!Ids \cup {None}
  BY <1>1 DEF TabSet
<1>4. x \in TabSet
  BY <1>2, <1>3 DEF TabSet, Phases
<1>5. /\ x.reply = None
      /\ \/ x.phase = "idle"
         \/ x.phase = "provider" /\ x.state = tab[t].state /\ tab[t].state # None
  BY <1>2 DEF TabSet
<1>6. tab' = [tab EXCEPT ![t] = x]
  BY DEF Lg!Receive
<1> HIDE DEF x
<1>7. TabSound(logins, x)
  BY <1>1, <1>5 DEF TabSound
<1>8. Grown(logins, logins') /\ UNCHANGED <<today, logins>>
  BY DEF Lg!Receive, Grown
<1>9. tab' \in [Tabs -> TabSet] /\ TabsOwn'
  BY <1>4, <1>6, <1>7, <1>8, TabStep
<1>10. /\ jar' \in [Browsers -> Cookies]
       /\ \A b \in Browsers : \/ jar'[b] = jar[b]
                              \/ jar'[b].at = today /\ Belongs(logins, jar'[b].session, b)
  <2>1. CASE tab[t].reply = None
    BY <1>1, <2>1 DEF Lg!Receive
  <2>2. CASE tab[t].reply # None
    <3>1. /\ tab[t].browser \in Browsers /\ tab[t].reply \in Lg!Sessions
          /\ Belongs(logins, tab[t].reply, tab[t].browser)
      BY <1>1, <2>2 DEF TabSound, Belongs
    <3>2. Lg!Cookie(tab[t].reply) \in Cookies /\ Lg!Cookie(tab[t].reply).at = today
          /\ Lg!Cookie(tab[t].reply).session = tab[t].reply
      BY <1>1, <3>1 DEF Lg!Cookie, Cookies
    <3>3. jar' = [jar EXCEPT ![tab[t].browser] = Lg!Cookie(tab[t].reply)]
      BY <2>2 DEF Lg!Receive
    <3> QED BY <1>1, <3>1, <3>2, <3>3
  <2> QED BY <2>1, <2>2
<1>11. LoginTypes'
  BY <1>8, <1>9, <1>10 DEF LoginInv, LoginTypes
<1>12. JarsOwn'
  BY <1>1, <1>8, <1>10 DEF LoginInv, JarsOwn
<1> QED BY <1>9, <1>11, <1>12 DEF LoginInv

(* The provider lets the person through; time passes.                      *)
LEMMA OutsideKept ==
  ASSUME LoginInv, Lg!Tick \/ (\E t \in Tabs : Lg!Authorize(t))
  PROVE  LoginInv'
<1>1. CASE Lg!Tick
  <2>1. today' = today + 1 /\ today' \in 0 .. LoginTime /\ UNCHANGED <<jar, tab, logins>>
    BY <1>1, LoginsAssumption DEF Lg!Tick, LoginInv, LoginTypes, Lg!LoginAssumption
  <2>2. LoginTypes'
    BY <2>1 DEF LoginInv, LoginTypes
  <2>3. TabsOwn'
    BY <2>1 DEF LoginInv, TabsOwn
  <2>4. ASSUME NEW b \in Browsers PROVE jar'[b].at <= today'
    <3>1. jar[b].at \in Nat /\ jar[b].at <= today /\ today \in Nat
      BY DEF LoginInv, LoginTypes, JarsOwn, Cookies
    <3> QED BY <2>1, <3>1
  <2>5. JarsOwn'
    BY <2>1, <2>4 DEF LoginInv, JarsOwn
  <2> QED BY <2>2, <2>3, <2>5 DEF LoginInv
<1>2. ASSUME NEW t \in Tabs, Lg!Authorize(t) PROVE LoginInv'
  <2> DEFINE x == [tab[t] EXCEPT !.phase = "back"]
  <2>1. /\ tab[t] \in TabSet /\ TabSound(logins, tab[t])
        /\ tab[t].phase = "provider"
    BY <1>2 DEF LoginInv, LoginTypes, TabsOwn, Lg!Authorize
  <2>2. x \in TabSet
    BY <2>1 DEF TabSet, Phases
  <2>3. x.phase = "back" /\ x.state = tab[t].state /\ x.reply = tab[t].reply
    BY <2>1 DEF TabSet
  <2>4. tab' = [tab EXCEPT ![t] = x] /\ UNCHANGED <<today, jar, logins>>
    BY <1>2 DEF Lg!Authorize
  <2> HIDE DEF x
  <2>5. TabSound(logins, x)
    BY <2>1, <2>3 DEF TabSound
  <2> QED BY <2>2, <2>4, <2>5, OnlyTab
<1> QED BY <1>1, <1>2

(* Every step keeps sessions their browsers'.                              *)
LEMMA LoginKept ==
  ASSUME LoginInv, [Lg!Next]_loginVars
  PROVE  LoginInv'
<1>1. CASE UNCHANGED loginVars
  BY <1>1 DEF loginVars, LoginInv, LoginTypes, JarsOwn, TabsOwn
<1>2. CASE Lg!Tick
  BY <1>2, OutsideKept
<1>3. ASSUME NEW t \in Tabs, Lg!Serve(t) \/ Lg!Receive(t) \/ Lg!Authorize(t) PROVE LoginInv'
  BY <1>3, BeginKept, FinishKept, ServedKept, ReceiveKept, OutsideKept DEF Lg!Serve
<1>4. ASSUME NEW t \in Tabs, NEW u \in Tabs, Lg!SendAgain(t, u) PROVE LoginInv'
  BY <1>4, AgainKept
<1>5. ASSUME NEW t \in Tabs, NEW b \in Browsers,
             \/ Lg!SendBegin(t, b) \/ Lg!SendDenied(t, b) \/ Lg!SendLogout(t, b)
             \/ Lg!SendEdit(t, b) \/ (\E c \in Lg!Ids : Lg!SendCallback(t, b, c))
      PROVE  LoginInv'
  BY <1>5, SendingKept
<1> QED BY <1>1, <1>2, <1>3, <1>4, <1>5 DEF Lg!Next

(* It holds of the logins beside the limits.                               *)
LEMMA LoginInvariance == MCSpec => []LoginInv
<1>1. MCInit => LoginInv
  <2> SUFFICES ASSUME MCInit PROVE LoginInv
    OBVIOUS
  <2>1. /\ today = 0 /\ jar = [b \in Browsers |-> Lg!Cookie(Lg!Empty)]
        /\ tab = [t \in Tabs |-> Lg!Idle] /\ logins = [n \in {} |-> None]
    BY DEF MCInit, Lg!Init
  <2>2. MaxLogins \in Nat /\ LoginTime \in Nat
    BY LoginsAssumption DEF Lg!LoginAssumption
  <2>3. Lg!Idle \in TabSet /\ Lg!Idle.phase = "idle" /\ Lg!Idle.reply = None
    BY DEF TabSet, Phases, Lg!Idle
  <2>4. Lg!Empty \in Lg!Sessions
    BY DEF Lg!Empty, Lg!Sessions
  <2>5. /\ Lg!Cookie(Lg!Empty) \in Cookies /\ Lg!Cookie(Lg!Empty).at = today
        /\ Lg!Cookie(Lg!Empty).session = Lg!Empty
    BY <2>1, <2>4 DEF Lg!Cookie, Cookies
  <2>6. DOMAIN logins = 1 .. 0
    BY <2>1
  <2>7. LoginTypes
    BY <2>1, <2>2, <2>3, <2>5, <2>6 DEF LoginTypes
  <2>8. JarsOwn
    BY <2>1, <2>5, EmptyBelongs DEF JarsOwn
  <2>9. TabsOwn
    BY <2>1, <2>3 DEF TabsOwn, TabSound
  <2> QED BY <2>7, <2>8, <2>9 DEF LoginInv
<1>2. LoginInv /\ [MCNext]_<<which, vars, loginVars>> => LoginInv'
  <2> SUFFICES ASSUME LoginInv, [MCNext]_<<which, vars, loginVars>> PROVE LoginInv'
    OBVIOUS
  <2>1. [Lg!Next]_loginVars
    BY DEF MCNext
  <2> QED BY <2>1, LoginKept
<1> QED BY <1>1, <1>2, PTL DEF MCSpec

(* A browser is only ever logged in as whoever finished a login begun in   *)
(* that browser, and nothing written before the login is in its session,   *)
(* for any browsers and tabs, however callbacks and codes are passed       *)
(* around and in whatever order replies arrive (OAuthLogin, Sessions).     *)
THEOREM LoginSafe == MCSpec => []LoginSafety
<1>1. LoginInv => LoginSafety
  BY LoginImplied DEF LoginSafety
<1> QED BY <1>1, LoginInvariance, PTL

=============================================================================
