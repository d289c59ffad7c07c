------------------------------ MODULE RateLimit ------------------------------
(***************************************************************************)
(* Rate limits: RateLimit, Shared and spend_shared in                      *)
(* src/python/oxbrook/_limits.py over Limit::spend in src/src/limit.rs.    *)
(* Every process keeps, per key, the time at which the key's budget is     *)
(* next fully spent; a request that passes there spends from the copy in   *)
(* Redis too, by a script against Redis' own clock.  A request reads the   *)
(* process's clock before it holds the map, so what it does there may be   *)
(* by a reading older than those of requests that were there before it.    *)
(*                                                                         *)
(* Time is a number of the finest unit the code uses (a nanosecond); a     *)
(* microsecond is Fine of them, a millisecond Milli microseconds, a second *)
(* Second milliseconds, so that every rounding of the code is one here.    *)
(***************************************************************************)
EXTENDS Integers, FiniteSets, Sequences

CONSTANTS
    Processes,
    Keys,
    Requests,      \* requests under way at a time
    Reaches,       \* which keys' requests a balancer sends to which process
    Fine, Milli, Second,
    Period,        \* the unit of the rate, in nanoseconds
    Count,         \* the count of the rate
    BurstGiven,    \* burst=, or None
    MaxBurst,
    SweepFloor,    \* entries past which a shard is swept
    None,
    Lag,           \* bound on how long a thread is held between the clock and the map
    MaxTime        \* bound on the clock

ASSUME RateAssumption ==
    /\ {Fine, Milli, Second, Period, Count, MaxBurst, SweepFloor} \subseteq Nat \ {0}
    /\ Count <= Period /\ Reaches \subseteq Processes \X Keys
    /\ BurstGiven # None => BurstGiven \in 1 .. MaxBurst
    /\ None \notin Int /\ None \notin Keys
    /\ Lag \in Nat /\ MaxTime \in Nat

VARIABLES
    now,
    spent,         \* Shard.spent, per process: key -> time, or None
    sweepAt,       \* Shard.sweep_at, per process
    req,           \* per request: its place, process, key and reading of the clock
    stored,        \* in Redis, per key: the time in microseconds, or None
    expires,       \* in Redis, per key: PX as the millisecond it ends with
    caller         \* history, per key: a caller that waits as long as it is told

local == <<spent, sweepAt>>
redis == <<stored, expires>>
vars == <<now, local, req, redis, caller>>

NoRequest == [at |-> "idle", home |-> None, key |-> None, read |-> 0]

CeilDiv(a, b) == (a + b - 1) \div b
Larger(a, b) == IF a > b THEN a ELSE b
Smaller(a, b) == IF a < b THEN a ELSE b

-----------------------------------------------------------------------------
(* RateLimit.__init__ and Shared.__init__                                  *)

Burst == IF BurstGiven = None THEN Smaller(Count, MaxBurst) ELSE BurstGiven
Interval == Larger(1, Period \div Count)
Tolerance == Interval * Burst

SharedInterval == Larger(1, (Period \div Count) \div Fine)
SharedTolerance == SharedInterval * Burst

-----------------------------------------------------------------------------
(* The generic cell rate algorithm, as both halves run it                  *)

Nxt(last, t, interval) == (IF last = None THEN t ELSE Larger(last, t)) + interval

Allows(last, t, interval, tolerance) == Nxt(last, t, interval) - t <= tolerance

Wait(last, t, interval, tolerance) == Nxt(last, t, interval) - tolerance - t

(* Mutant of RetryAfter: rounded down.                                     *)
RetryAfterFloor(wait, second) == Larger(1, wait \div second) * second

(* refused: whole seconds, rounded up, at least one.                       *)
RetryAfter(wait, second) == Larger(1, CeilDiv(wait, second)) * second

-----------------------------------------------------------------------------
(* The caller of a key: alone on it, at one process, one request at a time,*)
(* and back no sooner than Retry-After said.  `refusals` is which half     *)
(* refused it, in order, since it was last let through.                    *)

Alone(k) == \A r \in Requests : req[r].key # k

Patient(p, k) == Alone(k) /\ caller[k].from = p /\ now >= caller[k].told

Begins(p, k) ==
    IF Patient(p, k) THEN caller[k]
    ELSE [from |-> IF Alone(k) THEN p ELSE None, told |-> 0, refusals |-> <<>>]

Told(r, half, wait) ==
    LET k == req[r].key
    IN  caller' = IF caller[k].from = None THEN caller
                  ELSE [caller EXCEPT ![k] =
                           [from |-> @.from, told |-> now + wait,
                            refusals |-> Append(@.refusals, half)]]

Let(r) ==
    caller' = [caller EXCEPT ![req[r].key] = [from |-> @.from, told |-> 0, refusals |-> <<>>]]

Over(r) == req' = [req EXCEPT ![r] = NoRequest]

-----------------------------------------------------------------------------
(* Limit::spend, before the request reaches a worker loop                  *)

ReadClock(r, p, k) ==
    /\ req[r].at = "idle"
    /\ req' = [req EXCEPT ![r] = [at |-> "local", home |-> p, key |-> k, read |-> now]]
    /\ caller' = [caller EXCEPT ![k] = Begins(p, k)]
    /\ UNCHANGED <<now, local, redis>>

(* Every entry at or before this request's reading goes.                   *)
Swept(entries, n) ==
    [x \in Keys |-> IF entries[x] # None /\ entries[x] > n THEN entries[x] ELSE None]

Tracked(entries) == Cardinality({k \in Keys : entries[k] # None})

Insert(p, k, n) ==
    LET filled == [spent[p] EXCEPT ![k] = Nxt(@, n, Interval)]
        full == Tracked(filled) >= sweepAt[p]
        left == IF full THEN Swept(filled, n) ELSE filled
    IN  /\ spent' = [spent EXCEPT ![p] = left]
        /\ sweepAt' = IF full
                      THEN [sweepAt EXCEPT ![p] = Larger(2 * Tracked(left), SweepFloor)]
                      ELSE sweepAt

(* Under the shard's lock, by the clock as it was read before it.          *)
LocalAllows(r) == Allows(spent[req[r].home][req[r].key], req[r].read, Interval, Tolerance)

TakeLocal(r) ==
    /\ req[r].at = "local" /\ LocalAllows(r)
    /\ Insert(req[r].home, req[r].key, req[r].read)
    /\ req' = [req EXCEPT ![r].at = "shared"]
    /\ UNCHANGED <<now, redis, caller>>

LocalWait(r) == Wait(spent[req[r].home][req[r].key], req[r].read, Interval, Tolerance)

(* 429, with Retry-After; nothing is spent.                                *)
RefuseLocal(r) ==
    /\ req[r].at = "local" /\ ~LocalAllows(r)
    /\ Told(r, "local", RetryAfter(LocalWait(r), Second * Milli * Fine))
    /\ Over(r)
    /\ UNCHANGED <<now, local, redis>>

-----------------------------------------------------------------------------
(* Shared.take: the script, on a worker loop                               *)

Micros == now \div Fine
Millis == Micros \div Milli

(* Redis drops a key once its clock is past the millisecond PX names.      *)
Kept(k) == IF stored[k] # None /\ Millis <= expires[k] THEN stored[k] ELSE None

Expiry(nxt) == Millis + CeilDiv(nxt - Micros, Milli)

SharedAllows(k) == Allows(Kept(k), Micros, SharedInterval, SharedTolerance)

Stores(k, nxt) ==
    /\ stored' = [stored EXCEPT ![k] = nxt]
    /\ expires' = [expires EXCEPT ![k] = Expiry(nxt)]

(* Mutant of TakeShared: the time stored starts from the clock.            *)
TakeSharedFromClock(r) ==
    /\ req[r].at = "shared" /\ SharedAllows(req[r].key)
    /\ Stores(req[r].key, Micros + SharedInterval)
    /\ Over(r) /\ Let(r)
    /\ UNCHANGED <<now, local>>

(* Let through, whether or not the answer arrives: a failure to reach      *)
(* Redis lets the request through as well.                                 *)
TakeShared(r) ==
    /\ req[r].at = "shared" /\ SharedAllows(req[r].key)
    /\ Stores(req[r].key, Nxt(Kept(req[r].key), Micros, SharedInterval))
    /\ Over(r) /\ Let(r)
    /\ UNCHANGED <<now, local>>

SharedWait(k) == Wait(Kept(k), Micros, SharedInterval, SharedTolerance)

RefuseShared(r) ==
    /\ req[r].at = "shared" /\ ~SharedAllows(req[r].key)
    /\ Told(r, "shared", RetryAfter(SharedWait(req[r].key), Second * Milli) * Fine)
    /\ Over(r)
    /\ UNCHANGED <<now, local, redis>>

(* RedisError or OSError: allowed, and the failure logged.                 *)
Unreachable(r) ==
    /\ req[r].at = "shared"
    /\ Over(r) /\ Let(r)
    /\ UNCHANGED <<now, local, redis>>

Tick ==
    /\ now < MaxTime
    /\ \A r \in Requests : req[r].at = "local" => now < req[r].read + Lag
    /\ now' = now + 1
    /\ UNCHANGED <<local, req, redis, caller>>

-----------------------------------------------------------------------------
Init ==
    /\ now = 0
    /\ spent = [p \in Processes |-> [k \in Keys |-> None]]
    /\ sweepAt = [p \in Processes |-> SweepFloor]
    /\ req = [r \in Requests |-> NoRequest]
    /\ stored = [k \in Keys |-> None] /\ expires = [k \in Keys |-> 0]
    /\ caller = [k \in Keys |-> [from |-> None, told |-> 0, refusals |-> <<>>]]

Next ==
    \/ Tick
    \/ \E r \in Requests :
          \/ \E b \in Reaches : ReadClock(r, b[1], b[2])
          \/ TakeLocal(r) \/ RefuseLocal(r)
          \/ TakeShared(r) \/ RefuseShared(r) \/ Unreachable(r)

Spec == Init /\ [][Next]_vars

-----------------------------------------------------------------------------
(* The refinement: what is left of a budget is the tolerance less how far  *)
(* ahead of the clock the stored time is; in a process, of the oldest clock*)
(* a request may still be working with.                                    *)

Ahead(last, t) == IF last = None THEN 0 ELSE Larger(last, t) - t

Later(last) == IF last = None THEN None ELSE last + Lag

LocalBucket == INSTANCE TokenBucket WITH
    Keys <- Processes \X Keys, Interval <- Interval, Burst <- Burst, Lag <- Lag, now <- now,
    level <- [b \in Processes \X Keys |->
                 (Tolerance + Lag) - Ahead(Later(spent[b[1]][b[2]]), now)]

RedisBucket == INSTANCE TokenBucket WITH
    Interval <- SharedInterval, Burst <- Burst, Lag <- 0, now <- Micros,
    level <- [k \in Keys |-> SharedTolerance - Ahead(Kept(k), Micros)]

-----------------------------------------------------------------------------
Callers == [from : Processes \cup {None}, told : Nat, refusals : Seq({"local", "shared"})]

TypeOK ==
    /\ now \in 0 .. MaxTime
    /\ spent \in [Processes -> [Keys -> Nat \cup {None}]]
    /\ sweepAt \in [Processes -> {n \in Nat : n >= SweepFloor}]
    /\ req \in [Requests -> [at : {"idle", "local", "shared"}, home : Processes \cup {None},
                             key : Keys \cup {None}, read : 0 .. MaxTime]]
    /\ stored \in [Keys -> Nat \cup {None}] /\ expires \in [Keys -> Nat]
    /\ caller \in [Keys -> Callers]

(* Forgetting an entry in a sweep gives no client more than a token bucket *)
(* would: each process's half is one, to within the time a thread may be   *)
(* held between its reading of the clock and the map, whatever the other   *)
(* keys do to it.                                                          *)
LocalIsBucket == LocalBucket!Spec

(* The processes that name one limit together spend one token bucket, and  *)
(* an entry that expires in Redis changes no answer.                       *)
SharedIsBucket == RedisBucket!Spec

(* A caller alone on its key that waits what it is told is let through     *)
(* after three refusals at most: neither half refuses it for what it told  *)
(* it to wait out, but Redis may after the process, and then the process   *)
(* once more, for the request it counted and Redis refused.                *)
PatientIsServed ==
    \A k \in Keys : caller[k].refusals \in
       {<<>>, <<"local">>, <<"shared">>, <<"local", "shared">>, <<"shared", "local">>,
        <<"local", "shared", "local">>}

(* limit.rs:238, for a limit that is shared: the first refusal is the last.*)
WaitIsEnough == \A k \in Keys : Len(caller[k].refusals) <= 1

(* limit.rs:182, of a request whose reading is older than the sweep's: no  *)
(* entry that it would have found counted against it is dropped.           *)
SweepChangesNothing ==
    [][\A r \in Requests :
          req[r].at = "local" /\ req'[r] = req[r] =>
             LET last == spent[req[r].home][req[r].key]
                 left == spent'[req[r].home][req[r].key]
             IN  left = None /\ last # None => last <= req[r].read]_vars

(* A caller that waits as long as Retry-After says gets through, however   *)
(* the two halves disagree (refused in _limits.py and limit.rs).           *)
Safety == TypeOK /\ PatientIsServed

(* Both halves are token buckets.                                          *)
IsBucket == LocalIsBucket /\ SharedIsBucket

=============================================================================
