----------------------------- MODULE TokenBucket -----------------------------
(***************************************************************************)
(* What a rate limit promises, without saying how: "a token bucket         *)
(* refilled continuously" (src/src/limit.rs).  Each key has a bucket that  *)
(* holds up to Burst requests; a request costs Interval, a unit of time    *)
(* gives back one.  A limiter whose requests read the clock up to Lag      *)
(* before they are counted keeps a bucket to within Lag: it holds that much*)
(* more, a request may cost that much more, and a bucket that is full but  *)
(* for as much may be taken for full.                                      *)
(***************************************************************************)
EXTENDS Naturals

CONSTANTS Keys, Interval, Burst, Lag

VARIABLES
    level,         \* per key: what is left, in units of time
    now

Capacity == Interval * Burst + Lag

Init ==
    /\ now = 0
    /\ level = [k \in Keys |-> Capacity]

TakenForFull(x) == level[x] >= Interval * Burst /\ level'[x] = Capacity

(* A request is let through only when a whole interval is left.            *)
Take(k) ==
    /\ DOMAIN level' = Keys
    /\ \E cost \in Interval .. Interval + Lag : level[k] >= cost /\ level'[k] = level[k] - cost
    /\ \A x \in Keys \ {k} : level'[x] = level[x] \/ TakenForFull(x)
    /\ UNCHANGED now

Refill ==
    /\ now' = now + 1
    /\ level' = [k \in Keys |-> IF level[k] < Capacity THEN level[k] + 1 ELSE Capacity]

Next == Refill \/ \E k \in Keys : Take(k)

Spec == Init /\ [][Next]_<<level, now>>

=============================================================================
