---------------------------- MODULE MCWakeQueue ----------------------------
(* Model-checking instance of WakeQueue: symmetry over the tokio threads    *)
(* and the requests, which nothing tells apart but membership in Raising.   *)
EXTENDS WakeQueue, TLC

Symmetry == Permutations(Pushers) \cup Permutations(Requests \ Raising)

=============================================================================
