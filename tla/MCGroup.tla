------------------------------ MODULE MCGroup ------------------------------
(* Model-checking instance of ConsumerGroup.                               *)
EXTENDS ConsumerGroup

=============================================================================
