----------------------------- MODULE MCRequests -----------------------------
(* Model-checking instance of Requests: three requests of different kinds,  *)
(* so there is no symmetry.                                                 *)
EXTENDS Requests

=============================================================================
