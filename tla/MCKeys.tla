------------------------------ MODULE MCKeys ------------------------------
(* Model-checking instance of SigningKeys: a key that stays, one that is   *)
(* withdrawn for another, and a token of each.                             *)
EXTENDS SigningKeys, TLC

CONSTANTS old, new, tOld, tNew

TwoHeaders == tOld :> old @@ tNew :> new
TwoSigners == tOld :> old @@ tNew :> new

=============================================================================
