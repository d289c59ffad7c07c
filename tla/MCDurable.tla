----------------------------- MODULE MCDurable -----------------------------
(* Model-checking instance of DurableTopic.                                *)
EXTENDS DurableTopic, TLC

CONSTANT a

AnyPolicy == {"drop_oldest", "drop_newest", "block", "error"}

OneModes == a :> {"since", "plain"}
OnePolicies == a :> AnyPolicy

=============================================================================
