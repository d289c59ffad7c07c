------------------------------- MODULE MCLoop --------------------------------
(***************************************************************************)
(* Model-checking instance of what happens at one worker: the wake        *)
(* protocol (WakeQueue) and the life of its requests (Requests).  The two  *)
(* have no state in common here, so a behaviour is one of either: `which`  *)
(* says of which, and the other stays where it starts.                     *)
(***************************************************************************)
EXTENDS WakeQueue

CONSTANTS Calls, NoCall, Cancellable, Stubborn, Slots, MaxStreams

VARIABLES which, net, replied, connLoad, waiting, cancels, slots, cell, slot, reply,
          taken, kept, released, task, cancelling, at, cur

Rq == INSTANCE Requests WITH
          Requests <- Calls, NoRequest <- NoCall, HasTimeout <- TRUE, Limit <- Slots,
          queue <- waiting, inflight <- slots, pc <- at

ASSUME Rq!RequestsAssumption

rqVars == <<net, replied, connLoad, waiting, cancels, slots, cell, slot, reply, taken,
            kept, released, task, cancelling, at, cur>>

MCInit ==
    /\ which \in {"wake", "requests"}
    /\ Init /\ Rq!Init

MCNext ==
    \/ which = "wake" /\ Next /\ UNCHANGED <<which, rqVars>>
    \/ which = "requests" /\ Rq!Next /\ UNCHANGED <<which, vars>>

(* Neither component has a fair step to take where it starts.              *)
MCSpec == MCInit /\ [][MCNext]_<<which, vars, rqVars>> /\ Fairness /\ Rq!Fairness

(* Every slot a cancellable request takes comes back (Requests).           *)
SlotsFreed == Rq!SlotsFreed

=============================================================================
