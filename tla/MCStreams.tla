----------------------------- MODULE MCStreams -------------------------------
(***************************************************************************)
(* Model-checking instance of the two waits inside a handler: emitters     *)
(* that wait for a `block` subscription (Topic) and readers that wait for  *)
(* their request's body (BodyStream).  They share no state, so a behaviour *)
(* is one of either: `which` says of which, and the other stays put.       *)
(***************************************************************************)
EXTENDS Topic

CONSTANTS Again,   \* emitters that send twice
          Iterators, Collectors, Impatient, HasTimeout, Lingers, HighWater, MaxBody,
          MaxFrames

VARIABLES which, chunks, buffered, permit, waiters, bound, finished, reading, whole, discard,
          pump, pushing, total, oversized, complete, wait, task, filled, result, scheduled,
          given

Bd == INSTANCE BodyStream WITH taken <- given

ASSUME BodiesAssumption == Bd!BodyStreamAssumption

MCMaxEmits == [e \in Emitters |-> IF e \in Again THEN 2 ELSE 1]
MCOffers == [s \in Subs |-> {"block"}]

bodyVars == <<chunks, buffered, permit, waiters, bound, finished, reading, whole, discard,
              pump, pushing, total, oversized, complete, wait, task, filled, result,
              scheduled, given>>

MCInit ==
    /\ which \in {"topic", "body"}
    /\ Init /\ Bd!Init
    /\ which = "topic" => ~oversized

MCNext ==
    \/ which = "topic" /\ Next /\ UNCHANGED <<which, bodyVars>>
    \/ which = "body" /\ Bd!Next /\ UNCHANGED <<which, vars>>

(* BodyStream's fairness, where a body is being read.                      *)
BodyFairness ==
    /\ WF_bodyVars(which = "body" /\ Bd!Pumping)
    /\ \A r \in Bd!Readers :
          /\ WF_bodyVars(which = "body" /\ Bd!Running(r))
          /\ WF_bodyVars(which = "body" /\ Bd!Resumes(r))

MCSpec ==
    /\ MCInit /\ [][MCNext]_<<which, vars, bodyVars>>
    /\ Fairness /\ BodyFairness

(* Each chunk is handed out once and in order, none is missed between a    *)
(* poll and a wait, and the buffer is bounded (BodyStream).                *)
BodySafety == Bd!Safety

(* Every wait for a body ends (BodyStream).                                *)
ReadersAnswered == Bd!ReadersAnswered

=============================================================================
