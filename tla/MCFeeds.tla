------------------------------ MODULE MCFeeds --------------------------------
(***************************************************************************)
(* Model-checking instance of topics and those who follow them: the        *)
(* subscriptions of a topic in memory (Topic) and the feeds of agents'     *)
(* sessions (McpSessions), whose subscriptions are taken for what a topic  *)
(* promises.  They share no state, so a behaviour is one of either:        *)
(* `which` says of which, and the other stays where it starts.             *)
(***************************************************************************)
EXTENDS Topic, TLC

CONSTANT Blocks

CONSTANTS Ids, Calls, Feeds, Streams, Listeners, NoFeed
VARIABLES which, oneLoop, now, live, used, touched, channel, listening, feeds, call, feed,
          stream, listener, emitted, since, lost, given, told, late, heard

(* One message is enough for an emitter that does not wait.                *)
MCMaxEmits == [e \in Emitters |-> IF e \in NoWaiters THEN 1 ELSE 2]

MCOffers == [s \in Subs |-> IF s \in Blocks THEN {"block"} ELSE Policies \ {"block"}]

Mc == INSTANCE McpSessions WITH
          Limit <- 1, Idle <- 0, FeedBuffer <- 1, MaxMessages <- 2, MaxTime <- 1,
          dropped <- lost, taken <- given

mcpVars == <<oneLoop, now, live, used, touched, channel, listening, feeds, call, feed,
             stream, listener, emitted, since, lost, given, told, late, heard>>

Symmetry == Permutations(Calls) \cup Permutations(Feeds)

(* The two wires of MCP share only the topic: the states in which both are *)
(* in use are left out.                                                    *)
OneWire == used = {} \/ \A l \in Listeners : listener[l].phase = "idle"

MCInit ==
    /\ which \in {"topic", "mcp"}
    /\ Init /\ Mc!Init
    /\ which = "topic" => oneLoop

MCNext ==
    \/ which = "topic" /\ Next /\ UNCHANGED <<which, mcpVars>>
    \/ which = "mcp" /\ Mc!Next /\ UNCHANGED <<which, vars>>

MCSpec == MCInit /\ [][MCNext]_<<which, vars, mcpVars>>

(* Nobody waits for what is there, every message is accounted for, and     *)
(* each emitter's are read in its order (Topic).                           *)
TopicSafety == which = "topic" => Safety

(* Sessions are bounded and closed whole, and what is read through their   *)
(* feeds is in order and nothing is missing (McpSessions).                 *)
McpSafety == which = "mcp" => Mc!Safety

=============================================================================
