---------------------------- MODULE MCNodeQueues ----------------------------
(* The two deployments of a node's queue: the engine of the installed agent *)
(* (AgentQueue) and the runtime embedded in an application.  A node is one  *)
(* of them; the other rests in its initial state.                           *)
EXTENDS MCAgentQueue, EmbeddedHandoff

VARIABLE deployment   \* which of the two this behaviour is

NodeInit ==
  /\ deployment \in {"installed", "embedded"}
  /\ Init /\ EmbeddedInit

NodeNext ==
  /\ UNCHANGED deployment
  /\ \/ deployment = "installed" /\ Next /\ UNCHANGED embeddedVars
     \/ deployment = "embedded" /\ EmbeddedNext /\ UNCHANGED vars

NodeSpec ==
  NodeInit /\ [][NodeNext]_<<deployment, vars, embeddedVars>> /\ EmbeddedFairness

\* Rows, schedules, operations and histories have their types in both.
NodeTypeOK ==
  deployment \in {"installed", "embedded"} /\ TypeOK /\ EmbeddedTypeOK
=============================================================================
