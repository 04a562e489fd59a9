---------------------------- MODULE MCAgentQueue ----------------------------
(* j1 and j2 are local, c1 and c2 come from the server; all print on p.    *)
EXTENDS AgentQueue
CONSTANTS j1, j2, c1, c2, p
MCCloudManaged == Job \cap {c1, c2}
MCPrinterOf == [j \in Job |-> p]
=============================================================================
