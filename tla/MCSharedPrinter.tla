-------------------------- MODULE MCSharedPrinter --------------------------
(* Two queues: either the local job alone, through failed writes and a     *)
(* stop, or both jobs while discovery regroups their queues.               *)
EXTENDS MCNativeHandoff

\* Two queues: unrelated, or one printer; or the first alone, found or not.
MCRegrouped == {[n \in Native |-> NoIdentity], [n \in Native |-> p]}
MCFirstAlone == {[n \in Native |-> IF n = n1 THEN e ELSE Absent] : e \in {NoIdentity, Absent}}
MCPrinters == MCRegrouped \cup MCFirstAlone

\* The first queue alone, without offers; or both, found, and nothing fails.
Alone == mem.routes[n2] = Nil /\ offers = {}
Shared ==
  /\ faults = 0 /\ crashes = 0 /\ Cardinality(decided) <= 1
  /\ \A n \in Native : mem.routes[n] # Nil => mem.routes[n].present /\ mem.routes[n2] # Nil
InScenario == Alone \/ Shared

\* The second queue is found with the first one, or never.
FoundTogether == mem.routes[n2] = Nil /\ mem'.routes[n2] # Nil => mem = EmptyDocument
=============================================================================
