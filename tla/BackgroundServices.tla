------------------------- MODULE BackgroundServices -------------------------
(* The services around the delivery path that share no state with each      *)
(* other: the update guardian of a node, and the webhook outbox, the render *)
(* queue and the resource store of the control plane.  A behaviour is that  *)
(* of one of them; the others rest in their initial states.                 *)
EXTENDS UpdateGuardian, WebhookOutbox, DocumentRenders, PrintPacketResources

VARIABLE service   \* the service whose behaviour this is

serviceVars ==
  <<service, guardianVars, outboxVars, demand, renderVars, resourceVars>>

TypeOK ==
  /\ service \in {"guardian", "webhooks", "renders", "resources"}
  /\ GuardianTypeOK /\ OutboxTypeOK /\ RendersTypeOK /\ ResourceTypeOK

Init ==
  /\ service \in {"guardian", "webhooks", "renders", "resources"}
  /\ GuardianInit /\ OutboxInit /\ RendersInit /\ ResourceInit
  /\ service # "renders" => demand = CHOOSE some \in Demands : TRUE

Next ==
  /\ UNCHANGED service
  /\ \/ /\ service = "guardian" /\ GuardianNext
        /\ UNCHANGED <<outboxVars, demand, renderVars, resourceVars>>
     \/ /\ service = "webhooks" /\ OutboxNext
        /\ UNCHANGED <<guardianVars, demand, renderVars, resourceVars>>
     \/ /\ service = "renders" /\ RendersNext
        /\ UNCHANGED <<guardianVars, outboxVars, resourceVars>>
     \/ /\ service = "resources" /\ ResourceNext
        /\ UNCHANGED <<guardianVars, outboxVars, demand, renderVars>>

Spec == Init /\ [][Next]_serviceVars

FairSpec ==
  /\ Spec
  /\ GuardianFairness /\ OutboxFairness /\ RendersFairness /\ ResourceFairness
=============================================================================
