------------------------ MODULE PrintPacketResources ------------------------
(* One content-addressed resource of PrintPacket documents: its row, its    *)
(* object in the store, the renders that refer to it, the callers that      *)
(* upload it and the workers that reclaim it when it is out of use.  Row    *)
(* and object are changed in separate steps.                                *)
EXTENDS Integers, FiniteSets

CONSTANTS
  User,            \* renders that may come to refer to the resource
  Uploader,        \* callers of the upload
  Reclaimer,       \* workers in cleanup_once
  MaxReclaims,     \* bound: cleanup claims
  ResourceFaults   \* bound: stops and failed operations

ASSUME ResourceAssumption ==
  /\ IsFiniteSet(User) /\ IsFiniteSet(Uploader) /\ IsFiniteSet(Reclaimer)
  /\ MaxReclaims \in Nat /\ ResourceFaults \in Nat

VARIABLES
  resource,   \* the row of printpacket_resources
  stored,     \* the object is in the store
  users,      \* the renders: none, registered, linked or expired
  uploads,    \* the step each upload is at
  reclaims,   \* what each worker holds: step and cleanup lease token
  upsets      \* faults so far

resourceVars == <<resource, stored, users, uploads, reclaims, upsets>>

ResourceTypeOK ==
  /\ resource \in [state : {"none", "active", "expiring"}, stale : BOOLEAN,
                   claims : 0..MaxReclaims, token : 0..MaxReclaims, lapsed : BOOLEAN]
  /\ stored \in BOOLEAN
  /\ users \in [User -> {"none", "registered", "linked", "expired", "unlinked"}]
  /\ uploads \in [Uploader -> {"idle", "put"}]
  /\ reclaims \in [Reclaimer -> [at : {"idle", "delete", "finish"}, token : 0..MaxReclaims]]
  /\ upsets \in 0..ResourceFaults

Rested == [at |-> "idle", token |-> 0]

ResourceInit ==
  /\ resource = [state |-> "none", stale |-> FALSE, claims |-> 0, token |-> 0,
                 lapsed |-> FALSE]
  /\ stored = FALSE
  /\ users = [u \in User |-> "none"]
  /\ uploads = [c \in Uploader |-> "idle"]
  /\ reclaims = [w \in Reclaimer |-> Rested]
  /\ upsets = 0

Upset == upsets < ResourceFaults /\ upsets' = upsets + 1

\* The rows that refer to the resource: an expired render keeps its reference
\* until the next cleanup.
References == {u \in User : users[u] \in {"linked", "expired"}}

\* Use makes the row active again and withdraws the cleanup's lease.
Renewed == [resource EXCEPT !.state = "active", !.stale = FALSE, !.token = 0,
                            !.lapsed = FALSE]

put_printpacket_resource(c) ==
  /\ uploads[c] = "idle"
  /\ stored' = TRUE
  /\ uploads' = [uploads EXCEPT ![c] = "put"]
  /\ UNCHANGED <<resource, users, reclaims, upsets>>

register_printpacket_resource(c) ==
  /\ uploads[c] = "put"
  /\ resource' = Renewed
  /\ uploads' = [uploads EXCEPT ![c] = "idle"]
  /\ UNCHANGED <<stored, users, reclaims, upsets>>

\* On any error of the registration, also of one that took effect, the upload
\* takes the object back, as far as the store obeys.
RegistrationFails(c) ==
  /\ uploads[c] = "put" /\ Upset
  /\ resource' \in {resource, Renewed}
  /\ stored' \in {FALSE, stored}
  /\ uploads' = [uploads EXCEPT ![c] = "idle"]
  /\ UNCHANGED <<users, reclaims>>

register_render(u) ==
  /\ users[u] = "none"
  /\ users' = [users EXCEPT ![u] = "registered"]
  /\ UNCHANGED <<resource, stored, uploads, reclaims, upsets>>

\* A transaction of its own; without the row it fails.
link_printpacket_render_resources(u) ==
  /\ users[u] = "registered" /\ resource.state /= "none"
  /\ users' = [users EXCEPT ![u] = "linked"]
  /\ resource' = Renewed
  /\ UNCHANGED <<stored, uploads, reclaims, upsets>>

RenderExpires(u) ==
  /\ users[u] \in {"registered", "linked"}
  /\ users' = [users EXCEPT ![u] = IF @ = "linked" THEN "expired" ELSE "unlinked"]
  /\ UNCHANGED <<resource, stored, uploads, reclaims, upsets>>

\* Thirty days after its last use.
ResourceLapses ==
  /\ resource.state /= "none" /\ ~resource.stale
  /\ resource' = [resource EXCEPT !.stale = TRUE]
  /\ UNCHANGED <<stored, users, uploads, reclaims, upsets>>

\* Mutant: a cleanup that stopped keeps the row for ever.
ReclaimableActive ==
  /\ resource.stale /\ resource.state = "active"
  /\ \A u \in User : users[u] /= "linked"

\* References of expired renders go first; the row is claimed if it is past
\* its time, has no reference and no cleanup holds it.
Reclaimable ==
  /\ resource.stale
  /\ resource.state = "active" \/ (resource.state = "expiring" /\ resource.lapsed)
  /\ \A u \in User : users[u] /= "linked"

claim_expired_printpacket_resources(w) ==
  /\ reclaims[w] = Rested
  /\ users' = [u \in User |-> IF users[u] = "expired" THEN "unlinked" ELSE users[u]]
  /\ \/ /\ Reclaimable /\ resource.claims < MaxReclaims
        /\ resource' = [resource EXCEPT !.state = "expiring", !.claims = @ + 1,
                                        !.token = resource.claims + 1, !.lapsed = FALSE]
        /\ reclaims' = [reclaims EXCEPT ![w] =
                          [at |-> "delete", token |-> resource.claims + 1]]
     \/ ~Reclaimable /\ UNCHANGED <<resource, reclaims>>
  /\ UNCHANGED <<stored, uploads, upsets>>

DeleteObject(w) ==
  /\ reclaims[w].at = "delete"
  /\ \/ /\ stored' = FALSE
        /\ reclaims' = [reclaims EXCEPT ![w].at = "finish"] /\ UNCHANGED upsets
     \/ Upset /\ reclaims' = [reclaims EXCEPT ![w] = Rested] /\ UNCHANGED stored
  /\ UNCHANGED <<resource, users, uploads>>

complete_expired_printpacket_resource(w) ==
  /\ reclaims[w].at = "finish"
  /\ resource' = IF /\ resource.state = "expiring" /\ resource.token = reclaims[w].token
                    /\ References = {}
                 THEN [resource EXCEPT !.state = "none", !.stale = FALSE, !.token = 0,
                                       !.lapsed = FALSE]
                 ELSE resource
  /\ reclaims' = [reclaims EXCEPT ![w] = Rested]
  /\ UNCHANGED <<stored, users, uploads, upsets>>

CleanupStops(w) ==
  /\ reclaims[w] /= Rested /\ Upset
  /\ reclaims' = [reclaims EXCEPT ![w] = Rested]
  /\ UNCHANGED <<resource, stored, users, uploads>>

Reclaiming == \E w \in Reclaimer : reclaims[w].token = resource.token

\* The five minutes of the cleanup's lease.
CleanupLapses ==
  /\ resource.state = "expiring" /\ ~resource.lapsed
  /\ IF Reclaiming THEN Upset ELSE UNCHANGED upsets
  /\ resource' = [resource EXCEPT !.lapsed = TRUE]
  /\ UNCHANGED <<stored, users, uploads, reclaims>>

ResourceNext ==
  \/ \E c \in Uploader : put_printpacket_resource(c)
                         \/ register_printpacket_resource(c) \/ RegistrationFails(c)
  \/ \E u \in User : register_render(u) \/ link_printpacket_render_resources(u)
                     \/ RenderExpires(u)
  \/ \E w \in Reclaimer :
       claim_expired_printpacket_resources(w) \/ DeleteObject(w)
       \/ complete_expired_printpacket_resource(w) \/ CleanupStops(w)
  \/ ResourceLapses \/ CleanupLapses

ResourceFairness ==
  /\ \A w \in Reclaimer :
       /\ WF_resourceVars(claim_expired_printpacket_resources(w))
       /\ WF_resourceVars(DeleteObject(w))
       /\ WF_resourceVars(complete_expired_printpacket_resource(w))
  /\ WF_resourceVars(~Reclaiming /\ CleanupLapses)

ResourceSpec == ResourceInit /\ [][ResourceNext]_resourceVars

(***************************************************************************)
(* Properties.                                                             *)
(***************************************************************************)
\* docs/api/printpacket.md:80 "retained while referenced by a render": the
\* object of a resource is in the store as long as a render refers to it.
ReferencedIsRetained ==
  (\E u \in User : users[u] = "linked") => stored

\* A resource that is past its time and out of use is reclaimed, or comes
\* into use again, whatever cleanup stops on the way.
UnusedIsReclaimed ==
  (resource.state /= "none" /\ resource.stale
     /\ \A u \in User : users[u] /= "linked") ~>
    \/ resource.state = "none" \/ ~resource.stale
    \/ \E u \in User : users[u] = "linked"
    \/ resource.claims = MaxReclaims
=============================================================================
