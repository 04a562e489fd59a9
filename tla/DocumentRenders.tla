-------------------------- MODULE DocumentRenders --------------------------
(* The render queue of the control plane, the artifacts it publishes in the *)
(* object store, the approval gate in front of them and the print jobs that *)
(* take them over.  A row and the object store are never changed together,  *)
(* so every step between the two is a step of its own here.  Each SQL       *)
(* statement is one step.  Time passes in three facts: a lease lapses, a    *)
(* render is past expires_at, a preview is past its own.                    *)
EXTENDS Integers, FiniteSets

CONSTANTS
  Render,        \* document_renders
  Printable,     \* those of purpose printable; the others are previews
  Renderer,      \* document render workers, one item each at a time
  Demands,       \* the sets of renders that may be asked for in one behaviour
  Client,        \* callers, each with an idempotency key and a request of its own
  MaxAttempts,   \* max_attempts of a render
  MaxSweeps,     \* bound: expiry claims of a render
  RenderFaults   \* bound: stops, failed store operations, outlived leases

ASSUME RenderAssumption ==
  /\ IsFiniteSet(Render) /\ Printable \subseteq Render
  /\ Demands \subseteq SUBSET Render
  /\ MaxAttempts \in Nat \ {0} /\ MaxSweeps \in Nat /\ RenderFaults \in Nat

VARIABLES
  demand,     \* the renders of this behaviour
  renders,    \* rows of document_renders
  objects,    \* artifacts in the object store, by render and lease token
  previews,   \* rows of document_previews, at most one a render
  printJobs,  \* jobs by idempotency key, with their artifact reference
  items,      \* what each worker holds
  callers,    \* where each caller's request is
  unsure,     \* renders whose completion took effect and was reported as an error
  troubles    \* faults so far

renderVars ==
  <<renders, objects, previews, printJobs, items, callers, unsure, troubles>>

\* Every claim of a row, to render or to expire it, draws a new lease token.
Token == 0..(MaxAttempts + MaxSweeps)
None == 0

RenderRow ==
  [state : {"none", "registered", "rendering", "completed", "failed_terminal",
            "expiring", "expired"},
   attempt : 0..MaxAttempts, sweeps : 0..MaxSweeps, token : Token,
   lapsed : BOOLEAN, stale : BOOLEAN, key : Token]
PreviewRow ==
  [state : {"none", "awaiting_approval", "approving", "approved", "cancelled",
            "expired"}, by : SUBSET Client, stale : BOOLEAN]
PrintJob ==
  [state : {"none", "live", "final"}, render : SUBSET Render, key : Token,
   gated : BOOLEAN, retained : BOOLEAN]
Item ==
  [at : {"idle", "render", "store", "lost", "fail", "delete", "finish"},
   render : SUBSET Render, token : Token, attempt : 0..MaxAttempts, key : Token,
   retryable : BOOLEAN]
Call == [at : {"idle", "print", "acquire", "create", "complete"},
         render : SUBSET Render, key : Token, gated : BOOLEAN]

RendersTypeOK ==
  /\ demand \in Demands
  /\ renders \in [Render -> RenderRow]
  /\ objects \subseteq Render \X Token
  /\ previews \in [Render -> PreviewRow]
  /\ printJobs \in [Client -> PrintJob]
  /\ items \in [Renderer -> Item]
  /\ callers \in [Client -> Call]
  /\ unsure \subseteq Render
  /\ troubles \in 0..RenderFaults

Free == [at |-> "idle", render |-> {}, token |-> None, attempt |-> 0,
         key |-> None, retryable |-> FALSE]
Quiet == [at |-> "idle", render |-> {}, key |-> None, gated |-> FALSE]

RendersInit ==
  /\ demand \in Demands
  /\ renders = [r \in Render |->
       [state |-> "none", attempt |-> 0, sweeps |-> 0, token |-> None,
        lapsed |-> FALSE, stale |-> FALSE, key |-> None]]
  /\ objects = {}
  /\ previews = [r \in Render |-> [state |-> "none", by |-> {}, stale |-> FALSE]]
  /\ printJobs = [k \in Client |->
       [state |-> "none", render |-> {}, key |-> None, gated |-> FALSE,
        retained |-> FALSE]]
  /\ items = [w \in Renderer |-> Free]
  /\ callers = [k \in Client |-> Quiet]
  /\ unsure = {} /\ troubles = 0

Trouble == troubles < RenderFaults /\ troubles' = troubles + 1

(***************************************************************************)
(* The queue and its workers.                                              *)
(***************************************************************************)
register_document_render(r) ==
  /\ r \in demand /\ renders[r].state = "none"
  /\ renders' = [renders EXCEPT ![r].state = "registered"]
  /\ UNCHANGED <<objects, previews, printJobs, items, callers, unsure, troubles>>

\* Mutant: rows left behind under a lease are not claimed.
UnheldNever(r) == renders[r].token = None

Unheld(r) == renders[r].token = None \/ renders[r].lapsed

\* The lease drawn by the next claim of the row.
Draw(row) == row.attempt + row.sweeps + 1

claim_document_renders(w, r) ==
  /\ items[w].at = "idle"
  /\ renders[r].state \in {"registered", "rendering"}
  /\ r \in Printable \/ ~renders[r].stale
  /\ Unheld(r) /\ renders[r].attempt < MaxAttempts
  /\ renders' = [renders EXCEPT ![r] =
       [@ EXCEPT !.state = "rendering", !.attempt = renders[r].attempt + 1,
                 !.token = Draw(renders[r]), !.lapsed = FALSE]]
  /\ items' = [items EXCEPT ![w] =
       [Free EXCEPT !.at = "render", !.render = {r}, !.token = Draw(renders[r]),
                    !.attempt = renders[r].attempt + 1]]
  /\ UNCHANGED <<objects, previews, printJobs, callers, unsure, troubles>>

\* Mutant: the artifact is named after the render alone.
render_artifact_object_keyShared(w, r) == <<r, 1>>

\* The artifact's name holds the lease token.
render_artifact_object_key(w, r) == <<r, items[w].token>>

\* Payload, resources and rendering: an artifact is stored, or the attempt
\* fails for good or for now.  A store that fails may have stored.
render_and_complete(w) ==
  \E r \in items[w].render :
    /\ items[w].at = "render"
    /\ \/ /\ objects' = objects \cup {render_artifact_object_key(w, r)}
          /\ items' = [items EXCEPT ![w].at = "store"]
          /\ UNCHANGED troubles
       \/ /\ items' = [items EXCEPT ![w] = [@ EXCEPT !.at = "fail", !.retryable = FALSE]]
          /\ UNCHANGED <<objects, troubles>>
       \/ /\ Trouble
          /\ objects' \in {objects, objects \cup {render_artifact_object_key(w, r)}}
          /\ items' = [items EXCEPT ![w] = [@ EXCEPT !.at = "fail", !.retryable = TRUE]]
    /\ UNCHANGED <<renders, previews, printJobs, callers, unsure>>

\* The row takes the artifact from the holder of its lease.
Completable(w, r) ==
  /\ renders[r].state = "rendering" /\ renders[r].token = items[w].token
  /\ r \in Printable \/ ~renders[r].stale

Completed(w, r) ==
  [renders EXCEPT ![r] = [@ EXCEPT !.state = "completed", !.key = items[w].token,
                                   !.token = None, !.lapsed = FALSE]]

\* The worker takes every error for a lost lease: the refusal of the row, a
\* failed statement, and one that took effect before its answer was lost.
complete_claimed_document_render(w) ==
  \E r \in items[w].render :
    /\ items[w].at = "store"
    /\ \/ /\ Completable(w, r) /\ renders' = Completed(w, r)
          /\ items' = [items EXCEPT ![w] = Free]
          /\ UNCHANGED <<unsure, troubles>>
       \/ /\ ~Completable(w, r)
          /\ items' = [items EXCEPT ![w].at = "lost"]
          /\ UNCHANGED <<renders, unsure, troubles>>
       \/ /\ Trouble
          /\ items' = [items EXCEPT ![w].at = "lost"]
          /\ \/ UNCHANGED <<renders, unsure>>
             \/ /\ Completable(w, r) /\ renders' = Completed(w, r)
                /\ unsure' = unsure \cup {r}
    /\ UNCHANGED <<objects, previews, printJobs, callers>>

\* For want of a lease the artifact goes, as far as the store obeys.
DiscardArtifact(w) ==
  \E r \in items[w].render :
    /\ items[w].at = "lost"
    /\ items' = [items EXCEPT ![w] = [@ EXCEPT !.at = "fail", !.retryable = TRUE]]
    /\ \/ objects' = objects \ {render_artifact_object_key(w, r)} /\ UNCHANGED troubles
       \/ Trouble /\ UNCHANGED objects
    /\ UNCHANGED <<renders, previews, printJobs, callers, unsure>>

fail_claimed_document_render(w) ==
  \E r \in items[w].render :
    /\ items[w].at = "fail"
    /\ renders' = IF renders[r].token = items[w].token
         THEN [renders EXCEPT ![r] =
           [@ EXCEPT !.state = IF items[w].retryable /\ items[w].attempt < MaxAttempts
                               THEN "registered" ELSE "failed_terminal",
                     !.token = None, !.lapsed = FALSE]]
         ELSE renders
    /\ items' = [items EXCEPT ![w] = Free]
    /\ UNCHANGED <<objects, previews, printJobs, callers, unsure, troubles>>

(***************************************************************************)
(* Expiry of renders and their artifacts.                                  *)
(***************************************************************************)
Expirable(r) ==
  /\ renders[r].state \in {"completed", "failed_terminal", "expiring"} \cup
       (IF r \in Printable THEN {} ELSE {"registered", "rendering"})
  /\ renders[r].stale /\ Unheld(r)
  /\ \A k \in Client : ~(r \in printJobs[k].render /\ printJobs[k].state = "live"
                         /\ printJobs[k].retained)
  /\ previews[r].state /= "approving"
  /\ ~(previews[r].state = "awaiting_approval" /\ ~previews[r].stale)

claim_expired_document_artifacts(w, r) ==
  /\ items[w].at = "idle" /\ Expirable(r) /\ renders[r].sweeps < MaxSweeps
  /\ renders' = [renders EXCEPT ![r] =
       [@ EXCEPT !.state = "expiring", !.sweeps = renders[r].sweeps + 1,
                 !.token = Draw(renders[r]), !.lapsed = FALSE]]
  /\ items' = [items EXCEPT ![w] =
       [Free EXCEPT !.at = "delete", !.render = {r}, !.token = Draw(renders[r]),
                    !.key = renders[r].key]]
  /\ UNCHANGED <<objects, previews, printJobs, callers, unsure, troubles>>

delete_expired_object(w) ==
  \E r \in items[w].render :
    /\ items[w].at = "delete"
    /\ \/ /\ objects' = objects \ {<<r, items[w].key>>}
          /\ items' = [items EXCEPT ![w].at = "finish"] /\ UNCHANGED troubles
       \/ Trouble /\ items' = [items EXCEPT ![w] = Free] /\ UNCHANGED objects
    /\ UNCHANGED <<renders, previews, printJobs, callers, unsure>>

complete_document_artifact_expiry(w) ==
  \E r \in items[w].render :
    /\ items[w].at = "finish"
    /\ renders' = IF renders[r].state = "expiring" /\ renders[r].token = items[w].token
         THEN [renders EXCEPT ![r] =
           [@ EXCEPT !.state = "expired", !.key = None, !.token = None,
                     !.lapsed = FALSE]]
         ELSE renders
    /\ items' = [items EXCEPT ![w] = Free]
    /\ UNCHANGED <<objects, previews, printJobs, callers, unsure, troubles>>

WorkerStops(w) ==
  /\ items[w].at /= "idle" /\ Trouble
  /\ items' = [items EXCEPT ![w] = Free]
  /\ UNCHANGED <<renders, objects, previews, printJobs, callers, unsure>>

Working(r) == \E w \in Renderer : items[w].at /= "idle" /\ r \in items[w].render
                                  /\ items[w].token = renders[r].token

\* A lease outlives the timeouts of its holder; to lapse under it is a fault.
LeaseLapses(r) ==
  /\ renders[r].token /= None /\ ~renders[r].lapsed
  /\ renders' = [renders EXCEPT ![r].lapsed = TRUE]
  /\ IF Working(r) THEN Trouble ELSE UNCHANGED troubles
  /\ UNCHANGED <<objects, previews, printJobs, items, callers, unsure>>

(***************************************************************************)
(* Approval and printing.                                                  *)
(***************************************************************************)
create_document_preview(r) ==
  /\ renders[r].state = "completed" /\ r \in Printable
  /\ previews[r].state = "none"
  /\ previews' = [previews EXCEPT ![r].state = "awaiting_approval"]
  /\ UNCHANGED <<renders, objects, printJobs, items, callers, unsure, troubles>>

PreviewLapses(r) ==
  /\ previews[r].state /= "none" /\ ~previews[r].stale
  /\ previews' = [previews EXCEPT ![r].stale = TRUE]
  /\ UNCHANGED <<renders, objects, printJobs, items, callers, unsure, troubles>>

\* A reader settles a preview that is past its time.
get_document_preview(r) ==
  /\ previews[r].state = "awaiting_approval" /\ previews[r].stale
  /\ previews' = [previews EXCEPT ![r].state = "expired"]
  /\ UNCHANGED <<renders, objects, printJobs, items, callers, unsure, troubles>>

cancel_document_preview(r) ==
  /\ previews[r].state = "awaiting_approval" /\ ~previews[r].stale
  /\ previews' = [previews EXCEPT ![r].state = "cancelled"]
  /\ UNCHANGED <<renders, objects, printJobs, items, callers, unsure, troubles>>

\* Mutant: any key resumes an approval.
MayApproveAnyKey(k, r) ==
  \/ previews[r].state = "awaiting_approval" /\ ~previews[r].stale
  \/ previews[r].state \in {"approving", "approved"}

\* The gate opens to one key; the same key finds it open again.
MayApprove(k, r) ==
  \/ previews[r].state = "awaiting_approval" /\ ~previews[r].stale
  \/ previews[r].state \in {"approving", "approved"} /\ previews[r].by = {k}

begin_document_preview_approval(k, r) ==
  /\ callers[k].at = "idle" /\ MayApprove(k, r)
  /\ previews' = IF previews[r].state = "awaiting_approval"
       THEN [previews EXCEPT ![r] = [@ EXCEPT !.state = "approving", !.by = {k}]]
       ELSE previews
  /\ callers' = [callers EXCEPT ![k] =
       [Quiet EXCEPT !.at = "print", !.render = {r}, !.gated = TRUE]]
  /\ UNCHANGED <<renders, objects, printJobs, items, unsure, troubles>>

\* A print of the render without a preview.
PrintDirectly(k, r) ==
  /\ callers[k].at = "idle" /\ renders[r].state = "completed" /\ r \in Printable
  /\ printJobs[k].state = "none"
  /\ callers' = [callers EXCEPT ![k] = [Quiet EXCEPT !.at = "print", !.render = {r}]]
  /\ UNCHANGED <<renders, objects, previews, printJobs, items, unsure, troubles>>

\* print_render reads the row; what it read is used two statements later.
print_render(k) ==
  \E r \in callers[k].render :
    /\ callers[k].at = "print"
    /\ callers' = [callers EXCEPT ![k] =
         IF renders[r].state = "completed"
         THEN [@ EXCEPT !.at = "acquire", !.key = renders[r].key] ELSE Quiet]
    /\ UNCHANGED <<renders, objects, previews, printJobs, items, unsure, troubles>>

acquire_document_artifact_upload(k) ==
  \E r \in callers[k].render :
    /\ callers[k].at = "acquire"
    /\ callers' = [callers EXCEPT ![k] =
         IF renders[r].state = "completed" THEN [@ EXCEPT !.at = "create"] ELSE Quiet]
    /\ UNCHANGED <<renders, objects, previews, printJobs, items, unsure, troubles>>

\* Mutant: the reference is taken without another look at the row.
register_document_artifact_job_referenceUnchecked(r) == TRUE

\* The insertion's trigger (migration 0046): the reference is taken, and the
\* render kept for the job, if the artifact is still published.
register_document_artifact_job_reference(r) == renders[r].state = "completed"

\* The request that is hashed under the key names the render: the same request
\* finds its job, another one is a conflict.
create_cloud_job(k) ==
  \E r \in callers[k].render :
    /\ callers[k].at = "create"
    /\ \/ /\ printJobs[k].state /= "none" /\ r \in printJobs[k].render
          /\ callers' = [callers EXCEPT ![k].at = "complete"]
          /\ UNCHANGED <<renders, printJobs>>
       \/ /\ printJobs[k].state = "none" /\ register_document_artifact_job_reference(r)
          /\ printJobs' = [printJobs EXCEPT ![k] =
               [state |-> "live", render |-> {r}, key |-> callers[k].key,
                gated |-> callers[k].gated, retained |-> TRUE]]
          /\ renders' = [renders EXCEPT ![r].stale = FALSE]
          /\ callers' = [callers EXCEPT ![k].at = "complete"]
       \/ /\ IF printJobs[k].state = "none" THEN ~register_document_artifact_job_reference(r)
                                          ELSE r \notin printJobs[k].render
          /\ callers' = [callers EXCEPT ![k] = Quiet]
          /\ UNCHANGED <<renders, printJobs>>
    /\ UNCHANGED <<objects, previews, items, unsure, troubles>>

complete_document_preview_approval(k) ==
  \E r \in callers[k].render :
    /\ callers[k].at = "complete"
    /\ previews' = IF callers[k].gated /\ previews[r].state = "approving"
                      /\ previews[r].by = {k}
                   THEN [previews EXCEPT ![r].state = "approved"] ELSE previews
    /\ callers' = [callers EXCEPT ![k] = Quiet]
    /\ UNCHANGED <<renders, objects, printJobs, items, unsure, troubles>>

\* The handler of a request stops; its caller may ask again.
RequestStops(k) ==
  /\ callers[k].at /= "idle" /\ Trouble
  /\ callers' = [callers EXCEPT ![k] = Quiet]
  /\ UNCHANGED <<renders, objects, previews, printJobs, items, unsure>>

\* release_document_artifact_job_reference: the job is final.
JobIsFinal(k) ==
  /\ printJobs[k].state = "live"
  /\ printJobs' = [printJobs EXCEPT ![k].state = "final"]
  /\ UNCHANGED <<renders, objects, previews, items, callers, unsure, troubles>>

RetentionLapses(k) ==
  /\ printJobs[k].retained
  /\ printJobs' = [printJobs EXCEPT ![k].retained = FALSE]
  /\ UNCHANGED <<renders, objects, previews, items, callers, unsure, troubles>>

\* expires_at is never earlier than the deadline of a job of the render.
RenderLapses(r) ==
  /\ renders[r].state \notin {"none", "expired"} /\ ~renders[r].stale
  /\ \A k \in Client : r \in printJobs[k].render => ~printJobs[k].retained
  /\ renders' = [renders EXCEPT ![r].stale = TRUE]
  /\ UNCHANGED <<objects, previews, printJobs, items, callers, unsure, troubles>>

RenderStep(w) ==
  \/ render_and_complete(w) \/ complete_claimed_document_render(w)
  \/ DiscardArtifact(w) \/ fail_claimed_document_render(w)
  \/ delete_expired_object(w) \/ complete_document_artifact_expiry(w)

CallStep(k) ==
  \/ print_render(k) \/ acquire_document_artifact_upload(k)
  \/ create_cloud_job(k) \/ complete_document_preview_approval(k)

RendersNext ==
  /\ UNCHANGED demand
  /\ \/ \E r \in Render :
          \/ register_document_render(r) \/ LeaseLapses(r) \/ RenderLapses(r)
          \/ create_document_preview(r) \/ PreviewLapses(r)
          \/ get_document_preview(r) \/ cancel_document_preview(r)
     \/ \E w \in Renderer, r \in Render :
          claim_document_renders(w, r) \/ claim_expired_document_artifacts(w, r)
     \/ \E w \in Renderer : RenderStep(w) \/ WorkerStops(w)
     \/ \E k \in Client, r \in Render :
          begin_document_preview_approval(k, r) \/ PrintDirectly(k, r)
     \/ \E k \in Client :
          CallStep(k) \/ RequestStops(k) \/ JobIsFinal(k) \/ RetentionLapses(k)

RendersSpec == RendersInit /\ [][RendersNext]_<<demand, renderVars>>

\* Workers poll for ever; a lease nobody works under lapses.
RendersFairness ==
  /\ \A w \in Renderer : WF_renderVars(RenderStep(w))
  /\ \A r \in Render :
       /\ WF_renderVars(\E w \in Renderer : claim_document_renders(w, r))
       /\ WF_renderVars(\E w \in Renderer : claim_expired_document_artifacts(w, r))
       /\ WF_renderVars(~Working(r) /\ LeaseLapses(r))

(***************************************************************************)
(* Properties.                                                             *)
(***************************************************************************)
\* A completed render has its artifact, whichever workers rendered it, lost
\* their leases and removed what they had stored.  The exception is a worker
\* that was told of an error although the row is completed: it removes what it
\* has just published (document_render_worker.rs:258-274).
CompletedHasArtifact ==
  \A r \in Render \ unsure :
    renders[r].state = "completed" => <<r, renders[r].key>> \in objects

\* A job that is not final finds the artifact it was created with for as long
\* as its reference retains it, although the row was read three statements
\* before the reference was taken; of a render in unsure the row says completed
\* and the artifact may be gone, and neither print_render nor the reference asks.
LiveJobHasArtifact ==
  \A k \in Client : \A r \in printJobs[k].render \ unsure :
    printJobs[k].state = "live" /\ printJobs[k].retained =>
      <<r, printJobs[k].key>> \in objects

\* Approvals that stop, resume and compete make one job of a preview, the one
\* the preview names, and none once it is cancelled or expired.
ApprovalIsSingle ==
  \A r \in Render :
    LET made == {k \in Client : r \in printJobs[k].render /\ printJobs[k].gated}
    IN /\ made \subseteq previews[r].by
       /\ Cardinality(made) <= 1
       /\ previews[r].state \in {"cancelled", "expired"} => made = {}
       /\ previews[r].state = "approved" =>
            \A k \in previews[r].by : r \in printJobs[k].render

\* The worker of the last attempt has stopped: no claim takes the row again.
Exhausted(r) ==
  renders[r].state = "rendering" /\ renders[r].attempt = MaxAttempts /\ ~Working(r)

\* A registered render is completed, fails or expires, unless the worker of
\* its last attempt stopped.
EveryRenderSettles ==
  \A r \in Render :
    renders[r].state = "registered" ~>
      \/ renders[r].state \in {"completed", "failed_terminal", "expired"}
      \/ Exhausted(r)
=============================================================================
