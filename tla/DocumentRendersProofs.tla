----------------------- MODULE DocumentRendersProofs -----------------------
(* Proofs about the render queue, its artifacts and the approval gate.      *)
EXTENDS DocumentRenders, FiniteSetTheorems, TLAPS

(***************************************************************************)
(* The inductive invariant.                                                *)
(***************************************************************************)
Drawn(r) == renders[r].attempt + renders[r].sweeps

\* What a worker holds is one render, under a lease the row has drawn.
ItemsAreClaims ==
  \A w \in Renderer : \A r \in items[w].render :
    /\ items[w].at /= "idle"
    /\ items[w].token >= 1 /\ items[w].token <= Drawn(r)
    /\ \A q \in items[w].render : q = r

\* No two workers hold a render under the same lease.
LeaseIsUnique ==
  \A w, v \in Renderer : \A r \in items[w].render :
    r \in items[v].render /\ items[w].token = items[v].token => w = v

\* The row names no lease it has not drawn, and none once it is completed.
RowsAreDrawn ==
  \A r \in Render :
    /\ renders[r].token <= Drawn(r) /\ renders[r].key <= Drawn(r)
    /\ renders[r].state = "completed" => renders[r].token = None

RenderPhase == {"render", "store", "lost", "fail"}

\* A worker that renders never names the published artifact, unless it has been
\* told of an error although it published; its lease is the row's only while
\* the row is rendering; one that deletes has taken the row out of publication
\* for good.
HoldersAreApart ==
  \A w \in Renderer : \A r \in items[w].render :
    /\ items[w].at \in RenderPhase =>
         /\ r \in unsure \/ items[w].token /= renders[r].key
         /\ items[w].token = renders[r].token => renders[r].state = "rendering"
    /\ items[w].at \notin RenderPhase =>
         renders[r].state \in {"expiring", "expired"}

\* What a worker has stored is there until the render itself expires.
StoredIsThere ==
  \A w \in Renderer : \A r \in items[w].render :
    items[w].at = "store" /\ renders[r].state \notin {"expiring", "expired"} =>
      <<r, items[w].token>> \in objects

LeaseInv ==
  /\ ItemsAreClaims /\ LeaseIsUnique /\ RowsAreDrawn
  /\ HoldersAreApart /\ StoredIsThere /\ CompletedHasArtifact

\* A retained reference keeps the render published under the job's key.
ReferenceHolds ==
  \A k \in Client : \A r \in printJobs[k].render :
    printJobs[k].state = "live" /\ printJobs[k].retained =>
      renders[r].state = "completed" /\ printJobs[k].key = renders[r].key

\* The key a caller has read is the row's for as long as it is published.
ReadIsCurrent ==
  \A k \in Client : \A r \in callers[k].render :
    callers[k].at \in {"acquire", "create"} =>
      /\ renders[r].state \in {"completed", "expiring", "expired"}
      /\ renders[r].state = "completed" => callers[k].key = renders[r].key

JobInv == ReferenceHolds /\ ReadIsCurrent

Opened(k, r) ==
  previews[r].by = {k} /\ previews[r].state \in {"approving", "approved"}

\* A gated request, and the job it makes, belong to the key of the preview.
GateInv ==
  /\ \A k \in Client : \A r \in callers[k].render :
       /\ \A q \in callers[k].render : q = r
       /\ callers[k].gated => Opened(k, r)
       /\ callers[k].at = "complete" => r \in printJobs[k].render
  /\ \A k \in Client : \A r \in printJobs[k].render :
       /\ printJobs[k].state /= "none"
       /\ printJobs[k].gated => Opened(k, r)
  /\ \A r \in Render : previews[r].state = "approved" =>
       \A k \in previews[r].by : r \in printJobs[k].render

RendersInv == LeaseInv /\ JobInv /\ GateInv

(***************************************************************************)
(* Type correctness, action by action.                                     *)
(***************************************************************************)
LEMMA RendersInitType == RendersInit => RendersTypeOK /\ RendersInv
BY RenderAssumption
   DEF RendersInit, RendersTypeOK, RenderRow, PreviewRow, PrintJob, Item, Call, Token,
       None, Free, Quiet, RendersInv, LeaseInv, ItemsAreClaims, LeaseIsUnique,
       RowsAreDrawn, HoldersAreApart, StoredIsThere, CompletedHasArtifact, JobInv,
       ReferenceHolds, ReadIsCurrent, GateInv, Drawn

\* Counting a fault keeps the bound.
LEMMA TroubleType ==
  ASSUME RendersTypeOK, Trouble \/ UNCHANGED troubles
  PROVE  troubles' \in 0..RenderFaults
BY RenderAssumption DEF RendersTypeOK, Trouble

\* The constants of items and calls, and the next lease, are typed.
LEMMA ConstantTypes ==
  /\ Free \in Item /\ Quiet \in Call
  /\ \A row \in RenderRow :
       row.attempt < MaxAttempts \/ row.sweeps < MaxSweeps => Draw(row) \in Token
BY RenderAssumption DEF Free, Item, Quiet, Call, Token, None, RenderRow, Draw

\* A worker that lays its item down.
LEMMA FreedType ==
  ASSUME RendersTypeOK, NEW w \in Renderer, items' = [items EXCEPT ![w] = Free]
  PROVE  items' \in [Renderer -> Item]
BY ConstantTypes DEF RendersTypeOK

\* A caller that is answered.
LEMMA QuietType ==
  ASSUME RendersTypeOK, NEW k \in Client, callers' = [callers EXCEPT ![k] = Quiet]
  PROVE  callers' \in [Client -> Call]
BY ConstantTypes DEF RendersTypeOK

\* What is typed stays typed: the steps of the queue and its workers.
LEMMA RowTypes ==
  ASSUME RendersTypeOK, NEW r \in Render, UNCHANGED demand,
         \/ register_document_render(r) \/ LeaseLapses(r) \/ RenderLapses(r)
  PROVE  RendersTypeOK'
<1>1. CASE register_document_render(r)
  BY <1>1 DEF RendersTypeOK, register_document_render, RenderRow
<1>2. CASE LeaseLapses(r)
  <2>1. renders' \in [Render -> RenderRow]
    BY <1>2 DEF RendersTypeOK, LeaseLapses, RenderRow
  <2>2. troubles' \in 0..RenderFaults
    BY <1>2, TroubleType DEF LeaseLapses
  <2> QED BY <1>2, <2>1, <2>2 DEF RendersTypeOK, LeaseLapses
<1>3. CASE RenderLapses(r)
  BY <1>3 DEF RendersTypeOK, RenderLapses, RenderRow
<1> QED BY <1>1, <1>2, <1>3

LEMMA ClaimTypes ==
  ASSUME RendersTypeOK, NEW r \in Render, NEW w \in Renderer, UNCHANGED demand,
         claim_document_renders(w, r) \/ claim_expired_document_artifacts(w, r)
  PROVE  RendersTypeOK'
<1>1. CASE claim_document_renders(w, r)
  <2>1. /\ renders[r] \in RenderRow /\ renders[r].attempt < MaxAttempts
        /\ renders[r].attempt \in 0..MaxAttempts
    BY <1>1 DEF RendersTypeOK, claim_document_renders, RenderRow
  <2>2. Draw(renders[r]) \in Token
    BY <2>1, ConstantTypes
  <2>3. renders[r].attempt + 1 \in 0..MaxAttempts
    BY <2>1, RenderAssumption
  <2>4. renders' \in [Render -> RenderRow]
    BY <1>1, <2>2, <2>3 DEF RendersTypeOK, claim_document_renders, RenderRow
  <2>5. items' \in [Renderer -> Item]
    BY <1>1, <2>2, <2>3, ConstantTypes DEF RendersTypeOK, claim_document_renders, Item
  <2> QED BY <1>1, <2>4, <2>5 DEF RendersTypeOK, claim_document_renders
<1>2. CASE claim_expired_document_artifacts(w, r)
  <2>1. /\ renders[r] \in RenderRow /\ renders[r].sweeps < MaxSweeps
        /\ renders[r].sweeps \in 0..MaxSweeps /\ renders[r].key \in Token
    BY <1>2 DEF RendersTypeOK, claim_expired_document_artifacts, RenderRow
  <2>2. Draw(renders[r]) \in Token
    BY <2>1, ConstantTypes
  <2>3. renders[r].sweeps + 1 \in 0..MaxSweeps
    BY <2>1, RenderAssumption
  <2>4. renders' \in [Render -> RenderRow]
    <3>1. [renders[r] EXCEPT !.state = "expiring", !.sweeps = renders[r].sweeps + 1,
                             !.token = Draw(renders[r]), !.lapsed = FALSE] \in RenderRow
      BY <2>1, <2>2, <2>3 DEF RenderRow
    <3> QED BY <1>2, <3>1 DEF RendersTypeOK, claim_expired_document_artifacts
  <2>5. items' \in [Renderer -> Item]
    BY <1>2, <2>1, <2>2, ConstantTypes
       DEF RendersTypeOK, claim_expired_document_artifacts, Item
  <2> QED BY <1>2, <2>4, <2>5 DEF RendersTypeOK, claim_expired_document_artifacts
<1> QED BY <1>1, <1>2

LEMMA WorkerTypes ==
  ASSUME RendersTypeOK, NEW w \in Renderer, RenderStep(w) \/ WorkerStops(w), UNCHANGED demand
  PROVE  RendersTypeOK'
<1>0. \A r \in items[w].render :
        r \in Render /\ renders[r] \in RenderRow /\ <<r, items[w].token>> \in Render \X Token
  BY DEF RendersTypeOK, Item
<1>1. CASE render_and_complete(w)
  <2>1. items' \in [Renderer -> Item]
    <3>1. \A b \in BOOLEAN, at \in {"store", "fail"} :
            /\ [items[w] EXCEPT !.at = at] \in Item
            /\ [items[w] EXCEPT !.at = at, !.retryable = b] \in Item
      BY DEF RendersTypeOK, Item
    <3> QED BY <1>1, <3>1 DEF RendersTypeOK, render_and_complete
  <2>2. objects' \subseteq Render \X Token
    BY <1>0, <1>1 DEF RendersTypeOK, render_and_complete, render_artifact_object_key
  <2>3. troubles' \in 0..RenderFaults
    BY <1>1, TroubleType DEF render_and_complete
  <2> QED BY <1>1, <2>1, <2>2, <2>3 DEF RendersTypeOK, render_and_complete
<1>2. CASE complete_claimed_document_render(w)
  <2>1. items' \in [Renderer -> Item]
    <3>1. CASE items' = [items EXCEPT ![w] = Free]
      BY <3>1, FreedType
    <3>2. CASE items' = [items EXCEPT ![w].at = "lost"]
      BY <3>2 DEF RendersTypeOK, Item
    <3> QED BY <1>2, <3>1, <3>2 DEF complete_claimed_document_render
  <2>2. items[w].token \in Token /\ None \in Token
    BY RenderAssumption DEF RendersTypeOK, Item, Token, None
  <2>3. renders' \in [Render -> RenderRow]
    <3>1. \A r \in items[w].render :
            [renders[r] EXCEPT !.state = "completed", !.key = items[w].token,
                               !.token = None, !.lapsed = FALSE] \in RenderRow
      BY <1>0, <2>2 DEF RenderRow
    <3>2. PICK r \in items[w].render : renders' = renders \/ renders' = Completed(w, r)
      BY <1>2 DEF complete_claimed_document_render
    <3>3. Completed(w, r) \in [Render -> RenderRow]
      BY <1>0, <3>1 DEF RendersTypeOK, Completed
    <3> QED BY <3>2, <3>3 DEF RendersTypeOK
  <2>4. unsure' \subseteq Render
    BY <1>0, <1>2 DEF RendersTypeOK, complete_claimed_document_render
  <2>5. troubles' \in 0..RenderFaults
    BY <1>2, TroubleType DEF complete_claimed_document_render
  <2> QED
    BY <1>2, <2>1, <2>3, <2>4, <2>5 DEF RendersTypeOK, complete_claimed_document_render
<1>3. CASE DiscardArtifact(w)
  <2>1. items' \in [Renderer -> Item]
    <3>1. [items[w] EXCEPT !.at = "fail", !.retryable = TRUE] \in Item
      BY DEF RendersTypeOK, Item
    <3> QED BY <1>3, <3>1 DEF RendersTypeOK, DiscardArtifact
  <2>2. objects' \subseteq Render \X Token
    BY <1>3 DEF RendersTypeOK, DiscardArtifact
  <2>3. troubles' \in 0..RenderFaults
    BY <1>3, TroubleType DEF DiscardArtifact
  <2> QED BY <1>3, <2>1, <2>2, <2>3 DEF RendersTypeOK, DiscardArtifact
<1>4. CASE fail_claimed_document_render(w)
  <2>1. None \in Token
    BY RenderAssumption DEF Token, None
  <2>2. renders' \in [Render -> RenderRow]
    <3>1. \A r \in items[w].render, s \in {"registered", "failed_terminal"} :
            [renders[r] EXCEPT !.state = s, !.token = None, !.lapsed = FALSE] \in RenderRow
      BY <1>0, <2>1 DEF RenderRow
    <3>2. PICK r \in items[w].render, s \in {"registered", "failed_terminal"} :
            \/ renders' = renders
            \/ renders' = [renders EXCEPT ![r] =
                 [renders[r] EXCEPT !.state = s, !.token = None, !.lapsed = FALSE]]
      BY <1>4 DEF fail_claimed_document_render
    <3>3. [renders[r] EXCEPT !.state = s, !.token = None, !.lapsed = FALSE] \in RenderRow
      BY <3>1
    <3> QED BY <1>0, <3>2, <3>3 DEF RendersTypeOK
  <2> QED BY <1>4, <2>2, FreedType DEF RendersTypeOK, fail_claimed_document_render
<1>5. CASE delete_expired_object(w)
  <2>1. items' \in [Renderer -> Item]
    <3>1. CASE items' = [items EXCEPT ![w] = Free]
      BY <3>1, FreedType
    <3>2. CASE items' = [items EXCEPT ![w].at = "finish"]
      BY <3>2 DEF RendersTypeOK, Item
    <3> QED BY <1>5, <3>1, <3>2 DEF delete_expired_object
  <2>2. objects' \subseteq Render \X Token
    BY <1>5 DEF RendersTypeOK, delete_expired_object
  <2>3. troubles' \in 0..RenderFaults
    BY <1>5, TroubleType DEF delete_expired_object
  <2> QED BY <1>5, <2>1, <2>2, <2>3 DEF RendersTypeOK, delete_expired_object
<1>6. CASE complete_document_artifact_expiry(w)
  <2>1. None \in Token
    BY RenderAssumption DEF Token, None
  <2>2. renders' \in [Render -> RenderRow]
    <3>1. \A r \in items[w].render :
            [renders[r] EXCEPT !.state = "expired", !.key = None, !.token = None,
                               !.lapsed = FALSE] \in RenderRow
      BY <1>0, <2>1 DEF RenderRow
    <3>2. PICK r \in items[w].render :
            \/ renders' = renders
            \/ renders' = [renders EXCEPT ![r] =
                 [renders[r] EXCEPT !.state = "expired", !.key = None, !.token = None,
                                    !.lapsed = FALSE]]
      BY <1>6 DEF complete_document_artifact_expiry
    <3> QED BY <1>0, <3>1, <3>2 DEF RendersTypeOK
  <2> QED BY <1>6, <2>2, FreedType DEF RendersTypeOK, complete_document_artifact_expiry
<1>7. CASE WorkerStops(w)
  BY <1>7, FreedType, TroubleType DEF RendersTypeOK, WorkerStops
<1> QED BY <1>1, <1>2, <1>3, <1>4, <1>5, <1>6, <1>7 DEF RenderStep

LEMMA PreviewTypes ==
  ASSUME RendersTypeOK, NEW r \in Render, UNCHANGED demand,
         \/ create_document_preview(r) \/ PreviewLapses(r)
         \/ get_document_preview(r) \/ cancel_document_preview(r)
  PROVE  RendersTypeOK'
<1>1. CASE create_document_preview(r)
  BY <1>1 DEF RendersTypeOK, create_document_preview, PreviewRow
<1>2. CASE PreviewLapses(r)
  BY <1>2 DEF RendersTypeOK, PreviewLapses, PreviewRow
<1>3. CASE get_document_preview(r)
  BY <1>3 DEF RendersTypeOK, get_document_preview, PreviewRow
<1>4. CASE cancel_document_preview(r)
  BY <1>4 DEF RendersTypeOK, cancel_document_preview, PreviewRow
<1> QED BY <1>1, <1>2, <1>3, <1>4

LEMMA RequestTypes ==
  ASSUME RendersTypeOK, NEW r \in Render, NEW k \in Client, UNCHANGED demand,
         begin_document_preview_approval(k, r) \/ PrintDirectly(k, r)
  PROVE  RendersTypeOK'
<1>1. CASE begin_document_preview_approval(k, r)
  <2>1. previews' \in [Render -> PreviewRow]
    BY <1>1 DEF RendersTypeOK, begin_document_preview_approval, PreviewRow
  <2>2. callers' \in [Client -> Call]
    BY <1>1, ConstantTypes DEF RendersTypeOK, begin_document_preview_approval, Call
  <2> QED BY <1>1, <2>1, <2>2 DEF RendersTypeOK, begin_document_preview_approval
<1>2. CASE PrintDirectly(k, r)
  <2>1. callers' \in [Client -> Call]
    BY <1>2, ConstantTypes DEF RendersTypeOK, PrintDirectly, Call
  <2> QED BY <1>2, <2>1 DEF RendersTypeOK, PrintDirectly
<1> QED BY <1>1, <1>2

LEMMA CallTypes ==
  ASSUME RendersTypeOK, NEW k \in Client, UNCHANGED demand,
         \/ CallStep(k) \/ RequestStops(k) \/ JobIsFinal(k) \/ RetentionLapses(k)
  PROVE  RendersTypeOK'
<1>0. /\ callers[k] \in Call /\ Quiet \in Call
      /\ \A r \in callers[k].render : r \in Render /\ renders[r] \in RenderRow
  BY ConstantTypes DEF RendersTypeOK, Call
<1>1. CASE print_render(k)
  <2>1. \A r \in callers[k].render :
          [callers[k] EXCEPT !.at = "acquire", !.key = renders[r].key] \in Call
    BY <1>0 DEF Call, RenderRow
  <2>2. callers' \in [Client -> Call]
    BY <1>0, <1>1, <2>1 DEF RendersTypeOK, print_render
  <2> QED BY <1>1, <2>2 DEF RendersTypeOK, print_render
<1>2. CASE acquire_document_artifact_upload(k)
  <2>1. [callers[k] EXCEPT !.at = "create"] \in Call
    BY <1>0 DEF Call
  <2>2. callers' \in [Client -> Call]
    BY <1>0, <1>2, <2>1 DEF RendersTypeOK, acquire_document_artifact_upload
  <2> QED BY <1>2, <2>2 DEF RendersTypeOK, acquire_document_artifact_upload
<1>3. CASE create_cloud_job(k)
  <2>1. callers' \in [Client -> Call]
    <3>1. CASE callers' = [callers EXCEPT ![k] = Quiet]
      BY <3>1, QuietType
    <3>2. CASE callers' = [callers EXCEPT ![k].at = "complete"]
      BY <3>2 DEF RendersTypeOK, Call
    <3> QED BY <1>3, <3>1, <3>2 DEF create_cloud_job
  <2>2. \A r \in callers[k].render :
          [state |-> "live", render |-> {r}, key |-> callers[k].key,
           gated |-> callers[k].gated, retained |-> TRUE] \in PrintJob
    BY <1>0 DEF Call, PrintJob
  <2>3. printJobs' \in [Client -> PrintJob]
    BY <1>3, <2>2 DEF RendersTypeOK, create_cloud_job
  <2>4. renders' \in [Render -> RenderRow]
    <3>1. \A r \in callers[k].render : [renders[r] EXCEPT !.stale = FALSE] \in RenderRow
      BY <1>0 DEF RenderRow
    <3>2. PICK r \in callers[k].render :
            renders' = renders \/ renders' = [renders EXCEPT ![r].stale = FALSE]
      BY <1>3 DEF create_cloud_job
    <3> QED BY <1>0, <3>1, <3>2 DEF RendersTypeOK
  <2> QED BY <1>3, <2>1, <2>3, <2>4 DEF RendersTypeOK, create_cloud_job
<1>4. CASE complete_document_preview_approval(k)
  <2>1. previews' \in [Render -> PreviewRow]
    BY <1>0, <1>4 DEF RendersTypeOK, complete_document_preview_approval, PreviewRow
  <2> QED BY <1>4, <2>1, QuietType DEF RendersTypeOK, complete_document_preview_approval
<1>5. CASE RequestStops(k)
  BY <1>5, QuietType, TroubleType DEF RendersTypeOK, RequestStops
<1>6. CASE JobIsFinal(k)
  BY <1>6 DEF RendersTypeOK, JobIsFinal, PrintJob
<1>7. CASE RetentionLapses(k)
  BY <1>7 DEF RendersTypeOK, RetentionLapses, PrintJob
<1> QED BY <1>1, <1>2, <1>3, <1>4, <1>5, <1>6, <1>7 DEF CallStep

(***************************************************************************)
(* The leases: what a step does to the rows, the items and the objects.    *)
(***************************************************************************)
\* The types the arguments about leases need.
LEMMA LeaseTypes ==
  ASSUME RendersTypeOK
  PROVE  /\ \A r \in Render : /\ renders[r].attempt \in Nat /\ renders[r].sweeps \in Nat
                              /\ renders[r].token \in Nat /\ renders[r].key \in Nat
                              /\ Drawn(r) \in Nat
         /\ \A w \in Renderer : items[w].token \in Nat /\ items[w].render \subseteq Render
BY RenderAssumption DEF RendersTypeOK, RenderRow, Item, Token, Drawn

\* A claim to render draws a lease nobody holds and nobody has named.
LEMMA ClaimKeepsLeases ==
  ASSUME RendersTypeOK, LeaseInv, NEW w \in Renderer, NEW r \in Render,
         claim_document_renders(w, r)
  PROVE  LeaseInv'
<1> DEFINE t == Drawn(r) + 1
<1>1. /\ items[w].at = "idle" /\ renders[r].state \in {"registered", "rendering"}
      /\ UNCHANGED <<objects, unsure>>
  BY DEF claim_document_renders
<1>2. /\ \A q \in Render : q # r => renders'[q] = renders[q]
      /\ renders'[r].state = "rendering" /\ renders'[r].attempt = renders[r].attempt + 1
      /\ renders'[r].sweeps = renders[r].sweeps /\ renders'[r].token = t
      /\ renders'[r].key = renders[r].key
  BY DEF claim_document_renders, RendersTypeOK, RenderRow, Draw, Drawn
<1>3. /\ \A v \in Renderer : v # w => items'[v] = items[v]
      /\ items'[w].at = "render" /\ items'[w].render = {r} /\ items'[w].token = t
  BY DEF claim_document_renders, RendersTypeOK, Item, Free, Draw, Drawn
<1>4. /\ t \in Nat /\ t >= 1 /\ Drawn(r)' = t
      /\ \A q \in Render : q # r => Drawn(q)' = Drawn(q)
  BY <1>2, LeaseTypes DEF Drawn
<1>5. /\ t > renders[r].key
      /\ \A v \in Renderer : r \in items[v].render => items[v].token < t
  BY LeaseTypes DEF LeaseInv, RowsAreDrawn, ItemsAreClaims
<1>6. items[w].render = {}
  BY <1>1 DEF LeaseInv, ItemsAreClaims
<1> HIDE DEF t
<1>7. ItemsAreClaims'
  BY <1>2, <1>3, <1>4, <1>5, LeaseTypes DEF LeaseInv, ItemsAreClaims
<1>8. LeaseIsUnique'
  BY <1>3, <1>5, LeaseTypes DEF LeaseInv, LeaseIsUnique
<1>9. RowsAreDrawn'
  BY <1>2, <1>4, <1>5, LeaseTypes DEF LeaseInv, RowsAreDrawn
<1>10. HoldersAreApart'
  BY <1>1, <1>2, <1>3, <1>4, <1>5, LeaseTypes DEF LeaseInv, HoldersAreApart, RenderPhase
<1>11. StoredIsThere'
  BY <1>1, <1>2, <1>3, LeaseTypes DEF LeaseInv, StoredIsThere
<1>12. CompletedHasArtifact'
  BY <1>1, <1>2 DEF LeaseInv, CompletedHasArtifact
<1> QED BY <1>7, <1>8, <1>9, <1>10, <1>11, <1>12 DEF LeaseInv

\* A claim to expire takes the row out of publication.
LEMMA SweepKeepsLeases ==
  ASSUME RendersTypeOK, LeaseInv, NEW w \in Renderer, NEW r \in Render,
         claim_expired_document_artifacts(w, r)
  PROVE  LeaseInv'
<1> DEFINE t == Drawn(r) + 1
<1>1. items[w].at = "idle" /\ UNCHANGED <<objects, unsure>>
  BY DEF claim_expired_document_artifacts
<1>2. /\ \A q \in Render : q # r => renders'[q] = renders[q]
      /\ renders'[r].state = "expiring" /\ renders'[r].attempt = renders[r].attempt
      /\ renders'[r].sweeps = renders[r].sweeps + 1 /\ renders'[r].token = t
      /\ renders'[r].key = renders[r].key
  BY DEF claim_expired_document_artifacts, RendersTypeOK, RenderRow, Draw, Drawn
<1>3. /\ \A v \in Renderer : v # w => items'[v] = items[v]
      /\ items'[w].at = "delete" /\ items'[w].render = {r} /\ items'[w].token = t
  BY DEF claim_expired_document_artifacts, RendersTypeOK, Item, Free, Draw, Drawn
<1>4. /\ t \in Nat /\ t >= 1 /\ Drawn(r)' = t
      /\ \A q \in Render : q # r => Drawn(q)' = Drawn(q)
  BY <1>2, LeaseTypes DEF Drawn
<1>5. /\ t > renders[r].key
      /\ \A v \in Renderer : r \in items[v].render => items[v].token < t
  BY LeaseTypes DEF LeaseInv, RowsAreDrawn, ItemsAreClaims
<1> HIDE DEF t
<1>6. ItemsAreClaims'
  BY <1>2, <1>3, <1>4, <1>5, LeaseTypes DEF LeaseInv, ItemsAreClaims
<1>7. LeaseIsUnique'
  BY <1>3, <1>5, LeaseTypes DEF LeaseInv, LeaseIsUnique
<1>8. RowsAreDrawn'
  BY <1>2, <1>4, <1>5, LeaseTypes DEF LeaseInv, RowsAreDrawn
<1>9. HoldersAreApart'
  BY <1>1, <1>2, <1>3, <1>4, <1>5, LeaseTypes DEF LeaseInv, HoldersAreApart, RenderPhase
<1>10. StoredIsThere'
  BY <1>1, <1>2, <1>3, LeaseTypes DEF LeaseInv, StoredIsThere
<1>11. CompletedHasArtifact'
  BY <1>1, <1>2 DEF LeaseInv, CompletedHasArtifact
<1> QED BY <1>6, <1>7, <1>8, <1>9, <1>10, <1>11 DEF LeaseInv

\* What a step that draws no lease leaves alone.
Undrawn ==
  \A q \in Render : renders'[q].attempt = renders[q].attempt
                    /\ renders'[q].sweeps = renders[q].sweeps

\* A worker keeps its render and its lease, or lays both down; the others
\* keep what they hold.
Moved(w) ==
  /\ \A v \in Renderer : v # w => items'[v] = items[v]
  /\ \/ items'[w].render = {}
     \/ /\ items'[w].render = items[w].render /\ items'[w].token = items[w].token
        /\ items'[w].at # "idle"

\* Such a step leaves every claim a claim, and the leases unique.
LEMMA MovedKeepsClaims ==
  ASSUME RendersTypeOK, LeaseInv, NEW w \in Renderer, Moved(w), Undrawn
  PROVE  /\ ItemsAreClaims' /\ LeaseIsUnique'
         /\ \A q \in Render : Drawn(q)' = Drawn(q)
<1>1. \A q \in Render : Drawn(q)' = Drawn(q)
  BY DEF Undrawn, Drawn
<1>2. ItemsAreClaims'
  BY <1>1, LeaseTypes DEF LeaseInv, ItemsAreClaims, Moved
<1>3. LeaseIsUnique'
  BY LeaseTypes DEF LeaseInv, LeaseIsUnique, Moved
<1> QED BY <1>1, <1>2, <1>3

\* Laying an item down: the one lemma for stops and failed deletions.
LEMMA FreedKeepsLeases ==
  ASSUME RendersTypeOK, LeaseInv, NEW w \in Renderer, UNCHANGED <<renders, objects, unsure>>,
         items' = [items EXCEPT ![w] = Free]
  PROVE  LeaseInv'
<1>1. Moved(w) /\ items'[w].render = {} /\ Undrawn
  BY DEF Moved, RendersTypeOK, Free, Undrawn
<1>2. ItemsAreClaims' /\ LeaseIsUnique' /\ \A q \in Render : Drawn(q)' = Drawn(q)
  BY <1>1, MovedKeepsClaims
<1> QED
  BY <1>1, <1>2
     DEF LeaseInv, RowsAreDrawn, HoldersAreApart, StoredIsThere, CompletedHasArtifact, Moved

\* The rendering steps of a worker.
LEMMA RenderKeepsLeases ==
  ASSUME RendersTypeOK, LeaseInv, NEW w \in Renderer,
         render_and_complete(w) \/ DiscardArtifact(w)
  PROVE  LeaseInv'
<1>0. PICK r \in items[w].render, b \in BOOLEAN :
        /\ items[w].at \in {"render", "lost"} /\ UNCHANGED <<renders, unsure>>
        /\ \/ /\ items' = [items EXCEPT ![w].at = "store"]
              /\ objects' = objects \cup {<<r, items[w].token>>}
           \/ /\ items' = [items EXCEPT ![w] =
                   [items[w] EXCEPT !.at = "fail", !.retryable = b]]
              /\ objects' \in {objects, objects \cup {<<r, items[w].token>>},
                               objects \ {<<r, items[w].token>>}}
  <2>1. CASE render_and_complete(w)
    BY <2>1 DEF render_and_complete, render_artifact_object_key
  <2>2. CASE DiscardArtifact(w)
    BY <2>2 DEF DiscardArtifact, render_artifact_object_key
  <2> QED BY <2>1, <2>2
<1>1. /\ items[w].at \in {"render", "lost"} /\ UNCHANGED <<renders, unsure>>
      /\ Moved(w) /\ items'[w].at \in {"store", "fail"}
      /\ items'[w].render = items[w].render /\ items'[w].token = items[w].token
      /\ objects' \in {objects, objects \cup {<<r, items[w].token>>},
                       objects \ {<<r, items[w].token>>}}
      /\ items'[w].at = "store" => <<r, items[w].token>> \in objects'
  <2>1. CASE items' = [items EXCEPT ![w].at = "store"]
    BY <1>0, <2>1 DEF Moved, RendersTypeOK, Item
  <2>2. CASE items' = [items EXCEPT ![w] = [items[w] EXCEPT !.at = "fail", !.retryable = b]]
    BY <1>0, <2>2 DEF Moved, RendersTypeOK, Item
  <2> QED BY <1>0, <2>1, <2>2
<1>2. \A q \in items[w].render : q = r
  BY <1>1 DEF LeaseInv, ItemsAreClaims
<1>3. Undrawn
  BY <1>1 DEF Undrawn
<1>4. ItemsAreClaims' /\ LeaseIsUnique' /\ \A q \in Render : Drawn(q)' = Drawn(q)
  BY <1>1, <1>3, MovedKeepsClaims
<1>5. RowsAreDrawn'
  BY <1>1, <1>4 DEF LeaseInv, RowsAreDrawn
<1>6. HoldersAreApart'
  BY <1>1 DEF LeaseInv, HoldersAreApart, Moved, RenderPhase
<1>7. StoredIsThere'
  <2> SUFFICES ASSUME NEW v \in Renderer, NEW q \in items'[v].render,
                      items'[v].at = "store", renders'[q].state \notin {"expiring", "expired"}
               PROVE  <<q, items'[v].token>> \in objects'
    BY DEF StoredIsThere
  <2>1. CASE v = w
    BY <1>1, <1>2, <2>1
  <2>2. CASE v # w
    <3>1. items'[v] = items[v]
      BY <1>1, <2>2 DEF Moved
    <3>2. <<q, items[v].token>> \in objects
      BY <1>1, <3>1 DEF LeaseInv, StoredIsThere
    <3>3. <<q, items[v].token>> # <<r, items[w].token>>
      BY <1>1, <2>2, <3>1 DEF LeaseInv, LeaseIsUnique
    <3> QED BY <1>1, <3>1, <3>2, <3>3
  <2> QED BY <2>1, <2>2
<1>8. renders[r].key # items[w].token \/ r \in unsure
  BY <1>1 DEF LeaseInv, HoldersAreApart, RenderPhase
<1>9. CompletedHasArtifact'
  BY <1>1, <1>8 DEF LeaseInv, CompletedHasArtifact
<1> QED BY <1>4, <1>5, <1>6, <1>7, <1>9 DEF LeaseInv

\* The publication of an artifact, or an error: the loss of the lease, a failed
\* statement, or a publication that is not known to have happened.
LEMMA CompleteKeepsLeases ==
  ASSUME RendersTypeOK, LeaseInv, NEW w \in Renderer, complete_claimed_document_render(w)
  PROVE  LeaseInv'
<1>1. PICK r \in items[w].render :
        /\ items[w].at = "store" /\ UNCHANGED objects
        /\ \/ /\ renders[r].state = "rendering"
              /\ renders' = [renders EXCEPT ![r] =
                   [renders[r] EXCEPT !.state = "completed", !.key = items[w].token,
                                      !.token = None, !.lapsed = FALSE]]
              /\ \/ items' = [items EXCEPT ![w] = Free] /\ unsure' = unsure
                 \/ items' = [items EXCEPT ![w].at = "lost"] /\ unsure' = unsure \cup {r}
           \/ items' = [items EXCEPT ![w].at = "lost"] /\ UNCHANGED <<renders, unsure>>
  BY DEF complete_claimed_document_render, Completable, Completed
<1>2. r \in Render
  BY LeaseTypes
<1>3. CASE items' = [items EXCEPT ![w].at = "lost"] /\ UNCHANGED <<renders, unsure>>
  <2>1. /\ Moved(w) /\ Undrawn /\ items'[w].at = "lost"
        /\ items'[w].render = items[w].render /\ items'[w].token = items[w].token
    BY <1>3 DEF Moved, Undrawn, RendersTypeOK, Item
  <2>2. ItemsAreClaims' /\ LeaseIsUnique' /\ \A q \in Render : Drawn(q)' = Drawn(q)
    BY <2>1, MovedKeepsClaims
  <2> QED
    BY <1>1, <1>3, <2>1, <2>2
       DEF LeaseInv, RowsAreDrawn, HoldersAreApart, RenderPhase, StoredIsThere,
           CompletedHasArtifact, Moved
<1>4. CASE /\ renders[r].state = "rendering"
           /\ renders' = [renders EXCEPT ![r] =
                [renders[r] EXCEPT !.state = "completed", !.key = items[w].token,
                                   !.token = None, !.lapsed = FALSE]]
           /\ \/ items' = [items EXCEPT ![w] = Free] /\ unsure' = unsure
              \/ items' = [items EXCEPT ![w].at = "lost"] /\ unsure' = unsure \cup {r}
  <2>1. /\ Moved(w) /\ unsure \subseteq unsure'
        /\ \/ items'[w].render = {}
           \/ items'[w].at = "lost" /\ items'[w].render = items[w].render
              /\ items'[w].token = items[w].token /\ r \in unsure'
    <3>1. CASE items' = [items EXCEPT ![w] = Free] /\ unsure' = unsure
      BY <3>1 DEF Moved, RendersTypeOK, Free
    <3>2. CASE items' = [items EXCEPT ![w].at = "lost"] /\ unsure' = unsure \cup {r}
      BY <3>2 DEF Moved, RendersTypeOK, Item
    <3> QED BY <1>4, <3>1, <3>2
  <2>2. /\ \A q \in Render : q # r => renders'[q] = renders[q]
        /\ renders'[r].state = "completed" /\ renders'[r].key = items[w].token
        /\ renders'[r].token = 0 /\ renders'[r].attempt = renders[r].attempt
        /\ renders'[r].sweeps = renders[r].sweeps
    BY <1>2, <1>4 DEF RendersTypeOK, RenderRow, None
  <2>3. Undrawn
    BY <2>2 DEF Undrawn
  <2>4. ItemsAreClaims' /\ LeaseIsUnique' /\ \A q \in Render : Drawn(q)' = Drawn(q)
    BY <2>1, <2>3, MovedKeepsClaims
  <2>5. /\ items[w].token <= Drawn(r) /\ <<r, items[w].token>> \in objects
        /\ \A q \in items[w].render : q = r
        /\ \A v \in Renderer : r \in items[v].render =>
             /\ items[v].token >= 1 /\ items[v].at \in RenderPhase
             /\ v # w => items[v].token # items[w].token
    BY <1>1, <1>2, <1>4
       DEF LeaseInv, ItemsAreClaims, StoredIsThere, LeaseIsUnique, HoldersAreApart
  <2>6. RowsAreDrawn'
    BY <2>2, <2>4, <2>5, LeaseTypes DEF LeaseInv, RowsAreDrawn, None
  <2>7. HoldersAreApart'
    <3> SUFFICES ASSUME NEW v \in Renderer, NEW q \in items'[v].render
                 PROVE  /\ items'[v].at \in RenderPhase =>
                             /\ q \in unsure' \/ items'[v].token # renders'[q].key
                             /\ items'[v].token = renders'[q].token
                                  => renders'[q].state = "rendering"
                        /\ items'[v].at \notin RenderPhase =>
                             renders'[q].state \in {"expiring", "expired"}
      BY DEF HoldersAreApart
    <3>1. CASE v = w
      BY <2>1, <2>2, <2>5, <3>1, LeaseTypes DEF RenderPhase
    <3>2. CASE v # w
      BY <2>1, <2>2, <2>5, <3>2, LeaseTypes DEF LeaseInv, HoldersAreApart, Moved
    <3> QED BY <3>1, <3>2
  <2>8. StoredIsThere'
    BY <1>1, <1>4, <2>1, <2>2, LeaseTypes DEF LeaseInv, StoredIsThere, Moved
  <2>9. CompletedHasArtifact'
    BY <1>1, <2>1, <2>2, <2>5 DEF LeaseInv, CompletedHasArtifact
  <2> QED BY <2>4, <2>6, <2>7, <2>8, <2>9 DEF LeaseInv
<1> QED BY <1>1, <1>3, <1>4

\* A failed attempt: only the holder of the row's lease gives the row back.
LEMMA FailKeepsLeases ==
  ASSUME RendersTypeOK, LeaseInv, NEW w \in Renderer, fail_claimed_document_render(w)
  PROVE  LeaseInv'
<1>1. PICK r \in items[w].render, s \in {"registered", "failed_terminal"} :
        /\ items[w].at = "fail" /\ UNCHANGED <<objects, unsure>>
        /\ \/ renders' = renders
           \/ /\ renders[r].token = items[w].token
              /\ renders' = [renders EXCEPT ![r] =
                   [renders[r] EXCEPT !.state = s, !.token = None, !.lapsed = FALSE]]
        /\ items' = [items EXCEPT ![w] = Free]
  BY DEF fail_claimed_document_render
<1>2. r \in Render
  BY LeaseTypes
<1>3. CASE renders' = renders
  BY <1>1, <1>3, FreedKeepsLeases
<1>4. CASE /\ renders[r].token = items[w].token
           /\ renders' = [renders EXCEPT ![r] =
                [renders[r] EXCEPT !.state = s, !.token = None, !.lapsed = FALSE]]
  <2>1. Moved(w) /\ items'[w].render = {}
    BY <1>1 DEF Moved, RendersTypeOK, Free
  <2>2. /\ \A q \in Render : q # r => renders'[q] = renders[q]
        /\ renders'[r].state = s /\ renders'[r].key = renders[r].key
        /\ renders'[r].token = 0 /\ renders'[r].attempt = renders[r].attempt
        /\ renders'[r].sweeps = renders[r].sweeps
    BY <1>2, <1>4 DEF RendersTypeOK, RenderRow, None
  <2>3. Undrawn
    BY <2>2 DEF Undrawn
  <2>4. ItemsAreClaims' /\ LeaseIsUnique' /\ \A q \in Render : Drawn(q)' = Drawn(q)
    BY <2>1, <2>3, MovedKeepsClaims
  <2>5. /\ renders[r].state = "rendering" /\ Drawn(r) >= 0
        /\ \A v \in Renderer : r \in items[v].render =>
             items[v].token >= 1 /\ items[v].at \in RenderPhase
    BY <1>1, <1>4, LeaseTypes DEF LeaseInv, ItemsAreClaims, HoldersAreApart, RenderPhase
  <2>6. RowsAreDrawn'
    BY <2>2, <2>4, <2>5, LeaseTypes DEF LeaseInv, RowsAreDrawn, None
  <2>7. HoldersAreApart'
    BY <1>1, <2>1, <2>2, <2>5, LeaseTypes DEF LeaseInv, HoldersAreApart, Moved
  <2>8. StoredIsThere'
    BY <1>1, <2>1, <2>2, <2>5, LeaseTypes DEF LeaseInv, StoredIsThere, Moved
  <2>9. CompletedHasArtifact'
    BY <1>1, <2>2 DEF LeaseInv, CompletedHasArtifact
  <2> QED BY <2>4, <2>6, <2>7, <2>8, <2>9 DEF LeaseInv
<1> QED BY <1>1, <1>3, <1>4

\* The deletion of an expired artifact, and its record.
LEMMA ExpiryKeepsLeases ==
  ASSUME RendersTypeOK, LeaseInv, NEW w \in Renderer,
         delete_expired_object(w) \/ complete_document_artifact_expiry(w)
  PROVE  LeaseInv'
<1>1. CASE delete_expired_object(w)
  <2>1. PICK r \in items[w].render :
          /\ items[w].at = "delete" /\ UNCHANGED <<renders, unsure>>
          /\ \/ /\ objects' = objects \ {<<r, items[w].key>>}
                /\ items' = [items EXCEPT ![w].at = "finish"]
             \/ items' = [items EXCEPT ![w] = Free] /\ UNCHANGED <<objects, unsure>>
    BY <1>1 DEF delete_expired_object
  <2>2. CASE items' = [items EXCEPT ![w] = Free] /\ UNCHANGED <<objects, unsure>>
    BY <2>1, <2>2, FreedKeepsLeases
  <2>3. CASE /\ objects' = objects \ {<<r, items[w].key>>}
             /\ items' = [items EXCEPT ![w].at = "finish"]
    <3>1. /\ Moved(w) /\ Undrawn /\ items'[w].at = "finish"
          /\ items'[w].render = items[w].render /\ items'[w].token = items[w].token
      BY <2>1, <2>3 DEF Moved, Undrawn, RendersTypeOK, Item
    <3>2. ItemsAreClaims' /\ LeaseIsUnique' /\ \A q \in Render : Drawn(q)' = Drawn(q)
      BY <3>1, MovedKeepsClaims
    <3>3. renders[r].state \in {"expiring", "expired"}
      BY <2>1 DEF LeaseInv, HoldersAreApart, RenderPhase
    <3>4. RowsAreDrawn' /\ HoldersAreApart'
      BY <2>1, <3>1, <3>2 DEF LeaseInv, RowsAreDrawn, HoldersAreApart, RenderPhase, Moved
    <3>5. StoredIsThere'
      BY <2>1, <2>3, <3>1, <3>3 DEF LeaseInv, StoredIsThere, Moved
    <3>6. CompletedHasArtifact'
      BY <2>1, <2>3, <3>3 DEF LeaseInv, CompletedHasArtifact
    <3> QED BY <3>2, <3>4, <3>5, <3>6 DEF LeaseInv
  <2> QED BY <2>1, <2>2, <2>3
<1>2. CASE complete_document_artifact_expiry(w)
  <2>1. PICK r \in items[w].render :
          /\ items[w].at = "finish" /\ UNCHANGED <<objects, unsure>>
          /\ items' = [items EXCEPT ![w] = Free]
          /\ \/ renders' = renders
             \/ renders' = [renders EXCEPT ![r] =
                  [renders[r] EXCEPT !.state = "expired", !.key = None, !.token = None,
                                     !.lapsed = FALSE]]
    BY <1>2 DEF complete_document_artifact_expiry
  <2>2. r \in Render
    BY LeaseTypes
  <2>3. CASE renders' = renders
    BY <2>1, <2>3, FreedKeepsLeases
  <2>4. CASE renders' = [renders EXCEPT ![r] =
               [renders[r] EXCEPT !.state = "expired", !.key = None, !.token = None,
                                  !.lapsed = FALSE]]
    <3>1. Moved(w) /\ items'[w].render = {}
      BY <2>1 DEF Moved, RendersTypeOK, Free
    <3>2. /\ \A q \in Render : q # r => renders'[q] = renders[q]
          /\ renders'[r].state = "expired" /\ renders'[r].key = 0
          /\ renders'[r].token = 0 /\ renders'[r].attempt = renders[r].attempt
          /\ renders'[r].sweeps = renders[r].sweeps
      BY <2>2, <2>4 DEF RendersTypeOK, RenderRow, None
    <3>3. Undrawn
      BY <3>2 DEF Undrawn
    <3>4. ItemsAreClaims' /\ LeaseIsUnique' /\ \A q \in Render : Drawn(q)' = Drawn(q)
      BY <3>1, <3>3, MovedKeepsClaims
    <3>5. \A v \in Renderer : r \in items[v].render => items[v].token >= 1
      BY DEF LeaseInv, ItemsAreClaims
    <3>6. RowsAreDrawn'
      BY <3>2, <3>4, LeaseTypes DEF LeaseInv, RowsAreDrawn, None
    <3>7. HoldersAreApart'
      BY <2>1, <3>1, <3>2, <3>5, LeaseTypes DEF LeaseInv, HoldersAreApart, Moved
    <3>8. StoredIsThere'
      BY <2>1, <3>1, <3>2, LeaseTypes DEF LeaseInv, StoredIsThere, Moved
    <3>9. CompletedHasArtifact'
      BY <2>1, <3>2 DEF LeaseInv, CompletedHasArtifact
    <3> QED BY <3>4, <3>6, <3>7, <3>8, <3>9 DEF LeaseInv
  <2> QED BY <2>1, <2>3, <2>4
<1> QED BY <1>1, <1>2

\* A row that is registered, or of which only times change, keeps the leases.
Timed ==
  \A q \in Render :
    /\ renders'[q].attempt = renders[q].attempt /\ renders'[q].sweeps = renders[q].sweeps
    /\ renders'[q].token = renders[q].token /\ renders'[q].key = renders[q].key
    /\ \/ renders'[q].state = renders[q].state
       \/ renders[q].state = "none" /\ renders'[q].state = "registered"

LEMMA TimedKeepsLeases ==
  ASSUME RendersTypeOK, LeaseInv, Timed, UNCHANGED <<items, objects, unsure>>
  PROVE  LeaseInv'
<1>1. \A q \in Render : Drawn(q)' = Drawn(q)
  BY DEF Timed, Drawn
<1>2. ItemsAreClaims' /\ LeaseIsUnique' /\ RowsAreDrawn'
  BY <1>1, LeaseTypes DEF LeaseInv, ItemsAreClaims, LeaseIsUnique, RowsAreDrawn, Timed
<1>3. HoldersAreApart'
  BY LeaseTypes DEF LeaseInv, HoldersAreApart, Timed
<1>4. StoredIsThere'
  BY LeaseTypes DEF LeaseInv, StoredIsThere, Timed
<1>5. CompletedHasArtifact'
  BY DEF LeaseInv, CompletedHasArtifact, Timed
<1> QED BY <1>2, <1>3, <1>4, <1>5 DEF LeaseInv

(***************************************************************************)
(* The references of jobs, and the gate.                                   *)
(***************************************************************************)
Referenced(q) ==
  \E k \in Client : q \in printJobs[k].render /\ printJobs[k].state = "live"
                    /\ printJobs[k].retained

Public == {"completed", "expiring", "expired"}

\* A row that has been published is left alone, or expires without a reference.
Published ==
  \A q \in Render :
    \/ renders'[q].state = renders[q].state /\ renders'[q].key = renders[q].key
    \/ renders[q].state \notin Public
    \/ renders'[q].state \in {"expiring", "expired"}
       /\ (renders[q].state = "completed" => ~Referenced(q))

LEMMA PublishedKeepsJobs ==
  ASSUME RendersTypeOK, JobInv, Published, UNCHANGED <<printJobs, callers>>
  PROVE  JobInv'
<1>1. \A k \in Client : printJobs[k].render \subseteq Render /\ callers[k].render \subseteq Render
  BY DEF RendersTypeOK, PrintJob, Call
<1>2. ReferenceHolds'
  BY <1>1 DEF JobInv, ReferenceHolds, Published, Public, Referenced
<1>3. ReadIsCurrent'
  BY <1>1 DEF JobInv, ReadIsCurrent, Published, Public
<1> QED BY <1>2, <1>3 DEF JobInv

\* The steps of the queue and its workers publish and expire rows this way.
QueueStep ==
  \/ \E r \in Render : register_document_render(r) \/ LeaseLapses(r) \/ RenderLapses(r)
  \/ \E w \in Renderer, r \in Render :
       claim_document_renders(w, r) \/ claim_expired_document_artifacts(w, r)
  \/ \E w \in Renderer : RenderStep(w) \/ WorkerStops(w)

LEMMA QueuePublishes ==
  ASSUME RendersTypeOK, LeaseInv, QueueStep
  PROVE  Published /\ UNCHANGED <<printJobs, callers, previews>>
<1> USE DEF RendersTypeOK, RenderRow
<1>1. ASSUME NEW r \in Render, register_document_render(r)
      PROVE  Published /\ UNCHANGED <<printJobs, callers, previews>>
  BY <1>1 DEF register_document_render, Published, Public
<1>2. ASSUME NEW r \in Render, LeaseLapses(r)
      PROVE  Published /\ UNCHANGED <<printJobs, callers, previews>>
  BY <1>2 DEF LeaseLapses, Published
<1>3. ASSUME NEW r \in Render, RenderLapses(r)
      PROVE  Published /\ UNCHANGED <<printJobs, callers, previews>>
  BY <1>3 DEF RenderLapses, Published
<1>4. ASSUME NEW w \in Renderer, NEW r \in Render, claim_document_renders(w, r)
      PROVE  Published /\ UNCHANGED <<printJobs, callers, previews>>
  BY <1>4 DEF claim_document_renders, Published, Public
<1>5. ASSUME NEW w \in Renderer, NEW r \in Render, claim_expired_document_artifacts(w, r)
      PROVE  Published /\ UNCHANGED <<printJobs, callers, previews>>
  <2>1. ~Referenced(r)
    BY <1>5 DEF claim_expired_document_artifacts, Expirable, Referenced
  <2> QED
    BY <1>5, <2>1 DEF claim_expired_document_artifacts, Published
<1>6. ASSUME NEW w \in Renderer, WorkerStops(w)
      PROVE  Published /\ UNCHANGED <<printJobs, callers, previews>>
  BY <1>6 DEF WorkerStops, Published
<1>7. ASSUME NEW w \in Renderer,
             render_and_complete(w) \/ DiscardArtifact(w) \/ delete_expired_object(w)
      PROVE  Published /\ UNCHANGED <<printJobs, callers, previews>>
  BY <1>7 DEF render_and_complete, DiscardArtifact, delete_expired_object, Published
<1>8. ASSUME NEW w \in Renderer, complete_claimed_document_render(w)
      PROVE  Published /\ UNCHANGED <<printJobs, callers, previews>>
  BY <1>8, LeaseTypes DEF complete_claimed_document_render, Completable, Completed, Published, Public
<1>9. ASSUME NEW w \in Renderer, fail_claimed_document_render(w)
      PROVE  Published /\ UNCHANGED <<printJobs, callers, previews>>
  <2>1. PICK q \in items[w].render :
          /\ items[w].at = "fail" /\ UNCHANGED <<printJobs, callers, previews>>
          /\ \A p \in Render : p # q => renders'[p] = renders[p]
          /\ renders' = renders \/ renders[q].token = items[w].token
    BY <1>9 DEF fail_claimed_document_render
  <2>2. renders[q].token = items[w].token => renders[q].state = "rendering"
    BY <2>1 DEF LeaseInv, HoldersAreApart, RenderPhase
  <2> QED BY <2>1, <2>2, LeaseTypes DEF Published, Public
<1>10. ASSUME NEW w \in Renderer, complete_document_artifact_expiry(w)
      PROVE  Published /\ UNCHANGED <<printJobs, callers, previews>>
  BY <1>10, LeaseTypes DEF complete_document_artifact_expiry, Published, Public
<1> QED
  BY <1>1, <1>2, <1>3, <1>4, <1>5, <1>6, <1>7, <1>8, <1>9, <1>10 DEF QueueStep, RenderStep

\* Without a step of a caller or a preview, the gate stands as it stood.
LEMMA GateStands ==
  ASSUME GateInv, UNCHANGED <<printJobs, callers, previews>>
  PROVE  GateInv'
BY DEF GateInv, Opened

\* The steps of the queue and its workers.
LEMMA QueueKeeps ==
  ASSUME RendersTypeOK, RendersInv, QueueStep
  PROVE  RendersInv'
<1>1. JobInv' /\ GateInv'
  BY QueuePublishes, PublishedKeepsJobs, GateStands DEF RendersInv
<1>2. LeaseInv'
  <2> USE DEF RendersInv
  <2>1. ASSUME NEW r \in Render,
               register_document_render(r) \/ LeaseLapses(r) \/ RenderLapses(r)
        PROVE  LeaseInv'
    <3>1. Timed /\ UNCHANGED <<items, objects, unsure>>
      BY <2>1 DEF register_document_render, LeaseLapses, RenderLapses, Timed,
                  RendersTypeOK, RenderRow
    <3> QED BY <3>1, TimedKeepsLeases
  <2>2. ASSUME NEW w \in Renderer, WorkerStops(w)
        PROVE  LeaseInv'
    BY <2>2, FreedKeepsLeases DEF WorkerStops
  <2> QED
    BY <2>1, <2>2, ClaimKeepsLeases, SweepKeepsLeases, RenderKeepsLeases,
       CompleteKeepsLeases, FailKeepsLeases, ExpiryKeepsLeases DEF QueueStep, RenderStep
<1> QED BY <1>1, <1>2 DEF RendersInv

\* The steps of a preview: the gate opens to one key.
LEMMA PreviewKeeps ==
  ASSUME RendersTypeOK, RendersInv, NEW r \in Render,
         \/ create_document_preview(r) \/ PreviewLapses(r)
         \/ get_document_preview(r) \/ cancel_document_preview(r)
  PROVE  RendersInv'
<1>1. /\ UNCHANGED <<renders, objects, unsure, printJobs, items, callers>>
      /\ \A q \in Render :
           /\ previews'[q].by = previews[q].by
           /\ \/ previews'[q].state = previews[q].state
              \/ /\ previews[q].state \in {"none", "awaiting_approval"}
                 /\ previews'[q].state \in {"awaiting_approval", "expired", "cancelled"}
  BY DEF create_document_preview, PreviewLapses, get_document_preview,
         cancel_document_preview, RendersTypeOK, PreviewRow
<1>2. LeaseInv'
  BY <1>1, TimedKeepsLeases DEF RendersInv, Timed
<1>3. JobInv'
  BY <1>1, PublishedKeepsJobs DEF RendersInv, Published
<1>4. GateInv'
  <2>1. \A k \in Client : printJobs[k].render \subseteq Render /\ callers[k].render \subseteq Render
    BY DEF RendersTypeOK, PrintJob, Call
  <2> QED BY <1>1, <2>1 DEF RendersInv, GateInv, Opened
<1> QED BY <1>2, <1>3, <1>4 DEF RendersInv

\* The types the arguments about callers and jobs need.
LEMMA CallerTypes ==
  ASSUME RendersTypeOK
  PROVE  \A k \in Client : /\ printJobs[k].render \subseteq Render
                           /\ callers[k].render \subseteq Render
BY DEF RendersTypeOK, PrintJob, Call

\* An approval begins, or begins again.
LEMMA BeginKeeps ==
  ASSUME RendersTypeOK, RendersInv, NEW k \in Client, NEW r \in Render,
         begin_document_preview_approval(k, r)
  PROVE  RendersInv'
<1>1. /\ UNCHANGED <<renders, objects, unsure, printJobs, items>>
      /\ \A q \in Render : q # r => previews'[q] = previews[q]
      /\ \/ previews'[r] = previews[r] /\ Opened(k, r)
         \/ /\ previews[r].state = "awaiting_approval"
            /\ previews'[r].state = "approving" /\ previews'[r].by = {k}
  BY DEF begin_document_preview_approval, MayApprove, Opened, RendersTypeOK, PreviewRow
<1>2. /\ \A j \in Client : j # k => callers'[j] = callers[j]
      /\ callers'[k].at = "print" /\ callers'[k].render = {r}
  BY DEF begin_document_preview_approval, RendersTypeOK, Call, Quiet
<1>3. LeaseInv'
  BY <1>1, TimedKeepsLeases DEF RendersInv, Timed
<1>4. JobInv'
  BY <1>1, <1>2 DEF RendersInv, JobInv, ReferenceHolds, ReadIsCurrent
<1>5. \A q \in Render, j \in Client : Opened(j, q) => Opened(j, q)'
  BY <1>1 DEF Opened
<1>6. Opened(k, r)'
  BY <1>1 DEF Opened
<1>7. previews'[r].state = "approved" => previews'[r] = previews[r]
  BY <1>1
<1>8. GateInv'
  <2>1. \A j \in Client : \A q \in callers'[j].render :
          /\ \A p \in callers'[j].render : p = q
          /\ callers'[j].gated => Opened(j, q)'
          /\ callers'[j].at = "complete" => q \in printJobs'[j].render
    BY <1>1, <1>2, <1>5, <1>6, CallerTypes DEF RendersInv, GateInv
  <2>2. \A j \in Client : \A q \in printJobs'[j].render :
          printJobs'[j].state # "none" /\ (printJobs'[j].gated => Opened(j, q)')
    BY <1>1, <1>5, CallerTypes DEF RendersInv, GateInv
  <2>3. \A q \in Render : previews'[q].state = "approved" =>
          \A j \in previews'[q].by : q \in printJobs'[j].render
    BY <1>1, <1>7 DEF RendersInv, GateInv
  <2> QED BY <2>1, <2>2, <2>3 DEF GateInv
<1> QED BY <1>3, <1>4, <1>8 DEF RendersInv

\* A caller moves on, or gives up, without a change of jobs or previews.
LEMMA CallKeeps ==
  ASSUME RendersTypeOK, RendersInv, NEW k \in Client,
         UNCHANGED <<renders, objects, unsure, printJobs, items, previews>>,
         \A j \in Client : j # k => callers'[j] = callers[j],
         \/ callers'[k].render = {}
         \/ \E r \in Render :
              /\ callers'[k].render = {r} /\ callers'[k].at \in {"print", "acquire", "create", "complete"}
              /\ callers'[k].gated => Opened(k, r)
              /\ callers'[k].at \in {"acquire", "create"} =>
                   /\ renders[r].state = "completed" /\ callers'[k].key = renders[r].key
              /\ callers'[k].at = "complete" => r \in printJobs[k].render
  PROVE  RendersInv'
<1>1. LeaseInv'
  BY TimedKeepsLeases DEF RendersInv, Timed
<1>2. JobInv'
  BY DEF RendersInv, JobInv, ReferenceHolds, ReadIsCurrent
<1>3. GateInv'
  BY DEF RendersInv, GateInv, Opened
<1> QED BY <1>1, <1>2, <1>3 DEF RendersInv

\* A job is made under a row that is still published under the key read.
LEMMA CreateKeeps ==
  ASSUME RendersTypeOK, RendersInv, NEW k \in Client, create_cloud_job(k)
  PROVE  RendersInv'
<1>1. PICK r \in callers[k].render :
        /\ callers[k].at = "create" /\ UNCHANGED <<objects, unsure, previews, items>>
        /\ \/ /\ UNCHANGED <<renders, printJobs>>
              /\ \/ callers' = [callers EXCEPT ![k] = Quiet]
                 \/ /\ callers' = [callers EXCEPT ![k].at = "complete"]
                    /\ r \in printJobs[k].render
           \/ /\ printJobs[k].state = "none" /\ renders[r].state = "completed"
              /\ printJobs' = [printJobs EXCEPT ![k] =
                   [state |-> "live", render |-> {r}, key |-> callers[k].key,
                    gated |-> callers[k].gated, retained |-> TRUE]]
              /\ renders' = [renders EXCEPT ![r].stale = FALSE]
              /\ callers' = [callers EXCEPT ![k].at = "complete"]
  BY DEF create_cloud_job, register_document_artifact_job_reference
<1>2. /\ r \in Render /\ \A q \in callers[k].render : q = r
      /\ callers[k].gated => Opened(k, r)
  BY <1>1, CallerTypes DEF RendersInv, GateInv
<1>3. CASE UNCHANGED <<renders, printJobs>>
  <2>1. CASE callers' = [callers EXCEPT ![k] = Quiet]
    BY <1>1, <1>3, <2>1, CallKeeps DEF RendersTypeOK, Quiet
  <2>2. CASE callers' = [callers EXCEPT ![k].at = "complete"] /\ r \in printJobs[k].render
    <3>1. /\ callers'[k].render = {r} /\ callers'[k].at = "complete"
          /\ callers'[k].gated = callers[k].gated
          /\ \A j \in Client : j # k => callers'[j] = callers[j]
      BY <1>1, <1>2, <2>2 DEF RendersTypeOK, Call
    <3> QED BY <1>1, <1>2, <1>3, <2>2, <3>1, CallKeeps
  <2>3. CASE printJobs' = [printJobs EXCEPT ![k] =
               [state |-> "live", render |-> {r}, key |-> callers[k].key,
                gated |-> callers[k].gated, retained |-> TRUE]] /\ printJobs[k].state = "none"
    BY <1>3, <2>3 DEF RendersTypeOK
  <2> QED BY <1>1, <1>3, <2>1, <2>2, <2>3
<1>4. CASE /\ printJobs[k].state = "none" /\ renders[r].state = "completed"
           /\ printJobs' = [printJobs EXCEPT ![k] =
                [state |-> "live", render |-> {r}, key |-> callers[k].key,
                 gated |-> callers[k].gated, retained |-> TRUE]]
           /\ renders' = [renders EXCEPT ![r].stale = FALSE]
           /\ callers' = [callers EXCEPT ![k].at = "complete"]
  <2>1. /\ \A j \in Client : j # k => callers'[j] = callers[j] /\ printJobs'[j] = printJobs[j]
        /\ callers'[k].at = "complete" /\ callers'[k].render = {r}
        /\ callers'[k].gated = callers[k].gated
        /\ printJobs'[k].state = "live" /\ printJobs'[k].render = {r}
        /\ printJobs'[k].key = callers[k].key /\ printJobs'[k].gated = callers[k].gated
    BY <1>1, <1>2, <1>4 DEF RendersTypeOK, Call, PrintJob
  <2>2. Timed /\ \A q \in Render : renders'[q].state = renders[q].state
    BY <1>2, <1>4 DEF RendersTypeOK, RenderRow, Timed
  <2>3. callers[k].key = renders[r].key
    BY <1>1, <1>4 DEF RendersInv, JobInv, ReadIsCurrent
  <2>4. printJobs[k].render = {}
    BY <1>4 DEF RendersInv, GateInv
  <2>5. LeaseInv'
    BY <1>1, <2>2, TimedKeepsLeases DEF RendersInv
  <2>6. JobInv'
    BY <1>2, <1>4, <2>1, <2>2, <2>3, CallerTypes
       DEF RendersInv, JobInv, ReferenceHolds, ReadIsCurrent, Timed
  <2>7. \A j \in Client, q \in Render : Opened(j, q)' = Opened(j, q)
    BY <1>1 DEF Opened
  <2>8. GateInv'
    <3>1. \A j \in Client : \A q \in callers'[j].render :
            /\ \A p \in callers'[j].render : p = q
            /\ callers'[j].gated => Opened(j, q)'
            /\ callers'[j].at = "complete" => q \in printJobs'[j].render
      BY <1>2, <2>1, <2>7, CallerTypes DEF RendersInv, GateInv
    <3>2. \A j \in Client : \A q \in printJobs'[j].render :
            printJobs'[j].state # "none" /\ (printJobs'[j].gated => Opened(j, q)')
      BY <1>2, <2>1, <2>7, CallerTypes DEF RendersInv, GateInv
    <3>3. \A q \in Render : previews'[q].state = "approved" =>
            \A j \in previews'[q].by : q \in printJobs'[j].render
      <4>1. \A q \in Render : previews[q].by \subseteq Client
        BY DEF RendersTypeOK, PreviewRow
      <4> QED BY <1>1, <2>1, <2>4, <4>1 DEF RendersInv, GateInv
    <3> QED BY <3>1, <3>2, <3>3 DEF GateInv
  <2> QED BY <2>5, <2>6, <2>8 DEF RendersInv
<1> QED BY <1>1, <1>3, <1>4

\* The approval is recorded.
LEMMA ApproveKeeps ==
  ASSUME RendersTypeOK, RendersInv, NEW k \in Client, complete_document_preview_approval(k)
  PROVE  RendersInv'
<1>1. PICK r \in callers[k].render :
        /\ callers[k].at = "complete" /\ callers' = [callers EXCEPT ![k] = Quiet]
        /\ UNCHANGED <<renders, objects, unsure, printJobs, items>>
        /\ \/ previews' = previews
           \/ /\ previews[r].by = {k} /\ previews[r].state = "approving"
              /\ previews' = [previews EXCEPT ![r].state = "approved"]
  BY DEF complete_document_preview_approval
<1>2. r \in Render /\ r \in printJobs[k].render
  BY <1>1, CallerTypes DEF RendersInv, GateInv
<1>3. /\ callers'[k].render = {} /\ callers'[k].gated = FALSE
      /\ \A j \in Client : j # k => callers'[j] = callers[j]
  BY <1>1 DEF RendersTypeOK, Quiet
<1>4. /\ \A q \in Render : q # r => previews'[q] = previews[q]
      /\ previews'[r].by = previews[r].by
      /\ \/ previews'[r] = previews[r]
         \/ /\ previews[r].by = {k} /\ previews[r].state = "approving"
            /\ previews'[r].state = "approved"
  BY <1>1, <1>2 DEF RendersTypeOK, PreviewRow
<1>5. LeaseInv' /\ JobInv'
  <2>1. LeaseInv'
    BY <1>1, TimedKeepsLeases DEF RendersInv, Timed
  <2>2. JobInv'
    BY <1>1, <1>3 DEF RendersInv, JobInv, ReferenceHolds, ReadIsCurrent
  <2> QED BY <2>1, <2>2
<1>6. \A q \in Render, j \in Client : Opened(j, q) => Opened(j, q)'
  BY <1>4 DEF Opened
<1>7. GateInv'
  <2>1. \A j \in Client : \A q \in callers'[j].render :
          /\ \A p \in callers'[j].render : p = q
          /\ callers'[j].gated => Opened(j, q)'
          /\ callers'[j].at = "complete" => q \in printJobs'[j].render
    BY <1>1, <1>3, <1>6, CallerTypes DEF RendersInv, GateInv
  <2>2. \A j \in Client : \A q \in printJobs'[j].render :
          printJobs'[j].state # "none" /\ (printJobs'[j].gated => Opened(j, q)')
    BY <1>1, <1>6, CallerTypes DEF RendersInv, GateInv
  <2>3. \A q \in Render : previews'[q].state = "approved" =>
          \A j \in previews'[q].by : q \in printJobs'[j].render
    BY <1>1, <1>2, <1>4 DEF RendersInv, GateInv
  <2> QED BY <2>1, <2>2, <2>3 DEF GateInv
<1> QED BY <1>5, <1>7 DEF RendersInv

\* A reference is released, by the end of its job or of its time.
LEMMA ReleaseKeeps ==
  ASSUME RendersTypeOK, RendersInv, NEW k \in Client, JobIsFinal(k) \/ RetentionLapses(k)
  PROVE  RendersInv'
<1>1. /\ UNCHANGED <<renders, objects, unsure, previews, items, callers>>
      /\ \A j \in Client : /\ printJobs'[j].render = printJobs[j].render
                           /\ printJobs'[j].gated = printJobs[j].gated
                           /\ printJobs'[j].key = printJobs[j].key
                           /\ printJobs'[j].state = "none" => printJobs[j].state = "none"
                           /\ printJobs'[j].state = "live" => printJobs[j].state = "live"
                           /\ printJobs'[j].retained => printJobs[j].retained
  BY DEF JobIsFinal, RetentionLapses, RendersTypeOK, PrintJob
<1>2. LeaseInv'
  BY <1>1, TimedKeepsLeases DEF RendersInv, Timed
<1>3. JobInv'
  BY <1>1 DEF RendersInv, JobInv, ReferenceHolds, ReadIsCurrent
<1>4. GateInv'
  <2>1. \A q \in Render : previews[q].by \subseteq Client
    BY DEF RendersTypeOK, PreviewRow
  <2> QED BY <1>1, <2>1 DEF RendersInv, GateInv, Opened
<1> QED BY <1>2, <1>3, <1>4 DEF RendersInv

\* The other steps of a caller.
LEMMA CallerKeeps ==
  ASSUME RendersTypeOK, RendersInv, NEW k \in Client,
         \/ \E r \in Render : PrintDirectly(k, r)
         \/ print_render(k) \/ acquire_document_artifact_upload(k) \/ RequestStops(k)
  PROVE  RendersInv'
<1>1. ASSUME NEW r \in Render, PrintDirectly(k, r)
      PROVE  RendersInv'
  <2>1. /\ UNCHANGED <<renders, objects, unsure, printJobs, items, previews>>
        /\ \A j \in Client : j # k => callers'[j] = callers[j]
        /\ callers'[k].render = {r} /\ callers'[k].at = "print"
        /\ callers'[k].gated = FALSE
    BY <1>1 DEF PrintDirectly, RendersTypeOK, Call, Quiet
  <2> QED BY <2>1, CallKeeps
<1>2. CASE print_render(k)
  <2>1. PICK q \in callers[k].render :
          /\ UNCHANGED <<renders, objects, unsure, previews, printJobs, items>>
          /\ \/ callers' = [callers EXCEPT ![k] = Quiet]
             \/ /\ renders[q].state = "completed"
                /\ callers' = [callers EXCEPT ![k] =
                     [callers[k] EXCEPT !.at = "acquire", !.key = renders[q].key]]
    BY <1>2 DEF print_render
  <2>2. /\ q \in Render /\ callers[k].render = {q} /\ callers[k].gated => Opened(k, q)
    BY <2>1, CallerTypes DEF RendersInv, GateInv
  <2>3. CASE callers' = [callers EXCEPT ![k] = Quiet]
    BY <2>1, <2>3, CallKeeps DEF RendersTypeOK, Quiet
  <2>4. CASE /\ renders[q].state = "completed"
             /\ callers' = [callers EXCEPT ![k] =
                  [callers[k] EXCEPT !.at = "acquire", !.key = renders[q].key]]
    <3>1. /\ \A j \in Client : j # k => callers'[j] = callers[j]
          /\ callers'[k].render = callers[k].render /\ callers'[k].at = "acquire"
          /\ callers'[k].key = renders[q].key /\ callers'[k].gated = callers[k].gated
      BY <2>4 DEF RendersTypeOK, Call
    <3> QED BY <2>1, <2>2, <2>4, <3>1, CallerTypes, CallKeeps DEF RendersInv, GateInv
  <2> QED BY <2>1, <2>3, <2>4
<1>3. CASE acquire_document_artifact_upload(k)
  <2>1. PICK q \in callers[k].render :
          /\ UNCHANGED <<renders, objects, unsure, previews, printJobs, items>>
          /\ callers[k].at = "acquire"
          /\ \/ callers' = [callers EXCEPT ![k] = Quiet]
             \/ /\ renders[q].state = "completed"
                /\ callers' = [callers EXCEPT ![k] = [callers[k] EXCEPT !.at = "create"]]
    BY <1>3 DEF acquire_document_artifact_upload
  <2>2. CASE callers' = [callers EXCEPT ![k] = Quiet]
    BY <2>1, <2>2, CallKeeps DEF RendersTypeOK, Quiet
  <2>3. CASE /\ renders[q].state = "completed"
             /\ callers' = [callers EXCEPT ![k] = [callers[k] EXCEPT !.at = "create"]]
    <3>1. /\ \A j \in Client : j # k => callers'[j] = callers[j]
          /\ callers'[k].render = callers[k].render /\ callers'[k].at = "create"
          /\ callers'[k].key = callers[k].key /\ callers'[k].gated = callers[k].gated
      BY <2>3 DEF RendersTypeOK, Call
    <3>2. /\ q \in Render /\ callers[k].render = {q}
          /\ callers[k].gated => Opened(k, q)
      BY <2>1, CallerTypes DEF RendersInv, GateInv
    <3>3. callers[k].key = renders[q].key
      BY <2>1, <2>3 DEF RendersInv, JobInv, ReadIsCurrent
    <3> QED BY <2>1, <2>3, <3>1, <3>2, <3>3, CallKeeps
  <2> QED BY <2>1, <2>2, <2>3
<1>4. CASE RequestStops(k)
  BY <1>4, CallKeeps DEF RequestStops, RendersTypeOK, Quiet
<1> QED BY <1>1, <1>2, <1>3, <1>4

(***************************************************************************)
(* The theorems.                                                           *)
(***************************************************************************)
LEMMA RendersNextKeeps ==
  ASSUME RendersTypeOK, RendersInv, RendersNext
  PROVE  RendersTypeOK' /\ RendersInv'
<1>1. RendersTypeOK'
  BY RowTypes, ClaimTypes, WorkerTypes, PreviewTypes, RequestTypes, CallTypes DEF RendersNext
<1>2. CASE QueueStep
  BY <1>2, QueueKeeps, <1>1
<1>3. CASE \E r \in Render :
             \/ create_document_preview(r) \/ PreviewLapses(r)
             \/ get_document_preview(r) \/ cancel_document_preview(r)
  BY <1>3, PreviewKeeps, <1>1
<1>4. CASE \E k \in Client :
             \/ \E r \in Render : begin_document_preview_approval(k, r) \/ PrintDirectly(k, r)
             \/ CallStep(k) \/ RequestStops(k) \/ JobIsFinal(k) \/ RetentionLapses(k)
  BY <1>1, <1>4, BeginKeeps, CallerKeeps, CreateKeeps, ApproveKeeps, ReleaseKeeps DEF CallStep
<1> QED BY <1>2, <1>3, <1>4 DEF RendersNext, QueueStep

LEMMA RendersStutterKeeps ==
  ASSUME RendersTypeOK, RendersInv, UNCHANGED <<demand, renderVars>>
  PROVE  RendersTypeOK' /\ RendersInv'
<1>1. UNCHANGED <<demand, renders, objects, previews, printJobs, items, callers, unsure, troubles>>
  BY DEF renderVars
<1>2. LeaseInv'
  BY <1>1, TimedKeepsLeases DEF RendersInv, Timed
<1>3. JobInv' /\ GateInv'
  BY <1>1, PublishedKeepsJobs, GateStands DEF RendersInv, Published
<1> QED BY <1>1, <1>2, <1>3 DEF RendersTypeOK, RendersInv

\* What the invariant says of jobs and previews.
LEMMA RendersInvSuffices ==
  ASSUME RendersTypeOK, RendersInv
  PROVE  CompletedHasArtifact /\ LiveJobHasArtifact /\ ApprovalIsSingle
<1>1. CompletedHasArtifact
  BY DEF RendersInv, LeaseInv
<1>2. LiveJobHasArtifact
  BY <1>1, CallerTypes
     DEF RendersInv, JobInv, ReferenceHolds, CompletedHasArtifact, LiveJobHasArtifact
<1>3. ApprovalIsSingle
  <2> SUFFICES ASSUME NEW r \in Render
               PROVE  LET made == {k \in Client : r \in printJobs[k].render /\ printJobs[k].gated}
                      IN /\ made \subseteq previews[r].by
                         /\ Cardinality(made) <= 1
                         /\ previews[r].state \in {"cancelled", "expired"} => made = {}
                         /\ previews[r].state = "approved" =>
                              \A k \in previews[r].by : r \in printJobs[k].render
    BY DEF ApprovalIsSingle
  <2> DEFINE made == {k \in Client : r \in printJobs[k].render /\ printJobs[k].gated}
  <2>1. \A k \in made : previews[r].by = {k} /\ previews[r].state \in {"approving", "approved"}
    BY DEF RendersInv, GateInv, Opened
  <2>2. made = {} \/ \E k : made = {k}
    BY <2>1
  <2>3. Cardinality(made) <= 1
    <3> HIDE DEF made
    <3>1. CASE made = {}
      <4>1. Cardinality({}) = 0
        BY FS_EmptySet
      <4> QED BY <3>1, <4>1
    <3>2. CASE \E k : made = {k}
      <4>1. PICK k : made = {k}
        BY <3>2
      <4>2. Cardinality({k}) = 1
        BY FS_Singleton
      <4> QED BY <4>1, <4>2
    <3> QED BY <2>2, <3>1, <3>2
  <2>4. made \subseteq previews[r].by
    BY <2>1
  <2>5. previews[r].state \in {"cancelled", "expired"} => made = {}
    BY <2>1
  <2>6. previews[r].state = "approved" => \A k \in previews[r].by : r \in printJobs[k].render
    BY DEF RendersInv, GateInv
  <2> QED BY <2>3, <2>4, <2>5, <2>6
<1> QED BY <1>1, <1>2, <1>3

LEMMA RendersInvariant == RendersSpec => [](RendersTypeOK /\ RendersInv)
<1>1. RendersInit => RendersTypeOK /\ RendersInv
  BY RendersInitType
<1>2. RendersTypeOK /\ RendersInv /\ [RendersNext]_<<demand, renderVars>>
        => (RendersTypeOK /\ RendersInv)'
  BY RendersNextKeeps, RendersStutterKeeps
<1> QED BY <1>1, <1>2, PTL DEF RendersSpec

\* For every number of renders, workers and clients: a completed render has
\* its artifact in the object store (complete_claimed_document_render), unless
\* its completion was reported to the worker as an error.
THEOREM CompletedHasArtifactHolds == RendersSpec => []CompletedHasArtifact
<1>1. RendersTypeOK /\ RendersInv => CompletedHasArtifact
  BY RendersInvSuffices
<1> QED BY <1>1, RendersInvariant, PTL

\* A job that is not final finds the artifact it was created with, with the
\* same exception.
THEOREM LiveJobHasArtifactHolds == RendersSpec => []LiveJobHasArtifact
<1>1. RendersTypeOK /\ RendersInv => LiveJobHasArtifact
  BY RendersInvSuffices
<1> QED BY <1>1, RendersInvariant, PTL

\* One job of a preview, the one the preview names.
THEOREM ApprovalIsSingleHolds == RendersSpec => []ApprovalIsSingle
<1>1. RendersTypeOK /\ RendersInv => ApprovalIsSingle
  BY RendersInvSuffices
<1> QED BY <1>1, RendersInvariant, PTL
=============================================================================
