---------------------------- MODULE NativeHandoff ----------------------------
(***************************************************************************)
(* The last mile of a print job: a connector's queue (SQLite), the route   *)
(* coordinator shared by all connectors (one JSON journal) and the OS      *)
(* spooler, three places that no transaction spans.                        *)
(*                                                                         *)
(*   - the engine of each connector persists a spool intent and calls      *)
(*     SharedRuntimeExecutor::submit (crates/piqae-agent/src/main.rs):     *)
(*     reserve, validate, native call, finish, then the queue update;      *)
(*   - the cloud worker registers server offers and applies resolutions;   *)
(*   - discovery regroups the routes at any time;                          *)
(*   - a journal write can fail before or after the file is replaced, and  *)
(*     the process can stop between any two steps and start again with     *)
(*     reconcile_local_route_state / reconcile_authoritative_route_state.  *)
(*                                                                         *)
(* The queue is kept to the states this protocol tells apart: the steps    *)
(* before the spool intent, and cancellation, are module AgentQueue's.     *)
(***************************************************************************)
EXTENDS RouteJournal, Sequences

CONSTANTS
  Local,          \* the connector of locally submitted jobs
  Observation,    \* what a discovery round can report
  MaxIssued,      \* bound: reservation identifiers ever drawn
  MaxFaults,      \* bound: failed journal writes
  MaxCrashes      \* bound: process stops

ASSUME HandoffAssumption ==
  /\ Local \in Connector
  /\ Observation \subseteq [Native -> Evidence \cup {Absent}]
  /\ {MaxIssued, MaxFaults, MaxCrashes} \subseteq Nat

VARIABLES
  mem,        \* the coordinator's document in memory
  disk,       \* route-coordinator.json
  poisoned,   \* the coordinator fail-stopped
  up,         \* the process runs
  booting,    \* it has not finished reconciling the local queue
  phase,      \* per connector: startup reconciliation, then "run"
  todo,       \* jobs the startup reconciliation has not looked at
  store,      \* per job: the queue's durable state
  proof,      \* per job: cloud_route_proofs (a reservation id, 0 = none)
  marks,      \* local_handoff_resolutions: {[id, resolution]}
  exec,       \* per connector: the submission in flight
  worker,     \* per connector: the offer or resolution half applied
  offers,     \* offers the server ever made (each may arrive again)
  calls,      \* history: native calls made, and whether the OS accepted
  decided,    \* history: operator decisions on ambiguous handoffs
  issued, faults, crashes   \* the bounded counters

coordinator == <<mem, disk, poisoned>>
queue == <<store, proof, marks>>
history == <<calls, decided>>
vars == <<mem, disk, poisoned, up, booting, phase, todo, store, proof, marks, exec,
          worker, offers, calls, decided, issued, faults, crashes>>

Cloud(j) == OwnerOf[j] # Local
JobsOf(c) == {j \in Job : OwnerOf[j] = c}

\* "dropped" stands for cancelled and expired, "failed" for failed_terminal.
StoreState == {"absent", "pending", "queued", "intent", "accepted", "uncertain",
               "retry", "failed", "dropped"}
Resolution == {"release", "confirm"}
Report == {"ok", "handoff_may_have_succeeded", "failed"}
Offer == [job : Job, id : Nat, gen : Nat]
Phase == {"recover", "sweep", "fence", "project", "compact", "run"}
Submission ==
  [job : Job, step : {"intent"}]
  \cup [job : Job, step : {"reserved", "validated"}, handle : Reservation]
  \cup [job : Job, step : {"called"}, handle : Reservation, result : Outcome]
  \cup [job : Job, step : {"settle"}, verdict : StoreState]
Errand ==
  [kind : {"prepare"}, offer : Offer, handle : Reservation, fresh : BOOLEAN]
  \cup [kind : {"resolve"}, job : Job, id : Nat, resolution : Resolution]

ASSUME RecordAssumption == Nil \notin Submission \cup Errand

TypeOK ==
  /\ mem \in Document /\ disk \in Document
  /\ poisoned \in BOOLEAN /\ up \in BOOLEAN /\ booting \in BOOLEAN
  /\ phase \in [Connector -> Phase] /\ todo \subseteq Job
  /\ store \in [Job -> StoreState] /\ proof \in [Job -> Nat]
  /\ marks \subseteq [id : Nat, resolution : Resolution]
  /\ exec \in [Connector -> Submission \cup {Nil}]
  /\ worker \in [Connector -> Errand \cup {Nil}]
  /\ offers \subseteq Offer
  /\ calls \in Seq([job : Job, id : Nat, accepts : BOOLEAN])
  /\ decided \subseteq [job : Job, id : Nat, resolution : Resolution]
  /\ {issued, faults, crashes} \subseteq Nat

Init ==
  /\ mem = EmptyDocument /\ disk = EmptyDocument
  /\ poisoned = FALSE /\ up = TRUE /\ booting = FALSE
  /\ phase = [c \in Connector |-> "run"] /\ todo = {}
  /\ store = [j \in Job |-> "absent"] /\ proof = [j \in Job |-> 0] /\ marks = {}
  /\ exec = [c \in Connector |-> Nil] /\ worker = [c \in Connector |-> Nil]
  /\ offers = {} /\ calls = <<>> /\ decided = {}
  /\ issued = 0 /\ faults = 0 /\ crashes = 0

-----------------------------------------------------------------------------
(* commit_document_change: what a write leaves in memory and on disk.  The *)
(* file may be replaced although the write reports an error, and it may be *)
(* unreadable when the error is examined.                                  *)

Fault == {"none", "before", "after", "unreadable_before", "unreadable_after"}

\* Mutant: a write that failed is taken for done.
CommittedUnchecked(previous, next, onDisk, fault) ==
  [mem |-> next, disk |-> IF fault \in {"none", "after", "unreadable_after"} THEN next ELSE onDisk,
   poisoned |-> FALSE, ok |-> TRUE]

Committed(previous, next, onDisk, fault) ==
  LET replaced == fault \in {"none", "after", "unreadable_after"}
      file == IF replaced THEN next ELSE onDisk
  IN CASE fault = "none" -> [mem |-> next, disk |-> file, poisoned |-> FALSE, ok |-> TRUE]
       [] fault \in {"before", "after"} /\ file = previous ->
            [mem |-> previous, disk |-> file, poisoned |-> FALSE, ok |-> FALSE]
       [] fault \in {"before", "after"} /\ file # previous ->
            [mem |-> file, disk |-> file, poisoned |-> TRUE, ok |-> FALSE]
       [] OTHER -> [mem |-> previous, disk |-> file, poisoned |-> TRUE, ok |-> FALSE]

\* Faults a write may meet while the bound lasts.
FaultChoice == IF faults < MaxFaults THEN Fault ELSE {"none"}
Charge(fault) == faults' = faults + (IF fault = "none" THEN 0 ELSE 1)

Apply(w) == mem' = w.mem /\ disk' = w.disk /\ poisoned' = w.poisoned

-----------------------------------------------------------------------------
(* The environment: discovery, the server's offers, local submissions.     *)

\* RouteCoordinator::reconcile persists without rolling back.
DiscoverRoutes(obs) ==
  /\ up /\ ~poisoned
  /\ mem' = Reconcile(mem, obs)
  /\ \E fault \in FaultChoice \cap {"none", "before", "after"} :
       /\ disk' = IF fault = "before" THEN disk ELSE mem'
       /\ Charge(fault)
  /\ UNCHANGED <<poisoned, up, booting, phase, todo, queue, exec, worker, offers, history,
                 issued, crashes>>

IssueOffer(j) ==
  /\ Cloud(j) /\ issued < MaxIssued
  /\ issued' = issued + 1
  /\ offers' = offers \cup {[job |-> j, id |-> issued', gen |-> issued']}
  /\ UNCHANGED <<coordinator, up, booting, phase, todo, queue, exec, worker, history, faults, crashes>>

AcceptLocalJob(j) ==
  /\ up /\ ~Cloud(j) /\ store[j] = "absent" /\ phase[Local] = "run" /\ exec[Local] = Nil
  /\ store' = [store EXCEPT ![j] = "queued"]
  /\ UNCHANGED <<coordinator, up, booting, phase, todo, proof, marks, exec, worker, offers,
                 history, issued, faults, crashes>>

-----------------------------------------------------------------------------
(* The cloud worker: InstalledOfferAcceptor::prepare and the two-phase     *)
(* acceptance.                                                             *)

Working(c) == up /\ phase[c] = "run"

\* The server offers a job only while no acceptance of it stands; an old
\* offer of such a job may still arrive.
RegisterOffer(o) ==
  LET c == OwnerOf[o.job] IN
  /\ Working(c) /\ worker[c] = Nil /\ ~poisoned /\ o \in offers
  /\ store[o.job] \in {"absent", "pending", "retry", "failed", "dropped"}
  /\ \E next \in {mem, Register(mem, o)}, fault \in FaultChoice :
       LET w == Committed(mem, next, disk, fault)
           handle == CloudReservation(mem, o)
       IN /\ IF next = mem THEN CanReregister(mem, o) ELSE CanRegister(mem, o)
          /\ Apply(w) /\ Charge(fault)
          /\ worker' = IF ~w.ok THEN worker
                       ELSE [worker EXCEPT ![c] =
                               [kind |-> "prepare", offer |-> o, handle |-> handle,
                                fresh |-> handle \notin mem.reservations]]
  /\ UNCHANGED <<up, booting, phase, todo, queue, exec, offers, history, issued,
                 crashes>>

\* prepare_cloud_job_with_facts, and the compensation when it refuses.
PrepareOffer(c) ==
  LET e == worker[c] IN
  /\ Working(c) /\ e # Nil /\ e.kind = "prepare"
  /\ LET j == e.offer.job IN
     \/ /\ store[j] \in {"absent", "pending", "retry"}
        /\ store' = [store EXCEPT ![j] = "pending"]
        /\ proof' = [proof EXCEPT ![j] = e.offer.id]
        /\ UNCHANGED <<coordinator, faults>>
     \/ /\ store[j] \notin {"absent", "pending", "retry"}
        /\ UNCHANGED <<store, proof>>
        /\ IF proof[j] # e.offer.id /\ e.fresh /\ ~poisoned /\ CanFinish(mem, e.handle, "rejected")
           THEN \E fault \in FaultChoice :
                  /\ Apply(Committed(mem, Finish(mem, e.handle, "rejected", FALSE), disk, fault))
                  /\ Charge(fault)
           ELSE UNCHANGED <<coordinator, faults>>
  /\ worker' = [worker EXCEPT ![c] = Nil]
  /\ UNCHANGED <<up, booting, phase, todo, marks, exec, offers, history, issued, crashes>>

\* The server confirmed the acceptance of its latest offer
\* (activate_cloud_job), or the acceptance is fenced or gone
\* (abandon_cloud_accept, which leaves the coordinator's fence in place).
ResumeAcceptance(j, outcome) ==
  /\ Working(OwnerOf[j]) /\ worker[OwnerOf[j]] = Nil /\ store[j] = "pending"
  /\ outcome = "queued" => \A o \in offers : o.job = j => o.id <= proof[j]
  /\ store' = [store EXCEPT ![j] = outcome]
  /\ proof' = IF outcome = "dropped" THEN [proof EXCEPT ![j] = 0] ELSE proof
  /\ UNCHANGED <<coordinator, up, booting, phase, todo, marks, exec, worker, offers, history,
                 issued, faults, crashes>>

\* The server's acknowledgement of reported native handoff evidence.
AcknowledgeHandoffs(c, through) ==
  /\ Working(c) /\ c # Local /\ worker[c] = Nil /\ ~poisoned
  /\ \E h \in mem.handoffs : OwnerOf[h.job] = c /\ h.seq = through
  /\ \E fault \in FaultChoice :
       /\ Apply(Committed(mem, Acknowledge(mem, c, through), disk, fault))
       /\ Charge(fault)
  /\ UNCHANGED <<up, booting, phase, todo, queue, exec, worker, offers, history, issued, crashes>>

-----------------------------------------------------------------------------
(* Operator resolution of an ambiguous handoff: the journal first, then    *)
(* the queue.  A cloud command arrives again until its cursor is durable,  *)
(* but commands are applied before the offers of a sync response, so never *)
(* after a newer offer of the job was registered (reconcile_once).  A      *)
(* local decision is addressed to the newest local evidence of the job.    *)

Superseded(j, id) ==
  \E e \in mem.reservations \cup mem.handoffs \cup mem.consumed : e.job = j /\ e.id > id

Targets(j) ==
  IF Cloud(j) THEN {h.id : h \in {g \in mem.handoffs : g.job = j /\ g.outcome = "ambiguous"}}
                   \cup {k.id : k \in {q \in decided : q.job = j /\ ~Superseded(j, q.id)}}
  ELSE LET mine == {h \in mem.handoffs : h.job = j /\ ~h.cloud}
       IN IF mine = {} \/ store[j] # "uncertain" THEN {} ELSE {Newest(mine).id}

ResolveAmbiguousHandoff(j, id, resolution) ==
  LET c == OwnerOf[j] IN
  /\ Working(c) /\ worker[c] = Nil /\ ~poisoned
  /\ ~Cloud(j) => exec[Local] = Nil /\ [id |-> id, resolution |-> resolution] \notin marks
  /\ id \in Targets(j)
  /\ LET Write(next) ==
           \E fault \in FaultChoice :
             LET w == Committed(mem, next, disk, fault) IN
             /\ Apply(w) /\ Charge(fault)
             /\ worker' = IF ~w.ok THEN worker
                          ELSE [worker EXCEPT ![c] = [kind |-> "resolve", job |-> j, id |-> id,
                                                      resolution |-> resolution]]
     IN \/ ResolvedAlready(mem, j, id, resolution) /\ Write(mem)
        \/ \E r \in mem.reservations, h \in mem.handoffs :
             r.job = j /\ r.id = id /\ CanResolve(mem, r, h)
               /\ Write(Resolve(mem, r, h, resolution))
  /\ decided' = decided \cup {[job |-> j, id |-> id, resolution |-> resolution]}
  /\ UNCHANGED <<up, booting, phase, todo, queue, exec, offers, calls, issued, crashes>>

\* release_uncertain_*_for_retry, confirm_uncertain_local_handoff_accepted,
\* finalize_uncertain_cloud_handoff_recovery; any other state is an error.
ProjectResolution(c) ==
  LET e == worker[c] IN
  /\ Working(c) /\ e # Nil /\ e.kind = "resolve"
  /\ LET uncertain == store[e.job] = "uncertain" /\ \A m \in marks : m.id # e.id IN
     /\ store' = IF uncertain /\ e.resolution = "release"
                 THEN [store EXCEPT ![e.job] = "retry"] ELSE store
     /\ proof' = IF uncertain /\ Cloud(e.job) THEN [proof EXCEPT ![e.job] = 0] ELSE proof
     /\ marks' = IF uncertain /\ ~Cloud(e.job)
                 THEN marks \cup {[id |-> e.id, resolution |-> e.resolution]} ELSE marks
  /\ worker' = [worker EXCEPT ![c] = Nil]
  /\ phase' = IF c = Local THEN [phase EXCEPT ![c] = "fence"] ELSE phase
  /\ UNCHANGED <<coordinator, up, booting, todo, exec, offers, history, issued,
                 faults, crashes>>

-----------------------------------------------------------------------------
(* The engine and SharedRuntimeExecutor::submit.                           *)

Idle(c) == Working(c) /\ exec[c] = Nil /\ (c = Local => worker[c] = Nil)

\* execute_job up to the durable spool intent.  A failed local job retries;
\* a failed cloud job waits for a new offer.
BeginExecution(j) ==
  /\ Idle(OwnerOf[j])
  /\ store[j] = "queued" \/ (store[j] = "retry" /\ ~Cloud(j))
  /\ store' = [store EXCEPT ![j] = "intent"]
  /\ exec' = [exec EXCEPT ![OwnerOf[j]] = [job |-> j, step |-> "intent"]]
  /\ UNCHANGED <<coordinator, up, booting, phase, todo, proof, marks, worker, offers, history,
                 issued, faults, crashes>>

\* expire_waiting, and options or a binding refused before the coordinator
\* is asked: the queue gives the job up, the coordinator is not told.
DropBeforeHandoff(j) ==
  /\ Idle(OwnerOf[j]) /\ store[j] \in {"queued", "retry"}
  /\ \E gone \in {"failed", "dropped"} : store' = [store EXCEPT ![j] = gone]
  /\ UNCHANGED <<coordinator, up, booting, phase, todo, proof, marks, exec, worker, offers,
                 history, issued, faults, crashes>>

Settle(c, verdict) ==
  exec' = [exec EXCEPT ![c] = [job |-> exec[c].job, step |-> "settle", verdict |-> verdict]]

Hold(c, step, handle) ==
  exec' = [exec EXCEPT ![c] = [job |-> exec[c].job, step |-> step, handle |-> handle]]

InStep(c, step) == up /\ exec[c] # Nil /\ exec[c].step = step

\* coordinator.reserve: only "already crossed" makes the failure ambiguous.
ReserveRoute(c) ==
  /\ InStep(c, "intent")
  /\ LET j == exec[c].job IN
     \/ /\ ~poisoned /\ CrossedOrMayHaveCrossed(mem, j)
        /\ Settle(c, "uncertain")
        /\ UNCHANGED <<coordinator, faults, issued>>
     \/ /\ poisoned \/ (~CrossedOrMayHaveCrossed(mem, j) /\ ~CanReuse(mem, j) /\ ~CanReserve(mem, j))
        /\ Settle(c, "retry")
        /\ UNCHANGED <<coordinator, faults, issued>>
     \/ /\ ~poisoned /\ CanReuse(mem, j)
        /\ \E fault \in FaultChoice :
             LET w == Committed(mem, mem, disk, fault) IN
             /\ Apply(w) /\ Charge(fault)
             /\ IF w.ok THEN \E r \in OwnHolder(mem, j) : Hold(c, "reserved", r)
                        ELSE Settle(c, "retry")
        /\ UNCHANGED issued
     \/ /\ ~poisoned /\ CanReserve(mem, j) /\ issued < MaxIssued
        /\ issued' = issued + 1
        /\ \E fault \in FaultChoice :
             LET w == Committed(mem, Reserve(mem, j, issued'), disk, fault) IN
             /\ Apply(w) /\ Charge(fault)
             /\ IF w.ok THEN Hold(c, "reserved", LocalReservation(mem, j, issued'))
                        ELSE Settle(c, "retry")
  /\ UNCHANGED <<up, booting, phase, todo, queue, worker, offers, history, crashes>>

ValidateRoute(c) ==
  /\ InStep(c, "reserved")
  /\ IF ~poisoned /\ Validates(mem, exec[c].handle)
     THEN Hold(c, "validated", exec[c].handle) ELSE Settle(c, "retry")
  /\ UNCHANGED <<coordinator, up, booting, phase, todo, queue, worker, offers, history, issued, faults, crashes>>

\* Mutant: every error is taken for a rejection.
HandoffOutcomeOfError(report) == IF report = "ok" THEN "accepted" ELSE "rejected"

\* The outcome submit journals for what the adapter reports.
HandoffOutcome(report) ==
  CASE report = "ok" -> "accepted"
    [] report = "handoff_may_have_succeeded" -> "ambiguous"
    [] OTHER -> "rejected"

\* runtime.submit: the OS accepts or not, and the answer may be lost.  The
\* adapter never reports a failure of work the OS accepted (external).
CallSpooler(c, accepts, report) ==
  /\ InStep(c, "validated")
  /\ report \in {"handoff_may_have_succeeded", IF accepts THEN "ok" ELSE "failed"}
  /\ LET e == exec[c] IN
     /\ calls' = Append(calls, [job |-> e.job, id |-> e.handle.id, accepts |-> accepts])
     /\ exec' = [exec EXCEPT ![c] = [job |-> e.job, step |-> "called",
                                     handle |-> e.handle, result |-> HandoffOutcome(report)]]
  /\ UNCHANGED <<coordinator, up, booting, phase, todo, queue, worker, offers, decided, issued, faults, crashes>>

\* What the engine writes once the outcome is journaled; a rejection may be
\* retryable or terminal.
Verdicts(result) ==
  CASE result = "accepted" -> {"accepted"}
    [] result = "ambiguous" -> {"uncertain"}
    [] OTHER -> {"retry", "failed"}

\* finish_runtime: one exact retry after a write that left the file alone.
FinishSubmission(c) ==
  /\ InStep(c, "called")
  /\ LET e == exec[c]
         next == Finish(mem, e.handle, e.result, e.result = "accepted")
         lost == IF e.result = "rejected" THEN "failed" ELSE "uncertain"
         Succeed(w) == Apply(w) /\ \E v \in Verdicts(e.result) : Settle(c, v)
         Fail(w) == Apply([w EXCEPT !.poisoned = TRUE]) /\ Settle(c, lost)
     IN IF poisoned \/ ~CanFinish(mem, e.handle, e.result)
        THEN /\ Fail([mem |-> mem, disk |-> disk, poisoned |-> TRUE])
             /\ UNCHANGED faults
        ELSE \E fault \in FaultChoice :
               LET w == Committed(mem, next, disk, fault) IN
               IF w.ok THEN Succeed(w) /\ Charge(fault)
               ELSE IF w.poisoned THEN Fail(w) /\ Charge(fault)
               ELSE \E again \in (IF faults + 1 < MaxFaults THEN Fault ELSE {"none"}) :
                      LET w2 == Committed(w.mem, next, w.disk, again) IN
                      /\ IF w2.ok THEN Succeed(w2) ELSE Fail(w2)
                      /\ faults' = faults + (IF again = "none" THEN 1 ELSE 2)
  /\ UNCHANGED <<up, booting, phase, todo, queue, worker, offers, history, issued, crashes>>

\* record_native_acceptance and the failure transitions; the local loop then
\* runs reconcile_local_scheduler_state.
SettleQueue(c) ==
  /\ InStep(c, "settle")
  /\ LET e == exec[c] IN
     /\ store' = [store EXCEPT ![e.job] = e.verdict]
     /\ proof' = IF e.verdict = "accepted" THEN [proof EXCEPT ![e.job] = 0] ELSE proof
  /\ exec' = [exec EXCEPT ![c] = Nil]
  /\ phase' = IF c = Local THEN [phase EXCEPT ![c] = "fence"] ELSE phase
  /\ UNCHANGED <<coordinator, up, booting, todo, marks, worker, offers, history, issued, faults, crashes>>

-----------------------------------------------------------------------------
(* reconcile_local_route_state: fence, project, compact.                   *)

InPass(p) == up /\ phase[Local] = p

\* A reservation of a local job with no evidence: the native call may have
\* been made before the stop.
Unjournaled ==
  {r \in mem.reservations :
     /\ OwnerOf[r.job] = Local /\ ~r.cloud
     /\ ~\E h \in mem.handoffs : h.job = r.job /\ h.id = r.id
     /\ store[r.job] \in {"intent", "uncertain", "retry", "failed"}}

\* A failed pass is tried again at the next tick, and stops a start.
FailPass == IF booting THEN up' = FALSE /\ UNCHANGED phase
                       ELSE up' = up /\ phase' = [phase EXCEPT ![Local] = "run"]

LocalFence ==
  /\ InPass("fence")
  /\ \/ /\ Unjournaled = {}
        /\ phase' = [phase EXCEPT ![Local] = "project"]
        /\ UNCHANGED <<coordinator, faults, up>>
     \/ /\ Unjournaled # {} /\ poisoned
        /\ FailPass
        /\ UNCHANGED <<coordinator, faults>>
     \/ /\ ~poisoned
        /\ \E r \in Unjournaled, fault \in FaultChoice :
             LET w == Committed(mem, Finish(mem, r, "ambiguous", FALSE), disk, fault) IN
             /\ Apply(w) /\ Charge(fault)
             /\ IF w.ok THEN UNCHANGED <<up, phase>> ELSE FailPass
  /\ UNCHANGED <<booting, todo, queue, exec, worker, offers, history, issued, crashes>>

LocalEvidence(j) == {h \in mem.handoffs : h.job = j /\ ~h.cloud}

\* Evidence journaled before the queue heard of it.
Projectable == {j \in JobsOf(Local) : store[j] = "intent" /\ LocalEvidence(j) # {}}

LocalProject ==
  /\ InPass("project")
  /\ \/ /\ Projectable = {}
        /\ phase' = [phase EXCEPT ![Local] = "compact"]
        /\ UNCHANGED store
     \/ /\ \E j \in Projectable :
             LET h == Newest(LocalEvidence(j)) IN
             store' = [store EXCEPT ![j] =
                         IF h.outcome = "accepted" /\ h.native THEN "accepted"
                         ELSE IF h.outcome = "rejected" THEN "retry" ELSE "uncertain"]
        /\ UNCHANGED phase
  /\ UNCHANGED <<coordinator, up, booting, todo, proof, marks, exec, worker, offers, history,
                 issued, faults, crashes>>

\* Evidence whose matching queue outcome is durable.
DurablyProjected(h) ==
  /\ OwnerOf[h.job] = Local /\ ~h.cloud /\ h.outcome # "ambiguous"
  /\ IF h.outcome = "rejected" THEN store[h.job] \in {"retry", "failed", "dropped", "accepted"}
     ELSE \/ store[h.job] = "accepted" /\ h.native
          \/ /\ store[h.job] = "uncertain" /\ ~h.native
             /\ [id |-> Newest(LocalEvidence(h.job)).id, resolution |-> "confirm"] \in marks

\* Every tick of control_loop; one that finds nothing changes nothing.
LocalTick ==
  /\ Idle(Local)
  /\ Unjournaled # {} \/ Projectable # {} \/ \E h \in mem.handoffs : DurablyProjected(h)
  /\ phase' = [phase EXCEPT ![Local] = "fence"]
  /\ UNCHANGED <<coordinator, up, booting, todo, queue, exec, worker, offers, history,
                 issued, faults, crashes>>

LocalCompact ==
  /\ InPass("compact")
  /\ LET gone == {h \in mem.handoffs : DurablyProjected(h)}
         Done == up' = up /\ booting' = FALSE /\ phase' = [phase EXCEPT ![Local] = "run"]
         Failed == FailPass /\ UNCHANGED booting
     IN \/ ~poisoned /\ gone = {} /\ Done /\ UNCHANGED <<coordinator, faults>>
        \/ poisoned /\ Failed /\ UNCHANGED <<coordinator, faults>>
        \/ /\ ~poisoned /\ gone # {}
           /\ \E fault \in FaultChoice :
                LET w == Committed(mem, Compact(mem, gone), disk, fault) IN
                /\ Apply(w) /\ Charge(fault)
                /\ IF w.ok THEN Done ELSE Failed
  /\ UNCHANGED <<todo, queue, exec, worker, offers, history, issued, crashes>>

-----------------------------------------------------------------------------
(* reconcile_authoritative_route_state of a cloud connector.               *)

Recovering(j) == up /\ ~booting /\ Cloud(j) /\ phase[OwnerOf[j]] = "recover" /\ j \in todo

ProvenFence(j) == {r \in mem.reservations : r.job = j /\ r.cloud /\ r.id = proof[j]}

\* Mutant: such a fence is released.
RecoverFenceReleasing(j) ==
  /\ Recovering(j) /\ ~poisoned
  /\ AuthoritativeHandoff(mem, j, proof[j]) = Nil
  /\ \E r \in ProvenFence(j), fault \in FaultChoice :
       /\ Apply(Committed(mem, Finish(mem, r, "rejected", FALSE), disk, fault))
       /\ Charge(fault)
  /\ UNCHANGED <<up, booting, phase, todo, queue, exec, worker, offers, history, issued, crashes>>

\* A proven fence without an outcome: the OS may have the job.
RecoverFence(j) ==
  /\ Recovering(j) /\ ~poisoned
  /\ AuthoritativeHandoff(mem, j, proof[j]) = Nil
  /\ \E r \in ProvenFence(j), fault \in FaultChoice :
       /\ Apply(Committed(mem, Finish(mem, r, "ambiguous", FALSE), disk, fault))
       /\ Charge(fault)
  /\ UNCHANGED <<up, booting, phase, todo, queue, exec, worker, offers, history, issued, crashes>>

RecoveredState(j, evidence) ==
  IF evidence = Nil THEN "uncertain"
  ELSE CASE evidence.outcome = "rejected" -> "retry"
         [] evidence.outcome = "accepted" /\ evidence.native /\ store[j] = "intent" -> "accepted"
         [] OTHER -> "uncertain"

RecoverQueue(j) ==
  LET evidence == AuthoritativeHandoff(mem, j, proof[j]) IN
  /\ Recovering(j)
  /\ evidence # Nil \/ ProvenFence(j) = {}
  /\ store' = [store EXCEPT ![j] = RecoveredState(j, evidence)]
  /\ proof' = IF \/ store'[j] \in {"accepted", "retry"}
                 \/ evidence # Nil /\ evidence.outcome = "accepted" /\ store[j] = "uncertain"
              THEN [proof EXCEPT ![j] = 0] ELSE proof
  /\ todo' = todo \ {j}
  /\ UNCHANGED <<coordinator, up, booting, phase, marks, exec, worker, offers, history, issued, faults, crashes>>

\* Mutant: those of jobs in any terminal state.
UnaccountedTerminal(c) ==
  {r \in mem.reservations :
     /\ OwnerOf[r.job] = c /\ r.cloud
     /\ \/ store[r.job] \in {"absent", "retry", "failed", "dropped", "uncertain"}
        \/ store[r.job] = "pending" /\ proof[r.job] # r.id}

\* Fences the queue cannot account for are released.
Unaccounted(c) ==
  {r \in mem.reservations :
     /\ OwnerOf[r.job] = c /\ r.cloud
     /\ \/ store[r.job] \in {"absent", "retry", "failed", "dropped"}
        \/ store[r.job] = "pending" /\ proof[r.job] # r.id}

SweepFences(c) ==
  /\ up /\ ~booting /\ c # Local
  /\ \/ /\ phase[c] = "recover" /\ todo \cap JobsOf(c) = {}
        /\ phase' = [phase EXCEPT ![c] = "sweep"]
        /\ UNCHANGED <<coordinator, faults>>
     \/ /\ phase[c] = "sweep" /\ Unaccounted(c) = {}
        /\ phase' = [phase EXCEPT ![c] = "run"]
        /\ UNCHANGED <<coordinator, faults>>
     \/ /\ phase[c] = "sweep" /\ ~poisoned
        /\ \E r \in Unaccounted(c), fault \in FaultChoice :
             /\ CanFinish(mem, r, "rejected")
             /\ Apply(Committed(mem, Finish(mem, r, "rejected", FALSE), disk, fault))
             /\ Charge(fault)
        /\ UNCHANGED phase
  /\ UNCHANGED <<up, booting, todo, queue, exec, worker, offers, history, issued, crashes>>

-----------------------------------------------------------------------------
(* Stop and start.                                                         *)

\* A fail-stopped coordinator ends the process by itself.
Crash ==
  /\ up /\ (poisoned \/ crashes < MaxCrashes)
  /\ up' = FALSE /\ crashes' = IF poisoned THEN crashes ELSE crashes + 1
  /\ exec' = [c \in Connector |-> Nil] /\ worker' = [c \in Connector |-> Nil]
  /\ UNCHANGED <<coordinator, booting, phase, todo, queue, offers, history, issued, faults>>

\* Mutant: an interrupted intent is no candidate for recovery.
RestartForgetful ==
  /\ ~up /\ Cardinality(disk.handoffs) <= MaxHandoffs
  /\ mem' = Reopened(disk) /\ disk' = mem'
  /\ poisoned' = FALSE /\ up' = TRUE /\ booting' = TRUE
  /\ phase' = [c \in Connector |-> IF c = Local THEN "fence" ELSE "recover"]
  /\ todo' = {j \in Job : Cloud(j) /\ store[j] = "uncertain" /\ proof[j] # 0}
  /\ UNCHANGED <<queue, exec, worker, offers, history, issued, faults, crashes>>

\* RouteCoordinator::open; a start whose first write fails is no start.
Restart ==
  /\ ~up /\ Cardinality(disk.handoffs) <= MaxHandoffs
  /\ mem' = Reopened(disk) /\ disk' = mem'
  /\ poisoned' = FALSE /\ up' = TRUE /\ booting' = TRUE
  /\ phase' = [c \in Connector |-> IF c = Local THEN "fence" ELSE "recover"]
  /\ todo' = {j \in Job : Cloud(j) /\ store[j] \in {"intent", "uncertain"} /\ proof[j] # 0}
  /\ UNCHANGED <<queue, exec, worker, offers, history, issued, faults, crashes>>

Next ==
  \/ \E obs \in Observation : DiscoverRoutes(obs)
  \/ \E j \in Job : \/ IssueOffer(j) \/ AcceptLocalJob(j) \/ BeginExecution(j)
                    \/ DropBeforeHandoff(j) \/ RecoverFence(j) \/ RecoverQueue(j)
                    \/ \E o \in {"queued", "dropped"} : ResumeAcceptance(j, o)
                    \/ \E id \in 1..issued, r \in Resolution : ResolveAmbiguousHandoff(j, id, r)
  \/ \E o \in offers : RegisterOffer(o)
  \/ \E c \in Connector : \/ PrepareOffer(c) \/ ProjectResolution(c)
                          \/ ReserveRoute(c) \/ ValidateRoute(c) \/ FinishSubmission(c)
                          \/ SettleQueue(c) \/ SweepFences(c)
                          \/ \E n \in 1..mem.seq : AcknowledgeHandoffs(c, n)
                          \/ \E a \in BOOLEAN, r \in Report : CallSpooler(c, a, r)
  \/ LocalTick \/ LocalFence \/ LocalProject \/ LocalCompact \/ Crash \/ Restart

Spec == Init /\ [][Next]_vars

(* The service manager restarts the process, a fail-stopped one ends, the  *)
(* startup reconciliations run to their end and a submission in flight is  *)
(* driven on; nothing obliges discovery, the server or an operator.        *)
Fairness ==
  /\ WF_vars(Restart) /\ WF_vars(poisoned /\ Crash)
  /\ WF_vars(LocalTick) /\ WF_vars(LocalFence) /\ WF_vars(LocalProject) /\ WF_vars(LocalCompact)
  /\ \A j \in Job : WF_vars(RecoverFence(j)) /\ WF_vars(RecoverQueue(j))
  /\ \A c \in Connector :
       /\ WF_vars(SweepFences(c)) /\ WF_vars(ReserveRoute(c)) /\ WF_vars(ValidateRoute(c))
       /\ WF_vars(\E a \in BOOLEAN, r \in Report : CallSpooler(c, a, r))
       /\ WF_vars(FinishSubmission(c)) /\ WF_vars(SettleQueue(c))

FairSpec == Spec /\ Fairness

-----------------------------------------------------------------------------
Submitting(c) == exec[c] # Nil /\ exec[c].step \in {"validated", "called"}
AcceptingCalls(j) == {i \in DOMAIN calls : calls[i].job = j /\ calls[i].accepts}
Decisions(j, resolution) == {k \in decided : k.job = j /\ k.resolution = resolution}

(* "no automatic retry" of an ambiguous handoff (docs/04): the OS accepts a *)
(* job once, plus once for every time an operator released an uncertain    *)
(* handoff, whatever stops, failed writes and replayed offers happen.      *)
AtMostOncePerDecision ==
  \A j \in Job : Cardinality(AcceptingCalls(j)) <= 1 + Cardinality(Decisions(j, "release"))

(* A durable outcome is the truth or an operator's word: a fence is never  *)
(* released as rejected when the OS took the job, nor an acceptance        *)
(* invented (finish_inner, the startup sweep, resolve_ambiguous_handoff).  *)
EvidenceIsTrue ==
  \A e \in disk.handoffs \cup disk.consumed :
    /\ e.outcome = "rejected" =>
         \/ ~\E i \in AcceptingCalls(e.job) : calls[i].id = e.id
         \/ \E q \in Decisions(e.job, "release") : q.id = e.id
    /\ e.outcome = "accepted" =>
         \/ \E i \in AcceptingCalls(e.job) : calls[i].id = e.id
         \/ \E q \in Decisions(e.job, "confirm") : q.id = e.id

(* The fence and the intent are on disk before the spooler is called and   *)
(* stay there until the outcome is journaled ("persist intent before       *)
(* submission"), even when other connectors poison the coordinator.        *)
FencedWhileSubmitting ==
  \A c \in Connector : Submitting(c) =>
    exec[c].handle \in disk.reservations /\ store[exec[c].job] = "intent"

(* "An ambiguous timeout/crash is not a release signal": durable ambiguous *)
(* evidence keeps its route fenced on disk.                                *)
AmbiguousStaysFenced ==
  \A h \in disk.handoffs : h.outcome = "ambiguous" =>
    \E r \in disk.reservations : r.job = h.job /\ r.id = h.id

(* Two unresolved reservations never share an exclusion domain, and on     *)
(* routes that discovery shows to be one printer both are marked as        *)
(* conflicting (reconcile_coordination_keys).                              *)
PhysicalExclusion == KeysUnique(mem) /\ OnePerRoute(mem) /\ ConflictsMarked(mem)

(* "an old server offer must never regain authority": a cloud job the OS   *)
(* took has no active cloud fence, also after its evidence was             *)
(* acknowledged and compacted.                                             *)
AcceptedKeepsBarrier == AcceptedIsFinal(mem) /\ AcceptedIsFinal(disk)

(* The replay barrier of a job is never dropped and never moves back to an *)
(* older generation, and an accepted one is final.                         *)
BarrierIsMonotone == [][BarrierGrows(disk, disk')]_vars

(* "A crash after intent but before a reconciled native job ID is          *)
(* uncertain": an intent no submission is driving any more is always given *)
(* an outcome by the recovery that follows (reconcile_local_route_state,   *)
(* reconcile_authoritative_route_state), so its printer is released.       *)
Interrupted(j) == store[j] = "intent" /\ \A c \in Connector : exec[c] = Nil \/ exec[c].job # j
InterruptedIsSettled ==
  \A j \in Job : Interrupted(j) ~> store[j] \in {"accepted", "uncertain", "retry"}

(* What the operations of the coordinator rely on and keep, in memory and  *)
(* on disk: besides the exclusion and the barrier, that a reservation is   *)
(* found under its route's key, that aliases agree, and that a coordinator *)
(* that still works has the barriers of its file in memory.                *)
Inductive ==
  /\ JournalInv(mem) /\ JournalInv(disk)
  /\ ~poisoned => mem.consumed = disk.consumed
=============================================================================
