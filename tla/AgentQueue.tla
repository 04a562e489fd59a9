----------------------------- MODULE AgentQueue -----------------------------
(***************************************************************************)
(* One connector's durable queue (crates/agent-storage) with the two tasks *)
(* that write it over connections of their own: the engine                 *)
(* (crates/agent-core), which runs run_once at every tick, and the cloud   *)
(* worker, which activates jobs of the server and applies its commands to  *)
(* cancel a job and to resolve an ambiguous handoff (crates/piqae-agent    *)
(* apply_command).  A local operator's decision runs on the engine's task. *)
(*                                                                         *)
(* Every action is at most one SQLite transaction, so what an actor read   *)
(* can be stale when it writes.  AgentEngine::transition validates the     *)
(* state its caller holds; append_next_event then writes unconditionally.  *)
(*                                                                         *)
(* Time is a choice: a job may be past its expiry, its back-off or its     *)
(* uncertainty deadline whenever the code asks.  What the executor reports *)
(* is a choice too.  What recovery makes of an interrupted spool intent is *)
(* module NativeHandoff's; here it is its outcome.                         *)
(***************************************************************************)
EXTENDS JobStates, Integers, FiniteSets

CONSTANTS
  Job,            \* job identifiers
  Printer,        \* printers of this queue
  PrinterOf,      \* the printer of a job
  CloudManaged,   \* jobs.cloud_managed
  Nil,            \* no record
  MaxFaults,      \* bound: failed transactions
  MaxCrashes      \* bound: process stops

ASSUME QueueAssumption ==
  /\ IsFiniteSet(Job) /\ PrinterOf \in [Job -> Printer] /\ CloudManaged \subseteq Job
  /\ Nil \notin BOOLEAN /\ MaxFaults \in Nat /\ MaxCrashes \in Nat

VARIABLES
  state,        \* jobs.state ("absent": no row)
  seq,          \* jobs.printer_sequence (0: no row)
  schedule,     \* job_reconciliation: Nil or the row's cancel_requested flag
  engine,       \* where run_once is, and what it read
  cancel,       \* the cancel_job command being applied
  recovering,   \* interrupted intents not yet looked at
  printed,      \* history: how often the OS took the job since it was released
  ambiguous,    \* handoffs the coordinator's journal holds as unresolved
  faults, crashes   \* the bounded counters

vars ==
  <<state, seq, schedule, engine, cancel, recovering, printed, ambiguous, faults, crashes>>

Waiting == {"queued_local", "failed_retryable"}
BeforeHandoff == {"preparing", "rendering", "spool_intent"}
\* States runnable_heads counts as executing.
Active == BeforeHandoff \cup {"accepted_by_spooler", "spooling", "printing"}
\* States request_cancel hands to the executor.
Native == {"accepted_by_spooler", "spooling", "printing", "blocked"}

LocalJob == [job : Job, state : JobState]
Item == [job : Job, state : JobState, cancel : BOOLEAN]
Result == {"accepted", "ambiguous", "retryable", "rejected"}
Engine ==
  [pc : {"idle"}] \cup [pc : {"expire"}, ids : SUBSET Job]
  \cup [pc : {"heads"}, heads : SUBSET LocalJob]
  \cup [pc : {"execute"}, heads : SUBSET LocalJob, job : Job, at : JobState]
  \cup [pc : {"submitted"}, heads : SUBSET LocalJob, job : Job, result : Result]
  \cup [pc : {"due"}, items : SUBSET Item]
  \cup [pc : {"apply"}, items : SUBSET Item, item : Item, to : JobState]
  \cup [pc : {"finish"}, items : SUBSET Item, job : Job]

TypeOK ==
  /\ state \in [Job -> JobState \cup {"absent"}]
  /\ seq \in [Job -> Nat]
  /\ schedule \in [Job -> BOOLEAN \cup {Nil}]
  /\ engine \in Engine
  /\ cancel \in [job : Job, before : BOOLEAN, requested : BOOLEAN] \cup {Nil}
  /\ recovering \subseteq Job
  /\ printed \in [Job -> Nat] /\ ambiguous \subseteq Job
  /\ faults \in Nat /\ crashes \in Nat

Idle == [pc |-> "idle"]

Init ==
  /\ state = [j \in Job |-> "absent"] /\ seq = [j \in Job |-> 0]
  /\ schedule = [j \in Job |-> Nil]
  /\ engine = Idle /\ cancel = Nil /\ recovering = {}
  /\ printed = [j \in Job |-> 0] /\ ambiguous = {} /\ faults = 0 /\ crashes = 0

-----------------------------------------------------------------------------
(* Arrival.                                                                *)

NextSequence(p) == 1 + Cardinality({j \in Job : PrinterOf[j] = p /\ seq[j] # 0})

\* accept_job_with_facts; prepare_cloud_job_with_facts and activate_cloud_job.
AcceptJob(j) ==
  /\ state[j] = "absent" /\ IF j \in CloudManaged THEN cancel = Nil ELSE engine = Idle
  /\ state' = [state EXCEPT ![j] = "queued_local"]
  /\ seq' = [seq EXCEPT ![j] = NextSequence(PrinterOf[j])]
  /\ UNCHANGED <<schedule, engine, cancel, recovering, printed, ambiguous, faults, crashes>>

\* A new offer of a job that failed before the handoff keeps its place.
PrepareAgain(j) ==
  /\ j \in CloudManaged /\ state[j] = "failed_retryable" /\ cancel = Nil
  /\ state' = [state EXCEPT ![j] = "queued_local"]
  /\ UNCHANGED <<seq, schedule, engine, cancel, recovering, printed, ambiguous, faults, crashes>>

-----------------------------------------------------------------------------
(* run_once, up to the heads.                                              *)

Runnable(j) ==
  state[j] = "queued_local" \/ (state[j] = "failed_retryable" /\ j \notin CloudManaged)

\* Mutants of RunnableHeads: a printer that executes a job is not withheld;
\* a job in its back-off loses its place.
HeadsNotWithheld ==
  {[job |-> j, state |-> state[j]] :
     j \in {k \in Job : /\ Runnable(k)
                       /\ \A i \in Job : PrinterOf[i] = PrinterOf[k] /\ Runnable(i)
                            => seq[i] >= seq[k]}}
HeadsOvertaking ==
  {[job |-> j, state |-> state[j]] :
     j \in {k \in Job :
              /\ Runnable(k)
              /\ \A i \in Job : PrinterOf[i] = PrinterOf[k] =>
                   /\ state[i] \notin Active
                   /\ state[i] = "queued_local" => seq[i] >= seq[k]}}

\* The first runnable job of a printer that executes none.  A job in its
\* back-off keeps its place at the head.
RunnableHeads ==
  {[job |-> j, state |-> state[j]] :
     j \in {k \in Job :
              /\ Runnable(k)
              /\ \A i \in Job : PrinterOf[i] = PrinterOf[k] =>
                   /\ state[i] \notin Active
                   /\ Runnable(i) => seq[i] >= seq[k]}}

\* Mutant: whatever is not being executed.
ExpirableUnlessActive == {j \in Job : state[j] \notin Active \cup {"absent"}}

ExpirableJobs == {j \in Job : state[j] \in Waiting}

StartRun ==
  /\ engine = Idle /\ recovering = {}
  /\ \E expired \in SUBSET ExpirableJobs : engine' = [pc |-> "expire", ids |-> expired]
  /\ UNCHANGED <<state, seq, schedule, cancel, recovering, printed, ambiguous, faults, crashes>>

\* expire_waiting: one transaction per job it found.
ExpireWaiting ==
  /\ engine.pc = "expire"
  /\ \E j \in engine.ids :
       /\ state' = [state EXCEPT ![j] = "expired"]
       /\ engine' = [engine EXCEPT !.ids = @ \ {j}]
  /\ UNCHANGED <<seq, schedule, cancel, recovering, printed, ambiguous, faults, crashes>>

\* Only a job in back-off can be left out for another time.
ReadHeads ==
  /\ engine.pc = "expire" /\ engine.ids = {}
  /\ \E due \in SUBSET {h \in RunnableHeads : h.state = "failed_retryable"} :
       engine' = [pc |-> "heads",
                  heads |-> {h \in RunnableHeads : h.state = "queued_local"} \cup due]
  /\ UNCHANGED <<state, seq, schedule, cancel, recovering, printed, ambiguous, faults, crashes>>

-----------------------------------------------------------------------------
(* execute_job.                                                            *)

ExecuteJob ==
  /\ engine.pc = "heads"
  /\ \E h \in engine.heads :
       engine' = [pc |-> "execute", heads |-> engine.heads \ {h}, job |-> h.job,
                  at |-> h.state]
  /\ UNCHANGED <<state, seq, schedule, cancel, recovering, printed, ambiguous, faults, crashes>>

\* What execute_job writes next, from what it wrote last: a retry is queued
\* first, and PDF content is rendered.
NextStep(at) ==
  CASE at = "failed_retryable" -> {"queued_local"}
    [] at = "queued_local" -> {"preparing"}
    [] at = "preparing" -> {"rendering", "spool_intent", "failed_terminal"}
    [] at = "rendering" -> {"spool_intent"}
    [] OTHER -> {}

\* AgentEngine::transition of the job in hand.
AdvanceJob ==
  /\ engine.pc = "execute"
  /\ \E to \in NextStep(engine.at) :
       /\ CanTransition(engine.at, to)
       /\ state' = [state EXCEPT ![engine.job] = to]
       /\ engine' = IF to = "failed_terminal" THEN [pc |-> "heads", heads |-> engine.heads]
                    ELSE [engine EXCEPT !.at = to]
  /\ UNCHANGED <<seq, schedule, cancel, recovering, printed, ambiguous, faults, crashes>>

\* executor.submit: a reported acceptance is one, a reported failure is not
\* unless it says that it may be.
Submit(result) ==
  /\ engine.pc = "execute" /\ engine.at = "spool_intent"
  /\ \E taken \in (CASE result = "accepted" -> {1} [] result = "ambiguous" -> {0, 1}
                     [] OTHER -> {0}) :
       printed' = [printed EXCEPT ![engine.job] = @ + taken]
  /\ engine' = [pc |-> "submitted", heads |-> engine.heads, job |-> engine.job,
                result |-> result]
  /\ ambiguous' = IF result = "ambiguous" THEN ambiguous \cup {engine.job} ELSE ambiguous
  /\ UNCHANGED <<state, seq, schedule, cancel, recovering, faults, crashes>>

\* Mutant: an ambiguous failure is retried.
FailureStateRetried(result) ==
  IF result \in {"ambiguous", "retryable"} THEN "failed_retryable" ELSE "failed_terminal"

\* The state a failed submission is recorded with.
FailureState(result) ==
  CASE result = "ambiguous" -> "delivery_uncertain"
    [] result = "retryable" -> "failed_retryable"
    [] OTHER -> "failed_terminal"

\* Run over: the tick projects the evidence of local intents left behind.
EndRun == engine' = Idle /\ recovering' = {j \in Job \ CloudManaged : state'[j] = "spool_intent"}

\* record_native_acceptance and record_local_retryable_failure insist on
\* the intent and fail the run without it; the other failures do not.
RecordResult ==
  /\ engine.pc = "submitted"
  /\ LET j == engine.job
         guarded == engine.result = "accepted"
                      \/ (engine.result = "retryable" /\ j \notin CloudManaged)
         onward == [pc |-> "heads", heads |-> engine.heads]
     IN \/ /\ guarded /\ state[j] # "spool_intent"
           /\ UNCHANGED <<state, schedule>> /\ EndRun
        \/ /\ engine.result = "accepted" /\ state[j] = "spool_intent"
           /\ state' = [state EXCEPT ![j] = "accepted_by_spooler"]
           /\ schedule' = [schedule EXCEPT ![j] = IF @ = Nil THEN FALSE ELSE @]
           /\ engine' = onward /\ UNCHANGED recovering
        \/ /\ engine.result # "accepted" /\ (guarded => state[j] = "spool_intent")
           /\ state' = [state EXCEPT ![j] = FailureState(engine.result)]
           /\ engine' = onward /\ UNCHANGED <<schedule, recovering>>
  /\ UNCHANGED <<seq, cancel, printed, ambiguous, faults, crashes>>

-----------------------------------------------------------------------------
(* reconcile_due.                                                          *)

DueItems ==
  {[job |-> j, state |-> state[j], cancel |-> schedule[j]] :
     j \in {k \in Job : schedule[k] # Nil /\ state[k] \in Native \cup {"cancel_requested"}}}

ReadDue ==
  /\ engine.pc = "heads" /\ engine.heads = {}
  /\ \E due \in SUBSET DueItems : engine' = [pc |-> "due", items |-> due]
  /\ UNCHANGED <<state, seq, schedule, cancel, recovering, printed, ambiguous, faults, crashes>>

\* Mutant: a state the state machine does not have.
ObservedMisnamed(s, seen, late) ==
  IF seen \in {"missing", "error"} /\ late THEN "handoff_uncertain" ELSE s

\* apply_native_observation: the state an item in state s is moved to.
Observed(s, seen, late) ==
  CASE seen = "queued" /\ s \in {"accepted_by_spooler", "blocked"} -> "spooling"
    [] seen = "printing" /\ s \in {"accepted_by_spooler", "spooling", "blocked"} -> "printing"
    [] seen = "blocked" -> "blocked"
    [] seen = "completed" -> "completed_reported"
    [] seen = "failed" -> "failed_terminal"
    [] seen = "cancelled" -> "cancelled"
    [] seen \in {"missing", "error"} /\ late -> "delivery_uncertain"
    [] OTHER -> s

\* reconcile_cancellation.
Cancelled(s, seen, late) ==
  CASE seen = "cancelled" -> "cancelled" [] late -> "delivery_uncertain" [] OTHER -> s

\* reconcile_item: the executor answers and the attempt is recorded, which
\* withdraws the request to cancel.
ReconcileItem(seen, late) ==
  /\ engine.pc = "due"
  /\ \E i \in engine.items :
       LET cancelling == i.cancel \/ i.state = "cancel_requested"
           to == IF cancelling THEN Cancelled(i.state, seen, late)
                 ELSE Observed(i.state, seen, late)
       IN /\ cancelling => seen \in {"cancelled", "error"}
          /\ engine' = [pc |-> "apply", items |-> engine.items \ {i}, item |-> i, to |-> to]
          /\ schedule' = [schedule EXCEPT ![i.job] = FALSE]
  /\ UNCHANGED <<state, seq, cancel, recovering, printed, ambiguous, faults, crashes>>

\* transition_if_needed of the item read, whatever the job's state is now.
ApplyVerdict ==
  /\ engine.pc = "apply"
  /\ LET i == engine.item
         onward == IF engine.to \in Terminal
                   THEN [pc |-> "finish", items |-> engine.items, job |-> i.job]
                   ELSE [pc |-> "due", items |-> engine.items]
     IN \/ engine.to = i.state /\ engine' = onward /\ UNCHANGED <<state, recovering>>
        \/ /\ engine.to # i.state /\ CanTransition(i.state, engine.to)
           /\ state' = [state EXCEPT ![i.job] = engine.to]
           /\ engine' = onward /\ UNCHANGED recovering
        \/ /\ engine.to # i.state /\ ~CanTransition(i.state, engine.to)
           /\ UNCHANGED state /\ EndRun
  /\ UNCHANGED <<seq, schedule, cancel, printed, ambiguous, faults, crashes>>

FinishReconciliation ==
  /\ engine.pc = "finish"
  /\ schedule' = [schedule EXCEPT ![engine.job] = Nil]
  /\ engine' = [pc |-> "due", items |-> engine.items]
  /\ UNCHANGED <<state, seq, cancel, recovering, printed, ambiguous, faults, crashes>>

FinishRun ==
  /\ engine.pc = "due" /\ engine.items = {}
  /\ UNCHANGED state /\ EndRun
  /\ UNCHANGED <<seq, schedule, cancel, printed, ambiguous, faults, crashes>>

-----------------------------------------------------------------------------
(* request_cancel, for a job the server cancels: a read, then two           *)
(* transactions.  In any other state the command changes nothing.           *)

RequestCancel(j) ==
  /\ j \in CloudManaged /\ cancel = Nil /\ state[j] \in Waiting \cup Native
  /\ cancel' = [job |-> j, before |-> state[j] \in Waiting, requested |-> FALSE]
  /\ UNCHANGED <<state, seq, schedule, engine, recovering, printed, ambiguous, faults, crashes>>

RecordCancelRequest ==
  /\ cancel # Nil /\ ~cancel.requested
  /\ state' = [state EXCEPT ![cancel.job] = "cancel_requested"]
  /\ cancel' = [cancel EXCEPT !.requested = TRUE]
  /\ UNCHANGED <<seq, schedule, engine, recovering, printed, ambiguous, faults, crashes>>

\* Cancelled outright before the handoff, left to the executor after it.
CompleteCancel ==
  /\ cancel # Nil /\ cancel.requested
  /\ IF cancel.before
     THEN state' = [state EXCEPT ![cancel.job] = "cancelled"] /\ UNCHANGED schedule
     ELSE /\ schedule' = [schedule EXCEPT ![cancel.job] = IF @ = Nil THEN Nil ELSE TRUE]
          /\ UNCHANGED state
  /\ cancel' = Nil
  /\ UNCHANGED <<seq, engine, recovering, printed, ambiguous, faults, crashes>>

-----------------------------------------------------------------------------
(* Failures.                                                               *)

\* A transaction of the engine fails (storage error, or an event sequence
\* taken by the other task): run_once returns.
AbortRun ==
  /\ engine # Idle /\ faults < MaxFaults /\ faults' = faults + 1
  /\ UNCHANGED state /\ EndRun
  /\ UNCHANGED <<seq, schedule, cancel, printed, ambiguous, crashes>>

\* A transaction of the command fails.
AbortCancel ==
  /\ cancel # Nil /\ faults < MaxFaults /\ faults' = faults + 1
  /\ cancel' = Nil
  /\ UNCHANGED <<state, seq, schedule, engine, recovering, printed, ambiguous, crashes>>

Crash ==
  /\ crashes < MaxCrashes /\ crashes' = crashes + 1
  /\ engine' = Idle /\ cancel' = Nil
  /\ recovering' = {j \in Job : state[j] = "spool_intent"}
  /\ UNCHANGED <<state, seq, schedule, printed, ambiguous, faults>>

\* What module NativeHandoff's recovery makes of an interrupted intent; a
\* local one the coordinator knows nothing of is left as it is.
Recovered(j) ==
  CASE j \in ambiguous -> {"delivery_uncertain"}
    [] j \notin ambiguous /\ printed[j] > 0 -> {"accepted_by_spooler", "delivery_uncertain"}
    [] OTHER -> {"failed_retryable", "delivery_uncertain"}
                \cup (IF j \in CloudManaged THEN {} ELSE {"spool_intent"})

Uncertain(j, to) ==
  IF to = "delivery_uncertain" THEN ambiguous \cup {j} ELSE ambiguous

\* Mutant: a recovered acceptance is not scheduled for observation.
RecoverUnscheduled(j) ==
  /\ engine = Idle /\ j \in recovering
  /\ \E to \in Recovered(j) :
       state' = [state EXCEPT ![j] = to] /\ ambiguous' = Uncertain(j, to)
  /\ recovering' = recovering \ {j}
  /\ UNCHANGED <<seq, schedule, engine, cancel, printed, faults, crashes>>

RecoverIntent(j) ==
  /\ engine = Idle /\ j \in recovering
  /\ \E to \in Recovered(j) :
       /\ state' = [state EXCEPT ![j] = to]
       /\ schedule' = IF to = "accepted_by_spooler" THEN [schedule EXCEPT ![j] = FALSE]
                      ELSE schedule
       /\ ambiguous' = Uncertain(j, to)
  /\ recovering' = recovering \ {j}
  /\ UNCHANGED <<seq, engine, cancel, printed, faults, crashes>>

-----------------------------------------------------------------------------
(* An operator resolves an ambiguous handoff, of which the coordinator has *)
(* the exact proof: the job is released for another attempt, or confirmed  *)
(* as accepted, which leaves its row as it is.                             *)

Release(j) ==
  /\ state' = [state EXCEPT ![j] = "failed_retryable"]
  /\ printed' = [printed EXCEPT ![j] = 0]

Confirm == UNCHANGED <<state, printed>>

\* Local: between two runs, with a look at the intents left behind.
ResolveLocal(j) ==
  /\ engine = Idle /\ recovering = {}
  /\ j \in ambiguous \ CloudManaged /\ state[j] = "delivery_uncertain"
  /\ Release(j) \/ Confirm
  /\ ambiguous' = ambiguous \ {j} /\ EndRun
  /\ UNCHANGED <<seq, schedule, cancel, faults, crashes>>

\* By a command of the server, beside the engine; a released job waits for
\* another offer.
ResolveCloud(j) ==
  /\ cancel = Nil
  /\ j \in ambiguous \cap CloudManaged /\ state[j] = "delivery_uncertain"
  /\ Release(j) \/ Confirm
  /\ ambiguous' = ambiguous \ {j}
  /\ UNCHANGED <<seq, schedule, engine, cancel, recovering, faults, crashes>>

-----------------------------------------------------------------------------
EngineStep ==
  \/ StartRun \/ ExpireWaiting \/ ReadHeads \/ ExecuteJob \/ AdvanceJob \/ RecordResult
  \/ \E r \in Result : Submit(r)
  \/ ReadDue \/ ApplyVerdict \/ FinishReconciliation \/ FinishRun
  \/ \E seen \in {"queued", "printing", "blocked", "completed", "failed", "cancelled",
                  "missing", "error"}, late \in BOOLEAN : ReconcileItem(seen, late)

WorkerStep == RecordCancelRequest \/ CompleteCancel

Next ==
  \/ EngineStep \/ WorkerStep
  \/ \E j \in Job : AcceptJob(j) \/ PrepareAgain(j) \/ RequestCancel(j) \/ RecoverIntent(j)
                     \/ ResolveLocal(j) \/ ResolveCloud(j)
  \/ AbortRun \/ AbortCancel \/ Crash

Spec == Init /\ [][Next]_vars

(* The scheduler ticks every 250 ms and an iteration runs to its end, as   *)
(* does a command being applied and the recovery of an interrupted intent. *)
FairSpec ==
  Spec /\ WF_vars(EngineStep) /\ WF_vars(WorkerStep)
       /\ \A j \in Job : WF_vars(RecoverIntent(j))

-----------------------------------------------------------------------------
SamePrinter(j, k) == j # k /\ PrinterOf[j] = PrinterOf[k]
Driving(j) == engine.pc \in {"execute", "submitted"} /\ engine.job = j

(* "A printer already executing a job is withheld to preserve the serial   *)
(* handoff invariant" (runnable_heads): one job of a printer at most is    *)
(* between its queue and the spooler, also when one was left there by a    *)
(* failed run or a stop, or overwritten by a cancellation.                 *)
SerialHandoff ==
  \A j, k \in Job : SamePrinter(j, k) =>
    ~(state[j] \in BeforeHandoff /\ (state[k] \in BeforeHandoff \/ Driving(k)))

(* A job is handed over only when no earlier local job of its printer      *)
(* waits, so a retry in its back-off is not overtaken (runnable_heads).    *)
SubmissionOrder ==
  \A j, k \in Job : SamePrinter(j, k) /\ Driving(k) /\ seq[j] < seq[k] =>
    ~(j \notin CloudManaged /\ state[j] \in Waiting)

(* A job the spooler has is scheduled for observation until it is settled  *)
(* (record_native_acceptance, finish_reconciliation), whatever order stale *)
(* observations and cancellations are applied in.                          *)
TrackedWhileNative == \A j \in Job : state[j] \in Native => schedule[j] # Nil

(* "do not automatically retry an uncertain job": across failed runs, stops *)
(* and retries the OS takes a job once at most for every time an operator   *)
(* releases it.                                                             *)
PrintedOnce == \A j \in Job : printed[j] <= 1

(* A local job in a terminal state stays there, through stale reads and     *)
(* recovery; an operator alone reopens it, by the release of a handoff that *)
(* the coordinator holds as ambiguous, and once for each such handoff       *)
(* (release_uncertain_local_handoff_for_retry).  A job that is uncertain    *)
(* for want of an observation, or confirmed as accepted, is not reopened.   *)
OnlyReleaseReopens ==
  [][\A j \in Job \ CloudManaged :
       state[j] \in Terminal /\ state'[j] # state[j] =>
         /\ state[j] = "delivery_uncertain" /\ state'[j] = "failed_retryable"
         /\ j \in ambiguous /\ j \notin ambiguous']_vars

(* "Cancellation is confirmed at the deepest controlled stage" (docs/04): *)
(* a job recorded as cancelled is not taken up again by an engine that     *)
(* read it before the cancellation (execute_job on a stale head).          *)
CancellationIsFinal ==
  [][\A j \in Job : state[j] = "cancelled" => state'[j] = "cancelled"]_vars

(* "A crash before `spool_intent` is safely retryable": a job interrupted  *)
(* while it was prepared leaves that state again.                          *)
InterruptedIsRetried ==
  \A j \in Job : (state[j] \in {"preparing", "rendering"} /\ ~Driving(j))
                   ~> state[j] \notin {"preparing", "rendering"}
=============================================================================
