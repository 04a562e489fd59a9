--------------------------- MODULE UpdateGuardian ---------------------------
(* The update guardian of a node: one durable state machine that stages a   *)
(* verified release, activates it, watches its health and rolls it back.    *)
(* The journal keeps the last complete record; the process works on its own *)
(* copy and may stop between any two steps, also between the platform's     *)
(* work and the record of it.  The platform (RuntimeManager, RuntimeHealth) *)
(* is external: it answers truthfully, and may fail, also to answer at all. *)
EXTENDS Integers

CONSTANTS
  LastRelease,        \* releases and metadata versions are numbered up to it
  MaxHealthAttempts,  \* max_health_attempts of the configuration
  Capacity,           \* records that fit into the journal
  GuardianFaults,     \* bound: failed appends and stops
  Down                \* no process, no command, no plan

ASSUME GuardianAssumption ==
  /\ LastRelease \in Nat /\ Capacity \in Nat /\ GuardianFaults \in Nat
  /\ MaxHealthAttempts \in Nat \ {0}
  /\ Down \notin [release : 0..LastRelease, metadata : 0..LastRelease]
  /\ Down \notin [staged : 0..LastRelease, previous : 0..LastRelease]

VARIABLES
  journal,     \* the last complete record on disk
  memory,      \* the state of the running process, or Down
  step,        \* what the step under way has done with the platform
  running,     \* the release the platform runs
  proven,      \* the releases that have been observed healthy
  lostRollback,\* a restoration of the previous release has failed
  silent,      \* the platform's observations end in an error
  mishaps      \* faults so far

guardianVars ==
  <<journal, memory, step, running, proven, lostRollback, silent, mishaps>>

Release == 0..LastRelease
UpdateCommand == [release : Release, metadata : Release]
RuntimePlan == [staged : Release, previous : Release]
Phases == {"idle", "awaiting_idle", "staging", "staged", "activating",
           "health_checking", "rolling_back", "completed", "rolled_back", "failed"}
Steps == {"none", "stage", "activate", "activated", "refused",
          "restored", "unrestored"}

GuardianState ==
  [sequence : 0..Capacity, installed : Release, trusted : Release,
   command : UpdateCommand \cup {Down}, phase : Phases,
   plan : RuntimePlan \cup {Down}, attempts : 0..MaxHealthAttempts]

ASSUME DownAssumption == Down \notin GuardianState

GuardianTypeOK ==
  /\ journal \in GuardianState
  /\ memory \in GuardianState \cup {Down}
  /\ step \in Steps
  /\ running \in Release
  /\ proven \subseteq Release
  /\ lostRollback \in BOOLEAN /\ silent \in BOOLEAN
  /\ mishaps \in 0..GuardianFaults

initial ==
  [sequence |-> 0, installed |-> 0, trusted |-> 0, command |-> Down,
   phase |-> "idle", plan |-> Down, attempts |-> 0]

GuardianInit ==
  /\ journal = initial /\ memory = initial /\ step = "none"
  /\ running = 0 /\ proven = {0} /\ lostRollback = FALSE
  /\ silent = FALSE /\ mishaps = 0

Settled(s) == s.phase \in {"idle", "completed", "rolled_back", "failed"}

(***************************************************************************)
(* append: the record must be newer than the journal's and must fit.  A    *)
(* failed append leaves the process with its earlier state, but the record *)
(* may have reached the disk before its synchronisation failed.            *)
(***************************************************************************)
validate_loaded_state(s) ==
  s.sequence > journal.sequence /\ s.trusted >= journal.trusted

\* Mutant: nothing bounds the journal.
AppendableAlways(s) == validate_loaded_state(s)

Appendable(s) == validate_loaded_state(s) /\ s.sequence <= Capacity

append(s, prior) ==
  \/ /\ Appendable(s)
     /\ journal' = s /\ memory' = s /\ UNCHANGED mishaps
  \/ /\ ~Appendable(s)
     /\ memory' = prior /\ UNCHANGED <<journal, mishaps>>
  \/ /\ Appendable(s) /\ mishaps < GuardianFaults
     /\ mishaps' = mishaps + 1
     /\ journal' \in {journal, s} /\ memory' = prior

Successor(phase, plan, attempts) ==
  [memory EXCEPT !.sequence = @ + 1, !.phase = phase, !.plan = plan,
                 !.attempts = attempts]

transition(phase, plan, attempts) ==
  append(Successor(phase, plan, attempts), memory)

platform == <<running, proven, lostRollback, silent>>

(***************************************************************************)
(* The operations.                                                         *)
(***************************************************************************)
\* open: the last durable state.
open ==
  /\ memory = Down /\ memory' = journal
  /\ UNCHANGED <<journal, step, mishaps, platform>>

\* request: a newer release under newer metadata, and no update under way.
request(c) ==
  /\ memory /= Down /\ step = "none"
  /\ c.release > memory.installed /\ c.metadata > memory.trusted
  /\ Settled(memory)
  /\ LET asked == [memory EXCEPT !.command = c]
     IN append([asked EXCEPT !.sequence = @ + 1, !.phase = "awaiting_idle",
                             !.plan = Down, !.attempts = 0], asked)
  /\ UNCHANGED <<step, platform>>

\* advance, by the phase the process is in.
In(phase) == memory /= Down /\ step = "none" /\ memory.phase = phase

\* Mutant: the platform is called although the intent was not recorded.
ThenAnyway(phase, plan, next) ==
  /\ transition(phase, plan, 0)
  /\ step' = next
  /\ UNCHANGED platform

\* The record precedes what the platform is asked next.
Then(phase, plan, next) ==
  /\ transition(phase, plan, 0)
  /\ step' = IF memory' = Successor(phase, plan, 0) THEN next ELSE "none"
  /\ UNCHANGED platform

\* The step ends with this record.
Ends(phase, plan, attempts) ==
  /\ transition(phase, plan, attempts)
  /\ step' = "none" /\ UNCHANGED platform

AwaitIdle(ready) ==
  /\ In("awaiting_idle")
  /\ IF ready THEN Then("staging", Down, "stage")
              ELSE Ends("awaiting_idle", Down, 0)

\* The platform resolves the runtime it replaces: the one that runs.
stage ==
  /\ step = "stage"
  /\ \/ Ends("staged", [staged |-> memory.command.release, previous |-> running], 0)
     \/ Ends("failed", Down, 0)

StageInterrupted == In("staging") /\ Ends("failed", Down, 0)

BeginActivation(ready) ==
  In("staged") /\ ready /\ Then("activating", memory.plan, "activate")

\* A refused activation may have selected the staged runtime or not.
activate ==
  /\ step = "activate"
  /\ \/ running' = memory.plan.staged /\ step' = "activated"
     \/ running' \in {running, memory.plan.staged} /\ step' = "refused"
  /\ UNCHANGED <<journal, memory, proven, lostRollback, silent, mishaps>>

begin_health == Ends("health_checking", memory.plan, 0)
begin_rollback == Ends("rolling_back", memory.plan, 0)

Activated == step = "activated" /\ begin_health
ActivationRefused == step = "refused" /\ begin_rollback

\* Mutant: an activation of unknown outcome is given up instead of rolled back.
ObserveActivationGivesUp(ready) ==
  /\ In("activating") /\ ~silent
  /\ \/ running = memory.plan.staged /\ begin_health
     \/ /\ running /= memory.plan.staged /\ ready
        /\ step' = "activate" /\ UNCHANGED <<journal, memory, mishaps, platform>>
     \/ Ends("failed", Down, 0)

\* An error of the observation ends the step; nothing is recorded.
ObserveActivation(ready) ==
  /\ In("activating") /\ ~silent
  /\ \/ running = memory.plan.staged /\ begin_health
     \/ /\ running /= memory.plan.staged /\ ready
        /\ step' = "activate" /\ UNCHANGED <<journal, memory, mishaps, platform>>
     \/ begin_rollback

complete ==
  /\ append([Successor("completed", memory.plan, 0) EXCEPT
               !.installed = memory.plan.staged,
               !.trusted = memory.command.metadata], memory)
  /\ step' = "none" /\ proven' = proven \cup {running}
  /\ UNCHANGED <<running, lostRollback, silent>>

\* Still pending: the deadline and the attempts bound the wait.
Pending(late) ==
  IF late \/ memory.attempts + 1 >= MaxHealthAttempts
  THEN begin_rollback
  ELSE Ends("health_checking", memory.plan, memory.attempts + 1)

\* An error of the observation ends the step before the attempt is counted and
\* before the deadline is looked at.
CheckHealth ==
  /\ In("health_checking") /\ ~silent
  /\ \/ running = memory.plan.staged /\ complete
     \/ begin_rollback
     \/ \E late \in BOOLEAN : Pending(late)

restore_previous ==
  /\ In("rolling_back")
  /\ \/ running' = memory.plan.previous /\ step' = "restored" /\ UNCHANGED lostRollback
     \/ step' = "unrestored" /\ lostRollback' = TRUE /\ UNCHANGED running
  /\ UNCHANGED <<journal, memory, proven, silent, mishaps>>

Restored == step = "restored" /\ Ends("rolled_back", memory.plan, 0)

\* Mutant: a failed restoration is tried again, and nothing bounds the tries.
RestoreFailedAgain ==
  /\ step = "unrestored" /\ step' = "none"
  /\ UNCHANGED <<journal, memory, mishaps, platform>>

RestoreFailed == step = "unrestored" /\ Ends("failed", Down, 0)

advance ==
  \/ \E ready \in BOOLEAN :
       AwaitIdle(ready) \/ BeginActivation(ready) \/ ObserveActivation(ready)
  \/ stage \/ StageInterrupted
  \/ activate \/ Activated \/ ActivationRefused
  \/ CheckHealth
  \/ restore_previous \/ Restored \/ RestoreFailed

\* RuntimeHealth::observe and RuntimeManager::observe_activation begin to fail,
\* or to answer again.
ObservationsChange ==
  /\ silent' = ~silent
  /\ UNCHANGED <<journal, memory, step, running, proven, lostRollback, mishaps>>

GuardianStops ==
  /\ memory /= Down /\ mishaps < GuardianFaults
  /\ mishaps' = mishaps + 1 /\ memory' = Down /\ step' = "none"
  /\ UNCHANGED <<journal, platform>>

GuardianNext ==
  \/ open \/ advance \/ GuardianStops \/ ObservationsChange
  \/ \E c \in UpdateCommand : request(c)

GuardianSpec == GuardianInit /\ [][GuardianNext]_guardianVars

\* The host opens the guardian when it starts and calls advance for ever.
GuardianFairness == WF_guardianVars(open) /\ WF_guardianVars(advance)

(***************************************************************************)
(* Properties.                                                             *)
(***************************************************************************)
\* Whenever the journal says no update is under way, the platform runs the
\* release the journal calls installed, and that release has been healthy,
\* unless a restoration has failed: an activation of which the outcome is
\* lost (a stop, a failed append, an unknown answer) is never taken for none.
SettledRunsInstalled ==
  Settled(journal) /\ ~lostRollback =>
    running = journal.installed /\ running \in proven

\* "records every intent before a side effect" (lib.rs:5): the platform
\* changes the running release only to, or back from, the release of the
\* command on disk, and only once an activation of it is on disk.
EffectIsRecorded ==
  [][running' /= running =>
       /\ journal.command /= Down
       /\ journal.command.release \in {running, running'}
       /\ journal.phase \in {"activating", "health_checking", "rolling_back",
                            "failed"}]_guardianVars

\* A full journal, or a record that reached the disk although its append
\* failed, refuses every further record of this process.
Wedged ==
  \/ journal.sequence = Capacity
  \/ memory /= Down /\ memory.sequence < journal.sequence

\* "bounds health checks" (lib.rs:6), as far as the code does: a release under
\* observation is completed, rolled back or reported failed, however often its
\* health is pending and the process stops, as long as the journal takes
\* records, and once observations no longer end in errors.  While they do, no
\* attempt is counted and no deadline is looked at, and nothing bounds the wait.
HealthCheckEnds ==
  <>[]~silent =>
    (journal.phase \in {"health_checking", "rolling_back"} ~>
       Settled(journal) \/ Wedged)
=============================================================================
