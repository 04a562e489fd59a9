---------------------- MODULE BackgroundServicesProofs ----------------------
(* Proofs about the update guardian, the webhook outbox and the resource    *)
(* store, and the composition of the services.                              *)
EXTENDS BackgroundServices, DocumentRendersProofs

(***************************************************************************)
(* The update guardian.                                                    *)
(***************************************************************************)
UnderActivation == {"activating", "health_checking", "rolling_back"}

\* What a record says of the platform: before an activation the installed
\* release runs; from the plan on, the staged or the previous release does.
Tells(s, run, healthy, lost) ==
  /\ s.phase \in {"awaiting_idle", "staging"} => s.command /= Down
  /\ s.phase \in {"staged"} \cup UnderActivation =>
       /\ s.command /= Down /\ s.plan /= Down
       /\ s.plan.staged = s.command.release
       /\ run \in {s.plan.staged, s.plan.previous}
       /\ s.phase = "staged" => run = s.plan.previous
       /\ ~lost => s.plan.previous = s.installed /\ s.installed \in healthy
  /\ s.phase \notin UnderActivation /\ ~lost => run = s.installed /\ run \in healthy

\* The process has what is on disk, or its last record reached the disk
\* although its append failed: then no record of the process is taken, and
\* what it still does with the platform agrees with the record.
InStep ==
  \/ /\ memory.sequence = journal.sequence
     /\ Settled(memory) \/ memory = journal
  \/ /\ memory.sequence < journal.sequence
     /\ memory.phase = "activating" =>
          /\ journal.phase \in {"health_checking", "rolling_back"}
          /\ journal.plan = memory.plan /\ journal.command = memory.command
     /\ memory.phase = "rolling_back" =>
          \/ journal.phase = "rolled_back" /\ running = memory.plan.previous
          \/ journal.phase = "failed" /\ lostRollback /\ journal.command = memory.command

\* What the step under way has established.
StepIsTrue ==
  /\ step = "stage" => memory.phase = "staging"
  /\ step \in {"activate", "activated", "refused"} => memory.phase = "activating"
  /\ step = "restored" => memory.phase = "rolling_back" /\ running = memory.plan.previous
  /\ step = "unrestored" => memory.phase = "rolling_back" /\ lostRollback

GuardianInv ==
  /\ Tells(journal, running, proven, lostRollback)
  /\ memory = Down => step = "none"
  /\ memory /= Down =>
       Tells(memory, running, proven, lostRollback) /\ InStep /\ StepIsTrue

LEMMA GuardianInitKeeps == GuardianInit => GuardianTypeOK /\ GuardianInv
<1> SUFFICES ASSUME GuardianInit PROVE GuardianTypeOK /\ GuardianInv
  OBVIOUS
<1>1. initial \in GuardianState
  <2>1. 0 \in 0..Capacity /\ 0 \in Release /\ 0 \in 0..MaxHealthAttempts
    BY GuardianAssumption DEF Release
  <2> QED BY <2>1 DEF initial, GuardianState, Phases
<1>2. GuardianTypeOK
  <2>1. 0 \in Release /\ 0 \in 0..GuardianFaults
    BY GuardianAssumption DEF Release
  <2> QED BY <1>1, <2>1 DEF GuardianInit, GuardianTypeOK, Steps
<1>3. GuardianInv
  BY DEF GuardianInit, GuardianInv, Tells, InStep, StepIsTrue, initial, Settled,
         UnderActivation
<1> QED BY <1>2, <1>3

\* The fields of the process's state.
LEMMA MemoryFields ==
  ASSUME GuardianTypeOK, memory /= Down
  PROVE  /\ memory \in GuardianState
         /\ memory.sequence \in 0..Capacity /\ memory.installed \in Release
         /\ memory.trusted \in Release /\ memory.command \in UpdateCommand \cup {Down}
         /\ memory.phase \in Phases /\ memory.plan \in RuntimePlan \cup {Down}
         /\ memory.attempts \in 0..MaxHealthAttempts
         /\ memory.sequence \in Nat /\ journal.sequence \in Nat
BY GuardianAssumption DEF GuardianTypeOK, GuardianState

\* The fields of the next record.
LEMMA SuccessorFields ==
  ASSUME GuardianTypeOK, memory /= Down, NEW phase \in Phases,
         NEW plan \in RuntimePlan \cup {Down}, NEW attempts \in 0..MaxHealthAttempts
  PROVE  LET s == Successor(phase, plan, attempts)
         IN /\ s.sequence = memory.sequence + 1 /\ s.phase = phase /\ s.plan = plan
            /\ s.installed = memory.installed /\ s.command = memory.command
            /\ s.sequence <= Capacity => s \in GuardianState
<1> DEFINE s == Successor(phase, plan, attempts)
<1>1. /\ s.sequence = memory.sequence + 1 /\ s.phase = phase /\ s.plan = plan
      /\ s.installed = memory.installed /\ s.command = memory.command
  BY MemoryFields DEF Successor, GuardianState
<1>2. ASSUME s.sequence <= Capacity PROVE s \in GuardianState
  <2>1. memory.sequence + 1 \in 0..Capacity
    BY <1>1, <1>2, MemoryFields, GuardianAssumption
  <2> QED BY <2>1, MemoryFields DEF Successor, GuardianState
<1> QED BY <1>1, <1>2

\* One record of a process, whether it is taken, refused, or reaches the disk
\* although its append fails.
LEMMA RecordKeeps ==
  ASSUME GuardianTypeOK, GuardianInv, memory /= Down, NEW s, NEW prior, append(s, prior),
         s.sequence = memory.sequence + 1, s.sequence <= Capacity => s \in GuardianState,
         prior \in GuardianState, prior.sequence = memory.sequence, prior /= Down,
         prior = memory \/ Settled(prior),
         UNCHANGED <<running, lostRollback, silent>>,
         proven \subseteq proven', proven' \subseteq Release,
         Tells(s, running', proven', lostRollback'),
         Tells(prior, running, proven, lostRollback),
         prior.phase = "activating" =>
           /\ s.phase \in {"health_checking", "rolling_back"}
           /\ s.plan = prior.plan /\ s.command = prior.command,
         prior.phase = "rolling_back" =>
           \/ s.phase = "rolled_back" /\ running = prior.plan.previous
           \/ s.phase = "failed" /\ lostRollback /\ s.command = prior.command,
         \/ step' = "none"
         \/ step' = "stage" /\ memory' = s /\ s.phase = "staging"
         \/ step' = "activate" /\ memory' = s /\ s.phase = "activating"
  PROVE  GuardianTypeOK' /\ GuardianInv'
<1>1. Appendable(s) => /\ memory.sequence = journal.sequence /\ s \in GuardianState
                       /\ s.sequence > prior.sequence
  BY MemoryFields, GuardianAssumption DEF Appendable, validate_loaded_state, GuardianInv, InStep
<1>2. \/ journal' = s /\ memory' = s /\ Appendable(s)
      \/ journal' = journal /\ memory' = prior
      \/ journal' = s /\ memory' = prior /\ Appendable(s)
  BY DEF append
<1>3. mishaps' \in 0..GuardianFaults
  BY GuardianAssumption DEF append, GuardianTypeOK
<1>4. GuardianTypeOK'
  BY <1>1, <1>2, <1>3 DEF GuardianTypeOK, Steps
<1>5. \A x : Tells(x, running, proven, lostRollback) =>
               Tells(x, running', proven', lostRollback')
  BY DEF Tells
<1>6. Tells(journal', running', proven', lostRollback')
  BY <1>2, <1>5 DEF GuardianInv
<1>7. Tells(memory', running', proven', lostRollback')
  BY <1>2, <1>5
<1>8. InStep'
  <2>1. CASE journal' = s /\ memory' = s
    BY <2>1 DEF InStep
  <2>2. CASE journal' = journal /\ memory' = prior
    <3>1. CASE prior = memory
      <4>1. UNCHANGED <<memory, journal, running, lostRollback, silent>> /\ InStep
        BY <2>2, <3>1 DEF GuardianInv
      <4> QED BY <4>1 DEF InStep, Settled
    <3>2. CASE Settled(prior)
      BY <2>2, <3>2 DEF GuardianInv, InStep, Settled
    <3> QED BY <3>1, <3>2
  <2>3. CASE journal' = s /\ memory' = prior /\ Appendable(s)
    BY <1>1, <2>3, MemoryFields DEF InStep
  <2> QED BY <1>2, <2>1, <2>2, <2>3
<1>9. StepIsTrue'
  BY <1>2 DEF StepIsTrue
<1>10. memory' /= Down
  BY <1>1, <1>2, DownAssumption
<1> QED BY <1>4, <1>6, <1>7, <1>8, <1>9, <1>10 DEF GuardianInv

\* A step that records and asks the platform nothing, from any phase.
LEMMA EndsKeeps ==
  ASSUME GuardianTypeOK, GuardianInv, memory /= Down, NEW phase \in Phases,
         NEW plan \in RuntimePlan \cup {Down}, NEW attempts \in 0..MaxHealthAttempts,
         Ends(phase, plan, attempts),
         Tells(Successor(phase, plan, attempts), running, proven, lostRollback),
         memory.phase = "activating" =>
           phase \in {"health_checking", "rolling_back"} /\ plan = memory.plan,
         memory.phase = "rolling_back" =>
           \/ phase = "rolled_back" /\ running = memory.plan.previous
           \/ phase = "failed" /\ lostRollback
  PROVE  GuardianTypeOK' /\ GuardianInv'
<1> DEFINE s == Successor(phase, plan, attempts)
<1>1. /\ s.sequence = memory.sequence + 1 /\ s.phase = phase /\ s.plan = plan
      /\ s.command = memory.command
      /\ s.sequence <= Capacity => s \in GuardianState
  BY SuccessorFields
<1>2. /\ append(s, memory) /\ step' = "none" /\ UNCHANGED <<running, proven, lostRollback, silent>>
  BY DEF Ends, transition, platform
<1>3. /\ memory \in GuardianState /\ proven' \subseteq Release
      /\ Tells(memory, running, proven, lostRollback)
  BY <1>2, MemoryFields DEF GuardianTypeOK, GuardianInv
<1>4. Tells(s, running', proven', lostRollback')
  BY <1>2
<1> HIDE DEF s
<1> QED BY <1>1, <1>2, <1>3, <1>4, RecordKeeps

\* A step that records before it asks the platform.
LEMMA ThenKeeps ==
  ASSUME GuardianTypeOK, GuardianInv, memory /= Down, NEW phase,
         NEW plan \in RuntimePlan \cup {Down}, NEW next,
         \/ phase = "staging" /\ next = "stage"
         \/ phase = "activating" /\ next = "activate",
         Then(phase, plan, next), memory.phase \notin UnderActivation,
         Tells(Successor(phase, plan, 0), running, proven, lostRollback)
  PROVE  GuardianTypeOK' /\ GuardianInv'
<1> DEFINE s == Successor(phase, plan, 0)
<1>1. /\ s.sequence = memory.sequence + 1 /\ s.phase = phase /\ s.plan = plan
      /\ s.command = memory.command
      /\ s.sequence <= Capacity => s \in GuardianState
  <2>1. phase \in Phases /\ 0 \in 0..MaxHealthAttempts
    BY GuardianAssumption DEF Phases
  <2> QED BY <2>1, SuccessorFields
<1>2. /\ append(s, memory) /\ UNCHANGED <<running, proven, lostRollback, silent>>
      /\ step' = IF memory' = s THEN next ELSE "none"
  BY DEF Then, transition, platform
<1>3. /\ memory \in GuardianState /\ proven' \subseteq Release
      /\ Tells(memory, running, proven, lostRollback)
  BY <1>2, MemoryFields DEF GuardianTypeOK, GuardianInv
<1>4. Tells(s, running', proven', lostRollback')
  BY <1>2
<1>5. memory.phase # "activating" /\ memory.phase # "rolling_back"
  BY DEF UnderActivation
<1>6. \/ step' = "none"
      \/ step' = "stage" /\ memory' = s /\ s.phase = "staging"
      \/ step' = "activate" /\ memory' = s /\ s.phase = "activating"
  BY <1>1, <1>2
<1> HIDE DEF s
<1> QED BY <1>1, <1>2, <1>3, <1>4, <1>5, <1>6, RecordKeeps

\* Before the platform is asked for an activation.
LEMMA StagingKeeps ==
  ASSUME GuardianTypeOK, GuardianInv,
         \/ \E ready \in BOOLEAN : AwaitIdle(ready) \/ BeginActivation(ready)
         \/ stage \/ StageInterrupted
  PROVE  GuardianTypeOK' /\ GuardianInv'
<1>1. memory /= Down
  BY DEF AwaitIdle, BeginActivation, stage, StageInterrupted, In, GuardianInv
<1>2. /\ Tells(memory, running, proven, lostRollback) /\ StepIsTrue
      /\ 0 \in 0..MaxHealthAttempts /\ Down \in RuntimePlan \cup {Down}
      /\ {"staging", "awaiting_idle", "failed", "staged"} \subseteq Phases
  BY <1>1, GuardianAssumption DEF GuardianInv, Phases
<1>3. CASE \E ready \in BOOLEAN : AwaitIdle(ready)
  <2>1. memory.phase = "awaiting_idle"
    BY <1>3 DEF AwaitIdle, In
  <2>2. Tells(Successor("staging", Down, 0), running, proven, lostRollback)
    BY <1>1, <1>2, <2>1, SuccessorFields DEF Tells, UnderActivation
  <2>3. Tells(Successor("awaiting_idle", Down, 0), running, proven, lostRollback)
    BY <1>1, <1>2, <2>1, SuccessorFields DEF Tells, UnderActivation
  <2>4. CASE Then("staging", Down, "stage")
    BY <1>1, <1>2, <2>1, <2>2, <2>4, ThenKeeps DEF UnderActivation
  <2>5. CASE Ends("awaiting_idle", Down, 0)
    BY <1>1, <1>2, <2>1, <2>3, <2>5, EndsKeeps
  <2> QED BY <1>3, <2>4, <2>5 DEF AwaitIdle
<1>4. CASE \E ready \in BOOLEAN : BeginActivation(ready)
  <2>1. memory.phase = "staged" /\ Then("activating", memory.plan, "activate")
    BY <1>4 DEF BeginActivation, In
  <2>2. memory.plan \in RuntimePlan \cup {Down} /\ "activating" \in Phases
    BY <1>1, MemoryFields DEF Phases
  <2>3. Tells(Successor("activating", memory.plan, 0), running, proven, lostRollback)
    BY <1>1, <1>2, <2>1, <2>2, SuccessorFields DEF Tells, UnderActivation
  <2> QED BY <1>1, <2>1, <2>2, <2>3, ThenKeeps DEF UnderActivation
<1>5. CASE stage
  <2> DEFINE plan == [staged |-> memory.command.release, previous |-> running]
  <2>1. memory.phase = "staging" /\ memory.command \in UpdateCommand
    BY <1>1, <1>2, <1>5, MemoryFields DEF stage, StepIsTrue, Tells
  <2>2. plan \in RuntimePlan
    BY <2>1 DEF UpdateCommand, RuntimePlan, GuardianTypeOK
  <2>3. plan /= Down /\ plan.staged = memory.command.release /\ plan.previous = running
        /\ memory.command /= Down
    BY <2>1, <2>2, GuardianAssumption DEF RuntimePlan, Release, UpdateCommand
  <2> HIDE DEF plan
  <2>4. Tells(Successor("staged", plan, 0), running, proven, lostRollback)
    BY <1>1, <1>2, <2>1, <2>2, <2>3, SuccessorFields DEF Tells, UnderActivation
  <2>5. Tells(Successor("failed", Down, 0), running, proven, lostRollback)
    BY <1>1, <1>2, <2>1, SuccessorFields DEF Tells, UnderActivation
  <2>6. CASE Ends("staged", plan, 0)
    BY <1>1, <1>2, <2>1, <2>2, <2>4, <2>6, EndsKeeps
  <2>7. CASE Ends("failed", Down, 0)
    BY <1>1, <1>2, <2>1, <2>5, <2>7, EndsKeeps
  <2> QED BY <1>5, <2>6, <2>7 DEF stage, plan
<1>6. CASE StageInterrupted
  <2>1. memory.phase = "staging" /\ Ends("failed", Down, 0)
    BY <1>6 DEF StageInterrupted, In
  <2>2. Tells(Successor("failed", Down, 0), running, proven, lostRollback)
    BY <1>1, <1>2, <2>1, SuccessorFields DEF Tells, UnderActivation
  <2> QED BY <1>1, <1>2, <2>1, <2>2, EndsKeeps
<1> QED BY <1>3, <1>4, <1>5, <1>6

\* The record that an activation is watched, or is to be undone.
LEMMA TurnKeeps ==
  ASSUME GuardianTypeOK, GuardianInv, memory /= Down,
         memory.phase \in {"activating", "health_checking"},
         \/ begin_health \/ begin_rollback
         \/ /\ memory.phase = "health_checking"
            /\ \E n \in 0..MaxHealthAttempts : Ends("health_checking", memory.plan, n)
  PROVE  GuardianTypeOK' /\ GuardianInv'
<1>1. PICK phase \in {"health_checking", "rolling_back"}, n \in 0..MaxHealthAttempts :
        Ends(phase, memory.plan, n)
  <2>1. 0 \in 0..MaxHealthAttempts
    BY GuardianAssumption
  <2> QED BY <2>1 DEF begin_health, begin_rollback
<1>2. /\ memory.plan \in RuntimePlan \cup {Down} /\ phase \in Phases
      /\ Tells(memory, running, proven, lostRollback)
  BY MemoryFields DEF Phases, GuardianInv
<1>3. Tells(Successor(phase, memory.plan, n), running, proven, lostRollback)
  BY <1>2, SuccessorFields DEF Tells, UnderActivation
<1> QED BY <1>1, <1>2, <1>3, EndsKeeps

\* The platform changes, and the journal says so before and after.
LEMMA PlatformKeeps ==
  ASSUME GuardianTypeOK, GuardianInv, memory /= Down,
         UNCHANGED <<journal, memory, proven, silent, mishaps>>,
         \/ /\ memory.phase = "activating" /\ UNCHANGED lostRollback
            /\ running' \in {running, memory.plan.staged}
            /\ step' \in {"activate", "activated", "refused"}
         \/ /\ memory.phase = "rolling_back" /\ UNCHANGED lostRollback
            /\ running' = memory.plan.previous /\ step' = "restored"
         \/ /\ memory.phase = "rolling_back" /\ lostRollback' = TRUE
            /\ UNCHANGED running /\ step' = "unrestored"
  PROVE  /\ GuardianTypeOK' /\ GuardianInv'
         /\ running' /= running =>
              /\ journal.command /= Down
              /\ journal.command.release \in {running, running'}
              /\ journal.phase \in UnderActivation \cup {"failed"}
<1>1. /\ Tells(journal, running, proven, lostRollback)
      /\ Tells(memory, running, proven, lostRollback) /\ InStep
  BY DEF GuardianInv
<1>2. memory.plan \in RuntimePlan /\ memory.plan.staged \in Release
      /\ memory.plan.previous \in Release
  BY <1>1, MemoryFields DEF Tells, UnderActivation, RuntimePlan
<1>3. GuardianTypeOK'
  BY <1>2 DEF GuardianTypeOK, Steps
<1>4. CASE memory = journal
  <2>1. Tells(memory, running', proven', lostRollback')
    BY <1>1 DEF Tells, UnderActivation
  <2>2. InStep' /\ StepIsTrue'
    BY <1>4 DEF InStep, StepIsTrue
  <2> QED BY <1>1, <1>3, <1>4, <2>1, <2>2 DEF GuardianInv, Tells, UnderActivation
<1>5. CASE memory /= journal
  <2>1. /\ memory.sequence < journal.sequence
        /\ memory.phase = "activating" =>
             /\ journal.phase \in {"health_checking", "rolling_back"}
             /\ journal.plan = memory.plan /\ journal.command = memory.command
        /\ memory.phase = "rolling_back" =>
             \/ journal.phase = "rolled_back" /\ running = memory.plan.previous
             \/ journal.phase = "failed" /\ lostRollback /\ journal.command = memory.command
    BY <1>1, <1>5 DEF InStep, Settled
  <2>2. Tells(memory, running', proven', lostRollback')
    BY <1>1 DEF Tells, UnderActivation
  <2>3. Tells(journal, running', proven', lostRollback')
    BY <1>1, <2>1 DEF Tells, UnderActivation
  <2>4. InStep' /\ StepIsTrue'
    BY <2>1 DEF InStep, StepIsTrue
  <2> QED BY <1>1, <1>3, <2>1, <2>2, <2>3, <2>4 DEF GuardianInv, Tells, UnderActivation
<1> QED BY <1>4, <1>5

\* Activation, the watch over it, and its undoing.
LEMMA ActivationKeeps ==
  ASSUME GuardianTypeOK, GuardianInv,
         \/ \E ready \in BOOLEAN : ObserveActivation(ready)
         \/ activate \/ Activated \/ ActivationRefused \/ CheckHealth
         \/ restore_previous \/ Restored \/ RestoreFailed
  PROVE  GuardianTypeOK' /\ GuardianInv'
<1>1. memory /= Down
  BY DEF ObserveActivation, activate, Activated, ActivationRefused, CheckHealth,
         restore_previous, Restored, RestoreFailed, In, GuardianInv
<1>2. /\ Tells(memory, running, proven, lostRollback) /\ StepIsTrue
      /\ 0 \in 0..MaxHealthAttempts
      /\ {"completed", "rolled_back", "failed"} \subseteq Phases
      /\ memory.plan \in RuntimePlan \cup {Down}
  BY <1>1, MemoryFields, GuardianAssumption DEF GuardianInv, Phases
<1>3. CASE \E ready \in BOOLEAN : ObserveActivation(ready)
  <2>1. memory.phase = "activating"
    BY <1>3 DEF ObserveActivation, In
  <2>2. CASE begin_health \/ begin_rollback
    BY <1>1, <2>1, <2>2, TurnKeeps
  <2>3. CASE step' = "activate" /\ UNCHANGED <<journal, memory, mishaps, platform>>
    BY <1>1, <2>1, <2>3, PlatformKeeps DEF platform
  <2> QED BY <1>3, <2>2, <2>3 DEF ObserveActivation
<1>4. CASE activate
  <2>1. memory.phase = "activating"
    BY <1>2, <1>4 DEF activate, StepIsTrue
  <2> QED BY <1>1, <1>4, <2>1, PlatformKeeps DEF activate
<1>5. CASE Activated \/ ActivationRefused
  <2>1. memory.phase = "activating"
    BY <1>2, <1>5 DEF Activated, ActivationRefused, StepIsTrue
  <2> QED BY <1>1, <1>5, <2>1, TurnKeeps DEF Activated, ActivationRefused
<1>6. CASE CheckHealth
  <2>1. memory.phase = "health_checking"
    BY <1>6 DEF CheckHealth, In
  <2>2. CASE begin_rollback
    BY <1>1, <2>1, <2>2, TurnKeeps
  <2>3. CASE \E late \in BOOLEAN : Pending(late)
    <3>1. CASE begin_rollback
      BY <1>1, <2>1, <3>1, TurnKeeps
    <3>2. CASE /\ ~(memory.attempts + 1 >= MaxHealthAttempts)
               /\ Ends("health_checking", memory.plan, memory.attempts + 1)
      <4>1. memory.attempts + 1 \in 0..MaxHealthAttempts
        BY <1>1, <3>2, MemoryFields, GuardianAssumption
      <4> QED BY <1>1, <2>1, <3>2, <4>1, TurnKeeps
    <3> QED BY <2>3, <3>1, <3>2 DEF Pending
  <2>4. CASE running = memory.plan.staged /\ complete
    <3> DEFINE s == [Successor("completed", memory.plan, 0) EXCEPT
                       !.installed = memory.plan.staged,
                       !.trusted = memory.command.metadata]
    <3>1. /\ append(s, memory) /\ step' = "none" /\ proven' = proven \cup {running}
          /\ UNCHANGED <<running, lostRollback, silent>>
      BY <2>4 DEF complete
    <3>2. memory.command \in UpdateCommand /\ memory.command.metadata \in Release
          /\ memory.plan \in RuntimePlan /\ memory.plan.staged \in Release
      BY <1>1, <1>2, <2>1, MemoryFields DEF Tells, UnderActivation, UpdateCommand, RuntimePlan
    <3>3. /\ s.sequence = memory.sequence + 1 /\ s.phase = "completed"
          /\ s.installed = memory.plan.staged
      BY <1>1, MemoryFields DEF Successor, GuardianState
    <3>4. s.sequence <= Capacity => s \in GuardianState
      <4>1. /\ Successor("completed", memory.plan, 0).sequence = s.sequence
            /\ s.sequence <= Capacity =>
                 Successor("completed", memory.plan, 0) \in GuardianState
        BY <1>1, <1>2, <3>3, SuccessorFields
      <4> QED BY <3>2, <4>1 DEF GuardianState
    <3> HIDE DEF s
    <3>5. Tells(s, running', proven', lostRollback')
      BY <2>4, <3>1, <3>3 DEF Tells, UnderActivation
    <3>6. proven' \subseteq Release /\ memory \in GuardianState
      BY <1>1, <3>1, MemoryFields DEF GuardianTypeOK
    <3> QED BY <1>1, <1>2, <2>1, <3>1, <3>3, <3>4, <3>5, <3>6, RecordKeeps
  <2> QED BY <1>6, <2>2, <2>3, <2>4 DEF CheckHealth
<1>7. CASE restore_previous
  <2>1. memory.phase = "rolling_back"
    BY <1>7 DEF restore_previous, In
  <2> QED BY <1>1, <1>7, <2>1, PlatformKeeps DEF restore_previous
<1>8. CASE Restored
  <2>1. /\ memory.phase = "rolling_back" /\ running = memory.plan.previous
        /\ Ends("rolled_back", memory.plan, 0)
    BY <1>2, <1>8 DEF Restored, StepIsTrue
  <2>2. Tells(Successor("rolled_back", memory.plan, 0), running, proven, lostRollback)
    BY <1>1, <1>2, <2>1, SuccessorFields DEF Tells, UnderActivation
  <2> QED BY <1>1, <1>2, <2>1, <2>2, EndsKeeps
<1>9. CASE RestoreFailed
  <2>1. memory.phase = "rolling_back" /\ lostRollback /\ Ends("failed", Down, 0)
    BY <1>2, <1>9 DEF RestoreFailed, StepIsTrue
  <2>2. Tells(Successor("failed", Down, 0), running, proven, lostRollback)
    BY <1>1, <1>2, <2>1, SuccessorFields DEF Tells, UnderActivation
  <2> QED BY <1>1, <1>2, <2>1, <2>2, EndsKeeps
<1> QED BY <1>3, <1>4, <1>5, <1>6, <1>7, <1>8, <1>9

\* A request, whether its record is taken or not.
LEMMA RequestKeeps ==
  ASSUME GuardianTypeOK, GuardianInv, NEW c \in UpdateCommand, request(c)
  PROVE  GuardianTypeOK' /\ GuardianInv'
<1> DEFINE asked == [memory EXCEPT !.command = c]
           s == [asked EXCEPT !.sequence = @ + 1, !.phase = "awaiting_idle",
                              !.plan = Down, !.attempts = 0]
<1>1. /\ memory /= Down /\ step = "none" /\ Settled(memory) /\ append(s, asked)
      /\ UNCHANGED <<step, running, proven, lostRollback, silent>>
  BY DEF request, platform
<1>2. Tells(memory, running, proven, lostRollback)
  BY <1>1 DEF GuardianInv
<1>3. /\ asked \in GuardianState /\ asked.sequence = memory.sequence
      /\ asked.phase = memory.phase /\ asked.installed = memory.installed
  BY <1>1, MemoryFields DEF GuardianState
<1>4. /\ s.sequence = memory.sequence + 1 /\ s.phase = "awaiting_idle"
      /\ s.command = c /\ s.installed = memory.installed
  BY <1>1, MemoryFields DEF GuardianState
<1>5. ASSUME s.sequence <= Capacity PROVE s \in GuardianState
  <2>1. memory.sequence + 1 \in 0..Capacity /\ 0 \in 0..MaxHealthAttempts
    BY <1>1, <1>4, <1>5, MemoryFields, GuardianAssumption
  <2>2. memory \in GuardianState
    BY <1>1, MemoryFields
  <2> QED BY <2>1, <2>2 DEF GuardianState, Phases
<1>6. c /= Down
  BY GuardianAssumption DEF UpdateCommand, Release
<1> HIDE DEF s, asked
<1>7. Settled(asked) /\ asked /= Down
      /\ asked.phase \notin {"awaiting_idle", "staging", "staged"} \cup UnderActivation
  BY <1>1, <1>3, DownAssumption DEF Settled, UnderActivation
<1>8. Tells(asked, running, proven, lostRollback)
  BY <1>2, <1>3, <1>7 DEF Tells, UnderActivation
<1>9. Tells(s, running', proven', lostRollback')
  BY <1>1, <1>2, <1>4, <1>6 DEF Tells, UnderActivation, Settled
<1>10. proven' \subseteq Release
  BY <1>1 DEF GuardianTypeOK
<1> QED
  BY <1>1, <1>3, <1>4, <1>5, <1>7, <1>8, <1>9, <1>10, RecordKeeps DEF UnderActivation

LEMMA GuardianNextKeeps ==
  ASSUME GuardianTypeOK, GuardianInv, GuardianNext
  PROVE  GuardianTypeOK' /\ GuardianInv'
<1>1. CASE open
  <2>1. /\ memory' = journal /\ memory = Down /\ UNCHANGED <<journal, step, mishaps>>
        /\ UNCHANGED <<running, proven, lostRollback, silent>>
    BY <1>1 DEF open, platform
  <2>2. GuardianTypeOK'
    BY <2>1 DEF GuardianTypeOK
  <2>3. step = "none" /\ memory' /= Down
    BY <2>1, DownAssumption DEF GuardianInv, GuardianTypeOK
  <2> QED BY <2>1, <2>2, <2>3 DEF GuardianInv, InStep, StepIsTrue
<1>2. CASE advance
  BY <1>2, StagingKeeps, ActivationKeeps DEF advance
<1>3. CASE GuardianStops
  <2>1. /\ memory' = Down /\ step' = "none" /\ UNCHANGED <<journal, running, proven, lostRollback, silent>>
        /\ mishaps' \in 0..GuardianFaults
    BY <1>3, GuardianAssumption DEF GuardianStops, platform, GuardianTypeOK
  <2> QED BY <2>1 DEF GuardianTypeOK, Steps, GuardianInv
<1>4. CASE \E c \in UpdateCommand : request(c)
  BY <1>4, RequestKeeps
<1>5. CASE ObservationsChange
  <2>1. GuardianTypeOK'
    BY <1>5 DEF ObservationsChange, GuardianTypeOK
  <2>2. GuardianInv'
    BY <1>5 DEF ObservationsChange, GuardianInv, InStep, StepIsTrue
  <2> QED BY <2>1, <2>2
<1> QED BY <1>1, <1>2, <1>3, <1>4, <1>5 DEF GuardianNext

LEMMA GuardianStutterKeeps ==
  ASSUME GuardianTypeOK, GuardianInv, UNCHANGED guardianVars
  PROVE  GuardianTypeOK' /\ GuardianInv'
BY DEF guardianVars, GuardianTypeOK, GuardianInv, InStep, StepIsTrue, Settled

\* Only an activation and a restoration change what runs.
LEMMA GuardianEffect ==
  ASSUME GuardianTypeOK, GuardianInv, GuardianNext, running' /= running
  PROVE  /\ journal.command /= Down
         /\ journal.command.release \in {running, running'}
         /\ journal.phase \in UnderActivation \cup {"failed"}
<1>1. activate \/ restore_previous
  BY DEF GuardianNext, open, advance, GuardianStops, ObservationsChange, request, AwaitIdle, BeginActivation,
         ObserveActivation, stage, StageInterrupted, Activated, ActivationRefused,
         CheckHealth, Restored, RestoreFailed, Then, Ends, begin_health, begin_rollback,
         Pending, complete, platform
<1>2. memory /= Down /\ StepIsTrue
  BY <1>1 DEF activate, restore_previous, In, GuardianInv
<1>3. CASE activate
  <2>1. memory.phase = "activating"
    BY <1>2, <1>3 DEF activate, StepIsTrue
  <2> QED BY <1>2, <1>3, <2>1, PlatformKeeps DEF activate
<1>4. CASE restore_previous
  <2>1. memory.phase = "rolling_back"
    BY <1>4 DEF restore_previous, In
  <2> QED BY <1>2, <1>4, <2>1, PlatformKeeps DEF restore_previous
<1> QED BY <1>1, <1>3, <1>4

LEMMA GuardianInvariant == GuardianSpec => [](GuardianTypeOK /\ GuardianInv)
<1>1. GuardianTypeOK /\ GuardianInv /\ [GuardianNext]_guardianVars
        => (GuardianTypeOK /\ GuardianInv)'
  BY GuardianNextKeeps, GuardianStutterKeeps
<1> QED BY <1>1, GuardianInitKeeps, PTL DEF GuardianSpec

LEMMA GuardianInvSuffices ==
  ASSUME GuardianInv
  PROVE  SettledRunsInstalled
BY DEF GuardianInv, Tells, UnderActivation, SettledRunsInstalled, Settled

\* The update guardian (append, activate, restore_previous): whenever its
\* journal says that no update is under way, the installed release runs.
THEOREM SettledRunsInstalledHolds == GuardianSpec => []SettledRunsInstalled
<1>1. GuardianTypeOK /\ GuardianInv => SettledRunsInstalled
  BY GuardianInvSuffices
<1> QED BY <1>1, GuardianInvariant, PTL

\* Every change of the running release has its intent on disk before it.
THEOREM EffectIsRecordedHolds == GuardianSpec => EffectIsRecorded
<1>1. GuardianTypeOK /\ GuardianInv /\ [GuardianNext]_guardianVars =>
        [running' /= running =>
           /\ journal.command /= Down
           /\ journal.command.release \in {running, running'}
           /\ journal.phase \in {"activating", "health_checking", "rolling_back",
                                "failed"}]_guardianVars
  BY GuardianEffect DEF UnderActivation, guardianVars
<1> QED BY <1>1, GuardianInvariant, PTL DEF GuardianSpec, EffectIsRecorded

(***************************************************************************)
(* The webhook outbox.                                                     *)
(***************************************************************************)
Delivery == [made : BOOLEAN, attempt : Nat, claim : {"none", "held", "lapsed"},
             delivered : BOOLEAN, dead : BOOLEAN]
Sending == [attempt : Nat, result : {"nothing", "claimed", "success", "failure"}]

OutboxShape ==
  /\ deliveries \in [Event -> Delivery]
  /\ sending \in [Sender -> [Event -> Sending]]
  /\ tries \in [Event -> Nat]

\* The workers that have tried the event and not yet recorded it.
Tried(e) == {w \in Sender : sending[w][e].result \in {"success", "failure"}}

\* Every recorded attempt was a try of its own, and so is every result that
\* is not recorded yet; a claim carries no more attempts than its row.
OutboxInv ==
  /\ OutboxShape
  /\ \A e \in Event : deliveries[e].attempt + Cardinality(Tried(e)) <= tries[e]
  /\ \A w \in Sender, e \in Event :
       /\ sending[w][e].attempt <= deliveries[e].attempt
       /\ sending[w][e].result = "success" => e \in answered
  /\ OutcomeIsTrue

LEMMA TriedIsFinite ==
  \A e \in Event : IsFiniteSet(Tried(e)) /\ Cardinality(Tried(e)) \in Nat
BY OutboxAssumption, FS_Subset, FS_CardinalityType DEF Tried

LEMMA OutboxInitKeeps == OutboxInit => OutboxInv
<1> SUFFICES ASSUME OutboxInit PROVE OutboxInv
  OBVIOUS
<1>1. OutboxShape
  BY DEF OutboxInit, OutboxShape, Delivery, Sending, Unsent
<1>2. \A e \in Event : Tried(e) = {}
  BY DEF OutboxInit, Tried, Unsent
<1>3. Cardinality({}) = 0
  BY FS_EmptySet
<1>4. \A e \in Event : deliveries[e].attempt + Cardinality(Tried(e)) <= tries[e]
  <2> SUFFICES ASSUME NEW e \in Event
               PROVE  deliveries[e].attempt + Cardinality(Tried(e)) <= tries[e]
    OBVIOUS
  <2>1. Cardinality(Tried(e)) = 0
    BY <1>2, <1>3
  <2>2. deliveries[e].attempt = 0 /\ tries[e] = 0
    BY DEF OutboxInit
  <2> QED BY <2>1, <2>2
<1>5. /\ \A w \in Sender, e \in Event :
           /\ sending[w][e].attempt <= deliveries[e].attempt
           /\ sending[w][e].result = "success" => e \in answered
      /\ OutcomeIsTrue
  BY DEF OutboxInit, Unsent, OutcomeIsTrue
<1> QED BY <1>1, <1>4, <1>5 DEF OutboxInv

\* A step that tries nothing and records nothing.
LEMMA UntriedKeeps ==
  ASSUME OutboxInv, OutboxShape', UNCHANGED <<tries, answered>>,
         \A e \in Event : /\ deliveries'[e].attempt = deliveries[e].attempt
                          /\ deliveries'[e].delivered => deliveries[e].delivered
                          /\ deliveries'[e].dead => deliveries[e].dead,
         \A w \in Sender, e \in Event :
           \/ sending'[w][e] = sending[w][e]
           \/ /\ sending'[w][e].result \in {"nothing", "claimed"}
              /\ sending'[w][e].attempt <= deliveries[e].attempt
  PROVE  OutboxInv'
<1>1. \A e \in Event : Tried(e)' \subseteq Tried(e)
  BY DEF Tried
<1>2. \A e \in Event : Cardinality(Tried(e)') <= Cardinality(Tried(e))
                       /\ Cardinality(Tried(e)') \in Nat
  BY <1>1, TriedIsFinite, FS_Subset, FS_CardinalityType
<1>3. \A e \in Event : deliveries'[e].attempt + Cardinality(Tried(e)') <= tries'[e]
  BY <1>2, TriedIsFinite DEF OutboxInv, OutboxShape, Delivery
<1>4. \A w \in Sender, e \in Event :
        /\ sending'[w][e].attempt <= deliveries'[e].attempt
        /\ sending'[w][e].result = "success" => e \in answered'
  BY DEF OutboxInv
<1>5. OutcomeIsTrue'
  BY DEF OutboxInv, OutcomeIsTrue
<1> QED BY <1>3, <1>4, <1>5 DEF OutboxInv

LEMMA DeliverKeeps ==
  ASSUME OutboxInv, NEW w \in Sender, NEW e \in Event, deliver(w, e)
  PROVE  OutboxInv'
<1>1. PICK result \in {"success", "failure"} :
        /\ sending[w][e].result = "claimed" /\ UNCHANGED deliveries
        /\ tries' = [tries EXCEPT ![e] = tries[e] + 1]
        /\ sending' = [sending EXCEPT ![w][e].result = result]
        /\ answered \subseteq answered' /\ (result = "success" => e \in answered')
  BY DEF deliver
<1>2. OutboxShape'
  <2>1. deliveries' \in [Event -> Delivery]
    BY <1>1 DEF OutboxInv, OutboxShape
  <2>2. tries' \in [Event -> Nat]
    BY <1>1 DEF OutboxInv, OutboxShape
  <2>3. [sending[w][e] EXCEPT !.result = result] \in Sending
    <3>1. sending[w][e] \in Sending
      BY DEF OutboxInv, OutboxShape
    <3> QED BY <3>1 DEF Sending
  <2>4. sending' = [sending EXCEPT ![w] =
                      [sending[w] EXCEPT ![e] = [sending[w][e] EXCEPT !.result = result]]]
    BY <1>1
  <2>5. sending' \in [Sender -> [Event -> Sending]]
    BY <2>3, <2>4 DEF OutboxInv, OutboxShape
  <2> QED BY <2>1, <2>2, <2>5 DEF OutboxShape
<1>3. /\ \A v \in Sender, f \in Event : sending'[v][f].attempt = sending[v][f].attempt
      /\ \A v \in Sender, f \in Event : ~(v = w /\ f = e) => sending'[v][f] = sending[v][f]
      /\ sending'[w][e].result = result
      /\ \A f \in Event : tries'[f] = IF f = e THEN tries[e] + 1 ELSE tries[f]
  BY <1>1 DEF OutboxInv, OutboxShape, Sending
<1>4. /\ Tried(e)' = Tried(e) \cup {w} /\ w \notin Tried(e)
      /\ \A f \in Event : f # e => Tried(f)' = Tried(f)
  BY <1>1, <1>3 DEF Tried
<1>5. Cardinality(Tried(e)') = Cardinality(Tried(e)) + 1
  BY <1>4, TriedIsFinite, FS_AddElement
<1>6. \A f \in Event : deliveries'[f].attempt + Cardinality(Tried(f)') <= tries'[f]
  <2>1. \A f \in Event : f # e =>
          deliveries'[f].attempt + Cardinality(Tried(f)') <= tries'[f]
    BY <1>1, <1>3, <1>4 DEF OutboxInv
  <2>2. deliveries'[e].attempt + Cardinality(Tried(e)') <= tries'[e]
    BY <1>1, <1>3, <1>5, TriedIsFinite DEF OutboxInv, OutboxShape, Delivery
  <2> QED BY <2>1, <2>2
<1>7. \A v \in Sender, f \in Event :
        /\ sending'[v][f].attempt <= deliveries'[f].attempt
        /\ sending'[v][f].result = "success" => f \in answered'
  BY <1>1, <1>3 DEF OutboxInv
<1>8. OutcomeIsTrue'
  BY <1>1, <1>3, OutboxAssumption DEF OutboxInv, OutcomeIsTrue, OutboxShape
<1> QED BY <1>2, <1>6, <1>7, <1>8 DEF OutboxInv

LEMMA RowIsUpdated ==
  ASSUME NEW row \in Delivery, NEW d \in BOOLEAN, NEW k \in BOOLEAN,
         NEW next, next = [row EXCEPT !.attempt = row.attempt + 1, !.claim = "none",
                                      !.delivered = d, !.dead = k]
  PROVE  /\ next \in Delivery /\ next.attempt = row.attempt + 1
         /\ next.delivered = d /\ next.dead = k
<1>1. row.attempt + 1 \in Nat
  BY DEF Delivery
<1>2. next = [made |-> row.made, attempt |-> row.attempt + 1, claim |-> "none",
              delivered |-> d, dead |-> k]
  BY DEF Delivery
<1>3. row.made \in BOOLEAN
  BY DEF Delivery
<1> QED BY <1>1, <1>2, <1>3 DEF Delivery

\* What recording an attempt makes of the rows.
LEMMA AttemptRecorded ==
  ASSUME OutboxShape, NEW w \in Sender, NEW e \in Event, record_webhook_attempt(w, e)
  PROVE  LET success == sending[w][e].result = "success"
             dead == ~success /\ ~retry_delay(sending[w][e].attempt + 1)
         IN /\ deliveries' \in [Event -> Delivery]
            /\ \A f \in Event : f # e => deliveries'[f] = deliveries[f]
            /\ deliveries'[e].attempt = deliveries[e].attempt + 1
            /\ deliveries'[e].claim = "none"
            /\ deliveries'[e].delivered <=> deliveries[e].delivered \/ success
            /\ deliveries'[e].dead <=> deliveries[e].dead \/ dead
<1> DEFINE success == sending[w][e].result = "success"
           dead == ~success /\ ~retry_delay(sending[w][e].attempt + 1)
<1>0. deliveries' = [deliveries EXCEPT ![e] =
        [deliveries[e] EXCEPT !.attempt = deliveries[e].attempt + 1, !.claim = "none",
                              !.delivered = deliveries[e].delivered \/ success,
                              !.dead = deliveries[e].dead \/ dead]]
  BY DEF record_webhook_attempt
<1>1. deliveries[e] \in Delivery /\ deliveries \in [Event -> Delivery]
  BY DEF OutboxShape
<1>2. PICK d \in BOOLEAN, k \in BOOLEAN :
        /\ d = (deliveries[e].delivered \/ success)
        /\ k = (deliveries[e].dead \/ dead)
  BY Zenon
<1> DEFINE row == [deliveries[e] EXCEPT !.attempt = deliveries[e].attempt + 1,
                     !.claim = "none", !.delivered = d, !.dead = k]
<1>3. deliveries' = [deliveries EXCEPT ![e] = row]
  BY <1>0, <1>2, Zenon
<1>4. (d <=> deliveries[e].delivered \/ success) /\ (k <=> deliveries[e].dead \/ dead)
  BY <1>2
<1>5. /\ row \in Delivery /\ row.attempt = deliveries[e].attempt + 1
      /\ row.delivered = d /\ row.dead = k /\ row.claim = "none"
  <2>1. PICK old \in Delivery : old = deliveries[e]
    BY <1>1
  <2>2. PICK next : next = [old EXCEPT !.attempt = old.attempt + 1, !.claim = "none",
                                       !.delivered = d, !.dead = k]
    OBVIOUS
  <2>3. next = row
    BY <2>1, <2>2, Zenon
  <2> HIDE DEF row
  <2>4. /\ next \in Delivery /\ next.attempt = old.attempt + 1
        /\ next.delivered = d /\ next.dead = k
    BY <2>2, RowIsUpdated
  <2>5. next.claim = "none"
    BY <2>1, <2>2 DEF Delivery
  <2> QED BY <2>1, <2>3, <2>4, <2>5, Zenon
<1> HIDE DEF row, success, dead
<1>6. /\ deliveries' \in [Event -> Delivery] /\ deliveries'[e] = row
      /\ \A f \in Event : f # e => deliveries'[f] = deliveries[f]
  BY <1>1, <1>3, <1>5
<1>7. /\ deliveries' \in [Event -> Delivery]
      /\ \A f \in Event : f # e => deliveries'[f] = deliveries[f]
      /\ deliveries'[e].attempt = deliveries[e].attempt + 1
      /\ deliveries'[e].claim = "none"
      /\ deliveries'[e].delivered <=> deliveries[e].delivered \/ success
      /\ deliveries'[e].dead <=> deliveries[e].dead \/ dead
  BY <1>4, <1>5, <1>6
<1> QED BY <1>7 DEF success, dead

LEMMA RecordAttemptKeeps ==
  ASSUME OutboxInv, NEW w \in Sender, NEW e \in Event, record_webhook_attempt(w, e)
  PROVE  OutboxInv'
<1> DEFINE success == sending[w][e].result = "success"
           dead == ~success /\ ~retry_delay(sending[w][e].attempt + 1)
<1>1. /\ sending[w][e].result \in {"success", "failure"} /\ UNCHANGED <<tries, answered>>
      /\ deliveries' = [deliveries EXCEPT ![e] =
           [deliveries[e] EXCEPT !.attempt = deliveries[e].attempt + 1, !.claim = "none",
                                 !.delivered = deliveries[e].delivered \/ success,
                                 !.dead = deliveries[e].dead \/ dead]]
      /\ sending' = [sending EXCEPT ![w][e] = Unsent]
  BY DEF record_webhook_attempt
<1>2. /\ \A f \in Event : f # e => deliveries'[f] = deliveries[f]
      /\ deliveries'[e].attempt = deliveries[e].attempt + 1
      /\ deliveries'[e].delivered => deliveries[e].delivered \/ success
      /\ deliveries'[e].dead => deliveries[e].dead \/ dead
      /\ deliveries' \in [Event -> Delivery]
  BY AttemptRecorded DEF OutboxInv
<1>3. /\ \A v \in Sender, f \in Event : ~(v = w /\ f = e) => sending'[v][f] = sending[v][f]
      /\ sending'[w][e].result = "nothing" /\ sending'[w][e].attempt = 0
      /\ sending' \in [Sender -> [Event -> Sending]]
  BY <1>1 DEF OutboxInv, OutboxShape, Sending, Unsent
<1>4. /\ Tried(e)' = Tried(e) \ {w} /\ w \in Tried(e)
      /\ \A f \in Event : f # e => Tried(f)' = Tried(f)
  BY <1>1, <1>3 DEF Tried
<1>5. /\ Cardinality(Tried(e)') = Cardinality(Tried(e)) - 1
      /\ Cardinality(Tried(e)') \in Nat
  <2>1. IsFiniteSet(Tried(e)')
    BY <1>4, TriedIsFinite, FS_Subset
  <2> QED BY <1>4, <2>1, TriedIsFinite, FS_RemoveElement, FS_CardinalityType
<1>6. \A f \in Event : deliveries'[f].attempt + Cardinality(Tried(f)') <= tries'[f]
  <2>1. \A f \in Event : f # e =>
          deliveries'[f].attempt + Cardinality(Tried(f)') <= tries'[f]
    BY <1>1, <1>2, <1>4 DEF OutboxInv
  <2>2. deliveries'[e].attempt + Cardinality(Tried(e)') <= tries'[e]
    BY <1>1, <1>2, <1>5, TriedIsFinite DEF OutboxInv, OutboxShape, Delivery
  <2> QED BY <2>1, <2>2
<1>7. \A v \in Sender, f \in Event :
        /\ sending'[v][f].attempt <= deliveries'[f].attempt
        /\ sending'[v][f].result = "success" => f \in answered'
  <2>1. \A v \in Sender, f \in Event :
          sending[v][f].attempt \in Nat /\ deliveries[f].attempt \in Nat
    BY DEF OutboxInv, OutboxShape, Sending, Delivery
  <2> QED BY <1>1, <1>2, <1>3, <2>1 DEF OutboxInv
<1>8. dead => tries[e] >= RetryDelays
  <2>1. deliveries[e].attempt + Cardinality(Tried(e)) <= tries[e]
    BY DEF OutboxInv
  <2>2. Cardinality(Tried(e)) >= 1
    BY <1>5, TriedIsFinite
  <2>3. /\ sending[w][e].attempt <= deliveries[e].attempt
        /\ sending[w][e].attempt \in Nat /\ deliveries[e].attempt \in Nat /\ tries[e] \in Nat
    BY DEF OutboxInv, OutboxShape, Sending, Delivery
  <2> QED BY <2>1, <2>2, <2>3, TriedIsFinite, OutboxAssumption DEF retry_delay
<1>9. success => e \in answered
  BY DEF OutboxInv
<1>10. OutcomeIsTrue'
  BY <1>1, <1>2, <1>8, <1>9 DEF OutboxInv, OutcomeIsTrue
<1> QED BY <1>1, <1>2, <1>3, <1>6, <1>7, <1>10 DEF OutboxInv, OutboxShape

LEMMA ReplayKeeps ==
  ASSUME OutboxInv, NEW e \in Event, replay_webhook_delivery(e)
  PROVE  OutboxInv'
<1> DEFINE row == [deliveries[e] EXCEPT !.claim = "none", !.delivered = FALSE,
                                        !.dead = FALSE]
<1>1. /\ deliveries' = [deliveries EXCEPT ![e] = row]
      /\ UNCHANGED <<sending, tries, answered>>
  BY DEF replay_webhook_delivery
<1>2. deliveries \in [Event -> Delivery] /\ deliveries[e] \in Delivery
  BY DEF OutboxInv, OutboxShape
<1>3. /\ row \in Delivery /\ row.attempt = deliveries[e].attempt
      /\ ~row.delivered /\ ~row.dead
  BY <1>2 DEF Delivery
<1> HIDE DEF row
<1>4. /\ deliveries' \in [Event -> Delivery] /\ deliveries'[e] = row
      /\ \A f \in Event : f # e => deliveries'[f] = deliveries[f]
  BY <1>1, <1>2, <1>3
<1>5. OutboxShape'
  BY <1>1, <1>4 DEF OutboxInv, OutboxShape
<1> QED BY <1>1, <1>3, <1>4, <1>5, UntriedKeeps

LEMMA ClaimLapsesKeeps ==
  ASSUME OutboxInv, NEW e \in Event, ClaimLapses(e)
  PROVE  OutboxInv'
<1> DEFINE row == [deliveries[e] EXCEPT !.claim = "lapsed"]
<1>1. /\ deliveries' = [deliveries EXCEPT ![e] = row]
      /\ UNCHANGED <<sending, tries, answered>>
  BY DEF ClaimLapses
<1>2. deliveries \in [Event -> Delivery] /\ deliveries[e] \in Delivery
  BY DEF OutboxInv, OutboxShape
<1>3. /\ row \in Delivery /\ row.attempt = deliveries[e].attempt
      /\ row.delivered = deliveries[e].delivered /\ row.dead = deliveries[e].dead
  BY <1>2 DEF Delivery
<1> HIDE DEF row
<1>4. /\ deliveries' \in [Event -> Delivery] /\ deliveries'[e] = row
      /\ \A f \in Event : f # e => deliveries'[f] = deliveries[f]
  BY <1>1, <1>2, <1>3
<1>5. OutboxShape'
  BY <1>1, <1>4 DEF OutboxInv, OutboxShape
<1> QED BY <1>1, <1>3, <1>4, <1>5, UntriedKeeps

LEMMA ClaimDeliveriesKeeps ==
  ASSUME OutboxInv, NEW w \in Sender, claim_webhook_deliveries(w)
  PROVE  OutboxInv'
<1> DEFINE claimed(f) == [deliveries[f] EXCEPT !.made = TRUE, !.claim = "held"]
           held(f) == [attempt |-> deliveries[f].attempt, result |-> "claimed"]
<1>1. /\ deliveries' = [f \in Event |-> IF Claimable(f) THEN claimed(f) ELSE deliveries[f]]
      /\ sending' = [sending EXCEPT ![w] =
                        [f \in Event |-> IF Claimable(f) THEN held(f) ELSE Unsent]]
      /\ UNCHANGED <<tries, answered>>
  BY DEF claim_webhook_deliveries
<1>2. \A f \in Event : deliveries[f] \in Delivery
  BY DEF OutboxInv, OutboxShape
<1>3. \A f \in Event : /\ claimed(f) \in Delivery
                       /\ claimed(f).attempt = deliveries[f].attempt
                       /\ claimed(f).delivered = deliveries[f].delivered
                       /\ claimed(f).dead = deliveries[f].dead
  BY <1>2 DEF Delivery
<1>4. \A f \in Event : /\ held(f) \in Sending /\ Unsent \in Sending
                       /\ held(f).result = "claimed"
                       /\ Unsent.result = "nothing" /\ Unsent.attempt = 0
                       /\ held(f).attempt = deliveries[f].attempt
  BY <1>2 DEF Sending, Unsent, Delivery
<1>5. \A f \in Event : deliveries[f].attempt \in Nat
  BY <1>2 DEF Delivery
<1> HIDE DEF claimed, held
<1>6. deliveries' \in [Event -> Delivery]
  BY <1>1, <1>2, <1>3
<1>7. sending' \in [Sender -> [Event -> Sending]]
  BY <1>1, <1>4 DEF OutboxInv, OutboxShape
<1>8. OutboxShape'
  BY <1>1, <1>6, <1>7 DEF OutboxInv, OutboxShape
<1>9. \A f \in Event : /\ deliveries'[f].attempt = deliveries[f].attempt
                       /\ deliveries'[f].delivered => deliveries[f].delivered
                       /\ deliveries'[f].dead => deliveries[f].dead
  BY <1>1, <1>3
<1>10. \A v \in Sender, f \in Event :
         \/ sending'[v][f] = sending[v][f]
         \/ /\ sending'[v][f].result \in {"nothing", "claimed"}
            /\ sending'[v][f].attempt <= deliveries[f].attempt
  <2> SUFFICES ASSUME NEW v \in Sender, NEW f \in Event
               PROVE  \/ sending'[v][f] = sending[v][f]
                      \/ /\ sending'[v][f].result \in {"nothing", "claimed"}
                         /\ sending'[v][f].attempt <= deliveries[f].attempt
    OBVIOUS
  <2>1. v # w => sending'[v] = sending[v]
    BY <1>1 DEF OutboxInv, OutboxShape
  <2>2. v = w => sending'[v][f] \in {held(f), Unsent}
    BY <1>1 DEF OutboxInv, OutboxShape
  <2> QED BY <2>1, <2>2, <1>4, <1>5
<1> QED BY <1>1, <1>8, <1>9, <1>10, UntriedKeeps

LEMMA LoseAttemptKeeps ==
  ASSUME OutboxInv, NEW w \in Sender, NEW e \in Event, LoseAttempt(w, e)
  PROVE  OutboxInv'
<1>1. /\ sending' = [sending EXCEPT ![w][e] = Unsent]
      /\ UNCHANGED <<deliveries, tries, answered>>
  BY DEF LoseAttempt
<1>2. Unsent \in Sending /\ Unsent.result = "nothing" /\ Unsent.attempt = 0
  BY DEF Unsent, Sending
<1>3. /\ sending' \in [Sender -> [Event -> Sending]]
      /\ \A v \in Sender, f \in Event :
           sending'[v][f] = sending[v][f] \/ sending'[v][f] = Unsent
  BY <1>1, <1>2 DEF OutboxInv, OutboxShape
<1>4. OutboxShape'
  BY <1>1, <1>3 DEF OutboxInv, OutboxShape
<1>5. \A f \in Event : deliveries[f].attempt \in Nat
  BY DEF OutboxInv, OutboxShape, Delivery
<1>6. \A v \in Sender, f \in Event :
        \/ sending'[v][f] = sending[v][f]
        \/ /\ sending'[v][f].result \in {"nothing", "claimed"}
           /\ sending'[v][f].attempt <= deliveries[f].attempt
  BY <1>2, <1>3, <1>5
<1> QED BY <1>1, <1>4, <1>6, UntriedKeeps

LEMMA OutboxStutterKeeps == OutboxInv /\ UNCHANGED outboxVars => OutboxInv'
BY DEF OutboxInv, OutboxShape, Tried, OutcomeIsTrue, outboxVars

LEMMA OutboxNextKeeps == OutboxInv /\ OutboxNext => OutboxInv'
<1> SUFFICES ASSUME OutboxInv, OutboxNext PROVE OutboxInv'
  OBVIOUS
<1>1. CASE \E e \in Event : enqueue_webhook_event(e)
  BY <1>1 DEF enqueue_webhook_event, OutboxInv, OutboxShape, Tried, OutcomeIsTrue
<1>2. CASE \E e \in Event : replay_webhook_delivery(e)
  BY <1>2, ReplayKeeps
<1>3. CASE \E e \in Event : ClaimLapses(e)
  BY <1>3, ClaimLapsesKeeps
<1>4. CASE \E w \in Sender : claim_webhook_deliveries(w)
  BY <1>4, ClaimDeliveriesKeeps
<1>5. CASE \E w \in Sender, e \in Event : deliver(w, e)
  BY <1>5, DeliverKeeps
<1>6. CASE \E w \in Sender, e \in Event : record_webhook_attempt(w, e)
  BY <1>6, RecordAttemptKeeps
<1>7. CASE \E w \in Sender, e \in Event : LoseAttempt(w, e)
  BY <1>7, LoseAttemptKeeps
<1> QED BY <1>1, <1>2, <1>3, <1>4, <1>5, <1>6, <1>7 DEF OutboxNext

LEMMA OutboxInvariant == OutboxSpec => []OutboxInv
<1>1. OutboxInv /\ [OutboxNext]_outboxVars => OutboxInv'
  BY OutboxNextKeeps, OutboxStutterKeeps
<1> QED BY <1>1, OutboxInitKeeps, PTL DEF OutboxSpec

\* The webhook worker (claim_webhook_deliveries, deliver,
\* record_webhook_attempt): a row marked delivered was answered with success,
\* and a dead letter has had every attempt of RETRY_DELAYS, for any number of
\* workers, lapsed claims, lost attempts and replays.
THEOREM OutcomeIsTrueHolds == OutboxSpec => []OutcomeIsTrue
<1>1. OutboxInv => OutcomeIsTrue
  BY DEF OutboxInv
<1> QED BY <1>1, OutboxInvariant, PTL

(***************************************************************************)
(* How often an event is tried.  A try is paid for by the attempt it       *)
(* records, by the claim it is made under, or by a fault or a replay; and  *)
(* once the schedule is used up, only the workers still out with an        *)
(* earlier attempt can put the delivery back on it.                        *)
(***************************************************************************)
Outstanding(e) == {w \in Sender : sending[w][e].result = "claimed"}
TakenBy(e) == {w \in Sender : sending[w][e] # Unsent}
Early(e) == {w \in TakenBy(e) : sending[w][e].attempt + 1 < RetryDelays}
Busy(e) == deliveries[e].claim = "held" /\ TakenBy(e) # {}
Due(e) == ~deliveries[e].delivered /\ ~deliveries[e].dead /\ ~Busy(e)

TriesArePaid(e) ==
  tries[e] + Cardinality(Outstanding(e))
    <= deliveries[e].attempt + (IF Busy(e) THEN 1 ELSE 0) + slips + replays

TriesEnd(e) ==
  deliveries[e].attempt >= RetryDelays - 1 =>
    tries[e] + Cardinality(Outstanding(e)) + Cardinality(Early(e)) + (IF Due(e) THEN 1 ELSE 0)
      <= RetryDelays + Cardinality(Sender) + slips + replays

OutboxBounds ==
  /\ published \subseteq Event /\ answered \subseteq Event
  /\ slips \in 0..OutboxFaults /\ replays \in 0..MaxReplays

OutboxLimits ==
  /\ OutboxBounds
  /\ \A e \in Event : TriesArePaid(e) /\ TriesEnd(e)

\* The workers that hold an event are finitely many.
LEMMA HoldersAreFew ==
  ASSUME NEW e \in Event
  PROVE  /\ IsFiniteSet(Outstanding(e)) /\ Cardinality(Outstanding(e)) \in Nat
         /\ IsFiniteSet(Early(e)) /\ Cardinality(Early(e)) \in Nat
         /\ Cardinality(Early(e)) <= Cardinality(Sender) /\ Cardinality(Sender) \in Nat
<1>1. Outstanding(e) \subseteq Sender /\ Early(e) \subseteq Sender
  BY DEF Outstanding, Early, TakenBy
<1> QED
  BY <1>1, OutboxAssumption, FS_Subset, FS_CardinalityType

\* The same after a step.
LEMMA HoldersStayFew ==
  ASSUME NEW e \in Event
  PROVE  /\ IsFiniteSet(Outstanding(e)') /\ Cardinality(Outstanding(e)') \in Nat
         /\ IsFiniteSet(Early(e)') /\ Cardinality(Early(e)') \in Nat
         /\ Cardinality(Early(e)') <= Cardinality(Sender)
<1>1. Outstanding(e)' \subseteq Sender /\ Early(e)' \subseteq Sender
  BY DEF Outstanding, Early, TakenBy
<1> QED
  BY <1>1, OutboxAssumption, FS_Subset, FS_CardinalityType

\* The numbers of an event are natural.
LEMMA OutboxNumbers ==
  ASSUME OutboxInv, OutboxBounds, NEW e \in Event
  PROVE  /\ tries[e] \in Nat /\ deliveries[e].attempt \in Nat /\ slips \in Nat /\ replays \in Nat
         /\ RetryDelays \in Nat /\ RetryDelays >= 1
BY OutboxAssumption DEF OutboxInv, OutboxShape, Delivery, OutboxBounds

\* Initially nothing has been tried.
LEMMA OutboxLimitsInit == OutboxInit => OutboxLimits
<1> SUFFICES ASSUME OutboxInit PROVE OutboxLimits
  OBVIOUS
<1>1. OutboxBounds
  BY OutboxAssumption DEF OutboxInit, OutboxBounds
<1>2. ASSUME NEW e \in Event PROVE TriesArePaid(e) /\ TriesEnd(e)
  <2>1. /\ tries[e] = 0 /\ deliveries[e].attempt = 0 /\ deliveries[e].claim = "none"
        /\ slips = 0 /\ replays = 0
    BY DEF OutboxInit
  <2>2. Outstanding(e) = {} /\ TakenBy(e) = {} /\ Early(e) = {}
    BY DEF OutboxInit, Outstanding, TakenBy, Early, Unsent
  <2>3. Cardinality(Outstanding(e)) = 0 /\ Cardinality(Early(e)) = 0
    BY <2>2, FS_EmptySet
  <2>4. ~Busy(e)
    BY <2>1 DEF Busy
  <2>5. RetryDelays \in Nat /\ RetryDelays >= 1 /\ Cardinality(Sender) \in Nat
    BY OutboxAssumption, FS_CardinalityType
  <2> QED
    BY <2>1, <2>3, <2>4, <2>5 DEF TriesArePaid, TriesEnd
<1> QED
  BY <1>1, <1>2 DEF OutboxLimits

\* The sums of the two limits.
LEMMA LimitSums ==
  ASSUME NEW t \in Nat, NEW a \in Nat, NEW o \in Nat, NEW y \in Nat, NEW s \in Nat, NEW r \in Nat,
         NEW o1 \in Nat, NEW y1 \in Nat, NEW s1 \in Nat, NEW r1 \in Nat, NEW n \in Nat, NEW k \in Nat,
         NEW b \in 0..1, NEW d \in 0..1, NEW b1 \in 0..1, NEW d1 \in 0..1,
         o1 <= o, y1 <= y,
         \/ s1 + r1 >= s + r /\ b <= b1 /\ d1 <= d
         \/ s1 + r1 >= s + r + 1,
         t + o <= a + b + s + r, a >= n - 1 => t + o + y + d <= n + k + s + r
  PROVE  /\ t + o1 <= a + b1 + s1 + r1
         /\ a >= n - 1 => t + o1 + y1 + d1 <= n + k + s1 + r1
OBVIOUS

\* A step that neither tries, records nor claims the event; one that ends its
\* claim under a worker, or puts it back on the schedule, is counted.
LEMMA LimitsStay ==
  ASSUME OutboxInv, OutboxLimits, OutboxBounds', NEW e \in Event,
         tries'[e] = tries[e], deliveries'[e].attempt = deliveries[e].attempt,
         Outstanding(e)' \subseteq Outstanding(e), Early(e)' \subseteq Early(e),
         \/ /\ slips' + replays' >= slips + replays
            /\ Busy(e) => Busy(e)'
            /\ Due(e)' => Due(e)
         \/ slips' + replays' >= slips + replays + 1
  PROVE  TriesArePaid(e)' /\ TriesEnd(e)'
<1>1. /\ Cardinality(Outstanding(e)') <= Cardinality(Outstanding(e))
      /\ Cardinality(Early(e)') <= Cardinality(Early(e))
  BY HoldersAreFew, FS_Subset
<1>2. /\ Cardinality(Outstanding(e)') \in Nat /\ Cardinality(Early(e)') \in Nat
      /\ Cardinality(Outstanding(e)) \in Nat /\ Cardinality(Early(e)) \in Nat
      /\ Cardinality(Sender) \in Nat
  BY HoldersAreFew, HoldersStayFew
<1>3. /\ tries[e] \in Nat /\ deliveries[e].attempt \in Nat /\ slips \in Nat /\ replays \in Nat
      /\ RetryDelays \in Nat /\ slips' \in Nat /\ replays' \in Nat
  BY OutboxNumbers, OutboxAssumption DEF OutboxLimits, OutboxBounds
<1>4. TriesArePaid(e) /\ TriesEnd(e)
  BY DEF OutboxLimits
<1>5. PICK b, d, b1, d1 : /\ b = (IF Busy(e) THEN 1 ELSE 0) /\ d = (IF Due(e) THEN 1 ELSE 0)
                          /\ b1 = (IF Busy(e)' THEN 1 ELSE 0) /\ d1 = (IF Due(e)' THEN 1 ELSE 0)
  OBVIOUS
<1>6. /\ b \in 0..1 /\ d \in 0..1 /\ b1 \in 0..1 /\ d1 \in 0..1
      /\ \/ slips' + replays' >= slips + replays /\ b <= b1 /\ d1 <= d
         \/ slips' + replays' >= slips + replays + 1
  BY <1>5
<1>7. PICK t, a, o, y, o1, y1 :
        /\ t = tries[e] /\ a = deliveries[e].attempt /\ o = Cardinality(Outstanding(e))
        /\ y = Cardinality(Early(e)) /\ o1 = Cardinality(Outstanding(e)') /\ y1 = Cardinality(Early(e)')
  OBVIOUS
<1>8. /\ t + o <= a + b + slips + replays
      /\ a >= RetryDelays - 1 => t + o + y + d <= RetryDelays + Cardinality(Sender) + slips + replays
  BY <1>4, <1>5, <1>7 DEF TriesArePaid, TriesEnd
<1>9. /\ t + o1 <= a + b1 + slips' + replays'
      /\ a >= RetryDelays - 1 => t + o1 + y1 + d1 <= RetryDelays + Cardinality(Sender) + slips' + replays'
  <2>1. /\ t \in Nat /\ a \in Nat /\ o \in Nat /\ y \in Nat /\ o1 \in Nat /\ y1 \in Nat
        /\ o1 <= o /\ y1 <= y
    BY <1>1, <1>2, <1>3, <1>7
  <2>2. PICK s, r, s1, r1, n, k : /\ s = slips /\ r = replays /\ s1 = slips' /\ r1 = replays'
                                  /\ n = RetryDelays /\ k = Cardinality(Sender)
    OBVIOUS
  <2>3. s \in Nat /\ r \in Nat /\ s1 \in Nat /\ r1 \in Nat /\ n \in Nat /\ k \in Nat
    BY <1>2, <1>3, <2>2
  <2>4. /\ \/ s1 + r1 >= s + r /\ b <= b1 /\ d1 <= d
           \/ s1 + r1 >= s + r + 1
        /\ t + o <= a + b + s + r
        /\ a >= n - 1 => t + o + y + d <= n + k + s + r
    BY <1>6, <1>8, <2>2
  <2>5. /\ t + o1 <= a + b1 + s1 + r1
        /\ a >= n - 1 => t + o1 + y1 + d1 <= n + k + s1 + r1
    BY <1>6, <2>1, <2>3, <2>4, LimitSums
  <2> QED
    BY <2>2, <2>5
<1>10. TriesArePaid(e)'
  BY <1>5, <1>7, <1>9 DEF TriesArePaid
<1>11. TriesEnd(e)'
  BY <1>5, <1>7, <1>9 DEF TriesEnd
<1> QED
  BY <1>10, <1>11

\* An event that a step does not touch keeps its limits.
LEMMA UntouchedLimits ==
  ASSUME OutboxInv, OutboxLimits, OutboxBounds', NEW e \in Event,
         tries'[e] = tries[e], deliveries'[e] = deliveries[e],
         \A w \in Sender : sending'[w][e] = sending[w][e],
         slips' + replays' >= slips + replays
  PROVE  TriesArePaid(e)' /\ TriesEnd(e)'
<1>1. Outstanding(e)' = Outstanding(e) /\ TakenBy(e)' = TakenBy(e)
  BY DEF Outstanding, TakenBy
<1>2. Early(e)' = Early(e)
  BY <1>1 DEF Early, TakenBy
<1>3. (Busy(e)' <=> Busy(e)) /\ (Due(e)' <=> Due(e))
  BY <1>1 DEF Busy, Due
<1> QED
  BY <1>1, <1>2, <1>3, LimitsStay

\* Publishing, replaying, losing an attempt and the lapse of a claim.
LEMMA PublishLimits ==
  ASSUME OutboxInv, OutboxLimits, NEW e \in Event, enqueue_webhook_event(e)
  PROVE  OutboxLimits'
<1>1. UNCHANGED <<deliveries, sending, tries, answered, slips, replays>> /\ OutboxBounds'
  BY DEF enqueue_webhook_event, OutboxLimits, OutboxBounds
<1>2. slips' + replays' >= slips + replays
  BY <1>1, OutboxAssumption DEF OutboxLimits, OutboxBounds
<1>3. \A f \in Event : TriesArePaid(f)' /\ TriesEnd(f)'
  BY <1>1, <1>2, UntouchedLimits
<1> QED
  BY <1>1, <1>3 DEF OutboxLimits

LEMMA ReplayLimits ==
  ASSUME OutboxInv, OutboxLimits, NEW e \in Event, replay_webhook_delivery(e)
  PROVE  OutboxLimits'
<1>1. /\ UNCHANGED <<published, sending, tries, answered, slips>>
      /\ replays' = replays + 1 /\ replays < MaxReplays
      /\ deliveries' = [deliveries EXCEPT ![e] =
           [deliveries[e] EXCEPT !.claim = "none", !.delivered = FALSE, !.dead = FALSE]]
  BY DEF replay_webhook_delivery
<1>2. /\ OutboxBounds' /\ slips' + replays' >= slips + replays + 1
      /\ slips' + replays' >= slips + replays
  BY <1>1, OutboxAssumption DEF OutboxLimits, OutboxBounds
<1>3. /\ deliveries'[e].attempt = deliveries[e].attempt
      /\ \A f \in Event : f # e => deliveries'[f] = deliveries[f]
  BY <1>1 DEF OutboxInv, OutboxShape, Delivery
<1>4. Outstanding(e)' = Outstanding(e) /\ Early(e)' = Early(e)
  BY <1>1 DEF Outstanding, Early, TakenBy
<1>5. TriesArePaid(e)' /\ TriesEnd(e)'
  BY <1>1, <1>2, <1>3, <1>4, LimitsStay
<1>6. ASSUME NEW f \in Event, f # e PROVE TriesArePaid(f)' /\ TriesEnd(f)'
  BY <1>1, <1>2, <1>3, <1>6, UntouchedLimits
<1> QED
  BY <1>2, <1>5, <1>6 DEF OutboxLimits

LEMMA LoseLimits ==
  ASSUME OutboxInv, OutboxLimits, NEW w \in Sender, NEW e \in Event, LoseAttempt(w, e)
  PROVE  OutboxLimits'
<1>1. /\ UNCHANGED <<published, deliveries, tries, answered, replays>>
      /\ slips' = slips + 1 /\ slips < OutboxFaults /\ sending' = [sending EXCEPT ![w][e] = Unsent]
  BY DEF LoseAttempt
<1>2. /\ OutboxBounds' /\ slips' + replays' >= slips + replays + 1
      /\ slips' + replays' >= slips + replays
  BY <1>1, OutboxAssumption DEF OutboxLimits, OutboxBounds
<1>3. /\ \A v \in Sender, f \in Event : ~(v = w /\ f = e) => sending'[v][f] = sending[v][f]
      /\ sending'[w][e] = Unsent
  BY <1>1 DEF OutboxInv, OutboxShape
<1>4. Outstanding(e)' \subseteq Outstanding(e) /\ Early(e)' \subseteq Early(e)
  BY <1>3 DEF Outstanding, Early, TakenBy, Unsent
<1>5. TriesArePaid(e)' /\ TriesEnd(e)'
  BY <1>1, <1>2, <1>4, LimitsStay
<1>6. ASSUME NEW f \in Event, f # e PROVE TriesArePaid(f)' /\ TriesEnd(f)'
  BY <1>1, <1>2, <1>3, <1>6, UntouchedLimits
<1> QED
  BY <1>2, <1>5, <1>6 DEF OutboxLimits

LEMMA LapseLimits ==
  ASSUME OutboxInv, OutboxLimits, NEW e \in Event, ClaimLapses(e)
  PROVE  OutboxLimits'
<1>1. /\ UNCHANGED <<published, sending, tries, answered, replays>>
      /\ deliveries' = [deliveries EXCEPT ![e].claim = "lapsed"] /\ deliveries[e].claim = "held"
      /\ \/ Held(e) /\ slips < OutboxFaults /\ slips' = slips + 1
         \/ ~Held(e) /\ slips' = slips
  BY DEF ClaimLapses
<1>2. OutboxBounds' /\ slips' + replays' >= slips + replays
  BY <1>1, OutboxAssumption DEF OutboxLimits, OutboxBounds
<1>3. /\ deliveries'[e].attempt = deliveries[e].attempt
      /\ deliveries'[e].delivered = deliveries[e].delivered /\ deliveries'[e].dead = deliveries[e].dead
      /\ \A f \in Event : f # e => deliveries'[f] = deliveries[f]
  BY <1>1 DEF OutboxInv, OutboxShape, Delivery
<1>4. Outstanding(e)' = Outstanding(e) /\ Early(e)' = Early(e) /\ TakenBy(e)' = TakenBy(e)
  BY <1>1 DEF Outstanding, Early, TakenBy
<1>5. TriesArePaid(e)' /\ TriesEnd(e)'
  <2>1. CASE Held(e)
    <3>1. slips' + replays' >= slips + replays + 1
      BY <1>1, <2>1, OutboxAssumption DEF OutboxLimits, OutboxBounds
    <3> QED
      BY <1>1, <1>2, <1>3, <1>4, <3>1, LimitsStay
  <2>2. CASE ~Held(e)
    <3>1. TakenBy(e) = {}
      BY <2>2 DEF Held, TakenBy
    <3>2. ~Busy(e) /\ (Due(e)' => Due(e))
      BY <1>3, <1>4, <3>1 DEF Busy, Due
    <3> QED
      BY <1>1, <1>2, <1>3, <1>4, <3>2, LimitsStay
  <2> QED
    BY <2>1, <2>2
<1>6. ASSUME NEW f \in Event, f # e PROVE TriesArePaid(f)' /\ TriesEnd(f)'
  BY <1>1, <1>2, <1>3, <1>6, UntouchedLimits
<1> QED
  BY <1>2, <1>5, <1>6 DEF OutboxLimits

LEMMA DeliverLimits ==
  ASSUME OutboxInv, OutboxLimits, NEW w \in Sender, NEW e \in Event, deliver(w, e)
  PROVE  OutboxLimits'
<1>1. PICK result \in {"success", "failure"} :
        /\ sending[w][e].result = "claimed" /\ UNCHANGED <<published, deliveries, slips, replays>>
        /\ tries' = [tries EXCEPT ![e] = tries[e] + 1]
        /\ sending' = [sending EXCEPT ![w][e].result = result]
        /\ answered' \subseteq answered \cup {e}
  BY DEF deliver
<1>2. OutboxBounds' /\ slips' + replays' >= slips + replays
  BY <1>1, OutboxAssumption DEF OutboxLimits, OutboxBounds
<1>3. /\ \A v \in Sender, f \in Event : sending'[v][f].attempt = sending[v][f].attempt
      /\ \A v \in Sender, f \in Event : ~(v = w /\ f = e) => sending'[v][f] = sending[v][f]
      /\ sending'[w][e].result = result
      /\ \A f \in Event : tries'[f] = IF f = e THEN tries[e] + 1 ELSE tries[f]
  BY <1>1 DEF OutboxInv, OutboxShape, Sending
<1>4. /\ Outstanding(e)' = Outstanding(e) \ {w} /\ w \in Outstanding(e)
      /\ TakenBy(e)' = TakenBy(e)
  BY <1>1, <1>3 DEF Outstanding, TakenBy, Unsent
<1>5. Early(e)' = Early(e) /\ (Busy(e)' <=> Busy(e)) /\ (Due(e)' <=> Due(e))
  BY <1>1, <1>3, <1>4 DEF Early, Busy, Due
<1>6. Cardinality(Outstanding(e)') = Cardinality(Outstanding(e)) - 1
  BY <1>4, HoldersAreFew, FS_RemoveElement
<1>7. tries'[e] + Cardinality(Outstanding(e)') = tries[e] + Cardinality(Outstanding(e))
  BY <1>3, <1>6, HoldersAreFew DEF OutboxInv, OutboxShape
<1>8. TriesArePaid(e) /\ TriesEnd(e)
  BY DEF OutboxLimits
<1>9. TriesArePaid(e)'
  BY <1>1, <1>5, <1>7, <1>8 DEF TriesArePaid
<1>10. TriesEnd(e)'
  BY <1>1, <1>5, <1>7, <1>8 DEF TriesEnd
<1>11. ASSUME NEW f \in Event, f # e PROVE TriesArePaid(f)' /\ TriesEnd(f)'
  BY <1>1, <1>2, <1>3, <1>11, UntouchedLimits
<1> QED
  BY <1>2, <1>9, <1>10, <1>11 DEF OutboxLimits

\* An event that is claimed: its claim pays for the try to come, and takes the
\* place of the delivery's being due.
LEMMA ClaimPays ==
  ASSUME OutboxInv, OutboxLimits, NEW w \in Sender, NEW e \in Event, Claimable(e),
         sending[w][e] = Unsent, UNCHANGED <<tries, slips, replays>>,
         deliveries'[e].claim = "held", deliveries'[e].attempt = deliveries[e].attempt,
         sending'[w][e].result = "claimed", sending'[w][e].attempt = deliveries[e].attempt,
         \A v \in Sender : v # w => sending'[v][e] = sending[v][e]
  PROVE  TriesArePaid(e)' /\ TriesEnd(e)'
<1>1. sending'[w][e] # Unsent /\ sending[w][e].result # "claimed"
  BY DEF Unsent
<1>2. /\ Outstanding(e)' = Outstanding(e) \cup {w} /\ w \notin Outstanding(e)
      /\ TakenBy(e)' = TakenBy(e) \cup {w} /\ w \notin TakenBy(e)
  BY <1>1 DEF Outstanding, TakenBy
<1>3. ~Busy(e) /\ Busy(e)' /\ Due(e) /\ ~Due(e)'
  BY <1>2 DEF Busy, Due, Claimable
<1>4. /\ tries[e] \in Nat /\ deliveries[e].attempt \in Nat /\ slips \in Nat /\ replays \in Nat
      /\ RetryDelays \in Nat
  BY OutboxNumbers DEF OutboxLimits
<1>5. deliveries[e].attempt >= RetryDelays - 1 => Early(e)' = Early(e)
  <2> SUFFICES ASSUME deliveries[e].attempt >= RetryDelays - 1
               PROVE  Early(e)' = Early(e)
    OBVIOUS
  <2>1. ~(sending'[w][e].attempt + 1 < RetryDelays)
    BY <1>4
  <2> QED
    BY <1>2, <2>1 DEF Early, TakenBy
<1>6. Cardinality(Outstanding(e)') = Cardinality(Outstanding(e)) + 1
  BY <1>2, HoldersAreFew, FS_AddElement
<1>7. TriesArePaid(e) /\ TriesEnd(e) /\ Cardinality(Outstanding(e)) \in Nat
      /\ Cardinality(Early(e)) \in Nat /\ Cardinality(Sender) \in Nat
  BY HoldersAreFew DEF OutboxLimits
<1>8. TriesArePaid(e)'
  BY <1>3, <1>4, <1>6, <1>7 DEF TriesArePaid
<1>9. TriesEnd(e)'
  BY <1>3, <1>4, <1>5, <1>6, <1>7 DEF TriesEnd
<1> QED
  BY <1>8, <1>9

LEMMA ClaimLimits ==
  ASSUME OutboxInv, OutboxLimits, NEW w \in Sender, claim_webhook_deliveries(w)
  PROVE  OutboxLimits'
<1>1. /\ \A e \in Event : sending[w][e] = Unsent
      /\ deliveries' = [e \in Event |->
           IF Claimable(e) THEN [deliveries[e] EXCEPT !.made = TRUE, !.claim = "held"]
                           ELSE deliveries[e]]
      /\ sending' = [sending EXCEPT ![w] = [e \in Event |->
           IF Claimable(e) THEN [attempt |-> deliveries[e].attempt, result |-> "claimed"]
                           ELSE Unsent]]
      /\ UNCHANGED <<published, tries, answered, slips, replays>>
  BY DEF claim_webhook_deliveries
<1>2. OutboxBounds' /\ slips' + replays' >= slips + replays
  <2>1. UNCHANGED <<published, answered, slips, replays>>
    BY <1>1
  <2> QED
    BY <2>1, OutboxAssumption DEF OutboxLimits, OutboxBounds
<1>3. ASSUME NEW e \in Event PROVE TriesArePaid(e)' /\ TriesEnd(e)'
  <2>1. \A v \in Sender : v # w => sending'[v][e] = sending[v][e]
    BY <1>1 DEF OutboxInv, OutboxShape
  <2>2. CASE Claimable(e)
    <3>1. deliveries'[e] = [deliveries[e] EXCEPT !.made = TRUE, !.claim = "held"]
      BY <1>1, <2>2
    <3>2. deliveries'[e].claim = "held" /\ deliveries'[e].attempt = deliveries[e].attempt
      BY <3>1 DEF OutboxInv, OutboxShape, Delivery
    <3>3. sending'[w][e] = [attempt |-> deliveries[e].attempt, result |-> "claimed"]
      BY <1>1, <2>2 DEF OutboxInv, OutboxShape
    <3>4. sending'[w][e].result = "claimed" /\ sending'[w][e].attempt = deliveries[e].attempt
      BY <3>3
    <3> QED
      BY <1>1, <2>1, <2>2, <3>2, <3>4, ClaimPays
  <2>3. CASE ~Claimable(e)
    <3>1. deliveries'[e] = deliveries[e] /\ sending'[w][e] = Unsent
      BY <1>1, <2>3 DEF OutboxInv, OutboxShape
    <3>2. \A v \in Sender : sending'[v][e] = sending[v][e]
      BY <1>1, <2>1, <3>1
    <3> QED
      BY <1>1, <1>2, <3>1, <3>2, UntouchedLimits
  <2> QED
    BY <2>2, <2>3
<1> QED
  BY <1>2, <1>3 DEF OutboxLimits

\* A recorded attempt pays for its try; it leaves the delivery due only if the
\* worker was out with an attempt the schedule goes on after.
LEMMA RecordLimits ==
  ASSUME OutboxInv, OutboxLimits, NEW w \in Sender, NEW e \in Event, record_webhook_attempt(w, e)
  PROVE  OutboxLimits'
<1>1. /\ sending[w][e].result \in {"success", "failure"}
      /\ sending' = [sending EXCEPT ![w][e] = Unsent]
      /\ UNCHANGED <<published, tries, answered, slips, replays>>
  BY DEF record_webhook_attempt
<1>2. OutboxBounds' /\ slips' + replays' >= slips + replays
  <2>1. UNCHANGED <<published, answered, slips, replays>>
    BY <1>1
  <2> QED
    BY <2>1, OutboxAssumption DEF OutboxLimits, OutboxBounds
<1>3. /\ \A f \in Event : f # e => deliveries'[f] = deliveries[f]
      /\ deliveries'[e].attempt = deliveries[e].attempt + 1 /\ deliveries'[e].claim = "none"
      /\ sending[w][e].result = "success" => deliveries'[e].delivered
      /\ sending[w][e].result # "success" /\ ~retry_delay(sending[w][e].attempt + 1)
           => deliveries'[e].dead
  BY AttemptRecorded DEF OutboxInv
<1>4. /\ \A v \in Sender, f \in Event : ~(v = w /\ f = e) => sending'[v][f] = sending[v][f]
      /\ sending'[w][e] = Unsent /\ sending[w][e] # Unsent
  BY <1>1 DEF OutboxInv, OutboxShape, Unsent
<1>5. Outstanding(e)' = Outstanding(e) /\ TakenBy(e)' = TakenBy(e) \ {w} /\ w \in TakenBy(e)
  BY <1>1, <1>4 DEF Outstanding, TakenBy, Unsent
<1>6. Early(e)' = Early(e) \ {w} /\ ~Busy(e)'
  BY <1>3, <1>4, <1>5 DEF Early, Busy, TakenBy
<1>7. Due(e)' => w \in Early(e)
  BY <1>3, <1>5 DEF Due, Early, retry_delay
<1>8. PICK t, a, o, y, y1 :
        /\ t = tries[e] /\ a = deliveries[e].attempt /\ o = Cardinality(Outstanding(e))
        /\ y = Cardinality(Early(e)) /\ y1 = Cardinality(Early(e)')
  OBVIOUS
<1>9. PICK b, d, d1 : /\ b = (IF Busy(e) THEN 1 ELSE 0) /\ d = (IF Due(e) THEN 1 ELSE 0)
                      /\ d1 = (IF Due(e)' THEN 1 ELSE 0)
  OBVIOUS
<1>10. PICK s, r, n, k : /\ s = slips /\ r = replays /\ n = RetryDelays /\ k = Cardinality(Sender)
  OBVIOUS
<1>11. /\ t \in Nat /\ a \in Nat /\ o \in Nat /\ y \in Nat /\ y1 \in Nat /\ s \in Nat /\ r \in Nat
       /\ n \in Nat /\ k \in Nat /\ b \in 0..1 /\ d \in 0..1 /\ d1 \in 0..1
  BY <1>8, <1>9, <1>10, OutboxNumbers, HoldersAreFew, HoldersStayFew DEF OutboxLimits
<1>12. y1 + d1 <= y /\ y1 <= k
  <2>1. y1 <= y /\ y1 <= k
    BY <1>6, <1>8, <1>10, HoldersAreFew, HoldersStayFew, FS_Subset
  <2>2. w \in Early(e) => y1 = y - 1
    BY <1>6, <1>8, HoldersAreFew, FS_RemoveElement
  <2> QED
    BY <1>7, <1>9, <1>11, <2>1, <2>2
<1>13. /\ t + o <= a + b + s + r
       /\ a >= n - 1 => t + o + y + d <= n + k + s + r
  BY <1>8, <1>9, <1>10 DEF OutboxLimits, TriesArePaid, TriesEnd
<1>14. t + o <= a + 1 + s + r
  BY <1>11, <1>13
<1>15. a + 1 >= n - 1 => t + o + y1 + d1 <= n + k + s + r
  BY <1>11, <1>12, <1>13, <1>14
<1>16. tries'[e] = t /\ deliveries'[e].attempt = a + 1 /\ slips' = s /\ replays' = r
  BY <1>1, <1>3, <1>8, <1>10
<1>17. TriesArePaid(e)'
  <2>1. Cardinality(Outstanding(e)') = o /\ (IF Busy(e)' THEN 1 ELSE 0) = 0 /\ a + 1 + 0 = a + 1
    BY <1>5, <1>6, <1>8, <1>11
  <2> QED
    BY <1>14, <1>16, <2>1 DEF TriesArePaid
<1>18. TriesEnd(e)'
  <2>1. Cardinality(Outstanding(e)') = o
    BY <1>5, <1>8
  <2> QED
    BY <1>8, <1>9, <1>10, <1>15, <1>16, <2>1 DEF TriesEnd
<1>19. ASSUME NEW f \in Event, f # e PROVE TriesArePaid(f)' /\ TriesEnd(f)'
  BY <1>1, <1>2, <1>3, <1>4, <1>19, UntouchedLimits
<1> QED
  BY <1>2, <1>17, <1>18, <1>19 DEF OutboxLimits

\* Every step of the outbox keeps the limits on tries.
LEMMA OutboxLimitsKeep == OutboxInv /\ OutboxLimits /\ OutboxNext => OutboxLimits'
BY PublishLimits, ReplayLimits, LapseLimits, ClaimLimits, DeliverLimits, RecordLimits, LoseLimits
   DEF OutboxNext

LEMMA OutboxLimitsStutter == OutboxInv /\ OutboxLimits /\ UNCHANGED outboxVars => OutboxLimits'
<1> SUFFICES ASSUME OutboxInv, OutboxLimits, UNCHANGED outboxVars PROVE OutboxLimits'
  OBVIOUS
<1>1. UNCHANGED <<published, deliveries, sending, tries, answered, slips, replays>>
  BY DEF outboxVars
<1>2. OutboxBounds' /\ slips' + replays' >= slips + replays
  BY <1>1, OutboxAssumption DEF OutboxLimits, OutboxBounds
<1>3. \A f \in Event : TriesArePaid(f)' /\ TriesEnd(f)'
  BY <1>1, <1>2, UntouchedLimits
<1> QED
  BY <1>2, <1>3 DEF OutboxLimits

\* An event is tried at most once for every entry of the schedule, worker,
\* fault and replay, and so are its recorded attempts and those of its claims.
LEMMA OutboxTypes == OutboxInv /\ OutboxLimits => OutboxTypeOK
<1> SUFFICES ASSUME OutboxInv, OutboxLimits PROVE OutboxTypeOK
  OBVIOUS
<1>1. MaxTries \in Nat
  BY OutboxAssumption, FS_CardinalityType DEF MaxTries
<1>2. ASSUME NEW e \in Event PROVE tries[e] \in 0..MaxTries
  <2>1. PICK t, a, o, y, b, d :
          /\ t = tries[e] /\ a = deliveries[e].attempt /\ o = Cardinality(Outstanding(e))
          /\ y = Cardinality(Early(e)) /\ b = (IF Busy(e) THEN 1 ELSE 0)
          /\ d = (IF Due(e) THEN 1 ELSE 0)
    OBVIOUS
  <2>2. /\ t \in Nat /\ a \in Nat /\ o \in Nat /\ y \in Nat /\ b \in 0..1 /\ d \in 0..1
    BY <2>1, OutboxNumbers, HoldersAreFew DEF OutboxLimits
  <2>3. PICK s, r, n, k : /\ s = slips /\ r = replays /\ n = RetryDelays /\ k = Cardinality(Sender)
    OBVIOUS
  <2>4. /\ t + o <= a + b + s + r
        /\ a >= n - 1 => t + o + y + d <= n + k + s + r
    BY <2>1, <2>3 DEF OutboxLimits, TriesArePaid, TriesEnd
  <2>5. /\ s \in Nat /\ r \in Nat /\ s <= OutboxFaults /\ r <= MaxReplays /\ n \in Nat /\ k \in Nat
        /\ OutboxFaults \in Nat /\ MaxReplays \in Nat
        /\ MaxTries = n + OutboxFaults + MaxReplays + k
    BY <2>3, OutboxAssumption, FS_CardinalityType DEF OutboxLimits, OutboxBounds, MaxTries
  <2>6. t <= n + k + s + r
    BY <2>2, <2>4, <2>5
  <2> QED
    BY <2>1, <2>2, <2>5, <2>6
<1>3. ASSUME NEW e \in Event PROVE deliveries[e].attempt \in 0..MaxTries
  <2>1. /\ deliveries[e].attempt + Cardinality(Tried(e)) <= tries[e]
        /\ deliveries[e].attempt \in Nat /\ Cardinality(Tried(e)) \in Nat
    BY TriedIsFinite DEF OutboxInv, OutboxShape, Delivery
  <2> QED
    BY <1>1, <1>2, <2>1
<1>4. ASSUME NEW w \in Sender, NEW e \in Event PROVE sending[w][e].attempt \in 0..MaxTries
  <2>1. sending[w][e].attempt \in Nat /\ sending[w][e].attempt <= deliveries[e].attempt
    BY DEF OutboxInv, OutboxShape, Sending
  <2> QED
    BY <1>1, <1>3, <2>1
<1>5. deliveries \in [Event -> Row]
  <2>1. \A e \in Event : deliveries[e] \in Row
    BY <1>3 DEF OutboxInv, OutboxShape, Delivery, Row
  <2> QED
    BY <2>1 DEF OutboxInv, OutboxShape
<1>6. sending \in [Sender -> [Event -> Attempted]]
  <2>1. \A w \in Sender, e \in Event : sending[w][e] \in Attempted
    BY <1>4 DEF OutboxInv, OutboxShape, Sending, Attempted
  <2> QED
    BY <2>1 DEF OutboxInv, OutboxShape
<1>7. tries \in [Event -> 0..MaxTries]
  BY <1>2 DEF OutboxInv, OutboxShape
<1> QED
  BY <1>5, <1>6, <1>7 DEF OutboxTypeOK, OutboxLimits, OutboxBounds

(***************************************************************************)
(* The resource store.                                                     *)
(***************************************************************************)
ResourceRow == [state : {"none", "active", "expiring"}, stale : BOOLEAN,
                claims : 0..MaxReclaims, token : 0..MaxReclaims, lapsed : BOOLEAN]
Reclaim == [at : {"idle", "delete", "finish"}, token : 0..MaxReclaims]

\* The row and what the cleanups hold; the rest of the types.
ResourceRowOK == resource \in ResourceRow /\ reclaims \in [Reclaimer -> Reclaim]
ResourceRestOK ==
  /\ stored \in BOOLEAN
  /\ users \in [User -> {"none", "registered", "linked", "expired", "unlinked"}]
  /\ uploads \in [Uploader -> {"idle", "put"}] /\ upsets \in 0..ResourceFaults

LEMMA ResourceParts == ResourceTypeOK <=> ResourceRowOK /\ ResourceRestOK
BY DEF ResourceTypeOK, ResourceRowOK, ResourceRestOK, ResourceRow, Reclaim

LEMMA ResourcePartsNext == ResourceRowOK' /\ ResourceRestOK' => ResourceTypeOK'
BY DEF ResourceTypeOK, ResourceRowOK, ResourceRestOK, ResourceRow, Reclaim

LEMMA ResourceInitTypes == ResourceInit => ResourceTypeOK
<1> SUFFICES ASSUME ResourceInit PROVE ResourceTypeOK
  OBVIOUS
<1>1. 0 \in 0..MaxReclaims /\ 0 \in 0..ResourceFaults
  BY ResourceAssumption
<1>2. resource \in ResourceRow
  BY <1>1 DEF ResourceInit, ResourceRow
<1>3. reclaims \in [Reclaimer -> Reclaim]
  BY <1>1 DEF ResourceInit, Reclaim, Rested
<1>4. ResourceRestOK
  BY <1>1 DEF ResourceInit, ResourceRestOK
<1> QED
  BY <1>2, <1>3, <1>4, ResourceParts DEF ResourceRowOK

\* A row that is renewed, aged, claimed, released or let lapse is a row.
LEMMA ResourceRows ==
  ASSUME NEW row \in ResourceRow
  PROVE  /\ [row EXCEPT !.state = "active", !.stale = FALSE, !.token = 0, !.lapsed = FALSE] \in ResourceRow
         /\ [row EXCEPT !.state = "none", !.stale = FALSE, !.token = 0, !.lapsed = FALSE] \in ResourceRow
         /\ [row EXCEPT !.stale = TRUE] \in ResourceRow /\ [row EXCEPT !.lapsed = TRUE] \in ResourceRow
         /\ row.claims < MaxReclaims =>
              [row EXCEPT !.state = "expiring", !.claims = row.claims + 1,
                          !.token = row.claims + 1, !.lapsed = FALSE] \in ResourceRow
<1>1. 0 \in 0..MaxReclaims /\ (row.claims < MaxReclaims => row.claims + 1 \in 0..MaxReclaims)
  BY ResourceAssumption DEF ResourceRow
<1> QED
  BY <1>1 DEF ResourceRow

\* Every operation on the resource keeps its types: the number of claims, and
\* with it the tokens, stays within its bound.
LEMMA ResourceNextTypes == ResourceTypeOK /\ ResourceNext => ResourceTypeOK'
<1> SUFFICES ASSUME ResourceTypeOK, ResourceNext PROVE ResourceTypeOK'
  OBVIOUS
<1>1. resource \in ResourceRow /\ reclaims \in [Reclaimer -> Reclaim] /\ ResourceRestOK
  BY ResourceParts DEF ResourceRowOK
<1>2. Rested \in Reclaim
  BY ResourceAssumption DEF Rested, Reclaim
<1>3. Upset => upsets' \in 0..ResourceFaults
  BY <1>1, ResourceAssumption DEF Upset, ResourceRestOK
<1>5. CASE \E c \in Uploader : put_printpacket_resource(c)
                               \/ register_printpacket_resource(c) \/ RegistrationFails(c)
  <2>1. resource' = resource \/ resource' = Renewed
    BY <1>5 DEF put_printpacket_resource, register_printpacket_resource, RegistrationFails
  <2>2. ResourceRowOK'
    BY <1>1, <1>5, <2>1, ResourceRows DEF Renewed, ResourceRowOK, put_printpacket_resource,
       register_printpacket_resource, RegistrationFails
  <2>3. ResourceRestOK'
    BY <1>1, <1>3, <1>5 DEF ResourceRestOK, put_printpacket_resource,
       register_printpacket_resource, RegistrationFails
  <2> QED
    BY <2>2, <2>3, ResourcePartsNext
<1>6. CASE \E u \in User : register_render(u) \/ link_printpacket_render_resources(u) \/ RenderExpires(u)
  <2>1. resource' = resource \/ resource' = Renewed
    BY <1>6 DEF register_render, link_printpacket_render_resources, RenderExpires
  <2>2. ResourceRowOK'
    BY <1>1, <1>6, <2>1, ResourceRows DEF Renewed, ResourceRowOK, register_render,
       link_printpacket_render_resources, RenderExpires
  <2>3. ResourceRestOK'
    BY <1>1, <1>6 DEF ResourceRestOK, register_render, link_printpacket_render_resources, RenderExpires
  <2> QED
    BY <2>2, <2>3, ResourcePartsNext
<1>7. CASE \E w \in Reclaimer : claim_expired_printpacket_resources(w)
  <2>1. PICK w \in Reclaimer : claim_expired_printpacket_resources(w)
    BY <1>7
  <2>2. ASSUME UNCHANGED <<resource, reclaims>> PROVE ResourceRowOK'
    BY <1>1, <2>2 DEF ResourceRowOK
  <2>3. ASSUME resource.claims < MaxReclaims,
               resource' = [resource EXCEPT !.state = "expiring", !.claims = resource.claims + 1,
                                               !.token = resource.claims + 1, !.lapsed = FALSE],
               reclaims' = [reclaims EXCEPT ![w] = [at |-> "delete", token |-> resource.claims + 1]]
        PROVE  ResourceRowOK'
    <3>1. resource.claims + 1 \in 0..MaxReclaims
      BY <1>1, <2>3, ResourceAssumption DEF ResourceRow
    <3>2. [at |-> "delete", token |-> resource.claims + 1] \in Reclaim
      BY <3>1 DEF Reclaim
    <3> QED
      BY <1>1, <2>3, <3>2, ResourceRows DEF ResourceRowOK
  <2>4. ResourceRowOK'
    BY <2>1, <2>2, <2>3 DEF claim_expired_printpacket_resources
  <2>5. ResourceRestOK'
    BY <1>1, <2>1 DEF ResourceRestOK, claim_expired_printpacket_resources
  <2> QED
    BY <2>4, <2>5, ResourcePartsNext
<1>8. CASE \E w \in Reclaimer : \/ DeleteObject(w) \/ complete_expired_printpacket_resource(w)
                                \/ CleanupStops(w)
  <2>1. PICK w \in Reclaimer : \/ DeleteObject(w) \/ complete_expired_printpacket_resource(w)
                               \/ CleanupStops(w)
    BY <1>8
  <2>2. resource' \in ResourceRow
    BY <1>1, <2>1, ResourceRows DEF DeleteObject, complete_expired_printpacket_resource, CleanupStops
  <2>3. reclaims' \in [Reclaimer -> Reclaim]
    <3>1. \/ reclaims' = [reclaims EXCEPT ![w] = Rested]
          \/ reclaims' = [reclaims EXCEPT ![w] = [reclaims[w] EXCEPT !.at = "finish"]]
      BY <2>1 DEF DeleteObject, complete_expired_printpacket_resource, CleanupStops
    <3>2. [reclaims[w] EXCEPT !.at = "finish"] \in Reclaim
      BY <1>1 DEF Reclaim
    <3> QED
      BY <1>1, <1>2, <3>1, <3>2
  <2>4. ResourceRestOK'
    BY <1>1, <1>3, <2>1
       DEF ResourceRestOK, DeleteObject, complete_expired_printpacket_resource, CleanupStops
  <2> QED
    BY <2>2, <2>3, <2>4, ResourcePartsNext DEF ResourceRowOK
<1>9. CASE ResourceLapses \/ CleanupLapses
  <2>1. resource' \in ResourceRow /\ UNCHANGED <<stored, users, uploads, reclaims>>
    BY <1>1, <1>9, ResourceRows DEF ResourceLapses, CleanupLapses
  <2>2. upsets' \in 0..ResourceFaults
    BY <1>1, <1>3, <1>9 DEF ResourceLapses, CleanupLapses, ResourceRestOK
  <2> QED
    BY <1>1, <2>1, <2>2, ResourcePartsNext DEF ResourceRowOK, ResourceRestOK
<1> QED
  BY <1>5, <1>6, <1>7, <1>8, <1>9 DEF ResourceNext

LEMMA ResourceStutterTypes == ResourceTypeOK /\ UNCHANGED resourceVars => ResourceTypeOK'
BY DEF ResourceTypeOK, resourceVars

\* A render that refers to the resource finds its row.
ReferencedHasRow == References # {} => resource.state # "none"

LEMMA ReferencedHasRowKeeps ==
  ASSUME ResourceTypeOK, ReferencedHasRow, ResourceNext
  PROVE  ReferencedHasRow'
<1>1. resource \in ResourceRow /\ users \in [User -> {"none", "registered", "linked", "expired", "unlinked"}]
  BY ResourceParts DEF ResourceRowOK, ResourceRestOK
<1>2. /\ Renewed.state = "active" /\ [resource EXCEPT !.stale = TRUE].state = resource.state
      /\ [resource EXCEPT !.lapsed = TRUE].state = resource.state
      /\ [resource EXCEPT !.state = "expiring", !.claims = resource.claims + 1,
                          !.token = resource.claims + 1, !.lapsed = FALSE].state = "expiring"
  BY <1>1 DEF Renewed, ResourceRow
<1>3. CASE \E c \in Uploader : put_printpacket_resource(c)
                               \/ register_printpacket_resource(c) \/ RegistrationFails(c)
  BY <1>2, <1>3 DEF ReferencedHasRow, References, put_printpacket_resource,
     register_printpacket_resource, RegistrationFails
<1>4. CASE \E u \in User : register_render(u) \/ RenderExpires(u)
  <2>1. resource' = resource /\ References' \subseteq References
    BY <1>1, <1>4 DEF References, register_render, RenderExpires
  <2> QED
    BY <2>1 DEF ReferencedHasRow
<1>5. CASE \E u \in User : link_printpacket_render_resources(u)
  BY <1>2, <1>5 DEF ReferencedHasRow, link_printpacket_render_resources
<1>6. CASE \E w \in Reclaimer : claim_expired_printpacket_resources(w)
  <2>1. References' \subseteq References
    BY <1>1, <1>6 DEF References, claim_expired_printpacket_resources
  <2>2. resource' = resource \/ resource'.state = "expiring"
    BY <1>2, <1>6 DEF claim_expired_printpacket_resources
  <2> QED
    BY <2>1, <2>2 DEF ReferencedHasRow
<1>7. CASE \E w \in Reclaimer : DeleteObject(w) \/ CleanupStops(w)
  BY <1>7 DEF ReferencedHasRow, References, DeleteObject, CleanupStops
<1>8. CASE \E w \in Reclaimer : complete_expired_printpacket_resource(w)
  BY <1>8 DEF ReferencedHasRow, References, complete_expired_printpacket_resource
<1>9. CASE ResourceLapses \/ CleanupLapses
  BY <1>2, <1>9 DEF ReferencedHasRow, References, ResourceLapses, CleanupLapses
<1> QED
  BY <1>3, <1>4, <1>5, <1>6, <1>7, <1>8, <1>9 DEF ResourceNext

\* complete_expired_printpacket_resource and the link of a render are
\* transactions on the row: however cleanups race with renders, the row of a
\* resource that a render refers to is there, although its object may not be.
THEOREM ReferencedHasRowHolds == ResourceSpec => []ReferencedHasRow
<1>1. ResourceInit => ResourceTypeOK /\ ReferencedHasRow
  BY ResourceInitTypes DEF ResourceInit, ReferencedHasRow, References
<1>2. (ResourceTypeOK /\ ReferencedHasRow) /\ [ResourceNext]_resourceVars
        => (ResourceTypeOK /\ ReferencedHasRow)'
  <2>1. ResourceTypeOK /\ ReferencedHasRow /\ UNCHANGED resourceVars => ReferencedHasRow'
    BY DEF ReferencedHasRow, References, resourceVars
  <2> QED
    BY <2>1, ResourceNextTypes, ResourceStutterTypes, ReferencedHasRowKeeps
<1> QED
  BY <1>1, <1>2, PTL DEF ResourceSpec

(***************************************************************************)
(* The composition: a step of one service leaves the others' state alone,  *)
(* so every service keeps its invariant.                                   *)
(***************************************************************************)
ServicesInv ==
  /\ service \in {"guardian", "webhooks", "renders", "resources"}
  /\ GuardianTypeOK /\ GuardianInv
  /\ OutboxInv /\ OutboxLimits
  /\ RendersTypeOK /\ RendersInv
  /\ ResourceTypeOK /\ ReferencedHasRow

LEMMA ServicesInvariant == Spec => []ServicesInv
<1>1. Init => ServicesInv
  <2> SUFFICES ASSUME Init PROVE ServicesInv
    OBVIOUS
  <2>1. ReferencedHasRow
    BY DEF Init, ResourceInit, ReferencedHasRow, References
  <2> QED
    BY <2>1, GuardianInitKeeps, OutboxInitKeeps, OutboxLimitsInit, RendersInitType, ResourceInitTypes
       DEF Init, ServicesInv
<1>2. ServicesInv /\ [Next]_serviceVars => ServicesInv'
  <2> SUFFICES ASSUME ServicesInv, [Next]_serviceVars PROVE ServicesInv'
    OBVIOUS
  <2>1. /\ UNCHANGED service
        /\ GuardianNext \/ UNCHANGED guardianVars
        /\ OutboxNext \/ UNCHANGED outboxVars
        /\ RendersNext \/ UNCHANGED <<demand, renderVars>>
        /\ ResourceNext \/ UNCHANGED resourceVars
    BY DEF Next, serviceVars
  <2>2. (GuardianTypeOK /\ GuardianInv)'
    BY <2>1, GuardianNextKeeps, GuardianStutterKeeps DEF ServicesInv
  <2>3. OutboxInv' /\ OutboxLimits'
    BY <2>1, OutboxNextKeeps, OutboxStutterKeeps, OutboxLimitsKeep, OutboxLimitsStutter DEF ServicesInv
  <2>4. (RendersTypeOK /\ RendersInv)'
    BY <2>1, RendersNextKeeps, RendersStutterKeeps DEF ServicesInv
  <2>5. ResourceTypeOK'
    BY <2>1, ResourceNextTypes, ResourceStutterTypes DEF ServicesInv
  <2>6. ReferencedHasRow'
    <3>1. CASE ResourceNext
      BY <3>1, ReferencedHasRowKeeps DEF ServicesInv
    <3>2. CASE UNCHANGED resourceVars
      BY <3>2 DEF ServicesInv, ReferencedHasRow, References, resourceVars
    <3> QED
      BY <2>1, <3>1, <3>2
  <2> QED BY <2>1, <2>2, <2>3, <2>4, <2>5, <2>6 DEF ServicesInv
<1> QED BY <1>1, <1>2, PTL DEF Spec

\* The services' rows, records and histories have their types; for the webhook
\* outbox this bounds its tries: one event is sent at most once for every entry
\* of RETRY_DELAYS, every worker, every fault and every replay.
THEOREM ServicesTypes == Spec => []TypeOK
<1>1. ServicesInv => TypeOK
  BY OutboxTypes DEF ServicesInv, TypeOK
<1> QED BY <1>1, ServicesInvariant, PTL

\* The services side by side keep what each of them promises: the guardian's
\* settled release, the outbox's outcomes, and the renders' artifacts and
\* approvals, whichever of them a behaviour is of.
THEOREM ServicesAreSafe ==
  Spec => [](/\ SettledRunsInstalled /\ OutcomeIsTrue /\ CompletedHasArtifact
             /\ LiveJobHasArtifact /\ ApprovalIsSingle)
<1>1. ServicesInv => /\ SettledRunsInstalled /\ OutcomeIsTrue /\ CompletedHasArtifact
                     /\ LiveJobHasArtifact /\ ApprovalIsSingle
  BY GuardianInvSuffices, RendersInvSuffices DEF ServicesInv, OutboxInv
<1> QED BY <1>1, ServicesInvariant, PTL
=============================================================================
