-------------------------- MODULE AgentQueueProofs --------------------------
(***************************************************************************)
(* The agent queue keeps its promises for every set of jobs and printers,  *)
(* every number of failed transactions and every number of stops.          *)
(*                                                                         *)
(* What the engine read is stale when it writes.  The invariant says what  *)
(* stays true of it all the same: only the engine moves a job towards the  *)
(* handoff, only its task writes a local job, nobody but an operator makes *)
(* a job wait that has been printed, and that only a job nobody drives, and *)
(* the heads in hand are of different printers, of which none has another  *)
(* job under way.                                                          *)
(***************************************************************************)
EXTENDS AgentQueue, FiniteSetTheorems, TLAPS

Driven == {"execute", "submitted"}

\* What run_once still has in hand.
HeadsInHand == IF engine.pc \in {"heads"} \cup Driven THEN engine.heads ELSE {}
Items == IF engine.pc \in {"due", "apply", "finish"} THEN engine.items ELSE {}

Reconciled == Native \cup {"cancel_requested"}

Placed(p) == {j \in Job : PrinterOf[j] = p /\ seq[j] # 0}

\* printer_sequence numbers the rows of a printer, each differently.
PlacesAreApart ==
  /\ \A j \in Job : seq[j] = 0 <=> state[j] = "absent"
  /\ \A j \in Job : seq[j] <= Cardinality(Placed(PrinterOf[j]))
  /\ \A j, k \in Job : SamePrinter(j, k) /\ seq[j] # 0 => seq[j] # seq[k]

\* A head not yet taken up: nothing of its printer is on its way to the
\* spooler, and no earlier local job of it waits.
HeadIsFree(h) ==
  /\ h.state \in Waiting /\ state[h.job] \notin {"absent", "delivery_uncertain"}
  /\ printed[h.job] = 0
  /\ h.job \notin CloudManaged => state[h.job] = h.state
  /\ \A j \in Job : PrinterOf[j] = PrinterOf[h.job] => state[j] \notin BeforeHandoff
  /\ \A j \in Job : SamePrinter(j, h.job) /\ seq[j] < seq[h.job]
                      => ~(j \notin CloudManaged /\ state[j] \in Waiting)
  /\ engine.pc \in Driven => PrinterOf[engine.job] # PrinterOf[h.job]

HeadsAreFree ==
  /\ \A h \in HeadsInHand : HeadIsFree(h)
  /\ \A g, h \in HeadsInHand : g # h => PrinterOf[g.job] # PrinterOf[h.job]

\* The job in hand: what was written last, unless a cancellation did it.
DrivenIsCurrent ==
  /\ engine.pc \in Driven => state[engine.job] \notin {"absent", "delivery_uncertain"}
  /\ engine.pc = "execute" =>
       /\ printed[engine.job] = 0 /\ engine.at \in Waiting \cup BeforeHandoff
       /\ engine.job \notin CloudManaged => state[engine.job] = engine.at
       /\ engine.at \in BeforeHandoff => state[engine.job] \notin Waiting
  /\ engine.pc = "submitted" =>
       /\ engine.result \in {"retryable", "rejected"} => printed[engine.job] = 0
       /\ engine.job \notin CloudManaged => state[engine.job] = "spool_intent"
       /\ state[engine.job] \notin Waiting

ItemIsCurrent(i) ==
  /\ i.state \in Reconciled /\ state[i.job] # "absent"
  /\ i.job \notin CloudManaged => state[i.job] = i.state

\* What reconcile_due read is true of the local jobs, one item for each.
ItemsAreCurrent ==
  /\ \A i \in Items : ItemIsCurrent(i)
  /\ \A h, i \in Items : h.job = i.job => h = i
  /\ engine.pc = "apply" =>
       /\ ItemIsCurrent(engine.item) /\ schedule[engine.item.job] # Nil
       /\ engine.to \in Reconciled \cup Terminal
       /\ \A i \in Items : i.job # engine.item.job
  /\ engine.pc = "finish" => state[engine.job] \notin Native

ExpiredWaited ==
  engine.pc = "expire" =>
    \A j \in engine.ids : /\ state[j] # "absent"
                          /\ j \notin CloudManaged => state[j] \in Waiting

CancelIsOfServer ==
  cancel # Nil => /\ cancel.job \in CloudManaged \ recovering
                  /\ state[cancel.job] # "absent"

RecoveringIsInterrupted ==
  /\ recovering # {} => engine = Idle
  /\ \A j \in recovering : state[j] = "spool_intent"

\* A job that waits has not been printed.
WaitingIsUnprinted ==
  \A j \in Job : state[j] \in Waiting \cup {"absent"} => printed[j] = 0

QueueInv ==
  /\ TypeOK /\ PlacesAreApart /\ HeadsAreFree /\ DrivenIsCurrent /\ ItemsAreCurrent
  /\ ExpiredWaited /\ CancelIsOfServer /\ RecoveringIsInterrupted /\ WaitingIsUnprinted
  /\ SerialHandoff /\ SubmissionOrder /\ TrackedWhileNative /\ PrintedOnce

-----------------------------------------------------------------------------
(* The states, and what the engine has in hand at each of its steps.       *)

LEMMA StatesAre ==
  JobState = {"registered", "content_pending", "waiting_for_agent", "agent_downloading",
              "agent_accepted", "queued_local", "preparing", "rendering", "spool_intent",
              "accepted_by_spooler", "spooling", "printing", "blocked", "cancel_requested",
              "failed_retryable", "completed_reported", "delivery_uncertain", "cancelled",
              "expired", "failed_terminal"}
BY DEF JobState, Successors, Terminal

LEMMA KindsOfState ==
  /\ Waiting \subseteq JobState /\ BeforeHandoff \subseteq JobState
  /\ Native \subseteq JobState /\ Reconciled \subseteq JobState /\ Terminal \subseteq JobState
  /\ "absent" \notin JobState
BY StatesAre DEF Waiting, BeforeHandoff, Native, Reconciled, Terminal

LEMMA EngineFields ==
  ASSUME NEW e \in Engine
  PROVE  /\ e.pc \in {"idle", "expire", "heads", "execute", "submitted", "due", "apply",
                      "finish"}
         /\ e.pc = "expire" => e.ids \subseteq Job
         /\ e.pc \in {"heads", "execute", "submitted"} => e.heads \subseteq LocalJob
         /\ e.pc \in {"execute", "submitted", "finish"} => e.job \in Job
         /\ e.pc = "execute" => e.at \in JobState
         /\ e.pc = "submitted" => e.result \in Result
         /\ e.pc \in {"due", "apply", "finish"} => e.items \subseteq Item
         /\ e.pc = "apply" => e.item \in Item /\ e.to \in JobState
<1>1. CASE e \in [pc : {"idle"}]
  BY <1>1
<1>2. CASE e \in [pc : {"expire"}, ids : SUBSET Job]
  BY <1>2
<1>3. CASE e \in [pc : {"heads"}, heads : SUBSET LocalJob]
  BY <1>3
<1>4. CASE e \in [pc : {"execute"}, heads : SUBSET LocalJob, job : Job, at : JobState]
  BY <1>4
<1>5. CASE e \in [pc : {"submitted"}, heads : SUBSET LocalJob, job : Job, result : Result]
  BY <1>5
<1>6. CASE e \in [pc : {"due"}, items : SUBSET Item]
  BY <1>6
<1>7. CASE e \in [pc : {"apply"}, items : SUBSET Item, item : Item, to : JobState]
  BY <1>7
<1>8. CASE e \in [pc : {"finish"}, items : SUBSET Item, job : Job]
  BY <1>8
<1> QED BY <1>1, <1>2, <1>3, <1>4, <1>5, <1>6, <1>7, <1>8 DEF Engine

LEMMA EngineMade ==
  /\ Idle \in Engine
  /\ \A ids \in SUBSET Job : [pc |-> "expire", ids |-> ids] \in Engine
  /\ \A heads \in SUBSET LocalJob : [pc |-> "heads", heads |-> heads] \in Engine
  /\ \A heads \in SUBSET LocalJob, j \in Job, at \in JobState :
       [pc |-> "execute", heads |-> heads, job |-> j, at |-> at] \in Engine
  /\ \A heads \in SUBSET LocalJob, j \in Job, result \in Result :
       [pc |-> "submitted", heads |-> heads, job |-> j, result |-> result] \in Engine
  /\ \A items \in SUBSET Item : [pc |-> "due", items |-> items] \in Engine
  /\ \A items \in SUBSET Item, item \in Item, to \in JobState :
       [pc |-> "apply", items |-> items, item |-> item, to |-> to] \in Engine
  /\ \A items \in SUBSET Item, j \in Job :
       [pc |-> "finish", items |-> items, job |-> j] \in Engine
<1>1. Idle \in Engine
  BY DEF Idle, Engine
<1>2. \A ids \in SUBSET Job : [pc |-> "expire", ids |-> ids] \in Engine
  BY DEF Engine
<1>3. \A heads \in SUBSET LocalJob : [pc |-> "heads", heads |-> heads] \in Engine
  BY DEF Engine
<1>4. \A heads \in SUBSET LocalJob, j \in Job, at \in JobState :
        [pc |-> "execute", heads |-> heads, job |-> j, at |-> at] \in Engine
  BY DEF Engine
<1>5. \A heads \in SUBSET LocalJob, j \in Job, result \in Result :
        [pc |-> "submitted", heads |-> heads, job |-> j, result |-> result] \in Engine
  BY DEF Engine
<1>6. \A items \in SUBSET Item : [pc |-> "due", items |-> items] \in Engine
  BY DEF Engine
<1>7. \A items \in SUBSET Item, item \in Item, to \in JobState :
        [pc |-> "apply", items |-> items, item |-> item, to |-> to] \in Engine
  BY DEF Engine
<1>8. \A items \in SUBSET Item, j \in Job :
        [pc |-> "finish", items |-> items, job |-> j] \in Engine
  BY DEF Engine
<1> QED BY <1>1, <1>2, <1>3, <1>4, <1>5, <1>6, <1>7, <1>8

LEMMA EngineWhole ==
  ASSUME NEW e \in Engine
  PROVE  /\ e.pc = "idle" => e = Idle
         /\ e.pc = "expire" => e = [pc |-> "expire", ids |-> e.ids]
         /\ e.pc = "execute" => e = [pc |-> "execute", heads |-> e.heads, job |-> e.job,
                                    at |-> e.at]
<1>1. e.pc = "idle" => e = Idle
  BY DEF Idle, Engine
<1>2. e.pc = "expire" => e = [pc |-> "expire", ids |-> e.ids]
  BY DEF Engine
<1>3. e.pc = "execute" => e = [pc |-> "execute", heads |-> e.heads, job |-> e.job,
                               at |-> e.at]
  BY DEF Engine
<1> QED BY <1>1, <1>2, <1>3

LEMMA QueueInitKeeps == Init => QueueInv
<1> SUFFICES ASSUME Init PROVE QueueInv
  OBVIOUS
<1>1. TypeOK
  BY EngineMade DEF Init, TypeOK
<1>2. engine = Idle /\ engine.pc = "idle" /\ HeadsInHand = {} /\ Items = {}
  BY DEF Init, Idle, HeadsInHand, Items, Driven
<1>3. \A j \in Job : seq[j] = 0 /\ state[j] = "absent" /\ printed[j] = 0
  BY DEF Init
<1>4. \A j \in Job : Placed(PrinterOf[j]) = {}
  BY <1>3 DEF Placed
<1>5. Cardinality({}) = 0
  BY FS_EmptySet
<1>6. PlacesAreApart
  BY <1>3, <1>4, <1>5 DEF PlacesAreApart
<1>7. HeadsAreFree /\ DrivenIsCurrent /\ ItemsAreCurrent /\ ExpiredWaited
  BY <1>2 DEF HeadsAreFree, DrivenIsCurrent, ItemsAreCurrent, ExpiredWaited, Driven
<1>8. CancelIsOfServer /\ RecoveringIsInterrupted /\ WaitingIsUnprinted
  BY <1>3 DEF CancelIsOfServer, RecoveringIsInterrupted, WaitingIsUnprinted, Init
<1>9. SerialHandoff /\ SubmissionOrder /\ TrackedWhileNative /\ PrintedOnce
  BY <1>2, <1>3 DEF SerialHandoff, SubmissionOrder, TrackedWhileNative, PrintedOnce,
     BeforeHandoff, Waiting, Native, Driving
<1> QED BY <1>1, <1>6, <1>7, <1>8, <1>9 DEF QueueInv

-----------------------------------------------------------------------------
(* The cloud worker.  It writes jobs of the server only, takes none of them *)
(* towards the handoff, and releases one for the operator.                  *)

WorkerWrite(j) ==
  \/ state'[j] = state[j]
  \/ /\ j \in CloudManaged \ recovering /\ state[j] # "absent"
     /\ state'[j] \in {"cancel_requested", "cancelled"}
  \/ /\ j \in CloudManaged /\ state[j] = "failed_retryable" /\ state'[j] = "queued_local"
  \/ /\ j \in CloudManaged /\ state[j] = "delivery_uncertain"
     /\ state'[j] = "failed_retryable" /\ printed'[j] = 0

LEMMA WorkerKeeps ==
  ASSUME QueueInv, TypeOK', CancelIsOfServer',
         UNCHANGED <<seq, engine, recovering>>,
         \A j \in Job : WorkerWrite(j) /\ printed'[j] \in {printed[j], 0},
         \A j \in Job : schedule[j] # Nil => schedule'[j] # Nil
  PROVE  QueueInv'
<1> USE DEF WorkerWrite
<1>1. /\ HeadsInHand' = HeadsInHand /\ Items' = Items
      /\ \A p : Placed(p)' = Placed(p)
      /\ \A j \in Job : /\ state'[j] = "absent" <=> state[j] = "absent"
                        /\ j \notin CloudManaged => state'[j] = state[j]
                        /\ state'[j] \in BeforeHandoff => state[j] \in BeforeHandoff
                        /\ state'[j] = "delivery_uncertain" => state[j] = "delivery_uncertain"
                        /\ state'[j] \in Waiting =>
                             state[j] \in Waiting
                             \/ (state[j] = "delivery_uncertain" /\ printed'[j] = 0)
                        /\ state'[j] \in Native => state[j] \in Native
  BY DEF HeadsInHand, Items, Placed, BeforeHandoff, Waiting, Native
<1>2. /\ engine \in Engine /\ state \in [Job -> JobState \cup {"absent"}]
      /\ recovering \subseteq Job
  BY DEF QueueInv, TypeOK
<1>3. /\ HeadsInHand \subseteq LocalJob /\ Items \subseteq Item
      /\ engine.pc \in {"execute", "submitted", "finish"} => engine.job \in Job
      /\ engine.pc = "apply" => engine.item \in Item
      /\ engine.pc = "expire" => engine.ids \subseteq Job
  BY <1>2, EngineFields DEF HeadsInHand, Items, Driven
<1>4. PlacesAreApart'
  BY <1>1 DEF QueueInv, PlacesAreApart, SamePrinter
<1>5. HeadsAreFree'
  <2>1. \A h \in HeadsInHand : h.job \in Job
    BY <1>3 DEF LocalJob
  <2>2. \A h \in HeadsInHand : HeadIsFree(h)
    BY DEF QueueInv, HeadsAreFree
  <2>3. \A h \in HeadsInHand : HeadIsFree(h)'
    BY <1>1, <2>1, <2>2 DEF HeadIsFree, SamePrinter
  <2> QED BY <1>1, <2>3 DEF QueueInv, HeadsAreFree
<1>6. DrivenIsCurrent'
  BY <1>1, <1>3 DEF QueueInv, DrivenIsCurrent, Driven
<1>7. ItemsAreCurrent'
  <2>1. \A i \in Item : i.job \in Job
    BY DEF Item
  <2> QED BY <1>1, <1>3, <2>1 DEF QueueInv, ItemsAreCurrent, ItemIsCurrent
<1>8. ExpiredWaited'
  BY <1>1, <1>3 DEF QueueInv, ExpiredWaited
<1>9. RecoveringIsInterrupted'
  BY <1>2 DEF QueueInv, RecoveringIsInterrupted
<1>10. WaitingIsUnprinted' /\ PrintedOnce'
  BY <1>1 DEF QueueInv, WaitingIsUnprinted, PrintedOnce
<1>11. SerialHandoff' /\ SubmissionOrder'
  BY <1>1 DEF QueueInv, SerialHandoff, SubmissionOrder, Driving, SamePrinter
<1>12. TrackedWhileNative'
  BY <1>1 DEF QueueInv, TrackedWhileNative
<1> QED BY <1>4, <1>5, <1>6, <1>7, <1>8, <1>9, <1>10, <1>11, <1>12 DEF QueueInv

\* The server's command resolves an ambiguous handoff.
LEMMA ResolveCloudKeeps ==
  ASSUME QueueInv, NEW j \in Job, ResolveCloud(j)
  PROVE  QueueInv'
<1>1. /\ j \in CloudManaged /\ state[j] = "delivery_uncertain"
      /\ cancel' = cancel /\ cancel = Nil /\ ambiguous' = ambiguous \ {j}
      /\ UNCHANGED <<seq, schedule, engine, recovering, faults, crashes>>
      /\ \/ UNCHANGED <<state, printed>>
         \/ /\ state' = [state EXCEPT ![j] = "failed_retryable"]
            /\ printed' = [printed EXCEPT ![j] = 0]
  BY DEF ResolveCloud, Release, Confirm
<1>2. /\ state \in [Job -> JobState \cup {"absent"}] /\ printed \in [Job -> Nat]
      /\ ambiguous \subseteq Job
  BY DEF QueueInv, TypeOK
<1>3. /\ state' \in [Job -> JobState \cup {"absent"}] /\ printed' \in [Job -> Nat]
      /\ ambiguous' \subseteq Job
  BY <1>1, <1>2, StatesAre
<1>4. TypeOK'
  BY <1>1, <1>3 DEF QueueInv, TypeOK
<1>5. \A i \in Job : WorkerWrite(i) /\ printed'[i] \in {printed[i], 0}
  BY <1>1, <1>2 DEF WorkerWrite
<1>6. CancelIsOfServer'
  BY <1>1 DEF CancelIsOfServer
<1> QED BY <1>1, <1>4, <1>5, <1>6, WorkerKeeps

LEMMA PrepareAgainKeeps ==
  ASSUME QueueInv, NEW j \in Job, PrepareAgain(j)
  PROVE  QueueInv'
<1>1. /\ j \in CloudManaged /\ state[j] = "failed_retryable" /\ cancel' = cancel
      /\ state' = [state EXCEPT ![j] = "queued_local"] /\ cancel = Nil
      /\ UNCHANGED <<seq, schedule, engine, recovering, printed, ambiguous, faults, crashes>>
  BY DEF PrepareAgain
<1>2. TypeOK'
  BY <1>1, StatesAre DEF QueueInv, TypeOK
<1>3. \A i \in Job : WorkerWrite(i)
  BY <1>1 DEF QueueInv, TypeOK, WorkerWrite
<1>4. CancelIsOfServer'
  BY <1>1 DEF CancelIsOfServer
<1> QED BY <1>1, <1>2, <1>3, <1>4, WorkerKeeps

LEMMA RequestCancelKeeps ==
  ASSUME QueueInv, NEW j \in Job, RequestCancel(j)
  PROVE  QueueInv'
<1> DEFINE request == [job |-> j, before |-> state[j] \in Waiting, requested |-> FALSE]
<1>1. /\ j \in CloudManaged /\ state[j] \in Waiting \cup Native /\ cancel' = request
      /\ UNCHANGED <<state, seq, schedule, engine, recovering, printed, ambiguous, faults, crashes>>
  BY DEF RequestCancel
<1>2. request \in [job : Job, before : BOOLEAN, requested : BOOLEAN] /\ request.job = j
  OBVIOUS
<1> HIDE DEF request
<1>3. TypeOK'
  BY <1>1, <1>2 DEF QueueInv, TypeOK
<1>4. CancelIsOfServer'
  BY <1>1, <1>2 DEF QueueInv, CancelIsOfServer, RecoveringIsInterrupted, Waiting, Native
<1> QED BY <1>1, <1>3, <1>4, WorkerKeeps DEF WorkerWrite

LEMMA RecordCancelRequestKeeps ==
  ASSUME QueueInv, RecordCancelRequest
  PROVE  QueueInv'
<1> DEFINE request == [cancel EXCEPT !.requested = TRUE]
<1>1. /\ cancel # Nil /\ cancel' = request
      /\ state' = [state EXCEPT ![cancel.job] = "cancel_requested"]
      /\ UNCHANGED <<seq, schedule, engine, recovering, printed, ambiguous, faults, crashes>>
  BY DEF RecordCancelRequest
<1>2. /\ cancel \in [job : Job, before : BOOLEAN, requested : BOOLEAN]
      /\ state \in [Job -> JobState \cup {"absent"}]
  BY <1>1 DEF QueueInv, TypeOK
<1>3. /\ request \in [job : Job, before : BOOLEAN, requested : BOOLEAN]
      /\ request.job = cancel.job /\ cancel.job \in Job
  BY <1>2
<1> HIDE DEF request
<1>4. cancel.job \in CloudManaged \ recovering /\ state[cancel.job] # "absent"
  BY <1>1 DEF QueueInv, CancelIsOfServer
<1>5. state' \in [Job -> JobState \cup {"absent"}]
  BY <1>1, <1>2, StatesAre
<1>6. TypeOK'
  BY <1>1, <1>3, <1>5 DEF QueueInv, TypeOK
<1>7. CancelIsOfServer'
  BY <1>1, <1>2, <1>3, <1>4 DEF CancelIsOfServer
<1>8. \A i \in Job : WorkerWrite(i)
  BY <1>1, <1>2, <1>4 DEF WorkerWrite
<1> QED BY <1>1, <1>6, <1>7, <1>8, WorkerKeeps

LEMMA CompleteCancelKeeps ==
  ASSUME QueueInv, CompleteCancel
  PROVE  QueueInv'
<1>1. /\ cancel # Nil /\ cancel' = Nil
      /\ UNCHANGED <<seq, engine, recovering, printed, ambiguous, faults, crashes>>
  BY DEF CompleteCancel
<1>2. /\ cancel.job \in Job /\ state \in [Job -> JobState \cup {"absent"}]
      /\ schedule \in [Job -> BOOLEAN \cup {Nil}]
  BY <1>1 DEF QueueInv, TypeOK
<1>3. cancel.job \in CloudManaged \ recovering /\ state[cancel.job] # "absent"
  BY <1>1 DEF QueueInv, CancelIsOfServer
<1>4. \/ state' = [state EXCEPT ![cancel.job] = "cancelled"] /\ UNCHANGED schedule
      \/ /\ UNCHANGED state
         /\ schedule' = [schedule EXCEPT ![cancel.job] =
                           IF schedule[cancel.job] = Nil THEN Nil ELSE TRUE]
  BY DEF CompleteCancel
<1>5. /\ state' \in [Job -> JobState \cup {"absent"}]
      /\ \A i \in Job : WorkerWrite(i)
  BY <1>2, <1>3, <1>4, StatesAre DEF WorkerWrite
<1>7. /\ schedule' \in [Job -> BOOLEAN \cup {Nil}]
      /\ \A i \in Job : schedule[i] # Nil => schedule'[i] # Nil
  BY <1>2, <1>4, QueueAssumption
<1>8. TypeOK'
  BY <1>1, <1>5, <1>7 DEF QueueInv, TypeOK
<1>9. CancelIsOfServer'
  BY <1>1 DEF CancelIsOfServer
<1> QED BY <1>1, <1>5, <1>7, <1>8, <1>9, WorkerKeeps

LEMMA AbortCancelKeeps == QueueInv /\ AbortCancel => QueueInv'
<1> SUFFICES ASSUME QueueInv, AbortCancel PROVE QueueInv'
  OBVIOUS
<1>1. /\ cancel' = Nil /\ faults' = faults + 1
      /\ UNCHANGED <<state, seq, schedule, engine, recovering, printed, ambiguous, crashes>>
  BY DEF AbortCancel
<1>2. TypeOK'
  BY <1>1 DEF QueueInv, TypeOK
<1>3. CancelIsOfServer'
  BY <1>1 DEF CancelIsOfServer
<1> QED BY <1>1, <1>2, <1>3, WorkerKeeps DEF WorkerWrite

\* A new row takes the place behind all rows of its printer.
LEMMA AcceptJobKeeps ==
  ASSUME QueueInv, NEW j \in Job, AcceptJob(j)
  PROVE  QueueInv'
<1> DEFINE place == NextSequence(PrinterOf[j])
<1>1. /\ state[j] = "absent" /\ (j \notin CloudManaged => engine = Idle)
      /\ j \in CloudManaged => cancel = Nil
      /\ state' = [state EXCEPT ![j] = "queued_local"]
      /\ seq' = [seq EXCEPT ![j] = place]
      /\ UNCHANGED <<schedule, engine, cancel, recovering, printed, ambiguous, faults, crashes>>
  BY DEF AcceptJob
<1>2. /\ \A p : IsFiniteSet(Placed(p)) /\ Cardinality(Placed(p)) \in Nat
      /\ place = 1 + Cardinality(Placed(PrinterOf[j]))
  BY QueueAssumption, FS_Subset, FS_CardinalityType DEF Placed, NextSequence
<1> HIDE DEF place
<1>3. /\ engine \in Engine /\ state \in [Job -> JobState \cup {"absent"}]
      /\ seq \in [Job -> Nat] /\ recovering \subseteq Job
      /\ cancel # Nil => cancel.job \in Job
  BY DEF QueueInv, TypeOK
<1>4. /\ \A i \in Job : i # j => state'[i] = state[i] /\ seq'[i] = seq[i]
      /\ state'[j] = "queued_local" /\ seq'[j] = place /\ seq[j] = 0
      /\ place \in Nat /\ place # 0
  BY <1>1, <1>2, <1>3 DEF QueueInv, PlacesAreApart
<1>5. TypeOK'
  <2>1. state' \in [Job -> JobState \cup {"absent"}]
    BY <1>1, <1>3, StatesAre
  <2>2. seq' \in [Job -> Nat]
    BY <1>1, <1>3, <1>4
  <2> QED BY <1>1, <2>1, <2>2 DEF QueueInv, TypeOK
<1>6. PlacesAreApart'
  <2>1. /\ Placed(PrinterOf[j])' = Placed(PrinterOf[j]) \cup {j}
        /\ j \notin Placed(PrinterOf[j])
        /\ \A p : p # PrinterOf[j] => Placed(p)' = Placed(p)
    BY <1>4 DEF Placed
  <2>2. Cardinality(Placed(PrinterOf[j])') = place
    <3> DEFINE rows == Placed(PrinterOf[j])
    <3>1. IsFiniteSet(rows) /\ j \notin rows
      BY <1>2, <2>1
    <3> HIDE DEF rows
    <3>2. Cardinality(rows \cup {j}) = Cardinality(rows) + 1
      BY <3>1, FS_AddElement
    <3>3. Cardinality(rows) \in Nat /\ place = 1 + Cardinality(rows)
      BY <1>2 DEF rows
    <3>4. Placed(PrinterOf[j])' = rows \cup {j}
      BY <2>1 DEF rows
    <3> QED BY <3>2, <3>3, <3>4
  <2>3. \A i \in Job : seq'[i] <= Cardinality(Placed(PrinterOf[i])')
    <3> SUFFICES ASSUME NEW i \in Job
                 PROVE  seq'[i] <= Cardinality(Placed(PrinterOf[i])')
      OBVIOUS
    <3>1. seq[i] <= Cardinality(Placed(PrinterOf[i])) /\ seq[i] \in Nat
      BY <1>3 DEF QueueInv, PlacesAreApart
    <3>2. CASE PrinterOf[i] # PrinterOf[j]
      BY <1>4, <2>1, <3>1, <3>2
    <3>3. CASE PrinterOf[i] = PrinterOf[j]
      BY <1>2, <1>4, <2>2, <3>1, <3>3
    <3> QED BY <3>2, <3>3
  <2>4. \A i \in Job : PrinterOf[i] = PrinterOf[j] => seq[i] < place
    <3> SUFFICES ASSUME NEW i \in Job, PrinterOf[i] = PrinterOf[j] PROVE seq[i] < place
      OBVIOUS
    <3>1. seq[i] <= Cardinality(Placed(PrinterOf[j])) /\ seq[i] \in Nat
      BY <1>3 DEF QueueInv, PlacesAreApart
    <3> QED BY <1>2, <3>1
  <2>5. \A i, k \in Job : SamePrinter(i, k) /\ seq'[i] # 0 => seq'[i] # seq'[k]
    <3> SUFFICES ASSUME NEW i \in Job, NEW k \in Job, SamePrinter(i, k), seq'[i] # 0
                 PROVE  seq'[i] # seq'[k]
      OBVIOUS
    <3>1. i # k /\ PrinterOf[i] = PrinterOf[k] /\ seq[i] \in Nat /\ seq[k] \in Nat
      BY <1>3 DEF SamePrinter
    <3>2. CASE i = j
      BY <1>4, <2>4, <3>1, <3>2
    <3>3. CASE k = j
      BY <1>4, <2>4, <3>1, <3>3
    <3>4. CASE i # j /\ k # j
      BY <1>4, <3>4 DEF QueueInv, PlacesAreApart
    <3> QED BY <3>2, <3>3, <3>4
  <2>6. \A i \in Job : seq'[i] = 0 <=> state'[i] = "absent"
    BY <1>4 DEF QueueInv, PlacesAreApart
  <2>7. \A i, k \in Job : SamePrinter(i, k)' <=> SamePrinter(i, k)
    BY DEF SamePrinter
  <2> QED BY <2>3, <2>5, <2>6, <2>7 DEF PlacesAreApart
<1>7. /\ HeadsInHand' = HeadsInHand /\ Items' = Items
      /\ HeadsInHand \subseteq LocalJob /\ Items \subseteq Item
      /\ engine.pc \in {"execute", "submitted", "finish"} => engine.job \in Job
      /\ engine.pc = "apply" => engine.item \in Item
      /\ engine.pc = "expire" => engine.ids \subseteq Job
  BY <1>1, <1>3, EngineFields DEF HeadsInHand, Items, Driven
<1>8. j \notin CloudManaged => engine.pc = "idle"
  BY <1>1 DEF Idle
<1>9. HeadsAreFree'
  <2>1. \A h \in HeadsInHand : h.job \in Job
    BY <1>7 DEF LocalJob
  <2>2. \A h \in HeadsInHand : HeadIsFree(h)
    BY DEF QueueInv, HeadsAreFree
  <2>3. ASSUME NEW h \in HeadsInHand PROVE HeadIsFree(h)'
    <3>1. h.job # j /\ j \in CloudManaged
      BY <1>1, <1>8, <2>2 DEF HeadIsFree, HeadsInHand, Driven
    <3> QED BY <1>1, <1>4, <2>1, <2>2, <3>1 DEF HeadIsFree, SamePrinter, BeforeHandoff
  <2> QED BY <1>7, <2>3 DEF QueueInv, HeadsAreFree
<1>10. DrivenIsCurrent'
  BY <1>1, <1>4, <1>7 DEF QueueInv, DrivenIsCurrent, Driven
<1>11. ItemsAreCurrent'
  <2>1. \A i \in Item : i.job \in Job
    BY DEF Item
  <2> QED BY <1>1, <1>4, <1>7, <2>1 DEF QueueInv, ItemsAreCurrent, ItemIsCurrent, Native
<1>12. ExpiredWaited' /\ CancelIsOfServer'
  BY <1>1, <1>3, <1>4, <1>7 DEF QueueInv, ExpiredWaited, CancelIsOfServer
<1>13. RecoveringIsInterrupted'
  BY <1>1, <1>3, <1>4 DEF QueueInv, RecoveringIsInterrupted
<1>14. WaitingIsUnprinted' /\ PrintedOnce'
  BY <1>1, <1>4 DEF QueueInv, WaitingIsUnprinted, PrintedOnce
<1>15. SerialHandoff'
  BY <1>1, <1>4, <1>7 DEF QueueInv, SerialHandoff, Driving, SamePrinter, BeforeHandoff,
     DrivenIsCurrent, Driven
<1>16. SubmissionOrder'
  BY <1>1, <1>4, <1>7, <1>8 DEF QueueInv, SubmissionOrder, Driving, SamePrinter,
     DrivenIsCurrent, Driven
<1>17. TrackedWhileNative'
  BY <1>1, <1>4 DEF QueueInv, TrackedWhileNative, Native
<1> QED BY <1>5, <1>6, <1>9, <1>10, <1>11, <1>12, <1>13, <1>14, <1>15, <1>16, <1>17
        DEF QueueInv

-----------------------------------------------------------------------------
(* Ends of a run.                                                          *)

LEMMA RunEndKeeps ==
  ASSUME QueueInv, TypeOK', engine' = Idle, UNCHANGED <<state, seq, schedule, printed>>,
         \A j \in recovering' : state[j] = "spool_intent",
         \/ cancel' = Nil
         \/ cancel' = cancel /\ recovering' \cap CloudManaged = {}
  PROVE  QueueInv'
<1>1. engine'.pc = "idle" /\ HeadsInHand' = {} /\ Items' = {} /\ \A p : Placed(p)' = Placed(p)
  BY DEF Idle, HeadsInHand, Items, Driven, Placed
<1>2. HeadsAreFree' /\ DrivenIsCurrent' /\ ItemsAreCurrent' /\ ExpiredWaited'
  BY <1>1 DEF HeadsAreFree, DrivenIsCurrent, ItemsAreCurrent, ExpiredWaited, Driven
<1>3. CancelIsOfServer'
  BY DEF QueueInv, CancelIsOfServer
<1>4. RecoveringIsInterrupted'
  BY DEF RecoveringIsInterrupted, Idle
<1>5. PlacesAreApart' /\ WaitingIsUnprinted' /\ PrintedOnce' /\ TrackedWhileNative'
  BY <1>1 DEF QueueInv, PlacesAreApart, WaitingIsUnprinted, PrintedOnce,
     TrackedWhileNative, SamePrinter
<1>6. SerialHandoff' /\ SubmissionOrder'
  BY <1>1 DEF QueueInv, SerialHandoff, SubmissionOrder, Driving, SamePrinter
<1> QED BY <1>2, <1>3, <1>4, <1>5, <1>6 DEF QueueInv

LEMMA EndRunKeeps ==
  ASSUME QueueInv, EndRun, UNCHANGED <<state, seq, schedule, cancel, printed>>,
         faults' \in Nat, crashes' \in Nat, ambiguous' \subseteq Job
  PROVE  QueueInv'
<1>1. TypeOK'
  BY EngineMade DEF QueueInv, TypeOK, EndRun
<1> QED BY <1>1, RunEndKeeps DEF EndRun

LEMMA AbortRunKeeps == QueueInv /\ AbortRun => QueueInv'
BY EndRunKeeps DEF AbortRun, QueueInv, TypeOK

LEMMA FinishRunKeeps == QueueInv /\ FinishRun => QueueInv'
BY EndRunKeeps DEF FinishRun, QueueInv, TypeOK

LEMMA CrashKeeps == QueueInv /\ Crash => QueueInv'
<1> SUFFICES ASSUME QueueInv, Crash PROVE QueueInv'
  OBVIOUS
<1>1. TypeOK'
  BY EngineMade DEF QueueInv, TypeOK, Crash
<1> QED BY <1>1, RunEndKeeps DEF Crash

-----------------------------------------------------------------------------
(* Steps of the engine.                                                    *)

LEMMA NothingRecovers == QueueInv /\ engine.pc # "idle" => recovering = {}
BY DEF QueueInv, RecoveringIsInterrupted, Idle

\* A step that writes no job.
LEMMA EngineReads ==
  ASSUME QueueInv,
         UNCHANGED <<state, seq, printed, ambiguous, cancel, recovering, faults, crashes>>,
         engine' \in Engine, schedule' \in [Job -> BOOLEAN \cup {Nil}],
         recovering = {}, HeadsAreFree', DrivenIsCurrent', ItemsAreCurrent', ExpiredWaited',
         SerialHandoff', SubmissionOrder', TrackedWhileNative'
  PROVE  QueueInv'
<1>1. TypeOK'
  BY DEF QueueInv, TypeOK
<1>2. \A p : Placed(p)' = Placed(p)
  BY DEF Placed
<1>3. PlacesAreApart' /\ WaitingIsUnprinted' /\ PrintedOnce'
  BY <1>2 DEF QueueInv, PlacesAreApart, WaitingIsUnprinted, PrintedOnce, SamePrinter
<1>4. CancelIsOfServer' /\ RecoveringIsInterrupted'
  BY DEF QueueInv, CancelIsOfServer, RecoveringIsInterrupted
<1> QED BY <1>1, <1>3, <1>4 DEF QueueInv

\* A step that writes one job.
LEMMA EngineWrites ==
  ASSUME QueueInv, UNCHANGED <<seq, printed, ambiguous, cancel, recovering, faults, crashes>>,
         NEW d \in Job, NEW to \in JobState, state' = [state EXCEPT ![d] = to],
         state[d] # "absent", to \in Waiting => printed[d] = 0,
         engine' \in Engine, schedule' \in [Job -> BOOLEAN \cup {Nil}],
         recovering = {}, HeadsAreFree', DrivenIsCurrent', ItemsAreCurrent', ExpiredWaited',
         SerialHandoff', SubmissionOrder', TrackedWhileNative'
  PROVE  QueueInv'
<1>1. state \in [Job -> JobState \cup {"absent"}] /\ (cancel # Nil => cancel.job \in Job)
  BY DEF QueueInv, TypeOK
<1>2. state' \in [Job -> JobState \cup {"absent"}]
  BY <1>1
<1>3. TypeOK'
  BY <1>2 DEF QueueInv, TypeOK
<1>4. /\ \A p : Placed(p)' = Placed(p)
      /\ \A j \in Job : j # d => state'[j] = state[j]
      /\ state'[d] = to /\ to # "absent"
  BY <1>1, KindsOfState DEF Placed
<1>5. PlacesAreApart'
  BY <1>4 DEF QueueInv, PlacesAreApart, SamePrinter
<1>6. WaitingIsUnprinted' /\ PrintedOnce'
  BY <1>4 DEF QueueInv, WaitingIsUnprinted, PrintedOnce
<1>7. CancelIsOfServer' /\ RecoveringIsInterrupted'
  BY <1>1, <1>4 DEF QueueInv, CancelIsOfServer, RecoveringIsInterrupted
<1> QED BY <1>3, <1>5, <1>6, <1>7 DEF QueueInv

\* With no head in hand and none driven, order and exclusion are about rows.
LEMMA NothingDriven ==
  ASSUME QueueInv, engine'.pc \in {"idle", "expire", "due", "apply", "finish"},
         \A j \in Job : state'[j] \in BeforeHandoff => state[j] \in BeforeHandoff
  PROVE  HeadsAreFree' /\ DrivenIsCurrent' /\ SerialHandoff' /\ SubmissionOrder'
<1>1. HeadsInHand' = {} /\ ~(engine'.pc \in Driven)
  BY DEF HeadsInHand, Driven
<1>2. HeadsAreFree' /\ DrivenIsCurrent'
  BY <1>1 DEF HeadsAreFree, DrivenIsCurrent, Driven
<1>3. SerialHandoff' /\ SubmissionOrder'
  BY DEF QueueInv, SerialHandoff, SubmissionOrder, Driving, SamePrinter
<1> QED BY <1>2, <1>3

\* With no item in hand there is nothing to be stale.
LEMMA NothingDue ==
  ASSUME engine'.pc \in {"heads", "execute", "submitted", "expire"}
  PROVE  ItemsAreCurrent'
BY DEF ItemsAreCurrent, Items

LEMMA StartRunKeeps == QueueInv /\ StartRun => QueueInv'
<1> SUFFICES ASSUME QueueInv, StartRun PROVE QueueInv'
  OBVIOUS
<1>1. PICK expired \in SUBSET ExpirableJobs :
        /\ engine' = [pc |-> "expire", ids |-> expired] /\ recovering = {}
        /\ UNCHANGED <<state, seq, schedule, cancel, recovering, printed, ambiguous, faults, crashes>>
  BY DEF StartRun
<1>2. engine' \in Engine /\ engine'.pc = "expire" /\ engine'.ids = expired
  BY <1>1, EngineMade DEF ExpirableJobs
<1>3. HeadsAreFree' /\ DrivenIsCurrent' /\ SerialHandoff' /\ SubmissionOrder'
  BY <1>1, <1>2, NothingDriven
<1>4. ItemsAreCurrent'
  BY <1>2, NothingDue
<1>5. ExpiredWaited'
  BY <1>1, <1>2 DEF ExpiredWaited, ExpirableJobs, Waiting
<1>6. TrackedWhileNative'
  BY <1>1 DEF QueueInv, TrackedWhileNative
<1>7. schedule' \in [Job -> BOOLEAN \cup {Nil}]
  BY <1>1 DEF QueueInv, TypeOK
<1> QED BY <1>1, <1>2, <1>3, <1>4, <1>5, <1>6, <1>7, EngineReads

LEMMA ExpireWaitingKeeps == QueueInv /\ ExpireWaiting => QueueInv'
<1> SUFFICES ASSUME QueueInv, ExpireWaiting PROVE QueueInv'
  OBVIOUS
<1>1. PICK d \in engine.ids :
        /\ engine.pc = "expire" /\ state' = [state EXCEPT ![d] = "expired"]
        /\ engine' = [engine EXCEPT !.ids = engine.ids \ {d}]
        /\ UNCHANGED <<seq, schedule, cancel, recovering, printed, ambiguous, faults, crashes>>
  BY DEF ExpireWaiting
<1>2. /\ engine \in Engine /\ state \in [Job -> JobState \cup {"absent"}]
      /\ schedule' \in [Job -> BOOLEAN \cup {Nil}]
  BY <1>1 DEF QueueInv, TypeOK
<1>3. engine.ids \subseteq Job /\ engine = [pc |-> "expire", ids |-> engine.ids]
  BY <1>1, <1>2, EngineFields, EngineWhole
<1>4. engine' = [pc |-> "expire", ids |-> engine.ids \ {d}]
  BY <1>1, <1>3
<1>5. engine' \in Engine /\ engine'.pc = "expire" /\ engine'.ids = engine.ids \ {d}
  BY <1>3, <1>4, EngineMade
<1>6. /\ \A j \in Job : j # d => state'[j] = state[j]
      /\ d \in Job /\ state'[d] = "expired" /\ state[d] # "absent"
  BY <1>1, <1>2, <1>3 DEF QueueInv, ExpiredWaited
<1>7. HeadsAreFree' /\ DrivenIsCurrent' /\ SerialHandoff' /\ SubmissionOrder'
  BY <1>5, <1>6, NothingDriven DEF BeforeHandoff
<1>8. ItemsAreCurrent'
  BY <1>5, NothingDue
<1>9. ExpiredWaited'
  BY <1>1, <1>3, <1>5, <1>6 DEF QueueInv, ExpiredWaited
<1>10. TrackedWhileNative'
  BY <1>1, <1>6 DEF QueueInv, TrackedWhileNative, Native
<1>11. recovering = {} /\ "expired" \in JobState /\ "expired" \notin Waiting
  BY <1>1, NothingRecovers, StatesAre DEF Waiting
<1> QED BY <1>1, <1>2, <1>5, <1>6, <1>7, <1>8, <1>9, <1>10, <1>11, EngineWrites

LEMMA ReadHeadsKeeps == QueueInv /\ ReadHeads => QueueInv'
<1> SUFFICES ASSUME QueueInv, ReadHeads PROVE QueueInv'
  OBVIOUS
<1>1. PICK heads \in SUBSET RunnableHeads :
        /\ engine' = [pc |-> "heads", heads |-> heads] /\ engine.pc = "expire"
        /\ UNCHANGED <<state, seq, schedule, cancel, recovering, printed, ambiguous, faults, crashes>>
  BY DEF ReadHeads
<1>2. /\ state \in [Job -> JobState \cup {"absent"}] /\ seq \in [Job -> Nat]
      /\ schedule' \in [Job -> BOOLEAN \cup {Nil}]
  BY <1>1 DEF QueueInv, TypeOK
<1>3. \A h \in RunnableHeads :
        /\ h.job \in Job /\ h.state = state[h.job] /\ Runnable(h.job)
        /\ h = [job |-> h.job, state |-> state[h.job]]
        /\ \A i \in Job : PrinterOf[i] = PrinterOf[h.job] =>
             /\ state[i] \notin Active
             /\ Runnable(i) => seq[i] >= seq[h.job]
  BY DEF RunnableHeads
<1>4. \A j \in Job : Runnable(j) => state[j] \in Waiting
  BY DEF Runnable, Waiting
<1>5. RunnableHeads \subseteq LocalJob
  BY <1>3, <1>4, KindsOfState DEF LocalJob
<1>6. engine' \in Engine /\ engine'.pc = "heads" /\ HeadsInHand' = heads
  BY <1>1, <1>5, EngineMade DEF HeadsInHand
<1>7. \A g, h \in RunnableHeads : PrinterOf[g.job] = PrinterOf[h.job] => g = h
  <2> SUFFICES ASSUME NEW g \in RunnableHeads, NEW h \in RunnableHeads,
                      PrinterOf[g.job] = PrinterOf[h.job]
               PROVE  g = h
    OBVIOUS
  <2>1. seq[g.job] >= seq[h.job] /\ seq[h.job] >= seq[g.job]
    BY <1>3
  <2>2. seq[g.job] \in Nat /\ seq[h.job] \in Nat
    BY <1>2, <1>3
  <2>3. seq[g.job] = seq[h.job]
    BY <2>1, <2>2
  <2>4. seq[g.job] # 0
    BY <1>3, <1>4 DEF QueueInv, PlacesAreApart, Waiting
  <2>5. g.job = h.job
    BY <1>3, <2>3, <2>4 DEF QueueInv, PlacesAreApart, SamePrinter
  <2> QED BY <1>3, <2>5
<1>8. HeadsAreFree'
  <2>1. ASSUME NEW h \in heads PROVE HeadIsFree(h)'
    <3>1. h.job \in Job /\ h.state = state[h.job] /\ state[h.job] \in Waiting
      BY <1>3, <1>4
    <3>2. state[h.job] \notin {"absent", "delivery_uncertain"} /\ printed[h.job] = 0
      BY <3>1 DEF QueueInv, WaitingIsUnprinted, Waiting
    <3>3. \A j \in Job : PrinterOf[j] = PrinterOf[h.job] => state[j] \notin BeforeHandoff
      BY <1>3 DEF Active
    <3>4. ASSUME NEW j \in Job, SamePrinter(j, h.job), seq[j] < seq[h.job],
                 j \notin CloudManaged, state[j] \in Waiting
          PROVE  FALSE
      <4>1. Runnable(j) /\ PrinterOf[j] = PrinterOf[h.job]
        BY <3>4 DEF Runnable, Waiting, SamePrinter
      <4>2. seq[j] >= seq[h.job] /\ seq[j] \in Nat /\ seq[h.job] \in Nat
        BY <1>2, <1>3, <3>1, <4>1
      <4> QED BY <3>4, <4>2
    <3>5. engine'.pc \notin Driven
      BY <1>6 DEF Driven
    <3> QED BY <1>1, <3>1, <3>2, <3>3, <3>4, <3>5 DEF HeadIsFree, SamePrinter
  <2> QED BY <1>6, <1>7, <2>1 DEF HeadsAreFree
<1>9. DrivenIsCurrent' /\ ExpiredWaited'
  BY <1>6 DEF DrivenIsCurrent, ExpiredWaited, Driven
<1>10. ItemsAreCurrent'
  BY <1>6, NothingDue
<1>11. SerialHandoff' /\ SubmissionOrder' /\ TrackedWhileNative'
  BY <1>1, <1>6 DEF QueueInv, SerialHandoff, SubmissionOrder, TrackedWhileNative, Driving,
     SamePrinter
<1>12. recovering = {}
  BY <1>1, NothingRecovers
<1> QED BY <1>1, <1>2, <1>6, <1>8, <1>9, <1>10, <1>11, <1>12, EngineReads

LEMMA ExecuteJobKeeps == QueueInv /\ ExecuteJob => QueueInv'
<1> SUFFICES ASSUME QueueInv, ExecuteJob PROVE QueueInv'
  OBVIOUS
<1>1. PICK h \in engine.heads :
        /\ engine' = [pc |-> "execute", heads |-> engine.heads \ {h}, job |-> h.job,
                      at |-> h.state]
        /\ engine.pc = "heads"
        /\ UNCHANGED <<state, seq, schedule, cancel, recovering, printed, ambiguous, faults, crashes>>
  BY DEF ExecuteJob
<1>2. engine \in Engine /\ schedule' \in [Job -> BOOLEAN \cup {Nil}]
  BY <1>1 DEF QueueInv, TypeOK
<1>3. HeadsInHand = engine.heads /\ HeadsInHand \subseteq LocalJob /\ engine.pc \notin Driven
  BY <1>1, <1>2, EngineFields DEF HeadsInHand, Driven
<1>4. \A g \in HeadsInHand : g.job \in Job /\ g.state \in JobState
  BY <1>3 DEF LocalJob
<1>5. /\ engine' \in Engine /\ engine'.pc = "execute" /\ HeadsInHand' = HeadsInHand \ {h}
      /\ engine'.job = h.job /\ engine'.at = h.state
  BY <1>1, <1>3, <1>4, EngineMade DEF HeadsInHand, Driven
<1>6. \A g \in HeadsInHand : HeadIsFree(g) /\ (g # h => PrinterOf[g.job] # PrinterOf[h.job])
  BY <1>1, <1>3 DEF QueueInv, HeadsAreFree
<1>7. HeadsAreFree'
  <2>1. \A g \in HeadsInHand' : HeadIsFree(g)'
    BY <1>1, <1>5, <1>6 DEF HeadIsFree, SamePrinter
  <2> QED BY <1>5, <2>1 DEF QueueInv, HeadsAreFree
<1>8. HeadIsFree(h) /\ h.job \in Job
  BY <1>1, <1>3, <1>4, <1>6
<1>9. DrivenIsCurrent'
  BY <1>1, <1>5, <1>8 DEF DrivenIsCurrent, HeadIsFree, Waiting, BeforeHandoff
<1>10. ItemsAreCurrent' /\ ExpiredWaited'
  BY <1>5, NothingDue DEF ExpiredWaited
<1>11. SerialHandoff' /\ SubmissionOrder'
  BY <1>1, <1>5, <1>8 DEF QueueInv, SerialHandoff, SubmissionOrder, HeadIsFree, Driving,
     SamePrinter
<1>12. TrackedWhileNative'
  BY <1>1 DEF QueueInv, TrackedWhileNative
<1>13. recovering = {}
  BY <1>1, NothingRecovers
<1> QED BY <1>1, <1>2, <1>5, <1>7, <1>9, <1>10, <1>11, <1>12, <1>13, EngineReads

\* What is said of the heads in hand is not about the job being driven.
LEMMA HeadsStayFree ==
  ASSUME QueueInv, engine.pc \in Driven, engine'.pc \in {"heads"} \cup Driven,
         HeadsInHand' = HeadsInHand, engine'.pc \in Driven => engine'.job = engine.job,
         UNCHANGED seq,
         \A j \in Job : j # engine.job => state'[j] = state[j] /\ printed'[j] = printed[j]
  PROVE  HeadsAreFree'
<1>1. HeadsInHand \subseteq LocalJob
  BY EngineFields DEF QueueInv, TypeOK, HeadsInHand, Driven
<1>2. \A h \in HeadsInHand : h.job \in Job /\ HeadIsFree(h)
  BY <1>1 DEF LocalJob, QueueInv, HeadsAreFree
<1>3. \A h \in HeadsInHand : HeadIsFree(h)'
  BY <1>2 DEF HeadIsFree, SamePrinter
<1> QED BY <1>3 DEF QueueInv, HeadsAreFree

LEMMA AdvanceJobKeeps == QueueInv /\ AdvanceJob => QueueInv'
<1> SUFFICES ASSUME QueueInv, AdvanceJob PROVE QueueInv'
  OBVIOUS
<1> DEFINE d == engine.job
<1>1. PICK to \in NextStep(engine.at) :
        /\ engine.pc = "execute" /\ state' = [state EXCEPT ![d] = to]
        /\ engine' = IF to = "failed_terminal" THEN [pc |-> "heads", heads |-> engine.heads]
                     ELSE [engine EXCEPT !.at = to]
        /\ UNCHANGED <<seq, schedule, cancel, recovering, printed, ambiguous, faults, crashes>>
  BY DEF AdvanceJob
<1>2. /\ engine \in Engine /\ state \in [Job -> JobState \cup {"absent"}]
      /\ schedule' \in [Job -> BOOLEAN \cup {Nil}]
  BY <1>1 DEF QueueInv, TypeOK
<1>3. /\ d \in Job /\ engine.heads \subseteq LocalJob
      /\ engine = [pc |-> "execute", heads |-> engine.heads, job |-> d, at |-> engine.at]
  BY <1>1, <1>2, EngineFields, EngineWhole
<1>4. \/ to = "queued_local" /\ engine.at = "failed_retryable"
      \/ to \in BeforeHandoff
      \/ to = "failed_terminal"
  BY <1>1 DEF NextStep, BeforeHandoff
<1>5. to \in JobState
  BY <1>4, StatesAre DEF BeforeHandoff
<1>6. engine' = IF to = "failed_terminal" THEN [pc |-> "heads", heads |-> engine.heads]
                ELSE [pc |-> "execute", heads |-> engine.heads, job |-> d, at |-> to]
  BY <1>1, <1>3
<1>7. /\ engine' \in Engine /\ engine'.pc \in {"heads", "execute"} /\ HeadsInHand' = HeadsInHand
      /\ engine'.pc = "execute" => engine'.job = d /\ engine'.at = to
      /\ engine'.pc = "heads" => to = "failed_terminal"
  BY <1>1, <1>3, <1>5, <1>6, EngineMade DEF HeadsInHand, Driven
<1>8. /\ \A j \in Job : j # d => state'[j] = state[j]
      /\ state'[d] = to /\ state[d] # "absent" /\ printed[d] = 0
  BY <1>1, <1>2, <1>3 DEF QueueInv, DrivenIsCurrent, Driven
<1> HIDE DEF d
<1>9. HeadsAreFree'
  BY <1>1, <1>7, <1>8, HeadsStayFree DEF d, Driven
<1>10. DrivenIsCurrent'
  BY <1>1, <1>4, <1>7, <1>8 DEF DrivenIsCurrent, Driven, Waiting, BeforeHandoff
<1>11. ItemsAreCurrent' /\ ExpiredWaited'
  BY <1>7, NothingDue DEF ExpiredWaited
<1>12. SerialHandoff'
  <2>1. \A j \in Job : SamePrinter(j, d) => state[j] \notin BeforeHandoff
    BY <1>1, <1>3 DEF QueueInv, SerialHandoff, Driving, d
  <2> QED BY <1>3, <1>7, <1>8, <2>1 DEF QueueInv, SerialHandoff, Driving, SamePrinter
<1>13. SubmissionOrder'
  BY <1>1, <1>3, <1>7, <1>8 DEF QueueInv, SubmissionOrder, Driving, SamePrinter, d
<1>14. TrackedWhileNative'
  BY <1>1, <1>4, <1>8 DEF QueueInv, TrackedWhileNative, Native, BeforeHandoff
<1>15. recovering = {}
  BY <1>1, NothingRecovers
<1> QED BY <1>1, <1>2, <1>3, <1>5, <1>7, <1>8, <1>9, <1>10, <1>11, <1>12, <1>13, <1>14,
           <1>15, EngineWrites

\* The OS takes the job in hand, which it has not had before.
LEMMA SubmitKeeps ==
  ASSUME QueueInv, NEW result \in Result, Submit(result)
  PROVE  QueueInv'
<1> DEFINE d == engine.job
<1>1. PICK taken \in {0, 1} :
        /\ engine.pc = "execute" /\ engine.at = "spool_intent"
        /\ result \in {"retryable", "rejected"} => taken = 0
        /\ printed' = [printed EXCEPT ![d] = printed[d] + taken]
        /\ engine' = [pc |-> "submitted", heads |-> engine.heads, job |-> d,
                      result |-> result]
        /\ ambiguous' \in {ambiguous, ambiguous \cup {d}}
        /\ UNCHANGED <<state, seq, schedule, cancel, recovering, faults, crashes>>
  BY DEF Submit, Result
<1>2. engine \in Engine /\ printed \in [Job -> Nat]
  BY DEF QueueInv, TypeOK
<1>3. d \in Job /\ engine.heads \subseteq LocalJob
  BY <1>1, <1>2, EngineFields
<1>4. /\ engine' \in Engine /\ engine'.pc = "submitted" /\ HeadsInHand' = HeadsInHand
      /\ engine'.job = d /\ engine'.result = result
  BY <1>1, <1>3, EngineMade DEF HeadsInHand, Driven
<1>5. /\ printed[d] = 0 /\ state[d] \notin {"absent", "delivery_uncertain"}
      /\ state[d] \notin Waiting
      /\ d \notin CloudManaged => state[d] = "spool_intent"
  BY <1>1 DEF QueueInv, DrivenIsCurrent, Driven, BeforeHandoff
<1>6. /\ printed' \in [Job -> Nat] /\ printed'[d] = taken
      /\ \A j \in Job : j # d => printed'[j] = printed[j]
  BY <1>1, <1>2, <1>3, <1>5
<1>7. TypeOK'
  BY <1>1, <1>3, <1>4, <1>6 DEF QueueInv, TypeOK
<1> HIDE DEF d
<1>8. HeadsAreFree'
  BY <1>1, <1>4, <1>6, HeadsStayFree DEF d, Driven
<1>9. DrivenIsCurrent'
  BY <1>1, <1>4, <1>5, <1>6 DEF DrivenIsCurrent, Driven
<1>10. ItemsAreCurrent' /\ ExpiredWaited'
  BY <1>4, NothingDue DEF ExpiredWaited
<1>11. WaitingIsUnprinted' /\ PrintedOnce'
  BY <1>1, <1>5, <1>6 DEF QueueInv, WaitingIsUnprinted, PrintedOnce
<1>12. SerialHandoff' /\ SubmissionOrder'
  BY <1>1, <1>4 DEF QueueInv, SerialHandoff, SubmissionOrder, Driving, SamePrinter, d
<1>13. \A p : Placed(p)' = Placed(p)
  BY <1>1 DEF Placed
<1>14. PlacesAreApart' /\ TrackedWhileNative'
  BY <1>1, <1>13 DEF QueueInv, PlacesAreApart, TrackedWhileNative, SamePrinter
<1>15. CancelIsOfServer' /\ RecoveringIsInterrupted'
  BY <1>1, NothingRecovers DEF QueueInv, CancelIsOfServer, RecoveringIsInterrupted
<1> QED BY <1>7, <1>8, <1>9, <1>10, <1>11, <1>12, <1>14, <1>15 DEF QueueInv

LEMMA RecordResultKeeps == QueueInv /\ RecordResult => QueueInv'
<1> SUFFICES ASSUME QueueInv, RecordResult PROVE QueueInv'
  OBVIOUS
<1> DEFINE d == engine.job
           onward == [pc |-> "heads", heads |-> engine.heads]
<1>1. /\ engine.pc = "submitted"
      /\ UNCHANGED <<seq, cancel, printed, ambiguous, faults, crashes>>
  BY DEF RecordResult
<1>2. /\ engine \in Engine /\ state \in [Job -> JobState \cup {"absent"}]
      /\ schedule \in [Job -> BOOLEAN \cup {Nil}] /\ faults \in Nat /\ crashes \in Nat
      /\ ambiguous \subseteq Job
  BY DEF QueueInv, TypeOK
<1>3. d \in Job /\ engine.heads \subseteq LocalJob /\ engine.result \in Result
  BY <1>1, <1>2, EngineFields
<1>4. \/ UNCHANGED <<state, schedule>> /\ EndRun
      \/ \E to \in {"accepted_by_spooler", "delivery_uncertain", "failed_retryable",
                    "failed_terminal"} :
           /\ state' = [state EXCEPT ![d] = to]
           /\ schedule' = IF to = "accepted_by_spooler"
                          THEN [schedule EXCEPT ![d] = IF schedule[d] = Nil THEN FALSE
                                                       ELSE schedule[d]]
                          ELSE schedule
           /\ to = "failed_retryable" => engine.result = "retryable"
           /\ engine' = onward /\ UNCHANGED recovering
  BY <1>3 DEF RecordResult, FailureState, Result
<1>5. CASE UNCHANGED <<state, schedule>> /\ EndRun
  BY <1>1, <1>2, <1>5, EndRunKeeps
<1>6. CASE \E to \in {"accepted_by_spooler", "delivery_uncertain", "failed_retryable",
                      "failed_terminal"} :
             /\ state' = [state EXCEPT ![d] = to]
             /\ schedule' = IF to = "accepted_by_spooler"
                            THEN [schedule EXCEPT ![d] = IF schedule[d] = Nil THEN FALSE
                                                         ELSE schedule[d]]
                            ELSE schedule
             /\ to = "failed_retryable" => engine.result = "retryable"
             /\ engine' = onward /\ UNCHANGED recovering
  <2>1. PICK to \in {"accepted_by_spooler", "delivery_uncertain", "failed_retryable",
                     "failed_terminal"} :
          /\ state' = [state EXCEPT ![d] = to]
          /\ schedule' = IF to = "accepted_by_spooler"
                         THEN [schedule EXCEPT ![d] = IF schedule[d] = Nil THEN FALSE
                                                      ELSE schedule[d]]
                         ELSE schedule
          /\ to = "failed_retryable" => engine.result = "retryable"
          /\ engine' = onward /\ UNCHANGED recovering
    BY <1>6
  <2>2. engine' \in Engine /\ engine'.pc = "heads" /\ HeadsInHand' = HeadsInHand
    BY <1>1, <1>3, <2>1, EngineMade DEF HeadsInHand, Driven
  <2>3. /\ \A j \in Job : j # d => state'[j] = state[j]
        /\ state'[d] = to /\ state[d] # "absent" /\ to \in JobState
    BY <1>1, <1>2, <1>3, <2>1, StatesAre DEF QueueInv, DrivenIsCurrent, Driven
  <2>4. to \in Waiting => printed[d] = 0
    BY <1>1, <2>1 DEF QueueInv, DrivenIsCurrent, Waiting
  <2>5. /\ schedule' \in [Job -> BOOLEAN \cup {Nil}]
        /\ \A j \in Job : schedule[j] # Nil => schedule'[j] # Nil
        /\ to = "accepted_by_spooler" => schedule'[d] # Nil
    BY <1>2, <1>3, <2>1, QueueAssumption
  <2> HIDE DEF d, onward
  <2>6. HeadsAreFree'
    BY <1>1, <2>2, <2>3, HeadsStayFree DEF d, Driven
  <2>7. DrivenIsCurrent' /\ ItemsAreCurrent' /\ ExpiredWaited'
    BY <2>2, NothingDue DEF DrivenIsCurrent, Driven, ExpiredWaited
  <2>8. SerialHandoff' /\ SubmissionOrder'
    BY <2>1, <2>2, <2>3 DEF QueueInv, SerialHandoff, SubmissionOrder, Driving, SamePrinter,
       BeforeHandoff
  <2>9. TrackedWhileNative'
    BY <2>1, <2>3, <2>5 DEF QueueInv, TrackedWhileNative, Native
  <2>10. recovering = {}
    BY <1>1, NothingRecovers
  <2> QED BY <1>1, <1>3, <2>1, <2>2, <2>3, <2>4, <2>5, <2>6, <2>7, <2>8, <2>9, <2>10,
             EngineWrites
<1> QED BY <1>4, <1>5, <1>6

-----------------------------------------------------------------------------
(* reconcile_due.                                                          *)

LEMMA ReadDueKeeps == QueueInv /\ ReadDue => QueueInv'
<1> SUFFICES ASSUME QueueInv, ReadDue PROVE QueueInv'
  OBVIOUS
<1>1. PICK due \in SUBSET DueItems :
        /\ engine' = [pc |-> "due", items |-> due] /\ engine.pc = "heads"
        /\ UNCHANGED <<state, seq, schedule, cancel, recovering, printed, ambiguous, faults, crashes>>
  BY DEF ReadDue
<1>2. schedule \in [Job -> BOOLEAN \cup {Nil}]
  BY DEF QueueInv, TypeOK
<1>3. \A i \in DueItems :
        /\ i.job \in Job /\ i.state = state[i.job] /\ i.state \in Reconciled
        /\ i = [job |-> i.job, state |-> state[i.job], cancel |-> schedule[i.job]]
        /\ schedule[i.job] # Nil
  BY DEF DueItems, Reconciled
<1>4. DueItems \subseteq Item
  BY <1>2, <1>3, KindsOfState DEF Item
<1>5. engine' \in Engine /\ engine'.pc = "due" /\ Items' = due
  BY <1>1, <1>4, EngineMade DEF Items
<1>6. \A i \in due : ItemIsCurrent(i)'
  BY <1>1, <1>3, KindsOfState DEF ItemIsCurrent
<1>7. ItemsAreCurrent'
  BY <1>3, <1>5, <1>6 DEF ItemsAreCurrent
<1>8. HeadsAreFree' /\ DrivenIsCurrent' /\ SerialHandoff' /\ SubmissionOrder'
  BY <1>1, <1>5, NothingDriven
<1>9. ExpiredWaited' /\ TrackedWhileNative'
  BY <1>1, <1>5 DEF QueueInv, ExpiredWaited, TrackedWhileNative
<1>10. recovering = {}
  BY <1>1, NothingRecovers
<1> QED BY <1>1, <1>2, <1>5, <1>7, <1>8, <1>9, <1>10, EngineReads

LEMMA ObservedIs ==
  ASSUME NEW s \in Reconciled, NEW seen, NEW late \in BOOLEAN
  PROVE  /\ Observed(s, seen, late) \in Reconciled \cup Terminal
         /\ Cancelled(s, seen, late) \in Reconciled \cup Terminal
<1>1. Observed(s, seen, late) \in
        {"spooling", "printing", "blocked", "completed_reported", "failed_terminal",
         "cancelled", "delivery_uncertain", s}
  BY DEF Observed
<1>2. Cancelled(s, seen, late) \in {"cancelled", "delivery_uncertain", s}
  BY DEF Cancelled
<1> QED BY <1>1, <1>2 DEF Reconciled, Native, Terminal

LEMMA ReconcileItemKeeps ==
  ASSUME QueueInv, NEW seen, NEW late \in BOOLEAN, ReconcileItem(seen, late)
  PROVE  QueueInv'
<1>1. PICK i \in engine.items :
        /\ engine.pc = "due"
        /\ \E to \in {Cancelled(i.state, seen, late), Observed(i.state, seen, late)} :
             engine' = [pc |-> "apply", items |-> engine.items \ {i}, item |-> i, to |-> to]
        /\ schedule' = [schedule EXCEPT ![i.job] = FALSE]
        /\ UNCHANGED <<state, seq, cancel, recovering, printed, ambiguous, faults, crashes>>
  BY DEF ReconcileItem
<1>2. engine \in Engine /\ schedule \in [Job -> BOOLEAN \cup {Nil}]
  BY DEF QueueInv, TypeOK
<1>3. Items = engine.items /\ Items \subseteq Item
  BY <1>1, <1>2, EngineFields DEF Items
<1>4. /\ \A h \in Items : h.job \in Job /\ ItemIsCurrent(h)
      /\ \A h \in Items : h.job = i.job => h = i
      /\ i \in Item
  BY <1>1, <1>3 DEF QueueInv, ItemsAreCurrent, Item
<1>5. PICK to : /\ engine' = [pc |-> "apply", items |-> engine.items \ {i}, item |-> i,
                              to |-> to]
                /\ to \in Reconciled \cup Terminal
  BY <1>1, <1>3, <1>4, ObservedIs DEF ItemIsCurrent
<1>6. /\ engine' \in Engine /\ engine'.pc = "apply" /\ Items' = Items \ {i}
      /\ engine'.item = i /\ engine'.to = to
  BY <1>3, <1>4, <1>5, KindsOfState, EngineMade DEF Items
<1>7. /\ schedule' \in [Job -> BOOLEAN \cup {Nil}] /\ schedule'[i.job] # Nil
      /\ \A j \in Job : schedule[j] # Nil => schedule'[j] # Nil
  BY <1>1, <1>2, <1>3, <1>4, QueueAssumption
<1>8. \A h \in Items : ItemIsCurrent(h)'
  BY <1>1, <1>4 DEF ItemIsCurrent
<1>9. ItemsAreCurrent'
  <2>1. \A g, h \in Items' : g.job = h.job => g = h
    BY <1>6 DEF QueueInv, ItemsAreCurrent
  <2>2. ItemIsCurrent(engine.item)'
    BY <1>1, <1>3, <1>6, <1>8 DEF ItemIsCurrent
  <2> QED BY <1>1, <1>3, <1>4, <1>5, <1>6, <1>7, <1>8, <2>1, <2>2
          DEF ItemsAreCurrent, ItemIsCurrent
<1>10. HeadsAreFree' /\ DrivenIsCurrent' /\ SerialHandoff' /\ SubmissionOrder'
  BY <1>1, <1>6, NothingDriven
<1>11. ExpiredWaited' /\ TrackedWhileNative'
  BY <1>1, <1>6, <1>7 DEF QueueInv, ExpiredWaited, TrackedWhileNative
<1>12. recovering = {}
  BY <1>1, NothingRecovers
<1> QED BY <1>1, <1>6, <1>7, <1>9, <1>10, <1>11, <1>12, EngineReads

LEMMA ApplyVerdictKeeps == QueueInv /\ ApplyVerdict => QueueInv'
<1> SUFFICES ASSUME QueueInv, ApplyVerdict PROVE QueueInv'
  OBVIOUS
<1> DEFINE d == engine.item.job
           onward == IF engine.to \in Terminal
                     THEN [pc |-> "finish", items |-> engine.items, job |-> d]
                     ELSE [pc |-> "due", items |-> engine.items]
<1>1. /\ engine.pc = "apply" /\ UNCHANGED <<seq, schedule, cancel, printed, ambiguous, faults, crashes>>
      /\ \/ engine.to = engine.item.state /\ engine' = onward /\ UNCHANGED <<state, recovering>>
         \/ /\ state' = [state EXCEPT ![d] = engine.to]
            /\ engine' = onward /\ UNCHANGED recovering
         \/ UNCHANGED state /\ EndRun
  BY DEF ApplyVerdict
<1>2. /\ engine \in Engine /\ state \in [Job -> JobState \cup {"absent"}]
      /\ schedule' \in [Job -> BOOLEAN \cup {Nil}] /\ faults \in Nat /\ crashes \in Nat
      /\ ambiguous \subseteq Job
  BY <1>1 DEF QueueInv, TypeOK
<1>3. /\ engine.item \in Item /\ engine.to \in JobState /\ Items = engine.items
      /\ Items \subseteq Item
  BY <1>1, <1>2, EngineFields DEF Items
<1>4. /\ d \in Job /\ ItemIsCurrent(engine.item) /\ schedule[d] # Nil
      /\ engine.to \in Reconciled \cup Terminal
      /\ \A i \in Items : i.job \in Job /\ i.job # d /\ ItemIsCurrent(i)
  BY <1>1, <1>3 DEF QueueInv, ItemsAreCurrent, Item
<1>5. CASE UNCHANGED state /\ EndRun
  BY <1>1, <1>2, <1>5, EndRunKeeps
<1>6. ASSUME engine' = onward, UNCHANGED recovering
      PROVE  /\ engine' \in Engine /\ engine'.pc \in {"finish", "due"} /\ Items' = Items
             /\ engine'.pc = "finish" => engine'.job = d /\ engine.to \in Terminal
  BY <1>3, <1>4, <1>6, EngineMade DEF Items
<1>7. recovering = {}
  BY <1>1, NothingRecovers
<1>8. CASE /\ engine.to = engine.item.state /\ engine' = onward
           /\ UNCHANGED <<state, recovering>>
  <2>1. engine'.pc = "due"
    BY <1>4, <1>6, <1>8 DEF ItemIsCurrent, Reconciled, Native, Terminal
  <2> HIDE DEF d, onward
  <2>2. \A i \in Items : ItemIsCurrent(i)'
    BY <1>4, <1>8 DEF ItemIsCurrent
  <2>3. ItemsAreCurrent'
    BY <1>6, <1>8, <2>1, <2>2 DEF QueueInv, ItemsAreCurrent
  <2>4. HeadsAreFree' /\ DrivenIsCurrent' /\ SerialHandoff' /\ SubmissionOrder'
    BY <1>8, <2>1, NothingDriven
  <2>5. ExpiredWaited' /\ TrackedWhileNative'
    BY <1>1, <1>8, <2>1 DEF QueueInv, ExpiredWaited, TrackedWhileNative
  <2> QED BY <1>1, <1>2, <1>6, <1>7, <1>8, <2>3, <2>4, <2>5, EngineReads
<1>9. CASE /\ state' = [state EXCEPT ![d] = engine.to]
           /\ engine' = onward /\ UNCHANGED recovering
  <2>1. /\ \A j \in Job : j # d => state'[j] = state[j]
        /\ state'[d] = engine.to /\ state[d] # "absent"
    BY <1>2, <1>4, <1>9 DEF ItemIsCurrent
  <2> HIDE DEF d, onward
  <2>2. engine.to \notin BeforeHandoff /\ engine.to \notin Waiting
    BY <1>4 DEF Reconciled, Native, Terminal, BeforeHandoff, Waiting
  <2>3. \A i \in Items : ItemIsCurrent(i)'
    BY <1>4, <2>1 DEF ItemIsCurrent
  <2>4. engine'.pc = "finish" => state'[engine'.job] \notin Native
    BY <1>6, <1>9, <2>1 DEF Terminal, Native
  <2>5. ItemsAreCurrent'
    BY <1>6, <1>9, <2>3, <2>4 DEF QueueInv, ItemsAreCurrent
  <2>6. HeadsAreFree' /\ DrivenIsCurrent' /\ SerialHandoff' /\ SubmissionOrder'
    BY <1>4, <1>6, <1>9, <2>1, <2>2, NothingDriven
  <2>7. ExpiredWaited'
    BY <1>6, <1>9 DEF ExpiredWaited
  <2>8. TrackedWhileNative'
    BY <1>1, <1>4, <2>1 DEF QueueInv, TrackedWhileNative
  <2> QED BY <1>1, <1>2, <1>3, <1>4, <1>6, <1>7, <1>9, <2>1, <2>2, <2>5, <2>6, <2>7, <2>8,
             EngineWrites
<1> QED BY <1>1, <1>5, <1>8, <1>9

LEMMA FinishReconciliationKeeps == QueueInv /\ FinishReconciliation => QueueInv'
<1> SUFFICES ASSUME QueueInv, FinishReconciliation PROVE QueueInv'
  OBVIOUS
<1>1. /\ engine.pc = "finish" /\ schedule' = [schedule EXCEPT ![engine.job] = Nil]
      /\ engine' = [pc |-> "due", items |-> engine.items]
      /\ UNCHANGED <<state, seq, cancel, recovering, printed, ambiguous, faults, crashes>>
  BY DEF FinishReconciliation
<1>2. engine \in Engine /\ schedule \in [Job -> BOOLEAN \cup {Nil}]
  BY DEF QueueInv, TypeOK
<1>3. /\ engine.job \in Job /\ Items = engine.items /\ Items \subseteq Item
      /\ state[engine.job] \notin Native
  BY <1>1, <1>2, EngineFields DEF Items, QueueInv, ItemsAreCurrent
<1>4. engine' \in Engine /\ engine'.pc = "due" /\ Items' = Items
  BY <1>1, <1>3, EngineMade DEF Items
<1>5. \A i \in Items : ItemIsCurrent(i)'
  BY <1>1 DEF QueueInv, ItemsAreCurrent, ItemIsCurrent
<1>6. ItemsAreCurrent'
  BY <1>4, <1>5 DEF QueueInv, ItemsAreCurrent
<1>7. HeadsAreFree' /\ DrivenIsCurrent' /\ SerialHandoff' /\ SubmissionOrder'
  BY <1>1, <1>4, NothingDriven
<1>8. /\ schedule' \in [Job -> BOOLEAN \cup {Nil}]
      /\ \A j \in Job : j # engine.job => schedule'[j] = schedule[j]
  BY <1>1, <1>2
<1>9. ExpiredWaited' /\ TrackedWhileNative'
  BY <1>1, <1>3, <1>4, <1>8 DEF QueueInv, ExpiredWaited, TrackedWhileNative
<1>10. recovering = {}
  BY <1>1, NothingRecovers
<1> QED BY <1>1, <1>4, <1>6, <1>7, <1>8, <1>9, <1>10, EngineReads

-----------------------------------------------------------------------------
(* Recovery, and the whole.                                                *)

LEMMA RecoverIntentKeeps ==
  ASSUME QueueInv, NEW j \in Job, RecoverIntent(j)
  PROVE  QueueInv'
<1>1. PICK to \in Recovered(j) :
        /\ engine = Idle /\ engine' = Idle /\ j \in recovering
        /\ state' = [state EXCEPT ![j] = to]
        /\ schedule' = IF to = "accepted_by_spooler" THEN [schedule EXCEPT ![j] = FALSE]
                       ELSE schedule
        /\ recovering' = recovering \ {j}
        /\ ambiguous' \in {ambiguous, ambiguous \cup {j}}
        /\ UNCHANGED <<seq, cancel, printed, faults, crashes>>
  BY DEF RecoverIntent, Uncertain
<1>2. /\ state \in [Job -> JobState \cup {"absent"}] /\ printed \in [Job -> Nat]
      /\ schedule \in [Job -> BOOLEAN \cup {Nil}] /\ recovering \subseteq Job
      /\ cancel # Nil => cancel.job \in Job
  BY DEF QueueInv, TypeOK
<1>3. /\ to \in {"accepted_by_spooler", "delivery_uncertain", "failed_retryable",
                 "spool_intent"}
      /\ to = "failed_retryable" => printed[j] = 0
  BY <1>1, <1>2 DEF Recovered
<1>4. /\ \A i \in Job : i # j => state'[i] = state[i]
      /\ state'[j] = to /\ state[j] = "spool_intent"
      /\ \A p : Placed(p)' = Placed(p)
  BY <1>1, <1>2 DEF QueueInv, RecoveringIsInterrupted, Placed
<1>5. /\ schedule' \in [Job -> BOOLEAN \cup {Nil}]
      /\ \A i \in Job : schedule[i] # Nil => schedule'[i] # Nil
      /\ to = "accepted_by_spooler" => schedule'[j] # Nil
  BY <1>1, <1>2, QueueAssumption
<1>6. state' \in [Job -> JobState \cup {"absent"}]
  BY <1>1, <1>2, <1>3, StatesAre
<1>7. TypeOK'
  BY <1>1, <1>2, <1>5, <1>6 DEF QueueInv, TypeOK
<1>8. engine'.pc = "idle" /\ Items' = {}
  BY <1>1 DEF Idle, Items
<1>9. PlacesAreApart'
  BY <1>1, <1>3, <1>4 DEF QueueInv, PlacesAreApart, SamePrinter
<1>10. HeadsAreFree' /\ DrivenIsCurrent' /\ SerialHandoff' /\ SubmissionOrder'
  BY <1>4, <1>8, NothingDriven DEF BeforeHandoff
<1>11. ItemsAreCurrent' /\ ExpiredWaited'
  BY <1>8 DEF ItemsAreCurrent, ExpiredWaited
<1>12. CancelIsOfServer'
  BY <1>1, <1>2, <1>4 DEF QueueInv, CancelIsOfServer
<1>13. RecoveringIsInterrupted'
  BY <1>1, <1>2, <1>4 DEF QueueInv, RecoveringIsInterrupted, Idle
<1>14. WaitingIsUnprinted' /\ PrintedOnce'
  BY <1>1, <1>3, <1>4 DEF QueueInv, WaitingIsUnprinted, PrintedOnce, Waiting
<1>15. TrackedWhileNative'
  BY <1>3, <1>4, <1>5 DEF QueueInv, TrackedWhileNative, Native
<1> QED BY <1>7, <1>9, <1>10, <1>11, <1>12, <1>13, <1>14, <1>15 DEF QueueInv

\* A local operator resolves an ambiguous handoff, between two runs.
LEMMA ResolveLocalKeeps ==
  ASSUME QueueInv, NEW j \in Job, ResolveLocal(j)
  PROVE  QueueInv'
<1>1. /\ engine = Idle /\ engine' = Idle /\ j \notin CloudManaged
      /\ state[j] = "delivery_uncertain" /\ ambiguous' = ambiguous \ {j}
      /\ recovering' = {i \in Job \ CloudManaged : state'[i] = "spool_intent"}
      /\ UNCHANGED <<seq, schedule, cancel, faults, crashes>>
      /\ \/ UNCHANGED <<state, printed>>
         \/ /\ state' = [state EXCEPT ![j] = "failed_retryable"]
            /\ printed' = [printed EXCEPT ![j] = 0]
  BY DEF ResolveLocal, Release, Confirm, EndRun
<1>2. /\ state \in [Job -> JobState \cup {"absent"}] /\ printed \in [Job -> Nat]
      /\ ambiguous \subseteq Job
      /\ cancel # Nil => cancel.job \in Job
  BY DEF QueueInv, TypeOK
<1>3. state' \in [Job -> JobState \cup {"absent"}] /\ printed' \in [Job -> Nat]
  <2>1. "failed_retryable" \in JobState
    BY StatesAre
  <2> QED BY <1>1, <1>2, <2>1
<1>4. TypeOK'
  <2>1. ambiguous' \subseteq Job /\ recovering' \subseteq Job
    BY <1>1, <1>2
  <2>2. engine' \in Engine
    BY <1>1, EngineMade
  <2> QED BY <1>1, <1>3, <2>1, <2>2 DEF QueueInv, TypeOK
<1>5. CASE UNCHANGED <<state, printed>>
  <2>1. /\ \A i \in recovering' : state[i] = "spool_intent"
        /\ recovering' \cap CloudManaged = {}
    BY <1>1, <1>5
  <2> QED BY <1>1, <1>4, <1>5, <2>1, RunEndKeeps
<1>6. CASE /\ state' = [state EXCEPT ![j] = "failed_retryable"]
           /\ printed' = [printed EXCEPT ![j] = 0]
  <2>1. /\ \A i \in Job : i # j => state'[i] = state[i] /\ printed'[i] = printed[i]
        /\ state'[j] = "failed_retryable" /\ printed'[j] = 0
        /\ \A p : Placed(p)' = Placed(p)
    BY <1>1, <1>2, <1>6 DEF Placed
  <2>2. engine'.pc = "idle" /\ Items' = {}
    BY <1>1 DEF Idle, Items
  <2>3. PlacesAreApart'
    BY <1>1, <2>1 DEF QueueInv, PlacesAreApart, SamePrinter
  <2>4. HeadsAreFree' /\ DrivenIsCurrent' /\ SerialHandoff' /\ SubmissionOrder'
    BY <2>1, <2>2, NothingDriven DEF BeforeHandoff
  <2>5. ItemsAreCurrent' /\ ExpiredWaited'
    BY <2>2 DEF ItemsAreCurrent, ExpiredWaited
  <2>6. CancelIsOfServer'
    <3>1. recovering' \cap CloudManaged = {}
      BY <1>1
    <3> QED BY <1>1, <1>2, <2>1, <3>1 DEF QueueInv, CancelIsOfServer
  <2>9. RecoveringIsInterrupted'
    BY <1>1 DEF RecoveringIsInterrupted
  <2>7. WaitingIsUnprinted' /\ PrintedOnce'
    BY <2>1 DEF QueueInv, WaitingIsUnprinted, PrintedOnce
  <2>8. TrackedWhileNative'
    BY <1>1, <2>1 DEF QueueInv, TrackedWhileNative, Native
  <2> QED BY <1>4, <2>3, <2>4, <2>5, <2>6, <2>7, <2>8, <2>9 DEF QueueInv
<1> QED BY <1>1, <1>5, <1>6

LEMMA QueueNextKeeps == QueueInv /\ Next => QueueInv'
<1> SUFFICES ASSUME QueueInv, Next PROVE QueueInv'
  OBVIOUS
<1>1. CASE EngineStep
  BY <1>1, StartRunKeeps, ExpireWaitingKeeps, ReadHeadsKeeps, ExecuteJobKeeps,
     AdvanceJobKeeps, SubmitKeeps, RecordResultKeeps, ReadDueKeeps, ApplyVerdictKeeps,
     FinishReconciliationKeeps, FinishRunKeeps, ReconcileItemKeeps DEF EngineStep
<1>2. CASE WorkerStep
  BY <1>2, RecordCancelRequestKeeps, CompleteCancelKeeps DEF WorkerStep
<1>3. CASE \E j \in Job : AcceptJob(j) \/ PrepareAgain(j) \/ RequestCancel(j)
                          \/ RecoverIntent(j) \/ ResolveLocal(j) \/ ResolveCloud(j)
  BY <1>3, AcceptJobKeeps, PrepareAgainKeeps, RequestCancelKeeps, RecoverIntentKeeps,
     ResolveLocalKeeps, ResolveCloudKeeps
<1>4. CASE AbortRun \/ AbortCancel \/ Crash
  BY <1>4, AbortRunKeeps, AbortCancelKeeps, CrashKeeps
<1> QED BY <1>1, <1>2, <1>3, <1>4 DEF Next

LEMMA QueueStutterKeeps == QueueInv /\ UNCHANGED vars => QueueInv'
<1> SUFFICES ASSUME QueueInv, UNCHANGED vars PROVE QueueInv'
  OBVIOUS
<1>1. UNCHANGED <<state, seq, schedule, engine, cancel, recovering, printed, ambiguous, faults, crashes>>
  BY DEF vars
<1>2. TypeOK' /\ CancelIsOfServer'
  BY <1>1 DEF QueueInv, TypeOK, CancelIsOfServer
<1> QED BY <1>1, <1>2, WorkerKeeps DEF WorkerWrite

LEMMA QueueInvariant == Spec => []QueueInv
<1>1. QueueInv /\ [Next]_vars => QueueInv'
  BY QueueNextKeeps, QueueStutterKeeps
<1> QED BY <1>1, QueueInitKeeps, PTL DEF Spec

\* The queue's rows, schedule and history, and what run_once holds, have their
\* types.
THEOREM QueueTypeOK == Spec => []TypeOK
<1>1. QueueInv => TypeOK
  BY DEF QueueInv
<1> QED BY <1>1, QueueInvariant, PTL

\* runnable_heads withholds a printer that executes a job: at most one job of
\* a printer is between its queue and the spooler.
THEOREM SerialHandoffHolds == Spec => []SerialHandoff
<1>1. QueueInv => SerialHandoff
  BY DEF QueueInv
<1> QED BY <1>1, QueueInvariant, PTL

\* runnable_heads orders by printer_sequence: a job is not handed over while
\* an earlier local job of its printer waits.
THEOREM SubmissionOrderHolds == Spec => []SubmissionOrder
<1>1. QueueInv => SubmissionOrder
  BY DEF QueueInv
<1> QED BY <1>1, QueueInvariant, PTL

\* record_native_acceptance and finish_reconciliation: a job the spooler has
\* stays scheduled for observation.
THEOREM TrackedWhileNativeHolds == Spec => []TrackedWhileNative
<1>1. QueueInv => TrackedWhileNative
  BY DEF QueueInv
<1> QED BY <1>1, QueueInvariant, PTL

\* execute_job and the recovery of interrupted intents: the OS takes a job at
\* most once for every release by an operator, over any number of failed
\* transactions, stops and retries.
THEOREM PrintedOnceHolds == Spec => []PrintedOnce
<1>1. QueueInv => PrintedOnce
  BY DEF QueueInv
<1> QED BY <1>1, QueueInvariant, PTL

\* The operator's release of the one handoff that is ambiguous.
Reopened(j) ==
  /\ state[j] = "delivery_uncertain" /\ state'[j] = "failed_retryable"
  /\ j \in ambiguous /\ j \notin ambiguous'

LEMMA TerminalStays ==
  ASSUME QueueInv, Next, NEW j \in Job \ CloudManaged, state[j] \in Terminal
  PROVE  state'[j] = state[j] \/ Reopened(j)
<1>1. state \in [Job -> JobState \cup {"absent"}] /\ engine \in Engine
  BY DEF QueueInv, TypeOK
<1>2. /\ state[j] \notin Waiting \cup BeforeHandoff \cup Reconciled
      /\ state[j] \notin {"absent", "spool_intent"}
  BY DEF Terminal, Waiting, BeforeHandoff, Reconciled, Native
<1>3. CASE ExpireWaiting
  BY <1>1, <1>2, <1>3 DEF ExpireWaiting, QueueInv, ExpiredWaited
<1>4. CASE AdvanceJob
  BY <1>1, <1>2, <1>4 DEF AdvanceJob, QueueInv, DrivenIsCurrent
<1>5. CASE RecordResult
  BY <1>1, <1>2, <1>5 DEF RecordResult, QueueInv, DrivenIsCurrent
<1>6. CASE ApplyVerdict
  BY <1>1, <1>2, <1>6 DEF ApplyVerdict, QueueInv, ItemsAreCurrent, ItemIsCurrent
<1>7. CASE RecordCancelRequest \/ CompleteCancel
  BY <1>1, <1>7 DEF RecordCancelRequest, CompleteCancel, QueueInv, CancelIsOfServer
<1>8. CASE \E i \in Job : AcceptJob(i) \/ PrepareAgain(i) \/ RecoverIntent(i)
  BY <1>1, <1>2, <1>8 DEF AcceptJob, PrepareAgain, RecoverIntent, QueueInv,
     RecoveringIsInterrupted
<1>9. CASE UNCHANGED state
  BY <1>9
<1>11. ASSUME NEW i \in Job, ResolveLocal(i) \/ ResolveCloud(i)
       PROVE  state'[j] = state[j] \/ Reopened(j)
  <2>1. /\ UNCHANGED state \/ state' = [state EXCEPT ![i] = "failed_retryable"]
        /\ i \in ambiguous /\ state[i] = "delivery_uncertain"
        /\ ambiguous' = ambiguous \ {i}
    BY <1>11 DEF ResolveLocal, ResolveCloud, Release, Confirm
  <2> QED BY <1>1, <2>1 DEF Reopened
<1>10. \/ ExpireWaiting \/ AdvanceJob \/ RecordResult \/ ApplyVerdict
       \/ RecordCancelRequest \/ CompleteCancel
       \/ \E i \in Job : AcceptJob(i) \/ PrepareAgain(i) \/ RecoverIntent(i)
       \/ \E i \in Job : ResolveLocal(i) \/ ResolveCloud(i)
       \/ UNCHANGED state
  BY DEF Next, EngineStep, WorkerStep, StartRun, ReadHeads, ExecuteJob, Submit, ReadDue,
     FinishReconciliation, FinishRun, ReconcileItem, RequestCancel, AbortRun, AbortCancel,
     Crash
<1> QED BY <1>3, <1>4, <1>5, <1>6, <1>7, <1>8, <1>9, <1>10, <1>11

\* append_next_event writes unconditionally, and yet a local job that has
\* ended is not written again, the state run_once holds of it being current,
\* except when an operator releases its ambiguous handoff
\* (release_uncertain_local_handoff_for_retry).
THEOREM OnlyReleaseReopensHolds == Spec => OnlyReleaseReopens
<1>1. QueueInv /\ [Next]_vars =>
        [\A j \in Job \ CloudManaged :
           state[j] \in Terminal /\ state'[j] # state[j] =>
             /\ state[j] = "delivery_uncertain" /\ state'[j] = "failed_retryable"
             /\ j \in ambiguous /\ j \notin ambiguous']_vars
  BY TerminalStays DEF vars, Reopened
<1> QED BY <1>1, QueueInvariant, PTL DEF Spec, OnlyReleaseReopens
=============================================================================
