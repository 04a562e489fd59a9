------------------------ MODULE NativeHandoffProofs ------------------------
(***************************************************************************)
(* Type correctness, physical exclusion, and the replay barrier, of the    *)
(* whole handoff protocol and for every instance of it: any number of      *)
(* connectors, jobs, queues, stops and failed writes.                      *)
(***************************************************************************)
EXTENDS NativeHandoff, RouteJournalProofs

\* What a step may do to the two copies of the journal.
JournalStep ==
  /\ mem' \in Document /\ disk' \in Document /\ poisoned' \in BOOLEAN
  /\ JournalInv(mem') /\ JournalInv(disk')
  /\ ~poisoned' => mem'.consumed = disk'.consumed
  /\ BarrierGrows(disk, disk')

\* commit_document_change: a write that is not known to have failed cleanly
\* stops the coordinator; otherwise both copies agree.
LEMMA CommittedCopies ==
  ASSUME NEW previous, NEW next, NEW onDisk, NEW fault \in Fault
  PROVE  LET w == Committed(previous, next, onDisk, fault) IN
         /\ w.mem \in {previous, next, onDisk}
         /\ w.disk \in {next, onDisk}
         /\ w.poisoned \in BOOLEAN /\ w.ok \in BOOLEAN
         /\ w.ok => w.mem = next /\ w.disk = next
         /\ ~w.poisoned => w.mem = w.disk
         /\ ~w.poisoned /\ ~w.ok => w.mem = previous
<1> DEFINE w == Committed(previous, next, onDisk, fault)
<1>1. CASE fault = "none"
  BY <1>1 DEF Committed
<1>2. CASE fault = "before"
  BY <1>2 DEF Committed
<1>3. CASE fault = "after"
  BY <1>3 DEF Committed
<1>4. CASE fault = "unreadable_before"
  BY <1>4 DEF Committed
<1>5. CASE fault = "unreadable_after"
  BY <1>5 DEF Committed
<1> QED
  BY <1>1, <1>2, <1>3, <1>4, <1>5 DEF Fault

\* The faults a write may meet are faults.
LEMMA FaultChoiceType == FaultChoice \subseteq Fault
BY DEF FaultChoice, Fault

\* A write of a safe successor of the document is a safe step, whatever
\* happens to the file.
LEMMA WriteIsSafe ==
  ASSUME TypeOK, Inductive, ~poisoned, NEW next \in Document, JournalInv(next),
         BarrierGrows(mem, next), NEW fault \in Fault,
         Apply(Committed(mem, next, disk, fault))
  PROVE  JournalStep
<1> DEFINE w == Committed(mem, next, disk, fault)
<1>1. mem' = w.mem /\ disk' = w.disk /\ poisoned' = w.poisoned
  BY DEF Apply
<1>2. /\ w.mem \in {mem, next, disk} /\ w.disk \in {next, disk} /\ w.poisoned \in BOOLEAN
      /\ ~w.poisoned => w.mem = w.disk
  BY CommittedCopies
<1>3. BarrierGrows(disk, next) /\ BarrierGrows(disk, disk)
  BY SameBarrierGrows DEF TypeOK, Inductive, BarrierGrows
<1> QED
  BY <1>1, <1>2, <1>3 DEF JournalStep, TypeOK, Inductive

\* A step that leaves the coordinator alone is safe.
LEMMA NoWriteIsSafe ==
  ASSUME TypeOK, Inductive, UNCHANGED coordinator
  PROVE  JournalStep
BY SameBarrierGrows DEF TypeOK, Inductive, coordinator, JournalStep

\* The same document is a safe successor.
LEMMA RewriteIsSafe ==
  ASSUME TypeOK, Inductive
  PROVE  mem \in Document /\ JournalInv(mem) /\ BarrierGrows(mem, mem)
BY SameBarrierGrows DEF TypeOK, Inductive

-----------------------------------------------------------------------------
(* The actions that write the journal.                                     *)

\* reconcile: the copies may differ after it, both of them safe.
LEMMA DiscoverIsSafe ==
  ASSUME TypeOK, Inductive, NEW obs \in Observation, DiscoverRoutes(obs)
  PROVE  JournalStep
<1>1. obs \in [Native -> Evidence \cup {Absent}]
  BY HandoffAssumption
<1>2. /\ Reconcile(mem, obs) \in Document /\ JournalInv(Reconcile(mem, obs))
      /\ Reconcile(mem, obs).consumed = mem.consumed
  BY <1>1, ReconcileKeeps DEF TypeOK, Inductive
<1>3. /\ mem' = Reconcile(mem, obs) /\ disk' \in {disk, mem'} /\ poisoned' = poisoned /\ ~poisoned
  BY DEF DiscoverRoutes
<1>4. disk.consumed = mem.consumed
  BY <1>3 DEF Inductive
<1>5. BarrierGrows(disk, disk')
  BY <1>2, <1>3, <1>4, SameBarrierGrows DEF TypeOK
<1> QED
  BY <1>2, <1>3, <1>4, <1>5 DEF JournalStep, TypeOK, Inductive

\* register_authoritative: a new fence, or the same one again.
LEMMA RegisterOfferIsSafe ==
  ASSUME TypeOK, Inductive, NEW o \in offers, RegisterOffer(o)
  PROVE  JournalStep /\ CloudReservation(mem, o) \in Reservation
<1>1. o \in [job : Job, id : Nat, gen : Nat]
  BY DEF TypeOK, Offer
<1>2. /\ CloudReservation(mem, o) \in Reservation
      /\ CanRegister(mem, o) => /\ Register(mem, o) \in Document
                                /\ JournalInv(Register(mem, o))
                                /\ Register(mem, o).consumed = mem.consumed
  BY <1>1, RegisterKeeps DEF TypeOK, Inductive
<1>3. PICK next \in {mem, Register(mem, o)}, fault \in FaultChoice :
        /\ IF next = mem THEN CanReregister(mem, o) ELSE CanRegister(mem, o)
        /\ Apply(Committed(mem, next, disk, fault))
  BY DEF RegisterOffer
<1>4. next \in Document /\ JournalInv(next) /\ next.consumed = mem.consumed
  BY <1>2, <1>3 DEF TypeOK, Inductive
<1>5. BarrierGrows(mem, next)
  BY <1>4, SameBarrierGrows DEF TypeOK
<1>6. ~poisoned /\ fault \in Fault
  BY FaultChoiceType DEF RegisterOffer
<1> QED
  BY <1>2, <1>3, <1>4, <1>5, <1>6, WriteIsSafe

\* Journaling an outcome of an active reservation.
LEMMA FinishIsSafe ==
  ASSUME TypeOK, Inductive, ~poisoned, NEW r \in mem.reservations, NEW outcome \in Outcome,
         NEW native \in BOOLEAN, NEW fault \in FaultChoice,
         Apply(Committed(mem, Finish(mem, r, outcome, native), disk, fault))
  PROVE  JournalStep
<1> DEFINE next == Finish(mem, r, outcome, native)
<1>1. next \in Document /\ JournalInv(next) /\ BarrierGrows(mem, next)
  BY FinishKeeps DEF TypeOK, Inductive
<1>2. Apply(Committed(mem, next, disk, fault)) /\ fault \in Fault
  BY FaultChoiceType
<1> HIDE DEF next
<1> QED
  BY <1>1, <1>2, WriteIsSafe

\* The compensation of a refused offer is a rejection of its own fence.
LEMMA PrepareOfferIsSafe ==
  ASSUME TypeOK, Inductive, NEW c \in Connector, PrepareOffer(c)
  PROVE  JournalStep
<1>1. CASE UNCHANGED coordinator
  BY <1>1, NoWriteIsSafe
<1>2. CASE ~UNCHANGED coordinator
  <2>1. /\ ~poisoned /\ CanFinish(mem, worker[c].handle, "rejected")
        /\ \E fault \in FaultChoice :
             Apply(Committed(mem, Finish(mem, worker[c].handle, "rejected", FALSE), disk, fault))
    BY <1>2 DEF PrepareOffer, coordinator
  <2>2. worker[c].handle \in mem.reservations
    BY <2>1 DEF CanFinish, Validates
  <2> QED
    BY <2>1, <2>2, FinishIsSafe DEF Outcome
<1> QED
  BY <1>1, <1>2

\* acknowledge_handoffs drops evidence, never a barrier.
LEMMA AcknowledgeIsSafe ==
  ASSUME TypeOK, Inductive, NEW c \in Connector, NEW n \in Nat, AcknowledgeHandoffs(c, n)
  PROVE  JournalStep
<1> DEFINE next == Acknowledge(mem, c, n)
<1>1. next \in Document /\ JournalInv(next) /\ next.consumed = mem.consumed
  BY AcknowledgeKeeps DEF TypeOK, Inductive
<1>2. BarrierGrows(mem, next)
  BY <1>1, SameBarrierGrows DEF TypeOK
<1>3. ~poisoned /\ \E fault \in FaultChoice : Apply(Committed(mem, next, disk, fault))
  BY DEF AcknowledgeHandoffs
<1> HIDE DEF next
<1> QED
  BY <1>1, <1>2, <1>3, FaultChoiceType, WriteIsSafe

\* A replayed resolution changes nothing, a first one is ResolveKeeps.
LEMMA ResolveIsSafe ==
  ASSUME TypeOK, Inductive, NEW j \in Job, NEW id, NEW resolution \in Resolution,
         ResolveAmbiguousHandoff(j, id, resolution)
  PROVE  JournalStep
<1>1. ~poisoned
  BY DEF ResolveAmbiguousHandoff
<1>2. CASE \E fault \in FaultChoice : Apply(Committed(mem, mem, disk, fault))
  BY <1>1, <1>2, RewriteIsSafe, FaultChoiceType, WriteIsSafe
<1>3. CASE \E r \in mem.reservations, h \in mem.handoffs, fault \in FaultChoice :
             Apply(Committed(mem, Resolve(mem, r, h, resolution), disk, fault))
  <2>1. PICK r \in mem.reservations, h \in mem.handoffs, fault \in FaultChoice :
          Apply(Committed(mem, Resolve(mem, r, h, resolution), disk, fault))
    BY <1>3
  <2> DEFINE next == Resolve(mem, r, h, resolution)
  <2>2. next \in Document /\ JournalInv(next) /\ BarrierGrows(mem, next)
    BY ResolveKeeps DEF TypeOK, Inductive
  <2>3. Apply(Committed(mem, next, disk, fault))
    BY <2>1
  <2> HIDE DEF next
  <2> QED
    BY <1>1, <2>2, <2>3, FaultChoiceType, WriteIsSafe
<1> QED
  BY <1>2, <1>3 DEF ResolveAmbiguousHandoff

\* reserve: refused, reused or a new fence.
LEMMA ReserveRouteIsSafe ==
  ASSUME TypeOK, Inductive, NEW c \in Connector, ReserveRoute(c), exec[c].job \in Job
  PROVE  JournalStep
<1> DEFINE j == exec[c].job
<1>1. CASE UNCHANGED coordinator
  BY <1>1, NoWriteIsSafe
<1>2. CASE ~poisoned /\ \E fault \in FaultChoice : Apply(Committed(mem, mem, disk, fault))
  BY <1>2, RewriteIsSafe, FaultChoiceType, WriteIsSafe
<1>3. CASE /\ ~poisoned /\ CanReserve(mem, j)
           /\ \E fault \in FaultChoice : Apply(Committed(mem, Reserve(mem, j, issued + 1), disk, fault))
  <2> DEFINE next == Reserve(mem, j, issued + 1)
  <2>0. issued + 1 \in Nat
    BY DEF TypeOK
  <2>1. next \in Document /\ JournalInv(next) /\ next.consumed = mem.consumed
    BY <1>3, <2>0, ReserveKeeps DEF TypeOK, Inductive
  <2>2. BarrierGrows(mem, next)
    BY <2>1, SameBarrierGrows DEF TypeOK
  <2>3. \E fault \in FaultChoice : Apply(Committed(mem, next, disk, fault))
    BY <1>3
  <2> HIDE DEF next
  <2> QED
    BY <1>3, <2>1, <2>2, <2>3, FaultChoiceType, WriteIsSafe
<1> QED
  BY <1>1, <1>2, <1>3 DEF ReserveRoute

\* A write tried twice: the second starts where the first left both copies.
LEMMA FinishSubmissionIsSafe ==
  ASSUME TypeOK, Inductive, NEW c \in Connector, FinishSubmission(c),
         exec[c].result \in Outcome
  PROVE  JournalStep
<1> DEFINE e == exec[c]
           next == Finish(mem, e.handle, e.result, e.result = "accepted")
<1>1. CASE poisoned \/ ~CanFinish(mem, e.handle, e.result)
  <2>1. mem' = mem /\ disk' = disk /\ poisoned' = TRUE
    BY <1>1 DEF FinishSubmission, Apply
  <2> QED
    BY <2>1, SameBarrierGrows DEF JournalStep, TypeOK, Inductive
<1>2. CASE ~poisoned /\ CanFinish(mem, e.handle, e.result)
  <2>1. next \in Document /\ JournalInv(next) /\ BarrierGrows(mem, next)
    BY <1>2, FinishKeeps DEF CanFinish, Validates, TypeOK, Inductive
  <2>2. disk.consumed = mem.consumed /\ BarrierGrows(disk, next) /\ BarrierGrows(disk, disk)
        /\ BarrierGrows(disk, mem)
    BY <1>2, <2>1, SameBarrierGrows DEF TypeOK, Inductive, BarrierGrows
  <2>3. PICK fault \in FaultChoice :
          LET w == Committed(mem, next, disk, fault) IN
          IF w.ok THEN Apply(w)
          ELSE IF w.poisoned THEN Apply([w EXCEPT !.poisoned = TRUE])
          ELSE \E again \in Fault :
                 LET w2 == Committed(w.mem, next, w.disk, again) IN
                 IF w2.ok THEN Apply(w2) ELSE Apply([w2 EXCEPT !.poisoned = TRUE])
    <3>1. (IF faults + 1 < MaxFaults THEN Fault ELSE {"none"}) \subseteq Fault
      BY DEF Fault
    <3> QED
      BY <1>2, <3>1 DEF FinishSubmission
  <2> DEFINE w == Committed(mem, next, disk, fault)
  <2>4. /\ w.mem \in {mem, next, disk} /\ w.disk \in {next, disk} /\ w.poisoned \in BOOLEAN
        /\ w.ok => w.mem = next /\ w.disk = next
        /\ ~w.poisoned => w.mem = w.disk
        /\ ~w.poisoned /\ ~w.ok => w.mem = mem
    BY FaultChoiceType, CommittedCopies
  <2>5. CASE w.ok
    <3>1. Apply(Committed(mem, next, disk, fault)) /\ fault \in Fault
      BY <2>3, <2>5, FaultChoiceType
    <3> HIDE DEF next
    <3> QED
      BY <1>2, <2>1, <3>1, WriteIsSafe
  <2>6. CASE ~w.ok /\ w.poisoned
    <3>1. Apply([w EXCEPT !.poisoned = TRUE])
      BY <2>3, <2>6
    <3>2. mem' = w.mem /\ disk' = w.disk /\ poisoned' = TRUE
      BY <3>1 DEF Apply, Committed
    <3> QED
      BY <2>1, <2>2, <2>4, <3>2 DEF JournalStep, TypeOK, Inductive
  <2>7. CASE ~w.ok /\ ~w.poisoned
    <3>1. PICK again \in Fault :
            LET w2 == Committed(w.mem, next, w.disk, again) IN
            IF w2.ok THEN Apply(w2) ELSE Apply([w2 EXCEPT !.poisoned = TRUE])
      BY <2>3, <2>7
    <3> DEFINE w2 == Committed(w.mem, next, w.disk, again)
    <3>2. w.mem = mem /\ w.disk = mem
      BY <2>4, <2>7
    <3>3. /\ w2.mem \in {mem, next} /\ w2.disk \in {mem, next} /\ w2.poisoned \in BOOLEAN
          /\ w2.ok => w2.mem = next /\ w2.disk = next
      BY <3>2, CommittedCopies
    <3>4. mem' = w2.mem /\ disk' = w2.disk
      BY <3>1 DEF Apply, Committed
    <3>5. poisoned' \in BOOLEAN /\ (~poisoned' => w2.ok)
      BY <3>1, <3>3 DEF Apply, Committed
    <3> QED
      BY <2>1, <2>2, <3>3, <3>4, <3>5 DEF JournalStep, TypeOK, Inductive
  <2> QED
    BY <2>5, <2>6, <2>7
<1> QED
  BY <1>1, <1>2

\* Recovery of local reservations journals ambiguous outcomes.
LEMMA LocalFenceIsSafe ==
  ASSUME TypeOK, Inductive, LocalFence
  PROVE  JournalStep
<1>1. CASE UNCHANGED coordinator
  BY <1>1, NoWriteIsSafe
<1>2. CASE ~poisoned /\ \E r \in Unjournaled, fault \in FaultChoice :
             Apply(Committed(mem, Finish(mem, r, "ambiguous", FALSE), disk, fault))
  BY <1>2, FinishIsSafe DEF Unjournaled, Outcome
<1> QED
  BY <1>1, <1>2 DEF LocalFence

\* Compaction of local evidence touches no cloud barrier.
LEMMA LocalCompactIsSafe ==
  ASSUME TypeOK, Inductive, LocalCompact
  PROVE  JournalStep
<1> DEFINE gone == {h \in mem.handoffs : DurablyProjected(h)}
           next == Compact(mem, gone)
<1>1. CASE UNCHANGED coordinator
  BY <1>1, NoWriteIsSafe
<1>2. CASE ~poisoned /\ \E fault \in FaultChoice : Apply(Committed(mem, next, disk, fault))
  <2>1. next \in Document /\ JournalInv(next) /\ next.consumed = mem.consumed
    BY CompactKeeps DEF TypeOK, Inductive
  <2>2. BarrierGrows(mem, next)
    BY <2>1, SameBarrierGrows DEF TypeOK
  <2> HIDE DEF next
  <2> QED
    BY <1>2, <2>1, <2>2, FaultChoiceType, WriteIsSafe
<1> QED
  BY <1>1, <1>2 DEF LocalCompact

\* Recovery of a proven fence journals an ambiguous outcome.
LEMMA RecoverFenceIsSafe ==
  ASSUME TypeOK, Inductive, NEW j \in Job, RecoverFence(j)
  PROVE  JournalStep
BY FinishIsSafe DEF RecoverFence, ProvenFence, Outcome

\* The startup sweep journals rejections.
LEMMA SweepFencesIsSafe ==
  ASSUME TypeOK, Inductive, NEW c \in Connector, SweepFences(c)
  PROVE  JournalStep
<1>1. CASE UNCHANGED coordinator
  BY <1>1, NoWriteIsSafe
<1>2. CASE ~poisoned /\ \E r \in Unaccounted(c), fault \in FaultChoice :
             Apply(Committed(mem, Finish(mem, r, "rejected", FALSE), disk, fault))
  BY <1>2, FinishIsSafe DEF Unaccounted, Outcome
<1> QED
  BY <1>1, <1>2 DEF SweepFences

\* open starts from the file: a safe document, read and repaired.
LEMMA RestartIsSafe ==
  ASSUME TypeOK, Inductive, Restart
  PROVE  JournalStep
<1>1. Reopened(disk) \in Document /\ JournalInv(Reopened(disk))
      /\ Reopened(disk).consumed = disk.consumed
  BY ReopenedKeeps DEF TypeOK, Inductive
<1>2. mem' = Reopened(disk) /\ disk' = Reopened(disk) /\ poisoned' = FALSE
  BY DEF Restart
<1> QED
  BY <1>1, <1>2, SameBarrierGrows DEF JournalStep, TypeOK

-----------------------------------------------------------------------------
(* The types of the rest of the state.                                     *)

OthersOK ==
  /\ up \in BOOLEAN /\ booting \in BOOLEAN
  /\ phase \in [Connector -> Phase] /\ todo \subseteq Job
  /\ store \in [Job -> StoreState] /\ proof \in [Job -> Nat]
  /\ marks \subseteq [id : Nat, resolution : Resolution]
  /\ exec \in [Connector -> Submission \cup {Nil}]
  /\ worker \in [Connector -> Errand \cup {Nil}]
  /\ offers \subseteq Offer
  /\ calls \in Seq([job : Job, id : Nat, accepts : BOOLEAN])
  /\ decided \subseteq [job : Job, id : Nat, resolution : Resolution]
  /\ issued \in Nat /\ faults \in Nat /\ crashes \in Nat

\* The types of the two documents, and of everything else.
LEMMA TypeOKSplit ==
  TypeOK <=> mem \in Document /\ disk \in Document /\ poisoned \in BOOLEAN /\ OthersOK
BY DEF TypeOK, OthersOK

\* The same of the next state.
LEMMA TypeOKSplitPrimed ==
  TypeOK' <=> mem' \in Document /\ disk' \in Document /\ poisoned' \in BOOLEAN /\ OthersOK'
BY DEF TypeOK, OthersOK

\* The fields a submission in each step carries.
LEMMA SubmissionShape ==
  ASSUME NEW e \in Submission
  PROVE  /\ e.job \in Job
         /\ e.step \in {"reserved", "validated", "called"} => e.handle \in Reservation
         /\ e.step = "called" => e.result \in Outcome
         /\ e.step = "settle" => e.verdict \in StoreState
BY DEF Submission

\* The fields an errand of either kind carries.
LEMMA ErrandShape ==
  ASSUME NEW e \in Errand
  PROVE  /\ e.kind = "prepare" => e.offer \in Offer /\ e.handle \in Reservation
         /\ e.kind = "resolve" => e.job \in Job /\ e.id \in Nat /\ e.resolution \in Resolution
BY DEF Errand

\* A submission in flight is a submission.
LEMMA ExecShape ==
  ASSUME TypeOK, NEW c \in Connector, exec[c] # Nil
  PROVE  exec[c] \in Submission
BY DEF TypeOK

\* An errand under way is an errand.
LEMMA WorkerShape ==
  ASSUME TypeOK, NEW c \in Connector, worker[c] # Nil
  PROVE  worker[c] \in Errand
BY DEF TypeOK

\* Counting a fault keeps a number.
LEMMA ChargeType ==
  ASSUME TypeOK, NEW fault, Charge(fault)
  PROVE  faults' \in Nat
BY DEF TypeOK, Charge

\* Settling and holding store submissions.
LEMMA SettleType ==
  ASSUME TypeOK, NEW c \in Connector, exec[c] # Nil, NEW verdict \in StoreState,
         Settle(c, verdict)
  PROVE  exec' \in [Connector -> Submission \cup {Nil}]
<1>1. exec[c].job \in Job
  BY ExecShape, SubmissionShape
<1>2. [job |-> exec[c].job, step |-> "settle", verdict |-> verdict] \in Submission
  BY <1>1 DEF Submission
<1> QED
  BY <1>2 DEF TypeOK, Settle

\* Holding a handle stores a submission.
LEMMA HoldType ==
  ASSUME TypeOK, NEW c \in Connector, exec[c] # Nil, NEW step \in {"reserved", "validated"},
         NEW handle \in Reservation, Hold(c, step, handle)
  PROVE  exec' \in [Connector -> Submission \cup {Nil}]
<1>1. exec[c].job \in Job
  BY ExecShape, SubmissionShape
<1>2. [job |-> exec[c].job, step |-> step, handle |-> handle] \in Submission
  BY <1>1 DEF Submission
<1> QED
  BY <1>2 DEF TypeOK, Hold

\* Types after a step of discovery, the server or a submitter.
LEMMA EnvironmentTypes ==
  ASSUME TypeOK,
         \/ \E obs \in Observation : DiscoverRoutes(obs)
         \/ \E j \in Job : IssueOffer(j) \/ AcceptLocalJob(j)
  PROVE  OthersOK'
<1>1. ASSUME NEW obs \in Observation, DiscoverRoutes(obs)
      PROVE  OthersOK'
  <2>1. faults' \in Nat
    BY <1>1, ChargeType DEF DiscoverRoutes
  <2> QED
    BY <1>1, <2>1, TypeOKSplit DEF DiscoverRoutes, OthersOK, queue, history
<1>2. ASSUME NEW j \in Job, IssueOffer(j)
      PROVE  OthersOK'
  <2>1. issued' \in Nat
    BY <1>2, TypeOKSplit DEF IssueOffer, OthersOK
  <2>2. offers' \subseteq Offer
    BY <1>2, <2>1, TypeOKSplit DEF IssueOffer, OthersOK, Offer
  <2> QED
    BY <1>2, <2>1, <2>2, TypeOKSplit DEF IssueOffer, OthersOK, queue, history
<1>3. ASSUME NEW j \in Job, AcceptLocalJob(j)
      PROVE  OthersOK'
  BY <1>3, TypeOKSplit DEF AcceptLocalJob, OthersOK, history, StoreState
<1> QED
  BY <1>1, <1>2, <1>3

\* Types after a step of the cloud worker or a resolution.
LEMMA WorkerTypes ==
  ASSUME TypeOK, Inductive,
         \/ \E o \in offers : RegisterOffer(o)
         \/ \E j \in Job, o \in {"queued", "dropped"} : ResumeAcceptance(j, o)
         \/ \E c \in Connector : \/ PrepareOffer(c) \/ ProjectResolution(c)
                                 \/ \E n \in 1..mem.seq : AcknowledgeHandoffs(c, n)
         \/ \E j \in Job, id \in 1..issued, r \in Resolution : ResolveAmbiguousHandoff(j, id, r)
  PROVE  OthersOK'
<1>1. ASSUME NEW o \in offers, RegisterOffer(o)
      PROVE  OthersOK'
  <2> DEFINE handle == CloudReservation(mem, o)
             errand == [kind |-> "prepare", offer |-> o, handle |-> handle,
                        fresh |-> handle \notin mem.reservations]
  <2>1. handle \in Reservation
    BY <1>1, RegisterOfferIsSafe
  <2>2. errand \in Errand
    BY <2>1, TypeOKSplit DEF OthersOK, Errand
  <2>3. worker' = worker \/ worker' = [worker EXCEPT ![OwnerOf[o.job]] = errand]
    BY <1>1 DEF RegisterOffer
  <2>4. faults' \in Nat
    BY <1>1, ChargeType DEF RegisterOffer
  <2>5. worker' \in [Connector -> Errand \cup {Nil}]
    BY <2>2, <2>3, TypeOKSplit DEF OthersOK
  <2> QED
    BY <1>1, <2>4, <2>5, TypeOKSplit DEF RegisterOffer, OthersOK, queue, history
<1>2. ASSUME NEW j \in Job, NEW o \in {"queued", "dropped"}, ResumeAcceptance(j, o)
      PROVE  OthersOK'
  BY <1>2, TypeOKSplit DEF ResumeAcceptance, OthersOK, history, StoreState
<1>3. ASSUME NEW c \in Connector, PrepareOffer(c)
      PROVE  OthersOK'
  <2>1. worker[c].offer \in Offer
    BY <1>3, WorkerShape, ErrandShape DEF PrepareOffer
  <2>2. worker[c].offer.job \in Job /\ worker[c].offer.id \in Nat
    BY <2>1 DEF Offer
  <2>3. faults' \in Nat
    BY <1>3, ChargeType, TypeOKSplit DEF PrepareOffer, OthersOK
  <2>4. store' \in [Job -> StoreState] /\ proof' \in [Job -> Nat]
    BY <1>3, <2>2, TypeOKSplit DEF PrepareOffer, OthersOK, StoreState
  <2>5. worker' \in [Connector -> Errand \cup {Nil}]
    BY <1>3, TypeOKSplit DEF PrepareOffer, OthersOK
  <2> QED
    BY <1>3, <2>3, <2>4, <2>5, TypeOKSplit DEF PrepareOffer, OthersOK, history
<1>4. ASSUME NEW c \in Connector, ProjectResolution(c)
      PROVE  OthersOK'
  <2>1. /\ worker[c].job \in Job /\ worker[c].id \in Nat /\ worker[c].resolution \in Resolution
    BY <1>4, WorkerShape, ErrandShape DEF ProjectResolution
  <2>2. store' \in [Job -> StoreState] /\ proof' \in [Job -> Nat]
    BY <1>4, <2>1, TypeOKSplit DEF ProjectResolution, OthersOK, StoreState
  <2>3. marks' \subseteq [id : Nat, resolution : Resolution]
    BY <1>4, <2>1, TypeOKSplit DEF ProjectResolution, OthersOK
  <2>4. worker' \in [Connector -> Errand \cup {Nil}] /\ phase' \in [Connector -> Phase]
    BY <1>4, TypeOKSplit DEF ProjectResolution, OthersOK, Phase
  <2> QED
    BY <1>4, <2>2, <2>3, <2>4, TypeOKSplit DEF ProjectResolution, OthersOK, history
<1>5. ASSUME NEW c \in Connector, NEW n \in 1..mem.seq, AcknowledgeHandoffs(c, n)
      PROVE  OthersOK'
  <2>1. faults' \in Nat
    BY <1>5, ChargeType DEF AcknowledgeHandoffs
  <2> QED
    BY <1>5, <2>1, TypeOKSplit DEF AcknowledgeHandoffs, OthersOK, queue, history
<1>6. ASSUME NEW j \in Job, NEW id \in 1..issued, NEW r \in Resolution,
             ResolveAmbiguousHandoff(j, id, r)
      PROVE  OthersOK'
  <2> DEFINE errand == [kind |-> "resolve", job |-> j, id |-> id, resolution |-> r]
  <2>1. id \in Nat
    BY TypeOKSplit DEF OthersOK
  <2>2. errand \in Errand
    BY <2>1 DEF Errand
  <2>3. worker' = worker \/ worker' = [worker EXCEPT ![OwnerOf[j]] = errand]
    BY <1>6 DEF ResolveAmbiguousHandoff
  <2>4. worker' \in [Connector -> Errand \cup {Nil}]
    BY <2>2, <2>3, TypeOKSplit DEF OthersOK
  <2>5. faults' \in Nat
    BY <1>6, ChargeType DEF ResolveAmbiguousHandoff
  <2>6. decided' \subseteq [job : Job, id : Nat, resolution : Resolution]
    BY <1>6, <2>1, TypeOKSplit DEF ResolveAmbiguousHandoff, OthersOK
  <2> QED
    BY <1>6, <2>4, <2>5, <2>6, TypeOKSplit DEF ResolveAmbiguousHandoff, OthersOK, queue
<1> QED
  BY <1>1, <1>2, <1>3, <1>4, <1>5, <1>6

\* Types after a step of the engine.
LEMMA EngineTypes ==
  ASSUME TypeOK, Inductive,
         \/ \E j \in Job : BeginExecution(j) \/ DropBeforeHandoff(j)
         \/ \E c \in Connector : \/ ReserveRoute(c) \/ ValidateRoute(c) \/ FinishSubmission(c)
                                 \/ SettleQueue(c)
                                 \/ \E a \in BOOLEAN, r \in Report : CallSpooler(c, a, r)
  PROVE  OthersOK'
<1>1. ASSUME NEW j \in Job, BeginExecution(j)
      PROVE  OthersOK'
  <2>1. [job |-> j, step |-> "intent"] \in Submission
    BY DEF Submission
  <2> QED
    BY <1>1, <2>1, TypeOKSplit DEF BeginExecution, OthersOK, history, StoreState
<1>2. ASSUME NEW j \in Job, DropBeforeHandoff(j)
      PROVE  OthersOK'
  BY <1>2, TypeOKSplit DEF DropBeforeHandoff, OthersOK, history, StoreState
<1>3. ASSUME NEW c \in Connector, ReserveRoute(c)
      PROVE  OthersOK'
  <2>1. exec[c] # Nil /\ exec[c].job \in Job
    BY <1>3, ExecShape, SubmissionShape DEF ReserveRoute, InStep
  <2>2. faults' \in Nat /\ issued' \in Nat
    BY <1>3, ChargeType, TypeOKSplit DEF ReserveRoute, OthersOK
  <2>3. ASSUME NEW r \in OwnHolder(mem, exec[c].job)
        PROVE  r \in Reservation
    BY <2>3, DocumentFields, TypeOKSplit DEF OwnHolder, Holders
  <2>4. CanReserve(mem, exec[c].job) =>
          LocalReservation(mem, exec[c].job, issued + 1) \in Reservation
    BY <2>1, ReserveKeeps, TypeOKSplit DEF OthersOK, Inductive
  <2>5. \/ Settle(c, "uncertain") \/ Settle(c, "retry")
        \/ \E r \in OwnHolder(mem, exec[c].job) : Hold(c, "reserved", r)
        \/ /\ CanReserve(mem, exec[c].job)
           /\ Hold(c, "reserved", LocalReservation(mem, exec[c].job, issued + 1))
    BY <1>3 DEF ReserveRoute
  <2>6. exec' \in [Connector -> Submission \cup {Nil}]
    BY <2>1, <2>3, <2>4, <2>5, SettleType, HoldType DEF StoreState
  <2> QED
    BY <1>3, <2>2, <2>6, TypeOKSplit DEF ReserveRoute, OthersOK, queue, history
<1>4. ASSUME NEW c \in Connector, ValidateRoute(c)
      PROVE  OthersOK'
  <2>1. exec[c] # Nil /\ exec[c].handle \in Reservation
    BY <1>4, ExecShape, SubmissionShape DEF ValidateRoute, InStep
  <2>2. Hold(c, "validated", exec[c].handle) \/ Settle(c, "retry")
    BY <1>4 DEF ValidateRoute
  <2>3. exec' \in [Connector -> Submission \cup {Nil}]
    BY <2>1, <2>2, SettleType, HoldType DEF StoreState
  <2> QED
    BY <1>4, <2>3, TypeOKSplit DEF ValidateRoute, OthersOK, queue, history
<1>5. ASSUME NEW c \in Connector, FinishSubmission(c)
      PROVE  OthersOK'
  <2>1. exec[c] # Nil
    BY <1>5 DEF FinishSubmission, InStep
  <2>2. \E v \in StoreState : Settle(c, v)
    <3>1. Verdicts(exec[c].result) \subseteq StoreState
      BY DEF Verdicts, StoreState
    <3>2. (IF exec[c].result = "rejected" THEN "failed" ELSE "uncertain") \in StoreState
      BY DEF StoreState
    <3> QED
      BY <1>5, <3>1, <3>2 DEF FinishSubmission
  <2>3. exec' \in [Connector -> Submission \cup {Nil}]
    BY <2>1, <2>2, SettleType
  <2>4. faults' \in Nat
    <3>1. \/ faults' = faults \/ faults' = faults + 1 \/ faults' = faults + 2
          \/ \E fault \in FaultChoice : Charge(fault)
      BY <1>5 DEF FinishSubmission
    <3> QED
      BY <3>1, ChargeType, TypeOKSplit DEF OthersOK
  <2> QED
    BY <1>5, <2>3, <2>4, TypeOKSplit DEF FinishSubmission, OthersOK, queue, history
<1>6. ASSUME NEW c \in Connector, SettleQueue(c)
      PROVE  OthersOK'
  <2>1. exec[c].job \in Job /\ exec[c].verdict \in StoreState
    BY <1>6, ExecShape, SubmissionShape DEF SettleQueue, InStep
  <2>2. store' \in [Job -> StoreState] /\ proof' \in [Job -> Nat]
    BY <1>6, <2>1, TypeOKSplit DEF SettleQueue, OthersOK
  <2>3. exec' \in [Connector -> Submission \cup {Nil}] /\ phase' \in [Connector -> Phase]
    BY <1>6, TypeOKSplit DEF SettleQueue, OthersOK, Phase
  <2> QED
    BY <1>6, <2>2, <2>3, TypeOKSplit DEF SettleQueue, OthersOK, history
<1>7. ASSUME NEW c \in Connector, NEW a \in BOOLEAN, NEW r \in Report, CallSpooler(c, a, r)
      PROVE  OthersOK'
  <2>1. exec[c].job \in Job /\ exec[c].handle \in Reservation
    BY <1>7, ExecShape, SubmissionShape DEF CallSpooler, InStep
  <2>2. [job |-> exec[c].job, step |-> "called", handle |-> exec[c].handle,
         result |-> HandoffOutcome(r)] \in Submission
    BY <2>1 DEF Submission, HandoffOutcome, Outcome
  <2>3. exec' \in [Connector -> Submission \cup {Nil}]
    BY <1>7, <2>2, TypeOKSplit DEF CallSpooler, OthersOK
  <2>4. [job |-> exec[c].job, id |-> exec[c].handle.id, accepts |-> a]
          \in [job : Job, id : Nat, accepts : BOOLEAN]
    BY <2>1 DEF Reservation
  <2>5. calls' \in Seq([job : Job, id : Nat, accepts : BOOLEAN])
    BY <1>7, <2>4, TypeOKSplit DEF CallSpooler, OthersOK
  <2> QED
    BY <1>7, <2>3, <2>5, TypeOKSplit DEF CallSpooler, OthersOK, queue
<1> QED
  BY <1>1, <1>2, <1>3, <1>4, <1>5, <1>6, <1>7

\* Types after a step of recovery, a stop or a start.
LEMMA RecoveryTypes ==
  ASSUME TypeOK,
         \/ LocalTick \/ LocalFence \/ LocalProject \/ LocalCompact \/ Crash \/ Restart
         \/ \E j \in Job : RecoverFence(j) \/ RecoverQueue(j)
         \/ \E c \in Connector : SweepFences(c)
  PROVE  OthersOK'
<1>1. CASE LocalTick
  BY <1>1, TypeOKSplit DEF LocalTick, OthersOK, queue, history, Phase
<1>2. CASE LocalFence
  <2>1. faults' \in Nat
    BY <1>2, ChargeType, TypeOKSplit DEF LocalFence, OthersOK
  <2>2. up' \in BOOLEAN /\ phase' \in [Connector -> Phase]
    BY <1>2, TypeOKSplit DEF LocalFence, FailPass, OthersOK, Phase
  <2> QED
    BY <1>2, <2>1, <2>2, TypeOKSplit DEF LocalFence, OthersOK, queue, history
<1>3. CASE LocalProject
  <2>1. store' \in [Job -> StoreState]
    BY <1>3, TypeOKSplit DEF LocalProject, OthersOK, StoreState, Projectable, JobsOf
  <2>2. phase' \in [Connector -> Phase]
    BY <1>3, TypeOKSplit DEF LocalProject, OthersOK, Phase
  <2> QED
    BY <1>3, <2>1, <2>2, TypeOKSplit DEF LocalProject, OthersOK, history
<1>4. CASE LocalCompact
  <2>1. faults' \in Nat
    BY <1>4, ChargeType, TypeOKSplit DEF LocalCompact, OthersOK
  <2>2. up' \in BOOLEAN /\ booting' \in BOOLEAN /\ phase' \in [Connector -> Phase]
    BY <1>4, TypeOKSplit DEF LocalCompact, FailPass, OthersOK, Phase
  <2> QED
    BY <1>4, <2>1, <2>2, TypeOKSplit DEF LocalCompact, OthersOK, queue, history
<1>5. CASE Crash
  <2>1. exec' = [c \in Connector |-> Nil] /\ worker' = [c \in Connector |-> Nil]
    BY <1>5 DEF Crash
  <2>2. /\ exec' \in [Connector -> Submission \cup {Nil}]
        /\ worker' \in [Connector -> Errand \cup {Nil}]
    BY <2>1
  <2>3. up' \in BOOLEAN /\ crashes' \in Nat
    <3>1. up' = FALSE /\ (crashes' = crashes \/ crashes' = crashes + 1)
      BY <1>5, Zenon DEF Crash
    <3>2. crashes \in Nat
      BY DEF TypeOK
    <3>3. crashes' \in Nat
      BY <3>1, <3>2
    <3> QED
      BY <3>1, <3>3, Zenon
  <2>4. UNCHANGED <<booting, phase, todo, store, proof, marks, offers, calls, decided, issued,
                    faults>>
    BY <1>5 DEF Crash, queue, history
  <2> QED
    BY <2>2, <2>3, <2>4, TypeOKSplit DEF OthersOK
<1>6. CASE Restart
  <2>1. phase' \in [Connector -> Phase]
    BY <1>6 DEF Restart, Phase
  <2> QED
    BY <1>6, <2>1, TypeOKSplit DEF Restart, OthersOK, queue, history
<1>7. ASSUME NEW j \in Job, RecoverFence(j)
      PROVE  OthersOK'
  <2>1. faults' \in Nat
    BY <1>7, ChargeType DEF RecoverFence
  <2> QED
    BY <1>7, <2>1, TypeOKSplit DEF RecoverFence, OthersOK, queue, history
<1>8. ASSUME NEW j \in Job, RecoverQueue(j)
      PROVE  OthersOK'
  <2>1. RecoveredState(j, AuthoritativeHandoff(mem, j, proof[j])) \in StoreState
    BY DEF RecoveredState, StoreState
  <2>2. store' \in [Job -> StoreState] /\ proof' \in [Job -> Nat] /\ todo' \subseteq Job
    BY <1>8, <2>1, TypeOKSplit DEF RecoverQueue, OthersOK
  <2> QED
    BY <1>8, <2>2, TypeOKSplit DEF RecoverQueue, OthersOK, history
<1>9. ASSUME NEW c \in Connector, SweepFences(c)
      PROVE  OthersOK'
  <2>1. faults' \in Nat
    BY <1>9, ChargeType, TypeOKSplit DEF SweepFences, OthersOK
  <2>2. phase' \in [Connector -> Phase]
    BY <1>9, TypeOKSplit DEF SweepFences, OthersOK, Phase
  <2> QED
    BY <1>9, <2>1, <2>2, TypeOKSplit DEF SweepFences, OthersOK, queue, history
<1> QED
  BY <1>1, <1>2, <1>3, <1>4, <1>5, <1>6, <1>7, <1>8, <1>9

-----------------------------------------------------------------------------
(* The theorems.                                                           *)

\* Every step of the protocol is a safe step of the journal.
LEMMA NextIsSafe ==
  ASSUME TypeOK, Inductive, Next
  PROVE  JournalStep
<1>1. ASSUME NEW obs \in Observation, DiscoverRoutes(obs)
      PROVE  JournalStep
  BY <1>1, DiscoverIsSafe
<1>2. ASSUME NEW j \in Job,
             \/ IssueOffer(j) \/ AcceptLocalJob(j) \/ BeginExecution(j)
             \/ DropBeforeHandoff(j) \/ RecoverQueue(j)
             \/ \E o \in {"queued", "dropped"} : ResumeAcceptance(j, o)
      PROVE  JournalStep
  BY <1>2, NoWriteIsSafe DEF IssueOffer, AcceptLocalJob, BeginExecution, DropBeforeHandoff,
                             RecoverQueue, ResumeAcceptance
<1>3. ASSUME NEW j \in Job, RecoverFence(j)
      PROVE  JournalStep
  BY <1>3, RecoverFenceIsSafe
<1>4. ASSUME NEW j \in Job, NEW id \in 1..issued, NEW r \in Resolution,
             ResolveAmbiguousHandoff(j, id, r)
      PROVE  JournalStep
  BY <1>4, ResolveIsSafe
<1>5. ASSUME NEW o \in offers, RegisterOffer(o)
      PROVE  JournalStep
  BY <1>5, RegisterOfferIsSafe
<1>6. ASSUME NEW c \in Connector, PrepareOffer(c)
      PROVE  JournalStep
  BY <1>6, PrepareOfferIsSafe
<1>7. ASSUME NEW c \in Connector, ReserveRoute(c)
      PROVE  JournalStep
  <2>1. exec[c].job \in Job
    BY <1>7, ExecShape, SubmissionShape DEF ReserveRoute, InStep
  <2> QED
    BY <1>7, <2>1, ReserveRouteIsSafe
<1>8. ASSUME NEW c \in Connector, FinishSubmission(c)
      PROVE  JournalStep
  <2>1. exec[c].result \in Outcome
    BY <1>8, ExecShape, SubmissionShape DEF FinishSubmission, InStep
  <2> QED
    BY <1>8, <2>1, FinishSubmissionIsSafe
<1>9. ASSUME NEW c \in Connector, SweepFences(c)
      PROVE  JournalStep
  BY <1>9, SweepFencesIsSafe
<1>10. ASSUME NEW c \in Connector, NEW n \in 1..mem.seq, AcknowledgeHandoffs(c, n)
       PROVE  JournalStep
  <2>1. n \in Nat
    BY DocumentFields, TypeOKSplit
  <2> QED
    BY <1>10, <2>1, AcknowledgeIsSafe
<1>11. ASSUME NEW c \in Connector,
              \/ ProjectResolution(c) \/ ValidateRoute(c) \/ SettleQueue(c)
              \/ \E a \in BOOLEAN, r \in Report : CallSpooler(c, a, r)
       PROVE  JournalStep
  BY <1>11, NoWriteIsSafe DEF ProjectResolution, ValidateRoute, SettleQueue, CallSpooler
<1>12. CASE LocalTick \/ LocalProject \/ Crash
  BY <1>12, NoWriteIsSafe DEF LocalTick, LocalProject, Crash
<1>13. CASE LocalFence \/ LocalCompact \/ Restart
  BY <1>13, LocalFenceIsSafe, LocalCompactIsSafe, RestartIsSafe
<1> QED
  BY <1>1, <1>2, <1>3, <1>4, <1>5, <1>6, <1>7, <1>8, <1>9, <1>10, <1>11, <1>12, <1>13 DEF Next

\* Types and the inductive invariant hold initially and are kept together:
\* the types need the guards' reservations, the invariant needs the types.
LEMMA InitIsSafe == Init => TypeOK /\ Inductive
<1> SUFFICES ASSUME Init
             PROVE  TypeOK /\ Inductive
  OBVIOUS
<1>1. mem = EmptyDocument /\ disk = EmptyDocument
  BY DEF Init
<1>2. OthersOK
  <2>1. phase \in [Connector -> Phase] /\ store \in [Job -> StoreState] /\ proof \in [Job -> Nat]
    BY DEF Init, Phase, StoreState
  <2>2. exec = [c \in Connector |-> Nil] /\ worker = [c \in Connector |-> Nil]
    BY DEF Init
  <2>3. /\ exec \in [Connector -> Submission \cup {Nil}]
        /\ worker \in [Connector -> Errand \cup {Nil}]
    BY <2>2
  <2>4. calls \in Seq([job : Job, id : Nat, accepts : BOOLEAN])
    BY DEF Init
  <2> QED
    BY <2>1, <2>3, <2>4 DEF Init, OthersOK
<1> QED
  BY <1>1, <1>2, EmptyDocumentIsSafe, TypeOKSplit DEF Init, Inductive

\* The types and the invariant are inductive together.
LEMMA StepIsSafe == TypeOK /\ Inductive /\ [Next]_vars => TypeOK' /\ Inductive'
<1>1. ASSUME TypeOK, Inductive, Next
      PROVE  TypeOK' /\ Inductive'
  <2>1. JournalStep
    BY <1>1, NextIsSafe
  <2>2. OthersOK'
    BY <1>1, EnvironmentTypes, WorkerTypes, EngineTypes, RecoveryTypes DEF Next
  <2> QED
    BY <2>1, <2>2, TypeOKSplitPrimed DEF JournalStep, Inductive
<1>2. ASSUME TypeOK, Inductive, UNCHANGED vars
      PROVE  TypeOK' /\ Inductive'
  BY <1>2 DEF vars, TypeOK, Inductive
<1> QED
  BY <1>1, <1>2

\* Every variable of the protocol keeps its type, the journal's two copies
\* and the submissions in flight included.
THEOREM TypeCorrect == Spec => []TypeOK
<1>1. Spec => [](TypeOK /\ Inductive)
  BY InitIsSafe, StepIsSafe, PTL DEF Spec
<1> QED
  BY <1>1, PTL

\* However discovery regroups the queues and whoever submits, no two
\* unresolved reservations share an exclusion domain or a queue, and two on
\* one printer are both marked as conflicting.
THEOREM PhysicalExclusionHolds == Spec => []PhysicalExclusion
<1>1. Spec => [](TypeOK /\ Inductive)
  BY InitIsSafe, StepIsSafe, PTL DEF Spec
<1>2. Inductive => PhysicalExclusion
  BY DEF Inductive, JournalInv, PhysicalExclusion
<1> QED
  BY <1>1, <1>2, PTL

\* In memory and in the file, a cloud job known to be accepted has no fence
\* an old offer could cross again.
THEOREM AcceptedKeepsBarrierHolds == Spec => []AcceptedKeepsBarrier
<1>1. Spec => [](TypeOK /\ Inductive)
  BY InitIsSafe, StepIsSafe, PTL DEF Spec
<1>2. Inductive => AcceptedKeepsBarrier
  BY DEF Inductive, JournalInv, AcceptedKeepsBarrier
<1> QED
  BY <1>1, <1>2, PTL

\* No step, failed write, stop or start takes a replay barrier out of the
\* file, moves it back, or replaces an accepted one.
THEOREM BarrierIsMonotoneHolds == Spec => BarrierIsMonotone
<1>1. Spec => [](TypeOK /\ Inductive)
  BY InitIsSafe, StepIsSafe, PTL DEF Spec
<1>2. TypeOK /\ Inductive /\ [Next]_vars => [BarrierGrows(disk, disk')]_vars
  BY NextIsSafe DEF JournalStep
<1> QED
  BY <1>1, <1>2, PTL DEF Spec, BarrierIsMonotone
=============================================================================
