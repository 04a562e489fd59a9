------------------------ MODULE HandoffSafetyProofs ------------------------
(***************************************************************************)
(* At most one native acceptance per operator decision, true evidence, and *)
(* fences that stay until their outcome is known: for every instance of    *)
(* the handoff protocol.                                                   *)
(*                                                                         *)
(* The invariant is one condition per job, JobOK of RouteJournalProofs,    *)
(* on what the file, the queue, the work under way and the histories say   *)
(* of it; besides it, where control can be while work is under way, and    *)
(* how far memory and file may disagree once a write went wrong.           *)
(***************************************************************************)
EXTENDS NativeHandoffProofs

\* What is under way for job j, and what happened to it.
Kind(j) == IF Cloud(j) THEN "cloud" ELSE "local"
Run(j) == IF exec[OwnerOf[j]] # Nil /\ exec[OwnerOf[j]].job = j THEN exec[OwnerOf[j]] ELSE Nil
ErrandJob(e) == IF e.kind = "prepare" THEN e.offer.job ELSE e.job
ErrandOf(j) ==
  IF worker[OwnerOf[j]] # Nil /\ ErrandJob(worker[OwnerOf[j]]) = j
  THEN worker[OwnerOf[j]] ELSE Nil
Taken(j) == {calls[i].id : i \in AcceptingCalls(j)}
Times(j) == Cardinality(AcceptingCalls(j))
Told(j, resolution) == {d.id : d \in Decisions(j, resolution)}
Marked(j) == {i \in Told(j, "release") : [id |-> i, resolution |-> "release"] \in marks}

JobInv(j) ==
  JobOK(FencesIn(disk, j), OutcomesIn(disk, j), BarriersIn(disk, j), Kind(j), issued, disk.seq,
        store[j], proof[j], Run(j), ErrandOf(j), Taken(j), Times(j), Told(j, "release"),
        Told(j, "confirm"), Marked(j))
JobsOK == \A j \in Job : JobInv(j)

\* Where control can be while work is under way.
Control ==
  /\ ~up => \A c \in Connector : exec[c] = Nil /\ worker[c] = Nil
  /\ \A c \in Connector : exec[c] # Nil => phase[c] = "run" /\ OwnerOf[exec[c].job] = c
  /\ \A c \in Connector : worker[c] # Nil =>
       phase[c] = "run" /\ OwnerOf[ErrandJob(worker[c])] = c
  /\ exec[Local] = Nil \/ worker[Local] = Nil
  /\ booting => \A c \in Connector : phase[c] # "run"
  /\ booting /\ up => ~poisoned
  /\ \A j \in todo : /\ Cloud(j) /\ phase[OwnerOf[j]] = "recover"
                     /\ store[j] \in {"intent", "uncertain"} /\ proof[j] # 0
  /\ \A o \in offers : Cloud(o.job) /\ o.gen = o.id /\ o.id \in 1..issued
  /\ \A d \in decided : d.id \in 1..issued

\* Once the local queue is reconciled, a fence of a local job without an
\* outcome is being submitted under, or was not crossed, or the coordinator
\* failed while its outcome was journaled.
Reconciled == up /\ ~(booting /\ phase[Local] = "fence")
Accounted(j) ==
  \A r \in FencesIn(disk, j) : Unknown(OutcomesIn(disk, j), r.id) =>
    /\ store[j] = "intent" => Run(j) # Nil
    /\ store[j] = "uncertain" /\ r.id \in Taken(j) => poisoned
    /\ Run(j) # Nil /\ Run(j).step = "settle" /\ r.id \in Taken(j) => poisoned
Booted == Reconciled => \A j \in Job : Cloud(j) \/ Accounted(j)

\* Memory and file differ only once a write went wrong, and never on a job
\* whose recovery still reads memory.
Agree(j) == View(mem, j) = View(disk, j)
CopiesAgree ==
  /\ ~poisoned => SameLedger(mem, disk)
  /\ up => \A j \in todo :
       Agree(j) \/ (ProvenFence(j) # {} /\ AuthoritativeHandoff(mem, j, proof[j]) = Nil)
  /\ up => \A j \in Job : ~Cloud(j) /\ store[j] = "intent" => Agree(j) \/ Run(j) # Nil

SafetyInv == JobsOK /\ Control /\ Booted /\ CopiesAgree

-----------------------------------------------------------------------------
(* Steps that leave a job alone.                                           *)

\* Nothing that is said of job j changes but how far the counters are.
SameWork(j) ==
  /\ Run(j)' = Run(j) /\ ErrandOf(j)' = ErrandOf(j)
  /\ Taken(j)' = Taken(j) /\ Times(j)' = Times(j)
SameRow(j) == store'[j] = store[j] /\ proof'[j] = proof[j]
SameView(j) == View(disk', j) = View(disk, j)
Untouched(j) == SameView(j) /\ SameRow(j) /\ SameWork(j)
Grows ==
  /\ disk.seq <= disk'.seq /\ issued <= issued'
  /\ decided \subseteq decided' /\ marks \subseteq marks'

\* The parts of a view.
LEMMA ViewParts ==
  ASSUME NEW d, NEW e, NEW j, View(d, j) = View(e, j)
  PROVE  /\ FencesIn(d, j) = FencesIn(e, j) /\ OutcomesIn(d, j) = OutcomesIn(e, j)
         /\ BarriersIn(d, j) = BarriersIn(e, j)
BY DEF View

\* Decisions and marks only grow.
LEMMA ToldGrows ==
  ASSUME Grows, NEW j
  PROVE  /\ \A x : Told(j, x) \subseteq Told(j, x)'
         /\ Marked(j) \subseteq Marked(j)'
BY DEF Grows, Told, Marked, Decisions

\* The identifiers decided on were drawn, so they are finitely many.
LEMMA ToldFinite ==
  ASSUME TypeOK, Control, NEW j, NEW x
  PROVE  /\ IsFiniteSet(Told(j, x)) /\ IsFiniteSet(Marked(j)) /\ Marked(j) \subseteq Told(j, "release")
<1>1. \A y : Told(j, y) \subseteq 1..issued
  BY DEF Told, Decisions, Control
<1>2. IsFiniteSet(1..issued)
  BY FS_Interval DEF TypeOK
<1>3. Marked(j) \subseteq Told(j, "release")
  BY DEF Marked
<1> QED
  BY <1>1, <1>2, <1>3, FS_Subset

\* A job that is left alone keeps its condition.
LEMMA UntouchedKeeps ==
  ASSUME TypeOK, TypeOK', JobsOK, Control', Grows, NEW j \in Job, Untouched(j)
  PROVE  JobInv(j)'
<1>1. JobInv(j)
  BY DEF JobsOK
<1>2. /\ FencesIn(disk', j) = FencesIn(disk, j) /\ OutcomesIn(disk', j) = OutcomesIn(disk, j)
      /\ BarriersIn(disk', j) = BarriersIn(disk, j)
  BY ViewParts DEF Untouched, SameView
<1>3. /\ Told(j, "release") \subseteq Told(j, "release")'
      /\ Told(j, "confirm") \subseteq Told(j, "confirm")' /\ Marked(j) \subseteq Marked(j)'
  BY ToldGrows
<1>4. IsFiniteSet(Marked(j)')
  <2>1. Marked(j)' \subseteq 1..issued'
    BY DEF Marked, Told, Decisions, Control
  <2>2. IsFiniteSet(1..issued')
    BY FS_Interval DEF TypeOK
  <2> QED
    BY <2>1, <2>2, FS_Subset
<1>5. /\ issued \in Nat /\ issued' \in Nat /\ issued <= issued'
      /\ disk.seq \in Nat /\ disk'.seq \in Nat /\ disk.seq <= disk'.seq
  BY DEF TypeOK, Document, Grows
<1>6. JobOK(FencesIn(disk, j), OutcomesIn(disk, j), BarriersIn(disk, j), Kind(j), issued', disk'.seq,
            store[j], proof[j], Run(j), ErrandOf(j), Taken(j), Times(j), Told(j, "release")',
            Told(j, "confirm")', Marked(j)')
  BY <1>1, <1>3, <1>4, <1>5, JobLater DEF JobInv
<1>7. Kind(j)' = Kind(j)
  BY DEF Kind, Cloud
<1> QED
  BY <1>2, <1>6, <1>7 DEF JobInv, Untouched, SameRow, SameWork

\* The jobs of a step: left alone, or seen to.
LEMMA JobsKept ==
  ASSUME TypeOK, TypeOK', JobsOK, Control', Grows,
         \A j \in Job : Untouched(j) \/ JobInv(j)'
  PROVE  JobsOK'
BY UntouchedKeeps DEF JobsOK

\* A step of the submission of job k's connector.
LEMMA ExecFrame ==
  ASSUME TypeOK, NEW c \in Connector, NEW k \in Job, OwnerOf[k] = c, NEW e,
         exec' = [exec EXCEPT ![c] = e], exec[c] = Nil \/ exec[c].job = k, e = Nil \/ e.job = k
  PROVE  /\ Run(k) = exec[c] /\ Run(k)' = e
         /\ \A j \in Job : j # k => Run(j)' = Run(j)
<1>1. /\ exec'[c] = e
      /\ \A d \in Connector : d # c => exec'[d] = exec[d]
  BY DEF TypeOK
<1>2. \A j \in Job : OwnerOf[j] \in Connector
  BY JournalAssumption
<1> QED
  BY <1>1, <1>2 DEF Run

\* A step of the errand of job k's connector.
LEMMA WorkerFrame ==
  ASSUME TypeOK, NEW c \in Connector, NEW k \in Job, OwnerOf[k] = c, NEW e,
         worker' = [worker EXCEPT ![c] = e], worker[c] = Nil \/ ErrandJob(worker[c]) = k,
         e = Nil \/ ErrandJob(e) = k
  PROVE  /\ ErrandOf(k) = worker[c] /\ ErrandOf(k)' = e
         /\ \A j \in Job : j # k => ErrandOf(j)' = ErrandOf(j)
<1>1. /\ worker'[c] = e
      /\ \A d \in Connector : d # c => worker'[d] = worker[d]
  BY DEF TypeOK
<1>2. \A j \in Job : OwnerOf[j] \in Connector
  BY JournalAssumption
<1> QED
  BY <1>1, <1>2 DEF ErrandOf

\* A submission that is not touched is as it was.
LEMMA NoExec == ASSUME UNCHANGED exec PROVE \A j \in Job : Run(j)' = Run(j)
BY DEF Run
\* An errand that is not touched is as it was.
LEMMA NoErrand == ASSUME UNCHANGED worker PROVE \A j \in Job : ErrandOf(j)' = ErrandOf(j)
BY DEF ErrandOf
\* No native call, and the OS took what it took.
LEMMA NoCalls ==
  ASSUME UNCHANGED calls PROVE \A j \in Job : Taken(j)' = Taken(j) /\ Times(j)' = Times(j)
BY DEF Taken, Times, AcceptingCalls
\* No decision, and what was decided stands.
LEMMA NoDecision ==
  ASSUME UNCHANGED <<decided, marks>>
  PROVE  \A j \in Job : /\ \A x : Told(j, x)' = Told(j, x)
                        /\ Marked(j)' = Marked(j)
BY DEF Told, Marked, Decisions

-----------------------------------------------------------------------------
(* Writes of the journal.                                                  *)

\* What commit_document_change leaves of a write of `next'.
Written(next) ==
  /\ disk' = next \/ disk' = disk
  /\ mem' = disk' \/ mem' = mem
  /\ ~poisoned' => mem' = disk'
WriteSucceeded(next) == mem' = next /\ disk' = next /\ poisoned' = FALSE

\* A write, whatever fault it meets.
LEMMA WriteLeaves ==
  ASSUME NEW next, NEW fault \in FaultChoice, Apply(Committed(mem, next, disk, fault))
  PROVE  /\ Written(next)
         /\ Committed(mem, next, disk, fault).ok => WriteSucceeded(next)
<1>1. fault \in Fault
  BY FaultChoiceType
<1>2. CASE fault = "none"
  BY <1>2 DEF Committed, Apply, Written, WriteSucceeded
<1>3. CASE fault \in {"before", "after"}
  BY <1>3 DEF Committed, Apply, Written, WriteSucceeded
<1>4. CASE fault \in {"unreadable_before", "unreadable_after"}
  BY <1>4 DEF Committed, Apply, Written, WriteSucceeded
<1> QED
  BY <1>1, <1>2, <1>3, <1>4 DEF Fault

\* A job the written document says the same of is left alone in both copies.
LEMMA WrittenView ==
  ASSUME NEW next, Written(next), SameLedger(mem, disk), NEW j, View(next, j) = View(mem, j)
  PROVE  View(disk', j) = View(disk, j) /\ View(mem', j) = View(disk, j)
<1>1. View(mem, j) = View(disk, j)
  BY SameViews
<1> QED
  BY <1>1 DEF Written

\* A coordinator that works has the file in memory.
LEMMA InStep0 ==
  ASSUME CopiesAgree, ~poisoned
  PROVE  SameLedger(mem, disk) /\ \A j : View(mem, j) = View(disk, j)
BY SameViews DEF CopiesAgree

\* What recovery reads of a job is its view.
LEMMA ViewReads ==
  ASSUME NEW d, NEW e, NEW j, View(d, j) = View(e, j)
  PROVE  /\ \A i : EvidenceOf(d, j, i) = EvidenceOf(e, j, i) /\ BarrierOf(d, j, i) = BarrierOf(e, j, i)
         /\ \A i : AuthoritativeHandoff(d, j, i) = AuthoritativeHandoff(e, j, i)
         /\ {r \in d.reservations : r.job = j /\ r.cloud} = {r \in e.reservations : r.job = j /\ r.cloud}
<1>1. /\ FencesIn(d, j) = FencesIn(e, j) /\ OutcomesIn(d, j) = OutcomesIn(e, j)
      /\ BarriersIn(d, j) = BarriersIn(e, j)
  BY ViewParts
<1>2. \A i : EvidenceOf(d, j, i) = EvidenceOf(e, j, i)
  BY <1>1 DEF OutcomesIn, EvidenceOf
<1>3. \A i : BarrierOf(d, j, i) = BarrierOf(e, j, i)
  BY <1>1 DEF BarriersIn, BarrierOf
<1>4. {r \in d.reservations : r.job = j /\ r.cloud} = {r \in e.reservations : r.job = j /\ r.cloud}
  BY <1>1 DEF FencesIn
<1> DEFINE Read(E, B) == IF E # {} THEN Newest(E)
                         ELSE IF B # {} THEN CHOOSE s \in B : TRUE ELSE Nil
<1>5. \A f, i : AuthoritativeHandoff(f, j, i) = Read(EvidenceOf(f, j, i), BarrierOf(f, j, i))
  BY Zenon DEF AuthoritativeHandoff
<1> HIDE DEF Read
<1> QED
  BY <1>2, <1>3, <1>4, <1>5

\* Memory and file of job j still agree, or nobody reads memory of it.
Steady(j) ==
  \/ View(mem', j) = View(disk', j)
  \/ View(mem', j) = View(mem, j) /\ View(disk', j) = View(disk, j)
  \/ j \notin todo' /\ (Cloud(j) \/ store'[j] # "intent" \/ Run(j)' # Nil)
  \/ /\ View(mem', j) = View(mem, j) /\ Cloud(j)
     /\ ProvenFence(j) # {} /\ AuthoritativeHandoff(mem, j, proof[j]) = Nil

\* How the agreement of the two copies is kept.
LEMMA CopiesKept ==
  ASSUME CopiesAgree, up' => up, ~poisoned' => SameLedger(mem', disk'),
         \A j \in todo' : j \in Job /\ j \in todo /\ proof'[j] = proof[j],
         \A j \in Job : ~Cloud(j) /\ store'[j] = "intent" =>
           Run(j)' # Nil \/ (store[j] = "intent" /\ Run(j) = Nil),
         up' => \A j \in Job : Steady(j)
  PROVE  CopiesAgree'
<1> DEFINE Waits(d, j, i) == /\ {r \in d.reservations : r.job = j /\ r.cloud /\ r.id = i} # {}
                             /\ AuthoritativeHandoff(d, j, i) = Nil
<1>1. ASSUME up', NEW j \in todo' PROVE View(mem', j) = View(disk', j) \/ Waits(mem', j, proof'[j])
  <2>1. up /\ j \in todo /\ proof'[j] = proof[j] /\ Steady(j)
    BY <1>1
  <2>2. View(mem, j) = View(disk, j) \/ Waits(mem, j, proof[j])
    BY <2>1 DEF CopiesAgree, Agree, ProvenFence
  <2>3. ASSUME View(mem', j) = View(mem, j), Waits(mem, j, proof[j]) PROVE Waits(mem', j, proof[j])
    BY <2>3, ViewReads
  <2>4. \/ View(mem', j) = View(disk', j)
        \/ View(mem', j) = View(mem, j) /\ View(disk', j) = View(disk, j)
        \/ View(mem', j) = View(mem, j) /\ Waits(mem, j, proof[j])
    BY <2>1, <1>1 DEF Steady, ProvenFence
  <2> QED
    BY <2>1, <2>2, <2>3, <2>4
<1>2. ASSUME up', NEW j \in Job, ~Cloud(j), store'[j] = "intent"
      PROVE  View(mem', j) = View(disk', j) \/ Run(j)' # Nil
  BY <1>2 DEF CopiesAgree, Agree, Steady
<1>3. \A j : Cloud(j)' = Cloud(j)
  BY DEF Cloud
<1> QED
  BY <1>1, <1>2, <1>3 DEF CopiesAgree, Agree, ProvenFence

\* How the account of local fences is kept.
LEMMA BootedKept ==
  ASSUME Booted, Reconciled' => Reconciled, poisoned => poisoned',
         \A j \in Job : \/ Cloud(j)
                        \/ Accounted(j)'
                        \/ SameView(j) /\ SameRow(j) /\ SameWork(j)
  PROVE  Booted'
<1>1. ASSUME Reconciled', NEW j \in Job, ~Cloud(j), SameView(j), SameRow(j), SameWork(j)
      PROVE  Accounted(j)'
  <2>1. Accounted(j)
    BY <1>1 DEF Booted
  <2>2. /\ FencesIn(disk', j) = FencesIn(disk, j) /\ OutcomesIn(disk', j) = OutcomesIn(disk, j)
    BY <1>1, ViewParts DEF SameView
  <2> QED
    BY <1>1, <2>1, <2>2 DEF Accounted, SameRow, SameWork
<1>2. \A j : Cloud(j)' = Cloud(j)
  BY DEF Cloud
<1> QED
  BY <1>1, <1>2 DEF Booted

\* A step seen job by job: those left alone, and those the step is about.
LEMMA Assembled ==
  ASSUME TypeOK, TypeOK', SafetyInv, Control', Grows, up' => up, Reconciled' => Reconciled,
         poisoned => poisoned', ~poisoned' => SameLedger(mem', disk'),
         \A j \in todo' : j \in todo /\ proof'[j] = proof[j],
         \A j \in Job :
           /\ up' => Steady(j)
           /\ \/ Untouched(j)
              \/ /\ JobInv(j)' /\ (Cloud(j) \/ Accounted(j)')
                 /\ ~Cloud(j) /\ store'[j] = "intent" =>
                      Run(j)' # Nil \/ (store[j] = "intent" /\ Run(j) = Nil)
  PROVE  SafetyInv'
<1>1. JobsOK'
  BY JobsKept DEF SafetyInv
<1>2. Booted'
  BY BootedKept DEF SafetyInv, Untouched
<1>3. \A j \in Job : ~Cloud(j) /\ store'[j] = "intent" =>
        Run(j)' # Nil \/ (store[j] = "intent" /\ Run(j) = Nil)
  BY DEF Untouched, SameRow, SameWork
<1>4. \A j \in todo' : j \in Job
  BY DEF TypeOK
<1>5. CopiesAgree'
  BY <1>3, <1>4, CopiesKept DEF SafetyInv
<1> QED
  BY <1>1, <1>2, <1>5 DEF SafetyInv

\* A step that leaves the journal alone and is about the jobs in K.
LEMMA QueueStep ==
  ASSUME TypeOK, TypeOK', SafetyInv, Control', UNCHANGED coordinator, up' => up,
         Reconciled' => Reconciled, issued <= issued', decided \subseteq decided',
         marks \subseteq marks', \A j \in todo' : j \in todo /\ proof'[j] = proof[j],
         NEW K \in SUBSET Job, \A j \in Job \ K : SameRow(j) /\ SameWork(j),
         \A k \in K : /\ JobInv(k)' /\ (Cloud(k) \/ Accounted(k)')
                      /\ ~Cloud(k) /\ store'[k] = "intent" =>
                           Run(k)' # Nil \/ (store[k] = "intent" /\ Run(k) = Nil)
  PROVE  SafetyInv'
<1>1. mem' = mem /\ disk' = disk /\ poisoned' = poisoned
  BY DEF coordinator
<1>2. Grows
  BY <1>1 DEF Grows, TypeOK, Document
<1>3. ~poisoned' => SameLedger(mem', disk')
  BY <1>1 DEF SafetyInv, CopiesAgree
<1>4. \A j \in Job : SameView(j) /\ Steady(j)
  BY <1>1 DEF SameView, Steady
<1> QED
  BY <1>1, <1>2, <1>3, <1>4, Assembled DEF Untouched

-----------------------------------------------------------------------------
(* Steps of the server, the queue and the engine that leave the journal    *)
(* alone.                                                                  *)

\* A new offer.
LEMMA IssueOfferKeeps ==
  ASSUME TypeOK, TypeOK', Inductive, SafetyInv, NEW j \in Job, IssueOffer(j)
  PROVE  SafetyInv'
<1>1. /\ UNCHANGED coordinator /\ UNCHANGED exec /\ UNCHANGED worker /\ UNCHANGED calls
      /\ UNCHANGED <<decided, marks, store, proof, todo, up, booting, phase>> /\ issued' = issued + 1
      /\ offers' = offers \cup {[job |-> j, id |-> issued', gen |-> issued']} /\ Cloud(j)
  BY DEF IssueOffer, queue, history
<1>2. Control'
  BY <1>1 DEF SafetyInv, Control, TypeOK, coordinator, Cloud
<1> DEFINE K == {}
<1>3. K \in SUBSET Job /\ \A i \in Job \ K : SameRow(i) /\ SameWork(i)
  BY <1>1, NoExec, NoErrand, NoCalls DEF SameRow, SameWork
<1>4. Reconciled' => Reconciled
  BY <1>1 DEF Reconciled
<1>5. issued <= issued'
  BY <1>1 DEF TypeOK
<1>6. \A k \in K : FALSE
  OBVIOUS
<1>7. UNCHANGED coordinator /\ up' = up /\ decided' = decided /\ marks' = marks
      /\ \A i \in todo' : i \in todo /\ proof'[i] = proof[i]
  BY <1>1
<1> HIDE DEF K
<1> QED
  BY <1>2, <1>3, <1>4, <1>5, <1>6, <1>7, QueueStep

\* The connector of a job, and its work when the connector is idle.
LEMMA Owners ==
  ASSUME NEW j \in Job
  PROVE  /\ OwnerOf[j] \in Connector /\ Local \in Connector
         /\ exec[OwnerOf[j]] = Nil => Run(j) = Nil
         /\ worker[OwnerOf[j]] = Nil => ErrandOf(j) = Nil
         /\ Kind(j) = "cloud" <=> Cloud(j)
         /\ ~Cloud(j) => OwnerOf[j] = Local
         /\ Kind(j)' = Kind(j) /\ Cloud(j)' = Cloud(j)
BY JournalAssumption, HandoffAssumption DEF Run, ErrandOf, Kind, Cloud

\* A step that leaves the journal alone and is about job k.
LEMMA QueueStepOf ==
  ASSUME TypeOK, TypeOK', SafetyInv, Control', UNCHANGED coordinator, up' => up,
         Reconciled' => Reconciled, UNCHANGED <<issued, decided>>, marks \subseteq marks',
         \A j \in todo' : j \in todo /\ proof'[j] = proof[j],
         NEW k \in Job, \A j \in Job : j # k => SameRow(j) /\ SameWork(j),
         JobInv(k)', Cloud(k) \/ Accounted(k)',
         ~Cloud(k) /\ store'[k] = "intent" =>
           Run(k)' # Nil \/ (store[k] = "intent" /\ Run(k) = Nil)
  PROVE  SafetyInv'
<1> DEFINE K == {k}
<1>1. K \in SUBSET Job /\ \A i \in Job \ K : SameRow(i) /\ SameWork(i)
  OBVIOUS
<1>2. issued <= issued' /\ decided \subseteq decided'
  BY DEF TypeOK
<1>3. \A i \in K : /\ JobInv(i)' /\ (Cloud(i) \/ Accounted(i)')
                   /\ ~Cloud(i) /\ store'[i] = "intent" =>
                        Run(i)' # Nil \/ (store[i] = "intent" /\ Run(i) = Nil)
  OBVIOUS
<1> HIDE DEF K
<1> QED
  BY <1>1, <1>2, <1>3, QueueStep

\* A job that was not submitted, or is no more, owes no account.
LEMMA AccountedIdle ==
  ASSUME NEW j \in Job, store'[j] \notin {"intent", "uncertain"}, Run(j)' = Nil
  PROVE  Accounted(j)'
BY DEF Accounted

\* The journal of a job in the next state.
LEMMA SameJournal ==
  ASSUME UNCHANGED coordinator
  PROVE  \A j : /\ FencesIn(disk', j) = FencesIn(disk, j)
                /\ OutcomesIn(disk', j) = OutcomesIn(disk, j)
                /\ BarriersIn(disk', j) = BarriersIn(disk, j) /\ disk'.seq = disk.seq
BY DEF coordinator

\* A row written while nothing is under way for its job.
LEMMA RowWritten ==
  ASSUME TypeOK, NEW j \in Job, UNCHANGED <<exec, worker, calls>>,
         \A i \in Job : i # j => SameRow(i)
  PROVE  /\ \A i \in Job : i # j => SameRow(i) /\ SameWork(i)
         /\ SameWork(j)
BY NoExec, NoErrand, NoCalls DEF SameWork

\* What is known of a job before the step.
LEMMA JobFacts ==
  ASSUME TypeOK, SafetyInv, NEW j \in Job
  PROVE  /\ JobInv(j) /\ issued \in Nat /\ disk.seq \in Nat /\ proof[j] \in Nat
         /\ Run(j) # Nil => store[j] = "intent" /\ (ErrandOf(j) # Nil => Cloud(j))
<1>1. JobInv(j) /\ issued \in Nat /\ disk.seq \in Nat /\ proof[j] \in Nat
  BY DEF SafetyInv, JobsOK, TypeOK, Document
<1> QED
  BY <1>1, Owners DEF JobInv, JobOK

\* A row rewritten while its job waits.
LEMMA WaitingRow ==
  ASSUME TypeOK, TypeOK', SafetyInv, NEW j \in Job, UNCHANGED coordinator,
         UNCHANGED <<exec, worker, calls>>, UNCHANGED <<decided, marks>>,
         UNCHANGED <<todo, up, booting, phase, offers, issued>>,
         store' = [store EXCEPT ![j] = store'[j]], proof' = [proof EXCEPT ![j] = proof'[j]],
         store[j] \notin {"intent", "accepted", "uncertain"},
         store'[j] \notin {"intent", "accepted", "uncertain"},
         Cloud(j) /\ store'[j] \in {"pending", "queued"} =>
           store[j] \in {"pending", "queued"} /\ proof'[j] = proof[j],
         Run(j) = Nil, ErrandOf(j) = Nil \/ ~Cloud(j) \/ store'[j] \in Offerable
  PROVE  SafetyInv'
<1>2. \A i \in Job : i # j => SameRow(i)
  BY DEF TypeOK, SameRow
<1>3. j \notin todo
  BY DEF SafetyInv, Control
<1>4. Control'
  <2>1. todo \subseteq Job
    BY DEF TypeOK
  <2> QED
    BY <1>2, <1>3, <2>1 DEF SafetyInv, Control, coordinator, SameRow, Cloud
<1>5. Kind(j) = "cloud" <=> Cloud(j)
  BY Owners
<1>6. JobOK(FencesIn(disk, j), OutcomesIn(disk, j), BarriersIn(disk, j), Kind(j), issued, disk.seq,
            store'[j], proof'[j], Run(j), ErrandOf(j), Taken(j), Times(j), Told(j, "release"),
            Told(j, "confirm"), Marked(j))
  <2>1. JobInv(j) /\ issued \in Nat /\ disk.seq \in Nat
    BY JobFacts
  <2> QED
    BY <1>5, <2>1, JobWaits DEF JobInv
<1>7. (\A i \in Job : i # j => SameRow(i) /\ SameWork(i)) /\ SameWork(j)
  BY <1>2, RowWritten
<1>8. JobInv(j)'
  BY <1>6, <1>7, SameJournal, NoDecision, Owners DEF JobInv, SameWork
<1>9. Accounted(j)'
  BY <1>7, AccountedIdle DEF SameWork
<1>10. Reconciled' => Reconciled
  BY DEF Reconciled
<1>11. \A i \in todo' : i \in todo /\ proof'[i] = proof[i]
  <2>1. todo \subseteq Job
    BY DEF TypeOK
  <2> QED
    BY <1>2, <1>3, <2>1 DEF SameRow
<1> QED
  BY <1>2, <1>4, <1>7, <1>8, <1>9, <1>10, <1>11, QueueStepOf

\* A local submission.
LEMMA AcceptLocalJobKeeps ==
  ASSUME TypeOK, TypeOK', Inductive, SafetyInv, NEW j \in Job, AcceptLocalJob(j)
  PROVE  SafetyInv'
<1>1. /\ UNCHANGED coordinator /\ UNCHANGED <<exec, worker, calls>>
      /\ UNCHANGED <<decided, marks>> /\ UNCHANGED <<todo, up, booting, phase, offers, issued>>
      /\ store' = [store EXCEPT ![j] = "queued"] /\ UNCHANGED proof
      /\ ~Cloud(j) /\ store[j] = "absent" /\ exec[Local] = Nil
  BY DEF AcceptLocalJob, history
<1>2. store'[j] = "queued" /\ store' = [store EXCEPT ![j] = store'[j]]
      /\ proof' = [proof EXCEPT ![j] = proof'[j]]
  BY <1>1 DEF TypeOK
<1>3. Run(j) = Nil
  BY <1>1, Owners
<1> QED
  BY <1>1, <1>2, <1>3, WaitingRow

\* The server's confirmation of an acceptance, or its withdrawal.
LEMMA ResumeAcceptanceKeeps ==
  ASSUME TypeOK, TypeOK', Inductive, SafetyInv, NEW j \in Job, NEW outcome \in {"queued", "dropped"},
         ResumeAcceptance(j, outcome)
  PROVE  SafetyInv'
<1>1. /\ UNCHANGED coordinator /\ UNCHANGED <<exec, worker, calls>>
      /\ UNCHANGED <<decided, marks>> /\ UNCHANGED <<todo, up, booting, phase, offers, issued>>
      /\ store' = [store EXCEPT ![j] = outcome]
      /\ proof' = IF outcome = "dropped" THEN [proof EXCEPT ![j] = 0] ELSE proof
      /\ store[j] = "pending" /\ worker[OwnerOf[j]] = Nil
  BY DEF ResumeAcceptance, history
<1>2. store'[j] = outcome /\ store' = [store EXCEPT ![j] = store'[j]]
      /\ proof' = [proof EXCEPT ![j] = proof'[j]] /\ (outcome = "queued" => proof'[j] = proof[j])
  BY <1>1 DEF TypeOK
<1>3. Run(j) = Nil /\ ErrandOf(j) = Nil
  BY <1>1, Owners, JobFacts
<1> QED
  BY <1>1, <1>2, <1>3, WaitingRow

\* A job given up before the coordinator is asked.
LEMMA DropBeforeHandoffKeeps ==
  ASSUME TypeOK, TypeOK', Inductive, SafetyInv, NEW j \in Job, DropBeforeHandoff(j)
  PROVE  SafetyInv'
<1>1. /\ UNCHANGED coordinator /\ UNCHANGED <<exec, worker, calls>>
      /\ UNCHANGED <<decided, marks>> /\ UNCHANGED <<todo, up, booting, phase, offers, issued>>
      /\ UNCHANGED proof /\ store[j] \in {"queued", "retry"}
  BY DEF DropBeforeHandoff, history
<1>2. PICK gone \in {"failed", "dropped"} : store' = [store EXCEPT ![j] = gone]
  BY DEF DropBeforeHandoff
<1>3. store'[j] = gone /\ store' = [store EXCEPT ![j] = store'[j]]
      /\ proof' = [proof EXCEPT ![j] = proof'[j]]
  BY <1>1, <1>2 DEF TypeOK
<1>4. Run(j) = Nil
  BY <1>1, JobFacts
<1> QED
  BY <1>1, <1>3, <1>4, WaitingRow DEF Offerable

\* A submission begins with its durable intent.
LEMMA BeginExecutionKeeps ==
  ASSUME TypeOK, TypeOK', Inductive, SafetyInv, NEW j \in Job, BeginExecution(j)
  PROVE  SafetyInv'
<1> DEFINE c == OwnerOf[j]
           e == [job |-> j, step |-> "intent"]
<1>1. /\ UNCHANGED coordinator /\ UNCHANGED <<worker, calls>>
      /\ UNCHANGED <<decided, marks>> /\ UNCHANGED <<todo, up, booting, phase, offers, issued>>
      /\ UNCHANGED proof /\ (store[j] = "queued" \/ (store[j] = "retry" /\ ~Cloud(j)))
      /\ store' = [store EXCEPT ![j] = "intent"] /\ exec' = [exec EXCEPT ![c] = e]
      /\ up /\ phase[c] = "run" /\ exec[c] = Nil /\ (c = Local => worker[c] = Nil)
  BY DEF BeginExecution, history, Idle, Working
<1>2. store'[j] = "intent" /\ \A i \in Job : i # j => SameRow(i)
  BY <1>1 DEF TypeOK, SameRow
<1>3. j \notin todo /\ todo \subseteq Job
  BY <1>1 DEF SafetyInv, Control, TypeOK
<1>4. c \in Connector /\ Local \in Connector /\ e # Nil /\ e.job = j /\ e.step = "intent"
  <2>1. e \in Submission
    BY DEF Submission
  <2> QED
    BY <2>1, Owners, RecordAssumption
<1>5. exec'[c] = e /\ \A d \in Connector : d # c => exec'[d] = exec[d]
  BY <1>1, <1>4 DEF TypeOK
<1> HIDE DEF e
<1>6. Control'
  BY <1>1, <1>2, <1>3, <1>4, <1>5 DEF SafetyInv, Control, coordinator, SameRow, Cloud
<1>7. Run(j) = Nil /\ Run(j)' = e /\ \A i \in Job : i # j => Run(i)' = Run(i)
  BY <1>1, <1>4, ExecFrame
<1>8. \A i \in Job : /\ ErrandOf(i)' = ErrandOf(i)
                     /\ Taken(i)' = Taken(i) /\ Times(i)' = Times(i)
  BY <1>1, NoErrand, NoCalls
<1>9. ErrandOf(j) # Nil => Kind(j) = "cloud"
  BY <1>1, Owners
<1>10. JobOK(FencesIn(disk, j), OutcomesIn(disk, j), BarriersIn(disk, j), Kind(j), issued, disk.seq,
             "intent", proof[j], e, ErrandOf(j), Taken(j), Times(j), Told(j, "release"),
             Told(j, "confirm"), Marked(j))
  <2>1. JobInv(j) /\ issued \in Nat /\ disk.seq \in Nat /\ (Kind(j) = "cloud" <=> Cloud(j))
    BY JobFacts, Owners
  <2> QED
    BY <1>1, <1>4, <1>9, <2>1, JobBegins DEF JobInv
<1>11. JobInv(j)'
  BY <1>1, <1>2, <1>7, <1>8, <1>10, SameJournal, NoDecision, Owners DEF JobInv
<1>12. Accounted(j)' /\ Run(j)' # Nil
  BY <1>2, <1>4, <1>7 DEF Accounted
<1>13. Reconciled' => Reconciled
  BY <1>1 DEF Reconciled
<1>14. \A i \in todo' : i \in todo /\ proof'[i] = proof[i]
  BY <1>1
<1>15. \A i \in Job : i # j => SameRow(i) /\ SameWork(i)
  BY <1>2, <1>7, <1>8 DEF SameWork
<1> QED
  BY <1>1, <1>6, <1>11, <1>12, <1>13, <1>14, <1>15, QueueStepOf

-----------------------------------------------------------------------------
(* Steps of a submission in flight.                                        *)

\* The job of a submission in flight, and what its connector does.
LEMMA InFlight ==
  ASSUME TypeOK, SafetyInv, NEW c \in Connector, exec[c] # Nil
  PROVE  /\ exec[c] \in Submission /\ exec[c].job \in Job /\ OwnerOf[exec[c].job] = c
         /\ phase[c] = "run" /\ ~booting /\ exec[c].job \notin todo
         /\ Run(exec[c].job) = exec[c] /\ store[exec[c].job] = "intent"
<1>1. exec[c] \in Submission /\ exec[c].job \in Job
  BY ExecShape, SubmissionShape
<1>2. OwnerOf[exec[c].job] = c /\ phase[c] = "run" /\ ~booting
  BY DEF SafetyInv, Control
<1>3. Run(exec[c].job) = exec[c]
  BY <1>2 DEF Run
<1>4. exec[c].job \notin todo
  BY <1>2 DEF SafetyInv, Control
<1> QED
  BY <1>1, <1>2, <1>3, <1>4, JobFacts

\* A step of the submission, with or without a write of the journal.
LEMMA EngineStep ==
  ASSUME TypeOK, TypeOK', SafetyInv, NEW c \in Connector, exec[c] # Nil,
         NEW k, k = exec[c].job, NEW e, e # Nil, e.job = k, exec' = [exec EXCEPT ![c] = e],
         UNCHANGED <<up, booting, phase, todo, offers>>, UNCHANGED <<store, proof>>,
         UNCHANGED worker, UNCHANGED <<decided, marks>>,
         issued <= issued', disk.seq <= disk'.seq, poisoned => poisoned',
         ~poisoned' => SameLedger(mem', disk'),
         \A i \in Job : i # k =>
           /\ SameView(i) /\ (View(mem', i) = View(mem, i) \/ View(mem', i) = View(disk', i))
           /\ Taken(i)' = Taken(i) /\ Times(i)' = Times(i),
         JobInv(k)', Cloud(k) \/ Accounted(k)'
  PROVE  SafetyInv'
<1>1. /\ k \in Job /\ OwnerOf[k] = c /\ phase[c] = "run" /\ ~booting /\ k \notin todo
      /\ Run(k) = exec[c] /\ store[k] = "intent"
  BY InFlight
<1>2. exec'[c] = e /\ \A d \in Connector : d # c => exec'[d] = exec[d]
  BY DEF TypeOK
<1>3. Control'
  <2>1. todo \subseteq Job /\ Local \in Connector /\ issued \in Nat /\ issued' \in Nat
    BY HandoffAssumption DEF TypeOK
  <2>2. \A o \in offers : o.id \in Nat
    BY DEF TypeOK, Offer
  <2>3. \A q \in decided : q.id \in Nat
    BY DEF TypeOK
  <2> QED
    BY <1>1, <1>2, <2>1, <2>2, <2>3 DEF SafetyInv, Control, Cloud
<1>4. Run(k)' = e /\ \A i \in Job : i # k => Run(i)' = Run(i)
  BY <1>1, ExecFrame
<1>5. \A i \in Job : ErrandOf(i)' = ErrandOf(i)
  BY NoErrand
<1>6. \A i \in Job : i # k => Untouched(i)
  BY <1>4, <1>5 DEF Untouched, SameRow, SameWork
<1>7. \A i \in Job : Steady(i)
  BY <1>1, <1>4 DEF Steady, SameView
<1>8. Grows
  BY DEF Grows
<1>9. Reconciled' => Reconciled
  BY DEF Reconciled
<1>10. (up' => up) /\ \A j \in todo' : j \in todo /\ proof'[j] = proof[j]
  OBVIOUS
<1>11. \A i \in Job :
         /\ Steady(i)
         /\ \/ Untouched(i)
            \/ /\ JobInv(i)' /\ (Cloud(i) \/ Accounted(i)')
               /\ ~Cloud(i) /\ store'[i] = "intent" =>
                    Run(i)' # Nil \/ (store[i] = "intent" /\ Run(i) = Nil)
  BY <1>4, <1>6, <1>7
<1> QED
  BY <1>3, <1>8, <1>9, <1>10, <1>11, Assembled

\* The same when the journal is left alone.
LEMMA EngineQuiet ==
  ASSUME TypeOK, TypeOK', SafetyInv, NEW c \in Connector, exec[c] # Nil,
         NEW k, k = exec[c].job, NEW e, e # Nil, e.job = k, exec' = [exec EXCEPT ![c] = e],
         UNCHANGED <<up, booting, phase, todo, offers>>, UNCHANGED <<store, proof>>,
         UNCHANGED worker, UNCHANGED <<decided, marks>>, UNCHANGED issued,
         UNCHANGED <<mem, disk>>, poisoned => poisoned',
         \A i \in Job : i # k => Taken(i)' = Taken(i) /\ Times(i)' = Times(i),
         JobInv(k)', Cloud(k) \/ Accounted(k)'
  PROVE  SafetyInv'
<1>1. issued <= issued' /\ disk.seq <= disk'.seq
  BY DEF TypeOK, Document
<1>2. ~poisoned' => SameLedger(mem', disk')
  BY DEF SafetyInv, CopiesAgree
<1>3. \A i \in Job : SameView(i) /\ View(mem', i) = View(mem, i)
  BY DEF SameView
<1> QED
  BY <1>1, <1>2, <1>3, EngineStep

\* The condition of the job whose submission took a step that leaves the
\* journal alone.
LEMMA EngineJob ==
  ASSUME TypeOK, SafetyInv, NEW c \in Connector, exec[c] # Nil,
         NEW k, k = exec[c].job, NEW e, e # Nil, e.job = k, exec' = [exec EXCEPT ![c] = e],
         UNCHANGED <<store, proof>>, UNCHANGED worker, UNCHANGED <<decided, marks>>,
         UNCHANGED issued, UNCHANGED <<mem, disk>>,
         JobOK(FencesIn(disk, k), OutcomesIn(disk, k), BarriersIn(disk, k), Kind(k), issued,
               disk.seq, store[k], proof[k], e, ErrandOf(k), Taken(k)', Times(k)',
               Told(k, "release"), Told(k, "confirm"), Marked(k))
  PROVE  JobInv(k)' /\ Run(k)' = e
<1>1. k \in Job /\ OwnerOf[k] = c
  BY InFlight
<1>2. Run(k)' = e
  BY <1>1, ExecFrame
<1>3. ErrandOf(k)' = ErrandOf(k) /\ Kind(k)' = Kind(k)
  BY <1>1, NoErrand, Owners
<1>4. Told(k, "release")' = Told(k, "release") /\ Told(k, "confirm")' = Told(k, "confirm")
      /\ Marked(k)' = Marked(k)
  BY <1>1, NoDecision
<1> QED
  BY <1>2, <1>3, <1>4 DEF JobInv

\* A submission that still runs its course owes no account, nor does one that
\* will retry.
LEMMA AccountedRunning ==
  ASSUME NEW j \in Job, store'[j] = "intent", Run(j)' # Nil, JobInv(j)',
         Run(j)'.step # "settle" \/ Run(j)'.verdict \in {"retry", "failed", "accepted"}
  PROVE  Accounted(j)'
<1>1. TruthOK(FencesIn(disk', j), OutcomesIn(disk', j), BarriersIn(disk', j), Kind(j)', issued',
              store'[j], Run(j)', Taken(j)', Told(j, "release")', Told(j, "confirm")')
  BY DEF JobInv, JobOK
<1> QED
  BY <1>1 DEF TruthOK, Accounted

\* validate, between the reservation and the native call.
LEMMA ValidateRouteKeeps ==
  ASSUME TypeOK, TypeOK', Inductive, SafetyInv, NEW c \in Connector, ValidateRoute(c)
  PROVE  SafetyInv'
<1>1. /\ UNCHANGED <<up, booting, phase, todo, offers>> /\ UNCHANGED <<store, proof>>
      /\ UNCHANGED worker /\ UNCHANGED <<decided, marks>> /\ UNCHANGED issued
      /\ UNCHANGED <<mem, disk>> /\ poisoned' = poisoned /\ UNCHANGED calls
      /\ exec[c] # Nil /\ exec[c].step = "reserved"
  BY DEF ValidateRoute, InStep, coordinator, queue, history
<1>2. PICK k \in Job :
        /\ k = exec[c].job /\ Run(k) = exec[c] /\ exec[c] \in Submission /\ store[k] = "intent"
        /\ exec[c].handle \in Reservation
  BY <1>1, InFlight, SubmissionShape
<1>3. JobInv(k) /\ issued \in Nat /\ disk.seq \in Nat
  BY <1>2, JobFacts
<1>4. exec[c].handle \in FencesIn(disk, k) /\ NotCrossed(OutcomesIn(disk, k))
  BY <1>1, <1>2, <1>3 DEF JobInv, JobOK, RunOK
<1>5. \A i \in Job : Taken(i)' = Taken(i) /\ Times(i)' = Times(i)
  BY <1>1, NoCalls
<1>6. CASE Hold(c, "validated", exec[c].handle)
  <2>0. PICK e : e = [job |-> k, step |-> "validated", handle |-> exec[c].handle]
    OBVIOUS
  <2>1. exec' = [exec EXCEPT ![c] = e]
    BY <1>2, <1>6, <2>0 DEF Hold
  <2>2. e \in Submission
    BY <1>2, <2>0 DEF Submission
  <2>3. e # Nil /\ e.job = k /\ e.step = "validated" /\ e.handle = exec[c].handle
    BY <2>0, <2>2, RecordAssumption
  <2>4. JobOK(FencesIn(disk, k), OutcomesIn(disk, k), BarriersIn(disk, k), Kind(k), issued,
              disk.seq, store[k], proof[k], e, ErrandOf(k), Taken(k), Times(k),
              Told(k, "release"), Told(k, "confirm"), Marked(k))
    BY <1>1, <1>2, <1>3, <1>4, <2>3, JobHolds DEF JobInv
  <2>5. JobInv(k)' /\ Run(k)' = e
    BY <1>1, <1>2, <1>5, <2>1, <2>3, <2>4, EngineJob
  <2>6. Accounted(k)'
    BY <1>1, <1>2, <2>3, <2>5, AccountedRunning
  <2> QED
    BY <1>1, <1>2, <1>5, <2>1, <2>3, <2>5, <2>6, EngineQuiet
<1>7. CASE Settle(c, "retry")
  <2>0. PICK e : e = [job |-> k, step |-> "settle", verdict |-> "retry"]
    OBVIOUS
  <2>1. exec' = [exec EXCEPT ![c] = e]
    BY <1>2, <1>7, <2>0 DEF Settle
  <2>2. e \in Submission
    BY <1>2, <2>0 DEF Submission, StoreState
  <2>3. e # Nil /\ e.job = k /\ e.step = "settle" /\ e.verdict = "retry"
    BY <2>0, <2>2, RecordAssumption
  <2>4. JobOK(FencesIn(disk, k), OutcomesIn(disk, k), BarriersIn(disk, k), Kind(k), issued,
              disk.seq, store[k], proof[k], e, ErrandOf(k), Taken(k), Times(k),
              Told(k, "release"), Told(k, "confirm"), Marked(k))
    BY <1>1, <1>2, <1>3, <2>3, JobGivesUp DEF JobInv
  <2>5. JobInv(k)' /\ Run(k)' = e
    BY <1>1, <1>2, <1>5, <2>1, <2>3, <2>4, EngineJob
  <2>6. Accounted(k)'
    BY <1>1, <1>2, <2>3, <2>5, AccountedRunning
  <2> QED
    BY <1>1, <1>2, <1>5, <2>1, <2>3, <2>5, <2>6, EngineQuiet
<1> QED
  BY <1>6, <1>7 DEF ValidateRoute

\* What settling and holding leave in flight.
LEMMA Settled ==
  ASSUME TypeOK, NEW c \in Connector, exec[c] # Nil, NEW verdict \in StoreState, Settle(c, verdict)
  PROVE  \E e : /\ e # Nil /\ e.job = exec[c].job /\ e.step = "settle" /\ e.verdict = verdict
                /\ exec' = [exec EXCEPT ![c] = e]
<1>1. PICK e : e = [job |-> exec[c].job, step |-> "settle", verdict |-> verdict]
  OBVIOUS
<1>2. e \in Submission
  BY <1>1, ExecShape, SubmissionShape DEF Submission
<1>3. e # Nil /\ e.job = exec[c].job /\ e.step = "settle" /\ e.verdict = verdict
  BY <1>1, <1>2, RecordAssumption
<1>4. exec' = [exec EXCEPT ![c] = e]
  BY <1>1 DEF Settle
<1> QED
  BY <1>3, <1>4

\* The same of holding a reservation.
LEMMA Held ==
  ASSUME TypeOK, NEW c \in Connector, exec[c] # Nil, NEW step \in {"reserved", "validated"},
         NEW handle \in Reservation, Hold(c, step, handle)
  PROVE  \E e : /\ e # Nil /\ e.job = exec[c].job /\ e.step = step /\ e.handle = handle
                /\ exec' = [exec EXCEPT ![c] = e]
<1>1. PICK e : e = [job |-> exec[c].job, step |-> step, handle |-> handle]
  OBVIOUS
<1>2. e \in Submission
  BY <1>1, ExecShape, SubmissionShape DEF Submission
<1>3. e # Nil /\ e.job = exec[c].job /\ e.step = step /\ e.handle = handle
  BY <1>1, <1>2, RecordAssumption
<1>4. exec' = [exec EXCEPT ![c] = e]
  BY <1>1 DEF Hold
<1> QED
  BY <1>3, <1>4

\* A native call more.
LEMMA CallMade ==
  ASSUME TypeOK, NEW call \in [job : Job, id : Nat, accepts : BOOLEAN],
         calls' = Append(calls, call), NEW j \in Job
  PROVE  IF call.job = j /\ call.accepts
         THEN Taken(j)' = Taken(j) \cup {call.id} /\ Times(j)' = Times(j) + 1
         ELSE Taken(j)' = Taken(j) /\ Times(j)' = Times(j)
<1> DEFINE n == Len(calls)
           A == {i \in DOMAIN calls : calls[i].job = j /\ calls[i].accepts}
           B == {i \in DOMAIN calls' : calls'[i].job = j /\ calls'[i].accepts}
<1>1. /\ calls \in Seq([job : Job, id : Nat, accepts : BOOLEAN]) /\ n \in Nat
      /\ DOMAIN calls = 1..n /\ DOMAIN calls' = 1..(n + 1)
      /\ \A i \in 1..n : calls'[i] = calls[i]
      /\ calls'[n + 1] = call
  BY DEF TypeOK
<1>2. AcceptingCalls(j) = A /\ AcceptingCalls(j)' = B
  BY DEF AcceptingCalls
<1>3. A \subseteq 1..n /\ n + 1 \notin A
  BY <1>1
<1>4. IsFiniteSet(A)
  <2>1. IsFiniteSet(1..n)
    BY <1>1, FS_Interval
  <2> HIDE DEF A
  <2> QED
    BY <1>3, <2>1, FS_Subset
<1>5. CASE call.job = j /\ call.accepts
  <2>1. B = A \cup {n + 1}
    BY <1>1, <1>5
  <2>2. Cardinality(A \cup {n + 1}) = Cardinality(A) + 1
    BY <1>3, <1>4, FS_AddElement
  <2>3. {calls'[i].id : i \in B} = {calls[i].id : i \in A} \cup {call.id}
    BY <1>1, <1>3, <2>1
  <2> QED
    BY <1>2, <1>5, <2>1, <2>2, <2>3 DEF Taken, Times
<1>6. CASE ~(call.job = j /\ call.accepts)
  <2>1. B = A
    BY <1>1, <1>6
  <2>2. {calls'[i].id : i \in B} = {calls[i].id : i \in A}
    BY <1>1, <1>3, <2>1
  <2> QED
    BY <1>2, <1>6, <2>1, <2>2 DEF Taken, Times
<1> QED
  BY <1>5, <1>6

\* The native call.
LEMMA CallSpoolerKeeps ==
  ASSUME TypeOK, TypeOK', Inductive, SafetyInv, NEW c \in Connector, NEW accepts \in BOOLEAN,
         NEW report \in Report, CallSpooler(c, accepts, report)
  PROVE  SafetyInv'
<1>1. /\ UNCHANGED <<up, booting, phase, todo, offers>> /\ UNCHANGED <<store, proof>>
      /\ UNCHANGED worker /\ UNCHANGED <<decided, marks>> /\ UNCHANGED issued
      /\ UNCHANGED <<mem, disk>> /\ poisoned' = poisoned
      /\ exec[c] # Nil /\ exec[c].step = "validated"
  BY DEF CallSpooler, InStep, coordinator, queue
<1>2. PICK k \in Job :
        /\ k = exec[c].job /\ Run(k) = exec[c] /\ exec[c] \in Submission /\ store[k] = "intent"
        /\ exec[c].handle \in Reservation
  BY <1>1, InFlight, SubmissionShape
<1>3. JobInv(k) /\ issued \in Nat /\ disk.seq \in Nat
  BY <1>2, JobFacts
<1>4. PICK result : result = HandoffOutcome(report)
  OBVIOUS
<1>5. result \in Outcome /\ (IF accepts THEN result \in {"accepted", "ambiguous"}
                             ELSE result \in {"rejected", "ambiguous"})
  BY <1>4 DEF CallSpooler, HandoffOutcome, Outcome
<1>6. PICK e : e = [job |-> k, step |-> "called", handle |-> exec[c].handle, result |-> result]
  OBVIOUS
<1>7. e \in Submission
  BY <1>2, <1>5, <1>6 DEF Submission
<1>8. /\ e # Nil /\ e.job = k /\ e.step = "called" /\ e.handle = exec[c].handle
      /\ e.result = result
  BY <1>6, <1>7, RecordAssumption
<1>9. exec' = [exec EXCEPT ![c] = e]
  BY <1>2, <1>4, <1>6 DEF CallSpooler
<1>10. PICK call : call = [job |-> k, id |-> exec[c].handle.id, accepts |-> accepts]
  OBVIOUS
<1>11. /\ call \in [job : Job, id : Nat, accepts : BOOLEAN] /\ calls' = Append(calls, call)
       /\ call.job = k /\ call.id = exec[c].handle.id /\ call.accepts = accepts
  BY <1>2, <1>10 DEF CallSpooler, Reservation
<1>12. \A i \in Job : i # k => Taken(i)' = Taken(i) /\ Times(i)' = Times(i)
  BY <1>11, CallMade
<1>13. JobOK(FencesIn(disk, k), OutcomesIn(disk, k), BarriersIn(disk, k), Kind(k), issued,
             disk.seq, store[k], proof[k], e, ErrandOf(k), Taken(k)', Times(k)',
             Told(k, "release"), Told(k, "confirm"), Marked(k))
  <2>1. CASE accepts
    <3>1. Taken(k)' = Taken(k) \cup {Run(k).handle.id} /\ Times(k)' = Times(k) + 1
      BY <1>2, <1>11, <2>1, CallMade
    <3>2. JobOK(FencesIn(disk, k), OutcomesIn(disk, k), BarriersIn(disk, k), Kind(k), issued,
                disk.seq, store[k], proof[k], e, ErrandOf(k), Taken(k) \cup {Run(k).handle.id},
                Times(k) + 1, Told(k, "release"), Told(k, "confirm"), Marked(k))
      BY <1>1, <1>2, <1>3, <1>5, <1>8, <2>1, JobTaken DEF JobInv
    <3> QED
      BY <3>1, <3>2
  <2>2. CASE ~accepts
    <3>1. Taken(k)' = Taken(k) /\ Times(k)' = Times(k)
      BY <1>2, <1>11, <2>2, CallMade
    <3>2. JobOK(FencesIn(disk, k), OutcomesIn(disk, k), BarriersIn(disk, k), Kind(k), issued,
                disk.seq, store[k], proof[k], e, ErrandOf(k), Taken(k),
                Times(k), Told(k, "release"), Told(k, "confirm"), Marked(k))
      BY <1>1, <1>2, <1>3, <1>5, <1>8, <2>2, JobRefused DEF JobInv
    <3> QED
      BY <3>1, <3>2
  <2> QED
    BY <2>1, <2>2
<1>14. JobInv(k)' /\ Run(k)' = e
  BY <1>1, <1>2, <1>8, <1>9, <1>13, EngineJob
<1>15. Accounted(k)'
  BY <1>1, <1>2, <1>8, <1>14, AccountedRunning
<1> QED
  BY <1>1, <1>2, <1>8, <1>9, <1>12, <1>14, <1>15, EngineQuiet

\* The queue hears of the outcome.
LEMMA SettleQueueKeeps ==
  ASSUME TypeOK, TypeOK', Inductive, SafetyInv, NEW c \in Connector, SettleQueue(c)
  PROVE  SafetyInv'
<1>1. /\ UNCHANGED <<up, booting, todo, offers>> /\ UNCHANGED <<worker, calls>>
      /\ UNCHANGED <<decided, marks>> /\ UNCHANGED issued /\ UNCHANGED coordinator
      /\ exec[c] # Nil /\ exec[c].step = "settle" /\ exec' = [exec EXCEPT ![c] = Nil]
      /\ phase' = IF c = Local THEN [phase EXCEPT ![c] = "fence"] ELSE phase
  BY DEF SettleQueue, InStep, history
<1>2. PICK k \in Job :
        /\ k = exec[c].job /\ Run(k) = exec[c] /\ exec[c] \in Submission /\ store[k] = "intent"
        /\ OwnerOf[k] = c /\ phase[c] = "run" /\ ~booting /\ k \notin todo
  BY <1>1, InFlight
<1>3. /\ store' = [store EXCEPT ![k] = Run(k).verdict]
      /\ proof' = IF Run(k).verdict = "accepted" THEN [proof EXCEPT ![k] = 0] ELSE proof
  BY <1>2 DEF SettleQueue
<1>4. /\ store'[k] = Run(k).verdict
      /\ proof'[k] = IF Run(k).verdict = "accepted" THEN 0 ELSE proof[k]
      /\ \A i \in Job : i # k => SameRow(i)
  BY <1>3 DEF TypeOK, SameRow
<1>5. JobInv(k) /\ issued \in Nat /\ disk.seq \in Nat
  BY <1>2, JobFacts
<1>6. Run(k)' = Nil /\ \A i \in Job : i # k => Run(i)' = Run(i)
  BY <1>1, <1>2, ExecFrame
<1>7. \A i \in Job : /\ ErrandOf(i)' = ErrandOf(i)
                     /\ Taken(i)' = Taken(i) /\ Times(i)' = Times(i)
  BY <1>1, NoErrand, NoCalls
<1>8. JobOK(FencesIn(disk, k), OutcomesIn(disk, k), BarriersIn(disk, k), Kind(k), issued, disk.seq,
            Run(k).verdict, IF Run(k).verdict = "accepted" THEN 0 ELSE proof[k], Nil, ErrandOf(k),
            Taken(k), Times(k), Told(k, "release"), Told(k, "confirm"), Marked(k))
  BY <1>1, <1>2, <1>5, JobSettles DEF JobInv
<1>9. JobInv(k)'
  BY <1>1, <1>4, <1>6, <1>7, <1>8, SameJournal, NoDecision, Owners DEF JobInv
<1>10. exec'[c] = Nil /\ \A d \in Connector : d # c => exec'[d] = exec[d]
  BY <1>1 DEF TypeOK
<1>11. (\A d \in Connector : d # Local => phase'[d] = phase[d])
       /\ (c # Local => phase'[Local] = phase[Local])
       /\ (c = Local => phase'[Local] = "fence")
  BY <1>1, HandoffAssumption DEF TypeOK
<1>12. Control'
  <2>1. todo \subseteq Job /\ Local \in Connector /\ (\A j \in Job : OwnerOf[j] \in Connector)
        /\ up \in BOOLEAN /\ booting \in BOOLEAN
    BY HandoffAssumption, JournalAssumption DEF TypeOK
  <2>2. c = Local => worker[Local] = Nil
    BY <1>1 DEF SafetyInv, Control
  <2> QED
    BY <1>1, <1>2, <1>4, <1>10, <1>11, <2>1, <2>2
    DEF SafetyInv, Control, coordinator, SameRow, Cloud
<1>13. Reconciled' => Reconciled
  BY <1>1, <1>2 DEF Reconciled
<1>14. Cloud(k) \/ Accounted(k)'
  <2>1. Run(k).verdict # "intent"
    BY <1>1, <1>2, <1>5 DEF JobInv, JobOK, RunOK
  <2>2. CASE Reconciled /\ ~Cloud(k)
    <3>1. Accounted(k)
      BY <2>2 DEF SafetyInv, Booted
    <3> QED
      BY <1>1, <1>2, <1>4, <1>6, <1>7, <2>1, <3>1, SameJournal DEF Accounted, coordinator
  <2>3. Reconciled
    <3>1. up
      BY DEF SettleQueue, InStep
    <3> QED
      BY <1>2, <3>1 DEF Reconciled
  <2> QED
    BY <2>2, <2>3
<1>15. \A i \in todo' : i \in todo /\ proof'[i] = proof[i]
  BY <1>1, <1>2, <1>4 DEF SameRow, TypeOK
<1>16. \A i \in Job : i # k => SameRow(i) /\ SameWork(i)
  BY <1>4, <1>6, <1>7 DEF SameWork
<1>17. store'[k] # "intent"
  BY <1>1, <1>2, <1>4, <1>5 DEF JobInv, JobOK, RunOK
<1> QED
  BY <1>1, <1>9, <1>12, <1>13, <1>14, <1>15, <1>16, <1>17, QueueStepOf

\* The condition of the job whose submission took a step that may write the
\* journal.
LEMMA EngineJobWrites ==
  ASSUME TypeOK, SafetyInv, NEW c \in Connector, exec[c] # Nil,
         NEW k, k = exec[c].job, NEW e, e # Nil, e.job = k, exec' = [exec EXCEPT ![c] = e],
         UNCHANGED <<store, proof>>, UNCHANGED worker, UNCHANGED <<decided, marks>>,
         UNCHANGED calls,
         JobOK(FencesIn(disk', k), OutcomesIn(disk', k), BarriersIn(disk', k), Kind(k), issued',
               disk'.seq, store[k], proof[k], e, ErrandOf(k), Taken(k), Times(k),
               Told(k, "release"), Told(k, "confirm"), Marked(k))
  PROVE  JobInv(k)' /\ Run(k)' = e
<1>1. k \in Job /\ OwnerOf[k] = c
  BY InFlight
<1>2. Run(k)' = e
  BY <1>1, ExecFrame
<1>3. /\ ErrandOf(k)' = ErrandOf(k) /\ Kind(k)' = Kind(k)
      /\ Taken(k)' = Taken(k) /\ Times(k)' = Times(k)
  BY <1>1, NoErrand, NoCalls, Owners
<1>4. Told(k, "release")' = Told(k, "release") /\ Told(k, "confirm")' = Told(k, "confirm")
      /\ Marked(k)' = Marked(k)
  BY <1>1, NoDecision
<1> QED
  BY <1>2, <1>3, <1>4 DEF JobInv

\* A fence that reserve_inner would have found: none stands when it finds none.
LEMMA NoFence ==
  ASSUME NEW d, JournalInv(d), NEW j, Holders(d, j) = {}, ~Conflicted(d, RouteOf[j])
  PROVE  FencesIn(d, j) = {}
BY DEF JournalInv, HolderFound, Holders, FencesIn

\* A job whose outcomes are all rejections.
LEMMA CrossedNot ==
  ASSUME NEW d \in Document, NEW j, ~CrossedOrMayHaveCrossed(d, j)
  PROVE  NotCrossed(OutcomesIn(d, j))
<1>1. \A h \in d.handoffs : h.outcome \in {"accepted", "rejected", "ambiguous"}
  BY DEF Document, Handoff, Outcome
<1> QED
  BY <1>1 DEF CrossedOrMayHaveCrossed, NotCrossed, OutcomesIn

\* reserve.
LEMMA ReserveRouteKeeps ==
  ASSUME TypeOK, TypeOK', Inductive, SafetyInv, NEW c \in Connector, ReserveRoute(c)
  PROVE  SafetyInv'
<1>1. /\ UNCHANGED <<up, booting, phase, todo, offers>> /\ UNCHANGED <<store, proof>>
      /\ UNCHANGED worker /\ UNCHANGED <<decided, marks>> /\ UNCHANGED calls
      /\ exec[c] # Nil /\ exec[c].step = "intent"
  BY DEF ReserveRoute, InStep, queue, history
<1>2. PICK k \in Job :
        /\ k = exec[c].job /\ Run(k) = exec[c] /\ exec[c] \in Submission /\ store[k] = "intent"
  BY <1>1, InFlight
<1>3. JobInv(k) /\ issued \in Nat /\ disk.seq \in Nat
  BY <1>2, JobFacts
<1>4. \A i \in Job : Taken(i)' = Taken(i) /\ Times(i)' = Times(i)
  BY <1>1, NoCalls
<1>5. {"retry", "uncertain"} \subseteq StoreState
  BY DEF StoreState
<1>6. ASSUME NEW v \in {"retry", "uncertain"}, Settle(c, v), UNCHANGED coordinator, UNCHANGED issued
      PROVE  SafetyInv'
  <2>1. PICK e : /\ e # Nil /\ e.job = k /\ e.step = "settle" /\ e.verdict = v
                 /\ exec' = [exec EXCEPT ![c] = e]
    BY <1>1, <1>2, <1>5, <1>6, Settled
  <2>2. mem' = mem /\ disk' = disk /\ poisoned' = poisoned
    BY <1>6 DEF coordinator
  <2>3. JobOK(FencesIn(disk, k), OutcomesIn(disk, k), BarriersIn(disk, k), Kind(k), issued,
              disk.seq, store[k], proof[k], e, ErrandOf(k), Taken(k), Times(k),
              Told(k, "release"), Told(k, "confirm"), Marked(k))
    BY <1>1, <1>2, <1>3, <2>1, JobGivesUp DEF JobInv
  <2>4. JobInv(k)' /\ Run(k)' = e
    BY <1>1, <1>2, <1>4, <1>6, <2>1, <2>2, <2>3, EngineJob
  <2>5. Accounted(k)'
    <3>1. \A r \in FencesIn(disk, k) : r.id \notin Taken(k)
      BY <1>1, <1>2, <1>3 DEF JobInv, JobOK, TruthOK
    <3> QED
      BY <1>1, <1>2, <1>4, <2>1, <2>2, <2>4, <3>1 DEF Accounted
  <2> QED
    BY <1>1, <1>2, <1>4, <1>6, <2>1, <2>2, <2>4, <2>5, EngineQuiet
<1>7. ASSUME ~poisoned, NEW next \in Document, NEW e, e # Nil, e.job = k,
             exec' = [exec EXCEPT ![c] = e], Written(next), issued <= issued',
             next.seq = mem.seq, \A i \in Job : i # k => View(next, i) = View(mem, i),
             e.step = "reserved" \/ (e.step = "settle" /\ e.verdict = "retry"),
             JobOK(FencesIn(disk', k), OutcomesIn(disk', k), BarriersIn(disk', k), Kind(k), issued',
                   disk'.seq, store[k], proof[k], e, ErrandOf(k), Taken(k), Times(k),
                   Told(k, "release"), Told(k, "confirm"), Marked(k))
      PROVE  SafetyInv'
  <2>1. SameLedger(mem, disk) /\ \A i : View(mem, i) = View(disk, i)
    BY <1>7, InStep0 DEF SafetyInv
  <2>2. disk.seq <= disk'.seq
    BY <1>7, <2>1, <1>3 DEF SameLedger, Written
  <2>3. ~poisoned' => SameLedger(mem', disk')
    BY <1>7 DEF Written, SameLedger
  <2>4. \A i \in Job : i # k => SameView(i) /\ View(mem', i) = View(disk', i)
    BY <1>7, <2>1, WrittenView DEF SameView
  <2>5. JobInv(k)' /\ Run(k)' = e
    BY <1>1, <1>2, <1>7, EngineJobWrites
  <2>6. Accounted(k)'
    BY <1>1, <1>2, <1>7, <2>5, AccountedRunning
  <2> QED
    BY <1>1, <1>2, <1>4, <1>7, <2>2, <2>3, <2>4, <2>5, <2>6, EngineStep
<1>8. CASE ~poisoned /\ CrossedOrMayHaveCrossed(mem, k) /\ Settle(c, "uncertain")
           /\ UNCHANGED <<coordinator, faults, issued>>
  BY <1>6, <1>8
<1>9. CASE Settle(c, "retry") /\ UNCHANGED <<coordinator, faults, issued>>
  BY <1>6, <1>9
<1>10. CASE /\ ~poisoned /\ CanReuse(mem, k) /\ UNCHANGED issued
            /\ \E fault \in FaultChoice :
                 LET w == Committed(mem, mem, disk, fault) IN
                 /\ Apply(w)
                 /\ IF w.ok THEN \E r \in OwnHolder(mem, k) : Hold(c, "reserved", r)
                            ELSE Settle(c, "retry")
  <2>1. SameLedger(mem, disk) /\ \A i : View(mem, i) = View(disk, i)
    BY <1>10, InStep0 DEF SafetyInv
  <2>2. Written(mem) /\ (Settle(c, "retry") \/ \E r \in OwnHolder(mem, k) : Hold(c, "reserved", r))
    BY <1>10, WriteLeaves
  <2>3. View(disk', k) = View(disk, k) /\ disk'.seq = disk.seq
    BY <2>1, <2>2, WrittenView DEF Written, SameLedger
  <2>4. /\ FencesIn(disk', k) = FencesIn(disk, k) /\ OutcomesIn(disk', k) = OutcomesIn(disk, k)
        /\ BarriersIn(disk', k) = BarriersIn(disk, k)
    BY <2>3, ViewParts
  <2>5. mem \in Document /\ issued <= issued' /\ issued' = issued
    BY <1>10 DEF TypeOK
  <2>6. CASE Settle(c, "retry")
    <3>1. PICK e : /\ e # Nil /\ e.job = k /\ e.step = "settle" /\ e.verdict = "retry"
                   /\ exec' = [exec EXCEPT ![c] = e]
      BY <1>1, <1>2, <1>5, <2>6, Settled
    <3>2. JobOK(FencesIn(disk, k), OutcomesIn(disk, k), BarriersIn(disk, k), Kind(k), issued,
                disk.seq, store[k], proof[k], e, ErrandOf(k), Taken(k), Times(k),
                Told(k, "release"), Told(k, "confirm"), Marked(k))
      BY <1>1, <1>2, <1>3, <3>1, JobGivesUp DEF JobInv
    <3>3. JobOK(FencesIn(disk', k), OutcomesIn(disk', k), BarriersIn(disk', k), Kind(k), issued',
                disk'.seq, store[k], proof[k], e, ErrandOf(k), Taken(k), Times(k),
                Told(k, "release"), Told(k, "confirm"), Marked(k))
      BY <2>3, <2>4, <2>5, <3>2
    <3> QED
      BY <1>7, <1>10, <2>2, <2>5, <3>1, <3>3
  <2>7. CASE \E r \in OwnHolder(mem, k) : Hold(c, "reserved", r)
    <3>1. PICK r \in OwnHolder(mem, k) : Hold(c, "reserved", r)
      BY <2>7
    <3>2. r \in FencesIn(mem, k) /\ r \in Reservation
      BY <2>5 DEF OwnHolder, Holders, FencesIn, Document
    <3>3. FencesIn(mem, k) = FencesIn(disk, k) /\ OutcomesIn(mem, k) = OutcomesIn(disk, k)
      BY <2>1, ViewParts
    <3>4. NotCrossed(OutcomesIn(disk, k))
      BY <1>10, <2>5, <3>3, CrossedNot DEF CanReuse
    <3>5. PICK e : /\ e # Nil /\ e.job = k /\ e.step = "reserved" /\ e.handle = r
                   /\ exec' = [exec EXCEPT ![c] = e]
      BY <1>1, <1>2, <3>1, <3>2, Held
    <3>6. JobOK(FencesIn(disk, k), OutcomesIn(disk, k), BarriersIn(disk, k), Kind(k), issued,
                disk.seq, store[k], proof[k], e, ErrandOf(k), Taken(k), Times(k),
                Told(k, "release"), Told(k, "confirm"), Marked(k))
      BY <1>1, <1>2, <1>3, <3>2, <3>3, <3>4, <3>5, JobHolds DEF JobInv
    <3>7. JobOK(FencesIn(disk', k), OutcomesIn(disk', k), BarriersIn(disk', k), Kind(k), issued',
                disk'.seq, store[k], proof[k], e, ErrandOf(k), Taken(k), Times(k),
                Told(k, "release"), Told(k, "confirm"), Marked(k))
      BY <2>3, <2>4, <2>5, <3>6
    <3> QED
      BY <1>7, <1>10, <2>2, <2>5, <3>5, <3>7
  <2> QED
    BY <2>2, <2>6, <2>7
<1>11. CASE /\ ~poisoned /\ CanReserve(mem, k) /\ issued' = issued + 1
            /\ \E fault \in FaultChoice :
                 LET w == Committed(mem, Reserve(mem, k, issued + 1), disk, fault) IN
                 /\ Apply(w)
                 /\ IF w.ok THEN Hold(c, "reserved", LocalReservation(mem, k, issued + 1))
                            ELSE Settle(c, "retry")
  <2>1. SameLedger(mem, disk) /\ \A i : View(mem, i) = View(disk, i)
    BY <1>11, InStep0 DEF SafetyInv
  <2>2. PICK next : next = Reserve(mem, k, issued + 1)
    OBVIOUS
  <2>3. PICK r : r = LocalReservation(mem, k, issued + 1)
    OBVIOUS
  <2>4. Written(next) /\ (Settle(c, "retry") \/ (disk' = next /\ Hold(c, "reserved", r)))
    BY <1>11, <2>2, <2>3, WriteLeaves DEF WriteSucceeded
  <2>5. mem \in Document /\ next \in Document /\ r \in Reservation
    <3>1. mem \in Document /\ issued + 1 \in Nat
      BY <1>3 DEF TypeOK
    <3>2. next \in Document
      BY <1>11, <2>2, <3>1, ReserveKeeps DEF Inductive
    <3>3. r \in Reservation
      BY <1>11, <2>3, <3>1, ReserveKeeps DEF Inductive
    <3> QED
      BY <3>1, <3>2, <3>3
  <2>6. r.job = k /\ r.id = issued + 1 /\ ~r.cloud
    BY <2>3 DEF LocalReservation
  <2>7. /\ next.seq = mem.seq /\ next.reservations = mem.reservations \cup {r}
        /\ next.handoffs = mem.handoffs /\ next.consumed = mem.consumed
    BY <2>2, <2>3, <2>5 DEF Reserve, Document
  <2>8. /\ FencesIn(next, k) = FencesIn(mem, k) \cup {r}
        /\ OutcomesIn(next, k) = OutcomesIn(mem, k) /\ BarriersIn(next, k) = BarriersIn(mem, k)
        /\ \A i : i # k => View(next, i) = View(mem, i)
    BY <2>5, <2>6, <2>7, ViewFence
  <2>9. FencesIn(mem, k) = {}
    BY <1>11, NoFence DEF CanReserve, Inductive
  <2>10. FencesIn(mem, k) = FencesIn(disk, k) /\ OutcomesIn(mem, k) = OutcomesIn(disk, k)
         /\ BarriersIn(mem, k) = BarriersIn(disk, k) /\ disk.seq = mem.seq
    BY <2>1, ViewParts DEF SameLedger
  <2>11. Kind(k) # "cloud"
    BY <1>1, <1>2, <1>3, <2>9, <2>10 DEF JobInv, JobOK, RunOK
  <2>12. JobOK(FencesIn(next, k), OutcomesIn(next, k), BarriersIn(next, k), Kind(k), issued + 1,
               next.seq, store[k], proof[k], Run(k), ErrandOf(k), Taken(k), Times(k),
               Told(k, "release"), Told(k, "confirm"), Marked(k))
    <3>1. JobOK({r}, OutcomesIn(disk, k), BarriersIn(disk, k), Kind(k), issued + 1,
                disk.seq, store[k], proof[k], Run(k), ErrandOf(k), Taken(k), Times(k),
                Told(k, "release"), Told(k, "confirm"), Marked(k))
      BY <1>1, <1>2, <1>3, <2>5, <2>6, <2>9, <2>10, <2>11, JobFenced DEF JobInv
    <3>2. FencesIn(next, k) = {r}
      BY <2>8, <2>9
    <3> QED
      BY <2>7, <2>8, <2>10, <3>1, <3>2
  <2>13. JobOK(FencesIn(disk', k), OutcomesIn(disk', k), BarriersIn(disk', k), Kind(k), issued + 1,
               disk'.seq, store[k], proof[k], Run(k), ErrandOf(k), Taken(k), Times(k),
               Told(k, "release"), Told(k, "confirm"), Marked(k))
    <3>1. CASE disk' = next
      BY <2>12, <3>1
    <3>2. CASE disk' = disk
      <4>1. issued + 1 \in Nat /\ issued <= issued + 1 /\ disk.seq <= disk.seq
        BY <1>3
      <4>2. IsFiniteSet(Marked(k))
        BY <1>3 DEF JobInv, JobOK, CountOK
      <4> QED
        BY <1>3, <3>2, <4>1, <4>2, JobLater DEF JobInv
    <3> QED
      BY <2>4, <3>1, <3>2 DEF Written
  <2>14. issued + 1 \in Nat /\ disk'.seq \in Nat /\ issued <= issued'
    BY <1>3, <1>11, <2>4, <2>7, <2>10 DEF Written
  <2>15. CASE Settle(c, "retry")
    <3>1. PICK e : /\ e # Nil /\ e.job = k /\ e.step = "settle" /\ e.verdict = "retry"
                   /\ exec' = [exec EXCEPT ![c] = e]
      BY <1>1, <1>2, <1>5, <2>15, Settled
    <3>2. JobOK(FencesIn(disk', k), OutcomesIn(disk', k), BarriersIn(disk', k), Kind(k), issued',
                disk'.seq, store[k], proof[k], e, ErrandOf(k), Taken(k), Times(k),
                Told(k, "release"), Told(k, "confirm"), Marked(k))
      BY <1>1, <1>2, <1>11, <2>13, <2>14, <3>1, JobGivesUp
    <3> QED
      BY <1>7, <1>11, <2>4, <2>5, <2>7, <2>8, <2>14, <3>1, <3>2
  <2>16. CASE disk' = next /\ Hold(c, "reserved", r)
    <3>1. PICK e : /\ e # Nil /\ e.job = k /\ e.step = "reserved" /\ e.handle = r
                   /\ exec' = [exec EXCEPT ![c] = e]
      BY <1>1, <1>2, <2>5, <2>16, Held
    <3>2. NotCrossed(OutcomesIn(disk', k)) /\ r \in FencesIn(disk', k)
      BY <1>11, <2>5, <2>8, <2>16, CrossedNot DEF CanReserve
    <3>3. JobOK(FencesIn(disk', k), OutcomesIn(disk', k), BarriersIn(disk', k), Kind(k), issued',
                disk'.seq, store[k], proof[k], e, ErrandOf(k), Taken(k), Times(k),
                Told(k, "release"), Told(k, "confirm"), Marked(k))
      BY <1>1, <1>2, <1>11, <2>13, <2>14, <3>1, <3>2, JobHolds
    <3> QED
      BY <1>7, <1>11, <2>4, <2>5, <2>7, <2>8, <2>14, <3>1, <3>3
  <2> QED
    BY <2>4, <2>15, <2>16
<1> QED
  <2>1. k = exec[c].job
    BY <1>2
  <2> QED
    BY <2>1, <1>8, <1>9, <1>10, <1>11 DEF ReserveRoute

\* finish_runtime: the outcome is journaled, or the coordinator fails and the
\* file holds it or not.
LEMMA FinishLeaves ==
  ASSUME TypeOK, CopiesAgree, NEW c \in Connector, FinishSubmission(c), ~poisoned,
         CanFinish(mem, exec[c].handle, exec[c].result), exec[c].result \in Outcome,
         NEW next, next = Finish(mem, exec[c].handle, exec[c].result, exec[c].result = "accepted")
  PROVE  \E v \in StoreState :
           /\ Settle(c, v) /\ (mem' = disk' \/ mem' = mem)
           /\ \/ WriteSucceeded(next) /\ v \in Verdicts(exec[c].result)
              \/ /\ poisoned' = TRUE /\ (disk' = next \/ SameLedger(disk', disk))
                 /\ v = (IF exec[c].result = "rejected" THEN "failed" ELSE "uncertain")
<1> DEFINE lost == IF exec[c].result = "rejected" THEN "failed" ELSE "uncertain"
<1>1. PICK fault \in FaultChoice :
        LET w == Committed(mem, next, disk, fault) IN
        IF w.ok THEN Apply(w) /\ \E v \in Verdicts(exec[c].result) : Settle(c, v)
        ELSE IF w.poisoned THEN Apply([w EXCEPT !.poisoned = TRUE]) /\ Settle(c, lost)
        ELSE \E again \in Fault :
               LET w2 == Committed(w.mem, next, w.disk, again) IN
               IF w2.ok THEN Apply(w2) /\ \E v \in Verdicts(exec[c].result) : Settle(c, v)
               ELSE Apply([w2 EXCEPT !.poisoned = TRUE]) /\ Settle(c, lost)
  <2>1. (IF faults + 1 < MaxFaults THEN Fault ELSE {"none"}) \subseteq Fault
    BY DEF Fault
  <2> QED
    BY <2>1 DEF FinishSubmission
<1>2. SameLedger(mem, disk)
  BY DEF CopiesAgree
<1>3. lost \in StoreState /\ Verdicts(exec[c].result) \subseteq StoreState
  BY DEF StoreState, Verdicts, Outcome
<1> HIDE DEF lost
<1>4. fault \in Fault
  BY FaultChoiceType
<1>5. PICK w : w = Committed(mem, next, disk, fault)
  OBVIOUS
<1>6. /\ w.ok => w.mem = next /\ w.disk = next /\ w.poisoned = FALSE
      /\ w.disk \in {next, disk} /\ w.mem \in {w.disk, mem}
      /\ ~w.ok /\ ~w.poisoned => w.mem = mem /\ w.disk = mem
      /\ [w EXCEPT !.poisoned = TRUE].mem = w.mem
      /\ [w EXCEPT !.poisoned = TRUE].disk = w.disk
      /\ [w EXCEPT !.poisoned = TRUE].poisoned = TRUE
  <2>1. CASE fault = "none"
    BY <1>5, <2>1 DEF Committed
  <2>2. CASE fault \in {"before", "after"}
    BY <1>5, <2>2 DEF Committed
  <2>3. CASE fault \in {"unreadable_before", "unreadable_after"}
    BY <1>5, <2>3 DEF Committed
  <2> QED
    BY <1>4, <2>1, <2>2, <2>3 DEF Fault
<1>7. CASE w.ok
  <2>1. Apply(w) /\ \E v \in Verdicts(exec[c].result) : Settle(c, v)
    BY <1>1, <1>5, <1>7
  <2>2. mem' = next /\ disk' = next /\ poisoned' = FALSE
    BY <1>6, <1>7, <2>1 DEF Apply
  <2> QED
    BY <1>3, <2>1, <2>2 DEF WriteSucceeded
<1>8. CASE ~w.ok /\ w.poisoned
  <2>1. Apply([w EXCEPT !.poisoned = TRUE]) /\ Settle(c, lost)
    BY <1>1, <1>5, <1>8
  <2>2. mem' = w.mem /\ disk' = w.disk /\ poisoned' = TRUE
    BY <1>6, <2>1 DEF Apply
  <2>3. SameLedger(disk, disk)
    BY DEF SameLedger
  <2> QED
    BY <1>3, <1>6, <2>1, <2>2, <2>3 DEF lost
<1>9. CASE ~w.ok /\ ~w.poisoned
  <2>1. w.mem = mem /\ w.disk = mem
    BY <1>6, <1>9
  <2>2. PICK again \in Fault :
          LET w2 == Committed(mem, next, mem, again) IN
          IF w2.ok THEN Apply(w2) /\ \E v \in Verdicts(exec[c].result) : Settle(c, v)
          ELSE Apply([w2 EXCEPT !.poisoned = TRUE]) /\ Settle(c, lost)
    BY <1>1, <1>5, <1>9, <2>1
  <2>3. PICK w2 : w2 = Committed(mem, next, mem, again)
    OBVIOUS
  <2>4. /\ w2.ok => w2.mem = next /\ w2.disk = next /\ w2.poisoned = FALSE
        /\ w2.disk \in {next, mem} /\ w2.mem \in {w2.disk, mem}
        /\ [w2 EXCEPT !.poisoned = TRUE].mem = w2.mem
        /\ [w2 EXCEPT !.poisoned = TRUE].disk = w2.disk
        /\ [w2 EXCEPT !.poisoned = TRUE].poisoned = TRUE
    <3>1. CASE again = "none"
      BY <2>3, <3>1 DEF Committed
    <3>2. CASE again \in {"before", "after"}
      BY <2>3, <3>2 DEF Committed
    <3>3. CASE again \in {"unreadable_before", "unreadable_after"}
      BY <2>3, <3>3 DEF Committed
    <3> QED
      BY <3>1, <3>2, <3>3 DEF Fault
  <2>5. CASE w2.ok
    <3>1. Apply(w2) /\ \E v \in Verdicts(exec[c].result) : Settle(c, v)
      BY <2>2, <2>3, <2>5
    <3>2. mem' = next /\ disk' = next /\ poisoned' = FALSE
      BY <2>4, <2>5, <3>1 DEF Apply
    <3> QED
      BY <1>3, <3>1, <3>2 DEF WriteSucceeded
  <2>6. CASE ~w2.ok
    <3>1. Apply([w2 EXCEPT !.poisoned = TRUE]) /\ Settle(c, lost)
      BY <2>2, <2>3, <2>6
    <3>2. mem' = w2.mem /\ disk' = w2.disk /\ poisoned' = TRUE
      BY <2>4, <3>1 DEF Apply
    <3> QED
      BY <1>2, <1>3, <2>4, <3>1, <3>2 DEF lost
  <2> QED
    BY <2>5, <2>6
<1> QED
  BY <1>7, <1>8, <1>9

\* finish.
LEMMA FinishSubmissionKeeps ==
  ASSUME TypeOK, TypeOK', Inductive, SafetyInv, NEW c \in Connector, FinishSubmission(c)
  PROVE  SafetyInv'
<1>1. /\ UNCHANGED <<up, booting, phase, todo, offers>> /\ UNCHANGED <<store, proof>>
      /\ UNCHANGED worker /\ UNCHANGED <<decided, marks>> /\ UNCHANGED calls /\ UNCHANGED issued
      /\ exec[c] # Nil /\ exec[c].step = "called"
  BY DEF FinishSubmission, InStep, queue, history
<1>2. PICK k \in Job :
        /\ k = exec[c].job /\ Run(k) = exec[c] /\ exec[c] \in Submission /\ store[k] = "intent"
        /\ exec[c].handle \in Reservation /\ exec[c].result \in Outcome
  BY <1>1, InFlight, SubmissionShape
<1>3. JobInv(k) /\ issued \in Nat /\ disk.seq \in Nat
  BY <1>2, JobFacts
<1>4. \A i \in Job : Taken(i)' = Taken(i) /\ Times(i)' = Times(i)
  BY <1>1, NoCalls
<1>5. PICK lost : lost = IF exec[c].result = "rejected" THEN "failed" ELSE "uncertain"
  OBVIOUS
<1>6. lost \in StoreState /\ CopiesAgree
  BY <1>5 DEF StoreState, SafetyInv
\* The journal does not hold the outcome.
<1>7. ASSUME poisoned' = TRUE, Settle(c, lost), SameLedger(disk', disk), mem' = disk' \/ mem' = mem
      PROVE  SafetyInv'
  <2>1. PICK e : /\ e # Nil /\ e.job = k /\ e.step = "settle" /\ e.verdict = lost
                 /\ exec' = [exec EXCEPT ![c] = e]
    BY <1>1, <1>2, <1>6, <1>7, Settled
  <2>2. \A i : View(disk', i) = View(disk, i)
    BY <1>7, SameViews
  <2>3. /\ FencesIn(disk', k) = FencesIn(disk, k) /\ OutcomesIn(disk', k) = OutcomesIn(disk, k)
        /\ BarriersIn(disk', k) = BarriersIn(disk, k) /\ disk'.seq = disk.seq
    BY <1>7, <2>2, ViewParts DEF SameLedger
  <2>4. JobOK(FencesIn(disk, k), OutcomesIn(disk, k), BarriersIn(disk, k), Kind(k), issued,
              disk.seq, store[k], proof[k], e, ErrandOf(k), Taken(k), Times(k),
              Told(k, "release"), Told(k, "confirm"), Marked(k))
    BY <1>1, <1>2, <1>3, <1>5, <2>1, JobLost DEF JobInv
  <2>5. JobOK(FencesIn(disk', k), OutcomesIn(disk', k), BarriersIn(disk', k), Kind(k), issued',
              disk'.seq, store[k], proof[k], e, ErrandOf(k), Taken(k), Times(k),
              Told(k, "release"), Told(k, "confirm"), Marked(k))
    BY <1>1, <2>3, <2>4
  <2>6. JobInv(k)' /\ Run(k)' = e
    BY <1>1, <1>2, <2>1, <2>5, EngineJobWrites
  <2>7. Accounted(k)'
    BY <1>1, <1>2, <1>7, <2>1, <2>6 DEF Accounted
  <2>8. issued <= issued' /\ disk.seq <= disk'.seq
    BY <1>1, <1>3, <2>3
  <2>9. \A i \in Job : SameView(i) /\ (View(mem', i) = View(mem, i) \/ View(mem', i) = View(disk', i))
    BY <1>7, <2>2 DEF SameView
  <2> QED
    BY <1>1, <1>2, <1>4, <1>7, <2>1, <2>6, <2>7, <2>8, <2>9, EngineStep
\* It does.
<1>8. ASSUME ~poisoned, CanFinish(mem, exec[c].handle, exec[c].result),
             disk' = Finish(mem, exec[c].handle, exec[c].result, exec[c].result = "accepted"),
             mem' = disk' \/ mem' = mem, poisoned' = TRUE \/ mem' = disk',
             NEW v \in StoreState, Settle(c, v), v = lost \/ v \in Verdicts(exec[c].result)
      PROVE  SafetyInv'
  <2>1. PICK e : /\ e # Nil /\ e.job = k /\ e.step = "settle" /\ e.verdict = v
                 /\ exec' = [exec EXCEPT ![c] = e]
    BY <1>1, <1>2, <1>8, Settled
  <2>2. SameLedger(mem, disk) /\ \A i : View(mem, i) = View(disk, i)
    BY <1>6, <1>8, InStep0
  <2>3. FencesIn(mem, k) = FencesIn(disk, k) /\ OutcomesIn(mem, k) = OutcomesIn(disk, k)
        /\ BarriersIn(mem, k) = BarriersIn(disk, k) /\ disk.seq = mem.seq
    BY <2>2, ViewParts DEF SameLedger
  <2>4. PICK r \in FencesIn(disk, k) : r = exec[c].handle
    BY <1>1, <1>2, <1>3 DEF JobInv, JobOK, RunOK
  <2>5. /\ r \in mem.reservations /\ r.job = k /\ (r.cloud <=> Kind(k) = "cloud")
        /\ \A s \in BarriersIn(mem, k) : s.gen < r.gen
        /\ \A s \in FencesIn(disk, k) : s = r
    <3>1. r \in FencesIn(mem, k)
      BY <2>3, <2>4
    <3>2. IdsOK(FencesIn(disk, k), OutcomesIn(disk, k), BarriersIn(disk, k), Kind(k), issued)
          /\ BarrierOK(FencesIn(disk, k), OutcomesIn(disk, k), BarriersIn(disk, k), Kind(k))
          /\ FenceOK(FencesIn(disk, k), OutcomesIn(disk, k))
      BY <1>3 DEF JobInv, JobOK, LedgerOK
    <3> QED
      BY <2>3, <2>4, <3>1, <3>2 DEF IdsOK, BarrierOK, FenceOK, FencesIn
  <2>6. PICK result \in Outcome : result = exec[c].result
    BY <1>2
  <2>7. PICK h \in Handoff, s \in Consumed : JournaledAs(mem, disk', r, result, h, s)
    <3>1. \/ disk' = Finish(mem, r, result, TRUE)
          \/ disk' = Finish(mem, r, result, FALSE)
      BY <1>8, <2>4, <2>6
    <3>2. mem \in Document /\ \A s \in BarriersIn(mem, r.job) : s.gen < r.gen
      BY <2>5 DEF TypeOK
    <3> QED
      BY <2>5, <3>1, <3>2, ViewFinish
  <2>8. v \in (CASE h.outcome = "accepted" -> {"accepted", "uncertain"}
                 [] h.outcome = "ambiguous" -> {"uncertain"}
                 [] OTHER -> {"retry", "failed"})
    <3>1. CASE result = "accepted"
      BY <1>5, <1>8, <2>6, <2>7, <3>1 DEF Verdicts, JournaledAs
    <3>2. CASE result = "ambiguous"
      BY <1>5, <1>8, <2>6, <2>7, <3>2 DEF Verdicts, JournaledAs
    <3>3. CASE result = "rejected"
      BY <1>5, <1>8, <2>6, <2>7, <3>3 DEF Verdicts, JournaledAs
    <3> QED
      BY <3>1, <3>2, <3>3 DEF Outcome
  <2>9. JobOK(FencesIn(disk', k), OutcomesIn(disk, k) \cup {h}, BarriersIn(disk', k), Kind(k), issued,
              disk.seq + 1, store[k], proof[k], e, ErrandOf(k), Taken(k), Times(k),
              Told(k, "release"), Told(k, "confirm"), Marked(k))
    <3>1. FencesIn(disk', k) = (IF h.outcome = "ambiguous" THEN FencesIn(disk, k)
                                ELSE FencesIn(disk, k) \ {Run(k).handle})
      BY <1>2, <2>3, <2>4, <2>5, <2>7 DEF JournaledAs
    <3>2. BarriersIn(disk', k) = (IF h.outcome = "ambiguous" \/ Kind(k) # "cloud"
                                  THEN BarriersIn(disk, k) ELSE {s})
      BY <2>3, <2>5, <2>7 DEF JournaledAs
    <3>3. /\ h.id = Run(k).handle.id /\ h.gen = Run(k).handle.gen /\ h.cloud = Run(k).handle.cloud
          /\ h.seq = disk.seq + 1 /\ h.outcome = Run(k).result /\ s.id = Run(k).handle.id
          /\ s.gen = Run(k).handle.gen /\ s.outcome = h.outcome
      BY <1>2, <2>3, <2>4, <2>6, <2>7 DEF JournaledAs
    <3>4. Run(k) # Nil /\ Run(k).step = "called"
      BY <1>1, <1>2
    <3>5. e.verdict \in (CASE h.outcome = "accepted" -> {"accepted", "uncertain"}
                           [] h.outcome = "ambiguous" -> {"uncertain"}
                           [] OTHER -> {"retry", "failed"})
      BY <2>1, <2>8
    <3> QED
      BY <1>3, <2>1, <3>1, <3>2, <3>3, <3>4, <3>5, JobFinished DEF JobInv
  <2>10. JobOK(FencesIn(disk', k), OutcomesIn(disk', k), BarriersIn(disk', k), Kind(k), issued',
               disk'.seq, store[k], proof[k], e, ErrandOf(k), Taken(k), Times(k),
               Told(k, "release"), Told(k, "confirm"), Marked(k))
    BY <1>1, <2>3, <2>5, <2>7, <2>9 DEF JournaledAs
  <2>11. JobInv(k)' /\ Run(k)' = e
    BY <1>1, <1>2, <2>1, <2>10, EngineJobWrites
  <2>12. Accounted(k)'
    <3>1. \A q \in FencesIn(disk', k) : ~Unknown(OutcomesIn(disk', k), q.id)
      BY <2>3, <2>5, <2>7 DEF Unknown, JournaledAs
    <3> QED
      BY <3>1 DEF Accounted
  <2>13. issued <= issued' /\ disk.seq <= disk'.seq
    BY <1>1, <1>3, <2>3, <2>7 DEF JournaledAs
  <2>14. \A i \in Job : i # k =>
           SameView(i) /\ (View(mem', i) = View(mem, i) \/ View(mem', i) = View(disk', i))
    BY <1>8, <2>2, <2>5, <2>7 DEF SameView, JournaledAs
  <2>15. (poisoned => poisoned') /\ (~poisoned' => SameLedger(mem', disk'))
    BY <1>8 DEF SameLedger
  <2> QED
    BY <1>1, <1>2, <1>4, <2>1, <2>11, <2>12, <2>13, <2>14, <2>15, EngineStep
<1>9. CASE poisoned \/ ~CanFinish(mem, exec[c].handle, exec[c].result)
  <2>1. mem' = mem /\ disk' = disk /\ poisoned' = TRUE /\ Settle(c, lost)
    BY <1>5, <1>9 DEF FinishSubmission, Apply
  <2>2. SameLedger(disk', disk)
    BY <2>1 DEF SameLedger
  <2> QED
    BY <1>7, <2>1, <2>2
<1>10. CASE ~poisoned /\ CanFinish(mem, exec[c].handle, exec[c].result)
  <2>1. PICK next : next = Finish(mem, exec[c].handle, exec[c].result, exec[c].result = "accepted")
    OBVIOUS
  <2>2. PICK v \in StoreState :
          /\ Settle(c, v) /\ (mem' = disk' \/ mem' = mem)
          /\ \/ WriteSucceeded(next) /\ v \in Verdicts(exec[c].result)
             \/ /\ poisoned' = TRUE /\ (disk' = next \/ SameLedger(disk', disk)) /\ v = lost
    BY <1>2, <1>5, <1>6, <1>10, <2>1, FinishLeaves
  <2> QED
    BY <1>7, <1>8, <1>10, <2>1, <2>2 DEF WriteSucceeded
<1> QED
  BY <1>9, <1>10

-----------------------------------------------------------------------------
(* Discovery, and steps of the worker and of the reconciliations that      *)
(* leave the journal alone.                                                *)

\* A step that says nothing new of any job.
LEMMA QuietStep ==
  ASSUME TypeOK, TypeOK', SafetyInv, Control', SameLedger(disk', disk), SameLedger(mem', mem),
         poisoned' = poisoned, up' => up, Reconciled' => Reconciled,
         UNCHANGED <<store, proof, marks, exec, worker, calls, decided, issued>>, todo' \subseteq todo
  PROVE  SafetyInv'
<1>1. \A j : View(disk', j) = View(disk, j) /\ View(mem', j) = View(mem, j)
  BY SameViews
<1>2. Grows
  BY DEF Grows, SameLedger, TypeOK, Document
<1>3. ~poisoned' => SameLedger(mem', disk')
  BY DEF SafetyInv, CopiesAgree, SameLedger
<1>4. \A j \in Job : Steady(j) /\ Untouched(j)
  BY <1>1, NoExec, NoErrand, NoCalls DEF Steady, Untouched, SameView, SameRow, SameWork
<1>5. (poisoned => poisoned') /\ \A j \in todo' : j \in todo /\ proof'[j] = proof[j]
  OBVIOUS
<1> QED
  BY <1>2, <1>3, <1>4, <1>5, Assembled

\* Discovery changes routes only.
LEMMA DiscoverRoutesKeeps ==
  ASSUME TypeOK, TypeOK', Inductive, SafetyInv, NEW obs \in Observation, DiscoverRoutes(obs)
  PROVE  SafetyInv'
<1>1. /\ UNCHANGED <<store, proof, marks, exec, worker, calls, decided, issued>>
      /\ UNCHANGED <<up, booting, phase, todo, offers, poisoned>> /\ ~poisoned
      /\ mem' = Reconcile(mem, obs) /\ (disk' = disk \/ disk' = mem')
  BY DEF DiscoverRoutes, queue, history
<1>2. SameLedger(mem', mem) /\ SameLedger(mem, disk)
  BY <1>1, RoutesOnly, InStep0 DEF TypeOK, SafetyInv
<1>3. SameLedger(disk', disk)
  BY <1>1, <1>2 DEF SameLedger
<1>4. Control'
  BY <1>1 DEF SafetyInv, Control, Cloud
<1>5. Reconciled' => Reconciled
  BY <1>1 DEF Reconciled
<1> QED
  BY <1>1, <1>2, <1>3, <1>4, <1>5, QuietStep

\* A tick that finds something to reconcile.
LEMMA LocalTickKeeps ==
  ASSUME TypeOK, TypeOK', Inductive, SafetyInv, LocalTick
  PROVE  SafetyInv'
<1>1. /\ UNCHANGED <<store, proof, marks, exec, worker, calls, decided, issued>>
      /\ UNCHANGED <<up, booting, todo, offers>> /\ mem' = mem /\ disk' = disk /\ poisoned' = poisoned
      /\ up /\ phase[Local] = "run" /\ exec[Local] = Nil /\ worker[Local] = Nil
      /\ phase' = [phase EXCEPT ![Local] = "fence"]
  BY DEF LocalTick, Idle, Working, queue, history, coordinator
<1>2. SameLedger(mem', mem) /\ SameLedger(disk', disk)
  BY <1>1 DEF SameLedger
<1>3. /\ \A d \in Connector : d # Local => phase'[d] = phase[d]
      /\ phase'[Local] = "fence" /\ Local \in Connector
  BY <1>1, HandoffAssumption DEF TypeOK
<1>4. ~booting /\ todo \subseteq Job /\ \A j \in Job : OwnerOf[j] \in Connector
  BY <1>1, HandoffAssumption, JournalAssumption DEF SafetyInv, Control, TypeOK
<1>5. Control'
  BY <1>1, <1>3, <1>4 DEF SafetyInv, Control, Cloud
<1>6. Reconciled' => Reconciled
  BY <1>1 DEF Reconciled
<1> QED
  BY <1>1, <1>2, <1>5, <1>6, QuietStep

\* The process stops.
LEMMA CrashKeeps ==
  ASSUME TypeOK, TypeOK', Inductive, SafetyInv, Crash
  PROVE  SafetyInv'
<1>1. /\ UNCHANGED coordinator /\ UNCHANGED calls /\ UNCHANGED <<decided, marks>>
      /\ UNCHANGED <<booting, phase, todo, offers, issued>> /\ UNCHANGED <<store, proof>>
      /\ up' = FALSE
      /\ exec' = [c \in Connector |-> Nil] /\ worker' = [c \in Connector |-> Nil]
  BY DEF Crash, queue, history
<1>2. \A c \in Connector : exec'[c] = Nil /\ worker'[c] = Nil
  BY <1>1
<1>3. Local \in Connector /\ todo \subseteq Job /\ \A j \in Job : OwnerOf[j] \in Connector
  BY HandoffAssumption, JournalAssumption DEF TypeOK
<1>4. Control'
  BY <1>1, <1>2, <1>3 DEF SafetyInv, Control, Cloud
<1>5. ASSUME NEW j \in Job PROVE JobInv(j)'
  <2>1. JobInv(j) /\ issued \in Nat /\ disk.seq \in Nat
    BY JobFacts
  <2>2. Run(j)' = Nil /\ ErrandOf(j)' = Nil
    BY <1>2, <1>3 DEF Run, ErrandOf
  <2>3. JobOK(FencesIn(disk, j), OutcomesIn(disk, j), BarriersIn(disk, j), Kind(j), issued, disk.seq,
              store[j], proof[j], Nil, Nil, Taken(j), Times(j), Told(j, "release"),
              Told(j, "confirm"), Marked(j))
    BY <2>1, JobStops DEF JobInv
  <2> QED
    BY <1>1, <2>2, <2>3, SameJournal, NoDecision, NoCalls, Owners DEF JobInv
<1>6. Booted' /\ CopiesAgree'
  BY <1>1 DEF SafetyInv, Booted, Reconciled, CopiesAgree, coordinator
<1> QED
  BY <1>4, <1>5, <1>6 DEF SafetyInv, JobsOK

\* Local evidence is all the evidence of a local job.
LEMMA LocalEvidenceIs ==
  ASSUME TypeOK, SafetyInv, NEW j \in Job, ~Cloud(j), Agree(j)
  PROVE  /\ LocalEvidence(j) = OutcomesIn(disk, j)
         /\ OutcomesIn(disk, j) \in SUBSET Handoff /\ \A h \in OutcomesIn(disk, j) : h.seq <= disk.seq
<1>1. OutcomesIn(mem, j) = OutcomesIn(disk, j)
  BY ViewParts DEF Agree
<1>2. \A h \in OutcomesIn(disk, j) : ~h.cloud /\ h.seq <= disk.seq
  <2>1. Kind(j) # "cloud" /\ JobInv(j)
    BY Owners, JobFacts
  <2>2. IdsOK(FencesIn(disk, j), OutcomesIn(disk, j), BarriersIn(disk, j), Kind(j), issued)
        /\ SeqOK(OutcomesIn(disk, j), disk.seq)
    BY <2>1 DEF JobInv, JobOK, LedgerOK
  <2> QED
    BY <2>1, <2>2 DEF IdsOK, SeqOK
<1>3. OutcomesIn(disk, j) \in SUBSET Handoff
  BY ViewTypes DEF TypeOK, JournalTypes
<1> QED
  BY <1>1, <1>2, <1>3 DEF LocalEvidence, OutcomesIn

\* The queue adopts evidence it had not heard of.
LEMMA LocalProjectKeeps ==
  ASSUME TypeOK, TypeOK', Inductive, SafetyInv, LocalProject
  PROVE  SafetyInv'
<1>1. /\ UNCHANGED coordinator /\ UNCHANGED <<exec, worker, calls>>
      /\ UNCHANGED <<decided, marks>> /\ UNCHANGED <<todo, up, booting, offers, issued>>
      /\ UNCHANGED proof /\ up /\ phase[Local] = "project"
  BY DEF LocalProject, InPass, history
<1>2. exec[Local] = Nil /\ worker[Local] = Nil /\ Local \in Connector /\ todo \subseteq Job
      /\ \A j \in Job : OwnerOf[j] \in Connector
  BY <1>1, HandoffAssumption, JournalAssumption DEF SafetyInv, Control, TypeOK
<1>3. CASE phase' = [phase EXCEPT ![Local] = "compact"] /\ UNCHANGED store
  <2>1. mem' = mem /\ disk' = disk /\ poisoned' = poisoned
        /\ UNCHANGED <<store, proof, marks, exec, worker, calls, decided, issued>>
    BY <1>1, <1>3 DEF coordinator
  <2>2. SameLedger(mem', mem) /\ SameLedger(disk', disk)
    BY <2>1 DEF SameLedger
  <2>3. /\ \A d \in Connector : d # Local => phase'[d] = phase[d]
        /\ phase'[Local] = "compact"
    BY <1>2, <1>3 DEF TypeOK
  <2>4. Control'
    BY <1>1, <1>2, <1>3, <2>1, <2>3 DEF SafetyInv, Control, Cloud
  <2>5. (Reconciled' => Reconciled) /\ (up' => up) /\ todo' \subseteq todo
    BY <1>1, <2>3 DEF Reconciled
  <2> QED
    BY <2>1, <2>2, <2>4, <2>5, QuietStep
<1>4. ASSUME NEW j \in Projectable, UNCHANGED phase,
             NEW h, h = Newest(LocalEvidence(j)),
             NEW st2, st2 = (IF h.outcome = "accepted" /\ h.native THEN "accepted"
                             ELSE IF h.outcome = "rejected" THEN "retry" ELSE "uncertain"),
             store' = [store EXCEPT ![j] = st2]
      PROVE  SafetyInv'
  <2>1. j \in Job /\ ~Cloud(j) /\ store[j] = "intent" /\ LocalEvidence(j) # {} /\ OwnerOf[j] = Local
    BY <1>4 DEF Projectable, JobsOf, Cloud
  <2>2. Run(j) = Nil /\ ErrandOf(j) = Nil /\ Kind(j) # "cloud"
    BY <1>2, <2>1, Owners
  <2>3. Agree(j)
    BY <1>1, <2>1, <2>2 DEF SafetyInv, CopiesAgree
  <2>4. /\ LocalEvidence(j) = OutcomesIn(disk, j)
        /\ OutcomesIn(disk, j) \in SUBSET Handoff /\ \A g \in OutcomesIn(disk, j) : g.seq <= disk.seq
    BY <2>1, <2>3, LocalEvidenceIs
  <2>5. JobInv(j) /\ issued \in Nat /\ disk.seq \in Nat
    BY <2>1, JobFacts
  <2>6. h \in OutcomesIn(disk, j) /\ \A g \in OutcomesIn(disk, j) : g.seq <= h.seq
    BY <1>4, <2>1, <2>4, <2>5, NewestIs
  <2>7. \A r \in FencesIn(disk, j) : ~Unknown(OutcomesIn(disk, j), r.id)
    <3>1. Accounted(j)
      BY <1>1, <2>1 DEF SafetyInv, Booted, Reconciled
    <3> QED
      BY <2>1, <2>2, <3>1 DEF Accounted
  <2>8. st2 \in {"accepted", "retry", "uncertain"} /\ (h.outcome = "ambiguous" => st2 = "uncertain")
        /\ (st2 = "retry" => h.outcome = "rejected")
    BY <1>4
  <2>9. JobOK(FencesIn(disk, j), OutcomesIn(disk, j), BarriersIn(disk, j), Kind(j), issued, disk.seq,
              st2, proof[j], Run(j), ErrandOf(j), Taken(j), Times(j), Told(j, "release"),
              Told(j, "confirm"), Marked(j))
    BY <2>1, <2>2, <2>5, <2>6, <2>7, <2>8, JobAdopts DEF JobInv
  <2>10. store'[j] = st2 /\ \A i \in Job : i # j => SameRow(i)
    BY <1>1, <1>4, <2>1 DEF TypeOK, SameRow
  <2>11. (\A i \in Job : i # j => SameRow(i) /\ SameWork(i)) /\ SameWork(j)
    BY <1>1, <2>1, <2>10, RowWritten
  <2>12. JobInv(j)'
    BY <1>1, <2>1, <2>9, <2>10, <2>11, SameJournal, NoDecision, Owners DEF JobInv, SameWork
  <2>13. Accounted(j)' /\ store'[j] # "intent"
    BY <1>1, <2>2, <2>7, <2>8, <2>10, <2>11, SameJournal DEF Accounted, SameWork
  <2>14. j \notin todo
    BY <2>1 DEF SafetyInv, Control
  <2>15. Control'
    BY <1>1, <1>2, <1>4, <2>10, <2>14 DEF SafetyInv, Control, coordinator, SameRow, Cloud
  <2>16. (Reconciled' => Reconciled) /\ (up' => up) /\ marks \subseteq marks'
         /\ UNCHANGED <<issued, decided>> /\ \A i \in todo' : i \in todo /\ proof'[i] = proof[i]
    BY <1>1, <1>4 DEF Reconciled
  <2> QED
    BY <1>1, <2>1, <2>11, <2>12, <2>13, <2>15, <2>16, QueueStepOf
<1> QED
  BY <1>3, <1>4 DEF LocalProject

\* The queue of a cloud connector hears of what the journal holds.
LEMMA RecoverQueueKeeps ==
  ASSUME TypeOK, TypeOK', Inductive, SafetyInv, NEW j \in Job, RecoverQueue(j)
  PROVE  SafetyInv'
<1>1. /\ UNCHANGED coordinator /\ UNCHANGED <<exec, worker, calls>>
      /\ UNCHANGED <<decided, marks>> /\ UNCHANGED <<up, booting, phase, offers, issued>>
      /\ up /\ Cloud(j) /\ phase[OwnerOf[j]] = "recover" /\ j \in todo /\ todo' = todo \ {j}
  BY DEF RecoverQueue, Recovering, history
<1>2. PICK h : h = AuthoritativeHandoff(mem, j, proof[j])
  OBVIOUS
<1>3. PICK st2 : st2 = RecoveredState(j, h)
  OBVIOUS
<1>4. store' = [store EXCEPT ![j] = st2] /\ (h # Nil \/ ProvenFence(j) = {})
  BY <1>2, <1>3 DEF RecoverQueue
<1>5. store'[j] = st2 /\ \A i \in Job : i # j => store'[i] = store[i]
  BY <1>4 DEF TypeOK
<1>6. PICK pf2 : pf2 = proof'[j]
  OBVIOUS
<1>7. /\ pf2 = (IF \/ st2 \in {"accepted", "retry"}
                   \/ h # Nil /\ h.outcome = "accepted" /\ store[j] = "uncertain"
                THEN 0 ELSE proof[j])
      /\ \A i \in Job : i # j => proof'[i] = proof[i]
  BY <1>2, <1>5, <1>6 DEF TypeOK, RecoverQueue
<1>8. /\ OwnerOf[j] \in Connector /\ store[j] \in {"intent", "uncertain"} /\ proof[j] # 0
      /\ exec[OwnerOf[j]] = Nil /\ worker[OwnerOf[j]] = Nil
  BY <1>1, Owners DEF SafetyInv, Control
<1>9. Run(j) = Nil /\ ErrandOf(j) = Nil /\ Kind(j) = "cloud"
  BY <1>1, <1>8, Owners
<1>10. JobInv(j) /\ issued \in Nat /\ disk.seq \in Nat /\ proof[j] \in Nat
  BY JobFacts
<1>11. Agree(j)
  BY <1>1, <1>2, <1>4 DEF SafetyInv, CopiesAgree
<1>12. PICK outcome : outcome = (IF h = Nil THEN "none" ELSE h.outcome)
  OBVIOUS
<1>13. \/ outcome = "none"
       \/ \E g \in OutcomesIn(disk, j) : g.id = proof[j] /\ g.outcome = outcome
       \/ \E s \in BarriersIn(disk, j) : s.id = proof[j] /\ s.outcome = outcome
  <2>1. h = AuthoritativeHandoff(disk, j, proof[j])
    BY <1>2, <1>11, ViewReads DEF Agree
  <2>2. EvidenceOf(disk, j, proof[j]) \subseteq OutcomesIn(disk, j)
        /\ BarrierOf(disk, j, proof[j]) \subseteq BarriersIn(disk, j)
    BY DEF EvidenceOf, BarrierOf, OutcomesIn, BarriersIn
  <2>3. CASE EvidenceOf(disk, j, proof[j]) # {}
    <3>1. EvidenceOf(disk, j, proof[j]) \in SUBSET Handoff
          /\ \A g \in EvidenceOf(disk, j, proof[j]) : g.seq <= disk.seq
      <4>1. SeqOK(OutcomesIn(disk, j), disk.seq) /\ OutcomesIn(disk, j) \in SUBSET Handoff
        BY <1>10 DEF JobInv, JobOK, LedgerOK, JournalTypes
      <4> QED
        BY <2>2, <4>1 DEF SeqOK
    <3>2. h \in EvidenceOf(disk, j, proof[j])
      BY <1>10, <2>1, <2>3, <3>1, NewestIs DEF AuthoritativeHandoff
    <3>3. h # Nil
      BY <3>1, <3>2, JournalAssumption
    <3>4. h \in OutcomesIn(disk, j) /\ h.id = proof[j]
      BY <2>2, <3>2 DEF EvidenceOf
    <3> QED
      BY <1>12, <3>3, <3>4
  <2>4. CASE EvidenceOf(disk, j, proof[j]) = {} /\ BarrierOf(disk, j, proof[j]) # {}
    <3>2. h \in BarrierOf(disk, j, proof[j])
      BY <2>1, <2>4 DEF AuthoritativeHandoff
    <3>3. h # Nil
      <4>1. BarriersIn(disk, j) \in SUBSET Consumed
        BY <1>10 DEF JobInv, JobOK, JournalTypes
      <4> QED
        BY <2>2, <3>2, <4>1, JournalAssumption
    <3>4. h \in BarriersIn(disk, j) /\ h.id = proof[j]
      BY <2>2, <3>2 DEF BarrierOf
    <3> QED
      BY <1>12, <3>3, <3>4
  <2>5. CASE EvidenceOf(disk, j, proof[j]) = {} /\ BarrierOf(disk, j, proof[j]) = {}
    BY <1>12, <2>1, <2>5 DEF AuthoritativeHandoff
  <2> QED
    BY <2>3, <2>4, <2>5
<1>14. /\ st2 \in {"accepted", "retry", "uncertain"} /\ pf2 \in {proof[j], 0}
       /\ (st2 = "retry" => outcome = "rejected")
       /\ (st2 = "accepted" \/ (st2 = "uncertain" /\ pf2 = 0) => outcome = "accepted")
  <2>1. CASE h = Nil
    BY <1>3, <1>7, <1>8, <1>12, <2>1 DEF RecoveredState
  <2>2. CASE h # Nil
    BY <1>3, <1>7, <1>8, <1>12, <2>2 DEF RecoveredState
  <2> QED
    BY <2>1, <2>2
<1>15. JobOK(FencesIn(disk, j), OutcomesIn(disk, j), BarriersIn(disk, j), Kind(j), issued, disk.seq,
             st2, pf2, Run(j), ErrandOf(j), Taken(j), Times(j), Told(j, "release"),
             Told(j, "confirm"), Marked(j))
  <2>1. JobOK(FencesIn(disk, j), OutcomesIn(disk, j), BarriersIn(disk, j), Kind(j), issued, disk.seq,
              store[j], proof[j], Run(j), ErrandOf(j), Taken(j), Times(j), Told(j, "release"),
              Told(j, "confirm"), Marked(j))
    BY <1>10 DEF JobInv
  <2>2. st2 \in {"accepted", "retry", "uncertain"} /\ pf2 \in {proof[j], 0}
    BY <1>14
  <2>3. (st2 = "retry" => outcome = "rejected")
        /\ (st2 = "accepted" \/ (st2 = "uncertain" /\ pf2 = 0) => outcome = "accepted")
    BY <1>14
  <2> QED
    BY <1>8, <1>9, <1>10, <1>13, <2>1, <2>2, <2>3, JobRecovered, SMTT(60)
<1>16. \A i \in Job : i # j => SameRow(i)
  BY <1>5, <1>7 DEF SameRow
<1>17. (\A i \in Job : i # j => SameRow(i) /\ SameWork(i)) /\ SameWork(j)
  BY <1>1, <1>16, RowWritten
<1>18. JobInv(j)'
  BY <1>1, <1>5, <1>6, <1>15, <1>17, SameJournal, NoDecision, Owners DEF JobInv, SameWork
<1>19. Control'
  <2>1. todo \subseteq Job
    BY DEF TypeOK
  <2> QED
    BY <1>1, <1>16, <2>1 DEF SafetyInv, Control, coordinator, SameRow, Cloud
<1>20. (Reconciled' => Reconciled) /\ (up' => up) /\ marks \subseteq marks'
       /\ UNCHANGED <<issued, decided>> /\ \A i \in todo' : i \in todo /\ proof'[i] = proof[i]
  BY <1>1, <1>16 DEF Reconciled, SameRow, TypeOK
<1> QED
  BY <1>1, <1>17, <1>18, <1>19, <1>20, QueueStepOf

\* The job of an errand under way.
LEMMA OnErrand ==
  ASSUME TypeOK, SafetyInv, NEW c \in Connector, worker[c] # Nil
  PROVE  /\ worker[c] \in Errand /\ ErrandJob(worker[c]) \in Job /\ OwnerOf[ErrandJob(worker[c])] = c
         /\ phase[c] = "run" /\ ~booting /\ ErrandJob(worker[c]) \notin todo
         /\ ErrandOf(ErrandJob(worker[c])) = worker[c]
<1>1. worker[c] \in Errand
  BY WorkerShape
<1>2. ErrandJob(worker[c]) \in Job
  BY <1>1 DEF Errand, ErrandJob, Offer
<1>3. OwnerOf[ErrandJob(worker[c])] = c /\ phase[c] = "run" /\ ~booting
  BY DEF SafetyInv, Control
<1>4. ErrandOf(ErrandJob(worker[c])) = worker[c]
  BY <1>3 DEF ErrandOf
<1>5. ErrandJob(worker[c]) \notin todo
  BY <1>3 DEF SafetyInv, Control
<1> QED
  BY <1>1, <1>2, <1>3, <1>4, <1>5

\* The queue hears of an operator's decision.
LEMMA ProjectResolutionKeeps ==
  ASSUME TypeOK, TypeOK', Inductive, SafetyInv, NEW c \in Connector, ProjectResolution(c)
  PROVE  SafetyInv'
<1>1. /\ UNCHANGED coordinator /\ UNCHANGED exec /\ UNCHANGED calls
      /\ UNCHANGED <<todo, up, booting, offers, issued, decided>>
      /\ up /\ phase[c] = "run" /\ worker[c] # Nil /\ worker[c].kind = "resolve"
      /\ worker' = [worker EXCEPT ![c] = Nil]
      /\ phase' = IF c = Local THEN [phase EXCEPT ![c] = "fence"] ELSE phase
  BY DEF ProjectResolution, Working, history
<1>2. PICK e : e = worker[c]
  OBVIOUS
<1>3. PICK k \in Job : k = e.job /\ OwnerOf[k] = c /\ k \notin todo /\ ErrandOf(k) = e
                       /\ ErrandJob(worker[c]) = k
  BY <1>1, <1>2, OnErrand DEF ErrandJob
<1>4. e # Nil /\ e.kind = "resolve" /\ e.id \in Nat /\ e.resolution \in Resolution /\ ~booting
  BY <1>1, <1>2, OnErrand, ErrandShape
<1>5. PICK uncertain \in BOOLEAN : uncertain = (store[k] = "uncertain" /\ \A m \in marks : m.id # e.id)
  OBVIOUS
<1>6. /\ store' = IF uncertain /\ e.resolution = "release"
                  THEN [store EXCEPT ![k] = "retry"] ELSE store
      /\ proof' = IF uncertain /\ Cloud(k) THEN [proof EXCEPT ![k] = 0] ELSE proof
      /\ marks' = IF uncertain /\ ~Cloud(k)
                  THEN marks \cup {[id |-> e.id, resolution |-> e.resolution]} ELSE marks
  BY <1>2, <1>3, <1>5 DEF ProjectResolution
<1>7. /\ store'[k] = (IF uncertain /\ e.resolution = "release" THEN "retry" ELSE store[k])
      /\ proof'[k] = (IF uncertain /\ Cloud(k) THEN 0 ELSE proof[k])
      /\ \A i \in Job : i # k => SameRow(i)
  BY <1>6 DEF TypeOK, SameRow
<1>8. ErrandOf(k)' = Nil /\ \A i \in Job : i # k => ErrandOf(i)' = ErrandOf(i)
  BY <1>1, <1>3, WorkerFrame
<1>9. \A i \in Job : Run(i)' = Run(i) /\ Taken(i)' = Taken(i) /\ Times(i)' = Times(i)
  BY <1>1, NoExec, NoCalls
<1>10. \A x : Told(k, x)' = Told(k, x)
  BY <1>1 DEF Told, Decisions
<1>11. JobInv(k) /\ issued \in Nat /\ disk.seq \in Nat /\ (Kind(k) = "cloud" <=> Cloud(k))
  BY JobFacts, Owners
<1>12. e.id \in (IF e.resolution = "release" THEN Told(k, "release") ELSE Told(k, "confirm"))
  BY <1>3, <1>4, <1>11 DEF JobInv, JobOK, ErrandOK
<1>13. Marked(k)' = (IF uncertain /\ ~Cloud(k) /\ e.resolution = "release"
                     THEN Marked(k) \cup {e.id} ELSE Marked(k))
       /\ (uncertain => e.id \notin Marked(k))
  <2>1. Marked(k)' = {i \in Told(k, "release") : [id |-> i, resolution |-> "release"] \in marks'}
    BY <1>10 DEF Marked
  <2>2. \A i : [id |-> i, resolution |-> "release"] = [id |-> e.id, resolution |-> e.resolution]
               <=> i = e.id /\ e.resolution = "release"
    OBVIOUS
  <2>3. uncertain => \A m \in marks : m.id # e.id
    BY <1>5
  <2>4. uncertain => e.id \notin Marked(k)
    BY <2>3 DEF Marked
  <2> DEFINE Rel(i) == [id |-> i, resolution |-> "release"]
  <2>7. \A i : Rel(i) \in marks' <=>
               Rel(i) \in marks \/ (uncertain /\ ~Cloud(k) /\ e.resolution = "release" /\ i = e.id)
    <3>1. CASE uncertain /\ ~Cloud(k)
      BY <1>6, <2>2, <3>1
    <3>2. CASE ~(uncertain /\ ~Cloud(k))
      BY <1>6, <3>2
    <3> QED
      BY <3>1, <3>2
  <2>8. Marked(k) = {i \in Told(k, "release") : Rel(i) \in marks}
        /\ Marked(k)' = {i \in Told(k, "release") : Rel(i) \in marks'}
    BY <2>1 DEF Marked
  <2> HIDE DEF Rel
  <2>5. ASSUME uncertain /\ ~Cloud(k) /\ e.resolution = "release"
        PROVE  Marked(k)' = Marked(k) \cup {e.id}
    <3>1. \A i : Rel(i) \in marks' <=> Rel(i) \in marks \/ i = e.id
      BY <2>5, <2>7
    <3>2. e.id \in Told(k, "release")
      BY <1>12, <2>5
    <3>3. Marked(k)' = Marked(k) \cup {e.id}
      BY <2>8, <3>1, <3>2
    <3> QED
      BY <3>3
  <2>6. ASSUME ~(uncertain /\ ~Cloud(k) /\ e.resolution = "release")
        PROVE  Marked(k)' = Marked(k)
    <3>1. \A i : Rel(i) \in marks' <=> Rel(i) \in marks
      BY <2>6, <2>7
    <3>2. Marked(k)' = Marked(k)
      BY <2>8, <3>1
    <3> QED
      BY <3>2
  <2> QED
    BY <2>4, <2>5, <2>6
<1>14. JobOK(FencesIn(disk, k), OutcomesIn(disk, k), BarriersIn(disk, k), Kind(k), issued, disk.seq,
             store'[k], proof'[k], Run(k), Nil, Taken(k), Times(k), Told(k, "release"),
             Told(k, "confirm"), Marked(k)')
  <2>1. JobOK(FencesIn(disk, k), OutcomesIn(disk, k), BarriersIn(disk, k), Kind(k), issued, disk.seq,
              store[k], proof[k], Run(k), e, Taken(k), Times(k), Told(k, "release"),
              Told(k, "confirm"), Marked(k))
    BY <1>3, <1>11 DEF JobInv
  <2>2. CASE uncertain /\ e.resolution = "release"
    <3>1. store[k] = "uncertain" /\ store'[k] = "retry"
      BY <1>5, <1>7, <2>2
    <3>2. IF Kind(k) = "cloud" THEN Marked(k)' = Marked(k)
          ELSE Marked(k)' = Marked(k) \cup {e.id} /\ e.id \notin Marked(k)
      BY <1>11, <1>13, <2>2
    <3>3. JobOK(FencesIn(disk, k), OutcomesIn(disk, k), BarriersIn(disk, k), Kind(k), issued, disk.seq,
                "retry", proof'[k], Run(k), Nil, Taken(k), Times(k), Told(k, "release"),
                Told(k, "confirm"), Marked(k)')
      BY <1>4, <1>11, <2>1, <2>2, <3>1, <3>2, JobRetries
    <3> QED
      BY <3>1, <3>3
  <2>3. CASE uncertain /\ e.resolution # "release"
    <3>1. store[k] = "uncertain" /\ store'[k] = store[k] /\ Marked(k)' = Marked(k)
          /\ proof'[k] = (IF Kind(k) = "cloud" THEN 0 ELSE proof[k])
      BY <1>5, <1>7, <1>11, <1>13, <2>3
    <3> QED
      BY <1>4, <1>11, <2>1, <3>1, JobConfirmed
  <2>4. CASE ~uncertain
    <3>1. store'[k] = store[k] /\ Marked(k)' = Marked(k) /\ proof'[k] = proof[k]
      BY <1>7, <1>13, <2>4
    <3> QED
      BY <1>11, <2>1, <3>1, JobStops
  <2> QED
    BY <2>2, <2>3, <2>4
<1>15. JobInv(k)'
  BY <1>1, <1>8, <1>9, <1>10, <1>14, SameJournal, Owners DEF JobInv
<1>16. Cloud(k) \/ (Accounted(k)' /\ Run(k) = Nil)
  <2>1. SUFFICES ASSUME ~Cloud(k) PROVE Accounted(k)' /\ Run(k) = Nil
    OBVIOUS
  <2>2. c = Local /\ exec[c] = Nil /\ Run(k) = Nil
    BY <1>1, <1>3, <2>1, Owners DEF SafetyInv, Control
  <2>3. Accounted(k)
    BY <1>1, <1>4, <2>1 DEF SafetyInv, Booted, Reconciled
  <2>4. store'[k] = "retry" \/ store'[k] = store[k]
    BY <1>7
  <2> QED
    BY <1>1, <1>9, <2>2, <2>3, <2>4, SameJournal DEF Accounted, coordinator
<1>17. worker'[c] = Nil /\ \A d \in Connector : d # c => worker'[d] = worker[d]
  BY <1>1 DEF TypeOK
<1>18. (\A d \in Connector : d # Local => phase'[d] = phase[d])
       /\ (c # Local => phase'[Local] = phase[Local])
       /\ (c = Local => phase'[Local] = "fence")
  BY <1>1, HandoffAssumption DEF TypeOK
<1>19. Control'
  <2>1. todo \subseteq Job /\ Local \in Connector /\ (\A j \in Job : OwnerOf[j] \in Connector)
        /\ up \in BOOLEAN /\ booting \in BOOLEAN
    BY HandoffAssumption, JournalAssumption DEF TypeOK
  <2>2. c = Local => exec[Local] = Nil
    BY <1>1 DEF SafetyInv, Control
  <2> QED
    BY <1>1, <1>3, <1>4, <1>7, <1>17, <1>18, <2>1, <2>2
    DEF SafetyInv, Control, coordinator, SameRow, Cloud
<1>20. (Reconciled' => Reconciled) /\ (up' => up) /\ marks \subseteq marks'
       /\ UNCHANGED <<issued, decided>>
  BY <1>1, <1>4, <1>6 DEF Reconciled
<1>21. \A i \in todo' : i \in todo /\ proof'[i] = proof[i]
  BY <1>1, <1>3, <1>7 DEF SameRow, TypeOK
<1>22. \A i \in Job : i # k => SameRow(i) /\ SameWork(i)
  BY <1>7, <1>8, <1>9 DEF SameWork
<1>23. ~Cloud(k) /\ store'[k] = "intent" =>
           Run(k)' # Nil \/ (store[k] = "intent" /\ Run(k) = Nil)
  BY <1>7, <1>16
<1> QED
  BY <1>1, <1>15, <1>16, <1>19, <1>20, <1>21, <1>22, <1>23, QueueStepOf

-----------------------------------------------------------------------------
(* Steps of the worker and of the reconciliations that write the journal.  *)

\* A write about job k, made while the rows and the submissions stay.
LEMMA WriteStep ==
  ASSUME TypeOK, TypeOK', SafetyInv, ~poisoned, Control', up' => up, Reconciled' => Reconciled,
         NEW next, Written(next), mem.seq <= next.seq, UNCHANGED <<exec, calls, store, proof>>,
         issued' = issued, decided \subseteq decided', marks' = marks, todo' \subseteq todo,
         NEW k \in Job, \A i \in Job : i # k =>
           View(next, i) = View(mem, i) /\ ErrandOf(i)' = ErrandOf(i),
         up' => Steady(k), Untouched(k) \/ (JobInv(k)' /\ (Cloud(k) \/ Accounted(k)'))
  PROVE  SafetyInv'
<1>1. SameLedger(mem, disk)
  BY InStep0 DEF SafetyInv
<1>2. \A i \in Job : i # k => View(disk', i) = View(disk, i) /\ View(mem', i) = View(disk, i)
  BY <1>1, WrittenView
<1>3. \A i \in Job : Run(i)' = Run(i) /\ Taken(i)' = Taken(i) /\ Times(i)' = Times(i)
  BY NoExec, NoCalls
<1>4. \A i \in Job : i # k => Untouched(i) /\ Steady(i)
  BY <1>2, <1>3 DEF Untouched, SameView, SameRow, SameWork, Steady
<1>5. Grows
  <2>1. disk.seq \in Nat /\ issued \in Nat
    BY DEF TypeOK, Document
  <2> QED
    BY <1>1, <2>1 DEF Grows, Written, SameLedger
<1>6. ~poisoned' => SameLedger(mem', disk')
  BY DEF Written, SameLedger
<1>7. (poisoned => poisoned') /\ \A j \in todo' : j \in todo /\ proof'[j] = proof[j]
  OBVIOUS
<1>8. \A i \in Job :
        /\ up' => Steady(i)
        /\ \/ Untouched(i)
           \/ /\ JobInv(i)' /\ (Cloud(i) \/ Accounted(i)')
              /\ ~Cloud(i) /\ store'[i] = "intent" =>
                   Run(i)' # Nil \/ (store[i] = "intent" /\ Run(i) = Nil)
  BY <1>3, <1>4
<1> QED
  BY <1>5, <1>6, <1>7, <1>8, Assembled

\* The copies of a job nobody recovers and nobody submits.
LEMMA SteadyAtRest ==
  ASSUME NEW j \in Job, j \notin todo', Cloud(j) \/ store'[j] # "intent"
  PROVE  Steady(j)
BY DEF Steady

\* What memory says of a job the file says too.
LEMMA MemoryIsFile ==
  ASSUME TypeOK, SafetyInv, ~poisoned, NEW j
  PROVE  /\ FencesIn(mem, j) = FencesIn(disk, j) /\ OutcomesIn(mem, j) = OutcomesIn(disk, j)
         /\ BarriersIn(mem, j) = BarriersIn(disk, j) /\ mem.seq = disk.seq /\ mem.seq \in Nat
<1>1. SameLedger(mem, disk) /\ View(mem, j) = View(disk, j)
  BY InStep0 DEF SafetyInv
<1> QED
  BY <1>1, ViewParts DEF SameLedger, TypeOK, Document

\* The condition of job k after a write, when its row and submission stay.
LEMMA WrittenJob ==
  ASSUME TypeOK, NEW k \in Job, UNCHANGED <<exec, calls, store, proof>>, UNCHANGED <<decided, marks>>,
         issued' = issued,
         JobOK(FencesIn(disk', k), OutcomesIn(disk', k), BarriersIn(disk', k), Kind(k), issued,
               disk'.seq, store[k], proof[k], Run(k), ErrandOf(k)', Taken(k), Times(k),
               Told(k, "release"), Told(k, "confirm"), Marked(k))
  PROVE  JobInv(k)'
<1>1. Run(k)' = Run(k) /\ Kind(k)' = Kind(k) /\ Taken(k)' = Taken(k) /\ Times(k)' = Times(k)
  BY NoExec, NoCalls, Owners
<1>2. Told(k, "release")' = Told(k, "release") /\ Told(k, "confirm")' = Told(k, "confirm")
      /\ Marked(k)' = Marked(k)
  BY NoDecision
<1> QED
  BY <1>1, <1>2 DEF JobInv

\* The fence and its barrier, before an outcome is journaled.
LEMMA FenceFacts ==
  ASSUME TypeOK, SafetyInv, ~poisoned, NEW k \in Job, NEW r, r \in mem.reservations, r.job = k
  PROVE  /\ r \in FencesIn(disk, k) /\ (r.cloud <=> Kind(k) = "cloud") /\ r \in Reservation
         /\ \A s \in BarriersIn(mem, r.job) : s.gen < r.gen
         /\ \A s \in FencesIn(disk, k) : s = r
<1>1. r \in FencesIn(mem, k)
  BY DEF FencesIn
<1>2. r \in FencesIn(disk, k) /\ BarriersIn(mem, k) = BarriersIn(disk, k)
  BY <1>1, MemoryIsFile
<1>3. JobInv(k)
  BY JobFacts
<1>4. /\ IdsOK(FencesIn(disk, k), OutcomesIn(disk, k), BarriersIn(disk, k), Kind(k), issued)
      /\ BarrierOK(FencesIn(disk, k), OutcomesIn(disk, k), BarriersIn(disk, k), Kind(k))
      /\ FenceOK(FencesIn(disk, k), OutcomesIn(disk, k))
      /\ FencesIn(disk, k) \in SUBSET Reservation
  BY <1>3 DEF JobInv, JobOK, LedgerOK, JournalTypes
<1> QED
  BY <1>2, <1>4 DEF IdsOK, BarrierOK, FenceOK

\* What journaling an outcome of r writes.
LEMMA FinishWrites ==
  ASSUME TypeOK, SafetyInv, ~poisoned, NEW k \in Job, NEW r, r \in mem.reservations, r.job = k,
         NEW outcome \in Outcome, NEW next, next = Finish(mem, r, outcome, FALSE)
  PROVE  \E h \in Handoff, s \in Consumed : JournaledAs(mem, next, r, outcome, h, s)
<1>1. mem \in Document
  BY DEF TypeOK
<1>2. \A s \in BarriersIn(mem, r.job) : s.gen < r.gen
  BY FenceFacts
<1> QED
  BY <1>1, <1>2, ViewFinish

\* The sequence and the other jobs after an outcome of r was journaled.
LEMMA FinishFrame ==
  ASSUME TypeOK, NEW k \in Job, NEW r, r.job = k, NEW outcome, NEW next, NEW h, NEW s,
         JournaledAs(mem, next, r, outcome, h, s)
  PROVE  mem.seq <= next.seq /\ \A i \in Job : i # k => View(next, i) = View(mem, i)
<1>1. mem.seq \in Nat
  BY DEF TypeOK, Document
<1> QED
  BY <1>1 DEF JournaledAs

\* A rejected outcome journaled for a job that waits for a new offer.
LEMMA ReleasedJob ==
  ASSUME TypeOK, SafetyInv, ~poisoned, NEW k \in Job, Cloud(k),
         store[k] \in {"absent", "retry", "failed", "dropped"},
         NEW r, r \in mem.reservations, r.job = k, NEW next,
         NEW h \in Handoff, NEW s \in Consumed, JournaledAs(mem, next, r, "rejected", h, s)
  PROVE  JobOK(FencesIn(next, k), OutcomesIn(next, k), BarriersIn(next, k), Kind(k), issued,
               next.seq, store[k], proof[k], Run(k), Nil, Taken(k), Times(k),
               Told(k, "release"), Told(k, "confirm"), Marked(k))
<1>1. JobInv(k) /\ issued \in Nat /\ disk.seq \in Nat /\ Kind(k) = "cloud"
  BY JobFacts, Owners
<1>2. /\ FencesIn(mem, k) = FencesIn(disk, k) /\ OutcomesIn(mem, k) = OutcomesIn(disk, k)
      /\ BarriersIn(mem, k) = BarriersIn(disk, k) /\ mem.seq = disk.seq
  BY MemoryIsFile
<1>3. r \in FencesIn(disk, k) /\ r.cloud
  BY <1>1, FenceFacts
<1>4. /\ h.id = r.id /\ h.gen = r.gen /\ h.cloud = r.cloud /\ h.seq = disk.seq + 1
      /\ h.outcome = "rejected" /\ s.id = r.id /\ s.gen = r.gen /\ s.outcome = "rejected"
      /\ next.seq = disk.seq + 1 /\ FencesIn(next, k) = FencesIn(disk, k) \ {r}
      /\ OutcomesIn(next, k) = OutcomesIn(disk, k) \cup {h} /\ BarriersIn(next, k) = {s}
  BY <1>2, <1>3 DEF JournaledAs
<1>5. JobOK(FencesIn(disk, k) \ {r}, OutcomesIn(disk, k) \cup {h}, {s}, Kind(k), issued,
            disk.seq + 1, store[k], proof[k], Run(k), Nil, Taken(k), Times(k),
            Told(k, "release"), Told(k, "confirm"), Marked(k))
  <2>1. r \in FencesIn(disk, k)
    BY <1>3
  <2>2. /\ h.id = r.id /\ h.gen = r.gen /\ h.cloud = r.cloud /\ h.seq = disk.seq + 1
        /\ h.outcome = "rejected" /\ s.id = r.id /\ s.gen = r.gen /\ s.outcome = "rejected"
    BY <1>4
  <2>3. JobOK(FencesIn(disk, k), OutcomesIn(disk, k), BarriersIn(disk, k), Kind(k), issued, disk.seq,
              store[k], proof[k], Run(k), ErrandOf(k), Taken(k), Times(k), Told(k, "release"),
              Told(k, "confirm"), Marked(k))
    BY <1>1 DEF JobInv
  <2> QED
    BY <1>1, <2>1, <2>2, <2>3, JobReleased
<1> QED
  BY <1>4, <1>5

\* An ambiguous outcome journaled for a job that is not under way.
LEMMA LeftBehindJob ==
  ASSUME TypeOK, SafetyInv, ~poisoned, NEW k \in Job,
         Cloud(k) => store[k] \in {"intent", "uncertain"}, Run(k) = Nil, ErrandOf(k) = Nil,
         NEW r, r \in mem.reservations, r.job = k, Unknown(OutcomesIn(disk, k), r.id), NEW next,
         NEW h \in Handoff, NEW s \in Consumed, JournaledAs(mem, next, r, "ambiguous", h, s)
  PROVE  /\ JobOK(FencesIn(next, k), OutcomesIn(next, k), BarriersIn(next, k), Kind(k), issued,
                  next.seq, store[k], proof[k], Run(k), ErrandOf(k), Taken(k), Times(k),
                  Told(k, "release"), Told(k, "confirm"), Marked(k))
         /\ \A q \in FencesIn(next, k) : ~Unknown(OutcomesIn(next, k), q.id)
<1>1. JobInv(k) /\ issued \in Nat /\ disk.seq \in Nat /\ (Kind(k) = "cloud" <=> Cloud(k))
  BY JobFacts, Owners
<1>2. /\ FencesIn(mem, k) = FencesIn(disk, k) /\ OutcomesIn(mem, k) = OutcomesIn(disk, k)
      /\ BarriersIn(mem, k) = BarriersIn(disk, k) /\ mem.seq = disk.seq
  BY MemoryIsFile
<1>3. r \in FencesIn(disk, k) /\ \A q \in FencesIn(disk, k) : q = r
  BY <1>1, FenceFacts
<1>4. /\ h.id = r.id /\ h.gen = r.gen /\ h.cloud = r.cloud /\ h.seq = disk.seq + 1
      /\ h.outcome = "ambiguous"
      /\ next.seq = disk.seq + 1 /\ FencesIn(next, k) = FencesIn(disk, k)
      /\ OutcomesIn(next, k) = OutcomesIn(disk, k) \cup {h} /\ BarriersIn(next, k) = BarriersIn(disk, k)
  BY <1>2, <1>3 DEF JournaledAs
<1>5. JobOK(FencesIn(disk, k), OutcomesIn(disk, k) \cup {h}, BarriersIn(disk, k), Kind(k), issued,
            disk.seq + 1, store[k], proof[k], Run(k), ErrandOf(k), Taken(k), Times(k),
            Told(k, "release"), Told(k, "confirm"), Marked(k))
  BY <1>1, <1>3, <1>4, JobLeftBehind DEF JobInv
<1>6. \A q \in FencesIn(next, k) : ~Unknown(OutcomesIn(next, k), q.id)
  BY <1>3, <1>4 DEF Unknown
<1> QED
  BY <1>4, <1>5, <1>6

\* Recovery of a cloud connector: the proven fence without an outcome.
LEMMA RecoverFenceKeeps ==
  ASSUME TypeOK, TypeOK', Inductive, SafetyInv, NEW k \in Job, RecoverFence(k)
  PROVE  SafetyInv'
<1>1. /\ UNCHANGED <<exec, calls, store, proof>> /\ UNCHANGED <<decided, marks>> /\ UNCHANGED worker
      /\ UNCHANGED <<up, booting, phase, todo, offers>> /\ issued' = issued
      /\ up /\ ~booting /\ Cloud(k) /\ phase[OwnerOf[k]] = "recover" /\ k \in todo /\ ~poisoned
      /\ AuthoritativeHandoff(mem, k, proof[k]) = Nil
  BY DEF RecoverFence, Recovering, queue, history
<1>2. PICK r \in ProvenFence(k), fault \in FaultChoice :
        Apply(Committed(mem, Finish(mem, r, "ambiguous", FALSE), disk, fault))
  BY DEF RecoverFence
<1>3. PICK next : next = Finish(mem, r, "ambiguous", FALSE)
  OBVIOUS
<1>4. Written(next)
  BY <1>2, <1>3, WriteLeaves
<1>5. r \in mem.reservations /\ r.job = k /\ r.id = proof[k] /\ "ambiguous" \in Outcome
  BY <1>2 DEF ProvenFence, Outcome
<1>6. PICK h \in Handoff, s \in Consumed : JournaledAs(mem, next, r, "ambiguous", h, s)
  BY <1>1, <1>3, <1>5, FinishWrites
<1>7. store[k] \in {"intent", "uncertain"} /\ Run(k) = Nil /\ ErrandOf(k) = Nil
  <2>1. OwnerOf[k] \in Connector /\ exec[OwnerOf[k]] = Nil /\ worker[OwnerOf[k]] = Nil
    BY <1>1, Owners DEF SafetyInv, Control
  <2> QED
    BY <1>1, <2>1, Owners DEF SafetyInv, Control
<1>8. Unknown(OutcomesIn(disk, k), r.id)
  <2>1. OutcomesIn(mem, k) = OutcomesIn(disk, k) /\ mem.seq = disk.seq /\ JobInv(k) /\ mem.seq \in Nat
    BY <1>1, MemoryIsFile, JobFacts
  <2>2. OutcomesIn(mem, k) \in SUBSET Handoff /\ \A g \in OutcomesIn(mem, k) : g.seq <= mem.seq
    BY <2>1 DEF JobInv, JobOK, LedgerOK, SeqOK, JournalTypes
  <2>3. EvidenceOf(mem, k, proof[k]) = {}
    <3>1. ASSUME EvidenceOf(mem, k, proof[k]) # {} PROVE FALSE
      <4>1. EvidenceOf(mem, k, proof[k]) \in SUBSET Handoff
            /\ \A g \in EvidenceOf(mem, k, proof[k]) : g.seq <= mem.seq
        BY <2>2 DEF EvidenceOf, OutcomesIn
      <4>2. Newest(EvidenceOf(mem, k, proof[k])) \in Handoff
        BY <2>1, <3>1, <4>1, NewestIs
      <4> QED
        BY <1>1, <3>1, <4>2, JournalAssumption DEF AuthoritativeHandoff
    <3> QED
      BY <3>1
  <2> QED
    BY <1>5, <2>1, <2>3 DEF EvidenceOf, OutcomesIn, Unknown
<1>9. \A i \in Job : ErrandOf(i)' = ErrandOf(i)
  BY <1>1, NoErrand
<1>10. JobInv(k)'
  <2>1. CASE disk' = next
    <3>1. JobOK(FencesIn(next, k), OutcomesIn(next, k), BarriersIn(next, k), Kind(k), issued,
                next.seq, store[k], proof[k], Run(k), ErrandOf(k), Taken(k), Times(k),
                Told(k, "release"), Told(k, "confirm"), Marked(k))
      BY <1>1, <1>5, <1>6, <1>7, <1>8, LeftBehindJob
    <3> QED
      BY <1>1, <1>9, <2>1, <3>1, WrittenJob
  <2>2. CASE disk' = disk
    BY <1>1, <1>9, <2>2, WrittenJob, JobFacts DEF JobInv
  <2> QED
    BY <1>4, <2>1, <2>2 DEF Written
<1>11. Steady(k)
  <2>1. \/ mem' = disk'
        \/ mem' = mem /\ ProvenFence(k) # {}
    BY <1>2, <1>4 DEF Written
  <2> QED
    BY <1>1, <2>1 DEF Steady
<1>12. Control'
  BY <1>1 DEF SafetyInv, Control, Cloud
<1>13. (Reconciled' => Reconciled) /\ (up' => up) /\ decided \subseteq decided' /\ marks' = marks
       /\ todo' \subseteq todo
  BY <1>1 DEF Reconciled
<1>14. mem.seq <= next.seq /\ \A i \in Job : i # k => View(next, i) = View(mem, i)
  BY <1>5, <1>6, FinishFrame
<1> QED
  BY <1>1, <1>4, <1>9, <1>10, <1>11, <1>12, <1>13, <1>14, WriteStep

\* Startup releases the fences the queue cannot account for.
LEMMA SweepFencesKeeps ==
  ASSUME TypeOK, TypeOK', Inductive, SafetyInv, NEW c \in Connector, SweepFences(c)
  PROVE  SafetyInv'
<1>1. /\ UNCHANGED <<exec, calls, store, proof>> /\ UNCHANGED <<decided, marks>> /\ UNCHANGED worker
      /\ UNCHANGED <<up, booting, todo, offers>> /\ issued' = issued
      /\ up /\ ~booting /\ c # Local
  BY DEF SweepFences, queue, history
<1>2. (Reconciled' => Reconciled) /\ (up' => up) /\ decided \subseteq decided' /\ marks' = marks
      /\ todo' \subseteq todo /\ Local \in Connector /\ todo \subseteq Job
      /\ \A j \in Job : OwnerOf[j] \in Connector
  BY <1>1, HandoffAssumption, JournalAssumption DEF Reconciled, TypeOK
<1>3. ASSUME NEW p \in {"sweep", "run"}, phase' = [phase EXCEPT ![c] = p], UNCHANGED coordinator,
             phase[c] \in {"recover", "sweep"}, phase[c] = "recover" => todo \cap JobsOf(c) = {}
      PROVE  SafetyInv'
  <2>1. mem' = mem /\ disk' = disk /\ poisoned' = poisoned
        /\ UNCHANGED <<store, proof, marks, exec, worker, calls, decided, issued>>
    BY <1>1, <1>3 DEF coordinator
  <2>2. SameLedger(mem', mem) /\ SameLedger(disk', disk)
    BY <2>1 DEF SameLedger
  <2>3. phase'[c] = p /\ \A d \in Connector : d # c => phase'[d] = phase[d]
    BY <1>3 DEF TypeOK
  <2>4. \A j \in todo : OwnerOf[j] # c
    <3>1. \A j \in todo : phase[OwnerOf[j]] = "recover"
      BY DEF SafetyInv, Control
    <3> QED
      BY <1>2, <1>3, <3>1 DEF JobsOf
  <2>5. exec[c] = Nil /\ worker[c] = Nil
    BY <1>3 DEF SafetyInv, Control
  <2>6. Control'
    BY <1>1, <1>2, <2>1, <2>3, <2>4, <2>5 DEF SafetyInv, Control, Cloud
  <2> QED
    BY <1>1, <1>2, <2>1, <2>2, <2>6, QuietStep
<1>4. ASSUME phase[c] = "sweep", ~poisoned, UNCHANGED phase,
             NEW r \in Unaccounted(c), NEW fault \in FaultChoice,
             Apply(Committed(mem, Finish(mem, r, "rejected", FALSE), disk, fault))
      PROVE  SafetyInv'
  <2>1. PICK next : next = Finish(mem, r, "rejected", FALSE)
    OBVIOUS
  <2>2. Written(next)
    BY <1>4, <2>1, WriteLeaves
  <2>3. r \in mem.reservations /\ r \in Reservation /\ "rejected" \in Outcome
    BY <1>4, DocumentFields DEF Unaccounted, Outcome, TypeOK
  <2>4. PICK k \in Job : k = r.job
    BY <2>3 DEF Reservation
  <2>5. OwnerOf[k] = c /\ Cloud(k)
    BY <1>1, <1>4, <2>4 DEF Unaccounted, Cloud
  <2>6. k \notin todo /\ exec[c] = Nil /\ worker[c] = Nil
    BY <1>4, <2>5 DEF SafetyInv, Control
  <2>7. ErrandOf(k) = Nil /\ Kind(k) = "cloud" /\ JobInv(k)
    BY <2>5, <2>6, Owners, JobFacts
  <2>8. r \in FencesIn(disk, k) /\ \A q \in FencesIn(disk, k) : q = r
    BY <1>4, <2>3, <2>4, FenceFacts
  <2>9. store[k] \in {"absent", "retry", "failed", "dropped"}
    <3>1. store[k] = "pending" => \E q \in FencesIn(disk, k) : q.id = proof[k]
      BY <2>7 DEF JobInv, JobOK, QueueOK
    <3> QED
      BY <1>4, <2>4, <2>8, <3>1 DEF Unaccounted
  <2>10. PICK h \in Handoff, s \in Consumed : JournaledAs(mem, next, r, "rejected", h, s)
    BY <1>4, <2>1, <2>3, <2>4, FinishWrites
  <2>11. \A i \in Job : ErrandOf(i)' = ErrandOf(i)
    BY <1>1, NoErrand
  <2>12. JobInv(k)'
    <3>1. CASE disk' = next
      <4>1. JobOK(FencesIn(next, k), OutcomesIn(next, k), BarriersIn(next, k), Kind(k), issued,
                  next.seq, store[k], proof[k], Run(k), Nil, Taken(k), Times(k),
                  Told(k, "release"), Told(k, "confirm"), Marked(k))
        BY <1>4, <2>3, <2>4, <2>5, <2>9, <2>10, ReleasedJob
      <4>2. ErrandOf(k)' = Nil
        BY <2>7, <2>11
      <4> QED
        BY <1>1, <3>1, <4>1, <4>2, WrittenJob
    <3>2. CASE disk' = disk
      BY <1>1, <2>11, <3>2, WrittenJob, JobFacts DEF JobInv
    <3> QED
      BY <2>2, <3>1, <3>2 DEF Written
  <2>13. Steady(k)
    BY <1>2, <2>5, <2>6, SteadyAtRest
  <2>14. Control'
    BY <1>1, <1>4 DEF SafetyInv, Control, Cloud
  <2>15. mem.seq <= next.seq /\ \A i \in Job : i # k => View(next, i) = View(mem, i)
    BY <2>4, <2>10, FinishFrame
  <2> QED
    BY <1>1, <1>2, <1>4, <2>2, <2>5, <2>11, <2>12, <2>13, <2>14, <2>15, WriteStep
<1>5. CASE /\ phase[c] = "recover" /\ todo \cap JobsOf(c) = {}
           /\ phase' = [phase EXCEPT ![c] = "sweep"] /\ UNCHANGED <<coordinator, faults>>
  BY <1>3, <1>5
<1>6. CASE /\ phase[c] = "sweep"
           /\ phase' = [phase EXCEPT ![c] = "run"] /\ UNCHANGED <<coordinator, faults>>
  BY <1>3, <1>6
<1> QED
  BY <1>4, <1>5, <1>6 DEF SweepFences

\* Where control is after a failed pass.
LEMMA FailedPass ==
  ASSUME TypeOK, TypeOK', SafetyInv, FailPass, up, phase[Local] # "run", booting' = booting,
         UNCHANGED <<exec, worker, offers, issued, decided, todo, store, proof>>
  PROVE  Control' /\ (Reconciled' => Reconciled)
<1>1. Local \in Connector /\ todo \subseteq Job /\ \A j \in Job : OwnerOf[j] \in Connector
  BY HandoffAssumption, JournalAssumption DEF TypeOK
<1>2. CASE booting
  <2>1. up' = FALSE /\ phase' = phase
    BY <1>2 DEF FailPass
  <2>2. \A c \in Connector : exec[c] = Nil /\ worker[c] = Nil
    BY <1>2 DEF SafetyInv, Control
  <2> QED
    BY <1>1, <2>1, <2>2 DEF SafetyInv, Control, Cloud, Reconciled
<1>3. CASE ~booting
  <2>1. up' = up /\ phase'[Local] = "run" /\ \A c \in Connector : c # Local => phase'[c] = phase[c]
    BY <1>1, <1>3 DEF FailPass, TypeOK
  <2> QED
    BY <1>1, <1>3, <2>1 DEF SafetyInv, Control, Cloud, Reconciled
<1> QED
  BY <1>2, <1>3

\* The last fence of an interrupted local submission has its outcome.
LEMMA FencesDone ==
  ASSUME TypeOK, TypeOK', SafetyInv, booting, up, phase[Local] = "fence", Unjournaled = {},
         UNCHANGED coordinator, UNCHANGED <<store, proof, marks, exec, worker, calls, decided>>,
         issued' = issued, todo' = todo, Control', up'
  PROVE  SafetyInv'
<1>1. mem' = mem /\ disk' = disk /\ poisoned' = poisoned /\ ~poisoned /\ Local \in Connector
      /\ \A c \in Connector : exec[c] = Nil
  BY HandoffAssumption DEF SafetyInv, Control, coordinator
<1>2. \A j \in Job : Untouched(j) /\ Steady(j)
  BY <1>1, NoExec, NoErrand, NoCalls DEF Untouched, SameView, SameRow, SameWork, Steady
<1>3. Grows
  BY <1>1 DEF Grows, TypeOK, Document
<1>4. JobsOK'
  BY <1>2, <1>3, JobsKept DEF SafetyInv
<1>5. CopiesAgree'
  <2>1. ~poisoned' => SameLedger(mem', disk')
    BY <1>1 DEF SafetyInv, CopiesAgree
  <2>2. \A j \in todo' : j \in Job /\ j \in todo /\ proof'[j] = proof[j]
    BY DEF TypeOK
  <2>3. \A j \in Job : ~Cloud(j) /\ store'[j] = "intent" =>
          Run(j)' # Nil \/ (store[j] = "intent" /\ Run(j) = Nil)
    BY <1>2 DEF Untouched, SameWork
  <2> QED
    BY <1>2, <2>1, <2>2, <2>3, CopiesKept DEF SafetyInv
<1>6. ASSUME NEW j \in Job, ~Cloud(j) PROVE Accounted(j)'
  <2>1. OwnerOf[j] = Local /\ Run(j) = Nil /\ Run(j)' = Nil /\ Kind(j) # "cloud" /\ JobInv(j)
    BY <1>1, <1>2, <1>6, Owners, JobFacts DEF Untouched, SameWork
  <2>2. ASSUME NEW r \in FencesIn(disk, j), Unknown(OutcomesIn(disk, j), r.id)
        PROVE  store[j] \notin {"intent", "uncertain", "retry", "failed"}
    <3>1. FencesIn(mem, j) = FencesIn(disk, j) /\ OutcomesIn(mem, j) = OutcomesIn(disk, j)
      BY <1>1, MemoryIsFile
    <3>2. ~r.cloud
      BY <2>1, <2>2 DEF JobInv, JobOK, LedgerOK, IdsOK
    <3>3. r \in mem.reservations /\ r.job = j /\ ~\E h \in mem.handoffs : h.job = j /\ h.id = r.id
      BY <2>2, <3>1 DEF FencesIn, OutcomesIn, Unknown
    <3> QED
      BY <2>1, <3>2, <3>3 DEF Unjournaled
  <2> QED
    BY <1>1, <2>1, <2>2 DEF Accounted
<1>7. Booted'
  <2>1. \A j : Cloud(j)' = Cloud(j)
    BY DEF Cloud
  <2> QED
    BY <1>6, <2>1 DEF Booted
<1> QED
  BY <1>4, <1>5, <1>7 DEF SafetyInv

\* reconcile_local_route_state journals interrupted submissions.
LEMMA LocalFenceKeeps ==
  ASSUME TypeOK, TypeOK', Inductive, SafetyInv, LocalFence
  PROVE  SafetyInv'
<1>1. /\ UNCHANGED <<exec, calls, store, proof>> /\ UNCHANGED <<decided, marks>> /\ UNCHANGED worker
      /\ UNCHANGED <<booting, todo, offers>> /\ issued' = issued
      /\ up /\ phase[Local] = "fence"
  BY DEF LocalFence, InPass, queue, history
<1>2. Local \in Connector /\ todo \subseteq Job /\ (\A j \in Job : OwnerOf[j] \in Connector)
      /\ exec[Local] = Nil /\ worker[Local] = Nil
  BY <1>1, HandoffAssumption, JournalAssumption DEF TypeOK, SafetyInv, Control
<1>3. CASE /\ Unjournaled = {} /\ phase' = [phase EXCEPT ![Local] = "project"]
           /\ UNCHANGED <<coordinator, faults, up>>
  <2>1. phase'[Local] = "project" /\ \A c \in Connector : c # Local => phase'[c] = phase[c]
    BY <1>2, <1>3 DEF TypeOK
  <2>2. mem' = mem /\ disk' = disk /\ poisoned' = poisoned /\ up' = up
        /\ UNCHANGED <<store, proof, marks, exec, worker, calls, decided, issued>>
        /\ UNCHANGED <<store, proof, marks, exec, worker, calls, decided>>
    BY <1>1, <1>3 DEF coordinator
  <2>3. Control'
    BY <1>1, <1>2, <2>1, <2>2 DEF SafetyInv, Control, Cloud
  <2>4. CASE booting
    BY <1>1, <1>3, <2>2, <2>3, <2>4, FencesDone
  <2>5. CASE ~booting
    <3>1. SameLedger(mem', mem) /\ SameLedger(disk', disk) /\ todo' \subseteq todo
          /\ (up' => up) /\ (Reconciled' => Reconciled)
      BY <1>1, <2>2, <2>5 DEF SameLedger, Reconciled
    <3> QED
      BY <2>2, <2>3, <3>1, QuietStep
  <2> QED
    BY <2>4, <2>5
<1>4. CASE poisoned /\ FailPass /\ UNCHANGED <<coordinator, faults>>
  <2>1. mem' = mem /\ disk' = disk /\ poisoned' = poisoned
        /\ UNCHANGED <<store, proof, marks, exec, worker, calls, decided, issued>>
    BY <1>1, <1>4 DEF coordinator
  <2>2. Control' /\ (Reconciled' => Reconciled)
    BY <1>1, <1>4, FailedPass
  <2>3. SameLedger(mem', mem) /\ SameLedger(disk', disk) /\ todo' \subseteq todo /\ (up' => up)
    BY <1>1, <2>1 DEF SameLedger
  <2> QED
    BY <2>1, <2>2, <2>3, QuietStep
<1>5. ASSUME ~poisoned, NEW r \in Unjournaled, NEW fault \in FaultChoice,
             Apply(Committed(mem, Finish(mem, r, "ambiguous", FALSE), disk, fault)),
             IF Committed(mem, Finish(mem, r, "ambiguous", FALSE), disk, fault).ok
             THEN UNCHANGED <<up, phase>> ELSE FailPass
      PROVE  SafetyInv'
  <2>1. PICK next : next = Finish(mem, r, "ambiguous", FALSE)
    OBVIOUS
  <2>2. Written(next) /\ ((UNCHANGED <<up, phase>> /\ WriteSucceeded(next)) \/ FailPass)
    BY <1>5, <2>1, WriteLeaves
  <2>3. r \in mem.reservations /\ r \in Reservation /\ "ambiguous" \in Outcome
    BY <1>5, DocumentFields DEF Unjournaled, Outcome, TypeOK
  <2>4. PICK k \in Job : k = r.job
    BY <2>3 DEF Reservation
  <2>5. OwnerOf[k] = Local /\ ~Cloud(k) /\ k \notin todo
    BY <1>5, <2>4 DEF Unjournaled, Cloud, SafetyInv, Control
  <2>6. Run(k) = Nil /\ ErrandOf(k) = Nil
    BY <1>2, <2>5, Owners
  <2>7. Unknown(OutcomesIn(disk, k), r.id)
    <3>1. OutcomesIn(mem, k) = OutcomesIn(disk, k)
      BY <1>5, MemoryIsFile
    <3> QED
      BY <1>5, <2>4, <3>1 DEF Unjournaled, OutcomesIn, Unknown
  <2>8. PICK h \in Handoff, s \in Consumed : JournaledAs(mem, next, r, "ambiguous", h, s)
    BY <1>5, <2>1, <2>3, <2>4, FinishWrites
  <2>9. \A i \in Job : ErrandOf(i)' = ErrandOf(i)
    BY <1>1, NoErrand
  <2>10. Untouched(k) \/ (JobInv(k)' /\ (Cloud(k) \/ Accounted(k)'))
    <3>1. CASE disk' = next
      <4>1. /\ JobOK(FencesIn(next, k), OutcomesIn(next, k), BarriersIn(next, k), Kind(k), issued,
                     next.seq, store[k], proof[k], Run(k), ErrandOf(k), Taken(k), Times(k),
                     Told(k, "release"), Told(k, "confirm"), Marked(k))
            /\ \A q \in FencesIn(next, k) : ~Unknown(OutcomesIn(next, k), q.id)
        BY <1>5, <2>3, <2>4, <2>5, <2>6, <2>7, <2>8, LeftBehindJob
      <4>2. JobInv(k)'
        BY <1>1, <2>9, <3>1, <4>1, WrittenJob
      <4>3. Accounted(k)'
        BY <3>1, <4>1 DEF Accounted
      <4> QED
        BY <4>2, <4>3
    <3>2. CASE disk' = disk
      BY <1>1, <2>9, <3>2, NoExec, NoCalls DEF Untouched, SameView, SameRow, SameWork
    <3> QED
      BY <2>2, <3>1, <3>2 DEF Written
  <2>11. up' => Steady(k)
    <3>1. CASE booting /\ up'
      <4>1. WriteSucceeded(next)
        BY <2>2, <3>1 DEF FailPass
      <4> QED
        BY <4>1 DEF WriteSucceeded, Steady
    <3>2. CASE ~booting
      <4>1. Accounted(k)
        BY <1>1, <2>5, <3>2 DEF SafetyInv, Booted, Reconciled
      <4>2. r \in FencesIn(disk, k)
        BY <1>5, <2>3, <2>4, FenceFacts
      <4>3. store[k] # "intent"
        BY <2>6, <2>7, <4>1, <4>2 DEF Accounted
      <4> QED
        BY <1>1, <2>5, <4>3, SteadyAtRest
    <3> QED
      BY <3>1, <3>2
  <2>12. Control' /\ (Reconciled' => Reconciled) /\ (up' => up)
    <3>1. CASE UNCHANGED <<up, phase>> /\ WriteSucceeded(next)
      BY <1>1, <3>1 DEF SafetyInv, Control, Cloud, WriteSucceeded, Reconciled
    <3>2. CASE FailPass
      BY <1>1, <3>2, FailedPass
    <3> QED
      BY <2>2, <3>1, <3>2
  <2>13. mem.seq <= next.seq /\ \A i \in Job : i # k => View(next, i) = View(mem, i)
    BY <2>4, <2>8, FinishFrame
  <2>14. decided \subseteq decided' /\ marks' = marks /\ todo' \subseteq todo
    BY <1>1
  <2> QED
    BY <1>1, <1>5, <2>2, <2>9, <2>10, <2>11, <2>12, <2>13, <2>14, WriteStep
<1> QED
  BY <1>3, <1>4, <1>5 DEF LocalFence

\* Document e is d without some outcomes.
Thinned(d, e) ==
  /\ e.seq = d.seq /\ e.reservations = d.reservations /\ e.consumed = d.consumed
  /\ e.handoffs \subseteq d.handoffs
  /\ \A h \in d.handoffs : h.outcome = "ambiguous" => h \in e.handoffs

\* Outcomes are dropped, none of them of a job whose row does not have it.
LEMMA DropStep ==
  ASSUME TypeOK, TypeOK', SafetyInv, ~poisoned, Control', up' => up, Reconciled' => Reconciled,
         Reconciled, NEW next, Written(next), Thinned(mem, next),
         UNCHANGED <<exec, calls, store, proof>>, UNCHANGED <<decided, marks>>, UNCHANGED worker,
         issued' = issued, todo' = todo,
         \A j \in Job : \/ View(next, j) = View(mem, j)
                        \/ j \notin todo /\ (Cloud(j) \/ store[j] # "intent")
  PROVE  SafetyInv'
<1>1. SameLedger(mem, disk) /\ mem.seq = disk.seq /\ disk.seq \in Nat /\ issued \in Nat
  BY InStep0 DEF SafetyInv, SameLedger, TypeOK, Document
<1>2. \A i \in Job : Run(i)' = Run(i) /\ Taken(i)' = Taken(i) /\ Times(i)' = Times(i)
                     /\ ErrandOf(i)' = ErrandOf(i)
  BY NoExec, NoCalls, NoErrand
<1>3. Grows
  BY <1>1 DEF Grows, Written, Thinned
<1>4. ~poisoned' => SameLedger(mem', disk')
  BY DEF Written, SameLedger
<1>5. (poisoned => poisoned') /\ \A j \in todo' : j \in todo /\ proof'[j] = proof[j]
  OBVIOUS
<1>6. ASSUME NEW j \in Job, View(next, j) = View(mem, j)
      PROVE  Untouched(j) /\ Steady(j)
  <2>1. View(disk', j) = View(disk, j) /\ View(mem', j) = View(disk, j)
    BY <1>1, <1>6, WrittenView
  <2> QED
    BY <1>2, <2>1 DEF Untouched, SameView, SameRow, SameWork, Steady
<1>7. ASSUME NEW j \in Job, j \notin todo, Cloud(j) \/ store[j] # "intent"
      PROVE  /\ Steady(j)
             /\ Untouched(j) \/ (JobInv(j)' /\ (Cloud(j) \/ Accounted(j)'))
  <2>1. Steady(j)
    BY <1>7, SteadyAtRest
  <2>2. CASE disk' = disk
    BY <1>2, <2>1, <2>2 DEF Untouched, SameView, SameRow, SameWork
  <2>3. CASE disk' = next
    <3>1. /\ FencesIn(mem, j) = FencesIn(disk, j) /\ OutcomesIn(mem, j) = OutcomesIn(disk, j)
          /\ BarriersIn(mem, j) = BarriersIn(disk, j)
      BY MemoryIsFile
    <3>2. /\ FencesIn(next, j) = FencesIn(disk, j) /\ BarriersIn(next, j) = BarriersIn(disk, j)
          /\ OutcomesIn(next, j) \in SUBSET OutcomesIn(disk, j) /\ next.seq = disk.seq
          /\ \A h \in OutcomesIn(disk, j) : h.outcome = "ambiguous" => h \in OutcomesIn(next, j)
      BY <1>1, <3>1 DEF Thinned, FencesIn, OutcomesIn, BarriersIn
    <3>3. JobInv(j) /\ (Kind(j) = "cloud" \/ store[j] # "intent")
      BY <1>7, JobFacts, Owners
    <3>4. JobOK(FencesIn(disk, j), OutcomesIn(next, j), BarriersIn(disk, j), Kind(j), issued,
                disk.seq, store[j], proof[j], Run(j), ErrandOf(j), Taken(j), Times(j),
                Told(j, "release"), Told(j, "confirm"), Marked(j))
      BY <1>1, <3>2, <3>3, JobDrops DEF JobInv
    <3>5. JobInv(j)'
      <4>1. JobOK(FencesIn(disk', j), OutcomesIn(disk', j), BarriersIn(disk', j), Kind(j), issued,
                  disk'.seq, store[j], proof[j], Run(j), ErrandOf(j)', Taken(j), Times(j),
                  Told(j, "release"), Told(j, "confirm"), Marked(j))
        BY <1>2, <2>3, <3>2, <3>4
      <4> QED
        BY <4>1, WrittenJob
    <3>6. Cloud(j) \/ Accounted(j)'
      <4>1. SUFFICES ASSUME ~Cloud(j) PROVE Accounted(j)'
        OBVIOUS
      <4>2. Accounted(j)
        BY <4>1 DEF SafetyInv, Booted
      <4>3. \A r \in FencesIn(disk, j) :
              Unknown(OutcomesIn(next, j), r.id) => Unknown(OutcomesIn(disk, j), r.id)
        <5>1. FenceOK(FencesIn(disk, j), OutcomesIn(disk, j))
          BY <3>3 DEF JobInv, JobOK, LedgerOK
        <5> QED
          BY <3>2, <5>1 DEF FenceOK, Unknown
      <4> QED
        BY <1>2, <2>3, <3>2, <4>2, <4>3 DEF Accounted
    <3> QED
      BY <2>1, <3>5, <3>6
  <2> QED
    BY <2>2, <2>3 DEF Written
<1>8. \A i \in Job :
        /\ up' => Steady(i)
        /\ \/ Untouched(i)
           \/ /\ JobInv(i)' /\ (Cloud(i) \/ Accounted(i)')
              /\ ~Cloud(i) /\ store'[i] = "intent" =>
                   Run(i)' # Nil \/ (store[i] = "intent" /\ Run(i) = Nil)
  BY <1>2, <1>6, <1>7
<1> QED
  BY <1>3, <1>4, <1>5, <1>8, Assembled

\* The server's acknowledgement of evidence.
LEMMA AcknowledgeHandoffsKeeps ==
  ASSUME TypeOK, TypeOK', Inductive, SafetyInv, NEW c \in Connector, NEW through \in Nat,
         AcknowledgeHandoffs(c, through)
  PROVE  SafetyInv'
<1>1. /\ UNCHANGED <<exec, calls, store, proof>> /\ UNCHANGED <<decided, marks>> /\ UNCHANGED worker
      /\ UNCHANGED <<up, booting, phase, todo, offers>> /\ issued' = issued /\ todo' = todo
      /\ up /\ phase[c] = "run" /\ c # Local /\ ~poisoned
  BY DEF AcknowledgeHandoffs, Working, queue, history
<1>2. PICK fault \in FaultChoice : Apply(Committed(mem, Acknowledge(mem, c, through), disk, fault))
  BY DEF AcknowledgeHandoffs
<1>3. PICK next : next = Acknowledge(mem, c, through)
  OBVIOUS
<1>4. Written(next)
  BY <1>2, <1>3, WriteLeaves
<1>5. /\ next.seq = mem.seq /\ next.reservations = mem.reservations /\ next.consumed = mem.consumed
      /\ next.handoffs \subseteq mem.handoffs
      /\ \A h \in mem.handoffs : OwnerOf[h.job] # c \/ h.outcome = "ambiguous" => h \in next.handoffs
  BY <1>3, ViewDrop DEF TypeOK
<1>6. Thinned(mem, next)
  BY <1>5 DEF Thinned
<1>7. ~booting /\ \A j \in todo : OwnerOf[j] # c
  BY <1>1 DEF SafetyInv, Control
<1>8. \A j \in Job : \/ View(next, j) = View(mem, j)
                     \/ j \notin todo /\ (Cloud(j) \/ store[j] # "intent")
  <2>1. ASSUME NEW j \in Job, OwnerOf[j] # c PROVE View(next, j) = View(mem, j)
    BY <1>5, <2>1 DEF View, FencesIn, OutcomesIn, BarriersIn
  <2> QED
    BY <1>1, <1>7, <2>1 DEF Cloud
<1>9. Control'
  BY <1>1, <1>7 DEF SafetyInv, Control, Cloud
<1>10. Reconciled /\ (up' => up)
  BY <1>1, <1>7 DEF Reconciled
<1> QED
  BY <1>1, <1>4, <1>6, <1>8, <1>9, <1>10, DropStep

\* compact_local_terminal_handoffs.
LEMMA LocalCompactKeeps ==
  ASSUME TypeOK, TypeOK', Inductive, SafetyInv, LocalCompact
  PROVE  SafetyInv'
<1>1. /\ UNCHANGED <<exec, calls, store, proof>> /\ UNCHANGED <<decided, marks>> /\ UNCHANGED worker
      /\ UNCHANGED <<todo, offers>> /\ issued' = issued /\ todo' = todo
      /\ up /\ phase[Local] = "compact"
  BY DEF LocalCompact, InPass, queue, history
<1>2. Local \in Connector /\ todo \subseteq Job /\ (\A j \in Job : OwnerOf[j] \in Connector)
      /\ Reconciled
  BY <1>1, HandoffAssumption, JournalAssumption DEF TypeOK, Reconciled
<1> DEFINE gone == {h \in mem.handoffs : DurablyProjected(h)}
           Done == up' = up /\ booting' = FALSE /\ phase' = [phase EXCEPT ![Local] = "run"]
           Failed == FailPass /\ UNCHANGED booting
<1>3. ASSUME Done PROVE Control' /\ up' = up
  <2>1. phase'[Local] = "run" /\ \A d \in Connector : d # Local => phase'[d] = phase[d]
    BY <1>2, <1>3 DEF TypeOK
  <2> QED
    BY <1>1, <1>2, <1>3, <2>1 DEF SafetyInv, Control, Cloud
<1>4. ASSUME Failed PROVE Control'
  <2>1. FailPass /\ booting' = booting /\ up /\ phase[Local] # "run"
    BY <1>1, <1>4
  <2> QED
    BY <1>1, <2>1, FailedPass
<1>5. ASSUME UNCHANGED <<coordinator, faults>>, Done \/ Failed PROVE SafetyInv'
  <2>1. Control' /\ (up' => up)
    BY <1>1, <1>3, <1>4, <1>5
  <2>2. mem' = mem /\ disk' = disk /\ poisoned' = poisoned
        /\ UNCHANGED <<store, proof, marks, exec, worker, calls, decided, issued>>
    BY <1>1, <1>5 DEF coordinator
  <2>3. SameLedger(mem', mem) /\ SameLedger(disk', disk) /\ todo' \subseteq todo
        /\ (Reconciled' => Reconciled)
    BY <1>1, <1>2, <2>2 DEF SameLedger
  <2> QED
    BY <2>1, <2>2, <2>3, QuietStep
<1>6. ASSUME ~poisoned, NEW fault \in FaultChoice, Done \/ Failed,
             Apply(Committed(mem, Compact(mem, gone), disk, fault))
      PROVE  SafetyInv'
  <2>1. PICK next : next = Compact(mem, gone)
    OBVIOUS
  <2>2. Written(next)
    BY <1>6, <2>1, WriteLeaves
  <2>3. /\ next.seq = mem.seq /\ next.reservations = mem.reservations /\ next.consumed = mem.consumed
        /\ next.handoffs = mem.handoffs \ gone
    BY <2>1, ViewDrop DEF TypeOK
  <2>4. \A h \in gone : OwnerOf[h.job] = Local /\ h.outcome # "ambiguous" /\ store[h.job] # "intent"
    BY DEF DurablyProjected
  <2> HIDE DEF gone
  <2>5. Thinned(mem, next)
    BY <2>3, <2>4 DEF Thinned
  <2>6. \A j \in Job : \/ View(next, j) = View(mem, j)
                       \/ j \notin todo /\ (Cloud(j) \/ store[j] # "intent")
    <3>1. ASSUME NEW j \in Job, \A h \in gone : h.job # j PROVE View(next, j) = View(mem, j)
      BY <2>3, <3>1 DEF View, FencesIn, OutcomesIn, BarriersIn
    <3>2. ASSUME NEW j \in Job, NEW h \in gone, h.job = j
          PROVE  j \notin todo /\ store[j] # "intent"
      BY <2>4, <3>2 DEF SafetyInv, Control, Cloud
    <3> QED
      BY <3>1, <3>2
  <2>7. Control' /\ (up' => up)
    BY <1>1, <1>3, <1>4, <1>6
  <2> QED
    BY <1>1, <1>2, <1>6, <2>2, <2>5, <2>6, <2>7, DropStep
<1> QED
  BY <1>5, <1>6 DEF LocalCompact

\* RouteCoordinator::open on what the file holds.
LEMMA RestartKeeps ==
  ASSUME TypeOK, TypeOK', Inductive, SafetyInv, Restart
  PROVE  SafetyInv'
<1>1. /\ UNCHANGED <<exec, worker, calls, store, proof>> /\ UNCHANGED <<decided, marks>>
      /\ UNCHANGED <<offers, issued>> /\ ~up /\ up' = TRUE /\ booting' = TRUE /\ poisoned' = FALSE
      /\ mem' = Reopened(disk) /\ disk' = mem'
      /\ phase' = [c \in Connector |-> IF c = Local THEN "fence" ELSE "recover"]
      /\ todo' = {j \in Job : Cloud(j) /\ store[j] \in {"intent", "uncertain"} /\ proof[j] # 0}
  BY DEF Restart, queue, history
<1>2. SameLedger(disk', disk) /\ disk'.seq = disk.seq /\ disk.seq \in Nat /\ issued \in Nat
  <2>1. disk \in Document
    BY DEF TypeOK
  <2>2. SameLedger(Reopened(disk), disk)
    BY <2>1, RoutesOnly
  <2> QED
    BY <1>1, <2>2 DEF TypeOK, Document, SameLedger
<1>3. Local \in Connector /\ \A j \in Job : OwnerOf[j] \in Connector
  BY HandoffAssumption, JournalAssumption
<1>4. \A c \in Connector : exec'[c] = Nil /\ worker'[c] = Nil
  BY <1>1 DEF SafetyInv, Control
<1>5. phase'[Local] = "fence" /\ \A c \in Connector : c # Local => phase'[c] = "recover"
  BY <1>1, <1>3
<1>6. \A c \in Connector : phase'[c] # "run"
  BY <1>5
<1>7. \A j \in todo' : /\ Cloud(j) /\ phase'[OwnerOf[j]] = "recover"
                       /\ store[j] \in {"intent", "uncertain"} /\ proof[j] # 0
  BY <1>1, <1>3, <1>5 DEF Cloud
<1>8. Control'
  BY <1>1, <1>3, <1>4, <1>6, <1>7 DEF SafetyInv, Control, Cloud
<1>9. Grows
  BY <1>1, <1>2 DEF Grows
<1>10. \A j \in Job : Untouched(j)
  BY <1>1, <1>2, SameViews, NoExec, NoErrand, NoCalls DEF Untouched, SameView, SameRow, SameWork
<1>11. JobsOK'
  BY <1>8, <1>9, <1>10, JobsKept DEF SafetyInv
<1>12. Booted'
  BY <1>1, <1>5 DEF Booted, Reconciled
<1>13. CopiesAgree'
  BY <1>1 DEF CopiesAgree, Agree, SameLedger
<1> QED
  BY <1>8, <1>11, <1>12, <1>13 DEF SafetyInv

\* An offer being prepared: its fence is in the file and its job waits.
LEMMA Preparing ==
  ASSUME TypeOK, SafetyInv, NEW c \in Connector, worker[c] # Nil, worker[c].kind = "prepare"
  PROVE  \E k \in Job :
           /\ k = worker[c].offer.job /\ OwnerOf[k] = c /\ k \notin todo /\ ErrandOf(k) = worker[c]
           /\ ErrandJob(worker[c]) = k /\ Cloud(k) /\ store[k] \in Offerable /\ Run(k) = Nil
           /\ worker[c].handle \in FencesIn(disk, k) /\ ~booting /\ phase[c] = "run"
<1>1. PICK k \in Job : /\ k = worker[c].offer.job /\ OwnerOf[k] = c /\ k \notin todo
                       /\ ErrandOf(k) = worker[c] /\ ErrandJob(worker[c]) = k
                       /\ ~booting /\ phase[c] = "run"
  BY OnErrand DEF ErrandJob
<1>2. ErrandOK(FencesIn(disk, k), OutcomesIn(disk, k), Kind(k), store[k], worker[c], Taken(k),
               Told(k, "release"), Told(k, "confirm"))
  BY <1>1, JobFacts DEF JobInv, JobOK
<1>3. Kind(k) = "cloud" /\ store[k] \in Offerable /\ worker[c].handle \in FencesIn(disk, k)
  BY <1>2 DEF ErrandOK
<1>4. Cloud(k) /\ Run(k) = Nil
  BY <1>3, Owners, JobFacts DEF Offerable
<1> QED
  BY <1>1, <1>3, <1>4

\* prepare_cloud_job_with_facts, and the compensation when it refuses.
LEMMA PrepareOfferKeeps ==
  ASSUME TypeOK, TypeOK', Inductive, SafetyInv, NEW c \in Connector, PrepareOffer(c)
  PROVE  SafetyInv'
<1>1. /\ UNCHANGED <<exec, calls>> /\ UNCHANGED exec /\ UNCHANGED calls /\ UNCHANGED <<decided, marks>>
      /\ UNCHANGED <<up, booting, phase, todo, offers>> /\ UNCHANGED <<issued, decided>>
      /\ issued' = issued /\ marks' = marks
      /\ up /\ phase[c] = "run" /\ worker[c] # Nil /\ worker[c].kind = "prepare"
      /\ worker' = [worker EXCEPT ![c] = Nil]
  BY DEF PrepareOffer, Working, history
<1>2. PICK e : e = worker[c]
  OBVIOUS
<1>3. PICK k \in Job :
        /\ k = e.offer.job /\ OwnerOf[k] = c /\ k \notin todo /\ ErrandOf(k) = e
        /\ ErrandJob(worker[c]) = k /\ Cloud(k) /\ store[k] \in Offerable /\ Run(k) = Nil
        /\ e.handle \in FencesIn(disk, k) /\ ~booting
  BY <1>1, <1>2, Preparing
<1>4. ErrandOf(k)' = Nil /\ \A i \in Job : i # k => ErrandOf(i)' = ErrandOf(i)
  BY <1>1, <1>3, WorkerFrame
<1>5. \A i \in Job : Run(i)' = Run(i) /\ Taken(i)' = Taken(i) /\ Times(i)' = Times(i)
  BY <1>1, NoExec, NoCalls
<1>6. JobOK(FencesIn(disk, k), OutcomesIn(disk, k), BarriersIn(disk, k), Kind(k), issued, disk.seq,
            store[k], proof[k], Run(k), e, Taken(k), Times(k), Told(k, "release"),
            Told(k, "confirm"), Marked(k))
      /\ issued \in Nat /\ disk.seq \in Nat
  BY <1>3, JobFacts DEF JobInv
<1>7. worker'[c] = Nil /\ \A d \in Connector : d # c => worker'[d] = worker[d]
  BY <1>1 DEF TypeOK
<1>8. (Reconciled' => Reconciled) /\ (up' => up) /\ marks \subseteq marks' /\ todo' \subseteq todo
      /\ decided \subseteq decided'
  BY <1>1 DEF Reconciled
<1>9. e # Nil /\ e.kind = "prepare" /\ todo \subseteq Job
  BY <1>1, <1>2 DEF TypeOK
<1>10. ASSUME UNCHANGED coordinator,
              NEW st2, NEW pf2, store' = [store EXCEPT ![k] = st2], proof' = [proof EXCEPT ![k] = pf2],
              JobOK(FencesIn(disk, k), OutcomesIn(disk, k), BarriersIn(disk, k), Kind(k), issued,
                    disk.seq, st2, pf2, Run(k), Nil, Taken(k), Times(k), Told(k, "release"),
                    Told(k, "confirm"), Marked(k))
       PROVE  SafetyInv'
  <2>1. store'[k] = st2 /\ proof'[k] = pf2 /\ \A i \in Job : i # k => SameRow(i)
    BY <1>10 DEF TypeOK, SameRow
  <2>2. JobInv(k)'
    BY <1>1, <1>4, <1>5, <1>10, <2>1, SameJournal, NoDecision, Owners DEF JobInv
  <2>3. Control'
    <3>1. Local \in Connector /\ (\A j \in Job : OwnerOf[j] \in Connector)
      BY HandoffAssumption, JournalAssumption
    <3> QED
      BY <1>1, <1>3, <1>7, <1>9, <1>10, <2>1, <3>1 DEF SafetyInv, Control, coordinator, SameRow, Cloud
  <2>4. \A i \in Job : i # k => SameRow(i) /\ SameWork(i)
    BY <1>4, <1>5, <2>1 DEF SameWork
  <2>5. \A i \in todo' : i \in todo /\ proof'[i] = proof[i]
    BY <1>1, <1>3, <1>9, <2>1 DEF SameRow
  <2> QED
    BY <1>1, <1>3, <1>8, <1>10, <2>2, <2>3, <2>4, <2>5, QueueStepOf
<1>11. CASE /\ store[k] \in {"absent", "pending", "retry"}
            /\ store' = [store EXCEPT ![k] = "pending"]
            /\ proof' = [proof EXCEPT ![k] = e.offer.id]
            /\ UNCHANGED <<coordinator, faults>>
  <2>1. JobOK(FencesIn(disk, k), OutcomesIn(disk, k), BarriersIn(disk, k), Kind(k), issued,
              disk.seq, "pending", e.offer.id, Run(k), Nil, Taken(k), Times(k), Told(k, "release"),
              Told(k, "confirm"), Marked(k))
    BY <1>3, <1>6, <1>9, <1>11, JobPrepared
  <2> QED
    BY <1>10, <1>11, <2>1
<1>12. CASE UNCHANGED <<store, proof>> /\ UNCHANGED <<coordinator, faults>>
  <2>1. JobOK(FencesIn(disk, k), OutcomesIn(disk, k), BarriersIn(disk, k), Kind(k), issued,
              disk.seq, store[k], proof[k], Run(k), Nil, Taken(k), Times(k), Told(k, "release"),
              Told(k, "confirm"), Marked(k))
    BY <1>6, JobStops
  <2>2. store' = [store EXCEPT ![k] = store[k]] /\ proof' = [proof EXCEPT ![k] = proof[k]]
    BY <1>12 DEF TypeOK
  <2> QED
    BY <1>10, <1>12, <2>1, <2>2
<1>13. ASSUME UNCHANGED <<store, proof>>, store[k] \notin {"absent", "pending", "retry"}, ~poisoned,
              CanFinish(mem, e.handle, "rejected"), NEW fault \in FaultChoice,
              Apply(Committed(mem, Finish(mem, e.handle, "rejected", FALSE), disk, fault))
       PROVE  SafetyInv'
  <2>0. PICK r : r = e.handle
    OBVIOUS
  <2>1. PICK next : next = Finish(mem, r, "rejected", FALSE)
    OBVIOUS
  <2>2. Written(next)
    BY <1>13, <2>0, <2>1, WriteLeaves
  <2>3. r \in mem.reservations /\ r.job = k /\ "rejected" \in Outcome
    BY <1>3, <1>13, <2>0 DEF CanFinish, Validates, Outcome, FencesIn
  <2>4. PICK h \in Handoff, s \in Consumed : JournaledAs(mem, next, r, "rejected", h, s)
    BY <1>13, <2>1, <2>3, FinishWrites
  <2>5. UNCHANGED <<exec, calls, store, proof>>
    BY <1>1, <1>13
  <2>6. JobInv(k)'
    <3>1. CASE disk' = next
      <4>1. store[k] \in {"absent", "retry", "failed", "dropped"}
        BY <1>3, <1>13 DEF Offerable
      <4>2. JobOK(FencesIn(next, k), OutcomesIn(next, k), BarriersIn(next, k), Kind(k), issued,
                  next.seq, store[k], proof[k], Run(k), Nil, Taken(k), Times(k),
                  Told(k, "release"), Told(k, "confirm"), Marked(k))
        BY <1>3, <1>13, <2>3, <2>4, <4>1, ReleasedJob
      <4> QED
        BY <1>1, <1>4, <2>5, <3>1, <4>2, WrittenJob
    <3>2. CASE disk' = disk
      <4>1. JobOK(FencesIn(disk, k), OutcomesIn(disk, k), BarriersIn(disk, k), Kind(k), issued,
                  disk.seq, store[k], proof[k], Run(k), Nil, Taken(k), Times(k),
                  Told(k, "release"), Told(k, "confirm"), Marked(k))
        BY <1>6, JobStops
      <4> QED
        BY <1>1, <1>4, <2>5, <3>2, <4>1, WrittenJob
    <3> QED
      BY <2>2, <3>1, <3>2 DEF Written
  <2>7. Steady(k)
    BY <1>1, <1>3, SteadyAtRest
  <2>8. Control'
    <3>1. Local \in Connector /\ (\A j \in Job : OwnerOf[j] \in Connector)
      BY HandoffAssumption, JournalAssumption
    <3> QED
      BY <1>1, <1>3, <1>7, <1>9, <2>5, <3>1 DEF SafetyInv, Control, Cloud
  <2>9. mem.seq <= next.seq /\ \A i \in Job : i # k => View(next, i) = View(mem, i)
    BY <2>3, <2>4, FinishFrame
  <2> QED
    BY <1>1, <1>3, <1>4, <1>8, <1>13, <2>2, <2>5, <2>6, <2>7, <2>8, <2>9, WriteStep
<1> QED
  BY <1>2, <1>3, <1>11, <1>12, <1>13 DEF PrepareOffer

\* register_authoritative: a fence for the offer, or the one it has.
LEMMA RegisterOfferKeeps ==
  ASSUME TypeOK, TypeOK', Inductive, SafetyInv, NEW o \in offers, RegisterOffer(o)
  PROVE  SafetyInv'
<1>1. PICK k \in Job, c \in Connector : k = o.job /\ c = OwnerOf[k]
  BY Owners DEF TypeOK, Offer
<1>2. /\ UNCHANGED <<exec, calls, store, proof>> /\ UNCHANGED <<decided, marks>>
      /\ UNCHANGED <<up, booting, phase, todo, offers>> /\ issued' = issued /\ marks' = marks
      /\ up /\ phase[c] = "run" /\ worker[c] = Nil /\ ~poisoned /\ store[k] \in Offerable
  BY <1>1 DEF RegisterOffer, Working, queue, history, Offerable
<1>3. o \in Offer /\ Cloud(k) /\ o.gen = o.id /\ o.id \in 1..issued
  BY <1>1 DEF SafetyInv, Control, TypeOK
<1>4. PICK next \in {mem, Register(mem, o)}, fault \in FaultChoice :
        LET w == Committed(mem, next, disk, fault)
            handle == CloudReservation(mem, o)
        IN /\ IF next = mem THEN CanReregister(mem, o) ELSE CanRegister(mem, o)
           /\ Apply(w) /\ Charge(fault)
           /\ worker' = IF ~w.ok THEN worker
                        ELSE [worker EXCEPT ![c] =
                                [kind |-> "prepare", offer |-> o, handle |-> handle,
                                 fresh |-> handle \notin mem.reservations]]
  BY <1>1 DEF RegisterOffer
<1>5. PICK r : r = CloudReservation(mem, o)
  OBVIOUS
<1>6. r \in Reservation /\ r.job = k /\ r.id = o.id /\ r.gen = o.gen /\ r.cloud
  <2>1. r \in Reservation
    BY <1>5, RegisterOfferIsSafe
  <2> QED
    BY <1>1, <1>5, <2>1 DEF CloudReservation
<1>7. PICK e : e = [kind |-> "prepare", offer |-> o, handle |-> r, fresh |-> r \notin mem.reservations]
  OBVIOUS
<1>8. e \in Errand /\ e # Nil /\ ErrandJob(e) = k /\ e.kind = "prepare" /\ e.handle = r
      /\ e.offer.id = r.id
  <2>1. e \in Errand
    BY <1>3, <1>6, <1>7 DEF Errand
  <2> QED
    BY <1>1, <1>6, <1>7, <2>1, RecordAssumption DEF ErrandJob
<1>9. Written(next)
  BY <1>4, WriteLeaves
<1>10. worker' = worker \/ (WriteSucceeded(next) /\ worker' = [worker EXCEPT ![c] = e])
  BY <1>4, <1>5, <1>7, WriteLeaves
<1>11. /\ \A d \in Connector : d # c => worker'[d] = worker[d]
       /\ worker'[c] \in {Nil, e} /\ (~WriteSucceeded(next) => worker'[c] = Nil)
       /\ ErrandOf(k) = Nil /\ ErrandOf(k)' = worker'[c]
       /\ \A i \in Job : i # k => ErrandOf(i)' = ErrandOf(i)
  <2>1. CASE worker' = worker
    BY <1>1, <1>2, <2>1, Owners, NoErrand
  <2>2. CASE WriteSucceeded(next) /\ worker' = [worker EXCEPT ![c] = e]
    <3>1. worker'[c] = e /\ \A d \in Connector : d # c => worker'[d] = worker[d]
      BY <2>2 DEF TypeOK
    <3> QED
      BY <1>1, <1>2, <1>8, <2>2, <3>1, WorkerFrame
  <2> QED
    BY <1>10, <2>1, <2>2
<1>12. (Reconciled' => Reconciled) /\ (up' => up) /\ todo' \subseteq todo /\ decided \subseteq decided'
       /\ todo \subseteq Job
  BY <1>2 DEF Reconciled, TypeOK
<1>13. k \notin todo /\ ~booting
  BY <1>1, <1>2 DEF SafetyInv, Control
<1>14. Steady(k)
  BY <1>2, <1>3, <1>13, SteadyAtRest
<1>15. Control'
  <2>1. Local \in Connector /\ c # Local
    BY <1>1, <1>3, HandoffAssumption DEF Cloud
  <2>2. worker'[c] # Nil => ErrandJob(worker'[c]) = k
    BY <1>8, <1>11
  <2> QED
    BY <1>1, <1>2, <1>11, <1>12, <1>13, <2>1, <2>2 DEF SafetyInv, Control, Cloud
<1>16. JobOK(FencesIn(disk, k), OutcomesIn(disk, k), BarriersIn(disk, k), Kind(k), issued, disk.seq,
             store[k], proof[k], Run(k), ErrandOf(k), Taken(k), Times(k), Told(k, "release"),
             Told(k, "confirm"), Marked(k))
       /\ issued \in Nat /\ disk.seq \in Nat /\ Kind(k) = "cloud"
  BY <1>3, JobFacts, Owners DEF JobInv
<1>17. /\ FencesIn(mem, k) = FencesIn(disk, k) /\ OutcomesIn(mem, k) = OutcomesIn(disk, k)
       /\ BarriersIn(mem, k) = BarriersIn(disk, k) /\ mem.seq = disk.seq /\ mem.seq \in Nat
  BY <1>2, MemoryIsFile
<1>18. NotReplayed(mem, o)
  BY <1>4 DEF CanReregister, CanRegister
<1>19. /\ \A h \in OutcomesIn(disk, k) : h.gen < r.gen
       /\ \A s \in BarriersIn(disk, k) : s.gen < r.gen /\ s.outcome # "accepted"
  <2>1. /\ \A h \in mem.handoffs : h.job = k => o.gen > h.gen
        /\ \A s \in mem.consumed : s.job = k => s.outcome # "accepted" /\ o.gen > s.gen
    BY <1>1, <1>18 DEF NotReplayed
  <2>2. mem.handoffs \subseteq Handoff /\ mem.consumed \subseteq Consumed
    BY DocumentFields DEF TypeOK
  <2>3. \A h \in OutcomesIn(mem, k) : h.gen < r.gen
    BY <1>6, <2>1, <2>2 DEF OutcomesIn, Handoff, Reservation
  <2>4. \A s \in BarriersIn(mem, k) : s.gen < r.gen /\ s.outcome # "accepted"
    BY <1>6, <2>1, <2>2 DEF BarriersIn, Consumed, Reservation
  <2> QED
    BY <1>17, <2>3, <2>4
<1>20. CASE next = mem
  <2>1. r \in FencesIn(disk, k)
    <3>1. r \in mem.reservations
      BY <1>4, <1>5, <1>20 DEF CanReregister
    <3> QED
      BY <1>6, <1>17, <3>1 DEF FencesIn
  <2>2. View(disk', k) = View(disk, k) /\ disk'.seq = disk.seq
    <3>1. SameLedger(mem, disk) /\ View(next, k) = View(mem, k)
      BY <1>2, <1>20, InStep0 DEF SafetyInv
    <3> QED
      BY <1>9, <1>17, <1>20, <3>1, WrittenView DEF Written
  <2>3. /\ FencesIn(disk', k) = FencesIn(disk, k) /\ OutcomesIn(disk', k) = OutcomesIn(disk, k)
        /\ BarriersIn(disk', k) = BarriersIn(disk, k)
    BY <2>2, ViewParts
  <2>4. JobOK(FencesIn(disk, k), OutcomesIn(disk, k), BarriersIn(disk, k), Kind(k), issued, disk.seq,
              store[k], proof[k], Run(k), e, Taken(k), Times(k), Told(k, "release"),
              Told(k, "confirm"), Marked(k))
    BY <1>2, <1>8, <1>16, <1>19, <2>1, JobReoffered
  <2>5. JobOK(FencesIn(disk', k), OutcomesIn(disk', k), BarriersIn(disk', k), Kind(k), issued,
              disk'.seq, store[k], proof[k], Run(k), ErrandOf(k)', Taken(k), Times(k),
              Told(k, "release"), Told(k, "confirm"), Marked(k))
    <3>1. CASE ErrandOf(k)' = e
      BY <2>2, <2>3, <2>4, <3>1
    <3>2. CASE ErrandOf(k)' = ErrandOf(k)
      BY <1>16, <2>2, <2>3, <3>2
    <3> QED
      BY <1>11, <3>1, <3>2
  <2>6. JobInv(k)'
    BY <1>2, <2>5, WrittenJob
  <2>7. mem.seq <= next.seq /\ \A i \in Job : i # k => View(next, i) = View(mem, i)
    BY <1>17, <1>20
  <2> QED
    BY <1>2, <1>3, <1>9, <1>11, <1>12, <1>14, <1>15, <2>6, <2>7, WriteStep
<1>21. CASE next # mem
  <2>1. next = Register(mem, o) /\ CanRegister(mem, o)
    BY <1>4, <1>21
  <2>2. FencesIn(disk, k) = {}
    <3>1. FencesIn(mem, k) = {}
      BY <1>1, <2>1, NoFence DEF Inductive, CanRegister
    <3> QED
      BY <1>17, <3>1
  <2>3. mem \in Document
    BY DEF TypeOK
  <2>4. /\ next.seq = mem.seq /\ next.reservations = mem.reservations \cup {r}
        /\ next.handoffs = mem.handoffs /\ next.consumed = mem.consumed
    BY <1>5, <2>1, <2>3 DEF Register, Document
  <2>5. /\ FencesIn(next, k) = FencesIn(mem, k) \cup {r} /\ OutcomesIn(next, k) = OutcomesIn(mem, k)
        /\ BarriersIn(next, k) = BarriersIn(mem, k)
        /\ \A i : i # k => View(next, i) = View(mem, i)
    BY <1>6, <2>3, <2>4, ViewFence
  <2>6. FencesIn(next, k) = {r} /\ OutcomesIn(next, k) = OutcomesIn(disk, k)
        /\ BarriersIn(next, k) = BarriersIn(disk, k) /\ next.seq = disk.seq
    BY <1>17, <2>2, <2>4, <2>5
  <2>7. PICK er2 : er2 = ErrandOf(k)'
    OBVIOUS
  <2>8. \/ er2 = Nil
        \/ er2.kind = "prepare" /\ er2.handle = r /\ er2.offer.id = r.id
    BY <1>8, <1>11, <2>7
  <2>9. r.id \in 1..issued /\ r.gen = r.id
    BY <1>3, <1>6
  <2>10. JobOK({r}, OutcomesIn(disk, k), BarriersIn(disk, k), Kind(k), issued, disk.seq,
               store[k], proof[k], Run(k), er2, Taken(k), Times(k), Told(k, "release"),
               Told(k, "confirm"), Marked(k))
    BY <1>2, <1>6, <1>11, <1>16, <1>19, <2>2, <2>8, <2>9, JobOffered
  <2>11. Untouched(k) \/ JobInv(k)'
    <3>1. CASE disk' = next
      BY <1>2, <2>6, <2>7, <2>10, <3>1, WrittenJob
    <3>2. CASE disk' # next
      <4>1. disk' = disk /\ ErrandOf(k)' = ErrandOf(k)
        BY <1>9, <1>11, <3>2 DEF Written, WriteSucceeded
      <4> QED
        BY <1>2, <4>1, NoExec, NoCalls DEF Untouched, SameView, SameRow, SameWork
    <3> QED
      BY <3>1, <3>2
  <2>12. mem.seq <= next.seq /\ \A i \in Job : i # k => View(next, i) = View(mem, i)
    BY <1>17, <2>4, <2>5
  <2> QED
    BY <1>2, <1>3, <1>9, <1>11, <1>12, <1>14, <1>15, <2>11, <2>12, WriteStep
<1> QED
  BY <1>20, <1>21

\* One more decision, on job k.
LEMMA ToldNow ==
  ASSUME TypeOK, TypeOK', Control', NEW k \in Job, NEW id \in Nat, NEW resolution \in Resolution,
         decided' = decided \cup {[job |-> k, id |-> id, resolution |-> resolution]}, marks' = marks
  PROVE  /\ Told(k, "release")' = (IF resolution = "release" THEN Told(k, "release") \cup {id}
                                   ELSE Told(k, "release"))
         /\ Told(k, "confirm")' = (IF resolution = "confirm" THEN Told(k, "confirm") \cup {id}
                                   ELSE Told(k, "confirm"))
         /\ IsFiniteSet(Marked(k)') /\ Marked(k) \subseteq Marked(k)'
<1> DEFINE new == [job |-> k, id |-> id, resolution |-> resolution]
<1>1. \A x, i : /\ i \in Told(k, x) <=> \E q \in decided : q.job = k /\ q.resolution = x /\ q.id = i
                /\ i \in Told(k, x)' <=> \E q \in decided' : q.job = k /\ q.resolution = x /\ q.id = i
  BY DEF Told, Decisions
<1>0. new.job = k /\ new.id = id /\ new.resolution = resolution /\ decided' = decided \cup {new}
  OBVIOUS
<1> HIDE DEF new
<1>6. \A x, i : i \in Told(k, x)' <=> i \in Told(k, x) \/ (x = resolution /\ i = id)
  BY <1>0, <1>1
<1>2. Told(k, "release")' = (IF resolution = "release" THEN Told(k, "release") \cup {id}
                             ELSE Told(k, "release"))
  BY <1>6
<1>3. Told(k, "confirm")' = (IF resolution = "confirm" THEN Told(k, "confirm") \cup {id}
                             ELSE Told(k, "confirm"))
  BY <1>6
<1>4. Marked(k) \subseteq Marked(k)'
  <2>1. Told(k, "release") \subseteq Told(k, "release")'
    BY <1>2, <1>3
  <2> QED
    BY <2>1 DEF Marked
<1>5. IsFiniteSet(Marked(k)')
  <2>1. Marked(k)' \subseteq 1..issued'
    BY DEF Marked, Told, Decisions, Control
  <2>2. IsFiniteSet(1..issued')
    BY FS_Interval DEF TypeOK
  <2> QED
    BY <2>1, <2>2, FS_Subset
<1> QED
  BY <1>2, <1>3, <1>4, <1>5

\* The condition of a job after a write and a decision on it.
LEMMA DecidedJob ==
  ASSUME TypeOK, NEW k \in Job, UNCHANGED <<exec, calls, store, proof>>, issued' = issued,
         JobOK(FencesIn(disk', k), OutcomesIn(disk', k), BarriersIn(disk', k), Kind(k), issued,
               disk'.seq, store[k], proof[k], Run(k), ErrandOf(k)', Taken(k), Times(k),
               Told(k, "release")', Told(k, "confirm")', Marked(k)')
  PROVE  JobInv(k)'
<1>1. Run(k)' = Run(k) /\ Kind(k)' = Kind(k) /\ Taken(k)' = Taken(k) /\ Times(k)' = Times(k)
  BY NoExec, NoCalls, Owners
<1> QED
  BY <1>1 DEF JobInv

\* The decision a replayed command repeats, as the file has it.
LEMMA ReplayedOutcome ==
  ASSUME TypeOK, SafetyInv, ~poisoned, NEW k \in Job, NEW id \in Nat, NEW resolution,
         ResolvedAlready(mem, k, id, resolution)
  PROVE  \/ \E s \in BarriersIn(disk, k) : s.id = id /\ s.outcome = ResolvedOutcome(resolution)
         \/ /\ \A s \in BarriersIn(disk, k) : s.id # id
            /\ \E h \in OutcomesIn(disk, k) : h.id = id /\ h.outcome = ResolvedOutcome(resolution)
<1>1. /\ OutcomesIn(mem, k) = OutcomesIn(disk, k) /\ BarriersIn(mem, k) = BarriersIn(disk, k)
      /\ disk.seq \in Nat
  BY MemoryIsFile
<1>2. BarrierOf(mem, k, id) = {s \in BarriersIn(disk, k) : s.id = id}
      /\ EvidenceOf(mem, k, id) = {h \in OutcomesIn(disk, k) : h.id = id}
  <2>1. BarrierOf(mem, k, id) = {s \in BarriersIn(mem, k) : s.id = id}
        /\ EvidenceOf(mem, k, id) = {h \in OutcomesIn(mem, k) : h.id = id}
    BY DEF BarrierOf, EvidenceOf, BarriersIn, OutcomesIn
  <2> QED
    BY <1>1, <2>1
<1>3. CASE BarrierOf(mem, k, id) # {}
  BY <1>2, <1>3 DEF ResolvedAlready
<1>4. CASE BarrierOf(mem, k, id) = {}
  <2>1. PICK E : E = EvidenceOf(mem, k, id)
    OBVIOUS
  <2>2. E # {} /\ Newest(E).outcome = ResolvedOutcome(resolution)
    BY <1>4, <2>1 DEF ResolvedAlready
  <2>3. OutcomesIn(disk, k) \in SUBSET Handoff /\ \A h \in OutcomesIn(disk, k) : h.seq <= disk.seq
    BY JobFacts DEF JobInv, JobOK, JournalTypes, LedgerOK, SeqOK
  <2>4. E \in SUBSET Handoff /\ \A h \in E : h.seq <= disk.seq
    BY <1>2, <2>1, <2>3
  <2>5. Newest(E) \in E
    BY <1>1, <2>2, <2>4, NewestIs
  <2> QED
    BY <1>2, <1>4, <2>1, <2>2, <2>5
<1> QED
  BY <1>3, <1>4

\* The one a cloud command repeats is the job's newest.
LEMMA ReplayedCloud ==
  ASSUME TypeOK, SafetyInv, ~poisoned, NEW k \in Job, Cloud(k), NEW id \in Nat, NEW resolution,
         id \in Targets(k), ResolvedAlready(mem, k, id, resolution)
  PROVE  \A e \in FencesIn(disk, k) \cup OutcomesIn(disk, k) \cup BarriersIn(disk, k) : e.id <= id
<1>1. /\ FencesIn(mem, k) = FencesIn(disk, k) /\ OutcomesIn(mem, k) = OutcomesIn(disk, k)
      /\ BarriersIn(mem, k) = BarriersIn(disk, k)
  BY MemoryIsFile
<1>2. Kind(k) = "cloud" /\ JobInv(k) /\ issued \in Nat
  BY Owners, JobFacts
<1>3. /\ IdsOK(FencesIn(disk, k), OutcomesIn(disk, k), BarriersIn(disk, k), Kind(k), issued)
      /\ FenceOK(FencesIn(disk, k), OutcomesIn(disk, k))
      /\ BarrierOK(FencesIn(disk, k), OutcomesIn(disk, k), BarriersIn(disk, k), Kind(k))
  BY <1>2 DEF JobInv, JobOK, LedgerOK
<1>4. \/ \E h \in OutcomesIn(disk, k) : h.outcome = "ambiguous" /\ h.id = id
      \/ ~Superseded(k, id)
  <2>1. \/ \E g \in mem.handoffs : g.job = k /\ g.outcome = "ambiguous" /\ g.id = id
        \/ ~Superseded(k, id)
    BY DEF Targets
  <2> QED
    BY <1>1, <2>1 DEF OutcomesIn
<1>5. CASE \E h \in OutcomesIn(disk, k) : h.outcome = "ambiguous" /\ h.id = id
  <2>1. PICK h \in OutcomesIn(disk, k) : h.outcome = "ambiguous" /\ h.id = id
    BY <1>5
  <2>2. PICK r \in FencesIn(disk, k) : r.id = id
    BY <1>3, <2>1 DEF FenceOK
  <2>3. r.gen = id /\ \A s \in BarriersIn(disk, k) : s.gen = s.id /\ s.gen < r.gen
    BY <1>2, <1>3, <2>2 DEF IdsOK, BarrierOK
  <2>4. \A s \in BarriersIn(disk, k) : s.id # id
    BY <2>3
  <2>5. PICK g \in OutcomesIn(disk, k) : g.id = id /\ g.outcome = ResolvedOutcome(resolution)
    BY <2>4, ReplayedOutcome
  <2>6. g = h
    BY <1>3, <2>1, <2>5 DEF FenceOK
  <2> QED
    BY <2>1, <2>5, <2>6 DEF ResolvedOutcome
<1>6. CASE ~Superseded(k, id)
  <2>1. \A e \in mem.reservations \cup mem.handoffs \cup mem.consumed : e.job = k => ~(e.id > id)
    BY <1>6 DEF Superseded
  <2>2. \A e \in FencesIn(mem, k) \cup OutcomesIn(mem, k) \cup BarriersIn(mem, k) : ~(e.id > id)
    BY <2>1 DEF FencesIn, OutcomesIn, BarriersIn
  <2>3. \A e \in FencesIn(disk, k) \cup OutcomesIn(disk, k) \cup BarriersIn(disk, k) : e.id \in Nat
    BY <1>2, <1>3 DEF IdsOK
  <2> QED
    BY <1>1, <2>2, <2>3
<1> QED
  BY <1>4, <1>5, <1>6

\* The one a local decision repeats is the job's newest, and no fence of the
\* job hides a call the OS took.
LEMMA ReplayedLocal ==
  ASSUME TypeOK, SafetyInv, ~poisoned, up, ~booting, NEW k \in Job, ~Cloud(k), NEW id \in Nat,
         NEW resolution, id \in Targets(k), ResolvedAlready(mem, k, id, resolution)
  PROVE  /\ \E h \in OutcomesIn(disk, k) :
              h.outcome # "ambiguous" /\ \A g \in OutcomesIn(disk, k) : g.seq <= h.seq
         /\ \A r \in FencesIn(disk, k) : Unknown(OutcomesIn(disk, k), r.id) => r.id \notin Taken(k)
         /\ store[k] = "uncertain"
<1>1. Kind(k) # "cloud" /\ JobInv(k) /\ disk.seq \in Nat
  BY Owners, JobFacts
<1>2. FenceOK(FencesIn(disk, k), OutcomesIn(disk, k)) /\ BarriersIn(disk, k) = {}
  BY <1>1 DEF JobInv, JobOK, LedgerOK, IdsOK
<1>3. Agree(k)
  BY InStep0 DEF Agree, SafetyInv
<1>4. PICK H : H = OutcomesIn(disk, k) /\ H = LocalEvidence(k) /\ H \in SUBSET Handoff
               /\ \A h \in H : h.seq <= disk.seq
  BY <1>3, LocalEvidenceIs
<1>5. H # {} /\ store[k] = "uncertain" /\ id = Newest(H).id
  BY <1>4 DEF Targets, LocalEvidence
<1>6. Newest(H) \in H /\ \A g \in H : g.seq <= Newest(H).seq
  BY <1>1, <1>4, <1>5, NewestIs
<1>7. PICK h \in H : h.id = id /\ h.outcome = ResolvedOutcome(resolution)
  <2>1. \/ \E s \in BarriersIn(disk, k) : s.id = id /\ s.outcome = ResolvedOutcome(resolution)
        \/ \E h \in OutcomesIn(disk, k) : h.id = id /\ h.outcome = ResolvedOutcome(resolution)
    BY ReplayedOutcome
  <2> QED
    BY <1>2, <1>4, <2>1
<1>8. h = Newest(H)
  BY <1>2, <1>4, <1>5, <1>6, <1>7 DEF FenceOK
<1>9. h.outcome # "ambiguous"
  BY <1>7 DEF ResolvedOutcome
<1>10. \A r \in FencesIn(disk, k) : Unknown(OutcomesIn(disk, k), r.id) => r.id \notin Taken(k)
  <2>1. Accounted(k)
    BY DEF SafetyInv, Booted, Reconciled
  <2> QED
    BY <1>5, <2>1 DEF Accounted
<1> QED
  BY <1>4, <1>5, <1>6, <1>8, <1>9, <1>10

\* resolve_ambiguous_handoff, again or for the first time.
LEMMA ResolveAmbiguousHandoffKeeps ==
  ASSUME TypeOK, TypeOK', Inductive, SafetyInv, NEW k \in Job, NEW id \in 1..issued,
         NEW resolution \in Resolution, ResolveAmbiguousHandoff(k, id, resolution)
  PROVE  SafetyInv'
<1>1. PICK c \in Connector : c = OwnerOf[k]
  BY Owners
<1>2. /\ UNCHANGED <<exec, calls, store, proof>>
      /\ UNCHANGED <<up, booting, phase, todo, offers>> /\ issued' = issued /\ marks' = marks
      /\ up /\ phase[c] = "run" /\ worker[c] = Nil /\ ~poisoned /\ id \in Targets(k)
      /\ (~Cloud(k) => exec[Local] = Nil)
      /\ decided' = decided \cup {[job |-> k, id |-> id, resolution |-> resolution]}
  BY <1>1 DEF ResolveAmbiguousHandoff, Working, queue
<1>3. id \in Nat /\ issued \in Nat
  BY DEF TypeOK
<1>4. PICK e : e = [kind |-> "resolve", job |-> k, id |-> id, resolution |-> resolution]
  OBVIOUS
<1>5. e # Nil /\ ErrandJob(e) = k /\ e.kind = "resolve" /\ e.id = id /\ e.resolution = resolution
  <2>1. e \in Errand
    BY <1>3, <1>4 DEF Errand
  <2> QED
    BY <1>4, <2>1, RecordAssumption DEF ErrandJob
<1> DEFINE Leaves(next) ==
      /\ Written(next)
      /\ worker' = worker \/ (WriteSucceeded(next) /\ worker' = [worker EXCEPT ![c] = e])
<1>6. \/ ResolvedAlready(mem, k, id, resolution) /\ Leaves(mem)
      \/ \E r \in mem.reservations, h \in mem.handoffs :
           r.job = k /\ r.id = id /\ CanResolve(mem, r, h) /\ Leaves(Resolve(mem, r, h, resolution))
  <2>1. ASSUME NEW next, NEW fault \in FaultChoice, Apply(Committed(mem, next, disk, fault)),
               worker' = IF ~Committed(mem, next, disk, fault).ok THEN worker
                         ELSE [worker EXCEPT ![c] = e]
        PROVE  Leaves(next)
    BY <2>1, WriteLeaves
  <2> HIDE DEF Leaves
  <2> QED
    BY <1>1, <1>4, <2>1 DEF ResolveAmbiguousHandoff
<1>7. ASSUME NEW next, Leaves(next)
      PROVE  /\ \A d \in Connector : d # c => worker'[d] = worker[d]
             /\ worker'[c] \in {Nil, e} /\ (~WriteSucceeded(next) => worker'[c] = Nil)
             /\ ErrandOf(k) = Nil /\ ErrandOf(k)' = worker'[c]
             /\ \A i \in Job : i # k => ErrandOf(i)' = ErrandOf(i)
  <2>1. CASE worker' = worker
    BY <1>1, <1>2, <2>1, Owners, NoErrand
  <2>2. CASE WriteSucceeded(next) /\ worker' = [worker EXCEPT ![c] = e]
    <3>1. worker'[c] = e /\ \A d \in Connector : d # c => worker'[d] = worker[d]
      BY <2>2 DEF TypeOK
    <3> QED
      BY <1>1, <1>2, <1>5, <2>2, <3>1, WorkerFrame
  <2> QED
    BY <1>7, <2>1, <2>2
<1>8. (Reconciled' => Reconciled) /\ (up' => up) /\ todo' \subseteq todo /\ decided \subseteq decided'
      /\ todo \subseteq Job
  BY <1>2 DEF Reconciled, TypeOK
<1>9. k \notin todo /\ ~booting
  BY <1>1, <1>2 DEF SafetyInv, Control
<1>10. Cloud(k) \/ (store[k] = "uncertain" /\ Run(k) = Nil)
  BY <1>2, Owners DEF Targets
<1>11. Steady(k)
  BY <1>2, <1>9, <1>10, SteadyAtRest
<1>12. ASSUME NEW next, Leaves(next) PROVE Control'
  <2>1. Local \in Connector /\ (k \in Job => OwnerOf[k] = c) /\ (c = Local => exec[Local] = Nil)
    BY <1>1, <1>2, HandoffAssumption DEF Cloud
  <2>2. worker'[c] # Nil => ErrandJob(worker'[c]) = k
    BY <1>5, <1>7, <1>12
  <2>3. \A d \in Connector : d # c => worker'[d] = worker[d]
    BY <1>7, <1>12
  <2>4. \A d \in decided' : d.id \in 1..issued
    BY <1>2 DEF SafetyInv, Control
  <2> QED
    BY <1>1, <1>2, <1>8, <1>9, <2>1, <2>2, <2>3, <2>4 DEF SafetyInv, Control, Cloud
<1>13. JobOK(FencesIn(disk, k), OutcomesIn(disk, k), BarriersIn(disk, k), Kind(k), issued, disk.seq,
             store[k], proof[k], Run(k), ErrandOf(k), Taken(k), Times(k), Told(k, "release"),
             Told(k, "confirm"), Marked(k))
       /\ disk.seq \in Nat /\ (Kind(k) = "cloud" <=> Cloud(k))
  BY JobFacts, Owners DEF JobInv
<1>14. /\ FencesIn(mem, k) = FencesIn(disk, k) /\ OutcomesIn(mem, k) = OutcomesIn(disk, k)
       /\ BarriersIn(mem, k) = BarriersIn(disk, k) /\ mem.seq = disk.seq /\ mem.seq \in Nat
  BY <1>2, MemoryIsFile
<1>15. PICK outcome \in {"accepted", "rejected"} :
         /\ outcome = ResolvedOutcome(resolution)
         /\ (outcome = "rejected" <=> resolution = "release")
         /\ (outcome = "accepted" <=> resolution = "confirm")
  BY DEF ResolvedOutcome, Resolution
<1> HIDE DEF Leaves
<1>16. ASSUME ResolvedAlready(mem, k, id, resolution), Leaves(mem) PROVE SafetyInv'
  <2>1. /\ Written(mem) /\ Control' /\ worker'[c] \in {Nil, e}
        /\ ErrandOf(k) = Nil /\ ErrandOf(k)' = worker'[c]
        /\ \A i \in Job : i # k => ErrandOf(i)' = ErrandOf(i)
    BY <1>7, <1>12, <1>16 DEF Leaves
  <2>2. View(disk', k) = View(disk, k) /\ disk'.seq = disk.seq
    <3>1. SameLedger(mem, disk)
      BY <1>2, InStep0 DEF SafetyInv
    <3> QED
      BY <1>14, <2>1, <3>1, WrittenView DEF Written
  <2>3. /\ FencesIn(disk', k) = FencesIn(disk, k) /\ OutcomesIn(disk', k) = OutcomesIn(disk, k)
        /\ BarriersIn(disk', k) = BarriersIn(disk, k)
    BY <2>2, ViewParts
  <2>4. CASE worker'[c] = Nil
    <3>1. Untouched(k)
      BY <1>2, <2>1, <2>2, <2>4, NoExec, NoCalls DEF Untouched, SameView, SameRow, SameWork
    <3>2. mem.seq <= mem.seq
      BY <1>14
    <3> QED
      BY <1>2, <1>8, <1>11, <2>1, <3>1, <3>2, WriteStep
  <2>5. CASE worker'[c] = e
    <3>1. PICK REL, CON, M :
            /\ REL = Told(k, "release")' /\ CON = Told(k, "confirm")' /\ M = Marked(k)'
      OBVIOUS
    <3>2. /\ REL = (IF resolution = "release" THEN Told(k, "release") \cup {id} ELSE Told(k, "release"))
          /\ CON = (IF resolution = "confirm" THEN Told(k, "confirm") \cup {id} ELSE Told(k, "confirm"))
          /\ IsFiniteSet(M) /\ Marked(k) \subseteq M
      BY <1>2, <1>3, <2>1, <3>1, ToldNow
    <3>3. Told(k, "release") \subseteq REL /\ Told(k, "confirm") \subseteq CON
          /\ id \in (IF outcome = "rejected" THEN REL ELSE CON)
      BY <1>15, <3>2
    <3>4. JobOK(FencesIn(disk, k), OutcomesIn(disk, k), BarriersIn(disk, k), Kind(k), issued, disk.seq,
                store[k], proof[k], Run(k), ErrandOf(k), Taken(k), Times(k), REL, CON, M)
      BY <1>3, <1>13, <3>2, <3>3, JobLater
    <3>5. \/ \E s \in BarriersIn(disk, k) : s.id = id /\ s.outcome = outcome
          \/ \E h \in OutcomesIn(disk, k) : h.id = id /\ h.outcome = outcome
      BY <1>2, <1>3, <1>15, <1>16, ReplayedOutcome
    <3>6. Kind(k) = "cloud" =>
            \A q \in FencesIn(disk, k) \cup OutcomesIn(disk, k) \cup BarriersIn(disk, k) : q.id <= id
      BY <1>2, <1>3, <1>13, <1>16, ReplayedCloud
    <3>7. Kind(k) # "cloud" =>
            /\ \E h \in OutcomesIn(disk, k) :
                 h.outcome # "ambiguous" /\ \A g \in OutcomesIn(disk, k) : g.seq <= h.seq
            /\ \A r \in FencesIn(disk, k) : Unknown(OutcomesIn(disk, k), r.id) => r.id \notin Taken(k)
      BY <1>2, <1>3, <1>9, <1>13, <1>16, ReplayedLocal
    <3>8. e.resolution = IF outcome = "rejected" THEN "release" ELSE "confirm"
      BY <1>5, <1>15 DEF Resolution
    <3>9. Run(k) # Nil => Kind(k) = "cloud"
      BY <1>10, <1>13
    <3>10. JobOK(FencesIn(disk, k), OutcomesIn(disk, k), BarriersIn(disk, k), Kind(k), issued, disk.seq,
                 store[k], proof[k], Run(k), e, Taken(k), Times(k), REL, CON, M)
      BY <1>3, <1>5, <1>13, <1>15, <3>3, <3>4, <3>5, <3>6, <3>7, <3>8, <3>9, JobReplayed
    <3>11. JobInv(k)'
      BY <1>2, <2>1, <2>2, <2>3, <2>5, <3>1, <3>10, DecidedJob
    <3>12. Cloud(k) \/ Accounted(k)'
      <4>1. Run(k)' = Run(k) /\ Taken(k)' = Taken(k)
        BY <1>2, NoExec, NoCalls
      <4> QED
        BY <1>2, <1>10, <1>13, <2>3, <3>7, <4>1 DEF Accounted
    <3>13. mem.seq <= mem.seq
      BY <1>14
    <3> QED
      BY <1>2, <1>8, <1>11, <2>1, <3>11, <3>12, <3>13, WriteStep
  <2> QED
    BY <2>1, <2>4, <2>5
<1>17. ASSUME NEW r \in mem.reservations, NEW h \in mem.handoffs, r.job = k, r.id = id,
              CanResolve(mem, r, h), Leaves(Resolve(mem, r, h, resolution))
       PROVE  SafetyInv'
  <2>1. PICK next : next = Resolve(mem, r, h, resolution)
    OBVIOUS
  <2>2. /\ Written(next) /\ Control' /\ worker'[c] \in {Nil, e}
        /\ (~WriteSucceeded(next) => worker'[c] = Nil)
        /\ ErrandOf(k) = Nil /\ ErrandOf(k)' = worker'[c]
        /\ \A i \in Job : i # k => ErrandOf(i)' = ErrandOf(i)
    BY <1>7, <1>12, <1>17, <2>1 DEF Leaves
  <2>3. /\ r \in FencesIn(disk, k) /\ (r.cloud <=> Kind(k) = "cloud")
        /\ \A s \in BarriersIn(mem, r.job) : s.gen < r.gen
        /\ \A s \in FencesIn(disk, k) : s = r
    BY <1>2, <1>17, FenceFacts
  <2>4. h \in OutcomesIn(disk, k) /\ h.id = r.id /\ h.job = r.job
    <3>1. h.job = k /\ h.id = r.id
      BY <1>17 DEF CanResolve, EvidenceOf
    <3> QED
      BY <1>14, <1>17, <3>1 DEF OutcomesIn
  <2>5. PICK g \in Handoff, s \in Consumed, X \in SUBSET Handoff :
          ResolvedAs(mem, next, r, h, outcome, g, s, X)
    <3>1. mem \in Document
      BY DEF TypeOK
    <3>2. \E g \in Handoff, s \in Consumed, X \in SUBSET Handoff :
            ResolvedAs(mem, next, r, h, ResolvedOutcome(resolution), g, s, X)
      BY <1>17, <2>1, <2>3, <2>4, <3>1, ViewResolve
    <3> QED
      BY <1>15, <3>2
  <2>6. /\ g.id = h.id /\ g.gen = h.gen /\ g.cloud = h.cloud /\ g.seq = h.seq
        /\ g.outcome = outcome /\ s.id = r.id /\ s.gen = r.gen /\ s.outcome = outcome
        /\ X \in SUBSET {g} /\ next.seq = mem.seq /\ \A i : i # k => View(next, i) = View(mem, i)
    BY <1>17, <2>5 DEF ResolvedAs
  <2>7. /\ FencesIn(next, k) = FencesIn(disk, k) \ {r}
        /\ OutcomesIn(next, k) = (OutcomesIn(disk, k) \ {h}) \cup X
        /\ BarriersIn(next, k) = (IF Kind(k) = "cloud" THEN {s} ELSE BarriersIn(disk, k))
        /\ next.seq = disk.seq
    BY <1>14, <1>17, <2>3, <2>5, <2>6 DEF ResolvedAs
  <2>8. CASE disk' = next
    <3>1. PICK REL, CON, M, er2 :
            /\ REL = Told(k, "release")' /\ CON = Told(k, "confirm")' /\ M = Marked(k)'
            /\ er2 = ErrandOf(k)'
      OBVIOUS
    <3>2. /\ REL = (IF resolution = "release" THEN Told(k, "release") \cup {id} ELSE Told(k, "release"))
          /\ CON = (IF resolution = "confirm" THEN Told(k, "confirm") \cup {id} ELSE Told(k, "confirm"))
          /\ IsFiniteSet(M) /\ Marked(k) \subseteq M
      BY <1>2, <1>3, <2>2, <3>1, ToldNow
    <3>3. er2 = Nil \/ er2 = e
      BY <2>2, <3>1
    <3>4. DecidedAs(r.id, g.outcome, Told(k, "release"), Told(k, "confirm"), Marked(k), er2, REL, CON, M)
      BY <1>5, <1>15, <1>17, <2>6, <3>2, <3>3 DEF DecidedAs
    <3>5. Kind(k) # "cloud" => store[k] = "uncertain"
      BY <1>10, <1>13
    <3>6. PICK B2, H2 : B2 = BarriersIn(next, k) /\ H2 = OutcomesIn(next, k)
      OBVIOUS
    <3>7. Decides(FencesIn(disk, k), OutcomesIn(disk, k), BarriersIn(disk, k), Kind(k), r, h, g, s, H2, B2)
      <4>1. \E Y \in SUBSET {g} : H2 = (OutcomesIn(disk, k) \ {h}) \cup Y
        BY <2>6, <2>7, <3>6
      <4>2. (Kind(k) = "cloud" => B2 = {s}) /\ (Kind(k) # "cloud" => B2 = BarriersIn(disk, k))
        BY <2>7, <3>6
      <4>3. g.outcome \in {"accepted", "rejected"} /\ s.outcome = g.outcome /\ r \in FencesIn(disk, k)
        BY <1>15, <2>3, <2>6
      <4> QED
        BY <2>4, <2>6, <4>1, <4>2, <4>3 DEF Decides
    <3>8. JobOK({}, H2, B2, Kind(k), issued, disk.seq, store[k], proof[k], Run(k), er2, Taken(k),
                Times(k), REL, CON, M)
      BY <1>3, <1>13, <3>4, <3>5, <3>7, JobResolved
    <3>9. FencesIn(disk', k) = {}
      BY <2>3, <2>7, <2>8
    <3>12. JobInv(k)'
      BY <1>2, <2>7, <2>8, <3>1, <3>6, <3>8, <3>9, DecidedJob
    <3>10. Accounted(k)'
      BY <3>9 DEF Accounted
    <3>11. mem.seq <= next.seq
      BY <1>14, <2>6
    <3> QED
      BY <1>2, <1>8, <1>11, <2>2, <2>6, <3>10, <3>11, <3>12, WriteStep
  <2>9. CASE disk' # next
    <3>1. disk' = disk /\ ErrandOf(k)' = ErrandOf(k)
      BY <2>2, <2>9 DEF Written, WriteSucceeded
    <3>2. Untouched(k)
      BY <1>2, <3>1, NoExec, NoCalls DEF Untouched, SameView, SameRow, SameWork
    <3>3. mem.seq <= next.seq
      BY <1>14, <2>6
    <3> QED
      BY <1>2, <1>8, <1>11, <2>2, <2>6, <3>2, <3>3, WriteStep
  <2> QED
    BY <2>8, <2>9
<1> QED
  BY <1>6, <1>16, <1>17

-----------------------------------------------------------------------------
(* The invariant, and the properties it was found for.                     *)

\* Nothing was offered, nothing is under way.
LEMMA InitIsSettled == Init => SafetyInv
<1> SUFFICES ASSUME Init PROVE SafetyInv
  OBVIOUS
<1>1. mem = disk /\ disk.seq = 0 /\ disk.reservations = {} /\ disk.handoffs = {} /\ disk.consumed = {}
  BY DEF Init, EmptyDocument
<1>2. \A j : FencesIn(disk, j) = {} /\ OutcomesIn(disk, j) = {} /\ BarriersIn(disk, j) = {}
  BY <1>1 DEF FencesIn, OutcomesIn, BarriersIn
<1>3. \A j \in Job : Run(j) = Nil /\ ErrandOf(j) = Nil /\ store[j] = "absent" /\ proof[j] = 0
  BY JournalAssumption DEF Init, Run, ErrandOf
<1>4. \A j : AcceptingCalls(j) = {}
  BY DEF Init, AcceptingCalls
<1>5. \A j : Taken(j) = {} /\ Times(j) = 0
  BY <1>4, FS_EmptySet DEF Taken, Times
<1>6. \A j : Told(j, "release") = {} /\ Told(j, "confirm") = {} /\ Marked(j) = {}
  BY DEF Init, Told, Decisions, Marked
<1>7. ASSUME NEW j \in Job PROVE JobInv(j)
  <2>1. JobOK({}, {}, {}, Kind(j), 0, 0, "absent", 0, Nil, Nil, {}, 0, {}, {}, {})
    BY JobAbsent
  <2>2. issued = 0
    BY DEF Init
  <2> QED
    BY <1>1, <1>2, <1>3, <1>5, <1>6, <2>1, <2>2 DEF JobInv
<1>8. Control
  BY HandoffAssumption DEF Init, Control
<1>9. Booted
  BY <1>2 DEF Booted, Accounted
<1>10. CopiesAgree
  BY <1>1 DEF CopiesAgree, SameLedger, Agree, Init
<1> QED
  BY <1>7, <1>8, <1>9, <1>10 DEF SafetyInv, JobsOK

\* Every step of the protocol keeps the invariant.
LEMMA NextKeeps ==
  ASSUME TypeOK, TypeOK', Inductive, SafetyInv, Next
  PROVE  SafetyInv'
<1>1. ASSUME NEW obs \in Observation, DiscoverRoutes(obs) PROVE SafetyInv'
  BY <1>1, DiscoverRoutesKeeps
<1>2. ASSUME NEW j \in Job,
             \/ IssueOffer(j) \/ AcceptLocalJob(j) \/ BeginExecution(j)
             \/ DropBeforeHandoff(j) \/ RecoverFence(j) \/ RecoverQueue(j)
             \/ \E o \in {"queued", "dropped"} : ResumeAcceptance(j, o)
             \/ \E id \in 1..issued, r \in Resolution : ResolveAmbiguousHandoff(j, id, r)
      PROVE  SafetyInv'
  BY <1>2, IssueOfferKeeps, AcceptLocalJobKeeps, BeginExecutionKeeps, DropBeforeHandoffKeeps,
     RecoverFenceKeeps, RecoverQueueKeeps, ResumeAcceptanceKeeps, ResolveAmbiguousHandoffKeeps
<1>3. ASSUME NEW o \in offers, RegisterOffer(o) PROVE SafetyInv'
  BY <1>3, RegisterOfferKeeps
<1>4. ASSUME NEW c \in Connector,
             \/ PrepareOffer(c) \/ ProjectResolution(c) \/ ReserveRoute(c) \/ ValidateRoute(c)
             \/ FinishSubmission(c) \/ SettleQueue(c) \/ SweepFences(c)
      PROVE  SafetyInv'
  BY <1>4, PrepareOfferKeeps, ProjectResolutionKeeps, ReserveRouteKeeps, ValidateRouteKeeps,
     FinishSubmissionKeeps, SettleQueueKeeps, SweepFencesKeeps
<1>5. ASSUME NEW c \in Connector, NEW n \in 1..mem.seq, AcknowledgeHandoffs(c, n) PROVE SafetyInv'
  <2>1. n \in Nat
    BY <1>5 DEF TypeOK, Document
  <2> QED
    BY <1>5, <2>1, AcknowledgeHandoffsKeeps
<1>6. ASSUME NEW c \in Connector, NEW a \in BOOLEAN, NEW r \in Report, CallSpooler(c, a, r)
      PROVE  SafetyInv'
  BY <1>6, CallSpoolerKeeps
<1>7. ASSUME LocalTick \/ LocalFence \/ LocalProject \/ LocalCompact \/ Crash \/ Restart
      PROVE  SafetyInv'
  BY <1>7, LocalTickKeeps, LocalFenceKeeps, LocalProjectKeeps, LocalCompactKeeps, CrashKeeps,
     RestartKeeps
<1> QED
  BY <1>1, <1>2, <1>3, <1>4, <1>5, <1>6, <1>7 DEF Next

\* The types, the journal's invariant and the jobs' are inductive together.
LEMMA StepKeeps ==
  TypeOK /\ Inductive /\ SafetyInv /\ [Next]_vars => TypeOK' /\ Inductive' /\ SafetyInv'
<1>1. ASSUME TypeOK, Inductive, SafetyInv, Next PROVE TypeOK' /\ Inductive' /\ SafetyInv'
  <2>1. TypeOK' /\ Inductive'
    BY <1>1, StepIsSafe
  <2> QED
    BY <1>1, <2>1, NextKeeps
<1>2. ASSUME TypeOK, Inductive, SafetyInv, UNCHANGED vars PROVE TypeOK' /\ Inductive' /\ SafetyInv'
  <2>1. TypeOK' /\ Inductive'
    BY <1>2, StepIsSafe
  <2>2. UNCHANGED <<mem, disk, poisoned, up, booting, phase, todo, store, proof, marks, exec, worker,
                    offers, calls, decided, issued>>
    BY <1>2 DEF vars
  <2>3. Control'
    BY <1>2, <2>2 DEF SafetyInv, Control, Cloud
  <2>4. SameLedger(disk', disk) /\ SameLedger(mem', mem) /\ (Reconciled' => Reconciled)
    BY <2>2 DEF SameLedger, Reconciled
  <2>5. /\ poisoned' = poisoned /\ (up' => up) /\ todo' \subseteq todo
        /\ UNCHANGED <<store, proof, marks, exec, worker, calls, decided, issued>>
    BY <2>2
  <2> QED
    BY <1>2, <2>1, <2>3, <2>4, <2>5, QuietStep
<1> QED
  BY <1>1, <1>2

\* Every state of the protocol satisfies the invariant.
LEMMA AlwaysSafe == Spec => [](TypeOK /\ SafetyInv)
<1>1. Init => TypeOK /\ Inductive /\ SafetyInv
  BY InitIsSafe, InitIsSettled
<1>2. TypeOK /\ Inductive /\ SafetyInv /\ [Next]_vars => (TypeOK /\ Inductive /\ SafetyInv)'
  BY StepKeeps
<1> QED
  BY <1>1, <1>2, PTL DEF Spec

\* Whatever stops and failed writes of the journal happen, while the spooler
\* may be working on a job its fence is in the file and its intent is in the
\* queue.
THEOREM FencedWhileSubmittingHolds == Spec => []FencedWhileSubmitting
<1>1. TypeOK /\ SafetyInv => FencedWhileSubmitting
  <2>1. SUFFICES ASSUME TypeOK, SafetyInv, NEW c \in Connector, Submitting(c)
                 PROVE  exec[c].handle \in disk.reservations /\ store[exec[c].job] = "intent"
    BY DEF FencedWhileSubmitting
  <2>2. exec[c] # Nil /\ exec[c].step \in {"validated", "called"}
    BY <2>1 DEF Submitting
  <2>3. PICK k \in Job : k = exec[c].job /\ Run(k) = exec[c] /\ store[k] = "intent"
    BY <2>1, <2>2, InFlight
  <2>4. RunOK(FencesIn(disk, k), OutcomesIn(disk, k), Kind(k), exec[c], Taken(k))
    BY <2>1, <2>3, JobFacts DEF JobInv, JobOK
  <2>5. exec[c].handle \in FencesIn(disk, k)
    BY <2>2, <2>4 DEF RunOK
  <2> QED
    BY <2>3, <2>5 DEF FencesIn
<1> QED
  BY <1>1, AlwaysSafe, PTL

\* No write, sweep, acknowledgement or restart takes the fence of an
\* ambiguous handoff out of the file before it is resolved.
THEOREM AmbiguousStaysFencedHolds == Spec => []AmbiguousStaysFenced
<1>1. TypeOK /\ SafetyInv => AmbiguousStaysFenced
  <2>1. SUFFICES ASSUME TypeOK, SafetyInv, NEW h \in disk.handoffs, h.outcome = "ambiguous"
                 PROVE  \E r \in disk.reservations : r.job = h.job /\ r.id = h.id
    BY DEF AmbiguousStaysFenced
  <2>2. PICK k \in Job : k = h.job
    BY <2>1 DEF TypeOK, Document, Handoff
  <2>3. FenceOK(FencesIn(disk, k), OutcomesIn(disk, k)) /\ h \in OutcomesIn(disk, k)
    BY <2>1, <2>2, JobFacts DEF JobInv, JobOK, LedgerOK, OutcomesIn
  <2>4. \E r \in FencesIn(disk, k) : r.id = h.id
    BY <2>1, <2>3 DEF FenceOK
  <2> QED
    BY <2>2, <2>4 DEF FencesIn
<1> QED
  BY <1>1, AlwaysSafe, PTL

\* A rejection in the file is of a call the OS did not take or an operator
\* released, an acceptance of one the OS took or an operator confirmed.
THEOREM EvidenceIsTrueHolds == Spec => []EvidenceIsTrue
<1>1. TypeOK /\ SafetyInv => EvidenceIsTrue
  <2>1. SUFFICES ASSUME TypeOK, SafetyInv, NEW e \in disk.handoffs \cup disk.consumed
                 PROVE  /\ e.outcome = "rejected" =>
                             \/ ~\E i \in AcceptingCalls(e.job) : calls[i].id = e.id
                             \/ \E q \in Decisions(e.job, "release") : q.id = e.id
                        /\ e.outcome = "accepted" =>
                             \/ \E i \in AcceptingCalls(e.job) : calls[i].id = e.id
                             \/ \E q \in Decisions(e.job, "confirm") : q.id = e.id
    BY DEF EvidenceIsTrue
  <2>2. PICK k \in Job : k = e.job
    BY <2>1 DEF TypeOK, Document, Handoff, Consumed
  <2>3. e \in OutcomesIn(disk, k) \cup BarriersIn(disk, k)
    BY <2>1, <2>2 DEF OutcomesIn, BarriersIn
  <2>4. TruthOK(FencesIn(disk, k), OutcomesIn(disk, k), BarriersIn(disk, k), Kind(k), issued,
                store[k], Run(k), Taken(k), Told(k, "release"), Told(k, "confirm"))
    BY <2>1, JobFacts DEF JobInv, JobOK
  <2>5. /\ e.outcome = "rejected" => e.id \notin Taken(k) \/ e.id \in Told(k, "release")
        /\ e.outcome = "accepted" => e.id \in Taken(k) \/ e.id \in Told(k, "confirm")
    BY <2>3, <2>4 DEF TruthOK
  <2> QED
    BY <2>2, <2>5 DEF Taken, Told
<1> QED
  BY <1>1, AlwaysSafe, PTL

\* A release is counted once per reservation it is about.
LEMMA ReleasesCounted ==
  ASSUME TypeOK, Control, NEW j \in Job
  PROVE  Cardinality(Decisions(j, "release")) = Cardinality(Told(j, "release"))
<1> DEFINE D == Decisions(j, "release")
           I == Told(j, "release")
           f == [i \in I |-> [job |-> j, id |-> i, resolution |-> "release"]]
<1>1. IsFiniteSet(I)
  BY ToldFinite
<1>2. \A d \in D : d = [job |-> j, id |-> d.id, resolution |-> "release"] /\ d.id \in I
  BY DEF Told, Decisions, TypeOK
<1>3. \A i \in I : f[i] \in D
  BY <1>2 DEF Told
<1>4. f \in [I -> D] /\ \A d \in D : f[d.id] = d
  BY <1>2, <1>3
<1>5. \A i, m \in I : f[i] = f[m] => i = m
  OBVIOUS
<1>6. f \in Bijection(I, D)
  BY <1>2, <1>4, <1>5 DEF Bijection, Injection, Surjection, IsInjective
<1>7. ExistsBijection(I, D)
  BY <1>6 DEF ExistsBijection
<1> HIDE DEF I, D, f
<1>8. Cardinality(D) = Cardinality(I)
  BY <1>1, <1>7, FS_Bijection
<1> QED
  BY <1>8 DEF I, D

\* The OS takes a job once, and once more for each time an operator released
\* it: neither stops, nor failed or repeated writes, nor replayed offers and
\* commands make it print again.
THEOREM AtMostOncePerDecisionHolds == Spec => []AtMostOncePerDecision
<1>1. TypeOK /\ SafetyInv => AtMostOncePerDecision
  <2>1. SUFFICES ASSUME TypeOK, SafetyInv, NEW j \in Job
                 PROVE  Cardinality(AcceptingCalls(j)) <= 1 + Cardinality(Decisions(j, "release"))
    BY DEF AtMostOncePerDecision
  <2>2. IsFiniteSet(Told(j, "release")) /\ Marked(j) \subseteq Told(j, "release")
        /\ Cardinality(Decisions(j, "release")) = Cardinality(Told(j, "release"))
    BY <2>1, ToldFinite, ReleasesCounted DEF SafetyInv
  <2>3. JobOK(FencesIn(disk, j), OutcomesIn(disk, j), BarriersIn(disk, j), Kind(j), issued, disk.seq,
              store[j], proof[j], Run(j), ErrandOf(j), Taken(j), Times(j), Told(j, "release"),
              Told(j, "confirm"), Marked(j))
        /\ issued \in Nat /\ disk.seq \in Nat
    BY <2>1, JobFacts DEF JobInv
  <2>4. Times(j) <= 1 + Cardinality(Told(j, "release"))
    BY <2>2, <2>3, JobCounted
  <2> QED
    BY <2>2, <2>4 DEF Times
<1> QED
  BY <1>1, AlwaysSafe, PTL
=============================================================================
