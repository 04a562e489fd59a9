-------------------------- MODULE NodeQueuesProofs --------------------------
(***************************************************************************)
(* The queue of a node embedded in an application gives a job to the       *)
(* native API once, and both deployments of a node's queue keep what they  *)
(* promise side by side.                                                   *)
(*                                                                         *)
(* Memory is ahead of the file after a failed write, and the rows are      *)
(* behind the file after a stop.  The invariant says how far: an operation *)
(* the file knows is the same one in memory and never goes back, a job     *)
(* whose row waits has only rejected operations, and of the operations of  *)
(* a job one at most is not rejected, the one its setting names.           *)
(***************************************************************************)
EXTENDS MCNodeQueues, AgentQueueProofs, WellFoundedInduction

Drawn(e) == e.phase # "none"
Rejected(e) == e.phase = "done" /\ e.state = "failed_retryable"
\* The handoff has begun, or nothing more is to be tried.
Spent(e) == e.phase \in {"handoff_started", "accepted"} \/ (e.phase = "done" /\ ~Rejected(e))

\* What memory d may have of an operation the file has as f.
Ahead(f, d) ==
  Drawn(f) => /\ d.job = f.job /\ Drawn(d)
              /\ Spent(f) => Spent(d)
              /\ f.phase = "done" => d = f

Open == document # Closed
Of(doc, j) == {n \in Operation : Drawn(doc[n]) /\ doc[n].job = j}

MemoryIsAhead ==
  Open => \A n \in Operation :
    /\ Ahead(file[n], document[n])
    /\ Drawn(document[n]) /\ ~Drawn(file[n]) => document[n].job \in unprojected

\* What the host is doing is of the operation as memory has it.
HostIsInStep ==
  /\ host.at # "idle" => Open /\ host.op \in Operation /\ Drawn(document[host.op])
  /\ host.at \in {"recovered", "started", "accepted"} => document[host.op].phase = "handoff_started"
  /\ host.at \in {"started", "accepted"} => file[host.op].phase = "handoff_started"
  /\ host.at = "unclear" => /\ document[host.op].phase \in {"handoff_started", "accepted"}
                            /\ Spent(file[host.op])

\* An operation is of a job that has a row, and never ends with it queued.
HasRow(e) ==
  Drawn(e) => e.job \in Work /\ rows[e.job] # "absent" /\ e.state # "queued_local"
OperationsHaveRows ==
  \A n \in Operation : HasRow(file[n]) /\ (Open => HasRow(document[n]))

Idling == {"queued_local", "failed_retryable"}

\* A job that may be drawn again has been rejected whenever it was drawn; one
\* that a stop left waiting may have its last operation claimed in the file.
WaitingIsRejected(j) ==
  rows[j] \in Idling =>
    /\ \A n \in Of(file, j) : file[n].phase = "claimed" \/ Rejected(file[n])
    /\ Open => \A n \in Of(document, j) : Rejected(document[n]) /\ file[n] = document[n]

OneCounts(j) ==
  /\ \A n, m \in Of(file, j) : n = m \/ Rejected(file[n]) \/ Rejected(file[m])
  /\ \A n \in Of(file, j) :
       ~Rejected(file[n]) /\ (Open \/ file[n].phase # "claimed") => current[j] = n

\* The operations of j under which the native API may have been called.
Given(j) ==
  {n \in Of(file, j) : Spent(file[n]) /\ ~(host.at = "started" /\ host.op = n)}

EmbeddedInv ==
  /\ MemoryIsAhead /\ HostIsInStep /\ OperationsHaveRows
  /\ \A j \in Work : j \notin unprojected => WaitingIsRejected(j) /\ OneCounts(j)
  /\ \A j \in Work : submitted[j] <= Cardinality(Given(j))

-----------------------------------------------------------------------------
(* The least and the greatest of a set of numbers.                         *)

\* A nonempty set of numbers has a least member.
LEMMA LeastExists ==
  ASSUME NEW S, S \subseteq Nat, S # {}
  PROVE  \E x \in S : \A y \in S : x <= y
<1> DEFINE R == {ss \in Nat \X Nat : ss[1] < ss[2]}
<1>1. IsWellFoundedOn(R, Nat)
  BY NatLessThanWellFounded DEF OpToRel
<1>2. \A x, y \in Nat : <<y, x>> \in R <=> y < x
  OBVIOUS
<1> HIDE DEF R
<1>3. PICK x \in S : \A y \in S : ~ (<<y, x>> \in R)
  BY <1>1, WFMin
<1>4. ASSUME NEW y \in S
      PROVE  x <= y
  <2>1. x \in Nat /\ y \in Nat
    OBVIOUS
  <2>2. ~(y < x)
    BY <1>2, <1>3, <2>1
  <2> QED
    BY <2>1, <2>2
<1> QED
  BY <1>4

\* The minimum of a nonempty set of numbers is a member of it.
LEMMA LeastIn ==
  ASSUME NEW S, S \subseteq Nat, S # {}
  PROVE  Min(S) \in S
BY LeastExists DEF Min

\* The maximum of a nonempty set of operations is a member of it.
LEMMA LastIn ==
  ASSUME NEW S, S \subseteq Operation, S # {}
  PROVE  Max(S) \in S
<1> DEFINE T == {MaxOperations - x : x \in S}
<1>0. PICK z : z \in S
  OBVIOUS
<1>1. T \subseteq Nat /\ MaxOperations - z \in T
  BY <1>0, EmbeddedAssumption DEF Operation
<1>2. PICK y \in T : \A v \in T : y <= v
  BY <1>1, LeastExists
<1>3. PICK x \in S : y = MaxOperations - x
  BY <1>2
<1>4. ASSUME NEW v \in S
      PROVE  x >= v
  <2>1. MaxOperations - v \in T
    OBVIOUS
  <2>2. y <= MaxOperations - v
    BY <1>2, <2>1
  <2> QED
    BY <1>3, <2>2, EmbeddedAssumption DEF Operation
<1> QED
  BY <1>4 DEF Max

-----------------------------------------------------------------------------
(* Operations and rows.                                                    *)

\* The types of the fields of an operation in the journal.
LEMMA EntryFields ==
  ASSUME NEW doc \in [Operation -> Entry], NEW n \in Operation
  PROVE  /\ doc[n] \in Entry /\ doc[n].state \in JobState
         /\ doc[n].phase \in {"none", "claimed", "handoff_started", "accepted", "done"}
         /\ doc[n].job \in Work \cup {0} /\ n \in 1..MaxOperations /\ n # 0
         /\ MaxOperations \in Nat
BY EmbeddedAssumption DEF Entry, Operation

\* Neither a missing row nor what memory is when no process runs is a value
\* of what it is missing from.
LEMMA NotThere == "absent" \notin JobState /\ Closed \notin [Operation -> Entry]
BY ClosedAssumption DEF JobState, Successors, Terminal

\* While a process runs, memory is a journal.
LEMMA OpenIs ==
  ASSUME EmbeddedTypeOK
  PROVE  /\ Open => document \in [Operation -> Entry]
         /\ document \in [Operation -> Entry] => Open
         /\ file \in [Operation -> Entry]
BY NotThere DEF EmbeddedTypeOK, Open

\* Expiry leaves rows in their type and takes jobs only out of waiting.
LEMMA ExpiredRows ==
  ASSUME EmbeddedTypeOK
  PROVE  /\ Expired \in [Work -> JobState \cup {"absent"}]
         /\ \A j \in Work : /\ Expired[j] = "absent" <=> rows[j] = "absent"
                            /\ Expired[j] \in Idling => Expired[j] = rows[j]
                            /\ Expired[j] \notin Idling => rows[j] = Expired[j] \/ Expired[j] = "expired"
BY DEF EmbeddedTypeOK, Expired, Idling, JobState, Terminal

\* Memory may be as far as the file, and what is ahead of it goes on.
LEMMA AheadOf ==
  /\ \A e : Ahead(e, e)
  /\ \A e, f, g : Ahead(e, f) /\ Ahead(f, g) => Ahead(e, g)
BY DEF Ahead

\* A set of operations is finite and has no more members than there are.
LEMMA OperationsAreFew ==
  ASSUME NEW S, S \subseteq Operation
  PROVE  IsFiniteSet(S) /\ Cardinality(S) \in 0..MaxOperations
<1>1. MaxOperations \in Nat /\ 1 \in Int /\ MaxOperations \in Int
  BY EmbeddedAssumption
<1>2. IsFiniteSet(1..MaxOperations) /\ Cardinality(1..MaxOperations) = MaxOperations
  BY <1>1, FS_Interval
<1>3. IsFiniteSet(S) /\ Cardinality(S) <= Cardinality(1..MaxOperations)
  BY <1>2, FS_Subset DEF Operation
<1> QED
  BY <1>2, <1>3, FS_CardinalityType

\* A job is given once more only with another operation it was given under.
LEMMA GivenStays ==
  ASSUME NEW j \in Work, submitted[j] <= Cardinality(Given(j)), submitted[j] \in Nat,
         submitted'[j] = submitted[j], Given(j) \subseteq Given(j)'
  PROVE  submitted'[j] <= Cardinality(Given(j)')
<1>1. /\ Given(j)' \subseteq Operation /\ Given(j) \subseteq Operation
  BY DEF Given, Of, Operation
<1>2. Cardinality(Given(j)) <= Cardinality(Given(j)')
  BY <1>1, OperationsAreFew, FS_Subset
<1> QED
  BY <1>1, <1>2, OperationsAreFew, EmbeddedAssumption

-----------------------------------------------------------------------------
(* Steps that leave the journal as it is.                                  *)

\* Initially nothing is drawn.
LEMMA EmbeddedInitKeeps == EmbeddedInit => EmbeddedTypeOK /\ EmbeddedInv
<1> SUFFICES ASSUME EmbeddedInit PROVE EmbeddedTypeOK /\ EmbeddedInv
  OBVIOUS
<1>1. Undrawn \in Entry /\ Resting \in Host /\ MaxOperations \in Nat /\ MaxMishaps \in Nat
  BY EmbeddedAssumption DEF Undrawn, Entry, JobState, Successors, Resting, Host
<1>2. EmbeddedTypeOK
  BY <1>1 DEF EmbeddedInit, EmbeddedTypeOK
<1>3. \A n \in Operation : ~Drawn(file[n]) /\ ~Drawn(document[n])
  BY DEF EmbeddedInit, Drawn, Undrawn
<1>4. \A j : Of(file, j) = {} /\ Of(document, j) = {}
  BY <1>3 DEF Of
<1>5. MemoryIsAhead /\ OperationsHaveRows /\ HostIsInStep
  BY <1>3 DEF MemoryIsAhead, Ahead, OperationsHaveRows, HasRow, HostIsInStep, EmbeddedInit, Resting
<1>6. \A j \in Work : WaitingIsRejected(j) /\ OneCounts(j)
  BY <1>4 DEF WaitingIsRejected, OneCounts
<1>7. ASSUME NEW j \in Work PROVE submitted[j] <= Cardinality(Given(j))
  <2>1. Given(j) \subseteq Operation
    BY DEF Given, Of
  <2> QED
    BY <2>1, OperationsAreFew DEF EmbeddedInit
<1> QED
  BY <1>2, <1>5, <1>6, <1>7 DEF EmbeddedInv

\* Rows may leave waiting, or come to wait when they are made.
RowsGo ==
  \A j \in Work : /\ rows'[j] = "absent" => rows[j] = "absent"
                  /\ rows'[j] \in Idling => rows[j] \in Idling \cup {"absent"}

\* A step that leaves journal, settings and histories as they are.
LEMMA RowsKeep ==
  ASSUME EmbeddedTypeOK, EmbeddedInv, EmbeddedTypeOK', RowsGo, HostIsInStep',
         UNCHANGED <<current, document, file, submitted, unprojected>>,
         host' = host \/ host'.at # "started"
  PROVE  EmbeddedInv'
<1>1. MemoryIsAhead'
  BY DEF EmbeddedInv, MemoryIsAhead, Open
<1>2. OperationsHaveRows'
  BY DEF EmbeddedInv, OperationsHaveRows, HasRow, RowsGo, Open
<1>3. ASSUME NEW j \in Work, j \notin unprojected
      PROVE  WaitingIsRejected(j)' /\ OneCounts(j)'
  <2>1. WaitingIsRejected(j) /\ OneCounts(j)
    BY <1>3 DEF EmbeddedInv
  <2>2. rows[j] = "absent" => Of(file, j) = {} /\ (Open => Of(document, j) = {})
    BY DEF EmbeddedInv, OperationsHaveRows, HasRow, Of
  <2>3. WaitingIsRejected(j)'
    BY <2>1, <2>2 DEF WaitingIsRejected, RowsGo, Of, Open
  <2>4. OneCounts(j)'
    BY <2>1 DEF OneCounts, Of, Open
  <2> QED
    BY <2>3, <2>4
<1>4. ASSUME NEW j \in Work PROVE (submitted[j] <= Cardinality(Given(j)))'
  <2>1. Given(j) \subseteq Given(j)'
    BY DEF Given, Of
  <2>2. submitted[j] <= Cardinality(Given(j)) /\ submitted[j] \in Nat
    BY EmbeddedAssumption DEF EmbeddedInv, EmbeddedTypeOK
  <2> QED
    BY <2>1, <2>2, GivenStays
<1> QED
  BY <1>1, <1>2, <1>3, <1>4 DEF EmbeddedInv

\* A step that leaves the host alone too.
LEMMA HostStays ==
  ASSUME EmbeddedInv, UNCHANGED <<document, file, host>>
  PROVE  HostIsInStep'
BY DEF EmbeddedInv, HostIsInStep, Open

\* enqueue, the passing of a deadline and request_cancel preserve the invariant.
LEMMA CallerSteps ==
  ASSUME EmbeddedTypeOK, EmbeddedInv, NEW j \in Work,
         enqueue(j) \/ ExpiryPasses(j) \/ CancelConnected(j)
  PROVE  EmbeddedTypeOK' /\ EmbeddedInv'
<1>1. /\ UNCHANGED <<current, document, file, host, submitted, unprojected, slipups>>
      /\ overdue' \subseteq Work
      /\ rows' = rows
         \/ \E to \in {"queued_local", "cancel_requested", "cancelled"} :
              /\ rows' = [rows EXCEPT ![j] = to]
              /\ to = "queued_local" => rows[j] \in {"absent", "failed_retryable"}
  BY DEF enqueue, ExpiryPasses, CancelConnected, EmbeddedTypeOK
<1>2. EmbeddedTypeOK'
  BY <1>1 DEF EmbeddedTypeOK, JobState, Successors, Terminal
<1>3. RowsGo
  BY <1>1 DEF RowsGo, Idling, EmbeddedTypeOK
<1> QED
  BY <1>1, <1>2, <1>3, HostStays, RowsKeep

\* Expiry of waiting jobs takes rows only out of waiting.
LEMMA ExpiredGo ==
  ASSUME EmbeddedTypeOK, rows' = Expired
  PROVE  RowsGo /\ rows' \in [Work -> JobState \cup {"absent"}]
BY ExpiredRows DEF RowsGo

\* next_operation hands out the unresolved operation again.
LEMMA ReplayKeeps ==
  ASSUME EmbeddedTypeOK, EmbeddedInv, Open, host.at = "idle", Replayed(document) # {},
         rows' = Expired, NEW n, n = Min(Replayed(document)),
         host' = [at |-> IF document[n].phase = "claimed" THEN "claimed" ELSE "recovered", op |-> n],
         UNCHANGED <<current, document, file, unprojected, slipups, overdue, submitted>>
  PROVE  EmbeddedTypeOK' /\ EmbeddedInv'
<1>1. Replayed(document) \subseteq Operation /\ Operation \subseteq Nat
  BY EmbeddedAssumption DEF Replayed, Unresolved, Operation
<1>2. n \in Operation /\ document[n].phase \in {"claimed", "handoff_started"}
  <2>1. n \in Replayed(document)
    BY <1>1, LeastIn
  <2> QED
    BY <2>1 DEF Replayed, Unresolved
<1>3. PICK at \in {"claimed", "recovered"} :
        host' = [at |-> at, op |-> n] /\ (at = "recovered" => document[n].phase = "handoff_started")
  BY <1>2
<1>4. host' \in Host /\ host'.at = at /\ host'.op = n
  BY <1>2, <1>3, EmbeddedAssumption DEF Host, Operation
<1>5. EmbeddedTypeOK'
  BY <1>4, ExpiredGo DEF EmbeddedTypeOK
<1>6. HostIsInStep'
  BY <1>2, <1>3, <1>4 DEF HostIsInStep, Open, Drawn
<1> QED
  BY <1>3, <1>4, <1>5, <1>6, ExpiredGo, RowsKeep

\* next_operation finds nothing to do.
LEMMA NothingKeeps ==
  ASSUME EmbeddedTypeOK, EmbeddedInv, rows' = Expired,
         UNCHANGED <<current, document, file, host, unprojected, slipups, overdue, submitted>>
  PROVE  EmbeddedTypeOK' /\ EmbeddedInv'
<1>1. EmbeddedTypeOK'
  BY ExpiredGo DEF EmbeddedTypeOK
<1> QED
  BY <1>1, ExpiredGo, HostStays, RowsKeep

\* The host leaves an operation it found begun where it is.
LEMMA DeferKeeps ==
  ASSUME EmbeddedTypeOK, EmbeddedInv, HostDefers
  PROVE  EmbeddedTypeOK' /\ EmbeddedInv'
<1>1. /\ UNCHANGED <<rows, current, overdue, document, file, submitted, unprojected, slipups>>
      /\ host' = [at |-> "idle", op |-> 0]
  BY DEF HostDefers, Resting
<1>2. EmbeddedTypeOK' /\ host'.at = "idle"
  BY <1>1, EmbeddedAssumption DEF EmbeddedTypeOK, Host
<1>3. HostIsInStep' /\ RowsGo
  BY <1>1, <1>2 DEF HostIsInStep, RowsGo
<1> QED
  BY <1>1, <1>2, <1>3, RowsKeep

\* The native API is called once under an operation, after its handoff is in
\* the file: SubmitNative preserves the invariant.
LEMMA SubmitNativeKeeps ==
  ASSUME EmbeddedTypeOK, EmbeddedInv, SubmitNative
  PROVE  EmbeddedTypeOK' /\ EmbeddedInv'
<1>0. PICK n : n = host.op
  OBVIOUS
<1>1. PICK at \in {"accepted", "unclear"} :
        /\ n = host.op /\ host.at = "started" /\ host' = [host EXCEPT !.at = at]
        /\ \/ submitted' = submitted
           \/ submitted' = [submitted EXCEPT ![document[n].job] = submitted[document[n].job] + 1]
        /\ UNCHANGED <<rows, current, overdue, document, file, unprojected, slipups>>
  <2>1. CASE UNCHANGED submitted
    BY <1>0, <2>1 DEF SubmitNative
  <2>2. CASE ~UNCHANGED submitted
    BY <1>0, <2>2 DEF SubmitNative
  <2> QED
    BY <2>1, <2>2
<1>2. host' \in Host /\ host'.at = at /\ host'.op = n
  BY <1>1 DEF EmbeddedTypeOK, Host
<1>3. /\ n \in Operation /\ Open /\ file \in [Operation -> Entry] /\ document \in [Operation -> Entry]
      /\ document[n].phase = "handoff_started" /\ file[n].phase = "handoff_started"
  BY <1>1, OpenIs DEF EmbeddedInv, HostIsInStep
<1>4. PICK j : j = file[n].job
  OBVIOUS
<1>5. j = document[n].job /\ j \in Work
  BY <1>3, <1>4 DEF EmbeddedInv, MemoryIsAhead, Ahead, OperationsHaveRows, HasRow, Drawn
<1>6. n \notin Given(j) /\ Given(j)' = Given(j) \cup {n}
  BY <1>1, <1>2, <1>3, <1>4 DEF Given, Of, Drawn, Spent
<1>7. \A i \in Work : i # j => Given(i)' = Given(i)
  BY <1>1, <1>2, <1>3, <1>4 DEF Given, Of
<1>8. Given(j)' \subseteq Operation /\ Given(j) \subseteq Operation
  BY DEF Given, Of, Operation
<1>9. \A i \in Work : submitted[i] \in Nat /\ submitted[i] <= Cardinality(Given(i))
  BY EmbeddedAssumption DEF EmbeddedTypeOK, EmbeddedInv
<1>10. submitted'[j] \in Nat /\ submitted'[j] <= Cardinality(Given(j)')
  <2>1. Cardinality(Given(j)') = Cardinality(Given(j)) + 1
    BY <1>6, <1>8, OperationsAreFew, FS_AddElement
  <2>2. submitted'[j] \in Nat /\ submitted'[j] <= submitted[j] + 1
    BY <1>1, <1>5, <1>9 DEF EmbeddedTypeOK
  <2>3. Cardinality(Given(j)) \in Nat
    BY <1>8, OperationsAreFew, EmbeddedAssumption
  <2> QED
    BY <1>5, <1>9, <2>1, <2>2, <2>3
<1>11. \A i \in Work : i # j => submitted'[i] = submitted[i]
  BY <1>1, <1>5 DEF EmbeddedTypeOK
<1>12. submitted' \in [Work -> 0..MaxOperations]
  <2>1. submitted'[j] <= MaxOperations
    BY <1>8, <1>10, OperationsAreFew, EmbeddedAssumption
  <2>2. submitted'[j] \in 0..MaxOperations
    BY <1>10, <2>1, EmbeddedAssumption
  <2> QED
    BY <1>1, <1>5, <1>11, <2>2 DEF EmbeddedTypeOK
<1>13. EmbeddedTypeOK'
  BY <1>1, <1>2, <1>12 DEF EmbeddedTypeOK
<1>14. HostIsInStep'
  BY <1>1, <1>2, <1>3 DEF HostIsInStep, Open, Drawn, Spent
<1>15. MemoryIsAhead' /\ OperationsHaveRows'
  BY <1>1 DEF EmbeddedInv, MemoryIsAhead, OperationsHaveRows, HasRow, Open
<1>16. \A i \in Work : i \notin unprojected => WaitingIsRejected(i)' /\ OneCounts(i)'
  BY <1>1 DEF EmbeddedInv, WaitingIsRejected, OneCounts, Of, Open
<1>17. \A i \in Work : (submitted[i] <= Cardinality(Given(i)))'
  BY <1>7, <1>9, <1>10, <1>11
<1> QED
  BY <1>1, <1>13, <1>14, <1>15, <1>16, <1>17 DEF EmbeddedInv

\* The process stops between two calls.
LEMMA HostStopsKeeps ==
  ASSUME EmbeddedTypeOK, EmbeddedInv, HostStops
  PROVE  EmbeddedTypeOK' /\ EmbeddedInv'
<1>1. /\ UNCHANGED <<rows, current, overdue, file, submitted, unprojected>> /\ document' = Closed
      /\ host' = [at |-> "idle", op |-> 0] /\ slipups' \in 0..MaxMishaps
  BY EmbeddedAssumption DEF HostStops, Resting, EmbeddedTypeOK
<1>2. EmbeddedTypeOK' /\ host'.at = "idle" /\ ~Open'
  BY <1>1, EmbeddedAssumption DEF EmbeddedTypeOK, Host, Open
<1>3. MemoryIsAhead' /\ HostIsInStep' /\ OperationsHaveRows'
  BY <1>1, <1>2 DEF MemoryIsAhead, HostIsInStep, EmbeddedInv, OperationsHaveRows, HasRow
<1>4. \A j \in Work : j \notin unprojected => WaitingIsRejected(j)' /\ OneCounts(j)'
  BY <1>1, <1>2 DEF EmbeddedInv, WaitingIsRejected, OneCounts, Of
<1>5. ASSUME NEW j \in Work PROVE (submitted[j] <= Cardinality(Given(j)))'
  <2>1. Given(j) \subseteq Given(j)'
    BY <1>1, <1>2 DEF Given, Of
  <2>2. submitted[j] <= Cardinality(Given(j)) /\ submitted[j] \in Nat
    BY EmbeddedAssumption DEF EmbeddedInv, EmbeddedTypeOK
  <2> QED
    BY <1>1, <2>1, <2>2, GivenStays
<1> QED
  BY <1>1, <1>2, <1>3, <1>4, <1>5 DEF EmbeddedInv

-----------------------------------------------------------------------------
(* Steps that write the journal.                                           *)

\* What a call that persists doc leaves behind: all of it, memory only with
\* the file or without, or a stopped process.
Written(doc, found, row, setting, done, failed) ==
  /\ slipups' \in 0..MaxMishaps
  /\ file' \in {file, doc}
  /\ current' = current \/ (file' = doc /\ current' = setting)
  /\ \/ document' = doc /\ file' = doc /\ rows' = row /\ current' = setting /\ host' = done
     \/ document' = doc /\ rows' = found /\ host' = failed
     \/ document' = Closed /\ rows' = found /\ host' = Resting

\* persist and the projection after it leave no more than that.
LEMMA PersistWrites ==
  ASSUME EmbeddedTypeOK, NEW doc, NEW found, NEW row, NEW setting, NEW done, NEW failed,
         Persist(doc, found, row, setting, done, failed)
  PROVE  Written(doc, found, row, setting, done, failed)
<1>1. CASE /\ document' = doc /\ file' = doc /\ rows' = row /\ current' = setting
           /\ host' = done /\ UNCHANGED slipups
  BY <1>1 DEF Written, EmbeddedTypeOK
<1>2. CASE ~(/\ document' = doc /\ file' = doc /\ rows' = row /\ current' = setting
             /\ host' = done /\ UNCHANGED slipups)
  <2>1. PICK kind \in Mishap :
          /\ slipups < MaxMishaps /\ slipups' = slipups + 1
          /\ file' \in {file, doc}
          /\ current' \in {current} \cup (IF file' = doc THEN {setting} ELSE {})
          /\ rows' = found
          /\ document' = IF kind = "stop" THEN Closed ELSE doc
          /\ host' = IF kind = "stop" THEN Resting ELSE failed
    BY <1>2 DEF Persist
  <2>2. slipups' \in 0..MaxMishaps
    BY <2>1, EmbeddedAssumption DEF EmbeddedTypeOK
  <2>3. current' = current \/ (file' = doc /\ current' = setting)
    BY <2>1
  <2> QED
    BY <2>1, <2>2, <2>3 DEF Written
<1> QED
  BY <1>1, <1>2

\* An operation n that is not done goes on, and the rest of the journal stays.
Moves(n, doc) ==
  /\ n \in Operation /\ doc \in [Operation -> Entry]
  /\ \A m \in Operation : m # n => doc[m] = document[m]
  /\ Drawn(document[n]) /\ document[n].phase # "done"
  /\ Ahead(document[n], doc[n]) /\ doc[n].state # "queued_local"

\* Only the row of the operation's job is written, and it waits again only
\* when the operation was rejected.
Projects(n, doc, row) ==
  LET j == document[n].job IN
  /\ row \in [Work -> JobState \cup {"absent"}]
  /\ \A i \in Work : i # j => row[i] = rows[i]
  /\ row[j] = rows[j] \/ (row[j] \in JobState /\ (row[j] \in Idling => Rejected(doc[n])))

\* What memory goes on to is ahead of what it was and of the file.
LEMMA MoveIsAhead ==
  ASSUME EmbeddedTypeOK, EmbeddedInv, Open, NEW n, NEW doc, Moves(n, doc)
  PROVE  /\ \A m \in Operation : Ahead(document[m], doc[m]) /\ Ahead(file[m], doc[m])
         /\ \A m \in Operation : doc[m].job = document[m].job /\ (Drawn(doc[m]) <=> Drawn(document[m]))
         /\ \A j : Of(doc, j) = Of(document, j)
<1>1. \A m \in Operation : Ahead(document[m], doc[m])
  BY AheadOf DEF Moves
<1>2. \A m \in Operation : Ahead(file[m], doc[m])
  BY <1>1, AheadOf DEF EmbeddedInv, MemoryIsAhead
<1>3. \A m \in Operation : doc[m].job = document[m].job /\ (Drawn(doc[m]) <=> Drawn(document[m]))
  BY <1>1 DEF Moves, Ahead
<1>4. \A j : Of(doc, j) = Of(document, j)
  BY <1>3 DEF Of
<1> QED
  BY <1>1, <1>2, <1>3, <1>4

\* Of a job whose spool intents were recorded, file and memory have the same
\* operations, and one that is not done in memory is not rejected in the file.
LEMMA FileKnows ==
  ASSUME EmbeddedTypeOK, EmbeddedInv, Open, NEW j \in Work, j \notin unprojected
  PROVE  /\ Of(file, j) = Of(document, j)
         /\ \A m \in Operation : Rejected(file[m]) => document[m] = file[m]
<1>1. \A m \in Operation : /\ Ahead(file[m], document[m])
                           /\ Drawn(document[m]) /\ ~Drawn(file[m]) => document[m].job \in unprojected
  BY DEF EmbeddedInv, MemoryIsAhead
<1> QED
  BY <1>1 DEF Ahead, Of, Drawn, Rejected

\* An operation that goes on keeps what is said of the rows and settings.
LEMMA MoveCounts ==
  ASSUME EmbeddedTypeOK, EmbeddedInv, Open, NEW n, NEW doc, Moves(n, doc),
         NEW row, Projects(n, doc, row),
         NEW setting, setting = current \/ setting = [current EXCEPT ![document[n].job] = n],
         NEW done, NEW failed, Written(doc, rows, row, setting, done, failed),
         NEW j \in Work, j \notin unprojected
  PROVE  WaitingIsRejected(j)' /\ OneCounts(j)'
<1>1. /\ Of(doc, j) = Of(document, j) /\ Of(file, j) = Of(document, j)
      /\ \A m \in Operation : Rejected(file[m]) => document[m] = file[m]
      /\ Of(file, j)' = Of(document, j)
  BY MoveIsAhead, FileKnows DEF Written, Of
<1>2. WaitingIsRejected(j) /\ OneCounts(j)
  BY DEF EmbeddedInv
<1>3. /\ n \in Operation /\ ~Rejected(document[n]) /\ ~Rejected(file[n])
      /\ \A m \in Operation : m # n => doc[m] = document[m]
      /\ document[n].job = j => n \in Of(file, j)
  <2>1. n \in Operation /\ ~Rejected(document[n]) /\ Drawn(document[n])
        /\ \A m \in Operation : m # n => doc[m] = document[m]
    BY DEF Moves, Rejected
  <2>2. ~Rejected(file[n])
    BY <1>1, <2>1
  <2> QED
    BY <1>1, <2>1, <2>2 DEF Of
<1>4. Of(document, j) \subseteq Operation
  BY DEF Of
<1>5. \A m \in Of(file, j) : Rejected(file[m]) => Rejected(file'[m])
  BY <1>1, <1>3, <1>4 DEF Written
<1>6. OneCounts(j)'
  <2>1. \A m, k \in Of(file, j)' : m = k \/ Rejected(file'[m]) \/ Rejected(file'[k])
    BY <1>1, <1>2, <1>5 DEF OneCounts
  <2>2. ASSUME NEW m \in Of(file, j)', ~Rejected(file'[m])
        PROVE  current'[j] = m
    <3>1. m \in Of(file, j) /\ ~Rejected(file[m])
      BY <1>1, <1>5, <2>2
    <3>2. current[j] = m
      BY <1>2, <3>1 DEF OneCounts
    <3>3. document[n].job = j => m = n
      BY <1>2, <1>3, <3>1 DEF OneCounts
    <3> QED
      BY <3>2, <3>3 DEF Written, EmbeddedTypeOK
  <2> QED
    BY <2>1, <2>2 DEF OneCounts
<1>7. WaitingIsRejected(j)'
  <2> SUFFICES ASSUME rows'[j] \in Idling
               PROVE  \A m \in Of(file, j)' : /\ Rejected(file'[m])
                                              /\ Open' => Rejected(document'[m]) /\ file'[m] = document'[m]
    <3>1. Open' => Of(document, j)' = Of(document, j)
      BY <1>1 DEF Written, Open, Of
    <3> QED
      BY <1>1, <3>1 DEF WaitingIsRejected
  <2>1. CASE rows[j] \in Idling
    <3>1. \A m \in Of(document, j) : Rejected(document[m]) /\ file[m] = document[m]
      BY <1>2, <2>1 DEF WaitingIsRejected
    <3>2. \A m \in Of(document, j) : doc[m] = document[m]
      BY <1>3, <1>4, <3>1
    <3> QED
      BY <1>1, <3>1, <3>2 DEF Written, Open
  <2>2. CASE rows[j] \notin Idling
    <3>1. /\ rows' = row /\ document' = doc /\ file' = doc /\ row[j] # rows[j]
      BY <2>2 DEF Written
    <3>2. document[n].job = j /\ Rejected(doc[n])
      BY <2>2, <3>1 DEF Projects
    <3>3. \A m \in Of(document, j) : m # n => Rejected(doc[m])
      BY <1>1, <1>2, <1>3, <1>4, <3>2 DEF OneCounts
    <3> QED
      BY <1>1, <3>1, <3>2, <3>3
  <2> QED
    BY <2>1, <2>2
<1> QED
  BY <1>6, <1>7

\* The host may be at h when memory is doc and the file is f.
Fits(h, doc, f) ==
  /\ h \in Host
  /\ h.at # "idle" => h.op \in Operation /\ Drawn(doc[h.op])
  /\ h.at \in {"recovered", "started", "accepted"} => doc[h.op].phase = "handoff_started"
  /\ h.at \in {"started", "accepted"} => f[h.op].phase = "handoff_started"
  /\ h.at = "unclear" => doc[h.op].phase \in {"handoff_started", "accepted"} /\ Spent(f[h.op])

\* A host at rest fits any journal.
LEMMA RestingFits == \A doc, f : Fits(Resting, doc, f)
BY EmbeddedAssumption DEF Fits, Resting, Host

\* A call that leaves the host where it fits leaves it in step.
LEMMA WrittenInStep ==
  ASSUME EmbeddedTypeOK, NEW doc \in [Operation -> Entry], NEW found, NEW row, NEW setting,
         NEW done, NEW failed, Written(doc, found, row, setting, done, failed),
         Fits(done, doc, doc), Fits(failed, doc, doc), Fits(failed, doc, file)
  PROVE  HostIsInStep' /\ host' \in Host
<1>1. doc # Closed
  BY NotThere
<1>2. CASE document' = Closed /\ host' = Resting
  BY <1>2, EmbeddedAssumption DEF HostIsInStep, Resting, Host
<1>3. CASE document' = doc /\ Fits(host', doc, file')
  BY <1>1, <1>3 DEF HostIsInStep, Fits, Open
<1> QED
  BY <1>2, <1>3 DEF Written

\* What a write leaves of the types.
LEMMA WrittenTypes ==
  ASSUME EmbeddedTypeOK, NEW doc \in [Operation -> Entry],
         NEW found \in [Work -> JobState \cup {"absent"}], NEW row \in [Work -> JobState \cup {"absent"}],
         NEW setting \in [Work -> 0..MaxOperations], NEW done, NEW failed,
         Written(doc, found, row, setting, done, failed), host' \in Host,
         unprojected' \subseteq Work, UNCHANGED <<overdue, submitted>>
  PROVE  EmbeddedTypeOK'
BY DEF Written, EmbeddedTypeOK

\* A call on an operation that is under way preserves the invariant.
LEMMA MoveKeeps ==
  ASSUME EmbeddedTypeOK, EmbeddedInv, Open, NEW n, NEW doc, Moves(n, doc),
         NEW row, Projects(n, doc, row),
         NEW setting, setting = current \/ setting = [current EXCEPT ![document[n].job] = n],
         NEW done, NEW failed, Persist(doc, rows, row, setting, done, failed),
         Fits(done, doc, doc), Fits(failed, doc, doc), Fits(failed, doc, file),
         done.at = "started" => done = host \/ (done.op = n /\ ~Spent(file[n])),
         failed.at = "started" => failed = host,
         UNCHANGED <<overdue, submitted, unprojected>>
  PROVE  EmbeddedTypeOK' /\ EmbeddedInv'
<1>1. /\ Written(doc, rows, row, setting, done, failed) /\ doc \in [Operation -> Entry]
      /\ file \in [Operation -> Entry] /\ n \in Operation /\ HostIsInStep' /\ host' \in Host
  BY PersistWrites, OpenIs, WrittenInStep DEF Moves
<1>2. EmbeddedTypeOK'
  <2>1. document[n].job \in Work
    BY DEF EmbeddedInv, OperationsHaveRows, HasRow, Moves
  <2>2. setting \in [Work -> 0..MaxOperations] /\ rows \in [Work -> JobState \cup {"absent"}]
    BY <1>1, <2>1, EmbeddedAssumption DEF EmbeddedTypeOK, Operation
  <2>3. row \in [Work -> JobState \cup {"absent"}] /\ unprojected' \subseteq Work
    BY DEF Projects, EmbeddedTypeOK
  <2> QED
    BY <1>1, <2>2, <2>3, WrittenTypes
<1>3. /\ \A m \in Operation : Ahead(file[m], doc[m])
      /\ \A m \in Operation : doc[m].job = document[m].job /\ (Drawn(doc[m]) <=> Drawn(document[m]))
  BY MoveIsAhead
<1>4. MemoryIsAhead'
  <2>1. \A m \in Operation : Ahead(file'[m], doc[m])
    BY <1>1, <1>3, AheadOf DEF Written
  <2>2. \A m \in Operation : Drawn(doc[m]) /\ ~Drawn(file'[m]) => doc[m].job \in unprojected
    BY <1>1, <1>3 DEF EmbeddedInv, MemoryIsAhead, Written
  <2> QED
    BY <1>1, <2>1, <2>2 DEF MemoryIsAhead, Open, Written
<1>5. OperationsHaveRows'
  <2>1. \A i \in Work : rows'[i] = "absent" => rows[i] = "absent"
    BY <1>1, NotThere DEF Written, Projects
  <2>2. \A m \in Operation : HasRow(file[m]) /\ HasRow(document[m])
    BY DEF EmbeddedInv, OperationsHaveRows
  <2>3. \A m \in Operation : Drawn(doc[m]) =>
          doc[m].job \in Work /\ rows[doc[m].job] # "absent" /\ doc[m].state # "queued_local"
    BY <1>3, <2>2 DEF HasRow, Moves
  <2>4. \A m \in Operation : Drawn(file[m]) =>
          file[m].job \in Work /\ rows[file[m].job] # "absent" /\ file[m].state # "queued_local"
    BY <2>2 DEF HasRow
  <2> QED
    BY <1>1, <2>1, <2>3, <2>4 DEF OperationsHaveRows, HasRow, Written, Open
<1>6. \A j \in Work : j \notin unprojected => WaitingIsRejected(j)' /\ OneCounts(j)'
  BY <1>1, MoveCounts
<1>7. ASSUME NEW j \in Work PROVE (submitted[j] <= Cardinality(Given(j)))'
  <2>1. ASSUME NEW m \in Given(j) PROVE m \in Given(j)'
    <3>1. m \in Operation /\ Drawn(file[m]) /\ file[m].job = j /\ Spent(file[m])
          /\ ~(host.at = "started" /\ host.op = m)
      BY DEF Given, Of
    <3>2. Drawn(file'[m]) /\ file'[m].job = j /\ Spent(file'[m])
      BY <1>1, <1>3, <3>1 DEF Written, Ahead
    <3>3. ~(host'.at = "started" /\ host'.op = m)
      BY <1>1, <3>1 DEF Written, Resting
    <3> QED
      BY <3>1, <3>2, <3>3 DEF Given, Of
  <2>2. submitted[j] <= Cardinality(Given(j)) /\ submitted[j] \in Nat
    BY EmbeddedAssumption DEF EmbeddedInv, EmbeddedTypeOK
  <2> QED
    BY <2>1, <2>2, GivenStays
<1> QED
  BY <1>1, <1>2, <1>4, <1>5, <1>6, <1>7 DEF EmbeddedInv

Ends == {"failed_retryable", "failed_terminal", "delivery_uncertain", "completed_reported"}

\* An operation ends: rejected only while its handoff has not begun.
LEMMA EndKeeps ==
  ASSUME EmbeddedTypeOK, EmbeddedInv, Open, NEW n \in Operation, Drawn(document[n]),
         document[n].phase # "done", NEW outcome \in Ends,
         outcome = "failed_retryable" => document[n].phase = "claimed",
         NEW doc, doc = [document EXCEPT ![n].phase = "done", ![n].state = outcome],
         NEW done, NEW failed,
         Persist(doc, rows, apply_completed_to_store(n, document[n].job, outcome, rows, current),
                 current, done, failed),
         Fits(done, doc, doc), Fits(failed, doc, doc), Fits(failed, doc, file),
         done.at = "started" => done = host, failed.at = "started" => failed = host,
         UNCHANGED <<overdue, submitted, unprojected>>
  PROVE  EmbeddedTypeOK' /\ EmbeddedInv'
<1>1. document \in [Operation -> Entry] /\ outcome \in JobState
  BY OpenIs DEF Ends, JobState, Successors, Terminal
<1>2. /\ doc \in [Operation -> Entry] /\ \A m \in Operation : m # n => doc[m] = document[m]
      /\ doc[n].job = document[n].job /\ doc[n].phase = "done" /\ doc[n].state = outcome
  BY <1>1 DEF Entry
<1>3. document[n].phase \in {"claimed", "handoff_started", "accepted"}
  BY <1>1, EntryFields DEF Drawn
<1>4. Moves(n, doc)
  BY <1>2, <1>3 DEF Moves, Ahead, Drawn, Spent, Rejected, Ends
<1>5. PICK row : row = apply_completed_to_store(n, document[n].job, outcome, rows, current)
  OBVIOUS
<1>6. document[n].job \in Work
  BY DEF EmbeddedInv, OperationsHaveRows, HasRow
<1>7. row = rows \/ row = [rows EXCEPT ![document[n].job] = outcome]
  BY <1>5 DEF apply_completed_to_store
<1>8. Projects(n, doc, row)
  BY <1>1, <1>2, <1>6, <1>7 DEF Projects, EmbeddedTypeOK, Ends, Idling, Rejected
<1> QED
  BY <1>4, <1>5, <1>8, MoveKeeps

\* RejectedBeforeHandoff preserves the invariant.
LEMMA RejectKeeps ==
  ASSUME EmbeddedTypeOK, EmbeddedInv, RejectBeforeHandoff
  PROVE  EmbeddedTypeOK' /\ EmbeddedInv'
<1>0. PICK n : n = host.op
  OBVIOUS
<1>1. PICK outcome \in {"failed_retryable", "failed_terminal"} :
        /\ n = host.op /\ host.at \in {"claimed", "refused"}
        /\ IF MayReject(n) THEN Complete(n, outcome, Resting)
           ELSE host' = Resting /\ UNCHANGED <<rows, current, document, file, slipups>>
        /\ UNCHANGED <<overdue, submitted, unprojected>>
  BY <1>0 DEF RejectBeforeHandoff
<1>2. Open /\ n \in Operation /\ Drawn(document[n])
  BY <1>1 DEF EmbeddedInv, HostIsInStep
<1>3. CASE MayReject(n)
  <2>1. PICK doc : doc = [document EXCEPT ![n].phase = "done", ![n].state = outcome]
    OBVIOUS
  <2>2. /\ Persist(doc, rows, apply_completed_to_store(n, document[n].job, outcome, rows, current),
                   current, Resting, Resting)
        /\ document[n].phase = "claimed" /\ outcome \in Ends
    BY <1>1, <1>3, <2>1 DEF Complete, MayReject, Ends
  <2>3. PICK r : r = Resting
    OBVIOUS
  <2>4. r.at = "idle" /\ Fits(r, doc, doc) /\ Fits(r, doc, file)
    BY <2>3, RestingFits DEF Resting
  <2>5. Persist(doc, rows, apply_completed_to_store(n, document[n].job, outcome, rows, current), current, r, r)
    BY <2>2, <2>3
  <2> QED
    BY <1>1, <1>2, <2>1, <2>2, <2>4, <2>5, EndKeeps
<1>4. CASE ~MayReject(n)
  <2>1. /\ host' = [at |-> "idle", op |-> 0]
        /\ UNCHANGED <<rows, current, overdue, document, file, submitted, unprojected, slipups>>
    BY <1>1, <1>4 DEF Resting
  <2>2. EmbeddedTypeOK' /\ host'.at = "idle"
    BY <2>1, EmbeddedAssumption DEF EmbeddedTypeOK, Host
  <2>3. HostIsInStep' /\ RowsGo
    BY <2>1, <2>2 DEF HostIsInStep, RowsGo
  <2> QED
    BY <2>1, <2>2, <2>3, RowsKeep
<1> QED
  BY <1>3, <1>4

\* Reporting an ambiguous result preserves the invariant.
LEMMA AmbiguousKeeps ==
  ASSUME EmbeddedTypeOK, EmbeddedInv, ReportAmbiguous
  PROVE  EmbeddedTypeOK' /\ EmbeddedInv'
<1>1. PICK n, outcome : n = host.op /\ outcome = "delivery_uncertain"
  OBVIOUS
<1>2. /\ Open /\ n \in Operation /\ Drawn(document[n])
      /\ document[n].phase \in {"handoff_started", "accepted"} /\ outcome \in Ends
  BY <1>1 DEF ReportAmbiguous, EmbeddedInv, HostIsInStep, Ends
<1>3. PICK doc : doc = [document EXCEPT ![n].phase = "done", ![n].state = outcome]
  OBVIOUS
<1>4. /\ Persist(doc, rows, apply_completed_to_store(n, document[n].job, outcome, rows, current),
                 current, Resting, Resting)
      /\ UNCHANGED <<overdue, submitted, unprojected>>
  BY <1>1, <1>3 DEF ReportAmbiguous, Complete
<1>5. PICK r : r = Resting
  OBVIOUS
<1>6. r.at = "idle" /\ Fits(r, doc, doc) /\ Fits(r, doc, file)
  BY <1>5, RestingFits DEF Resting
<1>7. Persist(doc, rows, apply_completed_to_store(n, document[n].job, outcome, rows, current), current, r, r)
  BY <1>4, <1>5
<1>8. outcome = "failed_retryable" => document[n].phase = "claimed"
  BY <1>1
<1> QED
  BY <1>2, <1>3, <1>4, <1>6, <1>7, <1>8, EndKeeps

\* The host fits what it fitted when another operation goes on.
LEMMA FitsStill ==
  ASSUME EmbeddedTypeOK, EmbeddedInv, Open, NEW n, host.op # n, NEW doc,
         \A m \in Operation : m # n => doc[m] = document[m]
  PROVE  Fits(host, doc, doc) /\ Fits(host, doc, file)
<1>1. host \in Host /\ HostIsInStep
  BY DEF EmbeddedTypeOK, EmbeddedInv
<1> QED
  BY <1>1 DEF Fits, HostIsInStep, Spent

\* Reporting the end of an accepted operation preserves the invariant.
LEMMA FinalKeeps ==
  ASSUME EmbeddedTypeOK, EmbeddedInv, NEW n \in Operation, ReportFinal(n)
  PROVE  EmbeddedTypeOK' /\ EmbeddedInv'
<1>1. PICK outcome \in {"completed_reported", "failed_terminal"} :
        /\ Persist([document EXCEPT ![n].phase = "done", ![n].state = outcome], rows,
                   apply_completed_to_store(n, document[n].job, outcome, rows, current), current, host, host)
        /\ UNCHANGED <<overdue, submitted, unprojected>>
        /\ Open /\ document[n].phase = "accepted" /\ host.op # n
  BY DEF ReportFinal, Open
<1>2. PICK doc : doc = [document EXCEPT ![n].phase = "done", ![n].state = outcome]
  OBVIOUS
<1>3. document \in [Operation -> Entry] /\ outcome \in JobState /\ outcome \in Ends
  BY <1>1, OpenIs DEF Ends, JobState, Successors, Terminal
<1>4. \A m \in Operation : m # n => doc[m] = document[m]
  BY <1>2, <1>3
<1>5. Fits(host, doc, doc) /\ Fits(host, doc, file)
  BY <1>1, <1>4, FitsStill
<1> QED
  BY <1>1, <1>2, <1>3, <1>5, EndKeeps DEF Drawn

\* begin_handoff preserves the invariant: the host may call the native API
\* only once the file says that the handoff began.
LEMMA BeginKeeps ==
  ASSUME EmbeddedTypeOK, EmbeddedInv, begin_handoff
  PROVE  EmbeddedTypeOK' /\ EmbeddedInv'
<1>1. PICK n, refused, started, doc :
        /\ n = host.op /\ refused = [host EXCEPT !.at = "refused"]
        /\ started = [host EXCEPT !.at = "started"]
        /\ doc = [document EXCEPT ![n].phase = "handoff_started"]
  OBVIOUS
<1>2. /\ host.at = "claimed" /\ document[n].phase = "claimed"
      /\ UNCHANGED <<overdue, submitted, unprojected>>
  BY <1>1 DEF begin_handoff
<1>3. Open /\ n \in Operation /\ Drawn(document[n]) /\ document \in [Operation -> Entry]
  BY <1>1, <1>2, OpenIs DEF EmbeddedInv, HostIsInStep
<1>4. /\ refused \in Host /\ started \in Host /\ refused.op = n /\ started.op = n
      /\ refused.at = "refused" /\ started.at = "started"
  BY <1>1 DEF EmbeddedTypeOK, Host
<1>5. CASE Persist(doc, rows, rows, current, started, refused)
  <2>1. /\ doc \in [Operation -> Entry] /\ \A m \in Operation : m # n => doc[m] = document[m]
        /\ doc[n].job = document[n].job /\ doc[n].phase = "handoff_started"
        /\ doc[n].state = document[n].state
    BY <1>1, <1>3 DEF Entry
  <2>2. document[n].state # "queued_local" /\ ~Spent(document[n])
    BY <1>2, <1>3 DEF EmbeddedInv, OperationsHaveRows, HasRow, Spent
  <2>3. Moves(n, doc)
    BY <1>2, <1>3, <2>1, <2>2 DEF Moves, Ahead, Drawn, Spent
  <2>4. PICK row, setting : row = rows /\ setting = current
    OBVIOUS
  <2>5. Projects(n, doc, row)
    BY <2>4 DEF Projects, EmbeddedTypeOK
  <2>6. Fits(started, doc, doc) /\ Fits(refused, doc, doc) /\ Fits(refused, doc, file)
    BY <1>3, <1>4, <2>1 DEF Fits, Drawn
  <2>7. ~Spent(file[n])
    BY <1>3, <2>2 DEF EmbeddedInv, MemoryIsAhead, Ahead, Drawn, Spent
  <2>8. Persist(doc, rows, row, setting, started, refused)
    BY <1>5, <2>4
  <2> QED
    BY <1>2, <1>3, <1>4, <2>3, <2>4, <2>5, <2>6, <2>7, <2>8, MoveKeeps
<1>6. CASE host' = refused /\ UNCHANGED <<rows, current, document, file, slipups>>
  <2>1. EmbeddedTypeOK'
    BY <1>2, <1>4, <1>6 DEF EmbeddedTypeOK
  <2>2. HostIsInStep' /\ RowsGo /\ host'.at # "started"
    BY <1>3, <1>4, <1>6 DEF HostIsInStep, RowsGo, Open
  <2> QED
    BY <1>2, <1>6, <2>1, <2>2, RowsKeep
<1> QED
  BY <1>1, <1>5, <1>6 DEF begin_handoff

\* Reporting that the native API accepted the job preserves the invariant.
LEMMA AcceptedKeeps ==
  ASSUME EmbeddedTypeOK, EmbeddedInv, ReportAccepted
  PROVE  EmbeddedTypeOK' /\ EmbeddedInv'
<1>1. PICK n, unclear, r, doc, row, setting :
        /\ n = host.op /\ unclear = [host EXCEPT !.at = "unclear"] /\ r = Resting
        /\ doc = [document EXCEPT ![n].phase = "accepted"]
        /\ row = repair_active_operation(n, doc, rows)
        /\ setting = [current EXCEPT ![doc[n].job] = n]
  OBVIOUS
<1>2. /\ host.at = "accepted" /\ UNCHANGED <<overdue, submitted, unprojected>>
      /\ Persist(doc, rows, row, setting, r, unclear)
  BY <1>1 DEF ReportAccepted
<1>3. /\ Open /\ n \in Operation /\ Drawn(document[n]) /\ document \in [Operation -> Entry]
      /\ document[n].phase = "handoff_started" /\ file[n].phase = "handoff_started"
  BY <1>1, <1>2, OpenIs DEF EmbeddedInv, HostIsInStep
<1>4. /\ doc \in [Operation -> Entry] /\ \A m \in Operation : m # n => doc[m] = document[m]
      /\ doc[n].job = document[n].job /\ doc[n].phase = "accepted" /\ doc[n].state = document[n].state
  BY <1>1, <1>3 DEF Entry
<1>5. document[n].state # "queued_local" /\ document[n].job \in Work
  BY <1>3 DEF EmbeddedInv, OperationsHaveRows, HasRow
<1>6. Moves(n, doc)
  BY <1>3, <1>4, <1>5 DEF Moves, Ahead, Drawn, Spent
<1>7. row = rows \/ row = [rows EXCEPT ![document[n].job] = "accepted_by_spooler"]
  BY <1>1, <1>4 DEF repair_active_operation
<1>8. Projects(n, doc, row)
  BY <1>5, <1>7 DEF Projects, EmbeddedTypeOK, Idling, JobState, Successors, Terminal
<1>9. unclear \in Host /\ unclear.op = n /\ unclear.at = "unclear" /\ r.at = "idle"
  BY <1>1 DEF EmbeddedTypeOK, Host, Resting
<1>10. Fits(r, doc, doc) /\ Fits(unclear, doc, doc) /\ Fits(unclear, doc, file)
  <2>1. Fits(r, doc, doc)
    BY <1>1, RestingFits
  <2> QED
    BY <1>3, <1>4, <1>9, <2>1 DEF Fits, Drawn, Spent
<1>11. setting = [current EXCEPT ![document[n].job] = n]
  BY <1>1, <1>4
<1> QED
  BY <1>2, <1>3, <1>6, <1>8, <1>9, <1>10, <1>11, MoveKeeps

\* A job that can be drawn is waiting.
LEMMA HeadsWait ==
  ASSUME EmbeddedTypeOK, NEW row \in [Work -> JobState \cup {"absent"}],
         runnable_jobs_across_scopes(row) # {}
  PROVE  /\ Min(runnable_jobs_across_scopes(row)) \in Work
         /\ row[Min(runnable_jobs_across_scopes(row))] \in Idling
<1> DEFINE R == runnable_jobs_across_scopes(row)
<1>1. \A scope : Heads(row, scope) \subseteq {j \in scope : row[j] \in Idling}
  BY DEF Heads, Queued, Idling
<1>2. R \subseteq {j \in Work : row[j] \in Idling}
  BY <1>1, EmbeddedAssumption DEF runnable_jobs_across_scopes
<1>3. R \subseteq Nat /\ R # {}
  BY <1>2, EmbeddedAssumption
<1> HIDE DEF R
<1>4. Min(R) \in R
  BY <1>3, LeastIn
<1>5. Min(R) \in Work /\ row[Min(R)] \in Idling
  BY <1>2, <1>4
<1> QED
  BY <1>5 DEF R

\* Job j is drawn under the new operation n: the journal doc, the rows row and
\* the setting of the call.
Draws(n, j, doc, row, setting) ==
  /\ n \in Operation /\ j \in Work /\ doc \in [Operation -> Entry]
  /\ ~Drawn(document[n]) /\ ~Drawn(file[n]) /\ Expired[j] \in Idling /\ rows[j] \in Idling
  /\ \A m \in Operation : m # n => doc[m] = document[m]
  /\ doc[n].job = j /\ doc[n].phase = "claimed" /\ doc[n].state = "spool_intent"
  /\ \A i \in Work : i # j => row[i] = Expired[i]
  /\ row[j] = "spool_intent" /\ row \in [Work -> JobState \cup {"absent"}]
  /\ \A i \in Work : i # j => setting[i] = current[i]
  /\ setting[j] = n /\ setting \in [Work -> 0..MaxOperations]

\* The job is projected, memory is lost, or the job counts as unprojected.
Told(j) ==
  /\ unprojected \subseteq unprojected' /\ unprojected' \subseteq unprojected \cup {j}
  /\ j \in unprojected' \/ document' = Closed \/ rows'[j] = "spool_intent"

\* Drawing a job keeps what is said of the rows and settings of the others.
LEMMA DrawOthers ==
  ASSUME EmbeddedTypeOK, EmbeddedInv, Open, NEW n, NEW j, NEW doc, NEW row, NEW setting,
         Draws(n, j, doc, row, setting), NEW done, NEW failed,
         Written(doc, Expired, row, setting, done, failed),
         NEW i \in Work, i # j, i \notin unprojected
  PROVE  WaitingIsRejected(i)' /\ OneCounts(i)'
<1>1. /\ Of(file, i) = Of(document, i) /\ \A m \in Operation : Rejected(file[m]) => document[m] = file[m]
      /\ WaitingIsRejected(i) /\ OneCounts(i)
  BY FileKnows DEF EmbeddedInv
<1>2. /\ Of(doc, i) = Of(document, i) /\ Of(document, i) \subseteq Operation \ {n}
      /\ Of(file, i)' = Of(file, i)
  BY <1>1 DEF Draws, Of, Written, Drawn
<1>3. \A m \in Of(file, i) : /\ doc[m] = document[m]
                             /\ Rejected(file[m]) => Rejected(file'[m])
                             /\ file[m] = document[m] => file'[m] = file[m]
  BY <1>1, <1>2 DEF Draws, Written
<1>4. current'[i] = current[i] /\ (rows'[i] \in Idling => rows[i] \in Idling)
  BY ExpiredRows DEF Written, Draws
<1>5. OneCounts(i)'
  <2>1. \A m, k \in Of(file, i)' : m = k \/ Rejected(file'[m]) \/ Rejected(file'[k])
    BY <1>1, <1>2, <1>3 DEF OneCounts
  <2>2. \A m \in Of(file, i)' : ~Rejected(file'[m]) => current'[i] = m
    BY <1>1, <1>2, <1>3, <1>4 DEF OneCounts
  <2> QED
    BY <2>1, <2>2 DEF OneCounts
<1>6. WaitingIsRejected(i)'
  <2>1. Open' => document' = doc /\ Of(document, i)' = Of(file, i)
    BY <1>1, <1>2 DEF Written, Open, Of
  <2> QED
    BY <1>1, <1>2, <1>3, <1>4, <2>1 DEF WaitingIsRejected
<1> QED
  BY <1>5, <1>6

\* Drawing a job that was rejected so far makes the new operation the one that
\* counts, as soon as its row or the end of the process lets it.
LEMMA DrawOwn ==
  ASSUME EmbeddedTypeOK, EmbeddedInv, Open, NEW n, NEW j, NEW doc, NEW row, NEW setting,
         Draws(n, j, doc, row, setting), NEW done, NEW failed,
         Written(doc, Expired, row, setting, done, failed), Told(j), j \notin unprojected'
  PROVE  WaitingIsRejected(j)' /\ OneCounts(j)'
<1>1. j \in Work /\ j \notin unprojected /\ n \in Operation
  BY DEF Draws, Told
<1>2. /\ Of(file, j) = Of(document, j)
      /\ \A m \in Of(file, j) : Rejected(document[m]) /\ file[m] = document[m] /\ m # n
  BY <1>1, FileKnows DEF EmbeddedInv, WaitingIsRejected, Draws, Of
<1>3. /\ Of(file, j)' \subseteq Of(file, j) \cup {n}
      /\ \A m \in Of(file, j) : file'[m] = file[m] /\ doc[m] = file[m]
      /\ n \in Of(file, j)' => file' = doc
  BY <1>2 DEF Draws, Written, Of
<1>4. \A m \in Of(file, j)' : m = n \/ Rejected(file'[m])
  BY <1>2, <1>3
<1>5. CASE rows'[j] = "spool_intent"
  <2>1. current'[j] = n
    <3>1. Expired[j] # "spool_intent" /\ setting[j] = n
      BY DEF Draws, Idling
    <3> QED
      BY <1>5, <3>1 DEF Written
  <2>2. WaitingIsRejected(j)'
    BY <1>5 DEF WaitingIsRejected, Idling
  <2> QED
    BY <1>4, <2>1, <2>2 DEF OneCounts
<1>6. CASE document' = Closed
  <2>1. ~Open' /\ doc[n].phase = "claimed"
    BY <1>6 DEF Open, Draws
  <2>2. \A m \in Of(file, j)' : file'[m].phase = "claimed" \/ Rejected(file'[m])
    BY <1>3, <1>4, <2>1
  <2>3. \A m \in Of(file, j)' : ~Rejected(file'[m]) => file'[m].phase = "claimed"
    BY <2>2
  <2> QED
    BY <1>4, <2>1, <2>2, <2>3 DEF OneCounts, WaitingIsRejected
<1> QED
  BY <1>5, <1>6 DEF Told

\* Drawing a job preserves the invariant.
LEMMA DrawKeeps ==
  ASSUME EmbeddedTypeOK, EmbeddedInv, Open, NEW n, NEW j, NEW doc, NEW row, NEW setting,
         Draws(n, j, doc, row, setting), NEW done, NEW r,
         Persist(doc, Expired, row, setting, done, r), Told(j),
         r = Resting, done = [at |-> "claimed", op |-> n], UNCHANGED <<overdue, submitted>>
  PROVE  EmbeddedTypeOK' /\ EmbeddedInv'
<1>1. /\ Written(doc, Expired, row, setting, done, r) /\ doc \in [Operation -> Entry]
      /\ n \in Operation /\ j \in Work /\ Expired \in [Work -> JobState \cup {"absent"}]
  BY PersistWrites, ExpiredRows DEF Draws
<1>2. /\ done \in Host /\ done.at = "claimed" /\ done.op = n /\ r.at = "idle"
  BY <1>1, EmbeddedAssumption DEF Host, Operation, Resting
<1>3. Fits(done, doc, doc) /\ Fits(r, doc, doc) /\ Fits(r, doc, file)
  <2>1. Drawn(doc[n])
    BY DEF Draws, Drawn
  <2>2. Fits(done, doc, doc)
    BY <1>1, <1>2, <2>1 DEF Fits
  <2> QED
    BY <2>2, RestingFits
<1>4. HostIsInStep' /\ host' \in Host
  BY <1>1, <1>3, WrittenInStep
<1>5. EmbeddedTypeOK'
  <2>1. /\ row \in [Work -> JobState \cup {"absent"}] /\ setting \in [Work -> 0..MaxOperations]
        /\ unprojected' \subseteq Work
    BY <1>1 DEF Draws, Told, EmbeddedTypeOK
  <2> QED
    BY <1>1, <1>4, <2>1, WrittenTypes
<1>6. \A m \in Operation : /\ Ahead(file[m], document[m])
                           /\ Drawn(document[m]) /\ ~Drawn(file[m]) => document[m].job \in unprojected
  BY DEF EmbeddedInv, MemoryIsAhead
<1>7. \A m \in Operation : Ahead(file[m], doc[m])
  BY <1>6 DEF Draws, Ahead
<1>8. MemoryIsAhead'
  <2>1. \A m \in Operation : Ahead(file'[m], doc[m])
    BY <1>1, <1>7, AheadOf DEF Written
  <2>2. Open' => document' = doc /\ (file' = doc \/ j \in unprojected')
    <3>1. Expired[j] # "spool_intent"
      BY DEF Draws, Idling
    <3> QED
      BY <1>1, <3>1 DEF Written, Open, Told
  <2>3. ASSUME Open', NEW m \in Operation, Drawn(doc[m]), ~Drawn(file'[m])
        PROVE  doc[m].job \in unprojected'
    <3>1. file' = file /\ j \in unprojected'
      BY <1>1, <2>2, <2>3 DEF Written
    <3> QED
      BY <1>6, <2>3, <3>1 DEF Draws, Told
  <2> QED
    BY <2>1, <2>2, <2>3 DEF MemoryIsAhead
<1>9. OperationsHaveRows'
  <2>1. \A i \in Work : rows'[i] = "absent" => rows[i] = "absent"
    BY <1>1, ExpiredRows DEF Written, Draws
  <2>2. \A m \in Operation : HasRow(file[m]) /\ HasRow(document[m])
    BY DEF EmbeddedInv, OperationsHaveRows
  <2>3. \A m \in Operation : Drawn(doc[m]) =>
          doc[m].job \in Work /\ rows[doc[m].job] # "absent" /\ doc[m].state # "queued_local"
    BY <2>2 DEF HasRow, Draws, Idling
  <2>4. \A m \in Operation : Drawn(file[m]) =>
          file[m].job \in Work /\ rows[file[m].job] # "absent" /\ file[m].state # "queued_local"
    BY <2>2 DEF HasRow
  <2> QED
    BY <1>1, <2>1, <2>3, <2>4 DEF OperationsHaveRows, HasRow, Written, Open
<1>10. ASSUME NEW i \in Work, i \notin unprojected' PROVE WaitingIsRejected(i)' /\ OneCounts(i)'
  <2>1. i \notin unprojected
    BY <1>10 DEF Told
  <2>2. CASE i = j
    BY <1>1, <1>10, <2>2, DrawOwn
  <2>3. CASE i # j
    BY <1>1, <1>10, <2>1, <2>3, DrawOthers
  <2> QED
    BY <2>2, <2>3
<1>11. ASSUME NEW i \in Work PROVE (submitted[i] <= Cardinality(Given(i)))'
  <2>1. ASSUME NEW m \in Given(i) PROVE m \in Given(i)'
    <3>1. m \in Operation /\ Drawn(file[m]) /\ file[m].job = i /\ Spent(file[m])
      BY DEF Given, Of
    <3>2. Drawn(file'[m]) /\ file'[m].job = i /\ Spent(file'[m])
      BY <1>1, <1>7, <3>1 DEF Written, Ahead
    <3>3. host'.at # "started"
      BY <1>1, <1>2 DEF Written, Resting
    <3> QED
      BY <3>1, <3>2, <3>3 DEF Given, Of
  <2>2. submitted[i] <= Cardinality(Given(i)) /\ submitted[i] \in Nat
    BY EmbeddedAssumption DEF EmbeddedInv, EmbeddedTypeOK
  <2> QED
    BY <2>1, <2>2, GivenStays
<1> QED
  BY <1>4, <1>5, <1>8, <1>9, <1>10, <1>11 DEF EmbeddedInv

\* next_operation preserves the invariant.
LEMMA NextOperationKeeps ==
  ASSUME EmbeddedTypeOK, EmbeddedInv, next_operation
  PROVE  EmbeddedTypeOK' /\ EmbeddedInv'
<1>1. Open /\ host.at = "idle" /\ UNCHANGED <<overdue, submitted>>
  BY DEF next_operation, Open
<1>2. CASE /\ Replayed(document) # {} /\ rows' = Expired
           /\ LET n == Min(Replayed(document)) IN
                host' = [at |-> IF document[n].phase = "claimed" THEN "claimed" ELSE "recovered", op |-> n]
           /\ UNCHANGED <<current, document, file, unprojected, slipups>>
  <2>1. PICK n : n = Min(Replayed(document))
    OBVIOUS
  <2>2. host' = [at |-> IF document[n].phase = "claimed" THEN "claimed" ELSE "recovered", op |-> n]
    BY <1>2, <2>1
  <2> QED
    BY <1>1, <1>2, <2>1, <2>2, ReplayKeeps
<1>3. CASE rows' = Expired /\ UNCHANGED <<current, document, file, host, unprojected, slipups>>
  BY <1>1, <1>3, NothingKeeps
<1>4. CASE /\ Replayed(document) = {} /\ Fresh(document) # {}
           /\ runnable_jobs_across_scopes(Expired) # {}
           /\ LET j == Min(runnable_jobs_across_scopes(Expired))
                  n == Min(Fresh(document))
              IN /\ Persist([document EXCEPT ![n] = [job |-> j, phase |-> "claimed", state |-> "spool_intent"]],
                            Expired, [Expired EXCEPT ![j] = "spool_intent"], [current EXCEPT ![j] = n],
                            [at |-> "claimed", op |-> n], Resting)
                 /\ unprojected' = IF document' # Closed /\ rows'[j] # "spool_intent"
                                   THEN unprojected \cup {j} ELSE unprojected
  <2>1. PICK n, j, r : n = Min(Fresh(document)) /\ j = Min(runnable_jobs_across_scopes(Expired)) /\ r = Resting
    OBVIOUS
  <2>2. PICK e, row, setting, done :
          /\ e = [job |-> j, phase |-> "claimed", state |-> "spool_intent"]
          /\ row = [Expired EXCEPT ![j] = "spool_intent"] /\ setting = [current EXCEPT ![j] = n]
          /\ done = [at |-> "claimed", op |-> n]
    OBVIOUS
  <2>3. PICK doc : doc = [document EXCEPT ![n] = e]
    OBVIOUS
  <2>4. /\ Persist(doc, Expired, row, setting, done, r)
        /\ unprojected' = IF document' # Closed /\ rows'[j] # "spool_intent"
                          THEN unprojected \cup {j} ELSE unprojected
    BY <1>4, <2>1, <2>2, <2>3
  <2>5. Told(j)
    BY <2>4 DEF Told
  <2>6. n \in Operation /\ document[n].phase = "none"
    <3>1. Fresh(document) \subseteq Nat /\ Fresh(document) # {}
      BY <1>4, EmbeddedAssumption DEF Fresh, Operation
    <3>2. n \in Fresh(document)
      BY <2>1, <3>1, LeastIn
    <3> QED
      BY <3>2 DEF Fresh
  <2>7. /\ Expired \in [Work -> JobState \cup {"absent"}] /\ j \in Work
        /\ Expired[j] \in Idling /\ rows[j] \in Idling
    <3>1. PICK found : found = Expired
      OBVIOUS
    <3>2. found \in [Work -> JobState \cup {"absent"}]
      BY <3>1, ExpiredRows
    <3>3. j \in Work /\ found[j] \in Idling
      BY <1>4, <2>1, <3>1, <3>2, HeadsWait
    <3> QED
      BY <3>1, <3>2, <3>3, ExpiredRows
  <2>8. document \in [Operation -> Entry] /\ current \in [Work -> 0..MaxOperations]
    BY <1>1, OpenIs DEF EmbeddedTypeOK
  <2>9. e \in Entry /\ e.job = j /\ e.phase = "claimed" /\ e.state = "spool_intent"
    BY <2>2, <2>7 DEF Entry, JobState, Successors
  <2>10. ~Drawn(document[n]) /\ ~Drawn(file[n])
    BY <1>1, <2>6 DEF EmbeddedInv, MemoryIsAhead, Ahead, Drawn
  <2>11. /\ row \in [Work -> JobState \cup {"absent"}] /\ row[j] = "spool_intent"
         /\ \A i \in Work : i # j => row[i] = Expired[i]
    BY <2>2, <2>7 DEF JobState, Successors
  <2>12. /\ setting \in [Work -> 0..MaxOperations] /\ setting[j] = n
         /\ \A i \in Work : i # j => setting[i] = current[i]
    BY <2>2, <2>6, <2>7, <2>8, EmbeddedAssumption DEF Operation
  <2>13. /\ doc \in [Operation -> Entry] /\ doc[n] = e
         /\ \A m \in Operation : m # n => doc[m] = document[m]
    BY <2>3, <2>6, <2>8, <2>9
  <2>14. Draws(n, j, doc, row, setting)
    BY <2>6, <2>7, <2>9, <2>10, <2>11, <2>12, <2>13 DEF Draws
  <2> QED
    BY <1>1, <2>1, <2>2, <2>4, <2>5, <2>14, DrawKeeps
<1> QED
  BY <1>2, <1>3, <1>4 DEF next_operation

-----------------------------------------------------------------------------
(* Opening the queues again.                                               *)

Unfinished == {"claimed", "handoff_started", "accepted"}

\* The active operations of a job in the file, what repairing with the last of
\* them makes of its row, and the acknowledgements that still have the word.
Mine(j) == {n \in Operation : file[n].phase \in Unfinished /\ file[n].job = j}
Repaired(j) ==
  IF Mine(j) = {} THEN Expired[j] ELSE repair_active_operation(Max(Mine(j)), file, Expired)[j]
Kept(j) == {n \in Operation : file[n].phase = "done" /\ file[n].job = j /\ current'[j] \in {0, n}}

\* What opening makes of the setting and the row of one job.
Opened(j) ==
  /\ current'[j] = IF Mine(j) = {} THEN current[j] ELSE Max(Mine(j))
  /\ \/ Kept(j) = {} /\ rows'[j] = Repaired(j)
     \/ \E n \in Kept(j) : rows'[j] = file[n].state

\* Opening takes the journal from the file, and does that to every job.
LEMMA OpensAll ==
  ASSUME EmbeddedTypeOK, OpenQueue
  PROVE  /\ ~Open /\ document' = file
         /\ UNCHANGED <<overdue, file, host, submitted, unprojected, slipups>>
         /\ DOMAIN current' = Work /\ current' = [j \in Work |-> current'[j]]
         /\ DOMAIN rows' = Work /\ rows' = [j \in Work |-> rows'[j]]
         /\ \A j \in Work : Opened(j)
<1> DEFINE active == {n \in Operation : file[n].phase \in {"claimed", "handoff_started", "accepted"}}
           finished == {n \in Operation : file[n].phase = "done"}
           setting == [j \in Work |-> LET mine == {n \in active : file[n].job = j}
                                      IN IF mine = {} THEN current[j] ELSE Max(mine)]
           repaired == [j \in Work |-> LET mine == {n \in active : file[n].job = j} IN
                          IF mine = {} THEN Expired[j]
                          ELSE repair_active_operation(Max(mine), file, Expired)[j]]
           retained(j) == {n \in finished : file[n].job = j /\ ~Superseded(n, j, setting)}
           after(j) ==
             IF retained(j) = {} THEN {repaired[j]}
             ELSE {apply_completed_to_store(n, j, file[n].state, repaired, setting)[j] : n \in retained(j)}
<1>1. /\ document = Closed /\ document' = file /\ current' = setting
      /\ rows' \in {r \in [Work -> UNION {after(j) : j \in Work}] : \A j \in Work : r[j] \in after(j)}
      /\ UNCHANGED <<overdue, file, host, submitted, unprojected, slipups>>
  BY DEF OpenQueue
<1>2. \A j : {n \in active : file[n].job = j} = Mine(j)
  BY DEF Mine, Unfinished
<1>3. ASSUME NEW j \in Work
      PROVE  /\ setting[j] = IF Mine(j) = {} THEN current[j] ELSE Max(Mine(j))
             /\ repaired[j] = Repaired(j) /\ retained(j) = Kept(j)
  <2>1. setting[j] = IF Mine(j) = {} THEN current[j] ELSE Max(Mine(j))
    BY <1>2
  <2>2. repaired[j] = Repaired(j)
    BY <1>2 DEF Repaired
  <2>3. retained(j) = Kept(j)
    BY <1>1 DEF Kept, Superseded
  <2> QED
    BY <2>1, <2>2, <2>3
<1>4. ASSUME NEW j \in Work, NEW n \in retained(j)
      PROVE  apply_completed_to_store(n, j, file[n].state, repaired, setting)[j] = file[n].state
  BY <1>4 DEF apply_completed_to_store
<1>5. rows' \in [Work -> UNION {after(j) : j \in Work}] /\ \A j \in Work : rows'[j] \in after(j)
  BY <1>1
<1>6. ASSUME NEW j \in Work PROVE Opened(j)
  <2>1. current'[j] = IF Mine(j) = {} THEN current[j] ELSE Max(Mine(j))
    BY <1>1, <1>3
  <2>2. CASE retained(j) = {}
    <3>1. rows'[j] = repaired[j]
      BY <1>5, <2>2
    <3> QED
      BY <1>3, <2>1, <2>2, <3>1 DEF Opened
  <2>3. CASE retained(j) # {}
    <3>1. PICK n \in retained(j) :
            rows'[j] = apply_completed_to_store(n, j, file[n].state, repaired, setting)[j]
      BY <1>5, <2>3
    <3>2. rows'[j] = file[n].state
      BY <1>4, <3>1
    <3> QED
      BY <1>3, <2>1, <3>2 DEF Opened
  <2> QED
    BY <2>2, <2>3
<1>7. DOMAIN current' = Work /\ current' = [j \in Work |-> current'[j]]
  BY <1>1
<1>8. DOMAIN rows' = Work /\ rows' = [j \in Work |-> rows'[j]]
  BY <1>5
<1> QED
  BY <1>1, <1>6, <1>7, <1>8 DEF Open

\* Repairing with an operation of the file: a claimed one no longer waits, and
\* a row neither appears nor comes to wait.
LEMMA RepairedRow ==
  ASSUME EmbeddedTypeOK, NEW j \in Work
  PROVE  /\ Repaired(j) \in JobState \cup {"absent"}
         /\ Repaired(j) = "absent" => rows[j] = "absent"
         /\ Repaired(j) \in Idling => rows[j] \in Idling
         /\ Mine(j) # {} => /\ Max(Mine(j)) \in Mine(j)
                            /\ file[Max(Mine(j))].phase = "claimed" => Repaired(j) \notin Idling
<1>1. /\ Expired \in [Work -> JobState \cup {"absent"}]
      /\ Expired[j] = "absent" <=> rows[j] = "absent"
      /\ Expired[j] \in Idling => rows[j] \in Idling
  BY ExpiredRows
<1>2. CASE Mine(j) = {}
  BY <1>1, <1>2 DEF Repaired
<1>3. CASE Mine(j) # {}
  <2>1. PICK n : n = Max(Mine(j))
    OBVIOUS
  <2>2. n \in Mine(j)
    <3>1. Mine(j) \subseteq Operation
      BY DEF Mine
    <3> QED
      BY <1>3, <2>1, <3>1, LastIn
  <2>3. file[n].job = j /\ Repaired(j) = repair_active_operation(n, file, Expired)[j]
    BY <1>3, <2>1, <2>2 DEF Repaired, Mine
  <2>4. /\ Repaired(j) = Expired[j] \/ Repaired(j) \in {"spool_intent", "accepted_by_spooler"}
        /\ file[n].phase = "claimed" => Repaired(j) \notin Idling
    BY <1>1, <2>3 DEF repair_active_operation, Idling
  <2>5. {"spool_intent", "accepted_by_spooler"} \subseteq JobState \ Idling
    BY DEF JobState, Successors, Idling
  <2> QED
    BY <1>1, <2>1, <2>2, <2>4, <2>5, NotThere
<1> QED
  BY <1>2, <1>3

\* Opening keeps types, and a row that is there stays.
LEMMA OpenedTypes ==
  ASSUME EmbeddedTypeOK, EmbeddedInv, OpenQueue
  PROVE  EmbeddedTypeOK' /\ \A j \in Work : rows'[j] = "absent" => rows[j] = "absent"
<1>1. /\ ~Open /\ document' = file
      /\ UNCHANGED <<overdue, file, host, submitted, unprojected, slipups>>
      /\ current' = [j \in Work |-> current'[j]] /\ rows' = [j \in Work |-> rows'[j]]
      /\ \A j \in Work : Opened(j)
  BY OpensAll
<1>2. ASSUME NEW j \in Work
      PROVE  /\ current'[j] \in 0..MaxOperations /\ rows'[j] \in JobState \cup {"absent"}
             /\ rows'[j] = "absent" => rows[j] = "absent"
  <2>1. Mine(j) # {} => Max(Mine(j)) \in 0..MaxOperations
    <3>1. Mine(j) \subseteq 0..MaxOperations
      BY EmbeddedAssumption DEF Mine, Operation
    <3> QED
      BY <3>1, RepairedRow
  <2>2. current'[j] \in 0..MaxOperations
    BY <1>1, <2>1 DEF Opened, EmbeddedTypeOK
  <2>3. \A n \in Kept(j) : file[n].state \in JobState
    BY EntryFields DEF Kept, EmbeddedTypeOK
  <2> QED
    BY <1>1, <2>2, <2>3, RepairedRow, NotThere DEF Opened
<1>3. current' \in [Work -> 0..MaxOperations] /\ rows' \in [Work -> JobState \cup {"absent"}]
  BY <1>1, <1>2
<1> QED
  BY <1>1, <1>2, <1>3 DEF EmbeddedTypeOK

\* A job whose spool intents were recorded: opening lets it wait only when all
\* its operations were rejected, and else names the one that was not.
LEMMA OpenedCounts ==
  ASSUME EmbeddedTypeOK, EmbeddedInv, OpenQueue, NEW j \in Work, j \notin unprojected
  PROVE  WaitingIsRejected(j)' /\ OneCounts(j)'
<1>1. ~Open /\ document' = file /\ file' = file /\ Opened(j)
  BY OpensAll
<1>2. WaitingIsRejected(j) /\ OneCounts(j) /\ file \in [Operation -> Entry]
  BY OpenIs DEF EmbeddedInv
<1>3. /\ Mine(j) \subseteq Of(file, j) /\ \A n \in Mine(j) : ~Rejected(file[n])
      /\ Kept(j) \subseteq Of(file, j) /\ Of(file, j) \subseteq Operation
  BY DEF Mine, Kept, Of, Unfinished, Drawn, Rejected
<1>4. ASSUME NEW n \in Of(file, j), ~Rejected(file[n])
      PROVE  current'[j] = n /\ rows'[j] \notin Idling
  <2>1. \A m \in Of(file, j) : m = n \/ Rejected(file[m])
    BY <1>2, <1>4 DEF OneCounts
  <2>2. n \in Operation /\ n # 0 /\ file[n].phase \in Unfinished \cup {"done"} /\ file[n].job = j
    BY <1>2, EntryFields DEF Of, Drawn, Unfinished
  <2>3. CASE file[n].phase \in Unfinished
    <3>1. Mine(j) = {n}
      BY <1>3, <2>1, <2>2, <2>3 DEF Mine
    <3>2. Max(Mine(j)) = n /\ (file[n].phase = "claimed" => Repaired(j) \notin Idling)
      BY <3>1, RepairedRow
    <3>3. current'[j] = n
      BY <1>1, <3>1, <3>2 DEF Opened
    <3>4. Kept(j) = {}
      BY <2>2, <2>3, <3>3 DEF Kept, Unfinished
    <3>5. rows'[j] = Repaired(j)
      BY <1>1, <3>4 DEF Opened
    <3>6. Repaired(j) \notin Idling
      BY <1>2, <1>4, <3>2, RepairedRow DEF WaitingIsRejected
    <3> QED
      BY <3>3, <3>5, <3>6
  <2>4. CASE file[n].phase = "done"
    <3>1. Mine(j) = {}
      <4>1. \A m \in Mine(j) : m = n
        BY <1>3, <2>1
      <4>2. n \notin Mine(j)
        BY <2>4 DEF Mine, Unfinished
      <4> QED
        BY <4>1, <4>2
    <3>2. current'[j] = n
      BY <1>1, <1>2, <1>4, <2>4, <3>1 DEF Opened, OneCounts
    <3>3. n \in Kept(j) /\ \A m \in Kept(j) : m = n
      BY <2>2, <2>4, <3>2 DEF Kept
    <3>4. rows'[j] = file[n].state
      BY <1>1, <3>3 DEF Opened
    <3>5. file[n].state # "failed_retryable" /\ file[n].state # "queued_local"
      BY <1>4, <2>2, <2>4 DEF Rejected, EmbeddedInv, OperationsHaveRows, HasRow, Drawn
    <3> QED
      BY <3>2, <3>4, <3>5 DEF Idling
  <2> QED
    BY <2>2, <2>3, <2>4
<1>5. Of(file, j)' = Of(file, j) /\ Of(document, j)' = Of(file, j)
  BY <1>1 DEF Of
<1>6. OneCounts(j)'
  BY <1>1, <1>2, <1>4, <1>5 DEF OneCounts
<1>7. WaitingIsRejected(j)'
  BY <1>1, <1>4, <1>5 DEF WaitingIsRejected
<1> QED
  BY <1>6, <1>7

\* Opening the queues preserves the invariant.
LEMMA OpenKeeps ==
  ASSUME EmbeddedTypeOK, EmbeddedInv, OpenQueue
  PROVE  EmbeddedTypeOK' /\ EmbeddedInv'
<1>1. /\ ~Open /\ document' = file /\ UNCHANGED <<file, host, submitted, unprojected>>
  BY OpensAll
<1>2. EmbeddedTypeOK' /\ \A j \in Work : rows'[j] = "absent" => rows[j] = "absent"
  BY OpenedTypes
<1>3. MemoryIsAhead'
  BY <1>1, AheadOf DEF MemoryIsAhead
<1>4. HostIsInStep' /\ host.at = "idle"
  BY <1>1 DEF EmbeddedInv, HostIsInStep
<1>5. OperationsHaveRows'
  BY <1>1, <1>2 DEF EmbeddedInv, OperationsHaveRows, HasRow
<1>6. \A j \in Work : j \notin unprojected => WaitingIsRejected(j)' /\ OneCounts(j)'
  BY OpenedCounts
<1>7. \A j \in Work : (submitted[j] <= Cardinality(Given(j)))'
  <2>1. \A j \in Work : Given(j)' = Given(j)
    BY <1>1 DEF Given, Of
  <2> QED
    BY <1>1, <2>1 DEF EmbeddedInv
<1> QED
  BY <1>1, <1>2, <1>3, <1>4, <1>5, <1>6, <1>7 DEF EmbeddedInv

-----------------------------------------------------------------------------
(* The embedded node.                                                      *)

\* Every step of the embedded node preserves the invariant.
LEMMA EmbeddedNextKeeps == EmbeddedTypeOK /\ EmbeddedInv /\ EmbeddedNext => EmbeddedTypeOK' /\ EmbeddedInv'
<1> SUFFICES ASSUME EmbeddedTypeOK, EmbeddedInv, EmbeddedNext
             PROVE  EmbeddedTypeOK' /\ EmbeddedInv'
  OBVIOUS
<1>1. CASE HostStep
  BY <1>1, NextOperationKeeps, BeginKeeps, SubmitNativeKeeps, RejectKeeps, AmbiguousKeeps, AcceptedKeeps
     DEF HostStep
<1>2. CASE HostDefers \/ HostStops \/ OpenQueue
  BY <1>2, DeferKeeps, HostStopsKeeps, OpenKeeps
<1>3. CASE \E j \in Work : enqueue(j) \/ ExpiryPasses(j) \/ CancelConnected(j)
  BY <1>3, CallerSteps
<1>4. CASE \E n \in Operation : ReportFinal(n)
  BY <1>4, FinalKeeps
<1> QED
  BY <1>1, <1>2, <1>3, <1>4 DEF EmbeddedNext

\* A step of others preserves it.
LEMMA EmbeddedStutterKeeps ==
  EmbeddedTypeOK /\ EmbeddedInv /\ UNCHANGED embeddedVars => EmbeddedTypeOK' /\ EmbeddedInv'
<1> SUFFICES ASSUME EmbeddedTypeOK, EmbeddedInv, UNCHANGED embeddedVars
             PROVE  EmbeddedTypeOK' /\ EmbeddedInv'
  OBVIOUS
<1>1. EmbeddedTypeOK' /\ RowsGo /\ HostIsInStep'
  BY HostStays DEF embeddedVars, EmbeddedTypeOK, RowsGo
<1> QED
  BY <1>1, RowsKeep DEF embeddedVars

\* Under the invariant a job whose spool intents were recorded was given to the
\* native API under the one operation of it that was not rejected.
LEMMA OneWasGiven == EmbeddedTypeOK /\ EmbeddedInv => SubmittedOnce
<1> SUFFICES ASSUME EmbeddedTypeOK, EmbeddedInv, NEW j \in Work, j \notin unprojected
             PROVE  submitted[j] <= 1
  BY DEF SubmittedOnce
<1>1. submitted[j] <= Cardinality(Given(j)) /\ submitted[j] \in Nat /\ OneCounts(j)
  BY EmbeddedAssumption DEF EmbeddedInv, EmbeddedTypeOK
<1>2. \A n, m \in Given(j) : n = m
  BY <1>1 DEF Given, OneCounts, Spent, Rejected
<1>3. Given(j) = {} \/ \E n : Given(j) = {n}
  BY <1>2
<1>4. Cardinality(Given(j)) \in 0..1
  <2>1. CASE Given(j) = {}
    <3>1. Cardinality({}) = 0
      BY FS_EmptySet
    <3> QED
      BY <2>1, <3>1
  <2>2. CASE \E n : Given(j) = {n}
    <3>1. PICK n : Given(j) = {n}
      BY <2>2
    <3>2. Cardinality({n}) = 1
      BY FS_Singleton
    <3> QED
      BY <3>1, <3>2
  <2> QED
    BY <1>3, <2>1, <2>2
<1> QED
  BY <1>1, <1>4

\* What memory, file, rows, settings and host of an embedded node know of an
\* operation stays together, over failed writes and stops.
LEMMA EmbeddedInvariant == EmbeddedSpec => [](EmbeddedTypeOK /\ EmbeddedInv)
<1>1. (EmbeddedTypeOK /\ EmbeddedInv) /\ [EmbeddedNext]_embeddedVars => (EmbeddedTypeOK /\ EmbeddedInv)'
  BY EmbeddedNextKeeps, EmbeddedStutterKeeps
<1> QED
  BY <1>1, EmbeddedInitKeeps, PTL DEF EmbeddedSpec

\* next_operation draws a job again only after a rejection before the handoff
\* (embedded.rs): an embedded node gives a job to the native API once at most,
\* unless its spool intent could not be recorded.
THEOREM SubmittedOnceHolds == EmbeddedSpec => []SubmittedOnce
BY EmbeddedInvariant, OneWasGiven, PTL

-----------------------------------------------------------------------------
(* The two deployments.                                                    *)

\* The two queues' invariants.
NodeInv == deployment \in {"installed", "embedded"} /\ QueueInv /\ EmbeddedTypeOK /\ EmbeddedInv

\* A step of a node is a step of one queue, and the other's rests.
LEMMA NodeInvariant == NodeSpec => []NodeInv
<1>1. NodeInit => NodeInv
  BY QueueInitKeeps, EmbeddedInitKeeps DEF NodeInit, NodeInv
<1>2. NodeInv /\ NodeNext => NodeInv'
  BY QueueNextKeeps, QueueStutterKeeps, EmbeddedNextKeeps, EmbeddedStutterKeeps DEF NodeInv, NodeNext
<1>3. NodeInv /\ UNCHANGED <<deployment, vars, embeddedVars>> => NodeInv'
  BY QueueStutterKeeps, EmbeddedStutterKeeps DEF NodeInv
<1> QED
  BY <1>1, <1>2, <1>3, PTL DEF NodeSpec

\* Rows, schedules, operations and histories of a node have their types,
\* installed or embedded.
THEOREM NodeTypes == NodeSpec => []NodeTypeOK
<1>1. NodeInv => NodeTypeOK
  BY DEF NodeInv, NodeTypeOK, QueueInv
<1> QED
  BY <1>1, NodeInvariant, PTL

\* The queue of a node, installed or embedded, keeps what each promises: one
\* handoff at a time and in order, observation while the spooler has a job, no
\* job printed or given to the native API twice for one release, and none that
\* ended in the agent's queue written again but by an operator's release.
THEOREM NodeSafe ==
  NodeSpec => /\ [](SerialHandoff /\ SubmissionOrder /\ TrackedWhileNative /\ PrintedOnce /\ SubmittedOnce)
              /\ OnlyReleaseReopens
<1>1. NodeInv => SerialHandoff /\ SubmissionOrder /\ TrackedWhileNative /\ PrintedOnce /\ SubmittedOnce
  BY OneWasGiven DEF NodeInv, QueueInv
<1>2. NodeInv /\ [NodeNext]_<<deployment, vars, embeddedVars>> =>
        [\A j \in Job \ CloudManaged :
           state[j] \in Terminal /\ state'[j] # state[j] =>
             /\ state[j] = "delivery_uncertain" /\ state'[j] = "failed_retryable"
             /\ j \in ambiguous /\ j \notin ambiguous']_vars
  <2> SUFFICES ASSUME NodeInv, [NodeNext]_<<deployment, vars, embeddedVars>>, ~(vars' = vars)
               PROVE  \A j \in Job \ CloudManaged :
                        state[j] \in Terminal /\ state'[j] # state[j] =>
                          /\ state[j] = "delivery_uncertain" /\ state'[j] = "failed_retryable"
                          /\ j \in ambiguous /\ j \notin ambiguous'
    OBVIOUS
  <2>1. Next /\ QueueInv
    BY DEF NodeNext, NodeInv
  <2> QED
    BY <2>1, TerminalStays DEF Reopened
<1> QED
  BY <1>1, <1>2, NodeInvariant, PTL DEF NodeSpec, OnlyReleaseReopens
=============================================================================
