--------------------------- MODULE EmbeddedHandoff ---------------------------
(* The node runtime embedded in a host application: SQLite queues with the  *)
(* jobs, and one JSON journal with the operations an adapter of the host is *)
(* asked to carry out.  Every call holds one lock, writes the journal and   *)
(* then brings the queue up to it; a failed write leaves its change in      *)
(* memory, and the process may stop between any two writes.  The host       *)
(* (sdk/apple PiqaeNode.swift) drains operations and observes accepted ones.*)
(*                                                                          *)
(* One adapter with one printer.  Jobs are numbered in the order of their   *)
(* printer sequence, operations as they are drawn; an operation's fence is  *)
(* part of its number.                                                      *)
EXTENDS JobStates, FiniteSetsExt, Integers

CONSTANTS
  Work,            \* job numbers
  Connected,       \* those of a connector's queue; the others are local
  MaxOperations,   \* bound: operations
  Mishap,          \* what may go wrong: "stop", "write"
  MaxMishaps,      \* bound: stops and failed writes
  Closed           \* no process

ASSUME EmbeddedAssumption ==
  /\ Work \subseteq Nat /\ IsFiniteSet(Work) /\ Connected \subseteq Work
  /\ MaxOperations \in Nat /\ Mishap \subseteq {"stop", "write"} /\ MaxMishaps \in Nat

VARIABLES
  rows,       \* jobs.state of the queues
  current,    \* setting embedded_adapter_operation: the job's last operation
  overdue,    \* jobs past expires_unix_ms
  document,   \* the journal in memory, or Closed
  file,       \* embedded-runtime.json
  host,       \* what the host is doing with an operation
  submitted,  \* history: calls of the native printing API, by job
  unprojected,\* history: jobs whose operation was journaled and not recorded
  slipups     \* mishaps so far

embeddedVars ==
  <<rows, current, overdue, document, file, host, submitted, unprojected, slipups>>

Operation == 1..MaxOperations
\* AdapterOperation in the journal; "done" is a CompletedAck with its outcome.
Entry ==
  [job : Work \cup {0}, phase : {"none", "claimed", "handoff_started", "accepted", "done"},
   state : JobState]
ASSUME ClosedAssumption == Closed \notin [Operation -> Entry]
Host == [at : {"idle", "claimed", "recovered", "refused", "started", "accepted", "unclear"},
         op : 0..MaxOperations]

EmbeddedTypeOK ==
  /\ rows \in [Work -> JobState \cup {"absent"}]
  /\ current \in [Work -> 0..MaxOperations]
  /\ overdue \subseteq Work /\ unprojected \subseteq Work
  /\ document \in [Operation -> Entry] \cup {Closed}
  /\ file \in [Operation -> Entry]
  /\ host \in Host
  /\ submitted \in [Work -> 0..MaxOperations]
  /\ slipups \in 0..MaxMishaps

Undrawn == [job |-> 0, phase |-> "none", state |-> "registered"]
Resting == [at |-> "idle", op |-> 0]

EmbeddedInit ==
  /\ rows = [j \in Work |-> "absent"] /\ current = [j \in Work |-> 0]
  /\ overdue = {} /\ unprojected = {}
  /\ document = [n \in Operation |-> Undrawn] /\ file = document
  /\ host = Resting
  /\ submitted = [j \in Work |-> 0] /\ slipups = 0

\* local enqueue, or the activation of a connector's offer, also of a job that
\* failed before its handoff.
enqueue(j) ==
  /\ document # Closed
  /\ rows[j] = "absent" \/ (j \in Connected /\ rows[j] = "failed_retryable")
  /\ rows' = [rows EXCEPT ![j] = "queued_local"]
  /\ UNCHANGED <<current, overdue, document, file, host, submitted, unprojected, slipups>>

ExpiryPasses(j) ==
  /\ rows[j] \in {"queued_local", "failed_retryable", "spool_intent"} /\ j \notin overdue
  /\ overdue' = overdue \cup {j}
  /\ UNCHANGED <<rows, current, document, file, host, submitted, unprojected, slipups>>

\* expire_waiting_across_scopes.
Expired ==
  [j \in Work |-> IF j \in overdue /\ rows[j] \in {"queued_local", "failed_retryable"}
                  THEN "expired" ELSE rows[j]]

\* request_cancel, by a command to the connector.
CancelConnected(j) ==
  /\ document # Closed /\ j \in Connected
  /\ rows[j] \in {"queued_local", "failed_retryable", "accepted_by_spooler"}
  /\ rows' = [rows EXCEPT ![j] = IF @ = "accepted_by_spooler" THEN "cancel_requested" ELSE "cancelled"]
  /\ UNCHANGED <<current, overdue, document, file, host, submitted, unprojected, slipups>>

\* runnable_heads of one queue: none while the printer is active in it.
Queued(row, scope) ==
  {j \in scope : row[j] = "queued_local" \/ (row[j] = "failed_retryable" /\ j \notin Connected)}
Heads(row, scope) ==
  IF \E j \in scope : row[j] \in {"spool_intent", "accepted_by_spooler"} THEN {}
  ELSE {j \in Queued(row, scope) : j = Min(Queued(row, scope))}
runnable_jobs_across_scopes(row) == Heads(row, Connected) \cup Heads(row, Work \ Connected)

\* persist, then the queue: all of it, or as far as a stop or an error lets it
\* get from the rows it found.  An error keeps what is in memory.
Persist(doc, found, row, setting, done, failed) ==
  \/ /\ document' = doc /\ file' = doc /\ rows' = row /\ current' = setting
     /\ host' = done /\ UNCHANGED slipups
  \/ \E kind \in Mishap :
       /\ slipups < MaxMishaps /\ slipups' = slipups + 1
       /\ file' \in {file, doc}
       /\ current' \in {current} \cup (IF file' = doc THEN {setting} ELSE {})
       /\ rows' = found
       /\ document' = IF kind = "stop" THEN Closed ELSE doc
       /\ host' = IF kind = "stop" THEN Resting ELSE failed

Unresolved(doc) == {n \in Operation : doc[n].phase \in {"claimed", "handoff_started"}}
Fresh(doc) == {n \in Operation : doc[n].phase = "none"}

\* Mutant: only an operation that was not begun is handed out again.
ReplayedClaimed(doc) == {n \in Operation : doc[n].phase = "claimed"}

\* The unresolved operation of the adapter, if there is one.
Replayed(doc) == Unresolved(doc)

next_operation ==
  /\ document # Closed /\ host.at = "idle"
  /\ \/ /\ Replayed(document) # {}
        /\ rows' = Expired
        /\ LET n == Min(Replayed(document)) IN
             host' = [at |-> IF document[n].phase = "claimed" THEN "claimed" ELSE "recovered", op |-> n]
        /\ UNCHANGED <<current, document, file, unprojected, slipups>>
     \/ /\ Replayed(document) = {} /\ Fresh(document) # {}
        /\ runnable_jobs_across_scopes(Expired) # {}
        /\ LET j == Min(runnable_jobs_across_scopes(Expired))
               n == Min(Fresh(document))
           IN /\ Persist([document EXCEPT ![n] = [job |-> j, phase |-> "claimed", state |-> "spool_intent"]],
                         Expired, [Expired EXCEPT ![j] = "spool_intent"], [current EXCEPT ![j] = n],
                         [at |-> "claimed", op |-> n], Resting)
              /\ unprojected' = IF document' # Closed /\ rows'[j] # "spool_intent"
                                THEN unprojected \cup {j} ELSE unprojected
     \/ /\ Replayed(document) = {}
        /\ Fresh(document) = {} \/ runnable_jobs_across_scopes(Expired) = {}
        /\ rows' = Expired
        /\ UNCHANGED <<current, document, file, host, unprojected, slipups>>
  /\ UNCHANGED <<overdue, submitted>>

\* begin_handoff; past its deadline the operation is refused.
begin_handoff ==
  /\ host.at = "claimed" /\ document[host.op].phase = "claimed"
  /\ \/ Persist([document EXCEPT ![host.op].phase = "handoff_started"], rows, rows, current,
                [host EXCEPT !.at = "started"], [host EXCEPT !.at = "refused"])
     \/ host' = [host EXCEPT !.at = "refused"] /\ UNCHANGED <<rows, current, document, file, slipups>>
  /\ UNCHANGED <<overdue, submitted, unprojected>>

\* The native printing API, external; not called once the host may not execute.
SubmitNative ==
  /\ host.at = "started"
  /\ \/ \E at \in {"accepted", "unclear"} :
          /\ submitted' = [submitted EXCEPT ![document[host.op].job] = @ + 1]
          /\ host' = [host EXCEPT !.at = at]
     \/ host' = [host EXCEPT !.at = "unclear"] /\ UNCHANGED submitted
  /\ UNCHANGED <<rows, current, overdue, document, file, unprojected, slipups>>

\* Mutant: every retained acknowledgement is applied.
SupersededNever(n, j, setting) == FALSE

\* A newer operation of the job has the word.
Superseded(n, j, setting) == setting[j] \notin {0, n}

\* apply_completed_to_store: the row of job j after operation n is done.
apply_completed_to_store(n, j, state, row, setting) ==
  IF Superseded(n, j, setting) THEN row ELSE [row EXCEPT ![j] = state]

\* complete_operation with an outcome that ends the operation.
Complete(n, state, failed) ==
  LET j == document[n].job IN
  Persist([document EXCEPT ![n].phase = "done", ![n].state = state], rows,
          apply_completed_to_store(n, j, state, rows, current), current, Resting, failed)

\* RejectedBeforeHandoff is refused once the handoff has begun.
MayReject(n) == document[n].phase = "claimed"

\* The host may not execute, cannot, or was refused: rejected before the handoff.
RejectBeforeHandoff ==
  /\ host.at \in {"claimed", "refused"}
  /\ \E state \in (IF host.at = "refused" THEN {"failed_retryable"}
                   ELSE {"failed_retryable", "failed_terminal"}) :
       IF MayReject(host.op) THEN Complete(host.op, state, Resting)
       ELSE host' = Resting /\ UNCHANGED <<rows, current, document, file, slipups>>
  /\ UNCHANGED <<overdue, submitted, unprojected>>

\* Ambiguous: found begun after a restart, or the API's answer is no proof.
ReportAmbiguous ==
  /\ host.at \in {"recovered", "unclear"}
  /\ Complete(host.op, "delivery_uncertain", Resting)
  /\ UNCHANGED <<overdue, submitted, unprojected>>

\* repair_active_operation, by the phase of the operation.
repair_active_operation(n, doc, row) ==
  LET j == doc[n].job IN
  CASE doc[n].phase = "claimed" /\ row[j] \in {"queued_local", "failed_retryable"} ->
         [row EXCEPT ![j] = "spool_intent"]
    [] doc[n].phase = "accepted" /\ row[j] = "spool_intent" ->
         [row EXCEPT ![j] = "accepted_by_spooler"]
    [] OTHER -> row

\* Accepted; when it cannot be recorded, the host reports an ambiguous result.
ReportAccepted ==
  /\ host.at = "accepted"
  /\ LET doc == [document EXCEPT ![host.op].phase = "accepted"]
     IN Persist(doc, rows, repair_active_operation(host.op, doc, rows),
                [current EXCEPT ![doc[host.op].job] = host.op],
                Resting, [host EXCEPT !.at = "unclear"])
  /\ UNCHANGED <<overdue, submitted, unprojected>>

\* The host observes native jobs beside the drain.
ReportFinal(n) ==
  /\ document # Closed /\ document[n].phase = "accepted"
  /\ host.op # n
  /\ \E state \in {"completed_reported", "failed_terminal"} :
       LET j == document[n].job IN
       Persist([document EXCEPT ![n].phase = "done", ![n].state = state], rows,
               apply_completed_to_store(n, j, state, rows, current), current, host, host)
  /\ UNCHANGED <<overdue, submitted, unprojected>>

HostStops ==
  /\ document # Closed /\ "stop" \in Mishap /\ slipups < MaxMishaps
  /\ slipups' = slipups + 1 /\ document' = Closed /\ host' = Resting
  /\ UNCHANGED <<rows, current, overdue, file, submitted, unprojected>>

\* open: expiry, then repair_after_restart: the active operations, then every
\* acknowledgement that is retained.
OpenQueue ==
  LET active == {n \in Operation : file[n].phase \in {"claimed", "handoff_started", "accepted"}}
      done == {n \in Operation : file[n].phase = "done"}
      setting == [j \in Work |-> LET mine == {n \in active : file[n].job = j}
                                 IN IF mine = {} THEN current[j] ELSE Max(mine)]
      repaired == [j \in Work |-> LET mine == {n \in active : file[n].job = j} IN
                     IF mine = {} THEN Expired[j]
                     ELSE repair_active_operation(Max(mine), file, Expired)[j]]
      retained(j) == {n \in done : file[n].job = j /\ ~Superseded(n, j, setting)}
      after(j) ==
        IF retained(j) = {} THEN {repaired[j]}
        ELSE {apply_completed_to_store(n, j, file[n].state, repaired, setting)[j] : n \in retained(j)}
  IN /\ document = Closed
     /\ document' = file /\ current' = setting
     /\ rows' \in {r \in [Work -> UNION {after(j) : j \in Work}] : \A j \in Work : r[j] \in after(j)}
     /\ UNCHANGED <<overdue, file, host, submitted, unprojected, slipups>>

\* The host may not execute when it finds an operation that was begun: its
\* rejection is refused, and the operation stays.
HostDefers ==
  /\ host.at = "recovered" /\ host' = Resting
  /\ UNCHANGED <<rows, current, overdue, document, file, submitted, unprojected, slipups>>

HostStep ==
  \/ next_operation \/ begin_handoff \/ SubmitNative
  \/ RejectBeforeHandoff \/ ReportAmbiguous \/ ReportAccepted

EmbeddedNext ==
  \/ HostStep \/ HostDefers \/ HostStops \/ OpenQueue
  \/ \E j \in Work : enqueue(j) \/ ExpiryPasses(j) \/ CancelConnected(j)
  \/ \E n \in Operation : ReportFinal(n)

EmbeddedSpec == EmbeddedInit /\ [][EmbeddedNext]_embeddedVars

\* The host is started again and drains whenever there is work; again and
\* again it may execute.
EmbeddedFairness ==
  /\ WF_embeddedVars(OpenQueue) /\ WF_embeddedVars(HostStep)
  /\ SF_embeddedVars(ReportAmbiguous)

(***************************************************************************)
(* Properties.                                                             *)
(***************************************************************************)
\* "A new fence is generated only after an explicit pre-handoff rejection"
\* (embedded.rs:807): however the process stops, restarts and retries, a job
\* is given to the native API once at most, except a job whose operation was
\* journaled although its spool intent could not be recorded.
SubmittedOnce ==
  \A j \in Work : submitted[j] <= 1 \/ j \in unprojected

\* An operation in the journal is accepted, completed or rejected in the end
\* (there is one unresolved at a time): one interrupted by a stop is handed out
\* again or reported ambiguous.
OperationResolves == []<>(document # Closed /\ Unresolved(document) = {})

\* "Historical acknowledgements ... must never regress the current job
\* projection during restart repair" (embedded.rs:1449): a job found expired
\* or cancelled when the process starts again stays as it ended.
ProjectionNeverRegresses ==
  [][document = Closed =>
       \A j \in Work : rows[j] \in {"expired", "cancelled"} => rows'[j] = rows[j]]_embeddedVars
=============================================================================
