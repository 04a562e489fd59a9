------------------------------ MODULE CloudJobs ------------------------------
(***************************************************************************)
(* The control plane's tables for jobs of one physical destination, and    *)
(* the transactions on them (crates/storage-postgres): jobs with their     *)
(* leases, job_acceptances, delivery_attempts with their route             *)
(* reservations, agent_commands, agent_event_receipts, the destination and *)
(* the revocation of agents.                                               *)
(*                                                                         *)
(* Every agent has one route to the destination.  Jobs are numbered in the *)
(* order they were created.  A lease is known by its number, an attempt,   *)
(* its reservation and its fencing token by its generation.  Time is a     *)
(* choice: a lease or a job may be past its deadline at any moment.        *)
(* Every action is one transaction; one that fails changes nothing, and    *)
(* what it returns is an operator of its own.  A lease number that was     *)
(* released before any offer carried it is used again.                     *)
(***************************************************************************)
EXTENDS JobStates, Integers, Sequences

CONSTANTS
  Job,            \* job numbers
  Agent,          \* nodes with a route to the destination
  Home,           \* the agent a job is first routed to
  Nil,            \* no row
  Worlds,         \* what may happen around the system: see World
  MaxLeases       \* bound: leases per job

\* A world says which nodes and jobs there are, what callers and operators may
\* ask for, what the server and the nodes may meet, and how much goes wrong.
World ==
  [agents : SUBSET Agent, jobs : SUBSET Job,
   cancellable : SUBSET Job, expirable : SUBSET Job, resolvable : SUBSET Job,
   withholds : SUBSET {"retry_later", "node_update", "permanent"},
   verdicts : SUBSET {"accepted", "rejected", "retryable", "ambiguous"},
   sightings : SUBSET {"printing", "completed_reported", "delivery_uncertain",
                       "failed_terminal", "cancelled"},
   setbacks : SUBSET {"invalid_options", "no_reservation", "expired", "declined"},
   faults : SUBSET {"loss", "slow", "crash", "revoke"}, maxFaults : Nat]

ASSUME CloudAssumption ==
  /\ Job \subseteq Nat \ {0} /\ Home \in [Job -> Agent]
  /\ Worlds \subseteq World /\ MaxLeases \in Nat
  /\ Nil \notin Job \cup Agent

VARIABLES
  world,        \* the world of this behaviour
  jobs,         \* jobs: state, agent, lease and whether it is live, deadline passed
  acceptance,   \* job_acceptances: Nil or the exact proof accepted
  attempts,     \* delivery_attempts and route_reservations, by generation
  destination,  \* physical_destinations.state
  admission,    \* per agent: active, connectors revoked, agent revoked
  commands,     \* agent_commands, by cursor
  receipts      \* agent_event_receipts

server == <<world, jobs, acceptance, attempts, destination, admission, commands, receipts>>

FinalAttempt == {"completed_reported", "cancelled", "failed", "delivery_uncertain", "superseded"}
AttemptState ==
  {"route_leased", "queued_local", "handing_to_spooler", "accepted_by_spooler",
   "printing_reported"} \cup FinalAttempt
Attempt ==
  [state : AttemptState, agent : Agent, lease : Nat, live : BOOLEAN, reserved : BOOLEAN,
   resolution : {"none", "pending", "final"}]
Command ==
  [kind : {"cancel_job", "resolve"}, job : Job, gen : Nat, delivered : BOOLEAN,
   acknowledged : BOOLEAN]
Proof == [agent : Agent, lease : Nat, gen : Nat]
ASSUME RowAssumption == Nil \notin Proof

ServerTypeOK ==
  /\ world \in Worlds
  /\ jobs \in [Job -> [state : JobState, agent : Agent, lease : Nat, live : BOOLEAN,
                       leases : Nat, held : BOOLEAN, expired : BOOLEAN]]
  /\ acceptance \in [Job -> Proof \cup {Nil}]
  /\ attempts \in [Job -> Seq(Attempt)]
  /\ destination \in {"available", "attention", "unavailable"}
  /\ admission \in [Agent -> {"active", "connector_revoked", "revoked"}]
  /\ commands \in [Agent -> Seq(Command)]
  /\ receipts \in [Agent -> SUBSET Nat]

\* Created jobs; those of the world have their content complete.
ServerInit ==
  /\ world \in Worlds
  /\ jobs = [j \in Job |-> [state |-> IF j \in world.jobs THEN "waiting_for_agent"
                                      ELSE "registered", agent |-> Home[j], lease |-> 0,
                            live |-> FALSE, leases |-> 0, held |-> FALSE, expired |-> FALSE]]
  /\ acceptance = [j \in Job |-> Nil]
  /\ attempts = [j \in Job |-> <<>>]
  /\ destination = "available"
  /\ admission = [a \in Agent |-> "active"]
  /\ commands = [a \in Agent |-> <<>>]
  /\ receipts = [a \in Agent |-> {}]

Leasable == {"waiting_for_agent", "failed_retryable"}
HoldsLease(j, lease) == lease # 0 /\ jobs[j].lease = lease /\ jobs[j].live
Unleased(row) == [row EXCEPT !.lease = 0, !.live = FALSE]
Generations(j) == DOMAIN attempts[j]
Latest(s) == s[Len(s)]

\* An attempt that ends, and its reservation with it.
Ended(t, to) == [t EXCEPT !.state = to, !.live = FALSE, !.reserved = FALSE]
\* The open attempts of a job end in state to.
EndOpen(s, to) == [g \in DOMAIN s |-> IF s[g].state \in FinalAttempt THEN s[g] ELSE Ended(s[g], to)]

-----------------------------------------------------------------------------
(* Leases.                                                                 *)

\* now() passes lease_until; the attempt was leased until the same instant.
LeaseExpires(j) ==
  /\ jobs[j].live
  /\ jobs' = [jobs EXCEPT ![j].live = FALSE, ![j].leases = jobs[j].lease]
  /\ attempts' = [attempts EXCEPT ![j] =
       [g \in Generations(j) |->
          IF attempts[j][g].lease = jobs[j].lease THEN [attempts[j][g] EXCEPT !.live = FALSE]
          ELSE attempts[j][g]]]
  /\ UNCHANGED <<world, acceptance, destination, admission, commands, receipts>>

\* The attempt of a lease that was released runs out.
AttemptExpires(j) ==
  /\ \E g \in Generations(j) :
       /\ attempts[j][g].live /\ ~HoldsLease(j, attempts[j][g].lease)
       /\ attempts' = [attempts EXCEPT ![j][g].live = FALSE]
  /\ UNCHANGED <<world, jobs, acceptance, destination, admission, commands, receipts>>

DeadlinePasses(j) ==
  /\ j \in world.expirable /\ ~jobs[j].expired /\ jobs[j].state \notin Terminal
  /\ jobs' = [jobs EXCEPT ![j].expired = TRUE]
  /\ UNCHANGED <<world, acceptance, attempts, destination, admission, commands, receipts>>

Claimable(a) ==
  {j \in Job : /\ jobs[j].agent = a /\ jobs[j].state \in Leasable
               /\ ~jobs[j].expired /\ ~jobs[j].live
               /\ jobs[j].leases < MaxLeases}

\* Every claimable job of the agent gets a lease; its state stays.
ClaimJobs(a) ==
  /\ jobs' = [j \in Job |->
       IF j \in Claimable(a)
       THEN [jobs[j] EXCEPT !.lease = jobs[j].leases + 1, !.live = TRUE]
       ELSE jobs[j]]
  /\ UNCHANGED <<world, acceptance, attempts, destination, admission, commands, receipts>>

\* release_agent_lease, for leases that are still live.
Released(released) == [j \in Job |-> IF j \in released THEN Unleased(jobs[j]) ELSE jobs[j]]

\* Renewable: the lease and its attempt are extended together or not at all.
CanRenew(a, j, lease, gen) ==
  /\ HoldsLease(j, lease) /\ jobs[j].agent = a
  /\ gen \in Generations(j) /\ attempts[j][gen].reserved /\ attempts[j][gen].agent = a
  /\ attempts[j][gen].state \in {"route_leased", "queued_local", "handing_to_spooler"}

-----------------------------------------------------------------------------
(* Withdrawals before a node is responsible.                               *)

\* supersede_pre_handoff_delivery_attempts.
OnlyLeased(j) ==
  \A g \in Generations(j) : attempts[j][g].state \in FinalAttempt \cup {"route_leased"}

Withdraw(j, to) ==
  /\ jobs' = [jobs EXCEPT ![j] = [Unleased(jobs[j]) EXCEPT !.state = to, !.held = FALSE]]
  /\ attempts' = [attempts EXCEPT ![j] = EndOpen(@, IF to = "cancelled" THEN to ELSE "superseded")]

\* Mutant: a lease is taken for the only sign that a node may hold the job.
ExpireBeforeHandoffLeased(j) ==
  /\ jobs[j].expired /\ ~jobs[j].live
  /\ jobs[j].state \in {"waiting_for_agent", "failed_retryable", "agent_accepted"}
  /\ Withdraw(j, "expired")
  /\ UNCHANGED <<world, acceptance, destination, admission, commands, receipts>>

\* expire_jobs_before_handoff, one row.
ExpireBeforeHandoff(j) ==
  /\ jobs[j].expired /\ acceptance[j] = Nil /\ OnlyLeased(j)
  /\ jobs[j].state \in Leasable \/ (jobs[j].state = "blocked" /\ jobs[j].held)
  /\ Withdraw(j, "expired")
  /\ UNCHANGED <<world, acceptance, destination, admission, commands, receipts>>

\* fail_agent_lease_before_handoff and block_agent_lease_for_node_update.
FailLease(j) == Withdraw(j, "failed_terminal") /\ UNCHANGED <<world, acceptance, destination, admission, commands, receipts>>
BlockLease(j) ==
  /\ jobs' = [jobs EXCEPT ![j] = [Unleased(jobs[j]) EXCEPT !.state = "blocked", !.held = TRUE]]
  /\ attempts' = [attempts EXCEPT ![j] = EndOpen(@, "superseded")]
  /\ UNCHANGED <<world, acceptance, destination, admission, commands, receipts>>

\* list_node_update_required_jobs and recover_node_update_required_job: the
\* only way out of a block that the server made.
Recoverable(a) ==
  {j \in Job : jobs[j].agent = a /\ jobs[j].state = "blocked" /\ jobs[j].held /\ ~jobs[j].expired}
RecoverHeld(j) ==
  /\ jobs' = [jobs EXCEPT ![j].state = "waiting_for_agent", ![j].held = FALSE]
  /\ UNCHANGED <<world, acceptance, attempts, destination, admission, commands, receipts>>

\* reroute_job_to_destination_route_before_acceptance: attempts stay as they are.
Reroute(j, a) ==
  /\ jobs[j].state \in Leasable /\ ~jobs[j].live /\ ~jobs[j].expired
  /\ acceptance[j] = Nil /\ jobs[j].agent # a /\ admission[a] # "revoked"
  /\ a \in world.agents
  /\ jobs' = [jobs EXCEPT ![j] = [Unleased(jobs[j]) EXCEPT !.agent = a]]
  /\ UNCHANGED <<world, acceptance, attempts, destination, admission, commands, receipts>>

\* request_job_cancellation: at once while no node has accepted, by a command
\* to the node otherwise.
RequestCancellation(j) ==
  /\ j \in world.cancellable /\ CanTransition(jobs[j].state, "cancel_requested")
  /\ IF acceptance[j] = Nil
     THEN Withdraw(j, "cancelled") /\ UNCHANGED commands
     ELSE /\ jobs' = [jobs EXCEPT ![j].state = "cancel_requested"]
          /\ commands' = [commands EXCEPT ![jobs[j].agent] =
               Append(@, [kind |-> "cancel_job", job |-> j, gen |-> 0, delivered |-> FALSE,
                          acknowledged |-> FALSE])]
          /\ UNCHANGED attempts
  /\ UNCHANGED <<world, acceptance, destination, admission, receipts>>

-----------------------------------------------------------------------------
(* Attempts and the destination's fence.                                   *)

Unresolved ==
  \E j \in Job : \E g \in Generations(j) :
    attempts[j][g].state = "delivery_uncertain" /\ attempts[j][g].resolution # "final"

\* Mutant: they are left to whoever holds them.
SweptNever == attempts

\* begin_delivery_attempt retires the route leases nobody took up in time.
Swept ==
  [j \in Job |-> [g \in Generations(j) |->
     IF attempts[j][g].state = "route_leased" /\ ~attempts[j][g].live
     THEN Ended(attempts[j][g], "superseded") ELSE attempts[j][g]]]

Settled == FinalAttempt \cup {"accepted_by_spooler", "printing_reported"}
OlderEligible(j) ==
  \E i \in Job : /\ i < j /\ jobs[i].state \in Leasable /\ ~jobs[i].expired
                 /\ attempts[i] = <<>> \/ Latest(Swept[i]).state \notin Settled

\* Mutant of CanBegin: a reservation is thought free once its lease is past.
CanBeginUnfenced(a, j) ==
  /\ admission[a] # "revoked" /\ destination = "available" /\ ~Unresolved
  /\ jobs[j].state \in Leasable /\ ~jobs[j].expired /\ ~OlderEligible(j)
  /\ \A i \in Job : \A g \in DOMAIN Swept[i] : ~(Swept[i][g].reserved /\ Swept[i][g].live)

\* The checks of reserve_job_route and begin_delivery_attempt, with the unique
\* index on active reservations of a destination.
CanBegin(a, j) ==
  /\ admission[a] # "revoked" /\ destination = "available" /\ ~Unresolved
  /\ jobs[j].state \in Leasable /\ ~jobs[j].expired /\ ~OlderEligible(j)
  /\ \A g \in DOMAIN Swept[j] : Swept[j][g].state \in FinalAttempt
  /\ \A i \in Job : \A g \in DOMAIN Swept[i] : ~Swept[i][g].reserved

BeginAttempt(a, j, lease) ==
  /\ attempts' = [Swept EXCEPT ![j] =
       Append(@, [state |-> "route_leased", agent |-> a, lease |-> lease,
                  live |-> jobs[j].lease = lease => jobs[j].live,
                  reserved |-> TRUE, resolution |-> "none"])]
  /\ jobs' = [jobs EXCEPT ![j].leases = IF @ < lease THEN lease ELSE @]
  /\ UNCHANGED <<world, acceptance, destination, admission, commands, receipts>>

\* The destination once an attempt of it ends uncertain.
Attend(to) == IF to = "delivery_uncertain" THEN "attention" ELSE destination

\* transition_delivery_attempt to the next state, and the reservation it frees.
Moved(t, to) ==
  IF to \in FinalAttempt THEN Ended(t, to)
  ELSE [t EXCEPT !.state = to, !.reserved = t.reserved /\ to # "accepted_by_spooler"]
MoveAttempt(j, g, to) ==
  /\ attempts' = [attempts EXCEPT ![j][g] = Moved(attempts[j][g], to)]
  /\ destination' = Attend(to)
  /\ UNCHANGED <<world, jobs, acceptance, admission, commands, receipts>>

-----------------------------------------------------------------------------
(* Acceptance.                                                             *)

\* The reservation is active and the route the agent's own.
ProofActive(a, j, gen) ==
  /\ gen \in Generations(j)
  /\ attempts[j][gen].reserved /\ attempts[j][gen].agent = a
  /\ attempts[j][gen].state \in {"route_leased", "queued_local"}

\* Mutant: an expired lease is honoured while its reservation stands.
AcceptResultLate(a, j, lease, gen) ==
  CASE admission[a] # "active" \/ jobs[j].agent # a -> "not_found"
    [] acceptance[j] # Nil -> IF acceptance[j] = [agent |-> a, lease |-> lease, gen |-> gen]
                              THEN "replayed" ELSE "conflict"
    [] jobs[j].state = "cancel_requested" -> "conflict"
    [] OTHER -> "accepted"

\* accept_agent_job_transactional: what it answers.
AcceptResult(a, j, lease, gen) ==
  CASE admission[a] # "active" \/ jobs[j].agent # a -> "not_found"
    [] ~ProofActive(a, j, gen) -> "conflict"
    [] acceptance[j] # Nil -> IF /\ acceptance[j] = [agent |-> a, lease |-> lease, gen |-> gen]
                                 /\ attempts[j][gen].state = "queued_local"
                              THEN "replayed" ELSE "conflict"
    [] ~HoldsLease(j, lease) -> "conflict"
    [] jobs[j].state \notin {"waiting_for_agent", "agent_downloading"} -> "conflict"
    [] OTHER -> "accepted"

AcceptJob(a, j, lease, gen) ==
  /\ jobs' = [jobs EXCEPT ![j] = [Unleased(jobs[j]) EXCEPT !.state = "agent_accepted"]]
  /\ acceptance' = [acceptance EXCEPT ![j] = [agent |-> a, lease |-> lease, gen |-> gen]]
  /\ attempts' = [attempts EXCEPT ![j][gen].state = "queued_local"]
  /\ UNCHANGED <<world, destination, admission, commands, receipts>>

\* reconcile_agent_acceptance, as the node's client reads it: "abandon" stands
\* for AcceptedAfterRevocation and AbsentAfterRevocation.
ReconcileResult(a, j, lease, gen) ==
  LET evidence == acceptance[j] = [agent |-> a, lease |-> lease, gen |-> gen]
      accepted == evidence /\ admission[a] # "revoked" /\ jobs[j].state = "agent_accepted"
  IN CASE evidence /\ ~accepted -> "abandon"
       [] accepted -> IF admission[a] = "active" THEN "accepted" ELSE "abandon"
       [] OTHER -> IF admission[a] # "active" THEN "abandon" ELSE "pending"

-----------------------------------------------------------------------------
(* Revocation.                                                             *)

\* terminalize_agent_acceptances: accepted work of the agent becomes uncertain.
Orphaned(a) ==
  {j \in Job : acceptance[j] # Nil /\ jobs[j].agent = a /\ jobs[j].state \notin Terminal}
HasOpen(j) == \E g \in Generations(j) : attempts[j][g].state \notin FinalAttempt
OrphanedDestination(a) ==
  IF \E j \in Orphaned(a) : HasOpen(j) THEN "attention" ELSE destination

\* revoke_node_connector.
RevokeConnector(a) ==
  /\ admission[a] = "active"
  /\ admission' = [admission EXCEPT ![a] = "connector_revoked"]
  /\ jobs' = [j \in Job |-> IF j \in Orphaned(a) THEN [jobs[j] EXCEPT !.state = "delivery_uncertain"]
                            ELSE jobs[j]]
  /\ attempts' = [j \in Job |-> IF j \in Orphaned(a) THEN EndOpen(attempts[j], "delivery_uncertain")
                                ELSE attempts[j]]
  /\ destination' = OrphanedDestination(a)
  /\ UNCHANGED <<world, acceptance, commands, receipts>>

\* revoke_agent, after the connectors: the routes retire with their leases and
\* jobs no node accepted wait for another route.
RevokeAgent(a) ==
  /\ admission[a] = "connector_revoked"
  /\ admission' = [admission EXCEPT ![a] = "revoked"]
  /\ attempts' = [j \in Job |-> [g \in Generations(j) |->
       IF attempts[j][g].agent = a /\ attempts[j][g].state = "route_leased"
       THEN Ended(attempts[j][g], "superseded") ELSE attempts[j][g]]]
  /\ destination' = IF destination # "attention" /\ \A b \in Agent : admission'[b] = "revoked"
                    THEN "unavailable" ELSE destination
  /\ jobs' = [j \in Job |-> IF jobs[j].agent = a /\ jobs[j].state = "waiting_for_agent"
                            THEN Unleased(jobs[j]) ELSE jobs[j]]
  /\ UNCHANGED <<world, acceptance, commands, receipts>>

-----------------------------------------------------------------------------
(* What a sync applies.                                                    *)

\* apply_agent_event: nothing for a receipt it has, an error for another
\* agent's job and for a state the job cannot move to.
EventResult(a, n, j, to) ==
  CASE n \in receipts[a] -> "duplicate"
    [] jobs[j].agent # a \/ ~CanTransition(jobs[j].state, to) -> "refused"
    [] OTHER -> "applied"
ApplyEvent(a, n, j, to) ==
  /\ receipts' = [receipts EXCEPT ![a] = @ \cup {n}]
  /\ jobs' = [jobs EXCEPT ![j].state = to]
  /\ UNCHANGED <<world, acceptance, attempts, destination, admission, commands>>

\* Mutant: a handoff that was not rejected counts as accepted.
HandoffResultOptimistic(a, j, gen, outcome) ==
  CASE gen \notin Generations(j) \/ attempts[j][gen].agent # a -> "refused"
    [] attempts[j][gen].state = "queued_local" -> "handing_to_spooler"
    [] attempts[j][gen].state = "handing_to_spooler" ->
         IF outcome \in {"accepted", "ambiguous"} THEN "accepted_by_spooler" ELSE "failed"
    [] OTHER -> "known"

\* ingest_native_handoffs, one transition of one item.
HandoffResult(a, j, gen, outcome) ==
  CASE gen \notin Generations(j) \/ attempts[j][gen].agent # a -> "refused"
    [] attempts[j][gen].state = "queued_local" -> "handing_to_spooler"
    [] attempts[j][gen].state = "handing_to_spooler" ->
         (CASE outcome = "accepted" -> "accepted_by_spooler"
            [] outcome = "ambiguous" -> "delivery_uncertain" [] OTHER -> "failed")
    [] OTHER -> "known"

\* Mutant: the job's word for printing is stored as the attempt's.
AskedByRaw(to) ==
  CASE to \in {"printing", "completed_reported"} -> to
    [] to \in {"cancelled", "delivery_uncertain"} -> "delivery_uncertain"
    [] OTHER -> "none"

\* reconcile_post_spooler_event: the attempt state an event asks for.
AskedBy(to) ==
  CASE to \in {"spooling", "printing", "blocked"} -> "printing_reported"
    [] to = "completed_reported" -> "completed_reported"
    [] to = "failed_terminal" -> "failed"
    [] to = "expired" -> "cancelled"
    [] to \in {"cancelled", "delivery_uncertain"} -> "delivery_uncertain"
    [] OTHER -> "none"

\* What becomes of the latest attempt: nothing, an error, or the state asked
\* for.  transition_post_spooler_attempt and mark_post_spooler_attempt_uncertain
\* take only an attempt the spooler has.
ProjectionResult(a, j, to) ==
  LET asked == AskedBy(to)
      now == Latest(attempts[j])
  IN CASE asked = "none" -> "none"
       [] attempts[j] = <<>> \/ now.agent # a -> "refused"
       [] now.state = asked \/ now.state \in FinalAttempt -> "none"
       [] asked = "cancelled" -> "refused"
       [] now.state \notin {"accepted_by_spooler", "printing_reported"} -> "refused"
       [] OTHER -> asked

\* Mutant: a command is acknowledged by being delivered again.
SyncCommandsRedelivered(a, cursor) ==
  /\ commands' = [commands EXCEPT ![a] = [n \in DOMAIN commands[a] |->
       [commands[a][n] EXCEPT !.acknowledged = @ \/ commands[a][n].delivered, !.delivered = TRUE]]]
  /\ UNCHANGED <<world, jobs, acceptance, attempts, destination, admission, receipts>>

\* sync_agent_commands: acknowledge through the cursor, deliver the rest.
SyncCommands(a, cursor) ==
  /\ commands' = [commands EXCEPT ![a] = [n \in DOMAIN commands[a] |->
       [commands[a][n] EXCEPT !.acknowledged = @ \/ (n <= cursor /\ commands[a][n].delivered),
                              !.delivered = TRUE]]]
  /\ UNCHANGED <<world, jobs, acceptance, attempts, destination, admission, receipts>>

\* retire_terminal_absent_local_cancellation: a cancellation of a job no node
\* ever accepted is settled by the server.
Retires(a, j) ==
  /\ jobs[j].agent = a /\ acceptance[j] = Nil
  /\ jobs[j].state \in Terminal \cup {"cancel_requested"}
RetireCancellation(a, j) ==
  /\ IF jobs[j].state \in Terminal THEN UNCHANGED <<jobs, attempts>> ELSE Withdraw(j, "cancelled")
  /\ commands' = [commands EXCEPT ![a] = [n \in DOMAIN commands[a] |->
       IF commands[a][n].kind = "cancel_job" /\ commands[a][n].job = j
       THEN [commands[a][n] EXCEPT !.acknowledged = TRUE] ELSE commands[a][n]]]
  /\ UNCHANGED <<world, acceptance, destination, admission, receipts>>

\* enqueue_delivery_uncertainty_resolution, by an operator.
EnqueueResolution(j) ==
  /\ jobs[j].state = "delivery_uncertain"
  /\ \E g \in Generations(j) :
       /\ attempts[j][g].state = "delivery_uncertain" /\ attempts[j][g].resolution = "none"
       /\ attempts' = [attempts EXCEPT ![j][g].resolution = "pending"]
       /\ commands' = [commands EXCEPT ![attempts[j][g].agent] =
            Append(@, [kind |-> "resolve", job |-> j, gen |-> g, delivered |-> FALSE,
                       acknowledged |-> FALSE])]
  /\ UNCHANGED <<world, jobs, acceptance, destination, admission, receipts>>

\* finalize_acknowledged_uncertainty_resolutions: the node has confirmed.
Finalizable(a) ==
  {n \in DOMAIN commands[a] :
     LET c == commands[a][n] IN
       c.kind = "resolve" /\ c.acknowledged /\ attempts[c.job][c.gen].resolution = "pending"}
FinalizeResolution(a, n) ==
  /\ attempts' = [attempts EXCEPT ![commands[a][n].job][commands[a][n].gen].resolution = "final"]
  /\ destination' = IF destination = "attention" /\ ~Unresolved' THEN "available" ELSE destination
  /\ UNCHANGED <<world, jobs, acceptance, admission, commands, receipts>>
=============================================================================
