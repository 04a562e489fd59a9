# Piqae: TLA+ models of print delivery

Piqae delivers print jobs from a control plane (Rust, PostgreSQL) to nodes on
customers' machines, which hand them to the operating system's spooler. The
promise that is hardest to keep spans three durable places that no transaction
joins: the server's tables, the node's queue and route journal, and the
spooler. One node at most becomes responsible for a job; that node hands it
over once; a job whose fate at the spooler is not known is *uncertain* and is
not printed again unless an operator says so; and nothing is silently lost.
Answers are lost, leases run out and processes stop between any two writes.

This directory holds models of that path and of the services around it, the
TLC configurations that check them on small instances, and TLAPS proofs, for
every instance, of the safety of the handoff, of the node's queue (installed or
embedded), of delivery between server and nodes, and of the services.

## The system

| part | state | operations | partners |
|---|---|---|---|
| route coordinator (`crates/node-runtime/src/route_coordinator.rs`) | one JSON document: routes, reservations, terminal evidence ("handoffs"), replay barriers, acknowledged sequences; a fail-stop flag | `reconcile`, `reserve`, `register_authoritative`, `validate`, `finish`, `finish_runtime`, `acknowledge_handoffs`, `resolve_ambiguous_handoff`, `compact_local_terminal_handoffs`, `open` | shared, behind a mutex, by all connectors |
| node queue (`crates/agent-storage`) | SQLite: jobs, printer sequences, event outbox, reconciliation schedule, cloud accept intents, route proofs, local resolutions | accept, prepare/activate/abandon, heads, transitions, native acceptance, cancellation, expiry, recovery | opened once by the engine and once by the cloud worker |
| engine (`crates/agent-core`) | the head in hand, the items due | `run_once`: expiry, heads, `execute_job`, `reconcile_due` | queue, executor |
| executor (`SharedRuntimeExecutor` in `crates/piqae-agent`) | the reservation it holds | `submit`: reserve, validate, native call, finish | coordinator, spooler |
| startup and tick reconciliation (`crates/piqae-agent`) | none of its own | `reconcile_local_route_state`, `reconcile_authoritative_route_state` | coordinator and queue |
| cloud worker (`cloud_worker.rs`, adapters in `crates/piqae-agent`) | where its cycle is | resume acceptances, sync, acknowledge, apply commands, take an offer | control plane, queue, coordinator |
| command recovery ledger (`command_recovery.rs`) | applied and failed commands of a batch | retain, retry, complete | queue settings |
| embedded runtime (`embedded.rs`, host in `sdk/apple`) | a JSON journal of adapter operations beside the queues | `next_operation`, `begin_handoff`, `complete_operation`, `repair_after_restart` | host application, queue |
| control plane delivery (`crates/control-plane`, `crates/storage-postgres`) | jobs, leases, acceptances, attempts with reservations, commands, receipts, destinations | sync, claim, renew, accept, reconcile, cancel, expire, reroute, revoke, resolve | nodes, operators |
| webhook outbox, render queue with approvals, resource store | rows with leases, objects | claim, send or render, record, clean up | workers, callers, object store |
| update guardian (`crates/update-guardian`) | a journal of one update | `request`, `advance`, `open` | platform |
| job state machine (`crates/domain/src/job.rs`) | none | `can_transition_to`, `is_terminal`, `validate_transition` | node and server |

The other parts are listed in PROJECT.json with the reason they are left out.

What is hard here: two tasks write one queue over separate connections, and each
acts on what it read earlier; the coordinator is shared by connectors whose
printers discovery may merge or separate while they are in use; a write may
report an error although it took effect; a sync is a series of transactions
that an error may end anywhere; the server sends an offer or a command again;
a lease may run out under its holder; a stop can fall anywhere; and the answer
of the spooler can be lost. PROJECT.json lists these hazards at the lines where
they bite, with the properties that would notice.

What makes each part correct:

- coordinator: one unresolved reservation per exclusion domain; ambiguous
  evidence keeps its fence; a barrier is never lost or moved back; memory and
  file agree or the process stops;
- handoff: at most one acceptance by the OS for each decision to print; journal
  evidence is true; a fence is on disk before the spooler is called; an
  interrupted intent is given an outcome;
- queue and engine: serial handoff per printer, no overtaking, a job with the
  spooler stays observed, a terminal state is left only by an operator's release;
- control plane and nodes: a job is withdrawn or one node's, never both; the
  destination is used by one job at a time; what the server believes of an
  attempt is true; what a node forgets the server has; jobs end;
- embedded runtime: one submission of a job, every operation resolved;
- services: the running release is the recorded one; a dead letter has had its
  attempts; an artifact is there while a row or a job names it; an approval
  makes one job; leased work is taken over.

## Modules

The handoff on a node:

- `RouteJournal` is the coordinator's document and its pure changes: one operator
  per operation of `route_coordinator.rs`, `Can...` for its refusals, and the
  conjuncts of `JournalInv`, the invariant of a document.
- `NativeHandoff` composes the journal in memory (`mem`) and in the file
  (`disk`), the queues' durable state (`store`, `proof`, `marks`), the
  submission in flight of each connector (`exec`), the half-applied offer or
  resolution (`worker`), the spooler (`calls`), failed writes and restarts. One
  action per step after which something else can happen: `submit` is
  `BeginExecution`, `ReserveRoute`, `ValidateRoute`, `CallSpooler`,
  `FinishSubmission`, `SettleQueue`; recovery is `Restart`, `LocalFence`,
  `LocalProject`, `LocalCompact`, `RecoverFence`, `RecoverQueue`, `SweepFences`.
- `AgentQueue` is one connector's queue at the level of SQLite transactions,
  with the engine and the cloud worker as two processes. What an actor read is
  kept in `engine` or `cancel`, so it can be stale when it writes. An operator
  resolves an ambiguous handoff on the engine's task (`ResolveLocal`) or, by a
  command, on the worker's (`ResolveCloud`); `ambiguous` is the exact proof the
  coordinator has of such a handoff, and `printed` counts from the last release.
- `EmbeddedHandoff` is the queue of a node embedded in an application: the
  operation journal in memory and in its file, the rows it is projected to, and
  the host that drains it. Every call writes the journal, then the queue;
  `Persist` is the two writes with a stop or an error between or in them.
- `JobStates` is the transition table of `job.rs`, used by node and server.

Between the server and the nodes:

- `CloudJobs` is the server: one operator per transaction of
  `storage-postgres`, and what it answers as an operator of its own
  (`AcceptResult`, `EventResult`, `HandoffResult`, `ProjectionResult`).
- `CloudDelivery` composes it with the nodes. `work[a]` is where the cycle of
  node `a` is, the handler of its sync included, so other nodes, the engine,
  callers, operators and time step in between any two transactions. The order
  of a sync is that of `agent_sync`: evidence, events with their projection,
  commands, retirement, finalisation, recovery of blocked jobs, claim,
  selection, reservation, response. The engine appears as what it does to a
  job's state, its outbox and its evidence; its own steps are in the modules
  above.
- `PrintDelivery` is the promise of both together: `Entrust`, `HandOver`,
  `Withdraw`, `Complete`. `CloudDelivery` implements it (`Promised`) under the
  mapping: the acceptance row is the responsible node, native acceptances are
  the copies.

Services: `UpdateGuardian`, `WebhookOutbox`, `DocumentRenders`,
`PrintPacketResources`, one module each. `BackgroundServices` puts them side by
side: a behaviour is that of one service, since they share no state.

`MCNativeHandoff`, `MCSharedPrinter`, `MCAgentQueue`, `MCNodeQueues` and
`MCCloudDelivery` give the instances. `RouteJournalProofs`,
`NativeHandoffProofs`, `HandoffSafetyProofs`, `AgentQueueProofs`,
`NodeQueuesProofs`, `CloudDeliveryProofs`, `DocumentRendersProofs` and
`BackgroundServicesProofs` hold the proofs. Operators marked as mutants are plausible
wrong versions of the definition that follows them; they are used only to show
that each checked property can fail.

### What the models leave out

- Identifiers: a job's connector and route are functions of the job; a route
  identifier is the native queue; a reservation identifier and its fencing
  token, drawn together, are one number; an attempt is its generation; a lease
  token is a number, and one released before an offer carried it is used again.
- Identity evidence is what `physical_coordination_key` derives from it: one
  physical identity or none.
- Time: expiry, back-off, retry delays and uncertainty deadlines may have passed
  whenever the code asks. A lease, or a claim, somebody works under runs out
  only as a counted fault; otherwise it runs out by itself.
- `NativeHandoff`: topology change reports, observation sequences and the limit
  on routes; SQLite writes do not fail by themselves (a stop before one has the
  same durable effect).
- `AgentQueue`: reading the next event sequence and inserting the event are one
  step; that the insert fails because the other task took the sequence is
  `AbortRun` or `AbortCancel`. A new offer of a failed job is prepared and
  activated in one step. Whether content is rendered is a choice. A resolution is
  journaled and applied to the queue in one step; the two apart, with a stop
  between them, are in `NativeHandoff`.
- `CloudJobs`, `CloudDelivery`: one destination, one route to it per node, and
  the choice of a route is free. A node has one sync under way.
  `confirm_cloud_accept` goes with the answer it records; events and evidence
  are acknowledged in one step; phases of the handler that find nothing to do
  are passed over. What `reserve_job_route` reads of the destination before its
  transaction is read in it (what matters is checked there again). An offer that
  would be unsafe gives its lease back at once; one of the three branches of the
  code lets it run out.
  No world has a job whose content is still missing (`registered`,
  `content_pending`). The back-off of a failed command is not modelled: it may be
  retried at once. An operator's resolution confirms the acceptance (the other
  resolution is in `NativeHandoff`). A native call a stop interrupts leaves the
  trace of an ambiguous one. A node's connectors are admitted as long as the
  server admits them. Inventory, capabilities and heartbeats are left out.
- `EmbeddedHandoff`: one adapter with one printer; no eviction of old
  acknowledgements, no limit on active operations, no content. A job's row is
  changed to what its events lead to in one step.
- `WebhookOutbox`: one endpoint. `DocumentRenders`: what is rendered; a key has
  one request under way (the primary key of `idempotency_requests` keeps two to
  one job); expired renders of a resource are in `PrintPacketResources`, which
  has one resource.
- `UpdateGuardian`: the platform is asked for truth; its observations may fail
  for as long as they like (`silent`).

## Runs

| run | instance | states, time | shows |
|---|---|---|---|
| `handoff_cloud` | one server job, three offers, one failed write, one stop, with fairness | 1 min | `TypeOK`, `AtMostOncePerDecision`, `EvidenceIsTrue`, `AmbiguousStaysFenced`, `AcceptedKeepsBarrier`, `BarrierIsMonotone`, `InterruptedIsSettled` |
| `handoff_printers` | a local job alone (two reservations, two failed writes, one stop), or with a server job on a second queue that discovery joins to its printer or separates | 1.4 M, 100 s | `AtMostOncePerDecision`, `FencedWhileSubmitting`, `AmbiguousStaysFenced`, `PhysicalExclusion` |
| `handoff_stuck_intent` | one local job, one stop, with fairness | | `InterruptedIsSettled` **fails**: finding 1 |
| `queue` | a local and a server job on one printer, of an installed agent (one failed transaction, one stop) or of an embedded node (two mishaps, three operations); operators; deadlock checked | 0.6 M, 1 min | `NodeTypeOK`, `SerialHandoff`, `SubmissionOrder`, `TrackedWhileNative`, `PrintedOnce`, `OnlyReleaseReopens`; `SubmittedOnce`, `OperationResolves` |
| `queue_cancel_race` | one server job | | `CancellationIsFinal` **fails**: finding 2 |
| `queue_crash` | one local job, one stop, with fairness | | `InterruptedIsRetried` **fails**: finding 3 |
| `acceptance` | six worlds (below); deadlock checked | 1.2 M, 2 min | `TypeOK`, `DestinationSerial`, `SupersededNeverRuns`, `AttemptsAreTrue`, `AcknowledgedIsDurable`, `AcknowledgedCancelHolds`, `Promised` |
| `sync` | one node; one job with a fault, or two jobs without; an operator; with fairness | 0.2 M, 2 min | `ResolvedByNode`, `EveryJobEnds`, `ResolutionCompletes` |
| `sync_cancel_stall` | one node, one cancelled job, no fault, with fairness | | `CancellationSettles` **fails**: finding 4 |
| `services` | each service with two workers and one or two faults, with fairness | 0.3 M, 3.5 min | `SettledRunsInstalled`, `EffectIsRecorded`, `HealthCheckEnds`; `OutcomeIsTrue`, `EveryEventSettles`; `CompletedHasArtifact`, `LiveJobHasArtifact`, `ApprovalIsSingle`, `EveryRenderSettles`; `UnusedIsReclaimed`; `TypeOK` |
| `resource_reclaimed` | one resource | | `ReferencedIsRetained` **fails**: finding 5 |
| `embedded_regress` | two jobs, one stop | | `ProjectionNeverRegresses` **fails**: finding 6 |

Bounds, all constants of the modules. In the handoff: `MaxIssued` (reservation
identifiers), `MaxFaults` (failed writes or transactions), `MaxCrashes`,
`MaxHandoffs` and `MaxConsumed` (the code's own limits, made small). One job is
enough for the promises about a job's life, since jobs meet only in the
exclusion domains; two jobs on two queues are the smallest instance in which
domains merge. Two offers make a replay possible, and a third follows the
release of an uncertain one. One stop falls between any two steps, and one
failed write at any write; the local job has two, so that the exact retry of
`finish_runtime` can fail too. The two scenarios of `handoff_printers` (its
constraints `InScenario` and `FoundTogether`) never combine a regrouping with a
failed write, and the shared printer has one operator decision: the proofs
have no such limits, and every invariant of both handoff runs is proved.

In `CloudDelivery` a *world* says which nodes and jobs there are, what callers
may ask and how much goes wrong, so that one run explores several bounded
settings: two nodes compete for one job with two lost answers or slow
leases (`Losing`), with a cancellation (`Cancelling`) or a revocation
(`Revoking`); one node meets every verdict, observation and cancellation with
one fault of any kind (`Harsh`), or every way the server withholds an offer
(`Withholding`); two jobs share the destination with a stop or
a slow lease (`Sharing`). `MaxLeases` bounds
the offers of a job: two let a first one be superseded. Two workers, two clients
and one fault are the smallest instances in which a lease is lost to somebody
else. The webhook outbox has two faults and a replay, so that an attempt is
counted twice; the guardian has room for two updates and two mishaps.

Fairness. On a node the service manager starts the process again and a
fail-stopped process ends by itself (`control_loop` breaks on `is_poisoned`);
the reconciliations run on, a submission in flight is driven on by the 250 ms
scheduler, and the cloud worker runs cycle after cycle. On the server the
workers poll for ever (`main.rs`), and a lease or claim nobody works under runs
out. The host of a guardian opens it and calls `advance` for ever; the host of
an embedded node starts it again and drains. Weak fairness suffices, since
nothing disables these steps for good, with one exception: an operation found
begun is reported ambiguous only at a moment the host may execute, so
`ReportAmbiguous` has strong fairness (the application is again and again in
the foreground). Nothing obliges callers, operators, discovery or the endpoint
of a webhook to act, and failed writes, lost answers and stops are finite by
their bounds. Deadlock is not checked where the bounds, or a service that has
nothing left to do, end the behaviour.

Some properties name an exception that the code has:

- `SubmittedOnce`: a job whose operation was journaled while its spool intent
  was not;
- `CompletedHasArtifact` and `LiveJobHasArtifact`: a render whose completion took
  effect and was reported as an error (`unsure`);
- `HealthCheckEnds`: a journal that takes no more records (`Wedged`), and an
  observation of health that fails for ever (`<>[]~silent`);
- `EveryRenderSettles`: the worker of the last attempt stopped (`Exhausted`).

`PrintedOnce` counts from the last release: the operator's word is what allows
another print. `OnlyReleaseReopens` says that nothing but that word reopens an
ended local job, and that one ambiguous handoff is released once; a job that is
uncertain because observation gave up, or that was confirmed, stays so.

`EveryJobEnds` is about the calm worlds: with
cancellation it fails, see finding 4, and a job that failed retryably on a node
is offered again but refused by the acceptance, which takes only waiting jobs.

### Findings

1. `handoff_stuck_intent`: a local job whose process stops after the
   `spool_intent` transaction and before its reservation is written has neither
   a reservation nor evidence. `reconcile_local_route_state` looks at those
   only, so the job stays in `spool_intent` and `runnable_heads` withholds its
   printer. The documentation says such a crash is uncertain, and the recovery
   of server jobs does so (`handoff_cloud` passes).
2. `queue_cancel_race`: a `cancel_job` command committed between `runnable_heads`
   and `begin_execution` leaves the job `cancelled`; the engine, which validates
   the state it read, then writes `preparing` over it and submits the job.
3. `queue_crash`: a job stopped in `preparing` or `rendering` is in no recovery
   query and not runnable, yet it withholds its printer; the documentation calls
   such a crash safely retryable.
4. `sync_cancel_stall`: once the server holds a job for `cancel_requested`, an
   event of its node that is still unsent (`queued_local`, `preparing`, or the
   node's own `cancel_requested`) is no valid transition. `agent_sync` returns
   the error before it reaches the commands, and the outbox sends the same event
   first for ever: the cancel command is never delivered, and nothing of that
   node is acknowledged any more.
5. `resource_reclaimed`: cleanup claims the row of an unused resource and deletes
   its object afterwards; a render that refers to the resource in between keeps
   the row and loses the object.
6. `embedded_regress`: the acknowledgement of a rejected operation is applied
   again at every start, also to a job that was cancelled or expired since, and
   makes it `failed_retryable` again.

Two further disagreements are stated as exceptions of the properties above, not
as runs of their own:

- `document_render_worker.rs:258-274` takes every error of the completing
  statement for a lost lease and deletes the artifact. When the statement was
  committed and only its answer was lost, the render stays `completed`, can be
  printed, and has no artifact; `complete_claimed_document_render` is documented
  as making "object publication idempotent" (`storage-postgres/src/lib.rs:10792`).
  In `DocumentRenders` this is the second error branch of the completion, and
  without `unsure` both artifact properties fail.
- `update-guardian/src/lib.rs:772-774` returns the error of `health.observe`
  before it counts the attempt and looks at the deadline. A probe that keeps
  failing leaves the update in `HealthChecking` for ever, while the crate says it
  "bounds health checks" (`lib.rs:6`) and `docs/nodes/updates.md:112` lists
  "bounded health checks". Without its premise `HealthCheckEnds` fails.

## Proofs

Each theorem holds for every value of the constants that satisfies the named
assumptions: any connectors, jobs, printers, workers and bounds. All are
safety properties; each is an invariant of its specification together with the
type invariant, an action property that follows from it, or (`CloudKeepsPromise`)
the refinement of an abstract specification.

| module | theorems |
|---|---|
| `NativeHandoffProofs` | `TypeCorrect`, `PhysicalExclusionHolds`, `AcceptedKeepsBarrierHolds`, `BarrierIsMonotoneHolds` |
| `HandoffSafetyProofs` | `FencedWhileSubmittingHolds`, `AmbiguousStaysFencedHolds`, `EvidenceIsTrueHolds`, `AtMostOncePerDecisionHolds` |
| `AgentQueueProofs` | `QueueTypeOK`, `SerialHandoffHolds`, `SubmissionOrderHolds`, `TrackedWhileNativeHolds`, `PrintedOnceHolds`, `OnlyReleaseReopensHolds` |
| `NodeQueuesProofs` | `SubmittedOnceHolds`, `NodeTypes`, `NodeSafe` |
| `CloudDeliveryProofs` | `CloudTypes`, `CloudSound`, `CloudSerial`, `CloudSuperseded`, `CloudTrue`, `CloudDurable`, `CloudCancelled`, `CloudResolved`, `CloudKeepsPromise` |
| `DocumentRendersProofs` | `CompletedHasArtifactHolds`, `LiveJobHasArtifactHolds`, `ApprovalIsSingleHolds` |
| `BackgroundServicesProofs` | `SettledRunsInstalledHolds`, `EffectIsRecordedHolds`, `OutcomeIsTrueHolds`, `ReferencedHasRowHolds`, `ServicesTypes`, `ServicesAreSafe` |

`RouteJournalProofs` holds lemmas only: on the journal's operations, and on the
ledger of one job that `HandoffSafetyProofs` rests on.

### The journal

`PhysicalExclusion` is not inductive by itself: `reserve` looks for the holder
under the *current* key of a route, so the proof needs that an unresolved
reservation is found there unless the route is marked (`HolderFound`), and that
aliases of one printer agree on key and mark (`AliasesAgree`).
`AcceptedKeepsBarrier` needs that the barriers in memory are those of the file
while the coordinator still works, because a fence is registered against the
memory and survives in the file. `Inductive` is `JournalInv` of both copies and
that agreement. `RouteJournalProofs` shows for each operation of the journal
that it keeps `Document`, keeps `JournalInv` and only grows the barriers;
`WriteIsSafe` in `NativeHandoffProofs` carries this over a write with any
fault, and the step lemmas go through the actions.

### The handoff

`AtMostOncePerDecision` says the OS takes a job once, and once more for each
release by an operator. It rests on every durable place that could let a job be
submitted again, so its invariant `SafetyInv` says for each job what its three
durable places and the work under way may be together:

- `JobsOK`: for each job one condition on values (`JobOK` of
  `RouteJournalProofs`): its fences, outcomes and barriers in the file, its
  queue row and route proof, the submission and the errand under way, the
  reservations under which the OS took it, and what operators decided. Its parts
  say that an ambiguity has its fence and its newest outcome, that a barrier
  covers every outcome, that a waiting row has its fence untouched and a job in
  `spool_intent` has nothing the OS took but under its fence, that an outcome is
  what the OS did or an operator said, and that the OS took the job no more
  often than decided;
- `Control`: where submissions, errands and recoveries can be;
- `Booted`: after startup a local fence without an outcome is being submitted
  under, was never crossed, or belongs to a coordinator that has failed;
- `CopiesAgree`: memory and file agree until a write goes wrong, and afterwards
  still agree on the jobs whose recovery reads memory.

`RouteJournalProofs` shows once for each kind of change to a job (fenced,
called, journaled, settled, recovered, resolved, forgotten, compacted) that it keeps
`JobOK`, without a variable in sight. `HandoffSafetyProofs` shows for each
action which job it changes in which way and that the other jobs keep theirs;
a write takes effect, fails, or takes effect and reports failure.

### The queue

`QueueInv` says what each value the engine or the worker read is still worth when it is
used: a head not yet taken up has its printer to itself (`HeadIsFree`), the job
in hand is what was last written unless the server cancelled it
(`DrivenIsCurrent`), an item of `reconcile_due` is current for local jobs
(`ItemsAreCurrent`), sequences of a printer are distinct (`PlacesAreApart`).
`SerialHandoff` and `SubmissionOrder` follow from these and from each other, so
they are proved together. An operator's release makes a job wait again that may
have been printed; it is sound because a job in `delivery_uncertain` is neither
among the heads in hand nor driven (`HeadIsFree`, `DrivenIsCurrent`), also when
the server's command releases it beside a running engine. The set of jobs is assumed finite: the next sequence
is the number of rows of the printer.

### The embedded node

`SubmittedOnce` relates four things that no transaction joins: the journal in
memory, its file, the rows it is projected to, and the operation the host has in
hand. Memory is ahead of the file after a failed write, and the rows are behind
the file after a stop between the two writes. `EmbeddedInv` says how far:

- `MemoryIsAhead`: an operation in the file is the same one in memory; once its
  handoff has begun there it has begun in memory, and once it is done it is the
  same. An operation memory alone has is of a job in the exception;
- `HostIsInStep`: the host calls the native API only for an operation whose
  handoff the file already says has begun;
- `OperationsHaveRows`: an operation is of a job with a row;
- `WaitingIsRejected`: a job whose row waits was rejected before handoff by each
  of its operations; after a stop the last may still be claimed in the file, and
  `repair_after_restart` then decides about it;
- `OneCounts`: of a job's operations one at most is not rejected, and the
  setting `embedded_adapter_operation` names it. This is what keeps
  `repair_after_restart` from projecting the wrong one.

The last two hold for the jobs outside the exception that the property names.

The calls for a job are counted against `Given`, the operations under which the
API may have been called; `OneCounts` bounds them by one. `NodeSafe` joins this
with the installed queue for the composition `MCNodeQueues`.

### Between server and nodes

`CloudInv` says what server, nodes and the cycles under way know of one another.
It is proved with `TypeOK`, one lemma per action (`...Step`), and has these parts:

- `AttemptInv`, on the server's attempts: the accepted attempt is neither
  superseded nor withdrawn (`AcceptedIsOpen`); a state after the handoff has its
  witness in the node's evidence (`AttemptIsWitnessed`); a resolution that is
  final was made by the node (`FinalIsResolved`); and one attempt at most
  *occupies* the destination (`OneOccupies`): it has a reservation, or it is
  uncertain, unresolved and perhaps not begun. The second case is needed because a revocation
  releases the reservation of a node that does not know it yet and may still print.
- `NodeInv`, on a node's tables: acknowledged events are in the receipts; a
  pending row goes with its intent and proof, a row that runs with the
  acceptance of that proof (`RowIsAccepted`); evidence and events are of
  accepted jobs, and a job has evidence once.
- `WorkInv`, on what a cycle carries from an earlier transaction to a later one:
  what is to be resumed is still prepared; a request says nothing the outbox
  does not have, and behind the event in hand all is received; an offer in hand
  is of an attempt nobody took up; a batch of commands leaves out only what is
  carried out already (`BatchIsComplete`).
- `CommandsAreCarried`, on what the ledger and the cursor cover: a node that
  acknowledges a command has done it for good. For a cancellation that means the row
  cannot come back, so no activation of it is under way (`StaysCancelled`).

`DestinationSerial` follows because a job that runs is of the accepted attempt
and that attempt occupies the destination (`RunsOccupies`), and one attempt at
most does. The refinement needs the invariant too: `CallAccept` is `Entrust`,
`HandOff` with an acceptance by the OS is `HandOver` and finds no copy yet, an
ingested completion is `Complete` and has a copy, a withdrawal by caller, deadline
or failed lease is `Withdraw` and finds no acceptance; every other step leaves
the promise as it is.

The proof corrected the model once: a job that no longer waits when the selection
wants to block or fail it ends the sync, as the guards of
`block_agent_lease_for_node_update` and `fail_agent_lease_before_handoff` have
it, and is not failed.

### The services

`RendersInv` adds to the three properties that a lease token is drawn once and
held by one worker, that a worker which still renders, or discards, never names
the published artifact of a render outside `unsure`, and that a gated request and its job belong to the key of the preview.
The proof needed a refusal of `create_cloud_job`: an idempotency key that names a job of
another render is a conflict and not that job. `OutboxInv` counts: recorded attempts and results not yet
recorded are no more than the tries made. Its limit on tries, part of the types,
needs two more sums: a try is paid for by a recorded attempt, by the claim it is
made under, by a fault or by a replay (`TriesArePaid`); and once the schedule is used
up, only workers still out with an earlier attempt can put the delivery back on
it (`TriesEnd`). `GuardianInv` says what a recorded
phase tells of the running release (`Tells`) and how far memory can be behind a
record that reached the disk although its append failed (`InStep`).
For the resource store, `ReferencedHasRow` is what remains of the promise finding 5
refutes: the row of a referenced resource is there, its object may not be.
`ServicesTypes` and `ServicesAreSafe` join the services for the composition
`BackgroundServices`.

### Assumptions

`JournalAssumption`, `HandoffAssumption`, `QueueAssumption`, `RenderAssumption`,
`OutboxAssumption`, `GuardianAssumption`, `ResourceAssumption`,
`EmbeddedAssumption` and `CloudAssumption` type the constants; the bounds are
natural numbers and the sets that are counted are finite. `Nil`, `Down`
and `Closed` stand for an absent value: `RecordAssumption`, `DownAssumption`,
`RowAssumption`, `CarriedAssumption` and `ClosedAssumption` say that they are no
record and no journal, and `CloudAssumption` that
`Nil` is no job and no node. TLC evaluates all of them.

### Checked by TLC only

Liveness under fairness is out of the prover's reach: `InterruptedIsSettled`,
`OperationResolves`, `EveryJobEnds`, `ResolutionCompletes`, `HealthCheckEnds`,
`EveryEventSettles`, `EveryRenderSettles`, `UnusedIsReclaimed`. Every other
property of a passing run is a theorem.

## Plan

The models of the plan are written, and every invariant, action property and
refinement the passing runs check is proved. What a next step could add is
breadth: destination discovery and policy, the executor supervisor's protocol, and
the three hazards of the list that no property covers.

## Not modelled

Rendering, print packets, object storage, user interfaces, SDKs and platform
calls are data conversion and I/O. Authentication, pairing, connector enrolment
and signed update metadata have little state and no part in delivery. Billing
counts usage, and wake hints only make a node sync earlier. `repository.rs` of
the control plane is an interface with an in-memory double for tests; the
models follow the PostgreSQL implementation. The discovery and policy side of
the destination topology is SQL over many tables and would be a project of its
own. Local API, IPC and FFI are transports; the executor supervisor is used
through its three reports.
