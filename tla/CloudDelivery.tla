---------------------------- MODULE CloudDelivery ----------------------------
(***************************************************************************)
(* The control plane (module CloudJobs) and the nodes that sync with it.   *)
(*                                                                         *)
(*   - The cloud worker of a node (crates/node-runtime cloud_worker.rs)    *)
(*     runs one cycle after another: resume the acceptances it prepared,   *)
(*     sync, record what was acknowledged, apply commands, take an offer.  *)
(*   - A sync is a series of transactions of the server (control-plane     *)
(*     api.rs sync): an error ends it and keeps those already made.        *)
(*   - Any answer may be lost, and the node may stop between two steps and *)
(*     lose what is not in its SQLite file or its route journal.           *)
(*   - The engine runs beside the worker.  Its own steps are modules       *)
(*     AgentQueue and NativeHandoff; here it is what they do to a job's    *)
(*     state, to the event outbox and to the evidence of native handoffs.  *)
(*                                                                         *)
(* A node has one sync under way at a time.                                *)
(***************************************************************************)
EXTENDS CloudJobs, FiniteSetsExt

VARIABLES
  local,       \* per agent: jobs.state ("absent": no row)
  intent,      \* cloud_accept_intents
  proof,       \* cloud_route_proofs: the generation (0: none)
  events,      \* event_outbox, from the first event
  acked,       \* events acknowledged by the server
  evidence,    \* the route journal's handoffs, from the first
  evidenceAcked,
  cursor,      \* setting command_cursor
  ledger,      \* setting cloud_command_recovery: commands applied, by content
  engine,      \* the job the engine drives
  work,        \* where the worker's cycle is, sync handler included
  printed,     \* history: native handoffs the OS took
  faults       \* history: faults so far

commanded == <<cursor, ledger>>
outbox == <<acked, evidenceAcked>>
node == <<local, intent, proof, events, evidence, outbox, commanded, engine>>
history == <<printed, faults>>
vars == <<server, node, work, history>>

Intent == [lease : Nat, gen : Nat, confirmed : BOOLEAN]
Event == [job : Job, state : JobState]
Handoff == [job : Job, gen : Nat, outcome : {"accepted", "rejected", "retryable", "ambiguous"}]
Offer == [job : Job, lease : Nat, gen : Nat]
ASSUME CarriedAssumption == Nil \notin Intent \cup Offer
Request == [events : Nat, evidence : Nat, cursor : Nat]
Work ==
  [pc : {"idle"}]
  \cup [pc : {"resume"}, todo : SUBSET Job, next : {"snapshot", "idle"}]
  \cup [pc : {"reconcile", "accept", "activate", "abandon"}, todo : SUBSET Job,
        next : {"snapshot", "idle"}, job : Job, fresh : BOOLEAN]
  \cup [pc : {"snapshot"}] \cup [pc : {"gather"}, events : Nat]
  \cup [pc : {"handoffs", "events", "project"}, req : Request, at : Nat]
  \cup [pc : {"commands"}, req : Request]
  \cup [pc : {"retire"}, req : Request, upto : Nat, batch : SUBSET Nat, due : SUBSET Nat]
  \cup [pc : {"finalize", "recover", "claim"}, req : Request, upto : Nat, batch : SUBSET Nat]
  \cup [pc : {"select"}, req : Request, upto : Nat, batch : SUBSET Nat, leases : SUBSET Job]
  \cup [pc : {"reserve"}, req : Request, upto : Nat, batch : SUBSET Nat, job : Job, lease : Nat]
  \cup [pc : {"respond"}, req : Request, upto : Nat, batch : SUBSET Nat, offer : Offer \cup {Nil}]
  \cup [pc : {"apply"}, upto : Nat, batch : SUBSET Nat, failed : BOOLEAN,
        offer : Offer \cup {Nil}]
  \cup [pc : {"prepare"}, offer : Offer]
Key(c) == [kind |-> c.kind, job |-> c.job, gen |-> c.gen]

TypeOK ==
  /\ ServerTypeOK
  /\ local \in [Agent -> [Job -> JobState \cup {"absent", "cloud_accept_pending"}]]
  /\ intent \in [Agent -> [Job -> Intent \cup {Nil}]]
  /\ proof \in [Agent -> [Job -> Nat]]
  /\ events \in [Agent -> Seq(Event)] /\ acked \in [Agent -> Nat]
  /\ evidence \in [Agent -> Seq(Handoff)] /\ evidenceAcked \in [Agent -> Nat]
  /\ cursor \in [Agent -> Nat] /\ engine \in [Agent -> Job \cup {Nil}]
  /\ ledger \in [Agent -> SUBSET [kind : {"cancel_job", "resolve"}, job : Job, gen : Nat]]
  /\ work \in [Agent -> Work]
  /\ printed \in [Agent -> [Job -> Nat]]
  /\ faults \in Nat

Idle == [pc |-> "idle"]
Init ==
  /\ ServerInit
  /\ local = [a \in Agent |-> [j \in Job |-> "absent"]]
  /\ intent = [a \in Agent |-> [j \in Job |-> Nil]]
  /\ proof = [a \in Agent |-> [j \in Job |-> 0]]
  /\ events = [a \in Agent |-> <<>>] /\ acked = [a \in Agent |-> 0]
  /\ evidence = [a \in Agent |-> <<>>] /\ evidenceAcked = [a \in Agent |-> 0]
  /\ cursor = [a \in Agent |-> 0] /\ ledger = [a \in Agent |-> {}]
  /\ engine = [a \in Agent |-> Nil]
  /\ work = [a \in Agent |-> Idle]
  /\ printed = [a \in Agent |-> [j \in Job |-> 0]]
  /\ faults = 0

At(a, pc) == work[a].pc = pc
Goto(a, w) == work' = [work EXCEPT ![a] = w]
Fault(kind) == kind \in world.faults /\ faults < world.maxFaults /\ faults' = faults + 1

-----------------------------------------------------------------------------
(* The engine.                                                             *)

\* append_event: the job's state and its outbox row, in one transaction.
Report(a, j, to) ==
  /\ local' = [local EXCEPT ![a][j] = to]
  /\ events' = [events EXCEPT ![a] = Append(@, [job |-> j, state |-> to])]

EvidenceOf(a, j) ==
  {evidence[a][n] : n \in {m \in DOMAIN evidence[a] :
                           evidence[a][m].job = j /\ evidence[a][m].gen = proof[a][j]}}

\* runnable_heads withholds a printer that executes a job.
Executing(a) == \E j \in Job : local[a][j] \in {"preparing", "spool_intent"}
ReadHead(a, j) ==
  /\ engine[a] = Nil /\ local[a][j] = "queued_local" /\ ~Executing(a)
  /\ engine' = [engine EXCEPT ![a] = j]
  /\ UNCHANGED <<server, local, intent, proof, events, evidence, outbox, commanded, work, history>>

\* begin_execution trusts the state the heads were read in: a cancellation or
\* an expiry since is overwritten.
BeginExecution(a, j) ==
  /\ engine[a] = j /\ local[a][j] \notin {"preparing", "spool_intent"}
  /\ Report(a, j, "preparing")
  /\ UNCHANGED <<server, intent, proof, evidence, outbox, commanded, engine, work, history>>

\* execute_job up to the spool intent.
PersistIntent(a, j) ==
  /\ engine[a] = j /\ local[a][j] = "preparing"
  /\ Report(a, j, "spool_intent")
  /\ UNCHANGED <<server, intent, proof, evidence, outbox, commanded, engine, work, history>>

\* fail_invalid_job_options.
FailOptions(a, j) ==
  /\ "invalid_options" \in world.setbacks /\ engine[a] = j /\ local[a][j] = "preparing"
  /\ Report(a, j, "failed_terminal") /\ engine' = [engine EXCEPT ![a] = Nil]
  /\ UNCHANGED <<server, intent, proof, evidence, outbox, commanded, work, history>>

\* SharedRuntimeExecutor::submit: the native call and the evidence of it.  A
\* call a crash interrupts leaves the same trace as an ambiguous one.
HandOff(a, j, verdict) ==
  /\ engine[a] = j /\ local[a][j] = "spool_intent" /\ EvidenceOf(a, j) = {}
  /\ evidence' = [evidence EXCEPT ![a] =
       Append(@, [job |-> j, gen |-> proof[a][j], outcome |-> verdict])]
  /\ \E taken \in (CASE verdict = "accepted" -> {1} [] verdict = "ambiguous" -> {0, 1}
                     [] OTHER -> {0}) :
       printed' = [printed EXCEPT ![a][j] = @ + taken]
  /\ UNCHANGED <<server, local, intent, proof, events, outbox, commanded, engine, work, faults>>

\* The queue state an outcome of a handoff is recorded as.
Recorded(verdict) ==
  CASE verdict = "accepted" -> "accepted_by_spooler" [] verdict = "ambiguous" -> "delivery_uncertain"
    [] verdict = "retryable" -> "failed_retryable" [] OTHER -> "failed_terminal"

\* What submit returned is recorded; a submission refused before any
\* reservation leaves no evidence.
RecordOutcome(a, j) ==
  /\ engine[a] = j /\ local[a][j] = "spool_intent"
  /\ \/ \E e \in EvidenceOf(a, j) : Report(a, j, Recorded(e.outcome))
     \/ /\ "no_reservation" \in world.setbacks /\ EvidenceOf(a, j) = {}
        /\ Report(a, j, "failed_retryable")
  /\ engine' = [engine EXCEPT ![a] = Nil]
  /\ UNCHANGED <<server, intent, proof, evidence, outbox, commanded, work, history>>

\* Startup recovery of an intent nobody drives (module NativeHandoff).
RecoverIntent(a, j) ==
  /\ engine[a] # j /\ local[a][j] = "spool_intent"
  /\ LET to == IF EvidenceOf(a, j) = {} THEN "delivery_uncertain"
               ELSE LET e == CHOOSE e \in EvidenceOf(a, j) : TRUE
                    IN IF e.outcome \in {"rejected", "retryable"} THEN "failed_retryable"
                       ELSE Recorded(e.outcome)
     IN /\ Report(a, j, to)
        /\ proof' = IF to = "delivery_uncertain" THEN proof ELSE [proof EXCEPT ![a][j] = 0]
  /\ UNCHANGED <<server, intent, evidence, outbox, commanded, engine, work, history>>

\* reconcile_due: what the spooler is seen to do with a job it has.
HandedOver(a, j) == \E n \in DOMAIN evidence[a] : evidence[a][n].job = j /\ evidence[a][n].outcome = "accepted"
Observe(a, j, to) ==
  /\ HandedOver(a, j)
  /\ \/ local[a][j] \in {"accepted_by_spooler", "printing"} /\ to # "cancelled"
     \/ local[a][j] = "cancel_requested" /\ to \in {"cancelled", "delivery_uncertain"}
  /\ CanTransition(local[a][j], to)
  /\ Report(a, j, to)
  /\ UNCHANGED <<server, intent, proof, evidence, outbox, commanded, engine, work, history>>

\* expire_waiting.
ExpireLocally(a, j) ==
  /\ "expired" \in world.setbacks /\ local[a][j] \in {"queued_local", "failed_retryable"}
  /\ Report(a, j, "expired")
  /\ UNCHANGED <<server, intent, proof, evidence, outbox, commanded, engine, work, history>>

EngineStep(a, j) ==
  \/ ReadHead(a, j) \/ BeginExecution(a, j) \/ PersistIntent(a, j) \/ FailOptions(a, j)
  \/ RecordOutcome(a, j) \/ RecoverIntent(a, j)
  \/ \E v \in world.verdicts : HandOff(a, j, v)
  \/ \E to \in world.sightings : Observe(a, j, to)

-----------------------------------------------------------------------------
(* resume_pending_acceptances.                                             *)

PendingAccepts(a) == {j \in Job : intent[a][j] # Nil}
Resuming(a, next) == [pc |-> "resume", todo |-> PendingAccepts(a), next |-> next]
\* sync_request reads the outbox, prepare_sync_request the journal after it.
Snapshot(a) == [pc |-> "gather", events |-> Len(events[a])]
Done(next) == IF next = "idle" THEN Idle ELSE [pc |-> "snapshot"]
Skip(a) ==
  IF work[a].todo = {work[a].job} THEN Done(work[a].next)
  ELSE [pc |-> "resume", todo |-> work[a].todo \ {work[a].job}, next |-> work[a].next]
Stage(a, pc, fresh) ==
  [pc |-> pc, todo |-> work[a].todo, next |-> work[a].next, job |-> work[a].job, fresh |-> fresh]

StartCycle(a) ==
  /\ At(a, "idle") /\ a \in world.agents
  /\ Goto(a, IF PendingAccepts(a) = {} THEN Snapshot(a) ELSE Resuming(a, "snapshot"))
  /\ UNCHANGED <<server, node, history>>

ResumeNext(a) ==
  /\ At(a, "resume")
  /\ IF work[a].todo = {} THEN Goto(a, Done(work[a].next))
     ELSE \E j \in work[a].todo :
            Goto(a, [pc |-> "reconcile", todo |-> work[a].todo, next |-> work[a].next, job |-> j,
                     fresh |-> FALSE])
  /\ UNCHANGED <<server, node, history>>

\* confirm_cloud_accept, when the authority has said so.
Confirm(a, confirmed) ==
  intent' = IF confirmed THEN [intent EXCEPT ![a][work[a].job].confirmed = TRUE] ELSE intent

\* reconcile_acceptance, before the acceptance and once more after it, so that
\* a revocation in between still stops the job.
ReconcileAcceptance(a) ==
  /\ At(a, "reconcile")
  /\ LET j == work[a].job
         p == intent[a][j]
         r == ReconcileResult(a, j, p.lease, p.gen)
     IN /\ Confirm(a, r = "accepted")
        /\ Goto(a, CASE r = "abandon" -> Stage(a, "abandon", FALSE)
                     [] r = "accepted" -> Stage(a, "activate", FALSE)
                     [] p.confirmed \/ work[a].fresh -> Skip(a)
                     [] OTHER -> Stage(a, "accept", FALSE))
  /\ UNCHANGED <<server, local, proof, events, evidence, outbox, commanded, engine, history>>

\* Accept, and what the node makes of the state it is told.
CallAccept(a, answered) ==
  /\ At(a, "accept")
  /\ LET j == work[a].job
         p == intent[a][j]
         r == AcceptResult(a, j, p.lease, p.gen)
         state == IF r = "accepted" THEN "agent_accepted" ELSE jobs[j].state
         told == answered /\ r \in {"accepted", "replayed"}
     IN /\ IF r = "accepted" THEN AcceptJob(a, j, p.lease, p.gen) ELSE UNCHANGED server
        /\ Confirm(a, told /\ state = "agent_accepted")
        /\ Goto(a, CASE told /\ state = "agent_accepted" -> Stage(a, "reconcile", TRUE)
                     [] told /\ state \in Terminal \cup {"cancel_requested"} -> Stage(a, "abandon", FALSE)
                     [] OTHER -> Skip(a))
  /\ IF answered THEN UNCHANGED faults ELSE Fault("loss")
  /\ UNCHANGED <<local, proof, events, evidence, outbox, commanded, engine, printed>>

\* activate_cloud_job.
Activate(a) ==
  /\ At(a, "activate")
  /\ LET j == work[a].job
     IN /\ IF local[a][j] = "cloud_accept_pending" /\ intent[a][j].confirmed
           THEN /\ Report(a, j, "queued_local")
                /\ intent' = [intent EXCEPT ![a][j] = Nil]
           ELSE UNCHANGED <<local, events, intent>>
        /\ Goto(a, Skip(a))
  /\ UNCHANGED <<server, proof, evidence, outbox, commanded, engine, history>>

\* abandon_cloud_accept: no event is recorded.
Abandon(a) ==
  /\ At(a, "abandon")
  /\ LET j == work[a].job
     IN /\ IF local[a][j] = "cloud_accept_pending"
           THEN /\ local' = [local EXCEPT ![a][j] = "cancelled"]
                /\ intent' = [intent EXCEPT ![a][j] = Nil]
                /\ proof' = [proof EXCEPT ![a][j] = 0]
           ELSE UNCHANGED <<local, intent, proof>>
        /\ Goto(a, Skip(a))
  /\ UNCHANGED <<server, events, evidence, outbox, commanded, engine, history>>

\* The question or its answer is lost: the intent stays for the next cycle.
ReconcileLost(a) ==
  /\ At(a, "reconcile") /\ Fault("loss")
  /\ Goto(a, Skip(a))
  /\ UNCHANGED <<server, node, printed>>

-----------------------------------------------------------------------------
(* The sync request and its handler.                                       *)

BuildRequest(a) ==
  /\ At(a, "snapshot")
  /\ Goto(a, Snapshot(a))
  /\ UNCHANGED <<server, node, history>>

\* The phases of the handler that have nothing to do are passed over: what
\* they would find cannot change before they run.
Reach(req, pc, at) ==
  CASE pc = "handoffs" /\ at <= req.evidence -> [pc |-> pc, req |-> req, at |-> at]
    [] pc = "events" /\ at <= req.events -> [pc |-> pc, req |-> req, at |-> at]
    [] OTHER -> [pc |-> "commands", req |-> req]
AfterHandoffs(a, req, at) ==
  IF at <= req.evidence THEN Reach(req, "handoffs", at) ELSE Reach(req, "events", acked[a] + 1)
Awaiting(a) ==
  {n \in DOMAIN commands[a] : commands[a][n].kind = "resolve"
     /\ attempts[commands[a][n].job][commands[a][n].gen].resolution = "pending"}
After(a, pc, req, upto, batch) ==
  [req |-> req, upto |-> upto, batch |-> batch,
   pc |-> CASE pc = "finalize" /\ Awaiting(a) # {} -> "finalize"
            [] pc \in {"finalize", "recover"} /\ Recoverable(a) # {} -> "recover"
            [] OTHER -> "claim"]

\* A revoked credential is refused before anything is read.
Send(a) ==
  /\ At(a, "gather")
  /\ LET req == [events |-> work[a].events, evidence |-> Len(evidence[a]), cursor |-> cursor[a]]
     IN Goto(a, IF admission[a] # "active" THEN Idle
                ELSE AfterHandoffs(a, req, evidenceAcked[a] + 1))
  /\ UNCHANGED <<server, node, history>>

\* ingest_native_handoffs, one transaction at a time.
IngestHandoff(a) ==
  /\ At(a, "handoffs")
  /\ LET e == evidence[a][work[a].at]
         r == HandoffResult(a, e.job, e.gen, e.outcome)
     IN CASE r = "refused" -> Goto(a, Idle) /\ UNCHANGED server
          [] r = "known" ->
               Goto(a, AfterHandoffs(a, work[a].req, work[a].at + 1)) /\ UNCHANGED server
          [] OTHER -> MoveAttempt(e.job, e.gen, r) /\ UNCHANGED work
  /\ UNCHANGED <<node, history>>

\* apply_agent_event; a replay goes on to the projection only when the job is
\* in the reported state.
IngestEvent(a) ==
  /\ At(a, "events")
  /\ LET at == work[a].at
         e == events[a][at]
         r == EventResult(a, at, e.job, e.state)
         project == [pc |-> "project", req |-> work[a].req, at |-> at]
     IN CASE r = "refused" -> Goto(a, Idle) /\ UNCHANGED server
          [] r = "applied" -> ApplyEvent(a, at, e.job, e.state) /\ Goto(a, project)
          [] OTHER -> /\ Goto(a, IF jobs[e.job].state = e.state THEN project
                                 ELSE Reach(work[a].req, "events", at + 1))
                      /\ UNCHANGED server
  /\ UNCHANGED <<node, history>>

\* reconcile_post_spooler_event.
ProjectEvent(a) ==
  /\ At(a, "project")
  /\ LET e == events[a][work[a].at]
         r == ProjectionResult(a, e.job, e.state)
     IN CASE r = "refused" -> Goto(a, Idle) /\ UNCHANGED server
          [] r = "none" -> Goto(a, Reach(work[a].req, "events", work[a].at + 1)) /\ UNCHANGED server
          [] OTHER -> /\ MoveAttempt(e.job, Len(attempts[e.job]), r)
                      /\ Goto(a, Reach(work[a].req, "events", work[a].at + 1))
  /\ UNCHANGED <<node, history>>

Retiring(a, req, upto, batch, due) ==
  IF due # {} THEN [pc |-> "retire", req |-> req, upto |-> upto, batch |-> batch, due |-> due]
  ELSE After(a, "finalize", req, upto, batch)

FetchCommands(a) ==
  /\ At(a, "commands")
  /\ SyncCommands(a, work[a].req.cursor)
  /\ LET batch == {n \in DOMAIN commands'[a] : ~commands'[a][n].acknowledged}
     IN Goto(a, Retiring(a, work[a].req, IF batch = {} THEN 0 ELSE Max(batch), batch,
                         {n \in batch : commands[a][n].kind = "cancel_job"}))
  /\ UNCHANGED <<node, history>>

Retire(a) ==
  /\ At(a, "retire")
  /\ LET n == Min(work[a].due)
         j == commands[a][n].job
     IN /\ IF Retires(a, j) THEN RetireCancellation(a, j) ELSE UNCHANGED server
        /\ Goto(a, Retiring(a, work[a].req, work[a].upto,
                            IF Retires(a, j) THEN work[a].batch \ {n} ELSE work[a].batch,
                            work[a].due \ {n}))
  /\ UNCHANGED <<node, history>>

Finalize(a) ==
  /\ At(a, "finalize")
  /\ IF Finalizable(a) = {} THEN Goto(a, After(a, "recover", work[a].req, work[a].upto, work[a].batch)) /\ UNCHANGED server
     ELSE FinalizeResolution(a, Min(Finalizable(a))) /\ UNCHANGED work
  /\ UNCHANGED <<node, history>>

\* Whether a node now has the capabilities of a blocked job is the node's word.
Recover(a) ==
  /\ At(a, "recover")
  /\ \/ Goto(a, [work[a] EXCEPT !.pc = "claim"]) /\ UNCHANGED server
     \/ \E j \in Recoverable(a) : RecoverHeld(j) /\ UNCHANGED work
  /\ UNCHANGED <<node, history>>

Responding(a, offer) ==
  [pc |-> "respond", req |-> work[a].req, upto |-> work[a].upto, batch |-> work[a].batch,
   offer |-> offer]

Claim(a) ==
  /\ At(a, "claim")
  /\ ClaimJobs(a)
  /\ Goto(a, IF Claimable(a) = {} THEN Responding(a, Nil)
             ELSE [pc |-> "select", req |-> work[a].req, upto |-> work[a].upto,
                   batch |-> work[a].batch, leases |-> Claimable(a)])
  /\ UNCHANGED <<node, history>>

\* The first job found ready is the candidate and its siblings are released; a
\* lease lost meanwhile, or a job that no longer waits when it is to be blocked
\* or failed, ends the sync, and those that are left are released.
SelectOffer(a) ==
  LET held == {i \in work[a].leases : jobs[i].live /\ jobs[i].agent = a}
      j == Min(work[a].leases)
      rest == work[a].leases \ {j}
      Release(released) == jobs' = Released(released)
                        /\ UNCHANGED <<world, acceptance, attempts, destination, admission, commands, receipts>>
  IN /\ At(a, "select")
     /\ \/ /\ work[a].leases = {}
           /\ Goto(a, Responding(a, Nil)) /\ UNCHANGED server
        \/ /\ work[a].leases # {} /\ rest \subseteq held
           /\ Release(rest)
           /\ Goto(a, [pc |-> "reserve", req |-> work[a].req, upto |-> work[a].upto,
                       batch |-> work[a].batch, job |-> j, lease |-> jobs[j].lease])
        \/ /\ work[a].leases # {} /\ held # work[a].leases
           /\ Release(held) /\ Goto(a, Idle)
        \/ /\ "retry_later" \in world.withholds /\ work[a].leases # {} /\ j \in held
           /\ Release({j}) /\ Goto(a, [work[a] EXCEPT !.leases = rest])
        \/ /\ {"node_update", "permanent"} \cap world.withholds # {} /\ work[a].leases # {} /\ j \in held
           /\ jobs[j].state \in Leasable
           /\ IF ~OnlyLeased(j) THEN Release({j})
              ELSE \/ "node_update" \in world.withholds /\ BlockLease(j)
                   \/ "permanent" \in world.withholds /\ FailLease(j)
           /\ Goto(a, [work[a] EXCEPT !.leases = rest])
        \/ /\ {"node_update", "permanent"} \cap world.withholds # {} /\ work[a].leases # {} /\ j \in held
           /\ jobs[j].state \notin Leasable
           /\ Release(held) /\ Goto(a, Idle)
     /\ UNCHANGED <<node, history>>

\* reserve_job_route: an offer, or the lease goes back.
Reserve(a) ==
  LET j == work[a].job
      lease == work[a].lease
  IN /\ At(a, "reserve")
     /\ IF CanBegin(a, j)
        THEN /\ BeginAttempt(a, j, lease)
             /\ Goto(a, Responding(a, [job |-> j, lease |-> lease, gen |-> Len(attempts[j]) + 1]))
        ELSE /\ jobs' = IF HoldsLease(j, lease) /\ jobs[j].agent = a THEN Released({j}) ELSE jobs
             /\ Goto(a, IF HoldsLease(j, lease) /\ jobs[j].agent = a THEN Responding(a, Nil) ELSE Idle)
             /\ UNCHANGED <<world, acceptance, attempts, destination, admission, commands, receipts>>
     /\ UNCHANGED <<node, history>>

Offered(offer) == IF offer = Nil THEN Idle ELSE [pc |-> "prepare", offer |-> offer]

\* Mutant: the whole outbox is taken for acknowledged.
AcknowledgeAll(a) ==
  /\ At(a, "respond")
  /\ acked' = [acked EXCEPT ![a] = Len(events[a])]
  /\ evidenceAcked' = [evidenceAcked EXCEPT ![a] = work[a].req.evidence]
  /\ ledger' = [ledger EXCEPT ![a] = {}]
  /\ Goto(a, Offered(work[a].offer))
  /\ UNCHANGED <<server, local, intent, proof, events, evidence, cursor, engine, history>>

\* The response arrives: acknowledged events and evidence first.
Acknowledge(a) ==
  /\ At(a, "respond")
  /\ acked' = [acked EXCEPT ![a] = IF work[a].req.events > @ THEN work[a].req.events ELSE @]
  /\ evidenceAcked' = [evidenceAcked EXCEPT ![a] = work[a].req.evidence]
  /\ ledger' = [ledger EXCEPT ![a] = @ \cap {Key(commands[a][n]) : n \in work[a].batch}]
  /\ Goto(a, IF work[a].upto = 0 THEN Offered(work[a].offer)
             ELSE [pc |-> "apply", upto |-> work[a].upto, batch |-> work[a].batch,
                   failed |-> FALSE, offer |-> work[a].offer])
  /\ UNCHANGED <<server, local, intent, proof, events, evidence, cursor, engine, history>>

\* The request, a transaction of the handler or the response fails.
SyncLost(a) ==
  /\ work[a].pc \in {"handoffs", "events", "project", "commands", "retire", "finalize", "recover",
                     "claim", "select", "reserve", "respond"}
  /\ Fault("loss")
  /\ Goto(a, Idle)
  /\ UNCHANGED <<server, node, printed>>

-----------------------------------------------------------------------------
(* Commands and offers on the node.                                        *)

Applied(a, n, ok) ==
  /\ ledger' = IF ok THEN [ledger EXCEPT ![a] = @ \cup {Key(commands[a][n])}] ELSE ledger
  /\ Goto(a, [work[a] EXCEPT !.batch = work[a].batch \ {n}, !.failed = work[a].failed \/ ~ok])
  /\ UNCHANGED <<server, intent, evidence, outbox, cursor, engine, history>>

\* Mutant: only the spooler is asked to cancel.
ApplyCancelNative(a, n) ==
  /\ IF local[a][commands[a][n].job] \in {"accepted_by_spooler", "printing"}
     THEN Report(a, commands[a][n].job, "cancel_requested") ELSE UNCHANGED <<local, events>>
  /\ Applied(a, n, TRUE)
  /\ UNCHANGED proof

\* request_cancel: both events of a cancellation before the handoff, or the
\* request alone once the spooler has the job.
ApplyCancel(a, n) ==
  LET j == commands[a][n].job
      Both == <<[job |-> j, state |-> "cancel_requested"], [job |-> j, state |-> "cancelled"]>>
  IN /\ CASE local[a][j] \in {"queued_local", "failed_retryable"} ->
               /\ local' = [local EXCEPT ![a][j] = "cancelled"]
               /\ events' = [events EXCEPT ![a] = @ \o Both]
          [] local[a][j] \in {"accepted_by_spooler", "printing"} -> Report(a, j, "cancel_requested")
          [] OTHER -> UNCHANGED <<local, events>>
     /\ Applied(a, n, local[a][j] # "absent")
     /\ UNCHANGED proof

\* resolve_ambiguous_handoff and finalize_uncertain_cloud_handoff_recovery.
ApplyResolve(a, n) ==
  LET c == commands[a][n]
      ok == /\ local[a][c.job] = "delivery_uncertain"
            /\ \E m \in DOMAIN evidence[a] :
                 /\ evidence[a][m].job = c.job /\ evidence[a][m].gen = c.gen
                 /\ evidence[a][m].outcome \in {"accepted", "ambiguous"}
  IN /\ proof' = IF ok THEN [proof EXCEPT ![a][c.job] = 0] ELSE proof
     /\ Applied(a, n, ok)
     /\ UNCHANGED <<local, events>>

\* apply_commands, one command: what the ledger has is not applied again.
ApplyCommand(a) ==
  /\ At(a, "apply") /\ work[a].batch # {}
  /\ LET n == Min(work[a].batch) IN
       IF Key(commands[a][n]) \in ledger[a]
       THEN Applied(a, n, TRUE) /\ UNCHANGED <<local, events, proof>>
       ELSE IF commands[a][n].kind = "cancel_job" THEN ApplyCancel(a, n) ELSE ApplyResolve(a, n)

\* Mutant: the cursor is not persisted.
FinishCommandsVolatile(a) ==
  /\ At(a, "apply") /\ work[a].batch = {}
  /\ Goto(a, Offered(work[a].offer))
  /\ UNCHANGED <<server, node, history>>

\* The cursor moves once every command of the batch is applied.
FinishCommands(a) ==
  /\ At(a, "apply") /\ work[a].batch = {}
  /\ IF work[a].failed THEN UNCHANGED commanded
     ELSE /\ cursor' = [cursor EXCEPT ![a] = work[a].upto]
          /\ ledger' = [ledger EXCEPT ![a] = {}]
  /\ Goto(a, Offered(work[a].offer))
  /\ UNCHANGED <<server, local, intent, proof, events, evidence, outbox, engine, history>>

\* release_offer, when nothing durable was prepared.
Return(a, o) ==
  /\ jobs' = IF intent[a][o.job] = Nil /\ HoldsLease(o.job, o.lease) /\ jobs[o.job].agent = a
             THEN Released({o.job}) ELSE jobs
  /\ Goto(a, Idle)
  /\ UNCHANGED <<world, acceptance, attempts, destination, admission, commands, receipts, node, history>>

\* prepare_cloud_job: what the local row makes of the offer.
Prepared(a, o) ==
  LET j == o.job
      p == intent[a][j]
  IN CASE local[a][j] \in {"absent", "failed_retryable"} -> "fresh"
       [] local[a][j] = "cloud_accept_pending" ->
            (IF p # Nil /\ p.confirmed /\ (p.lease # o.lease \/ p.gen # o.gen)
             THEN "conflict" ELSE "renewed")
       [] proof[a][j] = o.gen -> "known"
       [] OTHER -> "conflict"

ProcessOffer(a) ==
  /\ At(a, "prepare")
  /\ LET o == work[a].offer
         r == Prepared(a, o)
         kept == r = "renewed" /\ intent[a][o.job] # Nil /\ intent[a][o.job].confirmed
     IN CASE r = "conflict" -> Return(a, o)
          [] r = "known" -> Goto(a, Resuming(a, "idle")) /\ UNCHANGED <<server, node, history>>
          [] OTHER ->
               /\ local' = [local EXCEPT ![a][o.job] = "cloud_accept_pending"]
               /\ intent' = [intent EXCEPT ![a][o.job] =
                    [lease |-> o.lease, gen |-> o.gen, confirmed |-> kept]]
               /\ proof' = [proof EXCEPT ![a][o.job] = o.gen]
               /\ Goto(a, [pc |-> "resume", todo |-> PendingAccepts(a) \cup {o.job}, next |-> "idle"])
               /\ UNCHANGED <<server, events, evidence, outbox, commanded, engine, history>>

\* The content cannot be had, or the lease is not renewed while it is fetched.
DeclineOffer(a) ==
  /\ At(a, "prepare")
  /\ LET o == work[a].offer IN
       /\ "declined" \in world.setbacks \/ ~CanRenew(a, o.job, o.lease, o.gen)
       /\ Return(a, o)

-----------------------------------------------------------------------------
(* The process stops: the worker and the engine forget where they were.    *)
Crash(a) ==
  /\ Fault("crash")
  /\ work[a] # Idle \/ engine[a] # Nil
  /\ Goto(a, Idle) /\ engine' = [engine EXCEPT ![a] = Nil]
  /\ UNCHANGED <<server, local, intent, proof, events, evidence, outbox, commanded, printed>>

\* The process stops between the two transactions of cancel_before_handoff.
CrashInCancel(a) ==
  /\ Fault("crash")
  /\ At(a, "apply") /\ work[a].batch # {}
  /\ LET c == commands[a][Min(work[a].batch)] IN
       /\ c.kind = "cancel_job" /\ local[a][c.job] \in {"queued_local", "failed_retryable"}
       /\ Report(a, c.job, "cancel_requested")
  /\ Goto(a, Idle) /\ engine' = [engine EXCEPT ![a] = Nil]
  /\ UNCHANGED <<server, intent, proof, evidence, outbox, commanded, printed>>

\* A lease somebody still works on runs out only as a fault.
InHand(j) ==
  \E a \in Agent :
    \/ work[a].pc = "select" /\ j \in work[a].leases
    \/ work[a].pc = "reserve" /\ work[a].job = j
    \/ work[a].pc \in {"respond", "apply", "prepare"} /\ work[a].offer # Nil /\ work[a].offer.job = j
    \/ intent[a][j] # Nil /\ intent[a][j].lease = jobs[j].lease
LeaseEnds(j) ==
  /\ LeaseExpires(j)
  /\ IF InHand(j) THEN Fault("slow") ELSE UNCHANGED faults
  /\ UNCHANGED <<node, work, printed>>
AttemptEnds(j) == AttemptExpires(j) /\ UNCHANGED <<node, work, history>>

ServerStep(j) ==
  /\ \/ DeadlinePasses(j) \/ ExpireBeforeHandoff(j)
     \/ RequestCancellation(j) \/ (j \in world.resolvable /\ EnqueueResolution(j))
     \/ \E a \in Agent : Reroute(j, a)
  /\ UNCHANGED <<node, work, history>>

Revoke(a) ==
  /\ \/ Fault("revoke") /\ RevokeConnector(a)
     \/ RevokeAgent(a) /\ UNCHANGED faults
  /\ UNCHANGED <<node, work, printed>>

AcceptStep(a) ==
  \/ StartCycle(a) \/ ResumeNext(a) \/ ReconcileAcceptance(a) \/ CallAccept(a, TRUE)
  \/ Activate(a) \/ Abandon(a)
SyncStep(a) ==
  \/ BuildRequest(a) \/ Send(a) \/ IngestHandoff(a) \/ IngestEvent(a) \/ ProjectEvent(a)
  \/ FetchCommands(a) \/ Retire(a) \/ Finalize(a) \/ Recover(a) \/ Claim(a) \/ SelectOffer(a)
  \/ Reserve(a) \/ Acknowledge(a)
CommandStep(a) == ApplyCommand(a) \/ FinishCommands(a) \/ ProcessOffer(a)
WorkerStep(a) == AcceptStep(a) \/ SyncStep(a) \/ CommandStep(a)
Loss(a) == ReconcileLost(a) \/ CallAccept(a, FALSE) \/ SyncLost(a) \/ DeclineOffer(a)

Next ==
  \/ \E a \in Agent : WorkerStep(a) \/ Loss(a) \/ Crash(a) \/ CrashInCancel(a) \/ Revoke(a)
  \/ \E j \in Job : ServerStep(j) \/ LeaseEnds(j) \/ AttemptEnds(j)
  \/ \E a \in Agent, j \in Job : EngineStep(a, j) \/ ExpireLocally(a, j)

Spec == Init /\ [][Next]_vars

(* A worker that is up runs cycle after cycle and the engine ticks; leases *)
(* end.  Answers are lost, processes stop, nodes are revoked and callers   *)
(* act only if they do.                                                    *)
FairSpec ==
  /\ Spec
  /\ \A a \in Agent : WF_vars(WorkerStep(a)) /\ \A j \in Job : WF_vars(EngineStep(a, j))
  /\ \A j \in Job : WF_vars(LeaseEnds(j) /\ ~InHand(j)) /\ WF_vars(AttemptEnds(j))

-----------------------------------------------------------------------------
Withdrawn == {j \in Job : acceptance[j] = Nil /\ jobs[j].state \in Terminal}

Abstract == INSTANCE PrintDelivery WITH
  owner <- [j \in Job |-> IF acceptance[j] = Nil THEN Nil ELSE acceptance[j].agent],
  copies <- [j \in Job |-> [a \in Agent |-> printed[a][j]]],
  withdrawn <- Withdrawn,
  completed <- {j \in Job : jobs[j].state = "completed_reported"}

(* What the nodes and the control plane promise together of a job (module  *)
(* PrintDelivery), with the acceptance row as the node that is responsible *)
(* and the native handoffs the OS took as the copies: whatever leases      *)
(* expire, answers are lost and processes stop, a job withdrawn by the     *)
(* server is never printed and an accepted one by its node alone, once.    *)
Promised == Abstract!Promise

Runs(a, j) == local[a][j] \in {"queued_local", "preparing", "spool_intent"} /\ EvidenceOf(a, j) = {}

(* Two nodes, or two jobs of one node, are never both on their way to the  *)
(* destination (begin_delivery_attempt, the unique active reservation),    *)
(* revoked nodes that do not know it yet included.                         *)
DestinationSerial ==
  \A a, b \in Agent, j, k \in Job : Runs(a, j) /\ Runs(b, k) => a = b /\ j = k

(* An attempt the server gave up for another one was never taken up: no    *)
(* node runs it or has handed it over (supersede_pre_handoff_delivery_     *)
(* attempts, the sweep of expired route leases, accept's lease check).     *)
SupersededNeverRuns ==
  \A j \in Job : \A g \in Generations(j) : attempts[j][g].state = "superseded" =>
    \A a \in Agent :
      /\ ~(Runs(a, j) /\ proof[a][j] = g)
      /\ ~\E n \in DOMAIN evidence[a] : evidence[a][n].job = j /\ evidence[a][n].gen = g

(* The server knows no more than what happened: an attempt it holds for    *)
(* taken was taken by that node's spooler, one it holds for failed was not *)
(* left ambiguous by it (ingest_native_handoffs,                           *)
(* reconcile_post_spooler_event).                                          *)
AttemptsAreTrue ==
  \A j \in Job : \A g \in Generations(j) :
    LET t == attempts[j][g]
        outcomes == {evidence[t.agent][n].outcome : n \in {m \in DOMAIN evidence[t.agent] :
                       evidence[t.agent][m].job = j /\ evidence[t.agent][m].gen = g}}
    IN /\ t.state \in {"accepted_by_spooler", "printing_reported", "completed_reported"} =>
            "accepted" \in outcomes
       /\ t.state = "failed" => outcomes \cap {"ambiguous"} = {}

(* What a node has dropped from its outbox the server has: an event is     *)
(* acknowledged only once it is in agent_event_receipts.                   *)
AcknowledgedIsDurable ==
  \A a \in Agent : \A n \in 1..acked[a] : n \in receipts[a]

(* The server frees an uncertain destination only when the node has        *)
(* settled the handoff itself (the command's cursor is acknowledged after  *)
(* every command of its batch was applied).                                *)
ResolvedByNode ==
  \A j \in Job : \A g \in Generations(j) :
    attempts[j][g].resolution = "final" => proof[attempts[j][g].agent][j] # g

(* A cancellation a node has acknowledged does not leave the job in its    *)
(* queue (request_cancel, the abandonment of a pending acceptance).        *)
AcknowledgedCancelHolds ==
  \A a \in Agent : \A n \in DOMAIN commands[a] :
    commands[a][n].kind = "cancel_job" /\ commands[a][n].acknowledged =>
      local[a][commands[a][n].job] # "queued_local"

(* Every job ends, or the destination waits for an operator who has not    *)
(* decided: lost answers, expired leases and released siblings delay a job *)
(* and do not strand it.                                                   *)
Undecided ==
  \E j \in Job : \E g \in Generations(j) :
    attempts[j][g].state = "delivery_uncertain" /\ attempts[j][g].resolution = "none"
Calmly ==
  /\ world.faults \subseteq {"loss", "slow"} /\ world.cancellable = {} /\ world.setbacks = {}
  /\ world.withholds = {} /\ "retryable" \notin world.verdicts
EveryJobEnds ==
  \A j \in Job :
    Calmly /\ jobs[j].state = "waiting_for_agent" ~> jobs[j].state \in Terminal \/ Undecided

(* A resolution an operator asked for is carried out by the node and frees *)
(* the destination (finalize_acknowledged_uncertainty).                    *)
ResolutionCompletes ==
  \A j \in Job :
    (\E g \in Generations(j) : attempts[j][g].resolution = "pending")
      ~> (\A g \in Generations(j) : attempts[j][g].resolution # "pending")

(* "`registered` through `queued_local`: system can normally cancel        *)
(* authoritatively" (docs/04-protocol-queues-and-state.md:160): the        *)
(* cancellation of a job that waits in its node's queue settles.           *)
CancellationSettles ==
  \A a \in Agent, j \in Job :
    jobs[j].state = "cancel_requested" /\ local[a][j] = "queued_local"
      ~> jobs[j].state \in Terminal
=============================================================================
