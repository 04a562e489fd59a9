---------------------------- MODULE RouteJournal ----------------------------
(***************************************************************************)
(* The document of the installation's route coordinator                    *)
(* (crates/node-runtime/src/route_coordinator.rs) and the pure changes its *)
(* operations make to it.  The coordinator keeps one such document in      *)
(* memory and one in route-coordinator.json; module NativeHandoff puts the *)
(* operations, the two copies and their callers together.                  *)
(*                                                                         *)
(* Abstraction.  A job identifier is unique, so the connector that owns a  *)
(* job and the OS route it is addressed to are functions of the job.  A    *)
(* route identifier (a hash of the native queue name) is the native queue  *)
(* itself.  Identity evidence is reduced to what physical_coordination_key *)
(* makes of it: one physical identity, or none.  A reservation identifier  *)
(* and its fencing token are drawn together and are one number, `id'.      *)
(* server_route_id only matters as present or absent: `cloud'.             *)
(***************************************************************************)
EXTENDS Integers, FiniteSets

CONSTANTS
  Connector,      \* queues sharing this installation's printers
  Job,            \* job identifiers
  Native,         \* OS print queues (routes)
  Identity,       \* physical identities discovery can derive
  OwnerOf,        \* the connector of a job
  RouteOf,        \* the route a job is addressed to
  MaxHandoffs,    \* MAX_HANDOFFS
  MaxConsumed,    \* MAX_CONSUMED_AUTHORITATIVE_ROUTES
  NoIdentity,     \* discovery found no usable identity
  Absent,         \* the queue was not discovered
  Nil             \* no record

Key == Native \cup Identity
Evidence == Identity \cup {NoIdentity}
Outcome == {"accepted", "rejected", "ambiguous"}

\* DurableRoute, DurableReservation, DurableHandoff, ConsumedAuthoritativeRoute.
Route == [key : Key, conflict : BOOLEAN, generation : Nat, present : BOOLEAN,
          evidence : Evidence]
Reservation == [key : Key, job : Job, id : Nat, gen : Nat, cloud : BOOLEAN]
Handoff == [seq : Nat, job : Job, id : Nat, gen : Nat, cloud : BOOLEAN,
            outcome : Outcome, native : BOOLEAN]
Consumed == [job : Job, id : Nat, gen : Nat, outcome : Outcome, native : BOOLEAN]

\* CoordinatorDocument.
Document == [seq : Nat, routes : [Native -> Route \cup {Nil}],
             reservations : SUBSET Reservation, consumed : SUBSET Consumed,
             acked : [Connector -> Nat], handoffs : SUBSET Handoff]

ASSUME JournalAssumption ==
  /\ OwnerOf \in [Job -> Connector]
  /\ RouteOf \in [Job -> Native]
  /\ MaxHandoffs \in Nat /\ MaxConsumed \in Nat
  /\ NoIdentity \notin Identity /\ Absent \notin Evidence
  /\ Native \cap Identity = {}
  /\ Nil \notin Route \cup Handoff \cup Consumed

EmptyDocument ==
  [seq |-> 0, routes |-> [n \in Native |-> Nil], reservations |-> {},
   consumed |-> {}, acked |-> [c \in Connector |-> 0], handoffs |-> {}]

-----------------------------------------------------------------------------
(* Topology: which routes share one physical exclusion domain.             *)

Known(d) == {n \in Native : d.routes[n] # Nil}
ActiveKeys(d) == {r.key : r \in d.reservations}

PhysicalKey(n, evidence) == IF evidence = NoIdentity THEN n ELSE evidence
DesiredKey(d, n) == PhysicalKey(n, d.routes[n].evidence)

\* The occupied exclusion domains that physical key p would combine.
Occupied(d, p) ==
  {d.routes[n].key : n \in {m \in Known(d) : /\ DesiredKey(d, m) = p
                                             /\ d.routes[m].key \in ActiveKeys(d)}}
  \cup
  {r.key : r \in {s \in d.reservations : /\ RouteOf[s.job] \in Known(d)
                                         /\ DesiredKey(d, RouteOf[s.job]) = p}}

\* Mutant: aliases are regrouped although a domain is occupied.
RekeyedAtOnce(d, n) == [d.routes[n] EXCEPT !.key = DesiredKey(d, n), !.conflict = FALSE]

\* An occupied domain wins over a newly derived key; two of them conflict.
RekeyedRoute(d, n) ==
  LET route == d.routes[n]
      desired == DesiredKey(d, n)
      occupied == Occupied(d, desired)
  IN IF occupied = {}
     THEN [route EXCEPT !.key = desired, !.conflict = FALSE]
     ELSE IF \E k \in occupied : occupied = {k}
     THEN [route EXCEPT !.key = CHOOSE k \in occupied : TRUE, !.conflict = FALSE]
     ELSE [route EXCEPT !.key = IF @ \in ActiveKeys(d) THEN @ ELSE desired,
                        !.conflict = TRUE]

ReconcileCoordinationKeys(d) ==
  [d EXCEPT !.routes = [n \in Native |-> IF d.routes[n] = Nil THEN Nil
                                         ELSE RekeyedRoute(d, n)]]

RequiresRetention(d, n) ==
  \/ \E r \in d.reservations : RouteOf[r.job] = n
  \/ \E h \in d.handoffs : RouteOf[h.job] = n /\ h.outcome = "ambiguous"

PruneAbsentRoutes(d) ==
  [d EXCEPT !.routes =
     [n \in Native |-> IF /\ d.routes[n] # Nil
                          /\ ~d.routes[n].present
                          /\ ~RequiresRetention(d, n)
                       THEN Nil ELSE d.routes[n]]]

\* One discovered queue: the prior exclusion domain is kept until every
\* alias has been seen.
ObservedRoute(route, n, seen) ==
  CASE seen = Absent /\ route = Nil -> Nil
    [] seen = Absent /\ route # Nil -> [route EXCEPT !.present = FALSE]
    [] seen # Absent /\ route = Nil ->
         [key |-> PhysicalKey(n, seen), conflict |-> FALSE, generation |-> 0,
          present |-> TRUE, evidence |-> seen]
    [] OTHER -> [route EXCEPT !.present = TRUE, !.conflict = FALSE, !.evidence = seen]

\* reconcile: discovery reports obs[n] for every queue n.
Reconcile(d, obs) ==
  LET pruned == PruneAbsentRoutes(d)
      observed == [pruned EXCEPT !.routes =
                     [n \in Native |-> ObservedRoute(pruned.routes[n], n, obs[n])]]
  IN ReconcileCoordinationKeys(PruneAbsentRoutes(observed))

\* open: repair the keys of the document on disk before pruning it.
Reopened(d) == PruneAbsentRoutes(ReconcileCoordinationKeys(d))

-----------------------------------------------------------------------------
(* Reservations.                                                           *)

\* Mutant: the evidence itself is taken for the key.
RouteKeyIsEvidence(d, n) == IF d.routes[n] = Nil THEN n ELSE d.routes[n].evidence

RouteKey(d, n) == IF d.routes[n] = Nil THEN n ELSE d.routes[n].key
Conflicted(d, n) == d.routes[n] # Nil /\ d.routes[n].conflict

CrossedOrMayHaveCrossed(d, j) ==
  \E h \in d.handoffs : h.job = j /\ h.outcome \in {"accepted", "ambiguous"}

\* The reservation found under the job's exclusion domain, of any job.
Holders(d, j) == {r \in d.reservations : r.key = RouteKey(d, RouteOf[j])}
OwnHolder(d, j) == {r \in Holders(d, j) : r.job = j}

\* reserve_inner returns the job's own reservation unchanged, ...
CanReuse(d, j) == ~CrossedOrMayHaveCrossed(d, j) /\ OwnHolder(d, j) # {}

\* ... or fences a free domain with a new one ...
CanReserve(d, j) ==
  /\ ~CrossedOrMayHaveCrossed(d, j)
  /\ Holders(d, j) = {}
  /\ Cardinality(d.handoffs) + Cardinality(d.reservations) < MaxHandoffs
  /\ ~Conflicted(d, RouteOf[j])

NextGeneration(d, n) == IF d.routes[n] = Nil THEN 1 ELSE d.routes[n].generation + 1

LocalReservation(d, j, id) ==
  [key |-> RouteKey(d, RouteOf[j]), job |-> j, id |-> id,
   gen |-> NextGeneration(d, RouteOf[j]), cloud |-> FALSE]

Reserve(d, j, id) ==
  [d EXCEPT
     !.routes = [n \in Native |->
                   IF n = RouteOf[j] /\ d.routes[n] # Nil
                   THEN [d.routes[n] EXCEPT !.generation = @ + 1] ELSE d.routes[n]],
     !.reservations = @ \cup {LocalReservation(d, j, id)}]

\* register_authoritative_inner for the server's offer o = [job, id, gen].
CloudReservation(d, o) ==
  [key |-> RouteKey(d, RouteOf[o.job]), job |-> o.job, id |-> o.id, gen |-> o.gen,
   cloud |-> TRUE]

NotReplayed(d, o) ==
  /\ \A s \in d.consumed : s.job = o.job => s.outcome # "accepted" /\ o.gen > s.gen
  /\ ~CrossedOrMayHaveCrossed(d, o.job)
  /\ \A h \in d.handoffs : h.job = o.job => o.gen > h.gen

CanReregister(d, o) ==
  /\ NotReplayed(d, o)
  /\ RouteOf[o.job] \in Known(d)
  /\ CloudReservation(d, o) \in d.reservations

\* Jobs whose replay barrier is already spoken for.
BarrierJobs(d) ==
  {s.job : s \in d.consumed} \cup {r.job : r \in {q \in d.reservations : q.cloud}}

CanRegister(d, o) ==
  /\ NotReplayed(d, o)
  /\ RouteOf[o.job] \in Known(d)
  /\ Holders(d, o.job) = {}
  /\ ~Conflicted(d, RouteOf[o.job])
  /\ o.job \in BarrierJobs(d) \/ Cardinality(BarrierJobs(d)) < MaxConsumed

Register(d, o) == [d EXCEPT !.reservations = @ \cup {CloudReservation(d, o)}]

-----------------------------------------------------------------------------
(* Terminal evidence.                                                      *)

\* validate and the connector/job match of finish_inner, for a handle.
Validates(d, r) == r \in d.reservations

\* record_consumed_authoritative_route keeps the highest generation of a job.
RecordConsumed(d, r, outcome, native) ==
  IF ~r.cloud \/ \E s \in d.consumed : s.job = r.job /\ s.gen >= r.gen
  THEN d.consumed
  ELSE {s \in d.consumed : s.job # r.job}
       \cup {[job |-> r.job, id |-> r.id, gen |-> r.gen, outcome |-> outcome,
              native |-> native]}

BarrierHasRoom(d, r) ==
  \/ ~r.cloud
  \/ \E s \in d.consumed : s.job = r.job
  \/ Cardinality(d.consumed) < MaxConsumed

CanFinish(d, r, outcome) ==
  Validates(d, r) /\ (outcome # "ambiguous" => BarrierHasRoom(d, r))

\* Mutants of Finish: an ambiguous outcome releases the route; only a
\* rejection does.
FinishReleasing(d, r, outcome, native) ==
  [d EXCEPT
     !.seq = @ + 1,
     !.handoffs = @ \cup {[seq |-> d.seq + 1, job |-> r.job, id |-> r.id, gen |-> r.gen,
                           cloud |-> r.cloud, outcome |-> outcome, native |-> native]},
     !.consumed = IF outcome = "ambiguous" THEN @ ELSE RecordConsumed(d, r, outcome, native),
     !.reservations = @ \ {r}]
FinishKeepingAccepted(d, r, outcome, native) ==
  [FinishReleasing(d, r, outcome, native) EXCEPT
     !.reservations = IF outcome = "rejected" THEN @ ELSE d.reservations]

\* finish_inner: an ambiguous outcome keeps the route fenced.
Finish(d, r, outcome, native) ==
  [d EXCEPT
     !.seq = @ + 1,
     !.handoffs = @ \cup {[seq |-> d.seq + 1, job |-> r.job, id |-> r.id, gen |-> r.gen,
                           cloud |-> r.cloud, outcome |-> outcome, native |-> native]},
     !.consumed = IF outcome = "ambiguous" THEN @ ELSE RecordConsumed(d, r, outcome, native),
     !.reservations = IF outcome = "ambiguous" THEN @ ELSE @ \ {r}]

\* Mutant: acknowledged barriers are compacted with their evidence.
AcknowledgeCompacting(d, c, through) ==
  [d EXCEPT
     !.acked[c] = IF through > @ THEN through ELSE @,
     !.handoffs = {h \in @ : OwnerOf[h.job] # c \/ h.seq > through \/ h.outcome = "ambiguous"},
     !.consumed = {s \in @ : \A h \in d.handoffs : h.seq <= through => h.job # s.job}]

\* acknowledge_handoffs: ambiguous evidence outlives the acknowledgement.
Acknowledge(d, c, through) ==
  [d EXCEPT
     !.acked[c] = IF through > @ THEN through ELSE @,
     !.handoffs = {h \in @ : \/ OwnerOf[h.job] # c
                             \/ h.seq > through
                             \/ h.outcome = "ambiguous"}]

\* resolve_ambiguous_handoff_inner for the ambiguity of reservation id.
ResolvedOutcome(resolution) ==
  IF resolution = "release" THEN "rejected" ELSE "accepted"

Newest(S) == CHOOSE h \in S : \A g \in S : g.seq <= h.seq
EvidenceOf(d, j, id) == {h \in d.handoffs : h.job = j /\ h.id = id}
BarrierOf(d, j, id) == {s \in d.consumed : s.job = j /\ s.id = id}

\* An exact replay succeeds without a change ...
ResolvedAlready(d, j, id, resolution) ==
  LET outcome == ResolvedOutcome(resolution) IN
  IF BarrierOf(d, j, id) # {}
  THEN \E s \in BarrierOf(d, j, id) : s.outcome = outcome
  ELSE /\ EvidenceOf(d, j, id) # {}
       /\ Newest(EvidenceOf(d, j, id)).outcome = outcome

\* ... and a first resolution needs the fence and the ambiguous evidence.
CanResolve(d, r, h) ==
  /\ BarrierOf(d, r.job, r.id) = {}
  /\ r \in d.reservations
  /\ h \in EvidenceOf(d, r.job, r.id)
  /\ h = Newest(EvidenceOf(d, r.job, r.id))
  /\ h.outcome = "ambiguous"
  /\ BarrierHasRoom(d, r)

\* Mutant: the fence goes, the ambiguous evidence stays.
ResolveFenceOnly(d, r, h, resolution) == [d EXCEPT !.reservations = @ \ {r}]

Resolve(d, r, h, resolution) ==
  LET resolved == [h EXCEPT !.outcome = ResolvedOutcome(resolution)] IN
  [d EXCEPT
     !.handoffs = (@ \ {h}) \cup (IF h.seq <= d.acked[OwnerOf[r.job]] THEN {} ELSE {resolved}),
     !.consumed = RecordConsumed(d, r, resolved.outcome, h.native),
     !.reservations = @ \ {r}]

\* authoritative_handoff_for_proof: evidence first, then the barrier.
AuthoritativeHandoff(d, j, id) ==
  IF EvidenceOf(d, j, id) # {} THEN Newest(EvidenceOf(d, j, id))
  ELSE IF BarrierOf(d, j, id) # {} THEN CHOOSE s \in BarrierOf(d, j, id) : TRUE
  ELSE Nil

\* compact_local_terminal_handoffs drops the evidence in S.
Compact(d, S) == [d EXCEPT !.handoffs = @ \ S]

-----------------------------------------------------------------------------
(* What keeps a document safe, whichever operation comes next.             *)

Desires(d, r, s) ==
  LET n == RouteOf[r.job] m == RouteOf[s.job] IN
  n \in Known(d) /\ m \in Known(d) /\ DesiredKey(d, n) = DesiredKey(d, m)

\* A domain holds one unresolved reservation, ...
KeysUnique(d) == \A r, s \in d.reservations : r.key = s.key => r = s

\* ... a route too, ...
OnePerRoute(d) ==
  \A r, s \in d.reservations : RouteOf[r.job] = RouteOf[s.job] => r = s

\* ... and two on what discovery shows to be one printer both conflict.
ConflictsMarked(d) ==
  \A r, s \in d.reservations :
    r # s /\ Desires(d, r, s) => d.routes[RouteOf[r.job]].conflict

\* A reservation is found under its route's key unless the route conflicts.
HolderFound(d) ==
  \A r \in d.reservations :
    LET n == RouteOf[r.job] IN ~Conflicted(d, n) => r.key = RouteKey(d, n)

\* Aliases of one printer agree.
AliasesAgree(d) ==
  \A n, m \in Known(d) :
    DesiredKey(d, n) = DesiredKey(d, m) =>
      /\ d.routes[n].conflict = d.routes[m].conflict
      /\ ~d.routes[n].conflict => d.routes[n].key = d.routes[m].key

\* An accepted job has no fence left to cross again.
AcceptedIsFinal(d) ==
  \A s \in d.consumed : s.outcome = "accepted" =>
    ~\E r \in d.reservations : r.job = s.job /\ r.cloud

JournalInv(d) ==
  /\ KeysUnique(d) /\ OnePerRoute(d) /\ ConflictsMarked(d)
  /\ HolderFound(d) /\ AliasesAgree(d) /\ AcceptedIsFinal(d)

\* No replay barrier is dropped or moved back, and an accepted one is final.
BarrierGrows(d, e) ==
  \A s \in d.consumed : \E t \in e.consumed :
    t.job = s.job /\ t.gen >= s.gen /\ (s.outcome = "accepted" => t = s)
=============================================================================
