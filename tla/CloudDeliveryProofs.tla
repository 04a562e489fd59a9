------------------------- MODULE CloudDeliveryProofs -------------------------
(***************************************************************************)
(* What the server and the nodes know of one another, as an inductive      *)
(* invariant of CloudDelivery, and the safety properties it implies.       *)
(***************************************************************************)
EXTENDS CloudDelivery, SequenceTheorems, FiniteSetTheorems, WellFoundedInduction, TLAPS

StagePc == {"reconcile", "accept", "activate", "abandon"}
ResumePc == {"resume"} \cup StagePc
\* Once the handler has been through the events of the request.
HandledPc == {"commands", "retire", "finalize", "recover", "claim", "select", "reserve", "respond"}
RequestPc == {"handoffs", "events", "project"} \cup HandledPc
BatchPc == HandledPc \ {"commands"}
OfferPc == {"respond", "apply", "prepare"}

(***************************************************************************)
(* The worker's cycle.                                                     *)
(***************************************************************************)
\* What is to be resumed was prepared, and still is.
ResumesPending(a) ==
  work[a].pc \in ResumePc =>
    /\ work[a].todo \subseteq PendingAccepts(a)
    /\ work[a].pc \in StagePc => work[a].job \in work[a].todo

\* A request is about what the outbox and the journal have, and behind the
\* event in hand the server has them all.
RequestIsCovered(a) ==
  LET w == work[a] IN
  /\ w.pc = "gather" => w.events <= Len(events[a])
  /\ w.pc \in {"handoffs", "events", "project"} => w.req.events <= Len(events[a])
  /\ w.pc = "handoffs" => 1 <= w.at /\ w.at <= w.req.evidence /\ w.req.evidence <= Len(evidence[a])
  /\ w.pc \in {"events", "project"} =>
       /\ 1 <= w.at /\ w.at <= w.req.events
       /\ \A n \in 1..(w.at - 1) : n \in receipts[a]
  /\ w.pc = "project" => w.at \in receipts[a]
  /\ w.pc \in HandledPc => \A n \in 1..w.req.events : n \in receipts[a]

\* An offer in hand is of an attempt of this node that nobody took up.
OfferIsOpen(a) ==
  work[a].pc \in OfferPc /\ work[a].offer # Nil =>
    LET o == work[a].offer IN
    /\ o.gen \in Generations(o.job) /\ attempts[o.job][o.gen].agent = a
    /\ acceptance[o.job] # Nil => acceptance[o.job].gen # o.gen

(***************************************************************************)
(* What a node has of a job, and the acceptance row.                       *)
(***************************************************************************)
Mine(a, j) == acceptance[j] # Nil /\ acceptance[j].agent = a
Proved(a, j) == Mine(a, j) /\ acceptance[j].gen = proof[a][j]
OnItsWay == {"queued_local", "preparing", "spool_intent"}

\* An intent and its proof go with the pending row; a row that runs, and the
\* job in the engine's hand, are accepted under the proof the node has.
RowIsAccepted(a, j) ==
  /\ intent[a][j] # Nil <=> local[a][j] = "cloud_accept_pending"
  /\ intent[a][j] # Nil =>
       /\ proof[a][j] = intent[a][j].gen
       /\ intent[a][j].confirmed =>
            acceptance[j] = [agent |-> a, lease |-> intent[a][j].lease, gen |-> intent[a][j].gen]
  /\ local[a][j] \notin {"absent", "cloud_accept_pending", "cancelled"} => Mine(a, j)
  /\ local[a][j] \in OnItsWay => Proved(a, j)
  /\ engine[a] = j => local[a][j] \in OnItsWay \cup {"cancelled", "expired"} /\ Proved(a, j)

Witness(a, j, g, n) == n \in DOMAIN evidence[a] /\ evidence[a][n].job = j /\ evidence[a][n].gen = g
Witnessed(a, j, g) == \E n \in DOMAIN evidence[a] : Witness(a, j, g, n)

\* Evidence and events are of accepted jobs, and a job has evidence once.
HandoffsAreAccepted(a) ==
  /\ \A n \in DOMAIN evidence[a] :
       /\ Mine(a, evidence[a][n].job) /\ acceptance[evidence[a][n].job].gen = evidence[a][n].gen
       /\ evidence[a][n].outcome = "accepted" => printed[a][evidence[a][n].job] = 1
       /\ \A m \in DOMAIN evidence[a] : evidence[a][m].job = evidence[a][n].job => m = n
  /\ \A j \in Job : printed[a][j] # 0 =>
       printed[a][j] = 1 /\ \E n \in DOMAIN evidence[a] : evidence[a][n].job = j
EventsAreAccepted(a) ==
  \A n \in DOMAIN events[a] :
    /\ Mine(a, events[a][n].job) /\ events[a][n].state # "agent_accepted"
    /\ events[a][n].state = "completed_reported" => printed[a][events[a][n].job] = 1

(***************************************************************************)
(* Attempts.                                                               *)
(***************************************************************************)
\* The accepted attempt was neither left to another nor withdrawn.
AcceptedIsOpen(j) ==
  acceptance[j] # Nil =>
    /\ acceptance[j].gen \in Generations(j)
    /\ attempts[j][acceptance[j].gen].agent = acceptance[j].agent
    /\ attempts[j][acceptance[j].gen].state \notin {"route_leased", "superseded", "cancelled"}

AttemptIsWitnessed(j, g) ==
  LET t == attempts[j][g] IN
  /\ t.reserved <=> t.state \in {"route_leased", "queued_local", "handing_to_spooler"}
  /\ t.state = "handing_to_spooler" => Witnessed(t.agent, j, g)
  /\ t.state \in {"accepted_by_spooler", "printing_reported", "completed_reported"} =>
       \E n \in DOMAIN evidence[t.agent] :
         Witness(t.agent, j, g, n) /\ evidence[t.agent][n].outcome = "accepted"
  /\ t.state = "failed" =>
       \E n \in DOMAIN evidence[t.agent] :
         Witness(t.agent, j, g, n) /\ evidence[t.agent][n].outcome # "ambiguous"

\* An attempt that occupies the destination: it has a reservation, or it is
\* uncertain, unresolved, and its node may not have begun.
Occupies(j, g) ==
  LET t == attempts[j][g] IN
  \/ t.reserved
  \/ t.state = "delivery_uncertain" /\ t.resolution # "final" /\ ~Witnessed(t.agent, j, g)
OneOccupies ==
  \A j, k \in Job : \A g \in Generations(j), h \in Generations(k) :
    Occupies(j, g) /\ Occupies(k, h) => j = k /\ g = h

(***************************************************************************)
(* Commands.                                                               *)
(***************************************************************************)
Resolved(a, j, g) == proof[a][j] # g /\ Witnessed(a, j, g)
StaysCancelled(a, j) ==
  /\ acceptance[j] # Nil /\ jobs[j].state # "agent_accepted"
  /\ local[a][j] \notin {"absent", "queued_local"}
  /\ ~(work[a].pc = "activate" /\ work[a].job = j)
\* The node has done for good what command content k asks for.
Carried(a, k) ==
  IF k.kind = "cancel_job" THEN StaysCancelled(a, k.job) ELSE Resolved(a, k.job, k.gen)
CarriedOut(a, n) == Carried(a, Key(commands[a][n]))

CommandIsMeant(a, n) ==
  LET c == commands[a][n] IN
  IF c.kind = "cancel_job"
  THEN acceptance[c.job] # Nil /\ jobs[c.job].state # "agent_accepted"
  ELSE c.gen \in Generations(c.job) /\ attempts[c.job][c.gen].agent = a

\* What the node's ledger and cursor cover, and what the server holds for
\* acknowledged, is carried out; so is what a batch under way leaves out.
CommandsAreCarried(a) ==
  /\ \A n \in DOMAIN commands[a] : CommandIsMeant(a, n)
  /\ \A k \in ledger[a] : Carried(a, k)
  /\ cursor[a] <= Len(commands[a])
  /\ \A n \in DOMAIN commands[a] : n <= cursor[a] \/ commands[a][n].acknowledged => CarriedOut(a, n)
BatchIsComplete(a) ==
  LET w == work[a] IN
  /\ w.pc \in RequestPc => w.req.cursor = cursor[a]
  /\ w.pc = "retire" => /\ w.due # {}
                        /\ \A n \in w.due : n \in w.batch /\ commands[a][n].kind = "cancel_job"
  /\ w.pc \in BatchPc \cup {"apply"} =>
       /\ w.upto <= Len(commands[a]) /\ w.batch \subseteq DOMAIN commands[a]
       /\ \A n \in DOMAIN commands[a] :
            n <= w.upto => n \in w.batch \/ CarriedOut(a, n) \/ (w.pc = "apply" /\ w.failed)
FinalIsResolved ==
  \A j \in Job : \A g \in Generations(j) :
    attempts[j][g].resolution = "final" => Resolved(attempts[j][g].agent, j, g)

WorkInv(a) == ResumesPending(a) /\ RequestIsCovered(a) /\ OfferIsOpen(a) /\ BatchIsComplete(a)
NodeInv(a) ==
  /\ \A n \in 1..acked[a] : n \in receipts[a]
  /\ \A j \in Job : RowIsAccepted(a, j)
  /\ HandoffsAreAccepted(a) /\ EventsAreAccepted(a)
AgentInv(a) == WorkInv(a) /\ NodeInv(a) /\ CommandsAreCarried(a)
AttemptInv ==
  /\ \A j \in Job : AcceptedIsOpen(j) /\ \A g \in Generations(j) : AttemptIsWitnessed(j, g)
  /\ OneOccupies /\ FinalIsResolved
CloudInv == AttemptInv /\ \A a \in Agent : AgentInv(a)

-----------------------------------------------------------------------------
(* The least and the greatest of a set of numbers.                         *)

\* A nonempty set of numbers has a least member.
LEMMA LeastExists ==
  ASSUME NEW S, S \subseteq Nat, S # {}
  PROVE  \E x \in S : \A y \in S : x <= y
<1> DEFINE R == {ss \in Nat \X Nat : ss[1] < ss[2]}
<1>1. IsWellFoundedOn(R, Nat)
  BY NatLessThanWellFounded DEF OpToRel
<1>2. \A x, y \in Nat : <<y, x>> \in R <=> y < x
  OBVIOUS
<1> HIDE DEF R
<1>3. PICK x \in S : \A y \in S : ~ (<<y, x>> \in R)
  BY <1>1, WFMin
<1>4. ASSUME NEW y \in S
      PROVE  x <= y
  <2>1. x \in Nat /\ y \in Nat
    OBVIOUS
  <2>2. ~(y < x)
    BY <1>2, <1>3, <2>1
  <2> QED
    BY <2>1, <2>2
<1> QED
  BY <1>4

\* The minimum of a nonempty set of numbers is a member of it.
LEMMA LeastIn ==
  ASSUME NEW S, S \subseteq Nat, S # {}
  PROVE  Min(S) \in S
BY LeastExists DEF Min

\* The maximum of a nonempty set of numbers up to n is a member of it.
LEMMA GreatestIn ==
  ASSUME NEW n \in Nat, NEW S, S \subseteq 0..n, S # {}
  PROVE  Max(S) \in S
<1> DEFINE T == {n - x : x \in S}
<1>1. T \subseteq Nat
  OBVIOUS
<1>2. PICK z : z \in S
  OBVIOUS
<1>3. n - z \in T
  BY <1>2
<1>4. PICK y \in T : \A v \in T : y <= v
  BY <1>1, <1>3, LeastExists
<1>5. PICK x \in S : y = n - x
  OBVIOUS
<1>6. ASSUME NEW v \in S
      PROVE  x >= v
  <2>1. n - v \in T
    OBVIOUS
  <2>2. y <= n - v
    BY <1>4, <2>1
  <2> QED
    BY <1>5, <2>2
<1> QED
  BY <1>6 DEF Max

-----------------------------------------------------------------------------
(* Where the worker can be, and what it then has in hand.                  *)

\* The types of the fields of a worker's cycle.
LEMMA WorkFields ==
  ASSUME NEW w \in Work
  PROVE  /\ w.pc \in {"idle", "snapshot", "gather", "apply", "prepare"} \cup ResumePc \cup RequestPc
         /\ w.pc \in ResumePc => w.todo \in SUBSET Job /\ w.next \in {"snapshot", "idle"}
         /\ w.pc \in StagePc => w.job \in Job
         /\ w.pc \in StagePc => w.fresh \in BOOLEAN
         /\ w.pc = "gather" => w.events \in Nat
         /\ w.pc \in RequestPc => w.req \in Request
         /\ w.pc \in {"handoffs", "events", "project"} => w.at \in Nat
         /\ w.pc \in BatchPc \cup {"apply"} => w.upto \in Nat /\ w.batch \in SUBSET Nat
         /\ w.pc = "retire" => w.due \in SUBSET Nat
         /\ w.pc = "select" => w.leases \in SUBSET Job
         /\ w.pc = "reserve" => w.job \in Job /\ w.lease \in Nat
         /\ w.pc \in OfferPc => w.offer \in Offer \cup {Nil}
         /\ w.pc = "prepare" => w.offer \in Offer
         /\ w.pc = "apply" => w.failed \in BOOLEAN
BY DEF Work, ResumePc, StagePc, RequestPc, HandledPc, BatchPc, OfferPc

\* The values of a cycle before its request are of the type of a cycle.
LEMMA CycleMade ==
  /\ Idle \in Work /\ [pc |-> "snapshot"] \in Work
  /\ \A n \in Nat : [pc |-> "gather", events |-> n] \in Work
  /\ \A todo \in SUBSET Job, next \in {"snapshot", "idle"} :
       [pc |-> "resume", todo |-> todo, next |-> next] \in Work
  /\ \A pc \in StagePc, todo \in SUBSET Job, next \in {"snapshot", "idle"}, j \in Job,
        fresh \in BOOLEAN :
       [pc |-> pc, todo |-> todo, next |-> next, job |-> j, fresh |-> fresh] \in Work
BY DEF Work, Idle, StagePc

\* The values of a cycle in the request handler are of the type of a cycle.
LEMMA HandlerMade ==
  ASSUME NEW req \in Request
  PROVE  /\ [pc |-> "commands", req |-> req] \in Work
         /\ \A pc \in {"handoffs", "events", "project"}, n \in Nat :
              [pc |-> pc, req |-> req, at |-> n] \in Work
         /\ \A upto \in Nat, batch \in SUBSET Nat :
              /\ \A due \in SUBSET Nat : [pc |-> "retire", req |-> req, upto |-> upto,
                                          batch |-> batch, due |-> due] \in Work
              /\ \A pc \in {"finalize", "recover", "claim"} :
                   [req |-> req, upto |-> upto, batch |-> batch, pc |-> pc] \in Work
              /\ \A leases \in SUBSET Job : [pc |-> "select", req |-> req, upto |-> upto,
                                             batch |-> batch, leases |-> leases] \in Work
              /\ \A j \in Job, lease \in Nat :
                   [pc |-> "reserve", req |-> req, upto |-> upto, batch |-> batch, job |-> j,
                    lease |-> lease] \in Work
              /\ \A offer \in Offer \cup {Nil} :
                   [pc |-> "respond", req |-> req, upto |-> upto, batch |-> batch,
                    offer |-> offer] \in Work
BY DEF Work

\* A cycle that goes on to reserve is of the type of a cycle.
LEMMA ReserveMade ==
  ASSUME NEW req \in Request, NEW upto \in Nat, NEW batch \in SUBSET Nat, NEW j \in Job,
         NEW lease \in Nat
  PROVE  [pc |-> "reserve", req |-> req, upto |-> upto, batch |-> batch, job |-> j,
          lease |-> lease] \in Work
BY DEF Work

\* A cycle that goes on to select an offer is of the type of a cycle.
LEMMA SelectMade ==
  ASSUME NEW req \in Request, NEW upto \in Nat, NEW batch \in SUBSET Nat, NEW leases \in SUBSET Job
  PROVE  [pc |-> "select", req |-> req, upto |-> upto, batch |-> batch, leases |-> leases] \in Work
BY DEF Work

\* A cycle that applies the response is of the type of a cycle.
LEMMA CommandsMade ==
  /\ \A upto \in Nat, batch \in SUBSET Nat, failed \in BOOLEAN, offer \in Offer \cup {Nil} :
       [pc |-> "apply", upto |-> upto, batch |-> batch, failed |-> failed, offer |-> offer] \in Work
  /\ \A offer \in Offer : [pc |-> "prepare", offer |-> offer] \in Work
BY DEF Work

-----------------------------------------------------------------------------
(* The rows of the tables.                                                 *)

\* The domain, the members and the length of a sequence.
LEMMA SeqFacts ==
  ASSUME NEW S, NEW s \in Seq(S)
  PROVE  Len(s) \in Nat /\ DOMAIN s = 1..Len(s) /\ \A n \in DOMAIN s : s[n] \in S
BY LenProperties, ElementOfSeq

\* Append keeps what was there and adds one at the end.
LEMMA AppendFacts ==
  ASSUME NEW S, NEW s \in Seq(S), NEW e \in S
  PROVE  /\ Append(s, e) \in Seq(S) /\ Len(Append(s, e)) = Len(s) + 1
         /\ DOMAIN Append(s, e) = DOMAIN s \cup {Len(s) + 1}
         /\ \A n \in DOMAIN s : Append(s, e)[n] = s[n] /\ n # Len(s) + 1
         /\ Append(s, e)[Len(s) + 1] = e
BY AppendProperties, SeqFacts

\* The types of the fields of a handoff's evidence.
LEMMA EvidenceFields ==
  ASSUME TypeOK, NEW a \in Agent
  PROVE  /\ evidence[a] \in Seq(Handoff) /\ Len(evidence[a]) \in Nat
         /\ DOMAIN evidence[a] = 1..Len(evidence[a])
         /\ \A n \in DOMAIN evidence[a] :
              /\ evidence[a][n] \in Handoff /\ evidence[a][n].job \in Job
              /\ evidence[a][n].gen \in Nat
              /\ evidence[a][n].outcome \in {"accepted", "rejected", "retryable", "ambiguous"}
<1>1. evidence[a] \in Seq(Handoff)
  BY DEF TypeOK
<1>2. \A n \in DOMAIN evidence[a] : evidence[a][n] \in Handoff
  BY <1>1, SeqFacts
<1> QED
  BY <1>1, <1>2, SeqFacts DEF Handoff

\* The types of the fields of a reported event.
LEMMA EventFields ==
  ASSUME TypeOK, NEW a \in Agent
  PROVE  /\ events[a] \in Seq(Event) /\ Len(events[a]) \in Nat
         /\ DOMAIN events[a] = 1..Len(events[a])
         /\ \A n \in DOMAIN events[a] :
              /\ events[a][n] \in Event /\ events[a][n].job \in Job
              /\ events[a][n].state \in JobState
<1>1. events[a] \in Seq(Event)
  BY DEF TypeOK
<1>2. \A n \in DOMAIN events[a] : events[a][n] \in Event
  BY <1>1, SeqFacts
<1> QED
  BY <1>1, <1>2, SeqFacts DEF Event

\* The types of the fields of a delivery attempt.
LEMMA AttemptFields ==
  ASSUME TypeOK, NEW j \in Job
  PROVE  /\ attempts[j] \in Seq(Attempt) /\ Len(attempts[j]) \in Nat
         /\ Generations(j) = 1..Len(attempts[j]) /\ Generations(j) \subseteq Nat \ {0}
         /\ \A g \in Generations(j) :
              /\ attempts[j][g] \in Attempt /\ attempts[j][g].state \in AttemptState
              /\ attempts[j][g].agent \in Agent
<1>1. attempts[j] \in Seq(Attempt)
  BY DEF TypeOK, ServerTypeOK
<1>2. \A g \in Generations(j) : attempts[j][g] \in Attempt
  BY <1>1, SeqFacts DEF Generations
<1>3. Len(attempts[j]) \in Nat /\ Generations(j) = 1..Len(attempts[j])
  BY <1>1, SeqFacts DEF Generations
<1> QED
  BY <1>1, <1>2, <1>3 DEF Attempt

\* The types of the fields of a command.
LEMMA CommandFields ==
  ASSUME TypeOK, NEW a \in Agent
  PROVE  /\ commands[a] \in Seq(Command) /\ Len(commands[a]) \in Nat
         /\ DOMAIN commands[a] = 1..Len(commands[a])
         /\ \A n \in DOMAIN commands[a] :
              /\ commands[a][n] \in Command /\ commands[a][n].kind \in {"cancel_job", "resolve"}
              /\ commands[a][n].job \in Job /\ commands[a][n].gen \in Nat
<1>1. commands[a] \in Seq(Command)
  BY DEF TypeOK, ServerTypeOK
<1>2. \A n \in DOMAIN commands[a] : commands[a][n] \in Command
  BY <1>1, SeqFacts
<1> QED
  BY <1>1, <1>2, SeqFacts DEF Command

-----------------------------------------------------------------------------
(* What a step of others leaves to an agent.                               *)

SameNode(a) ==
  /\ local'[a] = local[a] /\ intent'[a] = intent[a] /\ proof'[a] = proof[a]
  /\ events'[a] = events[a] /\ acked'[a] = acked[a] /\ evidence'[a] = evidence[a]
  /\ cursor'[a] = cursor[a] /\ ledger'[a] = ledger[a] /\ engine'[a] = engine[a]
  /\ printed'[a] = printed[a]

\* Attempts stay whose they are, an accepted job does not become accepted
\* again, and receipts are kept.
Progress ==
  /\ \A j \in Job : \A g \in Generations(j) :
       g \in DOMAIN attempts'[j] /\ attempts'[j][g].agent = attempts[j][g].agent
  /\ \A j \in Job : acceptance[j] # Nil /\ jobs[j].state # "agent_accepted" =>
       jobs'[j].state # "agent_accepted"
  /\ \A a \in Agent : receipts[a] \subseteq receipts'[a]

\* No acceptance is made but of an attempt of another agent.
Untaken(a) ==
  \A j \in Job : \/ acceptance'[j] = acceptance[j]
                 \/ acceptance[j] = Nil /\ attempts[j][acceptance'[j].gen].agent # a
AcceptancesStay == \A j \in Job : acceptance[j] # Nil => acceptance'[j] = acceptance[j]

\* While no attempt is taken up the acceptances stay as they are.
LEMMA UntakenStays ==
  ASSUME NEW a \in Agent, Untaken(a)
  PROVE  AcceptancesStay
BY DEF Untaken, AcceptancesStay

\* The acceptance of a job is a proof.
LEMMA AcceptanceFields ==
  ASSUME TypeOK, NEW j \in Job, acceptance[j] # Nil
  PROVE  acceptance[j] \in Proof /\ acceptance[j].agent \in Agent /\ acceptance[j].gen \in Nat
         /\ acceptance[j].lease \in Nat
BY DEF TypeOK, ServerTypeOK, Proof

\* The types of the fields of a prepared acceptance.
LEMMA IntentFields ==
  ASSUME TypeOK, NEW a \in Agent, NEW j \in Job, intent[a][j] # Nil
  PROVE  /\ intent[a][j] \in Intent /\ intent[a][j].lease \in Nat /\ intent[a][j].gen \in Nat
         /\ [agent |-> a, lease |-> intent[a][j].lease, gen |-> intent[a][j].gen] \in Proof
         /\ [agent |-> a, lease |-> intent[a][j].lease, gen |-> intent[a][j].gen] # Nil
<1>1. intent[a][j] \in Intent
  BY DEF TypeOK
<1>2. intent[a][j].lease \in Nat /\ intent[a][j].gen \in Nat
  BY <1>1 DEF Intent
<1>3. [agent |-> a, lease |-> intent[a][j].lease, gen |-> intent[a][j].gen] \in Proof
  BY <1>2 DEF Proof
<1> QED
  BY <1>1, <1>2, <1>3, RowAssumption

\* A node's row stays accepted when acceptances are only added.
LEMMA RowFrame ==
  ASSUME TypeOK, NEW a \in Agent, NEW j \in Job, RowIsAccepted(a, j), AcceptancesStay,
         local'[a][j] = local[a][j], intent'[a][j] = intent[a][j], proof'[a][j] = proof[a][j],
         engine'[a] = engine[a]
  PROVE  RowIsAccepted(a, j)'
<1>1. Mine(a, j) => Mine(a, j)' /\ acceptance'[j] = acceptance[j]
  BY DEF Mine, AcceptancesStay
<1>2. Proved(a, j) => Proved(a, j)'
  BY <1>1 DEF Proved
<1>3. intent[a][j] # Nil /\ intent[a][j].confirmed =>
        acceptance'[j] = [agent |-> a, lease |-> intent[a][j].lease, gen |-> intent[a][j].gen]
  BY IntentFields DEF RowIsAccepted, AcceptancesStay
<1> QED
  BY <1>1, <1>2, <1>3 DEF RowIsAccepted

\* Evidence stays that of accepted jobs when acceptances are only added.
LEMMA HandoffFrame ==
  ASSUME NEW a \in Agent, HandoffsAreAccepted(a), AcceptancesStay, TypeOK,
         evidence'[a] = evidence[a], printed'[a] = printed[a]
  PROVE  HandoffsAreAccepted(a)'
<1>1. \A n \in DOMAIN evidence[a] : evidence[a][n].job \in Job
  BY EvidenceFields
<1>2. \A n \in DOMAIN evidence[a] :
        Mine(a, evidence[a][n].job)' /\ acceptance'[evidence[a][n].job].gen = evidence[a][n].gen
  BY <1>1 DEF HandoffsAreAccepted, Mine, AcceptancesStay
<1> QED
  BY <1>2 DEF HandoffsAreAccepted, Mine

\* Events stay those of accepted jobs when acceptances are only added.
LEMMA EventFrame ==
  ASSUME NEW a \in Agent, EventsAreAccepted(a), AcceptancesStay, TypeOK,
         events'[a] = events[a], \A j \in Job : printed[a][j] = 1 => printed'[a][j] = 1
  PROVE  EventsAreAccepted(a)'
<1>1. \A n \in DOMAIN events[a] : events[a][n].job \in Job
  BY EventFields
<1>2. \A n \in DOMAIN events[a] : Mine(a, events[a][n].job)'
  BY <1>1 DEF EventsAreAccepted, Mine, AcceptancesStay
<1> QED
  BY <1>1, <1>2 DEF EventsAreAccepted, Mine

\* What an agent has carried out stays carried out.
KeepsWord(a) ==
  /\ \A j \in Job : StaysCancelled(a, j) => StaysCancelled(a, j)'
  /\ \A j \in Job, g \in Nat : Resolved(a, j, g) => Resolved(a, j, g)'

\* A cancellation carried out stays so while its row does not come back.
LEMMA CancelFrame ==
  ASSUME NEW a \in Agent, NEW j \in Job, StaysCancelled(a, j), AcceptancesStay, Progress,
         local'[a][j] \notin {"absent", "queued_local"},
         ~(work'[a].pc = "activate" /\ work'[a].job = j)
  PROVE  StaysCancelled(a, j)'
BY DEF StaysCancelled, AcceptancesStay, Progress

\* What a node has witnessed it still has when its evidence grows.
LEMMA WitnessFrame ==
  ASSUME NEW a \in Agent, NEW j, NEW g, Witnessed(a, j, g),
         \A n \in DOMAIN evidence[a] :
           n \in DOMAIN evidence'[a] /\ evidence'[a][n] = evidence[a][n]
  PROVE  Witnessed(a, j, g)'
BY DEF Witnessed, Witness

\* A node whose rows, proofs and evidence are as before keeps its word.
LEMMA WordFrame ==
  ASSUME NEW a \in Agent, AcceptancesStay, Progress,
         local'[a] = local[a], proof'[a] = proof[a], evidence'[a] = evidence[a],
         work'[a] = work[a] \/ work'[a].pc # "activate"
  PROVE  KeepsWord(a)
<1>1. ASSUME NEW j \in Job, StaysCancelled(a, j)
      PROVE  StaysCancelled(a, j)'
  <2>1. local'[a][j] \notin {"absent", "queued_local"}
    BY <1>1 DEF StaysCancelled
  <2>2. ~(work'[a].pc = "activate" /\ work'[a].job = j)
    BY <1>1 DEF StaysCancelled
  <2> QED
    BY <1>1, <2>1, <2>2, CancelFrame
<1>2. ASSUME NEW j \in Job, NEW g \in Nat, Resolved(a, j, g)
      PROVE  Resolved(a, j, g)'
  BY <1>2 DEF Resolved, Witnessed, Witness
<1> QED
  BY <1>1, <1>2 DEF KeepsWord

\* A node that keeps its word still has carried out what it had.
LEMMA CarriedFrame ==
  ASSUME NEW a \in Agent, KeepsWord(a), NEW k, k.job \in Job, k.gen \in Nat, Carried(a, k)
  PROVE  Carried(a, k)'
BY DEF KeepsWord, Carried

\* The content of a command is what its fields say.
LEMMA KeyFields ==
  ASSUME NEW c
  PROVE  Key(c).kind = c.kind /\ Key(c).job = c.job /\ Key(c).gen = c.gen
BY DEF Key

\* A command carried out stays so while its content is the same.
LEMMA CarriedOutFrame ==
  ASSUME TypeOK, NEW a \in Agent, KeepsWord(a), NEW n \in DOMAIN commands[a], CarriedOut(a, n),
         Key(commands'[a][n]) = Key(commands[a][n])
  PROVE  CarriedOut(a, n)'
<1> DEFINE k == Key(commands[a][n])
<1>1. k.job \in Job /\ k.gen \in Nat
  BY CommandFields, KeyFields
<1>2. PICK key : key = k
  OBVIOUS
<1> HIDE DEF k
<1>3. Carried(a, key)
  BY <1>2 DEF CarriedOut, k
<1>4. Carried(a, key)'
  BY <1>1, <1>2, <1>3, CarriedFrame
<1> QED
  BY <1>2, <1>4 DEF CarriedOut, k

\* The commands of an agent are meant as long as no row is lost.
LEMMA MeantFrame ==
  ASSUME TypeOK, NEW a \in Agent, NEW n \in DOMAIN commands[a], CommandIsMeant(a, n),
         AcceptancesStay, Progress, Key(commands'[a][n]) = Key(commands[a][n])
  PROVE  CommandIsMeant(a, n)'
<1>1. /\ commands'[a][n].kind = commands[a][n].kind /\ commands'[a][n].job = commands[a][n].job
      /\ commands'[a][n].gen = commands[a][n].gen
  BY KeyFields
<1>2. commands[a][n].job \in Job
  BY CommandFields
<1> QED
  BY <1>1, <1>2 DEF CommandIsMeant, AcceptancesStay, Progress, Generations

\* The command invariant is kept by a node that keeps its word and its commands.
LEMMA CommandsFrame ==
  ASSUME TypeOK, NEW a \in Agent, CommandsAreCarried(a), KeepsWord(a), AcceptancesStay, Progress,
         commands'[a] = commands[a], ledger'[a] = ledger[a], cursor'[a] = cursor[a]
  PROVE  CommandsAreCarried(a)'
<1>1. \A n \in DOMAIN commands[a] : CommandIsMeant(a, n)'
  BY MeantFrame DEF CommandsAreCarried
<1>2. ASSUME NEW k \in ledger[a]
      PROVE  Carried(a, k)'
  <2>1. k.job \in Job /\ k.gen \in Nat
    BY DEF TypeOK
  <2>2. Carried(a, k)
    BY DEF CommandsAreCarried
  <2> QED
    BY <2>1, <2>2, CarriedFrame
<1>3. ASSUME NEW n \in DOMAIN commands[a], n <= cursor[a] \/ commands[a][n].acknowledged
      PROVE  CarriedOut(a, n)'
  BY <1>3, CarriedOutFrame DEF CommandsAreCarried
<1> QED
  BY <1>1, <1>2, <1>3 DEF CommandsAreCarried

\* A batch under way stays complete while its node keeps its word.
LEMMA BatchFrame ==
  ASSUME TypeOK, NEW a \in Agent, BatchIsComplete(a), KeepsWord(a),
         commands'[a] = commands[a], work'[a] = work[a], cursor'[a] = cursor[a]
  PROVE  BatchIsComplete(a)'
<1>1. \A n \in DOMAIN commands[a] : CarriedOut(a, n) => CarriedOut(a, n)'
  BY CarriedOutFrame
<1> QED
  BY <1>1 DEF BatchIsComplete

\* What is to be resumed stays prepared while the node is still.
LEMMA ResumeFrame ==
  ASSUME NEW a \in Agent, ResumesPending(a), work'[a] = work[a],
         \A j \in Job : intent[a][j] # Nil => intent'[a][j] # Nil
  PROVE  ResumesPending(a)'
BY DEF ResumesPending, PendingAccepts

\* A request stays covered while outbox and journal only grow.
LEMMA RequestFrame ==
  ASSUME TypeOK, NEW a \in Agent, RequestIsCovered(a), Progress, work'[a] = work[a],
         Len(events'[a]) \in Nat, Len(events[a]) <= Len(events'[a]),
         Len(evidence'[a]) \in Nat, Len(evidence[a]) <= Len(evidence'[a])
  PROVE  RequestIsCovered(a)'
<1>1. work[a] \in Work
  BY DEF TypeOK
<1>2. /\ work[a].pc = "gather" => work[a].events \in Nat
      /\ work[a].pc \in {"handoffs", "events", "project"} =>
           work[a].req.events \in Nat /\ work[a].req.evidence \in Nat
  BY <1>1, WorkFields DEF Request, RequestPc
<1>3. receipts[a] \subseteq receipts'[a]
  BY DEF Progress
<1>4. Len(events[a]) \in Nat /\ Len(evidence[a]) \in Nat
  BY EventFields, EvidenceFields
<1> QED
  BY <1>2, <1>3, <1>4, SMTT(30) DEF RequestIsCovered

\* An offer in hand stays open while its attempt is not taken up.
LEMMA OfferFrame ==
  ASSUME TypeOK, NEW a \in Agent, OfferIsOpen(a), Progress, Untaken(a), work'[a] = work[a]
  PROVE  OfferIsOpen(a)'
<1> SUFFICES ASSUME work[a].pc \in OfferPc, work[a].offer # Nil
             PROVE  OfferIsOpen(a)'
  BY DEF OfferIsOpen
<1>1. PICK o : o = work[a].offer
  OBVIOUS
<1>2. o \in Offer /\ o.job \in Job
  BY <1>1, WorkFields DEF TypeOK, Offer
<1>3. /\ o.gen \in Generations(o.job) /\ attempts[o.job][o.gen].agent = a
      /\ acceptance[o.job] # Nil => acceptance[o.job].gen # o.gen
  BY <1>1 DEF OfferIsOpen
<1>4. o.gen \in Generations(o.job)' /\ attempts'[o.job][o.gen].agent = a
  BY <1>2, <1>3 DEF Progress, Generations
<1>5. acceptance'[o.job] # Nil => acceptance'[o.job].gen # o.gen
  BY <1>2, <1>3 DEF Untaken
<1> QED
  BY <1>1, <1>4, <1>5 DEF OfferIsOpen

\* What a node's tables say holds as long as they stay and acceptances are kept.
LEMMA NodeFrame ==
  ASSUME TypeOK, NEW a \in Agent, NodeInv(a), SameNode(a), Progress, AcceptancesStay
  PROVE  NodeInv(a)'
<1>1. \A n \in 1..acked'[a] : n \in receipts'[a]
  BY DEF NodeInv, SameNode, Progress
<1>2. ASSUME NEW j \in Job
      PROVE  RowIsAccepted(a, j)'
  BY RowFrame DEF NodeInv, SameNode
<1>3. HandoffsAreAccepted(a)'
  BY HandoffFrame DEF NodeInv, SameNode
<1>4. EventsAreAccepted(a)'
  BY EventFrame DEF NodeInv, SameNode
<1> QED
  BY <1>1, <1>2, <1>3, <1>4 DEF NodeInv

\* The tables of a node only grow under the worker's feet.
Grows(a) ==
  /\ \A j \in Job : intent[a][j] # Nil => intent'[a][j] # Nil
  /\ Len(events'[a]) \in Nat /\ Len(events[a]) <= Len(events'[a])
  /\ Len(evidence'[a]) \in Nat /\ Len(evidence[a]) <= Len(evidence'[a])

\* A sequence that stays as it is has grown, by nothing.
LEMMA SameGrows ==
  ASSUME TypeOK, NEW a \in Agent, SameNode(a)
  PROVE  Grows(a)
BY EventFields, EvidenceFields DEF SameNode, Grows

\* What is said of a worker holds as long as it does nothing.
LEMMA WorkFrame ==
  ASSUME TypeOK, NEW a \in Agent, WorkInv(a), KeepsWord(a), Progress, Untaken(a), Grows(a),
         work'[a] = work[a], commands'[a] = commands[a], cursor'[a] = cursor[a]
  PROVE  WorkInv(a)'
<1>1. ResumesPending(a)'
  BY ResumeFrame DEF WorkInv, Grows
<1>2. RequestIsCovered(a)'
  BY RequestFrame DEF WorkInv, Grows
<1>3. OfferIsOpen(a)'
  BY OfferFrame DEF WorkInv
<1>4. BatchIsComplete(a)'
  BY BatchFrame DEF WorkInv
<1> QED
  BY <1>1, <1>2, <1>3, <1>4 DEF WorkInv

\* A step of others keeps what is said of an agent.
LEMMA AgentFrame ==
  ASSUME TypeOK, NEW a \in Agent, AgentInv(a), SameNode(a), Progress, Untaken(a),
         work'[a] = work[a], commands'[a] = commands[a]
  PROVE  AgentInv(a)'
<1>1. AcceptancesStay
  BY UntakenStays
<1>2. KeepsWord(a)
  BY <1>1, WordFrame DEF SameNode
<1>3. WorkInv(a)'
  BY <1>2, SameGrows, WorkFrame DEF AgentInv, SameNode
<1>4. NodeInv(a)'
  BY <1>1, NodeFrame DEF AgentInv
<1>5. CommandsAreCarried(a)'
  BY <1>1, <1>2, CommandsFrame DEF AgentInv, SameNode
<1> QED
  BY <1>3, <1>4, <1>5 DEF AgentInv

-----------------------------------------------------------------------------
(* What a step may make of an attempt.                                     *)

Withdrawal == {"route_leased", "superseded", "cancelled"}
AttemptMoves(j, g) ==
  /\ g \in DOMAIN attempts'[j] /\ attempts'[j][g].agent = attempts[j][g].agent
  /\ AttemptIsWitnessed(j, g)'
  /\ Occupies(j, g)' => Occupies(j, g)
  /\ acceptance[j] # Nil /\ acceptance[j].gen = g /\ attempts[j][g].state \notin Withdrawal =>
       attempts'[j][g].state \notin Withdrawal
  /\ attempts'[j][g].resolution = "final" => Resolved(attempts[j][g].agent, j, g)'
AttemptsMove ==
  \A j \in Job : DOMAIN attempts'[j] = Generations(j) /\ \A g \in Generations(j) : AttemptMoves(j, g)

\* What is said of attempts holds as long as each moves as it may, and is open
\* when it is accepted.
LEMMA AttemptsTaken ==
  ASSUME TypeOK, AttemptInv, AttemptsMove,
         \A j \in Job : acceptance'[j] = acceptance[j] \/ AcceptedIsOpen(j)'
  PROVE  AttemptInv'
<1>1. \A j \in Job : Generations(j)' = Generations(j)
  BY DEF AttemptsMove, Generations
<1>2. ASSUME NEW j \in Job
      PROVE  AcceptedIsOpen(j)' /\ \A g \in Generations(j) : AttemptIsWitnessed(j, g)'
  <2>1. AcceptedIsOpen(j)
    BY DEF AttemptInv
  <2>2. acceptance[j] # Nil =>
          /\ acceptance[j].gen \in Generations(j)'
          /\ attempts'[j][acceptance[j].gen].agent = acceptance[j].agent
          /\ attempts'[j][acceptance[j].gen].state \notin Withdrawal
    BY <1>1, <2>1 DEF AcceptedIsOpen, AttemptsMove, AttemptMoves, Withdrawal
  <2> QED
    BY <2>2 DEF AcceptedIsOpen, AttemptsMove, AttemptMoves, Withdrawal
<1>3. OneOccupies'
  <2> SUFFICES ASSUME NEW j \in Job, NEW k \in Job, NEW g \in Generations(j),
                      NEW h \in Generations(k), Occupies(j, g)', Occupies(k, h)'
               PROVE  j = k /\ g = h
    BY <1>1 DEF OneOccupies
  <2>1. Occupies(j, g) /\ Occupies(k, h)
    BY DEF AttemptsMove, AttemptMoves
  <2> QED
    BY <2>1 DEF AttemptInv, OneOccupies
<1>4. FinalIsResolved'
  <2> SUFFICES ASSUME NEW j \in Job, NEW g \in Generations(j), attempts'[j][g].resolution = "final"
               PROVE  Resolved(attempts[j][g].agent, j, g)'
    BY <1>1 DEF FinalIsResolved, AttemptsMove, AttemptMoves, Resolved, Witnessed, Witness
  <2> QED
    BY DEF AttemptsMove, AttemptMoves
<1> QED
  BY <1>1, <1>2, <1>3, <1>4 DEF AttemptInv

\* The attempt invariant is kept when every attempt moves as allowed.
LEMMA AttemptsFrame ==
  ASSUME TypeOK, AttemptInv, AttemptsMove, \A j \in Job : acceptance'[j] = acceptance[j]
  PROVE  AttemptInv'
BY AttemptsTaken

\* What nodes know grows.
EvidenceGrows ==
  \A a \in Agent : \A n \in DOMAIN evidence[a] :
    n \in DOMAIN evidence'[a] /\ evidence'[a][n] = evidence[a][n]

SameAttempt(j, g) ==
  /\ g \in DOMAIN attempts'[j]
  /\ attempts'[j][g].agent = attempts[j][g].agent /\ attempts'[j][g].state = attempts[j][g].state
  /\ attempts'[j][g].reserved = attempts[j][g].reserved
  /\ attempts'[j][g].resolution = attempts[j][g].resolution

\* The witnesses of an attempt stay witnesses.
LEMMA WitnessStays ==
  ASSUME NEW a \in Agent, NEW j, NEW g, NEW n \in DOMAIN evidence[a], EvidenceGrows,
         Witness(a, j, g, n)
  PROVE  /\ n \in DOMAIN evidence'[a] /\ Witness(a, j, g, n)'
         /\ evidence'[a][n].outcome = evidence[a][n].outcome
BY DEF EvidenceGrows, Witness

\* An attempt left alone moves as allowed.
LEMMA AttemptStays ==
  ASSUME TypeOK, AttemptInv, EvidenceGrows, \A a \in Agent : KeepsWord(a),
         NEW j \in Job, NEW g \in Generations(j), SameAttempt(j, g)
  PROVE  AttemptMoves(j, g)
<1>1. PICK t : t = attempts[j][g]
  OBVIOUS
<1>2. t.agent \in Agent /\ g \in Nat
  BY <1>1, AttemptFields
<1>3. AttemptIsWitnessed(j, g)
  BY DEF AttemptInv
<1>4. Witnessed(t.agent, j, g) => Witnessed(t.agent, j, g)'
  BY <1>2, WitnessFrame DEF EvidenceGrows
<1>5. AttemptIsWitnessed(j, g)'
  <2>1. t.reserved <=> t.state \in {"route_leased", "queued_local", "handing_to_spooler"}
    BY <1>1, <1>3 DEF AttemptIsWitnessed
  <2>2. t.state = "handing_to_spooler" => Witnessed(t.agent, j, g)'
    BY <1>1, <1>3, <1>4 DEF AttemptIsWitnessed
  <2>3. t.state \in {"accepted_by_spooler", "printing_reported", "completed_reported"} =>
          \E n \in DOMAIN evidence'[t.agent] :
            Witness(t.agent, j, g, n)' /\ evidence'[t.agent][n].outcome = "accepted"
    BY <1>1, <1>2, <1>3, WitnessStays DEF AttemptIsWitnessed
  <2>4. t.state = "failed" =>
          \E n \in DOMAIN evidence'[t.agent] :
            Witness(t.agent, j, g, n)' /\ evidence'[t.agent][n].outcome # "ambiguous"
    BY <1>1, <1>2, <1>3, WitnessStays DEF AttemptIsWitnessed
  <2>5. /\ attempts'[j][g].state = t.state /\ attempts'[j][g].agent = t.agent
        /\ attempts'[j][g].reserved = t.reserved
    BY <1>1 DEF SameAttempt
  <2> QED
    BY <2>1, <2>2, <2>3, <2>4, <2>5 DEF AttemptIsWitnessed, Witness, Witnessed
<1>6. Occupies(j, g)' => Occupies(j, g)
  BY <1>1, <1>4, Zenon DEF Occupies, SameAttempt, Witnessed, Witness
<1>7. attempts'[j][g].resolution = "final" => Resolved(t.agent, j, g)'
  BY <1>1, <1>2 DEF AttemptInv, FinalIsResolved, SameAttempt, KeepsWord
<1> QED
  BY <1>1, <1>5, <1>6, <1>7 DEF AttemptMoves, SameAttempt

\* The attempt invariant is kept when the attempts are untouched.
LEMMA AttemptsUntouched ==
  ASSUME TypeOK, AttemptInv, EvidenceGrows, \A a \in Agent : KeepsWord(a),
         attempts' = attempts, acceptance' = acceptance
  PROVE  AttemptInv'
<1>1. \A j \in Job : \A g \in Generations(j) : SameAttempt(j, g)
  BY DEF SameAttempt, Generations
<1>2. AttemptsMove
  BY <1>1, AttemptStays DEF AttemptsMove, Generations
<1> QED
  BY <1>2, AttemptsFrame

\* The nodes are as they were.
NodesStill == evidence' = evidence /\ proof' = proof

\* What is witnessed and resolved is as before while the nodes are still.
LEMMA ResolvedStill ==
  ASSUME NodesStill, NEW a, NEW j, NEW g
  PROVE  /\ Witnessed(a, j, g)' <=> Witnessed(a, j, g)
         /\ Resolved(a, j, g)' <=> Resolved(a, j, g)
BY DEF NodesStill, Resolved, Witnessed, Witness

\* The attempt has another state, and is of its agent still.
MovesTo(j, g, to) ==
  /\ g \in DOMAIN attempts'[j]
  /\ attempts'[j][g].agent = attempts[j][g].agent /\ attempts'[j][g].state = to
  /\ attempts'[j][g].resolution = attempts[j][g].resolution

\* An attempt nobody accepted is given up.
LEMMA AttemptWithdrawn ==
  ASSUME TypeOK, AttemptInv, NodesStill, NEW j \in Job, NEW g \in Generations(j),
         NEW to \in {"superseded", "cancelled"}, MovesTo(j, g, to), ~attempts'[j][g].reserved,
         acceptance[j] = Nil \/ acceptance[j].gen # g \/ attempts[j][g].state \in Withdrawal
  PROVE  AttemptMoves(j, g)
<1>1. PICK t : t = attempts[j][g]
  OBVIOUS
<1>2. t.agent \in Agent
  BY <1>1, AttemptFields
<1>3. AttemptIsWitnessed(j, g)'
  BY DEF AttemptIsWitnessed, MovesTo
<1>4. ~Occupies(j, g)'
  BY DEF Occupies, MovesTo
<1>5. attempts'[j][g].resolution = "final" => Resolved(t.agent, j, g)'
  BY <1>1, <1>2, ResolvedStill DEF AttemptInv, FinalIsResolved, MovesTo
<1> QED
  BY <1>1, <1>3, <1>4, <1>5 DEF AttemptMoves, MovesTo

\* An attempt that was open is uncertain.
LEMMA AttemptOrphaned ==
  ASSUME TypeOK, AttemptInv, NodesStill, NEW j \in Job, NEW g \in Generations(j),
         attempts[j][g].state \notin FinalAttempt,
         MovesTo(j, g, "delivery_uncertain"), ~attempts'[j][g].reserved
  PROVE  AttemptMoves(j, g)
<1>1. PICK t : t = attempts[j][g]
  OBVIOUS
<1>2. t.agent \in Agent /\ t.state \in AttemptState
  BY <1>1, AttemptFields
<1>3. AttemptIsWitnessed(j, g)'
  BY DEF AttemptIsWitnessed, MovesTo
<1>4. t.reserved \/ Witnessed(t.agent, j, g)
  BY <1>1, <1>2 DEF AttemptInv, AttemptIsWitnessed, AttemptState, FinalAttempt, Witnessed
<1>5. Occupies(j, g)' => Occupies(j, g)
  BY <1>1, <1>4, ResolvedStill DEF Occupies, MovesTo
<1>6. attempts'[j][g].resolution = "final" => Resolved(t.agent, j, g)'
  BY <1>1, <1>2, ResolvedStill DEF AttemptInv, FinalIsResolved, MovesTo
<1> QED
  BY <1>1, <1>3, <1>5, <1>6 DEF AttemptMoves, MovesTo, Withdrawal

\* An attempt its node has evidence of goes where the evidence says.
LEMMA AttemptReported ==
  ASSUME TypeOK, AttemptInv, NodesStill, NEW j \in Job, NEW g \in Generations(j),
         NEW to \in {"handing_to_spooler", "accepted_by_spooler", "printing_reported",
                     "completed_reported", "failed", "delivery_uncertain"},
         MovesTo(j, g, to), attempts'[j][g].reserved <=> to = "handing_to_spooler",
         NEW n \in DOMAIN evidence[attempts[j][g].agent], Witness(attempts[j][g].agent, j, g, n),
         to \in {"accepted_by_spooler", "printing_reported", "completed_reported"} =>
           evidence[attempts[j][g].agent][n].outcome = "accepted",
         to = "failed" => evidence[attempts[j][g].agent][n].outcome # "ambiguous",
         to = "handing_to_spooler" => attempts[j][g].reserved
  PROVE  AttemptMoves(j, g)
<1>1. PICK t : t = attempts[j][g]
  OBVIOUS
<1>2. t.agent \in Agent
  BY <1>1, AttemptFields
<1>3. Witness(t.agent, j, g, n)' /\ n \in DOMAIN evidence'[t.agent] /\ evidence' = evidence
  BY <1>1 DEF NodesStill, Witness
<1>4. Witnessed(t.agent, j, g)'
  BY <1>3 DEF Witnessed, Witness
<1>5. attempts'[j][g].state = to /\ attempts'[j][g].agent = t.agent
  BY <1>1 DEF MovesTo
<1>6. AttemptIsWitnessed(j, g)'
  <2>1. to \in {"accepted_by_spooler", "printing_reported", "completed_reported"} =>
          \E m \in DOMAIN evidence'[t.agent] :
            Witness(t.agent, j, g, m)' /\ evidence'[t.agent][m].outcome = "accepted"
    BY <1>1, <1>3
  <2>2. to = "failed" =>
          \E m \in DOMAIN evidence'[t.agent] :
            Witness(t.agent, j, g, m)' /\ evidence'[t.agent][m].outcome # "ambiguous"
    BY <1>1, <1>3
  <2>3. attempts'[j][g].reserved <=> to \in {"route_leased", "queued_local", "handing_to_spooler"}
    OBVIOUS
  <2> QED
    BY <1>4, <1>5, <2>1, <2>2, <2>3 DEF AttemptIsWitnessed, Witness, Witnessed
<1>7. Occupies(j, g)' => Occupies(j, g)
  BY <1>1, <1>4, <1>5 DEF Occupies, Witnessed, Witness
<1>8. attempts'[j][g].resolution = "final" => Resolved(t.agent, j, g)'
  BY <1>1, <1>2, ResolvedStill DEF AttemptInv, FinalIsResolved, MovesTo
<1> QED
  BY <1>1, <1>5, <1>6, <1>7, <1>8 DEF AttemptMoves, MovesTo, Withdrawal

-----------------------------------------------------------------------------
(* The initial state.                                                      *)

\* The initial states are of the types the variables have.
LEMMA InitType == Init => TypeOK
<1> SUFFICES ASSUME Init PROVE TypeOK
  OBVIOUS
<1>1. ServerTypeOK
  <2>1. jobs \in [Job -> [state : JobState, agent : Agent, lease : Nat, live : BOOLEAN,
                          leases : Nat, held : BOOLEAN, expired : BOOLEAN]]
    BY CloudAssumption DEF Init, ServerInit, JobState, Successors
  <2>2. attempts \in [Job -> Seq(Attempt)] /\ commands \in [Agent -> Seq(Command)]
    BY DEF Init, ServerInit
  <2> QED
    BY <2>1, <2>2 DEF Init, ServerInit, ServerTypeOK
<1>2. work \in [Agent -> Work]
  BY CycleMade DEF Init
<1>3. events \in [Agent -> Seq(Event)] /\ evidence \in [Agent -> Seq(Handoff)]
  BY DEF Init
<1> QED
  BY <1>1, <1>2, <1>3 DEF Init, TypeOK

\* The initial states satisfy the invariant: nothing was accepted yet.
LEMMA InitInv == Init => CloudInv
<1> SUFFICES ASSUME Init PROVE CloudInv
  OBVIOUS
<1> USE DEF Init, ServerInit
<1>1. \A j \in Job : Generations(j) = {} /\ acceptance[j] = Nil
  BY DEF Generations
<1>2. AttemptInv
  BY <1>1 DEF AttemptInv, AcceptedIsOpen, OneOccupies, FinalIsResolved
<1>3. ASSUME NEW a \in Agent
      PROVE  AgentInv(a)
  <2>1. work[a].pc = "idle"
    BY DEF Idle
  <2>2. ResumesPending(a) /\ RequestIsCovered(a) /\ OfferIsOpen(a) /\ BatchIsComplete(a)
    BY <2>1 DEF ResumesPending, RequestIsCovered, OfferIsOpen, BatchIsComplete, ResumePc, StagePc,
                RequestPc, HandledPc, BatchPc, OfferPc
  <2>3. \A j \in Job : RowIsAccepted(a, j)
    BY CloudAssumption DEF RowIsAccepted, OnItsWay
  <2>4. /\ DOMAIN evidence[a] = {} /\ DOMAIN events[a] = {} /\ DOMAIN commands[a] = {}
        /\ Len(commands[a]) = 0
    OBVIOUS
  <2>5. HandoffsAreAccepted(a) /\ EventsAreAccepted(a) /\ CommandsAreCarried(a)
    BY <2>4 DEF HandoffsAreAccepted, EventsAreAccepted, CommandsAreCarried
  <2> QED
    BY <2>2, <2>3, <2>5 DEF AgentInv, WorkInv, NodeInv
<1> QED
  BY <1>2, <1>3 DEF CloudInv

-----------------------------------------------------------------------------
(* Types of the server's tables.                                           *)

JobRow ==
  [state : JobState, agent : Agent, lease : Nat, live : BOOLEAN, leases : Nat, held : BOOLEAN,
   expired : BOOLEAN]

\* The types of the fields of a job of the server.
LEMMA JobFields ==
  ASSUME TypeOK, NEW j \in Job
  PROVE  /\ jobs \in [Job -> JobRow] /\ jobs[j] \in JobRow /\ jobs[j].state \in JobState
         /\ jobs[j].agent \in Agent /\ jobs[j].lease \in Nat /\ jobs[j].leases \in Nat
         /\ Unleased(jobs[j]) \in JobRow /\ Unleased(jobs[j]).state = jobs[j].state
<1>1. jobs \in [Job -> JobRow]
  BY DEF TypeOK, ServerTypeOK, JobRow
<1>2. jobs[j] \in JobRow
  BY <1>1
<1> QED
  BY <1>1, <1>2 DEF JobRow, Unleased

\* A sequence mapped member by member is a sequence of the same length.
LEMMA RowsMapped ==
  ASSUME NEW S, NEW s \in Seq(S), NEW f, DOMAIN f = DOMAIN s, f = [n \in DOMAIN s |-> f[n]],
         \A n \in DOMAIN s : f[n] \in S
  PROVE  f \in Seq(S) /\ Len(f) = Len(s)
<1>1. DOMAIN s = 1..Len(s) /\ Len(s) \in Nat
  BY SeqFacts
<1>2. f \in [1..Len(s) -> S]
  BY <1>1
<1> QED
  BY <1>1, <1>2, SeqDef, LenProperties

\* Every attempt is changed in its place.
LEMMA AttemptsType ==
  ASSUME TypeOK, attempts' = [j \in Job |-> attempts'[j]],
         \A j \in Job : \/ attempts'[j] = attempts[j]
                        \/ /\ attempts'[j] = [g \in Generations(j) |-> attempts'[j][g]]
                           /\ \A g \in Generations(j) : attempts'[j][g] \in Attempt
  PROVE  attempts' \in [Job -> Seq(Attempt)] /\ \A j \in Job : DOMAIN attempts'[j] = Generations(j)
<1>1. ASSUME NEW j \in Job
      PROVE  attempts'[j] \in Seq(Attempt) /\ DOMAIN attempts'[j] = Generations(j)
  <2>1. CASE attempts'[j] = attempts[j]
    BY <2>1, AttemptFields DEF Generations
  <2>2. CASE /\ attempts'[j] = [g \in Generations(j) |-> attempts'[j][g]]
             /\ \A g \in Generations(j) : attempts'[j][g] \in Attempt
    <3>1. PICK f : f = attempts'[j]
      OBVIOUS
    <3>2. DOMAIN f = DOMAIN attempts[j] /\ f = [n \in DOMAIN attempts[j] |-> f[n]]
      BY <2>2, <3>1 DEF Generations
    <3>3. f \in Seq(Attempt)
      BY <2>2, <3>1, <3>2, AttemptFields, RowsMapped DEF Generations
    <3> QED
      BY <3>1, <3>2, <3>3 DEF Generations
  <2> QED
    BY <2>1, <2>2
<1> QED
  BY <1>1

\* What ending an attempt changes of it, and what it leaves.
LEMMA EndedFields ==
  ASSUME NEW t \in Attempt, NEW to \in FinalAttempt
  PROVE  /\ Ended(t, to) \in Attempt /\ Ended(t, to).state = to /\ Ended(t, to).agent = t.agent
         /\ ~Ended(t, to).reserved /\ Ended(t, to).resolution = t.resolution
BY DEF Ended, Attempt, AttemptState

\* Which attempts of a job ending the open ones changes.
LEMMA EndOpenFields ==
  ASSUME TypeOK, NEW j \in Job, NEW to \in FinalAttempt, NEW f, f = EndOpen(attempts[j], to)
  PROVE  /\ f = [g \in Generations(j) |-> f[g]]
         /\ \A g \in Generations(j) : f[g] \in Attempt
         /\ \A g \in Generations(j) : attempts[j][g].state \in FinalAttempt => f[g] = attempts[j][g]
         /\ \A g \in Generations(j) : attempts[j][g].state \notin FinalAttempt =>
              /\ f[g].state = to /\ f[g].agent = attempts[j][g].agent
              /\ ~f[g].reserved /\ f[g].resolution = attempts[j][g].resolution
<1>1. f = [g \in Generations(j) |-> IF attempts[j][g].state \in FinalAttempt THEN attempts[j][g]
                                    ELSE Ended(attempts[j][g], to)]
  BY DEF EndOpen, Generations
<1> QED
  BY <1>1, AttemptFields, EndedFields

-----------------------------------------------------------------------------
(* Steps of the server alone.                                              *)

\* A command the server adds is meant, and nothing holds it for done.
Appends(a, c) ==
  /\ c \in Command /\ ~c.acknowledged
  /\ commands'[a] = Append(commands[a], c)
  /\ \A n \in Nat : n = Len(commands[a]) + 1 => CommandIsMeant(a, n)'

\* A new command leaves what is said of the others, and of a batch that was
\* fetched before it.
LEMMA AgentAppended ==
  ASSUME TypeOK, NEW a \in Agent, AgentInv(a), SameNode(a), Progress, Untaken(a),
         work'[a] = work[a], NEW c, Appends(a, c)
  PROVE  AgentInv(a)'
<1>1. AcceptancesStay
  BY UntakenStays
<1>2. KeepsWord(a)
  BY <1>1, WordFrame DEF SameNode
<1>3. NodeInv(a)'
  BY <1>1, NodeFrame DEF AgentInv
<1>4. ResumesPending(a)' /\ RequestIsCovered(a)' /\ OfferIsOpen(a)'
  BY SameGrows, ResumeFrame, RequestFrame, OfferFrame DEF AgentInv, WorkInv, Grows
<1>5. /\ Len(commands[a]) \in Nat /\ DOMAIN commands[a] = 1..Len(commands[a])
      /\ Len(commands'[a]) = Len(commands[a]) + 1
      /\ DOMAIN commands'[a] = DOMAIN commands[a] \cup {Len(commands[a]) + 1}
      /\ \A n \in DOMAIN commands[a] : commands'[a][n] = commands[a][n]
      /\ commands'[a][Len(commands[a]) + 1] = c
  BY CommandFields, AppendFacts DEF Appends
<1>6. \A n \in DOMAIN commands[a] : CarriedOut(a, n) => CarriedOut(a, n)'
  BY <1>2, <1>5, CarriedOutFrame
<1>7. cursor[a] \in Nat
  BY DEF TypeOK
<1>8. CommandsAreCarried(a)'
  <2>1. \A n \in DOMAIN commands[a] : CommandIsMeant(a, n)'
    BY <1>1, <1>5, MeantFrame DEF CommandsAreCarried, AgentInv
  <2>2. \A n \in DOMAIN commands'[a] : CommandIsMeant(a, n)'
    BY <1>5, <2>1 DEF Appends
  <2>3. ASSUME NEW k \in ledger[a]
        PROVE  Carried(a, k)'
    <3>1. k.job \in Job /\ k.gen \in Nat
      BY DEF TypeOK
    <3>2. Carried(a, k)
      BY DEF CommandsAreCarried, AgentInv
    <3> QED
      BY <1>2, <3>1, <3>2, CarriedFrame
  <2>4. cursor[a] <= Len(commands'[a])
    BY <1>5, <1>7 DEF AgentInv, CommandsAreCarried
  <2>5. ASSUME NEW n \in DOMAIN commands'[a], n <= cursor[a] \/ commands'[a][n].acknowledged
        PROVE  CarriedOut(a, n)'
    <3>1. n \in DOMAIN commands[a] /\ (n <= cursor[a] \/ commands[a][n].acknowledged)
      BY <1>5, <1>7, <2>5 DEF AgentInv, CommandsAreCarried, Appends
    <3> QED
      BY <1>6, <3>1 DEF AgentInv, CommandsAreCarried
  <2> QED
    BY <2>2, <2>3, <2>4, <2>5 DEF CommandsAreCarried, SameNode
<1>9. BatchIsComplete(a)'
  <2>1. work[a].pc \in BatchPc \cup {"apply"} => work[a].upto \in Nat /\ work[a].upto <= Len(commands[a])
    BY WorkFields DEF TypeOK, AgentInv, WorkInv, BatchIsComplete
  <2>2. BatchIsComplete(a)
    BY DEF AgentInv, WorkInv
  <2>3. PICK w : w = work[a]
    OBVIOUS
  <2>4. w.pc = "retire" => /\ w.due # {}
                           /\ \A n \in w.due : n \in w.batch /\ commands'[a][n].kind = "cancel_job"
    BY <1>5, <2>2, <2>3 DEF BatchIsComplete, BatchPc, HandledPc
  <2>5. w.pc \in BatchPc \cup {"apply"} =>
          /\ w.upto <= Len(commands'[a]) /\ w.batch \subseteq DOMAIN commands'[a]
          /\ \A n \in DOMAIN commands'[a] : n <= w.upto =>
               n \in w.batch \/ CarriedOut(a, n)' \/ (w.pc = "apply" /\ w.failed)
    <3> SUFFICES ASSUME w.pc \in BatchPc \cup {"apply"}
                 PROVE  /\ w.upto <= Len(commands'[a]) /\ w.batch \subseteq DOMAIN commands'[a]
                        /\ \A n \in DOMAIN commands'[a] : n <= w.upto =>
                             n \in w.batch \/ CarriedOut(a, n)' \/ (w.pc = "apply" /\ w.failed)
      OBVIOUS
    <3>1. w.upto <= Len(commands'[a]) /\ w.batch \subseteq DOMAIN commands'[a]
      BY <1>5, <2>1, <2>2, <2>3 DEF BatchIsComplete
    <3>2. ASSUME NEW n \in DOMAIN commands'[a], n <= w.upto
          PROVE  n \in w.batch \/ CarriedOut(a, n)' \/ (w.pc = "apply" /\ w.failed)
      <4>1. n \in DOMAIN commands[a]
        BY <1>5, <2>1, <2>3, <3>2
      <4> QED
        BY <1>6, <2>2, <2>3, <3>2, <4>1 DEF BatchIsComplete
    <3> QED
      BY <3>1, <3>2
  <2>6. w.pc \in RequestPc => w.req.cursor = cursor'[a]
    BY <2>2, <2>3 DEF BatchIsComplete, SameNode
  <2> QED
    BY <2>3, <2>4, <2>5, <2>6 DEF BatchIsComplete
<1> QED
  BY <1>3, <1>4, <1>8, <1>9 DEF AgentInv, WorkInv

\* A step that leaves the nodes' tables alone, accepts no job, and does not
\* make an accepted one look as it did.
Quiet ==
  /\ UNCHANGED <<node, printed>> /\ faults' \in Nat /\ acceptance' = acceptance
  /\ \A a \in Agent : receipts[a] \subseteq receipts'[a]
  /\ \A j \in Job : acceptance[j] # Nil /\ jobs[j].state # "agent_accepted" =>
       jobs'[j].state # "agent_accepted"
  /\ \A a \in Agent : work'[a] = work[a] \/ work'[a].pc # "activate"

\* Such a step leaves every agent its node, its acceptances and its word.
LEMMA QuietFrame ==
  ASSUME TypeOK, Quiet, NEW a \in Agent,
         \A j \in Job : \A g \in Generations(j) :
           g \in DOMAIN attempts'[j] /\ attempts'[j][g].agent = attempts[j][g].agent
  PROVE  /\ SameNode(a) /\ Untaken(a) /\ AcceptancesStay /\ Progress /\ KeepsWord(a)
         /\ NodesStill /\ EvidenceGrows
<1>1. SameNode(a) /\ Untaken(a) /\ AcceptancesStay
  BY DEF Quiet, SameNode, Untaken, AcceptancesStay, node, outbox, commanded
<1>2. Progress
  BY DEF Progress, Quiet
<1>3. NodesStill /\ EvidenceGrows
  BY DEF Quiet, NodesStill, EvidenceGrows, node
<1>4. KeepsWord(a)
  BY <1>1, <1>2, WordFrame DEF Quiet, SameNode
<1> QED
  BY <1>1, <1>2, <1>3, <1>4

\* Attempts in their place do what a step of the server may make of them.
LEMMA AttemptsMoved ==
  ASSUME TypeOK, CloudInv, Quiet, \A j \in Job : DOMAIN attempts'[j] = Generations(j),
         \A j \in Job : \A g \in Generations(j) : SameAttempt(j, g) \/ AttemptMoves(j, g)
  PROVE  AttemptsMove
<1>1. EvidenceGrows
  BY DEF Quiet, EvidenceGrows, node
<1>2. \A a \in Agent : KeepsWord(a)
  BY QuietFrame DEF SameAttempt, AttemptMoves
<1> QED
  BY <1>1, <1>2, AttemptStays DEF AttemptsMove, CloudInv

\* A step of the server while no worker moves.
LEMMA ServerFrame ==
  ASSUME TypeOK, CloudInv, Quiet, work' = work, ServerTypeOK', AttemptsMove,
         \A a \in Agent : commands'[a] = commands[a] \/ \E c : Appends(a, c)
  PROVE  TypeOK' /\ CloudInv'
<1>1. TypeOK'
  BY DEF TypeOK, Quiet, node, outbox, commanded
<1>2. AttemptInv'
  BY AttemptsFrame DEF Quiet, CloudInv
<1>3. ASSUME NEW a \in Agent
      PROVE  AgentInv(a)'
  <2>1. SameNode(a) /\ Untaken(a) /\ Progress
    BY QuietFrame DEF AttemptsMove, AttemptMoves
  <2>2. AgentInv(a)
    BY DEF CloudInv
  <2> QED
    BY <2>1, <2>2, AgentFrame, AgentAppended
<1> QED
  BY <1>1, <1>2, <1>3 DEF CloudInv

\* A step of the sync handler of one agent.
LEMMA HandlerFrame ==
  ASSUME TypeOK, CloudInv, Quiet, AttemptsMove, NEW a \in Agent,
         \A b \in Agent : b # a => work'[b] = work[b] /\ commands'[b] = commands[b],
         WorkInv(a)', commands'[a] = commands[a] \/ CommandsAreCarried(a)'
  PROVE  CloudInv'
<1>1. AttemptInv'
  BY AttemptsFrame DEF Quiet, CloudInv
<1>2. ASSUME NEW b \in Agent
      PROVE  AgentInv(b)'
  <2>1. /\ SameNode(b) /\ Untaken(b) /\ AcceptancesStay /\ Progress /\ KeepsWord(b)
    BY QuietFrame DEF AttemptsMove, AttemptMoves
  <2>2. AgentInv(b)
    BY DEF CloudInv
  <2>3. CASE b = a
    <3>1. NodeInv(b)'
      BY <2>1, <2>2, NodeFrame DEF AgentInv
    <3>2. CommandsAreCarried(b)'
      BY <2>1, <2>2, <2>3, CommandsFrame DEF AgentInv, SameNode
    <3> QED
      BY <2>3, <3>1, <3>2 DEF AgentInv
  <2>4. CASE b # a
    BY <2>1, <2>2, <2>4, AgentFrame
  <2> QED
    BY <2>3, <2>4
<1> QED
  BY <1>1, <1>2 DEF CloudInv

\* The open attempts of a job end when no node accepted it, or when none was
\* taken up.
LEMMA EndOpenMoves ==
  ASSUME TypeOK, CloudInv, Quiet, NEW j \in Job, NEW to \in {"superseded", "cancelled"},
         attempts' = [attempts EXCEPT ![j] = EndOpen(attempts[j], to)],
         acceptance[j] = Nil \/ OnlyLeased(j)
  PROVE  AttemptsMove /\ attempts' \in [Job -> Seq(Attempt)]
<1>1. PICK f : f = EndOpen(attempts[j], to)
  OBVIOUS
<1>2. /\ f = [g \in Generations(j) |-> f[g]]
      /\ \A g \in Generations(j) : f[g] \in Attempt
      /\ \A g \in Generations(j) : attempts[j][g].state \in FinalAttempt => f[g] = attempts[j][g]
      /\ \A g \in Generations(j) : attempts[j][g].state \notin FinalAttempt =>
              /\ f[g].state = to /\ f[g].agent = attempts[j][g].agent
              /\ ~f[g].reserved /\ f[g].resolution = attempts[j][g].resolution
  BY <1>1, EndOpenFields DEF FinalAttempt
<1>3. /\ attempts' = [i \in Job |-> attempts'[i]] /\ attempts'[j] = f
      /\ \A i \in Job : i # j => attempts'[i] = attempts[i]
  BY <1>1 DEF TypeOK, ServerTypeOK
<1>4. attempts' \in [Job -> Seq(Attempt)] /\ \A i \in Job : DOMAIN attempts'[i] = Generations(i)
  BY <1>2, <1>3, AttemptsType
<1>5. NodesStill
  BY DEF Quiet, NodesStill, node
<1>6. ASSUME NEW i \in Job, NEW g \in Generations(i)
      PROVE  SameAttempt(i, g) \/ AttemptMoves(i, g)
  <2>1. CASE i # j \/ attempts[i][g].state \in FinalAttempt
    BY <1>2, <1>3, <1>4, <2>1 DEF SameAttempt
  <2>2. CASE i = j /\ attempts[i][g].state \notin FinalAttempt
    <3>1. MovesTo(j, g, to) /\ ~attempts'[j][g].reserved
      BY <1>2, <1>3, <1>4, <2>2 DEF MovesTo
    <3>2. acceptance[j] = Nil \/ attempts[j][g].state \in Withdrawal
      BY <2>2 DEF OnlyLeased, Withdrawal
    <3> QED
      BY <1>5, <2>2, <3>1, <3>2, AttemptWithdrawn DEF CloudInv
  <2> QED
    BY <2>1, <2>2
<1> QED
  BY <1>4, <1>6, AttemptsMoved

\* When nodes are quiet, attempts as they were move as allowed.
LEMMA AttemptsSame ==
  ASSUME TypeOK, CloudInv, Quiet, attempts' = attempts
  PROVE  AttemptsMove
BY AttemptsMoved DEF SameAttempt, Generations

\* The row of one job is replaced.
LEMMA JobSet ==
  ASSUME TypeOK, NEW j \in Job, NEW row \in JobRow, jobs' = [jobs EXCEPT ![j] = row]
  PROVE  /\ jobs' \in [Job -> JobRow] /\ jobs'[j] = row
         /\ \A i \in Job : i # j => jobs'[i] = jobs[i]
BY JobFields

\* now() passes the expiry of a job.
LEMMA DeadlineStep ==
  ASSUME TypeOK, CloudInv, NEW j \in Job, DeadlinePasses(j), UNCHANGED <<node, work, history>>
  PROVE  TypeOK' /\ CloudInv'
<1>1. PICK row : row = [jobs[j] EXCEPT !.expired = TRUE]
  OBVIOUS
<1>2. row \in JobRow /\ row.state = jobs[j].state
  BY <1>1, JobFields DEF JobRow
<1>3. jobs' = [jobs EXCEPT ![j] = row]
  BY <1>1, JobFields DEF DeadlinePasses
<1>4. jobs' \in [Job -> JobRow] /\ \A i \in Job : jobs'[i].state = jobs[i].state
  BY <1>2, <1>3, JobSet
<1>5. Quiet
  BY <1>4 DEF Quiet, DeadlinePasses, history, TypeOK
<1>6. ServerTypeOK'
  BY <1>4 DEF ServerTypeOK, TypeOK, DeadlinePasses, JobRow
<1> QED
  BY <1>5, <1>6, AttemptsSame, ServerFrame DEF DeadlinePasses

\* A withdrawal of a job before a node is responsible for it.
LEMMA WithdrawEffect ==
  ASSUME TypeOK, NEW j \in Job, NEW to \in {"cancelled", "expired", "failed_terminal"}, Withdraw(j, to)
  PROVE  /\ jobs' \in [Job -> JobRow] /\ jobs'[j].state = to
         /\ \A i \in Job : i # j => jobs'[i] = jobs[i]
         /\ \A i \in Job : jobs[i].state # "agent_accepted" => jobs'[i].state # "agent_accepted"
         /\ \E x \in {"superseded", "cancelled"} :
              attempts' = [attempts EXCEPT ![j] = EndOpen(attempts[j], x)]
<1>1. PICK row : row = [Unleased(jobs[j]) EXCEPT !.state = to, !.held = FALSE]
  OBVIOUS
<1>2. row \in JobRow /\ row.state = to
  BY <1>1, JobFields DEF JobRow, JobState, Terminal
<1>3. jobs' = [jobs EXCEPT ![j] = row]
  BY <1>1 DEF Withdraw
<1>4. \E x \in {"superseded", "cancelled"} :
        attempts' = [attempts EXCEPT ![j] = EndOpen(attempts[j], x)]
  BY DEF Withdraw, TypeOK, ServerTypeOK
<1> QED
  BY <1>2, <1>3, <1>4, JobSet

\* Expiring due jobs on the server preserves the invariant.
LEMMA ExpireStep ==
  ASSUME TypeOK, CloudInv, NEW j \in Job, ExpireBeforeHandoff(j), UNCHANGED <<node, work, history>>
  PROVE  TypeOK' /\ CloudInv'
<1>1. /\ jobs' \in [Job -> JobRow]
      /\ \A i \in Job : jobs[i].state # "agent_accepted" => jobs'[i].state # "agent_accepted"
      /\ \E x \in {"superseded", "cancelled"} :
           attempts' = [attempts EXCEPT ![j] = EndOpen(attempts[j], x)]
  BY WithdrawEffect DEF ExpireBeforeHandoff
<1>2. Quiet
  BY <1>1 DEF Quiet, ExpireBeforeHandoff, history, TypeOK
<1>3. AttemptsMove /\ attempts' \in [Job -> Seq(Attempt)]
  BY <1>1, <1>2, EndOpenMoves DEF ExpireBeforeHandoff
<1>4. ServerTypeOK'
  BY <1>1, <1>3 DEF ServerTypeOK, TypeOK, ExpireBeforeHandoff, JobRow
<1> QED
  BY <1>2, <1>3, <1>4, ServerFrame DEF ExpireBeforeHandoff

\* Assigning a job that waits to another agent preserves the invariant.
LEMMA RerouteStep ==
  ASSUME TypeOK, CloudInv, NEW j \in Job, NEW a \in Agent, Reroute(j, a),
         UNCHANGED <<node, work, history>>
  PROVE  TypeOK' /\ CloudInv'
<1>1. PICK row : row = [Unleased(jobs[j]) EXCEPT !.agent = a]
  OBVIOUS
<1>2. row \in JobRow /\ row.state = jobs[j].state
  BY <1>1, JobFields DEF JobRow
<1>3. jobs' = [jobs EXCEPT ![j] = row]
  BY <1>1 DEF Reroute
<1>4. jobs' \in [Job -> JobRow] /\ \A i \in Job : jobs'[i].state = jobs[i].state
  BY <1>2, <1>3, JobSet
<1>5. Quiet
  BY <1>4 DEF Quiet, Reroute, history, TypeOK
<1>6. ServerTypeOK'
  BY <1>4 DEF ServerTypeOK, TypeOK, Reroute, JobRow
<1> QED
  BY <1>5, <1>6, AttemptsSame, ServerFrame DEF Reroute

\* One agent's list of commands gets one more.
LEMMA CommandAdded ==
  ASSUME TypeOK, NEW a \in Agent, NEW c \in Command,
         commands' = [commands EXCEPT ![a] = Append(commands[a], c)]
  PROVE  /\ commands' \in [Agent -> Seq(Command)] /\ commands'[a] = Append(commands[a], c)
         /\ \A b \in Agent : b # a => commands'[b] = commands[b]
         /\ commands'[a][Len(commands[a]) + 1] = c
<1>1. commands \in [Agent -> Seq(Command)]
  BY DEF TypeOK, ServerTypeOK
<1>2. Append(commands[a], c) \in Seq(Command) /\ Append(commands[a], c)[Len(commands[a]) + 1] = c
  BY <1>1, AppendFacts
<1> QED
  BY <1>1, <1>2

\* A cancellation: at once, or as a command about a job that is past its
\* acceptance.
LEMMA CancellationStep ==
  ASSUME TypeOK, CloudInv, NEW j \in Job, RequestCancellation(j), UNCHANGED <<node, work, history>>
  PROVE  TypeOK' /\ CloudInv'
<1>1. CASE acceptance[j] = Nil
  <2>1. Withdraw(j, "cancelled") /\ commands' = commands
    BY <1>1 DEF RequestCancellation
  <2>2. /\ jobs' \in [Job -> JobRow]
        /\ \A i \in Job : jobs[i].state # "agent_accepted" => jobs'[i].state # "agent_accepted"
        /\ \E x \in {"superseded", "cancelled"} :
             attempts' = [attempts EXCEPT ![j] = EndOpen(attempts[j], x)]
    BY <2>1, WithdrawEffect
  <2>3. Quiet
    BY <2>2 DEF Quiet, RequestCancellation, history, TypeOK
  <2>4. AttemptsMove /\ attempts' \in [Job -> Seq(Attempt)]
    BY <1>1, <2>2, <2>3, EndOpenMoves
  <2>5. ServerTypeOK'
    BY <2>1, <2>2, <2>4 DEF ServerTypeOK, TypeOK, RequestCancellation, JobRow
  <2> QED
    BY <2>1, <2>3, <2>4, <2>5, ServerFrame
<1>2. CASE acceptance[j] # Nil
  <2>1. PICK a, c : a = jobs[j].agent /\
          c = [kind |-> "cancel_job", job |-> j, gen |-> 0, delivered |-> FALSE,
               acknowledged |-> FALSE]
    OBVIOUS
  <2>2. /\ a \in Agent /\ c \in Command /\ ~c.acknowledged
        /\ c.kind = "cancel_job" /\ c.job = j
    BY <2>1, JobFields DEF Command
  <2>3. /\ commands' = [commands EXCEPT ![a] = Append(commands[a], c)] /\ attempts' = attempts
        /\ jobs' = [jobs EXCEPT ![j].state = "cancel_requested"] /\ acceptance' = acceptance
    BY <1>2, <2>1 DEF RequestCancellation, TypeOK, ServerTypeOK
  <2>4. /\ commands' \in [Agent -> Seq(Command)] /\ commands'[a] = Append(commands[a], c)
        /\ \A b \in Agent : b # a => commands'[b] = commands[b]
        /\ commands'[a][Len(commands[a]) + 1] = c
    BY <2>2, <2>3, CommandAdded
  <2>5. PICK row : row = [jobs[j] EXCEPT !.state = "cancel_requested"]
    OBVIOUS
  <2>6. row \in JobRow /\ row.state = "cancel_requested"
    BY <2>5, JobFields DEF JobRow, JobState, Successors
  <2>7. jobs' = [jobs EXCEPT ![j] = row]
    BY <2>3, <2>5, JobFields
  <2>8. /\ jobs' \in [Job -> JobRow] /\ jobs'[j].state = "cancel_requested"
        /\ \A i \in Job : i # j => jobs'[i] = jobs[i]
    BY <2>6, <2>7, JobSet
  <2>9. Quiet
    BY <2>8 DEF Quiet, RequestCancellation, history, TypeOK
  <2>10. Appends(a, c)
    BY <1>2, <2>2, <2>3, <2>4, <2>8 DEF Appends, CommandIsMeant
  <2>11. ServerTypeOK'
    BY <2>3, <2>4, <2>8 DEF ServerTypeOK, TypeOK, RequestCancellation, JobRow
  <2> QED
    BY <2>3, <2>4, <2>9, <2>10, <2>11, AttemptsSame, ServerFrame
<1> QED
  BY <1>1, <1>2

\* One attempt of one job is replaced.
Replaced(j, g, t) ==
  /\ attempts' \in [Job -> Seq(Attempt)] /\ attempts'[j][g] = t
  /\ \A i \in Job : DOMAIN attempts'[i] = Generations(i)
  /\ \A i \in Job : \A h \in Generations(i) :
       i # j \/ h # g => attempts'[i][h] = attempts[i][h]

\* Replacing one attempt leaves every other as it was.
LEMMA AttemptSet ==
  ASSUME TypeOK, NEW j \in Job, NEW g \in Generations(j), NEW t \in Attempt,
         attempts' = [attempts EXCEPT ![j][g] = t]
  PROVE  Replaced(j, g, t)
<1>1. /\ attempts' = [i \in Job |-> attempts'[i]]
      /\ \A i \in Job : i # j => attempts'[i] = attempts[i]
      /\ attempts'[j] = [attempts[j] EXCEPT ![g] = t]
  BY DEF TypeOK, ServerTypeOK
<1>2. /\ attempts'[j] = [h \in Generations(j) |-> attempts'[j][h]]
      /\ \A h \in Generations(j) : h # g => attempts'[j][h] = attempts[j][h]
      /\ attempts'[j][g] = t
  BY <1>1, AttemptFields DEF Generations
<1>3. \A h \in Generations(j) : attempts'[j][h] \in Attempt
  BY <1>2, AttemptFields
<1>4. attempts' \in [Job -> Seq(Attempt)] /\ \A i \in Job : DOMAIN attempts'[i] = Generations(i)
  BY <1>1, <1>2, <1>3, AttemptsType
<1> QED
  BY <1>1, <1>2, <1>4 DEF Replaced

\* The resolution of an attempt goes on: it ends when the node has settled.
LEMMA AttemptMarked ==
  ASSUME TypeOK, AttemptInv, NodesStill, NEW j \in Job, NEW g \in Generations(j),
         MovesTo(j, g, attempts[j][g].state) \/
           (/\ g \in DOMAIN attempts'[j] /\ attempts'[j][g].agent = attempts[j][g].agent
            /\ attempts'[j][g].state = attempts[j][g].state),
         attempts'[j][g].reserved = attempts[j][g].reserved,
         attempts'[j][g].resolution # "final" => attempts[j][g].resolution # "final",
         attempts'[j][g].resolution = "final" => Resolved(attempts[j][g].agent, j, g)
  PROVE  AttemptMoves(j, g)
<1>1. PICK t, u : t = attempts[j][g] /\ u = attempts'[j][g]
  OBVIOUS
<1>2. /\ t.agent \in Agent /\ u.agent = t.agent /\ u.state = t.state /\ u.reserved = t.reserved
      /\ g \in DOMAIN attempts'[j]
  BY <1>1, AttemptFields, SMTT(30) DEF MovesTo
<1>3. AttemptIsWitnessed(j, g)'
  BY <1>1, <1>2, SMTT(30) DEF AttemptInv, AttemptIsWitnessed, NodesStill, Witnessed, Witness
<1>4. Occupies(j, g)' => Occupies(j, g)
  BY <1>1, <1>2 DEF Occupies, NodesStill, Witnessed, Witness
<1>5. u.resolution = "final" => Resolved(t.agent, j, g)'
  BY <1>1, ResolvedStill
<1> QED
  BY <1>1, <1>2, <1>3, <1>4, <1>5 DEF AttemptMoves

\* An operator asks the node of an uncertain attempt to settle it.
LEMMA EnqueueStep ==
  ASSUME TypeOK, CloudInv, NEW j \in Job, EnqueueResolution(j), UNCHANGED <<node, work, history>>
  PROVE  TypeOK' /\ CloudInv'
<1>1. PICK g \in Generations(j) :
        /\ attempts[j][g].state = "delivery_uncertain" /\ attempts[j][g].resolution = "none"
        /\ attempts' = [attempts EXCEPT ![j][g].resolution = "pending"]
        /\ commands' = [commands EXCEPT ![attempts[j][g].agent] =
             Append(@, [kind |-> "resolve", job |-> j, gen |-> g, delivered |-> FALSE,
                        acknowledged |-> FALSE])]
  BY DEF EnqueueResolution
<1>2. PICK t : t = [attempts[j][g] EXCEPT !.resolution = "pending"]
  OBVIOUS
<1>3. /\ t \in Attempt /\ t.agent = attempts[j][g].agent /\ t.state = attempts[j][g].state
      /\ t.reserved = attempts[j][g].reserved /\ t.resolution = "pending"
  BY <1>2, AttemptFields DEF Attempt
<1>4. attempts' = [attempts EXCEPT ![j][g] = t]
  BY <1>1, <1>2, AttemptFields DEF TypeOK, ServerTypeOK, Generations
<1>5. /\ attempts' \in [Job -> Seq(Attempt)] /\ attempts'[j][g] = t
      /\ \A i \in Job : DOMAIN attempts'[i] = Generations(i)
      /\ \A i \in Job : \A h \in Generations(i) :
           i # j \/ h # g => attempts'[i][h] = attempts[i][h]
  <2>1. Replaced(j, g, t)
    BY <1>3, <1>4, AttemptSet
  <2> QED
    BY <2>1 DEF Replaced
<1>6. Quiet
  BY DEF Quiet, EnqueueResolution, history, TypeOK
<1>7. AttemptsMove
  <2>1. NodesStill
    BY DEF NodesStill, node
  <2>2. AttemptMoves(j, g)
    BY <1>1, <1>3, <1>5, <2>1, AttemptMarked DEF CloudInv
  <2>3. ASSUME NEW i \in Job, NEW h \in Generations(i)
        PROVE  SameAttempt(i, h) \/ AttemptMoves(i, h)
    BY <1>5, <2>2 DEF SameAttempt
  <2> QED
    BY <1>5, <1>6, <2>3, AttemptsMoved
<1>8. PICK a, c : a = attempts[j][g].agent /\
        c = [kind |-> "resolve", job |-> j, gen |-> g, delivered |-> FALSE, acknowledged |-> FALSE]
  OBVIOUS
<1>9. /\ a \in Agent /\ c \in Command /\ ~c.acknowledged
      /\ c.kind = "resolve" /\ c.job = j /\ c.gen = g
  BY <1>8, AttemptFields DEF Command
<1>10. commands' = [commands EXCEPT ![a] = Append(commands[a], c)]
  BY <1>1, <1>8, <1>9 DEF TypeOK, ServerTypeOK
<1>11. /\ commands' \in [Agent -> Seq(Command)] /\ commands'[a] = Append(commands[a], c)
       /\ \A b \in Agent : b # a => commands'[b] = commands[b]
       /\ commands'[a][Len(commands[a]) + 1] = c
  BY <1>9, <1>10, CommandAdded
<1>12. Appends(a, c)
  <2>1. g \in Generations(j)' /\ attempts'[j][g].agent = a
    BY <1>3, <1>5, <1>8 DEF Generations
  <2>2. ASSUME NEW n \in Nat, n = Len(commands[a]) + 1
        PROVE  CommandIsMeant(a, n)'
    BY <1>9, <1>11, <2>1, <2>2 DEF CommandIsMeant
  <2> QED
    BY <1>9, <1>11, <2>2 DEF Appends
<1>13. ServerTypeOK'
  BY <1>5, <1>11 DEF ServerTypeOK, TypeOK, EnqueueResolution
<1> QED
  BY <1>6, <1>7, <1>11, <1>12, <1>13, ServerFrame

\* The lease of a job and its attempt run out.
LEMMA LeaseStep ==
  ASSUME TypeOK, CloudInv, NEW j \in Job, LeaseEnds(j)
  PROVE  TypeOK' /\ CloudInv'
<1>1. PICK row : row = [jobs[j] EXCEPT !.live = FALSE, !.leases = jobs[j].lease]
  OBVIOUS
<1>2. row \in JobRow /\ row.state = jobs[j].state
  BY <1>1, JobFields DEF JobRow
<1>3. jobs' = [jobs EXCEPT ![j] = row]
  BY <1>1, JobFields DEF LeaseEnds, LeaseExpires
<1>4. jobs' \in [Job -> JobRow] /\ \A i \in Job : jobs'[i].state = jobs[i].state
  BY <1>2, <1>3, JobSet
<1>5. faults' \in Nat
  BY DEF LeaseEnds, Fault, TypeOK
<1>6. Quiet
  BY <1>4, <1>5 DEF Quiet, LeaseEnds, LeaseExpires
<1>7. PICK f : f = [g \in Generations(j) |->
                      IF attempts[j][g].lease = jobs[j].lease
                      THEN [attempts[j][g] EXCEPT !.live = FALSE] ELSE attempts[j][g]]
  OBVIOUS
<1>8. /\ f = [g \in Generations(j) |-> f[g]]
      /\ \A g \in Generations(j) :
           /\ f[g] \in Attempt /\ f[g].agent = attempts[j][g].agent
           /\ f[g].state = attempts[j][g].state /\ f[g].reserved = attempts[j][g].reserved
           /\ f[g].resolution = attempts[j][g].resolution
  BY <1>7, AttemptFields, ZenonT(30) DEF Attempt
<1>9. /\ attempts' = [i \in Job |-> attempts'[i]] /\ attempts'[j] = f
      /\ \A i \in Job : i # j => attempts'[i] = attempts[i]
  BY <1>7 DEF LeaseEnds, LeaseExpires, TypeOK, ServerTypeOK
<1>10. attempts' \in [Job -> Seq(Attempt)] /\ \A i \in Job : DOMAIN attempts'[i] = Generations(i)
  BY <1>8, <1>9, AttemptsType
<1>11. \A i \in Job : \A g \in Generations(i) : SameAttempt(i, g)
  BY <1>8, <1>9, <1>10 DEF SameAttempt
<1>12. AttemptsMove
  BY <1>6, <1>10, <1>11, AttemptsMoved
<1>13. ServerTypeOK'
  BY <1>4, <1>10 DEF ServerTypeOK, TypeOK, LeaseEnds, LeaseExpires, JobRow
<1> QED
  BY <1>6, <1>12, <1>13, ServerFrame DEF LeaseEnds, LeaseExpires

\* An attempt of a lease that was released runs out.
LEMMA AttemptStep ==
  ASSUME TypeOK, CloudInv, NEW j \in Job, AttemptEnds(j)
  PROVE  TypeOK' /\ CloudInv'
<1>1. PICK g \in Generations(j) : attempts' = [attempts EXCEPT ![j][g].live = FALSE]
  BY DEF AttemptEnds, AttemptExpires
<1>2. PICK t : t = [attempts[j][g] EXCEPT !.live = FALSE]
  OBVIOUS
<1>3. t \in Attempt
  BY <1>2, AttemptFields DEF Attempt
<1>10. /\ t.agent = attempts[j][g].agent /\ t.state = attempts[j][g].state
      /\ t.reserved = attempts[j][g].reserved /\ t.resolution = attempts[j][g].resolution
  BY <1>2, AttemptFields DEF Attempt
<1>4. attempts' = [attempts EXCEPT ![j][g] = t]
  BY <1>1, <1>2, AttemptFields DEF TypeOK, ServerTypeOK, Generations
<1>5. /\ attempts' \in [Job -> Seq(Attempt)] /\ attempts'[j][g] = t
      /\ \A i \in Job : DOMAIN attempts'[i] = Generations(i)
      /\ \A i \in Job : \A h \in Generations(i) :
           i # j \/ h # g => attempts'[i][h] = attempts[i][h]
  <2>1. Replaced(j, g, t)
    BY <1>3, <1>4, AttemptSet
  <2> QED
    BY <2>1 DEF Replaced
<1>6. Quiet
  BY DEF Quiet, AttemptEnds, AttemptExpires, history, TypeOK
<1>7. \A i \in Job : \A h \in Generations(i) : SameAttempt(i, h)
  BY <1>5, <1>10 DEF SameAttempt
<1>8. AttemptsMove
  BY <1>5, <1>6, <1>7, AttemptsMoved
<1>9. ServerTypeOK'
  BY <1>5 DEF ServerTypeOK, TypeOK, AttemptEnds, AttemptExpires
<1> QED
  BY <1>6, <1>8, <1>9, ServerFrame DEF AttemptEnds, AttemptExpires

\* The connectors of an agent are revoked: what it accepted becomes uncertain.
LEMMA RevokeConnectorStep ==
  ASSUME TypeOK, CloudInv, NEW a \in Agent, RevokeConnector(a), UNCHANGED <<node, work, printed>>,
         faults' \in Nat
  PROVE  TypeOK' /\ CloudInv'
<1>1. PICK S : S = Orphaned(a)
  OBVIOUS
<1>2. \A j \in Job : [jobs[j] EXCEPT !.state = "delivery_uncertain"] \in JobRow
  BY JobFields DEF JobRow, JobState, Terminal
<1>3. /\ jobs' \in [Job -> JobRow]
      /\ \A j \in Job : jobs'[j].state \in {jobs[j].state, "delivery_uncertain"}
  <2>1. jobs' = [j \in Job |-> IF j \in S THEN [jobs[j] EXCEPT !.state = "delivery_uncertain"]
                               ELSE jobs[j]]
    BY <1>1 DEF RevokeConnector
  <2>2. \A j \in Job : [jobs[j] EXCEPT !.state = "delivery_uncertain"].state = "delivery_uncertain"
    BY JobFields DEF JobRow
  <2> QED
    BY <1>2, <2>1, <2>2, JobFields
<1>4. Quiet
  BY <1>3 DEF Quiet, RevokeConnector
<1>5. /\ attempts' = [j \in Job |-> attempts'[j]]
      /\ \A j \in Job : j \notin S => attempts'[j] = attempts[j]
      /\ \A j \in S : j \in Job => attempts'[j] = EndOpen(attempts[j], "delivery_uncertain")
  BY <1>1 DEF RevokeConnector
<1>6. ASSUME NEW j \in Job, j \in S
      PROVE  /\ attempts'[j] = [g \in Generations(j) |-> attempts'[j][g]]
             /\ \A g \in Generations(j) :
                  /\ attempts'[j][g] \in Attempt
                  /\ attempts[j][g].state \in FinalAttempt => attempts'[j][g] = attempts[j][g]
                  /\ attempts[j][g].state \notin FinalAttempt =>
                       /\ attempts'[j][g].state = "delivery_uncertain"
                       /\ attempts'[j][g].agent = attempts[j][g].agent
                       /\ ~attempts'[j][g].reserved
                       /\ attempts'[j][g].resolution = attempts[j][g].resolution
  <2>1. PICK f : f = attempts'[j] /\ f = EndOpen(attempts[j], "delivery_uncertain")
    BY <1>5, <1>6
  <2> QED
    BY <2>1, EndOpenFields DEF FinalAttempt
<1>7. attempts' \in [Job -> Seq(Attempt)] /\ \A j \in Job : DOMAIN attempts'[j] = Generations(j)
  BY <1>5, <1>6, AttemptsType
<1>8. NodesStill
  BY DEF NodesStill, node
<1>9. ASSUME NEW j \in Job, NEW g \in Generations(j)
      PROVE  SameAttempt(j, g) \/ AttemptMoves(j, g)
  <2>1. CASE j \notin S \/ attempts[j][g].state \in FinalAttempt
    BY <1>5, <1>6, <1>7, <2>1 DEF SameAttempt
  <2>2. CASE j \in S /\ attempts[j][g].state \notin FinalAttempt
    <3>1. MovesTo(j, g, "delivery_uncertain") /\ ~attempts'[j][g].reserved
      BY <1>6, <1>7, <2>2 DEF MovesTo
    <3> QED
      BY <1>8, <2>2, <3>1, AttemptOrphaned DEF CloudInv
  <2> QED
    BY <2>1, <2>2
<1>10. AttemptsMove
  BY <1>4, <1>7, <1>9, AttemptsMoved
<1>11. ServerTypeOK'
  <2>1. destination' \in {"available", "attention", "unavailable"}
    BY DEF RevokeConnector, OrphanedDestination, TypeOK, ServerTypeOK
  <2>2. admission' \in [Agent -> {"active", "connector_revoked", "revoked"}]
    BY DEF RevokeConnector, TypeOK, ServerTypeOK
  <2> QED
    BY <1>3, <1>7, <2>1, <2>2 DEF ServerTypeOK, TypeOK, RevokeConnector, JobRow
<1> QED
  BY <1>4, <1>10, <1>11, ServerFrame DEF RevokeConnector

\* The agent is revoked: route leases of it that nobody took up are given up.
LEMMA RevokeAgentStep ==
  ASSUME TypeOK, CloudInv, NEW a \in Agent, RevokeAgent(a), UNCHANGED <<node, work, printed>>,
         faults' \in Nat
  PROVE  TypeOK' /\ CloudInv'
<1>1. /\ jobs' \in [Job -> JobRow] /\ \A j \in Job : jobs'[j].state = jobs[j].state
  BY JobFields DEF RevokeAgent
<1>2. Quiet
  BY <1>1 DEF Quiet, RevokeAgent
<1>3. PICK f : /\ attempts' = f
               /\ f = [j \in Job |-> [g \in Generations(j) |->
                    IF attempts[j][g].agent = a /\ attempts[j][g].state = "route_leased"
                    THEN Ended(attempts[j][g], "superseded") ELSE attempts[j][g]]]
  BY DEF RevokeAgent
<1>4. /\ attempts' = [j \in Job |-> attempts'[j]]
      /\ \A j \in Job : attempts'[j] = [g \in Generations(j) |-> attempts'[j][g]]
  BY <1>3
<1>5. ASSUME NEW j \in Job, NEW g \in Generations(j)
      PROVE  attempts'[j][g] = IF attempts[j][g].agent = a /\ attempts[j][g].state = "route_leased"
                               THEN Ended(attempts[j][g], "superseded") ELSE attempts[j][g]
  BY <1>3
<1>6. \A j \in Job : \A g \in Generations(j) :
        /\ Ended(attempts[j][g], "superseded") \in Attempt
        /\ Ended(attempts[j][g], "superseded").state = "superseded"
        /\ Ended(attempts[j][g], "superseded").agent = attempts[j][g].agent
        /\ ~Ended(attempts[j][g], "superseded").reserved
        /\ Ended(attempts[j][g], "superseded").resolution = attempts[j][g].resolution
  BY AttemptFields, EndedFields DEF FinalAttempt
<1>7. \A j \in Job : \A g \in Generations(j) : attempts'[j][g] \in Attempt
  BY <1>5, <1>6, AttemptFields
<1>8. attempts' \in [Job -> Seq(Attempt)] /\ \A j \in Job : DOMAIN attempts'[j] = Generations(j)
  BY <1>4, <1>7, AttemptsType
<1>9. NodesStill
  BY DEF NodesStill, node
<1>10. ASSUME NEW j \in Job, NEW g \in Generations(j)
       PROVE  SameAttempt(j, g) \/ AttemptMoves(j, g)
  <2>1. CASE attempts[j][g].agent = a /\ attempts[j][g].state = "route_leased"
    <3>1. MovesTo(j, g, "superseded") /\ ~attempts'[j][g].reserved
      BY <1>5, <1>6, <1>8, <2>1 DEF MovesTo
    <3> QED
      BY <1>9, <2>1, <3>1, AttemptWithdrawn DEF CloudInv, Withdrawal
  <2>2. CASE ~(attempts[j][g].agent = a /\ attempts[j][g].state = "route_leased")
    <3>1. attempts'[j][g] = attempts[j][g]
      BY <1>5, <2>2
    <3> QED
      BY <1>8, <3>1 DEF SameAttempt
  <2> QED
    BY <2>1, <2>2
<1>11. AttemptsMove
  BY <1>2, <1>8, <1>10, AttemptsMoved
<1>12. ServerTypeOK'
  <2>1. destination' \in {"available", "attention", "unavailable"}
    BY DEF RevokeAgent, TypeOK, ServerTypeOK
  <2>2. admission' \in [Agent -> {"active", "connector_revoked", "revoked"}]
    BY DEF RevokeAgent, TypeOK, ServerTypeOK
  <2> QED
    BY <1>1, <1>8, <2>1, <2>2 DEF ServerTypeOK, TypeOK, RevokeAgent, JobRow
<1> QED
  BY <1>2, <1>11, <1>12, ServerFrame DEF RevokeAgent

\* Revoking a connector or an agent preserves the invariant.
LEMMA RevokeStep ==
  ASSUME TypeOK, CloudInv, NEW a \in Agent, Revoke(a)
  PROVE  TypeOK' /\ CloudInv'
<1>1. faults' \in Nat /\ UNCHANGED <<node, work, printed>>
  BY DEF Revoke, Fault, TypeOK
<1> QED
  BY <1>1, RevokeConnectorStep, RevokeAgentStep DEF Revoke

\* Every step the server takes by itself preserves the invariant.
LEMMA ServerSteps ==
  ASSUME TypeOK, CloudInv, NEW j \in Job, ServerStep(j)
  PROVE  TypeOK' /\ CloudInv'
BY DeadlineStep, ExpireStep, CancellationStep, EnqueueStep, RerouteStep DEF ServerStep

-----------------------------------------------------------------------------
(* Steps of a worker that touch nothing but the worker.                    *)

\* A worker that has nothing in hand.
LEMMA RestingWork ==
  ASSUME NEW a, work'[a].pc \in {"idle", "snapshot"}
  PROVE  WorkInv(a)'
BY DEF WorkInv, ResumesPending, RequestIsCovered, OfferIsOpen, BatchIsComplete, ResumePc, StagePc,
       RequestPc, HandledPc, BatchPc, OfferPc

\* A worker that resumes what is pending.
LEMMA ResumingWork ==
  ASSUME NEW a, work'[a].pc \in ResumePc, work'[a].todo \subseteq PendingAccepts(a)',
         work'[a].pc \in StagePc => work'[a].job \in work'[a].todo
  PROVE  WorkInv(a)'
<1>1. work'[a].pc \notin {"gather", "apply"} \cup RequestPc \cup OfferPc \cup BatchPc
  BY DEF ResumePc, StagePc, RequestPc, HandledPc, BatchPc, OfferPc
<1>2. ResumesPending(a)'
  BY DEF ResumesPending
<1>3. RequestIsCovered(a)'
  BY <1>1 DEF RequestIsCovered, RequestPc, HandledPc
<1>4. OfferIsOpen(a)' /\ BatchIsComplete(a)'
  BY <1>1 DEF OfferIsOpen, BatchIsComplete, RequestPc, HandledPc
<1> QED
  BY <1>2, <1>3, <1>4 DEF WorkInv

\* A worker goes elsewhere and nothing else happens.
WorkOnly(a, w) ==
  /\ Goto(a, w) /\ w \in Work /\ w.pc # "activate" /\ faults' \in Nat
  /\ UNCHANGED <<server, node, printed>>

\* A step that changes one worker's cycle alone preserves the invariant if the cycle is sound.
LEMMA WorkOnlyFrame ==
  ASSUME TypeOK, CloudInv, NEW a \in Agent, NEW w, WorkOnly(a, w), WorkInv(a)'
  PROVE  TypeOK' /\ CloudInv'
<1>1. work' \in [Agent -> Work] /\ work'[a] = w /\ \A b \in Agent : b # a => work'[b] = work[b]
  BY DEF WorkOnly, Goto, TypeOK
<1>2. TypeOK'
  BY <1>1 DEF TypeOK, WorkOnly, ServerTypeOK, server, node, outbox, commanded
<1>3. Quiet
  BY <1>1 DEF Quiet, WorkOnly, server, node, outbox, commanded
<1>4. AttemptsMove
  BY <1>3, AttemptsSame DEF WorkOnly, server
<1> QED
  BY <1>1, <1>2, <1>3, <1>4, HandlerFrame DEF WorkOnly, server

\* A request in the hands of the server, before any command was fetched.
LEMMA RequestWork ==
  ASSUME NEW a, work'[a].pc \in {"handoffs", "events", "project", "commands"},
         RequestIsCovered(a)', work'[a].req.cursor = cursor'[a]
  PROVE  WorkInv(a)'
<1>1. work'[a].pc \notin ResumePc \cup OfferPc \cup BatchPc \cup {"apply", "retire"}
  BY DEF ResumePc, StagePc, HandledPc, BatchPc, OfferPc
<1>2. ResumesPending(a)' /\ OfferIsOpen(a)' /\ BatchIsComplete(a)'
  BY <1>1 DEF ResumesPending, OfferIsOpen, BatchIsComplete
<1> QED
  BY <1>2 DEF WorkInv

\* The request is what the node has.
Covers(a, req) == req \in Request /\ req.events <= Len(events[a]) /\ req.cursor = cursor[a]
SameOutbox(a) == events'[a] = events[a] /\ evidence'[a] = evidence[a] /\ cursor'[a] = cursor[a]

\* At event n of a request, or past them all, the handler is in a sound state.
LEMMA EventsReached ==
  ASSUME TypeOK, NEW a \in Agent, NEW req, Covers(a, req), NEW n \in Nat \ {0}, SameOutbox(a),
         \A m \in 1..(n - 1) : m \in receipts'[a],
         NEW w, w = Reach(req, "events", n), work'[a] = w
  PROVE  w \in Work /\ w.pc # "activate" /\ WorkInv(a)'
<1>1. req.events \in Nat /\ req.evidence \in Nat /\ req \in Request
  BY DEF Covers, Request
<1>2. CASE n <= req.events
  <2>1. w = [pc |-> "events", req |-> req, at |-> n]
    BY <1>2 DEF Reach
  <2>2. w \in Work
    BY <1>1, <2>1, HandlerMade
  <2>3. RequestIsCovered(a)'
    BY <1>1, <1>2, <2>1 DEF RequestIsCovered, Covers, SameOutbox, HandledPc
  <2> QED
    BY <2>1, <2>2, <2>3, RequestWork DEF Covers, SameOutbox
<1>3. CASE ~(n <= req.events)
  <2>1. w = [pc |-> "commands", req |-> req]
    BY <1>3 DEF Reach
  <2>2. w \in Work
    BY <1>1, <2>1, HandlerMade
  <2>3. \A m \in 1..req.events : m \in 1..(n - 1)
    BY <1>1, <1>3
  <2>4. RequestIsCovered(a)'
    BY <2>1, <2>3 DEF RequestIsCovered, HandledPc
  <2> QED
    BY <2>1, <2>2, <2>4, RequestWork DEF Covers, SameOutbox
<1> QED
  BY <1>2, <1>3

\* At handoff n of a request, or past them all, the handler is in a sound state.
LEMMA HandoffsReached ==
  ASSUME TypeOK, NEW a \in Agent, NEW req, Covers(a, req), req.evidence <= Len(evidence[a]),
         NEW n \in Nat \ {0}, SameOutbox(a),
         \A m \in 1..acked[a] : m \in receipts'[a],
         NEW w, w = AfterHandoffs(a, req, n), work'[a] = w
  PROVE  w \in Work /\ w.pc # "activate" /\ WorkInv(a)'
<1>1. req.events \in Nat /\ req.evidence \in Nat /\ req \in Request
  BY DEF Covers, Request
<1>2. CASE n <= req.evidence
  <2>1. w = [pc |-> "handoffs", req |-> req, at |-> n]
    BY <1>2 DEF Reach, AfterHandoffs
  <2>2. w \in Work
    BY <1>1, <2>1, HandlerMade
  <2>3. RequestIsCovered(a)'
    BY <1>1, <1>2, <2>1 DEF RequestIsCovered, Covers, SameOutbox, HandledPc
  <2> QED
    BY <2>1, <2>2, <2>3, RequestWork DEF Covers, SameOutbox
<1>3. CASE ~(n <= req.evidence)
  <2>1. PICK k : k = acked[a] + 1
    OBVIOUS
  <2>2. k \in Nat \ {0} /\ k - 1 = acked[a]
    BY <2>1 DEF TypeOK
  <2>3. w = Reach(req, "events", k)
    BY <1>3, <2>1 DEF AfterHandoffs
  <2> QED
    BY <2>2, <2>3, EventsReached
<1> QED
  BY <1>2, <1>3

\* The worker reads its outbox before it sends.
LEMMA GatherWork ==
  ASSUME TypeOK, NEW a \in Agent, work'[a] = Snapshot(a), events'[a] = events[a]
  PROVE  Snapshot(a) \in Work /\ Snapshot(a).pc # "activate" /\ WorkInv(a)'
<1>1. Len(events[a]) \in Nat
  BY EventFields
<1>2. Snapshot(a) \in Work
  BY <1>1, CycleMade DEF Snapshot
<1>3. work'[a].pc = "gather" /\ work'[a].events = Len(events'[a])
  BY DEF Snapshot
<1> QED
  BY <1>1, <1>2, <1>3 DEF WorkInv, ResumesPending, RequestIsCovered, OfferIsOpen, BatchIsComplete,
     ResumePc, StagePc, RequestPc, HandledPc, BatchPc, OfferPc

\* Starting a worker's cycle preserves the invariant.
LEMMA StartStep ==
  ASSUME TypeOK, CloudInv, NEW a \in Agent, StartCycle(a)
  PROVE  TypeOK' /\ CloudInv'
<1>1. /\ work'[a] = IF PendingAccepts(a) = {} THEN Snapshot(a) ELSE Resuming(a, "snapshot")
      /\ events' = events /\ intent' = intent /\ faults' \in Nat
  BY DEF StartCycle, Goto, TypeOK, node, history
<1>2. CASE PendingAccepts(a) = {}
  <2>1. Snapshot(a) \in Work /\ Snapshot(a).pc # "activate" /\ WorkInv(a)'
    BY <1>1, <1>2, GatherWork
  <2>2. PICK w : w = Snapshot(a)
    OBVIOUS
  <2>3. WorkOnly(a, w)
    BY <1>1, <1>2, <2>1, <2>2 DEF WorkOnly, StartCycle, history
  <2> QED
    BY <2>1, <2>3, WorkOnlyFrame
<1>3. CASE PendingAccepts(a) # {}
  <2>1. PICK w : w = [pc |-> "resume", todo |-> PendingAccepts(a), next |-> "snapshot"]
    OBVIOUS
  <2>2. w \in Work /\ work'[a] = w /\ w.pc = "resume" /\ PendingAccepts(a)' = PendingAccepts(a)
    BY <1>1, <1>3, <2>1, CycleMade DEF Resuming, PendingAccepts
  <2>3. WorkInv(a)'
    BY <2>1, <2>2, ResumingWork DEF ResumePc, StagePc
  <2>4. WorkOnly(a, w)
    BY <1>1, <1>3, <2>1, <2>2 DEF WorkOnly, StartCycle, history, Resuming
  <2> QED
    BY <2>3, <2>4, WorkOnlyFrame
<1> QED
  BY <1>2, <1>3

\* The worker leaves the resumption.
LEMMA DoneWork ==
  ASSUME NEW next, NEW a, work'[a] = Done(next)
  PROVE  Done(next) \in Work /\ Done(next).pc # "activate" /\ WorkInv(a)'
<1>1. work'[a].pc \in {"idle", "snapshot"}
  BY DEF Done, Idle
<1>2. Done(next) \in Work
  BY CycleMade DEF Done
<1> QED
  BY <1>1, <1>2, RestingWork

\* Resuming the prepared acceptances preserves the invariant.
LEMMA ResumeStep ==
  ASSUME TypeOK, CloudInv, NEW a \in Agent, ResumeNext(a)
  PROVE  TypeOK' /\ CloudInv'
<1>1. /\ work[a] \in Work /\ work[a].pc = "resume" /\ faults' \in Nat /\ intent' = intent
      /\ PendingAccepts(a)' = PendingAccepts(a)
  BY DEF ResumeNext, At, TypeOK, node, history, PendingAccepts
<1>2. /\ work[a].todo \in SUBSET Job /\ work[a].next \in {"snapshot", "idle"}
      /\ work[a].todo \subseteq PendingAccepts(a)
  BY <1>1, WorkFields DEF CloudInv, AgentInv, WorkInv, ResumesPending, ResumePc
<1>3. CASE work[a].todo = {}
  <2>1. PICK w : w = Done(work[a].next)
    OBVIOUS
  <2>2. Goto(a, w) /\ work'[a] = w
    BY <1>3, <2>1 DEF ResumeNext, Goto, TypeOK
  <2>3. PICK next : next = work[a].next
    OBVIOUS
  <2>4. w \in Work /\ w.pc # "activate" /\ WorkInv(a)'
    BY <2>1, <2>2, <2>3, DoneWork
  <2>5. WorkOnly(a, w)
    BY <1>1, <2>2, <2>4 DEF WorkOnly, ResumeNext, history
  <2> QED
    BY <2>4, <2>5, WorkOnlyFrame
<1>4. CASE work[a].todo # {}
  <2>1. PICK j \in work[a].todo :
          Goto(a, [pc |-> "reconcile", todo |-> work[a].todo, next |-> work[a].next, job |-> j,
                   fresh |-> FALSE])
    BY <1>4 DEF ResumeNext
  <2>2. PICK w : w = [pc |-> "reconcile", todo |-> work[a].todo, next |-> work[a].next, job |-> j,
                      fresh |-> FALSE]
    OBVIOUS
  <2>3. w \in Work
    BY <1>2, <2>2, CycleMade DEF StagePc
  <2>4. Goto(a, w) /\ work'[a] = w
    BY <2>1, <2>2 DEF Goto, TypeOK
  <2>5. WorkInv(a)'
    BY <1>1, <1>2, <2>2, <2>4, ResumingWork DEF ResumePc, StagePc
  <2>6. WorkOnly(a, w)
    BY <1>1, <2>2, <2>3, <2>4 DEF WorkOnly, ResumeNext, history
  <2> QED
    BY <2>5, <2>6, WorkOnlyFrame
<1> QED
  BY <1>3, <1>4

\* Building the sync request from outbox and journal preserves the invariant.
LEMMA BuildStep ==
  ASSUME TypeOK, CloudInv, NEW a \in Agent, BuildRequest(a)
  PROVE  TypeOK' /\ CloudInv'
<1>1. work'[a] = Snapshot(a) /\ events' = events /\ faults' \in Nat
  BY DEF BuildRequest, Goto, TypeOK, node, history
<1>2. Snapshot(a) \in Work /\ Snapshot(a).pc # "activate" /\ WorkInv(a)'
  BY <1>1, GatherWork
<1>3. PICK w : w = Snapshot(a)
  OBVIOUS
<1>4. WorkOnly(a, w)
  BY <1>1, <1>2, <1>3 DEF WorkOnly, BuildRequest, history
<1> QED
  BY <1>2, <1>4, WorkOnlyFrame

\* A worker that gives up does nothing else.
LEMMA IdleStep ==
  ASSUME TypeOK, CloudInv, NEW a \in Agent, Goto(a, Idle), faults' \in Nat,
         UNCHANGED <<server, node, printed>>
  PROVE  TypeOK' /\ CloudInv'
<1>1. Idle \in Work /\ Idle.pc = "idle" /\ work'[a] = Idle
  BY CycleMade DEF Idle, Goto, TypeOK
<1>2. WorkOnly(a, Idle) /\ WorkInv(a)'
  BY <1>1, RestingWork DEF WorkOnly
<1> QED
  BY <1>2, WorkOnlyFrame

\* Sending the sync request preserves the invariant.
LEMMA SendStep ==
  ASSUME TypeOK, CloudInv, NEW a \in Agent, Send(a)
  PROVE  TypeOK' /\ CloudInv'
<1>1. /\ work[a] \in Work /\ work[a].pc = "gather" /\ faults' \in Nat
      /\ UNCHANGED <<server, node, printed>>
  BY DEF Send, At, TypeOK, history
<1>2. PICK req : req = [events |-> work[a].events, evidence |-> Len(evidence[a]), cursor |-> cursor[a]]
  OBVIOUS
<1>3. Covers(a, req) /\ req.evidence <= Len(evidence[a])
  <2>1. work[a].events \in Nat /\ Len(evidence[a]) \in Nat /\ cursor[a] \in Nat
    BY <1>1, WorkFields, EvidenceFields DEF TypeOK
  <2>2. work[a].events <= Len(events[a])
    BY <1>1 DEF CloudInv, AgentInv, WorkInv, RequestIsCovered
  <2> QED
    BY <1>2, <2>1, <2>2 DEF Covers, Request
<1>4. CASE admission[a] # "active"
  <2>1. Goto(a, Idle)
    BY <1>4 DEF Send
  <2> QED
    BY <1>1, <2>1, IdleStep
<1>5. CASE admission[a] = "active"
  <2>1. PICK n : n = evidenceAcked[a] + 1
    OBVIOUS
  <2>2. n \in Nat \ {0}
    BY <2>1 DEF TypeOK
  <2>3. PICK w : w = AfterHandoffs(a, req, n)
    OBVIOUS
  <2>4. Goto(a, w) /\ work'[a] = w
    BY <1>2, <1>5, <2>1, <2>3 DEF Send, Goto, TypeOK
  <2>5. SameOutbox(a) /\ \A m \in 1..acked[a] : m \in receipts'[a]
    BY <1>1 DEF SameOutbox, server, node, commanded, CloudInv, AgentInv, NodeInv
  <2>6. w \in Work /\ w.pc # "activate" /\ WorkInv(a)'
    BY <1>3, <2>2, <2>3, <2>4, <2>5, HandoffsReached
  <2>7. WorkOnly(a, w)
    BY <1>1, <2>4, <2>6 DEF WorkOnly
  <2> QED
    BY <2>6, <2>7, WorkOnlyFrame
<1> QED
  BY <1>4, <1>5

\* What is left to resume once a job is passed over.
LEMMA SkipWork ==
  ASSUME TypeOK, NEW a \in Agent, work[a].pc \in StagePc, NEW w, w = Skip(a), work'[a] = w,
         work[a].todo \ {work[a].job} \subseteq PendingAccepts(a)'
  PROVE  w \in Work /\ w.pc # "activate" /\ WorkInv(a)'
<1>1. work[a].todo \in SUBSET Job /\ work[a].next \in {"snapshot", "idle"}
  BY WorkFields DEF TypeOK, ResumePc
<1>2. CASE work[a].todo = {work[a].job}
  <2>1. PICK next : next = work[a].next
    OBVIOUS
  <2> QED
    BY <1>2, <2>1, DoneWork DEF Skip
<1>3. CASE work[a].todo # {work[a].job}
  <2>1. w = [pc |-> "resume", todo |-> work[a].todo \ {work[a].job}, next |-> work[a].next]
    BY <1>3 DEF Skip
  <2>2. w \in Work
    BY <1>1, <2>1, CycleMade
  <2> QED
    BY <2>1, <2>2, ResumingWork DEF ResumePc, StagePc
<1> QED
  BY <1>2, <1>3

\* A reconciliation call that is lost preserves the invariant.
LEMMA ReconcileLostStep ==
  ASSUME TypeOK, CloudInv, NEW a \in Agent, ReconcileLost(a)
  PROVE  TypeOK' /\ CloudInv'
<1>1. /\ work[a].pc = "reconcile" /\ faults' \in Nat /\ PendingAccepts(a)' = PendingAccepts(a)
  BY DEF ReconcileLost, At, Fault, TypeOK, node, PendingAccepts
<1>2. PICK w : w = Skip(a)
  OBVIOUS
<1>3. Goto(a, w) /\ work'[a] = w
  BY <1>2 DEF ReconcileLost, Goto, TypeOK
<1>4. work[a].todo \subseteq PendingAccepts(a)
  BY <1>1 DEF CloudInv, AgentInv, WorkInv, ResumesPending, ResumePc, StagePc
<1>5. w \in Work /\ w.pc # "activate" /\ WorkInv(a)'
  BY <1>1, <1>2, <1>3, <1>4, SkipWork DEF StagePc
<1>6. WorkOnly(a, w)
  BY <1>1, <1>3, <1>5 DEF WorkOnly, ReconcileLost
<1> QED
  BY <1>5, <1>6, WorkOnlyFrame

\* A sync request or response that is lost preserves the invariant.
LEMMA SyncLostStep ==
  ASSUME TypeOK, CloudInv, NEW a \in Agent, SyncLost(a)
  PROVE  TypeOK' /\ CloudInv'
<1>1. faults' \in Nat
  BY DEF SyncLost, Fault, TypeOK
<1> QED
  BY <1>1, IdleStep DEF SyncLost

-----------------------------------------------------------------------------
(* What the sync handler makes of evidence and events.                     *)

\* What moving an attempt changes of it, and what it leaves.
LEMMA MovedFields ==
  ASSUME NEW t \in Attempt, NEW to \in AttemptState
  PROVE  /\ Moved(t, to) \in Attempt /\ Moved(t, to).state = to /\ Moved(t, to).agent = t.agent
         /\ Moved(t, to).resolution = t.resolution
         /\ to \in FinalAttempt \cup {"accepted_by_spooler"} => ~Moved(t, to).reserved
         /\ to \in {"handing_to_spooler", "printing_reported"} => (Moved(t, to).reserved <=> t.reserved)
<1>1. CASE to \in FinalAttempt
  <2>1. Moved(t, to) = Ended(t, to)
    BY <1>1 DEF Moved
  <2>2. to \notin {"handing_to_spooler", "printing_reported"}
    BY <1>1 DEF FinalAttempt
  <2> QED
    BY <1>1, <2>1, <2>2, EndedFields
<1>2. CASE to \notin FinalAttempt
  <2>1. Moved(t, to) = [t EXCEPT !.state = to, !.reserved = t.reserved /\ to # "accepted_by_spooler"]
    BY <1>2 DEF Moved
  <2>2. (t.reserved /\ to # "accepted_by_spooler") \in BOOLEAN
    OBVIOUS
  <2>3. PICK b \in BOOLEAN : b = (t.reserved /\ to # "accepted_by_spooler")
    BY <2>2
  <2>4. Moved(t, to) = [t EXCEPT !.state = to, !.reserved = b]
    BY <2>1, <2>3
  <2>5. /\ Moved(t, to) \in Attempt /\ Moved(t, to).state = to /\ Moved(t, to).agent = t.agent
        /\ Moved(t, to).resolution = t.resolution /\ Moved(t, to).reserved = b
    BY <2>4 DEF Attempt
  <2> QED
    BY <1>2, <2>3, <2>5
<1> QED
  BY <1>1, <1>2

\* An attempt moves as its node has evidence of.
LEMMA MoveMoves ==
  ASSUME TypeOK, CloudInv, Quiet, NEW j \in Job, NEW g \in Generations(j),
         NEW to \in {"handing_to_spooler", "accepted_by_spooler", "printing_reported",
                     "completed_reported", "failed", "delivery_uncertain"},
         attempts' = [attempts EXCEPT ![j][g] = Moved(attempts[j][g], to)],
         NEW n \in DOMAIN evidence[attempts[j][g].agent], Witness(attempts[j][g].agent, j, g, n),
         to \in {"accepted_by_spooler", "printing_reported", "completed_reported"} =>
           evidence[attempts[j][g].agent][n].outcome = "accepted",
         to = "failed" => evidence[attempts[j][g].agent][n].outcome # "ambiguous",
         to = "handing_to_spooler" => attempts[j][g].reserved,
         to = "printing_reported" => ~attempts[j][g].reserved
  PROVE  AttemptsMove /\ attempts' \in [Job -> Seq(Attempt)]
<1>1. attempts[j][g] \in Attempt /\ to \in AttemptState
  BY AttemptFields DEF AttemptState, FinalAttempt
<1>2. PICK t : t = Moved(attempts[j][g], to)
  OBVIOUS
<1>3. /\ t \in Attempt /\ t.state = to /\ t.agent = attempts[j][g].agent
      /\ t.resolution = attempts[j][g].resolution
  BY <1>1, <1>2, MovedFields
<1>4. t.reserved <=> to = "handing_to_spooler"
  BY <1>1, <1>2, MovedFields DEF FinalAttempt
<1>5. /\ attempts' \in [Job -> Seq(Attempt)] /\ attempts'[j][g] = t
      /\ \A i \in Job : DOMAIN attempts'[i] = Generations(i)
      /\ \A i \in Job : \A h \in Generations(i) :
           i # j \/ h # g => attempts'[i][h] = attempts[i][h]
  <2>1. attempts' = [attempts EXCEPT ![j][g] = t]
    BY <1>2
  <2>2. t \in Attempt
    BY <1>3
  <2>3. Replaced(j, g, t)
    BY <2>1, <2>2, AttemptSet
  <2> QED
    BY <2>3 DEF Replaced
<1>6. NodesStill
  BY DEF Quiet, NodesStill, node
<1>7. MovesTo(j, g, to)
  BY <1>3, <1>5 DEF MovesTo
<1>8. AttemptMoves(j, g)
  BY <1>4, <1>5, <1>6, <1>7, AttemptReported, ZenonT(30) DEF CloudInv
<1>9. \A i \in Job : \A h \in Generations(i) : SameAttempt(i, h) \/ AttemptMoves(i, h)
  BY <1>5, <1>8 DEF SameAttempt
<1> QED
  BY <1>5, <1>9, AttemptsMoved

\* ingest_native_handoffs: a transition follows the evidence.
LEMMA HandoffStep ==
  ASSUME TypeOK, CloudInv, NEW a \in Agent, IngestHandoff(a)
  PROVE  TypeOK' /\ CloudInv'
<1>1. /\ work[a] \in Work /\ work[a].pc = "handoffs" /\ faults' \in Nat
      /\ UNCHANGED <<node, printed>> /\ AgentInv(a)
  BY DEF IngestHandoff, At, TypeOK, history, CloudInv
<1>2. PICK n, e, r, req : /\ n = work[a].at /\ e = evidence[a][n] /\ req = work[a].req
                          /\ r = HandoffResult(a, e.job, e.gen, e.outcome)
  OBVIOUS
<1>3. /\ n \in Nat /\ 1 <= n /\ n <= req.evidence /\ req.evidence <= Len(evidence[a])
      /\ Covers(a, req)
  BY <1>1, <1>2, WorkFields DEF AgentInv, WorkInv, RequestIsCovered, BatchIsComplete, Covers,
     RequestPc, HandledPc, Request
<1>4. n \in DOMAIN evidence[a] /\ e.job \in Job /\ e.gen \in Nat
      /\ e.outcome \in {"accepted", "rejected", "retryable", "ambiguous"}
  BY <1>2, <1>3, EvidenceFields DEF Covers, Request
<1>5. CASE r = "refused"
  <2>1. Goto(a, Idle) /\ UNCHANGED server
    BY <1>2, <1>5 DEF IngestHandoff
  <2> QED
    BY <1>1, <2>1, IdleStep
<1>6. CASE r = "known"
  <2>1. PICK w, m : m = n + 1 /\ w = AfterHandoffs(a, req, m)
    OBVIOUS
  <2>2. Goto(a, w) /\ work'[a] = w /\ UNCHANGED server
    BY <1>2, <1>6, <2>1 DEF IngestHandoff, Goto, TypeOK
  <2>3. SameOutbox(a) /\ \A k \in 1..acked[a] : k \in receipts'[a]
    BY <1>1, <2>2 DEF SameOutbox, server, node, commanded, AgentInv, NodeInv
  <2>4. m \in Nat \ {0}
    BY <1>3, <2>1
  <2>5. w \in Work /\ w.pc # "activate" /\ WorkInv(a)'
    BY <1>3, <2>1, <2>2, <2>3, <2>4, HandoffsReached
  <2>6. WorkOnly(a, w)
    BY <1>1, <2>2, <2>5 DEF WorkOnly
  <2> QED
    BY <2>5, <2>6, WorkOnlyFrame
<1>7. CASE r \notin {"refused", "known"}
  <2>1. MoveAttempt(e.job, e.gen, r) /\ work' = work
    BY <1>2, <1>7 DEF IngestHandoff
  <2>2. PICK j, g : j = e.job /\ g = e.gen
    OBVIOUS
  <2>3. /\ g \in Generations(j) /\ attempts[j][g].agent = a
        /\ \/ attempts[j][g].state = "queued_local" /\ r = "handing_to_spooler"
           \/ /\ attempts[j][g].state = "handing_to_spooler"
              /\ r = CASE e.outcome = "accepted" -> "accepted_by_spooler"
                       [] e.outcome = "ambiguous" -> "delivery_uncertain" [] OTHER -> "failed"
    <3>1. g \in Generations(j) /\ attempts[j][g].agent = a
      <4>1. Mine(a, j) /\ acceptance[j].gen = g
        BY <1>1, <1>2, <1>4, <2>2, SMTT(30) DEF AgentInv, NodeInv, HandoffsAreAccepted
      <4> QED
        BY <1>4, <2>2, <4>1 DEF CloudInv, AttemptInv, AcceptedIsOpen, Mine
    <3>2. attempts[j][g].state = "queued_local" => r = "handing_to_spooler"
      BY <1>2, <2>2, <3>1, SMTT(30) DEF HandoffResult
    <3>3. attempts[j][g].state = "handing_to_spooler" =>
            r = CASE e.outcome = "accepted" -> "accepted_by_spooler"
                  [] e.outcome = "ambiguous" -> "delivery_uncertain" [] OTHER -> "failed"
      BY <1>2, <2>2, <3>1 DEF HandoffResult
    <3>4. attempts[j][g].state \notin {"queued_local", "handing_to_spooler"} => r = "known"
      BY <1>2, <2>2, <3>1, Zenon DEF HandoffResult
    <3> QED
      BY <1>7, <3>1, <3>2, <3>3, <3>4
  <2>4. attempts[j][g].state = "queued_local" => attempts[j][g].reserved
    BY <1>4, <2>2, <2>3 DEF CloudInv, AttemptInv, AttemptIsWitnessed
  <2>5. Quiet
    BY <1>1, <2>1 DEF Quiet, MoveAttempt
  <2>6. Witness(a, j, g, n)
    BY <1>2, <1>4, <2>2, SMTT(30) DEF Witness
  <2>7. /\ r \in {"handing_to_spooler", "accepted_by_spooler", "failed", "delivery_uncertain"}
        /\ r = "accepted_by_spooler" => evidence[a][n].outcome = "accepted"
        /\ r = "failed" => evidence[a][n].outcome # "ambiguous"
        /\ r = "handing_to_spooler" => attempts[j][g].state = "queued_local"
    BY <1>2, <2>3
  <2>8. attempts' = [attempts EXCEPT ![j][g] = Moved(attempts[j][g], r)] /\ j \in Job
    BY <1>4, <2>1, <2>2 DEF MoveAttempt
  <2>9. AttemptsMove /\ attempts' \in [Job -> Seq(Attempt)]
    BY <1>4, <2>3, <2>4, <2>5, <2>6, <2>7, <2>8, MoveMoves
  <2>10. ServerTypeOK'
    BY <2>1, <2>9 DEF MoveAttempt, Attend, ServerTypeOK, TypeOK
  <2> QED
    BY <2>1, <2>5, <2>9, <2>10, ServerFrame DEF MoveAttempt
<1> QED
  BY <1>5, <1>6, <1>7

\* The event in hand, of a request under way.
LEMMA EventInHand ==
  ASSUME TypeOK, CloudInv, NEW a \in Agent, work[a].pc \in {"events", "project"},
         NEW n, n = work[a].at, NEW e, e = events[a][n], NEW req, req = work[a].req
  PROVE  /\ n \in Nat \ {0} /\ n \in DOMAIN events[a] /\ Covers(a, req) /\ n <= req.events
         /\ \A m \in 1..(n - 1) : m \in receipts[a]
         /\ work[a].pc = "project" => n \in receipts[a]
         /\ e.job \in Job /\ e.state \in JobState /\ e.state # "agent_accepted" /\ Mine(a, e.job)
         /\ e.state = "completed_reported" => printed[a][e.job] = 1
<1>1. work[a] \in Work /\ AgentInv(a)
  BY DEF TypeOK, CloudInv
<1>2. n \in Nat /\ req \in Request /\ req.events \in Nat
  BY <1>1, WorkFields DEF RequestPc, Request
<1>3. /\ 1 <= n /\ n <= req.events /\ req.events <= Len(events[a])
      /\ \A m \in 1..(n - 1) : m \in receipts[a]
      /\ work[a].pc = "project" => n \in receipts[a]
  BY <1>1 DEF AgentInv, WorkInv, RequestIsCovered
<1>4. req.cursor = cursor[a]
  BY <1>1 DEF AgentInv, WorkInv, BatchIsComplete, RequestPc
<1>5. n \in DOMAIN events[a]
  BY <1>2, <1>3, EventFields
<1>6. e.job \in Job /\ e.state \in JobState
  BY <1>5, EventFields
<1>7. /\ e.state # "agent_accepted" /\ Mine(a, e.job)
      /\ e.state = "completed_reported" => printed[a][e.job] = 1
  BY <1>1, <1>5 DEF AgentInv, NodeInv, EventsAreAccepted
<1> QED
  BY <1>2, <1>3, <1>4, <1>5, <1>6, <1>7 DEF Covers

\* The handler passes to the projection of an event it has a receipt of.
LEMMA ProjectWork ==
  ASSUME TypeOK, NEW a \in Agent, NEW req, Covers(a, req), NEW n \in Nat \ {0}, n <= req.events,
         SameOutbox(a), \A m \in 1..(n - 1) : m \in receipts'[a], n \in receipts'[a],
         NEW w, w = [pc |-> "project", req |-> req, at |-> n], work'[a] = w
  PROVE  w \in Work /\ w.pc # "activate" /\ WorkInv(a)'
<1>1. req \in Request
  BY DEF Covers
<1>2. w \in Work
  BY <1>1, HandlerMade
<1>3. RequestIsCovered(a)'
  BY DEF RequestIsCovered, Covers, SameOutbox, HandledPc
<1> QED
  BY <1>2, <1>3, RequestWork DEF Covers, SameOutbox

\* apply_agent_event: a receipt, and the job where the event says.
LEMMA EventStep ==
  ASSUME TypeOK, CloudInv, NEW a \in Agent, IngestEvent(a)
  PROVE  TypeOK' /\ CloudInv'
<1>1. /\ work[a] \in Work /\ work[a].pc = "events" /\ faults' \in Nat
      /\ UNCHANGED <<node, printed>>
  BY DEF IngestEvent, At, TypeOK, history
<1>2. PICK n, e, r, req : /\ n = work[a].at /\ e = events[a][n] /\ req = work[a].req
                          /\ r = EventResult(a, n, e.job, e.state)
  OBVIOUS
<1>3. /\ n \in Nat \ {0} /\ n \in DOMAIN events[a] /\ Covers(a, req) /\ n <= req.events
      /\ \A m \in 1..(n - 1) : m \in receipts[a]
      /\ e.job \in Job /\ e.state \in JobState /\ e.state # "agent_accepted"
  BY <1>1, <1>2, EventInHand
<1>4. SameOutbox(a)
  BY <1>1 DEF SameOutbox, node, commanded
<1>5. CASE r = "refused"
  <2>1. Goto(a, Idle) /\ UNCHANGED server
    BY <1>2, <1>5 DEF IngestEvent
  <2> QED
    BY <1>1, <2>1, IdleStep
<1>6. CASE r = "applied"
  <2>1. PICK w : w = [pc |-> "project", req |-> req, at |-> n]
    OBVIOUS
  <2>2. ApplyEvent(a, n, e.job, e.state) /\ Goto(a, w)
    BY <1>2, <1>6, <2>1 DEF IngestEvent
  <2>3. /\ receipts' \in [Agent -> SUBSET Nat]
        /\ \A b \in Agent : receipts[b] \subseteq receipts'[b]
        /\ n \in receipts'[a]
    BY <1>3, <2>2 DEF ApplyEvent, TypeOK, ServerTypeOK
  <2>4. /\ work' \in [Agent -> Work] /\ work'[a] = w /\ \A b \in Agent : b # a => work'[b] = work[b]
        /\ WorkInv(a)' /\ w.pc # "activate"
    <3>1. work'[a] = w /\ \A b \in Agent : b # a => work'[b] = work[b]
      BY <2>2 DEF Goto, TypeOK
    <3>2. \A m \in 1..(n - 1) : m \in receipts'[a]
      BY <1>3, <2>3
    <3>3. w \in Work /\ WorkInv(a)' /\ w.pc # "activate"
      BY <1>3, <1>4, <2>1, <2>3, <3>1, <3>2, ProjectWork
    <3> QED
      BY <2>2, <3>1, <3>3 DEF Goto, TypeOK
  <2>5. PICK row : row = [jobs[e.job] EXCEPT !.state = e.state]
    OBVIOUS
  <2>6. row \in JobRow /\ row.state = e.state
    BY <1>3, <2>5, JobFields DEF JobRow
  <2>7. jobs' = [jobs EXCEPT ![e.job] = row]
    BY <1>3, <2>2, <2>5, JobFields DEF ApplyEvent
  <2>8. /\ jobs' \in [Job -> JobRow] /\ jobs'[e.job].state # "agent_accepted"
        /\ \A i \in Job : i # e.job => jobs'[i] = jobs[i]
    BY <1>3, <2>6, <2>7, JobSet
  <2>9. Quiet
    BY <1>1, <2>2, <2>3, <2>4, <2>8 DEF Quiet, ApplyEvent
  <2>10. attempts' = attempts /\ commands' = commands
    BY <2>2 DEF ApplyEvent
  <2>11. AttemptsMove
    BY <2>9, <2>10, AttemptsSame
  <2>12. TypeOK'
    <3>1. ServerTypeOK'
      BY <2>2, <2>3, <2>8 DEF ServerTypeOK, TypeOK, ApplyEvent, JobRow
    <3> QED
      BY <1>1, <2>4, <3>1 DEF TypeOK, node, outbox, commanded
  <2> QED
    BY <2>4, <2>9, <2>10, <2>11, <2>12, HandlerFrame
<1>7. CASE r \notin {"refused", "applied"}
  <2>1. n \in receipts[a]
    BY <1>2, <1>7 DEF EventResult
  <2>2. PICK w : w = IF jobs[e.job].state = e.state THEN [pc |-> "project", req |-> req, at |-> n]
                     ELSE Reach(req, "events", n + 1)
    OBVIOUS
  <2>3. Goto(a, w) /\ work'[a] = w /\ UNCHANGED server
    BY <1>2, <1>7, <2>2 DEF IngestEvent, Goto, TypeOK
  <2>4. receipts' = receipts
    BY <2>3 DEF server
  <2>5. w \in Work /\ w.pc # "activate" /\ WorkInv(a)'
    <3>1. CASE jobs[e.job].state = e.state
      BY <1>3, <1>4, <2>1, <2>2, <2>3, <2>4, <3>1, ProjectWork
    <3>2. CASE jobs[e.job].state # e.state
      <4>1. PICK k : k = n + 1
        OBVIOUS
      <4>2. k \in Nat \ {0} /\ \A m \in 1..(k - 1) : m \in receipts'[a]
        BY <1>3, <2>1, <2>4, <4>1
      <4> QED
        BY <1>3, <1>4, <2>2, <2>3, <3>2, <4>1, <4>2, EventsReached
    <3> QED
      BY <3>1, <3>2
  <2>6. WorkOnly(a, w)
    BY <1>1, <2>3, <2>5 DEF WorkOnly
  <2> QED
    BY <2>5, <2>6, WorkOnlyFrame
<1> QED
  BY <1>5, <1>6, <1>7

\* reconcile_post_spooler_event: the latest attempt follows the event.
LEMMA ProjectStep ==
  ASSUME TypeOK, CloudInv, NEW a \in Agent, ProjectEvent(a)
  PROVE  TypeOK' /\ CloudInv'
<1>1. /\ work[a] \in Work /\ work[a].pc = "project" /\ faults' \in Nat
      /\ UNCHANGED <<node, printed>>
  BY DEF ProjectEvent, At, TypeOK, history
<1>2. PICK n, e, r, req : /\ n = work[a].at /\ e = events[a][n] /\ req = work[a].req
                          /\ r = ProjectionResult(a, e.job, e.state)
  OBVIOUS
<1>3. /\ n \in Nat \ {0} /\ n \in DOMAIN events[a] /\ Covers(a, req) /\ n <= req.events
      /\ \A m \in 1..(n - 1) : m \in receipts[a]
      /\ n \in receipts[a] /\ e.job \in Job
  BY <1>1, <1>2, EventInHand
<1>4. SameOutbox(a)
  BY <1>1 DEF SameOutbox, node, commanded
<1>5. CASE r = "refused"
  <2>1. Goto(a, Idle) /\ UNCHANGED server
    BY <1>2, <1>5 DEF ProjectEvent
  <2> QED
    BY <1>1, <2>1, IdleStep
<1>6. PICK w, k : k = n + 1 /\ w = Reach(req, "events", k)
  OBVIOUS
<1>7. CASE r # "refused"
  <2>1. Goto(a, w) /\ receipts' = receipts
    BY <1>2, <1>6, <1>7, Zenon DEF ProjectEvent, MoveAttempt, server
  <2>2. /\ work'[a] = w /\ \A b \in Agent : b # a => work'[b] = work[b]
    BY <2>1 DEF Goto, TypeOK
  <2>3. k \in Nat \ {0} /\ \A m \in 1..(k - 1) : m \in receipts'[a]
    BY <1>3, <1>6, <2>1
  <2>4. w \in Work /\ w.pc # "activate" /\ WorkInv(a)'
    BY <1>3, <1>4, <1>6, <2>2, <2>3, EventsReached
  <2>5. CASE r = "none"
    <3>1. UNCHANGED server
      BY <1>2, <2>5 DEF ProjectEvent
    <3>2. WorkOnly(a, w)
      BY <1>1, <2>1, <2>4, <3>1 DEF WorkOnly
    <3> QED
      BY <2>4, <3>2, WorkOnlyFrame
  <2>6. CASE r # "none"
    <3>1. PICK j, g : j = e.job /\ g = Len(attempts[j])
      OBVIOUS
    <3>2. MoveAttempt(j, g, r)
      BY <1>2, <1>7, <2>6, <3>1 DEF ProjectEvent
    <3>3. /\ attempts[j] # <<>> /\ attempts[j][g].agent = a
          /\ attempts[j][g].state \in {"accepted_by_spooler", "printing_reported"}
          /\ r = AskedBy(e.state) /\ r # "cancelled"
      <4>1. PICK asked, now : asked = AskedBy(e.state) /\ now = attempts[j][g]
        OBVIOUS
      <4>2. r = CASE asked = "none" -> "none"
                  [] attempts[j] = <<>> \/ now.agent # a -> "refused"
                  [] now.state = asked \/ now.state \in FinalAttempt -> "none"
                  [] asked = "cancelled" -> "refused"
                  [] now.state \notin {"accepted_by_spooler", "printing_reported"} -> "refused"
                  [] OTHER -> asked
        BY <1>2, <3>1, <4>1, Zenon DEF ProjectionResult, Latest
      <4>3. /\ ~(attempts[j] = <<>> \/ now.agent # a) /\ asked # "cancelled" /\ r = asked
            /\ now.state \in {"accepted_by_spooler", "printing_reported"}
        BY <1>7, <2>6, <4>2
      <4> QED
        BY <4>1, <4>3
    <3>4. r \in {"printing_reported", "completed_reported", "failed", "delivery_uncertain"}
      BY <2>6, <3>3 DEF AskedBy
    <3>5. g \in Generations(j) /\ j \in Job
      BY <1>3, <3>1, <3>3, AttemptFields, EmptySeq
    <3>6. AttemptIsWitnessed(j, g)
      BY <3>5 DEF CloudInv, AttemptInv
    <3>7. ~attempts[j][g].reserved
      BY <3>3, <3>6 DEF AttemptIsWitnessed
    <3>8. PICK m \in DOMAIN evidence[a] :
            Witness(a, j, g, m) /\ evidence[a][m].outcome = "accepted"
      BY <3>3, <3>6 DEF AttemptIsWitnessed
    <3>9. Quiet
      BY <1>1, <2>1, <2>2, <2>4, <3>2 DEF Quiet, MoveAttempt
    <3>10. attempts' = [attempts EXCEPT ![j][g] = Moved(attempts[j][g], r)]
      BY <3>2 DEF MoveAttempt
    <3>11. AttemptsMove /\ attempts' \in [Job -> Seq(Attempt)]
      BY <3>3, <3>4, <3>5, <3>7, <3>8, <3>9, <3>10, MoveMoves
    <3>12. TypeOK'
      <4>1. ServerTypeOK'
        BY <3>2, <3>11 DEF MoveAttempt, Attend, ServerTypeOK, TypeOK
      <4>2. work' \in [Agent -> Work]
        BY <2>1, <2>4 DEF Goto, TypeOK
      <4> QED
        BY <1>1, <4>1, <4>2 DEF TypeOK, node, outbox, commanded
    <3> QED
      BY <2>2, <2>4, <3>2, <3>9, <3>11, <3>12, HandlerFrame DEF MoveAttempt
  <2> QED
    BY <2>5, <2>6
<1> QED
  BY <1>5, <1>7

-----------------------------------------------------------------------------
(* What the sync handler makes of commands.                                *)

\* What a batch of commands in hand leaves out is carried out, and the events
\* of the request are all received.
Batched(a, req, upto, batch) ==
  /\ req \in Request /\ req.cursor = cursor[a] /\ \A n \in 1..req.events : n \in receipts[a]
  /\ upto \in Nat /\ upto <= Len(commands[a]) /\ batch \subseteq DOMAIN commands[a]
  /\ \A n \in DOMAIN commands[a] : n <= upto => n \in batch \/ CarriedOut(a, n)

\* The batch facts hold of the batch the handler has in hand.
LEMMA BatchedNow ==
  ASSUME TypeOK, NEW a \in Agent, WorkInv(a), work[a].pc \in BatchPc
  PROVE  Batched(a, work[a].req, work[a].upto, work[a].batch)
<1>1. /\ work[a].pc \in RequestPc /\ work[a].pc \in HandledPc /\ work[a].pc # "apply"
  BY DEF BatchPc, RequestPc, HandledPc
<1>2. work[a].req \in Request /\ work[a].upto \in Nat
  BY <1>1, WorkFields DEF TypeOK
<1>3. /\ work[a].req.cursor = cursor[a]
      /\ work[a].upto <= Len(commands[a]) /\ work[a].batch \subseteq DOMAIN commands[a]
      /\ \A n \in DOMAIN commands[a] : n <= work[a].upto => n \in work[a].batch \/ CarriedOut(a, n)
  BY <1>1 DEF WorkInv, BatchIsComplete
<1>4. \A n \in 1..work[a].req.events : n \in receipts[a]
  BY <1>1 DEF WorkInv, RequestIsCovered
<1> QED
  BY <1>2, <1>3, <1>4 DEF Batched

\* The batch facts are kept while the node and its commands are still.
LEMMA BatchedFrame ==
  ASSUME TypeOK, NEW a \in Agent, NEW req, NEW upto, NEW batch, Batched(a, req, upto, batch),
         KeepsWord(a), Progress, commands'[a] = commands[a], cursor'[a] = cursor[a]
  PROVE  Batched(a, req, upto, batch)'
<1>1. \A n \in DOMAIN commands[a] : CarriedOut(a, n) => CarriedOut(a, n)'
  BY CarriedOutFrame
<1>2. \A n \in 1..req.events : n \in receipts'[a]
  BY DEF Batched, Progress
<1> QED
  BY <1>1, <1>2 DEF Batched

\* The worker has such a batch in hand.
Holds(w, req, upto, batch) ==
  w.pc \in BatchPc /\ w.req = req /\ w.upto = upto /\ w.batch = batch

\* The batch facts are what the cycle's invariant asks of a handler.
LEMMA BatchedWork ==
  ASSUME NEW a, NEW req, NEW upto, NEW batch, Batched(a, req, upto, batch)',
         NEW w, work'[a] = w, Holds(w, req, upto, batch),
         w.pc = "retire" => /\ w.due # {}
                            /\ \A n \in w.due : n \in batch /\ commands'[a][n].kind = "cancel_job",
         OfferIsOpen(a)'
  PROVE  WorkInv(a)'
<1>1. /\ w.pc \notin ResumePc \cup {"gather", "handoffs", "events", "project"}
      /\ w.pc \in HandledPc
  BY DEF Holds, BatchPc, HandledPc, ResumePc, StagePc
<1>2. ResumesPending(a)'
  BY <1>1 DEF ResumesPending
<1>3. RequestIsCovered(a)'
  BY <1>1 DEF RequestIsCovered, Batched, Holds
<1>4. BatchIsComplete(a)'
  BY <1>1 DEF BatchIsComplete, Batched, Holds
<1> QED
  BY <1>2, <1>3, <1>4 DEF WorkInv

\* No offer is in hand before there is a response.
LEMMA NoOffer ==
  ASSUME NEW a, work'[a].pc \notin OfferPc \/ work'[a].offer = Nil
  PROVE  OfferIsOpen(a)'
BY DEF OfferIsOpen

\* Where the handler goes after the commands.
LEMMA AfterWork ==
  ASSUME NEW a \in Agent, NEW pc, NEW req, NEW upto, NEW batch, Batched(a, req, upto, batch)',
         DOMAIN commands'[a] \subseteq Nat, NEW w, w = After(a, pc, req, upto, batch), work'[a] = w
  PROVE  w \in Work /\ w.pc # "activate" /\ WorkInv(a)'
<1>1. PICK p \in {"finalize", "recover", "claim"} :
        w = [req |-> req, upto |-> upto, batch |-> batch, pc |-> p]
  BY DEF After
<1>2. req \in Request /\ upto \in Nat /\ batch \in SUBSET Nat
  BY DEF Batched
<1>3. w \in Work
  BY <1>1, <1>2, HandlerMade, ZenonT(30)
<1>4. Holds(w, req, upto, batch) /\ w.pc \notin {"retire", "activate"} \cup OfferPc
  BY <1>1 DEF Holds, BatchPc, HandledPc, OfferPc
<1> QED
  BY <1>3, <1>4, BatchedWork, NoOffer

\* The handler goes on soundly with the cancellations that are due.
LEMMA RetiringWork ==
  ASSUME NEW a \in Agent, NEW req, NEW upto, NEW batch, Batched(a, req, upto, batch)',
         DOMAIN commands'[a] \subseteq Nat, NEW due,
         \A n \in due : n \in batch /\ commands'[a][n].kind = "cancel_job",
         NEW w, w = Retiring(a, req, upto, batch, due), work'[a] = w
  PROVE  w \in Work /\ w.pc # "activate" /\ WorkInv(a)'
<1>1. CASE due = {}
  BY <1>1, AfterWork DEF Retiring
<1>2. CASE due # {}
  <2>1. w = [pc |-> "retire", req |-> req, upto |-> upto, batch |-> batch, due |-> due]
    BY <1>2 DEF Retiring
  <2>2. req \in Request /\ upto \in Nat /\ batch \in SUBSET Nat /\ due \in SUBSET Nat
    BY DEF Batched
  <2>3. w \in Work
    BY <2>1, <2>2, HandlerMade, ZenonT(30)
  <2>4. Holds(w, req, upto, batch) /\ w.pc = "retire" /\ w.due = due /\ w.pc \notin OfferPc
    BY <2>1 DEF Holds, BatchPc, HandledPc, OfferPc
  <2> QED
    BY <1>2, <2>3, <2>4, BatchedWork, NoOffer
<1> QED
  BY <1>1, <1>2

\* A step of the handler that leaves attempts and commands alone.
LEMMA TableFrame ==
  ASSUME TypeOK, CloudInv, Quiet, ServerTypeOK', NEW a \in Agent, NEW w, Goto(a, w), w \in Work,
         WorkInv(a)', attempts' = attempts, commands' = commands
  PROVE  TypeOK' /\ CloudInv'
<1>1. work' \in [Agent -> Work] /\ \A b \in Agent : b # a => work'[b] = work[b]
  BY DEF Goto, TypeOK
<1>2. TypeOK'
  BY <1>1 DEF TypeOK, Quiet, node, outbox, commanded
<1> QED
  BY <1>1, <1>2, AttemptsSame, HandlerFrame

\* sync_agent_commands: what the node's cursor covers is acknowledged.
LEMMA SyncedCommands ==
  ASSUME TypeOK, NEW a \in Agent, NEW n, SyncCommands(a, n)
  PROVE  /\ commands' \in [Agent -> Seq(Command)] /\ Len(commands'[a]) = Len(commands[a])
         /\ \A b \in Agent : b # a => commands'[b] = commands[b]
         /\ DOMAIN commands'[a] = DOMAIN commands[a]
         /\ \A m \in DOMAIN commands[a] :
              /\ commands'[a][m].kind = commands[a][m].kind
              /\ Key(commands'[a][m]) = Key(commands[a][m])
              /\ commands'[a][m].acknowledged => commands[a][m].acknowledged \/ m <= n
<1>1. PICK f : f = [m \in DOMAIN commands[a] |->
        [commands[a][m] EXCEPT
           !.acknowledged = commands[a][m].acknowledged \/ (m <= n /\ commands[a][m].delivered),
           !.delivered = TRUE]]
  BY Zenon
<1>2. commands' = [commands EXCEPT ![a] = f]
  BY <1>1, Zenon DEF SyncCommands
<1>3. ASSUME NEW m \in DOMAIN commands[a]
      PROVE  /\ f[m] \in Command /\ f[m].kind = commands[a][m].kind /\ Key(f[m]) = Key(commands[a][m])
             /\ f[m].acknowledged => commands[a][m].acknowledged \/ m <= n
  <2>1. PICK b \in BOOLEAN :
          b = (commands[a][m].acknowledged \/ (m <= n /\ commands[a][m].delivered))
    OBVIOUS
  <2>2. f[m] = [commands[a][m] EXCEPT !.acknowledged = b, !.delivered = TRUE]
    BY <1>1, <2>1, Zenon
  <2>3. commands[a][m] \in Command
    BY CommandFields
  <2>4. /\ f[m] \in Command /\ f[m].kind = commands[a][m].kind /\ f[m].job = commands[a][m].job
        /\ f[m].gen = commands[a][m].gen /\ f[m].acknowledged = b
    BY <2>2, <2>3 DEF Command
  <2> QED
    BY <2>1, <2>4 DEF Key
<1>4. f \in Seq(Command) /\ Len(f) = Len(commands[a]) /\ DOMAIN f = DOMAIN commands[a]
  <2>1. DOMAIN f = DOMAIN commands[a] /\ f = [m \in DOMAIN commands[a] |-> f[m]]
    BY <1>1, Zenon
  <2>2. commands[a] \in Seq(Command)
    BY CommandFields
  <2> QED
    BY <1>3, <2>1, <2>2, RowsMapped
<1>5. commands' \in [Agent -> Seq(Command)] /\ commands'[a] = f
      /\ \A b \in Agent : b # a => commands'[b] = commands[b]
  BY <1>2, <1>4 DEF TypeOK, ServerTypeOK
<1> QED
  BY <1>3, <1>4, <1>5

\* Fetching the commands of a sync response preserves the invariant.
LEMMA FetchStep ==
  ASSUME TypeOK, CloudInv, NEW a \in Agent, FetchCommands(a)
  PROVE  TypeOK' /\ CloudInv'
<1>1. /\ work[a] \in Work /\ work[a].pc = "commands" /\ faults' \in Nat
      /\ UNCHANGED <<node, printed>> /\ AgentInv(a)
  BY DEF FetchCommands, At, TypeOK, history, CloudInv
<1>2. PICK req : req = work[a].req
  OBVIOUS
<1>3. /\ req \in Request /\ req.cursor = cursor[a] /\ \A n \in 1..req.events : n \in receipts[a]
  BY <1>1, <1>2, WorkFields
    DEF RequestPc, HandledPc, AgentInv, WorkInv, BatchIsComplete, RequestIsCovered
<1>4. SyncCommands(a, cursor[a])
  BY <1>2, <1>3 DEF FetchCommands
<1>5. /\ commands' \in [Agent -> Seq(Command)] /\ Len(commands'[a]) = Len(commands[a])
      /\ \A b \in Agent : b # a => commands'[b] = commands[b]
      /\ DOMAIN commands'[a] = DOMAIN commands[a]
      /\ \A m \in DOMAIN commands[a] :
           /\ commands'[a][m].kind = commands[a][m].kind
           /\ Key(commands'[a][m]) = Key(commands[a][m])
           /\ commands'[a][m].acknowledged => commands[a][m].acknowledged \/ m <= cursor[a]
  BY <1>4, SyncedCommands
<1>6. UNCHANGED <<world, jobs, acceptance, attempts, destination, admission, receipts>>
  BY <1>4, Zenon DEF SyncCommands
<1>7. PICK batch, due : /\ batch = {n \in DOMAIN commands'[a] : ~commands'[a][n].acknowledged}
                        /\ due = {n \in batch : commands[a][n].kind = "cancel_job"}
  OBVIOUS
<1>8. PICK upto, w : /\ upto = IF batch = {} THEN 0 ELSE Max(batch)
                     /\ w = Retiring(a, req, upto, batch, due)
  OBVIOUS
<1>9. Goto(a, w)
  BY <1>2, <1>7, <1>8 DEF FetchCommands
<1>10. work'[a] = w /\ \A b \in Agent : b # a => work'[b] = work[b]
  BY <1>9 DEF Goto, TypeOK
<1>11. /\ Len(commands[a]) \in Nat /\ DOMAIN commands[a] = 1..Len(commands[a])
  BY CommandFields
<1>12. upto \in Nat /\ upto <= Len(commands[a])
  <2>1. batch \subseteq 0..Len(commands[a])
    BY <1>5, <1>7, <1>11
  <2>2. batch # {} => Max(batch) \in batch
    BY <1>11, <2>1, GreatestIn
  <2> QED
    BY <1>8, <1>11, <2>1, <2>2
\* The worker is somewhere in the handler, so the step is quiet.
<1>13. w.pc \in {"retire", "finalize", "recover", "claim"}
  BY <1>8 DEF Retiring, After
<1>14. Quiet
  BY <1>1, <1>6, <1>10, <1>13 DEF Quiet
<1>15. /\ SameNode(a) /\ AcceptancesStay /\ Progress /\ KeepsWord(a)
  BY <1>6, <1>14, QuietFrame DEF Generations
<1>16. \A n \in DOMAIN commands[a] : CarriedOut(a, n) => CarriedOut(a, n)'
  BY <1>5, <1>15, CarriedOutFrame
<1>17. \A n \in DOMAIN commands[a] : commands'[a][n].acknowledged \/ n <= cursor[a] => CarriedOut(a, n)'
  BY <1>1, <1>5, <1>16 DEF AgentInv, CommandsAreCarried
<1>18. CommandsAreCarried(a)'
  <2>1. \A n \in DOMAIN commands[a] : CommandIsMeant(a, n)'
    BY <1>1, <1>5, <1>15, MeantFrame DEF AgentInv, CommandsAreCarried
  <2>2. ASSUME NEW k \in ledger[a]
        PROVE  Carried(a, k)'
    <3>1. k.job \in Job /\ k.gen \in Nat
      BY DEF TypeOK
    <3>2. Carried(a, k)
      BY <1>1 DEF CommandsAreCarried, AgentInv
    <3> QED
      BY <1>15, <3>1, <3>2, CarriedFrame
  <2>3. cursor[a] <= Len(commands'[a])
    BY <1>1, <1>5 DEF AgentInv, CommandsAreCarried
  <2> QED
    BY <1>5, <1>15, <1>17, <2>1, <2>2, <2>3 DEF CommandsAreCarried, SameNode
<1>19. Batched(a, req, upto, batch)'
  <2>1. \A n \in DOMAIN commands'[a] : n \in batch \/ CarriedOut(a, n)'
    BY <1>5, <1>7, <1>17
  <2>2. batch \subseteq DOMAIN commands'[a]
    BY <1>7
  <2> QED
    BY <1>3, <1>5, <1>6, <1>12, <1>15, <2>1, <2>2 DEF Batched, SameNode
<1>20. w \in Work /\ WorkInv(a)'
  <2>1. DOMAIN commands'[a] \subseteq Nat
    BY <1>5, <1>11
  <2>2. \A n \in due : n \in batch /\ commands'[a][n].kind = "cancel_job"
    BY <1>5, <1>7
  <2> QED
    BY <1>8, <1>10, <1>19, <2>1, <2>2, RetiringWork
<1>21. TypeOK'
  <2>1. ServerTypeOK'
    BY <1>5, <1>6 DEF ServerTypeOK, TypeOK
  <2>2. work' \in [Agent -> Work]
    BY <1>9, <1>20 DEF Goto, TypeOK
  <2> QED
    BY <1>1, <2>1, <2>2 DEF TypeOK, node, outbox, commanded
<1> QED
  BY <1>5, <1>6, <1>10, <1>14, <1>18, <1>20, <1>21, AttemptsSame, HandlerFrame

\* A step that moves nothing but the worker, along a batch it has in hand.
LEMMA BatchedStill ==
  ASSUME TypeOK, CloudInv, NEW a \in Agent, work[a].pc \in BatchPc, NEW w, work'[a] = w,
         w.pc # "activate", UNCHANGED <<server, node, printed>>
  PROVE  /\ \A req, upto, batch : Batched(a, req, upto, batch) => Batched(a, req, upto, batch)'
         /\ DOMAIN commands'[a] \subseteq Nat
<1>1. AcceptancesStay /\ Progress
  BY DEF AcceptancesStay, Progress, server, Generations
<1>2. KeepsWord(a)
  BY <1>1, WordFrame DEF node
<1>3. DOMAIN commands'[a] \subseteq Nat /\ commands'[a] = commands[a] /\ cursor'[a] = cursor[a]
  BY CommandFields DEF server, node, commanded
<1> QED
  BY <1>1, <1>2, <1>3, BatchedFrame

\* The node has accepted what a cancellation is about, so the server retires
\* none of them by itself.
LEMMA RetireStep ==
  ASSUME TypeOK, CloudInv, NEW a \in Agent, Retire(a)
  PROVE  TypeOK' /\ CloudInv'
<1>1. /\ work[a] \in Work /\ work[a].pc = "retire" /\ faults' \in Nat
      /\ UNCHANGED <<node, printed>> /\ AgentInv(a)
  BY DEF Retire, At, TypeOK, history, CloudInv
<1>2. PICK n, j, req, upto, batch, due :
        /\ n = Min(work[a].due) /\ j = commands[a][n].job /\ req = work[a].req
        /\ upto = work[a].upto /\ batch = work[a].batch /\ due = work[a].due
  OBVIOUS
<1>3. Batched(a, req, upto, batch)
  BY <1>1, <1>2, BatchedNow DEF AgentInv, BatchPc, HandledPc
<1>4. due # {} /\ \A m \in due : m \in batch /\ commands[a][m].kind = "cancel_job"
  BY <1>1, <1>2 DEF AgentInv, WorkInv, BatchIsComplete
<1>5. n \in due
  <2>1. due \in SUBSET Nat
    BY <1>1, <1>2, WorkFields
  <2> QED
    BY <1>2, <1>4, <2>1, LeastIn
<1>6. acceptance[j] # Nil
  <2>1. n \in DOMAIN commands[a] /\ commands[a][n].kind = "cancel_job"
    BY <1>3, <1>4, <1>5 DEF Batched
  <2> QED
    BY <1>1, <1>2, <2>1 DEF AgentInv, CommandsAreCarried, CommandIsMeant
<1>7. PICK w, rest : rest = due \ {n} /\ w = Retiring(a, req, upto, batch, rest)
  OBVIOUS
<1>8. UNCHANGED server /\ Goto(a, w) /\ work'[a] = w
  BY <1>2, <1>6, <1>7 DEF Retire, Retires, Goto, TypeOK
<1>9. w.pc # "activate"
  BY <1>7 DEF Retiring, After
<1>10. Batched(a, req, upto, batch)' /\ DOMAIN commands'[a] \subseteq Nat
  BY <1>1, <1>3, <1>8, <1>9, BatchedStill DEF BatchPc, HandledPc
<1>11. w \in Work /\ WorkInv(a)'
  <2>1. \A m \in rest : m \in batch /\ commands'[a][m].kind = "cancel_job"
    BY <1>4, <1>7, <1>8 DEF server
  <2> QED
    BY <1>7, <1>8, <1>10, <2>1, RetiringWork
<1>12. WorkOnly(a, w)
  BY <1>1, <1>8, <1>9, <1>11 DEF WorkOnly
<1> QED
  BY <1>11, <1>12, WorkOnlyFrame

\* finalize_acknowledged_uncertainty_resolutions: what the node acknowledged
\* it has carried out.
LEMMA FinalizeStep ==
  ASSUME TypeOK, CloudInv, NEW a \in Agent, Finalize(a)
  PROVE  TypeOK' /\ CloudInv'
<1>1. /\ work[a] \in Work /\ work[a].pc = "finalize" /\ faults' \in Nat
      /\ UNCHANGED <<node, printed>> /\ AgentInv(a)
  BY DEF Finalize, At, TypeOK, history, CloudInv
<1>2. CASE Finalizable(a) = {}
  <2>1. PICK req, upto, batch : req = work[a].req /\ upto = work[a].upto /\ batch = work[a].batch
    OBVIOUS
  <2>2. PICK w : w = After(a, "recover", req, upto, batch)
    OBVIOUS
  <2>3. Goto(a, w) /\ work'[a] = w /\ UNCHANGED server
    BY <1>2, <2>1, <2>2 DEF Finalize, Goto, TypeOK
  <2>4. w.pc # "activate"
    BY <2>2 DEF After
  <2>5. Batched(a, req, upto, batch)
    BY <1>1, <2>1, BatchedNow DEF AgentInv, BatchPc, HandledPc
  <2>6. Batched(a, req, upto, batch)' /\ DOMAIN commands'[a] \subseteq Nat
    BY <1>1, <2>3, <2>4, <2>5, BatchedStill DEF BatchPc, HandledPc
  <2>7. w \in Work /\ WorkInv(a)'
    BY <2>2, <2>3, <2>6, AfterWork
  <2>8. WorkOnly(a, w)
    BY <1>1, <2>3, <2>4, <2>7 DEF WorkOnly
  <2> QED
    BY <2>7, <2>8, WorkOnlyFrame
<1>3. CASE Finalizable(a) # {}
  <2>1. PICK n : n = Min(Finalizable(a))
    OBVIOUS
  <2>2. n \in DOMAIN commands[a] /\ n \in Finalizable(a)
    <3>1. Finalizable(a) \subseteq DOMAIN commands[a] /\ DOMAIN commands[a] \subseteq Nat
      BY CommandFields DEF Finalizable
    <3> QED
      BY <1>3, <2>1, <3>1, LeastIn
  <2>3. FinalizeResolution(a, n) /\ work' = work
    BY <1>3, <2>1 DEF Finalize
  <2>4. PICK j, g : j = commands[a][n].job /\ g = commands[a][n].gen
    OBVIOUS
  <2>5. commands[a][n].kind = "resolve" /\ commands[a][n].acknowledged
    BY <2>2 DEF Finalizable
  <2>6. j \in Job /\ g \in Generations(j) /\ attempts[j][g].agent = a
    BY <1>1, <2>2, <2>4, <2>5, CommandFields DEF AgentInv, CommandsAreCarried, CommandIsMeant
  <2>7. Resolved(a, j, g)
    <3>1. CarriedOut(a, n)
      BY <1>1, <2>2, <2>5 DEF AgentInv, CommandsAreCarried
    <3> QED
      BY <2>4, <2>5, <3>1, KeyFields DEF CarriedOut, Carried
  <2>8. PICK t : t = [attempts[j][g] EXCEPT !.resolution = "final"]
    OBVIOUS
  <2>9. /\ t \in Attempt /\ t.agent = attempts[j][g].agent /\ t.state = attempts[j][g].state
        /\ t.reserved = attempts[j][g].reserved /\ t.resolution = "final"
    BY <2>6, <2>8, AttemptFields, SMTT(30) DEF Attempt
  <2>10. attempts' = [attempts EXCEPT ![j][g] = t]
    BY <2>3, <2>4, <2>6, <2>8, AttemptFields DEF FinalizeResolution, TypeOK, ServerTypeOK, Generations
  <2>11. Replaced(j, g, t)
    BY <2>6, <2>9, <2>10, AttemptSet
  <2>12. Quiet
    BY <1>1, <2>3 DEF Quiet, FinalizeResolution
  <2>13. NodesStill
    BY <1>1 DEF NodesStill, node
  <2>14. AttemptMoves(j, g)
    <3>1. /\ g \in DOMAIN attempts'[j] /\ attempts'[j][g] = t
      BY <2>6, <2>11 DEF Replaced
    <3> QED
      BY <2>6, <2>7, <2>9, <2>13, <3>1, AttemptMarked DEF CloudInv
  <2>15. AttemptsMove
    <3>1. \A i \in Job : \A h \in Generations(i) : SameAttempt(i, h) \/ AttemptMoves(i, h)
      BY <2>11, <2>14, SMTT(30) DEF SameAttempt, Replaced
    <3> QED
      BY <2>11, <2>12, <3>1, AttemptsMoved DEF Replaced
  <2>16. ServerTypeOK'
    BY <2>3, <2>11 DEF ServerTypeOK, TypeOK, FinalizeResolution, Replaced
  <2> QED
    BY <2>3, <2>12, <2>15, <2>16, ServerFrame DEF FinalizeResolution
<1> QED
  BY <1>2, <1>3

\* Taking up a blocked job the agent can print now preserves the invariant.
LEMMA RecoverStep ==
  ASSUME TypeOK, CloudInv, NEW a \in Agent, Recover(a)
  PROVE  TypeOK' /\ CloudInv'
<1>1. /\ work[a] \in Work /\ work[a].pc = "recover" /\ faults' \in Nat
      /\ UNCHANGED <<node, printed>> /\ AgentInv(a)
  BY DEF Recover, At, TypeOK, history, CloudInv
<1>2. CASE Goto(a, [work[a] EXCEPT !.pc = "claim"]) /\ UNCHANGED server
  <2>1. PICK req, upto, batch : req = work[a].req /\ upto = work[a].upto /\ batch = work[a].batch
    OBVIOUS
  <2>2. PICK w : w = [work[a] EXCEPT !.pc = "claim"]
    OBVIOUS
  <2>3. /\ w \in Work /\ w.pc = "claim" /\ w.req = req /\ w.upto = upto /\ w.batch = batch
    BY <1>1, <2>1, <2>2 DEF Work
  <2>4. Goto(a, w) /\ work'[a] = w
    BY <1>2, <2>2 DEF Goto, TypeOK
  <2>5. Batched(a, req, upto, batch)
    BY <1>1, <2>1, BatchedNow DEF AgentInv, BatchPc, HandledPc
  <2>6. Batched(a, req, upto, batch)'
    BY <1>1, <1>2, <2>3, <2>4, <2>5, BatchedStill DEF BatchPc, HandledPc
  <2>7. WorkInv(a)'
    BY <2>3, <2>4, <2>6, BatchedWork, NoOffer DEF Holds, BatchPc, HandledPc, OfferPc
  <2>8. WorkOnly(a, w)
    BY <1>1, <1>2, <2>3, <2>4 DEF WorkOnly
  <2> QED
    BY <2>7, <2>8, WorkOnlyFrame
<1>3. CASE \E j \in Recoverable(a) : RecoverHeld(j) /\ UNCHANGED work
  <2>1. PICK j \in Job : RecoverHeld(j) /\ UNCHANGED work
    BY <1>3 DEF Recoverable
  <2>2. PICK row : row = [jobs[j] EXCEPT !.state = "waiting_for_agent", !.held = FALSE]
    OBVIOUS
  <2>3. row \in JobRow /\ row.state = "waiting_for_agent"
    BY <2>2, JobFields DEF JobRow, JobState, Successors
  <2>4. jobs' = [jobs EXCEPT ![j] = row]
    BY <2>1, <2>2, JobFields DEF RecoverHeld
  <2>5. /\ jobs' \in [Job -> JobRow] /\ jobs'[j].state = "waiting_for_agent"
        /\ \A i \in Job : i # j => jobs'[i] = jobs[i]
    BY <2>3, <2>4, JobSet
  <2>6. Quiet
    BY <1>1, <2>1, <2>5 DEF Quiet, RecoverHeld
  <2>7. ServerTypeOK'
    BY <2>1, <2>5 DEF ServerTypeOK, TypeOK, RecoverHeld, JobRow
  <2> QED
    BY <2>1, <2>6, <2>7, AttemptsSame, ServerFrame DEF RecoverHeld
<1> QED
  BY <1>2, <1>3 DEF Recover

-----------------------------------------------------------------------------
(* What the sync handler makes of leases and offers.                       *)

\* The handler holds the batch it had, through any step that is quiet.
LEMMA BatchedQuiet ==
  ASSUME TypeOK, CloudInv, NEW a \in Agent, work[a].pc \in BatchPc, Quiet, commands' = commands,
         \A j \in Job : \A g \in Generations(j) :
           g \in DOMAIN attempts'[j] /\ attempts'[j][g].agent = attempts[j][g].agent,
         NEW req, NEW upto, NEW batch,
         req = work[a].req, upto = work[a].upto, batch = work[a].batch
  PROVE  /\ req \in Request /\ upto \in Nat /\ batch \in SUBSET Nat
         /\ Batched(a, req, upto, batch)'
<1>1. Batched(a, req, upto, batch)
  BY BatchedNow DEF CloudInv, AgentInv
<1>2. KeepsWord(a) /\ Progress /\ SameNode(a)
  BY QuietFrame
<1>3. Batched(a, req, upto, batch)'
  BY <1>1, <1>2, BatchedFrame DEF SameNode
<1>4. DOMAIN commands[a] \subseteq Nat
  BY CommandFields
<1> QED
  BY <1>1, <1>3, <1>4 DEF Batched

\* The handler goes on without an offer, or to an answer with none.
LEMMA OffersNothing ==
  ASSUME NEW a \in Agent, NEW req \in Request, NEW upto \in Nat, NEW batch \in SUBSET Nat,
         Batched(a, req, upto, batch)', NEW w, work'[a] = w,
         \/ w = [pc |-> "respond", req |-> req, upto |-> upto, batch |-> batch, offer |-> Nil]
         \/ \E leases \in SUBSET Job :
              w = [pc |-> "select", req |-> req, upto |-> upto, batch |-> batch, leases |-> leases]
         \/ \E j \in Job, lease \in Nat :
              w = [pc |-> "reserve", req |-> req, upto |-> upto, batch |-> batch, job |-> j,
                   lease |-> lease]
  PROVE  w \in Work /\ WorkInv(a)'
<1>1. w \in Work
  <2>1. CASE w = [pc |-> "respond", req |-> req, upto |-> upto, batch |-> batch, offer |-> Nil]
    BY <2>1, HandlerMade
  <2>2. ASSUME NEW leases \in SUBSET Job,
               w = [pc |-> "select", req |-> req, upto |-> upto, batch |-> batch, leases |-> leases]
        PROVE  w \in Work
    BY <2>2, SelectMade
  <2>3. ASSUME NEW j \in Job, NEW lease \in Nat,
               w = [pc |-> "reserve", req |-> req, upto |-> upto, batch |-> batch, job |-> j,
                    lease |-> lease]
        PROVE  w \in Work
    BY <2>3, ReserveMade
  <2> QED
    BY <2>1, <2>2, <2>3
<1>2. Holds(w, req, upto, batch) /\ w.pc # "retire" /\ (w.pc \notin OfferPc \/ w.offer = Nil)
  BY DEF Holds, BatchPc, HandledPc, OfferPc
<1> QED
  BY <1>1, <1>2, BatchedWork, NoOffer

\* A step on the leases of jobs, and the worker goes on.
LEMMA LeasesFrame ==
  ASSUME TypeOK, CloudInv, NEW a \in Agent, NEW w, Goto(a, w), w \in Work, w.pc # "activate",
         jobs' \in [Job -> JobRow], \A j \in Job : jobs'[j].state = jobs[j].state,
         UNCHANGED <<world, acceptance, attempts, destination, admission, commands, receipts>>,
         UNCHANGED <<node, printed>>, faults' \in Nat
  PROVE  /\ Quiet /\ work'[a] = w
         /\ \A j \in Job : \A g \in Generations(j) :
              g \in DOMAIN attempts'[j] /\ attempts'[j][g].agent = attempts[j][g].agent
         /\ WorkInv(a)' => TypeOK' /\ CloudInv'
<1>1. work'[a] = w /\ \A b \in Agent : b # a => work'[b] = work[b]
  BY DEF Goto, TypeOK
<1>2. Quiet
  BY <1>1 DEF Quiet
<1>3. ServerTypeOK'
  BY DEF ServerTypeOK, TypeOK, JobRow
<1>4. \A j \in Job : \A g \in Generations(j) :
        g \in DOMAIN attempts'[j] /\ attempts'[j][g].agent = attempts[j][g].agent
  BY DEF Generations
<1> QED
  BY <1>1, <1>2, <1>3, <1>4, TableFrame

\* Claiming jobs for the agent that syncs preserves the invariant.
LEMMA ClaimStep ==
  ASSUME TypeOK, CloudInv, NEW a \in Agent, Claim(a)
  PROVE  TypeOK' /\ CloudInv'
<1>1. /\ work[a] \in Work /\ work[a].pc = "claim" /\ faults' \in Nat
      /\ UNCHANGED <<node, printed>>
  BY DEF Claim, At, TypeOK, history
<1>2. /\ UNCHANGED <<world, acceptance, attempts, destination, admission, commands, receipts>>
      /\ jobs' \in [Job -> JobRow] /\ \A j \in Job : jobs'[j].state = jobs[j].state
  <2>1. ASSUME NEW j \in Job
        PROVE  /\ [jobs[j] EXCEPT !.lease = jobs[j].leases + 1, !.live = TRUE] \in JobRow
               /\ [jobs[j] EXCEPT !.lease = jobs[j].leases + 1, !.live = TRUE].state = jobs[j].state
    <3>1. PICK n : n = jobs[j].leases + 1
      OBVIOUS
    <3>2. n \in Nat
      BY <3>1, JobFields
    <3>3. PICK row : row = [jobs[j] EXCEPT !.lease = n, !.live = TRUE]
      OBVIOUS
    <3>4. row \in JobRow /\ row.state = jobs[j].state
      BY <3>2, <3>3, JobFields DEF JobRow
    <3> QED
      BY <3>1, <3>3, <3>4
  <2> QED
    BY <2>1, JobFields, Zenon DEF Claim, ClaimJobs
<1>3. PICK req, upto, batch : req = work[a].req /\ upto = work[a].upto /\ batch = work[a].batch
  OBVIOUS
<1>4. PICK w : w = IF Claimable(a) = {}
                   THEN [pc |-> "respond", req |-> req, upto |-> upto, batch |-> batch, offer |-> Nil]
                   ELSE [pc |-> "select", req |-> req, upto |-> upto, batch |-> batch,
                         leases |-> Claimable(a)]
  OBVIOUS
<1>5. Goto(a, w) /\ w.pc # "activate"
  BY <1>3, <1>4 DEF Claim, Responding
<1>6. /\ req \in Request /\ upto \in Nat /\ batch \in SUBSET Nat
  BY <1>1, <1>3, WorkFields DEF BatchPc, RequestPc, HandledPc
<1>7. w \in Work
  <2>1. Claimable(a) \in SUBSET Job
    BY DEF Claimable
  <2> QED
    BY <1>4, <1>6, <2>1, HandlerMade
<1>8. Quiet /\ work'[a] = w
      /\ \A j \in Job : \A g \in Generations(j) :
           g \in DOMAIN attempts'[j] /\ attempts'[j][g].agent = attempts[j][g].agent
  BY <1>1, <1>2, <1>5, <1>7, LeasesFrame
<1>9. Batched(a, req, upto, batch)'
  BY <1>1, <1>2, <1>3, <1>8, BatchedQuiet DEF BatchPc, HandledPc
<1>10. WorkInv(a)'
  <2>1. Claimable(a) \in SUBSET Job
    BY DEF Claimable
  <2> QED
    BY <1>4, <1>6, <1>8, <1>9, <2>1, OffersNothing
<1> QED
  BY <1>1, <1>2, <1>5, <1>7, <1>10, LeasesFrame

\* Leases that go back leave the rest of the rows.
LEMMA ReleasedRows ==
  ASSUME TypeOK, NEW released, jobs' = Released(released)
  PROVE  jobs' \in [Job -> JobRow] /\ \A j \in Job : jobs'[j].state = jobs[j].state
BY JobFields DEF Released

\* The leases the handler still looks through.
LEMMA SelectFields ==
  ASSUME NEW w \in Work, w.pc = "select", NEW rest \in SUBSET Job
  PROVE  [w EXCEPT !.leases = rest] =
           [pc |-> "select", req |-> w.req, upto |-> w.upto, batch |-> w.batch, leases |-> rest]
BY DEF Work

\* Leases are released and the handler goes on, or gives up.
LEMMA ReleaseStep ==
  ASSUME TypeOK, CloudInv, NEW a \in Agent, work[a].pc \in BatchPc, NEW w, Goto(a, w),
         NEW req, NEW upto, NEW batch,
         req = work[a].req, upto = work[a].upto, batch = work[a].batch,
         \/ w = Idle
         \/ w = [pc |-> "respond", req |-> req, upto |-> upto, batch |-> batch, offer |-> Nil]
         \/ \E leases \in SUBSET Job :
              w = [pc |-> "select", req |-> req, upto |-> upto, batch |-> batch, leases |-> leases]
         \/ \E j \in Job, lease \in Nat :
              w = [pc |-> "reserve", req |-> req, upto |-> upto, batch |-> batch, job |-> j,
                   lease |-> lease],
         NEW released, jobs' = Released(released) \/ jobs' = jobs,
         UNCHANGED <<world, acceptance, attempts, destination, admission, commands, receipts>>,
         UNCHANGED <<node, printed>>, faults' \in Nat
  PROVE  TypeOK' /\ CloudInv'
<1>1. /\ req \in Request /\ upto \in Nat /\ batch \in SUBSET Nat
  BY WorkFields DEF TypeOK, BatchPc, RequestPc, HandledPc
<1>2. w \in Work /\ w.pc # "activate"
  <2>1. CASE w = Idle
    BY <2>1, CycleMade DEF Idle
  <2>2. CASE w = [pc |-> "respond", req |-> req, upto |-> upto, batch |-> batch, offer |-> Nil]
    BY <1>1, <2>2, HandlerMade
  <2>3. CASE \E leases \in SUBSET Job :
               w = [pc |-> "select", req |-> req, upto |-> upto, batch |-> batch, leases |-> leases]
    <3>1. PICK leases \in SUBSET Job :
            w = [pc |-> "select", req |-> req, upto |-> upto, batch |-> batch, leases |-> leases]
      BY <2>3
    <3>2. [pc |-> "select", req |-> req, upto |-> upto, batch |-> batch, leases |-> leases] \in Work
      BY <1>1, HandlerMade
    <3> QED
      BY <3>1, <3>2
  <2>4. CASE \E j \in Job, lease \in Nat :
               w = [pc |-> "reserve", req |-> req, upto |-> upto, batch |-> batch, job |-> j,
                    lease |-> lease]
    <3>1. PICK j \in Job, lease \in Nat :
            w = [pc |-> "reserve", req |-> req, upto |-> upto, batch |-> batch, job |-> j,
                 lease |-> lease]
      BY <2>4
    <3>2. [pc |-> "reserve", req |-> req, upto |-> upto, batch |-> batch, job |-> j,
           lease |-> lease] \in Work
      BY <1>1, HandlerMade
    <3> QED
      BY <3>1, <3>2
  <2> QED
    BY <2>1, <2>2, <2>3, <2>4
<1>3. jobs' \in [Job -> JobRow] /\ \A j \in Job : jobs'[j].state = jobs[j].state
  <2>1. jobs \in [Job -> JobRow]
    BY DEF TypeOK, ServerTypeOK, JobRow
  <2>2. CASE jobs' = jobs
    BY <2>1, <2>2
  <2>3. CASE jobs' = Released(released)
    BY <2>3, ReleasedRows
  <2> QED
    BY <2>2, <2>3
<1>4. Quiet /\ work'[a] = w
      /\ \A j \in Job : \A g \in Generations(j) :
           g \in DOMAIN attempts'[j] /\ attempts'[j][g].agent = attempts[j][g].agent
  BY <1>2, <1>3, LeasesFrame
<1>5. Batched(a, req, upto, batch)'
  BY <1>4, BatchedQuiet
<1>6. WorkInv(a)'
  <2>1. CASE w = Idle
    BY <1>4, <2>1, RestingWork DEF Idle
  <2>2. CASE w # Idle
    BY <1>1, <1>4, <1>5, <2>2, OffersNothing
  <2> QED
    BY <2>1, <2>2
<1> QED
  BY <1>2, <1>3, <1>6, LeasesFrame

\* A job no node has taken up is blocked or failed by the server.
LEMMA WithheldStep ==
  ASSUME TypeOK, CloudInv, NEW a \in Agent, work[a].pc = "select", NEW j \in Job, OnlyLeased(j),
         BlockLease(j) \/ FailLease(j), NEW rest \in SUBSET Job,
         Goto(a, [work[a] EXCEPT !.leases = rest]), UNCHANGED <<node, printed>>, faults' \in Nat
  PROVE  TypeOK' /\ CloudInv'
<1>1. PICK req, upto, batch : req = work[a].req /\ upto = work[a].upto /\ batch = work[a].batch
  OBVIOUS
<1>2. /\ req \in Request /\ upto \in Nat /\ batch \in SUBSET Nat /\ work[a] \in Work
  BY <1>1, WorkFields DEF TypeOK, BatchPc, RequestPc, HandledPc
<1>3. PICK w : w = [pc |-> "select", req |-> req, upto |-> upto, batch |-> batch, leases |-> rest]
  OBVIOUS
<1>4. Goto(a, w)
  BY <1>1, <1>2, <1>3, SelectFields
<1>5. work'[a] = w /\ \A b \in Agent : b # a => work'[b] = work[b]
  BY <1>4 DEF Goto, TypeOK
<1>6. /\ jobs' \in [Job -> JobRow]
      /\ \A i \in Job : jobs[i].state # "agent_accepted" => jobs'[i].state # "agent_accepted"
      /\ \E x \in {"superseded", "cancelled"} :
           attempts' = [attempts EXCEPT ![j] = EndOpen(attempts[j], x)]
      /\ UNCHANGED <<world, acceptance, destination, admission, commands, receipts>>
  <2>1. CASE FailLease(j)
    BY <2>1, WithdrawEffect DEF FailLease
  <2>2. CASE BlockLease(j)
    <3>1. PICK row : row = [Unleased(jobs[j]) EXCEPT !.state = "blocked", !.held = TRUE]
      OBVIOUS
    <3>2. row \in JobRow /\ row.state = "blocked"
      BY <3>1, JobFields DEF JobRow, JobState, Successors
    <3>3. jobs' = [jobs EXCEPT ![j] = row]
      BY <2>2, <3>1 DEF BlockLease
    <3>4. attempts' = [attempts EXCEPT ![j] = EndOpen(attempts[j], "superseded")]
      BY <2>2 DEF BlockLease, TypeOK, ServerTypeOK
    <3> QED
      BY <2>2, <3>2, <3>3, <3>4, JobSet DEF BlockLease
  <2> QED
    BY <2>1, <2>2
<1>7. Quiet
  BY <1>3, <1>5, <1>6 DEF Quiet
<1>8. AttemptsMove /\ attempts' \in [Job -> Seq(Attempt)]
  BY <1>6, <1>7, EndOpenMoves
<1>9. Batched(a, req, upto, batch)'
  BY <1>1, <1>6, <1>7, <1>8, BatchedQuiet DEF AttemptsMove, AttemptMoves, BatchPc, HandledPc
<1>10. w \in Work /\ WorkInv(a)'
  BY <1>2, <1>3, <1>5, <1>9, OffersNothing
<1>11. TypeOK'
  <2>1. ServerTypeOK'
    BY <1>6, <1>8 DEF ServerTypeOK, TypeOK, JobRow
  <2>2. work' \in [Agent -> Work]
    BY <1>4, <1>10 DEF Goto, TypeOK
  <2> QED
    BY <2>1, <2>2 DEF TypeOK, node, outbox, commanded
<1> QED
  BY <1>5, <1>6, <1>7, <1>8, <1>10, <1>11, HandlerFrame

\* Selecting which claimed job to offer preserves the invariant.
LEMMA SelectStep ==
  ASSUME TypeOK, CloudInv, NEW a \in Agent, SelectOffer(a)
  PROVE  TypeOK' /\ CloudInv'
<1>1. /\ work[a] \in Work /\ work[a].pc = "select" /\ faults' \in Nat
      /\ UNCHANGED <<node, printed>> /\ work[a].pc \in BatchPc
  BY DEF SelectOffer, At, TypeOK, history, BatchPc, HandledPc
<1>2. PICK req, upto, batch, leases : /\ req = work[a].req /\ upto = work[a].upto
                                      /\ batch = work[a].batch /\ leases = work[a].leases
  OBVIOUS
<1>3. leases \in SUBSET Job
  BY <1>1, <1>2, WorkFields
<1>4. PICK held, j, rest : /\ held = {i \in leases : jobs[i].live /\ jobs[i].agent = a}
                           /\ j = Min(leases) /\ rest = leases \ {j}
  OBVIOUS
<1>5. rest \in SUBSET Job /\ (leases # {} => j \in Job)
  BY <1>3, <1>4, LeastIn, CloudAssumption
<1>6. leases # {} => jobs[j].lease \in Nat
  BY <1>5, JobFields
<1> DEFINE Others == UNCHANGED <<world, acceptance, attempts, destination, admission, commands, receipts>>
           Went(released, w) == jobs' = Released(released) /\ Others /\ Goto(a, w)
<1>7. [work[a] EXCEPT !.leases = rest] =
        [pc |-> "select", req |-> req, upto |-> upto, batch |-> batch, leases |-> rest]
  BY <1>1, <1>2, <1>5, SelectFields
<1>8. \/ leases = {} /\ Goto(a, Responding(a, Nil)) /\ UNCHANGED server
      \/ /\ leases # {}
         /\ Went(rest, [pc |-> "reserve", req |-> req, upto |-> upto, batch |-> batch, job |-> j,
                        lease |-> jobs[j].lease])
      \/ Went(held, Idle)
      \/ Went({j}, [work[a] EXCEPT !.leases = rest])
      \/ /\ leases # {} /\ OnlyLeased(j) /\ (BlockLease(j) \/ FailLease(j))
         /\ Goto(a, [work[a] EXCEPT !.leases = rest])
  BY <1>2, <1>4 DEF SelectOffer
<1>9. CASE leases = {} /\ Goto(a, Responding(a, Nil)) /\ UNCHANGED server
  <2>1. PICK w : w = [pc |-> "respond", req |-> req, upto |-> upto, batch |-> batch, offer |-> Nil]
    OBVIOUS
  <2>2. Goto(a, w) /\ jobs' = jobs /\ Others
    BY <1>2, <1>9, <2>1 DEF Responding, server
  <2> QED
    BY <1>1, <1>2, <2>1, <2>2, ReleaseStep
<1>10. CASE /\ leases # {}
            /\ Went(rest, [pc |-> "reserve", req |-> req, upto |-> upto, batch |-> batch, job |-> j,
                           lease |-> jobs[j].lease])
  <2>1. PICK w, lease :
          /\ w = [pc |-> "reserve", req |-> req, upto |-> upto, batch |-> batch, job |-> j,
                  lease |-> lease]
          /\ lease = jobs[j].lease
    OBVIOUS
  <2>2. Goto(a, w) /\ jobs' = Released(rest) /\ Others /\ lease \in Nat /\ j \in Job
    BY <1>5, <1>6, <1>10, <2>1
  <2>3. \E i \in Job, l \in Nat :
          w = [pc |-> "reserve", req |-> req, upto |-> upto, batch |-> batch, job |-> i, lease |-> l]
    BY <2>1, <2>2
  <2> QED
    BY <1>1, <1>2, <2>2, <2>3, ReleaseStep
<1>11. CASE Went(held, Idle)
  <2>1. Goto(a, Idle) /\ jobs' = Released(held) /\ Others
    BY <1>11
  <2> QED
    BY <1>1, <1>2, <2>1, ReleaseStep
<1>12. CASE Went({j}, [work[a] EXCEPT !.leases = rest])
  <2>1. PICK w : w = [pc |-> "select", req |-> req, upto |-> upto, batch |-> batch, leases |-> rest]
    OBVIOUS
  <2>2. Goto(a, w) /\ jobs' = Released({j}) /\ Others
    BY <1>7, <1>12, <2>1
  <2> QED
    BY <1>1, <1>2, <1>5, <2>1, <2>2, ReleaseStep
<1>13. CASE /\ leases # {} /\ OnlyLeased(j) /\ (BlockLease(j) \/ FailLease(j))
            /\ Goto(a, [work[a] EXCEPT !.leases = rest])
  BY <1>1, <1>5, <1>13, WithheldStep
<1> QED
  BY <1>8, <1>9, <1>10, <1>11, <1>12, <1>13

\* Route leases nobody took up in time are given up; the other attempts stay.
LEMMA SweptRows ==
  ASSUME TypeOK, NEW j \in Job
  PROVE  /\ Swept[j] \in Seq(Attempt) /\ DOMAIN Swept[j] = Generations(j)
         /\ Len(Swept[j]) = Len(attempts[j])
         /\ \A g \in Generations(j) :
              \/ Swept[j][g] = attempts[j][g]
              \/ /\ attempts[j][g].state = "route_leased" /\ Swept[j][g].state = "superseded"
                 /\ Swept[j][g].agent = attempts[j][g].agent /\ ~Swept[j][g].reserved
                 /\ Swept[j][g].resolution = attempts[j][g].resolution
<1>1. PICK f : f = Swept[j]
  OBVIOUS
<1>2. f = [g \in Generations(j) |->
             IF attempts[j][g].state = "route_leased" /\ ~attempts[j][g].live
             THEN Ended(attempts[j][g], "superseded") ELSE attempts[j][g]]
  BY <1>1 DEF Swept
<1>3. DOMAIN f = Generations(j) /\ f = [g \in Generations(j) |-> f[g]]
  BY <1>2
<1>4. ASSUME NEW g \in Generations(j)
      PROVE  /\ f[g] \in Attempt
             /\ \/ f[g] = attempts[j][g]
                \/ /\ attempts[j][g].state = "route_leased" /\ f[g].state = "superseded"
                   /\ f[g].agent = attempts[j][g].agent /\ ~f[g].reserved
                   /\ f[g].resolution = attempts[j][g].resolution
  <2>1. attempts[j][g] \in Attempt
    BY AttemptFields
  <2>2. /\ Ended(attempts[j][g], "superseded") \in Attempt
        /\ Ended(attempts[j][g], "superseded").state = "superseded"
        /\ Ended(attempts[j][g], "superseded").agent = attempts[j][g].agent
        /\ ~Ended(attempts[j][g], "superseded").reserved
        /\ Ended(attempts[j][g], "superseded").resolution = attempts[j][g].resolution
    BY <2>1, EndedFields DEF FinalAttempt
  <2>3. \/ f[g] = attempts[j][g]
        \/ attempts[j][g].state = "route_leased" /\ f[g] = Ended(attempts[j][g], "superseded")
    BY <1>2
  <2> QED
    BY <2>1, <2>2, <2>3
<1>5. attempts[j] \in Seq(Attempt)
  BY AttemptFields
<1>6. f \in Seq(Attempt) /\ Len(f) = Len(attempts[j])
  <2>1. PICK s : s = attempts[j]
    OBVIOUS
  <2>2. s \in Seq(Attempt) /\ DOMAIN f = DOMAIN s /\ f = [g \in DOMAIN s |-> f[g]]
    BY <1>3, <1>5, <2>1 DEF Generations
  <2>3. \A g \in DOMAIN s : f[g] \in Attempt
    BY <1>4, <2>1 DEF Generations
  <2> QED
    BY <2>1, <2>2, <2>3, RowsMapped
<1> QED
  BY <1>1, <1>3, <1>4, <1>6

\* The acting agent's worker is accounted for, and the attempts are: the
\* others only look on.
LEMMA ActorFrame ==
  ASSUME TypeOK, CloudInv, Quiet, NEW a \in Agent, AttemptInv',
         \A j \in Job : \A g \in Generations(j) :
           g \in DOMAIN attempts'[j] /\ attempts'[j][g].agent = attempts[j][g].agent,
         \A b \in Agent : b # a => work'[b] = work[b], commands' = commands, WorkInv(a)'
  PROVE  CloudInv'
<1>1. ASSUME NEW b \in Agent
      PROVE  AgentInv(b)'
  <2>1. /\ SameNode(b) /\ Untaken(b) /\ AcceptancesStay /\ Progress /\ KeepsWord(b)
    BY QuietFrame
  <2>2. AgentInv(b)
    BY DEF CloudInv
  <2>3. CASE b = a
    <3>1. NodeInv(b)'
      BY <2>1, <2>2, NodeFrame DEF AgentInv
    <3>2. CommandsAreCarried(b)'
      BY <2>1, <2>2, CommandsFrame DEF AgentInv, SameNode
    <3> QED
      BY <2>3, <3>1, <3>2 DEF AgentInv
  <2>4. CASE b # a
    BY <2>1, <2>2, <2>4, AgentFrame
  <2> QED
    BY <2>3, <2>4
<1> QED
  BY <1>1 DEF CloudInv

\* begin_delivery_attempt: t is the next attempt of j.
Begins(j, k, t) ==
  k = Len(attempts[j]) + 1 /\ attempts' = [Swept EXCEPT ![j] = Append(Swept[j], t)]
RouteLease(t, a) ==
  t \in Attempt /\ t.state = "route_leased" /\ t.agent = a /\ t.reserved /\ t.resolution = "none"
OwnersKept ==
  \A j \in Job : \A g \in Generations(j) :
    g \in DOMAIN attempts'[j] /\ attempts'[j][g].agent = attempts[j][g].agent

\* A new attempt is the only one that occupies the destination.
LEMMA BeginMoves ==
  ASSUME TypeOK, CloudInv, Quiet, NEW a \in Agent, NEW j \in Job, NEW k, NEW t,
         CanBegin(a, j), RouteLease(t, a), Begins(j, k, t)
  PROVE  /\ AttemptInv' /\ attempts' \in [Job -> Seq(Attempt)] /\ OwnersKept
         /\ k \in DOMAIN attempts'[j] /\ attempts'[j][k] = t /\ k \notin Generations(j)
<1>0. /\ t \in Attempt /\ t.state = "route_leased" /\ t.agent = a /\ t.reserved
      /\ t.resolution = "none" /\ k = Len(attempts[j]) + 1
      /\ attempts' = [Swept EXCEPT ![j] = Append(Swept[j], t)]
  BY DEF Begins, RouteLease
<1>1. \A i \in Job : i # j => attempts'[i] = Swept[i]
  BY <1>0 DEF Swept
<1>2. attempts'[j] = Append(Swept[j], t)
  BY <1>0 DEF Swept
<1>3. /\ attempts'[j] \in Seq(Attempt) /\ DOMAIN attempts'[j] = Generations(j) \cup {k}
      /\ \A g \in Generations(j) : attempts'[j][g] = Swept[j][g] /\ g # k
      /\ attempts'[j][k] = t
  BY <1>0, <1>2, SweptRows, AppendFacts
<1>4. attempts' \in [Job -> Seq(Attempt)]
  <2>1. \A i \in Job : attempts'[i] \in Seq(Attempt)
    BY <1>1, <1>3, SweptRows
  <2>2. attempts' = [i \in Job |-> attempts'[i]]
    BY <1>0 DEF Swept
  <2> QED
    BY <2>1, <2>2
<1>5. \A i \in Job : \A g \in Generations(i) : g \in DOMAIN attempts'[i] /\ attempts'[i][g] = Swept[i][g]
  BY <1>1, <1>3, SweptRows
<1>6. \A i \in Job : \A g \in Generations(i) :
        g \in DOMAIN attempts'[i] /\ attempts'[i][g].agent = attempts[i][g].agent
  BY <1>5, SweptRows
<1>7. NodesStill /\ EvidenceGrows /\ \A b \in Agent : KeepsWord(b)
  BY <1>6, QuietFrame DEF Quiet, NodesStill, EvidenceGrows, node
<1>8. ASSUME NEW i \in Job, NEW g \in Generations(i)
      PROVE  AttemptMoves(i, g)
  <2>1. CASE Swept[i][g] = attempts[i][g]
    <3>1. SameAttempt(i, g)
      BY <1>5, <2>1 DEF SameAttempt
    <3> QED
      BY <1>7, <3>1, AttemptStays DEF CloudInv
  <2>2. CASE Swept[i][g] # attempts[i][g]
    <3>1. /\ attempts[i][g].state = "route_leased" /\ Swept[i][g].state = "superseded"
          /\ Swept[i][g].agent = attempts[i][g].agent /\ ~Swept[i][g].reserved
          /\ Swept[i][g].resolution = attempts[i][g].resolution
      BY <2>2, SweptRows
    <3>2. MovesTo(i, g, "superseded") /\ ~attempts'[i][g].reserved
      BY <1>5, <3>1 DEF MovesTo
    <3> QED
      BY <1>7, <3>1, <3>2, AttemptWithdrawn DEF CloudInv, Withdrawal
  <2> QED
    BY <2>1, <2>2
<1>9. ASSUME NEW i \in Job, NEW g \in Generations(i)
      PROVE  ~Occupies(i, g)'
  <2>1. ~attempts'[i][g].reserved
    BY <1>5, SweptRows DEF CanBegin
  <2>2. ~(attempts[i][g].state = "delivery_uncertain" /\ attempts[i][g].resolution # "final")
    BY DEF CanBegin, Unresolved
  <2>3. ~(attempts'[i][g].state = "delivery_uncertain" /\ attempts'[i][g].resolution # "final")
    BY <1>5, <2>2, SweptRows
  <2> QED
    BY <2>1, <2>3 DEF Occupies
<1>10. \A i \in Job : Generations(i)' = IF i = j THEN Generations(j) \cup {k} ELSE Generations(i)
  <2>1. Generations(j)' = Generations(j) \cup {k}
    BY <1>3 DEF Generations
  <2>2. ASSUME NEW i \in Job, i # j
        PROVE  Generations(i)' = Generations(i)
    <3>1. DOMAIN attempts'[i] = Generations(i)
      BY <1>1, <2>2, SweptRows
    <3> QED
      BY <3>1 DEF Generations
  <2> QED
    BY <2>1, <2>2
<1>11. acceptance' = acceptance
  BY DEF Quiet
<1>12. ASSUME NEW i \in Job
       PROVE  AcceptedIsOpen(i)' /\ \A g \in Generations(i)' : AttemptIsWitnessed(i, g)'
  <2>1. AcceptedIsOpen(i)
    BY DEF CloudInv, AttemptInv
  <2>2. AcceptedIsOpen(i)'
    BY <1>8, <1>10, <1>11, <2>1 DEF AcceptedIsOpen, AttemptMoves, Withdrawal
  <2>3. AttemptIsWitnessed(j, k)'
    BY <1>0, <1>3 DEF AttemptIsWitnessed
  <2> QED
    BY <1>8, <1>10, <2>2, <2>3 DEF AttemptMoves
<1>13. OneOccupies'
  <2> SUFFICES ASSUME NEW i \in Job, NEW m \in Job, NEW g \in Generations(i)', NEW h \in Generations(m)',
                      Occupies(i, g)', Occupies(m, h)'
               PROVE  i = m /\ g = h
    BY DEF OneOccupies
  <2> QED
    BY <1>9, <1>10
<1>14. FinalIsResolved'
  <2> SUFFICES ASSUME NEW i \in Job, NEW g \in Generations(i)', attempts'[i][g].resolution = "final"
               PROVE  Resolved(attempts[i][g].agent, i, g)'
    BY DEF FinalIsResolved
  <2>1. g \in Generations(i)
    BY <1>0, <1>3, <1>10
  <2> QED
    BY <1>8, <2>1 DEF AttemptMoves
<1>15. AttemptInv'
  BY <1>12, <1>13, <1>14 DEF AttemptInv
<1> QED
  BY <1>3, <1>4, <1>6, <1>15 DEF OwnersKept

\* An answer with an offer that is open.
LEMMA OffersWork ==
  ASSUME NEW a \in Agent, NEW req \in Request, NEW upto \in Nat, NEW batch \in SUBSET Nat,
         Batched(a, req, upto, batch)', NEW o \in Offer,
         NEW w, work'[a] = w,
         w = [pc |-> "respond", req |-> req, upto |-> upto, batch |-> batch, offer |-> o],
         o.gen \in Generations(o.job)', attempts'[o.job][o.gen].agent = a,
         acceptance'[o.job] # Nil => acceptance'[o.job].gen # o.gen
  PROVE  w \in Work /\ WorkInv(a)'
<1>1. w \in Work
  BY HandlerMade, ZenonT(30)
<1>2. Holds(w, req, upto, batch) /\ w.pc # "retire" /\ w.offer = o
  BY DEF Holds, BatchPc, HandledPc
<1>3. OfferIsOpen(a)'
  BY <1>2 DEF OfferIsOpen
<1> QED
  BY <1>1, <1>2, <1>3, BatchedWork

\* Reserving the destination for the offer preserves the invariant.
LEMMA ReserveStep ==
  ASSUME TypeOK, CloudInv, NEW a \in Agent, Reserve(a)
  PROVE  TypeOK' /\ CloudInv'
<1>1. /\ work[a] \in Work /\ work[a].pc = "reserve" /\ faults' \in Nat
      /\ UNCHANGED <<node, printed>> /\ work[a].pc \in BatchPc
  BY DEF Reserve, At, TypeOK, history, BatchPc, HandledPc
<1>2. PICK j, lease, req, upto, batch :
        /\ j = work[a].job /\ lease = work[a].lease /\ req = work[a].req /\ upto = work[a].upto
        /\ batch = work[a].batch
  OBVIOUS
<1>3. j \in Job /\ lease \in Nat /\ req \in Request /\ upto \in Nat /\ batch \in SUBSET Nat
  BY <1>1, <1>2, WorkFields DEF BatchPc, RequestPc, HandledPc
<1>4. CASE ~CanBegin(a, j)
  <2>1. /\ jobs' = IF HoldsLease(j, lease) /\ jobs[j].agent = a THEN Released({j}) ELSE jobs
        /\ Goto(a, IF HoldsLease(j, lease) /\ jobs[j].agent = a THEN Responding(a, Nil) ELSE Idle)
        /\ UNCHANGED <<world, acceptance, attempts, destination, admission, commands, receipts>>
    BY <1>2, <1>4 DEF Reserve
  <2>2. PICK w : w = IF HoldsLease(j, lease) /\ jobs[j].agent = a
                     THEN [pc |-> "respond", req |-> req, upto |-> upto, batch |-> batch,
                           offer |-> Nil]
                     ELSE Idle
    OBVIOUS
  <2>3. Goto(a, w)
    BY <1>2, <2>1, <2>2 DEF Responding
  <2>4. jobs' = Released({j}) \/ jobs' = jobs
    BY <2>1
  <2> QED
    BY <1>1, <1>2, <2>1, <2>2, <2>3, <2>4, ReleaseStep
<1>5. CASE CanBegin(a, j)
  <2>1. PICK k, o, w : /\ k = Len(attempts[j]) + 1 /\ o = [job |-> j, lease |-> lease, gen |-> k]
                       /\ w = [pc |-> "respond", req |-> req, upto |-> upto, batch |-> batch,
                               offer |-> o]
    OBVIOUS
  <2>2. BeginAttempt(a, j, lease) /\ Goto(a, w)
    BY <1>2, <1>5, <2>1 DEF Reserve, Responding
  <2>3. k \in Nat /\ o \in Offer /\ o.job = j /\ o.gen = k
    <3>1. Len(attempts[j]) \in Nat
      BY <1>3, AttemptFields
    <3>2. k \in Nat
      BY <2>1, <3>1
    <3> QED
      BY <1>3, <2>1, <3>2 DEF Offer
  <2>4. w \in Work /\ w.pc = "respond"
    BY <1>3, <2>1, <2>3, HandlerMade
  <2>5. work'[a] = w /\ (\A b \in Agent : b # a => work'[b] = work[b]) /\ work' \in [Agent -> Work]
    BY <2>2, <2>4 DEF Goto, TypeOK
  <2>6. PICK b \in BOOLEAN : b = (jobs[j].lease = lease => jobs[j].live)
    OBVIOUS
  <2>7. PICK t : t = [state |-> "route_leased", agent |-> a, lease |-> lease, live |-> b,
                      reserved |-> TRUE, resolution |-> "none"]
    OBVIOUS
  <2>8. RouteLease(t, a) /\ t.agent = a
    <3>1. t \in Attempt
      BY <1>3, <2>7 DEF Attempt, AttemptState
    <3> QED
      BY <2>7, <3>1 DEF RouteLease
  <2>9. Begins(j, k, t)
    <3>1. attempts' = [Swept EXCEPT ![j] = Append(Swept[j], t)]
      BY <1>3, <2>2, <2>6, <2>7 DEF BeginAttempt, Swept
    <3> QED
      BY <2>1, <3>1 DEF Begins
  <2>10. /\ jobs' \in [Job -> JobRow] /\ \A i \in Job : jobs'[i].state = jobs[i].state
         /\ UNCHANGED <<world, acceptance, destination, admission, commands, receipts>>
    <3>1. PICK l : l = IF jobs[j].leases < lease THEN lease ELSE jobs[j].leases
      OBVIOUS
    <3>2. l \in Nat
      BY <1>3, <3>1, JobFields
    <3>3. PICK row : row = [jobs[j] EXCEPT !.leases = l]
      OBVIOUS
    <3>4. row \in JobRow /\ row.state = jobs[j].state
      BY <1>3, <3>2, <3>3, JobFields DEF JobRow
    <3>5. jobs' = [jobs EXCEPT ![j] = row]
      <4>1. jobs' = [jobs EXCEPT ![j].leases = IF @ < lease THEN lease ELSE @]
        BY <2>2 DEF BeginAttempt
      <4> QED
        BY <1>3, <3>1, <3>3, <4>1, JobFields
    <3> QED
      BY <1>3, <2>2, <3>4, <3>5, JobSet DEF BeginAttempt
  <2>11. Quiet
    BY <1>1, <2>4, <2>5, <2>10 DEF Quiet
  <2>12. /\ AttemptInv' /\ attempts' \in [Job -> Seq(Attempt)] /\ OwnersKept
         /\ k \in DOMAIN attempts'[j] /\ attempts'[j][k] = t /\ k \notin Generations(j)
    BY <1>3, <1>5, <2>8, <2>9, <2>11, BeginMoves
  <2>13. Batched(a, req, upto, batch)'
    BY <1>1, <1>2, <2>10, <2>11, <2>12, BatchedQuiet DEF OwnersKept
  <2>14. acceptance'[j] # Nil => acceptance'[j].gen # k
    BY <1>3, <2>10, <2>12 DEF CloudInv, AttemptInv, AcceptedIsOpen
  <2>15. WorkInv(a)'
    <3>1. k \in Generations(j)' /\ attempts'[j][k].agent = a
      BY <2>8, <2>12 DEF Generations
    <3> QED
      BY <1>3, <2>1, <2>3, <2>5, <2>13, <2>14, <3>1, OffersWork
  <2>16. TypeOK'
    <3>1. ServerTypeOK'
      BY <2>10, <2>12 DEF ServerTypeOK, TypeOK, JobRow
    <3> QED
      BY <1>1, <2>5, <3>1 DEF TypeOK, node, outbox, commanded
  <2> QED
    BY <2>5, <2>10, <2>11, <2>12, <2>15, <2>16, ActorFrame DEF OwnersKept
<1> QED
  BY <1>4, <1>5

\* release_offer: the lease goes back if it is still this one.
LEMMA ReturnStep ==
  ASSUME TypeOK, CloudInv, NEW a \in Agent, NEW o, Return(a, o)
  PROVE  TypeOK' /\ CloudInv'
<1>1. /\ Goto(a, Idle) /\ Idle \in Work /\ Idle.pc = "idle" /\ faults' \in Nat
      /\ UNCHANGED <<world, acceptance, attempts, destination, admission, commands, receipts>>
      /\ UNCHANGED <<node, printed>>
  BY CycleMade DEF Return, Idle, history, TypeOK
<1>2. jobs' \in [Job -> JobRow] /\ \A j \in Job : jobs'[j].state = jobs[j].state
  <2>1. jobs \in [Job -> JobRow]
    BY DEF TypeOK, ServerTypeOK, JobRow
  <2>2. jobs' = jobs \/ jobs' = Released({o.job})
    BY DEF Return
  <2> QED
    BY <2>1, <2>2, ReleasedRows
<1>3. work'[a] = Idle
  BY <1>1 DEF Goto, TypeOK
<1>4. WorkInv(a)'
  BY <1>1, <1>3, RestingWork
<1> QED
  BY <1>1, <1>2, <1>4, LeasesFrame

\* Returning an offer whose content or lease cannot be had preserves the invariant.
LEMMA DeclineStep ==
  ASSUME TypeOK, CloudInv, NEW a \in Agent, DeclineOffer(a)
  PROVE  TypeOK' /\ CloudInv'
<1>1. PICK o : Return(a, o)
  BY DEF DeclineOffer
<1> QED
  BY <1>1, ReturnStep

-----------------------------------------------------------------------------
(* Steps of a node's engine.                                               *)

\* A step of one node on its own tables.
OwnStep(a) ==
  /\ UNCHANGED <<server, work, acked, cursor, ledger>>
  /\ \A b \in Agent : b # a => SameNode(b)

\* It keeps everything if it keeps what the node's tables say.
LEMMA OwnFrame ==
  ASSUME TypeOK, CloudInv, NEW a \in Agent, OwnStep(a), EvidenceGrows, KeepsWord(a), Grows(a),
         NodeInv(a)'
  PROVE  CloudInv'
<1>1. /\ Progress /\ AcceptancesStay /\ (\A b \in Agent : Untaken(b)) /\ attempts' = attempts
      /\ acceptance' = acceptance /\ work' = work /\ commands' = commands
      /\ cursor' = cursor /\ ledger' = ledger
  BY DEF OwnStep, server, Progress, AcceptancesStay, Untaken, Generations
<1>2. ASSUME NEW b \in Agent
      PROVE  AgentInv(b)' /\ KeepsWord(b)
  <2>1. AgentInv(b)
    BY DEF CloudInv
  <2>2. CASE b = a
    <3>1. WorkInv(b)'
      BY <1>1, <2>1, <2>2, WorkFrame DEF AgentInv
    <3>2. CommandsAreCarried(b)'
      BY <1>1, <2>1, <2>2, CommandsFrame DEF AgentInv
    <3> QED
      BY <2>2, <3>1, <3>2 DEF AgentInv
  <2>3. CASE b # a
    <3>1. SameNode(b)
      BY <2>3 DEF OwnStep
    <3>2. AgentInv(b)'
      BY <1>1, <2>1, <3>1, AgentFrame
    <3>3. KeepsWord(b)
      BY <1>1, <3>1, WordFrame DEF SameNode
    <3> QED
      BY <3>2, <3>3
  <2> QED
    BY <2>2, <2>3
<1>3. AttemptInv'
  BY <1>1, <1>2, AttemptsUntouched DEF CloudInv
<1> QED
  BY <1>2, <1>3 DEF CloudInv

\* append_event, on the node's tables.
Reports(a, j, to) ==
  /\ local'[a][j] = to /\ \A i \in Job : i # j => local'[a][i] = local[a][i]
  /\ \A b \in Agent : b # a => local'[b] = local[b] /\ events'[b] = events[b]
  /\ Len(events'[a]) = Len(events[a]) + 1 /\ DOMAIN events'[a] = DOMAIN events[a] \cup {Len(events[a]) + 1}
  /\ \A n \in DOMAIN events[a] : events'[a][n] = events[a][n]
  /\ events'[a][Len(events[a]) + 1] = [job |-> j, state |-> to]

LocalTypes ==
  /\ local \in [Agent -> [Job -> JobState \cup {"absent", "cloud_accept_pending"}]]
  /\ events \in [Agent -> Seq(Event)]

\* What reporting a state adds to the outbox of a node.
LEMMA ReportFacts ==
  ASSUME TypeOK, NEW a \in Agent, NEW j \in Job, NEW to \in JobState, Report(a, j, to)
  PROVE  LocalTypes' /\ Reports(a, j, to)
<1>1. PICK e : e = [job |-> j, state |-> to]
  OBVIOUS
<1>2. e \in Event
  BY <1>1 DEF Event
<1>3. events' = [events EXCEPT ![a] = Append(events[a], e)] /\ events \in [Agent -> Seq(Event)]
  BY <1>1 DEF Report, TypeOK
<1>4. /\ Append(events[a], e) \in Seq(Event) /\ Len(Append(events[a], e)) = Len(events[a]) + 1
      /\ DOMAIN Append(events[a], e) = DOMAIN events[a] \cup {Len(events[a]) + 1}
      /\ \A n \in DOMAIN events[a] : Append(events[a], e)[n] = events[a][n]
      /\ Append(events[a], e)[Len(events[a]) + 1] = e
  BY <1>2, AppendFacts, EventFields
<1>5. events'[a] = Append(events[a], e) /\ events' \in [Agent -> Seq(Event)]
      /\ \A b \in Agent : b # a => events'[b] = events[b]
  BY <1>3, <1>4
<1>6. /\ local' = [local EXCEPT ![a][j] = to]
      /\ local \in [Agent -> [Job -> JobState \cup {"absent", "cloud_accept_pending"}]]
  BY DEF Report, TypeOK
<1>7. /\ local' \in [Agent -> [Job -> JobState \cup {"absent", "cloud_accept_pending"}]]
      /\ local'[a][j] = to /\ \A i \in Job : i # j => local'[a][i] = local[a][i]
      /\ \A b \in Agent : b # a => local'[b] = local[b]
  BY <1>6
<1> QED
  BY <1>1, <1>4, <1>5, <1>7 DEF Reports, LocalTypes

\* A report of an accepted job is an event of an accepted job.
LEMMA ReportedEvents ==
  ASSUME TypeOK, NEW a \in Agent, NEW j \in Job, NEW to, Reports(a, j, to), EventsAreAccepted(a),
         Mine(a, j), to # "agent_accepted", to = "completed_reported" => printed[a][j] = 1,
         printed' = printed, acceptance' = acceptance
  PROVE  EventsAreAccepted(a)'
<1>1. PICK k : k = Len(events[a]) + 1
  OBVIOUS
<1>2. /\ DOMAIN events'[a] = DOMAIN events[a] \cup {k}
      /\ \A n \in DOMAIN events[a] : events'[a][n] = events[a][n]
      /\ events'[a][k] = [job |-> j, state |-> to]
  BY <1>1 DEF Reports
<1>3. ASSUME NEW n \in DOMAIN events[a]
      PROVE  /\ Mine(a, events[a][n].job)' /\ events'[a][n].state # "agent_accepted"
             /\ events'[a][n].state = "completed_reported" => printed'[a][events'[a][n].job] = 1
  BY <1>2 DEF EventsAreAccepted, Mine
<1>4. /\ Mine(a, events[a][k].job)' /\ events'[a][k].state # "agent_accepted"
      /\ events'[a][k].state = "completed_reported" => printed'[a][events'[a][k].job] = 1
  BY <1>2 DEF Mine
<1> QED
  BY <1>2, <1>3, <1>4 DEF EventsAreAccepted, Mine

\* A job that a node has evidence of was accepted with that attempt.
LEMMA WitnessedGen ==
  ASSUME TypeOK, CloudInv, NEW a \in Agent, NEW j \in Job, NEW g, Witnessed(a, j, g)
  PROVE  Mine(a, j) /\ acceptance[j].gen = g /\ g \in Generations(j) /\ g # 0
<1>1. PICK n \in DOMAIN evidence[a] : evidence[a][n].job = j /\ evidence[a][n].gen = g
  BY DEF Witnessed, Witness
<1>2. Mine(a, j) /\ acceptance[j].gen = g
  BY <1>1 DEF CloudInv, AgentInv, NodeInv, HandoffsAreAccepted
<1>3. g \in Generations(j)
  BY <1>2 DEF CloudInv, AttemptInv, AcceptedIsOpen, Mine
<1> QED
  BY <1>2, <1>3, AttemptFields

\* What the engine's step on a job may do beside the report.
Drives(a, j) ==
  /\ UNCHANGED <<server, work, intent, evidence, outbox, commanded, history>>
  /\ proof' \in [Agent -> [Job -> Nat]]
  /\ \A b \in Agent : b # a => proof'[b] = proof[b]
  /\ \A i \in Job : i # j => proof'[a][i] = proof[a][i]
  /\ proof'[a][j] = proof[a][j] \/ proof'[a][j] = 0
  /\ engine' = engine \/ engine' = [engine EXCEPT ![a] = Nil]

\* A node that moves a row and reports it preserves the invariant.
LEMMA ReportStep ==
  ASSUME TypeOK, CloudInv, NEW a \in Agent, NEW j \in Job, NEW to \in JobState, Report(a, j, to),
         Drives(a, j), Mine(a, j), local[a][j] # "cloud_accept_pending",
         to \notin {"agent_accepted", "queued_local"},
         to \in OnItsWay => Proved(a, j) /\ proof' = proof,
         engine'[a] = j => to \in OnItsWay \cup {"cancelled", "expired"} /\ Proved(a, j) /\ proof' = proof,
         to = "completed_reported" => printed[a][j] = 1
  PROVE  TypeOK' /\ CloudInv'
<1>1. /\ UNCHANGED <<server, work, acked, cursor, ledger>> /\ intent' = intent
      /\ evidence' = evidence /\ printed' = printed /\ acceptance' = acceptance /\ faults' = faults
      /\ receipts' = receipts /\ evidenceAcked' = evidenceAcked
  BY DEF Drives, outbox, commanded, history, server
<1>2. Reports(a, j, to) /\ LocalTypes'
  BY ReportFacts
<1>3. engine' \in [Agent -> Job \cup {Nil}] /\ \A b \in Agent : b # a => engine'[b] = engine[b]
  BY DEF Drives, TypeOK
<1>4. engine'[a] = engine[a] \/ engine'[a] = Nil
  BY DEF Drives, TypeOK
<1>5. TypeOK'
  <2>1. ServerTypeOK'
    BY <1>1 DEF server, TypeOK, ServerTypeOK
  <2> QED
    BY <1>1, <1>2, <1>3, <2>1 DEF TypeOK, LocalTypes, Drives
<1>6. OwnStep(a)
  BY <1>1, <1>2, <1>3 DEF OwnStep, SameNode, Reports, Drives
<1>7. EvidenceGrows /\ Grows(a)
  <2>1. Len(events'[a]) = Len(events[a]) + 1 /\ Len(events[a]) \in Nat
    BY <1>2, EventFields DEF Reports
  <2> QED
    BY <1>1, <2>1, EvidenceFields DEF EvidenceGrows, Grows
<1>8. KeepsWord(a)
  <2>1. ASSUME NEW i \in Job, StaysCancelled(a, i)
        PROVE  StaysCancelled(a, i)'
    <3>1. local'[a][i] \notin {"absent", "queued_local"}
      BY <1>2, <2>1 DEF StaysCancelled, Reports, JobState, Successors, Terminal
    <3> QED
      BY <1>1, <2>1, <3>1 DEF StaysCancelled, server
  <2>2. ASSUME NEW i \in Job, NEW g \in Nat, Resolved(a, i, g)
        PROVE  Resolved(a, i, g)'
    <3>1. Witnessed(a, i, g)' /\ g # 0
      BY <1>1, <2>2, WitnessedGen DEF Resolved, Witnessed, Witness
    <3>2. proof'[a][i] # g
      BY <2>2, <3>1 DEF Resolved, Drives
    <3> QED
      BY <3>1, <3>2 DEF Resolved
  <2> QED
    BY <2>1, <2>2 DEF KeepsWord
<1>9. NodeInv(a)
  BY DEF CloudInv, AgentInv
<1>10. ASSUME NEW i \in Job
       PROVE  RowIsAccepted(a, i)'
  <2>1. RowIsAccepted(a, i)
    BY <1>9 DEF NodeInv
  <2>2. CASE i # j
    <3>1. local'[a][i] = local[a][i] /\ proof'[a][i] = proof[a][i] /\ i # Nil
      BY <1>2, <2>2, CloudAssumption DEF Reports, Drives
    <3>2. /\ Mine(a, i)' <=> Mine(a, i)
          /\ Proved(a, i)' <=> Proved(a, i)
      BY <1>1, <3>1 DEF Mine, Proved
    <3> QED
      BY <1>1, <1>4, <2>1, <3>1, <3>2 DEF RowIsAccepted
  <2>3. CASE i = j
    <3>1. intent'[a][j] = Nil /\ local'[a][j] = to /\ to # "cloud_accept_pending" /\ Mine(a, j)'
      BY <1>1, <1>2, <2>1, <2>3 DEF RowIsAccepted, Reports, Mine, JobState, Successors, Terminal
    <3>2. Proved(a, j) /\ proof' = proof => Proved(a, j)'
      BY <1>1, <3>1 DEF Proved
    <3> QED
      BY <2>3, <3>1, <3>2 DEF RowIsAccepted
  <2> QED
    BY <2>2, <2>3
<1>11. HandoffsAreAccepted(a)'
  BY <1>1, <1>9, HandoffFrame DEF NodeInv, AcceptancesStay
<1>12. EventsAreAccepted(a)'
  BY <1>1, <1>2, <1>9, ReportedEvents DEF NodeInv
<1>13. NodeInv(a)'
  BY <1>1, <1>9, <1>10, <1>11, <1>12 DEF NodeInv
<1> QED
  BY <1>5, <1>6, <1>7, <1>8, <1>13, OwnFrame

\* What a row says of the job in it.
LEMMA RowFacts ==
  ASSUME CloudInv, NEW a \in Agent, NEW j \in Job
  PROVE  RowIsAccepted(a, j)
BY DEF CloudInv, AgentInv, NodeInv

\* The engine takes the head of the queue.
LEMMA HeadStep ==
  ASSUME TypeOK, CloudInv, NEW a \in Agent, NEW j \in Job, ReadHead(a, j)
  PROVE  TypeOK' /\ CloudInv'
<1>1. /\ UNCHANGED <<server, work, acked, cursor, ledger>> /\ intent' = intent /\ local' = local
      /\ proof' = proof /\ events' = events /\ evidenceAcked' = evidenceAcked /\ faults' = faults
      /\ evidence' = evidence /\ printed' = printed /\ acceptance' = acceptance
      /\ receipts' = receipts /\ local[a][j] = "queued_local"
  BY DEF ReadHead, outbox, commanded, history, server
<1>2. /\ engine' \in [Agent -> Job \cup {Nil}] /\ engine'[a] = j
      /\ \A b \in Agent : b # a => engine'[b] = engine[b]
  BY DEF ReadHead, TypeOK
<1>3. TypeOK'
  <2>1. ServerTypeOK'
    BY <1>1 DEF server, TypeOK, ServerTypeOK
  <2> QED
    BY <1>1, <1>2, <2>1 DEF TypeOK
<1>4. OwnStep(a) /\ EvidenceGrows /\ AcceptancesStay /\ Progress
  BY <1>1, <1>2 DEF OwnStep, SameNode, EvidenceGrows, AcceptancesStay, Progress, server, Generations
<1>5. Grows(a)
  BY <1>1, EventFields, EvidenceFields DEF Grows
<1>6. KeepsWord(a)
  BY <1>1, <1>4, WordFrame
<1>7. NodeInv(a)
  BY DEF CloudInv, AgentInv
<1>8. ASSUME NEW i \in Job
      PROVE  RowIsAccepted(a, i)'
  <2>1. RowIsAccepted(a, i)
    BY RowFacts
  <2>2. (Mine(a, i)' <=> Mine(a, i)) /\ (Proved(a, i)' <=> Proved(a, i))
    BY <1>1 DEF Mine, Proved
  <2> QED
    BY <1>1, <1>2, <2>1, <2>2 DEF RowIsAccepted, OnItsWay
<1>9. HandoffsAreAccepted(a)' /\ EventsAreAccepted(a)'
  BY <1>1, <1>4, <1>7, HandoffFrame, EventFrame DEF NodeInv
<1>10. NodeInv(a)'
  BY <1>1, <1>7, <1>8, <1>9 DEF NodeInv
<1> QED
  BY <1>3, <1>4, <1>5, <1>6, <1>10, OwnFrame

\* Nothing but the report.
LEMMA DrivesOnly ==
  ASSUME TypeOK, NEW a \in Agent, NEW j \in Job,
         UNCHANGED <<server, work, intent, proof, evidence, outbox, commanded, history>>,
         engine' = engine \/ engine' = [engine EXCEPT ![a] = Nil]
  PROVE  Drives(a, j) /\ proof' = proof
BY DEF Drives, TypeOK

\* begin_execution, execute_job up to the spool intent and fail_invalid_job_options.
LEMMA ExecuteStep ==
  ASSUME TypeOK, CloudInv, NEW a \in Agent, NEW j \in Job,
         BeginExecution(a, j) \/ PersistIntent(a, j) \/ FailOptions(a, j)
  PROVE  TypeOK' /\ CloudInv'
<1>0. engine[a] = j /\ RowIsAccepted(a, j)
  BY RowFacts DEF BeginExecution, PersistIntent, FailOptions
<1>1. Proved(a, j) /\ Mine(a, j) /\ local[a][j] # "cloud_accept_pending"
  BY <1>0 DEF RowIsAccepted, Proved, OnItsWay
<1>2. CASE BeginExecution(a, j)
  <2>1. Report(a, j, "preparing") /\ "preparing" \in JobState /\ "preparing" \in OnItsWay
    BY <1>2 DEF BeginExecution, JobState, Successors, OnItsWay
  <2>2. Drives(a, j) /\ proof' = proof
    BY <1>2, DrivesOnly DEF BeginExecution
  <2> QED
    BY <1>1, <2>1, <2>2, ReportStep
<1>3. CASE PersistIntent(a, j)
  <2>1. Report(a, j, "spool_intent") /\ "spool_intent" \in JobState /\ "spool_intent" \in OnItsWay
    BY <1>3 DEF PersistIntent, JobState, Successors, OnItsWay
  <2>2. Drives(a, j) /\ proof' = proof
    BY <1>3, DrivesOnly DEF PersistIntent
  <2> QED
    BY <1>1, <2>1, <2>2, ReportStep
<1>4. CASE FailOptions(a, j)
  <2>1. /\ Report(a, j, "failed_terminal") /\ "failed_terminal" \in JobState
        /\ "failed_terminal" \notin OnItsWay /\ engine'[a] # j
    BY <1>4, CloudAssumption DEF FailOptions, JobState, Terminal, OnItsWay, TypeOK
  <2>2. Drives(a, j) /\ proof' = proof
    BY <1>4, DrivesOnly DEF FailOptions
  <2> QED
    BY <1>1, <2>1, <2>2, ReportStep
<1> QED
  BY <1>2, <1>3, <1>4

\* The verdicts that are recorded.
LEMMA RecordedState ==
  ASSUME NEW v
  PROVE  /\ Recorded(v) \in {"accepted_by_spooler", "delivery_uncertain", "failed_retryable",
                             "failed_terminal"}
         /\ Recorded(v) \in JobState /\ Recorded(v) \notin OnItsWay
         /\ Recorded(v) \notin {"agent_accepted", "queued_local", "completed_reported"}
BY DEF Recorded, JobState, Successors, Terminal, OnItsWay

\* Recording what the spooler answered preserves the invariant.
LEMMA OutcomeStep ==
  ASSUME TypeOK, CloudInv, NEW a \in Agent, NEW j \in Job, RecordOutcome(a, j)
  PROVE  TypeOK' /\ CloudInv'
<1>0. engine[a] = j /\ RowIsAccepted(a, j) /\ engine' = [engine EXCEPT ![a] = Nil]
  BY RowFacts DEF RecordOutcome
<1>1. Mine(a, j) /\ local[a][j] # "cloud_accept_pending" /\ engine'[a] # j
  <2>1. Mine(a, j) /\ local[a][j] # "cloud_accept_pending"
    BY <1>0 DEF RowIsAccepted, Proved, OnItsWay
  <2> QED
    BY <1>0, <2>1, CloudAssumption DEF TypeOK
<1>2. Drives(a, j)
  BY DrivesOnly DEF RecordOutcome
<1>3. CASE Report(a, j, "failed_retryable")
  <2>1. /\ "failed_retryable" \in JobState /\ "failed_retryable" \notin OnItsWay
    BY DEF JobState, Successors, OnItsWay
  <2> QED
    BY <1>1, <1>2, <1>3, <2>1, ReportStep
<1>4. ASSUME NEW e \in EvidenceOf(a, j), Report(a, j, Recorded(e.outcome))
      PROVE  TypeOK' /\ CloudInv'
  <2>1. PICK to : to = Recorded(e.outcome)
    OBVIOUS
  <2>2. /\ to \in JobState /\ to \notin OnItsWay
        /\ to \notin {"agent_accepted", "queued_local", "completed_reported"}
    BY <2>1, RecordedState
  <2>3. Report(a, j, to)
    BY <1>4, <2>1
  <2> QED
    BY <1>1, <1>2, <2>2, <2>3, ReportStep
<1> QED
  BY <1>3, <1>4 DEF RecordOutcome

\* Startup recovery.
LEMMA RecoverIntentStep ==
  ASSUME TypeOK, CloudInv, NEW a \in Agent, NEW j \in Job, RecoverIntent(a, j)
  PROVE  TypeOK' /\ CloudInv'
<1>1. Mine(a, j) /\ local[a][j] # "cloud_accept_pending" /\ engine'[a] # j
  BY RowFacts DEF RecoverIntent, RowIsAccepted, Proved, OnItsWay
<1>2. PICK to : /\ to \in {"accepted_by_spooler", "delivery_uncertain", "failed_retryable",
                           "failed_terminal"}
                /\ Report(a, j, to)
                /\ proof' = proof \/ proof' = [proof EXCEPT ![a][j] = 0]
  BY RecordedState DEF RecoverIntent
<1>3. /\ to \in JobState /\ to \notin OnItsWay
      /\ to \notin {"agent_accepted", "queued_local", "completed_reported"}
  BY <1>2 DEF JobState, Successors, Terminal, OnItsWay
<1>4. Drives(a, j)
  <2>1. UNCHANGED <<server, work, intent, evidence, outbox, commanded, history>> /\ engine' = engine
    BY DEF RecoverIntent
  <2>2. /\ proof' \in [Agent -> [Job -> Nat]]
        /\ \A b \in Agent : b # a => proof'[b] = proof[b]
        /\ \A i \in Job : i # j => proof'[a][i] = proof[a][i]
        /\ proof'[a][j] = proof[a][j] \/ proof'[a][j] = 0
    <3>1. proof \in [Agent -> [Job -> Nat]]
      BY DEF TypeOK
    <3> QED
      BY <1>2, <3>1
  <2> QED
    BY <2>1, <2>2 DEF Drives
<1> QED
  BY <1>1, <1>2, <1>3, <1>4, ReportStep

\* The spooler is observed.
LEMMA ObserveStep ==
  ASSUME TypeOK, CloudInv, NEW a \in Agent, NEW j \in Job, NEW to \in world.sightings, Observe(a, j, to)
  PROVE  TypeOK' /\ CloudInv'
<1>1. to \in {"printing", "completed_reported", "delivery_uncertain", "failed_terminal", "cancelled"}
  <2>1. world \in World
    BY CloudAssumption DEF TypeOK, ServerTypeOK
  <2> QED
    BY <2>1 DEF World
<1>2. to \in JobState /\ to \notin OnItsWay /\ to \notin {"agent_accepted", "queued_local"}
  BY <1>1 DEF JobState, Successors, Terminal, OnItsWay
<1>3. PICK n \in DOMAIN evidence[a] : evidence[a][n].job = j /\ evidence[a][n].outcome = "accepted"
  BY DEF Observe, HandedOver
<1>4. Mine(a, j) /\ printed[a][j] = 1
  BY <1>3 DEF CloudInv, AgentInv, NodeInv, HandoffsAreAccepted
<1>5. local[a][j] # "cloud_accept_pending" /\ engine'[a] # j
  BY RowFacts DEF Observe, RowIsAccepted, OnItsWay
<1>6. Drives(a, j)
  BY DrivesOnly DEF Observe
<1>7. Report(a, j, to)
  BY DEF Observe
<1> QED
  BY <1>2, <1>4, <1>5, <1>6, <1>7, ReportStep

\* A node that expires a queued job preserves the invariant.
LEMMA ExpireLocallyStep ==
  ASSUME TypeOK, CloudInv, NEW a \in Agent, NEW j \in Job, ExpireLocally(a, j)
  PROVE  TypeOK' /\ CloudInv'
<1>1. /\ "expired" \in JobState /\ "expired" \notin OnItsWay
  BY DEF JobState, Terminal, OnItsWay
<1>2. Drives(a, j) /\ proof' = proof
  BY DrivesOnly DEF ExpireLocally
<1>3. /\ Mine(a, j) /\ local[a][j] # "cloud_accept_pending"
      /\ engine'[a] = j => Proved(a, j)
  BY RowFacts DEF ExpireLocally, RowIsAccepted, OnItsWay
<1>4. Report(a, j, "expired")
  BY DEF ExpireLocally
<1> QED
  BY <1>1, <1>2, <1>3, <1>4, ReportStep

\* A native handoff is the job's first, and its evidence says what the OS did.
HandsOver(a, j, e, taken) ==
  /\ e \in Handoff /\ e.job = j /\ e.gen = proof[a][j] /\ taken \in {0, 1}
  /\ e.outcome = "accepted" => taken = 1
  /\ evidence' = [evidence EXCEPT ![a] = Append(evidence[a], e)]
  /\ printed' = [printed EXCEPT ![a][j] = printed[a][j] + taken]
  /\ engine[a] = j /\ EvidenceOf(a, j) = {}
  /\ UNCHANGED <<server, local, intent, proof, events, outbox, commanded, engine, work, faults>>

\* What handing a job to the spooler changes of its node.
LEMMA HandOffFacts ==
  ASSUME TypeOK, NEW a \in Agent, NEW j \in Job, NEW v \in world.verdicts, HandOff(a, j, v)
  PROVE  \E e, taken : HandsOver(a, j, e, taken)
<1>1. v \in {"accepted", "rejected", "retryable", "ambiguous"}
  <2>1. world \in World
    BY CloudAssumption DEF TypeOK, ServerTypeOK
  <2> QED
    BY <2>1 DEF World
<1>2. PICK e : e = [job |-> j, gen |-> proof[a][j], outcome |-> v]
  OBVIOUS
<1>3. e \in Handoff /\ e.job = j /\ e.gen = proof[a][j] /\ e.outcome = v
  <2>1. proof[a][j] \in Nat
    BY DEF TypeOK
  <2> QED
    BY <1>1, <1>2, <2>1 DEF Handoff
<1>4. PICK taken : /\ taken \in (CASE v = "accepted" -> {1} [] v = "ambiguous" -> {0, 1} [] OTHER -> {0})
                   /\ printed' = [printed EXCEPT ![a][j] = @ + taken]
  BY DEF HandOff
<1>5. taken \in {0, 1} /\ (v = "accepted" => taken = 1)
  BY <1>1, <1>4
<1>6. printed' = [printed EXCEPT ![a][j] = printed[a][j] + taken]
  BY <1>4, <1>5 DEF TypeOK
<1>7. evidence' = [evidence EXCEPT ![a] = Append(evidence[a], e)]
  BY <1>2 DEF HandOff, TypeOK
<1>8. /\ engine[a] = j /\ EvidenceOf(a, j) = {}
      /\ UNCHANGED <<server, local, intent, proof, events, outbox, commanded, engine, work, faults>>
  BY DEF HandOff
<1> QED
  BY <1>3, <1>5, <1>6, <1>7, <1>8 DEF HandsOver

\* Handing a job to the spooler preserves the invariant.
LEMMA HandOffStep ==
  ASSUME TypeOK, CloudInv, NEW a \in Agent, NEW j \in Job, NEW e, NEW taken, HandsOver(a, j, e, taken)
  PROVE  TypeOK' /\ CloudInv'
<1>1. /\ UNCHANGED <<server, work, acked, cursor, ledger>> /\ intent' = intent /\ local' = local
      /\ proof' = proof /\ events' = events /\ evidenceAcked' = evidenceAcked /\ faults' = faults
      /\ engine' = engine /\ acceptance' = acceptance /\ receipts' = receipts
      /\ EvidenceOf(a, j) = {}
  BY DEF HandsOver, outbox, commanded, server
<1>2. PICK k : k = Len(evidence[a]) + 1
  OBVIOUS
<1>3. /\ evidence' \in [Agent -> Seq(Handoff)] /\ evidence'[a] = Append(evidence[a], e)
      /\ \A b \in Agent : b # a => evidence'[b] = evidence[b]
  <2>1. evidence' = [evidence EXCEPT ![a] = Append(evidence[a], e)] /\ evidence \in [Agent -> Seq(Handoff)]
    BY DEF HandsOver, TypeOK
  <2>2. Append(evidence[a], e) \in Seq(Handoff)
    BY EvidenceFields, AppendFacts DEF HandsOver
  <2> QED
    BY <2>1, <2>2
<1>4. /\ Len(evidence'[a]) = k /\ DOMAIN evidence'[a] = DOMAIN evidence[a] \cup {k}
      /\ \A n \in DOMAIN evidence[a] : evidence'[a][n] = evidence[a][n] /\ n # k
      /\ evidence'[a][k] = e
  <2>1. evidence[a] \in Seq(Handoff) /\ e \in Handoff
    BY EvidenceFields DEF HandsOver
  <2> QED
    BY <1>2, <1>3, <2>1, AppendFacts
<1>5. e.job = j /\ e.gen = proof[a][j] /\ (e.outcome = "accepted" => taken = 1) /\ taken \in {0, 1}
  BY DEF HandsOver
<1>6. PICK c : c = printed[a][j] + taken
  OBVIOUS
<1>7. /\ printed' \in [Agent -> [Job -> Nat]] /\ printed'[a][j] = c
      /\ \A i \in Job : i # j => printed'[a][i] = printed[a][i]
      /\ \A b \in Agent : b # a => printed'[b] = printed[b]
  <2>1. printed' = [printed EXCEPT ![a][j] = c] /\ printed \in [Agent -> [Job -> Nat]]
    BY <1>6 DEF HandsOver, TypeOK
  <2>2. c \in Nat
    BY <1>5, <1>6 DEF TypeOK
  <2> QED
    BY <2>1, <2>2
<1>8. NodeInv(a)
  BY DEF CloudInv, AgentInv
<1>9. Proved(a, j) /\ Mine(a, j)
  BY RowFacts DEF RowIsAccepted, Proved, HandsOver
<1>10. \A n \in DOMAIN evidence[a] : evidence[a][n].job # j
  <2> SUFFICES ASSUME NEW n \in DOMAIN evidence[a], evidence[a][n].job = j
               PROVE  FALSE
    OBVIOUS
  <2>1. evidence[a][n].gen = proof[a][j]
    BY <1>8, <1>9 DEF NodeInv, HandoffsAreAccepted, Proved
  <2>2. evidence[a][n] \in EvidenceOf(a, j)
    BY <2>1 DEF EvidenceOf
  <2> QED
    BY <1>1, <2>2
<1>11. printed[a][j] = 0 /\ c = taken
  <2>1. printed[a][j] = 0
    BY <1>8, <1>10 DEF NodeInv, HandoffsAreAccepted
  <2> QED
    BY <1>5, <1>6, <2>1
<1>12. TypeOK'
  <2>1. ServerTypeOK'
    BY <1>1 DEF server, TypeOK, ServerTypeOK
  <2> QED
    BY <1>1, <1>3, <1>7, <2>1 DEF TypeOK
<1>13. OwnStep(a) /\ AcceptancesStay
  BY <1>1, <1>3, <1>7 DEF OwnStep, SameNode, AcceptancesStay
<1>14. EvidenceGrows
  BY <1>3, <1>4 DEF EvidenceGrows
<1>15. Grows(a)
  BY <1>1, <1>2, <1>4, EventFields, EvidenceFields DEF Grows
<1>16. KeepsWord(a)
  <2>1. ASSUME NEW i \in Job, StaysCancelled(a, i)
        PROVE  StaysCancelled(a, i)'
    BY <1>1, <2>1 DEF StaysCancelled, server
  <2>2. ASSUME NEW i \in Job, NEW g \in Nat, Resolved(a, i, g)
        PROVE  Resolved(a, i, g)'
    <3>1. Witnessed(a, i, g)'
      BY <1>14, <2>2, WitnessFrame DEF EvidenceGrows, Resolved
    <3> QED
      BY <1>1, <2>2, <3>1 DEF Resolved
  <2> QED
    BY <2>1, <2>2 DEF KeepsWord
<1>17. ASSUME NEW i \in Job
       PROVE  RowIsAccepted(a, i)'
  BY <1>1, <1>13, RowFacts, RowFrame
<1>18. HandoffsAreAccepted(a)'
  <2>1. ASSUME NEW n \in DOMAIN evidence'[a]
        PROVE  /\ Mine(a, evidence[a][n].job)' /\ acceptance'[evidence'[a][n].job].gen = evidence'[a][n].gen
               /\ evidence'[a][n].outcome = "accepted" => printed'[a][evidence'[a][n].job] = 1
               /\ \A m \in DOMAIN evidence'[a] : evidence'[a][m].job = evidence'[a][n].job => m = n
    <3>1. CASE n = k
      BY <1>1, <1>4, <1>5, <1>7, <1>9, <1>10, <1>11, <3>1 DEF Mine, Proved
    <3>2. CASE n \in DOMAIN evidence[a]
      <4>1. evidence[a][n].job \in Job /\ evidence[a][n].job # j
        BY <1>10, <3>2, EvidenceFields
      <4> QED
        BY <1>1, <1>4, <1>5, <1>7, <1>8, <3>2, <4>1 DEF NodeInv, HandoffsAreAccepted, Mine
    <3> QED
      BY <1>4, <3>1, <3>2
  <2>2. ASSUME NEW i \in Job, printed'[a][i] # 0
        PROVE  printed'[a][i] = 1 /\ \E n \in DOMAIN evidence'[a] : evidence'[a][n].job = i
    <3>1. CASE i = j
      BY <1>4, <1>5, <1>7, <1>11, <2>2, <3>1
    <3>2. CASE i # j
      BY <1>4, <1>7, <1>8, <2>2, <3>2 DEF NodeInv, HandoffsAreAccepted
    <3> QED
      BY <3>1, <3>2
  <2> QED
    BY <2>1, <2>2 DEF HandoffsAreAccepted
<1>19. EventsAreAccepted(a)'
  <2>1. \A i \in Job : printed[a][i] = 1 => printed'[a][i] = 1
    BY <1>7, <1>11
  <2> QED
    BY <1>1, <1>8, <1>13, <2>1, EventFrame DEF NodeInv
<1>20. NodeInv(a)'
  BY <1>1, <1>8, <1>17, <1>18, <1>19 DEF NodeInv
<1> QED
  BY <1>12, <1>13, <1>14, <1>15, <1>16, <1>20, OwnFrame

\* Every step of the engine.
LEMMA EngineSteps ==
  ASSUME TypeOK, CloudInv, NEW a \in Agent, NEW j \in Job, EngineStep(a, j) \/ ExpireLocally(a, j)
  PROVE  TypeOK' /\ CloudInv'
<1>1. ASSUME NEW v \in world.verdicts, HandOff(a, j, v)
      PROVE  TypeOK' /\ CloudInv'
  <2>1. PICK e, taken : HandsOver(a, j, e, taken)
    BY <1>1, HandOffFacts
  <2> QED
    BY <2>1, HandOffStep
<1> QED
  BY <1>1, HeadStep, ExecuteStep, OutcomeStep, RecoverIntentStep, ObserveStep, ExpireLocallyStep
     DEF EngineStep

-----------------------------------------------------------------------------
(* Steps of a node's worker on the node's tables.                          *)

\* A step of one worker, on its node's tables alone.
ActStep(a, w) ==
  /\ Goto(a, w) /\ w \in Work /\ UNCHANGED server
  /\ \A b \in Agent : b # a => SameNode(b)

\* It keeps what is said of the server and of the other nodes.
LEMMA ActFrame ==
  ASSUME TypeOK, CloudInv, NEW a \in Agent, NEW w, ActStep(a, w), EvidenceGrows, KeepsWord(a),
         NodeInv(a)', WorkInv(a)', CommandsAreCarried(a)'
  PROVE  CloudInv'
<1>1. /\ Progress /\ (\A b \in Agent : Untaken(b)) /\ AcceptancesStay /\ attempts' = attempts
      /\ acceptance' = acceptance /\ commands' = commands
  BY DEF ActStep, server, Progress, AcceptancesStay, Untaken, Generations
<1>2. ASSUME NEW b \in Agent
      PROVE  AgentInv(b)' /\ KeepsWord(b)
  <2>1. CASE b = a
    BY <2>1 DEF AgentInv
  <2>2. CASE b # a
    <3>1. SameNode(b) /\ work'[b] = work[b]
      BY <2>2 DEF ActStep, Goto, TypeOK
    <3>2. AgentInv(b)'
      BY <1>1, <3>1, AgentFrame DEF CloudInv
    <3>3. KeepsWord(b)
      BY <1>1, <3>1, WordFrame DEF SameNode
    <3> QED
      BY <3>2, <3>3
  <2> QED
    BY <2>1, <2>2
<1>3. AttemptInv'
  BY <1>1, <1>2, AttemptsUntouched DEF CloudInv
<1> QED
  BY <1>2, <1>3 DEF CloudInv

\* A step on one job of a node.
JobOnly(a, j) ==
  /\ \A i \in Job : i # j => /\ local'[a][i] = local[a][i] /\ intent'[a][i] = intent[a][i]
                             /\ proof'[a][i] = proof[a][i]
  /\ engine'[a] = engine[a] \/ engine'[a] = Nil

\* A step on one row leaves the other rows accepted as they were.
LEMMA OtherRows ==
  ASSUME TypeOK, CloudInv, NEW a \in Agent, NEW j \in Job, JobOnly(a, j), AcceptancesStay,
         RowIsAccepted(a, j)', NEW i \in Job
  PROVE  RowIsAccepted(a, i)'
<1>1. CASE i # j
  <2>1. RowIsAccepted(a, i) /\ i # Nil
    BY RowFacts, CloudAssumption
  <2>2. /\ local'[a][i] = local[a][i] /\ intent'[a][i] = intent[a][i] /\ proof'[a][i] = proof[a][i]
        /\ engine'[a] = engine[a] \/ engine'[a] = Nil
    BY <1>1 DEF JobOnly
  <2>3. (Mine(a, i) => Mine(a, i)') /\ (Proved(a, i) => Proved(a, i)')
    BY <2>2 DEF Mine, Proved, AcceptancesStay
  <2>4. intent[a][i] # Nil /\ intent[a][i].confirmed =>
          acceptance'[i] = [agent |-> a, lease |-> intent[a][i].lease, gen |-> intent[a][i].gen]
    BY <2>1, IntentFields DEF RowIsAccepted, AcceptancesStay
  <2> QED
    BY <2>1, <2>2, <2>3, <2>4 DEF RowIsAccepted
<1> QED
  BY <1>1

\* The node's word on other jobs is kept, and on this one if its row says so.
LEMMA WordKept ==
  ASSUME TypeOK, CloudInv, NEW a \in Agent, NEW j \in Job, JobOnly(a, j), AcceptancesStay, Progress,
         EvidenceGrows,
         StaysCancelled(a, j) => local'[a][j] \notin {"absent", "queued_local"},
         \A i \in Job : StaysCancelled(a, i) => ~(work'[a].pc = "activate" /\ work'[a].job = i),
         \/ proof'[a][j] = proof[a][j] \/ proof'[a][j] = 0
         \/ acceptance[j] # Nil => acceptance[j].gen # proof'[a][j]
  PROVE  KeepsWord(a)
<1>1. ASSUME NEW i \in Job, StaysCancelled(a, i)
      PROVE  StaysCancelled(a, i)'
  <2>1. local'[a][i] \notin {"absent", "queued_local"}
    BY <1>1 DEF StaysCancelled, JobOnly
  <2> QED
    BY <1>1, <2>1, CancelFrame
<1>2. ASSUME NEW i \in Job, NEW g \in Nat, Resolved(a, i, g)
      PROVE  Resolved(a, i, g)'
  <2>1. /\ Witnessed(a, i, g) /\ Mine(a, i) /\ acceptance[i].gen = g /\ g # 0
    BY <1>2, WitnessedGen DEF Resolved
  <2>2. Witnessed(a, i, g)'
    BY <2>1, WitnessFrame DEF EvidenceGrows
  <2>3. proof'[a][i] # g
    BY <1>2, <2>1 DEF Resolved, JobOnly, Mine
  <2> QED
    BY <2>2, <2>3 DEF Resolved
<1> QED
  BY <1>1, <1>2 DEF KeepsWord

\* What the resumption has in hand.
LEMMA StageFacts ==
  ASSUME TypeOK, CloudInv, NEW a \in Agent, work[a].pc \in StagePc
  PROVE  /\ work[a] \in Work /\ work[a].job \in Job /\ work[a].todo \subseteq PendingAccepts(a)
         /\ work[a].job \in work[a].todo /\ intent[a][work[a].job] # Nil
         /\ local[a][work[a].job] = "cloud_accept_pending" /\ engine[a] # work[a].job
         /\ work[a].todo \in SUBSET Job /\ work[a].next \in {"snapshot", "idle"}
<1>1. /\ work[a] \in Work /\ work[a].job \in Job /\ work[a].todo \in SUBSET Job
      /\ work[a].next \in {"snapshot", "idle"}
  BY WorkFields DEF TypeOK, ResumePc
<1>2. ResumesPending(a)
  BY DEF CloudInv, AgentInv, WorkInv
<1>3. work[a].todo \subseteq PendingAccepts(a) /\ work[a].job \in work[a].todo
  BY <1>2 DEF ResumesPending, ResumePc
<1>4. intent[a][work[a].job] # Nil
  BY <1>3 DEF PendingAccepts
<1>5. RowIsAccepted(a, work[a].job)
  BY <1>1, RowFacts
<1> QED
  BY <1>1, <1>3, <1>4, <1>5 DEF RowIsAccepted, OnItsWay

\* The resumption goes on with the same job.
LEMMA StagedWork ==
  ASSUME TypeOK, NEW a \in Agent, NEW j \in Job, work[a].pc \in StagePc, work[a].job = j,
         j \in work[a].todo, work[a].todo \subseteq PendingAccepts(a)',
         NEW pc \in StagePc, NEW fresh \in BOOLEAN, NEW w, w = Stage(a, pc, fresh), work'[a] = w
  PROVE  w \in Work /\ w.pc = pc /\ w.job = j /\ WorkInv(a)'
<1>1. work[a].todo \in SUBSET Job /\ work[a].next \in {"snapshot", "idle"}
  BY WorkFields DEF TypeOK, ResumePc
<1>2. w = [pc |-> pc, todo |-> work[a].todo, next |-> work[a].next, job |-> j, fresh |-> fresh]
  BY DEF Stage
<1>3. w \in Work
  BY <1>1, <1>2, CycleMade
<1> QED
  BY <1>2, <1>3, ResumingWork DEF ResumePc

\* abandon_cloud_accept.
LEMMA AbandonStep ==
  ASSUME TypeOK, CloudInv, NEW a \in Agent, Abandon(a)
  PROVE  TypeOK' /\ CloudInv'
<1>1. PICK j, w : j = work[a].job /\ w = Skip(a)
  OBVIOUS
<1>2. work[a].pc = "abandon" /\ work[a].pc \in StagePc
  BY DEF Abandon, At, StagePc
<1>3. /\ j \in Job /\ intent[a][j] # Nil /\ local[a][j] = "cloud_accept_pending" /\ engine[a] # j
      /\ work[a].todo \subseteq PendingAccepts(a) /\ work[a].todo \in SUBSET Job
  BY <1>1, <1>2, StageFacts
<1>4. /\ local' = [local EXCEPT ![a][j] = "cancelled"] /\ intent' = [intent EXCEPT ![a][j] = Nil]
      /\ proof' = [proof EXCEPT ![a][j] = 0] /\ Goto(a, w)
      /\ UNCHANGED <<server, events, evidence, outbox, commanded, engine, history>>
  BY <1>1, <1>3 DEF Abandon
<1>5. /\ local' \in [Agent -> [Job -> JobState \cup {"absent", "cloud_accept_pending"}]]
      /\ intent' \in [Agent -> [Job -> Intent \cup {Nil}]] /\ proof' \in [Agent -> [Job -> Nat]]
      /\ local'[a][j] = "cancelled" /\ intent'[a][j] = Nil /\ proof'[a][j] = 0
      /\ \A i \in Job : i # j => /\ local'[a][i] = local[a][i] /\ intent'[a][i] = intent[a][i]
                                 /\ proof'[a][i] = proof[a][i]
      /\ \A b \in Agent : b # a => /\ local'[b] = local[b] /\ intent'[b] = intent[b]
                                   /\ proof'[b] = proof[b]
  <2>1. "cancelled" \in JobState
    BY DEF JobState, Terminal
  <2> QED
    BY <1>3, <1>4, <2>1 DEF TypeOK
<1>6. /\ events' = events /\ evidence' = evidence /\ acked' = acked /\ cursor' = cursor
      /\ ledger' = ledger /\ engine' = engine /\ printed' = printed /\ faults' = faults
      /\ evidenceAcked' = evidenceAcked /\ receipts' = receipts /\ commands' = commands
      /\ acceptance' = acceptance
  BY <1>4 DEF outbox, commanded, history, server
<1>7. work'[a] = w
  BY <1>4 DEF Goto, TypeOK
<1>8. w \in Work /\ w.pc # "activate" /\ WorkInv(a)'
  <2>1. work[a].todo \ {work[a].job} \subseteq PendingAccepts(a)'
    BY <1>1, <1>3, <1>5 DEF PendingAccepts
  <2> QED
    BY <1>1, <1>2, <1>7, <2>1, SkipWork
<1>9. TypeOK'
  <2>1. work' \in [Agent -> Work]
    BY <1>4, <1>8 DEF Goto, TypeOK
  <2>2. ServerTypeOK'
    BY <1>4 DEF server, TypeOK, ServerTypeOK
  <2> QED
    BY <1>5, <1>6, <2>1, <2>2 DEF TypeOK
<1>10. ActStep(a, w)
  BY <1>4, <1>5, <1>6, <1>8 DEF ActStep, SameNode
<1>11. EvidenceGrows /\ AcceptancesStay /\ Progress /\ JobOnly(a, j)
  BY <1>4, <1>5, <1>6 DEF EvidenceGrows, AcceptancesStay, Progress, JobOnly, server, Generations
<1>12. KeepsWord(a)
  BY <1>3, <1>5, <1>7, <1>8, <1>11, WordKept
<1>13. NodeInv(a)'
  <2>1. NodeInv(a)
    BY DEF CloudInv, AgentInv
  <2>2. RowIsAccepted(a, j)'
    BY <1>3, <1>5, <1>6 DEF RowIsAccepted, OnItsWay
  <2>3. \A i \in Job : RowIsAccepted(a, i)'
    BY <1>3, <1>11, <2>2, OtherRows
  <2>4. HandoffsAreAccepted(a)' /\ EventsAreAccepted(a)'
    BY <1>6, <1>11, <2>1, HandoffFrame, EventFrame DEF NodeInv
  <2> QED
    BY <1>6, <2>1, <2>3, <2>4 DEF NodeInv
<1>14. CommandsAreCarried(a)'
  BY <1>6, <1>11, <1>12, CommandsFrame DEF CloudInv, AgentInv
<1> QED
  BY <1>8, <1>9, <1>10, <1>11, <1>12, <1>13, <1>14, ActFrame

\* activate_cloud_job: a job is queued once its acceptance is confirmed.
LEMMA ActivateStep ==
  ASSUME TypeOK, CloudInv, NEW a \in Agent, Activate(a)
  PROVE  TypeOK' /\ CloudInv'
<1>1. PICK j, w : j = work[a].job /\ w = Skip(a)
  OBVIOUS
<1>2. work[a].pc = "activate" /\ work[a].pc \in StagePc
  BY DEF Activate, At, StagePc
<1>3. /\ j \in Job /\ intent[a][j] # Nil /\ local[a][j] = "cloud_accept_pending" /\ engine[a] # j
      /\ work[a].todo \subseteq PendingAccepts(a) /\ work[a].todo \in SUBSET Job
  BY <1>1, <1>2, StageFacts
<1>4. Goto(a, w) /\ UNCHANGED <<server, proof, evidence, outbox, commanded, engine, history>>
  BY <1>1 DEF Activate
<1>5. /\ proof' = proof /\ evidence' = evidence /\ acked' = acked /\ cursor' = cursor
      /\ ledger' = ledger /\ engine' = engine /\ printed' = printed /\ faults' = faults
      /\ evidenceAcked' = evidenceAcked /\ receipts' = receipts /\ commands' = commands
      /\ acceptance' = acceptance
  BY <1>4 DEF outbox, commanded, history, server
<1>6. work'[a] = w
  BY <1>4 DEF Goto, TypeOK
<1>7. CASE ~intent[a][j].confirmed
  <2>1. UNCHANGED <<local, events, intent>>
    BY <1>1, <1>7 DEF Activate
  <2>2. w \in Work /\ w.pc # "activate" /\ WorkInv(a)'
    <3>1. work[a].todo \ {work[a].job} \subseteq PendingAccepts(a)'
      BY <1>3, <2>1 DEF PendingAccepts
    <3> QED
      BY <1>1, <1>2, <1>6, <3>1, SkipWork
  <2>3. WorkOnly(a, w)
    BY <1>4, <1>5, <2>1, <2>2 DEF WorkOnly, node, outbox, commanded, TypeOK
  <2> QED
    BY <2>2, <2>3, WorkOnlyFrame
<1>8. CASE intent[a][j].confirmed
  <2>1. Report(a, j, "queued_local") /\ intent' = [intent EXCEPT ![a][j] = Nil]
    BY <1>1, <1>3, <1>8 DEF Activate
  <2>2. "queued_local" \in JobState
    BY DEF JobState, Successors
  <2>3. Reports(a, j, "queued_local") /\ LocalTypes'
    BY <1>3, <2>1, <2>2, ReportFacts
  <2>4. /\ intent' \in [Agent -> [Job -> Intent \cup {Nil}]] /\ intent'[a][j] = Nil
        /\ \A i \in Job : i # j => intent'[a][i] = intent[a][i]
        /\ \A b \in Agent : b # a => intent'[b] = intent[b]
    BY <1>3, <2>1 DEF TypeOK
  <2>5. w \in Work /\ w.pc # "activate" /\ WorkInv(a)'
    <3>1. work[a].todo \ {work[a].job} \subseteq PendingAccepts(a)'
      BY <1>1, <1>3, <2>4 DEF PendingAccepts
    <3> QED
      BY <1>1, <1>2, <1>6, <3>1, SkipWork
  <2>6. TypeOK'
    <3>1. work' \in [Agent -> Work]
      BY <1>4, <2>5 DEF Goto, TypeOK
    <3>2. ServerTypeOK'
      BY <1>4 DEF server, TypeOK, ServerTypeOK
    <3> QED
      BY <1>5, <2>3, <2>4, <3>1, <3>2 DEF TypeOK, LocalTypes
  <2>7. ActStep(a, w)
    BY <1>4, <1>5, <2>3, <2>4, <2>5 DEF ActStep, SameNode, Reports
  <2>8. EvidenceGrows /\ AcceptancesStay /\ Progress /\ JobOnly(a, j)
    BY <1>4, <1>5, <2>3, <2>4 DEF EvidenceGrows, AcceptancesStay, Progress, JobOnly, Reports, server,
                                  Generations
  <2>9. KeepsWord(a)
    <3>1. ~StaysCancelled(a, j)
      BY <1>1, <1>2 DEF StaysCancelled
    <3> QED
      BY <1>3, <1>5, <1>6, <2>5, <2>8, <3>1, WordKept
  <2>10. Proved(a, j) /\ Mine(a, j)
    <3>1. /\ acceptance[j] = [agent |-> a, lease |-> intent[a][j].lease, gen |-> intent[a][j].gen]
          /\ proof[a][j] = intent[a][j].gen
      BY <1>3, <1>8, RowFacts DEF RowIsAccepted
    <3> QED
      BY <1>3, <3>1, IntentFields DEF Proved, Mine
  <2>11. NodeInv(a)'
    <3>1. NodeInv(a)
      BY DEF CloudInv, AgentInv
    <3>2. RowIsAccepted(a, j)'
      BY <1>3, <1>5, <2>3, <2>4, <2>10 DEF RowIsAccepted, Reports, Mine, Proved
    <3>3. \A i \in Job : RowIsAccepted(a, i)'
      BY <1>3, <2>8, <3>2, OtherRows
    <3>4. HandoffsAreAccepted(a)'
      BY <1>5, <2>8, <3>1, HandoffFrame DEF NodeInv
    <3>5. EventsAreAccepted(a)'
      BY <1>3, <1>5, <2>3, <2>10, <3>1, ReportedEvents DEF NodeInv
    <3> QED
      BY <1>5, <3>1, <3>3, <3>4, <3>5 DEF NodeInv
  <2>12. CommandsAreCarried(a)'
    BY <1>5, <2>8, <2>9, CommandsFrame DEF CloudInv, AgentInv
  <2> QED
    BY <2>5, <2>6, <2>7, <2>8, <2>9, <2>11, <2>12, ActFrame
<1> QED
  BY <1>7, <1>8

\* The process stops: what is durable stays as it is.
LEMMA CrashStep ==
  ASSUME TypeOK, CloudInv, NEW a \in Agent, Crash(a)
  PROVE  TypeOK' /\ CloudInv'
<1>1. /\ Goto(a, Idle) /\ engine' = [engine EXCEPT ![a] = Nil]
      /\ UNCHANGED <<server, local, intent, proof, events, evidence, outbox, commanded, printed>>
      /\ faults' \in Nat /\ Idle \in Work /\ Idle.pc = "idle"
  BY CycleMade DEF Crash, Fault, TypeOK, Idle
<1>2. /\ local' = local /\ intent' = intent /\ proof' = proof /\ events' = events
      /\ evidence' = evidence /\ acked' = acked /\ cursor' = cursor
      /\ ledger' = ledger /\ printed' = printed
      /\ evidenceAcked' = evidenceAcked /\ receipts' = receipts /\ commands' = commands
      /\ acceptance' = acceptance
  BY <1>1 DEF outbox, commanded, server
<1>3. /\ engine' \in [Agent -> Job \cup {Nil}] /\ engine'[a] = Nil
      /\ \A b \in Agent : b # a => engine'[b] = engine[b]
  BY <1>1 DEF TypeOK
<1>4. work'[a] = Idle /\ work' \in [Agent -> Work]
  BY <1>1 DEF Goto, TypeOK
<1>5. TypeOK'
  <2>1. ServerTypeOK'
    BY <1>1 DEF server, TypeOK, ServerTypeOK
  <2> QED
    BY <1>1, <1>2, <1>3, <1>4, <2>1 DEF TypeOK
<1>6. ActStep(a, Idle)
  BY <1>1, <1>2, <1>3 DEF ActStep, SameNode
<1>7. EvidenceGrows /\ AcceptancesStay /\ Progress
  BY <1>1, <1>2 DEF EvidenceGrows, AcceptancesStay, Progress, server, Generations
<1>8. KeepsWord(a)
  BY <1>1, <1>2, <1>4, <1>7, WordFrame
<1>9. WorkInv(a)'
  BY <1>1, <1>4, RestingWork
<1>10. NodeInv(a)'
  <2>1. NodeInv(a)
    BY DEF CloudInv, AgentInv
  <2>2. ASSUME NEW i \in Job
        PROVE  RowIsAccepted(a, i)'
    <3>1. RowIsAccepted(a, i) /\ engine'[a] # i
      BY <1>3, RowFacts, CloudAssumption
    <3>2. (Mine(a, i)' <=> Mine(a, i)) /\ (Proved(a, i)' <=> Proved(a, i))
      BY <1>2 DEF Mine, Proved
    <3> QED
      BY <1>2, <3>1, <3>2 DEF RowIsAccepted
  <2>3. HandoffsAreAccepted(a)' /\ EventsAreAccepted(a)'
    BY <1>2, <1>7, <2>1, HandoffFrame, EventFrame DEF NodeInv
  <2> QED
    BY <1>2, <2>1, <2>2, <2>3 DEF NodeInv
<1>11. CommandsAreCarried(a)'
  BY <1>2, <1>7, <1>8, CommandsFrame DEF CloudInv, AgentInv
<1> QED
  BY <1>5, <1>6, <1>7, <1>8, <1>9, <1>10, <1>11, ActFrame

\* It stops between the two transactions of a cancellation.
LEMMA CrashInCancelStep ==
  ASSUME TypeOK, CloudInv, NEW a \in Agent, CrashInCancel(a)
  PROVE  TypeOK' /\ CloudInv'
<1>1. /\ Goto(a, Idle) /\ engine' = [engine EXCEPT ![a] = Nil]
      /\ UNCHANGED <<server, intent, proof, evidence, outbox, commanded, printed>>
      /\ faults' \in Nat /\ Idle \in Work /\ Idle.pc = "idle" /\ work[a].pc = "apply"
      /\ work[a].batch # {}
  BY CycleMade DEF CrashInCancel, Fault, TypeOK, Idle, At
<1>2. PICK n, j : n = Min(work[a].batch) /\ j = commands[a][n].job
  OBVIOUS
<1>3. n \in DOMAIN commands[a] /\ j \in Job
  <2>1. work[a].batch \in SUBSET Nat /\ work[a].batch \subseteq DOMAIN commands[a]
    BY <1>1, WorkFields DEF TypeOK, CloudInv, AgentInv, WorkInv, BatchIsComplete
  <2>2. n \in work[a].batch
    BY <1>1, <1>2, <2>1, LeastIn
  <2> QED
    BY <1>2, <2>1, <2>2, CommandFields
<1>4. Report(a, j, "cancel_requested") /\ local[a][j] \in {"queued_local", "failed_retryable"}
  BY <1>2 DEF CrashInCancel
<1>5. "cancel_requested" \in JobState
  BY DEF JobState, Successors
<1>6. Reports(a, j, "cancel_requested") /\ LocalTypes'
  BY <1>3, <1>4, <1>5, ReportFacts
<1>7. /\ intent' = intent /\ proof' = proof
      /\ evidence' = evidence /\ acked' = acked /\ cursor' = cursor
      /\ ledger' = ledger /\ printed' = printed
      /\ evidenceAcked' = evidenceAcked /\ receipts' = receipts /\ commands' = commands
      /\ acceptance' = acceptance
  BY <1>1 DEF outbox, commanded, server
<1>8. /\ engine' \in [Agent -> Job \cup {Nil}] /\ engine'[a] = Nil
      /\ \A b \in Agent : b # a => engine'[b] = engine[b]
  BY <1>1 DEF TypeOK
<1>9. work'[a] = Idle /\ work' \in [Agent -> Work]
  BY <1>1 DEF Goto, TypeOK
<1>10. TypeOK'
  <2>1. ServerTypeOK'
    BY <1>1 DEF server, TypeOK, ServerTypeOK
  <2> QED
    BY <1>1, <1>6, <1>7, <1>8, <1>9, <2>1 DEF TypeOK, LocalTypes
<1>11. ActStep(a, Idle)
  BY <1>1, <1>6, <1>7, <1>8 DEF ActStep, SameNode, Reports
<1>12. EvidenceGrows /\ AcceptancesStay /\ Progress /\ JobOnly(a, j)
  BY <1>1, <1>6, <1>7, <1>8 DEF EvidenceGrows, AcceptancesStay, Progress, JobOnly, Reports, server,
                                Generations
<1>13. local'[a][j] = "cancel_requested" /\ j # Nil
  BY <1>3, <1>6, CloudAssumption DEF Reports
<1>14. KeepsWord(a)
  BY <1>1, <1>3, <1>7, <1>9, <1>12, <1>13, WordKept
<1>15. WorkInv(a)'
  BY <1>1, <1>9, RestingWork
<1>16. Mine(a, j) /\ intent[a][j] = Nil
  BY <1>3, <1>4, RowFacts DEF RowIsAccepted
<1>17. NodeInv(a)'
  <2>1. NodeInv(a)
    BY DEF CloudInv, AgentInv
  <2>2. RowIsAccepted(a, j)'
    BY <1>7, <1>8, <1>13, <1>16 DEF RowIsAccepted, OnItsWay, Mine
  <2>3. \A i \in Job : RowIsAccepted(a, i)'
    BY <1>3, <1>12, <2>2, OtherRows
  <2>4. HandoffsAreAccepted(a)'
    BY <1>7, <1>12, <2>1, HandoffFrame DEF NodeInv
  <2>5. EventsAreAccepted(a)'
    BY <1>3, <1>6, <1>7, <1>16, <2>1, ReportedEvents DEF NodeInv
  <2> QED
    BY <1>7, <2>1, <2>3, <2>4, <2>5 DEF NodeInv
<1>18. CommandsAreCarried(a)'
  BY <1>7, <1>12, <1>14, CommandsFrame DEF CloudInv, AgentInv
<1> QED
  BY <1>1, <1>10, <1>11, <1>12, <1>14, <1>15, <1>17, <1>18, ActFrame

\* The acceptance row an intent asks for.
Asked(a, j) == [agent |-> a, lease |-> intent[a][j].lease, gen |-> intent[a][j].gen]

\* confirm_cloud_accept changes nothing but the flag of one intent.
Confirms(a, j) ==
  /\ intent' \in [Agent -> [Job -> Intent \cup {Nil}]]
  /\ \A b \in Agent : b # a => intent'[b] = intent[b]
  /\ \A i \in Job : i # j => intent'[a][i] = intent[a][i]
  /\ intent'[a][j] # Nil /\ intent'[a][j].lease = intent[a][j].lease
  /\ intent'[a][j].gen = intent[a][j].gen

\* Confirming a prepared acceptance, or not, touches that intent alone.
LEMMA ConfirmFacts ==
  ASSUME TypeOK, NEW a \in Agent, NEW j \in Job, intent[a][j] # Nil,
         intent' = intent \/ intent' = [intent EXCEPT ![a][j].confirmed = TRUE]
  PROVE  Confirms(a, j)
<1>1. intent \in [Agent -> [Job -> Intent \cup {Nil}]] /\ intent[a][j] \in Intent
  BY IntentFields DEF TypeOK
<1>2. CASE intent' = intent
  BY <1>1, <1>2 DEF Confirms
<1>3. CASE intent' = [intent EXCEPT ![a][j].confirmed = TRUE]
  <2>1. PICK p : p = [intent[a][j] EXCEPT !.confirmed = TRUE]
    OBVIOUS
  <2>2. p \in Intent /\ p.lease = intent[a][j].lease /\ p.gen = intent[a][j].gen
    BY <1>1, <2>1 DEF Intent
  <2>3. p # Nil
    BY <2>2, CarriedAssumption
  <2>4. intent' = [intent EXCEPT ![a] = [intent[a] EXCEPT ![j] = p]]
    BY <1>1, <1>3, <2>1
  <2>5. /\ intent' \in [Agent -> [Job -> Intent \cup {Nil}]] /\ intent'[a][j] = p
        /\ \A b \in Agent : b # a => intent'[b] = intent[b]
        /\ \A i \in Job : i # j => intent'[a][i] = intent[a][i]
    BY <1>1, <2>2, <2>4
  <2> QED
    BY <2>2, <2>3, <2>5 DEF Confirms
<1> QED
  BY <1>2, <1>3

\* Beside it the node's tables stay.
NodeBut(a) ==
  /\ local' = local /\ proof' = proof /\ events' = events /\ evidence' = evidence
  /\ acked' = acked /\ evidenceAcked' = evidenceAcked /\ cursor' = cursor /\ ledger' = ledger
  /\ engine' = engine /\ printed' = printed /\ receipts' = receipts

\* What the node's tables say, once the authority has the acceptance confirmed.
LEMMA ConfirmedNode ==
  ASSUME TypeOK, CloudInv, NEW a \in Agent, NEW j \in Job, intent[a][j] # Nil, Confirms(a, j),
         NodeBut(a), AcceptancesStay,
         intent' = intent \/ acceptance'[j] = Asked(a, j)
  PROVE  NodeInv(a)' /\ PendingAccepts(a)' = PendingAccepts(a)
<1>1. NodeInv(a) /\ RowIsAccepted(a, j)
  BY RowFacts DEF CloudInv, AgentInv
<1>2. JobOnly(a, j) /\ local' = local /\ proof' = proof /\ engine' = engine
  BY DEF JobOnly, Confirms, NodeBut
<1>3. RowIsAccepted(a, j)'
  <2>1. /\ intent'[a][j] # Nil /\ intent'[a][j].lease = intent[a][j].lease
        /\ intent'[a][j].gen = intent[a][j].gen
    BY DEF Confirms
  <2>2. local[a][j] = "cloud_accept_pending" /\ proof[a][j] = intent[a][j].gen
        /\ engine[a] # j
    BY <1>1 DEF RowIsAccepted, OnItsWay
  <2>3. intent'[a][j].confirmed => acceptance'[j] = Asked(a, j)
    <3>1. CASE intent' = intent
      <4>1. intent'[a][j].confirmed => acceptance[j] = Asked(a, j)
        BY <1>1, <3>1 DEF RowIsAccepted, Asked
      <4>2. Asked(a, j) # Nil
        BY IntentFields DEF Asked
      <4> QED
        BY <4>1, <4>2 DEF AcceptancesStay
    <3> QED
      BY <3>1
  <2> QED
    BY <1>2, <2>1, <2>2, <2>3 DEF RowIsAccepted, Asked, OnItsWay
<1>4. \A i \in Job : RowIsAccepted(a, i)'
  BY <1>2, <1>3, OtherRows
<1>5. HandoffsAreAccepted(a)' /\ EventsAreAccepted(a)'
  BY <1>1, HandoffFrame, EventFrame DEF NodeInv, NodeBut
<1>6. PendingAccepts(a)' = PendingAccepts(a)
  BY DEF PendingAccepts, Confirms
<1> QED
  BY <1>1, <1>4, <1>5, <1>6 DEF NodeInv, NodeBut

\* reconcile_acceptance: the job is activated only if the row stands as asked.
LEMMA ReconcileStep ==
  ASSUME TypeOK, CloudInv, NEW a \in Agent, ReconcileAcceptance(a)
  PROVE  TypeOK' /\ CloudInv'
<1>1. PICK j, r : j = work[a].job /\ r = ReconcileResult(a, j, intent[a][j].lease, intent[a][j].gen)
  OBVIOUS
<1>2. work[a].pc = "reconcile" /\ work[a].pc \in StagePc
  BY DEF ReconcileAcceptance, At, StagePc
<1>3. /\ j \in Job /\ intent[a][j] # Nil /\ j \in work[a].todo
      /\ work[a].todo \subseteq PendingAccepts(a) /\ work[a].todo \in SUBSET Job
  BY <1>1, <1>2, StageFacts
<1>4. PICK w : /\ Goto(a, w)
               /\ \/ w = Stage(a, "abandon", FALSE) \/ w = Stage(a, "accept", FALSE)
                  \/ r = "accepted" /\ w = Stage(a, "activate", FALSE)
                  \/ w = Skip(a)
  BY <1>1, ZenonT(30) DEF ReconcileAcceptance
<1>5. /\ Confirm(a, r = "accepted")
      /\ UNCHANGED <<server, local, proof, events, evidence, outbox, commanded, engine, history>>
  BY <1>1 DEF ReconcileAcceptance
<1>6. NodeBut(a) /\ faults' = faults /\ acceptance' = acceptance /\ commands' = commands
  BY <1>5, SMTT(30) DEF NodeBut, outbox, commanded, history, server
<1>7. intent' = intent \/ (r = "accepted" /\ intent' = [intent EXCEPT ![a][j].confirmed = TRUE])
  BY <1>1, <1>5 DEF Confirm
<1>8. Confirms(a, j)
  BY <1>3, <1>7, ConfirmFacts
<1>9. r = "accepted" => acceptance[j] = Asked(a, j) /\ jobs[j].state = "agent_accepted"
  <2>1. PICK lease, gen : lease = intent[a][j].lease /\ gen = intent[a][j].gen
    OBVIOUS
  <2>2. r = "accepted" => /\ acceptance[j] = [agent |-> a, lease |-> lease, gen |-> gen]
                          /\ jobs[j].state = "agent_accepted"
    <3>1. r = ReconcileResult(a, j, lease, gen)
      BY <1>1, <2>1
    <3> QED
      BY <3>1 DEF ReconcileResult
  <2> QED
    BY <2>1, <2>2 DEF Asked
<1>10. AcceptancesStay /\ Progress /\ EvidenceGrows /\ JobOnly(a, j)
  BY <1>5, <1>6, <1>8 DEF AcceptancesStay, Progress, server, EvidenceGrows, NodeBut, JobOnly, Confirms,
                     Generations
<1>11. NodeInv(a)' /\ PendingAccepts(a)' = PendingAccepts(a)
  BY <1>3, <1>6, <1>7, <1>8, <1>9, <1>10, ConfirmedNode
<1>12. work'[a] = w
  BY <1>4 DEF Goto, TypeOK
<1>13. /\ w \in Work /\ WorkInv(a)'
       /\ w.pc = "activate" => r = "accepted" /\ w.job = j
  <2>1. CASE w = Skip(a)
    BY <1>2, <1>3, <1>11, <1>12, <2>1, SkipWork
  <2>2. ASSUME NEW pc \in {"abandon", "accept", "activate"}, w = Stage(a, pc, FALSE)
        PROVE  w \in Work /\ WorkInv(a)' /\ w.pc = pc /\ w.job = j
    <3>1. PICK fresh \in BOOLEAN : fresh = FALSE
      OBVIOUS
    <3>2. pc \in StagePc /\ w = Stage(a, pc, fresh)
      BY <2>2, <3>1 DEF StagePc
    <3>3. work[a].todo \subseteq PendingAccepts(a)'
      BY <1>3, <1>11
    <3> QED
      BY <1>1, <1>2, <1>3, <1>12, <3>2, <3>3, StagedWork
  <2> QED
    BY <1>4, <2>1, <2>2
<1>14. KeepsWord(a)
  <2>1. \A i \in Job : StaysCancelled(a, i) => ~(work'[a].pc = "activate" /\ work'[a].job = i)
    BY <1>9, <1>12, <1>13 DEF StaysCancelled
  <2>2. local'[a][j] = local[a][j] /\ proof'[a][j] = proof[a][j]
    BY <1>6 DEF NodeBut
  <2>3. StaysCancelled(a, j) => local'[a][j] \notin {"absent", "queued_local"}
    BY <2>2 DEF StaysCancelled
  <2> QED
    BY <1>3, <1>10, <2>1, <2>2, <2>3, WordKept
<1>15. TypeOK'
  <2>1. ServerTypeOK'
    BY <1>5 DEF server, TypeOK, ServerTypeOK
  <2>2. work' \in [Agent -> Work]
    BY <1>4, <1>13 DEF Goto, TypeOK
  <2> QED
    BY <1>6, <1>8, <2>1, <2>2 DEF TypeOK, NodeBut, Confirms
<1>16. ActStep(a, w)
  BY <1>4, <1>5, <1>6, <1>8, <1>13 DEF ActStep, SameNode, NodeBut, Confirms
<1>17. CommandsAreCarried(a)'
  BY <1>6, <1>10, <1>14, CommandsFrame DEF CloudInv, AgentInv, NodeBut
<1> QED
  BY <1>10, <1>11, <1>13, <1>14, <1>15, <1>16, <1>17, ActFrame

\* What the server makes of an acceptance.
Accepts(a, j, lease, gen) ==
  acceptance[j] = Nil /\ ProofActive(a, j, gen) /\ AcceptJob(a, j, lease, gen)

Taken(a, j, lease, gen) ==
  /\ acceptance'[j] = [agent |-> a, lease |-> lease, gen |-> gen] /\ acceptance'[j] # Nil
  /\ \A i \in Job : i # j => acceptance'[i] = acceptance[i] /\ jobs'[i] = jobs[i]
  /\ \A i \in Job : DOMAIN attempts'[i] = Generations(i)
  /\ \A i \in Job : \A g \in Generations(i) : i # j \/ g # gen => SameAttempt(i, g)
  /\ gen \in Generations(j) /\ attempts[j][gen].agent = a /\ attempts[j][gen].reserved
  /\ MovesTo(j, gen, "queued_local") /\ attempts'[j][gen].reserved

\* The acceptance row is of the attempt, and the attempt is queued.
LEMMA AcceptEffect ==
  ASSUME TypeOK, NEW a \in Agent, NEW j \in Job, NEW lease \in Nat, NEW gen \in Nat,
         Accepts(a, j, lease, gen)
  PROVE  ServerTypeOK' /\ Taken(a, j, lease, gen)
<1>1. PICK t : t = [attempts[j][gen] EXCEPT !.state = "queued_local"]
  OBVIOUS
<1>2. gen \in Generations(j) /\ attempts[j][gen].agent = a /\ attempts[j][gen].reserved
  BY DEF Accepts, ProofActive
<1>3. attempts[j][gen] \in Attempt
  BY <1>2, AttemptFields
<1>4. /\ t \in Attempt /\ t.state = "queued_local" /\ t.agent = a /\ t.reserved
      /\ t.resolution = attempts[j][gen].resolution
  BY <1>1, <1>2, <1>3 DEF Attempt, AttemptState
<1>5. attempts' = [attempts EXCEPT ![j][gen] = t]
  <2>1. attempts' = [attempts EXCEPT ![j][gen].state = "queued_local"]
    BY DEF Accepts, AcceptJob
  <2> QED
    BY <1>1, <1>2, <2>1, AttemptFields DEF Generations, TypeOK, ServerTypeOK
<1>6. Replaced(j, gen, t)
  BY <1>2, <1>4, <1>5, AttemptSet
<1>7. PICK p : p = [agent |-> a, lease |-> lease, gen |-> gen]
  OBVIOUS
<1>8. p \in Proof /\ p # Nil
  BY <1>7, RowAssumption DEF Proof
<1>9. /\ acceptance' \in [Job -> Proof \cup {Nil}] /\ acceptance'[j] = p
      /\ \A i \in Job : i # j => acceptance'[i] = acceptance[i]
  <2>1. acceptance' = [acceptance EXCEPT ![j] = p] /\ acceptance \in [Job -> Proof \cup {Nil}]
    BY <1>7 DEF Accepts, AcceptJob, TypeOK, ServerTypeOK
  <2> QED
    BY <1>8, <2>1
<1>10. jobs' \in [Job -> JobRow] /\ \A i \in Job : i # j => jobs'[i] = jobs[i]
  <2>1. PICK row : row = [Unleased(jobs[j]) EXCEPT !.state = "agent_accepted"]
    OBVIOUS
  <2>2. row \in JobRow
    <3>1. "agent_accepted" \in JobState /\ Unleased(jobs[j]) \in JobRow
      BY JobFields DEF JobState, Successors
    <3> QED
      BY <2>1, <3>1 DEF JobRow
  <2>3. jobs' = [jobs EXCEPT ![j] = row] /\ jobs \in [Job -> JobRow]
    BY <2>1, JobFields DEF Accepts, AcceptJob
  <2> QED
    BY <2>2, <2>3
<1>11. ServerTypeOK'
  BY <1>6, <1>9, <1>10 DEF Accepts, AcceptJob, Replaced, TypeOK, ServerTypeOK, JobRow
<1>12. \A i \in Job : \A g \in Generations(i) : i # j \/ g # gen => SameAttempt(i, g)
  BY <1>6 DEF Replaced, SameAttempt
<1>13. MovesTo(j, gen, "queued_local") /\ attempts'[j][gen].reserved
  BY <1>2, <1>4, <1>6 DEF Replaced, MovesTo
<1> QED
  BY <1>2, <1>6, <1>7, <1>8, <1>9, <1>10, <1>11, <1>12, <1>13 DEF Taken, Replaced

\* What is said of attempts holds once one is taken.
LEMMA TakenAttempts ==
  ASSUME TypeOK, CloudInv, NEW a \in Agent, NEW j \in Job, NEW lease \in Nat, NEW gen \in Nat,
         acceptance[j] = Nil, Taken(a, j, lease, gen), NodesStill, \A b \in Agent : KeepsWord(b)
  PROVE  AttemptInv'
<1>1. EvidenceGrows /\ AttemptInv
  BY DEF NodesStill, EvidenceGrows, CloudInv
<1>2. AttemptMoves(j, gen)
  <2>1. /\ gen \in Generations(j) /\ gen \in DOMAIN attempts'[j] /\ attempts[j][gen].agent = a
        /\ attempts'[j][gen].agent = a /\ attempts'[j][gen].state = "queued_local"
        /\ attempts'[j][gen].reserved /\ attempts[j][gen].reserved
        /\ attempts'[j][gen].resolution = attempts[j][gen].resolution
    BY DEF Taken, MovesTo
  <2>2. AttemptIsWitnessed(j, gen)'
    BY <2>1 DEF AttemptIsWitnessed
  <2>3. Occupies(j, gen)
    BY <2>1 DEF Occupies
  <2>4. attempts'[j][gen].resolution = "final" => Resolved(a, j, gen)'
    BY <1>1, <2>1, ResolvedStill DEF AttemptInv, FinalIsResolved
  <2> QED
    BY <2>1, <2>2, <2>3, <2>4 DEF AttemptMoves
<1>3. AttemptsMove
  <2>1. ASSUME NEW i \in Job, NEW g \in Generations(i), i # j \/ g # gen
        PROVE  AttemptMoves(i, g)
    <3>1. SameAttempt(i, g)
      BY <2>1 DEF Taken
    <3> QED
      BY <1>1, <3>1, AttemptStays
  <2>2. \A i \in Job : DOMAIN attempts'[i] = Generations(i)
    BY DEF Taken
  <2> QED
    BY <1>2, <2>1, <2>2 DEF AttemptsMove
<1>4. AcceptedIsOpen(j)'
  <2>1. acceptance'[j].gen = gen /\ acceptance'[j].agent = a
    BY DEF Taken
  <2>2. gen \in Generations(j)' /\ attempts'[j][gen].agent = a /\ attempts'[j][gen].state = "queued_local"
    BY DEF Taken, MovesTo, Generations
  <2> QED
    BY <2>1, <2>2 DEF AcceptedIsOpen
<1>5. \A i \in Job : acceptance'[i] = acceptance[i] \/ AcceptedIsOpen(i)'
  BY <1>4 DEF Taken
<1> QED
  BY <1>1, <1>3, <1>5, AttemptsTaken

\* Accept, answered or not: a row is taken for one attempt, and the node is told
\* no more than what the row says.
LEMMA AcceptCallStep ==
  ASSUME TypeOK, CloudInv, NEW a \in Agent, NEW answered \in BOOLEAN, CallAccept(a, answered)
  PROVE  TypeOK' /\ CloudInv'
<1>1. PICK j, lease, gen, r :
        /\ j = work[a].job /\ lease = intent[a][j].lease /\ gen = intent[a][j].gen
        /\ r = AcceptResult(a, j, lease, gen)
  OBVIOUS
<1>2. work[a].pc = "accept" /\ work[a].pc \in StagePc
  BY Zenon DEF CallAccept, At, StagePc
<1>3. /\ j \in Job /\ intent[a][j] # Nil /\ j \in work[a].todo
      /\ work[a].todo \subseteq PendingAccepts(a) /\ work[a].todo \in SUBSET Job
  BY <1>1, <1>2, StageFacts
<1>4. lease \in Nat /\ gen \in Nat /\ Asked(a, j) = [agent |-> a, lease |-> lease, gen |-> gen]
  BY <1>1, <1>3, IntentFields, ZenonT(30) DEF Asked
<1>5. PICK w : /\ Goto(a, w)
               /\ w = Stage(a, "reconcile", TRUE) \/ w = Stage(a, "abandon", FALSE) \/ w = Skip(a)
  BY <1>1, Zenon DEF CallAccept
<1>6. /\ IF r = "accepted" THEN AcceptJob(a, j, lease, gen) ELSE UNCHANGED server
      /\ UNCHANGED <<local, proof, events, evidence, outbox, commanded, engine, printed>>
  BY <1>1, Zenon DEF CallAccept
<1>7. faults' \in Nat
  <2>1. faults' = faults \/ faults' = faults + 1
    BY ZenonT(30) DEF CallAccept, Fault
  <2> QED
    BY <2>1 DEF TypeOK
<1>8. intent' = intent \/ (/\ r \in {"accepted", "replayed"}
                           /\ intent' = [intent EXCEPT ![a][j].confirmed = TRUE])
  BY <1>1, Zenon DEF CallAccept, Confirm
<1>9. Confirms(a, j)
  BY <1>3, <1>8, ConfirmFacts, SMTT(30)
<1>10. /\ r = "accepted" => acceptance[j] = Nil /\ ProofActive(a, j, gen)
       /\ r = "replayed" => acceptance[j] = Asked(a, j)
  BY <1>1, <1>4 DEF AcceptResult
<1>11. r = "accepted" => Accepts(a, j, lease, gen)
  BY <1>6, <1>10 DEF Accepts
<1>12. r = "accepted" => ServerTypeOK' /\ Taken(a, j, lease, gen)
  BY <1>3, <1>4, <1>11, AcceptEffect
<1>13. ServerTypeOK'
  <2>1. CASE r # "accepted"
    BY <1>6, <2>1 DEF server, TypeOK, ServerTypeOK
  <2> QED
    BY <1>12, <2>1
<1>14. /\ NodeBut(a) /\ commands' = commands
  <2>1. receipts' = receipts /\ commands' = commands
    BY <1>6 DEF server, AcceptJob
  <2> QED
    BY <1>6, <2>1 DEF NodeBut, outbox, commanded
<1>15. AcceptancesStay /\ (\A b \in Agent : b # a => Untaken(b))
  <2>1. CASE r # "accepted"
    BY <1>6, <2>1 DEF server, AcceptancesStay, Untaken
  <2>2. CASE r = "accepted"
    <3>1. Taken(a, j, lease, gen) /\ acceptance[j] = Nil
      BY <1>10, <1>12, <2>2
    <3>2. acceptance'[j].gen = gen /\ attempts[j][gen].agent = a
      BY <3>1 DEF Taken
    <3> QED
      BY <3>1, <3>2 DEF Taken, AcceptancesStay, Untaken
  <2> QED
    BY <2>1, <2>2
<1>16. Progress
  <2>1. receipts' = receipts
    BY <1>14 DEF NodeBut
  <2>2. CASE r # "accepted"
    BY <1>6, <2>2 DEF server, Progress, Generations
  <2>3. CASE r = "accepted"
    <3>1. Taken(a, j, lease, gen) /\ acceptance[j] = Nil
      BY <1>10, <1>12, <2>3
    <3>2. \A i \in Job : \A g \in Generations(i) :
            g \in DOMAIN attempts'[i] /\ attempts'[i][g].agent = attempts[i][g].agent
      BY <3>1 DEF Taken, SameAttempt, MovesTo
    <3> QED
      BY <2>1, <3>1, <3>2 DEF Progress, Taken
  <2> QED
    BY <2>2, <2>3
<1>17. r \in {"accepted", "replayed"} => acceptance'[j] = Asked(a, j)
  <2>1. CASE r = "accepted"
    BY <1>4, <1>12, <2>1 DEF Taken
  <2>2. CASE r = "replayed"
    BY <1>6, <1>10, <2>2 DEF server
  <2> QED
    BY <2>1, <2>2
<1>18. NodeInv(a)' /\ PendingAccepts(a)' = PendingAccepts(a)
  BY <1>3, <1>8, <1>9, <1>14, <1>15, <1>17, ConfirmedNode
<1>19. work'[a] = w /\ \A b \in Agent : b # a => work'[b] = work[b]
  BY <1>5 DEF Goto, TypeOK
<1>20. w \in Work /\ WorkInv(a)' /\ w.pc # "activate"
  <2>1. CASE w = Skip(a)
    BY <1>2, <1>3, <1>18, <1>19, <2>1, SkipWork
  <2>2. ASSUME NEW pc \in {"abandon", "reconcile"}, NEW fresh \in BOOLEAN, w = Stage(a, pc, fresh)
        PROVE  w \in Work /\ WorkInv(a)' /\ w.pc # "activate"
    <3>1. pc \in StagePc /\ pc # "activate"
      BY DEF StagePc
    <3>2. work[a].todo \subseteq PendingAccepts(a)'
      BY <1>3, <1>18
    <3> QED
      BY <1>1, <1>2, <1>3, <1>19, <2>2, <3>1, <3>2, StagedWork
  <2> QED
    BY <1>5, <2>1, <2>2
<1>21. KeepsWord(a)
  BY <1>14, <1>15, <1>16, <1>19, <1>20, WordFrame DEF NodeBut
<1>22. ASSUME NEW b \in Agent, b # a
       PROVE  AgentInv(b)' /\ KeepsWord(b)
  <2>1. SameNode(b)
    BY <1>9, <1>14, <1>22 DEF SameNode, NodeBut, Confirms
  <2>2. AgentInv(b)'
    BY <1>14, <1>15, <1>16, <1>19, <1>22, <2>1, AgentFrame DEF CloudInv
  <2>3. KeepsWord(b)
    BY <1>15, <1>16, <1>19, <1>22, <2>1, WordFrame DEF SameNode
  <2> QED
    BY <2>2, <2>3
<1>23. AgentInv(a)'
  <2>1. CommandsAreCarried(a)'
    BY <1>14, <1>15, <1>16, <1>21, CommandsFrame DEF CloudInv, AgentInv, NodeBut
  <2> QED
    BY <1>18, <1>20, <2>1 DEF AgentInv
<1>24. NodesStill /\ EvidenceGrows /\ \A b \in Agent : KeepsWord(b)
  BY <1>14, <1>21, <1>22 DEF NodesStill, EvidenceGrows, NodeBut
<1>25. AttemptInv'
  <2>1. CASE r = "accepted"
    BY <1>3, <1>4, <1>10, <1>12, <1>24, <2>1, TakenAttempts
  <2>2. CASE r # "accepted"
    BY <1>6, <1>24, <2>2, AttemptsUntouched DEF server, CloudInv
  <2> QED
    BY <2>1, <2>2
<1>26. TypeOK'
  <2>1. work' \in [Agent -> Work]
    BY <1>5, <1>20 DEF Goto, TypeOK
  <2> QED
    BY <1>7, <1>9, <1>13, <1>14, <2>1 DEF TypeOK, NodeBut, Confirms
<1> QED
  BY <1>22, <1>23, <1>25, <1>26 DEF CloudInv

\* A worker that is left with the offer, or with none.
LEMMA OfferedWork ==
  ASSUME NEW a \in Agent, NEW o \in Offer \cup {Nil}, NEW w, w = Offered(o), work'[a] = w,
         o # Nil => /\ o.gen \in Generations(o.job)' /\ attempts'[o.job][o.gen].agent = a
                    /\ acceptance'[o.job] # Nil => acceptance'[o.job].gen # o.gen
  PROVE  w \in Work /\ w.pc # "activate" /\ WorkInv(a)'
<1>1. CASE o = Nil
  <2>1. w = Idle /\ w.pc = "idle"
    BY <1>1 DEF Offered, Idle
  <2> QED
    BY <2>1, CycleMade, RestingWork
<1>2. CASE o # Nil
  <2>1. w = [pc |-> "prepare", offer |-> o]
    BY <1>2 DEF Offered
  <2>2. w \in Work /\ w.pc = "prepare" /\ w.offer = o
    BY <1>2, <2>1, CommandsMade
  <2>3. OfferIsOpen(a)'
    BY <1>2, <2>2 DEF OfferIsOpen
  <2>4. ResumesPending(a)' /\ RequestIsCovered(a)' /\ BatchIsComplete(a)'
    BY <2>2 DEF ResumesPending, RequestIsCovered, BatchIsComplete, ResumePc, StagePc, RequestPc,
                HandledPc, BatchPc
  <2> QED
    BY <2>2, <2>3, <2>4 DEF WorkInv
<1> QED
  BY <1>1, <1>2

\* A worker that applies what is left of a batch.
LEMMA ApplyingWork ==
  ASSUME NEW a \in Agent, work'[a].pc = "apply", work'[a].upto <= Len(commands'[a]),
         work'[a].batch \subseteq DOMAIN commands'[a], OfferIsOpen(a)',
         \A n \in DOMAIN commands'[a] : n <= work'[a].upto =>
           n \in work'[a].batch \/ CarriedOut(a, n)' \/ work'[a].failed
  PROVE  WorkInv(a)'
<1>1. ResumesPending(a)' /\ RequestIsCovered(a)'
  BY DEF ResumesPending, RequestIsCovered, ResumePc, StagePc, HandledPc
<1>2. BatchIsComplete(a)'
  BY DEF BatchIsComplete, RequestPc, HandledPc
<1> QED
  BY <1>1, <1>2 DEF WorkInv

\* The offer a worker has in hand, while the server does nothing.
OpenOffer(a, o) ==
  o # Nil => /\ o.gen \in Generations(o.job) /\ attempts[o.job][o.gen].agent = a
             /\ acceptance[o.job] # Nil => acceptance[o.job].gen # o.gen

\* An offer in hand stays open while the server is still.
LEMMA OfferStaysOpen ==
  ASSUME TypeOK, CloudInv, NEW a \in Agent, work[a].pc \in OfferPc, UNCHANGED server,
         NEW o, o = work[a].offer
  PROVE  o \in Offer \cup {Nil} /\ OpenOffer(a, o) /\ OpenOffer(a, o)'
<1>1. o \in Offer \cup {Nil}
  BY WorkFields DEF TypeOK
<1>2. OpenOffer(a, o)
  BY DEF CloudInv, AgentInv, WorkInv, OfferIsOpen, OpenOffer
<1>3. OpenOffer(a, o)'
  BY <1>2 DEF OpenOffer, server, Generations
<1> QED
  BY <1>1, <1>2, <1>3

\* The ledger and the cursor cover what is carried out.
LEMMA LedgerFrame ==
  ASSUME TypeOK, NEW a \in Agent, CommandsAreCarried(a), KeepsWord(a), AcceptancesStay, Progress,
         commands'[a] = commands[a], \A k \in ledger'[a] : k \in ledger[a] \/ Carried(a, k)',
         \/ cursor'[a] = cursor[a]
         \/ /\ cursor'[a] <= Len(commands[a])
            /\ \A n \in DOMAIN commands[a] : n <= cursor'[a] => CarriedOut(a, n)'
  PROVE  CommandsAreCarried(a)'
<1>1. \A n \in DOMAIN commands[a] : CommandIsMeant(a, n)'
  BY MeantFrame DEF CommandsAreCarried
<1>2. ASSUME NEW k \in ledger'[a]
      PROVE  Carried(a, k)'
  <2>1. CASE k \in ledger[a]
    <3>1. k.job \in Job /\ k.gen \in Nat
      BY <2>1 DEF TypeOK
    <3>2. Carried(a, k)
      BY <2>1 DEF CommandsAreCarried
    <3> QED
      BY <3>1, <3>2, CarriedFrame
  <2> QED
    BY <2>1
<1>3. \A n \in DOMAIN commands[a] : CarriedOut(a, n) => CarriedOut(a, n)'
  BY CarriedOutFrame
<1>4. \A n \in DOMAIN commands[a] : n <= cursor'[a] \/ commands[a][n].acknowledged => CarriedOut(a, n)'
  BY <1>3 DEF CommandsAreCarried
<1> QED
  BY <1>1, <1>2, <1>4 DEF CommandsAreCarried

\* The response is taken up: the events and the evidence of the request are
\* acknowledged, and the ledger forgets what the server no longer asks for.
LEMMA AcknowledgeStep ==
  ASSUME TypeOK, CloudInv, NEW a \in Agent, Acknowledge(a)
  PROVE  TypeOK' /\ CloudInv'
<1>1. /\ work[a].pc = "respond" /\ work[a] \in Work /\ work[a].pc \in BatchPc
      /\ work[a].pc \in OfferPc /\ work[a].pc \in HandledPc
  BY DEF Acknowledge, At, TypeOK, BatchPc, HandledPc, OfferPc
<1>2. PICK req, upto, batch, o : /\ req = work[a].req /\ upto = work[a].upto
                                 /\ batch = work[a].batch /\ o = work[a].offer
  OBVIOUS
<1>3. /\ req \in Request /\ upto \in Nat /\ batch \in SUBSET Nat /\ o \in Offer \cup {Nil}
      /\ req.events \in Nat /\ req.evidence \in Nat
  <2>1. req \in Request /\ upto \in Nat /\ batch \in SUBSET Nat /\ o \in Offer \cup {Nil}
    BY <1>1, <1>2, WorkFields DEF RequestPc
  <2> QED
    BY <2>1 DEF Request
<1>4. Batched(a, req, upto, batch)
  BY <1>1, <1>2, BatchedNow DEF CloudInv, AgentInv
<1>5. PICK w : w = IF upto = 0 THEN Offered(o)
                   ELSE [pc |-> "apply", upto |-> upto, batch |-> batch, failed |-> FALSE, offer |-> o]
  OBVIOUS
<1>6. /\ Goto(a, w)
      /\ UNCHANGED <<server, local, intent, proof, events, evidence, cursor, engine, history>>
  BY <1>2, <1>5 DEF Acknowledge
<1>7. work'[a] = w
  BY <1>6 DEF Goto, TypeOK
<1>8. PICK m : m = IF req.events > acked[a] THEN req.events ELSE acked[a]
  OBVIOUS
<1>9. /\ m \in Nat /\ acked' = [acked EXCEPT ![a] = m]
      /\ evidenceAcked' = [evidenceAcked EXCEPT ![a] = req.evidence]
  <2>1. acked \in [Agent -> Nat]
    BY DEF TypeOK
  <2>2. acked' = [acked EXCEPT ![a] = IF req.events > acked[a] THEN req.events ELSE acked[a]]
    BY <1>2, <2>1 DEF Acknowledge
  <2>3. evidenceAcked' = [evidenceAcked EXCEPT ![a] = req.evidence]
    BY <1>2 DEF Acknowledge
  <2>4. m \in Nat
    BY <1>3, <1>8, <2>1
  <2> QED
    BY <1>8, <2>2, <2>3, <2>4
<1>10. PICK l : l = ledger[a] \cap {Key(commands[a][n]) : n \in batch}
  OBVIOUS
<1>11. ledger' = [ledger EXCEPT ![a] = l] /\ l \subseteq ledger[a]
  BY <1>2, <1>10 DEF Acknowledge, TypeOK
<1>12. /\ acked' \in [Agent -> Nat] /\ evidenceAcked' \in [Agent -> Nat] /\ acked'[a] = m
       /\ ledger' \in [Agent -> SUBSET [kind : {"cancel_job", "resolve"}, job : Job, gen : Nat]]
       /\ ledger'[a] = l
       /\ \A b \in Agent : b # a => acked'[b] = acked[b] /\ ledger'[b] = ledger[b]
  BY <1>3, <1>9, <1>11 DEF TypeOK
<1>13. /\ local' = local /\ intent' = intent /\ proof' = proof /\ events' = events
       /\ evidence' = evidence /\ cursor' = cursor /\ engine' = engine /\ printed' = printed
       /\ faults' = faults /\ commands' = commands /\ receipts' = receipts /\ acceptance' = acceptance
  BY <1>6 DEF server, history
<1>14. AcceptancesStay /\ Progress /\ EvidenceGrows
  BY <1>6, <1>13 DEF AcceptancesStay, Progress, EvidenceGrows, server, Generations
<1>15. OpenOffer(a, o)'
  BY <1>1, <1>2, <1>6, OfferStaysOpen
<1>16. w \in Work /\ w.pc # "activate"
  <2>1. CASE upto = 0
    BY <1>3, <1>5, <2>1, CycleMade, CommandsMade DEF Offered, Idle
  <2>2. CASE upto # 0
    <3>1. w = [pc |-> "apply", upto |-> upto, batch |-> batch, failed |-> FALSE, offer |-> o]
      BY <1>5, <2>2
    <3> QED
      BY <1>3, <3>1, CommandsMade
  <2> QED
    BY <2>1, <2>2
<1>17. KeepsWord(a)
  BY <1>7, <1>13, <1>14, <1>16, WordFrame
<1>18. WorkInv(a)'
  <2>1. CASE upto = 0
    <3>1. w = Offered(o)
      BY <1>5, <2>1
    <3> QED
      BY <1>3, <1>7, <1>15, <3>1, OfferedWork DEF OpenOffer
  <2>2. CASE upto # 0
    <3>1. w = [pc |-> "apply", upto |-> upto, batch |-> batch, failed |-> FALSE, offer |-> o]
      BY <1>5, <2>2
    <3>2. w.pc = "apply" /\ w.upto = upto /\ w.batch = batch /\ w.offer = o
      BY <3>1
    <3>3. OfferIsOpen(a)'
      BY <1>7, <1>15, <3>2 DEF OfferIsOpen, OpenOffer
    <3>4. Batched(a, req, upto, batch)'
      BY <1>4, <1>13, <1>14, <1>17, BatchedFrame
    <3> QED
      BY <1>7, <3>2, <3>3, <3>4, ApplyingWork DEF Batched
  <2> QED
    BY <2>1, <2>2
<1>19. NodeInv(a)'
  <2>1. NodeInv(a)
    BY DEF CloudInv, AgentInv
  <2>2. \A n \in 1..acked'[a] : n \in receipts'[a]
    <3>1. (\A n \in 1..req.events : n \in receipts[a]) /\ \A n \in 1..acked[a] : n \in receipts[a]
      BY <1>4, <2>1 DEF Batched, NodeInv
    <3>2. m = req.events \/ m = acked[a]
      BY <1>8
    <3> QED
      BY <1>12, <1>13, <3>1, <3>2
  <2>3. \A i \in Job : RowIsAccepted(a, i)'
    BY <1>13, <1>14, RowFacts, RowFrame
  <2>4. HandoffsAreAccepted(a)' /\ EventsAreAccepted(a)'
    BY <1>13, <1>14, <2>1, HandoffFrame, EventFrame DEF NodeInv
  <2> QED
    BY <2>2, <2>3, <2>4 DEF NodeInv
<1>20. CommandsAreCarried(a)'
  BY <1>11, <1>12, <1>13, <1>14, <1>17, LedgerFrame DEF CloudInv, AgentInv
<1>21. TypeOK'
  <2>1. ServerTypeOK'
    BY <1>6 DEF server, TypeOK, ServerTypeOK
  <2>2. work' \in [Agent -> Work]
    BY <1>6, <1>16 DEF Goto, TypeOK
  <2> QED
    BY <1>12, <1>13, <2>1, <2>2 DEF TypeOK
<1>22. ActStep(a, w)
  BY <1>6, <1>12, <1>13, <1>16 DEF ActStep, SameNode
<1> QED
  BY <1>14, <1>17, <1>18, <1>19, <1>20, <1>21, <1>22, ActFrame

\* What a worker that applies commands has in hand.
LEMMA ApplyFields ==
  ASSUME NEW w \in Work, w.pc = "apply"
  PROVE  /\ w = [pc |-> "apply", upto |-> w.upto, batch |-> w.batch, failed |-> w.failed,
                 offer |-> w.offer]
         /\ w.upto \in Nat /\ w.batch \in SUBSET Nat /\ w.failed \in BOOLEAN
         /\ w.offer \in Offer \cup {Nil}
BY DEF Work

\* What is left when a command of the batch has been tried.
Tried(v, left, f) == [v EXCEPT !.batch = left, !.failed = f]

\* A command tried leaves the rest of the batch and whether one failed.
LEMMA TriedFields ==
  ASSUME NEW upto, NEW batch, NEW failed, NEW o, NEW left, NEW f,
         NEW v, v = [pc |-> "apply", upto |-> upto, batch |-> batch, failed |-> failed, offer |-> o],
         NEW x, x = Tried(v, left, f)
  PROVE  x = [pc |-> "apply", upto |-> upto, batch |-> left, failed |-> f, offer |-> o]
BY DEF Tried

\* The tables of the other nodes, and those a command does not touch.
AppliesTo(a) ==
  /\ local' \in [Agent -> [Job -> JobState \cup {"absent", "cloud_accept_pending"}]]
  /\ events' \in [Agent -> Seq(Event)] /\ proof' \in [Agent -> [Job -> Nat]]
  /\ \A b \in Agent : b # a => local'[b] = local[b] /\ events'[b] = events[b] /\ proof'[b] = proof[b]

\* A command that is tried is carried out, or the batch has failed.
LEMMA AppliedStep ==
  ASSUME TypeOK, CloudInv, NEW a \in Agent, work[a].pc = "apply", NEW n \in work[a].batch,
         NEW ok \in BOOLEAN, Applied(a, n, ok), AppliesTo(a), KeepsWord(a), NodeInv(a)',
         ok => CarriedOut(a, n)'
  PROVE  TypeOK' /\ CloudInv'
<1>1. work[a] \in Work
  BY DEF TypeOK
<1>2. PICK upto, batch, failed, o :
        upto = work[a].upto /\ batch = work[a].batch /\ failed = work[a].failed /\ o = work[a].offer
  OBVIOUS
<1>3. /\ upto \in Nat /\ batch \in SUBSET Nat /\ failed \in BOOLEAN /\ o \in Offer \cup {Nil}
      /\ work[a] = [pc |-> "apply", upto |-> upto, batch |-> batch, failed |-> failed, offer |-> o]
  BY <1>1, <1>2, ApplyFields
<1>4. PICK f \in BOOLEAN : f = (failed \/ ~ok)
  BY <1>3
<1>5. PICK w : w = [pc |-> "apply", upto |-> upto, batch |-> batch \ {n}, failed |-> f, offer |-> o]
  OBVIOUS
<1>6. Goto(a, w)
  <2>1. Goto(a, [work[a] EXCEPT !.batch = work[a].batch \ {n}, !.failed = work[a].failed \/ ~ok])
    BY DEF Applied
  <2>2. PICK left, v : left = batch \ {n} /\ v = work[a]
    OBVIOUS
  <2>3. v = [pc |-> "apply", upto |-> upto, batch |-> batch, failed |-> failed, offer |-> o]
    BY <1>3, <2>2
  <2>4. (work[a].failed \/ ~ok) = f
    BY <1>2, <1>4
  <2>5. Goto(a, Tried(v, left, f))
    BY <1>2, <2>1, <2>2, <2>4 DEF Tried
  <2>6. PICK x : x = Tried(v, left, f)
    OBVIOUS
  <2>7. x = [pc |-> "apply", upto |-> upto, batch |-> left, failed |-> f, offer |-> o]
    BY <2>3, <2>6, TriedFields
  <2> QED
    BY <1>5, <2>2, <2>5, <2>6, <2>7
<1>7. w \in Work
  BY <1>3, <1>5, CommandsMade
<1>8. work'[a] = w /\ work' \in [Agent -> Work]
  BY <1>6, <1>7 DEF Goto, TypeOK
<1>9. /\ UNCHANGED server /\ intent' = intent /\ evidence' = evidence /\ acked' = acked
      /\ evidenceAcked' = evidenceAcked /\ cursor' = cursor /\ engine' = engine
      /\ printed' = printed /\ faults' = faults /\ commands' = commands
  BY DEF Applied, outbox, history, server
<1>10. AcceptancesStay /\ Progress /\ EvidenceGrows
  BY <1>9 DEF AcceptancesStay, Progress, EvidenceGrows, server, Generations
<1>11. n \in DOMAIN commands[a] /\ batch \subseteq DOMAIN commands[a] /\ upto <= Len(commands[a])
       /\ \A m \in DOMAIN commands[a] : m <= upto => m \in batch \/ CarriedOut(a, m) \/ failed
  BY <1>2 DEF CloudInv, AgentInv, WorkInv, BatchIsComplete
<1>12. PICK k : k = Key(commands[a][n])
  OBVIOUS
<1>13. k \in [kind : {"cancel_job", "resolve"}, job : Job, gen : Nat]
  BY <1>11, <1>12, CommandFields DEF Key
<1>14. ok => Carried(a, k)'
  BY <1>9, <1>12 DEF CarriedOut
<1>15. /\ ledger' \in [Agent -> SUBSET [kind : {"cancel_job", "resolve"}, job : Job, gen : Nat]]
       /\ \A b \in Agent : b # a => ledger'[b] = ledger[b]
       /\ \A x \in ledger'[a] : x \in ledger[a] \/ Carried(a, x)'
  <2>1. ledger \in [Agent -> SUBSET [kind : {"cancel_job", "resolve"}, job : Job, gen : Nat]]
    BY DEF TypeOK
  <2>2. ledger' = IF ok THEN [ledger EXCEPT ![a] = ledger[a] \cup {k}] ELSE ledger
    BY <1>12 DEF Applied
  <2>3. CASE ok
    <3>1. ledger' = [ledger EXCEPT ![a] = ledger[a] \cup {k}]
      BY <2>2, <2>3
    <3> QED
      BY <1>13, <1>14, <2>1, <2>3, <3>1
  <2>4. CASE ~ok
    BY <2>1, <2>2, <2>4
  <2> QED
    BY <2>3, <2>4
<1>16. CommandsAreCarried(a)'
  BY <1>9, <1>10, <1>15, LedgerFrame DEF CloudInv, AgentInv
<1>17. WorkInv(a)'
  <2>1. \A m \in DOMAIN commands[a] : CarriedOut(a, m) => CarriedOut(a, m)'
    BY <1>9, CarriedOutFrame
  <2>2. w.pc = "apply" /\ w.upto = upto /\ w.batch = batch \ {n} /\ w.failed = f /\ w.offer = o
    BY <1>5
  <2>3. \A m \in DOMAIN commands[a] : m <= upto => m \in batch \ {n} \/ CarriedOut(a, m)' \/ f
    BY <1>4, <1>11, <2>1
  <2>4. OfferIsOpen(a)'
    <3>1. OpenOffer(a, o)'
      BY <1>2, <1>9, OfferStaysOpen DEF OfferPc
    <3> QED
      BY <1>8, <2>2, <3>1 DEF OfferIsOpen, OpenOffer
  <2> QED
    BY <1>8, <1>9, <1>11, <2>2, <2>3, <2>4, ApplyingWork
<1>18. TypeOK'
  <2>1. ServerTypeOK'
    BY <1>9 DEF server, TypeOK, ServerTypeOK
  <2> QED
    BY <1>8, <1>9, <1>15, <2>1 DEF TypeOK, AppliesTo
<1>19. ActStep(a, w)
  BY <1>6, <1>7, <1>9, <1>15 DEF ActStep, SameNode, AppliesTo
<1> QED
  BY <1>10, <1>16, <1>17, <1>18, <1>19, ActFrame

\* The cursor moves over a batch that was applied in full.
LEMMA FinishStep ==
  ASSUME TypeOK, CloudInv, NEW a \in Agent, FinishCommands(a)
  PROVE  TypeOK' /\ CloudInv'
<1>1. work[a] \in Work /\ work[a].pc = "apply" /\ work[a].batch = {}
  BY DEF FinishCommands, At, TypeOK
<1>2. PICK o, upto, w : o = work[a].offer /\ upto = work[a].upto /\ w = Offered(o)
  OBVIOUS
<1>3. /\ Goto(a, w)
      /\ UNCHANGED <<server, local, intent, proof, events, evidence, outbox, engine, history>>
      /\ IF work[a].failed THEN UNCHANGED commanded
         ELSE cursor' = [cursor EXCEPT ![a] = upto] /\ ledger' = [ledger EXCEPT ![a] = {}]
  BY <1>2 DEF FinishCommands
<1>4. /\ local' = local /\ intent' = intent /\ proof' = proof /\ events' = events
      /\ evidence' = evidence /\ acked' = acked /\ evidenceAcked' = evidenceAcked
      /\ engine' = engine /\ printed' = printed /\ faults' = faults /\ commands' = commands
      /\ receipts' = receipts /\ acceptance' = acceptance
  BY <1>3 DEF outbox, history, server
<1>5. AcceptancesStay /\ Progress /\ EvidenceGrows
  BY <1>3, <1>4 DEF AcceptancesStay, Progress, EvidenceGrows, server, Generations
<1>6. o \in Offer \cup {Nil} /\ OpenOffer(a, o)'
  BY <1>1, <1>2, <1>3, OfferStaysOpen DEF OfferPc
<1>7. work'[a] = w
  BY <1>3 DEF Goto, TypeOK
<1>8. w \in Work /\ w.pc # "activate" /\ WorkInv(a)'
  BY <1>2, <1>6, <1>7, OfferedWork DEF OpenOffer
<1>9. KeepsWord(a)
  BY <1>4, <1>5, <1>7, <1>8, WordFrame
<1>10. upto \in Nat /\ upto <= Len(commands[a])
       /\ (~work[a].failed => \A n \in DOMAIN commands[a] : n <= upto => CarriedOut(a, n))
  <2>1. upto \in Nat
    BY <1>1, <1>2, ApplyFields
  <2> QED
    BY <1>1, <1>2, <2>1 DEF CloudInv, AgentInv, WorkInv, BatchIsComplete
<1>11. /\ cursor' \in [Agent -> Nat]
       /\ ledger' \in [Agent -> SUBSET [kind : {"cancel_job", "resolve"}, job : Job, gen : Nat]]
       /\ ledger'[a] \subseteq ledger[a]
       /\ cursor'[a] = cursor[a] \/ (~work[a].failed /\ cursor'[a] = upto)
       /\ \A b \in Agent : b # a => cursor'[b] = cursor[b] /\ ledger'[b] = ledger[b]
  <2>1. /\ cursor \in [Agent -> Nat]
        /\ ledger \in [Agent -> SUBSET [kind : {"cancel_job", "resolve"}, job : Job, gen : Nat]]
    BY DEF TypeOK
  <2>2. CASE work[a].failed
    BY <1>3, <2>1, <2>2 DEF commanded
  <2>3. CASE ~work[a].failed
    <3>1. cursor' = [cursor EXCEPT ![a] = upto] /\ ledger' = [ledger EXCEPT ![a] = {}]
      BY <1>3, <2>3
    <3> QED
      BY <1>10, <2>1, <2>3, <3>1
  <2> QED
    BY <2>2, <2>3
<1>12. CommandsAreCarried(a)'
  <2>1. \A n \in DOMAIN commands[a] : CarriedOut(a, n) => CarriedOut(a, n)'
    BY <1>4, <1>9, CarriedOutFrame
  <2> QED
    BY <1>4, <1>5, <1>9, <1>10, <1>11, <2>1, LedgerFrame DEF CloudInv, AgentInv
<1>13. NodeInv(a)'
  <2>1. NodeInv(a)
    BY DEF CloudInv, AgentInv
  <2>2. \A i \in Job : RowIsAccepted(a, i)'
    BY <1>4, <1>5, RowFacts, RowFrame
  <2>3. HandoffsAreAccepted(a)' /\ EventsAreAccepted(a)'
    BY <1>4, <1>5, <2>1, HandoffFrame, EventFrame DEF NodeInv
  <2> QED
    BY <1>4, <2>1, <2>2, <2>3 DEF NodeInv
<1>14. TypeOK'
  <2>1. ServerTypeOK'
    BY <1>3 DEF server, TypeOK, ServerTypeOK
  <2>2. work' \in [Agent -> Work]
    BY <1>3, <1>8 DEF Goto, TypeOK
  <2> QED
    BY <1>4, <1>11, <2>1, <2>2 DEF TypeOK
<1>15. ActStep(a, w)
  BY <1>3, <1>4, <1>8, <1>11 DEF ActStep, SameNode
<1> QED
  BY <1>5, <1>8, <1>9, <1>12, <1>13, <1>14, <1>15, ActFrame

\* What a sequence put after another holds.
LEMMA ConcatFacts ==
  ASSUME NEW S, NEW s \in Seq(S), NEW t \in Seq(S), NEW n \in 1..(Len(s) + Len(t))
  PROVE  (s \o t)[n] = IF n <= Len(s) THEN s[n] ELSE t[n - Len(s)]
  BY ConcatProperties

\* Both events of a cancellation are appended.
LEMMA BothReported ==
  ASSUME TypeOK, NEW a \in Agent, NEW j \in Job, EventsAreAccepted(a), Mine(a, j), NEW both,
         both = <<[job |-> j, state |-> "cancel_requested"], [job |-> j, state |-> "cancelled"]>>,
         events' = [events EXCEPT ![a] = events[a] \o both],
         printed' = printed, acceptance' = acceptance
  PROVE  /\ events' \in [Agent -> Seq(Event)] /\ EventsAreAccepted(a)'
         /\ \A b \in Agent : b # a => events'[b] = events[b]
<1>1. both \in Seq(Event)
  <2>1. [job |-> j, state |-> "cancel_requested"] \in Event /\ [job |-> j, state |-> "cancelled"] \in Event
    BY DEF Event, JobState, Successors, Terminal
  <2> QED
    BY <2>1
<1>2. events[a] \in Seq(Event)
  BY EventFields
<1>3. PICK s : s = events[a] \o both
  OBVIOUS
<1>4. s \in Seq(Event)
  BY <1>1, <1>2, <1>3, ConcatProperties
<1>5. events' \in [Agent -> Seq(Event)] /\ events'[a] = s /\ \A b \in Agent : b # a => events'[b] = events[b]
  BY <1>3, <1>4 DEF TypeOK
<1>6. Len(both) = 2 /\ both[1] = [job |-> j, state |-> "cancel_requested"]
      /\ both[2] = [job |-> j, state |-> "cancelled"]
  OBVIOUS
<1>7. ASSUME NEW n \in DOMAIN s
      PROVE  \/ n \in DOMAIN events[a] /\ s[n] = events[a][n]
             \/ s[n].job = j /\ s[n].state \in {"cancel_requested", "cancelled"}
  <2>1. Len(events[a]) \in Nat /\ DOMAIN events[a] = 1..Len(events[a])
    BY EventFields
  <2>2. Len(s) = Len(events[a]) + 2 /\ DOMAIN s = 1..Len(s)
    BY <1>1, <1>2, <1>3, <1>4, <1>6, ConcatProperties, SeqFacts
  <2>3. n \in 1..(Len(events[a]) + 2)
    BY <2>2
  <2>4. s[n] = IF n <= Len(events[a]) THEN events[a][n] ELSE both[n - Len(events[a])]
    <3>1. n \in 1..(Len(events[a]) + Len(both))
      BY <1>6, <2>3
    <3>2. (events[a] \o both)[n] = IF n <= Len(events[a]) THEN events[a][n] ELSE both[n - Len(events[a])]
      BY <1>1, <1>2, <3>1, ConcatFacts
    <3> QED
      BY <1>3, <3>2
  <2>5. CASE n <= Len(events[a])
    BY <2>1, <2>3, <2>4, <2>5
  <2>6. CASE n > Len(events[a])
    <3>1. n - Len(events[a]) \in {1, 2}
      BY <2>1, <2>3, <2>6
    <3>2. s[n] = both[n - Len(events[a])]
      BY <2>1, <2>3, <2>4, <2>6
    <3> QED
      BY <1>6, <3>1, <3>2
  <2> QED
    BY <2>1, <2>3, <2>5, <2>6
<1>8. ASSUME NEW n \in DOMAIN events'[a]
      PROVE  /\ Mine(a, events[a][n].job)' /\ events'[a][n].state # "agent_accepted"
             /\ events'[a][n].state = "completed_reported" => printed'[a][events'[a][n].job] = 1
  BY <1>5, <1>7 DEF EventsAreAccepted, Mine
<1> QED
  BY <1>5, <1>8 DEF EventsAreAccepted

\* What the commands of a batch are about.
LEMMA CommandInHand ==
  ASSUME TypeOK, CloudInv, NEW a \in Agent, work[a].pc = "apply", work[a].batch # {}
  PROVE  /\ Min(work[a].batch) \in work[a].batch /\ Min(work[a].batch) \in DOMAIN commands[a]
         /\ CommandIsMeant(a, Min(work[a].batch)) /\ CommandsAreCarried(a)
<1>1. work[a].batch \in SUBSET Nat /\ work[a].batch \subseteq DOMAIN commands[a]
  BY WorkFields DEF TypeOK, CloudInv, AgentInv, WorkInv, BatchIsComplete
<1>2. Min(work[a].batch) \in work[a].batch
  BY <1>1, LeastIn
<1> QED
  BY <1>1, <1>2 DEF CloudInv, AgentInv, CommandsAreCarried

\* What a command leaves alone.
LEMMA AppliedLeaves ==
  ASSUME TypeOK, NEW a \in Agent, work[a].pc = "apply", NEW n, NEW ok, Applied(a, n, ok)
  PROVE  /\ UNCHANGED server /\ intent' = intent /\ evidence' = evidence /\ acked' = acked
         /\ engine' = engine /\ printed' = printed /\ acceptance' = acceptance
         /\ commands' = commands /\ receipts' = receipts
         /\ AcceptancesStay /\ Progress /\ EvidenceGrows /\ work'[a].pc = "apply"
<1>1. /\ UNCHANGED server /\ intent' = intent /\ evidence' = evidence /\ acked' = acked
      /\ engine' = engine /\ printed' = printed /\ acceptance' = acceptance
      /\ commands' = commands /\ receipts' = receipts
  BY DEF Applied, outbox, history, server
<1>2. AcceptancesStay /\ Progress /\ EvidenceGrows
  BY <1>1 DEF AcceptancesStay, Progress, EvidenceGrows, server, Generations
<1>3. work'[a].pc = "apply"
  <2>1. work' = [work EXCEPT ![a] = [work[a] EXCEPT !.batch = work[a].batch \ {n},
                                                    !.failed = work[a].failed \/ ~ok]]
    BY DEF Applied, Goto
  <2>2. work[a] \in Work
    BY DEF TypeOK
  <2>3. work[a] = [pc |-> "apply", upto |-> work[a].upto, batch |-> work[a].batch,
                   failed |-> work[a].failed, offer |-> work[a].offer]
    BY <2>2, ApplyFields
  <2> QED
    BY <2>1, <2>3 DEF TypeOK
<1> QED
  BY <1>1, <1>2, <1>3

\* request_cancel: whatever the row was, the job no longer waits.
LEMMA CancelApplied ==
  ASSUME TypeOK, CloudInv, NEW a \in Agent, work[a].pc = "apply", NEW n \in work[a].batch,
         n \in DOMAIN commands[a], CommandIsMeant(a, n), commands[a][n].kind = "cancel_job",
         ApplyCancel(a, n)
  PROVE  TypeOK' /\ CloudInv'
<1>1. PICK j, ok, both :
        /\ j = commands[a][n].job /\ ok = (local[a][j] # "absent")
        /\ both = <<[job |-> j, state |-> "cancel_requested"], [job |-> j, state |-> "cancelled"]>>
  OBVIOUS
<1>2. j \in Job /\ ok \in BOOLEAN
  BY <1>1, CommandFields
<1>3. Applied(a, n, ok) /\ proof' = proof
  BY <1>1 DEF ApplyCancel
<1>4. /\ UNCHANGED server /\ intent' = intent /\ evidence' = evidence /\ acked' = acked
      /\ engine' = engine /\ printed' = printed /\ acceptance' = acceptance
      /\ commands' = commands /\ receipts' = receipts
      /\ AcceptancesStay /\ Progress /\ EvidenceGrows /\ work'[a].pc = "apply"
  BY <1>3, AppliedLeaves
<1>5. \/ /\ local[a][j] \in {"queued_local", "failed_retryable"}
         /\ local' = [local EXCEPT ![a][j] = "cancelled"]
         /\ events' = [events EXCEPT ![a] = @ \o both]
      \/ /\ local[a][j] \in {"accepted_by_spooler", "printing"} /\ Report(a, j, "cancel_requested")
      \/ /\ local[a][j] \notin {"queued_local", "failed_retryable", "accepted_by_spooler", "printing"}
         /\ UNCHANGED <<local, events>>
  BY <1>1 DEF ApplyCancel
<1>6. NodeInv(a) /\ RowIsAccepted(a, j)
  BY <1>2, RowFacts DEF CloudInv, AgentInv
<1>7. /\ AppliesTo(a) /\ EventsAreAccepted(a)'
      /\ \A i \in Job : i # j => local'[a][i] = local[a][i]
      /\ \/ local'[a][j] = local[a][j] /\ local[a][j] # "queued_local"
         \/ /\ Mine(a, j) /\ intent[a][j] = Nil /\ local'[a][j] \in {"cancelled", "cancel_requested"}
            /\ engine[a] = j => local'[a][j] = "cancelled" /\ Proved(a, j)
  <2>1. CASE /\ local[a][j] \in {"queued_local", "failed_retryable"}
             /\ local' = [local EXCEPT ![a][j] = "cancelled"]
             /\ events' = [events EXCEPT ![a] = @ \o both]
    <3>1. Mine(a, j) /\ intent[a][j] = Nil /\ (engine[a] = j => Proved(a, j))
      BY <1>6, <2>1 DEF RowIsAccepted, OnItsWay
    <3>2. events' = [events EXCEPT ![a] = events[a] \o both]
      BY <2>1 DEF TypeOK
    <3>3. /\ events' \in [Agent -> Seq(Event)] /\ EventsAreAccepted(a)'
          /\ \A b \in Agent : b # a => events'[b] = events[b]
      BY <1>1, <1>2, <1>4, <1>6, <3>1, <3>2, BothReported DEF NodeInv
    <3>4. /\ local' \in [Agent -> [Job -> JobState \cup {"absent", "cloud_accept_pending"}]]
          /\ local'[a][j] = "cancelled" /\ \A i \in Job : i # j => local'[a][i] = local[a][i]
          /\ \A b \in Agent : b # a => local'[b] = local[b]
      <4>1. "cancelled" \in JobState
        BY DEF JobState, Terminal
      <4> QED
        BY <1>2, <2>1, <4>1 DEF TypeOK
    <3> QED
      BY <1>3, <3>1, <3>3, <3>4 DEF AppliesTo, TypeOK
  <2>2. CASE local[a][j] \in {"accepted_by_spooler", "printing"} /\ Report(a, j, "cancel_requested")
    <3>1. Mine(a, j) /\ intent[a][j] = Nil /\ engine[a] # j
      BY <1>6, <2>2 DEF RowIsAccepted, OnItsWay
    <3>2. "cancel_requested" \in JobState
      BY DEF JobState, Successors
    <3>3. Reports(a, j, "cancel_requested") /\ LocalTypes'
      BY <1>2, <2>2, <3>2, ReportFacts
    <3>4. EventsAreAccepted(a)'
      BY <1>2, <1>4, <1>6, <3>1, <3>3, ReportedEvents DEF NodeInv
    <3> QED
      BY <1>3, <3>1, <3>3, <3>4 DEF AppliesTo, TypeOK, Reports, LocalTypes
  <2>3. CASE /\ local[a][j] \notin {"queued_local", "failed_retryable", "accepted_by_spooler", "printing"}
             /\ UNCHANGED <<local, events>>
    <3>1. EventsAreAccepted(a)'
      BY <1>4, <1>6, <2>3, EventFrame DEF NodeInv
    <3> QED
      BY <1>3, <2>3, <3>1 DEF AppliesTo, TypeOK
  <2> QED
    BY <1>5, <2>1, <2>2, <2>3
<1>8. JobOnly(a, j)
  BY <1>3, <1>4, <1>7 DEF JobOnly
<1>9. KeepsWord(a)
  BY <1>2, <1>3, <1>4, <1>7, <1>8, WordKept DEF StaysCancelled
<1>10. NodeInv(a)'
  <2>1. RowIsAccepted(a, j)'
    <3>1. CASE local'[a][j] = local[a][j]
      BY <1>2, <1>3, <1>4, <1>6, <3>1, RowFrame
    <3>2. CASE /\ Mine(a, j) /\ intent[a][j] = Nil /\ local'[a][j] \in {"cancelled", "cancel_requested"}
               /\ engine[a] = j => local'[a][j] = "cancelled" /\ Proved(a, j)
      BY <1>3, <1>4, <3>2 DEF RowIsAccepted, OnItsWay, Mine, Proved
    <3> QED
      BY <1>7, <3>1, <3>2
  <2>2. \A i \in Job : RowIsAccepted(a, i)'
    BY <1>2, <1>4, <1>8, <2>1, OtherRows
  <2>3. HandoffsAreAccepted(a)'
    BY <1>4, <1>6, HandoffFrame DEF NodeInv
  <2> QED
    BY <1>4, <1>6, <1>7, <2>2, <2>3 DEF NodeInv
<1>11. ok => CarriedOut(a, n)'
  <2>1. acceptance[j] # Nil /\ jobs[j].state # "agent_accepted"
    BY <1>1 DEF CommandIsMeant
  <2>2. ok => StaysCancelled(a, j)'
    BY <1>1, <1>4, <1>7, <2>1 DEF StaysCancelled, server
  <2> QED
    BY <1>1, <1>4, <2>2, KeyFields DEF CarriedOut, Carried
<1> QED
  BY <1>2, <1>3, <1>7, <1>9, <1>10, <1>11, AppliedStep

\* What is applied leaves the row, the evidence and the events as they were.
LEMMA SettledNode ==
  ASSUME TypeOK, CloudInv, NEW a \in Agent, NEW j \in Job, JobOnly(a, j), AcceptancesStay,
         RowIsAccepted(a, j)', events' = events, evidence' = evidence, printed' = printed,
         acked' = acked, receipts' = receipts, acceptance' = acceptance
  PROVE  NodeInv(a)'
<1>1. NodeInv(a)
  BY DEF CloudInv, AgentInv
<1>2. \A i \in Job : RowIsAccepted(a, i)'
  BY OtherRows
<1>3. HandoffsAreAccepted(a)'
  BY <1>1, HandoffFrame DEF NodeInv
<1>4. EventsAreAccepted(a)'
  BY <1>1, EventFrame DEF NodeInv
<1> QED
  BY <1>1, <1>2, <1>3, <1>4 DEF NodeInv

\* resolve_ambiguous_handoff: the proof is given up, and nothing brings it back.
LEMMA ResolveApplied ==
  ASSUME TypeOK, CloudInv, NEW a \in Agent, work[a].pc = "apply", NEW n \in work[a].batch,
         n \in DOMAIN commands[a], CommandIsMeant(a, n), commands[a][n].kind # "cancel_job",
         ApplyResolve(a, n)
  PROVE  TypeOK' /\ CloudInv'
<1>1. PICK j, g, ok :
        /\ j = commands[a][n].job /\ g = commands[a][n].gen
        /\ ok = /\ local[a][j] = "delivery_uncertain"
                /\ \E m \in DOMAIN evidence[a] :
                     /\ evidence[a][m].job = j /\ evidence[a][m].gen = g
                     /\ evidence[a][m].outcome \in {"accepted", "ambiguous"}
  OBVIOUS
<1>2. j \in Job /\ g \in Nat /\ ok \in BOOLEAN
  BY <1>1, CommandFields
<1>3. /\ Applied(a, n, ok) /\ local' = local /\ events' = events
      /\ proof' = IF ok THEN [proof EXCEPT ![a][j] = 0] ELSE proof
  BY <1>1 DEF ApplyResolve
<1>4. /\ UNCHANGED server /\ intent' = intent /\ evidence' = evidence /\ acked' = acked
      /\ engine' = engine /\ printed' = printed /\ acceptance' = acceptance
      /\ commands' = commands /\ receipts' = receipts
      /\ AcceptancesStay /\ Progress /\ EvidenceGrows /\ work'[a].pc = "apply"
  BY <1>3, AppliedLeaves
<1>5. RowIsAccepted(a, j)
  BY <1>2, RowFacts
<1>6. /\ proof' \in [Agent -> [Job -> Nat]] /\ \A b \in Agent : b # a => proof'[b] = proof[b]
      /\ \A i \in Job : i # j => proof'[a][i] = proof[a][i]
      /\ proof'[a][j] = IF ok THEN 0 ELSE proof[a][j]
  <2>1. CASE ok
    BY <1>2, <1>3, <2>1 DEF TypeOK
  <2>2. CASE ~ok
    BY <1>2, <1>3, <2>2 DEF TypeOK
  <2> QED
    BY <1>2, <2>1, <2>2
<1>7. AppliesTo(a) /\ JobOnly(a, j)
  BY <1>3, <1>4, <1>6 DEF AppliesTo, JobOnly, TypeOK
<1>8. KeepsWord(a)
  <2>1. StaysCancelled(a, j) => local'[a][j] \notin {"absent", "queued_local"}
    BY <1>3 DEF StaysCancelled
  <2>2. proof'[a][j] = proof[a][j] \/ proof'[a][j] = 0
    BY <1>6
  <2> QED
    BY <1>2, <1>4, <1>7, <2>1, <2>2, WordKept
<1>9. RowIsAccepted(a, j)'
  <2>1. CASE ok
    <3>1. local[a][j] = "delivery_uncertain"
      BY <1>1, <2>1
    <3>2. Mine(a, j) /\ intent[a][j] = Nil /\ engine[a] # j
      BY <1>5, <3>1 DEF RowIsAccepted, OnItsWay
    <3> QED
      BY <1>3, <1>4, <3>1, <3>2 DEF RowIsAccepted, OnItsWay, Mine
  <2>2. CASE ~ok
    BY <1>2, <1>3, <1>4, <1>5, <1>6, <2>2, RowFrame
  <2> QED
    BY <1>2, <2>1, <2>2
<1>10. NodeInv(a)'
  BY <1>2, <1>3, <1>4, <1>7, <1>9, SettledNode
<1>11. ok => CarriedOut(a, n)'
  <2>1. SUFFICES ASSUME ok PROVE CarriedOut(a, n)'
    OBVIOUS
  <2>2. Witnessed(a, j, g)
    BY <1>1, <2>1 DEF Witnessed, Witness
  <2>3. g # 0
    BY <1>2, <2>2, WitnessedGen
  <2>4. Witnessed(a, j, g)'
    BY <1>4, <2>2 DEF Witnessed, Witness
  <2>5. Resolved(a, j, g)'
    BY <1>6, <2>1, <2>3, <2>4 DEF Resolved
  <2> QED
    BY <1>1, <1>4, <2>5, KeyFields DEF CarriedOut, Carried
<1> QED
  BY <1>2, <1>3, <1>7, <1>8, <1>10, <1>11, AppliedStep

\* apply_commands: a command of the ledger is not applied again.
LEMMA ApplyCommandStep ==
  ASSUME TypeOK, CloudInv, NEW a \in Agent, ApplyCommand(a)
  PROVE  TypeOK' /\ CloudInv'
<1>1. work[a].pc = "apply" /\ work[a].batch # {}
  BY DEF ApplyCommand, At
<1>2. PICK n : n = Min(work[a].batch)
  OBVIOUS
<1>3. /\ n \in work[a].batch /\ n \in DOMAIN commands[a] /\ CommandIsMeant(a, n)
      /\ CommandsAreCarried(a)
  BY <1>1, <1>2, CommandInHand
<1>4. CASE Key(commands[a][n]) \in ledger[a]
  <2>1. PICK ok \in BOOLEAN : ok = TRUE
    OBVIOUS
  <2>2. Applied(a, n, ok) /\ local' = local /\ events' = events /\ proof' = proof
    BY <1>2, <1>4, <2>1 DEF ApplyCommand
  <2>3. /\ UNCHANGED server /\ intent' = intent /\ evidence' = evidence /\ acked' = acked
        /\ engine' = engine /\ printed' = printed /\ acceptance' = acceptance
        /\ commands' = commands /\ receipts' = receipts
        /\ AcceptancesStay /\ Progress /\ EvidenceGrows /\ work'[a].pc = "apply"
    BY <1>1, <2>2, AppliedLeaves
  <2>4. AppliesTo(a)
    BY <2>2 DEF AppliesTo, TypeOK
  <2>5. KeepsWord(a)
    BY <2>2, <2>3, WordFrame
  <2>6. NodeInv(a)'
    <3>1. NodeInv(a)
      BY DEF CloudInv, AgentInv
    <3>2. ASSUME NEW i \in Job PROVE RowIsAccepted(a, i)'
      BY <2>2, <2>3, RowFacts, RowFrame
    <3>3. HandoffsAreAccepted(a)'
      BY <2>3, <3>1, HandoffFrame DEF NodeInv
    <3>4. EventsAreAccepted(a)'
      BY <2>2, <2>3, <3>1, EventFrame DEF NodeInv
    <3> QED
      BY <2>3, <3>1, <3>2, <3>3, <3>4 DEF NodeInv
  <2>7. CarriedOut(a, n)'
    <3>1. CarriedOut(a, n)
      BY <1>3, <1>4 DEF CommandsAreCarried, CarriedOut
    <3> QED
      BY <1>3, <2>3, <2>5, <3>1, CarriedOutFrame
  <2> QED
    BY <1>1, <1>3, <2>2, <2>4, <2>5, <2>6, <2>7, AppliedStep
<1>5. CASE Key(commands[a][n]) \notin ledger[a] /\ commands[a][n].kind = "cancel_job"
  <2>1. ApplyCancel(a, n)
    BY <1>2, <1>5 DEF ApplyCommand
  <2> QED
    BY <1>1, <1>3, <1>5, <2>1, CancelApplied
<1>6. CASE Key(commands[a][n]) \notin ledger[a] /\ commands[a][n].kind # "cancel_job"
  <2>1. ApplyResolve(a, n)
    BY <1>2, <1>6 DEF ApplyCommand
  <2> QED
    BY <1>1, <1>3, <1>6, <2>1, ResolveApplied
<1> QED
  BY <1>4, <1>5, <1>6

\* The offer a node prepares.
LEMMA OfferInHand ==
  ASSUME TypeOK, CloudInv, NEW a \in Agent, work[a].pc = "prepare", NEW o, o = work[a].offer
  PROVE  /\ o \in Offer /\ o # Nil /\ o.job \in Job /\ o.lease \in Nat /\ o.gen \in Nat
         /\ acceptance[o.job] # Nil => acceptance[o.job].gen # o.gen
<1>1. work[a].offer \in Offer
  <2>1. work[a] \in Work
    BY DEF TypeOK
  <2> QED
    BY <2>1 DEF Work
<1>2. o \in Offer /\ o # Nil
  BY <1>1, CarriedAssumption
<1>3. OfferIsOpen(a)
  BY DEF CloudInv, AgentInv, WorkInv
<1> QED
  BY <1>2, <1>3 DEF OfferIsOpen, OfferPc, Offer

\* What prepare_cloud_job writes: the row, its intent and its proof.
Prepares(a, j, row) ==
  /\ local' \in [Agent -> [Job -> JobState \cup {"absent", "cloud_accept_pending"}]]
  /\ intent' \in [Agent -> [Job -> Intent \cup {Nil}]] /\ proof' \in [Agent -> [Job -> Nat]]
  /\ local'[a][j] = "cloud_accept_pending" /\ intent'[a][j] = row /\ proof'[a][j] = row.gen
  /\ \A i \in Job : i # j => /\ local'[a][i] = local[a][i] /\ intent'[a][i] = intent[a][i]
                             /\ proof'[a][i] = proof[a][i]
  /\ \A b \in Agent : b # a => /\ local'[b] = local[b] /\ intent'[b] = intent[b]
                               /\ proof'[b] = proof[b]

\* The row and the intent a prepared offer leaves are those of that offer.
LEMMA PreparedRow ==
  ASSUME TypeOK, NEW a \in Agent, NEW j \in Job, NEW lease \in Nat, NEW gen \in Nat,
         NEW kept \in BOOLEAN, NEW row, row = [lease |-> lease, gen |-> gen, confirmed |-> kept],
         local' = [local EXCEPT ![a][j] = "cloud_accept_pending"],
         intent' = [intent EXCEPT ![a][j] = row], proof' = [proof EXCEPT ![a][j] = gen]
  PROVE  Prepares(a, j, row) /\ row # Nil
<1>1. row \in Intent /\ row # Nil /\ row.gen = gen
  BY CarriedAssumption DEF Intent
<1>2. /\ local' \in [Agent -> [Job -> JobState \cup {"absent", "cloud_accept_pending"}]]
      /\ local'[a][j] = "cloud_accept_pending"
      /\ \A i \in Job : i # j => local'[a][i] = local[a][i]
      /\ \A b \in Agent : b # a => local'[b] = local[b]
  BY DEF TypeOK
<1>3. /\ intent' \in [Agent -> [Job -> Intent \cup {Nil}]] /\ intent'[a][j] = row
      /\ \A i \in Job : i # j => intent'[a][i] = intent[a][i]
      /\ \A b \in Agent : b # a => intent'[b] = intent[b]
  BY <1>1 DEF TypeOK
<1>4. /\ proof' \in [Agent -> [Job -> Nat]] /\ proof'[a][j] = gen
      /\ \A i \in Job : i # j => proof'[a][i] = proof[a][i]
      /\ \A b \in Agent : b # a => proof'[b] = proof[b]
  BY DEF TypeOK
<1> QED
  BY <1>1, <1>2, <1>3, <1>4 DEF Prepares

\* The row is written over none, over one that failed and was given back, or
\* over a pending one; a confirmed acceptance is not replaced.
LEMMA PrepareStep ==
  ASSUME TypeOK, CloudInv, NEW a \in Agent, work[a].pc = "prepare", NEW j \in Job, NEW row,
         local[a][j] \in {"absent", "failed_retryable", "cloud_accept_pending"},
         Prepares(a, j, row), row # Nil,
         row.confirmed => acceptance[j] = [agent |-> a, lease |-> row.lease, gen |-> row.gen],
         acceptance[j] # Nil => acceptance[j].gen # row.gen,
         Goto(a, [pc |-> "resume", todo |-> PendingAccepts(a) \cup {j}, next |-> "idle"]),
         UNCHANGED <<server, events, evidence, outbox, commanded, engine, history>>
  PROVE  TypeOK' /\ CloudInv'
<1>1. PICK todo : todo = PendingAccepts(a) \cup {j}
  OBVIOUS
<1>2. PICK w : w = [pc |-> "resume", todo |-> todo, next |-> "idle"]
  OBVIOUS
<1>3. Goto(a, w) /\ w.pc = "resume" /\ w.todo = todo
  BY <1>1, <1>2
<1>4. todo \in SUBSET Job /\ w \in Work
  <2>1. todo \in SUBSET Job
    BY <1>1 DEF PendingAccepts
  <2> QED
    BY <1>2, <2>1, CycleMade
<1>5. work'[a] = w /\ work' \in [Agent -> Work]
  BY <1>3, <1>4 DEF Goto, TypeOK
<1>6. /\ events' = events /\ evidence' = evidence /\ acked' = acked /\ cursor' = cursor
      /\ ledger' = ledger /\ engine' = engine /\ printed' = printed /\ faults' = faults
      /\ evidenceAcked' = evidenceAcked /\ receipts' = receipts /\ commands' = commands
      /\ acceptance' = acceptance /\ UNCHANGED server
  BY DEF outbox, commanded, history, server
<1>7. WorkInv(a)'
  <2>1. todo \subseteq PendingAccepts(a)'
    BY <1>1 DEF PendingAccepts, Prepares
  <2> QED
    BY <1>3, <1>5, <2>1, ResumingWork DEF ResumePc, StagePc
<1>8. TypeOK'
  <2>1. ServerTypeOK'
    BY <1>6 DEF server, TypeOK, ServerTypeOK
  <2> QED
    BY <1>5, <1>6, <2>1 DEF TypeOK, Prepares
<1>9. ActStep(a, w)
  BY <1>3, <1>4, <1>6 DEF ActStep, SameNode, Prepares
<1>10. EvidenceGrows /\ AcceptancesStay /\ Progress /\ JobOnly(a, j)
  BY <1>6 DEF EvidenceGrows, AcceptancesStay, Progress, JobOnly, server, Generations, Prepares
<1>11. KeepsWord(a)
  <2>1. local'[a][j] = "cloud_accept_pending"
    BY DEF Prepares
  <2>2. acceptance[j] # Nil => acceptance[j].gen # proof'[a][j]
    BY DEF Prepares
  <2>3. work'[a].pc # "activate"
    BY <1>3, <1>5
  <2> QED
    BY <1>10, <2>1, <2>2, <2>3, WordKept
<1>12. engine[a] # j
  BY RowFacts DEF RowIsAccepted, OnItsWay
<1>13. RowIsAccepted(a, j)'
  BY <1>6, <1>12 DEF RowIsAccepted, OnItsWay, Prepares
<1>14. NodeInv(a)'
  BY <1>6, <1>10, <1>13, SettledNode
<1>15. CommandsAreCarried(a)'
  BY <1>6, <1>10, <1>11, CommandsFrame DEF CloudInv, AgentInv
<1> QED
  BY <1>7, <1>8, <1>9, <1>10, <1>11, <1>14, <1>15, ActFrame

\* prepare_cloud_job: an offer is prepared, known already, or given back.
LEMMA ProcessOfferStep ==
  ASSUME TypeOK, CloudInv, NEW a \in Agent, ProcessOffer(a)
  PROVE  TypeOK' /\ CloudInv'
<1>1. PICK o, r : o = work[a].offer /\ r = Prepared(a, o)
  OBVIOUS
<1>2. work[a].pc = "prepare"
  BY DEF ProcessOffer, At
<1>3. /\ o \in Offer /\ o # Nil /\ o.job \in Job /\ o.lease \in Nat /\ o.gen \in Nat
      /\ acceptance[o.job] # Nil => acceptance[o.job].gen # o.gen
  BY <1>1, <1>2, OfferInHand
<1>4. PICK j, lease, gen : j = o.job /\ lease = o.lease /\ gen = o.gen
  OBVIOUS
<1>5. PICK kept : kept = (r = "renewed" /\ intent[a][j] # Nil /\ intent[a][j].confirmed)
  OBVIOUS
<1>6. \/ Return(a, o)
      \/ Goto(a, Resuming(a, "idle")) /\ UNCHANGED <<server, node, history>>
      \/ /\ r \notin {"conflict", "known"}
         /\ local' = [local EXCEPT ![a][j] = "cloud_accept_pending"]
         /\ intent' = [intent EXCEPT ![a][j] = [lease |-> lease, gen |-> gen, confirmed |-> kept]]
         /\ proof' = [proof EXCEPT ![a][j] = gen]
         /\ Goto(a, [pc |-> "resume", todo |-> PendingAccepts(a) \cup {j}, next |-> "idle"])
         /\ UNCHANGED <<server, events, evidence, outbox, commanded, engine, history>>
  BY <1>1, <1>4, <1>5 DEF ProcessOffer
<1>7. CASE Return(a, o)
  BY <1>7, ReturnStep
<1>8. CASE Goto(a, Resuming(a, "idle")) /\ UNCHANGED <<server, node, history>>
  <2>1. PICK w : w = [pc |-> "resume", todo |-> PendingAccepts(a), next |-> "idle"]
    OBVIOUS
  <2>2. Goto(a, w) /\ intent' = intent /\ faults' \in Nat /\ UNCHANGED <<server, node, printed>>
    BY <1>8, <2>1 DEF Resuming, node, history, TypeOK
  <2>3. w \in Work /\ w.pc = "resume" /\ PendingAccepts(a)' = PendingAccepts(a)
    BY <2>1, <2>2, CycleMade DEF PendingAccepts
  <2>4. work'[a] = w
    BY <2>2 DEF Goto, TypeOK
  <2>5. WorkInv(a)'
    BY <2>1, <2>3, <2>4, ResumingWork DEF ResumePc, StagePc
  <2>6. WorkOnly(a, w)
    BY <2>2, <2>3 DEF WorkOnly
  <2> QED
    BY <2>5, <2>6, WorkOnlyFrame
<1>9. CASE /\ r \notin {"conflict", "known"}
           /\ local' = [local EXCEPT ![a][j] = "cloud_accept_pending"]
           /\ intent' = [intent EXCEPT ![a][j] = [lease |-> lease, gen |-> gen, confirmed |-> kept]]
           /\ proof' = [proof EXCEPT ![a][j] = gen]
           /\ Goto(a, [pc |-> "resume", todo |-> PendingAccepts(a) \cup {j}, next |-> "idle"])
           /\ UNCHANGED <<server, events, evidence, outbox, commanded, engine, history>>
  <2>1. j \in Job /\ lease \in Nat /\ gen \in Nat /\ kept \in BOOLEAN
    BY <1>3, <1>4, <1>5
  <2>2. PICK row : row = [lease |-> lease, gen |-> gen, confirmed |-> kept]
    OBVIOUS
  <2>3. Prepares(a, j, row) /\ row # Nil
    BY <1>9, <2>1, <2>2, PreparedRow
  <2>4. r = Prepared(a, o)
    BY <1>1
  <2>5. /\ local[a][j] \in {"absent", "failed_retryable", "cloud_accept_pending"}
        /\ kept => intent[a][j].lease = lease /\ intent[a][j].gen = gen
    BY <1>4, <1>5, <1>9, <2>4 DEF Prepared
  <2>6. row.confirmed => acceptance[j] = [agent |-> a, lease |-> row.lease, gen |-> row.gen]
    <3>1. RowIsAccepted(a, j)
      BY <2>1, RowFacts
    <3>2. row.confirmed = kept /\ row.lease = lease /\ row.gen = gen
      BY <2>2
    <3>3. kept => intent[a][j] # Nil /\ intent[a][j].confirmed
      BY <1>5
    <3>4. kept => acceptance[j] = [agent |-> a, lease |-> lease, gen |-> gen]
      BY <2>5, <3>1, <3>3 DEF RowIsAccepted
    <3> QED
      BY <3>2, <3>4
  <2>7. acceptance[j] # Nil => acceptance[j].gen # row.gen
    BY <1>3, <1>4, <2>2
  <2> QED
    BY <1>2, <1>9, <2>1, <2>3, <2>5, <2>6, <2>7, PrepareStep
<1> QED
  BY <1>6, <1>7, <1>8, <1>9

\* The invariant holds through every step.
LEMMA WorkerSteps ==
  ASSUME TypeOK, CloudInv, NEW a \in Agent, WorkerStep(a)
  PROVE  TypeOK' /\ CloudInv'
<1>1. CASE AcceptStep(a)
  <2>1. PICK answered \in BOOLEAN : answered = TRUE
    OBVIOUS
  <2>2. CallAccept(a, TRUE) => CallAccept(a, answered)
    BY <2>1
  <2> QED
    BY <1>1, <2>2, StartStep, ResumeStep, ReconcileStep, AcceptCallStep, ActivateStep, AbandonStep
    DEF AcceptStep
<1>2. CASE SyncStep(a)
  BY <1>2, BuildStep, SendStep, HandoffStep, EventStep, ProjectStep, FetchStep, RetireStep,
     FinalizeStep, RecoverStep, ClaimStep, SelectStep, ReserveStep, AcknowledgeStep
  DEF SyncStep
<1>3. CASE CommandStep(a)
  BY <1>3, ApplyCommandStep, FinishStep, ProcessOfferStep DEF CommandStep
<1> QED
  BY <1>1, <1>2, <1>3 DEF WorkerStep

\* A lost answer, a refusal and a stop are no worse than the steps they cut short.
LEMMA LossSteps ==
  ASSUME TypeOK, CloudInv, NEW a \in Agent, Loss(a) \/ Crash(a) \/ CrashInCancel(a)
  PROVE  TypeOK' /\ CloudInv'
<1>1. PICK answered \in BOOLEAN : answered = FALSE
  OBVIOUS
<1>2. CallAccept(a, FALSE) => CallAccept(a, answered)
  BY <1>1
<1> QED
  BY <1>2, ReconcileLostStep, AcceptCallStep, SyncLostStep, DeclineStep, CrashStep, CrashInCancelStep
  DEF Loss

\* Nothing that is said of a state changes with a stuttering step.
LEMMA StutterStep ==
  ASSUME TypeOK, CloudInv, UNCHANGED vars
  PROVE  TypeOK' /\ CloudInv'
<1> USE DEF vars, server, node, outbox, commanded, history
<1>1. TypeOK'
  BY DEF TypeOK, ServerTypeOK
<1>2. AttemptInv'
  <2>1. \A j \in Job : AcceptedIsOpen(j)'
    BY DEF CloudInv, AttemptInv, AcceptedIsOpen, Generations
  <2>2. ASSUME NEW j \in Job, NEW g \in Generations(j)'
        PROVE  AttemptIsWitnessed(j, g)'
    <3>1. g \in Generations(j)
      BY <2>2 DEF Generations
    <3>2. AttemptIsWitnessed(j, g)
      BY <3>1 DEF CloudInv, AttemptInv
    <3> QED
      BY <3>2 DEF AttemptIsWitnessed, Witnessed, Witness
  <2>3. OneOccupies'
    <3>1. OneOccupies
      BY DEF CloudInv, AttemptInv
    <3>2. \A j \in Job : Generations(j)' = Generations(j)
      BY DEF Generations
    <3>3. \A j \in Job : \A g : Occupies(j, g)' <=> Occupies(j, g)
      BY DEF Occupies, Witnessed, Witness
    <3> QED
      BY <3>1, <3>2, <3>3 DEF OneOccupies
  <2>4. FinalIsResolved'
    BY DEF CloudInv, AttemptInv, FinalIsResolved, Resolved, Witnessed, Witness, Generations
  <2> QED
    BY <2>1, <2>2, <2>3, <2>4 DEF AttemptInv
<1>3. ASSUME NEW a \in Agent
      PROVE  AgentInv(a)'
  <2>1. WorkInv(a)'
    BY DEF CloudInv, AgentInv, WorkInv, ResumesPending, RequestIsCovered, OfferIsOpen, BatchIsComplete,
           PendingAccepts, CarriedOut, Carried, StaysCancelled, Resolved, Witnessed, Witness, Generations
  <2>2. NodeInv(a)'
    BY DEF CloudInv, AgentInv, NodeInv, RowIsAccepted, Mine, Proved, HandoffsAreAccepted,
           EventsAreAccepted
  <2>3. CommandsAreCarried(a)'
    BY DEF CloudInv, AgentInv, CommandsAreCarried, CommandIsMeant, CarriedOut, Carried, StaysCancelled,
           Resolved, Witnessed, Witness, Generations
  <2> QED
    BY <2>1, <2>2, <2>3 DEF AgentInv
<1> QED
  BY <1>1, <1>2, <1>3 DEF CloudInv

\* The invariant is inductive.
LEMMA NextInv ==
  ASSUME TypeOK, CloudInv, [Next]_vars
  PROVE  TypeOK' /\ CloudInv'
<1>1. ASSUME NEW a \in Agent,
             WorkerStep(a) \/ Loss(a) \/ Crash(a) \/ CrashInCancel(a) \/ Revoke(a)
      PROVE  TypeOK' /\ CloudInv'
  BY <1>1, WorkerSteps, LossSteps, RevokeStep
<1>2. ASSUME NEW j \in Job, ServerStep(j) \/ LeaseEnds(j) \/ AttemptEnds(j)
      PROVE  TypeOK' /\ CloudInv'
  BY <1>2, ServerSteps, LeaseStep, AttemptStep
<1>3. ASSUME NEW a \in Agent, NEW j \in Job, EngineStep(a, j) \/ ExpireLocally(a, j)
      PROVE  TypeOK' /\ CloudInv'
  BY <1>3, EngineSteps
<1>4. CASE UNCHANGED vars
  BY <1>4, StutterStep
<1> QED
  BY <1>1, <1>2, <1>3, <1>4 DEF Next

(***************************************************************************)
(* What the rows of the server and of the nodes say of one another is true *)
(* in every reachable state, for any jobs, nodes and worlds.               *)
(***************************************************************************)
THEOREM CloudSound == Spec => [](TypeOK /\ CloudInv)
<1>1. Init => TypeOK /\ CloudInv
  BY InitType, InitInv
<1>2. TypeOK /\ CloudInv /\ [Next]_vars => TypeOK' /\ CloudInv'
  BY NextInv
<1> QED
  BY <1>1, <1>2, PTL DEF Spec

(***************************************************************************)
(* The rows of the server and of every node have their types, the worker's *)
(* place in its cycle included.                                            *)
(***************************************************************************)
THEOREM CloudTypes == Spec => []TypeOK
BY CloudSound, PTL

-----------------------------------------------------------------------------
(* What the invariant says of the properties that matter.                  *)

\* A job that runs is of the accepted attempt, and that attempt occupies the
\* destination.
LEMMA RunsOccupies ==
  ASSUME TypeOK, CloudInv, NEW a \in Agent, NEW j \in Job, Runs(a, j)
  PROVE  /\ Mine(a, j) /\ acceptance[j].gen = proof[a][j] /\ acceptance[j].gen \in Generations(j)
         /\ ~Witnessed(a, j, acceptance[j].gen) /\ Occupies(j, acceptance[j].gen)
<1>1. PICK g : g = acceptance[j].gen
  OBVIOUS
<1>2. Mine(a, j) /\ g = proof[a][j]
  BY <1>1, RowFacts DEF Runs, RowIsAccepted, OnItsWay, Proved
<1>3. /\ g \in Generations(j) /\ attempts[j][g].agent = a
      /\ attempts[j][g].state \notin {"route_leased", "superseded", "cancelled"}
  BY <1>1, <1>2 DEF CloudInv, AttemptInv, AcceptedIsOpen, Mine
<1>4. ~Witnessed(a, j, g)
  <2>1. SUFFICES ASSUME Witnessed(a, j, g) PROVE FALSE
    OBVIOUS
  <2>2. PICK n \in DOMAIN evidence[a] : evidence[a][n].job = j /\ evidence[a][n].gen = g
    BY <2>1 DEF Witnessed, Witness
  <2>3. evidence[a][n] \in EvidenceOf(a, j)
    BY <1>2, <2>2 DEF EvidenceOf
  <2> QED
    BY <2>3 DEF Runs
<1>5. AttemptIsWitnessed(j, g)
  BY <1>3 DEF CloudInv, AttemptInv
<1>6. attempts[j][g].state \notin {"handing_to_spooler", "accepted_by_spooler", "printing_reported",
                                   "completed_reported", "failed"}
  BY <1>3, <1>4, <1>5 DEF AttemptIsWitnessed, Witnessed
<1>7. attempts[j][g].state \in AttemptState
  BY <1>3, AttemptFields
<1>8. attempts[j][g].state \in {"queued_local", "delivery_uncertain"}
  BY <1>3, <1>6, <1>7 DEF AttemptState, FinalAttempt
<1>9. attempts[j][g].resolution # "final"
  BY <1>2, <1>3 DEF CloudInv, AttemptInv, FinalIsResolved, Resolved
<1>10. Occupies(j, g)
  BY <1>3, <1>4, <1>5, <1>8, <1>9 DEF Occupies, AttemptIsWitnessed
<1> QED
  BY <1>1, <1>2, <1>3, <1>4, <1>10

\* One attempt occupies the destination, and one acceptance is of it.
LEMMA InvSerial == TypeOK /\ CloudInv => DestinationSerial
<1> SUFFICES ASSUME TypeOK, CloudInv, NEW a \in Agent, NEW b \in Agent, NEW j \in Job, NEW k \in Job,
                    Runs(a, j), Runs(b, k)
             PROVE  a = b /\ j = k
  BY DEF DestinationSerial
<1>1. PICK g, h : g = acceptance[j].gen /\ h = acceptance[k].gen
  OBVIOUS
<1>2. Mine(a, j) /\ g \in Generations(j) /\ Occupies(j, g)
  BY <1>1, RunsOccupies
<1>3. Mine(b, k) /\ h \in Generations(k) /\ Occupies(k, h)
  BY <1>1, RunsOccupies
<1>4. j = k
  BY <1>2, <1>3 DEF CloudInv, AttemptInv, OneOccupies
<1> QED
  BY <1>2, <1>3, <1>4 DEF Mine

\* The accepted attempt is not the superseded one.
LEMMA InvSuperseded == TypeOK /\ CloudInv => SupersededNeverRuns
<1> SUFFICES ASSUME TypeOK, CloudInv, NEW j \in Job, NEW g \in Generations(j),
                    attempts[j][g].state = "superseded", NEW a \in Agent
             PROVE  /\ ~(Runs(a, j) /\ proof[a][j] = g)
                    /\ ~\E n \in DOMAIN evidence[a] : evidence[a][n].job = j /\ evidence[a][n].gen = g
  BY DEF SupersededNeverRuns
<1>1. ~(Mine(a, j) /\ acceptance[j].gen = g)
  BY DEF CloudInv, AttemptInv, AcceptedIsOpen, Mine
<1>2. ~(Runs(a, j) /\ proof[a][j] = g)
  BY <1>1, RunsOccupies
<1>3. ASSUME NEW n \in DOMAIN evidence[a], evidence[a][n].job = j, evidence[a][n].gen = g
      PROVE  FALSE
  BY <1>1, <1>3 DEF CloudInv, AgentInv, NodeInv, HandoffsAreAccepted
<1> QED
  BY <1>2, <1>3

\* A job's evidence is one entry of its node's journal.
LEMMA InvTrue == TypeOK /\ CloudInv => AttemptsAreTrue
<1> SUFFICES ASSUME TypeOK, CloudInv, NEW j \in Job, NEW g \in Generations(j)
             PROVE  LET t == attempts[j][g]
                        outcomes == {evidence[t.agent][n].outcome : n \in {m \in DOMAIN evidence[t.agent] :
                                       evidence[t.agent][m].job = j /\ evidence[t.agent][m].gen = g}}
                    IN /\ t.state \in {"accepted_by_spooler", "printing_reported", "completed_reported"} =>
                            "accepted" \in outcomes
                       /\ t.state = "failed" => outcomes \cap {"ambiguous"} = {}
  BY DEF AttemptsAreTrue
<1>1. PICK t : t = attempts[j][g]
  OBVIOUS
<1>2. AttemptIsWitnessed(j, g)
  BY DEF CloudInv, AttemptInv
<1>3. t.agent \in Agent
  BY <1>1, AttemptFields
<1>4. t.state \in {"accepted_by_spooler", "printing_reported", "completed_reported"} =>
        \E n \in DOMAIN evidence[t.agent] :
          evidence[t.agent][n].job = j /\ evidence[t.agent][n].gen = g
          /\ evidence[t.agent][n].outcome = "accepted"
  BY <1>1, <1>2 DEF AttemptIsWitnessed, Witness
<1>5. t.state = "failed" =>
        \A m \in DOMAIN evidence[t.agent] :
          evidence[t.agent][m].job = j /\ evidence[t.agent][m].gen = g =>
            evidence[t.agent][m].outcome # "ambiguous"
  <2>1. SUFFICES ASSUME t.state = "failed", NEW m \in DOMAIN evidence[t.agent],
                        evidence[t.agent][m].job = j
                 PROVE  evidence[t.agent][m].outcome # "ambiguous"
    OBVIOUS
  <2>2. PICK n \in DOMAIN evidence[t.agent] :
          evidence[t.agent][n].job = j /\ evidence[t.agent][n].outcome # "ambiguous"
    BY <1>1, <1>2, <2>1 DEF AttemptIsWitnessed, Witness
  <2>3. HandoffsAreAccepted(t.agent)
    BY <1>3 DEF CloudInv, AgentInv, NodeInv
  <2>4. m = n
    BY <2>1, <2>2, <2>3 DEF HandoffsAreAccepted
  <2> QED
    BY <2>2, <2>4
<1> QED
  BY <1>1, <1>4, <1>5

\* The invariant has a receipt for every acknowledged event.
LEMMA InvDurable == CloudInv => AcknowledgedIsDurable
BY DEF CloudInv, AgentInv, NodeInv, AcknowledgedIsDurable

\* A resolution is final only when the node has given its proof up.
LEMMA InvResolved == CloudInv => ResolvedByNode
BY DEF CloudInv, AttemptInv, FinalIsResolved, Resolved, ResolvedByNode

\* An acknowledged command is carried out.
LEMMA InvCancelled == TypeOK /\ CloudInv => AcknowledgedCancelHolds
<1> SUFFICES ASSUME TypeOK, CloudInv, NEW a \in Agent, NEW n \in DOMAIN commands[a],
                    commands[a][n].kind = "cancel_job", commands[a][n].acknowledged
             PROVE  local[a][commands[a][n].job] # "queued_local"
  BY DEF AcknowledgedCancelHolds
<1>1. CarriedOut(a, n)
  BY DEF CloudInv, AgentInv, CommandsAreCarried
<1>2. StaysCancelled(a, commands[a][n].job)
  BY <1>1, KeyFields DEF CarriedOut, Carried
<1> QED
  BY <1>2 DEF StaysCancelled

(***************************************************************************)
(* Two nodes, or two jobs of one node, are never both on their way to the  *)
(* destination (begin_delivery_attempt), revoked nodes included.           *)
(***************************************************************************)
THEOREM CloudSerial == Spec => []DestinationSerial
BY CloudSound, InvSerial, PTL

(***************************************************************************)
(* An attempt the server gave up for another was never run nor handed over *)
(* (supersede_pre_handoff_delivery_attempts, the sweep of route leases).   *)
(***************************************************************************)
THEOREM CloudSuperseded == Spec => []SupersededNeverRuns
BY CloudSound, InvSuperseded, PTL

(***************************************************************************)
(* The server holds an attempt for taken or failed only when the node's    *)
(* journal says so (ingest_native_handoffs).                               *)
(***************************************************************************)
THEOREM CloudTrue == Spec => []AttemptsAreTrue
BY CloudSound, InvTrue, PTL

(***************************************************************************)
(* A node drops from its outbox only events the server has receipts of.    *)
(***************************************************************************)
THEOREM CloudDurable == Spec => []AcknowledgedIsDurable
BY CloudSound, InvDurable, PTL

(***************************************************************************)
(* A cancellation a node has acknowledged does not leave the job in its    *)
(* queue, and nothing the server or the node does later puts it back.      *)
(***************************************************************************)
THEOREM CloudCancelled == Spec => []AcknowledgedCancelHolds
BY CloudSound, InvCancelled, PTL

(***************************************************************************)
(* The server frees an uncertain destination only once the node has        *)
(* settled the handoff itself (finalize_acknowledged_uncertainty).         *)
(***************************************************************************)
THEOREM CloudResolved == Spec => []ResolvedByNode
BY CloudSound, InvResolved, PTL

-----------------------------------------------------------------------------
(* The promise of module PrintDelivery, step by step.                      *)

\* A step the promise does not see of job i: the job neither ends before it is
\* accepted nor completes.
SameSight(i) ==
  \/ jobs'[i].state = jobs[i].state
  \/ jobs[i].state \notin Terminal /\ jobs'[i].state \notin Terminal
  \/ acceptance[i] # Nil /\ jobs[i].state # "completed_reported" /\ jobs'[i].state # "completed_reported"
Unseen == acceptance' = acceptance /\ printed' = printed /\ \A i \in Job : SameSight(i)

\* What of a job the promise does not see leaves its sets alone.
LEMMA SightFrame ==
  ASSUME NEW i \in Job, acceptance'[i] = acceptance[i], SameSight(i)
  PROVE  /\ (i \in Withdrawn' <=> i \in Withdrawn)
         /\ (jobs'[i].state = "completed_reported" <=> jobs[i].state = "completed_reported")
BY DEF SameSight, Withdrawn, Terminal

\* A step the promise does not see is a stuttering step of it.
LEMMA UnseenStutters ==
  ASSUME Unseen
  PROVE  UNCHANGED Abstract!promise
<1>1. \A i \in Job : /\ (i \in Withdrawn' <=> i \in Withdrawn)
                     /\ (jobs'[i].state = "completed_reported" <=> jobs[i].state = "completed_reported")
  BY SightFrame DEF Unseen
<1>2. Withdrawn' = Withdrawn
  <2>1. Withdrawn \subseteq Job /\ Withdrawn' \subseteq Job
    BY DEF Withdrawn
  <2> QED
    BY <1>1, <2>1
<1>3. {j \in Job : jobs[j].state = "completed_reported"}' = {j \in Job : jobs[j].state = "completed_reported"}
  BY <1>1
<1>4. acceptance' = acceptance /\ printed' = printed
  BY DEF Unseen
<1> QED
  BY <1>2, <1>3, <1>4 DEF Abstract!promise

\* A job that ends before any node is responsible for it is withdrawn.
LEMMA WithdrawalSeen ==
  ASSUME NEW j \in Job, acceptance' = acceptance, printed' = printed, acceptance[j] = Nil,
         jobs[j].state \notin Terminal, jobs'[j].state \in Terminal \ {"completed_reported"},
         \A i \in Job : i # j => SameSight(i)
  PROVE  Abstract!Withdraw(j)
<1>1. \A i \in Job : i # j =>
        /\ (i \in Withdrawn' <=> i \in Withdrawn)
        /\ (jobs'[i].state = "completed_reported" <=> jobs[i].state = "completed_reported")
  BY SightFrame
<1>2. Withdrawn' = Withdrawn \cup {j}
  <2>1. Withdrawn \subseteq Job /\ Withdrawn' \subseteq Job /\ j \in Withdrawn'
    BY DEF Withdrawn
  <2> QED
    BY <1>1, <2>1
<1>3. {i \in Job : jobs[i].state = "completed_reported"}' = {i \in Job : jobs[i].state = "completed_reported"}
  <2>1. jobs[j].state # "completed_reported" /\ jobs'[j].state # "completed_reported"
    BY DEF Terminal
  <2> QED
    BY <1>1, <2>1
<1> QED
  BY <1>2, <1>3 DEF Abstract!Withdraw

\* A job reported complete was handed to the spooler of its node.
LEMMA CompletionSeen ==
  ASSUME NEW j \in Job, acceptance' = acceptance, printed' = printed, acceptance[j] # Nil,
         acceptance[j].agent \in Agent, acceptance[j].agent # Nil,
         printed[acceptance[j].agent][j] = 1,
         jobs'[j].state = "completed_reported", \A i \in Job : i # j => SameSight(i)
  PROVE  Abstract!Complete(j)
<1>1. \A i \in Job : i # j =>
        /\ (i \in Withdrawn' <=> i \in Withdrawn)
        /\ (jobs'[i].state = "completed_reported" <=> jobs[i].state = "completed_reported")
  BY SightFrame
<1>2. Withdrawn' = Withdrawn
  <2>1. Withdrawn \subseteq Job /\ Withdrawn' \subseteq Job /\ j \notin Withdrawn' /\ j \notin Withdrawn
    BY DEF Withdrawn
  <2>2. \A i \in Job : i \in Withdrawn' <=> i \in Withdrawn
    BY <1>1, <2>1
  <2> QED
    BY <2>1, <2>2
<1>3. {i \in Job : jobs[i].state = "completed_reported"}'
        = {i \in Job : jobs[i].state = "completed_reported"} \cup {j}
  BY <1>1
<1> QED
  BY <1>2, <1>3 DEF Abstract!Complete

\* An acceptance entrusts the job to its node.
LEMMA EntrustSeen ==
  ASSUME TypeOK, NEW a \in Agent, NEW j \in Job, NEW lease \in Nat, NEW gen \in Nat, printed' = printed,
         acceptance[j] = Nil, Taken(a, j, lease, gen),
         acceptance' \in [Job -> Proof \cup {Nil}],
         jobs[j].state \notin Terminal, jobs'[j].state \notin Terminal
  PROVE  Abstract!Entrust(j, a)
<1>1. /\ acceptance'[j] # Nil /\ acceptance'[j].agent = a
      /\ \A i \in Job : i # j => acceptance'[i] = acceptance[i] /\ jobs'[i] = jobs[i]
  BY DEF Taken
<1>2. j \notin Withdrawn /\ Withdrawn' = Withdrawn
  <2>1. Withdrawn \subseteq Job /\ Withdrawn' \subseteq Job /\ j \notin Withdrawn' /\ j \notin Withdrawn
    BY DEF Withdrawn
  <2>2. \A i \in Job : i # j => (i \in Withdrawn' <=> i \in Withdrawn)
    BY <1>1 DEF Withdrawn
  <2> QED
    BY <2>1, <2>2
<1>3. {i \in Job : jobs[i].state = "completed_reported"}' = {i \in Job : jobs[i].state = "completed_reported"}
  <2>1. jobs[j].state # "completed_reported" /\ jobs'[j].state # "completed_reported"
    BY DEF Terminal
  <2> QED
    BY <1>1, <2>1
<1>4. [i \in Job |-> IF acceptance[i] = Nil THEN Nil ELSE acceptance[i].agent]'
        = [[i \in Job |-> IF acceptance[i] = Nil THEN Nil ELSE acceptance[i].agent] EXCEPT ![j] = a]
  BY <1>1
<1> QED
  BY <1>2, <1>3, <1>4 DEF Abstract!Entrust

\* A native handoff the OS took is the copy the promise allows.
LEMMA HandOverSeen ==
  ASSUME TypeOK, NEW a \in Agent, NEW j \in Job, UNCHANGED server, Mine(a, j), a # Nil,
         printed[a][j] = 0, printed' = [printed EXCEPT ![a][j] = 1]
  PROVE  Abstract!HandOver(j)
<1>1. acceptance' = acceptance /\ jobs' = jobs
  BY DEF server
<1>2. Withdrawn' = Withdrawn
  BY <1>1 DEF Withdrawn
<1>3. PICK owner : owner = [i \in Job |-> IF acceptance[i] = Nil THEN Nil ELSE acceptance[i].agent]
  OBVIOUS
<1>4. owner[j] = a
  BY <1>3 DEF Mine
<1>5. [i \in Job |-> [b \in Agent |-> printed[b][i]]]'
        = [[i \in Job |-> [b \in Agent |-> printed[b][i]]] EXCEPT ![j][a] = 1]
  BY DEF TypeOK
<1> QED
  BY <1>1, <1>2, <1>3, <1>4, <1>5 DEF Abstract!HandOver
PromiseStep == Abstract!PromiseNext \/ UNCHANGED Abstract!promise

\* States that stay are not seen.
LEMMA StatesStay ==
  ASSUME acceptance' = acceptance, printed' = printed, \A i \in Job : jobs'[i].state = jobs[i].state
  PROVE  PromiseStep
BY UnseenStutters DEF Unseen, SameSight, PromiseStep

\* Rows that stay are not seen.
LEMMA RowsStay ==
  ASSUME jobs' = jobs, acceptance' = acceptance, printed' = printed
  PROVE  PromiseStep
BY StatesStay

\* A job that has not ended moves, but does not complete.
LEMMA JobMoves ==
  ASSUME NEW j \in Job, acceptance' = acceptance, printed' = printed, jobs[j].state \notin Terminal,
         jobs'[j].state # "completed_reported", \A i \in Job : i # j => jobs'[i] = jobs[i]
  PROVE  PromiseStep
<1>1. \A i \in Job : i # j => SameSight(i)
  BY DEF SameSight
<1>2. CASE acceptance[j] = Nil /\ jobs'[j].state \in Terminal
  <2>1. Abstract!Withdraw(j)
    BY <1>1, <1>2, WithdrawalSeen
  <2> QED
    BY <2>1 DEF PromiseStep, Abstract!PromiseNext
<1>3. CASE acceptance[j] # Nil \/ jobs'[j].state \notin Terminal
  <2>1. SameSight(j)
    BY <1>3 DEF SameSight, Terminal
  <2>2. Unseen
    BY <1>1, <2>1 DEF Unseen
  <2> QED
    BY <2>2, UnseenStutters DEF PromiseStep
<1> QED
  BY <1>2, <1>3

\* Callers, operators and time.
LEMMA ServerPromise ==
  ASSUME TypeOK, CloudInv, NEW j \in Job, ServerStep(j) \/ LeaseEnds(j) \/ AttemptEnds(j)
  PROVE  PromiseStep
<1>1. printed' = printed
  BY DEF ServerStep, LeaseEnds, AttemptEnds, history
<1>2. CASE DeadlinePasses(j) \/ LeaseEnds(j) \/ \E a \in Agent : Reroute(j, a)
  <2>1. PICK row : jobs' = [jobs EXCEPT ![j] = row] /\ row \in JobRow /\ row.state = jobs[j].state
    <3>1. CASE DeadlinePasses(j)
      <4>1. PICK row : row = [jobs[j] EXCEPT !.expired = TRUE]
        OBVIOUS
      <4>2. row \in JobRow /\ row.state = jobs[j].state
        BY <4>1, JobFields DEF JobRow
      <4>3. jobs' = [jobs EXCEPT ![j] = row]
        BY <3>1, <4>1, JobFields DEF DeadlinePasses
      <4> QED
        BY <4>2, <4>3
    <3>2. CASE LeaseEnds(j)
      <4>1. PICK row : row = [jobs[j] EXCEPT !.live = FALSE, !.leases = jobs[j].lease]
        OBVIOUS
      <4>2. row \in JobRow /\ row.state = jobs[j].state
        BY <4>1, JobFields DEF JobRow
      <4>3. jobs' = [jobs EXCEPT ![j] = row]
        BY <3>2, <4>1, JobFields DEF LeaseEnds, LeaseExpires
      <4> QED
        BY <4>2, <4>3
    <3>3. ASSUME NEW a \in Agent, Reroute(j, a)
          PROVE  \E row : jobs' = [jobs EXCEPT ![j] = row] /\ row \in JobRow /\ row.state = jobs[j].state
      <4>1. PICK row : row = [Unleased(jobs[j]) EXCEPT !.agent = a]
        OBVIOUS
      <4>2. row \in JobRow /\ row.state = jobs[j].state
        BY <4>1, JobFields DEF JobRow
      <4>3. jobs' = [jobs EXCEPT ![j] = row]
        BY <3>3, <4>1 DEF Reroute
      <4> QED
        BY <4>2, <4>3
    <3> QED
      BY <1>2, <3>1, <3>2, <3>3
  <2>2. \A i \in Job : jobs'[i].state = jobs[i].state
    BY <2>1, JobSet
  <2>3. acceptance' = acceptance
    BY <1>2 DEF DeadlinePasses, LeaseEnds, LeaseExpires, Reroute
  <2> QED
    BY <1>1, <2>2, <2>3, StatesStay
<1>3. CASE ExpireBeforeHandoff(j)
  <2>1. jobs[j].state \notin Terminal /\ acceptance' = acceptance /\ Withdraw(j, "expired")
    BY <1>3 DEF ExpireBeforeHandoff, Leasable, Terminal
  <2>2. jobs'[j].state = "expired" /\ \A i \in Job : i # j => jobs'[i] = jobs[i]
    BY <2>1, WithdrawEffect
  <2> QED
    BY <1>1, <2>1, <2>2, JobMoves
<1>4. CASE RequestCancellation(j)
  <2>1. jobs[j].state \notin Terminal /\ acceptance' = acceptance
    BY <1>4 DEF RequestCancellation, CanTransition, Successors, Terminal
  <2>2. jobs'[j].state # "completed_reported" /\ \A i \in Job : i # j => jobs'[i] = jobs[i]
    <3>1. CASE acceptance[j] = Nil
      <4>1. Withdraw(j, "cancelled")
        BY <1>4, <3>1 DEF RequestCancellation
      <4> QED
        BY <4>1, WithdrawEffect
    <3>2. CASE acceptance[j] # Nil
      <4>1. PICK row : row = [jobs[j] EXCEPT !.state = "cancel_requested"]
        OBVIOUS
      <4>2. row \in JobRow /\ row.state = "cancel_requested"
        BY <4>1, JobFields DEF JobRow, JobState, Successors
      <4>3. jobs' = [jobs EXCEPT ![j] = row]
        BY <1>4, <3>2, <4>1, JobFields DEF RequestCancellation
      <4> QED
        BY <4>2, <4>3, JobSet
    <3> QED
      BY <3>1, <3>2
  <2> QED
    BY <1>1, <2>1, <2>2, JobMoves
<1>5. CASE EnqueueResolution(j) \/ AttemptEnds(j)
  BY <1>1, <1>5, RowsStay DEF EnqueueResolution, AttemptEnds, AttemptExpires
<1> QED
  BY <1>2, <1>3, <1>4, <1>5 DEF ServerStep

\* A revocation makes accepted jobs uncertain, and ends no other.
LEMMA RevokePromise ==
  ASSUME TypeOK, CloudInv, NEW a \in Agent, Revoke(a)
  PROVE  PromiseStep
<1>1. printed' = printed
  BY DEF Revoke
<1>2. CASE RevokeConnector(a)
  <2>1. PICK S : S = Orphaned(a)
    OBVIOUS
  <2>2. jobs' = [j \in Job |-> IF j \in S THEN [jobs[j] EXCEPT !.state = "delivery_uncertain"]
                               ELSE jobs[j]]
    BY <1>2, <2>1 DEF RevokeConnector
  <2>3. \A j \in Job : [jobs[j] EXCEPT !.state = "delivery_uncertain"].state = "delivery_uncertain"
    BY JobFields DEF JobRow
  <2>4. \A j \in S : acceptance[j] # Nil /\ jobs[j].state \notin Terminal
    BY <2>1 DEF Orphaned
  <2>5. \A j \in Job : SameSight(j)
    BY <2>2, <2>3, <2>4 DEF SameSight, Terminal
  <2>6. Unseen
    BY <1>1, <1>2, <2>5 DEF Unseen, RevokeConnector
  <2> QED
    BY <2>6, UnseenStutters DEF PromiseStep
<1>3. CASE RevokeAgent(a)
  <2>1. \A j \in Job : jobs'[j].state = jobs[j].state
    BY <1>3, JobFields DEF RevokeAgent
  <2>2. acceptance' = acceptance
    BY <1>3 DEF RevokeAgent
  <2> QED
    BY <1>1, <2>1, <2>2, StatesStay
<1> QED
  BY <1>2, <1>3 DEF Revoke

\* Only a native handoff of the engine prints, and it is the job's first.
LEMMA EnginePromise ==
  ASSUME TypeOK, CloudInv, NEW a \in Agent, NEW j \in Job, EngineStep(a, j) \/ ExpireLocally(a, j)
  PROVE  PromiseStep
<1>1. ASSUME NEW v \in world.verdicts, HandOff(a, j, v)
      PROVE  PromiseStep
  <2>1. PICK e, taken : HandsOver(a, j, e, taken)
    BY <1>1, HandOffFacts
  <2>2. /\ UNCHANGED server /\ taken \in {0, 1} /\ engine[a] = j /\ EvidenceOf(a, j) = {}
        /\ printed' = [printed EXCEPT ![a][j] = printed[a][j] + taken]
    BY <2>1 DEF HandsOver
  <2>3. Mine(a, j) /\ acceptance[j].gen = proof[a][j]
    BY <2>2, RowFacts DEF RowIsAccepted, Proved
  <2>4. printed[a][j] = 0
    <3>1. HandoffsAreAccepted(a)
      BY DEF CloudInv, AgentInv, NodeInv
    <3>2. ASSUME NEW n \in DOMAIN evidence[a], evidence[a][n].job = j
          PROVE  FALSE
      <4>1. evidence[a][n].gen = proof[a][j]
        BY <2>3, <3>1, <3>2 DEF HandoffsAreAccepted
      <4>2. evidence[a][n] \in EvidenceOf(a, j)
        BY <3>2, <4>1 DEF EvidenceOf
      <4> QED
        BY <2>2, <4>2
    <3> QED
      BY <3>1, <3>2 DEF HandoffsAreAccepted
  <2>5. a # Nil
    BY CloudAssumption
  <2>6. CASE taken = 1
    <3>1. printed' = [printed EXCEPT ![a][j] = 1]
      BY <2>2, <2>4, <2>6
    <3>2. Abstract!HandOver(j)
      BY <2>2, <2>3, <2>4, <2>5, <3>1, HandOverSeen
    <3> QED
      BY <3>2 DEF PromiseStep, Abstract!PromiseNext
  <2>7. CASE taken = 0
    <3>1. printed' = printed
      BY <2>2, <2>4, <2>7 DEF TypeOK
    <3> QED
      BY <2>2, <3>1, RowsStay DEF server
  <2> QED
    BY <2>2, <2>6, <2>7
<1>2. CASE ~\E v \in world.verdicts : HandOff(a, j, v)
  <2>1. UNCHANGED server /\ printed' = printed
    BY <1>2 DEF EngineStep, ReadHead, BeginExecution, PersistIntent, FailOptions, RecordOutcome,
                RecoverIntent, Observe, ExpireLocally, history
  <2> QED
    BY <2>1, RowsStay DEF server
<1> QED
  BY <1>1, <1>2

\* accept_agent_job_transactional: an acceptance is of a job that waits.
LEMMA AcceptPromise ==
  ASSUME TypeOK, CloudInv, NEW a \in Agent, NEW answered \in BOOLEAN, CallAccept(a, answered)
  PROVE  PromiseStep
<1>1. PICK j, lease, gen, r :
        /\ j = work[a].job /\ lease = intent[a][j].lease /\ gen = intent[a][j].gen
        /\ r = AcceptResult(a, j, lease, gen)
  OBVIOUS
<1>2. work[a].pc \in StagePc
  BY Zenon DEF CallAccept, At, StagePc
<1>3. j \in Job /\ intent[a][j] # Nil
  BY <1>1, <1>2, StageFacts
<1>4. lease \in Nat /\ gen \in Nat
  BY <1>1, <1>3, IntentFields, Zenon
<1>5. (IF r = "accepted" THEN AcceptJob(a, j, lease, gen) ELSE UNCHANGED server) /\ printed' = printed
  BY <1>1, Zenon DEF CallAccept
<1>6. CASE r # "accepted"
  BY <1>5, <1>6, RowsStay DEF server
<1>7. CASE r = "accepted"
  <2>1. /\ acceptance[j] = Nil /\ ProofActive(a, j, gen)
        /\ jobs[j].state \in {"waiting_for_agent", "agent_downloading"}
    BY <1>1, <1>7 DEF AcceptResult
  <2>2. AcceptJob(a, j, lease, gen)
    BY <1>5, <1>7
  <2>3. Accepts(a, j, lease, gen)
    BY <2>1, <2>2 DEF Accepts
  <2>4. ServerTypeOK' /\ Taken(a, j, lease, gen)
    BY <1>3, <1>4, <2>3, AcceptEffect
  <2>5. jobs'[j].state = "agent_accepted"
    <3>1. PICK row : row = [Unleased(jobs[j]) EXCEPT !.state = "agent_accepted"]
      OBVIOUS
    <3>2. Unleased(jobs[j]) \in JobRow
      BY <1>3, JobFields
    <3>3. row.state = "agent_accepted"
      BY <3>1, <3>2 DEF JobRow
    <3>4. jobs' = [jobs EXCEPT ![j] = row] /\ jobs \in [Job -> JobRow]
      BY <2>2, <3>1, JobFields, <1>3 DEF AcceptJob
    <3> QED
      BY <1>3, <3>3, <3>4
  <2>6. jobs[j].state \notin Terminal /\ jobs'[j].state \notin Terminal
    BY <2>1, <2>5 DEF Terminal
  <2>7. acceptance' \in [Job -> Proof \cup {Nil}]
    BY <2>4 DEF ServerTypeOK
  <2>8. Abstract!Entrust(j, a)
    BY <1>3, <1>4, <1>5, <2>1, <2>4, <2>6, <2>7, EntrustSeen
  <2> QED
    BY <1>3, <2>8 DEF PromiseStep, Abstract!PromiseNext
<1> QED
  BY <1>6, <1>7

\* apply_agent_event: a node's word that the job is complete is of a job it printed.
LEMMA EventPromise ==
  ASSUME TypeOK, CloudInv, NEW a \in Agent, IngestEvent(a)
  PROVE  PromiseStep
<1>1. work[a] \in Work /\ work[a].pc = "events" /\ printed' = printed /\ AgentInv(a)
  BY DEF IngestEvent, At, TypeOK, history, CloudInv
<1>2. PICK n, e, r : n = work[a].at /\ e = events[a][n] /\ r = EventResult(a, n, e.job, e.state)
  OBVIOUS
<1>3. n \in DOMAIN events[a]
  <2>1. /\ work[a].at \in Nat /\ 1 <= work[a].at /\ work[a].at <= work[a].req.events
        /\ work[a].req.events <= Len(events[a]) /\ work[a].req.events \in Nat
    <3>1. work[a].at \in Nat /\ work[a].req \in Request
      BY <1>1, WorkFields DEF RequestPc
    <3> QED
      BY <1>1, <3>1 DEF AgentInv, WorkInv, RequestIsCovered, Request
  <2> QED
    BY <1>2, <2>1, EventFields
<1>4. /\ Mine(a, e.job) /\ e.job \in Job /\ e.state \in JobState
      /\ e.state = "completed_reported" => printed[a][e.job] = 1
  BY <1>1, <1>2, <1>3, EventFields DEF AgentInv, NodeInv, EventsAreAccepted
<1>5. \/ UNCHANGED server
      \/ r = "applied" /\ ApplyEvent(a, n, e.job, e.state)
  BY <1>2 DEF IngestEvent
<1>6. CASE UNCHANGED server
  BY <1>1, <1>6, RowsStay DEF server
<1>7. CASE r = "applied" /\ ApplyEvent(a, n, e.job, e.state)
  <2>1. CanTransition(jobs[e.job].state, e.state)
    BY <1>2, <1>7 DEF EventResult
  <2>2. jobs[e.job].state \notin Terminal
    BY <2>1 DEF CanTransition, Successors, Terminal
  <2>3. PICK row : row = [jobs[e.job] EXCEPT !.state = e.state]
    OBVIOUS
  <2>4. row \in JobRow /\ row.state = e.state
    BY <1>4, <2>3, JobFields DEF JobRow
  <2>5. jobs' = [jobs EXCEPT ![e.job] = row]
    BY <1>4, <1>7, <2>3, JobFields DEF ApplyEvent
  <2>6. PICK j, to : j = e.job /\ to = e.state
    OBVIOUS
  <2>7. j \in Job /\ jobs'[j].state = to /\ \A i \in Job : i # j => jobs'[i] = jobs[i]
    BY <1>4, <2>4, <2>5, <2>6, JobSet
  <2>8. acceptance' = acceptance
    BY <1>7 DEF ApplyEvent
  <2>9. CASE to # "completed_reported"
    BY <1>1, <2>2, <2>6, <2>7, <2>8, <2>9, JobMoves
  <2>10. CASE to = "completed_reported"
    <3>1. /\ acceptance[j] # Nil /\ acceptance[j].agent = a /\ printed[a][j] = 1
      BY <1>4, <2>6, <2>10 DEF Mine
    <3>2. a # Nil
      BY CloudAssumption
    <3>3. \A i \in Job : i # j => SameSight(i)
      BY <2>7 DEF SameSight
    <3>4. Abstract!Complete(j)
      BY <1>1, <2>7, <2>8, <2>10, <3>1, <3>2, <3>3, CompletionSeen
    <3> QED
      BY <2>7, <3>4 DEF PromiseStep, Abstract!PromiseNext
  <2> QED
    BY <2>9, <2>10, SMTT(30)
<1> QED
  BY <1>5, <1>6, <1>7

\* Leases come and go unseen; a lease that fails for good withdraws the job.
LEMMA SelectPromise ==
  ASSUME TypeOK, CloudInv, NEW a \in Agent, SelectOffer(a)
  PROVE  PromiseStep
<1>1. work[a] \in Work /\ work[a].pc = "select" /\ printed' = printed
  BY DEF SelectOffer, At, TypeOK, history
<1>2. PICK leases, j : leases = work[a].leases /\ j = Min(leases)
  OBVIOUS
<1>3. leases # {} => j \in Job
  <2>1. leases \in SUBSET Job
    BY <1>1, <1>2, WorkFields
  <2> QED
    BY <1>2, <2>1, LeastIn, CloudAssumption
<1>4. \/ UNCHANGED server
      \/ acceptance' = acceptance /\ \E released : jobs' = Released(released)
      \/ leases # {} /\ jobs[j].state \in Leasable /\ (BlockLease(j) \/ FailLease(j))
  BY <1>2 DEF SelectOffer
<1>5. CASE UNCHANGED server
  BY <1>1, <1>5, RowsStay DEF server
<1>6. CASE acceptance' = acceptance /\ \E released : jobs' = Released(released)
  <2>1. \A i \in Job : jobs'[i].state = jobs[i].state
    BY <1>6, ReleasedRows
  <2> QED
    BY <1>1, <1>6, <2>1, StatesStay
<1>7. CASE leases # {} /\ jobs[j].state \in Leasable /\ (BlockLease(j) \/ FailLease(j))
  <2>1. j \in Job /\ jobs[j].state \notin Terminal /\ acceptance' = acceptance
    BY <1>3, <1>7 DEF Leasable, Terminal, BlockLease, FailLease
  <2>2. jobs'[j].state # "completed_reported" /\ \A i \in Job : i # j => jobs'[i] = jobs[i]
    <3>1. CASE FailLease(j)
      BY <2>1, <3>1, WithdrawEffect DEF FailLease
    <3>2. CASE BlockLease(j)
      <4>1. PICK row : row = [Unleased(jobs[j]) EXCEPT !.state = "blocked", !.held = TRUE]
        OBVIOUS
      <4>2. row \in JobRow /\ row.state = "blocked"
        BY <2>1, <4>1, JobFields DEF JobRow, JobState, Successors
      <4>3. jobs' = [jobs EXCEPT ![j] = row]
        BY <3>2, <4>1 DEF BlockLease
      <4> QED
        BY <2>1, <4>2, <4>3, JobSet
    <3> QED
      BY <1>7, <3>1, <3>2
  <2> QED
    BY <1>1, <2>1, <2>2, JobMoves
<1> QED
  BY <1>4, <1>5, <1>6, <1>7

\* The other steps of the handler move no job the promise sees.
LEMMA HandlerPromise ==
  ASSUME TypeOK, CloudInv, NEW a \in Agent, Claim(a) \/ Reserve(a) \/ Recover(a) \/ Retire(a)
  PROVE  PromiseStep
<1>1. work[a] \in Work /\ printed' = printed /\ AgentInv(a)
  BY DEF Claim, Reserve, Recover, Retire, TypeOK, history, CloudInv
<1>2. CASE Claim(a)
  <2>1. acceptance' = acceptance
    BY <1>2, Zenon DEF Claim, ClaimJobs
  <2>2. ASSUME NEW j \in Job PROVE jobs'[j].state = jobs[j].state
    <3>1. PICK n : n = jobs[j].leases + 1
      OBVIOUS
    <3>2. jobs'[j] = jobs[j] \/ jobs'[j] = [jobs[j] EXCEPT !.lease = n, !.live = TRUE]
      BY <1>2, <3>1, Zenon DEF Claim, ClaimJobs
    <3>3. [jobs[j] EXCEPT !.lease = n, !.live = TRUE].state = jobs[j].state
      BY JobFields DEF JobRow
    <3> QED
      BY <3>2, <3>3
  <2> QED
    BY <1>1, <2>1, <2>2, StatesStay
<1>3. CASE Reserve(a)
  <2>1. PICK j, lease : j = work[a].job /\ lease = work[a].lease
    OBVIOUS
  <2>2. j \in Job /\ lease \in Nat
    BY <1>1, <1>3, <2>1, WorkFields DEF Reserve, At
  <2>3. acceptance' = acceptance
    BY <1>3 DEF Reserve, BeginAttempt
  <2>4. \/ jobs' = [jobs EXCEPT ![j].leases = IF @ < lease THEN lease ELSE @]
        \/ jobs' = Released({j}) \/ jobs' = jobs
    BY <1>3, <2>1 DEF Reserve, BeginAttempt
  <2>5. \A i \in Job : jobs'[i].state = jobs[i].state
    <3>1. CASE jobs' = [jobs EXCEPT ![j].leases = IF @ < lease THEN lease ELSE @]
      <4>1. PICK l : l = IF jobs[j].leases < lease THEN lease ELSE jobs[j].leases
        OBVIOUS
      <4>2. l \in Nat
        BY <2>2, <4>1, JobFields
      <4>3. PICK row : row = [jobs[j] EXCEPT !.leases = l]
        OBVIOUS
      <4>4. row \in JobRow /\ row.state = jobs[j].state
        BY <2>2, <4>2, <4>3, JobFields DEF JobRow
      <4>5. jobs' = [jobs EXCEPT ![j] = row]
        BY <2>2, <3>1, <4>1, <4>3, JobFields
      <4> QED
        BY <2>2, <4>4, <4>5, JobSet
    <3>2. CASE jobs' = Released({j})
      BY <3>2, ReleasedRows
    <3> QED
      BY <2>4, <3>1, <3>2
  <2> QED
    BY <1>1, <2>3, <2>5, StatesStay
<1>4. CASE Recover(a)
  <2>1. CASE UNCHANGED server
    BY <1>1, <2>1, RowsStay DEF server
  <2>2. CASE \E j \in Recoverable(a) : RecoverHeld(j)
    <3>1. PICK j \in Job : RecoverHeld(j) /\ jobs[j].state = "blocked"
      BY <2>2 DEF Recoverable
    <3>2. PICK row : row = [jobs[j] EXCEPT !.state = "waiting_for_agent", !.held = FALSE]
      OBVIOUS
    <3>3. row \in JobRow /\ row.state = "waiting_for_agent"
      BY <3>2, JobFields DEF JobRow, JobState, Successors
    <3>4. jobs' = [jobs EXCEPT ![j] = row]
      BY <3>1, <3>2, JobFields DEF RecoverHeld
    <3>5. /\ jobs'[j].state = "waiting_for_agent" /\ \A i \in Job : i # j => jobs'[i] = jobs[i]
      BY <3>3, <3>4, JobSet
    <3>6. acceptance' = acceptance /\ jobs[j].state \notin Terminal
      BY <3>1 DEF RecoverHeld, Terminal
    <3> QED
      BY <1>1, <3>5, <3>6, JobMoves
  <2> QED
    BY <1>4, <2>1, <2>2 DEF Recover
<1>5. CASE Retire(a)
  <2>1. PICK n, j : n = Min(work[a].due) /\ j = commands[a][n].job
    OBVIOUS
  <2>2. work[a].pc = "retire"
    BY <1>5 DEF Retire, At
  <2>3. work[a].due \in SUBSET Nat /\ work[a].due # {} /\ work[a].batch \subseteq DOMAIN commands[a]
        /\ \A m \in work[a].due : m \in work[a].batch /\ commands[a][m].kind = "cancel_job"
    <3>1. work[a].due \in SUBSET Nat
      BY <1>1, <2>2, WorkFields
    <3> QED
      BY <1>1, <2>2, <3>1 DEF AgentInv, WorkInv, BatchIsComplete, BatchPc, HandledPc
  <2>4. n \in work[a].due
    BY <2>1, <2>3, LeastIn
  <2>5. n \in DOMAIN commands[a] /\ commands[a][n].kind = "cancel_job"
    BY <2>3, <2>4
  <2>6. acceptance[j] # Nil
    BY <1>1, <2>1, <2>5 DEF AgentInv, CommandsAreCarried, CommandIsMeant
  <2>7. UNCHANGED server
    BY <1>5, <2>1, <2>6 DEF Retire, Retires
  <2> QED
    BY <1>1, <2>7, RowsStay DEF server
<1> QED
  BY <1>2, <1>3, <1>4, <1>5

\* A lease that goes back is not seen.
LEMMA ReturnPromise ==
  ASSUME TypeOK, NEW a \in Agent, NEW o, Return(a, o)
  PROVE  PromiseStep
<1>1. acceptance' = acceptance /\ printed' = printed
  BY DEF Return, history
<1>2. jobs' = jobs \/ jobs' = Released({o.job})
  BY DEF Return
<1>3. \A j \in Job : jobs'[j].state = jobs[j].state
  BY <1>2, ReleasedRows
<1> QED
  BY <1>1, <1>3, StatesStay

\* What a node does with offers, commands, answers and losses is its own affair.
LEMMA NodePromise ==
  ASSUME TypeOK, CloudInv, NEW a \in Agent,
         \/ StartCycle(a) \/ ResumeNext(a) \/ ReconcileAcceptance(a) \/ Activate(a) \/ Abandon(a)
         \/ BuildRequest(a) \/ Send(a) \/ IngestHandoff(a) \/ ProjectEvent(a) \/ FetchCommands(a)
         \/ Finalize(a) \/ Acknowledge(a) \/ ApplyCommand(a) \/ FinishCommands(a) \/ ProcessOffer(a)
         \/ ReconcileLost(a) \/ SyncLost(a) \/ DeclineOffer(a) \/ Crash(a) \/ CrashInCancel(a)
  PROVE  PromiseStep
<1>1. CASE \/ StartCycle(a) \/ ResumeNext(a) \/ ReconcileAcceptance(a) \/ Activate(a) \/ Abandon(a)
           \/ BuildRequest(a) \/ Send(a) \/ Acknowledge(a) \/ FinishCommands(a)
           \/ ReconcileLost(a) \/ SyncLost(a) \/ Crash(a) \/ CrashInCancel(a)
  <2>1. UNCHANGED server /\ printed' = printed
    BY <1>1, Zenon DEF StartCycle, ResumeNext, ReconcileAcceptance, Activate, Abandon, BuildRequest, Send,
                Acknowledge, FinishCommands, ReconcileLost, SyncLost, Crash, CrashInCancel, history
  <2> QED
    BY <2>1, RowsStay DEF server
<1>2. CASE IngestHandoff(a) \/ ProjectEvent(a)
  <2>1. jobs' = jobs /\ acceptance' = acceptance /\ printed' = printed
    BY <1>2, ZenonT(30) DEF IngestHandoff, ProjectEvent, MoveAttempt, server, history
  <2> QED
    BY <2>1, RowsStay
<1>3. CASE FetchCommands(a) \/ Finalize(a)
  <2>1. jobs' = jobs /\ acceptance' = acceptance /\ printed' = printed
    BY <1>3, ZenonT(30) DEF FetchCommands, SyncCommands, Finalize, FinalizeResolution, server, history
  <2> QED
    BY <2>1, RowsStay
<1>4. CASE ApplyCommand(a)
  <2>1. UNCHANGED server /\ printed' = printed
    BY <1>4, Zenon DEF ApplyCommand, ApplyCancel, ApplyResolve, Applied, history
  <2> QED
    BY <2>1, RowsStay DEF server
<1>5. CASE ProcessOffer(a)
  <2>1. Return(a, work[a].offer) \/ (UNCHANGED server /\ printed' = printed)
    BY <1>5 DEF ProcessOffer, history
  <2> QED
    BY <2>1, RowsStay, ReturnPromise DEF server
<1>6. CASE DeclineOffer(a)
  BY <1>6, ReturnPromise DEF DeclineOffer
<1> QED
  BY <1>1, <1>2, <1>3, <1>4, <1>5, <1>6

\* Every step of the system is one of the promise, or none.
LEMMA NextPromise ==
  ASSUME TypeOK, CloudInv, [Next]_vars
  PROVE  PromiseStep
<1>1. ASSUME NEW a \in Agent,
             WorkerStep(a) \/ Loss(a) \/ Crash(a) \/ CrashInCancel(a) \/ Revoke(a)
      PROVE  PromiseStep
  <2>1. CASE CallAccept(a, TRUE) \/ CallAccept(a, FALSE)
    <3>1. PICK answered \in BOOLEAN : CallAccept(a, answered)
      BY <2>1
    <3> QED
      BY <3>1, AcceptPromise
  <2> QED
    BY <1>1, <2>1, NodePromise, EventPromise, SelectPromise, HandlerPromise, RevokePromise
    DEF WorkerStep, AcceptStep, SyncStep, CommandStep, Loss
<1>2. ASSUME NEW j \in Job, ServerStep(j) \/ LeaseEnds(j) \/ AttemptEnds(j)
      PROVE  PromiseStep
  BY <1>2, ServerPromise
<1>3. ASSUME NEW a \in Agent, NEW j \in Job, EngineStep(a, j) \/ ExpireLocally(a, j)
      PROVE  PromiseStep
  BY <1>3, EnginePromise
<1>4. CASE UNCHANGED vars
  BY <1>4, RowsStay DEF vars, server, history
<1> QED
  BY <1>1, <1>2, <1>3, <1>4 DEF Next

\* Nothing is accepted, printed or ended at first.
LEMMA InitPromise == Init => Abstract!PromiseInit
<1> SUFFICES ASSUME Init PROVE Abstract!PromiseInit
  OBVIOUS
<1>1. \A j \in Job : acceptance[j] = Nil /\ jobs[j].state \in {"waiting_for_agent", "registered"}
  BY DEF Init, ServerInit
<1>2. Withdrawn = {} /\ {j \in Job : jobs[j].state = "completed_reported"} = {}
  BY <1>1 DEF Withdrawn, Terminal
<1>3. [j \in Job |-> IF acceptance[j] = Nil THEN Nil ELSE acceptance[j].agent] = [j \in Job |-> Nil]
  BY <1>1
<1>4. [j \in Job |-> [a \in Agent |-> printed[a][j]]] = [j \in Job |-> [a \in Agent |-> 0]]
  BY DEF Init
<1> QED
  BY <1>2, <1>3, <1>4 DEF Abstract!PromiseInit

(***************************************************************************)
(* The control plane and its nodes keep the promise of PrintDelivery: one  *)
(* node at most is ever responsible for a job, it alone prints it and once *)
(* at most, a job withdrawn before is never printed, and a job is reported *)
(* complete only when it was.                                              *)
(***************************************************************************)
THEOREM CloudKeepsPromise == Spec => Promised
<1>1. Init => Abstract!PromiseInit
  BY InitPromise
<1>2. TypeOK /\ CloudInv /\ [Next]_vars => [Abstract!PromiseNext]_(Abstract!promise)
  BY NextPromise DEF PromiseStep
<1> QED
  BY <1>1, <1>2, CloudSound, PTL DEF Spec, Promised, Abstract!Promise
=============================================================================
