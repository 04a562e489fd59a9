--------------------------- MODULE WebhookOutbox ---------------------------
(* The delivery of tenant events to a webhook endpoint.  Workers of several *)
(* control-plane instances claim due deliveries, send them outside of any   *)
(* transaction and record the attempt, which names the delivery and not the *)
(* claim.  Due times are abstracted: a delivery that may be tried again may *)
(* be claimed at any later time.                                            *)
EXTENDS Integers, FiniteSets

CONSTANTS
  Event,          \* events the endpoint is subscribed to
  Sender,         \* webhook workers
  RetryDelays,    \* entries of RETRY_DELAYS
  OutboxFaults,   \* bound: lost attempts and outlived claims
  MaxReplays      \* bound: operator replays

ASSUME OutboxAssumption ==
  /\ IsFiniteSet(Event) /\ IsFiniteSet(Sender)
  /\ RetryDelays \in Nat \ {0} /\ OutboxFaults \in Nat /\ MaxReplays \in Nat

VARIABLES
  published,   \* events in webhook_events
  deliveries,  \* rows of webhook_deliveries
  sending,     \* what each worker holds of its batch
  tries,       \* attempts made, by event
  answered,    \* events the endpoint has answered with success
  slips,       \* faults so far
  replays      \* replays so far

outboxVars ==
  <<published, deliveries, sending, tries, answered, slips, replays>>

MaxTries == RetryDelays + OutboxFaults + MaxReplays + Cardinality(Sender)

Row == [made : BOOLEAN, attempt : 0..MaxTries, claim : {"none", "held", "lapsed"},
        delivered : BOOLEAN, dead : BOOLEAN]
Attempted == [attempt : 0..MaxTries,
              result : {"nothing", "claimed", "success", "failure"}]

OutboxTypeOK ==
  /\ published \subseteq Event
  /\ deliveries \in [Event -> Row]
  /\ sending \in [Sender -> [Event -> Attempted]]
  /\ tries \in [Event -> 0..MaxTries]
  /\ answered \subseteq Event
  /\ slips \in 0..OutboxFaults /\ replays \in 0..MaxReplays

Unsent == [attempt |-> 0, result |-> "nothing"]

OutboxInit ==
  /\ published = {}
  /\ deliveries = [e \in Event |->
       [made |-> FALSE, attempt |-> 0, claim |-> "none",
        delivered |-> FALSE, dead |-> FALSE]]
  /\ sending = [w \in Sender |-> [e \in Event |-> Unsent]]
  /\ tries = [e \in Event |-> 0]
  /\ answered = {} /\ slips = 0 /\ replays = 0

\* The event is written in the transaction of what it reports.
enqueue_webhook_event(e) ==
  /\ e \notin published /\ published' = published \cup {e}
  /\ UNCHANGED <<deliveries, sending, tries, answered, slips, replays>>

\* Mutant: a lapsed claim is not taken over.
ClaimableUnclaimed(e) ==
  /\ e \in published
  /\ ~deliveries[e].delivered /\ ~deliveries[e].dead
  /\ deliveries[e].claim = "none"

Claimable(e) ==
  /\ e \in published
  /\ ~deliveries[e].delivered /\ ~deliveries[e].dead
  /\ deliveries[e].claim /= "held"

\* One transaction: missing rows are made, and every due row is claimed.  A
\* worker claims its next batch when it has recorded the last.
claim_webhook_deliveries(w) ==
  /\ \A e \in Event : sending[w][e] = Unsent
  /\ \E e \in Event : Claimable(e)
  /\ deliveries' = [e \in Event |->
       IF Claimable(e) THEN [deliveries[e] EXCEPT !.made = TRUE, !.claim = "held"]
                       ELSE deliveries[e]]
  /\ sending' = [sending EXCEPT ![w] = [e \in Event |->
       IF Claimable(e) THEN [attempt |-> deliveries[e].attempt, result |-> "claimed"]
                       ELSE Unsent]]
  /\ UNCHANGED <<published, tries, answered, slips, replays>>

\* A destination that is blocked or does not answer is a failed attempt.
deliver(w, e) ==
  /\ sending[w][e].result = "claimed"
  /\ tries' = [tries EXCEPT ![e] = @ + 1]
  /\ \E success \in BOOLEAN :
       /\ sending' = [sending EXCEPT ![w][e].result =
                        IF success THEN "success" ELSE "failure"]
       /\ answered' = IF success THEN answered \cup {e} ELSE answered
  /\ UNCHANGED <<published, deliveries, slips, replays>>

\* Mutant: the schedule is read one entry ahead.
retry_delayEarly(attempt) == attempt + 1 < RetryDelays

\* The schedule after an attempt is read off the claim, not off the row.
retry_delay(attempt) == attempt < RetryDelays

record_webhook_attempt(w, e) ==
  LET success == sending[w][e].result = "success" IN
  /\ sending[w][e].result \in {"success", "failure"}
  /\ deliveries' = [deliveries EXCEPT ![e] =
       [@ EXCEPT !.attempt = deliveries[e].attempt + 1, !.claim = "none",
                 !.delivered = deliveries[e].delivered \/ success,
                 !.dead = deliveries[e].dead \/ (~success /\ ~retry_delay(sending[w][e].attempt + 1))]]
  /\ sending' = [sending EXCEPT ![w][e] = Unsent]
  /\ UNCHANGED <<published, tries, answered, slips, replays>>

replay_webhook_delivery(e) ==
  /\ deliveries[e].made /\ replays < MaxReplays
  /\ replays' = replays + 1
  /\ deliveries' = [deliveries EXCEPT ![e] =
       [@ EXCEPT !.claim = "none", !.delivered = FALSE, !.dead = FALSE]]
  /\ UNCHANGED <<published, sending, tries, answered, slips>>

\* The process stops, or the record fails: the attempt leaves no trace.
LoseAttempt(w, e) ==
  /\ sending[w][e] /= Unsent /\ slips < OutboxFaults
  /\ slips' = slips + 1
  /\ sending' = [sending EXCEPT ![w][e] = Unsent]
  /\ UNCHANGED <<published, deliveries, tries, answered, replays>>

Held(e) == \E w \in Sender : sending[w][e] /= Unsent

\* The claim outlives a batch at work; to lapse under it is a fault.
ClaimLapses(e) ==
  /\ deliveries[e].claim = "held"
  /\ deliveries' = [deliveries EXCEPT ![e].claim = "lapsed"]
  /\ IF Held(e) THEN slips < OutboxFaults /\ slips' = slips + 1
                ELSE UNCHANGED slips
  /\ UNCHANGED <<published, sending, tries, answered, replays>>

OutboxNext ==
  \/ \E e \in Event : enqueue_webhook_event(e) \/ replay_webhook_delivery(e)
                      \/ ClaimLapses(e)
  \/ \E w \in Sender : claim_webhook_deliveries(w)
  \/ \E w \in Sender, e \in Event :
       deliver(w, e) \/ record_webhook_attempt(w, e) \/ LoseAttempt(w, e)

OutboxSpec == OutboxInit /\ [][OutboxNext]_outboxVars

\* Workers poll for ever, and a claim nobody holds lapses.
OutboxFairness ==
  /\ \A w \in Sender : WF_outboxVars(claim_webhook_deliveries(w))
  /\ \A w \in Sender, e \in Event :
       WF_outboxVars(deliver(w, e)) /\ WF_outboxVars(record_webhook_attempt(w, e))
  /\ \A e \in Event : WF_outboxVars(~Held(e) /\ ClaimLapses(e))

(***************************************************************************)
(* Properties.                                                             *)
(***************************************************************************)
\* However claims lapse under their worker, attempts are lost or recorded
\* twice and deliveries are replayed: a delivered event was answered with
\* success, and a dead letter has had every attempt of the schedule.
OutcomeIsTrue ==
  \A e \in Event :
    /\ deliveries[e].delivered => e \in answered
    /\ deliveries[e].dead => tries[e] >= RetryDelays

\* A published event is delivered or becomes a dead letter, whoever of the
\* workers stops on the way.
EveryEventSettles ==
  \A e \in Event :
    e \in published ~> deliveries[e].delivered \/ deliveries[e].dead
=============================================================================
