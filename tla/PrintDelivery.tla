---------------------------- MODULE PrintDelivery ----------------------------
(***************************************************************************)
(* What the control plane and its nodes promise together of a print job,   *)
(* whatever is lost, late, repeated or restarted in between: one node at   *)
(* most ever becomes responsible for it, only that node prints it, and     *)
(* once at most; a job withdrawn before that is never printed; completion  *)
(* is reported only of a job that was printed.                             *)
(***************************************************************************)
EXTENDS Integers

CONSTANTS Job, Agent, Nil

VARIABLES
  owner,      \* the responsible node, Nil before there is one
  copies,     \* how often the job reached the spooler of a node
  withdrawn,  \* jobs closed before any node was responsible
  completed   \* jobs reported complete

promise == <<owner, copies, withdrawn, completed>>

PromiseInit ==
  /\ owner = [j \in Job |-> Nil] /\ copies = [j \in Job |-> [a \in Agent |-> 0]]
  /\ withdrawn = {} /\ completed = {}

Entrust(j, a) ==
  /\ owner[j] = Nil /\ j \notin withdrawn
  /\ owner' = [owner EXCEPT ![j] = a] /\ UNCHANGED <<copies, withdrawn, completed>>

HandOver(j) ==
  /\ owner[j] # Nil /\ copies[j][owner[j]] = 0
  /\ copies' = [copies EXCEPT ![j][owner[j]] = 1] /\ UNCHANGED <<owner, withdrawn, completed>>

Withdraw(j) ==
  /\ owner[j] = Nil
  /\ withdrawn' = withdrawn \cup {j} /\ UNCHANGED <<owner, copies, completed>>

Complete(j) ==
  /\ owner[j] # Nil /\ copies[j][owner[j]] = 1
  /\ completed' = completed \cup {j} /\ UNCHANGED <<owner, copies, withdrawn>>

PromiseNext ==
  \E j \in Job : HandOver(j) \/ Withdraw(j) \/ Complete(j) \/ \E a \in Agent : Entrust(j, a)

Promise == PromiseInit /\ [][PromiseNext]_promise
=============================================================================
