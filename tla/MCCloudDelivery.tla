--------------------------- MODULE MCCloudDelivery ---------------------------
(* Jobs are numbered in the order they were created; all start at n1.      *)
EXTENDS CloudDelivery
CONSTANTS n1, n2
MCHome == [j \in Job |-> n1]

\* One job, taken by the spooler, and nothing else.
Plain ==
  [agents |-> {n1, n2}, jobs |-> {1}, cancellable |-> {}, expirable |-> {}, resolvable |-> {},
   withholds |-> {}, verdicts |-> {"accepted"}, sightings |-> {}, setbacks |-> {},
   faults |-> {}, maxFaults |-> 0]

\* Two nodes compete for one job.
Losing == [Plain EXCEPT !.faults = {"loss", "slow"}, !.maxFaults = 2]
Cancelling == [Plain EXCEPT !.cancellable = {1}, !.faults = {"slow"}, !.maxFaults = 1]
Revoking == [Plain EXCEPT !.faults = {"revoke"}, !.maxFaults = 1]

\* One node, and everything that can become of a job on it.
Alone == [Plain EXCEPT !.agents = {n1}, !.verdicts = {"accepted", "rejected", "retryable", "ambiguous"},
            !.sightings = {"printing", "completed_reported", "delivery_uncertain",
                           "failed_terminal", "cancelled"}]
Harsh == [Alone EXCEPT !.cancellable = {1}, !.setbacks = {"invalid_options", "no_reservation"},
            !.faults = {"loss", "slow", "crash", "revoke"}, !.maxFaults = 1]
Withholding == [Alone EXCEPT !.expirable = {1}, !.verdicts = {"retryable"},
            !.setbacks = {"expired", "declined"}, !.cancellable = {1},
            !.withholds = {"retry_later", "node_update", "permanent"}]
Sharing == [Alone EXCEPT !.jobs = {1, 2}, !.verdicts = {"accepted"}, !.sightings = {},
              !.faults = {"crash", "slow"}, !.maxFaults = 1]
Calm == [Alone EXCEPT !.resolvable = {1}, !.verdicts = {"accepted", "rejected", "ambiguous"},
           !.sightings = {"printing", "completed_reported", "delivery_uncertain"},
           !.faults = {"loss", "slow"}, !.maxFaults = 1]
Pair == [Calm EXCEPT !.jobs = {1, 2}, !.verdicts = {"accepted", "ambiguous"},
           !.sightings = {"completed_reported"}, !.maxFaults = 0]
Cancelled == [Plain EXCEPT !.agents = {n1}, !.cancellable = {1}, !.sightings = {"completed_reported"}]

AcceptanceWorlds == {Losing, Cancelling, Revoking, Harsh, Withholding, Sharing}
SyncWorlds == {Calm, Pair}
StallWorlds == {Cancelled}
=============================================================================
