SPECIFICATION Spec
CONSTANTS
  Nil = Nil
  n1 = n1
  n2 = n2
  Home <- MCHome
  Job = {1, 2}
  Agent = {n1, n2}
  MaxLeases = 2
  Worlds <- AcceptanceWorlds
INVARIANT TypeOK
INVARIANT DestinationSerial
INVARIANT SupersededNeverRuns
INVARIANT AttemptsAreTrue
INVARIANT AcknowledgedIsDurable
INVARIANT AcknowledgedCancelHolds
PROPERTY Promised
