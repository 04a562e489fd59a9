\* One job of the server: three offers, a failed write, a stop, and recovery.
SPECIFICATION FairSpec
CONSTANTS
  local = local
  cloud = cloud
  j1 = j1
  j2 = j2
  n1 = n1
  n2 = n2
  p = p
  Connector = {local, cloud}
  Job = {j2}
  Native = {n2}
  Identity = {}
  OwnerOf <- MCOwnerOf
  RouteOf <- MCRouteOf
  Observation <- MCFoundOrNot
  Local = local
  MaxHandoffs = 6
  MaxConsumed = 4
  NoIdentity = NoIdentity
  Absent = Absent
  Nil = Nil
  MaxIssued = 3
  MaxFaults = 1
  MaxCrashes = 1
INVARIANTS
  TypeOK
  AtMostOncePerDecision
  EvidenceIsTrue
  AmbiguousStaysFenced
  AcceptedKeepsBarrier
PROPERTIES
  BarrierIsMonotone
  InterruptedIsSettled
\* The bounds end the behaviour: no more offers, reservations or stops.
CHECK_DEADLOCK FALSE
