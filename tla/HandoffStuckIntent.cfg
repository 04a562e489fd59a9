\* Recovery of a local job after a stop.
SPECIFICATION FairSpec
CONSTANTS
  local = local
  cloud = cloud
  j1 = j1
  j2 = j2
  n1 = n1
  n2 = n2
  p = p
  Connector = {local, cloud}
  Job = {j1}
  Native = {n1}
  Identity = {}
  OwnerOf <- MCOwnerOf
  RouteOf <- MCRouteOf
  Observation <- MCFoundOrNot
  Local = local
  MaxHandoffs = 6
  MaxConsumed = 4
  NoIdentity = NoIdentity
  Absent = Absent
  Nil = Nil
  MaxIssued = 2
  MaxFaults = 0
  MaxCrashes = 1
PROPERTIES
  InterruptedIsSettled
\* The bounds end the behaviour: no more offers, reservations or stops.
CHECK_DEADLOCK FALSE
