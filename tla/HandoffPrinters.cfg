\* A local job alone (two reservations, two failed writes, a stop), or with a
\* server's job on a second queue that discovery takes for the same printer or
\* not, at any time.
SPECIFICATION Spec
CONSTANTS
  local = local
  cloud = cloud
  j1 = j1
  j2 = j2
  n1 = n1
  n2 = n2
  p = p
  Connector = {local, cloud}
  Job = {j1, j2}
  Native = {n1, n2}
  Identity = {p}
  OwnerOf <- MCOwnerOf
  RouteOf <- MCRouteOf
  Observation <- MCPrinters
  Local = local
  MaxHandoffs = 6
  MaxConsumed = 4
  NoIdentity = NoIdentity
  Absent = Absent
  Nil = Nil
  MaxIssued = 2
  MaxFaults = 2
  MaxCrashes = 1
CONSTRAINT InScenario
ACTION_CONSTRAINT FoundTogether
INVARIANTS
  AtMostOncePerDecision
  FencedWhileSubmitting
  AmbiguousStaysFenced
  PhysicalExclusion
\* The bounds end the behaviour: no more offers, reservations or stops.
CHECK_DEADLOCK FALSE
