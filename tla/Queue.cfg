\* A local job and a job of the server that can be cancelled, on one printer,
\* of an installed agent or of an embedded node.
SPECIFICATION NodeSpec
CONSTANTS
  j1 = j1
  j2 = j2
  c1 = c1
  c2 = c2
  p = p
  Job = {j1, c1}
  Printer = {p}
  PrinterOf <- MCPrinterOf
  CloudManaged <- MCCloudManaged
  Nil = Nil
  MaxFaults = 1
  MaxCrashes = 1
  Work = {1, 2}
  Connected = {2}
  MaxOperations = 3
  Mishap = {"stop", "write"}
  MaxMishaps = 2
  Closed = Closed
INVARIANTS
  NodeTypeOK
  SerialHandoff
  SubmissionOrder
  TrackedWhileNative
  PrintedOnce
  SubmittedOnce
PROPERTIES
  OnlyReleaseReopens
  OperationResolves
