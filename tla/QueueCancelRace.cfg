\* A job of the server, cancelled while the engine runs.
SPECIFICATION Spec
CONSTANTS
  j1 = j1
  j2 = j2
  c1 = c1
  c2 = c2
  p = p
  Job = {c1}
  Printer = {p}
  PrinterOf <- MCPrinterOf
  CloudManaged <- MCCloudManaged
  Nil = Nil
  MaxFaults = 0
  MaxCrashes = 0
PROPERTIES
  CancellationIsFinal
