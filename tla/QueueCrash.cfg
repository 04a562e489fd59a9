\* A local job and a stop.
SPECIFICATION FairSpec
CONSTANTS
  j1 = j1
  j2 = j2
  c1 = c1
  c2 = c2
  p = p
  Job = {j1}
  Printer = {p}
  PrinterOf <- MCPrinterOf
  CloudManaged <- MCCloudManaged
  Nil = Nil
  MaxFaults = 0
  MaxCrashes = 1
PROPERTIES
  InterruptedIsRetried
