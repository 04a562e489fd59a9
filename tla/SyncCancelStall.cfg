SPECIFICATION FairSpec
CONSTANTS
  Nil = Nil
  n1 = n1
  n2 = n2
  Home <- MCHome
  Job = {1}
  Agent = {n1}
  MaxLeases = 2
  Worlds <- StallWorlds
PROPERTY CancellationSettles
