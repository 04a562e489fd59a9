SPECIFICATION FairSpec
CONSTANTS
  Nil = Nil
  n1 = n1
  n2 = n2
  Home <- MCHome
  Job = {1, 2}
  Agent = {n1}
  MaxLeases = 3
  Worlds <- SyncWorlds
INVARIANT ResolvedByNode
PROPERTY EveryJobEnds
PROPERTY ResolutionCompletes
