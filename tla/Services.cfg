SPECIFICATION FairSpec
CONSTANTS
  LastRelease = 2
  MaxHealthAttempts = 2
  Capacity = 14
  GuardianFaults = 2
  Down = Down
  Event = {e1}
  Sender = {w1, w2}
  RetryDelays = 3
  OutboxFaults = 2
  MaxReplays = 1
  Render = {r1, r2}
  Printable = {r1}
  Demands = {{r1}, {r2}}
  Renderer = {w1, w2}
  Client = {k1, k2}
  MaxAttempts = 2
  MaxSweeps = 2
  RenderFaults = 1
  User = {u1, u2}
  Uploader = {c1}
  Reclaimer = {w1, w2}
  MaxReclaims = 3
  ResourceFaults = 1
INVARIANTS
  TypeOK
  SettledRunsInstalled
  OutcomeIsTrue
  CompletedHasArtifact
  LiveJobHasArtifact
  ApprovalIsSingle
PROPERTIES
  EffectIsRecorded
  HealthCheckEnds
  EveryEventSettles
  EveryRenderSettles
  UnusedIsReclaimed
CHECK_DEADLOCK FALSE
