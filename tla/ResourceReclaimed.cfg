SPECIFICATION ResourceSpec
CONSTANTS
  User = {u1}
  Uploader = {c1}
  Reclaimer = {w1}
  MaxReclaims = 2
  ResourceFaults = 0
INVARIANT ReferencedIsRetained
CHECK_DEADLOCK FALSE
