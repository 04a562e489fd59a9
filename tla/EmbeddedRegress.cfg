SPECIFICATION EmbeddedSpec
CONSTANTS
  Work = {1, 2}
  Connected = {2}
  MaxOperations = 3
  Mishap = {"stop"}
  MaxMishaps = 1
  Closed = Closed
PROPERTIES ProjectionNeverRegresses
CHECK_DEADLOCK FALSE
