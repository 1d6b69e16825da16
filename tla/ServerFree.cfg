SPECIFICATION MCSpec
CONSTANTS
  Interface = "IP"
  Program = "free"
  Disconnects = {TRUE}
  Faults = {"port", "slow", "close", "reset", "illegal"}
  Stops = "done"
  MaxId = 3
  WireCap = 2
  Setups = {"given"}
PROPERTIES DoneReported
CHECK_DEADLOCK FALSE
