SPECIFICATION MCSpec
CONSTANTS
  Interface = "IP"
  Program = "free"
  Disconnects = {TRUE, FALSE}
  Faults = {"refuse", "slow", "close", "reset", "reject"}
  Stops = "never"
  FreshTI = FALSE
  MaxId = 3
  WireCap = 2
  Setups = {"given", "stopped"}
INVARIANTS Agreement JoinedWorkerEnds
PROPERTIES NoMessageOverwritten ClosedWorkerEnds
CHECK_DEADLOCK FALSE
