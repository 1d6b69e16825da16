SPECIFICATION MCSpec
CONSTANTS
  Focus = {"download"}
  Client = {"gui", "tool"}
  Requests <- MCRequests
  SigTerm = {"startup", "cycle"}
  MaxSends <- MCMaxSends
  Space <- MCSpace
  Sealed = {}
  Byte = {0, 1}
  Kind <- MCKind
  Places <- MCPlaces
  Factor = 2
  MaxActs = 3
  MaxUp = 2
  MaxDown = 2
  Links = {"FORK", "ONLINE"}
  Doings = {"online", "run", "load", "single"}
  Failures = {"EXCEPTION", "STOP", "SHUTDOWN", "call"}
  MaxDoings = 4
  MaxFailures = 2
  Sources <- MCSources
  Tables <- MCTables
  Libraries <- MCLibraries
  MaxLoads = 3
  MaxLibraries = 1
INVARIANTS DestroyedOnce
CHECK_DEADLOCK FALSE
