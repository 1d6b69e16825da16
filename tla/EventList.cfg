SPECIFICATION ListSpec
CONSTANTS
  FirstTimes = {2}
  Delays = {1}
  WindowSize = 4
  Horizon = 8
  MaxEvents = 3
INVARIANTS EventsRunOnce
CHECK_DEADLOCK FALSE
