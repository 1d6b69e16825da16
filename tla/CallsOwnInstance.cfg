SPECIFICATION MCSpec
CONSTANTS
  Focus = {"calls"}
  Sites <- MCOwnInstance
  DbNumber = {1, 2}
  DbSize = 4
  Data = {1}
  TempBytes = 1
  LocalBytes = 5
  MaxDepth = 4
  MaxInsns = 8
  ParenMax = 2
  McrMax = 2
  MaxText = 4
  MaxInZone = 1
  Bits = 4
  AddressBits = 6
  SizeOf <- MCSize
  Fill <- MCFill
  Contexts <- MCContexts
  LoadOps <- MCLoadOps
  StoreOps <- MCStoreOps
  BitLoadOps <- MCBitLoadOps
  BitStoreOps <- MCBitStoreOps
  Pointers <- MCPointers
  Steps <- MCSteps
  Given = {9}
  MaxAccesses = 3
  WordBits = 8
  Radix = 3
  Immediates = {1, 8, 9, 16, 18}
  Start <- MCStart
  BcdStart <- MCBcd
  Base <- MCBase
  MaxValue = 2
  Kinds = {"SI", "SV", "SE", "SS", "SA"}
  Horizon = 6
  MaxCount = 2
  MinCount <- MCMinCount
  Presets <- MCPresets
  MaxCalls = 3
  Wrap = 6
  PTs <- MCPTs
  Gaps = {1, 3}
  IecCalls = 4
  Halves = {1, 2, 4, 5, 8, 10, 16, 20}
  MaxBehind = 3
  Areas <- MCAreas
  BitsPerWord = 2
  CellValue = {0, 1}
  MaxRead <- MCMaxRead
  MaxWrite <- MCMaxWrite
  SingleWrites = {TRUE, FALSE}
  DataTypes = {0, 1, 3, 4}
  Addresses = {1, 3}
  Lengths = {0, 1, 2, 3}
  MaxIn = 5
  RetMaxes = {0, 2, 5}
  Numbers <- MCNumbers
  Dates <- MCDates
PROPERTIES OutboundReachesActual
CHECK_DEADLOCK FALSE
