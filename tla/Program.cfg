SPECIFICATION MCSpec
CONSTANTS
  Focus = {"editor", "messages", "structures", "tokens", "parser", "operands", "symbols", "constants", "window"}
  Files = {"f"}
  Projects = {"p", "q"}
  Text = {"", "a", "junk", "foreign"}
  Doings = {"edit", "tabs", "integrate", "import", "export", "libs", "settings", "save", "load", "careless"}
  MaxTabs = 2
  MaxDoings = 4
  MaxFailures = 1
  Sendable <- MCSendable
  MaxSends <- MCMaxSends
  Room <- MCRoom
  SeqCount = 2
  Align = 2
  Types <- MCTypes
  InOutTypes <- MCInOut
  MaxFields = 3
  Modes = {"code", "variables"}
  Words <- MCWords
  Texts <- MCTexts
  MaxWords = 4
  MaxGaps = 1
  BlockKinds = {"DB", "FB", "FC", "OB", "UDT", "flat"}
  WrittenSections = {"STRUCT", "VAR", "VAR_TEMP"}
  MaxBlocks = 2
  MaxParts = 4
  Mnemonics = {"DE", "EN"}
  ParamConstants = {"TRUE", "S5T#1S", "'a'", "W#16#1"}
  MaxOperands = 3
  Names <- MCNames
  LowerCase <- MCLowerCase
  Addresses <- MCAddresses
  DataTypes = {"BOOL"}
  Imported <- MCImported
  Pasted <- MCPasted
  Translated <- MCTranslated
  ShownText <- MCShownText
  Literals <- MCLiterals
  TypedTexts <- MCTyped
  TimerWords <- MCTimer
  CounterWords <- MCCounter
  Configured = {"AUTO"}
  CarelessWith = {}
  MaxRows = 2
  MaxEdits = 3
INVARIANTS CleanMeansSaved FieldsApart TokensAsWritten ParsedAsWritten OperandsAsWritten ImmediatesAsWritten
PROPERTIES MessagesArrive TableReadsBack
CHECK_DEADLOCK FALSE
