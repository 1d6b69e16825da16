SPECIFICATION MCSpec
CONSTANTS
  Interface = "IP"
  Program = "held"
  Disconnects = {FALSE}
  Faults = {"slow", "illegal"}
  Stops = "never"
  MaxId = 3
  WireCap = 2
  Setups = {"given", "serial"}
INVARIANTS NoMutualWait
PROPERTIES ServiceSpec EnquiryEnds
