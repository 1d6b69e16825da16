SPECIFICATION MCSpec
CONSTANTS
  Interface = "IP"
  Program = "acks"
  Disconnects = {TRUE, FALSE}
  Faults = {"refuse", "slow", "close", "reject"}
  Stops = "never"
  FreshTI = FALSE
  MaxId = 3
  WireCap = 2
  Setups = {"given", "serial"}
INVARIANTS NoMutualWait
PROPERTIES TransferSpec EnquiryEnds
