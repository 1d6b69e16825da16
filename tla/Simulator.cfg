SPECIFICATION MCSpec
CONSTANTS
  Focus = {"line", "kernel"}
  Host = {"a", "b"}
  Partner <- MCPartner
  TimelineOf <- MCApart
  First <- MCFirstApart
  TxSize = 2
  RxSize = 4
  Total <- MCTotal
  ReadCounts = {1, 3}
  RtsCap = 1
  Overlap = FALSE
  Timeline = {"a", "b", "c"}
  OutChannels <- MCChannels
  WriteDelays = {0, 1}
  WaitDelays = {2}
  FirstTimeouts = {0, 2}
  Plans <- MCOneEpoch
  MaxActs = 2
PROPERTIES ChannelSpec LeaveMeansRoom Transmitted InTimeOrder EpochsEnd
CHECK_DEADLOCK FALSE
