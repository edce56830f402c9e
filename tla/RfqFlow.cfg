SPECIFICATION Spec
CONSTANTS
  MaxLegs = 2
  Version = 2
  Assets = {1}
  Windows = {60}
  LegWires <- AllWires
  Metadata = {"zero", "m"}
  ZeroMetadata = "zero"
  Heads = {7}
  Counts = {0, 1, 2, 3}
  Versions = {1, 2}
  Intruders <- AllIntruders
  BadText = {BadText}
  MaxEdits = 2
  NoWire = NoWire
  NoObject = NoObject
INVARIANTS ServerIsUnderstood RelayIsLossless SameViewInEveryLanguage EditsAreSeenByPeers
CHECK_DEADLOCK FALSE
