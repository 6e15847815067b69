SPECIFICATION Spec
CONSTANTS
  Sources = {s1}
  First = s1
  Following = {s1}
  Ranges <- TwoRanges
  None = None
  StreamLimit = 1
  BufferSize = 2
  Lookback = 1
  Pressed = {"range"}
  MaxEvents = 2
  MaxEpoch = 1
  MaxFlight = 2
  MaxFailures = 1
PROPERTIES
  EventShown
  RangeFollows
