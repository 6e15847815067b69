SPECIFICATION Spec
CONSTANTS
  Sources = {s1, s2}
  First = s1
  Following = {s1}
  Ranges <- OneRange
  None = None
  StreamLimit = 1
  BufferSize = 2
  Lookback = 1
  Pressed = {"pause", "enter", "escape", "switcher"}
  MaxEvents = 3
  MaxEpoch = 2
  MaxFlight = 2
  MaxFailures = 1
INVARIANTS
  NothingForeign
  NoGap
  ModalOwnRow
  SettledMeansRefreshed
