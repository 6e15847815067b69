SPECIFICATION PresetsSpec
CONSTANTS
  Sources <- TwoSources
  Levels = {"debug"}
  Searches = {"", "s"}
  Clients = {"", "c"}
  Rows <- FourRows
  Slots = {1, 2, 3}
  Legacy <- LegacyFiles
  NoFile = NoFile
  Broken = Broken
  Lost = Lost
  MaxSaves = 2
INVARIANTS
  InactiveShowsStartup
