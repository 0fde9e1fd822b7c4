SPECIFICATION FairSpec
CONSTANTS
  explorer = explorer  editor = editor  tool = tool  half = half
  NoPanel = NoPanel  NoFile = NoFile  Type = "log"
  Layouts <- MCLayouts
  Hint <- MCHint
  Closable = {tool}
  Size <- MCSize
  At <- MCAt
  Cells <- MCCells
  OldFiles <- MCOldFiles
  Arrangements = {"panes", "tiles"}
  Stumps = {half}
  Columns = 3
  Rounds = 6
  MaxSpawns = 1
  MaxRemovals = 1
  MaxRestarts = 2
  MaxPresses = 2
  MaxEvents = 3
INVARIANTS
  PanesAreSound
  TilesAreTight
  EveryPanelIsShown
PROPERTIES
  ClosesHappen
  TheUsersArrangement
