SPECIFICATION FairSpec
CONSTANTS
  Clients = {c1, c2}
  Workers = {w1}
  Main = main
  UI = ui
  NoClient = none
INVARIANTS
  NoBrowserOutlivesDrain
  BooksMatchCef
  CallbackFence
PROPERTIES
  ImplementsBrowserDrain
  DrainReachesVerdict
  CloseIsHonoured
