CONSTANTS
  c1 = c1
  c2 = c2
  o1 = o1
  Loaders = {c1, c2}
  Clearers = {c2}
  Objects = {o1}
  Offers <- OneObject
  MaxLoads = 2
  MaxAsks = 2
SPECIFICATION Spec
INVARIANTS SettledScene ViewTellsScene ToggleKept
PROPERTIES OrderKept LoadAnswered
CHECK_DEADLOCK FALSE
