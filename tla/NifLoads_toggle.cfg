CONSTANTS
  c1 = c1
  c2 = c2
  o1 = o1
  Loaders = {c1}
  Clearers = {c2}
  Objects = {o1}
  Offers <- OneObject
  MaxLoads = 2
  MaxAsks = 1
SPECIFICATION Spec
INVARIANT ToggleSurvivesLoad
CHECK_DEADLOCK FALSE
