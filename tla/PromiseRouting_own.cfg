SPECIFICATION FairSpec
CONSTANTS
  Browsers = {b1, b2}
  Renderers = {r1, r2}
  Mortal = {r1}
  MaxCalls = 2
  Authors = {t1, t2}
  Released = {b1}
  Host <- OneEach
  Overlap = {}
  NoCall = none
  Platform = platform
INVARIANTS
  AnswersMatch
  NoRouteOutlivesBrowser
PROPERTY
  SettleReachesPage
CHECK_DEADLOCK FALSE
