SPECIFICATION FairSpec
CONSTANTS
  Browsers = {x, y}
  Game = Game
  UI = UI
  Render = Render
  Compositor = Compositor
  Inline = {f}
  Queued = {g}
  NoBrowser = NoBrowser
  NoFunc = NoFunc
  MayRelease <- Documented
  Rebound <- OneBrowser
  MaxTasks = 1
INVARIANTS
  CallbacksQuiet
PROPERTY EveryShutdownReturns
