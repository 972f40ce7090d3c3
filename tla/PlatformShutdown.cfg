SPECIFICATION Spec
CONSTANTS
  Main = Main
  UI = UI
  Workers = {w}
  PlainNames = {p}
  ViewNames = {v}
  SurfaceNames = {s}
  MaxCalls = 3
  Callbacks = {k}
  None = None
INVARIANTS
  HeldLayersLive
  NamesComeBack
  ShutdownLeavesNothing
