\* Two browsers, two keys, the mouse and its button: five events in batches of up
\* to two, one act of the CEF thread, of the window or of the shutdown.
CONSTANTS
  b1 = b1
  b2 = b2
  j = j
  t = t
  NoBrowser = NoBrowser
  NoKey = NoKey
  Layers <- TwoLayers
  Keys <- TwoKeys
  Toggle <- FocusKey
  MaxBatch = 2
  MaxEvents = 5
  MaxCalls = 1
SPECIFICATION Spec
INVARIANTS ChromiumKeysBalanced GameKeysReleased
CHECK_DEADLOCK FALSE
