-------------------------- MODULE MCInputDispatch --------------------------
EXTENDS InputDispatch
CONSTANTS b1, b2, j, t

\* Two views, the lower one with a focus key.
TwoLayers == <<b2, b1>>
TwoKeys == {j, t}
FocusKey == b1 :> t @@ b2 :> NoKey
=============================================================================
