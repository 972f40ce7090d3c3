SPECIFICATION PageSpec
CONSTANTS
  Names = {f, g}
  PromiseNames = {g}
  Habits <- Apart
  MaxCalls = 4
  MaxDocuments = 3
INVARIANTS
  BindingsSurvive
  ScriptsRunInOrder
CHECK_DEADLOCK FALSE
