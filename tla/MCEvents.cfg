SPECIFICATION EventsSpec
CONSTANTS
  Bindings <- MCBindings
  Values = {v1, v2}
  Capacity = 1
  MaxLogs = 2
INVARIANTS ReadsAreEmitted EndsAreTold
PROPERTIES CallsReturn
CHECK_DEADLOCK FALSE
