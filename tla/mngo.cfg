SPECIFICATION Spec
CONSTANTS
  a = a
  b = b
  c = c
  Proc = {a, b, c}
  Core = {1, 2, 3, 4, 5, 6, 7, 8, 9}
  Region = {"r", "s"}
  Useful = {0, 4}
  Total = 4
  Threshold = 60
  Window = 2
  Options <- MCOptions
  Timeouts = TRUE
INVARIANTS RegionsPartition LoadsWithoutStealing ActionsAgree
PROPERTY FinalizationEnds
CHECK_DEADLOCK FALSE
