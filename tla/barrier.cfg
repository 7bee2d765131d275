SPECIFICATION MCSpec
CONSTANTS
  p1 = p1
  p2 = p2
  p3 = p3
  p4 = p4
  a = a
  Pid <- Pids4
  max_barriers = 2
  Names = {a}
  DefaultName = default
  NoName = NoName
  UintSize = 16
  Calls = {"register", "attach", "attach_named", "detach", "detach_named", "barrier", "finish", "crash"}
SYMMETRY Symmetric
INVARIANTS
  SlotsAreSound
PROPERTIES
  NobodyLeftBehind
CHECK_DEADLOCK FALSE
