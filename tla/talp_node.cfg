CONSTANTS
  Procs = {p1, p2}
  Leader = p1
  Threads = {main}
  Main = main
  Global = global
  Names = {r}
  Nobody = nobody
  Settings <- MCSettings
  FullSize = 6
  SmallSize = 6
  Collected = global
  Resettable = {r}
  Observers = {x}
  MaxTime = 1
  MaxCrashes = 1
SPECIFICATION Spec
INVARIANT SameReductions
PROPERTIES EveryoneIsCounted SummaryIsComplete
CHECK_DEADLOCK FALSE
