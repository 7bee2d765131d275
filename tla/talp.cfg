CONSTANTS
  Main = main
  Workers = {w1}
  Global = global
  Regions = {r}
  Used = {r}
  num_cpus = 2
  Enabled = {{global, r}}
  Configs = {{"openmp", "mpi", "external_profiler"}, {"openmp", "nested"}, {"openmp", "sync"},
             {"openmp", "local"}, {"gpu", "mpi", "reset"}}
  Callers = {main}
  LocalUsers = {w1}
  MaxTime = 3
  MaxLocal = 1
  MaxDepth = 2
SPECIFICATION Spec
INVARIANT TimeIsConserved
CHECK_DEADLOCK FALSE
