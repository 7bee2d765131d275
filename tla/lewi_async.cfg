SPECIFICATION MCSpec
CONSTANTS
  p1 = p1
  p2 = p2
  p3 = p3
  Pid <- Pids
  initial_ncpus <- InitialNcpus
  max_processes = 2
  node_size = 3
  ArgNcpus = {1}
  MaxRequested = 1
  MaxMsgs = 1
  Calls = {"lend_cpus", "lend", "block", "reclaim", "acquire_cpus", "delete_requests", "borrow_cpus", "disable", "finish", "crash"}
  Threads = TRUE
  UintSize = 8
INVARIANTS
  CpusConserved
  RequestsAreServed
CHECK_DEADLOCK FALSE
