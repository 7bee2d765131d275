SPECIFICATION MCPollingSpec
CONSTANTS
  p1 = p1
  p2 = p2
  Cpu = {0, 1, 2}
  Pid <- Pids2
  NOBODY = NOBODY
  core_mask <- Smt1
  MaxCpuRequests = 1
  MaxProcRequests = 1
  PublicPostMortem = FALSE
  Async = FALSE
  Calls = {"lend", "reclaim", "reclaim_cpu", "acquire", "borrow", "return", "disable"}
  StartMask <- Start2
  ArgMasks <- WholeMask
  ArgNcpus = {1}
  DromMasks = {}
  MaxMsgs = 0
  MaxHowmany = 0
PROPERTIES
  GuestKept
  ClaimedComesBack
