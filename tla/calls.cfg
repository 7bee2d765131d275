SPECIFICATION MCSpec
CONSTANTS
  p1 = p1
  p2 = p2
  Cpu = {0, 1, 2}
  Pid <- Pids
  NOBODY = NOBODY
  core_mask <- SmtCores
  MaxCpuRequests = 1
  MaxProcRequests = 1
  PublicPostMortem = TRUE
  Async = FALSE
  Calls = {"lend", "reclaim_cpu", "borrow", "return", "finish"}
  StartMask <- SmtStart
  ArgMasks <- CoreMasks
  ArgNcpus = {1}
  DromMasks = {}
  MaxMsgs = 0
  MaxHowmany = 0
INVARIANTS
  SetsTrackCpus
  UseIsPermitted
  GoneLeavesNothing
  CoreNotShared
  ModesAreSound
PROPERTY
  SharesCpus
