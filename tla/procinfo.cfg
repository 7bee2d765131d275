SPECIFICATION Spec
CONSTANTS
  p1 = p1
  p2 = p2
  p3 = p3
  NOBODY = NOBODY
  Admin = Admin
  Pid = {p1, p2}
  Cpu = {0, 1}
  MaxProcesses = 2
  Parent <- MCParent
  Sharing = {}
  StartMasks <- MCMasks
  ArgMasks <- MCArgs
  Sync = {TRUE, FALSE}
  ReturnStolen = {TRUE, FALSE}
  Clients = {Admin}
INVARIANTS OneOwner NothingLost
PROPERTY StealIsExclusive
CONSTRAINT NotBroken
CHECK_DEADLOCK FALSE
