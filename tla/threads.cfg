SPECIFICATION Spec
CONSTANTS
    Cpu <- MCCpu
    ProcessMask <- MCProcessMask
    Thread <- MCThread
    Managers <- MCManagers
    Agents = 2
    AgentThread <- MCAgentThread
    Launches <- MCLaunches
    Masks <- MCMasks
    Threads0 = 2
    HwThreads = 1
    PerCore = 1
    InitialLevel1 = 2
    MaxTasks = 1
    MaxRegions = 1
    MaxBlocking = 1
INVARIANTS
    FreeAgentsCounted
    TeamRunsOnOurs
    RoleShiftAgrees
CHECK_DEADLOCK FALSE
