SPECIFICATION MCSpec
CONSTANTS
    Kinds <- MCKinds
    Request <- MCRequest
    Cpu <- MCCpu
    Size = 4
    MaxHowmany = 3
    MaxLen = 3
    MAX_NODE_GPUS = 3
    Machines <- MCMachines
    Garbage <- MCGarbage
    CPU_SETSIZE = 16
    CPUS_PER_ULONG = 4
    ONLINE = 4
INVARIANTS
    TopologyIsTheMachine
    OrdersAreTotal
    MetricsAreExact
    OptionsReachTheChild
    TextsReadBack
PROPERTY QueuesAreSequences
CHECK_DEADLOCK FALSE
