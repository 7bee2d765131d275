SPECIFICATION Spec
CONSTANTS
    Proc <- MCProc
    Thread <- MCThread
    ProcOf <- MCProcOf
    Slots = 3
    NoOne = "no one"
    Ncpus <- MCNcpus
    Scenarios <- MCScenarios
    SubProcs <- OneSub
    MayFail <- Fallible
    MaxCrashes = 1
INVARIANTS
    NobodyStarves
    NoNullAccess
    FinalizedIsDetached
    NothingIsLeft
PROPERTIES
    CpusAreConserved
CHECK_DEADLOCK FALSE
