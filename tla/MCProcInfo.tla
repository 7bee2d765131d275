----------------------------- MODULE MCProcInfo -----------------------------
EXTENDS ProcInfo

CONSTANTS p1, p2, p3

MCParent == [p \in Pid |-> IF p = p2 THEN p1 ELSE NOBODY]
MCMasks == {{0, 1}}
MCArgs == {{0}, {0, 1}}
=============================================================================
