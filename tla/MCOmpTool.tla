----------------------------- MODULE MCOmpTool -----------------------------
(***************************************************************************)
(* A node of three CPUs, two of them of the process, with a primary        *)
(* thread, a worker and two free agents: agent 0 is bound to the CPU of    *)
(* the other process, agent 1 shares the CPU of the worker.  With          *)
(* OMP_NUM_THREADS = 1 CPU 1 is spare: agent 0 has it, and agent 1 the CPU *)
(* of the other process.                                                   *)
(***************************************************************************)
EXTENDS OmpTool

MCCpu == 0 .. 2

MCProcessMask == {0, 1}

MCThread == {"primary", "worker1", "agent0", "agent1"}

MCAgentThread == [i \in 0 .. 1 |-> <<"agent0", "agent1">>[i + 1]]

(* The memory of CPU 1, with an agent that is enabled and idle and the     *)
(* role of a worker, and the one in front of the array.                    *)
MCLaunches ==
    {[threads |-> 2, memory |-> [c \in Slot |-> {}]],
     [threads |-> 1, memory |-> [c \in Slot |-> IF c = 1 THEN {"IDLE", "ENABLED", "WORKER"}
                                                ELSE IF c = -1 THEN {"IDLE"} ELSE {}]]}

MCMasks == {{}, MCCpu}

MCManagers == {"free agents", "role shift", "omp5"}
=============================================================================
