---------------------------- MODULE MCLewiCalls ----------------------------
(***************************************************************************)
(* LewiMask with different groups of calls: a behaviour is of one          *)
(* scenario.  In two of them the processes poll and keep their CPUs, on a  *)
(* machine with and without SMT.  The others are those of MCLewiModes,     *)
(* with a node of their own.                                               *)
(***************************************************************************)
EXTENDS LewiMask

CONSTANTS p1, p2

VARIABLES scenario,
  mode_shm, mode_job, mode_pc, mode_ret, mode_pend, mode_returning, mode_active, mode_msgs,
  mode_process_mask, mode_max_parallelism, in_mpi_cpus, pending_reclaimed_cpus, blocked, leaving

modeVars ==
  <<mode_shm, mode_job, mode_pc, mode_ret, mode_pend, mode_returning, mode_active, mode_msgs,
    mode_process_mask, mode_max_parallelism, in_mpi_cpus, pending_reclaimed_cpus, blocked, leaving>>

Pids == {p1, p2}

(* One core has two hardware threads, and one has one.                     *)
SmtCores == (0 :> {0}) @@ (1 :> {1, 2}) @@ (2 :> {1, 2})

(* p1 is started on the first core, p2 on the other.                       *)
SmtStart == [p \in Pids |-> IF p = p1 THEN {0} ELSE {1, 2}]

CoreMasks == {Cpu, {0}, {1}, {2}}

(* Without SMT one CPU is not used.                                        *)
Cores == [c \in Cpu |-> {c}]

Start == [p \in Pids |-> IF p = p1 THEN {0} ELSE {1}]

SingleCalls ==
    {"lend", "acquire_cpu", "borrow_cpu", "borrow", "reclaim_mask", "reclaim_cpus", "return_cpu", "return_mask",
     "max_parallelism", "disable", "crash", "finish"}

AllMasks == (SUBSET {0, 1}) \ {{}}

(* The calls for single CPUs, masks and numbers of CPUs, with crashes.     *)
Single ==
    INSTANCE LewiMask WITH
      core_mask <- Cores, PublicPostMortem <- FALSE, StartMask <- Start,
      Calls <- SingleCalls, ArgMasks <- AllMasks

(* Helpers, owners that change, and threads in MPI.                        *)
Modes ==
    INSTANCE MCLewiModes WITH
      shm <- mode_shm, job <- mode_job, pc <- mode_pc, ret <- mode_ret, pend <- mode_pend,
      returning <- mode_returning, active <- mode_active, msgs <- mode_msgs,
      process_mask <- mode_process_mask, max_parallelism <- mode_max_parallelism

-----------------------------------------------------------------------------
MCInit ==
    /\ Modes!NodeInit
    /\ \/ scenario = "calls" /\ Single!Init
       \/ scenario \in {"smt", "async", "drom", "blocking"} /\ Init

MCNext ==
    /\ UNCHANGED scenario
    /\ \/ /\ \/ scenario = "smt" /\ Next
             \/ scenario = "calls" /\ Single!Next
          /\ UNCHANGED modeVars
       \/ Modes!Next /\ UNCHANGED vars

MCSpec == MCInit /\ [][MCNext]_<<scenario, vars, modeVars>>

-----------------------------------------------------------------------------
(* Beyond polling with fixed owners: the sets hide no CPU with request     *)
(* queues and threads in MPI, who leaves is nowhere in the table when      *)
(* owners have changed, and threads use only CPUs that they may use or     *)
(* know to be lost (shmem_cpuinfo.c, lewi_mask.c).                         *)
ModesAreSound ==
    Modes!SetsTrackCpus /\ Modes!GoneLeavesNothing /\ Modes!ThreadUseIsPermitted
=============================================================================
