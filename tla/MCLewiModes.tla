---------------------------- MODULE MCLewiModes ----------------------------
(***************************************************************************)
(* LewiMask beyond polling with fixed owners: a behaviour is of one        *)
(* scenario, which is an instance of LewiMask or of BlockingCall.          *)
(***************************************************************************)
EXTENDS Integers, Sequences

CONSTANTS p1, p2, NOBODY

VARIABLES scenario, shm, job, pc, ret, pend, returning, active, msgs, process_mask, max_parallelism,
  in_mpi_cpus, pending_reclaimed_cpus, blocked, leaving

Pids == {p1, p2}

Cpus == 0 .. 1

(* p1 is started on the first CPU, p2 on the other.                        *)
Start == [p \in Pids |-> IF p = p1 THEN {0} ELSE {1}]

Cores == [c \in Cpus |-> {c}]

WholeMask == {Cpus}

ContestedMask == {{0}}

OwnerMasks == {{0}, {1}}

AsyncCalls == {"lend", "reclaim", "acquire", "borrow", "return", "finish"}

BlockingCalls == {"lend", "reclaim", "borrow", "return", "blocking"}

SingleMasks == {{0}, {1}}

DromCalls == {"lend", "return", "drom", "check", "finish"}

One == {1}

None == {}

(* Requests for one contested CPU, and messages to the helper threads.     *)
InAsync ==
    INSTANCE LewiMask WITH
      Cpu <- Cpus, Pid <- Pids, core_mask <- Cores, MaxCpuRequests <- 1, MaxProcRequests <- 1,
      PublicPostMortem <- FALSE, Async <- TRUE, StartMask <- Start,
      Calls <- AsyncCalls,
      ArgMasks <- ContestedMask, ArgNcpus <- One, DromMasks <- None, MaxMsgs <- 1, MaxHowmany <- 1

(* Owners that change, and the check of single CPUs.                       *)
InDrom ==
    INSTANCE LewiMask WITH
      Cpu <- Cpus, Pid <- Pids, core_mask <- Cores, MaxCpuRequests <- 1, MaxProcRequests <- 1,
      PublicPostMortem <- FALSE, Async <- FALSE, StartMask <- Start,
      Calls <- DromCalls,
      ArgMasks <- WholeMask, ArgNcpus <- One, DromMasks <- OwnerMasks, MaxMsgs <- 0, MaxHowmany <- 0

(* Threads bound to one CPU that call MPI, one of a process at a time.     *)
InBlocking ==
    INSTANCE BlockingCall WITH
      Cpu <- Cpus, Pid <- Pids, core_mask <- Cores, MaxCpuRequests <- 1, MaxProcRequests <- 1,
      PublicPostMortem <- FALSE, Async <- FALSE, StartMask <- Start,
      Calls <- BlockingCalls,
      ArgMasks <- SingleMasks, ArgNcpus <- One, DromMasks <- None, MaxMsgs <- 0, MaxHowmany <- 0,
      ThreadMasks <- SingleMasks, KeepCpu <- FALSE, ThreadMultiple <- FALSE

-----------------------------------------------------------------------------
(* The node is the same at first in every scenario.                        *)
NodeInit == InBlocking!MpiInit

(* Only in one scenario do threads call MPI.                               *)
Next ==
    /\ UNCHANGED scenario
    /\ \/ /\ \/ scenario = "async" /\ InAsync!Next
             \/ scenario = "drom" /\ InDrom!Next
          /\ UNCHANGED <<in_mpi_cpus, pending_reclaimed_cpus, blocked, leaving>>
       \/ scenario = "blocking" /\ InBlocking!MpiNext

-----------------------------------------------------------------------------
(* The redundant sets of the table never hide a CPU from the calls that    *)
(* search them, also with request queues and threads in MPI (LewiMask).    *)
SetsTrackCpus ==
    /\ scenario = "async" => InAsync!SetsTrackCpus
    /\ scenario = "blocking" => InBlocking!SetsTrackCpus

(* A process that has left is nowhere in the table, also when owners have  *)
(* changed (LewiMask).                                                     *)
GoneLeavesNothing == scenario = "drom" => InDrom!GoneLeavesNothing

(* A thread uses a CPU only if its process may, or knows that it has to    *)
(* give it up, also when the CPU was lost while the thread was in MPI      *)
(* (BlockingCall).                                                         *)
ThreadUseIsPermitted == scenario = "blocking" => InBlocking!ThreadUseIsPermitted
=============================================================================
