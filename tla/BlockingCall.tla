---------------------------- MODULE BlockingCall ----------------------------
(***************************************************************************)
(* The pair of functions the LeWI mask policy runs around a blocking call  *)
(* of MPI (lewi_mask.c): IntoBlockingCall lends the CPUs of the calling    *)
(* thread although the runtime still counts on them, OutOfBlockingCall     *)
(* asks for them again.  A CPU that was lost meanwhile is noted in         *)
(* pending_reclaimed_cpus, and the next DLB_Return disables it.            *)
(*                                                                         *)
(* Of the calls of LewiMask, those that read or clear the pending CPUs     *)
(* here are the lends and DLB_Return.                                      *)
(***************************************************************************)
EXTENDS LewiMask

CONSTANTS
  ThreadMasks,      \* affinity masks of the threads that call MPI
  KeepCpu,          \* spd.options.lewi_keep_cpu_on_blocking_call
  ThreadMultiple    \* several threads of a process are in MPI at once

VARIABLES
  in_mpi_cpus,              \* in_mpi_cpus[p], of lewi_info
  pending_reclaimed_cpus,   \* pending_reclaimed_cpus[p], of lewi_info
  blocked,                  \* blocked[p]: masks of the threads of p in MPI
  leaving                   \* leaving[p]: CPUs that a thread of p borrows back

mpiVars == <<in_mpi_cpus, pending_reclaimed_cpus, blocked, leaving>>

LewiInfoInit ==
  /\ in_mpi_cpus = [p \in Pid |-> {}]
  /\ pending_reclaimed_cpus = [p \in Pid |-> {}]
  /\ blocked = [p \in Pid |-> {}]
  /\ leaving = [p \in Pid |-> {}]

MpiInit == Init /\ LewiInfoInit

(* The thread keeps its first core if the option says so. *)
get_mask_for_blocking_call(mask) ==
  IF KeepCpu THEN mask \ core_mask[Min(mask)] ELSE mask

-----------------------------------------------------------------------------
(* A thread that runs on the CPUs of mask calls MPI.  The runtime is not   *)
(* told: the CPUs stay active.                                             *)
IntoBlockingCall(p) ==
  \E mask \in ThreadMasks :
    LET cpu_set == get_mask_for_blocking_call(mask) IN
    /\ "blocking" \in Calls
    /\ pc[p] = "ready"
    /\ mask \subseteq active[p] \ UNION blocked[p]
    /\ ThreadMultiple \/ blocked[p] = {}
    /\ blocked' = [blocked EXCEPT ![p] = @ \cup {mask}]
    /\ IF in_mpi_cpus[p] \cap cpu_set = {} /\ cpu_set # {}
       THEN /\ in_mpi_cpus' = [in_mpi_cpus EXCEPT ![p] = @ \cup cpu_set]
            /\ pending_reclaimed_cpus' = [pending_reclaimed_cpus EXCEPT ![p] = @ \ cpu_set]
            /\ Call(p, "blocking", NewJob(p, p, "lend", cpu_set))
       ELSE UNCHANGED <<in_mpi_cpus, pending_reclaimed_cpus, job, pc, ret>>
    /\ UNCHANGED <<shm, pend, returning, locals, leaving>>

(* The thread comes back, and goes on with its CPUs whatever happens here. *)
(* Those the process owns are acquired; only if there is none of them are  *)
(* the others borrowed, unless they have been disabled.                    *)
OutOfBlockingCall(p) ==
  \E mask \in blocked[p] :
    LET cpu_set == get_mask_for_blocking_call(mask)
        owned == cpu_set \cap process_mask[p]
        others == {c \in cpu_set \ process_mask[p] : shm.state[c] # "DISABLED"} IN
    /\ pc[p] = "ready"
    /\ blocked' = [blocked EXCEPT ![p] = @ \ {mask}]
    /\ active' = [active EXCEPT ![p] = @ \cup mask]
    /\ IF in_mpi_cpus[p] \subseteq cpu_set /\ in_mpi_cpus[p] # {}
       THEN /\ in_mpi_cpus' = [in_mpi_cpus EXCEPT ![p] = @ \ cpu_set]
            /\ Call(p, "blocking",
                    [NewJob(p, p, IF owned # {} THEN "acquire" ELSE "borrow",
                            IF owned # {} THEN owned ELSE others)
                       EXCEPT !.n = Cardinality(Cpu)])
            /\ leaving' = [leaving EXCEPT ![p] = IF owned # {} THEN {} ELSE others]
       ELSE UNCHANGED <<in_mpi_cpus, job, pc, ret, leaving>>
    /\ UNCHANGED <<shm, pend, returning, msgs, process_mask, max_parallelism,
                   pending_reclaimed_cpus>>

-----------------------------------------------------------------------------
(* The lock holder has come to the end of its last loop: it borrowed CPUs  *)
(* back for a thread that leaves MPI, or has to disable pending ones.      *)
AtUnlock(op) ==
  job # NoJob /\ job.op = op /\ LoopDone /\ job.rest = <<>>

BorrowsBack == AtUnlock("borrow") /\ leaving[job.by] # {}

HasPending == AtUnlock("return_all") /\ pending_reclaimed_cpus[job.by] # {}

UnlockTo(p) ==
  /\ job' = NoJob
  /\ shm' = [shm EXCEPT !.tasks = {}]
  /\ pc' = [pc EXCEPT ![p] = ret[p]]
  /\ UNCHANGED <<ret, pend, returning, msgs, process_mask, max_parallelism>>

(* Mutant: a CPU lost while in MPI is not noted. *)
BorrowedBack_unnoted ==
  /\ BorrowsBack
  /\ UnlockTo(job.by)
  /\ leaving' = [leaving EXCEPT ![job.by] = {}]
  /\ UNCHANGED <<active, pending_reclaimed_cpus, in_mpi_cpus, blocked>>

(* OutOfBlockingCall after its borrow: the callbacks to enable are         *)
(* ignored, and if nothing was obtained the CPUs are pending, in           *)
(* asynchronous mode disabled at once.                                     *)
BorrowedBack ==
  LET p == job.by
      failed == CpusOf(shm.tasks, "ENABLE", p) = {} IN
  /\ BorrowsBack
  /\ UnlockTo(p)
  /\ leaving' = [leaving EXCEPT ![p] = {}]
  /\ pending_reclaimed_cpus' =
       [pending_reclaimed_cpus EXCEPT ![p] = IF failed THEN @ \cup leaving[p] ELSE @]
  /\ active' = [active EXCEPT ![p] = IF failed /\ Async THEN @ \ leaving[p] ELSE @]
  /\ UNCHANGED <<in_mpi_cpus, blocked>>

(* lewi_mask_Return after its call: the pending CPUs are disabled as well. *)
ReturnPending ==
  LET p == job.by IN
  /\ HasPending
  /\ UnlockTo(p)
  /\ active' = [active EXCEPT
       ![p] = @ \ (CpusOf(shm.tasks, "DISABLE", p) \cup pending_reclaimed_cpus[p])]
  /\ pending_reclaimed_cpus' = [pending_reclaimed_cpus EXCEPT ![p] = {}]
  /\ UNCHANGED <<in_mpi_cpus, blocked, leaving>>

(* lewi_mask_Lend, LendCpu and LendCpuMask forget the pending CPUs. *)
LendPending(p) ==
  /\ Lend(p)
  /\ pending_reclaimed_cpus' = [pending_reclaimed_cpus EXCEPT ![p] = @ \ job'.mask]
  /\ UNCHANGED <<in_mpi_cpus, blocked, leaving>>

(* The steps of LewiMask that leave all this alone. *)
OtherStep ==
  /\ \/ ~BorrowsBack /\ ~HasPending /\ JobStep
     \/ \E p \in Pid : \/ Reclaim(p) \/ Acquire(p) \/ Borrow(p) \/ Return(p)
                       \/ Resolve(p) \/ Helper(p) \/ Lifecycle(p)
  /\ UNCHANGED mpiVars

MpiNext ==
  \/ OtherStep
  \/ BorrowedBack \/ ReturnPending
  \/ \E p \in Pid : LendPending(p) \/ IntoBlockingCall(p) \/ OutOfBlockingCall(p)

MpiSpec == MpiInit /\ [][MpiNext]_<<vars, mpiVars>>

-----------------------------------------------------------------------------
(* Properties *)

(* A process that is not in a DLB call uses a CPU only as its guest, as    *)
(* the owner that has claimed it, or if it knows that it has to give it    *)
(* up; the CPUs of threads in MPI are not used.                            *)
ThreadUseIsPermitted ==
  \A p \in Pid : pc[p] = "ready" =>
    \A c \in active[p] \ UNION blocked[p] :
      \/ shm.guest[c] = p
      \/ shm.owner[c] = p /\ shm.state[c] = "BUSY"
      \/ c \in pending_reclaimed_cpus[p]

(* A CPU is only pending while another process may use it. *)
PendingIsLost ==
  \A p \in Pid : \A c \in pending_reclaimed_cpus[p] : shm.guest[c] # p
=============================================================================
