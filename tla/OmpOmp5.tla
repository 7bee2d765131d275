------------------------------ MODULE OmpOmp5 ------------------------------
(***************************************************************************)
(* omptm_omp5.c: the thread manager for any OpenMP 5 runtime.  It keeps    *)
(* the CPUs that the process may use, the active mask, derives from it the *)
(* number of threads of the next parallel region and the CPU that each of  *)
(* them is bound to, and borrows before a region and lends after it.       *)
(***************************************************************************)
EXTENDS OmpLewi

CONSTANTS
    HwThreads,      \* hwthreads_per_core: CPUs per core
    PerCore,        \* num_omp_threads_per_core, from OMP_PLACES and OMP_NUM_THREADS
    InitialLevel1   \* num_initial_omp_threads_level1: 0 when OMP_NUM_THREADS is not set

ASSUME PerCoreAssumption == HwThreads \in Nat \ {0} /\ PerCore \in 1 .. HwThreads

VARIABLES
    activeMask,     \* active_mask
    bindings,       \* cpu_bindings: the CPU of each thread number, used modulo its length
    numThreads,     \* the last argument of omp_set_num_threads
    where,          \* Thread -> the CPU that the thread runs on
    borrowOpt       \* --lewi-ompt contains borrow

o5Vars == <<activeMask, bindings, numThreads, where, borrowOpt>>

O5Others == UNCHANGED <<team, level, mpi, tasks, inTask, pending, lendOpt, used>>

Core(c) == c \div HwThreads

CpusOfCore(k) == {c \in Cpu : Core(c) = k}

(* compute_cpu_bindings: of each core with an active CPU its first n CPUs, *)
(* the ones of the process first.  During init n is still 0: all of them.  *)
compute_cpu_bindings(A, n) ==
    LET firsts(k) == {c \in CpusOfCore(k) :
                        n = 0 \/ Cardinality({d \in CpusOfCore(k) : d < c}) < n}
        B == UNION {firsts(Core(c)) : c \in A}
    IN  Ascending(B \cap ProcessMask) \o Ascending(B \ ProcessMask)

set_num_threads_from_active_mask(A) ==
    IF PerCore = HwThreads THEN Cardinality(A)
    ELSE Cardinality({Core(c) : c \in A}) * PerCore

Omp5Init ==
    /\ activeMask = ProcessMask
    /\ bindings = compute_cpu_bindings(ProcessMask, 0)
    /\ numThreads = set_num_threads_from_active_mask(ProcessMask)
    /\ where \in {f \in [Thread -> Cpu] : f[Primary] \in ProcessMask
                                          /\ \A t \in Thread \ {Primary} : f[t] = First}

Activate(A) ==
    /\ activeMask' = A
    /\ bindings' = compute_cpu_bindings(A, PerCore)

----------------------------------------------------------------------------
(* cb_enable_cpu and cb_disable_cpu                                        *)
o5_enable(t) ==
    /\ Does(t, "enable")
    /\ Activate(activeMask \cup {CpuOf(t)})
    /\ numThreads' = set_num_threads_from_active_mask(activeMask')
    /\ Then(t, <<>>)
    /\ UNCHANGED <<table, where, borrowOpt>> /\ O5Others

o5_disable(t) ==
    /\ Does(t, "disable")
    /\ Activate(activeMask \ {CpuOf(t)})
    /\ numThreads' = set_num_threads_from_active_mask(activeMask')
    /\ Then(t, <<>>)
    /\ UNCHANGED <<table, where, borrowOpt>> /\ O5Others

(* The thread keeps only the CPU that it runs on: omptm_omp5__lend before  *)
(* DLB_SetMaxParallelism, lend_from_api before DLB_Lend.                   *)
o5_only_mine(t) ==
    /\ Does(t, "only mine")
    /\ Activate({where[t]})
    /\ numThreads' = 1
    /\ Then(t, <<>>)
    /\ UNCHANGED <<table, where, borrowOpt>> /\ O5Others

(* IntoBlockingCall lends every active CPU but the current one.            *)
o5_into(t) ==
    /\ Does(t, "into")
    /\ Then(t, <<OnSet("LendCpuMask", activeMask \ {where[t]}), Op("only mine", -1)>>)
    /\ UNCHANGED <<table, o5Vars>> /\ O5Others

(* OutOfBlockingCall ends with the number of threads of the environment.   *)
o5_initial_threads(t) ==
    /\ Does(t, "initial threads")
    /\ numThreads' = InitialLevel1
    /\ Then(t, <<>>)
    /\ UNCHANGED <<table, activeMask, bindings, where, borrowOpt>> /\ O5Others

o5_OutOfBlockingCall == <<OnSet("ReclaimCpuMask", Cpu), Op("initial threads", -1)>>

(* omptm_omp5__borrow: the number of CPUs to borrow is a moving average of *)
(* what earlier calls obtained; here any number up to the CPUs of others.  *)
o5_borrow(n) ==
    IF borrowOpt
    THEN <<Op("Return", -1), OnSet("ReclaimCpuMask", Cpu)>>
         \o [i \in 1 .. n |-> Op("BorrowCpus", -1)]
    ELSE <<>>

o5_lend == IF lendOpt THEN <<Op("only mine", -1), Op("SetMaxParallelism", -1)>> ELSE <<>>

o5_lend_from_api == <<Op("only mine", -1), OnSet("LendCpuMask", Cpu)>>

(* into_parallel_function: the thread binds itself to the CPU of its       *)
(* number, modulo the number of bindings.                                  *)
Index(t) == CHOOSE i \in 0 .. 4 : <<"primary", "worker1", "agent0", "agent1", "agent2">>[i + 1] = t

o5_bind(t) ==
    /\ Does(t, "work")
    /\ where' = [where EXCEPT ![t] = IF bindings = <<>> THEN @
                                     ELSE bindings[(Index(t) % Len(bindings)) + 1]]
    /\ Then(t, <<>>)
    /\ UNCHANGED <<table, activeMask, bindings, numThreads, borrowOpt>> /\ O5Others

O5Step(t) ==
    \/ o5_enable(t) \/ o5_disable(t) \/ o5_only_mine(t) \/ o5_into(t)
    \/ o5_initial_threads(t) \/ o5_bind(t)
=============================================================================
