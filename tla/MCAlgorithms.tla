---------------------------- MODULE MCAlgorithms ----------------------------
(***************************************************************************)
(* The parts of DLB that compute: the queues and the reading of the        *)
(* topology with their steps, and the metrics of TALP and the options on   *)
(* every small input.  subject is the part that a behaviour is about.      *)
(***************************************************************************)
EXTENDS Queues, PopMetrics

CONSTANTS Machines, Garbage, CPU_SETSIZE, CPUS_PER_ULONG, ONLINE

VARIABLES subject, input, machine, sys, step, unread, needs_reordering

Topology == INSTANCE MaskUtils

O == INSTANCE Options

topology == <<machine, sys, step, unread, needs_reordering>>

-----------------------------------------------------------------------------
(* Inputs *)

MCRequest ==
    {[pid |-> 1, howmany |-> 1, allowed |-> {1}], [pid |-> 1, howmany |-> 2, allowed |-> {1, 2}],
     [pid |-> 2, howmany |-> 1, allowed |-> {2}]}

MCKinds == {"template", "proc", "pids", "fixed", "realloc"}

MCCpu == {1, 2}

(* n cores, with two hardware threads c and c + n each if smt.             *)
Machine(n, smt, ids, nodes, hwloc) ==
    LET cpus == 0 .. (IF smt THEN 2 * n ELSE n) - 1 IN
    [core_id |-> [c \in cpus |-> ids[(c % n) + 1]],
     siblings |-> [c \in cpus |-> {d \in cpus : d % n = c % n}],
     nodes |-> nodes, hwloc |-> hwloc]

NoFiles == [core_id |-> << >>, siblings |-> << >>, nodes |-> << >>, hwloc |-> FALSE]

(* With hwloc and without, ids with gaps, ids that two sockets share, and  *)
(* a node without CPUs.                                                    *)
MCMachines ==
    {NoFiles,
     Machine(3, TRUE, <<0, 1, 2>>, [n \in 0 .. 1 |-> IF n = 0 THEN {0, 1, 3, 4} ELSE {2, 5}], TRUE),
     Machine(3, TRUE, <<0, 1, 2>>, [n \in 0 .. 1 |-> IF n = 0 THEN {0, 1, 3, 4} ELSE {2, 5}], FALSE),
     Machine(3, TRUE, <<0, 2, 5>>, [n \in {0} |-> 0 .. 5], FALSE),
     Machine(4, FALSE, <<0, 1, 0, 1>>,
             [n \in {0, 2, 3} |-> IF n = 0 THEN {0, 1} ELSE IF n = 2 THEN {2, 3} ELSE {}], FALSE),
     Machine(3, TRUE, <<1, 1, 0>>, [n \in 0 .. 1 |-> IF n = 0 THEN {0, 3} ELSE {1, 2, 4, 5}], FALSE)}

MCGarbage == {{}}

(* Monitors of a rank: unused and empty, or two units of time on one or    *)
(* two CPUs in all ways of spending it.                                    *)
Elapsed == 2

MonitorOf(cpus, useful, mpi, idle, omp, gpus) ==
    [num_measurements |-> IF cpus = 0 THEN 0 ELSE 1, num_cpus |-> cpus,
     elapsed_time |-> IF cpus = 0 THEN 0 ELSE Elapsed,
     useful_time |-> useful, mpi_time |-> mpi, mpi_worker_idle_time |-> idle,
     omp_load_imbalance_time |-> omp[1], omp_scheduling_time |-> omp[2],
     omp_serialization_time |-> omp[3], gpu_runtime_time |-> omp[4], gpus |-> gpus]

Unused == MonitorOf(0, 0, 0, 0, <<0, 0, 0, 0>>, << >>)

Device(id, useful) == [id |-> id, useful |-> useful, communication |-> 1]

Devices == {<< >>, <<Device(7, 1)>>, <<Device(8, 1), Device(7, 2)>>}

Monitors ==
    {m \in {MonitorOf(cpus, cpus * Elapsed - mpi - idle - o, mpi, idle,
                      [i \in 1 .. 4 |-> IF i = k THEN o ELSE 0], gpus) :
              cpus \in 1 .. 2, mpi \in 0 .. 2, idle \in 0 .. 1, o \in 0 .. 2, k \in 1 .. 4,
              gpus \in Devices} :
       m.useful_time >= 0 /\ m.mpi_worker_idle_time < m.num_cpus}

(* Enough to tell the ranks of a node apart.                               *)
Few ==
    {Unused} \cup {MonitorOf(1, 2 - mpi, mpi, 0, <<0, 0, 0, 0>>, gpus) : mpi \in 0 .. 1, gpus \in Devices}
             \cup {MonitorOf(2, 1, 1, 1, <<1, 0, 0, 0>>, << >>), MonitorOf(2, 3, 0, 0, <<0, 0, 1, 0>>, << >>),
                   MonitorOf(1, 0, 2, 0, <<0, 0, 0, 0>>, << >>)}

(* The monitors of the ranks, by node.                                     *)
Layouts ==
    {<< <<a>> >> : a \in Monitors} \cup {<< <<a>>, <<b>> >> : a, b \in Few}
      \cup {<< <<a, b, c>> >> : a, b, c \in Few} \cup {<< <<a, b>>, <<c>> >> : a, b, c \in Few}

SYSTEM_COUNT == 4

Tokens ==
    {O!Alone("drom"), O!Negated("drom"), O!Alone("mngo"), O!Valued("preinit-pid", <<"8">>),
     O!Valued("talp", <<"mpi", "omp">>), O!Valued("debug-opts", <<"werror">>), O!Valued("shm-key", <<"a">>),
     O!Valued("lewi-affinity", <<"typo">>), O!Valued("lewi-affinity", <<"any">>), O!Valued("lewi-ompt", << >>),
     O!Valued("plugin", <<"cupti">>), O!Negated("verbose"), O!Alone("unknown")}

TokenSeqs(n) == UNION {[1 .. k -> Tokens] : k \in 0 .. n}

(* The other variables that may be set.                                    *)
OtherVariables ==
    {[v \in {} |-> << >>], [v \in {"LB_DROM", "OMP_NUM_THREADS"} |-> <<"0">>],
     [v \in {"LB_VERBOSE_FORMAT", "LB_TALP"} |-> << >>]}

Environments ==
    OtherVariables
      \cup {[v \in DOMAIN other \cup {"DLB_ARGS"} |-> IF v = "DLB_ARGS" THEN args ELSE other[v]] :
              other \in OtherVariables, args \in TokenSeqs(2)}

Starts == {[api |-> api, env |-> env, return_stolen |-> b] :
             api \in TokenSeqs(1), env \in Environments, b \in BOOLEAN}

-----------------------------------------------------------------------------
NoTopology ==
    /\ machine = NoFiles /\ sys = Topology!init_mu_struct
    /\ step = "none" /\ unread = {} /\ needs_reordering = FALSE

NoQueue == kind = "template" /\ ring = Empty(Size) /\ last = [op |-> "init", arg |-> NoArg, ret |-> NoArg, size |-> 0]

MCInit ==
    \/ subject = "queues" /\ Init /\ NoTopology /\ input = << >>
    \/ subject = "topology" /\ Topology!Init /\ NoQueue /\ input = << >>
    \/ subject = "metrics" /\ input \in Layouts /\ NoQueue /\ NoTopology
    \/ subject = "options" /\ input \in Starts /\ NoQueue /\ NoTopology

MCNext ==
    \/ subject = "queues" /\ Next /\ UNCHANGED <<subject, input, topology>>
    \/ subject = "topology" /\ Topology!Next /\ UNCHANGED <<subject, input, vars>>

MCSpec == MCInit /\ [][MCNext]_<<subject, input, vars, topology>>

-----------------------------------------------------------------------------
(* The table of cores and nodes is that of the machine, whatever the order *)
(* in which its files are read (MaskUtils).                                *)
TopologyIsTheMachine == Topology!TopologyIsTheMachine

(* The orders of CPUs that are given to qsort_r are total orders           *)
(* (MaskUtils).                                                            *)
OrdersAreTotal == Topology!OrdersAreTotal

(* The metrics of all ranks are the same however MPI groups the operands   *)
(* of its two reductions, and count CPUs and devices of a node once; and   *)
(* the efficiencies of all ranks, and of each one alone, are finite and    *)
(* the products of the factors they are split into, unless those that were *)
(* in MPI at all were there all the time: the load balance is then a       *)
(* division by zero (perf_metrics__reduce_monitor_into_base_metrics,       *)
(* perf_metrics__local_monitor_into_base_metrics,                          *)
(* perf_metrics__base_to_pop_metrics, perf_metrics__infer_mpi_model).      *)
MetricsAreExact ==
    subject = "metrics" =>
    /\ NodesAreExact(input, SYSTEM_COUNT)
    /\ RanksAreExact(input, SYSTEM_COUNT)
    /\ LET all == FlattenSeq(input)
           alone == {local_base_metrics(all[i], TRUE, Len(all), Len(input)) : i \in DOMAIN all}
       IN \A b \in base_metrics(input, SYSTEM_COUNT) \cup alone : has_metrics(b) => ModelsMultiply(b)
    /\ \A i \in DOMAIN input : InferredMultiply(input[i])

(* What DLB_DROM_PreInit leaves in the environment reaches the options of  *)
(* the process that is executed, and nothing else does (options_init).     *)
OptionsReachTheChild ==
    subject = "options" => O!ChildTakesItsPlace(input.api, input.env, input.return_stolen)

(* What is written as text says what it stands for: the masks that are     *)
(* printed, those that are read back by mu_parse_mask (MasksReadBack of    *)
(* MaskUtils), and options that are saved and restored with                *)
(* options_get_variable and options_set_variable, with the exception named *)
(* at SavedIsRestored (Options).                                           *)
TextsReadBack ==
    /\ Topology!MasksReadBack
    /\ subject = "options" => O!SavedIsRestored(input.api, input.env)
=============================================================================
