----------------------------- MODULE PopMetrics -----------------------------
(***************************************************************************)
(* The efficiency metrics of TALP (talp/perf_metrics.c) as functions: the  *)
(* reductions of the monitors of all ranks, first in every node and then   *)
(* among all, and the two hybrid models computed from their result.        *)
(*                                                                         *)
(* A fraction is a pair <<numerator, denominator>> where the code has a    *)
(* float or a double.  <<0, 0>> stands for the infinities and for what is  *)
(* not a number: what a division by zero gives, and all that is computed   *)
(* from it here (no finite number is divided by it).  Counters and numbers *)
(* of calls are summed like the times and left out.                        *)
(***************************************************************************)
EXTENDS Integers, FiniteSets, Sequences, FiniteSetsExt, SequencesExt

CONSTANT MAX_NODE_GPUS

NotFinite == <<0, 0>>
IsFinite(x) == x[2] # 0

(* A division, and one that the code makes only if the divisor is not 0.   *)
Divide(a, b) == IF b = 0 THEN NotFinite ELSE <<a, b>>
Ratio(a, b) == IF b = 0 THEN <<0, 1>> ELSE <<a, b>>

Less(x, y) == x[1] * y[2] < y[1] * x[2]
Equal(x, y) == IsFinite(x) /\ IsFinite(y) /\ x[1] * y[2] = y[1] * x[2]
Times(x, y) == <<x[1] * y[1], x[2] * y[2]>>
Over(x, y) == IF IsFinite(x) /\ IsFinite(y) THEN Divide(x[1] * y[2], x[2] * y[1]) ELSE NotFinite
Minus(n, x) == <<n * x[2] - x[1], x[2]>>
Plus(x, y) == <<x[1] * y[2] + y[1] * x[2], x[2] * y[2]>>

max_int64(a, b) == IF a > b THEN a ELSE b

-----------------------------------------------------------------------------
(* The reduction in a node *)

(* Mutant: the times of a shared GPU are added up. *)
add_gpu(gpus, g) ==
  LET known == {i \in DOMAIN gpus : gpus[i].id = g.id} IN
  IF known = {} THEN IF Len(gpus) >= MAX_NODE_GPUS THEN gpus ELSE Append(gpus, g)
  ELSE [gpus EXCEPT ![Min(known)] =
          [id |-> g.id, useful |-> @.useful + g.useful,
           communication |-> @.communication + g.communication]]

(* One device of merge_gpu_metrics: the processes that share a device see  *)
(* the same times, so the maximum is kept.                                 *)
merge_gpu(gpus, g) ==
  LET known == {i \in DOMAIN gpus : gpus[i].id = g.id} IN
  IF known = {} THEN IF Len(gpus) >= MAX_NODE_GPUS THEN gpus ELSE Append(gpus, g)
  ELSE [gpus EXCEPT ![Min(known)] =
          [id |-> g.id, useful |-> max_int64(@.useful, g.useful),
           communication |-> max_int64(@.communication, g.communication)]]

merge_gpu_metrics(inout, in) == FoldLeft(merge_gpu, inout, in)

(* mpi_node_reduction_fn: a monitor that was not used is dropped, if it is *)
(* the left operand.                                                       *)
mpi_node_reduction_fn(in, inout) ==
  IF ~in.node_used THEN inout
  ELSE [node_used |-> TRUE,
        cpus_node |-> inout.cpus_node + in.cpus_node,
        mpi_time |-> inout.mpi_time + in.mpi_time,
        mpi_worker_idle_time |-> inout.mpi_worker_idle_time + in.mpi_worker_idle_time,
        gpus |-> merge_gpu_metrics(inout.gpus, in.gpus)]

node_reduction_send(m) ==
  [node_used |-> m.num_measurements > 0, cpus_node |-> m.num_cpus, mpi_time |-> m.mpi_time,
   mpi_worker_idle_time |-> m.mpi_worker_idle_time, gpus |-> m.gpus]

(* What MPI may compute from the operands s with the associative operation *)
(* Op, for every way of putting the parentheses.                           *)
RECURSIVE Groupings(_, _)
Groupings(Op(_, _), s) ==
  IF Len(s) = 1 THEN {s[1]}
  ELSE UNION {{Op(x, y) : x \in Groupings(Op, SubSeq(s, 1, k)),
                          y \in Groupings(Op, SubSeq(s, k + 1, Len(s)))} : k \in 1 .. Len(s) - 1}

(* reduce_pop_metrics_node_reduction: no more CPUs than the node has. *)
node_reductions(monitors, system_count) ==
  {[r EXCEPT !.cpus_node = Min({@, system_count})] :
     r \in Groupings(mpi_node_reduction_fn,
                     [i \in DOMAIN monitors |-> node_reduction_send(monitors[i])])}

-----------------------------------------------------------------------------
(* The reduction among all ranks *)

min_double_non_zero(x, y) ==
  IF x[1] = 0 THEN y ELSE IF y[1] = 0 THEN x ELSE IF Less(y, x) THEN y ELSE x

Summed == {"num_cpus", "num_mpi_ranks", "num_nodes", "num_gpus", "useful_time", "mpi_time",
           "mpi_worker_idle_time", "omp_load_imbalance_time", "omp_scheduling_time",
           "omp_serialization_time", "gpu_runtime_time", "gpu_useful_time",
           "gpu_communication_time"}
Maximum == {"elapsed_time", "max_gpu_useful_time", "max_gpu_active_time"}
Minimum == {"min_mpi_normd_proc", "min_mpi_normd_node"}

mpi_reduction_fn(in, inout) ==
  [f \in Summed \cup Maximum \cup Minimum |->
     IF f \in Summed THEN inout[f] + in[f]
     ELSE IF f \in Maximum THEN max_int64(inout[f], in[f])
     ELSE min_double_non_zero(inout[f], in[f])]

gpu_sum(gpus, f) == FoldLeft(LAMBDA n, g : n + g[f], 0, gpus)

(* The operand of a rank; only the leader of a node contributes what was   *)
(* reduced in the node.                                                    *)
app_reduction_send(m, node, leader) ==
  LET used == leader /\ node.node_used IN
  [num_cpus |-> m.num_cpus,
   num_mpi_ranks |-> 1,
   num_nodes |-> IF used THEN 1 ELSE 0,
   num_gpus |-> IF used THEN Len(node.gpus) ELSE 0,
   elapsed_time |-> m.elapsed_time,
   useful_time |-> m.useful_time,
   mpi_time |-> m.mpi_time,
   mpi_worker_idle_time |-> m.mpi_worker_idle_time,
   omp_load_imbalance_time |-> m.omp_load_imbalance_time,
   omp_scheduling_time |-> m.omp_scheduling_time,
   omp_serialization_time |-> m.omp_serialization_time,
   gpu_runtime_time |-> m.gpu_runtime_time,
   min_mpi_normd_proc |-> Ratio(m.mpi_time + m.mpi_worker_idle_time, m.num_cpus),
   min_mpi_normd_node |-> IF leader THEN Ratio(node.mpi_time + node.mpi_worker_idle_time,
                                               node.cpus_node) ELSE <<0, 1>>,
   gpu_useful_time |-> IF used THEN gpu_sum(node.gpus, "useful") ELSE 0,
   gpu_communication_time |-> IF used THEN gpu_sum(node.gpus, "communication") ELSE 0,
   max_gpu_useful_time |-> gpu_sum(m.gpus, "useful"),
   max_gpu_active_time |-> gpu_sum(m.gpus, "useful") + gpu_sum(m.gpus, "communication")]

(* perf_metrics__reduce_monitor_into_base_metrics: nodes is a sequence of  *)
(* nodes, each a sequence of monitors, and the operation among all ranks   *)
(* is commutative.                                                         *)
base_metrics(nodes, system_count) ==
  LET reduced == [i \in DOMAIN nodes |-> CHOOSE r \in node_reductions(nodes[i], system_count) : TRUE]
      sends == [i \in DOMAIN nodes |->
                  [j \in DOMAIN nodes[i] |-> app_reduction_send(nodes[i][j], reduced[i], j = 1)]]
  IN Groupings(mpi_reduction_fn, FlattenSeq(sends))

(* perf_metrics__local_monitor_into_base_metrics: a process that uses MPI  *)
(* gives the numbers of all its ranks and nodes, _mpi_size and _num_nodes. *)
local_base_metrics(m, have_mpi, mpi_size, num_nodes) ==
  LET mpi_normd == Divide(m.mpi_time + m.mpi_worker_idle_time, m.num_cpus) IN
  [app_reduction_send(m, node_reduction_send(m), TRUE) EXCEPT
     !.num_mpi_ranks = IF have_mpi THEN mpi_size ELSE 0,
     !.num_nodes = IF have_mpi THEN num_nodes ELSE 1,
     !.num_gpus = Len(m.gpus),
     !.gpu_useful_time = gpu_sum(m.gpus, "useful"),
     !.gpu_communication_time = gpu_sum(m.gpus, "communication"),
     !.min_mpi_normd_proc = mpi_normd,
     !.min_mpi_normd_node = mpi_normd]

-----------------------------------------------------------------------------
(* The metrics *)

non_omp(b) == b.useful_time + b.mpi_time + b.gpu_runtime_time
omp_not_useful(b) ==
  b.omp_load_imbalance_time + b.omp_scheduling_time + b.omp_serialization_time
sum_active(b) == non_omp(b) + omp_not_useful(b)

(* What both versions have in common; app is the time in MPI per CPU. *)
hybrid_model(b, app) ==
  LET max_proc == Minus(b.elapsed_time, b.min_mpi_normd_proc)
      max_node == Minus(b.elapsed_time, b.min_mpi_normd_node)
      ser == non_omp(b) + b.omp_serialization_time
  IN
  [parallel_efficiency |-> Divide(b.useful_time, sum_active(b)),
   mpi_load_balance |-> Over(Minus(b.elapsed_time, app), max_proc),
   mpi_load_balance_in |-> Over(max_node, max_proc),
   mpi_load_balance_out |-> Over(Minus(b.elapsed_time, app), max_node),
   omp_parallel_efficiency |-> Divide(non_omp(b), sum_active(b)),
   omp_load_balance |-> Divide(ser, ser + b.omp_load_imbalance_time),
   omp_scheduling_efficiency |-> Divide(ser + b.omp_load_imbalance_time,
                                        ser + b.omp_load_imbalance_time + b.omp_scheduling_time),
   omp_serialization_efficiency |-> Divide(non_omp(b), ser),
   gpu_parallel_efficiency |-> Ratio(b.gpu_useful_time, b.elapsed_time * b.num_gpus),
   gpu_load_balance |-> Ratio(b.gpu_useful_time, b.max_gpu_useful_time * b.num_gpus),
   gpu_communication_efficiency |-> Ratio(b.max_gpu_useful_time, b.max_gpu_active_time),
   gpu_orchestration_efficiency |-> IF b.num_gpus = 0 THEN <<0, 1>>
                                    ELSE Ratio(b.max_gpu_active_time, b.elapsed_time),
   mpi_communication_efficiency |-> Over(max_proc, Plus(Minus(b.elapsed_time, app), app)),
   mpi_parallel_efficiency |-> Divide(b.useful_time, b.useful_time + b.mpi_time),
   device_offload_efficiency |-> Divide(sum_active(b) - b.gpu_runtime_time, sum_active(b))]

compute_hybrid_model_v1(b) == hybrid_model(b, Divide(b.mpi_time, b.num_cpus))

compute_hybrid_model_v2(b) ==
  LET app == Divide(b.mpi_time + b.mpi_worker_idle_time, b.num_cpus)
      rest == b.useful_time + omp_not_useful(b)
  IN [hybrid_model(b, app) EXCEPT
       !.mpi_communication_efficiency =
          Over(Minus(b.elapsed_time, b.min_mpi_normd_proc), <<b.elapsed_time, 1>>),
       !.mpi_parallel_efficiency = Over(Minus(b.elapsed_time, app), <<b.elapsed_time, 1>>),
       !.device_offload_efficiency = Divide(rest, rest + b.gpu_runtime_time)]

(* perf_metrics__base_to_pop_metrics computes them only if there is useful *)
(* time.                                                                   *)
has_metrics(b) == b.useful_time > 0

(* perf_metrics__infer_mpi_model, from the totals of a node *)
infer_mpi_model(processes, sum_useful, sum_mpi, max_useful) ==
  LET elapsed == (sum_useful + sum_mpi) \div processes IN
  IF elapsed = 0 THEN [parallel_efficiency |-> <<0, 1>>, communication_efficiency |-> <<0, 1>>,
                       load_balance |-> <<0, 1>>]
  ELSE [parallel_efficiency |-> Ratio(sum_useful, sum_useful + sum_mpi),
        communication_efficiency |-> Ratio(max_useful, elapsed),
        load_balance |-> Divide(sum_useful, processes * max_useful)]

-----------------------------------------------------------------------------
(* What the reductions and the metrics must satisfy *)

(* What the reduction in a node should give: the sums, with no more CPUs   *)
(* than the node has, and every device with its longest times.             *)
NodeReference(monitors, system_count) ==
  LET sum(f) == FoldLeft(LAMBDA n, m : n + m[f], 0, monitors)
      devices == UNION {Range(monitors[i].gpus) : i \in DOMAIN monitors}
      longest(id, f) == Max({g[f] : g \in {g \in devices : g.id = id}})
  IN
  [node_used |-> \E i \in DOMAIN monitors : monitors[i].num_measurements > 0,
   cpus_node |-> Min({sum("num_cpus"), system_count}),
   mpi_time |-> sum("mpi_time"), mpi_worker_idle_time |-> sum("mpi_worker_idle_time"),
   gpus |-> {[id |-> id, useful |-> longest(id, "useful"),
              communication |-> longest(id, "communication")] : id \in {g.id : g \in devices}}]

(* However MPI groups the operands, every node obtains the reference.      *)
NodesAreExact(nodes, system_count) ==
  \A i \in DOMAIN nodes :
    {[r EXCEPT !.gpus = Range(@)] : r \in node_reductions(nodes[i], system_count)}
      = {NodeReference(nodes[i], system_count)}

(* However MPI groups the operands, the result is the same; a device       *)
(* counts once, and the minimum is that of a rank that was in MPI.         *)
RanksAreExact(nodes, system_count) ==
  LET all == FlattenSeq(nodes)
      used == {i \in DOMAIN nodes : NodeReference(nodes[i], system_count).node_used}
      normd == {Ratio(all[i].mpi_time + all[i].mpi_worker_idle_time, all[i].num_cpus) :
                  i \in DOMAIN all}
      results == base_metrics(nodes, system_count)
  IN
  /\ \A r, q \in results : \A f \in Summed \cup Maximum : r[f] = q[f]
  /\ \A r \in results :
       /\ r.num_mpi_ranks = Len(all) /\ r.num_nodes = Cardinality(used)
       /\ r.num_gpus = MapThenSumSet(LAMBDA i : Cardinality(NodeReference(nodes[i], system_count).gpus),
                                     used)
       /\ \A x \in normd : x[1] # 0 => ~Less(x, r.min_mpi_normd_proc)
       /\ (\E x \in normd : x[1] # 0) => \E x \in normd : x[1] # 0 /\ Equal(x, r.min_mpi_normd_proc)

(* Both versions split the efficiency of OpenMP, the load balance of MPI   *)
(* where its factors are finite and, if there are devices, their           *)
(* efficiency into exact factors.                                          *)
FactorsMultiply(v) ==
  /\ Equal(v.omp_parallel_efficiency,
           Times(Times(v.omp_load_balance, v.omp_scheduling_efficiency),
                 v.omp_serialization_efficiency))
  /\ IsFinite(v.mpi_load_balance) /\ IsFinite(v.mpi_load_balance_out) =>
       Equal(v.mpi_load_balance, Times(v.mpi_load_balance_in, v.mpi_load_balance_out))
  /\ v.gpu_load_balance[1] # 0 =>
       Equal(v.gpu_parallel_efficiency,
             Times(Times(v.gpu_load_balance, v.gpu_communication_efficiency),
                   v.gpu_orchestration_efficiency))

(* The divisors of the load balance of MPI are not 0.                      *)
SomeoneOutOfMPI(b) ==
  /\ b.num_cpus > 0
  /\ Less(b.min_mpi_normd_proc, <<b.elapsed_time, 1>>)
  /\ Less(b.min_mpi_normd_node, <<b.elapsed_time, 1>>)

(* Version 1 splits the parallel efficiency if no device was used, and     *)
(* version 2 the efficiency of MPI.  All metrics are finite, unless the    *)
(* processes or the nodes that were in MPI at all were there all the time: *)
(* those that never were do not count in the minimum.                      *)
ModelsMultiply(b) ==
  LET v1 == compute_hybrid_model_v1(b)
      v2 == compute_hybrid_model_v2(b)
  IN
  /\ FactorsMultiply(v1) /\ FactorsMultiply(v2)
  /\ b.gpu_runtime_time = 0 =>
       Equal(v1.parallel_efficiency, Times(v1.mpi_parallel_efficiency, v1.omp_parallel_efficiency))
  /\ IsFinite(v2.mpi_load_balance) =>
       Equal(v2.mpi_parallel_efficiency, Times(v2.mpi_load_balance, v2.mpi_communication_efficiency))
  /\ SomeoneOutOfMPI(b) => \A v \in {v1, v2} : \A f \in DOMAIN v : IsFinite(v[f])

(* The metrics that are inferred for a node are those factors too, if the  *)
(* time is a multiple of the number of processes.                          *)
InferredMultiply(monitors) ==
  LET active == SelectSeq(monitors, LAMBDA m : m.mpi_time > 0 \/ m.useful_time > 0)
      sum(f) == FoldLeft(LAMBDA n, m : n + m[f], 0, active)
      longest == FoldLeft(LAMBDA n, m : max_int64(n, m.useful_time), 0, active)
      v == infer_mpi_model(Len(active), sum("useful_time"), sum("mpi_time"), longest)
  IN (sum("useful_time") > 0 /\ (sum("useful_time") + sum("mpi_time")) % Len(active) = 0)
       => Equal(v.parallel_efficiency, Times(v.communication_efficiency, v.load_balance))
=============================================================================
