-------------------------------- MODULE Talp --------------------------------
(***************************************************************************)
(* The time accounting of TALP in one process: talp/sample.c,              *)
(* talp/regions.c, talp/talp.c, and the event handlers of                  *)
(* talp/talp_openmp.c, talp/talp_mpi.c, talp/talp_gpu.c and                *)
(* talp/talp_hwc.c.                                                        *)
(*                                                                         *)
(* Every thread accumulates time in its own sample, by the state it is in. *)
(* The main thread, in sequential code, adds up the samples of all threads *)
(* into every open region and starts a new generation; a thread whose      *)
(* sample is of an older generation resets it the next time it updates it. *)
(* The OpenMP runtime that raises the events is external: a team of        *)
(* threads runs a parallel region, each of them may enter and leave MPI    *)
(* and GPU calls and synchronisations, and waits at the implicit barrier;  *)
(* whether it tells of the end of its implicit task before the next        *)
(* parallel region is up to the runtime.                                   *)
(*                                                                         *)
(* The hardware counter of a thread advances with the clock and stands for *)
(* cycles and instructions.  The event counts (num_mpi_calls and so on)    *)
(* and the times of the GPU devices travel with the timers and are left    *)
(* out, and so are the masks and numbers of CPUs of a region.  Every       *)
(* thread stays on a CPU of its own.                                       *)
(***************************************************************************)
EXTENDS Integers, FiniteSets, Sequences, FiniteSetsExt, SequencesExt

CONSTANTS
  Main,        \* the thread that initialises DLB
  Workers,     \* the other threads of the OpenMP runtime
  Global,      \* the global region
  Regions,     \* the regions of the user
  num_cpus,    \* CPUs in the initial process mask
  Enabled,     \* the sets of regions that --talp-region-select may enable
  Configs,     \* the configurations: which of openmp, mpi, gpu, external_profiler,
               \* and whether threads synchronise, regions are reset or opened by
               \* single threads, and parallel regions nested
  Callers,     \* the threads that make MPI and GPU calls
  LocalUsers,  \* the threads that open regions inside parallel regions
  Used,        \* the regions that the program itself starts, stops and resets
  MaxTime,     \* bound on the clock
  MaxLocal,    \* bound on the measures of a region by single threads
  MaxDepth     \* bound on the nesting of parallel regions

ASSUME TalpAssumption ==
  /\ Main \notin Workers /\ Global \notin Regions
  /\ IsFiniteSet(Workers)
  /\ num_cpus \in Nat \ {0} /\ MaxTime \in Nat /\ MaxLocal \in Nat /\ MaxDepth \in Nat
  /\ Enabled \subseteq SUBSET (Regions \cup {Global})
  /\ Configs \subseteq SUBSET {"openmp", "mpi", "gpu", "external_profiler", "sync", "reset",
                               "local", "nested"}
  /\ Used \subseteq Regions \cup {Global}
  /\ Callers \cup LocalUsers \subseteq Workers \cup {Main}

VARIABLES
  clock,     \* get_time_in_ns()
  phase,     \* "off", "on", or "done" once finalized
  config,    \* the components this process will use
  flags,     \* talp_info->flags
  role,      \* role[t]: thread_role
  sample,    \* sample[t]: the sample in the thread-local storage of t
  registry,  \* the threads whose sample is in sample_registry
  current_generation_ts,
  monitor,   \* monitor[r]: the dlb_monitor_t of region r, with its private data
  open,      \* open_regions, innermost first
  local,     \* local[t]: local_regions of thread t
  team,      \* the parallel regions being run, outermost first
  due        \* history: the time region r has to account for

vars == <<clock, phase, config, flags, role, sample, registry, current_generation_ts,
          monitor, open, local, team, due>>

Thread == Workers \cup {Main}
Region == Regions \cup {Global}

TalpState == {"disabled", "useful", "mpi", "omp_in", "omp_out", "gpu"}

(* The timers of a sample: sample_timers_t, and the hardware counters.     *)
(* A macrosample and a monitor have all of them but omp_in; they call      *)
(* during_mpi mpi_worker_idle_time, omp_in_lb omp_load_imbalance_time,     *)
(* omp_in_sched omp_scheduling_time and omp_out omp_serialization_time.    *)
Timer == {"useful", "mpi", "during_mpi", "omp_in", "omp_in_lb", "omp_in_sched",
          "omp_out", "gpu", "cycles"}

(* The times that make up the time of the CPUs. *)
CpuTime == Timer \ {"omp_in", "during_mpi", "cycles"}

NoTime == [k \in Timer |-> 0]

NoSample ==
  [state |-> "disabled", timers |-> NoTime, last_updated_ts |-> 0, generation_ts |-> 0,
   last_parallel_end_ts |-> 0, cpu_mask |-> {}, active |-> FALSE, last_raw |-> 0,
   allocated |-> FALSE]

NewMonitor(enabled) ==
  [enabled |-> enabled, started |-> FALSE, start_time |-> 0,
   elapsed_time |-> 0, times |-> NoTime]

Init ==
  /\ clock = 1
  /\ phase = "off"
  /\ config \in Configs
  /\ flags = config \cap {"gpu", "external_profiler"}
  /\ role = [t \in Thread |-> "unknown"]
  /\ sample = [t \in Thread |-> NoSample]
  /\ registry = {}
  /\ current_generation_ts = 0
  /\ \E e \in Enabled : monitor = [r \in Region |-> NewMonitor(r \in e)]
  /\ open = <<>>
  /\ local = [t \in Thread |-> <<>>]
  /\ team = <<>>
  /\ due = [r \in Region |-> [time |-> 0, exact |-> TRUE, local |-> 0]]

thread_is_main(t) == role[t] \in {"main_sequential", "main_parallel"}
thread_is_main_sequential(t) == role[t] = "main_sequential"
thread_is_parallel(t) == role[t] \in {"main_parallel", "worker"}
thread_is_profiled(t) == thread_is_main(t) \/ role[t] = "worker"

-----------------------------------------------------------------------------
(* Hardware counters and samples, as functions of a sample s of thread t *)

(* talp_hwc_on_state_change: the counter is read when the thread becomes useful. *)
hwc_on_state_change(s, state) ==
  IF s.state # "useful" /\ state = "useful"
  THEN [s EXCEPT !.active = TRUE, !.last_raw = clock]
  ELSE IF s.state = "useful" /\ state # "useful"
  THEN [s EXCEPT !.active = FALSE]
  ELSE s

set_state(s, state) == [hwc_on_state_change(s, state) EXCEPT !.state = state]

record_cpuid(s, t) == [s EXCEPT !.cpu_mask = @ \cup {t}]

reset_sample(s, t) == [s EXCEPT !.timers = NoTime, !.cpu_mask = {t}]

ensure_generation(s, t) ==
  IF s.generation_ts < current_generation_ts
  THEN [reset_sample(s, t) EXCEPT !.generation_ts = current_generation_ts,
                                  !.last_updated_ts = current_generation_ts]
  ELSE s

(* The time each timer gets for a stretch of d in a state. *)
microsample(t, state, d) ==
  [NoTime EXCEPT
    ![state] = d,
    !["during_mpi"] = IF /\ state = "mpi"
                         /\ thread_is_main_sequential(t)
                         /\ "openmp" \in flags
                      THEN d * (num_cpus - 1) ELSE 0]

Add(f, g) == [k \in Timer |-> f[k] + g[k]]
Sub(f, g) == [k \in Timer |-> f[k] - g[k]]

(* talp_hwc_collect: what the counter advanced since it was last read. *)
hwc_collect(s) == [NoTime EXCEPT !["cycles"] = IF s.active THEN clock - s.last_raw ELSE 0]

talp_sample_update(s, t) ==
  LET f == ensure_generation(s, t)
      d == clock - f.last_updated_ts
      m == IF f.state = "disabled" THEN NoTime ELSE microsample(t, f.state, d)
  IN [f EXCEPT !.timers = Add(Add(@, m), hwc_collect(f)),
               !.last_updated_ts = clock,
               !.last_raw = IF f.active THEN clock ELSE @]

(* talp_sample_get of a thread that has none: mid-region, it counts from   *)
(* the start of the innermost open region.                                 *)
talp_sample_get ==
  [NoSample EXCEPT
    !.allocated = TRUE,
    !.last_updated_ts = IF open # <<>> THEN monitor[Head(open)].start_time ELSE clock]

(* The sample after an event that updates it and changes the state. *)
after(t, state) == set_state(talp_sample_update(sample[t], t), state)

-----------------------------------------------------------------------------
(* Aggregation, by the main thread *)

(* Mutant: the whole generation is added for a stopped thread. *)
stopped_time_of_generation(s, now) ==
  IF s.state \in {"omp_in", "omp_out"} THEN now - current_generation_ts ELSE 0

(* The time out of parallel code that a thread has not counted by itself. *)
stopped_time(s, now) ==
  IF s.state \in {"omp_in", "omp_out"}
  THEN Min({now - current_generation_ts, now - s.last_parallel_end_ts})
  ELSE 0

(* What thread t adds to the macrosample of the main thread. *)
contribution(smp, t, now) ==
  IF t = Main THEN smp[t].timers
  ELSE [(IF smp[t].generation_ts < current_generation_ts THEN NoTime ELSE smp[t].timers)
          EXCEPT !["omp_out"] = @ + stopped_time(smp[t], now)]

(* talp_sample_aggregate_all_to_macrosample *)
macrosample(smp, now) ==
  [k \in Timer |-> IF k = "omp_in" THEN 0
                   ELSE FoldSet(LAMBDA t, n : contribution(smp, t, now)[k] + n, 0, registry)]

(* The threads whose samples are added up, and whose mask must not be empty. *)
aggregated(smp) ==
  {t \in registry : t = Main \/ smp[t].generation_ts >= current_generation_ts}

(* update_regions_with_macrosample *)
update_region(m, macro) == [m EXCEPT !.times = Add(@, macro)]

(* The monitors after talp_aggregate_samples_to_regions with samples smp. *)
aggregate(smp) ==
  LET now == smp[Main].last_updated_ts
      macro == macrosample(smp, now)
  IN [r \in Region |-> IF r \in Range(open) THEN update_region(monitor[r], macro)
                       ELSE monitor[r]]

(* The sample of the main thread once it has been aggregated. *)
next_generation(s) == [reset_sample(s, Main) EXCEPT !.generation_ts = s.last_updated_ts]

(* The main thread updates its sample and aggregates all of them; f gives  *)
(* the monitors their further changes.                                     *)
update_and_aggregate(f(_)) ==
  LET smp == [sample EXCEPT ![Main] = talp_sample_update(@, Main)] IN
  /\ monitor' = f(aggregate(smp))
  /\ sample' = [smp EXCEPT ![Main] = next_generation(@)]
  /\ current_generation_ts' = smp[Main].last_updated_ts

-----------------------------------------------------------------------------
(* Regions *)

(* The main thread runs sequential user code, or thread t the code of a    *)
(* parallel region.                                                        *)
in_user_code(t) ==
  /\ phase = "on"
  /\ thread_is_profiled(t)
  /\ sample[t].state = "useful"
  /\ \/ thread_is_main_sequential(t)
     \/ /\ team # <<>>
        /\ t \in Last(team).begun \ Last(team).waiting

started(m) == [m EXCEPT !.started = TRUE, !.start_time = clock]

stopped(m) ==
  [m EXCEPT !.started = FALSE, !.elapsed_time = @ + clock - m.start_time]

(* The samples go to the regions that are already open. *)
start_and_aggregate(r) ==
  /\ update_and_aggregate(LAMBDA mons : [mons EXCEPT ![r] = started(@)])
  /\ open' = <<r>> \o open

can_start(r) == ~monitor[r].started /\ monitor[r].enabled

(* region_start of the main thread in sequential code *)
region_start(r) ==
  /\ in_user_code(Main) /\ thread_is_main_sequential(Main)
  /\ can_start(r)
  /\ start_and_aggregate(r)
  /\ UNCHANGED <<clock, phase, config, flags, role, registry, local, team, due>>

stop_and_aggregate(r) ==
  /\ update_and_aggregate(LAMBDA mons : [mons EXCEPT ![r] = stopped(@)])
  /\ open' = Remove(open, r)

(* region_stop, of a region or of the last open one *)
region_stop(r) ==
  /\ in_user_code(Main) /\ thread_is_main_sequential(Main)
  /\ monitor[r].started
  /\ stop_and_aggregate(r)
  /\ UNCHANGED <<clock, phase, config, flags, role, registry, local, team, due>>

(* region_reset: a started region is closed, and nothing is aggregated. *)
region_reset(r) ==
  /\ "reset" \in config
  /\ in_user_code(Main) /\ thread_is_main_sequential(Main)
  /\ monitor' = [monitor EXCEPT ![r] = NewMonitor(@.enabled)]
  /\ open' = Remove(open, r)
  /\ due' = [due EXCEPT ![r] = [time |-> 0, exact |-> TRUE, local |-> 0]]
  /\ UNCHANGED <<clock, phase, config, flags, role, sample, registry, current_generation_ts,
                 local, team>>

(* region_start_thread: the entry keeps the timers but no timestamp; at is *)
(* the time it was opened, which only the properties read.                 *)
region_start_thread(t, r) ==
  /\ in_user_code(t) /\ thread_is_parallel(t)
  /\ "local" \in config /\ t \in LocalUsers
  /\ r # Global
  /\ can_start(r)
  /\ Len(local[t]) < MaxLocal /\ due[r].local < MaxLocal
  /\ LET s == talp_sample_update(sample[t], t) IN
     /\ sample' = [sample EXCEPT ![t] = s]
     /\ local' = [local EXCEPT ![t] =
                    <<[monitor |-> r, timers |-> s.timers, last_updated_ts |-> 0,
                       at |-> clock]>> \o @]
  /\ UNCHANGED <<clock, phase, config, flags, role, registry, current_generation_ts, monitor,
                 open, team, due>>

(* talp_aggregate_sample_to_region: all of omp_in goes to omp_in_sched. *)
aggregate_sample_to_region(m, delta, elapsed) ==
  [m EXCEPT
    !.times = Add(@, [NoTime EXCEPT !["useful"] = delta["useful"], !["mpi"] = delta["mpi"],
                                    !["omp_in_sched"] = delta["omp_in"],
                                    !["gpu"] = delta["gpu"], !["cycles"] = delta["cycles"]]),
    !.elapsed_time = @ + elapsed]

(* region_stop_thread, of the innermost local region for r *)
region_stop_thread(t, r) ==
  LET mine == {i \in DOMAIN local[t] : local[t][i].monitor = r}
      e == local[t][Min(mine)]
      s == talp_sample_update(sample[t], t)
  IN
  /\ in_user_code(t) /\ thread_is_parallel(t)
  /\ r # Global
  /\ mine # {}
  /\ sample' = [sample EXCEPT ![t] = s]
  /\ monitor' = [monitor EXCEPT ![r] =
                   aggregate_sample_to_region(@, Sub(s.timers, e.timers),
                                              s.last_updated_ts - e.last_updated_ts)]
  /\ local' = [local EXCEPT ![t] = RemoveAt(@, Min(mine))]
  /\ due' = [due EXCEPT ![r].exact = FALSE, ![r].local = @ + 1]
  /\ UNCHANGED <<clock, phase, config, flags, role, registry, current_generation_ts, open, team>>

-----------------------------------------------------------------------------
(* Initialization and finalization *)

(* talp_init: the main thread gets a useful sample and starts the global region. *)
talp_init ==
  /\ phase = "off"
  /\ phase' = "on"
  /\ role' = [role EXCEPT ![Main] = "main_sequential"]
  /\ registry' = {Main}
  /\ LET s == set_state(record_cpuid(talp_sample_get, Main), "useful") IN
     IF monitor[Global].enabled
     THEN /\ sample' = [sample EXCEPT ![Main] = next_generation([s EXCEPT !.last_updated_ts = clock])]
          /\ monitor' = [monitor EXCEPT ![Global] = started(@)]
          /\ open' = <<Global>>
          /\ current_generation_ts' = clock
     ELSE /\ sample' = [sample EXCEPT ![Main] = s]
          /\ UNCHANGED <<monitor, open, current_generation_ts>>
  /\ UNCHANGED <<clock, config, flags, local, team, due>>

(* talp_openmp_init, talp_mpi_init: the global region is started if it is not. *)
talp_component_init(component) ==
  /\ in_user_code(Main) /\ thread_is_main_sequential(Main)
  /\ component \in config \ flags
  /\ flags' = flags \cup {component}
  /\ IF can_start(Global)
     THEN start_and_aggregate(Global)
     ELSE UNCHANGED <<monitor, sample, open, current_generation_ts>>
  /\ UNCHANGED <<clock, phase, config, role, registry, local, team, due>>

talp_openmp_init == talp_component_init("openmp")
talp_mpi_init == talp_component_init("mpi")

(* talp_finalize stops the open regions one by one; here at one instant. *)
talp_finalize ==
  /\ in_user_code(Main) /\ thread_is_main_sequential(Main)
  /\ phase' = "done"
  /\ IF open = <<>>
     THEN UNCHANGED <<monitor, current_generation_ts>>
     ELSE LET smp == [sample EXCEPT ![Main] = talp_sample_update(@, Main)] IN
          /\ monitor' = [r \in Region |-> IF r \in Range(open) THEN stopped(aggregate(smp)[r])
                                          ELSE monitor[r]]
          /\ current_generation_ts' = clock
  /\ open' = <<>>
  /\ registry' = {}
  /\ sample' = [sample EXCEPT ![Main] = NoSample]
  /\ UNCHANGED <<clock, config, flags, role, local, team, due>>

-----------------------------------------------------------------------------
(* OpenMP events *)

Members == UNION {team[i].members : i \in DOMAIN team}

Innermost == Last(team)
WithInnermost(d) == [team EXCEPT ![Len(team)] = d]

unchanged_but_sample == <<clock, phase, config, flags, role, registry, current_generation_ts,
                          monitor, open, local, due>>

(* parallel-begin: t asks for a team with the threads S.  The array of     *)
(* samples of the team is as large as the team.                            *)
talp_openmp_parallel_begin(t, S) ==
  /\ in_user_code(t)
  /\ "openmp" \in flags
  /\ Len(team) < IF "nested" \in config THEN MaxDepth ELSE 1
  /\ S \subseteq {w \in Workers \ Members : role[w] # "ended"}
  /\ team' = Append(team, [primary |-> t, members |-> S \cup {t}, begun |-> {}, waiting |-> {},
                           previous_not_useful_omp_in |-> 0])
  /\ role' = IF team = <<>> THEN [role EXCEPT ![t] = "main_parallel"] ELSE role
  /\ UNCHANGED <<clock, phase, config, flags, sample, registry, current_generation_ts, monitor,
                 open, local, due>>

(* native-thread-begin: the regions other than the innermost are given the *)
(* time from their start to that of the innermost.                         *)
talp_openmp_thread_begin(t) ==
  /\ team # <<>> /\ t \in Innermost.members
  /\ role[t] = "unknown"
  /\ role' = [role EXCEPT ![t] = "worker"]
  /\ registry' = registry \cup {t}
  /\ sample' = [sample EXCEPT ![t] = set_state(talp_sample_get, "omp_out")]
  /\ monitor' = [r \in Region |->
                   IF open # <<>> /\ r \in Range(Tail(open))
                   THEN [monitor[r] EXCEPT !.times["omp_out"] =
                           @ + talp_sample_get.last_updated_ts - monitor[r].start_time]
                   ELSE monitor[r]]
  /\ due' = [r \in Region |->
               IF r \in Range(open)
               THEN [due[r] EXCEPT
                       !.time = @ + clock - monitor[r].start_time,
                       !.exact = /\ @
                                 /\ monitor[Head(open)].start_time = current_generation_ts]
               ELSE due[r]]
  /\ UNCHANGED <<clock, phase, config, flags, current_generation_ts, open, local, team>>

(* What a worker has waited at the end of its last parallel region was     *)
(* counted by the primary thread.                                          *)
from_parallel_end(s) ==
  [s EXCEPT !.last_updated_ts = Max({@, s.last_parallel_end_ts})]

(* implicit-task-begin; index 0 is the primary thread *)
talp_openmp_into_parallel_function(t) ==
  LET primary == t = Innermost.primary
      s == IF primary THEN sample[t] ELSE from_parallel_end(sample[t])
  IN
  /\ team # <<>>
  /\ t \in Innermost.members \ Innermost.begun
  /\ sample[t].state = IF primary THEN "useful" ELSE "omp_out"
  /\ sample' = [sample EXCEPT ![t] =
       set_state(record_cpuid(talp_sample_update([s EXCEPT !.timers["omp_in"] = 0], t), t),
                 "useful")]
  /\ team' = WithInnermost(
       [Innermost EXCEPT !.begun = @ \cup {t},
                         !.previous_not_useful_omp_in =
                            IF primary /\ Len(team) > 1 THEN s.timers["omp_in"] ELSE @])
  /\ UNCHANGED unchanged_but_sample

(* implicit-task-end: only the state changes. *)
talp_openmp_outof_parallel_function(t) ==
  /\ phase = "on"
  /\ t \in Workers /\ sample[t].state = "omp_in"
  /\ \A i \in DOMAIN team : t \in team[i].members =>
       /\ i = Len(team) /\ t # team[i].primary
       /\ team[i].waiting = team[i].members
  /\ sample' = [sample EXCEPT ![t] = set_state(@, "omp_out")]
  /\ UNCHANGED unchanged_but_sample
  /\ UNCHANGED team

(* implicit-barrier-begin at the end of the parallel region *)
talp_openmp_into_parallel_implicit_barrier(t) ==
  /\ in_user_code(t) /\ thread_is_parallel(t)
  /\ sample' = [sample EXCEPT ![t] = after(t, "omp_in")]
  /\ team' = WithInnermost([Innermost EXCEPT !.waiting = @ \cup {t}])
  /\ UNCHANGED unchanged_but_sample

(* The begin of a barrier, a taskwait or a taskgroup, or the end of a task. *)
talp_openmp_into_parallel_sync(t) ==
  /\ "sync" \in config
  /\ team # <<>> /\ t \in Innermost.begun
  /\ sample[t].state = "useful"
  /\ sample' = [sample EXCEPT ![t] = after(t, "omp_in")]
  /\ UNCHANGED unchanged_but_sample
  /\ UNCHANGED team

(* The end of a synchronisation, or a task that starts within one. *)
talp_openmp_outof_parallel_sync(t) ==
  /\ team # <<>> /\ t \in Innermost.begun
  /\ sample[t].state = "omp_in"
  /\ sample' = [sample EXCEPT ![t] = after(t, "useful")]
  /\ UNCHANGED unchanged_but_sample
  /\ UNCHANGED team

(* compute_parallel_not_useful: the time in OpenMP that all threads of the *)
(* team have is scheduling, the rest is load imbalance.                    *)
parallel_not_useful(smp, members) ==
  LET omp_in(t) == smp[t].timers["omp_in"] + clock - smp[t].last_updated_ts
      least == Min({omp_in(t) : t \in members})
  IN [NoTime EXCEPT
       !["omp_in_sched"] = least * Cardinality(members),
       !["omp_in_lb"] = FoldSet(LAMBDA t, n : omp_in(t) - least + n, 0, members)]

(* parallel-end *)
talp_openmp_parallel_end ==
  LET d == Innermost
      p == d.primary
      smp == [sample EXCEPT ![p] = talp_sample_update(@, p)]
      s == set_state([smp[p] EXCEPT !.timers = Add(@, parallel_not_useful(smp, d.members))],
                     "useful")
  IN
  /\ team # <<>>
  /\ d.waiting = d.members
  /\ \A t \in d.members : sample[t].state \in {"omp_in", "omp_out"}
  /\ sample' = [t \in Thread |->
       IF t = p
       THEN IF Len(team) > 1
            THEN [s EXCEPT !.timers["omp_in"] = d.previous_not_useful_omp_in] ELSE s
       ELSE IF t \in d.members THEN [sample[t] EXCEPT !.last_parallel_end_ts = clock]
       ELSE sample[t]]
  /\ role' = IF Len(team) = 1 THEN [role EXCEPT ![p] = "main_sequential"] ELSE role
  /\ team' = Front(team)
  /\ UNCHANGED <<clock, phase, config, flags, registry, current_generation_ts, monitor, open,
                 local, due>>

(* native-thread-end of a thread that runs in no team.  What it waited at  *)
(* the end of its last parallel region is counted a second time unless the *)
(* generation has changed since.                                           *)
talp_openmp_thread_end(t) ==
  /\ phase = "on"
  /\ t \in Workers \ Members
  /\ role[t] = "worker"
  /\ sample[t].state = "omp_out"
  /\ role' = [role EXCEPT ![t] = "ended"]
  /\ sample' = [sample EXCEPT ![t] = after(t, "disabled")]
  /\ due' = [r \in Region |->
               IF r \in Range(open) /\ sample[t].last_updated_ts < sample[t].last_parallel_end_ts
               THEN [due[r] EXCEPT !.exact = FALSE] ELSE due[r]]
  /\ UNCHANGED <<clock, phase, config, flags, registry, current_generation_ts, monitor, open,
                 local, team>>

-----------------------------------------------------------------------------
(* MPI and GPU calls *)

(* talp_into_sync_call, talp_gpu_enter_runtime *)
into_call(t, component) ==
  /\ in_user_code(t)
  /\ t \in Callers
  /\ component \in flags
  /\ sample' = [sample EXCEPT ![t] = after(t, component)]
  /\ UNCHANGED unchanged_but_sample
  /\ UNCHANGED team

talp_into_sync_call(t) == into_call(t, "mpi")
talp_gpu_enter_runtime(t) == into_call(t, "gpu")

(* With an external profiler the main thread updates the regions at the    *)
(* end of a call, of MPI calls if they are blocking and collective.        *)
out_of_call(t, component, update) ==
  /\ phase = "on"
  /\ sample[t].state = component
  /\ IF update /\ "external_profiler" \in flags /\ thread_is_main_sequential(t)
     THEN LET smp == [sample EXCEPT ![t] = after(t, "useful")] IN
          /\ monitor' = aggregate(smp)
          /\ sample' = [smp EXCEPT ![t] = next_generation(@)]
          /\ current_generation_ts' = smp[t].last_updated_ts
     ELSE /\ sample' = [sample EXCEPT ![t] = after(t, "useful")]
          /\ UNCHANGED <<monitor, current_generation_ts>>
  /\ UNCHANGED <<clock, phase, config, flags, role, registry, open, local, team, due>>

talp_out_of_sync_call(t) ==
  \E blocking_collective \in BOOLEAN : out_of_call(t, "mpi", blocking_collective)

talp_gpu_exit_runtime(t) == out_of_call(t, "gpu", TRUE)

(* Time passes, and every open region has to account for all live threads. *)
Tick ==
  /\ phase = "on"
  /\ clock < MaxTime
  /\ clock' = clock + 1
  /\ due' = [r \in Region |->
               IF r \in Range(open)
               THEN [due[r] EXCEPT !.time =
                       @ + Cardinality({t \in registry : role[t] # "ended"})]
               ELSE due[r]]
  /\ UNCHANGED <<phase, config, flags, role, sample, registry, current_generation_ts, monitor,
                 open, local, team>>

Next ==
  \/ Tick
  \/ talp_init
  \/ talp_openmp_init
  \/ talp_mpi_init
  \/ talp_finalize
  \/ \E r \in Used :
       \/ region_start(r)
       \/ region_stop(r)
       \/ region_reset(r)
       \/ \E t \in Thread : region_start_thread(t, r) \/ region_stop_thread(t, r)
  \/ \E t \in Thread :
       \/ \E S \in SUBSET Workers : talp_openmp_parallel_begin(t, S)
       \/ talp_openmp_thread_begin(t)
       \/ talp_openmp_into_parallel_function(t)
       \/ talp_openmp_outof_parallel_function(t)
       \/ talp_openmp_into_parallel_implicit_barrier(t)
       \/ talp_openmp_into_parallel_sync(t)
       \/ talp_openmp_outof_parallel_sync(t)
       \/ talp_openmp_thread_end(t)
       \/ talp_into_sync_call(t)
       \/ talp_out_of_sync_call(t)
       \/ talp_gpu_enter_runtime(t)
       \/ talp_gpu_exit_runtime(t)
  \/ talp_openmp_parallel_end

Spec == Init /\ [][Next]_vars

-----------------------------------------------------------------------------
(* Properties *)

Total(m) == FoldSet(LAMBDA k, n : m.times[k] + n, 0, CpuTime)

(* A region that is closed has accounted for all the time of all threads   *)
(* while it was open, no more and no less: every stretch of every thread,  *)
(* stopped ones included, is in exactly one of the useful, MPI, OpenMP and *)
(* GPU times (talp_sample_update, the aggregation of stopped threads, and  *)
(* the correction for threads created inside the region).  Excepted are    *)
(* regions measured by single threads, regions in which a thread was       *)
(* created after a later aggregation, and those in which a thread ended    *)
(* without a new generation since its last parallel region.                *)
TimeIsConserved ==
  \A r \in Region : ~monitor[r].started /\ due[r].exact => Total(monitor[r]) = due[r].time

(* Without the exceptions about threads that are created and end: the      *)
(* comment in talp_sample_get promises that a thread created mid-region    *)
(* counts from the start of the region.                                    *)
LateThreadsCount ==
  \A r \in Region : /\ ~monitor[r].started
                    /\ \A t \in Thread : role[t] # "ended" /\ local[t] = <<>>
                    => Total(monitor[r]) = due[r].time

(* The hardware counters of a region are those of its useful time: reading *)
(* them at the changes of state neither loses nor adds any.                *)
CyclesAreUseful ==
  \A r \in Region : monitor[r].times["cycles"] = monitor[r].times["useful"]

(* When a thread closes a region that it opened by itself the region gains *)
(* the time since then: delta = close - snapshot (local_region_entry_t).   *)
LocalElapsed ==
  [][\A t \in Thread : Len(local'[t]) < Len(local[t]) =>
       \E i \in DOMAIN local[t] :
          LET e == local[t][i] IN
          monitor'[e.monitor].elapsed_time - monitor[e.monitor].elapsed_time = clock - e.at]_vars

(* When samples are added up every one of them has recorded a CPU (the     *)
(* assertion of aggregate_sample_to_macrosample).                          *)
SamplesHaveCpus ==
  [][current_generation_ts' # current_generation_ts =>
       \A t \in aggregated(sample) : sample[t].cpu_mask # {}]_vars

(* The open regions are the started ones, each of them once. *)
OpenAreStarted ==
  /\ Range(open) = {r \in Region : monitor[r].started}
  /\ \A i, j \in DOMAIN open : open[i] = open[j] => i = j

=============================================================================
