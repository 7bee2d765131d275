# DLB: models, model checking and proofs

DLB (Dynamic Load Balancing) lets the processes of a node share CPUs. Each
process is linked with the library; there is no server. All coordination goes
through POSIX shared memories, each a table with one process-shared lock, and
through *helper threads* that carry out, inside a process, what another process
decided about it. The code that matters is therefore a handful of concurrent
data structures written by many processes that come, go, and sometimes die.
This project models those tables, the policies and managers that drive them and
the algorithms they rest on in TLA+, checks small instances with TLC, and proves
some results for all instances with TLAPS.

Source paths below are relative to `src/src/`.

## 1. Inventory of the system

| Part | State | Operations | Interacts with |
|---|---|---|---|
| **CPU table** `LB_comm/shmem_cpuinfo.c` | per CPU: owner, guest, state (DISABLED, BUSY, LENT), request queue; index sets `free_cpus`, `occupied_cores`; queue of process requests | register, finalize, lend, reclaim, acquire, borrow, return, reset, limit, update_ownership, check availability, clean-up after a crash | policy `lewi_mask`; tasks it returns go to helper threads |
| **LeWI mask policy** `LB_policies/lewi_mask.c` | `process_mask`, `max_parallelism`, CPUs in MPI, pending CPUs | one function per DLB call; resolves the tasks of a call after the unlock; the pair around a blocking call | CPU table, helpers, runtime call-backs |
| **Helper threads** `LB_comm/shmem_async.c` | slots with pid, ring buffer, `joinable`; `num_helpers` | init, finalize, enqueue (by other processes), thread loop | both asynchronous policies |
| **LeWI async** `LB_comm/shmem_lewi_async.c`, `LB_policies/lewi_async.c` | per process: initial and current number of CPUs; `idle_cpus`; request queue; `prev_requested` | lend, reclaim, acquire, borrow, remove requests, reset, blocking calls, enable, disable | helpers (`set_num_threads`) |
| **Classic LeWI** `LB_policies/lewi.c`, `LB_comm/comm_lend_light.c` | one counter of idle CPUs, without a lock | lend, borrow, reclaim, blocking calls, limits | core |
| **Node barriers** `LB_comm/shmem_barrier.c`, `LB_core/node_barrier.c` | slots with name, participants, counter, rwlock, pthread barrier; `num_barriers`; per process default barrier and list | register, attach, detach, barrier, finalize, clean-up | LeWI blocking calls, TALP |
| **Shared memories** `LB_comm/shmem.c` | name, versions, lock, list of pids, state | init (create or attach, take the lock with a time-out, check the version, clean dead pids), lock, finalize (last one unlinks), destroy | all tables |
| **DROM table** `LB_comm/shmem_procinfo.c`, `apis/DLB_interface_drom.c` | per process: current, future and stolen masks, dirty, preregistered; `free_mask` | init, preinit, set mask (steal, sync, roll back), poll, finalize, post-finalize | CPU table (ownership), core |
| **Queues** `support/queues.c`, `queue_template.h` | ring buffers | push, pop, remove, search, grow | CPU table, LeWI async, MNGO |
| **TALP** `talp/*`, `LB_comm/shmem_talp.c` | samples per thread, regions, stack of open regions; regions in shared memory | start, stop, OpenMP, MPI and GPU events, collect, node summary, reductions | MPI, OMPT, node barrier |
| **MNGO** `mngo/*`, `LB_comm/shmem_mngo.c` | managers, states per region, actions, stop flag | measure, agree, redistribute, load | TALP, DROM, LeWI |
| **Thread managers** `LB_numThreads/*` | per-CPU state bits, masks, counters | OMPT call-backs, LeWI call-backs, blocking calls | policies |
| **Core** `LB_core/DLB_kernel.c`, `spd.c`, `lb_funcs.c`, `mpi/mpi_core.c` | descriptor per (sub)process, enabled flag, initialised parts | Initialize, Finish, dispatch, MPI hooks, poll_drom | everything |
| **Masks and topology** `support/mask_utils.c` | table of cores and NUMA nodes | read from the system, mask operations, orders, texts | CPU table, MNGO, options |
| **Options** `support/options.c`, `types.c`, `env.c` | values, environment | parse, precedence, set, get, pre-initialisation | core, DROM |
| **Interfaces, tools, output** `apis/`, `cli/`, `talp/talp_output.c` | | forwarding, printing | |

Hard behaviours: (a) every call makes its decision under a lock but lets the
*effects* (call-backs, messages to helpers) happen after the unlock; (b) some
readers do not lock (`get_helper`, the availability check, the dirty flag of
DROM, the actions of MNGO, the counter of classic LeWI); (c) the tables keep
redundant information (index sets, counters, sizes) that has to agree with the
primary one; (d) processes finish, time out and die between any two steps and
others clean up after them; (e) waits that depend on other processes (a guest, a
helper, a barrier, a victim of a steal); (f) time is accounted for by one thread
on behalf of others; (g) what several processes compute separately has to be the
same. `PROJECT.json` lists them one by one as hazards, at the line where each
bites.

What makes each part correct: *CPU table* - a process uses only CPUs it was
given, no guest is evicted but by its own call, owners get their CPUs back,
the index sets hide nothing, nobody who left is still mentioned. *Helpers* - every
running process can be found, an accepted message is handled, finalization
ends. *LeWI async, classic LeWI* - CPUs are conserved, none is idle while
requested, nobody is left without. *Barriers* - nobody passes before all members
have arrived, slots count their members, names are unique. *DROM* - every CPU
has exactly one owner, also while a steal waits. *TALP* - every stretch of time of
every thread is counted once; what is read at the end is complete. *MNGO* - all
processes take the same decisions, and divide the cores. *Managers* - what they
believe of a CPU is what LeWI says. *Core* - finalization undoes initialization.
*Algorithms* - they agree with a simpler definition of the same thing.

## 2. Modules

| Module | What it models |
|---|---|
| `CpuInfo` | The CPU table as a record and one operator per static function of `shmem_cpuinfo.c` (table before -> table after, with the return code where a caller uses it). No behaviour of its own. |
| `LewiMask` | Processes, the lock, the loops of every `shmem_cpuinfo__*` call (one step per CPU), the resolution of tasks after the unlock, helpers, DROM ownership changes, start, finish, crash and clean-up. |
| `CpuSharing` | Abstract: who owns and who uses each CPU, and the acts of processes that change it, without lock, loops, index sets and tasks. What LeWI promises to processes that poll and keep their CPUs. |
| `BlockingCall` | Extends `LewiMask` with threads that call MPI: the CPUs lent on the way in, asked for on the way out, and pending when they were lost. |
| `AsyncHelper` | The array of helper slots, the unlocked look-up, the queue, the thread, finalization, `fatal` and crashes. |
| `LewiAsync` | The counting table, its request queue, the policy calls and the messages sent after the unlock. |
| `Barrier` | The array of barriers, their rwlocks and pthread barriers, the per-process lists, time-outs, crashes and clean-up. |
| `ProcInfo` | The DROM table: registration in its four cases, masks set with and without stealing, the synchronous wait, time-out and roll-back, polling, crashes. |
| `Talp` | Time accounting in one process: samples, generations, regions, the events of OpenMP, MPI and GPU, threads created and ended. |
| `TalpNode` | Regions of several processes, the shared memory they post to, collection, node summary and the reductions at the end. |
| `PopMetrics` | The reductions and the POP metrics as operators on exact fractions. |
| `Mngo`, `Balancer` | The managers with their barriers, locks and helper threads; the arithmetic of the balancer. |
| `OmpLewi`, `OmpFreeAgents`, `OmpRoleShift`, `OmpOmp5`, `OmpTool` | Threads of a process and the LeWI calls they make; the three thread managers; the tool that dispatches the events to them. |
| `Shmem`, `ClassicLewi`, `Kernel` | One shared memory by name; the lock-free counter and its policy; the core with its descriptors, components and MPI hooks. Each extends the one before. |
| `Fifo`, `Queues` | What a queue promises, and the ring buffers that implement it. |
| `MaskUtils` | The topology as it is read, the masks derived from it, the orders, and masks as text. |
| `Options` | The dictionary, the parser, the precedences, the environment of the next program. |
| `CpuInfoProofs` | What every operator of the table does: it maps tables to tables and takes CPUs only from whom it may; then which CPUs change hands, state and index set. |
| `LewiMaskProofs` | Theorems about `LewiMask`: types and guests; then owners, users, index sets and cores; and that it implements `CpuSharing`. |
| `AsyncHelperProofs`, `LewiAsyncProofs`, `BarrierProofs`, `ProcInfoProofs`, `TalpNodeProofs`, `OmpToolProofs` | Theorems about the component named. |
| `MC...` | Instances for TLC: values of constants, symmetry, and the choice of scenarios. |

Compositions: `LewiMask` composes `CpuInfo` with the policy and with the helper
queues (`msgs[p]`), whose own protocol is `AsyncHelper`. `Kernel` composes the
life of a shared memory, classic LeWI and the core. `OmpTool` composes the tool,
the managers and LeWI. `Mngo` composes the managers with the DROM masks and the
balancer. `Queues` is shown to implement `Fifo` (`INSTANCE Fifo WITH` the
sequence that a ring buffer stands for), which is what `CpuInfo` and `LewiAsync`
use in place of the arrays. `LewiMask` is shown to implement `CpuSharing` in polling
mode; the mapping takes owners, guests and states from the table, and as members
the processes from the start of their registration to the start of their
finalization, or their death. `PROJECT.json` maps every definition to the lines it
translates; names are those of the C code wherever TLA+ allows.

### How steps correspond to code

* **Tables under one lock** (`LewiMask`, `LewiAsync`, `ProcInfo`, `TalpNode`,
  `Barrier`): a function body between lock and unlock is one step, except in
  `LewiMask`, where `job` is what the lock holder is doing and a loop takes a step
  per CPU, since `check_cpu_availability` reads without the lock. What happens
  after the unlock (call-backs, messages, waits) is a step of its own.
* **Programs** (`Shmem`, `ClassicLewi`, `Kernel`, the thread managers): a call is
  a sequence of steps `todo[t]`, each one atomic access to shared state, so that
  threads and processes interleave between any two accesses.
* **Phases** (`Mngo`): a step is the code between two barriers.
* **Events** (`Talp`): a step is one event handler of one thread, or the clock.
* **Operators** (`CpuInfo`, `PopMetrics`, `Balancer`, `Options`, most of
  `MaskUtils`): pure functions.

`Calls`, `Options`, `Configs` and `Scenarios` select what an instance does, so that
the instances stay small; they never change what a call does.

### Abstractions

* CPU table. `cpu_set_t` is a set. CPUs are visited in any order where the code
  uses a priority array (affinity options only choose an order): every result
  for the real order is among those explored. The `SPREAD_IFEMPTY` and
  `NEARBY_ONLY` affinities, pre-registration of children and
  stealing, statistics and binding queries are left out. A core has at most
  two hardware threads, and asynchronous mode is modelled without SMT (with it,
  the code puts pid 0 into request queues). The time stamp that lets a borrow be
  skipped is omitted. The table persists when all processes have left. The test
  of `max_parallelism` is in the same step as the lock.
* Processes. One DLB call at a time per process in the policies; several threads
  in `BlockingCall` (in MPI), `Talp` and the thread managers. Crashes happen outside
  the lock, except in `Shmem`. Pids of dead processes are not reused.
* BlockingCall. Of the calls that read the pending CPUs, the lends and
  `DLB_Return`; a thread keeps its affinity while it is in MPI.
* AsyncHelper. What a message asks for is abstracted away; a message that is
  enqueued when the slot already rejects messages is marked `LATE`.
* LewiAsync. The queue is a function from process to number of CPUs (its order
  is only seen after `qsort`, which may order equal entries in any way); its
  capacity, 255 entries, is never reached. The array of requests to resolve, with
  one place per CPU of the node (`node_size`), is part of `pop_ncpus`. Callbacks are gone once a process has started to finalize.
* Barrier. The LeWI flag, `ntimes`, the order of the list and processes that
  disagree on `max_barriers` are left out. The rwlock prefers readers, as
  glibc's does; an attach that blocks is an action that is not enabled;
  a time-out can happen whenever readers hold the slot's lock.
* ProcInfo. CPU usage statistics are left out. `broken` records that one of the
  cases happened in which the code doubles or loses a CPU (named at `NothingLost`);
  the properties are about all other behaviours.
* Talp. Hardware counters are one number that grows with the clock; counts of
  events, device times and CPU masks of regions are left out; the OpenMP runtime
  is external.
* TalpNode. Times of a region are one number; the node barrier is a step that
  needs everyone; MPI ranks call collectives in the same order.
* Mngo. A core is one CPU; LeWI is a flag; measured efficiencies are chosen from
  `Useful`.
* Thread managers. A polling view of LeWI: the guest of each CPU and whether its
  owner wants it. A loop over CPUs that makes one LeWI call is one step, the atomic
  changes of a CPU's state in call-backs are steps of their own. LeWI stays enabled.
* Kernel. Of policies other than classic LeWI only whether their memories are
  attached; one kind of MPI call, with a flag whether it counts as blocking; no
  `fork`.
* Options. A text is a sequence of words; of long lists of choices some are kept.
* MaskUtils. A text is a form with digits or elements; `CPU_SETSIZE` and the
  width of a word are small constants.

## 3. Runs

`tlc -config RUN.cfg MODULE` in this directory repeats a run. Every run explores
the whole state space of its instance and passes.

| Run | Module | Instance | Properties |
|---|---|---|---|
| `polling` | MCLewiMask | 2 processes owning 1 and 2 of 3 CPUs; lend, reclaim, acquire, borrow, return, disable, enable | `GuestKept`, `ClaimedComesBack` |
| `calls` | MCLewiCalls | 5 scenarios of 2 processes: single CPUs, masks, limits and crashes; SMT cores, post-mortem lending; and, as `ModesAreSound`, request queues and helper messages; changes of owner with the unlocked check; threads in MPI | `SetsTrackCpus`, `UseIsPermitted`, `GoneLeavesNothing`, `CoreNotShared`, `ModesAreSound`, `SharesCpus` |
| `helpers` | AsyncHelper | 3 processes, 2 slots, queues of 2 messages, 4 registrations, `fatal`, crashes | `HelperFound`, `AcceptedAreHandled`, `FinalizeEnds` |
| `lewi_async` | MCLewiAsync | processes with 2 and 1 CPUs and all calls, messages and crashes; the same two for a list of 1; a third one with 3 CPUs, numbers 1 and 2 | `CpusConserved`, `RequestsAreServed` |
| `barrier` | MCBarrier | 3 processes, 2 slots, the default and a named barrier, time-outs and crashes; 4 processes at the default barrier, with crashes | `SlotsAreSound`, `NobodyLeftBehind` |
| `procinfo` | MCProcInfo | a parent, a child and an administrator over 2 CPUs; synchronous and asynchronous steals, returned or not; crashes | `OneOwner`, `NothingLost`, `StealIsExclusive` |
| `talp` | Talp | a main thread and a worker, 2 CPUs, two regions, 3 ticks; 5 configurations of OpenMP, MPI, GPU and external profiler | `TimeIsConserved` |
| `talp_node` | MCTalpNode | 2 MPI processes and an observer; all regions shared, the global one or none, sizes that agree or not, a collection or none before the end; a crash | `SameReductions`, `EveryoneIsCounted`, `SummaryIsComplete` |
| `mngo` | MCMngo | 3 processes, six, seven and nine cores, region programs of 7 to 9 calls or helper threads with time-outs | `RegionsPartition`, `LoadsWithoutStealing`, `ActionsAgree`, `FinalizationEnds` |
| `threads` | MCOmpTool | 2 threads and 2 free agents under each of the three managers, one task, region and blocking call; with free agents also launched with a spare CPU whose state and roles are what `malloc` gave | `FreeAgentsCounted`, `TeamRunsOnOurs`, `RoleShiftAgrees` |
| `node` | MCKernel | 2 and 3 processes around one memory, classic LeWI, greedy or not, restarts, one crash, builds of different versions; one process with each set of components, with the OpenMP tool, initialisations that fail | `NobodyStarves`, `NoNullAccess`, `FinalizedIsDetached`, `NothingIsLeft`, `CpusAreConserved` |
| `algorithms` | MCAlgorithms | all operations on queues of up to 3 entries; 6 machines read in every order; monitors of one rank in every way of spending two units of time, a selection of them for 2 and 3 ranks; command lines of up to 2 of 13 options | `QueuesAreSequences`, `TopologyIsTheMachine`, `OrdersAreTotal`, `MetricsAreExact`, `OptionsReachTheChild`, `TextsReadBack` |

What each property says stands above its definition, in the component's module or,
where it combines scenarios, in the MC module.

**Scenarios.** Several small instances of a module ask the same question in
different circumstances. An MC module then has a variable (`scenario`, `subject`,
or the configuration of the module itself) that is chosen initially and never
changes, so that a behaviour is of one instance. In `calls` the scenarios in
which LewiMask's own properties hold share its variables; the others
(`MCLewiModes`) have a node of their own, which only moves in their behaviours.

**Why the bounds are enough to be interesting.** Two processes are owner and
guest of each other's CPUs at once; three CPUs let one process own two, so a
loop can be interrupted half-way and a count can be smaller than what is free.
Request queues of length one are both empty and full. In the SMT scenario each
process owns a core, one of them with two CPUs, and masks of single CPUs take it apart. In `helpers` there
are more processes than slots and slots are used again, so the look-up sees
cleared and reassigned slots and a queue both rejects and overflows. In
`lewi_async` the surpluses differ, so that the rounding of `reclaim_from_shmem`
has remainders. In `barrier` the array can be full, a slot is freed in front of
one in use, three processes are the least for one to pass while another is left
behind, and the fourth lets a barrier be created anew under one that waits. In
`procinfo` the table is full with two processes, each is victim and thief, and
inheriting, stealing, giving back and rolling back a CPU all happen. In `talp`
three ticks are enough for a thread to be in two states, be read in between by
another, and go on. In `talp_node` two processes disagree on what is registered
whenever the code lets them. In `mngo` the processes run
fixed programs: a region entered three times (one more than the history holds)
and loaded again, one region inside another, two regions in turn, calls without
effect; every end of a region measures any combination of full and no load in
the three processes. Six cores keep the changes even, seven and nine do not. In `threads` each owned and lent CPU has a thread and a
LeWI call under way at once, and the bits found in memory are those that
confuse the managers most: an agent that is enabled and idle, the role of a
worker, and an idle CPU in front of the array. In `algorithms` the ring buffers wrap around, grow and
are full, machines have gaps, shared core numbers and empty nodes, and every
option occurs with every other one.

Bounds in guards or constants: `MaxMsgs`, `MaxHowmany` (LewiMask),
`MaxRegistrations` (AsyncHelper), `MaxRequested`, `MaxMsgs` (LewiAsync),
`MaxTime`, `MaxLocal`, `MaxDepth` (Talp), `MaxTime`, `MaxCrashes` (TalpNode),
`MaxTasks`, `MaxRegions`, `MaxBlocking` (thread managers),
`max` of a scenario and `MaxCrashes` (Kernel), `MaxLen`, `Size`, `MaxHowmany` (Queues).
`UintSize` is the modulus of unsigned counters. Their real width is far beyond any
count of processes, which is all that is assumed of it: it exceeds the number of
processes in `LewiAsync`, and twice that number in `Barrier`. Symmetry is used in `barrier` only, over three processes, none of
which is distinguished there.

**Constraints** leave out by name what the code gets wrong, so that the rest is
checked: `NotBroken` (`procinfo`; the cases listed at `NothingLost`). Section 4 says
what happens there. Nothing is cut away in `mngo` and `node`: `NoLockCycle`,
`StopTogether` and `DeltasAddUp`, and the races `FailedSwap`, `TornSwap` and
`LateReset` of the lock-free counter, are conditions that the properties state, and
the runs go on beyond them.

**Deadlock** is checked in `polling` and `calls`. The others may stop:
with every process gone, at a bound, or waiting at a barrier for a process that
never calls it.

**Fairness.** Safety runs assume none. `polling` assumes that the process
inside the lock goes on (`PollingSpec`), and nothing about who gets the lock:
`shmem_lock` is `pthread_mutex_lock`, which promises no order and has no
time-out. That the calls of `DLB_Return` of a guest get through again and again
is therefore the premise of `ClaimedComesBack`, not an assumption of the
specification: the polling mode asks the runtime to make them, and an
implementation of the mutex that starves the guest starves the owner. `helpers` uses `FairSpec`: the helper
threads of a live process run (they wait on a condition variable that every message
signals), a sender that has chosen its slot goes on, and a process that is
aborting goes on. `mngo` assumes that a finalizing process and a helper thread
go on as long as they can (weak fairness), and nothing about who gets a mutex.
No fairness is assumed for starting, finishing, crashing or for any other call.

**Refinement.** `QueuesAreSequences` is `Fifo!Spec` with the ring buffer's live
entries, from tail to head, as the sequence: each push, pop, removal, search and
growth of the arrays of `queues.c` and `queue_template.h` is a step of the queue
that `Fifo` promises, with the same answer. `SharesCpus` is `CpuSharing!Spec` in
the scenarios of `calls` that poll and keep their CPUs, with SMT, post-mortem
lending and crashes; section 5 proves it.

## 4. What the code does not guarantee

Further instances of the modules, made by changing the constants named or by
checking a property of the module that no run lists. Unless it says that it
passes, TLC finds a counterexample, and the row says what happens. Quoted are
the statements of the code that are concerned.

**CPU table and mask policy** (`LewiMask`, `BlockingCall`)

| Instance and property | Code | What happens |
|---|---|---|
| "check" without "drom", `ReclaimsAllOwned` | `shmem_cpuinfo.c:2178` | `check_cpu_availability` makes the caller guest and clears `free_cpus`, but does not add the core to `occupied_cores`; the owner's reclaim looks only at the union of the two (`:991`) and skips the CPU: "Reclaim all the CPUs that are owned by the process" (`apis/dlb.h.in:218`). |
| "drom", `ReclaimsAllOwned` | `lewi_mask.c:602` | Reclaim iterates the start-up mask, also after DROM changed it. |
| `FreeCpusAreIdle` | `shmem_cpuinfo.c:319` | "lent, non-guested CPUs (idle)" (`:103`): a leaving guest puts CPUs in any state into `free_cpus`. |
| `Async`, `ReturnAsyncConsistent` | `shmem_cpuinfo.c:1792` | `ensure(owner != pid && guest == pid)`: the CPU may have been returned between the message and the second lock. |
| `Async` and "crash", `GoneLeavesNothing` | `shmem_cpuinfo.c:334` | The process requests of a dead process stay. |
| `BorrowIgnoredAtMax` | `lewi_mask.c:695` | "subsequent calls to borrow CPUs will be ignored" (`apis/dlb.h.in:107`): BorrowCpu does not look at the limit. |
| `ThreadMultiple`, `ThreadUseIsPermitted` | `lewi_mask.c:471` | With two threads in MPI the way out is ignored, because not all CPUs in MPI are of the calling thread; its CPU stays lent while it runs. |
| thread masks of two CPUs, `ThreadUseIsPermitted` | `lewi_mask.c:510` | As soon as one CPU of the mask is owned, those that are not are neither borrowed nor noted as pending. |
| `PendingIsLost` | `lewi_mask.c:535` | Another thread borrows the CPU while its thread is in MPI; on the way out the borrow fails because the process already is guest, the CPU becomes pending, and the next Return disables a CPU that the process has. |

**Helpers, LeWI async, barriers, classic LeWI, shared memory, core**

| Instance and property | Code | What happens |
|---|---|---|
| `RejectsAfterJoin` | `shmem_async.c:110` | "flag helper to reject further messages" (`:116`): a sender that tested the flag before still enqueues. |
| `SizeWithinCapacity` | `shmem_async.c:295` | The size passes the capacity when slots are used again. |
| `FatalEnds` | `shmem_async.c:125` | `fatal` joins a helper whose JOIN was lost, and does not reach `abort`. |
| `Threads`, `ThreadsMatchCpus` | `shmem_lewi_async.c:366` | Numbers for `set_num_threads` are computed under the lock and sent after it; two lenders deliver them in the other order and the receiver keeps the wrong one. |
| `DisabledKeepsInitial` | `shmem_lewi_async.c:756` | "While DLB is disabled there will not be any resource sharing for this process" (`apis/dlb.h.in:95`): its request is still served. |
| `EnableRestores` | `lewi_async.c:135` | "Restore previously requested CPUs" (`:132`): twice the number is asked for. |
| `ReclaimRestores` | `shmem_lewi_async.c:506` | Proved (`ReclaimAlwaysRestores`): an owner that reclaims has at least its initial CPUs. |
| `FairSpec`, `WaitEnds` | `shmem_barrier.c:475` | Passes: a waiting process gets past a barrier whose members keep calling it. |
| `OneComesLast` | `shmem_barrier.c:469` | "only affects the verbose message" (`:504`): two processes, or none, are last, which also decides whether the wait is a blocking call. |
| `TimeoutAvoidsDeadlock` | `shmem_barrier.c:313` | "timedlock is used to avoid potential deadlocks" (`:294`): the members left wait for the process that aborted. |
| `DefaultNotNamed` | `node_barrier.c:165` | "does not allow registering the default barrier" (`:164`): only a NULL name is rejected. |
| `AttachedByName` | `shmem_barrier.c:338` | "At most, 'barrier' points to an unitialized barrier" (`:336`): the slot may hold another barrier. |
| `CpusAreConserved` without `LateReset` | `comm_lend_light.c:80` | The first process attached clears the count after another one has attached and lent; a CPU is lost. |
| `CpusAreConserved` without `TornSwap` | `comm_lend_light.c:164` | The two operands of the swap are read at different times; when the count changes in between and is back at the swap, CPUs are lost or taken that are not there. |
| `CpusAreConserved` without `FailedSwap`, `NobodyStarves` without `below` | `comm_lend_light.c:133` | A greedy process adds what its swap found, also when the swap failed: the CPUs are counted twice. If others took more than the count in between, it is negative and the process is left with fewer CPUs than its own, or none. |
| `max_processes` above `node_size` (against `OneProcessPerCpu`), `RequestsAreServed`, `CpusConserved` | `queues.c:142`, `lewi_async.c:60` | With `--shm-size-multiplier` above 1 more processes may ask than the array of requests has places: a lend leaves CPUs idle that are asked for, and a reclaim fails, also that of a process that finalizes, which then leaves with fewer CPUs than it brought. |
| `OneSegment` | `shmem.c:227` | A process that opens the file between the last detach and the unlink stays in a memory of its own. |
| `IgnoredErrors`, `RefusedWithoutInit` | `DLB_interface.c:64`, `DLB_kernel.c:315` | "DLB_ERR_NOINIT if DLB is not initialized" (`apis/dlb.h.in:82`): an application that goes on after an initialisation that failed, also one that `MPI_Init` made for it, calls through tables that were never filled. |
| `ToolScenarios`, `FinalizedIsDetached` | `DLB_kernel.c:247` | A process that is also attached as a DROM tool is detached, or stays attached, depending on the order of the calls. |
| `SubScenarios`, `LiveIsAttached`, `ThreadsPointToLive` | `spd.c` | Finalizing one descriptor closes what another uses; a thread keeps a descriptor that was freed. |
| `ManagerStops` | `DLB_kernel.c` | The manager thread of MNGO can outlive DLB. |
| `MpiFinalizesItsOwn`, `OpenAreListed` | `mpi_core.c`, `shmem.c` | Pass for as many processes as the memory has slots; beyond that, `OpenAreListed` does not hold. |

**DROM, TALP, MNGO, thread managers**

| Instance and property | Code | What happens |
|---|---|---|
| without `NotBroken`, `OneOwner`, `NothingLost` | `shmem_procinfo.c:880` | A dirty process that sets its pending mask again, a caller that dies while it waits, and the other cases named at `NothingLost` double or lose a CPU. |
| Talp: `CyclesAreUseful`, `OpenAreStarted`, `SamplesHaveCpus` | `talp/talp.c` | Pass. |
| Talp: `LateThreadsCount`, `LocalElapsed` | `talp/sample.c` | A thread created while a region is open does not always count from the start of the region, as the comment in `talp_sample_get` promises; the time stamp in the snapshot of a region that one thread opens is not set, so its elapsed time does not start when it was opened. Ending a thread inside a barrier counts the wait twice, and finalizing inside a parallel region waits for a thread that does not come. |
| TalpNode: `EveryoneIsStillCounted` with no shared memory; `SummaryIsComplete` without its premise `MemoryIsKept` | `talp/talp_record.c:121`, `:165` | A process that has gone on removes its regions from a temporary memory before others have read them. With `--talp-summary=node` alone, an earlier collection removes the global regions (`talp.c:564`): the times posted at the end are refused, the summary finds none of them and divides by their number, 0. |
| TalpNode: `EveryoneIsCounted` without `SameSize` | `shmem_talp.c:146` | A process that was given another `--shm-size-multiplier` is refused, goes on, and is missing from every collection; the code only warns. |
| TalpNode: `SlotsAreOwn` with three processes and a late initialisation; `SlotsInFile` with `SmallSize < FullSize`; `OpenAreAlive` with two threads that register | `shmem_talp.c:228` | A process that opened the memory before another one zeroed it gives slots again that a third one registered; a file of one size is used with another; one thread frees the region that the other has open. |
| PopMetrics | `perf_metrics.c:119`, `:289` | Reducing by node and then over nodes differs from reducing at once if an unused monitor holds data; the smallest non-zero time ignores processes without MPI, and load balance exceeds 1; with GPU runtime time the factors of version 1 do not multiply to the whole; when all processes are in MPI for the whole time the load balance divides by zero (`:170` has no guard), and `ModelsMultiply` does not hold without `SomeoneOutOfMPI`. |
| Mngo: `FinalizationEnds` without `[]NoLockCycle` | `shmem_mngo.c:334` | Two threads hold one lock each and wait for the other. |
| Mngo: `FinalizationEnds` without `[]StopTogether` | `mngo.c:442` | A helper that reads the flag late waits at a barrier that the others have left. |
| Mngo: `KeepsACore` | `mngo_drom.c:132` | "Keep at least one core": when the region's cores and those of the state before have none in common, a process has no core between the two phases of a load. |
| Mngo: `DeltasAddUp` (with the constants of `mngo.cfg`); `RegionsPartition` without it | `shmem_mngo.c:523` | Three processes with three cores each and wishes (-2, 2, 2) get the changes (-2, 0, 0): two cores are given that nobody takes, and are in no mask until a later round takes them. Cores (1, 3, 3) with wishes (2, -2, -2) get (2, 0, 0). |
| threads: `StatusAgrees`, `WantedEnds`, `NothingForgottenRS`, `RoleShiftAgrees` with lending | `omptm_free_agents.c:213`, `omptm_role_shift.c` | The bit of an agent changes before the runtime is called, so that two calls may come in the other order; the end of a parallel region clears the flag of the workers' CPUs only; the availability check takes a CPU that nobody uses, also one the agent has returned. The mask of `omptm_free_agents.c:247` may be read before it is written. |
| threads: `AgentsAreCounted` without the term `Found("ENABLED")` | `omptm_free_agents.c:394`, `:408` | The state of a spare CPU is never written: if its memory has the bit of an enabled agent, `num_enabled_free_agents` starts at 0 with a bit set, and goes below 0 when the agent is disabled. |
| threads: `fa_acquire` before the agents have registered | `omptm_free_agents.c:278`, `:282` | The list has -1 for an agent that has not registered, and `cpu_data[-1]` is read, and written if it looks idle. |
| threads: `thread_begin_aborts` | `omptm_role_shift.c:123`, `:284` | Call-backs that find no thread on their CPUs each ask for a new one, and `cpu_by_id` is written before the count is tested: when there are more than CPUs, it is written past its end and the next thread to begin aborts the process. |

**Algorithms**

| Instance and property | Code | What happens |
|---|---|---|
| queue that overwrites, `Size = 2`, `MaxLen = 5`, `QueuesAreSequences` | `queues.c:502` | A push on a full queue counts one element more than it holds, and does not move the tail. |
| `OrdersAreTotal` with masks that hold part of a core | `mask_utils.c:387` | The affinity order is not transitive (mask {3} on cores {0,1}, {2,3}, {4,5}), so that `qsort` may return anything. |
| `CoresAreTaken` with gaps in core ids | `mask_utils.c` | An id without CPUs counts as a complete core of every mask. |
| options | `options.c`, `env.c` | With only `LB_ARGS` set, the user's options are lost after `DLB_PreInit`; `return-stolen` replaces the user's `--debug-opts`; options read one by one ignore `LB_ARGS`, `LB_<variable>` and the API's arguments, so that two processes may use different shared-memory keys; paths are compared as pointers to pointers (`options.c:808`); values of more than 63 characters are cut; with a given environment, `DLB_PreInit` leaves the caller's unchanged; `all:node` as summary and a bare `--lewi-ompt` do not read back; nor does an option without flags whose type prints no word for it, after others were printed (`types.c:357`, `:875`: the text is static). |

Crashes show two more limits, stated as the condition `NobodyDied` of the
properties concerned. `cleanup_shmem` of LeWI async decrements
`attached_nprocs` for any dead pid of the shared memory, also for one that was
never counted: the count may wrap, or reach zero while others run, after which
the next process to start resets `idle_cpus` and CPUs are lost. `cleanup_shmem`
of the barriers takes a participant off *every* barrier, so `participants` no
longer is the number of members.

## 5. Proofs

`tlapm M.tla` checks a module. The theorems hold for every value of the
constants that satisfies the named assumptions (`CpuInfoAssumption`,
`LewiMaskAssumption`, `AsyncHelperAssumption`, `LewiAsyncAssumption`, `OneProcessPerCpu`,
`BarrierAssumption`, `ProcInfoAssumption`, `TalpNodeAssumption`, and for the
thread managers `CpuAssumption`, `ThreadAssumption`, `AgentsAssumption`), which TLC
evaluates in the runs, and the hypotheses that a theorem names. In particular
they hold for any number of processes, threads and CPUs.

| Theorem | Hypotheses | States |
|---|---|---|
| `LewiMaskProofs!TypeCorrect` | | `Spec => []TypeOK` |
| `LewiMaskProofs!PollingGuestKept` | polling mode | `GuestKept` |
| `LewiMaskProofs!NobodyHauntsTheTable` | polling mode | `GoneLeavesNothing` |
| `LewiMaskProofs!UseIsAlwaysPermitted` | polling mode; no "drom" | `UseIsPermitted` |
| `LewiMaskProofs!CoresAreNeverShared` | no "drom", no "check" | `CoreNotShared` |
| `LewiMaskProofs!SetsAlwaysTrackCpus` | no "drom", no "check"; with SMT whole cores and no "crash" | `SetsTrackCpus` |
| `LewiMaskProofs!SharingIsImplemented` | polling mode; no "drom", no "check" | `SharesCpus`, that is `Spec => Sharing!Spec` |
| `AsyncHelperProofs!HelperTypeCorrect`, `HelperAlwaysFound`, `AcceptedAreAlwaysHandled` | | `TypeOK`, `HelperFound`, `AcceptedAreHandled` |
| `LewiAsyncProofs!LewiAsyncTypeCorrect`, `RequestsAreAlwaysServed`, `CpusAreAlwaysConserved`, `ReclaimAlwaysRestores` | at most one process per CPU of the node (`OneProcessPerCpu`) | `TypeOK`, `RequestsAreServed`, `CpusConserved`, `ReclaimRestores` |
| `BarrierProofs!BarrierTypeCorrect`, `SlotsAreAlwaysSound`, `NobodyIsLeftBehind` | | `TypeOK`, `SlotsAreSound`, `NobodyLeftBehind` |
| `ProcInfoProofs!TableStaysSound`, `CpusHaveOneOwner`, `NoCpuIsLost` | while nothing is `broken` (part of the properties) | `Inv`, `OneOwner`, `NothingLost` |
| `TalpNodeProofs!RanksReduceAlike` | | `SameReductions` |
| `OmpToolProofs!AgentsStayCounted` | free agents (part of the property); whatever `malloc` returns | `FreeAgentsCounted`, which counts up to the bits found in memory |

`SetsAlwaysTrackCpus` and `NobodyHauntsTheTable` also cover what `ModesAreSound`
checks with request queues and with changes of owner; its scenario with threads in MPI
is `BlockingCall`, which is only model-checked.

### The CPU table

The proofs have two layers. `CpuInfoProofs` describes each
operator of the table by what it does to owners, guests, states and index
sets, CPU by CPU (`Gains`, `Returns`, `LendMoves`, `Registers`, `Deregisters`,
`Leaves`, ...). The theorems about `LewiMask` then have one step per
action and use those descriptions, never the definitions of the operators.

* *Types.* `TypeOK` is inductive because it contains `JobOK` (only an
  asynchronous return may be in the name of nobody; the loop over owned CPUs
  is always followed by the one over guested ones).
* *Guests.* For each operator, whom it may take a CPU from (`OnlyLoses`); the
  strengthening `PollingInv` says that no asynchronous return is under way.
  DROM, finish and clean-up are included.
* *Control.* All theorems about owners, users, cores and sets rest on `Control`: which operations the
  lock holder may be executing, for whom, and where it goes on afterwards.
* *Who has left.* `GoneLeavesNothing` is about processes that are gone; the loops that
  take a process off its CPUs do so one CPU per step. `HoldersIn` says for every
  process in between: who owns or uses a CPU is in the node, or a loop
  that takes it out of the table has not come to this CPU. `Unqueued`
  (no requests in polling mode) is why nothing is left in queues. DROM,
  the unlocked check and crashes are included. In asynchronous mode the property is
  false (section 4).
* *Permitted use.* `UsesOK` follows the tasks: what a process uses it may use, or a
  task to stop is with it or still in the hands of the lock holder (`UsedOK`); what it is
  about to start using it may use when it gets there (`ToldOK`); the same for tasks
  not handed over yet, with the exception of lends, whose tasks are dropped,
  because the process has already stopped (`TasksOK`); and tasks are left only to
  those that resolve them (`IdleOK`). `Registered` is needed because a process starts to
  use its start-up mask after the unlock: it owns and claims these CPUs, and while it
  registers, the ones still to come are free or its own. DROM is excluded since it
  gives CPUs to new owners that nobody has told the old ones about.
* *Cores.* `Apart`, which is `CoreNotShared` as a predicate of the table, with
  `Control` and `Registered` (a registration claims CPUs only from nobody). Crashes
  included. The unlocked check is excluded since it makes the caller guest without looking
  at the core.
* *Index sets.* `Tracked` strengthens `SetsTrackCpus` by "a claimed CPU has an
  owner". Without SMT it is inductive with `Registered`, crashes included. With SMT
  `occupied_cores` has whole cores: leaving a CPU clears its core, which hides
  the other CPU of the core unless both are of one owner. `CoresWhole` says they are,
  except while the lock holder registers or deregisters the core
  (`Splitting`), and `OwnsNothing` that who is being taken off the CPUs it uses
  has given up its own before. Both fail when processes split a core, or when
  one that died still owns CPUs as they are cleared one by one, which is what
  `WholeCores` excludes. "check" is excluded because it makes a guest without adding to
  `occupied_cores`, "drom" because it changes owners without updating the
  sets (section 4).
* *Sharing.* Every step of a loop is one act of `CpuSharing` on each CPU, all other
  steps move no CPU. `CpuInfoProofs` says which acts: `Passes` for the operations of a
  process in the node, which is closed under composition (two acts of one process on
  one CPU are again one act, or none: needed because an operation on a core calls
  those on its CPUs), and `Parts` for the loops that take a process out. The
  conditions of the abstract acts come from invariants of the whole: a process joins with
  nothing because of `HoldersIn`, a registration takes CPUs from nobody because of
  `Registered`, the operation under way is of a member, or of one that has quit, because of
  `Control`, and a CPU that loses its owner was enabled (`OwnedEnabled`: to lend a
  disabled CPU does nothing, and would leave the process its guest). `CpuSharing` shows what is not promised: a CPU that a
  process abandons when it dies, or finishes, is not handed to an owner that waits for
  it; it stays idle until an act of a process wakes the owner (`Wakes`). Crashes and
  SMT are included. Excluded are asynchronous mode, where others act in the name of a
  process, DROM, which gives CPUs to new owners, and the unlocked check, which takes a CPU
  that is idle but no longer lent.

### The other components

* *Helpers.* `HelperFound` alone is not inductive; `Inv` adds that
  `num_helpers` bounds the slots in use (`CountCovers`), that a live process
  serves its own slot (`ServesOwn`), that every slot belongs to the process that
  serves it or to a dead one (`SlotServed`), and that only running processes
  send (`SendersRun`). `CountCovers` is why `num_helpers` must never be
  decremented when a slot is cleared, although `SizeWithinCapacity` shows the price.
  `AcceptedAreAlwaysHandled` needs in addition that JOIN is only in queues that reject
  messages (`JoinRejects`), so that whatever follows it is late, and that a
  thread that has ended serves such a queue (`EndsHandled`).
* *LeWI async.* The invariant is the types, which process is where
  (`Places`), that no CPU is idle while requested and the list is within its size
  (`Served`), and while nobody dies
  that `attached_nprocs` counts the list and CPUs add up (`Accounts`). The
  hard part are the sums: that lending gives to the requests exactly what it takes
  from the idle CPUs, and that `reclaim_from_shmem`, which goes from the smallest
  surplus to the largest and takes from each an even share of what is still
  missing, takes exactly what is missing. That nobody is left out for want of
  space in the array of requests follows from the size of the list and
  `OneProcessPerCpu`. The lemmas about sums argue by a smallest
  counterexample, since the library's induction theorems cannot be used.
  `ReclaimAlwaysRestores` needs `Accounts`: what is missing from one process is
  idle or the surplus of others.
* *Barriers.* The invariant is the types, which process is where with which handle
  (`Places`), the array (`Shared`: unique names, slots below `num_barriers`,
  bounded participants), and while nobody dies the counting (`Counted`:
  participants are the members, each with one handle, and the lock is held for reading by those
  that are inside). `NobodyIsLeftBehind` then is an argument on
  cardinalities: a pthread barrier opens when as many have come as it was
  initialised for, they are all members, and there are no more members than
  that. `UintSize > 2 * Cardinality(Pid)` is what keeps the unsigned counters from
  meeting their wrapped values after crashes.
* *DROM.* Neither `OneOwner` nor `NothingLost` is inductive: a mask that is set
  is in `future` until the process polls, in between `current` still has what
  was taken away, a steal gives its CPUs to nobody while it waits, and a
  roll-back returns them to the slots the CPUs were recorded stolen from.
  `Good` has four parts. `Sound`: `future` and `current` agree unless the entry
  is dirty, nothing stolen is in the mask of its victim, slots that `num_procs` does not
  reach have nothing, and masks of all held slots, not only of
  those the properties look at, are disjoint. `Rooted`: a registered process is in the
  slot it remembers, below `num_procs`, in a table that is initialised.
  `Resumable`: what a synchronous steal saved before it unlocked still fits the
  table when it locks again, or the step is one of those that set `broken`.
  `Lossless`: every CPU is free, held, or awaited. `Sound` and `Rooted` are why a
  clean-up, a pre-registered child and its parent can hand over masks without looking at
  other entries; `Resumable` is why the roll-back gives back exactly what
  was taken. Each function on the table has one lemma that says what it does to
  masks, then each action has one. `get_process` takes the entry of the nearest registered
  ancestor, so the walk up the tree must end: `ProcInfoAssumption` says that `Parent`,
  the parent pids that the code reads from `/proc`, has no cycle.
* *TALP at the end.* `SameReductions` compares ranks that are at a reduction; what decides
  which reductions a rank will do was fixed long before, when it registered the names
  of the others. `Agreed` therefore follows the exchange of names: nobody passes
  it before every rank has posted its own, posted names do not change afterwards, and
  the ranks that have passed it have the same names in the same order, which
  include the names of those that are still in it. `Shape` says where each rank is
  and what it holds there. That new names are appended in the same order by all is
  the lemma about `Position`: the rank of a name among the missing ones does not
  depend on which of them a rank had.
* *Thread managers.* `num_enabled_free_agents` changes one step after the bit that it counts, so
  the invariant is `enabled + |Enabling| - |Disabling| = |EnabledCpus| - |found|`, where the two
  sets are the threads between the two steps and the last term are the bits that were set in
  memory `omptm_free_agents__init` does not write. That term is fixed when the tool is initialised, with
  any contents and any number of workers, and no interleaving changes it later. `Handlers` makes it inductive: a
  step that changes the counter is only ever the next one of its thread, never further
  down in its program, and every step that names a CPU names one of the node,
  because an agent in a task has been bound to one and is in no team. The
  proof goes through all handlers; four of their steps touch bit or counter, the others
  leave both sets as they are.

### Only model-checked

All liveness (`ClaimedComesBack`, `FinalizeEnds`, `FinalizationEnds`: it needs
fairness, which the prover cannot handle). The refinement of `Fifo` and
everything about the algorithms, whose definitions are recursive. `BlockingCall`.
`GuestKept` and `UseIsPermitted` in asynchronous mode, and what the hypotheses above
exclude. In `SameReductions` the regions are compared as sets and by their number; that the
sorted tree gives them one order is not modelled. The other two properties of `TalpNode`: `EveryoneIsCounted` needs that no rank
dies, `SummaryIsComplete` the order of barriers. `StealIsExclusive` of `ProcInfo`: two clients may wait for the
same CPU after the table was wiped and initialised again in between, which the
invariant does not exclude and the instance of the run does not reach. The accounting of
`Talp`, `TeamRunsOnOurs` and `RoleShiftAgrees` of the managers, and `Kernel`, whose
run looks at a bounded number of calls. MNGO, whose balancer is recursive.

## 6. Not modelled, and the plan

Not modelled: RaL, PERaL and JustProf (legacy policies that the build does not
compile); formatting of results (`talp/talp_output.c`), tracing and debug output; the
command-line tools beyond the calls they make; generated MPI wrappers and language
bindings, which only forward; the containers taken from glib (`gtree`, `gslist`),
used as sets and maps; the hardware back-ends of TALP (PAPI, CUPTI, ROCm), external
sources of numbers; `fork` inside an initialised process; pre-registration and
stealing inside the CPU table, and its time stamps.

Next, in this order:

1. `RoleShiftAgrees` and `TeamRunsOnOurs` of the thread managers, with the lemmas about
   handlers of `OmpToolProofs`.
2. `NothingIsLeft` of `Shmem`, without the components around it.
3. `CpuSharing` in asynchronous mode, where a helper acts for its process.
