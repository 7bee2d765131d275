------------------------------ MODULE TalpNode ------------------------------
(***************************************************************************)
(* The monitoring regions of the processes of a node and the shared memory *)
(* where they post their times: LB_comm/shmem_talp.c, the registration of  *)
(* regions in talp/regions.c, and the collective operations of talp/talp.c *)
(* (talp_collect_pop_node_metrics), talp/talp_mpi.c (talp_mpi_finalize)    *)
(* and talp/talp_record.c (talp_record_node_summary).                      *)
(*                                                                         *)
(* A process keeps its regions in a tree by name, which owns the monitors. *)
(* Depending on the options it shares all of them ("full", with an         *)
(* external profiler), only the global region ("minimal", for the node     *)
(* summary), or none, and then the collective operations use a temporary   *)
(* shared memory.  Every block under the lock of the shared memory is one  *)
(* step.  The times of a region are one number: Talp is about how they are *)
(* measured.  The node barrier is that of module Barrier: nobody leaves it *)
(* before all have arrived.  The processes are the ranks of an MPI program *)
(* and call the collective operations in the same order.                   *)
(***************************************************************************)
EXTENDS Integers, FiniteSets, Sequences, FiniteSetsExt, SequencesExt

CONSTANTS
  Procs,        \* the processes of the node
  Leader,       \* the one with _process_id 0
  Threads,      \* the threads of each process that register regions
  Main,         \* the main thread
  Global,       \* the name of the global region
  Names,        \* the names of the other regions
  Nobody,       \* the pid of a free slot
  Settings,     \* the options that programs are run with
  FullSize,     \* the regions that fit with an external profiler
  SmallSize,    \* and otherwise
  Collected,    \* the region whose node metrics are collected
  Resettable,   \* the regions that are reset
  Observers,    \* third-party processes that attach to the shared memory
  MaxTime,      \* bound on the time of a process
  MaxCrashes    \* bound on the number of crashes

(* Which regions are shared, the --shm-size-multiplier of each process, and *)
(* the collective operations that the program calls.                       *)
Setting ==
  [mode : {"full", "minimal", "none"}, multiplier : [Procs -> Nat \ {0}],
   collectives : Seq({"collect", "finalize"})]

ASSUME TalpNodeAssumption ==
  /\ Leader \in Procs /\ Main \in Threads
  /\ Global \notin Names /\ Nobody \notin Procs /\ Procs \cap Observers = {}
  /\ IsFiniteSet(Names)
  /\ Settings \subseteq Setting
  /\ FullSize \in Nat /\ SmallSize \in Nat /\ MaxTime \in Nat /\ MaxCrashes \in Nat
  /\ Collected \in Names \cup {Global} /\ Resettable \subseteq Names \cup {Global}

VARIABLES
  setting,   \* the options
  pop,       \* whether the summary has POP metrics or processes
  pc,        \* pc[p]: where the main thread of p is
  shm,       \* the shared memory
  attached,  \* attached[p]: subprocesses_attached
  max_regions, \* max_regions[p]: the size that p opened the memory with
  tree,      \* tree[p][n]: the monitor of p for the name n, 0 if none
  heap,      \* heap[p]: the monitors that p has allocated
  open,      \* open[p]: open_regions
  looked,    \* looked[p][t]: the name t found no region for and is to insert
  spent,     \* spent[p]: the time that has passed in p
  resume,    \* resume[p]: the monitor to start again after the collection, or 0
  arrived,   \* arrived[p]: how many node barriers p has arrived at
  calls,     \* calls[p]: how many collective operations p has begun
  reduced    \* reduced[p]: the names that p has reduced among all ranks

vars == <<setting, pop, pc, shm, attached, max_regions, tree, heap, open, looked, spent, resume, arrived, calls,
          reduced>>

options == <<setting, pop>>
mode == setting.mode        \* have_shmem, have_minimal_shmem or neither
collectives == setting.collectives

Name == Names \cup {Global}
NoShm == [pids |-> {}, initialized |-> FALSE, max_regions |-> 0, size |-> 0, regions |-> <<>>]
NoRegion == [pid |-> Nobody, name |-> Global, time |-> 0]
None == "none"

Init ==
  /\ setting \in Settings
  /\ pop \in BOOLEAN
  /\ pc = [p \in Procs |-> "off"]
  /\ shm = NoShm
  /\ attached = [p \in Procs \cup Observers |-> 0]
  /\ max_regions = [p \in Procs |-> 0]
  /\ tree = [p \in Procs |-> [n \in Name |-> 0]]
  /\ heap = [p \in Procs |-> <<>>]
  /\ open = [p \in Procs |-> {}]
  /\ looked = [p \in Procs |-> [t \in Threads |-> None]]
  /\ spent = [p \in Procs |-> 0]
  /\ resume = [p \in Procs |-> 0]
  /\ arrived = [p \in Procs |-> 0]
  /\ calls = [p \in Procs |-> 0]
  /\ reduced = [p \in Procs |-> {}]

-----------------------------------------------------------------------------
(* The shared memory *)

Dead == {p \in Procs : pc[p] = "dead"}

Used(s) == {i \in DOMAIN s.regions : s.regions[i].pid # Nobody}

Without(s, pids) ==
  [s EXCEPT !.regions = [i \in DOMAIN @ |-> IF @[i].pid \in pids THEN NoRegion ELSE @[i]]]

(* cleanup_shmem for every process that died attached: a memory without    *)
(* any region left is zeroed.                                              *)
cleanup_shmem(s) ==
  LET dead == s.pids \cap Dead
      c == Without(s, dead)
  IN IF dead = {} THEN s
     ELSE IF Used(c) = {} THEN [NoShm EXCEPT !.pids = s.pids \ dead, !.size = s.size]
     ELSE [c EXCEPT !.pids = @ \ dead]

(* open_shmem: the file gets the size that the process which opens it      *)
(* expects, whether it exists or not.                                      *)
open_shmem(p, size) ==
  IF attached[p] = 0
  THEN [cleanup_shmem(shm) EXCEPT !.pids = @ \cup {p}, !.size = size]
  ELSE shm

(* close_shmem: the last one removes the memory if it has no regions. *)
close_shmem(s, p) ==
  IF attached[p] > 1 THEN s
  ELSE IF s.pids \subseteq {p} /\ Used(s) = {} THEN NoShm
  ELSE [s EXCEPT !.pids = @ \ {p}]

(* shmem_talp__init under the lock, and whether the memory is of another   *)
(* size than the process expects                                           *)
initialize(s, size) ==
  IF s.initialized THEN s
  ELSE [s EXCEPT !.initialized = TRUE, !.regions = <<>>, !.max_regions = size]

differs(s, size) == s.initialized /\ s.max_regions # size

slot_of(s, p, n) ==
  {i \in DOMAIN s.regions : s.regions[i].pid = p /\ s.regions[i].name = n}

(* shmem_talp__register: slots are never used again. *)
register(s, p, n, size) ==
  IF slot_of(s, p, n) # {} \/ Len(s.regions) >= size THEN s
  ELSE [s EXCEPT !.regions = Append(@, [pid |-> p, name |-> n, time |-> 0])]

(* The regions that are registered at the end, one after the other. *)
register_all(s, p, names) ==
  FoldSeq(LAMBDA n, acc : register(acc, p, n, max_regions[p]), s, names)

(* The slot that shmem_talp__register returns, 0 if there is no room. *)
registered_slot(s, p, n) == IF slot_of(s, p, n) = {} THEN 0 ELSE Min(slot_of(s, p, n))

(* shmem_talp__set_times: whose slot it is, is not checked.  A slot that   *)
(* was given lies below the max_regions of the process.                    *)
set_times(s, slot, time) ==
  IF slot \in Used(s) THEN [s EXCEPT !.regions[slot].time = time] ELSE s

(* shmem_talp__finalize *)
finalize(s, p) == close_shmem(Without(s, {p}), p)

(* shmem_talp__get_regionlist, and what talp_query_pop_node_metrics counts *)
get_regionlist(n) == {i \in Used(shm) : shm.regions[i].name = n}
counted(n) == {i \in get_regionlist(n) : shm.regions[i].time > 0}

(* shmem_talp__get_pidlist, shmem_talp__get_region *)
get_pidlist == {shm.regions[i].pid : i \in Used(shm)}
get_region(p, n) == {shm.regions[i].time : i \in slot_of(shm, p, n)}

size_of(p) == setting.multiplier[p] * (IF mode = "full" THEN FullSize ELSE SmallSize)

-----------------------------------------------------------------------------
(* Regions *)

NewMonitor(n, slot) == [name |-> n, alive |-> TRUE, time |-> 0, slot |-> slot]

shared(n) == mode = "full" \/ (mode = "minimal" /\ n = Global)

(* The monitors of p after d time has passed and the samples were added to *)
(* the open regions, and with an external profiler the shared memory too.  *)
aggregated(p, d) ==
  [i \in DOMAIN heap[p] |-> IF i \in open[p] THEN [heap[p][i] EXCEPT !.time = @ + d]
                            ELSE heap[p][i]]

posted(s, h, ids) ==
  IF mode # "full" THEN s
  ELSE FoldSet(LAMBDA i, acc : set_times(acc, h[i].slot, h[i].time), s, ids)

Elapse(p) == {d \in 0..1 : spent[p] + d <= MaxTime}

(* update_and_aggregate: what every start, stop and update begins with *)
aggregate(p, d) ==
  /\ spent' = [spent EXCEPT ![p] = @ + d]
  /\ heap' = [heap EXCEPT ![p] = aggregated(p, d)]
  /\ shm' = posted(shm, aggregated(p, d), open[p])

(* region_register, first part: t finds that there is no region n. *)
Lookup(p, t, n) ==
  /\ pc[p] = "on"
  /\ looked[p][t] = None
  /\ tree[p][n] = 0
  /\ looked' = [looked EXCEPT ![p][t] = n]
  /\ UNCHANGED <<options, pc, shm, attached, max_regions, tree, heap, open, spent, resume, arrived, calls, reduced>>

(* A new monitor for n is shared if it must be and put in the tree, which  *)
(* frees the one it finds there.                                           *)
insert(p, n) ==
  LET s == IF shared(n) /\ attached[p] > 0 THEN register(shm, p, n, max_regions[p]) ELSE shm
      slot == IF shared(n) /\ attached[p] > 0 THEN registered_slot(s, p, n) ELSE 0
      freed == [i \in DOMAIN heap[p] |-> IF i = tree[p][n] THEN [heap[p][i] EXCEPT !.alive = FALSE]
                                         ELSE heap[p][i]]
  IN [shm |-> s, heap |-> Append(freed, NewMonitor(n, slot)), id |-> Len(heap[p]) + 1]

(* region_register, second part *)
Insert(p, t) ==
  /\ pc[p] = "on"
  /\ looked[p][t] # None
  /\ LET n == looked[p][t]
         r == insert(p, n)
     IN /\ shm' = r.shm
        /\ heap' = [heap EXCEPT ![p] = r.heap]
        /\ tree' = [tree EXCEPT ![p][n] = r.id]
  /\ looked' = [looked EXCEPT ![p][t] = None]
  /\ UNCHANGED <<options, pc, attached, max_regions, open, spent, resume, arrived, calls, reduced>>

(* region_start and region_stop of a region by the main thread, and        *)
(* DLB_MonitoringRegionsUpdate, which aggregates only                      *)
Start(p, n) ==
  /\ pc[p] = "on"
  /\ tree[p][n] # 0 /\ tree[p][n] \notin open[p]
  /\ \E d \in Elapse(p) : aggregate(p, d)
  /\ open' = [open EXCEPT ![p] = @ \cup {tree[p][n]}]
  /\ UNCHANGED <<options, pc, attached, max_regions, tree, looked, resume, arrived, calls, reduced>>

Stop(p, n) ==
  /\ pc[p] = "on"
  /\ tree[p][n] \in open[p]
  /\ \E d \in Elapse(p) : aggregate(p, d)
  /\ open' = [open EXCEPT ![p] = @ \ {tree[p][n]}]
  /\ UNCHANGED <<options, pc, attached, max_regions, tree, looked, resume, arrived, calls, reduced>>

Update(p) ==
  /\ pc[p] = "on"
  /\ open[p] # {}
  /\ \E d \in Elapse(p) : aggregate(p, d)
  /\ UNCHANGED <<options, pc, attached, max_regions, tree, open, looked, resume, arrived, calls, reduced>>

(* region_reset: the times in the shared memory stay. *)
Reset(p, n) ==
  /\ pc[p] = "on"
  /\ n \in Resettable /\ tree[p][n] # 0
  /\ heap' = [heap EXCEPT ![p][tree[p][n]].time = 0]
  /\ open' = [open EXCEPT ![p] = @ \ {tree[p][n]}]
  /\ UNCHANGED <<options, pc, shm, attached, max_regions, tree, looked, spent, resume, arrived, calls, reduced>>

-----------------------------------------------------------------------------
(* Initialization *)

unchanged_regions == <<options, tree, heap, open, looked, spent, resume, arrived, calls, reduced>>

(* open_shmem in p, which notes the size it expects the first time *)
opens(p, size) ==
  /\ shm' = open_shmem(p, size)
  /\ attached' = [attached EXCEPT ![p] = @ + 1]
  /\ max_regions' = [max_regions EXCEPT ![p] = IF attached[p] = 0 THEN size ELSE @]

(* talp_init, in its steps: the shared memory is opened, initialised, and  *)
(* the global region registered and started.                               *)
Open(p) ==
  /\ pc[p] = "off" /\ mode # "none"
  /\ opens(p, size_of(p))
  /\ pc' = [pc EXCEPT ![p] = "opened"]
  /\ UNCHANGED unchanged_regions

Initialize(p) ==
  /\ pc[p] = "opened"
  /\ shm' = initialize(shm, max_regions[p])
  /\ pc' = [pc EXCEPT ![p] = IF differs(shm, max_regions[p]) THEN "refused" ELSE "initialized"]
  /\ UNCHANGED <<attached, max_regions>>
  /\ UNCHANGED unchanged_regions

(* A memory of another size is closed again, and TALP goes on without. *)
Refuse(p) ==
  /\ pc[p] = "refused"
  /\ shm' = close_shmem(shm, p)
  /\ attached' = [attached EXCEPT ![p] = @ - 1]
  /\ pc' = [pc EXCEPT ![p] = "initialized"]
  /\ UNCHANGED max_regions
  /\ UNCHANGED unchanged_regions

RegisterGlobal(p) ==
  /\ pc[p] = IF mode = "none" THEN "off" ELSE "initialized"
  /\ LET r == insert(p, Global) IN
     /\ shm' = r.shm
     /\ heap' = [heap EXCEPT ![p] = r.heap]
     /\ tree' = [tree EXCEPT ![p][Global] = r.id]
     /\ open' = [open EXCEPT ![p] = {r.id}]
  /\ pc' = [pc EXCEPT ![p] = "on"]
  /\ UNCHANGED <<options, attached, max_regions, looked, spent, resume, arrived, calls, reduced>>

-----------------------------------------------------------------------------
(* Collective operations *)

next_call(p, op) ==
  /\ pc[p] = "on"
  /\ looked[p][Main] = None
  /\ calls[p] < Len(collectives)
  /\ collectives[calls[p] + 1] = op

(* Mutant: the barrier lets everybody pass. *)
nobody_waits(p) == TRUE

everyone_arrived(p) == \A q \in Procs : arrived[q] >= arrived[p]

(* talp_collect_pop_node_metrics begins: the region is stopped and, when   *)
(* all regions are shared, its times are posted before the barrier.        *)
Collect(p) ==
  LET m == tree[p][Collected] IN
  /\ next_call(p, "collect")
  /\ m # 0
  /\ calls' = [calls EXCEPT ![p] = @ + 1]
  /\ resume' = [resume EXCEPT ![p] = IF m \in open[p] THEN m ELSE 0]
  /\ open' = [open EXCEPT ![p] = @ \ {m}]
  /\ \E d \in IF m \in open[p] THEN Elapse(p) ELSE {0} :
       LET h == IF m \in open[p] THEN aggregated(p, d) ELSE heap[p]
           s == IF m \in open[p] THEN posted(shm, h, open[p]) ELSE shm
       IN /\ spent' = [spent EXCEPT ![p] = @ + d]
          /\ heap' = [heap EXCEPT ![p] = h]
          /\ IF mode = "full"
             THEN /\ shm' = set_times(s, h[m].slot, h[m].time)
                  /\ UNCHANGED <<attached, max_regions>>
                  /\ arrived' = [arrived EXCEPT ![p] = @ + 1]
                  /\ pc' = [pc EXCEPT ![p] = "barrier"]
             ELSE /\ opens(p, SmallSize)
                  /\ pc' = [pc EXCEPT ![p] = "temporary"]
                  /\ arrived' = arrived
  /\ UNCHANGED <<options, tree, looked, reduced>>

(* A temporary memory is initialised and the region registered in it, if   *)
(* it is not of another size.                                              *)
CollectInitialize(p) ==
  /\ pc[p] = "temporary"
  /\ shm' = initialize(shm, max_regions[p])
  /\ pc' = [pc EXCEPT ![p] = IF differs(shm, max_regions[p]) THEN "unusable" ELSE "post"]
  /\ UNCHANGED <<attached, max_regions>>
  /\ UNCHANGED unchanged_regions

CollectRefuse(p) ==
  /\ pc[p] = "unusable"
  /\ shm' = close_shmem(shm, p)
  /\ attached' = [attached EXCEPT ![p] = @ - 1]
  /\ pc' = [pc EXCEPT ![p] = "post"]
  /\ UNCHANGED max_regions
  /\ UNCHANGED unchanged_regions

(* Without a memory both calls return DLB_ERR_NOSHMEM. *)
CollectPost(p) ==
  LET m == tree[p][Collected]
      s == register(shm, p, Collected, max_regions[p])
      slot == IF slot_of(s, p, Collected) = {} THEN heap[p][m].slot
              ELSE registered_slot(s, p, Collected)
  IN
  /\ pc[p] = "post"
  /\ IF attached[p] = 0 THEN UNCHANGED <<shm, heap>>
     ELSE /\ shm' = set_times(s, slot, heap[p][m].time)
          /\ heap' = [heap EXCEPT ![p][m].slot = slot]
  /\ arrived' = [arrived EXCEPT ![p] = @ + 1]
  /\ pc' = [pc EXCEPT ![p] = "barrier"]
  /\ UNCHANGED <<options, attached, max_regions, tree, open, looked, spent, resume, calls, reduced>>

(* The region is started again if it was: the others are updated first. *)
resume_region(p, s) ==
  /\ pc' = [pc EXCEPT ![p] = "on"]
  /\ resume' = [resume EXCEPT ![p] = 0]
  /\ IF resume[p] = 0
     THEN shm' = s /\ UNCHANGED <<open, spent, heap>>
     ELSE \E d \in Elapse(p) :
            /\ spent' = [spent EXCEPT ![p] = @ + d]
            /\ heap' = [heap EXCEPT ![p] = aggregated(p, d)]
            /\ shm' = posted(s, aggregated(p, d), open[p])
            /\ open' = [open EXCEPT ![p] = @ \cup {resume[p]}]

(* The regions of the node are added up, and the region resumed, after the *)
(* temporary memory has been removed with all regions of the process.      *)
Query(p) ==
  /\ pc[p] = "barrier"
  /\ everyone_arrived(p)
  /\ IF mode = "full" THEN resume_region(p, shm)
     ELSE /\ pc' = [pc EXCEPT ![p] = "queried"]
          /\ UNCHANGED <<shm, open, spent, heap, resume>>
  /\ UNCHANGED <<options, attached, max_regions, tree, looked, arrived, calls, reduced>>

RemoveTemporary(p) ==
  /\ pc[p] = "queried"
  /\ attached' = [attached EXCEPT ![p] = IF @ = 0 THEN 0 ELSE @ - 1]
  /\ resume_region(p, IF attached[p] = 0 THEN shm ELSE finalize(shm, p))
  /\ UNCHANGED <<options, max_regions, tree, looked, arrived, calls, reduced>>

after_summary == IF pop THEN "exchange" ELSE "reduce"

(* talp_mpi_finalize: the global region is stopped and its times posted;   *)
(* with a node summary, the processes wait for each other.                 *)
MpiFinalize(p) ==
  LET m == tree[p][Global] IN
  /\ next_call(p, "finalize")
  /\ calls' = [calls EXCEPT ![p] = @ + 1]
  /\ \E d \in IF m \in open[p] THEN Elapse(p) ELSE {0} :
       LET h == IF m \in open[p] THEN aggregated(p, d) ELSE heap[p]
           s == IF m \in open[p] THEN posted(shm, h, open[p]) ELSE shm
       IN /\ spent' = [spent EXCEPT ![p] = @ + d]
          /\ heap' = [heap EXCEPT ![p] = h]
          /\ shm' = IF attached[p] = 0 THEN shm ELSE set_times(s, h[m].slot, h[m].time)
  /\ open' = [open EXCEPT ![p] = @ \ {m}]
  /\ IF mode = "none"
     THEN pc' = [pc EXCEPT ![p] = after_summary] /\ arrived' = arrived
     ELSE pc' = [pc EXCEPT ![p] = "summary"] /\ arrived' = [arrived EXCEPT ![p] = @ + 1]
  /\ UNCHANGED <<options, attached, max_regions, tree, looked, resume, reduced>>

(* Mutant: the others do not wait for the leader. *)
SummaryOneBarrier(p) ==
  /\ pc[p] = "summary"
  /\ everyone_arrived(p)
  /\ pc' = [pc EXCEPT ![p] = after_summary]
  /\ UNCHANGED <<options, shm, attached, max_regions, tree, heap, open, looked, spent, resume, arrived, calls, reduced>>

(* talp_record_node_summary: between the two barriers the leader reads the *)
(* global regions of the node.                                             *)
Summary(p) ==
  /\ pc[p] = "summary"
  /\ everyone_arrived(p)
  /\ arrived' = [arrived EXCEPT ![p] = @ + 1]
  /\ pc' = [pc EXCEPT ![p] = "gathered"]
  /\ UNCHANGED <<options, shm, attached, max_regions, tree, heap, open, looked, spent, resume, calls, reduced>>

AfterSummary(p) ==
  /\ pc[p] = "gathered"
  /\ everyone_arrived(p)
  /\ pc' = [pc EXCEPT ![p] = after_summary]
  /\ UNCHANGED <<options, shm, attached, max_regions, tree, heap, open, looked, spent, resume, arrived, calls, reduced>>

everyone_exchanges == \A q \in Procs : pc[q] \in {"exchange", "reduce", "done"}

RegisteredNames(p) == {n \in Name : tree[p][n] # 0}

(* The names that a rank has contributed to the exchange. *)
exchanged(q) == IF pc[q] = "done" THEN reduced[q] ELSE RegisteredNames(q)

(* Mutant: the regions of the others are not registered. *)
RegisterOwnRegions(p) ==
  /\ pc[p] = "exchange"
  /\ everyone_exchanges
  /\ pc' = [pc EXCEPT ![p] = "reduce"]
  /\ UNCHANGED <<options, shm, attached, max_regions, tree, heap, open, looked, spent, resume, arrived, calls, reduced>>

missing_names(p) == (UNION {exchanged(q) : q \in Procs}) \ RegisteredNames(p)

Position(names, n) == CHOOSE i \in DOMAIN names : names[i] = n

(* The new monitors of p, for a shared memory s in which they are.         *)
new_monitors(p, names, s) ==
  [i \in DOMAIN names |->
     NewMonitor(names[i], IF mode = "full" /\ attached[p] > 0
                          THEN registered_slot(s, p, names[i]) ELSE 0)]

(* talp_register_common_mpi_regions: the names are exchanged once all      *)
(* ranks are there, and every rank registers those it has not.             *)
RegisterCommonRegions(p) ==
  LET names == SetToSeq(missing_names(p))
      s == IF mode = "full" /\ attached[p] > 0 THEN register_all(shm, p, names) ELSE shm
  IN
  /\ pc[p] = "exchange"
  /\ everyone_exchanges
  /\ shm' = s
  /\ heap' = [heap EXCEPT ![p] = @ \o new_monitors(p, names, s)]
  /\ tree' = [tree EXCEPT ![p] = [n \in Name |-> IF n \in missing_names(p)
                THEN Len(heap[p]) + Position(names, n) ELSE tree[p][n]]]
  /\ pc' = [pc EXCEPT ![p] = "reduce"]
  /\ UNCHANGED <<options, attached, max_regions, open, looked, spent, resume, arrived, calls, reduced>>

(* Every region of the tree is reduced among all ranks, if that summary is *)
(* asked for, then talp_finalize *)
(* stops the open regions and removes those of the process from the shared *)
(* memory and from the process.                                            *)
Finalize(p) ==
  /\ pc[p] = "reduce"
  /\ reduced' = [reduced EXCEPT ![p] = IF pop THEN RegisteredNames(p) ELSE {}]
  /\ shm' = IF attached[p] = 0 THEN shm ELSE finalize(shm, p)
  /\ attached' = [attached EXCEPT ![p] = 0]
  /\ open' = [open EXCEPT ![p] = {}]
  /\ heap' = [heap EXCEPT ![p] = <<>>]
  /\ tree' = [tree EXCEPT ![p] = [n \in Name |-> 0]]
  /\ pc' = [pc EXCEPT ![p] = "done"]
  /\ UNCHANGED <<options, max_regions, looked, spent, resume, arrived, calls>>

-----------------------------------------------------------------------------
(* Other processes, and crashes *)

(* shmem_talp_ext__init (DLB_TALP_Attach), shmem_talp_ext__finalize *)
Attach(x) ==
  /\ attached[x] = 0
  /\ shm' = open_shmem(x, SmallSize)
  /\ attached' = [attached EXCEPT ![x] = 1]
  /\ UNCHANGED <<pc, max_regions>>
  /\ UNCHANGED unchanged_regions

Detach(x) ==
  /\ attached[x] = 1
  /\ shm' = close_shmem(shm, x)
  /\ attached' = [attached EXCEPT ![x] = 0]
  /\ UNCHANGED <<pc, max_regions>>
  /\ UNCHANGED unchanged_regions

Crash(p) ==
  /\ pc[p] \notin {"off", "done", "dead"}
  /\ Cardinality(Dead) < MaxCrashes
  /\ pc' = [pc EXCEPT ![p] = "dead"]
  /\ UNCHANGED <<shm, attached, max_regions>>
  /\ UNCHANGED unchanged_regions

Next ==
  \/ \E p \in Procs :
       \/ Open(p) \/ Initialize(p) \/ Refuse(p) \/ RegisterGlobal(p)
       \/ \E t \in Threads : Insert(p, t) \/ \E n \in Names : Lookup(p, t, n)
       \/ \E n \in Name : Start(p, n) \/ Stop(p, n) \/ Reset(p, n)
       \/ Update(p)
       \/ Collect(p) \/ CollectInitialize(p) \/ CollectRefuse(p) \/ CollectPost(p)
       \/ Query(p) \/ RemoveTemporary(p)
       \/ MpiFinalize(p) \/ Summary(p) \/ AfterSummary(p)
       \/ RegisterCommonRegions(p) \/ Finalize(p)
       \/ Crash(p)
  \/ \E x \in Observers : Attach(x) \/ Detach(x)

Spec == Init /\ [][Next]_vars

-----------------------------------------------------------------------------
(* Properties *)

Live == {p \in Procs : pc[p] \notin {"off", "done", "dead"}}

(* What a process posts in the shared memory goes to a slot of its own and *)
(* of the same region, also when others died and were cleaned up: the slot *)
(* that a monitor was given when it was registered is not given to another *)
(* process (set_times does not check).  Not so with three processes.       *)
SlotsAreOwn ==
  \A p \in Live : \A i \in DOMAIN heap[p] :
    LET m == heap[p][i] IN
    shared(m.name) /\ m.alive /\ m.slot \in Used(shm) =>
      /\ shm.regions[m.slot].pid = p
      /\ shm.regions[m.slot].name = m.name

(* All regions that processes post to lie within the file. *)
SlotsInFile == Len(shm.regions) <= shm.size \/ shm.size = 0

(* All processes of the node were given the same size of the memory, as    *)
(* the warning of shmem_talp__init asks for.                               *)
SameSize == \A p, q \in Procs : setting.multiplier[p] = setting.multiplier[q]

(* Given the same size, a process that leaves the node barrier of a        *)
(* collection finds what every process has posted for it ("ensure everyone *)
(* has updated their metrics"), unless the memory is a temporary one and   *)
(* the other process has gone on and removed its regions.                  *)
EveryoneIsCounted ==
  [][\A p \in Procs : SameSize /\ pc[p] = "barrier" /\ pc'[p] \in {"on", "queried"} =>
       \A q \in Procs \ Dead :
         /\ calls[q] >= calls[p]
         /\ pc[q] \in {"temporary", "unusable", "post"} => calls[q] > calls[p]
         /\ pc[q] = "barrier" /\ calls[q] = calls[p] =>
              get_region(q, Collected) = {heap[q][tree[q][Collected]].time}]_vars

(* The same without the exception. *)
EveryoneIsStillCounted ==
  [][\A p \in Procs : pc[p] = "barrier" /\ pc'[p] \in {"on", "queried"} =>
       \A q \in Procs \ Dead :
         calls[q] = calls[p] /\ heap[q][tree[q][Collected]].time > 0
         => \E i \in counted(Collected) : shm.regions[i].pid = q]_vars

(* The memory of the node summary is there until the end, unless it only   *)
(* has the global regions and there was a collection, which removes them.  *)
MemoryIsKept == mode = "full" \/ ~Contains(collectives, "collect")

(* Given the same size, and with --talp-summary=node alone only if nothing *)
(* was collected before: when the leader reads the global regions for the  *)
(* node summary, all processes of the node are there with their final      *)
(* times, and so there is at least one to take the average of.  After a    *)
(* collection without external profiler the regions are gone, set_times    *)
(* fails, and the average divides by the 0 regions found.                  *)
SummaryIsComplete ==
  [][SameSize /\ MemoryIsKept /\ pc[Leader] = "summary" /\ pc'[Leader] \notin {"summary", "dead"} =>
       \A q \in Procs \ Dead : /\ tree[q][Global] # 0
                               /\ get_region(q, Global) = {heap[q][tree[q][Global]].time}]_vars

(* All ranks reduce the same regions, or they would wait in different      *)
(* collective operations of MPI for ever.                                  *)
SameReductions ==
  \A p, q \in Procs : pc[p] = "done" /\ pc[q] = "done" => reduced[p] = reduced[q]

(* The tree owns the monitors: a region that is open has not been freed. *)
OpenAreAlive ==
  \A p \in Live : \A i \in open[p] : heap[p][i].alive

(* The slots of a memory being used were not given up by a late            *)
(* initialization: a process that opened the memory before another one     *)
(* zeroed it and a third one registered a region in it will give the same  *)
(* slots again.                                                            *)
NoLateInitialization ==
  ~ \E p \in Procs : pc[p] \in {"opened", "temporary"} /\ ~shm.initialized /\ Used(shm) # {}

=============================================================================
