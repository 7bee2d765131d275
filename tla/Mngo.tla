-------------------------------- MODULE Mngo --------------------------------
(* MNGO, the manager that measures the processes of a node with TALP and   *)
(* decides together with them when to switch LeWI on or to move cores with *)
(* DROM (mngo.c, mngo_drom.c, mngo_regions.c, mngo_metrics.c,              *)
(* mngo_resources.c and the shared memory of shmem_mngo.c).                *)
(*                                                                         *)
(* With regions the application calls the manager at the start and at the  *)
(* end of each region; the processes meet at the barriers of the shared    *)
(* memory many times in one call, and a step of the model is the code      *)
(* between two of them.  With helper threads each process has a thread     *)
(* that wakes up now and then.  A core is one CPU.                         *)
EXTENDS Integers, Sequences, FiniteSets, Balancer

CONSTANTS Proc,        \* the processes of the node
          Core,        \* its cores, 1..n
          Region,      \* the names of the regions
          Useful,      \* the useful times a region can measure, out of Total
          Total,       \* useful and MPI time of a process in a region
          Threshold,   \* mngo_lb_in_threshold, in percent
          Window,      \* MNGO_HISTORY_WINDOW
          Options,     \* the programs explored: mngo_mode, lewi and drom, the
                       \* masks the processes start with and their calls
          Timeouts     \* the interval of the helper threads may pass

ASSUME InitialIsPartition ==
  \A o \in Options :
    /\ o.initial \in [Proc -> (SUBSET Core) \ {{}}]
    /\ \A p, q \in Proc : p # q => o.initial[p] \cap o.initial[q] = {}

NONE == 0
LEWI_START == 1
LEWI_STOP == 2
DROM == 3
NOBODY == 0
Slot == 0..(Cardinality(Proc) - 1)
Barriers == {"pthread", "node", "talp", "mpi"}

VARIABLES
  opt,        \* the program: its options and calls, the same in every process
  pc,         \* where each process is, by the code it runs next
  waiting,    \* who waits at each barrier
  mid,        \* the manager id of each process, its slot in the memory
  shm,        \* the shared memory
  mask,       \* the masks of the processes in the table of DROM, current ...
  future,     \* ... and future: a process is dirty while they differ
  stole,      \* a process took a core from another one, or could not
  uneven,     \* the processes gave more cores than they took, or fewer
  lewi,       \* spd->lewi_enabled
  state,      \* what each process keeps: default_state and its regions
  active,     \* the stack of active regions, the top first
  at,         \* the locals of the call in progress
  done,       \* how many of its calls each process has begun
  helper      \* the helper threads

drom == <<mask, future, stole>>
vars == <<opt, pc, waiting, mid, shm, drom, uneven, lewi, state, active, at, done, helper>>

ZeroInfo == [pid |-> NOBODY, actions |-> NONE, drom_core_change |-> 0]
NoLocals == [region |-> CHOOSE r \in Region : TRUE, useful |-> 0, delta |-> 0,
             action |-> NONE, next |-> {}]

Init ==
  /\ opt \in Options
  /\ pc = [p \in Proc |-> "init"]
  /\ waiting = [b \in Barriers |-> {}]
  /\ mid = [p \in Proc |-> -1]
  /\ shm = [info |-> [s \in Slot |-> ZeroInfo], attached |-> 0, stop |-> FALSE,
            available |-> {}, stop_lock |-> "free", manager_lock |-> "free"]
  /\ mask = opt.initial
  /\ future = opt.initial
  /\ stole = FALSE
  /\ uneven = FALSE
  /\ lewi = [p \in Proc |-> FALSE]
  /\ state = [p \in Proc |-> [r \in {} |-> {}]]
  /\ active = [p \in Proc |-> <<>>]
  /\ at = [p \in Proc |-> NoLocals]
  /\ done = [p \in Proc |-> 0]
  /\ helper = [p \in Proc |-> "none"]

-----------------------------------------------------------------------------
(* Barriers: the last to arrive lets everybody go.  The barrier of the     *)
(* shared memory is left to the helper thread of a process that has one.   *)

Waits(p) ==
  \E b \in Barriers : p \in waiting[b] /\ (b = "pthread" => helper[p] = "none")

Arrive(p, b) ==
  waiting' = [waiting EXCEPT ![b] = IF @ \cup {p} = Proc THEN {} ELSE @ \cup {p}]

(* The code of p from here to the barrier b, after which it is at next. *)
Meet(p, b, next) == Arrive(p, b) /\ pc' = [pc EXCEPT ![p] = next]

At(p, label) == pc[p] = label /\ ~ Waits(p)

(* The call returns. *)
Return(p) == pc' = [pc EXCEPT ![p] = "idle"] /\ UNCHANGED waiting

-----------------------------------------------------------------------------
(* Regions *)

Default == "default"
NewState(lewi_on, drom_mask) ==
  [lewi_on |-> lewi_on, drom_mask |-> drom_mask, history |-> <<>>, elements |-> 0]

mngo_regions__check_top(p, r) == active[p] # <<>> /\ Head(active[p]) = r

CurrentOf(stack) == IF stack = <<>> THEN Default ELSE Head(stack)
mngo_regions__get_current_resources(p) == state[p][CurrentOf(active[p])]

(* A new region inherits the current state. *)
mngo_region_register(p, r) ==
  state' = IF r \in DOMAIN state[p] THEN state
           ELSE [state EXCEPT ![p] =
                   [n \in DOMAIN @ \cup {r} |->
                      IF n = r THEN [mngo_regions__get_current_resources(p)
                                       EXCEPT !.history = <<>>, !.elements = 0]
                      ELSE @[n]]]

(* The table of DROM.  A process that asks for its own mask gets what      *)
(* others have left it.                                                    *)
getprocessmask_self(p) == mask' = [mask EXCEPT ![p] = future[p]]

Dirty(p) == future[p] # mask[p]
Victims(p, new) == {q \in Proc \ {p} : mask[q] \cap (new \ mask[p]) # {}}
MaySet(p, new) ==
  /\ ~ Dirty(p) \/ new = future[p]
  /\ \A q \in Victims(p, new) : ~ Dirty(q)

(* The mask of the calling process.  Cores of another process are taken    *)
(* from it, which it learns when it looks; not if it has yet to learn of   *)
(* an earlier change.                                                      *)
drom_setprocessmask(p, new) ==
  /\ mask' = IF MaySet(p, new) THEN [mask EXCEPT ![p] = new] ELSE mask
  /\ future' = IF MaySet(p, new)
                 THEN [q \in Proc |-> IF q = p THEN new
                                      ELSE IF q \in Victims(p, new) THEN mask[q] \ new
                                      ELSE future[q]]
                 ELSE future
  /\ stole' = (stole \/ ~ MaySet(p, new) \/ Victims(p, new) # {})

(* mngo_state__load: the process reads its mask ... *)
LoadState(p, s) ==
  /\ lewi' = [lewi EXCEPT ![p] = opt.lewi /\ s.lewi_on]
  /\ IF opt.drom
       THEN /\ getprocessmask_self(p) /\ UNCHANGED <<future, stole>>
            /\ pc' = [pc EXCEPT ![p] = "loading"] /\ UNCHANGED waiting
       ELSE /\ UNCHANGED drom
            /\ Meet(p, "pthread", "poll")

(* Mutant: nothing is given up before the barrier. *)
LoadingAtOnce(p) ==
  /\ At(p, "loading")
  /\ Meet(p, "pthread", "loaded")
  /\ UNCHANGED <<opt, mid, shm, drom, uneven, lewi, state, active, at, done, helper>>

(* ... gives up what it will not keep, and meets the others; if it cannot, *)
(* it returns, and the barrier it goes to is the last one of the call.     *)
Loading(p) ==
  LET kept == mask[p] \cap mngo_regions__get_current_resources(p).drom_mask
  IN  /\ At(p, "loading")
      /\ drom_setprocessmask(p, kept)
      /\ Meet(p, "pthread", IF MaySet(p, kept) THEN "loaded" ELSE "poll")
      /\ UNCHANGED <<opt, mid, shm, uneven, lewi, state, active, at, done, helper>>

(* The cores it gets are free by now.  Nobody looks at the error.          *)
Loaded(p) ==
  /\ At(p, "loaded")
  /\ drom_setprocessmask(p, mngo_regions__get_current_resources(p).drom_mask)
  /\ Meet(p, "pthread", "poll")
  /\ UNCHANGED <<opt, mid, shm, uneven, lewi, state, active, at, done, helper>>

(* poll_drom_update, with which the call ends *)
Poll(p) ==
  /\ At(p, "poll")
  /\ IF opt.drom THEN getprocessmask_self(p) ELSE UNCHANGED mask
  /\ Return(p)
  /\ UNCHANGED <<opt, mid, shm, future, stole, uneven, lewi, state, active, at, done, helper>>

-----------------------------------------------------------------------------
(* Decisions *)

(* The history is a ring of Window slots that is never emptied.  Whoever   *)
(* goes through it stops at the first slot, so that the measures before    *)
(* the last wrap are out of sight, but elements goes on counting them.     *)
mngo_metrics__history_emplace(region, metrics) ==
  [region EXCEPT !.history = IF Len(@) = Window THEN <<metrics>> ELSE Append(@, metrics),
                 !.elements = @ + 1]

(* The tendency of the efficiencies: the average of the history, the last  *)
(* measure with the greatest weight, which is the number of elements.  The *)
(* two sums have the same divisor.                                         *)
Tendency(region, field) ==
  LET n == Len(region.history)
  IN  MapThenSumSet(LAMBDA i : (region.elements - n + i) * region.history[i][field], 1..n)

(* The ratio of the efficiency of the process to that of the node, as a    *)
(* pair of numbers; the node's may be zero.                                *)
Ratio(region) ==
  [num |-> Tendency(region, "self") * Cardinality(Proc),
   den |-> Tendency(region, "shared")]

lb_in(ratio) ==
  /\ ratio.den > 0
  /\ Abs(ratio.num - ratio.den) * 100 > Threshold * ratio.den

mngo_actions(region) ==
  IF ~ lb_in(Ratio(region)) THEN NONE
  ELSE IF opt.drom THEN DROM
  ELSE IF opt.lewi THEN LEWI_START
  ELSE NONE

(* Mutant: a process looks only at its own action. *)
alltoall_own(p) == shm.info[mid[p]].actions

alltoall_actions(p) ==
  Max({NONE} \cup {shm.info[s].actions : s \in {s \in Slot : shm.info[s].pid # NOBODY}})

(* The top region takes the decision over, is left, and the state of the   *)
(* region below it is loaded.                                              *)
mngo_apply_actions(p, action, next) ==
  LET r == CurrentOf(active[p])
      new == [state[p][r] EXCEPT
                !.lewi_on = CASE action = LEWI_START -> TRUE
                              [] action = LEWI_STOP  -> FALSE
                              [] OTHER -> @,
                !.drom_mask = IF action = DROM THEN next ELSE @]
  IN  state' = [state EXCEPT ![p][r] = new]

Conclude(p, action, next) ==
  /\ mngo_apply_actions(p, action, next)
  /\ active' = [active EXCEPT ![p] = Tail(@)]
  /\ LoadState(p, state'[p][CurrentOf(Tail(active[p]))])

(* The highest n cores of a set. *)
Last(n, S) == {c \in S : Cardinality({d \in S : d > c}) < n}

-----------------------------------------------------------------------------
(* The end of a region, from barrier to barrier *)

(* The region is measured; the collection of the node's metrics meets all. *)
EndRegion(p) ==
  /\ At(p, "end")
  /\ IF mngo_regions__check_top(p, at[p].region)
       THEN /\ \E u \in Useful : at' = [at EXCEPT ![p].useful = u]
            /\ Meet(p, "talp", "metrics")
       ELSE Return(p) /\ UNCHANGED at
  /\ UNCHANGED <<opt, mid, shm, drom, uneven, lewi, state, active, done, helper>>

Decide(p) ==
  LET r == at[p].region
      metrics == [self |-> at[p].useful,
                  shared |-> MapThenSumSet(LAMBDA q : at[q].useful, Proc)]
      region == mngo_metrics__history_emplace(state[p][r], metrics)
  IN  /\ At(p, "metrics")
      /\ state' = [state EXCEPT ![p][r] = region]
      /\ shm' = [shm EXCEPT !.info[mid[p]].actions = mngo_actions(region)]
      /\ Meet(p, "pthread", "actions")
      /\ UNCHANGED <<opt, mid, drom, uneven, lewi, active, at, done, helper>>

Agree(p) ==
  LET action == alltoall_actions(p)
      ratio == Ratio(state[p][at[p].region])
      wish == balance(Cardinality(future[p]), ratio.num, ratio.den)
  IN  /\ At(p, "actions")
      /\ at' = [at EXCEPT ![p].action = action]
      /\ IF action = DROM
           THEN /\ getprocessmask_self(p)
                /\ shm' = [shm EXCEPT !.info[mid[p]].drom_core_change = wish]
                /\ Meet(p, "pthread", "deltas")
                /\ UNCHANGED <<future, stole, lewi, state, active>>
           ELSE Conclude(p, action, {}) /\ UNCHANGED shm
      /\ UNCHANGED <<opt, mid, uneven, done, helper>>

Collect(p) ==
  LET deltas == [s \in Slot |-> IF shm.info[s].pid = NOBODY THEN 0
                                ELSE shm.info[s].drom_core_change]
  IN  /\ At(p, "deltas")
      /\ at' = [at EXCEPT ![p].delta = mngo_balancer(mid[p], deltas)]
      /\ Meet(p, "pthread", "collected")
      /\ UNCHANGED <<opt, mid, shm, drom, uneven, lewi, state, active, done, helper>>

CleanUp(p) ==
  /\ At(p, "collected")
  /\ shm' = IF mid[p] # 0 THEN shm
            ELSE [shm EXCEPT !.info = [s \in Slot |-> [@[s] EXCEPT !.drom_core_change = 0]]]
  /\ Meet(p, "pthread", "give")
  /\ UNCHANGED <<opt, mid, drom, uneven, lewi, state, active, at, done, helper>>

(* Whoever has to give more than it has ends the program. *)
Give(p) ==
  LET freed == Last(-at[p].delta, future[p])
  IN  /\ At(p, "give")
      /\ getprocessmask_self(p) /\ UNCHANGED <<future, stole>>
      /\ uneven' = (uneven \/ MapThenSumSet(LAMBDA q : at[q].delta, Proc) # 0)
      /\ IF -at[p].delta > Cardinality(future[p])
           THEN /\ pc' = [pc EXCEPT ![p] = "aborted"]
                /\ UNCHANGED <<at, shm, waiting>>
           ELSE /\ at' = [at EXCEPT ![p].next = future[p] \ freed]
                /\ shm' = [shm EXCEPT !.available = @ \cup freed]
                /\ Meet(p, "pthread", "take")
      /\ UNCHANGED <<opt, mid, lewi, state, active, done, helper>>

(* Mutant: what is taken stays available. *)
TakeACopy(p) ==
  /\ At(p, "take")
  /\ at' = [at EXCEPT ![p].next = @ \cup Last(at[p].delta, shm.available)]
  /\ Meet(p, "pthread", "report")
  /\ UNCHANGED <<opt, mid, shm, drom, uneven, lewi, state, active, done, helper>>

(* What is missing is not taken. *)
Take(p) ==
  LET taken == Last(at[p].delta, shm.available)
  IN  /\ At(p, "take")
      /\ at' = [at EXCEPT ![p].next = @ \cup taken]
      /\ shm' = [shm EXCEPT !.available = @ \ taken]
      /\ Meet(p, "pthread", "report")
      /\ UNCHANGED <<opt, mid, drom, uneven, lewi, state, active, done, helper>>

(* The report of the redistribution has a barrier more. *)
Report(p) ==
  /\ At(p, "report")
  /\ Meet(p, "pthread", "apply")
  /\ UNCHANGED <<opt, mid, shm, drom, uneven, lewi, state, active, at, done, helper>>

Redistributed(p) ==
  /\ At(p, "apply")
  /\ Conclude(p, DROM, at[p].next)
  /\ UNCHANGED <<opt, mid, shm, uneven, at, done, helper>>

-----------------------------------------------------------------------------
(* Calls of the application *)

(* mngo_init: the first free slot, and nobody goes on until all are in.    *)
MngoInit(p) ==
  LET s == Min({s \in Slot : shm.info[s].pid = NOBODY})
  IN  /\ At(p, "init")
      /\ mid' = [mid EXCEPT ![p] = s]
      /\ shm' = [shm EXCEPT !.info[s].pid = p, !.attached = @ + 1]
      /\ state' = [state EXCEPT ![p] = [r \in {Default} |-> NewState(FALSE, mask[p])]]
      /\ Meet(p, "pthread", "ready")
      /\ UNCHANGED <<opt, drom, uneven, lewi, active, at, done, helper>>

Initialized(p) ==
  /\ At(p, "ready")
  /\ Return(p)
  /\ helper' = [helper EXCEPT ![p] = IF opt.mode = "helper" THEN "run" ELSE "none"]
  /\ UNCHANGED <<opt, mid, shm, drom, uneven, lewi, state, active, at, done>>

(* The next call of the program of p. *)
Call(p, call) ==
  /\ At(p, "idle")
  /\ done[p] < Len(opt.calls) /\ opt.calls[done[p] + 1] = call
  /\ done' = [done EXCEPT ![p] = @ + 1]

Register(p, r) ==
  /\ opt.mode = "regions"
  /\ Call(p, <<"register", r>>)
  /\ mngo_region_register(p, r)
  /\ UNCHANGED <<opt, pc, waiting, mid, shm, drom, uneven, lewi, active, at, helper>>

RegionStart(p, r) ==
  /\ opt.mode = "regions" /\ r \in DOMAIN state[p]
  /\ Call(p, <<"start", r>>)
  /\ IF mngo_regions__check_top(p, r)
       THEN Return(p) /\ UNCHANGED <<drom, lewi, active>>
       ELSE /\ active' = [active EXCEPT ![p] = <<r>> \o @]
            /\ LoadState(p, state[p][r])
  /\ UNCHANGED <<opt, mid, shm, uneven, state, at, helper>>

RegionStop(p, r) ==
  /\ opt.mode = "regions" /\ r \in DOMAIN state[p]
  /\ Call(p, <<"stop", r>>)
  /\ at' = [at EXCEPT ![p].region = r]
  /\ Meet(p, "node", "end")
  /\ UNCHANGED <<opt, mid, shm, drom, uneven, lewi, state, active, helper>>

(* DLB_MNGO_Wake_manager *)
WakeManager(p) ==
  /\ opt.mode = "helper"
  /\ Call(p, <<"wake">>)
  /\ mid[p] = 0 => shm.manager_lock = "free"
  /\ helper' = IF mid[p] = 0 /\ helper[p] = "asleep"
                 THEN [helper EXCEPT ![p] = "signalled"] ELSE helper
  /\ UNCHANGED <<opt, pc, waiting, mid, shm, drom, uneven, lewi, state, active, at>>

MngoFini(p) ==
  /\ Call(p, <<"fini">>)
  /\ Meet(p, "mpi", "fini")
  /\ UNCHANGED <<opt, mid, shm, drom, uneven, lewi, state, active, at, helper>>

(* shmem_mngo_manager_wake_finalize takes stop_lock and then manager_lock. *)
FiniFirstLock(p) ==
  /\ At(p, "fini") /\ mid[p] = 0
  /\ shm.stop_lock = "free"
  /\ shm' = [shm EXCEPT !.stop_lock = "app"]
  /\ pc' = [pc EXCEPT ![p] = "fini_locked"]
  /\ UNCHANGED <<opt, waiting, mid, drom, uneven, lewi, state, active, at, done, helper>>

(* Mutant: the manager is woken up without the flag. *)
FiniStopUnsaid(p) ==
  /\ At(p, "fini_locked")
  /\ shm.manager_lock = "free"
  /\ shm' = [shm EXCEPT !.stop_lock = "free"]
  /\ helper' = [helper EXCEPT ![p] = IF @ = "asleep" THEN "signalled" ELSE @]
  /\ pc' = [pc EXCEPT ![p] = "join"]
  /\ UNCHANGED <<opt, waiting, mid, drom, uneven, lewi, state, active, at, done>>

FiniStop(p) ==
  /\ At(p, "fini_locked")
  /\ shm.manager_lock = "free"
  /\ shm' = [shm EXCEPT !.stop = TRUE, !.stop_lock = "free"]
  /\ helper' = [helper EXCEPT ![p] = IF @ = "asleep" THEN "signalled" ELSE @]
  /\ pc' = [pc EXCEPT ![p] = "join"]
  /\ UNCHANGED <<opt, waiting, mid, drom, uneven, lewi, state, active, at, done>>

FiniOther(p) ==
  /\ At(p, "fini") /\ mid[p] # 0
  /\ pc' = [pc EXCEPT ![p] = "join"]
  /\ UNCHANGED <<opt, waiting, mid, shm, drom, uneven, lewi, state, active, at, done,
                 helper>>

(* Without a helper thread the process itself leaves the shared memory. *)
Join(p) ==
  /\ At(p, "join")
  /\ IF opt.mode = "helper"
       THEN /\ helper[p] = "out"
            /\ pc' = [pc EXCEPT ![p] = "out"]
            /\ UNCHANGED <<waiting, shm>>
       ELSE /\ shm' = [shm EXCEPT !.attached = @ - 1]
            /\ Meet(p, "pthread", "sync")
  /\ UNCHANGED <<opt, mid, drom, uneven, lewi, state, active, at, done, helper>>

(* shmem_mngo_fini_sync goes round until nobody is attached. *)
FiniSync(p) ==
  /\ At(p, "sync")
  /\ IF shm.attached = 0
       THEN /\ shm' = [shm EXCEPT !.info[mid[p]].pid = NOBODY]
            /\ pc' = [pc EXCEPT ![p] = "out"]
            /\ UNCHANGED waiting
       ELSE Meet(p, "pthread", "sync") /\ UNCHANGED shm
  /\ UNCHANGED <<opt, mid, drom, uneven, lewi, state, active, at, done, helper>>

-----------------------------------------------------------------------------
(* The helper thread *)

HelperAt(p, label) == helper[p] = label /\ p \notin waiting["pthread"]

HelperMeets(p, next) == Arrive(p, "pthread") /\ helper' = [helper EXCEPT ![p] = next]

OnlyHelper == <<opt, pc, mid, drom, uneven, lewi, state, active, at, done>>

(* mngo_helper_thread: manager 0 sleeps, the others wait for it.  It       *)
(* releases stop_lock, which only it holds while it is awake.              *)
HelperRun(p) ==
  /\ HelperAt(p, "run")
  /\ IF mid[p] = 0
       THEN /\ shm.manager_lock = "free"
            /\ shm' = [shm EXCEPT !.stop_lock = "free"]
            /\ helper' = [helper EXCEPT ![p] = "asleep"]
            /\ UNCHANGED waiting
       ELSE HelperMeets(p, "check") /\ UNCHANGED shm
  /\ UNCHANGED OnlyHelper

(* The wait ends, by a signal or by the clock, with manager_lock ... *)
HelperAwakes(p) ==
  /\ helper[p] \in {"asleep", "signalled"}
  /\ ~ Timeouts => helper[p] = "signalled"
  /\ shm.manager_lock = "free"
  /\ shm' = [shm EXCEPT !.manager_lock = "helper"]
  /\ helper' = [helper EXCEPT ![p] = "awake"]
  /\ UNCHANGED OnlyHelper /\ UNCHANGED waiting

(* ... then it takes stop_lock, and meets the others. *)
HelperRuns(p) ==
  /\ helper[p] = "awake"
  /\ shm.stop_lock = "free"
  /\ shm' = [shm EXCEPT !.manager_lock = "free", !.stop_lock = "helper"]
  /\ HelperMeets(p, "check")
  /\ UNCHANGED OnlyHelper

(* Either the managers stop, or mngo_manager runs.  It is asked to end the *)
(* region and to begin it again, finds that the region is not the active   *)
(* one, and returns before it begins it.                                   *)
HelperChecks(p) ==
  /\ HelperAt(p, "check")
  /\ IF shm.stop
       THEN /\ shm' = [shm EXCEPT !.attached = @ - 1]
            /\ HelperMeets(p, "sync")
       ELSE /\ active[p] = <<>>
            /\ helper' = [helper EXCEPT ![p] = "run"]
            /\ UNCHANGED <<shm, waiting>>
  /\ UNCHANGED OnlyHelper

HelperSync(p) ==
  /\ HelperAt(p, "sync")
  /\ IF shm.attached = 0
       THEN /\ shm' = [shm EXCEPT !.info[mid[p]].pid = NOBODY]
            /\ helper' = [helper EXCEPT ![p] = "out"]
            /\ UNCHANGED waiting
       ELSE HelperMeets(p, "sync") /\ UNCHANGED shm
  /\ UNCHANGED OnlyHelper

-----------------------------------------------------------------------------
Manager(p) ==
  \/ MngoInit(p) \/ Initialized(p) \/ Loading(p) \/ Loaded(p) \/ Poll(p) \/ EndRegion(p) \/ Decide(p) \/ Agree(p)
  \/ Collect(p) \/ CleanUp(p) \/ Give(p) \/ Take(p) \/ Report(p) \/ Redistributed(p)

Finalize(p) ==
  FiniFirstLock(p) \/ FiniStop(p) \/ FiniOther(p) \/ Join(p) \/ FiniSync(p)

Helper(p) ==
  HelperRun(p) \/ HelperAwakes(p) \/ HelperRuns(p) \/ HelperChecks(p) \/ HelperSync(p)

Calls(p) ==
  \/ WakeManager(p) \/ MngoFini(p)
  \/ \E r \in Region : Register(p, r) \/ RegionStart(p, r) \/ RegionStop(p, r)

Next == \E p \in Proc : Manager(p) \/ Finalize(p) \/ Helper(p) \/ Calls(p)

(* The threads that finalize go on as long as they can. *)
Fairness == \A p \in Proc : WF_vars(Finalize(p)) /\ WF_vars(Helper(p))

Spec == Init /\ [][Next]_vars /\ Fairness

-----------------------------------------------------------------------------
(* What the code does not guarantee; some properties say what it           *)
(* guarantees as long as these do hold.                                    *)

(* The invariant of shmem_mngo_drom__redistribute: the changes of all      *)
(* processes add up to 0.                                                  *)
DeltasAddUp == ~ uneven

(* The helper thread of manager 0 has manager_lock and wants stop_lock     *)
(* while the application has stop_lock and wants manager_lock.             *)
NoLockCycle ==
  \A p \in Proc : ~ (helper[p] = "awake" /\ pc[p] = "fini_locked")

(* No helper thread is still to read the flag of a round when the flag is  *)
(* set during the sleep of the next one.                                   *)
StopTogether ==
  \A p, q \in Proc :
    shm.stop /\ HelperAt(p, "check") =>
      /\ helper[q] \notin {"run", "asleep", "signalled", "awake"}
      /\ ~ (helper[q] = "check" /\ q \in waiting["pthread"])

(* A process always has a core, as "Keep at least one core" in balance     *)
(* says.                                                                   *)
KeepsACore == \A p \in Proc : mask[p] # {}

-----------------------------------------------------------------------------
(* Properties *)

Quiet == \A p, q \in Proc : At(p, "idle") /\ done[p] = done[q]

(* Between the calls, the states the processes keep for one region, and    *)
(* their default states, divide the cores of the node: no core is in two   *)
(* masks, and none is lost, whatever redistributions there have been       *)
(* (mngo_drom__balance, shmem_mngo_drom__redistribute, mngo_apply_actions) *)
(* - provided that in each of them the processes gave as many cores as     *)
(* they took.  That is the invariant shmem_mngo_drom__redistribute asks    *)
(* for; mngo_balancer does not always keep it, and then cores that were    *)
(* given remain in nobody's mask.                                          *)
RegionsPartition ==
  DeltasAddUp /\ Quiet =>
    \A r \in {Default} \cup Region :
      (\A p \in Proc : r \in DOMAIN state[p]) =>
        /\ \A p, q \in Proc :
             p # q => state[p][r].drom_mask \cap state[q][r].drom_mask = {}
        /\ UNION {state[p][r].drom_mask : p \in Proc}
             = UNION {opt.initial[p] : p \in Proc}

(* A process that loads the state of a region finds its cores free, and    *)
(* never meets a change it has not seen: the others have given up theirs   *)
(* at the barrier of mngo_state__load.  It holds in later redistributions  *)
(* too, and when the changes do not add up to 0.                           *)
LoadsWithoutStealing == ~ stole

(* All processes take the same action at the end of a region, although     *)
(* each reads the actions of the others on its own, without the lock, and  *)
(* a process that has left the barrier writes its action of the next       *)
(* region as soon as it gets there; otherwise they would wait at different *)
(* barriers.                                                               *)
ActionsAgree ==
  LET After == {"deltas", "collected", "give", "take", "report", "apply", "loading",
                "loaded", "poll", "idle"}
  IN  \A p, q \in Proc :
        /\ {pc[p], pc[q]} \subseteq After
        /\ done[p] = done[q]
        => at[p].action = at[q].action

(* Once manager 0 has got the first lock of mngo_fini, every process       *)
(* leaves: nobody is left alone at a barrier of the shared memory, or in   *)
(* pthread_join.  It holds for the executions in which the two threads of  *)
(* manager 0 never hold one of the two locks each, and in which no helper  *)
(* thread reads the flag of one round when it has been set in the next;    *)
(* in the others finalization may well not end.  That the first lock is    *)
(* obtained while the helper thread keeps taking it is left to the mutex.  *)
FinalizationEnds ==
  []NoLockCycle /\ []StopTogether =>
    ((\E p \in Proc : pc[p] = "fini_locked") ~> (\A p \in Proc : pc[p] = "out"))
=============================================================================
