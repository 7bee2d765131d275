------------------------------ MODULE OmpTool ------------------------------
(***************************************************************************)
(* omptool.c: DLB as a tool of the OpenMP runtime.  The runtime starts the *)
(* tool, which initializes DLB, chooses the thread manager and registers   *)
(* the callbacks; it then reports the events of its threads, and each one  *)
(* is passed to the manager.  The managers are the modules OmpFreeAgents,  *)
(* OmpRoleShift and OmpOmp5; the runtime and MPI are the environment.      *)
(***************************************************************************)
EXTENDS OmpFreeAgents, OmpRoleShift, OmpOmp5

CONSTANTS Managers      \* the values of --ompt-thread-manager that are explored

VARIABLES
    manager,    \* omptm_funcs: "none", "omp5", "free agents" or "role shift"
    tool        \* "off", "on" or "done": omptool_initialized

toolVars == <<manager, tool>>

vars == <<envVars, faVars, rsVars, o5Vars, toolVars>>

FA == manager = "free agents"
RS == manager = "role shift"
O5 == manager = "omp5"

Init ==
    /\ EnvInit /\ FreeAgentsInit /\ RoleShiftInit /\ Omp5Init
    /\ lendOpt = FALSE /\ borrowOpt = FALSE
    /\ manager = "none" /\ tool = "off"

(* The answers of ompt_set_callback, and the ones that set_ompt_callback   *)
(* takes for an error; one error of any callback fails the registration.   *)
Answers == {"error", "never", "impossible", "sometimes", "sometimes_paired", "always"}

set_ompt_callbacks(answers) == answers \cap {"error", "never", "impossible"} = {}

(* omptool_initialize: nothing without --ompt; no manager when neither     *)
(* LeWI nor DROM is on; DLB is finalized again when the runtime does not   *)
(* accept a callback.  The managers that may lend begin with it, and free  *)
(* agents do not ask whether they may borrow.                              *)
omptool_initialize ==
    /\ tool = "off"
    /\ \E m \in Managers \cup {"none"}, ompt, lewiOrDrom, lend, borrow \in BOOLEAN,
          answers \in {{"always"}, {"always", "sometimes"}, {"always", "never"}} :
         /\ lendOpt' = lend /\ borrowOpt' = (borrow /\ m # "free agents")
         /\ manager' = IF ompt /\ lewiOrDrom /\ set_ompt_callbacks(answers) THEN m ELSE "none"
         /\ tool' = IF ompt /\ set_ompt_callbacks(answers) THEN "on" ELSE "done"
         /\ Enter(Primary, CASE manager' = "free agents" /\ lend -> <<Op("lend", -1)>>
                             [] manager' = "omp5" /\ lend ->
                                    <<Op("only mine", -1), Op("SetMaxParallelism", -1)>>
                             [] OTHER -> <<>>)
         /\ IF manager' = "free agents" THEN omptm_free_agents_init ELSE UNCHANGED faVars
    /\ UNCHANGED <<table, team, level, mpi, tasks, inTask, pending, used, rsVars,
                   activeMask, bindings, numThreads, where>>

(* omptool_finalize: only in the thread that initialized it; DLB first,    *)
(* then the callbacks, then the manager.                                   *)
omptool_finalize ==
    /\ tool = "on" /\ level = 0 /\ mpi = "out"
    /\ \A t \in Thread : Ready(t)
    /\ tool' = "done" /\ manager' = "none"
    /\ UNCHANGED <<table, todo, team, level, mpi, tasks, inTask, pending, lendOpt, used,
                   faVars, rsVars, o5Vars>>

(* Role shift: with more registered threads than CPUs, a thread has been   *)
(* written outside cpu_by_id, and the next one that begins aborts the      *)
(* process; no other event is considered before.                           *)
Running == tool = "on" /\ registered <= SystemSize

Serial == Running /\ Ready(Primary) /\ mpi = "out"

----------------------------------------------------------------------------
(* parallel_begin: the manager is told of regions of level 1 only.         *)
parallel_begin ==
    /\ Serial /\ level = 0 /\ used.regions < MaxRegions
    /\ level' = 1
    /\ used' = [used EXCEPT !.regions = @ + 1]
    /\ \E n \in 0 .. 1, requested \in {1, Cardinality(ProcessMask)} :
         Enter(Primary, CASE FA -> fa_parallel_begin(requested)
                          [] O5 -> o5_borrow(n)
                          [] OTHER -> <<>>)
    /\ UNCHANGED <<table, team, mpi, tasks, inTask, pending, lendOpt, faVars, rsVars, o5Vars, toolVars>>

nested_parallel ==
    /\ Serial /\ level \in 1 .. 2 /\ Primary \in team
    /\ level' = 3 - level
    /\ UNCHANGED <<table, todo, team, mpi, tasks, inTask, pending, lendOpt, used,
                   faVars, rsVars, o5Vars, toolVars>>

(* The threads of a team: free agents are outside of any team.             *)
Workers == IF O5 THEN Thread ELSE Thread \ {AgentThread[i] : i \in Agent}

(* The CPU that the runtime has bound the thread to.                       *)
Binding(t) ==
    IF t = Primary \/ ProcessMask = {First} THEN First ELSE Ascending(ProcessMask \ {First})[1]

(* implicit_task begin: the thread enters the function of the region.      *)
into_parallel_function(t) ==
    /\ Running /\ level = 1 /\ t \in Workers \ team /\ Ready(t)
    /\ t = Primary \/ Primary \in team
    /\ O5 => Index(t) <= numThreads
    /\ Ready(Primary)
    /\ team' = team \cup {t}
    /\ Enter(t, CASE FA -> <<Op("work", Binding(t))>>
                  [] O5 -> <<Op("work", -1)>>
                  [] OTHER -> <<>>)
    /\ UNCHANGED <<table, level, mpi, tasks, inTask, pending, lendOpt, used,
                   faVars, rsVars, o5Vars, toolVars>>

(* parallel_end, after the implicit barrier: no thread is in the function  *)
(* any more and the tasks of the region are done.                          *)
parallel_end ==
    /\ Serial /\ level = 1 /\ Primary \in team
    /\ tasks = 0 /\ inTask = {} /\ \A t \in Thread : Ready(t)
    /\ level' = 0 /\ team' = {}
    /\ Enter(Primary, CASE FA -> <<Op("end", -1)>> [] O5 -> o5_lend [] OTHER -> <<>>)
    /\ UNCHANGED <<table, mpi, tasks, inTask, pending, lendOpt, used, faVars, rsVars, o5Vars, toolVars>>

(* The LeWI policy lends the CPU of the thread; then the manager is told.  *)
into_blocking_call ==
    /\ Serial /\ level = 0 /\ used.blocking < MaxBlocking
    /\ mpi' = "in"
    /\ used' = [used EXCEPT !.blocking = @ + 1]
    /\ Enter(Primary, <<OnSet("LendCpuMask", {IF O5 THEN where[Primary] ELSE First})>>
                      \o CASE FA \/ O5 -> <<Op("into", -1)>>
                           [] RS -> rs_IntoBlockingCall
                           [] OTHER -> <<>>)
    /\ UNCHANGED <<table, team, level, tasks, inTask, pending, lendOpt, faVars, rsVars, o5Vars, toolVars>>

outof_blocking_call ==
    /\ Running /\ mpi = "in" /\ Ready(Primary)
    /\ mpi' = "out"
    /\ Enter(Primary, <<OnSet("ReclaimCpuMask", {IF O5 THEN where[Primary] ELSE First})>>
                      \o CASE FA -> IF lendOpt THEN <<>> ELSE <<Op("outof", -1)>>
                           [] O5 -> o5_OutOfBlockingCall
                           [] RS -> rs_OutOfBlockingCall
                           [] OTHER -> <<>>)
    /\ UNCHANGED <<table, team, level, tasks, inTask, pending, lendOpt, used,
                   faVars, rsVars, o5Vars, toolVars>>

(* DLB_Lend from the program; only omp5 has a handler.                     *)
lend_from_api ==
    /\ Serial /\ O5 /\ level = 0 /\ used.blocking < MaxBlocking
    /\ used' = [used EXCEPT !.blocking = @ + 1]
    /\ Enter(Primary, o5_lend_from_api)
    /\ UNCHANGED <<table, team, level, mpi, tasks, inTask, pending, lendOpt, faVars, rsVars, o5Vars, toolVars>>
----------------------------------------------------------------------------
(* Explicit tasks.  The threads of the team and the primary thread create  *)
(* and execute them, and the free agents that the runtime lets run.        *)
AgentIds(t) == {i \in Agent : AgentThread[i] = t}

RsIds(t) == {i \in Tid : i < born /\ RsThread(i) = t}

IsAgent(t) ==
    \/ FA /\ \E i \in AgentIds(t) : lists[i] # -1 /\ active[i]
    \/ RS /\ \E i \in RsIds(t) : acts[i] = "agent"

Asks(t) ==
    CASE FA -> <<Op("acquire", -1)>>
      [] RS -> IF lendOpt /\ ~borrowOpt THEN <<Op("BorrowCpus", -1)>>
               ELSE <<OnSet("AcquireCpusInMask", Cpu)>>
      [] OTHER -> <<>>

task_create(t) ==
    /\ Running /\ Ready(t) /\ used.tasks < MaxTasks
    /\ t \in team \cup inTask \/ (t = Primary /\ mpi = "out" /\ level = 0)
    /\ tasks' = tasks + 1
    /\ used' = [used EXCEPT !.tasks = @ + 1]
    /\ pending' = IF O5 THEN pending ELSE pending + 1
    /\ Enter(t, Asks(t))
    /\ UNCHANGED <<table, team, level, mpi, inTask, lendOpt, faVars, rsVars, o5Vars, toolVars>>

(* task_schedule with a task that is switched out: another one starts.     *)
task_switch(t) ==
    /\ Running /\ Ready(t) /\ tasks > 0 /\ t \notin inTask
    /\ t \in team \/ IsAgent(t) \/ (t = Primary /\ mpi = "out" /\ level = 0)
    /\ tasks' = tasks - 1
    /\ inTask' = inTask \cup {t}
    /\ pending' = IF O5 THEN pending ELSE pending - 1
    /\ Enter(t, IF pending > 1 THEN Asks(t) ELSE <<>>)
    /\ UNCHANGED <<table, team, level, mpi, lendOpt, used, faVars, rsVars, o5Vars, toolVars>>

(* task_schedule with a task that is complete.                             *)
task_complete(t) ==
    /\ Running /\ Ready(t) /\ t \in inTask
    /\ inTask' = inTask \ {t}
    /\ Enter(t, CASE FA /\ AgentIds(t) # {} -> <<Op("complete", lists[Min(AgentIds(t))])>>
                  [] RS /\ (\E i \in RsIds(t) : cpuById[i] # -1 /\ fa[cpuById[i]]) ->
                         <<Op("complete", cpuById[Min(RsIds(t))])>>
                  [] OTHER -> <<>>)
    /\ UNCHANGED <<table, team, level, mpi, tasks, pending, lendOpt, used,
                   faVars, rsVars, o5Vars, toolVars>>

thread_begin(i) ==
    /\ Running
    /\ \/ FA /\ i \in Agent /\ fa_thread_begin(i) /\ UNCHANGED rsVars
       \/ RS /\ rs_thread_begin(i) /\ UNCHANGED faVars
    /\ UNCHANGED <<o5Vars, toolVars>>

(* fatal_cond of omptm_role_shift__thread_begin; a thread without a place  *)
(* in cpu_by_id is there only in that case.                                *)
thread_begin_aborts(i) ==
    /\ tool = "on" /\ RS /\ registered > SystemSize
    /\ i < born /\ (i \in Tid => acts[i] = "new")
    /\ tool' = "done" /\ manager' = "none"
    /\ UNCHANGED <<envVars, faVars, rsVars, o5Vars>>

thread_role_shift(i) ==
    /\ Running /\ RS
    /\ rs_thread_role_shift(i)
    /\ UNCHANGED <<faVars, o5Vars, toolVars>>

(* One step of a handler.                                                  *)
ManagerStep(t) ==
    \/ FA /\ FaStep(t) /\ UNCHANGED <<rsVars, o5Vars, toolVars>>
    \/ RS /\ RsStep(t) /\ UNCHANGED <<faVars, o5Vars, toolVars>>
    \/ O5 /\ O5Step(t) /\ UNCHANGED <<faVars, rsVars, toolVars>>

LewiStep(t) == LewiCall(t) /\ UNCHANGED <<faVars, rsVars, o5Vars, toolVars>>

OtherProcesses ==
    /\ Running
    /\ \E c \in Cpu : OthersDo(c)
    /\ UNCHANGED <<faVars, rsVars, o5Vars, toolVars>>

Next ==
    \/ omptool_initialize \/ omptool_finalize
    \/ parallel_begin \/ nested_parallel \/ parallel_end
    \/ into_blocking_call \/ outof_blocking_call \/ lend_from_api
    \/ OtherProcesses
    \/ \E i \in Tid : thread_begin(i) \/ thread_role_shift(i)
    \/ \E i \in Tid \cup {SystemSize} : thread_begin_aborts(i)
    \/ \E t \in Thread :
         \/ into_parallel_function(t)
         \/ task_create(t) \/ task_switch(t) \/ task_complete(t)
         \/ ManagerStep(t) \/ LewiStep(t)

Spec == Init /\ [][Next]_vars

----------------------------------------------------------------------------
(* A thread that executes the function of a parallel region runs on a CPU  *)
(* that the process holds, or has reclaimed: CPUs are lent, reclaimed,     *)
(* returned and borrowed around the region, by several threads.  For free  *)
(* agents without the option to lend, and the workers (the CPU of the      *)
(* primary thread is lent again by cb_enable_cpu when it comes back, since *)
(* no agent is bound to it); for omp5 with the option to borrow.           *)
TeamRunsOnOurs ==
    /\ FA /\ ~lendOpt => \A t \in team \ {Primary} : Ready(t) => Ours(Binding(t))
    /\ O5 /\ borrowOpt => \A t \in team : Ready(t) => Ours(where[t])

(* With role shift, the process uses every CPU that it holds              *)
(* (OmpRoleShift).                                                         *)
NothingForgottenRS == RS => NothingForgotten

(* With role shift and without the option to lend, no thread is left on a  *)
(* CPU that LeWI has given to somebody else (OmpRoleShift).                *)
RoleShiftAgrees == RS /\ ~lendOpt => OwnershipAgrees

(* With free agents, the counter of enabled agents is matched by their     *)
(* bits, but for those that init found set in memory that it does not      *)
(* write, whatever threads and callbacks do at once (OmpFreeAgents).       *)
FreeAgentsCounted == FA => AgentsAreCounted
=============================================================================
