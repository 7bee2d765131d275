--------------------------- MODULE OmpFreeAgents ---------------------------
(***************************************************************************)
(* omptm_free_agents.c: the thread manager for an OpenMP runtime with free *)
(* agent threads, threads outside any team that execute explicit tasks.    *)
(* Each is bound to a CPU: one of the process that no worker uses, one of  *)
(* another process, or one that it shares with a worker.  The manager      *)
(* enables and disables them as CPUs come and go, from any thread: the     *)
(* bits of a CPU's state are changed atomically, one step each.            *)
(***************************************************************************)
EXTENDS OmpLewi

CONSTANTS
    Agents,         \* number of free agent threads of the runtime
    AgentThread,    \* agent id -> the thread that is this agent
    Launches,       \* [threads, memory]: OMP_NUM_THREADS, or the size of the process
                    \*     mask; and what malloc gives for cpu_data, bits and roles
    Masks           \* what a local mask may hold before it is written

Agent == 0 .. Agents - 1

(* cpu_data, and the memory in front of it: cpu_data[-1] is read, and      *)
(* written, for an agent that has not registered.                          *)
Slot == Cpu \cup {-1}

Bits == {"IDLE", "LENT", "RECLAIMED", "IN_PARALLEL", "ENABLED"}

Roles == {"WORKER", "FREE_AGENT"}

ASSUME AgentsAssumption ==
    /\ Agents \in Nat
    /\ AgentThread \in [Agent -> Thread \ {Primary}]
    /\ \A i, j \in Agent : i # j => AgentThread[i] # AgentThread[j]
    /\ Launches \subseteq [threads : Nat \ {0}, memory : [Slot -> SUBSET (Bits \cup Roles)]]
    /\ Masks \subseteq SUBSET Cpu

VARIABLES
    found,      \* Slot -> what init left as it was in cpu_data[].state and .roles
    default_num_threads,
    state,      \* Slot -> bits of cpu_data[].state
    wanted,     \* Cpu -> cpu_data[].wanted_for_parallel
    lists,      \* free_agent_cpuid_by_id: agent id -> CPU, -1 before it registers
    enabled,    \* num_enabled_free_agents
    active      \* agent id -> the status last given to the runtime

faVars == <<found, default_num_threads, state, wanted, lists, enabled, active>>

Others == UNCHANGED <<team, level, mpi, tasks, inTask, pending, lendOpt, used,
                      found, default_num_threads>>

(* primary_thread_mask is {First}; the workers get the next CPUs.          *)
WorkerMask ==
    {c \in ProcessMask \ {First} : Cardinality({d \in ProcessMask : d < c}) < default_num_threads}

Spare == ProcessMask \ (WorkerMask \cup {First})

(* get_free_agent_binding: a spare CPU, else a CPU of another process,     *)
(* else the CPU of a worker, else none.                                    *)
get_free_agent_binding(i) ==
    LET order == Ascending(Spare) \o Ascending(Cpu \ ProcessMask) \o Ascending(WorkerMask)
    IN  IF i < Len(order) THEN order[i + 1] ELSE -1

AgentOf(c) == {i \in Agent : lists[i] = c}

(* The results of get_free_agent_id_by_cpuid: for -1 it reads in front of  *)
(* the list.                                                               *)
AgentIdOf(c) == IF c = -1 THEN Agent \cup {-1} ELSE IF AgentOf(c) = {} THEN {-1} ELSE AgentOf(c)

(* The CPUs with an agent; a CPU gets the role when the agent registers.   *)
AgentCpus == {lists[i] : i \in Agent} \ {-1}

Found(x) == {c \in Slot : x \in found[c]}

FreeAgentsInit ==
    /\ default_num_threads = 1
    /\ found = [c \in Slot |-> {}]
    /\ state = [c \in Slot |-> {}]
    /\ wanted = [c \in Cpu |-> FALSE]
    /\ lists = [i \in Agent |-> -1]
    /\ enabled = 0
    /\ active = [i \in Agent |-> FALSE]

(* omptm_free_agents__init: cpu_data is malloc'ed, and the state and the   *)
(* roles of a spare CPU are not written.                                   *)
omptm_free_agents_init ==
    /\ \E l \in Launches :
         /\ default_num_threads' = l.threads
         /\ found' = [c \in Slot |-> IF c \in Spare' \cup {-1} THEN l.memory[c] ELSE {}]
    /\ state' = [c \in Slot |-> IF c = First THEN {"IN_PARALLEL"}
                                ELSE IF c \in WorkerMask' THEN {"IDLE"} ELSE found'[c] \cap Bits]
    /\ UNCHANGED <<wanted, lists, enabled, active>>

Set(c, b) == state' = [state EXCEPT ![c] = @ \cup {b}]

(* cas_bit: from one bit to the other, if the CPU has the first one.       *)
cas_bit(c, from, to) == IF from \in state[c] THEN (state[c] \ {from}) \cup {to} ELSE state[c]

----------------------------------------------------------------------------
(* cb_enable_cpu: skipped when the CPU is wanted for a parallel region; a  *)
(* reclaimed CPU becomes idle; without agent the CPU is lent again; else   *)
(* the agent is enabled unless it is already.                              *)
fa_enable(t) ==
    /\ Does(t, "enable")
    /\ \E skip \in IF CpuOf(t) = -1 THEN BOOLEAN ELSE {wanted[CpuOf(t)]} :
         Then(t, IF skip THEN <<>> ELSE <<Op("enable cas", CpuOf(t))>>)
    /\ UNCHANGED <<table, faVars>> /\ Others

fa_enable_cas(t) ==
    /\ Does(t, "enable cas")
    /\ LET c == CpuOf(t) IN
         /\ state' = [state EXCEPT ![c] = cas_bit(c, "RECLAIMED", "IDLE")]
         /\ Then(t, IF "RECLAIMED" \in state[c] THEN <<>> ELSE <<Op("enable set", c)>>)
    /\ UNCHANGED <<table, wanted, lists, enabled, active>> /\ Others

(* Mutant: the agent is enabled without a test whether it already is.      *)
fa_enable_twice(t) ==
    /\ Does(t, "enable set")
    /\ LET c == CpuOf(t) IN
         \/ /\ -1 \in AgentIdOf(c)
            /\ Then(t, <<OnSet("LendCpuMask", {c} \ {-1})>>)
            /\ UNCHANGED state
         \/ /\ AgentIdOf(c) # {-1}
            /\ state' = [state EXCEPT ![c] = (@ \ {"IDLE"}) \cup {"ENABLED"}]
            /\ Then(t, <<Op("enabled", c)>>)
    /\ UNCHANGED <<table, wanted, lists, enabled, active>> /\ Others

(* test_set_clear_bit; DLB_LendCpu(-1) lends no CPU of the node.           *)
fa_enable_set(t) ==
    /\ Does(t, "enable set")
    /\ LET c == CpuOf(t) IN
         \/ /\ -1 \in AgentIdOf(c)
            /\ Then(t, <<OnSet("LendCpuMask", {c} \ {-1})>>)
            /\ UNCHANGED state
         \/ /\ AgentIdOf(c) # {-1} /\ "ENABLED" \in state[c]
            /\ Then(t, <<>>)
            /\ UNCHANGED state
         \/ /\ AgentIdOf(c) # {-1} /\ "ENABLED" \notin state[c]
            /\ state' = [state EXCEPT ![c] = (@ \ {"IDLE"}) \cup {"ENABLED"}]
            /\ Then(t, <<Op("enabled", c)>>)
    /\ UNCHANGED <<table, wanted, lists, enabled, active>> /\ Others

fa_enabled(t) ==
    /\ Does(t, "enabled")
    /\ enabled' = enabled + 1
    /\ \E id \in AgentIdOf(CpuOf(t)) \ {-1} : active' = [active EXCEPT ![id] = TRUE]
    /\ Then(t, <<>>)
    /\ UNCHANGED <<table, state, wanted, lists>> /\ Others

(* cb_disable_cpu: an own CPU that is not wanted becomes idle, and the     *)
(* agent is disabled if it was enabled.                                    *)
fa_disable(t) ==
    /\ Does(t, "disable")
    /\ LET c == CpuOf(t) IN
         IF AgentOf(c) = {}
         THEN Then(t, <<>>) /\ UNCHANGED state
         ELSE /\ Then(t, <<Op("disable clear", c)>>)
              /\ IF c \in ProcessMask /\ ~wanted[c] THEN Set(c, "IDLE") ELSE UNCHANGED state
    /\ UNCHANGED <<table, wanted, lists, enabled, active>> /\ Others

fa_disable_clear(t) ==
    /\ Does(t, "disable clear")
    /\ LET c == CpuOf(t) IN
         /\ state' = [state EXCEPT ![c] = @ \ {"ENABLED"}]
         /\ Then(t, IF "ENABLED" \in state[c] THEN <<Op("disabled", c)>> ELSE <<>>)
    /\ UNCHANGED <<table, wanted, lists, enabled, active>> /\ Others

fa_disabled(t) ==
    /\ Does(t, "disabled")
    /\ enabled' = enabled - 1
    /\ active' = [i \in Agent |-> active[i] /\ i \notin AgentOf(CpuOf(t))]
    /\ Then(t, <<>>)
    /\ UNCHANGED <<table, state, wanted, lists>> /\ Others

FaCallback(t) ==
    \/ fa_enable(t) \/ fa_enable_cas(t) \/ fa_enable_set(t) \/ fa_enabled(t)
    \/ fa_disable(t) \/ fa_disable_clear(t) \/ fa_disabled(t)

----------------------------------------------------------------------------
(* The first CPUs of a set in free_agent_cpu_list: the list has the own    *)
(* CPUs first, and -1 at its end for the agents that have not registered.  *)
Foremost(S) ==
    IF S \cap ProcessMask # {} THEN {Min(S \cap ProcessMask)}
    ELSE IF S \ {-1} # {} THEN S \ {-1} ELSE S

(* acquire_one_free_agent: enable the agent of an idle CPU, or else ask    *)
(* LeWI for the CPU of an agent that is not busy (CPU_SET ignores -1).     *)
(* The states are copies.                                                  *)
fa_acquire(t) ==
    /\ Does(t, "acquire")
    /\ LET free == {c \in {lists[i] : i \in Agent} :
                      state[c] \cap {"IN_PARALLEL", "ENABLED"} = {}}
           idle == {c \in free : state[c] = {"IDLE"}}
       IN  \/ enabled = Agents /\ Then(t, <<>>)
           \/ enabled # Agents /\ \E c \in Foremost(idle) : Then(t, <<Op("enable", c)>>)
           \/ /\ enabled # Agents /\ idle = {}
              /\ Then(t, IF free \ {-1} = {} THEN <<>>
                         ELSE <<OnSet("AcquireCpusInMask", free \ {-1})>>)
    /\ UNCHANGED <<table, faVars>> /\ Others

(* omptm_free_agents__lend: idle worker CPUs are lent.  The mask that is   *)
(* passed to LeWI is a local variable that is not cleared first.           *)
fa_lend(t) ==
    /\ Does(t, "lend")
    /\ LET L == {c \in WorkerMask : "IDLE" \in state[c]} IN
         /\ state' = [c \in Slot |-> IF c \in L THEN cas_bit(c, "IDLE", "LENT") ELSE state[c]]
         /\ \E garbage \in Masks : Then(t, <<OnSet("LendCpuMask", L \cup garbage)>>)
    /\ UNCHANGED <<table, wanted, lists, enabled, active>> /\ Others

(* The CPUs with the role of a worker, and the own ones with a role. *)
RoleWorker == WorkerMask \cup (Found("WORKER") \ {-1})

OwnWithRole == (RoleWorker \cup AgentCpus \cup Found("FREE_AGENT")) \cap ProcessMask

(* IntoBlockingCall lends the idle own CPUs of workers and agents.         *)
fa_into(t) ==
    /\ Does(t, "into")
    /\ LET L == {c \in OwnWithRole : "IDLE" \in state[c]} IN
         /\ state' = [c \in Slot |-> IF c \in L THEN cas_bit(c, "IDLE", "LENT") ELSE state[c]]
         /\ Then(t, <<OnSet("LendCpuMask", L)>>)
    /\ UNCHANGED <<table, wanted, lists, enabled, active>> /\ Others

(* Mutant: the CPUs are marked as reclaimed and LeWI is not called.        *)
fa_outof_without_reclaim(t) ==
    /\ Does(t, "outof")
    /\ LET L == {c \in OwnWithRole : "LENT" \in state[c]} IN
         /\ state' = [c \in Slot |-> IF c \in L THEN cas_bit(c, "LENT", "RECLAIMED") ELSE state[c]]
         /\ Then(t, <<>>)
    /\ UNCHANGED <<table, wanted, lists, enabled, active>> /\ Others

(* OutOfBlockingCall reclaims those that were lent.                        *)
fa_outof(t) ==
    /\ Does(t, "outof")
    /\ LET L == {c \in OwnWithRole : "LENT" \in state[c]} IN
         /\ state' = [c \in Slot |-> IF c \in L THEN cas_bit(c, "LENT", "RECLAIMED") ELSE state[c]]
         /\ Then(t, <<OnSet("ReclaimCpuMask", L)>>)
    /\ UNCHANGED <<table, wanted, lists, enabled, active>> /\ Others

(* thread_begin of agent i: it is bound to a CPU and starts disabled.      *)
fa_thread_begin(i) ==
    /\ lists[i] = -1 /\ Ready(AgentThread[i])
    /\ get_free_agent_binding(i) # -1
    /\ lists' = [lists EXCEPT ![i] = get_free_agent_binding(i)]
    /\ active' = [active EXCEPT ![i] = FALSE]
    /\ UNCHANGED <<table, state, wanted, enabled, todo>> /\ Others

(* parallel_begin of a region for all CPUs of the process: each one is     *)
(* wanted, its agent disabled, and what was lent is reclaimed at the end.  *)
fa_parallel_begin(requested) ==
    IF requested = Cardinality(ProcessMask)
    THEN ForAll("begin", ProcessMask) \o <<OnSet("ReclaimCpuMask", {})>>
    ELSE <<>>

fa_begin(t) ==
    /\ Does(t, "begin")
    /\ LET c == CpuOf(t) IN
         /\ wanted' = [wanted EXCEPT ![c] = TRUE]
         /\ IF "ENABLED" \in state[c]
              THEN Then(t, <<Op("disable", c)>>)
              ELSE IF "LENT" \in state[c]
                   THEN Enter(t, Tail(WithCpu(todo[t], c)))
                   ELSE Then(t, <<>>)
    /\ UNCHANGED <<table, state, lists, enabled, active>> /\ Others

(* parallel_end: the workers' CPUs become idle, and are no longer wanted.  *)
fa_end(t) ==
    /\ Does(t, "end")
    /\ state' = [c \in Slot |-> IF c \in RoleWorker
                                THEN cas_bit(c, "IN_PARALLEL", "IDLE") ELSE state[c]]
    /\ wanted' = [c \in Cpu |-> wanted[c] /\ c \notin RoleWorker]
    /\ Then(t, IF lendOpt THEN <<Op("lend", -1)>> ELSE <<>>)
    /\ UNCHANGED <<table, lists, enabled, active>> /\ Others

(* into_parallel_function: the thread reclaims its CPU if it was lent.     *)
fa_work(t) ==
    /\ Does(t, "work")
    /\ LET c == CpuOf(t) IN
         Then(t, (IF "LENT" \in state[c] THEN <<OnSet("ReclaimCpuMask", {c})>> ELSE <<>>)
                 \o <<Op("in parallel", c)>>)
    /\ UNCHANGED <<table, faVars>> /\ Others

fa_in_parallel(t) ==
    /\ Does(t, "in parallel")
    /\ Set(CpuOf(t), "IN_PARALLEL")
    /\ Then(t, <<>>)
    /\ UNCHANGED <<table, wanted, lists, enabled, active>> /\ Others

(* task_complete of an agent: it is disabled when a worker needs the CPU,  *)
(* when its owner wants it, or when there are no tasks left.               *)
fa_complete(t) ==
    /\ Does(t, "complete")
    /\ LET c == CpuOf(t) IN
         Then(t, IF "IN_PARALLEL" \in state[c] \/ wanted[c]
                 THEN <<Op("disable", c)>> ELSE <<Op("check", c)>>)
    /\ UNCHANGED <<table, faVars>> /\ Others

fa_check(t) ==
    /\ Does(t, "check")
    /\ LET c == CpuOf(t) IN
         IF NotPermitted(c)
         THEN Then(t, <<Op("ReturnCpu", c)>>) /\ UNCHANGED table
         ELSE Then(t, <<Op("more", c)>>) /\ table' = Taken(c)
    /\ UNCHANGED faVars /\ Others

fa_more(t) ==
    /\ Does(t, "more")
    /\ LET c == CpuOf(t) IN
         Then(t, IF pending # 0 THEN <<>>
                 ELSE <<Op("disable", c)>>
                      \o (IF c \notin ProcessMask \/ lendOpt
                          THEN <<OnSet("LendCpuMask", {c})>> ELSE <<>>))
    /\ UNCHANGED <<table, faVars>> /\ Others

FaStep(t) ==
    \/ FaCallback(t) \/ fa_acquire(t) \/ fa_lend(t) \/ fa_into(t) \/ fa_outof(t)
    \/ fa_begin(t) \/ fa_end(t) \/ fa_work(t) \/ fa_in_parallel(t)
    \/ fa_complete(t) \/ fa_check(t) \/ fa_more(t)

----------------------------------------------------------------------------
Doing(name) == Cardinality({t \in Thread : Does(t, name)})

(* num_enabled_free_agents counts the CPUs whose agent is enabled, but for *)
(* the bits that init found set in memory it does not write: each change   *)
(* of a bit is matched by exactly one change of the counter, made later by *)
(* the thread that changed the bit, whatever the others do in between      *)
(* (cb_enable_cpu and cb_disable_cpu run in any thread).  The memory in    *)
(* front of cpu_data is taken to be changed by nobody else.                *)
AgentsAreCounted ==
    enabled + Doing("enabled") - Doing("disabled")
        = Cardinality({c \in Slot : "ENABLED" \in state[c]}) - Cardinality(Found("ENABLED"))

(* When no handler runs, an agent is active exactly when its CPU's bit     *)
(* says so.  Violated: the bit is changed before the runtime is called, so *)
(* that the calls of two threads may come in the other order.              *)
StatusAgrees ==
    (\A t \in Thread : Ready(t)) =>
        \A i \in Agent : lists[i] # -1 => (active[i] <=> "ENABLED" \in state[lists[i]])

(* Outside parallel regions no CPU is wanted for one.  Violated:           *)
(* parallel_end clears the flag of the workers' CPUs only.                 *)
WantedEnds == level = 0 /\ Ready(Primary) => \A c \in Cpu : ~wanted[c]
=============================================================================
