---------------------------- MODULE OmpRoleShift ----------------------------
(***************************************************************************)
(* omptm_role_shift.c: the thread manager for a runtime whose threads      *)
(* shift between the roles of worker and free agent.  The manager keeps    *)
(* for each CPU whether it is its own, lent, borrowed or unknown, and      *)
(* which thread runs on it; it gives the runtime the role that a thread is *)
(* to have, and the thread takes it at its next scheduling point.          *)
(***************************************************************************)
EXTENDS OmpLewi

CONSTANTS
    Threads0    \* threads of the runtime at the start: OMP_NUM_THREADS

VARIABLES
    ownership,  \* Cpu -> "OWN", "UNKNOWN", "LENT" or "BORROWED"
    fa,         \* Cpu -> a free agent was started on the CPU
    cpuById,    \* cpu_by_id: thread id -> CPU, -1 unknown
    registered, \* registered_threads
    numFA,      \* num_free_agents
    role,       \* thread id -> the role last asked for: "none" or "agent"
    acts,       \* thread id -> the role that the thread has taken; "new" before it begins
    born        \* number of threads of the runtime that exist

rsVars == <<ownership, fa, cpuById, registered, numFA, role, acts, born>>

SystemSize == Cardinality(Cpu)

Tid == 0 .. SystemSize - 1

RsOthers == UNCHANGED <<team, level, mpi, tasks, inTask, pending, lendOpt, used>>

RoleShiftInit ==
    /\ ownership = [c \in Cpu |-> IF c \in ProcessMask THEN "OWN" ELSE "UNKNOWN"]
    /\ fa = [c \in Cpu |-> FALSE]
    /\ cpuById = [i \in Tid |-> IF i = 0 THEN First ELSE -1]
    /\ registered = Threads0
    /\ numFA = 0
    /\ role = [i \in Tid |-> "none"]
    /\ acts = [i \in Tid |-> IF i < Threads0 THEN "none" ELSE "new"]
    /\ born = Threads0

(* get_id_from_cpu: the first registered thread of the CPU.                *)
IdsOf(c) == {i \in Tid : i < registered /\ cpuById[i] = c}

(* The thread of the model that has the runtime's id i.                    *)
RsThread(i) == IF i = 0 THEN Primary ELSE <<"worker1", "agent0", "agent1", "agent2">>[i]

----------------------------------------------------------------------------
(* cb_enable_cpu: what was lent is own again, what was unknown borrowed;   *)
(* then the agent of the CPU is woken, or a new thread is asked for.       *)
rs_enable(t) ==
    /\ Does(t, "enable")
    /\ LET c == CpuOf(t) IN
         /\ ownership' = [ownership EXCEPT ![c] =
                CASE @ = "LENT" -> "OWN" [] @ = "UNKNOWN" -> "BORROWED" [] OTHER -> @]
         /\ Then(t, <<Op("enable thread", c)>>)
    /\ UNCHANGED <<table, fa, cpuById, registered, numFA, role, acts, born>> /\ RsOthers

rs_enable_thread(t) ==
    /\ Does(t, "enable thread")
    /\ LET c == CpuOf(t) IN
         \/ /\ IdsOf(c) # {} /\ fa[c]
            /\ numFA' = numFA + 1
            /\ role' = [role EXCEPT ![Min(IdsOf(c))] = "agent"]
            /\ Then(t, <<>>)
            /\ UNCHANGED <<fa, born>>
         \/ /\ IdsOf(c) # {} /\ ~fa[c]
            /\ Then(t, <<>>)
            /\ UNCHANGED <<numFA, role, fa, born>>
         \/ /\ IdsOf(c) = {}
            /\ fa' = [fa EXCEPT ![c] = FALSE]
            /\ numFA' = numFA + 1
            /\ born' = born + 1
            /\ role' = [i \in Tid |-> IF i = born THEN "agent" ELSE role[i]]
            /\ Then(t, <<Op("register", c)>>)
    /\ UNCHANGED <<table, ownership, cpuById, registered, acts>> /\ RsOthers

(* cpu_by_id[registered_threads++] = cpuid, an array of system_size: what  *)
(* is written outside of it is not modelled.                               *)
rs_register(t) ==
    /\ Does(t, "register")
    /\ cpuById' = [i \in Tid |-> IF i = registered THEN CpuOf(t) ELSE cpuById[i]]
    /\ registered' = registered + 1
    /\ Then(t, <<>>)
    /\ UNCHANGED <<table, ownership, fa, numFA, role, acts, born>> /\ RsOthers

(* cb_disable_cpu: skipped when the CPU is not in use; else it is lent or  *)
(* unknown from now on and its agent loses the role.                       *)
rs_disable(t) ==
    /\ Does(t, "disable")
    /\ LET c == CpuOf(t) IN
         Then(t, IF ownership[c] \in {"OWN", "BORROWED"} THEN <<Op("disable clear", c)>> ELSE <<>>)
    /\ UNCHANGED <<table, rsVars>> /\ RsOthers

rs_disable_clear(t) ==
    /\ Does(t, "disable clear")
    /\ LET c == CpuOf(t) IN
         /\ ownership' = [ownership EXCEPT ![c] =
                CASE @ = "OWN" -> "LENT" [] @ = "BORROWED" -> "UNKNOWN" [] OTHER -> @]
         /\ IF fa[c] /\ IdsOf(c) # {}
              THEN numFA' = numFA - 1 /\ role' = [role EXCEPT ![Min(IdsOf(c))] = "none"]
              ELSE UNCHANGED <<numFA, role>>
    /\ Then(t, <<>>)
    /\ UNCHANGED <<table, fa, cpuById, registered, acts, born>> /\ RsOthers

RsCallback(t) ==
    rs_enable(t) \/ rs_enable_thread(t) \/ rs_register(t) \/ rs_disable(t) \/ rs_disable_clear(t)

----------------------------------------------------------------------------
(* What IntoBlockingCall does with CPU c: what is own is lent, the CPU of  *)
(* the calling thread without its thread being disabled, and what is       *)
(* borrowed of its own mask too.                                           *)
IntoMark(c) ==
    CASE ownership[c] = "OWN" /\ c = cpuById[0] -> "LENT"
      [] ownership[c] = "BORROWED" /\ c \in ProcessMask -> "UNKNOWN"
      [] OTHER -> ownership[c]

IntoProgram(t, c) ==
    LET lend == Tail(WithCpu(todo[t], c))
    IN  CASE IntoMark(c) # ownership[c] -> lend
          [] ownership[c] = "OWN" /\ c # cpuById[0] -> <<Op("disable", c)>> \o lend
          [] OTHER -> Tail(todo[t])

(* Mutant: the CPU of the calling thread is not marked as lent.            *)
rs_into_forgets_own(t) ==
    /\ Does(t, "into")
    /\ todo' = [todo EXCEPT ![t] = IntoProgram(t, CpuOf(t))]
    /\ UNCHANGED <<table, rsVars>> /\ RsOthers

(* IntoBlockingCall, for each CPU in turn. *)
rs_into(t) ==
    /\ Does(t, "into")
    /\ todo' = [todo EXCEPT ![t] = IntoProgram(t, CpuOf(t))]
    /\ ownership' = [ownership EXCEPT ![CpuOf(t)] = IntoMark(CpuOf(t))]
    /\ UNCHANGED <<table, fa, cpuById, registered, numFA, role, acts, born>> /\ RsOthers

rs_IntoBlockingCall == ForAll("into", Cpu) \o <<OnSet("LendCpuMask", {})>>

rs_OutOfBlockingCall ==
    <<Op("enable", cpuById[0])>> \o (IF lendOpt THEN <<>> ELSE <<OnSet("ReclaimCpuMask", Cpu)>>)

(* What an agent does with its CPU once it has nothing to run: it is       *)
(* returned if its owner wants it, and given up if there are no tasks.     *)
GiveBack(t, c, always) ==
    IF NotPermitted(c)
    THEN Then(t, <<Op("ReturnCpu", c)>>) /\ UNCHANGED table
    ELSE /\ table' = Taken(c)
         /\ Then(t, IF pending = 0 /\ (always \/ ownership[c] = "BORROWED" \/ lendOpt)
                    THEN <<Op("disable", c)>> \o
                         (IF always /\ c \in ProcessMask THEN <<>> ELSE <<OnSet("LendCpuMask", {c})>>)
                    ELSE <<>>)

(* thread_begin of a free agent with id i, once: it runs on the CPU that   *)
(* it was created for, if the process borrows it; otherwise on the CPU     *)
(* that its affinity mask names.  With more registered threads than CPUs   *)
(* the process aborts (OmpTool.thread_begin_aborts).                       *)
rs_thread_begin(i) ==
    LET t == RsThread(i)
        c == cpuById[i]
    IN  /\ i \in Tid /\ i < born /\ acts[i] = "new" /\ Ready(t)
        /\ registered <= SystemSize
        /\ acts' = [acts EXCEPT ![i] = "agent"]
        /\ \/ /\ c # -1 /\ ownership[c] \notin {"OWN", "LENT"}
              /\ fa' = [fa EXCEPT ![c] = TRUE]
              /\ Enter(t, <<Op("begin check", c)>>)
              /\ UNCHANGED cpuById
           \/ /\ c \notin {d \in Cpu : ownership[d] \notin {"OWN", "LENT"}}
              /\ \E d \in ProcessMask :
                   /\ fa' = [fa EXCEPT ![d] = TRUE]
                   /\ cpuById' = [cpuById EXCEPT ![i] = d]
              /\ UNCHANGED todo
        /\ UNCHANGED <<table, ownership, registered, numFA, role, born>> /\ RsOthers

rs_begin_check(t) ==
    /\ Does(t, "begin check")
    /\ GiveBack(t, CpuOf(t), TRUE)
    /\ UNCHANGED rsVars /\ RsOthers

(* The thread takes the role that was asked for; the event looks at the    *)
(* CPU of a thread that becomes a free agent outside the process mask.     *)
rs_thread_role_shift(i) ==
    LET t == RsThread(i) IN
    /\ i \in Tid /\ i < born /\ Ready(t) /\ t \notin inTask /\ t \notin team
    /\ cpuById[i] # -1 /\ (acts[i] = "agent" \/ fa[cpuById[i]])
    /\ acts[i] \notin {"new", role[i]}
    /\ acts' = [acts EXCEPT ![i] = role[i]]
    /\ IF role[i] = "agent" /\ cpuById[i] \notin ProcessMask
         THEN Enter(t, <<Op("shift check", cpuById[i])>>) ELSE UNCHANGED todo
    /\ UNCHANGED <<table, ownership, fa, cpuById, registered, numFA, role, born>> /\ RsOthers

rs_shift_check(t) ==
    /\ Does(t, "shift check")
    /\ GiveBack(t, CpuOf(t), FALSE)
    /\ UNCHANGED rsVars /\ RsOthers

(* task_complete on a CPU with an agent; a CPU that was returned already   *)
(* only needs the thread to be told again.                                 *)
rs_complete(t) ==
    /\ Does(t, "complete")
    /\ LET c == CpuOf(t) IN
         IF NotPermitted(c) /\ ownership[c] = "UNKNOWN"
         THEN /\ numFA' = numFA - 1
              /\ role' = [role EXCEPT ![Min(IdsOf(c))] = "none"]
              /\ Then(t, <<>>) /\ UNCHANGED table
         ELSE GiveBack(t, c, FALSE) /\ UNCHANGED <<numFA, role>>
    /\ UNCHANGED <<ownership, fa, cpuById, registered, acts, born>> /\ RsOthers

RsStep(t) ==
    RsCallback(t) \/ rs_into(t) \/ rs_begin_check(t) \/ rs_shift_check(t) \/ rs_complete(t)

----------------------------------------------------------------------------
(* When no handler runs, what the manager takes for its own or for         *)
(* borrowed is held by the process, or reclaimed by it: threads are never  *)
(* left to run on a CPU that LeWI has given to somebody else.              *)
OwnershipAgrees ==
    (\A t \in Thread : Ready(t)) =>
        \A c \in Cpu : ownership[c] \in {"OWN", "BORROWED"} => Ours(c)

(* And the other way round: what the process holds, the manager uses.      *)
(* Violated: DLB_CheckCpuAvailability takes a CPU nobody uses, also when   *)
(* task_complete asks for one that the agent has returned before.          *)
NothingForgotten ==
    (\A t \in Thread : Ready(t)) =>
        \A c \in Cpu : table[c].guest = "us" => ownership[c] \in {"OWN", "BORROWED"}
=============================================================================
