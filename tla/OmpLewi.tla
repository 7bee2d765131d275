------------------------------ MODULE OmpLewi ------------------------------
(***************************************************************************)
(* What the OpenMP thread managers of LB_numThreads share: the threads of  *)
(* one process that call into DLB, and the CPUs of the node as this        *)
(* process sees them through the LeWI calls the managers make.  LeWI is in *)
(* polling mode: a call changes the table of the CPUs and then runs the    *)
(* callbacks of the manager in the thread that called.  The table itself   *)
(* is the subject of CpuInfo and LewiMask; here it is reduced to the       *)
(* guest of each CPU and to whether its owner wants it.                    *)
(*                                                                         *)
(* A handler of a manager is a program: a sequence of steps, each of which *)
(* performs one atomic access to the state the threads share.  todo[t] is  *)
(* what thread t still has to do of the handler that it is in.             *)
(***************************************************************************)
EXTENDS Naturals, Integers, Sequences, FiniteSets, SequencesExt, FiniteSetsExt

CONSTANTS
    Cpu,            \* the CPUs of the node: 0 .. system_size-1
    ProcessMask,    \* the CPUs of this process
    Thread,         \* the threads of this process
    MaxTasks,       \* bound: explicit tasks created
    MaxRegions,     \* bound: parallel regions of level 1
    MaxBlocking     \* bound: blocking MPI calls

Primary == "primary"

ASSUME CpuAssumption ==
    /\ IsFiniteSet(Cpu) /\ Cpu = 0 .. Cardinality(Cpu) - 1
    /\ ProcessMask \subseteq Cpu
    /\ ProcessMask # {}

ASSUME ThreadAssumption == IsFiniteSet(Thread) /\ Primary \in Thread

VARIABLES
    table,      \* Cpu -> [guest, busy]: who uses the CPU, and whether its owner wants it
    todo,       \* Thread -> the steps that the thread has still to perform
    team,       \* the threads in the parallel region of level 1; {} outside
    level,      \* the nesting level of the parallel regions that the primary thread is in
    mpi,        \* "out", "into", "in" or "outof" a blocking call
    tasks,      \* explicit tasks created and not yet started
    inTask,     \* the threads that execute an explicit task
    pending,    \* pending_tasks, the manager's own count of tasks
    lendOpt,    \* --lewi-ompt contains lend
    used        \* tasks, regions and blocking calls so far, for the bounds

envVars == <<table, todo, team, level, mpi, tasks, inTask, pending, lendOpt, used>>

First == CHOOSE c \in ProcessMask : \A d \in ProcessMask : c <= d

(* The CPUs of S in increasing order: the i-th one has i - 1 below it.     *)
Ascending(S) ==
    [i \in 1 .. Cardinality(S) |-> CHOOSE c \in S : Cardinality({d \in S : d <= c}) = i]

Op(name, c) == [op |-> name, cpu |-> c, set |-> {}]

OnSet(name, S) == [op |-> name, cpu |-> -1, set |-> S]

ForAll(name, S) == [i \in 1 .. Cardinality(S) |-> Op(name, Ascending(S)[i])]

EnvInit ==
    /\ table = [c \in Cpu |-> IF c \in ProcessMask THEN [guest |-> "us", busy |-> TRUE]
                                                   ELSE [guest |-> "other", busy |-> TRUE]]
    /\ todo = [t \in Thread |-> <<>>]
    /\ team = {} /\ level = 0 /\ mpi = "out"
    /\ tasks = 0 /\ inTask = {} /\ pending = 0
    /\ used = [tasks |-> 0, regions |-> 0, blocking |-> 0]

(* The thread is in no handler.                                            *)
Ready(t) == todo[t] = <<>>

Does(t, name) == todo[t] # <<>> /\ Head(todo[t]).op = name

CpuOf(t) == Head(todo[t]).cpu

SetOf(t) == Head(todo[t]).set

(* The step is done; the steps p come before the rest of the handler.      *)
Then(t, p) == todo' = [todo EXCEPT ![t] = p \o Tail(@)]

(* A new handler, and what DLB does before it and in it.                   *)
Enter(t, p) == todo' = [todo EXCEPT ![t] = p]

(* The handler collects CPU c in the mask of its last step.                *)
WithCpu(p, c) == [p EXCEPT ![Len(p)].set = @ \cup {c}]

Ours(c) == table[c].guest = "us" \/ (c \in ProcessMask /\ table[c].busy)

----------------------------------------------------------------------------
(* The LeWI calls.  A CPU that is lent while its owner wants it goes to    *)
(* the owner; otherwise nobody uses it.                                    *)

Lent(c) ==
    IF c \in ProcessMask THEN [guest |-> "nobody", busy |-> FALSE]
    ELSE [table[c] EXCEPT !.guest = IF table[c].busy THEN "other" ELSE "nobody"]

DLB_LendCpuMask(t) ==
    /\ Does(t, "LendCpuMask")
    /\ table' = [c \in Cpu |-> IF c \in SetOf(t) /\ table[c].guest = "us"
                               THEN Lent(c) ELSE table[c]]
    /\ Then(t, <<>>)
    /\ UNCHANGED <<team, level, mpi, tasks, inTask, pending, lendOpt, used>>

(* The owner gets what nobody uses at once and is announced to the guest   *)
(* of what somebody uses; the manager is told to enable both.              *)
Reclaimed(S) == {c \in S \cap ProcessMask : table[c].guest # "us"}

Acquired(c) ==
    [guest |-> IF table[c].guest = "other" THEN "other" ELSE "us", busy |-> c \in ProcessMask]

DLB_ReclaimCpuMask(t) ==
    /\ Does(t, "ReclaimCpuMask")
    /\ LET R == Reclaimed(SetOf(t)) IN
         /\ table' = [c \in Cpu |-> IF c \in R THEN Acquired(c) ELSE table[c]]
         /\ Then(t, ForAll("enable", R))
    /\ UNCHANGED <<team, level, mpi, tasks, inTask, pending, lendOpt, used>>

(* One CPU of the set, an own one before one that another process lends.   *)
Candidates(S) ==
    IF Reclaimed(S) # {} THEN Reclaimed(S)
    ELSE {c \in S \ ProcessMask : table[c].guest = "nobody"}

DLB_AcquireCpusInMask(t) ==
    /\ Does(t, "AcquireCpusInMask")
    /\ IF Candidates(SetOf(t)) = {}
         THEN Then(t, <<>>) /\ UNCHANGED table
         ELSE \E c \in Candidates(SetOf(t)) :
                /\ table' = [table EXCEPT ![c] = Acquired(c)]
                /\ Then(t, <<Op("enable", c)>>)
    /\ UNCHANGED <<team, level, mpi, tasks, inTask, pending, lendOpt, used>>

DLB_BorrowCpus(t) ==
    /\ Does(t, "BorrowCpus")
    /\ LET B == {c \in Cpu : table[c].guest = "nobody" /\ ~table[c].busy} IN
         \/ /\ B = {} /\ Then(t, <<>>) /\ UNCHANGED table
         \/ \E c \in B :
              /\ table' = [table EXCEPT ![c] = Acquired(c)]
              /\ Then(t, <<Op("enable", c)>>)
    /\ UNCHANGED <<team, level, mpi, tasks, inTask, pending, lendOpt, used>>

(* DLB_Return: every CPU of another process that its owner wants back.     *)
DLB_Return(t) ==
    /\ Does(t, "Return")
    /\ LET R == {c \in Cpu \ ProcessMask : table[c] = [guest |-> "us", busy |-> TRUE]} IN
         /\ table' = [c \in Cpu |-> IF c \in R THEN [table[c] EXCEPT !.guest = "other"] ELSE table[c]]
         /\ Then(t, ForAll("disable", R))
    /\ UNCHANGED <<team, level, mpi, tasks, inTask, pending, lendOpt, used>>

(* DLB_CheckCpuAvailability returns DLB_ERR_PERM for a CPU of another      *)
(* process that its owner wants; a CPU nobody uses is taken on the way.    *)
NotPermitted(c) == c \notin ProcessMask /\ table[c].busy

Taken(c) == IF table[c].guest = "nobody" THEN [table EXCEPT ![c].guest = "us"] ELSE table

(* DLB_ReturnCpu: the callback disables what is returned; the managers     *)
(* themselves disable what DLB_ERR_PERM says is not theirs (any more).     *)
DLB_ReturnCpu(t) ==
    /\ Does(t, "ReturnCpu")
    /\ LET c == CpuOf(t) IN
         IF table[c] = [guest |-> "us", busy |-> FALSE]
         THEN Then(t, <<>>) /\ UNCHANGED table
         ELSE /\ Then(t, <<Op("disable", c)>>)
              /\ table' = [table EXCEPT ![c].guest = IF @ = "us" THEN "other" ELSE @]
    /\ UNCHANGED <<team, level, mpi, tasks, inTask, pending, lendOpt, used>>

(* DLB_SetMaxParallelism(1) lends every own CPU but the first one and the  *)
(* borrowed ones, and tells the manager to disable them.                   *)
DLB_SetMaxParallelism(t) ==
    /\ Does(t, "SetMaxParallelism")
    /\ LET L == {c \in Cpu \ {First} : c \in ProcessMask \/ table[c].guest = "us"} IN
         /\ table' = [c \in Cpu |-> IF c \in L /\ table[c].guest = "us" THEN Lent(c) ELSE table[c]]
         /\ Then(t, ForAll("disable", L))
    /\ UNCHANGED <<team, level, mpi, tasks, inTask, pending, lendOpt, used>>

LewiCall(t) ==
    \/ DLB_LendCpuMask(t) \/ DLB_ReclaimCpuMask(t) \/ DLB_AcquireCpusInMask(t)
    \/ DLB_BorrowCpus(t) \/ DLB_Return(t) \/ DLB_ReturnCpu(t) \/ DLB_SetMaxParallelism(t)

(* The other processes of the node: they use what is lent, give back what  *)
(* is reclaimed, lend what is theirs and want it back.                     *)
OthersDo(c) ==
    /\ \/ /\ table[c].guest = "nobody"
          /\ table' = [table EXCEPT ![c].guest = "other", ![c].busy = c \notin ProcessMask]
       \/ /\ c \in ProcessMask /\ table[c] = [guest |-> "other", busy |-> TRUE]
          /\ table' = [table EXCEPT ![c].guest = "us"]
       \/ /\ c \notin ProcessMask /\ table[c] = [guest |-> "other", busy |-> TRUE]
          /\ table' = [table EXCEPT ![c] = [guest |-> "nobody", busy |-> FALSE]]
       \/ /\ c \notin ProcessMask /\ table[c] = [guest |-> "us", busy |-> FALSE]
          /\ table' = [table EXCEPT ![c].busy = TRUE]
    /\ UNCHANGED <<todo, team, level, mpi, tasks, inTask, pending, lendOpt, used>>
=============================================================================
