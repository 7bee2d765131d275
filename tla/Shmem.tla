------------------------------- MODULE Shmem -------------------------------
(***************************************************************************)
(* The life of one shared memory of the node (LB_comm/shmem.c): processes  *)
(* open it by its name, the first one initialises it, each registers       *)
(* itself in its list of processes, and the last one to leave removes the  *)
(* name.  Any process may die at any step, also inside the lock.           *)
(*                                                                         *)
(* A name refers to at most one segment; a process that has mapped a       *)
(* segment keeps it when the name is removed.  The data that the module on *)
(* top keeps in the segment is here that of classic LeWI                   *)
(* (LB_comm/comm_lend_light.c): a count of idle CPUs and one of processes. *)
(*                                                                         *)
(* A call is a program: a sequence of steps, each one atomic access to     *)
(* shared state.  todo[t] is what thread t still has to do of its call.    *)
(***************************************************************************)
EXTENDS Naturals, Integers, Sequences, FiniteSets

CONSTANTS
    Proc,       \* the processes of the node
    Thread,     \* the threads that call into DLB
    ProcOf,     \* Thread -> Proc
    Slots,      \* the length of the list of processes: the system size
    NoOne       \* nobody holds the lock

ASSUME ShmemAssumption ==
    /\ ProcOf \in [Thread -> Proc]
    /\ Slots \in Nat \ {0}
    /\ NoOne \notin Thread

Segment == 1 .. Cardinality(Proc) + 1

VARIABLES
    todo,       \* Thread -> the steps that the thread has still to perform
    name,       \* the segment that the name refers to, 0 when there is none
    seg,        \* Segment -> its contents
    map,        \* Proc -> the segment that the process has mapped, 0 when none
    handler,    \* Proc -> shm_handler is not NULL
    subs,       \* Proc -> subprocesses_attached
    alive,      \* the processes that have not died
    opts        \* Proc -> the program it runs: the version of DLB that it was built
                \*     with (SHMEM_SYNC_VERSION), and its options

shmemVars == <<todo, name, seg, map, handler, subs, alive>>

Op(o) == [op |-> o, n |-> 0]

With(o, k) == [op |-> o, n |-> k]

(* A segment just created by ftruncate: all zeroes.                        *)
Zeroed == [initializing |-> FALSE, initialized |-> FALSE, version |-> 0, lock |-> NoOne,
           pids |-> {}, nprocs |-> 0, idle |-> 0]

ShmemInit ==
    /\ todo = [t \in Thread |-> <<>>]
    /\ name = 0
    /\ seg = [s \in Segment |-> Zeroed]
    /\ map = [p \in Proc |-> 0]
    /\ handler = [p \in Proc |-> FALSE]
    /\ subs = [p \in Proc |-> 0]
    /\ alive = Proc

Mine(t) == seg[map[ProcOf[t]]]

(* The thread performs its first step; what follows it may be replaced.    *)
Doing(t, o) ==
    /\ ProcOf[t] \in alive
    /\ todo[t] # <<>>
    /\ Head(todo[t]).op = o

Arg(t) == Head(todo[t]).n

Then(t, steps) == todo' = [todo EXCEPT ![t] = steps \o Tail(@)]

Done(t) == Then(t, <<>>)

Write(t, field, value) ==
    seg' = [seg EXCEPT ![map[ProcOf[t]]] = [@ EXCEPT ![field] = value]]

(***************************************************************************)
(* shmem_init.                                                             *)
(***************************************************************************)

shmem_init == <<Op("shm_open"), Op("initialize"), Op("timedlock"), Op("check"), Op("opened")>>

(* shm_open, ftruncate and mmap.  The size is the same for all, so that    *)
(* truncating a segment that exists changes nothing.                       *)
shm_open(t) ==
    /\ Doing(t, "shm_open")
    /\ LET new == CHOOSE s \in Segment : s # name /\ \A p \in Proc : map[p] # s
           s == IF name = 0 THEN new ELSE name
       IN /\ map' = [map EXCEPT ![ProcOf[t]] = s]
          /\ name' = s
          /\ seg' = IF name = 0 THEN [seg EXCEPT ![s] = Zeroed] ELSE seg
    /\ Done(t)
    /\ UNCHANGED <<handler, subs, alive>>

(* The compare and swap elects the one that initialises the mutex; the     *)
(* others wait for it.                                                     *)
initialize(t) ==
    /\ Doing(t, "initialize")
    /\ Write(t, "initializing", TRUE)
    /\ Then(t, IF Mine(t).initializing THEN <<Op("attach")>> ELSE <<Op("create")>>)
    /\ UNCHANGED <<name, map, handler, subs, alive>>

create(t) ==
    /\ Doing(t, "create")
    /\ seg' = [seg EXCEPT ![map[ProcOf[t]]].initialized = TRUE,
                          ![map[ProcOf[t]]].version = opts[ProcOf[t]].version,
                          ![map[ProcOf[t]]].lock = NoOne]
    /\ Done(t)
    /\ UNCHANGED <<name, map, handler, subs, alive>>

attach(t) ==
    /\ Doing(t, "attach")
    /\ Mine(t).initialized
    /\ Done(t)
    /\ UNCHANGED <<name, seg, map, handler, subs, alive>>

Holder(s) == seg[s].lock

(* A process that is killed or that aborts leaves its mappings, and a lock *)
(* that it holds stays locked.                                             *)
Dies(p) ==
    /\ alive' = alive \ {p}
    /\ map' = [map EXCEPT ![p] = 0]
    /\ todo' = [t \in Thread |-> IF ProcOf[t] = p THEN <<>> ELSE todo[t]]
    /\ UNCHANGED <<name, seg, handler, subs>>

(* Ten seconds are more than any critical section takes: the timeout only  *)
(* expires when the holder has died, and then the process aborts.          *)
timedlock(t) ==
    /\ Doing(t, "timedlock")
    /\ \/ /\ Mine(t).lock = NoOne
          /\ Write(t, "lock", t)
          /\ Done(t)
          /\ UNCHANGED <<name, map, handler, subs, alive>>
       \/ /\ Mine(t).lock # NoOne
          /\ ProcOf[Mine(t).lock] \notin alive
          /\ Dies(ProcOf[t])

(* shmem_consistency_check_pids: the processes of the list that no longer  *)
(* exist are removed, after their clean-up (one attached process less),    *)
(* and the process enters the list if it has a free slot.  A slot freed by *)
(* this very pass is not taken.                                            *)
check_pids(t) ==
    LET gone == Mine(t).pids \ alive
        me == IF Cardinality(Mine(t).pids) < Slots THEN {ProcOf[t]} ELSE {}
    IN  [Mine(t) EXCEPT !.pids = (@ \ gone) \union me,
                        !.nprocs = @ - Cardinality(gone),
                        !.lock = NoOne]

(* The version of DLB is that of the creator of the memory.  Of the data,  *)
(* classic LeWI does not check the version (SHMEM_VERSION_IGNORE).         *)
check_version(t) == Mine(t).version = opts[ProcOf[t]].version

(* A process built with another version aborts, and leaves the lock held.  *)
check(t) ==
    /\ Doing(t, "check")
    /\ \/ /\ check_version(t)
          /\ seg' = [seg EXCEPT ![map[ProcOf[t]]] = check_pids(t)]
          /\ Done(t)
          /\ UNCHANGED <<name, map, handler, subs, alive>>
       \/ ~check_version(t) /\ Dies(ProcOf[t])

(* The end of open_shmem of comm_lend_light: the handler is set.           *)
opened(t) ==
    /\ Doing(t, "opened")
    /\ handler' = [handler EXCEPT ![ProcOf[t]] = TRUE]
    /\ subs' = [subs EXCEPT ![ProcOf[t]] = 1]
    /\ Done(t)
    /\ UNCHANGED <<name, seg, map, alive>>

(***************************************************************************)
(* shmem_finalize.                                                         *)
(***************************************************************************)

shmem_finalize == <<Op("lock"), Op("leave")>>

(* shmem_lock has no timeout.                                              *)
lock(t) ==
    /\ Doing(t, "lock")
    /\ Mine(t).lock = NoOne
    /\ Write(t, "lock", t)
    /\ Done(t)
    /\ UNCHANGED <<name, map, handler, subs, alive>>

(* Mutant: the process that leaves is expected to be still counted.        *)
delete_shmem_counting_itself(t) == Mine(t).nprocs = 1 /\ Mine(t).pids \subseteq {ProcOf[t]}

(* Nobody is attached by the count of the module, and nobody else is in    *)
(* the list of processes.                                                  *)
delete_shmem(t) == Mine(t).nprocs = 0 /\ Mine(t).pids \subseteq {ProcOf[t]}

(* shmem_consistency_remove_pid under the lock; whether to remove the name *)
(* is decided here and done after the unlock.                              *)
leave(t) ==
    /\ Doing(t, "leave")
    /\ seg' = [seg EXCEPT ![map[ProcOf[t]]].pids = @ \ {ProcOf[t]},
                          ![map[ProcOf[t]]].lock = NoOne]
    /\ Then(t, IF delete_shmem(t) THEN <<Op("munmap"), Op("unlink")>> ELSE <<Op("munmap")>>)
    /\ UNCHANGED <<name, map, handler, subs, alive>>

munmap(t) ==
    /\ Doing(t, "munmap")
    /\ map' = [map EXCEPT ![ProcOf[t]] = 0]
    /\ handler' = [handler EXCEPT ![ProcOf[t]] = FALSE]
    /\ Done(t)
    /\ UNCHANGED <<name, seg, subs, alive>>

(* The name is removed, whichever segment it refers to by now.             *)
unlink(t) ==
    /\ Doing(t, "unlink")
    /\ name' = 0
    /\ Done(t)
    /\ UNCHANGED <<seg, map, handler, subs, alive>>

(* A process is killed.                                                    *)
Crash(p) == p \in alive /\ Dies(p)

(* dlb_shm --delete.  (The clean-up of a fatal error does not destroy the  *)
(* memory of classic LeWI.)                                                *)
delete_shdata_item ==
    /\ name # 0
    /\ name' = 0
    /\ UNCHANGED <<todo, seg, map, handler, subs, alive>>

ShmemStep(t) ==
    \/ shm_open(t) \/ initialize(t) \/ create(t) \/ attach(t) \/ timedlock(t)
    \/ check(t) \/ opened(t) \/ lock(t) \/ leave(t) \/ munmap(t) \/ unlink(t)

(***************************************************************************)
(* Properties.                                                             *)
(***************************************************************************)

Mapped(p) == map[p] # 0

Quiet == \A t \in Thread : todo[t] = <<>>

(* When no process uses the memory any more and nobody died, its name is   *)
(* gone: the last one to leave removed it (shmem_finalize), however the    *)
(* processes that came and left overlapped.                                *)
NothingIsLeft ==
    (Quiet /\ alive = Proc /\ \A p \in Proc : ~Mapped(p)) => name = 0

(* A process that has the memory open is in its list of processes, so that *)
(* no other one takes itself for the last (shmem_consistency_check_pids    *)
(* and shmem_consistency_remove_pid).                                      *)
OpenAreListed ==
    \A p \in alive : handler[p] => p \in seg[map[p]].pids \/
        \E t \in Thread : ProcOf[t] = p /\ todo[t] # <<>> /\ Head(todo[t]).op = "munmap"

(* All processes that have the memory open share one segment.              *)
OneSegment ==
    \A p, q \in alive : (handler[p] /\ handler[q]) => map[p] = map[q]
=============================================================================
