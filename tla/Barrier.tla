------------------------------ MODULE Barrier ------------------------------
(***************************************************************************)
(* The node barriers: LB_core/node_barrier.c over the shared memory of     *)
(* LB_comm/shmem_barrier.c.                                                *)
(*                                                                         *)
(* A barrier is a slot of a shared array with a pthread barrier, a read-   *)
(* write lock and a counter.  A process inside the barrier holds the lock  *)
(* for reading; joining and leaving the barrier hold it for writing and    *)
(* create the pthread barrier anew.  Registering and detaching wait for it *)
(* with a timeout, holding the lock of the shared memory.                  *)
(*                                                                         *)
(* A process has one thread that calls DLB.  The read-write lock prefers   *)
(* readers, as that of glibc does by default.  Left out: whether a barrier *)
(* does LeWI, ntimes (it is only printed), the order of barrier_list, and  *)
(* processes that disagree on max_barriers.  A process that died or aborted *)
(* does not come back; another one may come.                               *)
(***************************************************************************)
EXTENDS Integers, FiniteSets, FiniteSetsExt

CONSTANTS
  Pid,            \* processes
  max_barriers,   \* capacity of the array
  Names,          \* names used for named barriers
  DefaultName,    \* the name of the default barrier
  NoName,         \* the empty name
  UintSize,       \* 2^w for the width w of the unsigned counters
  Calls           \* operations that are allowed

ASSUME BarrierAssumption ==
  /\ IsFiniteSet(Pid)
  /\ max_barriers \in Nat \ {0}
  /\ NoName \notin Names \cup {DefaultName}
  /\ UintSize \in Nat /\ UintSize > 2 * Cardinality(Pid)

VARIABLES
  initialized,      \* shdata->initialized
  num_barriers,     \* slots below it may be in use
  barriers,         \* barriers[i]: slot i
  readers,          \* readers[i]: who holds the lock of slot i for reading
  lock,             \* who holds the lock of the shared memory, waiting for a slot
  pc,               \* pc[p]: where process p is
  default_barrier,  \* default_barrier[p]: a slot or NoSlot
  barrier_list,     \* barrier_list[p]: the named barriers of p
  known,            \* known[p]: the named barriers p has got a pointer to
  call              \* call[p]: the slot of the barrier p is in, and last_in

vars == <<initialized, num_barriers, barriers, readers, lock, pc,
          default_barrier, barrier_list, known, call>>

local == <<default_barrier, barrier_list, known>>

Slot == 0 .. max_barriers - 1

NoSlot == -1

Name == Names \cup {DefaultName, NoName}

Barrier_t ==
  [name : Name, initialized : BOOLEAN, participants : 0 .. UintSize - 1,
   count : 0 .. UintSize - 1, size : 0 .. UintSize - 1, waiting : SUBSET Pid]

(* A pointer to a slot, with the name it was asked for. *)
Handle == [slot : Slot, name : Name]

EmptyBarrier ==
  [name |-> NoName, initialized |-> FALSE, participants |-> 0,
   count |-> 0, size |-> 0, waiting |-> {}]

(* The holder of the lock of the shared memory does op on the slot of      *)
(* handle, the default barrier or a named one, and goes on at next.        *)
LockHolder ==
  [pid : Pid, op : {"join", "detach"}, kind : {"default", "named"}, handle : Handle,
   next : {"ready", "finish"}]

NoLock == [pid |-> "nobody"]

PC == {"out", "open", "ready", "enter", "wait", "released", "locking", "finish", "dead",
       "cleaned", "gone"}

Outside == [slot |-> NoSlot, last_in |-> FALSE]

Init ==
  /\ initialized = FALSE
  /\ num_barriers = 0
  /\ barriers = [i \in Slot |-> EmptyBarrier]
  /\ readers = [i \in Slot |-> {}]
  /\ lock = NoLock
  /\ pc = [p \in Pid |-> "out"]
  /\ default_barrier = [p \in Pid |-> NoSlot]
  /\ barrier_list = [p \in Pid |-> {}]
  /\ known = [p \in Pid |-> {}]
  /\ call = [p \in Pid |-> Outside]

-----------------------------------------------------------------------------
(* The array of barriers *)

Matching(name) ==
  {i \in Slot : /\ i < num_barriers
                /\ barriers[i].participants > 0
                /\ barriers[i].initialized
                /\ barriers[i].name = name}

EmptySpots ==
  {i \in Slot : i < num_barriers /\ barriers[i].participants = 0 /\ ~barriers[i].initialized}

(* shmem_barrier__find *)
find(name) == IF Matching(name) = {} THEN NoSlot ELSE Min(Matching(name))

(* The slot that shmem_barrier__register uses for name. *)
Spot(name) ==
  IF Matching(name) # {} THEN Min(Matching(name))
  ELSE IF EmptySpots # {} THEN Min(EmptySpots)
  ELSE IF num_barriers < max_barriers THEN num_barriers
  ELSE NoSlot

(* The pthread barrier is created anew for n participants. *)
resize(b, n) == [b EXCEPT !.participants = n, !.size = n, !.waiting = {}]

joined(b) == resize(b, (b.participants + 1) % UintSize)

created(name) == [resize(EmptyBarrier, 1) EXCEPT !.name = name, !.initialized = TRUE]

(* The last participant to leave empties the slot. *)
detached(b) == IF b.participants = 1 THEN EmptyBarrier ELSE resize(b, b.participants - 1)

(* Mutant: num_barriers counts the barriers. *)
CompactedToCount(bs) == Cardinality({i \in Slot : i < num_barriers /\ bs[i].initialized})

(* The slots at the end of the list that are not initialized are dropped. *)
Compacted(bs) ==
  LET used == {i \in Slot : i < num_barriers /\ bs[i].initialized} IN
  IF used = {} THEN 0 ELSE Max(used) + 1

-----------------------------------------------------------------------------
(* Joining and leaving a barrier *)

(* p notes that it has joined the barrier of h. *)
Noted(p, kind, h) ==
  IF kind = "default"
  THEN default_barrier' = [default_barrier EXCEPT ![p] = h.slot] /\ UNCHANGED <<barrier_list, known>>
  ELSE /\ barrier_list' = [barrier_list EXCEPT ![p] = @ \cup {h}]
       /\ known' = [known EXCEPT ![p] = @ \cup {h}]
       /\ UNCHANGED default_barrier

Forgotten(p, kind, h) ==
  IF kind = "default"
  THEN default_barrier' = [default_barrier EXCEPT ![p] = NoSlot] /\ UNCHANGED <<barrier_list, known>>
  ELSE barrier_list' = [barrier_list EXCEPT ![p] = @ \ {h}] /\ UNCHANGED <<known, default_barrier>>

(* With both locks p joins the barrier in the slot of h. *)
Join(p, kind, h) ==
  /\ barriers' = [barriers EXCEPT ![h.slot] = joined(@)]
  /\ Noted(p, kind, h)
  /\ UNCHANGED <<num_barriers, readers>>

(* With both locks p leaves it, unless it is not a valid barrier.  That    *)
(* error is ignored when DLB finishes.                                     *)
Detach(p, kind, h, next) ==
  /\ IF barriers[h.slot].initialized /\ barriers[h.slot].participants > 0
     THEN LET bs == [barriers EXCEPT ![h.slot] = detached(@)] IN
          /\ barriers' = bs
          /\ num_barriers' = IF bs[h.slot].initialized THEN num_barriers ELSE Compacted(bs)
          /\ Forgotten(p, kind, h)
     ELSE /\ UNCHANGED <<barriers, num_barriers>>
          /\ IF next = "finish" THEN Forgotten(p, kind, h) ELSE UNCHANGED local
  /\ UNCHANGED readers

(* p holds the lock of the shared memory until it gets that of the slot. *)
WaitForSlot(p, op, kind, h, next) ==
  /\ lock' = [pid |-> p, op |-> op, kind |-> kind, handle |-> h, next |-> next]
  /\ pc' = [pc EXCEPT ![p] = "locking"]
  /\ UNCHANGED <<num_barriers, barriers, readers, local>>

(* shmem_barrier__register *)
Register(p, kind, name) ==
  LET h == [slot |-> Spot(name), name |-> name] IN
  /\ lock = NoLock
  /\ h.slot # NoSlot
  /\ IF ~barriers[h.slot].initialized
     THEN /\ barriers' = [barriers EXCEPT ![h.slot] = created(name)]
          /\ readers' = [readers EXCEPT ![h.slot] = {}]
          /\ num_barriers' = IF h.slot = num_barriers THEN num_barriers + 1 ELSE num_barriers
          /\ Noted(p, kind, h)
          /\ pc' = [pc EXCEPT ![p] = "ready"]
          /\ UNCHANGED lock
     ELSE IF readers[h.slot] = {}
     THEN Join(p, kind, h) /\ pc' = [pc EXCEPT ![p] = "ready"] /\ UNCHANGED lock
     ELSE WaitForSlot(p, "join", kind, h, "ready")
  /\ UNCHANGED <<initialized, call>>

(* shmem_barrier__detach; p goes on as next. *)
Leave(p, kind, h, next) ==
  /\ lock = NoLock
  /\ IF readers[h.slot] = {}
     THEN Detach(p, kind, h, next) /\ pc' = [pc EXCEPT ![p] = next] /\ UNCHANGED lock
     ELSE WaitForSlot(p, "detach", kind, h, next)
  /\ UNCHANGED <<initialized, call>>

(* The lock of the slot is granted. *)
Granted(p) ==
  /\ pc[p] = "locking"
  /\ readers[lock.handle.slot] = {}
  /\ IF lock.op = "join" THEN Join(p, lock.kind, lock.handle)
     ELSE Detach(p, lock.kind, lock.handle, lock.next)
  /\ lock' = NoLock
  /\ pc' = [pc EXCEPT ![p] = lock.next]
  /\ UNCHANGED <<initialized, call>>

(* A process detaches from the shared memory; the last one deletes it, and *)
(* with it the places of those that aborted.                               *)
shmem_finalize(p) ==
  /\ IF \A q \in Pid \ {p} : pc[q] \in {"out", "cleaned", "gone"}
     THEN /\ barriers' = [i \in Slot |-> EmptyBarrier]
          /\ readers' = [i \in Slot |-> {}]
          /\ num_barriers' = 0
          /\ initialized' = FALSE
          /\ default_barrier' = [q \in Pid |-> NoSlot]
          /\ barrier_list' = [q \in Pid |-> {}]
     ELSE UNCHANGED <<barriers, readers, num_barriers, initialized, default_barrier, barrier_list>>
  /\ known' = [known EXCEPT ![p] = {}]

(* SHMEM_TIMEOUT_SECONDS have passed: fatal detaches the process from the  *)
(* shared memory (dlb_clean), but not from its barriers, and aborts.       *)
Timeout(p) ==
  /\ pc[p] = "locking"
  /\ readers[lock.handle.slot] # {}
  /\ lock' = NoLock
  /\ shmem_finalize(p)
  /\ pc' = [pc EXCEPT ![p] = "gone"]
  /\ UNCHANGED call

-----------------------------------------------------------------------------
(* The calls of node_barrier.c *)

Ready(p, name) == name \in Calls /\ pc[p] = "ready"

InList(p, slot) == \E h \in barrier_list[p] : h.slot = slot

(* The caller gets the pointer, without joining again, to a barrier that   *)
(* is in the list of the process.                                          *)
BarrierNamedRegister(p) ==
  /\ Ready(p, "register")
  /\ \E name \in Names :
       /\ ~(find(name) # NoSlot /\ InList(p, find(name)))
       /\ Register(p, "named", name)

(* Mutant: the lock of the slot is not taken. *)
BarrierNamedAttachUnlocked(p) ==
  /\ Ready(p, "attach_named")
  /\ \E h \in known[p] :
       /\ h.slot # default_barrier[p]
       /\ ~InList(p, h.slot)
       /\ barriers[h.slot].initialized /\ barriers[h.slot].participants > 0
       /\ Join(p, "named", h)
  /\ UNCHANGED <<initialized, lock, pc, call>>

(* shmem_barrier__attach only takes the lock of the slot; the process is   *)
(* blocked until it gets it.                                               *)
BarrierNamedAttach(p) ==
  /\ Ready(p, "attach_named")
  /\ \E h \in known[p] :
       /\ h.slot # default_barrier[p]
       /\ ~InList(p, h.slot)
       /\ readers[h.slot] = {}
       /\ barriers[h.slot].initialized /\ barriers[h.slot].participants > 0
       /\ Join(p, "named", h)
  /\ UNCHANGED <<initialized, lock, pc, call>>

BarrierAttach(p) ==
  /\ Ready(p, "attach")
  /\ default_barrier[p] = NoSlot
  /\ Register(p, "default", DefaultName)

(* A pointer to the default barrier stands for it. *)
BarrierNamedDetach(p) ==
  /\ Ready(p, "detach_named")
  /\ \E h \in known[p] :
       IF h.slot = default_barrier[p] THEN Leave(p, "default", h, "ready")
       ELSE \E e \in barrier_list[p] : e.slot = h.slot /\ Leave(p, "named", e, "ready")

BarrierDetach(p) ==
  /\ Ready(p, "detach")
  /\ default_barrier[p] # NoSlot
  /\ Leave(p, "default", [slot |-> default_barrier[p], name |-> DefaultName], "ready")

(* DLB_Barrier and DLB_BarrierNamed: lock for reading, count. *)
Enter(p) ==
  /\ Ready(p, "barrier")
  /\ \E i \in Slot :
       /\ i = default_barrier[p] \/ InList(p, i)
       /\ barriers[i].initialized
       /\ readers' = [readers EXCEPT ![i] = @ \cup {p}]
       /\ barriers' = [barriers EXCEPT ![i].count = (@ + 1) % UintSize]
       /\ call' = [call EXCEPT ![p] =
                     [slot |-> i, last_in |-> barriers'[i].count = barriers[i].participants]]
  /\ pc' = [pc EXCEPT ![p] = "enter"]
  /\ UNCHANGED <<initialized, num_barriers, lock, local>>

(* The pthread barrier: the last of size processes to arrive releases all. *)
pthread_barrier_wait(p) ==
  LET i == call[p].slot
      all == barriers[i].waiting \cup {p}
      full == Cardinality(all) >= barriers[i].size IN
  /\ pc[p] = "enter"
  /\ barriers' = [barriers EXCEPT ![i].waiting = IF full THEN {} ELSE all]
  /\ pc' = [q \in Pid |-> IF q \notin all \/ pc[q] \notin {"enter", "wait"} THEN pc[q]
                           ELSE IF full THEN "released"
                           ELSE "wait"]
  /\ UNCHANGED <<initialized, num_barriers, readers, lock, local, call>>

(* A process that waits in a pthread barrier that has been overwritten may *)
(* be woken up by the next one in its place, or not at all.                *)
Woken(p) ==
  /\ pc[p] = "wait"
  /\ p \notin barriers[call[p].slot].waiting
  /\ pc' = [pc EXCEPT ![p] = "released"]
  /\ UNCHANGED <<initialized, num_barriers, barriers, readers, lock, local, call>>

(* p leaves the barrier that it counted itself in, and releases its lock. *)
LeaveCounted(p, n) ==
  LET i == call[p].slot IN
  /\ pc[p] = "released"
  /\ barriers' = [barriers EXCEPT ![i].count = (@ - n) % UintSize]
  /\ readers' = [readers EXCEPT ![i] = @ \ {p}]
  /\ call' = [call EXCEPT ![p] = Outside]
  /\ pc' = [pc EXCEPT ![p] = "ready"]
  /\ UNCHANGED <<initialized, num_barriers, lock, local>>

Exit(p) == LeaveCounted(p, 1)

-----------------------------------------------------------------------------
(* Coming and going *)

(* The array after cleanup_shmem: one participant less in every slot, for  *)
(* a process that died, whatever barriers it had joined; if that leaves    *)
(* none the memory is zeroed.  The pthread barriers are not created anew.  *)
cleanup_shmem(s) ==
  LET left(i) == (s.barriers[i].participants - 1) % UintSize
      used == {i \in Slot : i < s.num_barriers} IN
  IF \A i \in used : left(i) = 0
  THEN [num_barriers |-> 0, barriers |-> [i \in Slot |-> EmptyBarrier]]
  ELSE [num_barriers |-> s.num_barriers,
        barriers |-> [i \in Slot |->
          IF i \notin used THEN s.barriers[i]
          ELSE IF left(i) = 0 THEN EmptyBarrier
          ELSE [s.barriers[i] EXCEPT !.participants = left(i)]]]

(* shmem_init cleans up after each of the dead; shmem_barrier__init. *)
Open(p) ==
  LET dead == {q \in Pid : pc[q] = "dead"}
      s == FoldSet(LAMBDA q, t : cleanup_shmem(t),
                   [num_barriers |-> num_barriers, barriers |-> barriers], dead) IN
  /\ pc[p] = "out"
  /\ lock = NoLock
  /\ barriers' = s.barriers
  /\ num_barriers' = IF initialized THEN s.num_barriers ELSE 0
  /\ initialized' = TRUE
  /\ readers' = [i \in Slot |-> IF dead # {} /\ s.barriers[i].size = 0 THEN {} ELSE readers[i]]
  /\ pc' = [q \in Pid |-> IF q = p THEN "open" ELSE IF q \in dead THEN "cleaned" ELSE pc[q]]
  /\ UNCHANGED <<lock, local, call>>

(* node_barrier_init; there may be no space for the default barrier. *)
NodeBarrierInit(p) ==
  /\ pc[p] = "open"
  /\ \/ Register(p, "default", DefaultName)
     \/ /\ lock = NoLock
        /\ Spot(DefaultName) = NoSlot
        /\ pc' = [pc EXCEPT ![p] = "ready"]
        /\ UNCHANGED <<initialized, num_barriers, barriers, readers, lock, local, call>>

Finish(p) ==
  /\ Ready(p, "finish")
  /\ pc' = [pc EXCEPT ![p] = "finish"]
  /\ UNCHANGED <<initialized, num_barriers, barriers, readers, lock, local, call>>

(* The default barrier first, then the list. *)
FinishStep(p) ==
  /\ pc[p] = "finish"
  /\ IF default_barrier[p] # NoSlot
     THEN Leave(p, "default", [slot |-> default_barrier[p], name |-> DefaultName], "finish")
     ELSE \E h \in barrier_list[p] : Leave(p, "named", h, "finish")

Close(p) ==
  /\ pc[p] = "finish"
  /\ default_barrier[p] = NoSlot /\ barrier_list[p] = {}
  /\ lock = NoLock
  /\ shmem_finalize(p)
  /\ pc' = [pc EXCEPT ![p] = "out"]
  /\ UNCHANGED <<lock, call>>

(* A process dies outside the lock of the shared memory, with its own      *)
(* memory; the locks it holds for reading stay held.                       *)
Crash(p) ==
  /\ "crash" \in Calls
  /\ pc[p] \notin {"out", "dead", "cleaned", "gone", "locking"}
  /\ pc' = [pc EXCEPT ![p] = "dead"]
  /\ default_barrier' = [default_barrier EXCEPT ![p] = NoSlot]
  /\ barrier_list' = [barrier_list EXCEPT ![p] = {}]
  /\ known' = [known EXCEPT ![p] = {}]
  /\ call' = [call EXCEPT ![p] = Outside]
  /\ UNCHANGED <<initialized, num_barriers, barriers, readers, lock>>

-----------------------------------------------------------------------------
Step(p) ==
  \/ Open(p) \/ NodeBarrierInit(p)
  \/ BarrierNamedRegister(p) \/ BarrierNamedAttach(p) \/ BarrierAttach(p)
  \/ BarrierNamedDetach(p) \/ BarrierDetach(p)
  \/ Granted(p) \/ Timeout(p)
  \/ Enter(p) \/ pthread_barrier_wait(p) \/ Woken(p) \/ Exit(p)
  \/ Finish(p) \/ FinishStep(p) \/ Close(p) \/ Crash(p)

Next == \E p \in Pid : Step(p)

Spec == Init /\ [][Next]_vars

(* Every participant goes on calling the barrier. *)
FairSpec ==
  Spec /\ \A p \in Pid : /\ WF_vars(Enter(p))
                         /\ WF_vars(pthread_barrier_wait(p))
                         /\ WF_vars(Exit(p))
                         /\ WF_vars(Granted(p) \/ Timeout(p))

-----------------------------------------------------------------------------
(* Properties *)

(* Types *)
TypeOK ==
  /\ initialized \in BOOLEAN
  /\ num_barriers \in 0 .. max_barriers
  /\ barriers \in [Slot -> Barrier_t]
  /\ readers \in [Slot -> SUBSET Pid]
  /\ lock \in LockHolder \cup {NoLock}
  /\ pc \in [Pid -> PC]
  /\ default_barrier \in [Pid -> Slot \cup {NoSlot}]
  /\ barrier_list \in [Pid -> SUBSET Handle]
  /\ known \in [Pid -> SUBSET Handle]
  /\ call \in [Pid -> [slot : Slot \cup {NoSlot}, last_in : BOOLEAN]]

(* The processes that have joined the barrier in slot i and have not died. *)
Members(i) == {p \in Pid : default_barrier[p] = i \/ InList(p, i)}

(* cleanup_shmem counts a dead process out of every barrier, joined or     *)
(* not, and leaves the pthread barriers as they are.                       *)
NobodyDied == \A p \in Pid : pc[p] \notin {"dead", "cleaned"}

(* A barrier counts, and its pthread barrier waits for, exactly the        *)
(* processes that have joined it and have not left, one that joined it as  *)
(* the default and by name twice; a slot that nobody has joined is not     *)
(* initialized.  While nobody dies.                                        *)
ParticipantsAreMembers ==
  NobodyDied => \A i \in Slot :
    /\ barriers[i].participants = Cardinality({p \in Pid : default_barrier[p] = i})
                                    + Cardinality({p \in Pid : InList(p, i)})
    /\ barriers[i].size = barriers[i].participants
    /\ barriers[i].initialized <=> barriers[i].participants > 0

(* No process goes past the barrier before all its members have arrived,   *)
(* also while others join, leave or give up on a lock (dlb.h: DLB_Barrier  *)
(* is "a shared-memory-based barrier among all DLB processes in the node").*)
(* While nobody dies.                                                      *)
NobodyLeftBehind ==
  [][\A p \in Pid :
       NobodyDied /\ pc[p] \in {"enter", "wait"} /\ pc'[p] = "released" =>
         \A q \in Members(call[p].slot) : pc[q] = "gone" \/ call[q].slot = call[p].slot]_vars

(* Two processes that give the same name get the same barrier. *)
NamesAreUnique ==
  \A i, j \in Slot :
    barriers[i].initialized /\ barriers[j].initialized /\ barriers[i].name = barriers[j].name
      => i = j

(* The assertion of shmem_barrier__attach and shmem_barrier__detach:       *)
(* whoever holds the lock of a slot for writing finds count zero.  While   *)
(* nobody dies.                                                            *)
CountIsZeroForWriters ==
  NobodyDied => \A i \in Slot : readers[i] = {} => barriers[i].count = 0

(* shmem_barrier__find stops at num_barriers. *)
InitializedAreFound == \A i \in Slot : barriers[i].initialized => i < num_barriers

(* What the slots promise to each other and to the processes: they count   *)
(* their members, have names of their own, are at rest for whoever locks   *)
(* them for writing, and are found by shmem_barrier__find.                 *)
SlotsAreSound ==
  /\ ParticipantsAreMembers
  /\ NamesAreUnique
  /\ CountIsZeroForWriters
  /\ InitializedAreFound

(* A process that waits at a barrier whose members keep calling it gets    *)
(* past it.                                                                *)
WaitEnds == \A p \in Pid : pc[p] = "wait" ~> pc[p] # "wait"

(* The comment on count in shmem_barrier__barrier: a race "is completely   *)
(* harmless since it only affects the verbose message".  It decides        *)
(* last_in: who acts as in a blocking call and who adds to ntimes.         *)
OneComesLast ==
  \A i \in Slot : Cardinality({p \in Pid : call[p].slot = i /\ call[p].last_in}) <= 1

(* The comment in shmem_barrier__register: "timedlock is used to avoid     *)
(* potential deadlocks".  A process that waits at a barrier waits for one  *)
(* that is alive.                                                          *)
TimeoutAvoidsDeadlock ==
  \A i \in Slot :
    barriers[i].waiting # {} =>
      \E q \in Members(i) \ barriers[i].waiting : pc[q] \notin {"dead", "cleaned", "gone"}

(* node_barrier_register: "This function does not allow registering the    *)
(* default barrier".                                                       *)
DefaultNotNamed ==
  \A p \in Pid : default_barrier[p] # NoSlot => ~InList(p, default_barrier[p])

(* shmem_barrier__attach: "At most, 'barrier' points to an unitialized     *)
(* barrier and error is returned".                                         *)
AttachedByName ==
  \A p \in Pid : \A h \in barrier_list[p] : barriers[h.slot].name = h.name

=============================================================================
