---------------------------- MODULE AsyncHelper ----------------------------
(***************************************************************************)
(* The helper threads of asynchronous mode (LB_comm/shmem_async.c).        *)
(*                                                                         *)
(* Every process has a slot in a shared array: a message queue, served by  *)
(* a thread of that process.  Other processes look the slot up without any *)
(* lock (get_helper), test its flag joinable without any lock, and only    *)
(* then take the lock of the queue: the slot may have been told to join,   *)
(* been cleared or been given to another process in between.               *)
(*                                                                         *)
(* What a message asks for does not matter here.  A message put in the     *)
(* queue when it already rejects messages is marked LATE.                  *)
(***************************************************************************)
EXTENDS Integers, Sequences, FiniteSets, FiniteSetsExt

CONSTANTS
  Pid,               \* processes
  NOBODY,            \* pid 0
  max_helpers,       \* capacity of the array
  QUEUE_SIZE,        \* size of the circular buffer of a queue
  MaxRegistrations   \* bound on num_helpers

ASSUME AsyncHelperAssumption ==
  /\ NOBODY \notin Pid
  /\ max_helpers \in Nat \ {0}
  /\ QUEUE_SIZE \in Nat \ {0, 1}
  /\ MaxRegistrations \in Nat

VARIABLES
  helpers,       \* helpers[h]: slot h of the array
  num_helpers,   \* how many helpers have been registered
  pcs,           \* pcs[p]: where process p is
  thread,        \* thread[p]: its helper thread
  target         \* target[p]: the slot p is about to write to, or NoSlot

vars == <<helpers, num_helpers, pcs, thread, target>>

PidOrNobody == Pid \cup {NOBODY}

Slot == 0 .. max_helpers - 1

NoSlot == -1

Message == {"CPU", "LATE", "JOIN"}

Helper == [pid : PidOrNobody, queue : Seq(Message), joinable : BOOLEAN]

Thread == [slot : Slot \cup {NoSlot}, join : BOOLEAN, done : BOOLEAN]

PC == {"out", "attached", "run", "aborting", "joining", "dead"}

EmptySlot == [pid |-> NOBODY, queue |-> <<>>, joinable |-> FALSE]

NoThread == [slot |-> NoSlot, join |-> FALSE, done |-> FALSE]

Init ==
  /\ helpers = [h \in Slot |-> EmptySlot]
  /\ num_helpers = 0
  /\ pcs = [p \in Pid |-> "out"]
  /\ thread = [p \in Pid |-> NoThread]
  /\ target = [p \in Pid |-> NoSlot]

-----------------------------------------------------------------------------
(* Looking up and writing to a helper *)

(* The slots below num_helpers that belong to pid. *)
Found(pid) == {h \in Slot : h < num_helpers /\ helpers[h].pid = pid}

get_helper(pid) == IF Found(pid) = {} THEN NoSlot ELSE Min(Found(pid))

(* One place of the circular buffer stays unused. *)
QueueFull(h) == Len(helpers[h].queue) = QUEUE_SIZE - 1

(* Sender p looks up the helper of q.  The two unlocked reads, of the slot *)
(* and of joinable, are one step; what matters is that both may be stale   *)
(* when the message is written.                                            *)
LookUp(p, q) ==
  /\ pcs[p] = "run"
  /\ target[p] = NoSlot
  /\ get_helper(q) # NoSlot
  /\ ~helpers[get_helper(q)].joinable
  /\ target' = [target EXCEPT ![p] = get_helper(q)]
  /\ UNCHANGED <<helpers, num_helpers, pcs, thread>>

(* enqueue_message, under the lock of the queue.  When the queue is full   *)
(* the sender calls fatal, which cleans up (dlb_clean): the sender goes on *)
(* to finalize its own helper.                                             *)
Enqueue(p) ==
  LET h == target[p]
      m == IF helpers[h].joinable THEN "LATE" ELSE "CPU" IN
  /\ h # NoSlot
  /\ IF QueueFull(h)
     THEN pcs' = [pcs EXCEPT ![p] = "aborting"] /\ UNCHANGED helpers
     ELSE helpers' = [helpers EXCEPT ![h].queue = Append(@, m)] /\ UNCHANGED pcs
  /\ target' = [target EXCEPT ![p] = NoSlot]
  /\ UNCHANGED <<num_helpers, thread>>

-----------------------------------------------------------------------------
(* The helper thread: thread_start *)

Dequeue(p) ==
  LET h == thread[p].slot IN
  /\ h # NoSlot
  /\ ~thread[p].done
  /\ helpers[h].queue # <<>>
  /\ helpers' = [helpers EXCEPT ![h].queue = Tail(@)]
  /\ thread' = [thread EXCEPT ![p].join = @ \/ Head(helpers[h].queue) = "JOIN"]
  /\ UNCHANGED <<num_helpers, pcs, target>>

(* The loop ends once it has seen JOIN and the queue looks empty. *)
ThreadExit(p) ==
  /\ thread[p].join
  /\ ~thread[p].done
  /\ helpers[thread[p].slot].queue = <<>>
  /\ thread' = [thread EXCEPT ![p].done = TRUE]
  /\ UNCHANGED <<helpers, num_helpers, pcs, target>>

-----------------------------------------------------------------------------
(* shmem_async_init and shmem_async_finalize *)

(* shmem_init cleans up the slots of the processes that have died. *)
Attach(p) ==
  LET dead == {q \in Pid : pcs[q] = "dead"} IN
  /\ pcs[p] = "out"
  /\ helpers' = [h \in Slot |-> IF helpers[h].pid \in dead THEN EmptySlot
                                ELSE helpers[h]]
  /\ pcs' = [q \in Pid |-> IF q = p THEN "attached"
                           ELSE IF q \in dead THEN "out" ELSE pcs[q]]
  /\ UNCHANGED <<num_helpers, thread, target>>

Free == {h \in Slot : helpers[h].pid = NOBODY}

(* The last process to detach deletes the shared memory. *)
Detached(p) ==
  \A q \in Pid \ {p} : pcs[q] = "out"

(* The first free slot, if any; its queue starts empty.  Without one the   *)
(* process detaches again.                                                 *)
Register(p) ==
  /\ pcs[p] = "attached"
  /\ num_helpers < MaxRegistrations
  /\ IF Free # {}
     THEN /\ helpers' = [helpers EXCEPT ![Min(Free)] =
                           [pid |-> p, queue |-> <<>>, joinable |-> @.joinable]]
          /\ thread' = [thread EXCEPT ![p] = [NoThread EXCEPT !.slot = Min(Free)]]
          /\ num_helpers' = num_helpers + 1
          /\ pcs' = [pcs EXCEPT ![p] = "run"]
     ELSE /\ pcs' = [pcs EXCEPT ![p] = "out"]
          /\ UNCHANGED <<helpers, num_helpers, thread>>
  /\ UNCHANGED target

(* Mutant: joinable is not set. *)
FinalizeOpen(p) ==
  /\ pcs[p] = "run"
  /\ target[p] = NoSlot
  /\ get_helper(p) # NoSlot
  /\ ~QueueFull(get_helper(p))
  /\ helpers' = [helpers EXCEPT ![get_helper(p)].queue = Append(@, "JOIN")]
  /\ pcs' = [pcs EXCEPT ![p] = "joining"]
  /\ UNCHANGED <<num_helpers, thread, target>>

(* Finalization: JOIN is enqueued and the queue rejects messages from now  *)
(* on.  If the queue is full JOIN is not enqueued: fatal comes back here,  *)
(* where the flag set just before discards JOIN, and waits for the thread  *)
(* (a process that is aborting waits for the lock of dlb_clean it holds).  *)
(* Nothing happens to the helper if it cannot be found.                    *)
Finalize(p) ==
  LET h == get_helper(p) IN
  /\ pcs[p] \in {"run", "aborting"}
  /\ target[p] = NoSlot
  /\ IF h = NoSlot
     THEN pcs' = [pcs EXCEPT ![p] = "out"] /\ UNCHANGED helpers
     ELSE /\ IF helpers[h].joinable \/ QueueFull(h)
             THEN helpers' = [helpers EXCEPT ![h].joinable = TRUE]
             ELSE helpers' = [helpers EXCEPT ![h].joinable = TRUE,
                                             ![h].queue = Append(@, "JOIN")]
          /\ pcs' = [pcs EXCEPT ![p] = "joining"]
  /\ UNCHANGED <<num_helpers, thread, target>>

(* Mutant: the slot is cleared without waiting for the thread. *)
ClearUnjoined(p) ==
  /\ pcs[p] = "joining"
  /\ helpers' = IF Detached(p) THEN [h \in Slot |-> EmptySlot]
                ELSE [helpers EXCEPT ![thread[p].slot] = EmptySlot]
  /\ num_helpers' = IF Detached(p) THEN 0 ELSE num_helpers
  /\ thread' = [thread EXCEPT ![p] = NoThread]
  /\ pcs' = [pcs EXCEPT ![p] = "out"]
  /\ UNCHANGED target

(* Mutant: num_helpers counts the slots in use. *)
ClearCounted(p) ==
  /\ pcs[p] = "joining"
  /\ thread[p].done
  /\ helpers' = [helpers EXCEPT ![thread[p].slot] = EmptySlot]
  /\ num_helpers' = num_helpers - 1
  /\ thread' = [thread EXCEPT ![p] = NoThread]
  /\ pcs' = [pcs EXCEPT ![p] = "out"]
  /\ UNCHANGED target

(* Once the thread has been joined its slot is cleared.  num_helpers only  *)
(* starts again from zero in a new shared memory.                          *)
Clear(p) ==
  /\ pcs[p] = "joining"
  /\ thread[p].done
  /\ helpers' = IF Detached(p) THEN [h \in Slot |-> EmptySlot]
                ELSE [helpers EXCEPT ![thread[p].slot] = EmptySlot]
  /\ num_helpers' = IF Detached(p) THEN 0 ELSE num_helpers
  /\ thread' = [thread EXCEPT ![p] = NoThread]
  /\ pcs' = [pcs EXCEPT ![p] = "out"]
  /\ UNCHANGED target

Crash(p) ==
  /\ pcs[p] \in {"run", "aborting", "joining"}
  /\ pcs' = [pcs EXCEPT ![p] = "dead"]
  /\ thread' = [thread EXCEPT ![p] = NoThread]
  /\ target' = [target EXCEPT ![p] = NoSlot]
  /\ UNCHANGED <<helpers, num_helpers>>

-----------------------------------------------------------------------------
HelperStep(p) == Dequeue(p) \/ ThreadExit(p) \/ Clear(p)

Next ==
  \E p \in Pid :
    \/ Attach(p) \/ Register(p) \/ Finalize(p) \/ Crash(p)
    \/ \E q \in Pid : LookUp(p, q)
    \/ Enqueue(p)
    \/ HelperStep(p)

Spec == Init /\ [][Next]_vars

(* The threads of a live process run, and one that aborts goes on. *)
FairSpec ==
  Spec /\ \A p \in Pid : /\ WF_vars(HelperStep(p))
                         /\ WF_vars(Enqueue(p))
                         /\ WF_vars(pcs[p] = "aborting" /\ Finalize(p))

-----------------------------------------------------------------------------
(* Properties *)

(* Types; and a queue never holds QUEUE_SIZE messages, when the buffer     *)
(* would look empty (enqueue_message).                                     *)
TypeOK ==
  /\ helpers \in [Slot -> Helper]
  /\ \A h \in Slot : Len(helpers[h].queue) < QUEUE_SIZE
  /\ num_helpers \in Nat
  /\ pcs \in [Pid -> PC]
  /\ thread \in [Pid -> Thread]
  /\ target \in [Pid -> Slot \cup {NoSlot}]

(* The helper of a running process can be found, and is the one its thread *)
(* serves: no message and no JOIN goes to a slot nobody serves.            *)
HelperFound ==
  \A p \in Pid : pcs[p] \in {"run", "aborting"} =>
    get_helper(p) # NoSlot /\ get_helper(p) = thread[p].slot

(* When a process has finished, its helper has handled every message that  *)
(* was put in the queue before JOIN.                                       *)
AcceptedAreHandled ==
  [][\A p \in Pid : pcs[p] = "joining" /\ pcs'[p] = "out" =>
       \A i \in 1 .. Len(helpers[thread[p].slot].queue) :
         helpers[thread[p].slot].queue[i] # "CPU"]_vars

(* JOIN has been put in the queue of p. *)
JoinSent(p) ==
  \/ thread[p].join
  \/ \E i \in 1 .. Len(helpers[thread[p].slot].queue) : helpers[thread[p].slot].queue[i] = "JOIN"

(* Once JOIN is in its queue the thread finishes, however many messages    *)
(* arrive late, and shmem_async_finalize returns.                          *)
FinalizeEnds ==
  \A p \in Pid : pcs[p] = "joining" /\ JoinSent(p) ~> pcs[p] # "joining"

(* fatal, called when a queue is full, is declared noreturn and aborts.    *)
FatalEnds ==
  \A p \in Pid : pcs[p] = "aborting" ~> pcs[p] \in {"out", "dead"}

(* The comment in enqueue_message: "If ACTION_JOIN, flag helper to reject  *)
(* further messages".                                                      *)
RejectsAfterJoin ==
  \A h \in Slot : \A i \in 1 .. Len(helpers[h].queue) : helpers[h].queue[i] # "LATE"

(* The comments on shdata_t: max_helpers is the "capacity" and num_helpers *)
(* the "size" of the array that get_helper walks through.                  *)
SizeWithinCapacity == num_helpers <= max_helpers

=============================================================================
