------------------------- MODULE AsyncHelperProofs -------------------------
(* Proofs about AsyncHelper, for any number of processes, helper slots and *)
(* messages.                                                               *)
EXTENDS AsyncHelper, WellFoundedInduction, TLAPS

-----------------------------------------------------------------------------
(* The inductive invariant *)

Alive(p) == pcs[p] \in {"run", "aborting", "joining"}

(* num_helpers is an upper bound of the slots in use: it counts every      *)
(* registration, and the slots are taken from the first free one.          *)
CountCovers == \A h \in Slot : helpers[h].pid # NOBODY => h < num_helpers

(* A live process serves a slot that is its own. *)
ServesOwn ==
  \A p \in Pid : Alive(p) => thread[p].slot \in Slot /\ helpers[thread[p].slot].pid = p

(* A slot belongs to the process that serves it, or to one that died. *)
SlotServed ==
  \A p \in Pid : \A h \in Slot : helpers[h].pid = p =>
    \/ Alive(p) /\ thread[p].slot = h
    \/ pcs[p] = "dead"

(* A process with a message to write is running. *)
SendersRun == \A p \in Pid : target[p] # NoSlot => pcs[p] = "run"

Inv == TypeOK /\ CountCovers /\ ServesOwn /\ SlotServed /\ SendersRun

-----------------------------------------------------------------------------
(* A non-empty set of slots has a least element (get_helper, and the slot  *)
(* that shmem_async_init takes).                                           *)
LEMMA MinSlot ==
  ASSUME NEW T \in SUBSET Nat, T # {}
  PROVE  Min(T) \in T /\ \A y \in T : Min(T) <= y
<1> DEFINE R == OpToRel(<, Nat)
<1>1. IsWellFoundedOn(R, Nat)
  BY NatLessThanWellFounded
<1>2. \E x \in T : \A y \in T : ~(<<y, x>> \in R)
  <2> HIDE DEF R
  <2> QED BY <1>1, WFMin
<1>3. PICK x \in T : \A y \in T : ~(<<y, x>> \in R)
  BY <1>2
<1>4. \A y \in T : ~(y < x)
  BY <1>3 DEF OpToRel
<1>5. \A y \in T : x <= y
  BY <1>4
<1> QED BY <1>5 DEF Min

(* A slot is a natural number, and NoSlot is not a slot. *)
LEMMA SlotNat == Slot \subseteq Nat /\ NoSlot \notin Slot
BY AsyncHelperAssumption DEF Slot, NoSlot

(* get_helper returns a slot of the pid it was given, or NoSlot. *)
LEMMA GetHelperFinds ==
  ASSUME NEW pid
  PROVE  \/ get_helper(pid) = NoSlot /\ Found(pid) = {}
         \/ get_helper(pid) \in Slot /\ helpers[get_helper(pid)].pid = pid
<1>1. CASE Found(pid) = {}
  BY <1>1 DEF get_helper
<1>2. CASE Found(pid) # {}
  <2>1. Found(pid) \in SUBSET Nat
    BY SlotNat DEF Found
  <2>2. get_helper(pid) \in Found(pid)
    BY <1>2, <2>1, MinSlot DEF get_helper
  <2> QED BY <2>2 DEF Found
<1> QED BY <1>1, <1>2

(* The invariant gives HelperFound: the slots in use lie below num_helpers *)
(* and a live process has only one.                                        *)
LEMMA InvHelperFound == Inv => HelperFound
<1> SUFFICES ASSUME Inv, NEW p \in Pid, pcs[p] \in {"run", "aborting"}
             PROVE  get_helper(p) # NoSlot /\ get_helper(p) = thread[p].slot
  BY DEF HelperFound
<1>1. thread[p].slot \in Slot /\ helpers[thread[p].slot].pid = p
  BY DEF Inv, ServesOwn, Alive
<1>2. thread[p].slot \in Found(p)
  BY <1>1, AsyncHelperAssumption DEF Inv, CountCovers, Found
<1>3. get_helper(p) \in Slot /\ helpers[get_helper(p)].pid = p
  BY <1>2, GetHelperFinds
<1> QED BY <1>3, SlotNat DEF Inv, SlotServed, Alive

(* The queue of a slot after a message has been put in it. *)
LEMMA AppendType ==
  ASSUME NEW q \in Seq(Message), NEW m \in Message, Len(q) < QUEUE_SIZE,
         Len(q) # QUEUE_SIZE - 1
  PROVE  Append(q, m) \in Seq(Message) /\ Len(Append(q, m)) < QUEUE_SIZE
BY AsyncHelperAssumption

(* Every step that changes only the queues and the flags joinable of slots *)
(* in use, and the progress of threads, keeps the invariant.               *)
LEMMA SameSlots ==
  ASSUME Inv, TypeOK', SendersRun', num_helpers' = num_helpers, pcs' = pcs,
         \A h \in Slot : helpers'[h].pid = helpers[h].pid,
         \A p \in Pid : thread'[p].slot = thread[p].slot
  PROVE  Inv'
<1>1. CountCovers'
  BY DEF Inv, CountCovers
<1>2. ServesOwn'
  BY DEF Inv, ServesOwn, Alive
<1>3. SlotServed'
  BY DEF Inv, SlotServed, Alive
<1> QED BY <1>1, <1>2, <1>3 DEF Inv

(* So does one that moves a live process on to another live state. *)
LEMMA MovesOn ==
  ASSUME Inv, TypeOK', SendersRun', num_helpers' = num_helpers, UNCHANGED thread,
         \A h \in Slot : helpers'[h].pid = helpers[h].pid,
         NEW p \in Pid, Alive(p), NEW next \in {"aborting", "joining"},
         pcs' = [pcs EXCEPT ![p] = next]
  PROVE  Inv'
<1>1. \A q \in Pid : Alive(q)' <=> Alive(q)
  BY DEF Inv, TypeOK, Alive
<1>2. \A q \in Pid : pcs'[q] = "dead" <=> pcs[q] = "dead"
  BY DEF Inv, TypeOK, Alive
<1>3. CountCovers'
  BY DEF Inv, CountCovers
<1>4. ServesOwn'
  BY <1>1 DEF Inv, ServesOwn
<1>5. SlotServed'
  BY <1>1, <1>2 DEF Inv, SlotServed
<1> QED BY <1>3, <1>4, <1>5 DEF Inv

-----------------------------------------------------------------------------
(* One lemma per action *)

(* A look-up by a sender changes no slot. *)
LEMMA LookUpInv ==
  ASSUME Inv, NEW p \in Pid, NEW q \in Pid, LookUp(p, q)
  PROVE  Inv'
<1>1. get_helper(q) \in Slot
  BY GetHelperFinds DEF LookUp
<1>2. TypeOK'
  BY <1>1 DEF Inv, TypeOK, LookUp
<1>3. SendersRun'
  BY DEF Inv, TypeOK, SendersRun, LookUp
<1> QED BY <1>2, <1>3, SameSlots DEF LookUp

(* enqueue_message fills a queue, or the sender aborts. *)
LEMMA EnqueueInv ==
  ASSUME Inv, NEW p \in Pid, Enqueue(p)
  PROVE  Inv'
<1> DEFINE h == target[p]
           m == IF helpers[h].joinable THEN "LATE" ELSE "CPU"
<1>1. h \in Slot /\ helpers[h] \in Helper /\ Len(helpers[h].queue) < QUEUE_SIZE
  BY DEF Enqueue, Inv, TypeOK
<1>4. pcs[p] = "run"
  BY DEF Enqueue, Inv, SendersRun
<1>5. target' = [target EXCEPT ![p] = NoSlot] /\ UNCHANGED <<num_helpers, thread>>
  BY DEF Enqueue
<1>2. CASE QueueFull(h)
  <2>1. pcs' = [pcs EXCEPT ![p] = "aborting"] /\ UNCHANGED helpers
    BY <1>2 DEF Enqueue
  <2>2. TypeOK'
    BY <1>5, <2>1 DEF Inv, TypeOK, PC
  <2>3. SendersRun'
    BY <1>5, <2>1 DEF Inv, TypeOK, SendersRun
  <2>4. Alive(p)
    BY <1>4 DEF Alive
  <2> QED BY <1>5, <2>1, <2>2, <2>3, <2>4, MovesOn
<1>3. CASE ~QueueFull(h)
  <2>1. helpers' = [helpers EXCEPT ![h].queue = Append(@, m)] /\ UNCHANGED pcs
    BY <1>3 DEF Enqueue
  <2>2. m \in Message /\ helpers[h].queue \in Seq(Message)
    BY <1>1 DEF Message, Helper
  <2> HIDE DEF m
  <2>3. Append(helpers[h].queue, m) \in Seq(Message) /\ Len(Append(helpers[h].queue, m)) < QUEUE_SIZE
    BY <1>1, <1>3, <2>2, AppendType DEF QueueFull
  <2> HIDE DEF h
  <2>4. helpers' \in [Slot -> Helper] /\ \A k \in Slot : helpers'[k].pid = helpers[k].pid
    BY <1>1, <2>1, <2>3 DEF Inv, TypeOK, Helper
  <2>5. \A k \in Slot : Len(helpers'[k].queue) < QUEUE_SIZE
    BY <1>1, <2>1, <2>3 DEF Inv, TypeOK, Helper
  <2>6. TypeOK'
    BY <1>5, <2>1, <2>4, <2>5 DEF Inv, TypeOK
  <2>7. SendersRun'
    BY <1>5, <2>1 DEF Inv, TypeOK, SendersRun
  <2> QED BY <1>5, <2>1, <2>4, <2>6, <2>7, SameSlots
<1> QED BY <1>2, <1>3

(* dequeue_message changes no owner. *)
LEMMA DequeueInv ==
  ASSUME Inv, NEW p \in Pid, Dequeue(p)
  PROVE  Inv'
<1> DEFINE h == thread[p].slot
<1>1. /\ h \in Slot /\ helpers[h] \in Helper /\ thread[p] \in Thread
      /\ helpers[h].queue \in Seq(Message) /\ helpers[h].queue # <<>>
      /\ Len(helpers[h].queue) < QUEUE_SIZE
  BY DEF Dequeue, Inv, TypeOK, Thread, Helper
<1>2. /\ helpers' = [helpers EXCEPT ![h].queue = Tail(@)]
      /\ thread' = [thread EXCEPT ![p].join = @ \/ Head(helpers[h].queue) = "JOIN"]
      /\ UNCHANGED <<num_helpers, pcs, target>>
  BY DEF Dequeue
<1>3. Tail(helpers[h].queue) \in Seq(Message) /\ Len(Tail(helpers[h].queue)) < QUEUE_SIZE
  BY <1>1, AsyncHelperAssumption
<1>4. thread' \in [Pid -> Thread] /\ \A q \in Pid : thread'[q].slot = thread[q].slot
  <2>1. (thread[p].join \/ Head(helpers[h].queue) = "JOIN") \in BOOLEAN
    OBVIOUS
  <2> QED BY <1>1, <1>2, <2>1 DEF Inv, TypeOK, Thread
<1>5. /\ helpers' \in [Slot -> Helper]
      /\ \A k \in Slot : helpers'[k].pid = helpers[k].pid
      /\ \A k \in Slot : Len(helpers'[k].queue) < QUEUE_SIZE
  <2> HIDE DEF h
  <2> QED BY <1>1, <1>2, <1>3 DEF Inv, TypeOK, Helper
<1>6. TypeOK'
  BY <1>2, <1>4, <1>5 DEF Inv, TypeOK
<1>7. SendersRun'
  BY <1>2 DEF Inv, SendersRun
<1> QED BY <1>2, <1>4, <1>5, <1>6, <1>7, SameSlots

(* The end of thread_start changes no slot. *)
LEMMA ThreadExitInv ==
  ASSUME Inv, NEW p \in Pid, ThreadExit(p)
  PROVE  Inv'
<1>1. thread' \in [Pid -> Thread] /\ \A q \in Pid : thread'[q].slot = thread[q].slot
  BY DEF ThreadExit, Inv, TypeOK, Thread
<1>2. TypeOK'
  BY <1>1 DEF ThreadExit, Inv, TypeOK
<1>3. SendersRun'
  BY DEF ThreadExit, Inv, SendersRun
<1> QED BY <1>1, <1>2, <1>3, SameSlots DEF ThreadExit

(* cleanup_shmem empties the slots of the dead, and only those. *)
LEMMA AttachInv ==
  ASSUME Inv, NEW p \in Pid, Attach(p)
  PROVE  Inv'
<1> DEFINE dead == {q \in Pid : pcs[q] = "dead"}
<1>1. /\ pcs[p] = "out"
      /\ UNCHANGED <<num_helpers, thread, target>>
      /\ \A h \in Slot : helpers'[h] = IF helpers[h].pid \in dead THEN EmptySlot ELSE helpers[h]
      /\ \A q \in Pid : pcs'[q] = IF q = p THEN "attached"
                                  ELSE IF q \in dead THEN "out" ELSE pcs[q]
  BY DEF Attach
<1>2. EmptySlot \in Helper /\ EmptySlot.pid = NOBODY /\ Len(EmptySlot.queue) < QUEUE_SIZE
  BY AsyncHelperAssumption DEF EmptySlot, Helper, PidOrNobody
<1>3. TypeOK'
  <2>1. helpers' \in [Slot -> Helper]
    BY <1>2 DEF Attach, Inv, TypeOK
  <2>2. pcs' \in [Pid -> PC]
    BY DEF Attach, Inv, TypeOK, PC
  <2>3. \A h \in Slot : Len(helpers'[h].queue) < QUEUE_SIZE
    BY <1>1, <1>2 DEF Inv, TypeOK
  <2> QED BY <1>1, <2>1, <2>2, <2>3 DEF Inv, TypeOK
<1>4. CountCovers'
  BY <1>1, <1>2 DEF Inv, CountCovers
<1>5. ServesOwn'
  BY <1>1 DEF Inv, ServesOwn, Alive
<1>6. SlotServed'
  <2> SUFFICES ASSUME NEW q \in Pid, NEW h \in Slot, helpers'[h].pid = q
               PROVE  Alive(q)' /\ thread'[q].slot = h
    BY DEF SlotServed
  <2>1. helpers[h].pid = q /\ q \notin dead
    BY <1>1, <1>2, AsyncHelperAssumption
  <2> QED BY <1>1, <2>1 DEF Inv, SlotServed, Alive
<1>7. SendersRun'
  BY <1>1 DEF Inv, SendersRun
<1> QED BY <1>3, <1>4, <1>5, <1>6, <1>7 DEF Inv

(* shmem_async_init takes the first free slot, below the new counter. *)
LEMMA RegisterInv ==
  ASSUME Inv, NEW p \in Pid, Register(p)
  PROVE  Inv'
<1>1. CASE Free = {}
  <2>1. pcs[p] = "attached" /\ pcs' = [pcs EXCEPT ![p] = "out"]
        /\ UNCHANGED <<helpers, num_helpers, thread, target>>
    BY <1>1 DEF Register
  <2>2. TypeOK'
    BY <2>1 DEF Inv, TypeOK, PC
  <2>3. CountCovers'
    BY <2>1 DEF Inv, CountCovers
  <2>4. ServesOwn' /\ SlotServed'
    BY <2>1 DEF Inv, TypeOK, ServesOwn, SlotServed, Alive
  <2>5. SendersRun'
    BY <2>1 DEF Inv, TypeOK, SendersRun
  <2> QED BY <2>2, <2>3, <2>4, <2>5 DEF Inv
<1>2. CASE Free # {}
  <2> DEFINE h == Min(Free)
  <2>0. Free \in SUBSET Nat
    BY SlotNat DEF Free
  <2>1. h \in Free /\ \A k \in Free : h <= k
    BY <1>2, <2>0, MinSlot
  <2>2. /\ pcs[p] = "attached"
        /\ helpers' = [helpers EXCEPT ![h] =
                         [pid |-> p, queue |-> <<>>, joinable |-> helpers[h].joinable]]
        /\ thread' = [thread EXCEPT ![p] = [NoThread EXCEPT !.slot = h]]
        /\ num_helpers' = num_helpers + 1
        /\ pcs' = [pcs EXCEPT ![p] = "run"]
        /\ UNCHANGED target
    BY <1>2 DEF Register
  <2> HIDE DEF h
  <2>3. h \in Slot /\ helpers[h].pid = NOBODY /\ helpers[h] \in Helper
    BY <2>1 DEF Free, Inv, TypeOK
  <2>4. /\ helpers'[h].pid = p /\ helpers'[h].queue = <<>> /\ helpers'[h] \in Helper
        /\ \A k \in Slot \ {h} : helpers'[k] = helpers[k]
    <3>1. <<>> \in Seq(Message) /\ p \in PidOrNobody /\ helpers[h].joinable \in BOOLEAN
      BY <2>3 DEF PidOrNobody, Helper
    <3>2. [pid |-> p, queue |-> <<>>, joinable |-> helpers[h].joinable] \in Helper
      BY <3>1 DEF Helper
    <3> QED BY <2>2, <2>3, <3>2 DEF Inv, TypeOK
  <2>5. thread'[p].slot = h /\ thread'[p] \in Thread /\ \A q \in Pid \ {p} : thread'[q] = thread[q]
    BY <2>2, <2>3 DEF Inv, TypeOK, Thread, NoThread
  <2>6. h < num_helpers + 1
    <3>1. CASE h = 0
      BY <3>1 DEF Inv, TypeOK
    <3>2. CASE h # 0
      <4>1. h - 1 \in Slot /\ h - 1 \notin Free
        BY <2>1, <2>3, <3>2, AsyncHelperAssumption DEF Slot
      <4>2. h - 1 < num_helpers
        BY <4>1 DEF Free, Inv, CountCovers
      <4>3. h \in Nat /\ num_helpers \in Nat
        BY <2>3, SlotNat DEF Inv, TypeOK
      <4> QED BY <4>2, <4>3
    <3> QED BY <3>1, <3>2
  <2>7. TypeOK'
    <3>1. helpers' \in [Slot -> Helper]
      BY <2>2, <2>4 DEF Inv, TypeOK
    <3>2. \A k \in Slot : Len(helpers'[k].queue) < QUEUE_SIZE
      BY <2>4, AsyncHelperAssumption DEF Inv, TypeOK
    <3>3. thread' \in [Pid -> Thread] /\ pcs' \in [Pid -> PC] /\ num_helpers' \in Nat
      BY <2>2, <2>5 DEF Inv, TypeOK, PC
    <3> QED BY <2>2, <3>1, <3>2, <3>3 DEF Inv, TypeOK
  <2>8. CountCovers'
    BY <2>2, <2>3, <2>4, <2>6, SlotNat DEF Inv, TypeOK, CountCovers
  <2>9. ServesOwn'
    <3> SUFFICES ASSUME NEW q \in Pid, Alive(q)'
                 PROVE  thread'[q].slot \in Slot /\ helpers'[thread'[q].slot].pid = q
      BY DEF ServesOwn
    <3>1. CASE q = p
      BY <2>3, <2>4, <2>5, <3>1
    <3>2. CASE q # p
      <4>1. thread[q].slot \in Slot /\ helpers[thread[q].slot].pid = q
        BY <2>2, <3>2 DEF Inv, TypeOK, ServesOwn, Alive
      <4> QED BY <2>3, <2>4, <2>5, <3>2, <4>1, AsyncHelperAssumption
    <3> QED BY <3>1, <3>2
  <2>10. SlotServed'
    BY <2>2, <2>3, <2>4, <2>5 DEF Inv, TypeOK, SlotServed, Alive
  <2>11. SendersRun'
    BY <2>2 DEF Inv, TypeOK, SendersRun
  <2> QED BY <2>7, <2>8, <2>9, <2>10, <2>11 DEF Inv
<1> QED BY <1>1, <1>2

(* shmem_async_finalize finds its slot and puts JOIN in its queue. *)
LEMMA FinalizeInv ==
  ASSUME Inv, NEW p \in Pid, Finalize(p)
  PROVE  Inv'
<1> DEFINE h == get_helper(p)
<1>0. pcs[p] \in {"run", "aborting"} /\ target[p] = NoSlot /\ UNCHANGED <<num_helpers, thread, target>>
  BY DEF Finalize
<1>1. h # NoSlot /\ h = thread[p].slot
  BY <1>0, InvHelperFound DEF HelperFound
<1>2. h \in Slot /\ helpers[h] \in Helper /\ helpers[h].pid = p /\ Len(helpers[h].queue) < QUEUE_SIZE
  BY <1>1, GetHelperFinds DEF Inv, TypeOK
<1>3. pcs' = [pcs EXCEPT ![p] = "joining"]
  BY <1>1 DEF Finalize
<1>4. /\ helpers' \in [Slot -> Helper]
      /\ \A k \in Slot : helpers'[k].pid = helpers[k].pid
      /\ \A k \in Slot : Len(helpers'[k].queue) < QUEUE_SIZE
  <2>1. CASE helpers[h].joinable \/ QueueFull(h)
    <3>1. helpers' = [helpers EXCEPT ![h].joinable = TRUE]
      BY <1>1, <2>1 DEF Finalize
    <3> HIDE DEF h
    <3> QED BY <1>2, <3>1 DEF Inv, TypeOK, Helper
  <2>2. CASE ~(helpers[h].joinable \/ QueueFull(h))
    <3>1. helpers' = [helpers EXCEPT ![h].joinable = TRUE, ![h].queue = Append(@, "JOIN")]
      BY <1>1, <2>2 DEF Finalize
    <3>2. helpers[h].queue \in Seq(Message) /\ "JOIN" \in Message
      BY <1>2 DEF Helper, Message
    <3>3. /\ Append(helpers[h].queue, "JOIN") \in Seq(Message)
          /\ Len(Append(helpers[h].queue, "JOIN")) < QUEUE_SIZE
      BY <1>2, <2>2, <3>2, AppendType DEF QueueFull
    <3> HIDE DEF h
    <3>4. /\ helpers'[h].queue = Append(helpers[h].queue, "JOIN")
          /\ helpers'[h].pid = p /\ helpers'[h] \in Helper
          /\ \A k \in Slot \ {h} : helpers'[k] = helpers[k]
      BY <1>2, <3>1, <3>3 DEF Inv, TypeOK, Helper
    <3>5. helpers' \in [Slot -> Helper]
      BY <3>1, <3>4 DEF Inv, TypeOK
    <3> QED BY <1>2, <3>3, <3>4, <3>5 DEF Inv, TypeOK
  <2> QED BY <2>1, <2>2
<1>5. TypeOK'
  BY <1>0, <1>3, <1>4 DEF Inv, TypeOK, PC
<1>6. SendersRun'
  BY <1>0, <1>3 DEF Inv, TypeOK, SendersRun
<1>7. Alive(p)
  BY <1>0 DEF Alive
<1> HIDE DEF h
<1> QED BY <1>0, <1>3, <1>4, <1>5, <1>6, <1>7, MovesOn

(* shmem_async_finalize empties the only slot of its process. *)
LEMMA ClearInv ==
  ASSUME Inv, NEW p \in Pid, Clear(p)
  PROVE  Inv'
<1> DEFINE h == thread[p].slot
<1>1. /\ pcs[p] = "joining"
      /\ thread' = [thread EXCEPT ![p] = NoThread]
      /\ pcs' = [pcs EXCEPT ![p] = "out"]
      /\ UNCHANGED target
  BY DEF Clear
<1>2. h \in Slot /\ helpers[h].pid = p
  BY <1>1 DEF Inv, ServesOwn, Alive
<1>3. EmptySlot \in Helper /\ EmptySlot.pid = NOBODY /\ Len(EmptySlot.queue) < QUEUE_SIZE
  BY AsyncHelperAssumption DEF EmptySlot, Helper, PidOrNobody
<1>4. thread' \in [Pid -> Thread] /\ pcs' \in [Pid -> PC]
  BY <1>1 DEF Inv, TypeOK, PC, Thread, NoThread
<1>5. pcs'[p] = "out" /\ \A q \in Pid \ {p} : pcs'[q] = pcs[q] /\ thread'[q] = thread[q]
  BY <1>1 DEF Inv, TypeOK
<1>8. SendersRun'
  BY <1>1, <1>5 DEF Inv, SendersRun
<1>6. CASE Detached(p)
  <2>1. helpers' = [k \in Slot |-> EmptySlot] /\ num_helpers' = 0
    BY <1>6 DEF Clear
  <2>2. TypeOK'
    BY <1>1, <1>3, <1>4, <2>1 DEF Inv, TypeOK
  <2>3. \A q \in Pid : pcs'[q] = "out"
    BY <1>5, <1>6 DEF Detached
  <2>4. \A k \in Slot : helpers'[k].pid = NOBODY
    BY <1>3, <2>1
  <2>5. SendersRun'
    BY <1>8
  <2> QED BY <2>2, <2>3, <2>4, <2>5, AsyncHelperAssumption
       DEF Inv, CountCovers, ServesOwn, SlotServed, Alive
<1>7. CASE ~Detached(p)
  <2>1. helpers' = [helpers EXCEPT ![h] = EmptySlot] /\ num_helpers' = num_helpers
    BY <1>7 DEF Clear
  <2> HIDE DEF h
  <2>2. helpers'[h] = EmptySlot /\ \A k \in Slot \ {h} : helpers'[k] = helpers[k]
    BY <1>2, <2>1 DEF Inv, TypeOK
  <2>3. TypeOK'
    BY <1>1, <1>3, <1>4, <2>1, <2>2 DEF Inv, TypeOK
  <2>4. CountCovers'
    BY <1>3, <2>1, <2>2 DEF Inv, CountCovers
  <2>5. ServesOwn'
    BY <1>2, <1>5, <2>2 DEF Inv, ServesOwn, Alive
  <2>6. SlotServed'
    <3> SUFFICES ASSUME NEW q \in Pid, NEW k \in Slot, helpers'[k].pid = q
                 PROVE  \/ Alive(q)' /\ thread'[q].slot = k
                        \/ pcs'[q] = "dead"
      BY DEF SlotServed
    <3>1. k # h /\ helpers[k].pid = q
      BY <1>3, <2>2, AsyncHelperAssumption
    <3>2. q # p
      BY <1>1, <3>1 DEF Inv, SlotServed, Alive, h
    <3> QED BY <1>5, <3>1, <3>2 DEF Inv, SlotServed, Alive
  <2> QED BY <1>8, <2>3, <2>4, <2>5, <2>6 DEF Inv
<1> QED BY <1>6, <1>7

(* A crash leaves the slot to be cleaned up. *)
LEMMA CrashInv ==
  ASSUME Inv, NEW p \in Pid, Crash(p)
  PROVE  Inv'
<1>1. TypeOK'
  BY DEF Crash, Inv, TypeOK, PC, Thread, NoThread
<1>2. /\ pcs'[p] = "dead" /\ target'[p] = NoSlot
      /\ \A q \in Pid \ {p} : pcs'[q] = pcs[q] /\ thread'[q] = thread[q] /\ target'[q] = target[q]
  BY DEF Crash, Inv, TypeOK
<1>3. UNCHANGED <<helpers, num_helpers>>
  BY DEF Crash
<1>4. CountCovers'
  BY <1>3 DEF Inv, CountCovers
<1>5. ServesOwn'
  BY <1>2, <1>3 DEF Inv, ServesOwn, Alive
<1>6. SlotServed'
  BY <1>2, <1>3 DEF Inv, SlotServed, Alive
<1>7. SendersRun'
  BY <1>2 DEF Inv, SendersRun
<1> QED BY <1>1, <1>4, <1>5, <1>6, <1>7 DEF Inv

-----------------------------------------------------------------------------
(* The slots of shmem_async.c keep their owners: Inv is invariant. *)
LEMMA InvHolds == Spec => []Inv
<1>1. Init => Inv
  <2> SUFFICES ASSUME Init PROVE Inv
    OBVIOUS
  <2>1. EmptySlot \in Helper /\ EmptySlot.pid = NOBODY /\ Len(EmptySlot.queue) < QUEUE_SIZE
    BY AsyncHelperAssumption DEF EmptySlot, Helper, PidOrNobody
  <2>2. TypeOK
    BY <2>1 DEF Init, TypeOK, PC, Thread, NoThread
  <2> QED BY <2>1, <2>2, AsyncHelperAssumption
       DEF Init, Inv, CountCovers, ServesOwn, SlotServed, SendersRun, Alive
<1>2. Inv /\ [Next]_vars => Inv'
  <2> SUFFICES ASSUME Inv, [Next]_vars PROVE Inv'
    OBVIOUS
  <2>1. CASE UNCHANGED vars
    BY <2>1 DEF vars, Inv, TypeOK, CountCovers, ServesOwn, SlotServed, SendersRun, Alive
  <2>2. CASE Next
    BY <2>2, LookUpInv, EnqueueInv, DequeueInv, ThreadExitInv, AttachInv,
       RegisterInv, FinalizeInv, ClearInv, CrashInv DEF Next, HelperStep
  <2> QED BY <2>1, <2>2
<1> QED BY <1>1, <1>2, PTL DEF Spec

(* get_helper finds, for every running process and at every moment, the    *)
(* slot its helper thread serves: the unlocked walk over the array up to   *)
(* num_helpers misses nobody, although the counter is never decremented    *)
(* and slots are reused, for any number of processes and slots.            *)
THEOREM HelperAlwaysFound == Spec => []HelperFound
BY InvHolds, InvHelperFound, PTL

(* Types, and the circular buffer of a queue never holds QUEUE_SIZE        *)
(* messages, whatever the senders do (enqueue_message).                    *)
THEOREM HelperTypeCorrect == Spec => []TypeOK
<1>1. Inv => TypeOK
  BY DEF Inv
<1> QED BY <1>1, InvHolds, PTL

-----------------------------------------------------------------------------
(* What the helper has handled when its process finishes *)

(* Message m is not in queue s. *)
Without(s, m) == \A i \in 1 .. Len(s) : s[i] # m

(* JOIN is only in queues that reject messages. *)
JoinRejects == \A h \in Slot : helpers[h].joinable \/ Without(helpers[h].queue, "JOIN")

(* A thread that has seen JOIN serves a queue that rejects messages, and   *)
(* when it has ended what is in the queue came too late.                   *)
EndsHandled ==
  \A p \in Pid : Alive(p) =>
    /\ thread[p].join => helpers[thread[p].slot].joinable
    /\ thread[p].done => thread[p].join /\ Without(helpers[thread[p].slot].queue, "CPU")

Handled == JoinRejects /\ EndsHandled

(* What is in a queue after one message is put in it or taken from it. *)
LEMMA WithoutOps ==
  ASSUME NEW s \in Seq(Message), NEW m
  PROVE  /\ \A e \in Message : Without(s, m) /\ e # m => Without(Append(s, e), m)
         /\ s # <<>> /\ Without(s, m) => Without(Tail(s), m) /\ Head(s) # m
         /\ Without(<<>>, m)
<1>1. ASSUME NEW e \in Message, Without(s, m), e # m PROVE Without(Append(s, e), m)
  BY <1>1 DEF Without
<1>2. ASSUME s # <<>>, Without(s, m) PROVE Without(Tail(s), m) /\ Head(s) # m
  BY <1>2 DEF Without
<1>3. Without(<<>>, m)
  BY DEF Without
<1> QED BY <1>1, <1>2, <1>3

(* A message put in a queue: late where the queue rejects messages. *)
LEMMA EnqueueHandled ==
  ASSUME Inv, Handled, NEW p \in Pid, Enqueue(p)
  PROVE  Handled'
<1> DEFINE h == target[p]
           m == IF helpers[h].joinable THEN "LATE" ELSE "CPU"
<1>1. h \in Slot /\ helpers[h] \in Helper /\ helpers[h].queue \in Seq(Message)
  BY DEF Enqueue, Inv, TypeOK, Helper
<1>2. UNCHANGED thread /\ pcs[p] = "run"
  BY DEF Enqueue, Inv, SendersRun
<1>3. CASE QueueFull(h)
  <2>1. pcs' = [pcs EXCEPT ![p] = "aborting"] /\ UNCHANGED helpers
    BY <1>3 DEF Enqueue
  <2>2. \A q \in Pid : Alive(q)' => Alive(q)
    BY <1>2, <2>1 DEF Alive, Inv, TypeOK
  <2> QED BY <1>2, <2>1, <2>2 DEF Handled, JoinRejects, EndsHandled
<1>4. CASE ~QueueFull(h)
  <2>1. helpers' = [helpers EXCEPT ![h].queue = Append(@, m)] /\ UNCHANGED pcs
    BY <1>4 DEF Enqueue
  <2>2. m \in Message /\ m # "JOIN" /\ (helpers[h].joinable => m # "CPU")
    BY DEF Message
  <2> HIDE DEF m
  <2> HIDE DEF h
  <2>3. \A k \in {"JOIN", "CPU"} :
          Without(helpers[h].queue, k) /\ m # k => Without(Append(helpers[h].queue, m), k)
    BY <1>1, <2>2, WithoutOps
  <2>4. /\ helpers'[h].joinable = helpers[h].joinable
        /\ helpers'[h].queue = Append(helpers[h].queue, m)
        /\ \A k \in Slot \ {h} : helpers'[k] = helpers[k]
    BY <1>1, <2>1 DEF Inv, TypeOK, Helper
  <2>5. JoinRejects'
    BY <2>2, <2>4, <2>3 DEF Handled, JoinRejects
  <2>6. ASSUME NEW q \in Pid, Alive(q)'
        PROVE  /\ thread'[q].join => helpers'[thread'[q].slot].joinable
               /\ thread'[q].done =>
                    thread'[q].join /\ Without(helpers'[thread'[q].slot].queue, "CPU")
    <3>1. Alive(q) /\ thread'[q] = thread[q] /\ thread[q].slot \in Slot
      BY <1>2, <2>1, <2>6 DEF Alive, Inv, ServesOwn
    <3>2. CASE thread[q].slot # h
      BY <2>4, <3>1, <3>2 DEF Handled, EndsHandled
    <3>3. CASE thread[q].slot = h
      BY <2>2, <2>4, <2>3, <3>1, <3>3 DEF Handled, EndsHandled
    <3> QED BY <3>2, <3>3
  <2> QED BY <2>5, <2>6 DEF Handled, EndsHandled
<1> QED BY <1>3, <1>4

(* The thread takes a message out of its queue. *)
LEMMA DequeueHandled ==
  ASSUME Inv, Handled, NEW p \in Pid, Dequeue(p)
  PROVE  Handled'
<1> DEFINE h == thread[p].slot
<1>1. /\ h \in Slot /\ helpers[h] \in Helper /\ thread[p] \in Thread
      /\ helpers[h].queue \in Seq(Message) /\ helpers[h].queue # <<>> /\ ~thread[p].done
  BY DEF Dequeue, Inv, TypeOK, Thread, Helper
<1>2. /\ helpers' = [helpers EXCEPT ![h].queue = Tail(@)]
      /\ thread' = [thread EXCEPT ![p].join = @ \/ Head(helpers[h].queue) = "JOIN"]
      /\ UNCHANGED pcs
  BY DEF Dequeue
<1>3. /\ thread'[p].slot = h /\ thread'[p].done = thread[p].done
      /\ thread'[p].join = (thread[p].join \/ Head(helpers[h].queue) = "JOIN")
      /\ \A q \in Pid \ {p} : thread'[q] = thread[q]
  BY <1>1, <1>2 DEF Inv, TypeOK, Thread
<1> HIDE DEF h
<1>4. /\ helpers'[h].joinable = helpers[h].joinable
      /\ helpers'[h].queue = Tail(helpers[h].queue)
      /\ \A k \in Slot \ {h} : helpers'[k] = helpers[k]
  BY <1>1, <1>2 DEF Inv, TypeOK, Helper
<1>5. JoinRejects'
  BY <1>1, <1>4, WithoutOps DEF Handled, JoinRejects
<1>6. ASSUME NEW q \in Pid, Alive(q)'
      PROVE  /\ thread'[q].join => helpers'[thread'[q].slot].joinable
             /\ thread'[q].done =>
                  thread'[q].join /\ Without(helpers'[thread'[q].slot].queue, "CPU")
  <2>1. Alive(q) /\ thread[q].slot \in Slot
    BY <1>2, <1>6 DEF Alive, Inv, ServesOwn
  <2>2. CASE q = p
    <3>1. Head(helpers[h].queue) = "JOIN" => helpers[h].joinable
      BY <1>1, WithoutOps DEF Handled, JoinRejects
    <3>2. thread[p].join => helpers[h].joinable
      BY <2>1, <2>2 DEF Handled, EndsHandled, h
    <3>3. thread'[p].join => helpers'[h].joinable
      BY <1>3, <1>4, <3>1, <3>2
    <3> QED BY <1>1, <1>3, <2>2, <3>3
  <2>3. CASE q # p /\ thread[q].slot # h
    BY <1>3, <1>4, <2>1, <2>3 DEF Handled, EndsHandled
  <2>4. CASE q # p /\ thread[q].slot = h
    BY <1>1, <1>3, <1>4, <2>1, <2>4, WithoutOps DEF Handled, EndsHandled
  <2> QED BY <2>2, <2>3, <2>4
<1> QED BY <1>5, <1>6 DEF Handled, EndsHandled

(* The thread ends when its queue is empty. *)
LEMMA ThreadExitHandled ==
  ASSUME Inv, Handled, NEW p \in Pid, ThreadExit(p)
  PROVE  Handled'
<1>1. /\ thread[p].join /\ helpers[thread[p].slot].queue = <<>>
      /\ thread' = [thread EXCEPT ![p].done = TRUE] /\ UNCHANGED <<helpers, pcs>>
  BY DEF ThreadExit
<1>2. /\ thread'[p].slot = thread[p].slot /\ thread'[p].join = thread[p].join
      /\ \A q \in Pid \ {p} : thread'[q] = thread[q]
  BY <1>1 DEF Inv, TypeOK, Thread
<1>3. \A q \in Pid : Alive(q)' <=> Alive(q)
  BY <1>1 DEF Alive
<1>4. Without(helpers[thread[p].slot].queue, "CPU")
  BY <1>1 DEF Without
<1> QED BY <1>1, <1>2, <1>3, <1>4 DEF Handled, JoinRejects, EndsHandled

(* The slots that a cleanup empties belong to nobody who lives. *)
LEMMA AttachHandled ==
  ASSUME Inv, Handled, NEW p \in Pid, Attach(p)
  PROVE  Handled'
<1>1. /\ UNCHANGED thread /\ pcs[p] = "out"
      /\ \A h \in Slot : \/ helpers'[h] = EmptySlot /\ helpers[h].pid \in {q \in Pid : pcs[q] = "dead"}
                         \/ helpers'[h] = helpers[h]
      /\ \A q \in Pid : pcs'[q] \in {"attached", "out", pcs[q]}
  BY DEF Attach
<1>2. EmptySlot.queue = <<>>
  BY DEF EmptySlot
<1>3. JoinRejects'
  BY <1>1, <1>2, WithoutOps DEF Handled, JoinRejects, Without
<1>4. ASSUME NEW q \in Pid, Alive(q)'
      PROVE  Alive(q) /\ thread'[q] = thread[q] /\ helpers'[thread[q].slot] = helpers[thread[q].slot]
  <2>1. Alive(q)
    BY <1>1, <1>4 DEF Alive
  <2>2. thread[q].slot \in Slot /\ helpers[thread[q].slot].pid = q /\ pcs[q] # "dead"
    BY <2>1 DEF Inv, ServesOwn, Alive
  <2> QED BY <1>1, <2>1, <2>2
<1> QED BY <1>3, <1>4 DEF Handled, EndsHandled

(* The slot that a process takes has an empty queue, and its thread has    *)
(* just begun.                                                             *)
LEMMA RegisterHandled ==
  ASSUME Inv, Handled, NEW p \in Pid, Register(p)
  PROVE  Handled'
<1>1. CASE Free = {}
  <2>1. pcs' = [pcs EXCEPT ![p] = "out"] /\ UNCHANGED <<helpers, thread>>
    BY <1>1 DEF Register
  <2>2. \A q \in Pid : Alive(q)' => Alive(q)
    BY <2>1 DEF Alive, Inv, TypeOK
  <2> QED BY <2>1, <2>2 DEF Handled, JoinRejects, EndsHandled
<1>2. CASE Free # {}
  <2> DEFINE h == Min(Free)
  <2>0. Free \in SUBSET Nat
    BY SlotNat DEF Free
  <2>1. h \in Free
    BY <1>2, <2>0, MinSlot
  <2>2. /\ helpers' = [helpers EXCEPT ![h] =
                         [pid |-> p, queue |-> <<>>, joinable |-> helpers[h].joinable]]
        /\ thread' = [thread EXCEPT ![p] = [NoThread EXCEPT !.slot = h]]
        /\ pcs' = [pcs EXCEPT ![p] = "run"]
    BY <1>2 DEF Register
  <2> HIDE DEF h
  <2>3. h \in Slot /\ helpers[h].pid = NOBODY
    BY <2>1 DEF Free
  <2>4. helpers'[h].queue = <<>> /\ \A k \in Slot \ {h} : helpers'[k] = helpers[k]
    BY <2>2, <2>3 DEF Inv, TypeOK
  <2>5. /\ ~thread'[p].join /\ ~thread'[p].done
        /\ \A q \in Pid \ {p} : thread'[q] = thread[q] /\ pcs'[q] = pcs[q]
    BY <2>2 DEF Inv, TypeOK, NoThread
  <2>6. JoinRejects'
    BY <2>4 DEF Handled, JoinRejects, Without
  <2>7. ASSUME NEW q \in Pid \ {p}, Alive(q)'
        PROVE  Alive(q) /\ thread[q].slot \in Slot \ {h}
    <3>1. Alive(q)
      BY <2>5, <2>7 DEF Alive
    <3> QED BY <2>3, <3>1, AsyncHelperAssumption DEF Inv, ServesOwn
  <2> QED BY <2>4, <2>5, <2>6, <2>7 DEF Handled, EndsHandled
<1> QED BY <1>1, <1>2

(* JOIN is put in a queue that rejects messages from then on. *)
LEMMA FinalizeHandled ==
  ASSUME Inv, Handled, NEW p \in Pid, Finalize(p)
  PROVE  Handled'
<1> DEFINE h == get_helper(p)
<1>1. /\ pcs[p] \in {"run", "aborting"} /\ UNCHANGED thread
      /\ helpers' \in {[helpers EXCEPT ![h].joinable = TRUE],
                       [helpers EXCEPT ![h].joinable = TRUE, ![h].queue = Append(@, "JOIN")]}
      /\ pcs' = [pcs EXCEPT ![p] = "joining"]
  <2>1. pcs[p] \in {"run", "aborting"} /\ UNCHANGED thread
    BY DEF Finalize
  <2>2. h # NoSlot
    BY <2>1, InvHelperFound DEF HelperFound
  <2> QED BY <2>1, <2>2 DEF Finalize
<1>2. h \in Slot /\ helpers[h] \in Helper /\ helpers[h].queue \in Seq(Message)
  <2>1. h # NoSlot
    BY <1>1, InvHelperFound DEF HelperFound
  <2> QED BY <2>1, GetHelperFinds DEF Inv, TypeOK, Helper
<1> HIDE DEF h
<1>3. Without(helpers[h].queue, "CPU") => Without(Append(helpers[h].queue, "JOIN"), "CPU")
  <2>1. "JOIN" \in Message /\ "JOIN" # "CPU"
    BY DEF Message
  <2> QED BY <1>2, <2>1, WithoutOps
<1>4. /\ helpers'[h].joinable
      /\ helpers'[h].queue \in {helpers[h].queue, Append(helpers[h].queue, "JOIN")}
      /\ \A k \in Slot \ {h} : helpers'[k] = helpers[k]
  <2>1. CASE helpers' = [helpers EXCEPT ![h].joinable = TRUE]
    BY <1>2, <2>1 DEF Inv, TypeOK, Helper
  <2>2. CASE helpers' = [helpers EXCEPT ![h].joinable = TRUE, ![h].queue = Append(@, "JOIN")]
    BY <1>2, <2>2 DEF Inv, TypeOK, Helper
  <2> QED BY <1>1, <2>1, <2>2
<1>5. JoinRejects'
  BY <1>4 DEF Handled, JoinRejects
<1>6. ASSUME NEW q \in Pid, Alive(q)'
      PROVE  /\ thread'[q].join => helpers'[thread'[q].slot].joinable
             /\ thread'[q].done =>
                  thread'[q].join /\ Without(helpers'[thread'[q].slot].queue, "CPU")
  <2>1. Alive(q) /\ thread'[q] = thread[q]
    BY <1>1, <1>6 DEF Alive, Inv, TypeOK
  <2>2. thread[q].slot \in Slot
    BY <2>1 DEF Inv, ServesOwn
  <2>3. CASE thread[q].slot = h
    BY <1>3, <1>4, <2>1, <2>3 DEF Handled, EndsHandled
  <2>4. CASE thread[q].slot # h
    BY <1>4, <2>1, <2>2, <2>4 DEF Handled, EndsHandled
  <2> QED BY <2>3, <2>4
<1> QED BY <1>5, <1>6 DEF Handled, EndsHandled

(* A process that has finished leaves an empty slot. *)
LEMMA ClearHandled ==
  ASSUME Inv, Handled, NEW p \in Pid, Clear(p)
  PROVE  Handled'
<1>1. /\ pcs[p] = "joining"
      /\ thread' = [thread EXCEPT ![p] = NoThread]
      /\ pcs' = [pcs EXCEPT ![p] = "out"]
      /\ helpers' = IF Detached(p) THEN [h \in Slot |-> EmptySlot]
                    ELSE [helpers EXCEPT ![thread[p].slot] = EmptySlot]
  BY DEF Clear
<1>2. thread[p].slot \in Slot /\ helpers[thread[p].slot].pid = p
  BY <1>1 DEF Inv, ServesOwn, Alive
<1>3. \A k \in Slot : helpers'[k] = EmptySlot \/ helpers'[k] = helpers[k]
  BY <1>1, <1>2 DEF Inv, TypeOK
<1>4. EmptySlot.queue = <<>>
  BY DEF EmptySlot
<1>5. JoinRejects'
  BY <1>3, <1>4 DEF Handled, JoinRejects, Without
<1>6. ASSUME NEW q \in Pid, Alive(q)'
      PROVE  Alive(q) /\ thread'[q] = thread[q] /\ helpers'[thread[q].slot] = helpers[thread[q].slot]
  <2>1. q # p /\ Alive(q) /\ thread'[q] = thread[q]
    BY <1>1, <1>6 DEF Alive, Inv, TypeOK
  <2>2. ~Detached(p)
    BY <2>1 DEF Detached, Alive
  <2>3. thread[q].slot \in Slot /\ helpers[thread[q].slot].pid = q
    BY <2>1 DEF Inv, ServesOwn
  <2> QED BY <1>1, <1>2, <2>1, <2>2, <2>3 DEF Inv, TypeOK
<1> QED BY <1>5, <1>6 DEF Handled, EndsHandled

(* The invariant of what is handled, step by step. *)
LEMMA HandledHolds == Spec => []Handled
<1>1. Init => Handled
  BY DEF Init, Handled, JoinRejects, EndsHandled, Alive, EmptySlot, Without
<1>2. Inv /\ Handled /\ [Next]_vars => Handled'
  <2> SUFFICES ASSUME Inv, Handled, [Next]_vars PROVE Handled'
    OBVIOUS
  <2>1. ASSUME NEW p \in Pid, NEW q \in Pid, LookUp(p, q) PROVE Handled'
    BY <2>1 DEF LookUp, Handled, JoinRejects, EndsHandled, Alive
  <2>2. ASSUME NEW p \in Pid, Crash(p) PROVE Handled'
    <3>1. UNCHANGED helpers /\ \A q \in Pid : Alive(q)' => Alive(q) /\ thread'[q] = thread[q]
      BY <2>2 DEF Crash, Alive, Inv, TypeOK
    <3> QED BY <3>1 DEF Handled, JoinRejects, EndsHandled
  <2>3. CASE UNCHANGED vars
    BY <2>3 DEF vars, Handled, JoinRejects, EndsHandled, Alive
  <2> QED BY <2>1, <2>2, <2>3, EnqueueHandled, DequeueHandled, ThreadExitHandled, AttachHandled,
          RegisterHandled, FinalizeHandled, ClearHandled DEF Next, HelperStep
<1> QED BY <1>1, <1>2, InvHolds, PTL DEF Spec

(* A process finishes only when its helper has handled all the messages    *)
(* that were accepted: what is left in the queue came after JOIN           *)
(* (shmem_async_finalize, thread_start), for any number of senders.        *)
THEOREM AcceptedAreAlwaysHandled == Spec => AcceptedAreHandled
<1> DEFINE A(p) ==
      pcs[p] = "joining" /\ pcs'[p] = "out" =>
        \A i \in 1 .. Len(helpers[thread[p].slot].queue) :
          helpers[thread[p].slot].queue[i] # "CPU"
<1>1. Inv /\ Handled /\ [Next]_vars => [\A p \in Pid : A(p)]_vars
  <2> SUFFICES ASSUME Inv, Handled, Next, NEW p \in Pid, pcs[p] = "joining", pcs'[p] = "out"
               PROVE  Without(helpers[thread[p].slot].queue, "CPU")
    BY DEF Without
  <2>1. thread[p].done
    <3>1. PICK q \in Pid : \/ Attach(q) \/ Register(q) \/ Finalize(q) \/ Crash(q)
                           \/ \E r \in Pid : LookUp(q, r)
                           \/ Enqueue(q) \/ HelperStep(q)
      BY DEF Next
    <3>2. CASE Attach(q)
      BY <3>2 DEF Attach
    <3>3. CASE Register(q)
      BY <3>3 DEF Register, Inv, TypeOK
    <3>4. CASE Finalize(q)
      BY <3>4 DEF Finalize, Inv, TypeOK
    <3>5. CASE Crash(q)
      BY <3>5 DEF Crash, Inv, TypeOK
    <3>6. CASE \E r \in Pid : LookUp(q, r)
      BY <3>6 DEF LookUp
    <3>7. CASE Enqueue(q)
      BY <3>7 DEF Enqueue, Inv, TypeOK
    <3>8. CASE HelperStep(q)
      BY <3>8 DEF HelperStep, Dequeue, ThreadExit, Clear, Inv, TypeOK
    <3> QED BY <3>1, <3>2, <3>3, <3>4, <3>5, <3>6, <3>7, <3>8
  <2> QED BY <2>1 DEF Handled, EndsHandled, Alive
<1> QED BY <1>1, InvHolds, HandledHolds, PTL DEF Spec, AcceptedAreHandled

=============================================================================
