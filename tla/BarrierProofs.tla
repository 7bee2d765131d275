--------------------------- MODULE BarrierProofs ---------------------------
(* Proofs about Barrier, for any number of processes, slots and names.     *)
EXTENDS Barrier, FiniteSetTheorems, TLAPS

-----------------------------------------------------------------------------
(* The inductive invariant *)

(* The processes that have joined the barrier of slot i as their default,  *)
(* or by name.                                                             *)
ByDefault(i) == {p \in Pid : default_barrier[p] = i}

ByName(i) == {p \in Pid : InList(p, i)}

Died == {p \in Pid : pc[p] \in {"dead", "cleaned"}}

Inside == {"enter", "wait", "released"}

(* A process is in a barrier when its program counter says so. *)
CallsMatch ==
  \A p \in Pid : IF pc[p] \in Inside THEN call[p].slot \in Slot ELSE call[p].slot = NoSlot

(* A process that has not called node_barrier_init has joined nothing. *)
NewcomersJoinedNothing ==
  \A p \in Pid : pc[p] \in {"out", "open"} => default_barrier[p] = NoSlot /\ barrier_list[p] = {}

(* Without the shared memory nobody uses it, and it has no barriers. *)
UsersInitialized ==
  ~initialized => /\ num_barriers = 0
                  /\ \A p \in Pid : pc[p] \in {"out", "cleaned", "gone"}

(* The holder of the lock of the shared memory is the one that waits for a *)
(* slot, and what it found there when it began to wait still holds.        *)
HolderWaits ==
  /\ \A p \in Pid : pc[p] = "locking" => lock # NoLock /\ lock.pid = p
  /\ lock # NoLock =>
       /\ pc[lock.pid] = "locking"
       /\ lock.op = "join" =>
            /\ barriers[lock.handle.slot].initialized
            /\ lock.kind = "default" => default_barrier[lock.pid] = NoSlot
            /\ lock.kind = "named" => ~InList(lock.pid, lock.handle.slot)
       /\ lock.op = "detach" =>
            /\ lock.kind = "default" => default_barrier[lock.pid] = lock.handle.slot
            /\ lock.kind = "named" => lock.handle \in barrier_list[lock.pid]

(* An initialized slot has a participant, and at most one for each place   *)
(* that a live process holds or a dead one may have held.                  *)
ParticipantsBounded ==
  \A i \in Slot : barriers[i].initialized =>
    /\ barriers[i].participants > 0
    /\ barriers[i].participants <= Cardinality(ByDefault(i) \cup Died)
                                     + Cardinality(ByName(i) \cup Died)

(* A process holds at most one place by name in a slot. *)
OneHandle ==
  \A p \in Pid : \A g, h \in barrier_list[p] : g.slot = h.slot => g = h

(* The readers of a slot are the processes in its barrier, all of them     *)
(* members; count counts them and waiting has those that wait.             *)
ReadersAreInside ==
  \A i \in Slot :
    /\ readers[i] = {p \in Pid : call[p].slot = i}
    /\ readers[i] \subseteq ByDefault(i) \cup ByName(i)
    /\ barriers[i].count = Cardinality(readers[i])
    /\ barriers[i].waiting = {p \in Pid : pc[p] = "wait" /\ call[p].slot = i}

Places == CallsMatch /\ NewcomersJoinedNothing /\ UsersInitialized /\ HolderWaits

Shared == NamesAreUnique /\ InitializedAreFound /\ ParticipantsBounded

Counted == NobodyDied => ParticipantsAreMembers /\ OneHandle /\ ReadersAreInside

Inv == TypeOK /\ Places /\ Shared /\ Counted

-----------------------------------------------------------------------------
(* Slots, sets of processes *)

(* A slot is a natural number below max_barriers, and NoSlot is not one. *)
LEMMA SlotFacts == Slot \subseteq Nat /\ NoSlot \notin Slot /\ Slot \subseteq 0 .. max_barriers
BY BarrierAssumption DEF Slot, NoSlot

(* A non-empty set of naturals has a least element. *)
LEMMA MinIsIn ==
  ASSUME NEW T \in SUBSET Nat, T # {}
  PROVE  Min(T) \in T /\ \A y \in T : Min(T) <= y
<1> DEFINE R == OpToRel(<, Nat)
<1>1. IsWellFoundedOn(R, Nat)
  BY NatLessThanWellFounded
<1>2. \E x \in T : \A y \in T : ~(<<y, x>> \in R)
  <2> HIDE DEF R
  <2> QED BY <1>1, WFMin
<1>3. PICK x \in T : \A y \in T : ~(<<y, x>> \in R)
  BY <1>2
<1>4. \A y \in T : ~(y < x)
  BY <1>3 DEF OpToRel
<1>5. \A y \in T : x <= y
  BY <1>4
<1> QED BY <1>5 DEF Min

(* A non-empty set of slots has a greatest element. *)
LEMMA MaxIsIn ==
  ASSUME NEW T \in SUBSET Slot, T # {}
  PROVE  Max(T) \in T /\ \A y \in T : y <= Max(T)
<1> DEFINE U == {k \in Nat : max_barriers - k \in T}
<1>1. U \in SUBSET Nat /\ U # {}
  <2>1. PICK t \in T : TRUE
    OBVIOUS
  <2>2. max_barriers - t \in Nat /\ max_barriers - (max_barriers - t) = t
    BY BarrierAssumption DEF Slot
  <2>3. max_barriers - t \in U
    BY <2>2
  <2> QED BY <2>3
<1>2. Min(U) \in U /\ \A y \in U : Min(U) <= y
  <2> HIDE DEF U
  <2> QED BY <1>1, MinIsIn
<1> DEFINE x == max_barriers - Min(U)
<1>3. x \in T
  BY <1>2
<1>4. \A y \in T : x >= y
  <2> TAKE y \in T
  <2>1. max_barriers - y \in Nat /\ max_barriers - (max_barriers - y) = y
    BY BarrierAssumption DEF Slot
  <2>2. Min(U) <= max_barriers - y
    BY <2>1, <1>2
  <2> QED BY <2>1, <2>2, <1>2, BarrierAssumption DEF Slot
<1>5. \E z \in T : \A y \in T : z >= y
  BY <1>3, <1>4
<1>6. Max(T) \in T /\ \A y \in T : Max(T) >= y
  BY <1>5 DEF Max
<1> QED BY <1>6, SlotFacts

(* A set of processes is finite, with at most all of them. *)
LEMMA PidSets ==
  ASSUME NEW T \in SUBSET Pid
  PROVE  IsFiniteSet(T) /\ Cardinality(T) \in Nat /\ Cardinality(T) <= Cardinality(Pid)
         /\ Cardinality(Pid) \in Nat
BY BarrierAssumption, FS_Subset, FS_CardinalityType

(* One process more in a set, or one less. *)
LEMMA PidSetChanges ==
  ASSUME NEW T \in SUBSET Pid, NEW p \in Pid
  PROVE  /\ p \notin T => Cardinality(T \cup {p}) = Cardinality(T) + 1
         /\ p \in T => Cardinality(T \ {p}) = Cardinality(T) - 1
BY PidSets, FS_AddElement, FS_RemoveElement

(* A set of processes has no more than one that contains it, and as many   *)
(* only if it is the same.                                                 *)
LEMMA PidSubsets ==
  ASSUME NEW U \in SUBSET Pid, NEW T \in SUBSET U
  PROVE  Cardinality(T) <= Cardinality(U) /\ (Cardinality(T) = Cardinality(U) => T = U)
BY PidSets, FS_Subset

(* A set of processes is empty when it has none. *)
LEMMA PidSetEmpty ==
  ASSUME NEW T \in SUBSET Pid
  PROVE  Cardinality(T) = 0 <=> T = {}
BY PidSets, FS_EmptySet

(* An unsigned value within its width is itself. *)
LEMMA ModSmall ==
  ASSUME NEW n \in Nat, NEW w \in Nat, n < w
  PROVE  n % w = n
OBVIOUS

(* A set that lacks a process has room for it. *)
LEMMA PidSetRoom ==
  ASSUME NEW T \in SUBSET Pid, NEW p \in Pid, p \notin T
  PROVE  Cardinality(T) + 1 <= Cardinality(Pid)
<1>1. Cardinality(T \cup {p}) = Cardinality(T) + 1
  BY PidSetChanges
<1>2. T \cup {p} \in SUBSET Pid
  OBVIOUS
<1> QED BY <1>1, <1>2, PidSets

(* shmem_barrier__find and shmem_barrier__register use the initialized     *)
(* slot with the name; a slot to be initialized is used when there is      *)
(* none, and it is below num_barriers or the next one.                     *)
LEMMA SpotFacts ==
  ASSUME TypeOK, Shared, NEW name \in Name, Spot(name) # NoSlot
  PROVE  /\ Spot(name) \in Slot
         /\ barriers[Spot(name)].initialized =>
              barriers[Spot(name)].name = name /\ find(name) = Spot(name)
         /\ ~barriers[Spot(name)].initialized =>
              /\ \A i \in Slot : barriers[i].initialized => barriers[i].name # name
              /\ Spot(name) <= num_barriers
<1>0. Matching(name) \subseteq Slot /\ EmptySpots \subseteq Slot /\ Slot \subseteq Nat
      /\ num_barriers \in Nat /\ NoSlot \notin Slot /\ num_barriers <= max_barriers
  BY SlotFacts, BarrierAssumption DEF Matching, EmptySpots, TypeOK
<1>1. CASE Matching(name) # {}
  <2>1. Min(Matching(name)) \in Matching(name)
    BY <1>0, <1>1, MinIsIn
  <2>2. Spot(name) = Min(Matching(name)) /\ find(name) = Min(Matching(name))
    BY <1>1 DEF Spot, find
  <2> QED BY <2>1, <2>2, <1>0 DEF Matching
<1>2. CASE Matching(name) = {}
  <2>1. \A i \in Slot : barriers[i].initialized => barriers[i].name # name
    BY <1>2 DEF Matching, Shared, InitializedAreFound, ParticipantsBounded
  <2>2. CASE EmptySpots # {}
    <3>1. Min(EmptySpots) \in EmptySpots
      BY <1>0, <2>2, MinIsIn
    <3>2. Spot(name) = Min(EmptySpots)
      BY <1>2, <2>2 DEF Spot
    <3>3. Spot(name) \in Slot /\ Spot(name) < num_barriers /\ ~barriers[Spot(name)].initialized
      BY <3>1, <3>2 DEF EmptySpots
    <3>4. Spot(name) <= num_barriers
      <4> DEFINE i == Spot(name)
      <4>1. i \in Nat /\ i < num_barriers
        BY <3>3, SlotFacts
      <4>2. num_barriers \in Nat
        BY <1>0
      <4> HIDE DEF i
      <4>3. i <= num_barriers
        BY <4>1, <4>2
      <4> QED BY <4>3 DEF i
    <3> QED BY <3>3, <3>4, <2>1
  <2>3. CASE EmptySpots = {}
    <3>1. Spot(name) = num_barriers /\ num_barriers < max_barriers
      BY <1>2, <2>3 DEF Spot
    <3>2. num_barriers \in Slot
      BY <3>1, <1>0, BarrierAssumption DEF Slot
    <3>3. ~barriers[num_barriers].initialized
      BY <3>2, <1>0 DEF Shared, InitializedAreFound
    <3> QED BY <3>1, <3>2, <3>3, <2>1, <1>0
  <2> QED BY <2>2, <2>3
<1> QED BY <1>1, <1>2

-----------------------------------------------------------------------------
(* Cleaning up after the dead *)

Array == [num_barriers : 0 .. max_barriers, barriers : [Slot -> Barrier_t]]

(* The arrays that cleaning up may make of the current one: no slot is     *)
(* initialized anew, and those that still are keep their names and have    *)
(* not more participants, but some.                                        *)
CleanedUp ==
  {s \in Array :
     \A i \in Slot : s.barriers[i].initialized =>
       /\ i < s.num_barriers
       /\ barriers[i].initialized
       /\ s.barriers[i].name = barriers[i].name
       /\ s.barriers[i].participants > 0
       /\ s.barriers[i].participants <= barriers[i].participants}

(* An empty slot is one of the values of a slot. *)
LEMMA EmptyBarrierType == EmptyBarrier \in Barrier_t
<1>1. UintSize \in Nat /\ UintSize > 0
  BY BarrierAssumption, PidSets
<1> QED BY <1>1 DEF EmptyBarrier, Barrier_t, Name

(* cleanup_shmem keeps an array among those. *)
LEMMA CleanupStays ==
  ASSUME TypeOK, NEW s \in CleanedUp
  PROVE  cleanup_shmem(s) \in CleanedUp
<1> DEFINE left(i) == (s.barriers[i].participants - 1) % UintSize
           used == {i \in Slot : i < s.num_barriers}
           bs == [i \in Slot |->
                   IF i \notin used THEN s.barriers[i]
                   ELSE IF left(i) = 0 THEN EmptyBarrier
                   ELSE [s.barriers[i] EXCEPT !.participants = left(i)]]
<1>0. UintSize \in Nat \ {0}
  BY BarrierAssumption, PidSets
<1>1. s \in Array /\ s.num_barriers \in 0 .. max_barriers /\ s.barriers \in [Slot -> Barrier_t]
  BY DEF CleanedUp, Array
<1>2. \A i \in Slot : s.barriers[i] \in Barrier_t /\ s.barriers[i].participants \in 0 .. UintSize - 1
                      /\ left(i) \in 0 .. UintSize - 1
  BY <1>0, <1>1 DEF Barrier_t
<1>3. \A i \in Slot : s.barriers[i].participants > 0 => left(i) = s.barriers[i].participants - 1
  BY <1>0, <1>2
<1>4. CASE \A i \in used : left(i) = 0
  <2>1. cleanup_shmem(s) = [num_barriers |-> 0, barriers |-> [i \in Slot |-> EmptyBarrier]]
    BY <1>4 DEF cleanup_shmem
  <2>2. cleanup_shmem(s) \in Array
    BY <2>1, EmptyBarrierType, BarrierAssumption DEF Array
  <2>3. \A i \in Slot : cleanup_shmem(s).barriers[i].initialized = FALSE
    BY <2>1 DEF EmptyBarrier
  <2> QED BY <2>2, <2>3 DEF CleanedUp
<1>5. CASE ~(\A i \in used : left(i) = 0)
  <2>1. cleanup_shmem(s) = [num_barriers |-> s.num_barriers, barriers |-> bs]
    BY <1>5 DEF cleanup_shmem
  <2>2. bs \in [Slot -> Barrier_t]
    BY <1>1, <1>2, EmptyBarrierType DEF Barrier_t
  <2>3. cleanup_shmem(s) \in Array
    BY <2>1, <2>2, <1>1 DEF Array
  <2>4. ASSUME NEW i \in Slot, bs[i].initialized
        PROVE  /\ i < s.num_barriers
               /\ barriers[i].initialized
               /\ bs[i].name = barriers[i].name
               /\ bs[i].participants > 0
               /\ bs[i].participants <= barriers[i].participants
    <3>1. s.barriers[i].initialized
      BY <2>4, <1>1, <1>2 DEF EmptyBarrier, Barrier_t
    <3>2. /\ i < s.num_barriers
          /\ barriers[i].initialized
          /\ s.barriers[i].name = barriers[i].name
          /\ s.barriers[i].participants > 0
          /\ s.barriers[i].participants <= barriers[i].participants
      BY <3>1 DEF CleanedUp
    <3>3. i \in used /\ left(i) # 0
      BY <3>2, <2>4 DEF EmptyBarrier
    <3>4. bs[i] = [s.barriers[i] EXCEPT !.participants = left(i)]
      BY <3>3
    <3>5. bs[i].participants = left(i) /\ bs[i].name = s.barriers[i].name
      BY <3>4, <1>2 DEF Barrier_t
    <3>6. left(i) = s.barriers[i].participants - 1
      BY <3>2, <1>3
    <3>7. barriers[i].participants \in Nat
      BY DEF TypeOK, Barrier_t
    <3> QED BY <3>2, <3>3, <3>5, <3>6, <3>7, <1>2
  <2>5. cleanup_shmem(s).num_barriers = s.num_barriers /\ cleanup_shmem(s).barriers = bs
    BY <2>1
  <2> HIDE DEF bs
  <2> QED BY <2>3, <2>4, <2>5 DEF CleanedUp
<1> QED BY <1>4, <1>5

(* Whatever is cleaned up n times can be. *)
LEMMA CleanupIterates ==
  ASSUME TypeOK, NEW s0 \in CleanedUp, NEW n \in Nat
  PROVE  \E g \in [0 .. n -> CleanedUp] :
           g[0] = s0 /\ \A k \in 0 .. n : k > 0 => g[k] = cleanup_shmem(g[k - 1])
<1> DEFINE Good(m, g) == g[0] = s0 /\ \A k \in 0 .. m : k > 0 => g[k] = cleanup_shmem(g[k - 1])
           Bad == {m \in Nat : ~ \E g \in [0 .. m -> CleanedUp] : Good(m, g)}
<1>1. SUFFICES ASSUME Bad # {} PROVE FALSE
  OBVIOUS
<1>2. Min(Bad) \in Bad /\ \A m \in Bad : Min(Bad) <= m
  <2>1. Bad \in SUBSET Nat
    OBVIOUS
  <2> HIDE DEF Bad
  <2> QED BY <1>1, <2>1, MinIsIn
<1> DEFINE m == Min(Bad)
<1> HIDE DEF m
<1>3. m \in Nat /\ m \in Bad /\ \A k \in Nat : k < m => k \notin Bad
  <2>1. Bad \in SUBSET Nat
    OBVIOUS
  <2> HIDE DEF Bad
  <2>2. m \in Nat /\ m \in Bad /\ \A k \in Bad : m <= k
    BY <1>2, <2>1 DEF m
  <2> QED BY <2>1, <2>2
<1>4. CASE m = 0
  <2>1. [k \in 0 .. 0 |-> s0] \in [0 .. 0 -> CleanedUp] /\ Good(0, [k \in 0 .. 0 |-> s0])
    OBVIOUS
  <2> QED BY <2>1, <1>3, <1>4
<1>5. CASE m > 0
  <2>1. m - 1 \in Nat /\ m - 1 \notin Bad
    <3> HIDE DEF Bad
    <3> QED BY <1>3, <1>5
  <2>2. PICK g \in [0 .. m - 1 -> CleanedUp] : Good(m - 1, g)
    BY <2>1
  <2> DEFINE f == [k \in 0 .. m |-> IF k < m THEN g[k] ELSE cleanup_shmem(g[m - 1])]
  <2>3. g[m - 1] \in CleanedUp /\ \A k \in 0 .. m : k < m => k \in 0 .. m - 1
    BY <2>1, <1>3
  <2>4. cleanup_shmem(g[m - 1]) \in CleanedUp
    BY <2>3, CleanupStays
  <2>5. f \in [0 .. m -> CleanedUp]
    BY <2>3, <2>4
  <2>6. f[0] = s0
    BY <2>2, <1>3, <1>5
  <2>7. ASSUME NEW k \in 0 .. m, k > 0 PROVE f[k] = cleanup_shmem(f[k - 1])
    <3>1. k - 1 \in 0 .. m /\ k - 1 < m /\ k - 1 \in 0 .. m - 1
      BY <1>3, <2>7
    <3>2. f[k - 1] = g[k - 1]
      BY <3>1
    <3>3. CASE k = m
      BY <3>2, <3>3, <1>3
    <3>4. CASE k < m
      <4>1. k \in 0 .. m - 1
        BY <3>4, <1>3
      <4>2. g[k] = cleanup_shmem(g[k - 1])
        BY <4>1, <2>2, <2>7
      <4> QED BY <4>2, <3>2, <3>4
    <3> QED BY <3>3, <3>4, <1>3
  <2>8. Good(m, f)
    BY <2>6, <2>7
  <2> QED BY <2>5, <2>8, <1>3
<1> QED BY <1>3, <1>4, <1>5

(* Cleaning up after all of a finite set of processes, as shmem_init does, *)
(* keeps an array among those, and does nothing when nobody died.          *)
LEMMA CleanupFolds ==
  ASSUME TypeOK, NEW s0 \in CleanedUp, NEW D, IsFiniteSet(D)
  PROVE  /\ FoldSet(LAMBDA q, t : cleanup_shmem(t), s0, D) \in CleanedUp
         /\ D = {} => FoldSet(LAMBDA q, t : cleanup_shmem(t), s0, D) = s0
<1> DEFINE Def(f) == [s \in SUBSET D |->
                       IF s = {} THEN s0 ELSE cleanup_shmem(f[s \ {CHOOSE x \in s : TRUE}])]
           iter == CHOOSE f : f = Def(f)
<1>1. FoldSet(LAMBDA q, t : cleanup_shmem(t), s0, D) = iter[D]
  BY DEF FoldSet, MapThenFoldSet
<1>2. \A s \in SUBSET D : IsFiniteSet(s) /\ Cardinality(s) \in Nat /\ Cardinality(s) <= Cardinality(D)
  BY FS_Subset, FS_CardinalityType
<1>3. \A s \in SUBSET D : s # {} =>
        LET r == s \ {CHOOSE x \in s : TRUE} IN
        r \in SUBSET D /\ Cardinality(r) = Cardinality(s) - 1 /\ Cardinality(s) > 0
  <2> SUFFICES ASSUME NEW s \in SUBSET D, s # {}
               PROVE  LET r == s \ {CHOOSE x \in s : TRUE} IN
                      r \in SUBSET D /\ Cardinality(r) = Cardinality(s) - 1 /\ Cardinality(s) > 0
    OBVIOUS
  <2>1. (CHOOSE x \in s : TRUE) \in s
    OBVIOUS
  <2>2. Cardinality(s \ {CHOOSE x \in s : TRUE}) = Cardinality(s) - 1
    BY <1>2, <2>1, FS_RemoveElement
  <2>3. Cardinality(s) # 0
    BY <1>2, FS_EmptySet
  <2> QED BY <2>2, <2>3, <1>2
<1>4. \E f : f = Def(f)
  <2>1. PICK g \in [0 .. Cardinality(D) -> CleanedUp] :
          g[0] = s0 /\ \A k \in 0 .. Cardinality(D) : k > 0 => g[k] = cleanup_shmem(g[k - 1])
    BY <1>2, CleanupIterates
  <2> DEFINE f == [s \in SUBSET D |-> g[Cardinality(s)]]
  <2>2. f[{}] = s0
    BY <2>1, FS_EmptySet
  <2>3. ASSUME NEW s \in SUBSET D, s # {}
        PROVE  f[s] = cleanup_shmem(f[s \ {CHOOSE x \in s : TRUE}])
    <3> DEFINE r == s \ {CHOOSE x \in s : TRUE}
    <3>1. r \in SUBSET D /\ Cardinality(r) = Cardinality(s) - 1 /\ Cardinality(s) > 0
      BY <2>3, <1>3
    <3> HIDE DEF r
    <3>2. f[s] = g[Cardinality(s)] /\ f[r] = g[Cardinality(s) - 1]
      BY <3>1
    <3>3. g[Cardinality(s)] = cleanup_shmem(g[Cardinality(s) - 1])
      BY <3>1, <1>2, <2>1
    <3> QED BY <3>2, <3>3 DEF r
  <2>4. \A s \in SUBSET D : f[s] = Def(f)[s]
    BY <2>2, <2>3
  <2>5. f = Def(f)
    BY <2>4
  <2> QED BY <2>5
<1>5. iter = Def(iter)
  BY <1>4
<1> HIDE DEF iter
<1>6. iter[{}] = s0 /\ \A s \in SUBSET D : s # {} =>
        iter[s] = cleanup_shmem(iter[s \ {CHOOSE x \in s : TRUE}])
  BY <1>5
<1> HIDE DEF Def
<1> DEFINE Bad == {k \in Nat : \E s \in SUBSET D : Cardinality(s) = k /\ iter[s] \notin CleanedUp}
<1>7. Bad = {}
  <2> SUFFICES ASSUME Bad # {} PROVE FALSE
    OBVIOUS
  <2>1. Bad \in SUBSET Nat
    OBVIOUS
  <2>2. Min(Bad) \in Bad /\ \A k \in Bad : Min(Bad) <= k
    <3> HIDE DEF Bad
    <3> QED BY <2>1, MinIsIn
  <2>3. PICK s \in SUBSET D : Cardinality(s) = Min(Bad) /\ iter[s] \notin CleanedUp
    BY <2>2
  <2>4. s # {}
    BY <2>3, <1>6
  <2> DEFINE r == s \ {CHOOSE x \in s : TRUE}
  <2>5. r \in SUBSET D /\ Cardinality(r) = Cardinality(s) - 1 /\ Cardinality(s) > 0
    BY <2>4, <1>3
  <2>6. iter[s] = cleanup_shmem(iter[r])
    BY <2>4, <1>6
  <2> HIDE DEF r
  <2>7. Cardinality(r) \in Nat /\ Cardinality(r) < Min(Bad) /\ Min(Bad) \in Nat
    BY <2>3, <2>5, <1>2
  <2>8. Cardinality(r) \notin Bad
    <3> HIDE DEF Bad
    <3> QED BY <2>7, <2>2, <2>1
  <2>9. iter[r] \in CleanedUp
    BY <2>5, <2>7, <2>8
  <2> QED BY <2>9, <2>6, <2>3, CleanupStays
<1>8. iter[D] \in CleanedUp
  BY <1>7, <1>2
<1>9. D = {} => iter[D] = s0
  BY <1>6
<1> QED BY <1>1, <1>8, <1>9

-----------------------------------------------------------------------------
(* Joining a barrier *)

(* A step in which nobody dies, is cleaned up, enters or leaves a barrier  *)
(* or begins or ends to wait in one.                                       *)
Quiet ==
  /\ \A q \in Pid : pc'[q] \in {"dead", "cleaned"} <=> pc[q] \in {"dead", "cleaned"}
  /\ \A q \in Pid : pc'[q] = "wait" <=> pc[q] = "wait"
  /\ call' = call

(* In such a step the same processes are dead. *)
LEMMA QuietKeepsDied ==
  ASSUME Quiet
  PROVE  Died' = Died /\ (NobodyDied' <=> NobodyDied)
BY DEF Quiet, Died, NobodyDied

(* What a process notes when it joins: one place more in the slot. *)
LEMMA NotedPlaces ==
  ASSUME TypeOK, NEW p \in Pid, NEW kind \in {"default", "named"}, NEW h \in Handle,
         Noted(p, kind, h), kind = "default" => default_barrier[p] = NoSlot
  PROVE  /\ default_barrier' \in [Pid -> Slot \cup {NoSlot}]
         /\ barrier_list' \in [Pid -> SUBSET Handle]
         /\ known' \in [Pid -> SUBSET Handle]
         /\ \A i \in Slot : ByDefault(i)' = IF kind = "default" /\ i = h.slot
                                            THEN ByDefault(i) \cup {p} ELSE ByDefault(i)
         /\ \A i \in Slot : ByName(i)' = IF kind = "named" /\ i = h.slot
                                         THEN ByName(i) \cup {p} ELSE ByName(i)
         /\ OneHandle /\ (kind = "named" => ~InList(p, h.slot)) => OneHandle'
<1>0. h.slot \in Slot /\ NoSlot \notin Slot
  BY SlotFacts DEF Handle
<1>1. CASE kind = "default"
  <2>1. default_barrier' = [default_barrier EXCEPT ![p] = h.slot]
        /\ barrier_list' = barrier_list /\ known' = known
    BY <1>1 DEF Noted
  <2>2. \A i \in Slot : ByName(i)' = ByName(i)
    BY <2>1 DEF ByName, InList
  <2>3. \A i \in Slot : ByDefault(i)' = IF i = h.slot THEN ByDefault(i) \cup {p} ELSE ByDefault(i)
    BY <2>1, <1>0, <1>1 DEF ByDefault, TypeOK
  <2>4. default_barrier' \in [Pid -> Slot \cup {NoSlot}]
    BY <2>1, <1>0 DEF TypeOK
  <2> QED BY <1>1, <2>1, <2>2, <2>3, <2>4 DEF TypeOK, OneHandle
<1>2. CASE kind = "named"
  <2>1. barrier_list' = [barrier_list EXCEPT ![p] = @ \cup {h}] /\ default_barrier' = default_barrier
        /\ known' = [known EXCEPT ![p] = @ \cup {h}]
    BY <1>2 DEF Noted
  <2>2. \A i \in Slot : ByDefault(i)' = ByDefault(i)
    BY <2>1 DEF ByDefault
  <2>3. \A q \in Pid : barrier_list'[q] = IF q = p THEN barrier_list[q] \cup {h} ELSE barrier_list[q]
    BY <2>1 DEF TypeOK
  <2>4. \A i \in Slot : ByName(i)' = IF i = h.slot THEN ByName(i) \cup {p} ELSE ByName(i)
    BY <2>3, <1>0 DEF ByName, InList
  <2>5. barrier_list' \in [Pid -> SUBSET Handle] /\ known' \in [Pid -> SUBSET Handle]
    BY <2>1 DEF TypeOK
  <2>6. OneHandle /\ ~InList(p, h.slot) => OneHandle'
    BY <2>3 DEF OneHandle, InList
  <2> QED BY <1>2, <2>1, <2>2, <2>4, <2>5, <2>6 DEF TypeOK
<1> QED BY <1>1, <1>2

(* The participants of an initialized slot that a process has not joined   *)
(* as kind can be counted with one more.                                   *)
LEMMA RoomToJoin ==
  ASSUME TypeOK, Shared, NEW p \in Pid, NEW i \in Slot, barriers[i].initialized,
         p \notin Died, p \notin ByDefault(i) \/ p \notin ByName(i)
  PROVE  (barriers[i].participants + 1) % UintSize = barriers[i].participants + 1
<1> DEFINE A == ByDefault(i) \cup Died
           B == ByName(i) \cup Died
           n == barriers[i].participants
<1>1. A \in SUBSET Pid /\ B \in SUBSET Pid /\ (p \notin A \/ p \notin B)
  BY DEF ByDefault, ByName, Died
<1>2. n \in Nat /\ n <= Cardinality(A) + Cardinality(B)
  <2>1. barriers[i] \in Barrier_t
    BY DEF TypeOK
  <2>2. n \in Nat
    BY <2>1 DEF Barrier_t
  <2> QED BY <2>2 DEF Shared, ParticipantsBounded
<1>3. /\ Cardinality(A) \in Nat /\ Cardinality(B) \in Nat /\ Cardinality(Pid) \in Nat
      /\ Cardinality(A) <= Cardinality(Pid) /\ Cardinality(B) <= Cardinality(Pid)
  BY <1>1, PidSets
<1>4. p \notin A => Cardinality(A) + 1 <= Cardinality(Pid)
  BY <1>1, PidSetRoom
<1>5. p \notin B => Cardinality(B) + 1 <= Cardinality(Pid)
  BY <1>1, PidSetRoom
<1>6. UintSize \in Nat /\ UintSize > 2 * Cardinality(Pid)
  BY BarrierAssumption
<1> HIDE DEF A, B, n
<1>7. n + 1 < UintSize
  BY <1>1, <1>2, <1>3, <1>4, <1>5, <1>6
<1>8. (n + 1) % UintSize = n + 1
  BY <1>2, <1>6, <1>7, ModSmall
<1> QED BY <1>8 DEF n

(* Joining a barrier that is initialized and that nobody is in. *)
LEMMA JoinKeeps ==
  ASSUME TypeOK, Shared, Counted, NEW p \in Pid, NEW kind \in {"default", "named"},
         NEW h \in Handle, Join(p, kind, h), Quiet, p \notin Died,
         barriers[h.slot].initialized, readers[h.slot] = {},
         kind = "default" => default_barrier[p] = NoSlot,
         kind = "named" => ~InList(p, h.slot)
  PROVE  /\ barriers' \in [Slot -> Barrier_t]
         /\ \A i \in Slot : barriers'[i].initialized <=> barriers[i].initialized
         /\ Shared' /\ Counted'
<1> DEFINE n == barriers[h.slot].participants
<1>0. h.slot \in Slot /\ barriers[h.slot] \in Barrier_t /\ NoSlot \notin Slot
  BY SlotFacts DEF Handle, TypeOK
<1>1. n \in Nat /\ n + 1 \in 0 .. UintSize - 1 /\ (n + 1) % UintSize = n + 1
  <2>1. n \in Nat /\ UintSize \in Nat \ {0}
    BY <1>0, BarrierAssumption, PidSets DEF Barrier_t
  <2>2. p \notin ByDefault(h.slot) \/ p \notin ByName(h.slot)
    BY <1>0 DEF ByDefault, ByName
  <2>3. (n + 1) % UintSize = n + 1
    BY <1>0, <2>2, RoomToJoin
  <2> QED BY <2>1, <2>3
<1>2. \A i \in Slot : barriers'[i] =
        IF i = h.slot THEN [barriers[i] EXCEPT !.participants = n + 1, !.size = n + 1, !.waiting = {}]
        ELSE barriers[i]
  BY <1>0, <1>1 DEF Join, joined, resize, TypeOK
<1>3. barriers' \in [Slot -> Barrier_t]
  BY <1>0, <1>1 DEF Join, joined, resize, TypeOK, Barrier_t
<1>4. \A i \in Slot : /\ barriers'[i].name = barriers[i].name
                      /\ barriers'[i].initialized = barriers[i].initialized
                      /\ barriers'[i].count = barriers[i].count
                      /\ barriers'[i].participants = IF i = h.slot THEN n + 1 ELSE barriers[i].participants
                      /\ barriers'[i].size = IF i = h.slot THEN n + 1 ELSE barriers[i].size
                      /\ barriers'[i].waiting = IF i = h.slot THEN {} ELSE barriers[i].waiting
  <2> HIDE DEF n
  <2>1. \A i \in Slot : barriers[i] \in Barrier_t
    BY DEF TypeOK
  <2> TAKE i \in Slot
  <2>2. CASE i # h.slot
    BY <2>2, <1>2
  <2>3. CASE i = h.slot
    <3>1. barriers'[i] = [barriers[i] EXCEPT !.participants = n + 1, !.size = n + 1, !.waiting = {}]
      BY <2>3, <1>2
    <3> QED BY <2>1, <2>3, <3>1 DEF Barrier_t
  <2> QED BY <2>2, <2>3
<1>5. num_barriers' = num_barriers /\ readers' = readers /\ Noted(p, kind, h)
  BY DEF Join
<1>6. Died' = Died /\ (NobodyDied' <=> NobodyDied)
  BY QuietKeepsDied
<1>7. /\ \A i \in Slot : ByDefault(i)' = IF kind = "default" /\ i = h.slot
                                         THEN ByDefault(i) \cup {p} ELSE ByDefault(i)
      /\ \A i \in Slot : ByName(i)' = IF kind = "named" /\ i = h.slot
                                      THEN ByName(i) \cup {p} ELSE ByName(i)
      /\ OneHandle => OneHandle'
  BY <1>5, NotedPlaces
<1>8. \A i \in Slot : ByDefault(i) \in SUBSET Pid /\ ByName(i) \in SUBSET Pid /\ Died \in SUBSET Pid
  BY DEF ByDefault, ByName, Died
<1> DEFINE D == ByDefault(h.slot)
           N == ByName(h.slot)
<1>9. (kind = "default" => p \notin D) /\ (kind = "named" => p \notin N)
  BY <1>0 DEF ByDefault, ByName
<1>10. Shared'
  <2>1. NamesAreUnique' /\ InitializedAreFound'
    BY <1>4, <1>5 DEF Shared, NamesAreUnique, InitializedAreFound
  <2>2. ASSUME NEW i \in Slot, barriers'[i].initialized
        PROVE  /\ barriers'[i].participants > 0
               /\ barriers'[i].participants <= Cardinality(ByDefault(i)' \cup Died')
                                                 + Cardinality(ByName(i)' \cup Died')
    <3>1. CASE i # h.slot
      BY <3>1, <2>2, <1>4, <1>6, <1>7 DEF Shared, ParticipantsBounded
    <3>2. CASE i = h.slot
      <4>1. n <= Cardinality(D \cup Died) + Cardinality(N \cup Died)
        BY <1>0 DEF Shared, ParticipantsBounded
      <4>2. kind = "default" =>
              /\ ByDefault(i)' \cup Died' = (D \cup Died) \cup {p}
              /\ ByName(i)' \cup Died' = N \cup Died
              /\ Cardinality((D \cup Died) \cup {p}) = Cardinality(D \cup Died) + 1
        BY <3>2, <1>0, <1>6, <1>7, <1>8, <1>9, PidSetChanges
      <4>3. kind = "named" =>
              /\ ByDefault(i)' \cup Died' = D \cup Died
              /\ ByName(i)' \cup Died' = (N \cup Died) \cup {p}
              /\ Cardinality((N \cup Died) \cup {p}) = Cardinality(N \cup Died) + 1
        BY <3>2, <1>0, <1>6, <1>7, <1>8, <1>9, PidSetChanges
      <4>4. Cardinality(D \cup Died) \in Nat /\ Cardinality(N \cup Died) \in Nat
        BY <1>0, <1>8, PidSets
      <4>5. barriers'[i].participants = n + 1
        BY <3>2, <1>4, <1>0
      <4> DEFINE x == Cardinality(D \cup Died)
                 y == Cardinality(N \cup Died)
                 x2 == Cardinality(ByDefault(i)' \cup Died')
                 y2 == Cardinality(ByName(i)' \cup Died')
      <4>6. x2 = (IF kind = "default" THEN x + 1 ELSE x) /\ y2 = (IF kind = "named" THEN y + 1 ELSE y)
        BY <4>2, <4>3
      <4> HIDE DEF x, y, x2, y2, n
      <4>7. n <= x + y /\ x \in Nat /\ y \in Nat
        BY <4>1, <4>4 DEF x, y
      <4>8. n + 1 > 0 /\ n + 1 <= x2 + y2
        BY <4>6, <4>7, <1>1
      <4> QED BY <4>5, <4>8 DEF x2, y2
    <3> QED BY <3>1, <3>2
  <2>3. ParticipantsBounded'
    BY <2>2 DEF ParticipantsBounded
  <2> QED BY <2>1, <2>3 DEF Shared
<1>11. Counted'
  <2> SUFFICES ASSUME NobodyDied PROVE (ParticipantsAreMembers /\ OneHandle /\ ReadersAreInside)'
    BY <1>6 DEF Counted
  <2>1. ParticipantsAreMembers /\ OneHandle /\ ReadersAreInside
    BY DEF Counted
  <2>2. ASSUME NEW i \in Slot
        PROVE  /\ barriers'[i].participants = Cardinality(ByDefault(i)') + Cardinality(ByName(i)')
               /\ barriers'[i].size = barriers'[i].participants
               /\ barriers'[i].initialized <=> barriers'[i].participants > 0
    <3>1. /\ barriers[i].participants = Cardinality(ByDefault(i)) + Cardinality(ByName(i))
          /\ barriers[i].size = barriers[i].participants
          /\ barriers[i].initialized <=> barriers[i].participants > 0
      BY <2>1 DEF ParticipantsAreMembers, ByDefault, ByName
    <3>2. CASE i # h.slot
      BY <3>1, <3>2, <1>4, <1>7
    <3>3. CASE i = h.slot
      <4>1. kind = "default" => Cardinality(D \cup {p}) = Cardinality(D) + 1
        BY <1>0, <1>8, <1>9, PidSetChanges
      <4>2. kind = "named" => Cardinality(N \cup {p}) = Cardinality(N) + 1
        BY <1>0, <1>8, <1>9, PidSetChanges
      <4>3. Cardinality(D) \in Nat /\ Cardinality(N) \in Nat
        BY <1>0, <1>8, PidSets
      <4>4. /\ kind = "default" => ByDefault(i)' = D \cup {p} /\ ByName(i)' = N
            /\ kind = "named" => ByDefault(i)' = D /\ ByName(i)' = N \cup {p}
        BY <3>3, <1>0, <1>7
      <4>5. n = Cardinality(D) + Cardinality(N) /\ barriers'[i].participants = n + 1
            /\ barriers'[i].size = n + 1 /\ barriers'[i].initialized
        BY <3>1, <3>3, <1>4, <1>0
      <4> DEFINE x == Cardinality(D)
                 y == Cardinality(N)
                 x2 == Cardinality(ByDefault(i)')
                 y2 == Cardinality(ByName(i)')
      <4>6. x2 = (IF kind = "default" THEN x + 1 ELSE x) /\ y2 = (IF kind = "named" THEN y + 1 ELSE y)
        BY <4>1, <4>2, <4>4
      <4> HIDE DEF x, y, x2, y2, n
      <4>7. n = x + y /\ x \in Nat /\ y \in Nat
        BY <4>3, <4>5 DEF x, y
      <4>8. n + 1 > 0 /\ n + 1 = x2 + y2
        BY <4>6, <4>7, <1>1
      <4> QED BY <4>5, <4>8 DEF x2, y2
    <3> QED BY <3>2, <3>3
  <2>3. ParticipantsAreMembers'
    BY <2>2 DEF ParticipantsAreMembers, ByDefault, ByName
  <2>4. OneHandle'
    BY <2>1, <1>7
  <2>5. ReadersAreInside'
    <3> SUFFICES ASSUME NEW i \in Slot
                 PROVE  /\ readers'[i] = {q \in Pid : call'[q].slot = i}
                        /\ readers'[i] \subseteq ByDefault(i)' \cup ByName(i)'
                        /\ barriers'[i].count = Cardinality(readers'[i])
                        /\ barriers'[i].waiting = {q \in Pid : pc'[q] = "wait" /\ call'[q].slot = i}
      BY DEF ReadersAreInside
    <3>1. /\ readers[i] = {q \in Pid : call[q].slot = i}
          /\ readers[i] \subseteq ByDefault(i) \cup ByName(i)
          /\ barriers[i].count = Cardinality(readers[i])
          /\ barriers[i].waiting = {q \in Pid : pc[q] = "wait" /\ call[q].slot = i}
      BY <2>1 DEF ReadersAreInside
    <3>2. ByDefault(i) \subseteq ByDefault(i)' /\ ByName(i) \subseteq ByName(i)'
      BY <1>7
    <3>3. {q \in Pid : pc'[q] = "wait" /\ call'[q].slot = i} = {q \in Pid : pc[q] = "wait" /\ call[q].slot = i}
      BY DEF Quiet
    <3>4. barriers'[i].waiting = barriers[i].waiting
      BY <3>1, <1>4, <1>0
    <3> QED BY <3>1, <3>2, <3>3, <3>4, <1>4, <1>5 DEF Quiet
  <2> QED BY <2>3, <2>4, <2>5
<1> QED BY <1>3, <1>4, <1>10, <1>11

(* With a process, the counters have room for one. *)
LEMMA RoomForOne ==
  ASSUME NEW p \in Pid
  PROVE  UintSize \in Nat /\ UintSize > 1
<1>1. Cardinality({}) + 1 <= Cardinality(Pid)
  BY PidSetRoom
<1>2. Cardinality({}) = 0 /\ Cardinality(Pid) \in Nat
  BY FS_EmptySet, PidSets
<1> QED BY <1>1, <1>2, BarrierAssumption

(* Creating a barrier in a slot that is not initialized. *)
Create(p, kind, h) ==
  /\ barriers' = [barriers EXCEPT ![h.slot] = created(h.name)]
  /\ readers' = [readers EXCEPT ![h.slot] = {}]
  /\ num_barriers' = IF h.slot = num_barriers THEN num_barriers + 1 ELSE num_barriers
  /\ Noted(p, kind, h)

(* The new barrier has one participant, a name of its own and nobody in it. *)
LEMMA CreateKeeps ==
  ASSUME TypeOK, Shared, Counted, NEW p \in Pid, NEW kind \in {"default", "named"},
         NEW h \in Handle, Create(p, kind, h), Quiet, p \notin Died,
         ~barriers[h.slot].initialized, h.slot <= num_barriers,
         \A i \in Slot : barriers[i].initialized => barriers[i].name # h.name,
         kind = "default" => default_barrier[p] = NoSlot
  PROVE  /\ barriers' \in [Slot -> Barrier_t]
         /\ readers' \in [Slot -> SUBSET Pid]
         /\ num_barriers' \in 0 .. max_barriers
         /\ \A i \in Slot : barriers[i].initialized => barriers'[i].initialized
         /\ Shared' /\ Counted'
<1> USE DEF Create
<1>0. h.slot \in Slot /\ h.name \in Name /\ NoSlot \notin Slot /\ h.slot < max_barriers
      /\ h.slot \in Nat /\ max_barriers \in Nat
  BY SlotFacts, BarrierAssumption DEF Handle, TypeOK, Slot
<1>1. UintSize \in Nat /\ UintSize > 1
  BY RoomForOne
<1> DEFINE e == resize(EmptyBarrier, 1)
<1>2. /\ e \in Barrier_t /\ e.initialized = FALSE /\ e.participants = 1
      /\ e.count = 0 /\ e.size = 1 /\ e.waiting = {}
  <2>1. e = [EmptyBarrier EXCEPT !.participants = 1, !.size = 1, !.waiting = {}]
    BY DEF resize
  <2>2. EmptyBarrier \in Barrier_t
    BY EmptyBarrierType
  <2>3. 1 \in 0 .. UintSize - 1 /\ {} \in SUBSET Pid
    BY <1>1
  <2> HIDE DEF e
  <2>4. e \in Barrier_t
    BY <2>1, <2>2, <2>3 DEF Barrier_t
  <2> QED BY <2>1, <2>4 DEF EmptyBarrier
<1>3. /\ created(h.name) \in Barrier_t
      /\ created(h.name).name = h.name /\ created(h.name).initialized = TRUE
      /\ created(h.name).participants = 1 /\ created(h.name).count = 0
      /\ created(h.name).size = 1 /\ created(h.name).waiting = {}
  <2>1. created(h.name) = [e EXCEPT !.name = h.name, !.initialized = TRUE]
    BY DEF created
  <2> HIDE DEF e
  <2> QED BY <2>1, <1>2, <1>0 DEF Barrier_t
<1>4. \A i \in Slot : barriers'[i] = IF i = h.slot THEN created(h.name) ELSE barriers[i]
  BY <1>0 DEF TypeOK
<1>5. barriers' \in [Slot -> Barrier_t]
  BY <1>0, <1>3 DEF TypeOK
<1>6. /\ barriers'[h.slot].name = h.name /\ barriers'[h.slot].initialized
      /\ barriers'[h.slot].participants = 1 /\ barriers'[h.slot].count = 0
      /\ barriers'[h.slot].size = 1 /\ barriers'[h.slot].waiting = {}
  BY <1>0, <1>3, <1>4
<1>7. readers' \in [Slot -> SUBSET Pid]
      /\ \A i \in Slot : readers'[i] = IF i = h.slot THEN {} ELSE readers[i]
  BY <1>0 DEF TypeOK
<1>8. /\ num_barriers' \in 0 .. max_barriers /\ num_barriers \in Nat
      /\ h.slot < num_barriers' /\ num_barriers <= num_barriers'
  <2> DEFINE k == h.slot
             m == num_barriers'
  <2>1. k \in Nat /\ max_barriers \in Nat /\ k < max_barriers /\ k <= num_barriers
        /\ num_barriers \in 0 .. max_barriers /\ m = IF k = num_barriers THEN num_barriers + 1 ELSE num_barriers
    BY <1>0 DEF TypeOK
  <2> HIDE DEF k, m
  <2>2. m \in 0 .. max_barriers /\ num_barriers \in Nat /\ k < m /\ num_barriers <= m
    BY <2>1
  <2> QED BY <2>2 DEF k, m
<1>9. Died' = Died /\ (NobodyDied' <=> NobodyDied)
  BY QuietKeepsDied
<1>10. /\ \A i \in Slot : ByDefault(i)' = IF kind = "default" /\ i = h.slot
                                          THEN ByDefault(i) \cup {p} ELSE ByDefault(i)
       /\ \A i \in Slot : ByName(i)' = IF kind = "named" /\ i = h.slot
                                       THEN ByName(i) \cup {p} ELSE ByName(i)
       /\ OneHandle /\ (kind = "named" => ~InList(p, h.slot)) => OneHandle'
  BY NotedPlaces
<1>11. \A i \in Slot : /\ ByDefault(i) \in SUBSET Pid /\ ByName(i) \in SUBSET Pid /\ Died \in SUBSET Pid
                       /\ ByDefault(i)' \in SUBSET Pid /\ ByName(i)' \in SUBSET Pid
  BY DEF ByDefault, ByName, Died
<1>12. NamesAreUnique'
  BY <1>4, <1>6, <1>0 DEF Shared, NamesAreUnique
<1>13. InitializedAreFound'
  <2> SUFFICES ASSUME NEW i \in Slot, barriers'[i].initialized PROVE i < num_barriers'
    BY DEF InitializedAreFound
  <2>1. CASE i = h.slot
    BY <2>1, <1>8
  <2>2. CASE i # h.slot
    <3>1. i < num_barriers /\ i \in Nat
      BY <2>2, <1>4, SlotFacts DEF Shared, InitializedAreFound
    <3> QED BY <3>1, <1>8
  <2> QED BY <2>1, <2>2
<1>14. ParticipantsBounded'
  <2> SUFFICES ASSUME NEW i \in Slot, barriers'[i].initialized
               PROVE  /\ barriers'[i].participants > 0
                      /\ barriers'[i].participants <= Cardinality(ByDefault(i)' \cup Died')
                                                        + Cardinality(ByName(i)' \cup Died')
    BY DEF ParticipantsBounded
  <2>1. CASE i # h.slot
    BY <2>1, <1>4, <1>9, <1>10 DEF Shared, ParticipantsBounded
  <2>2. CASE i = h.slot
    <3> DEFINE x == Cardinality(ByDefault(i)' \cup Died')
               y == Cardinality(ByName(i)' \cup Died')
    <3>1. x \in Nat /\ y \in Nat
      BY <1>9, <1>11, PidSets
    <3>2. ByDefault(i)' \cup Died' # {} \/ ByName(i)' \cup Died' # {}
      BY <2>2, <1>10
    <3>3. x # 0 \/ y # 0
      BY <3>2, <1>9, <1>11, PidSetEmpty
    <3>4. barriers'[i].participants = 1
      BY <2>2, <1>6
    <3> HIDE DEF x, y
    <3>5. 1 <= x + y
      BY <3>1, <3>3
    <3> QED BY <3>4, <3>5 DEF x, y
  <2> QED BY <2>1, <2>2
<1>15. Counted'
  <2> SUFFICES ASSUME NobodyDied PROVE (ParticipantsAreMembers /\ OneHandle /\ ReadersAreInside)'
    BY <1>9 DEF Counted
  <2>1. ParticipantsAreMembers /\ OneHandle /\ ReadersAreInside
    BY DEF Counted
  <2>2. \A i \in Slot :
          /\ barriers[i].participants = Cardinality(ByDefault(i)) + Cardinality(ByName(i))
          /\ barriers[i].size = barriers[i].participants
          /\ barriers[i].initialized <=> barriers[i].participants > 0
    BY <2>1 DEF ParticipantsAreMembers, ByDefault, ByName
  <2>3. ByDefault(h.slot) = {} /\ ByName(h.slot) = {}
    <3> DEFINE x == Cardinality(ByDefault(h.slot))
               y == Cardinality(ByName(h.slot))
    <3>1. x \in Nat /\ y \in Nat
      BY <1>0, <1>11, PidSets
    <3>2. ~(x + y > 0)
      BY <1>0, <2>2
    <3> HIDE DEF x, y
    <3>3. x = 0 /\ y = 0
      BY <3>1, <3>2
    <3> QED BY <3>3, <1>0, <1>11, PidSetEmpty DEF x, y
  <2>4. ParticipantsAreMembers'
    <3>1. ASSUME NEW i \in Slot
          PROVE  /\ barriers'[i].participants = Cardinality(ByDefault(i)') + Cardinality(ByName(i)')
                 /\ barriers'[i].size = barriers'[i].participants
                 /\ barriers'[i].initialized <=> barriers'[i].participants > 0
      <4>1. CASE i # h.slot
        BY <4>1, <2>2, <1>4, <1>10
      <4>2. CASE i = h.slot
        <5>1. \/ ByDefault(i)' = {p} /\ ByName(i)' = {}
              \/ ByDefault(i)' = {} /\ ByName(i)' = {p}
          BY <4>2, <2>3, <1>10
        <5>2. Cardinality({}) = 0 /\ Cardinality({p}) = 1
          BY FS_EmptySet, FS_Singleton
        <5>3. Cardinality(ByDefault(i)') + Cardinality(ByName(i)') = 1
          <6>1. CASE ByDefault(i)' = {p} /\ ByName(i)' = {}
            BY <6>1, <5>2
          <6>2. CASE ByDefault(i)' = {} /\ ByName(i)' = {p}
            BY <6>2, <5>2
          <6> QED BY <5>1, <6>1, <6>2
        <5> QED BY <5>3, <4>2, <1>6
      <4> QED BY <4>1, <4>2
    <3> QED BY <3>1 DEF ParticipantsAreMembers, ByDefault, ByName
  <2>5. OneHandle'
    BY <2>1, <2>3, <1>10 DEF ByName
  <2>6. ReadersAreInside'
    <3> SUFFICES ASSUME NEW i \in Slot
                 PROVE  /\ readers'[i] = {q \in Pid : call'[q].slot = i}
                        /\ readers'[i] \subseteq ByDefault(i)' \cup ByName(i)'
                        /\ barriers'[i].count = Cardinality(readers'[i])
                        /\ barriers'[i].waiting = {q \in Pid : pc'[q] = "wait" /\ call'[q].slot = i}
      BY DEF ReadersAreInside
    <3>1. /\ readers[i] = {q \in Pid : call[q].slot = i}
          /\ readers[i] \subseteq ByDefault(i) \cup ByName(i)
          /\ barriers[i].count = Cardinality(readers[i])
          /\ barriers[i].waiting = {q \in Pid : pc[q] = "wait" /\ call[q].slot = i}
      BY <2>1 DEF ReadersAreInside
    <3>2. {q \in Pid : pc'[q] = "wait" /\ call'[q].slot = i} = {q \in Pid : pc[q] = "wait" /\ call[q].slot = i}
          /\ {q \in Pid : call'[q].slot = i} = {q \in Pid : call[q].slot = i}
      BY DEF Quiet
    <3>3. CASE i # h.slot
      BY <3>1, <3>2, <3>3, <1>4, <1>7, <1>10
    <3>4. CASE i = h.slot
      <4>1. readers[i] = {} /\ barriers[i].waiting = {}
        BY <3>1, <3>4, <2>3
      <4>2. Cardinality({}) = 0
        BY FS_EmptySet
      <4> QED BY <4>1, <4>2, <3>1, <3>2, <3>4, <1>6, <1>7
    <3> QED BY <3>3, <3>4
  <2> QED BY <2>4, <2>5, <2>6
<1> QED BY <1>4, <1>5, <1>7, <1>8, <1>12, <1>13, <1>14, <1>15 DEF Shared

-----------------------------------------------------------------------------
(* Leaving a barrier *)

(* What a process forgets when it leaves: one place less in the slot, or   *)
(* none if it has another handle to the same slot.                         *)
LEMMA ForgottenPlaces ==
  ASSUME TypeOK, NEW p \in Pid, NEW kind \in {"default", "named"}, NEW h \in Handle,
         Forgotten(p, kind, h), kind = "default" => default_barrier[p] = h.slot
  PROVE  /\ default_barrier' \in [Pid -> Slot \cup {NoSlot}]
         /\ barrier_list' \in [Pid -> SUBSET Handle]
         /\ known' \in [Pid -> SUBSET Handle]
         /\ \A i \in Slot : ByDefault(i)' = IF kind = "default" /\ i = h.slot
                                            THEN ByDefault(i) \ {p} ELSE ByDefault(i)
         /\ \A i \in Slot : kind # "named" \/ i # h.slot => ByName(i)' = ByName(i)
         /\ \A i \in Slot : ByName(i) \ {p} \subseteq ByName(i)'
         /\ OneHandle => OneHandle'
         /\ OneHandle /\ h \in barrier_list[p] /\ kind = "named" =>
              ByName(h.slot)' = ByName(h.slot) \ {p}
<1>0. h.slot \in Slot /\ NoSlot \notin Slot
  BY SlotFacts DEF Handle
<1>1. CASE kind = "default"
  <2>1. default_barrier' = [default_barrier EXCEPT ![p] = NoSlot]
        /\ barrier_list' = barrier_list /\ known' = known
    BY <1>1 DEF Forgotten
  <2>2. \A i \in Slot : ByName(i)' = ByName(i)
    BY <2>1 DEF ByName, InList
  <2>3. \A i \in Slot : ByDefault(i)' = IF i = h.slot THEN ByDefault(i) \ {p} ELSE ByDefault(i)
    BY <2>1, <1>0, <1>1 DEF ByDefault, TypeOK
  <2>4. default_barrier' \in [Pid -> Slot \cup {NoSlot}]
    BY <2>1, <1>0 DEF TypeOK
  <2> QED BY <1>1, <2>1, <2>2, <2>3, <2>4 DEF TypeOK, OneHandle
<1>2. CASE kind = "named"
  <2>1. barrier_list' = [barrier_list EXCEPT ![p] = @ \ {h}] /\ default_barrier' = default_barrier
        /\ known' = known
    BY <1>2 DEF Forgotten
  <2>2. \A i \in Slot : ByDefault(i)' = ByDefault(i)
    BY <2>1 DEF ByDefault
  <2>3. \A q \in Pid : barrier_list'[q] = IF q = p THEN barrier_list[q] \ {h} ELSE barrier_list[q]
    BY <2>1 DEF TypeOK
  <2>4. \A i \in Slot : i # h.slot => ByName(i)' = ByName(i)
    BY <2>3 DEF ByName, InList
  <2>5. \A i \in Slot : ByName(i) \ {p} \subseteq ByName(i)'
    BY <2>3 DEF ByName, InList
  <2>6. barrier_list' \in [Pid -> SUBSET Handle]
    BY <2>1 DEF TypeOK
  <2>7. OneHandle => OneHandle'
    BY <2>3 DEF OneHandle
  <2>8. OneHandle /\ h \in barrier_list[p] => ByName(h.slot)' = ByName(h.slot) \ {p}
    BY <2>3 DEF ByName, InList, OneHandle
  <2> QED BY <1>2, <2>1, <2>2, <2>4, <2>5, <2>6, <2>7, <2>8 DEF TypeOK
<1> QED BY <1>1, <1>2

(* The slots at the end of the list that are dropped are not initialized. *)
LEMMA CompactedCovers ==
  ASSUME TypeOK, Shared, NEW bs, \A i \in Slot : bs[i].initialized => barriers[i].initialized
  PROVE  /\ Compacted(bs) \in 0 .. max_barriers
         /\ \A i \in Slot : bs[i].initialized => i < Compacted(bs)
<1> DEFINE used == {i \in Slot : i < num_barriers /\ bs[i].initialized}
<1>1. \A i \in Slot : bs[i].initialized => i \in used
  BY DEF Shared, InitializedAreFound
<1>2. Compacted(bs) = IF used = {} THEN 0 ELSE Max(used) + 1
  BY DEF Compacted
<1>3. used \in SUBSET Slot
  OBVIOUS
<1> HIDE DEF used
<1>4. CASE used = {}
  BY <1>1, <1>2, <1>4, BarrierAssumption
<1>5. CASE used # {}
  <2>1. Max(used) \in Slot /\ \A i \in used : i <= Max(used)
    BY <1>3, <1>5, MaxIsIn
  <2>2. Max(used) + 1 \in 0 .. max_barriers /\ \A i \in used : i < Max(used) + 1
    BY <2>1, <1>3, SlotFacts, BarrierAssumption DEF Slot
  <2> QED BY <1>1, <1>2, <1>5, <2>2
<1> QED BY <1>4, <1>5

(* A slot that somebody leaves has a participant less, or is emptied. *)
LEMMA DetachedFields ==
  ASSUME NEW b \in Barrier_t, b.participants > 0
  PROVE  /\ detached(b) \in Barrier_t
         /\ b.participants = 1 => detached(b) = EmptyBarrier
         /\ b.participants # 1 =>
              /\ detached(b).initialized = b.initialized /\ detached(b).name = b.name
              /\ detached(b).participants = b.participants - 1 /\ detached(b).participants > 0
              /\ detached(b).size = b.participants - 1
              /\ detached(b).count = b.count
              /\ detached(b).waiting = {}
<1>1. UintSize \in Nat /\ b.participants \in 0 .. UintSize - 1
  BY BarrierAssumption DEF Barrier_t
<1>2. CASE b.participants = 1
  BY <1>2, EmptyBarrierType DEF detached
<1>3. CASE b.participants # 1
  <2> DEFINE m == b.participants - 1
  <2>1. m \in 0 .. UintSize - 1 /\ m > 0
    BY <1>1, <1>3
  <2>2. detached(b) = [b EXCEPT !.participants = m, !.size = m, !.waiting = {}]
    BY <1>3 DEF detached, resize
  <2> HIDE DEF m
  <2>3. /\ detached(b) \in Barrier_t
        /\ detached(b).initialized = b.initialized /\ detached(b).name = b.name
        /\ detached(b).participants = m /\ detached(b).size = m /\ detached(b).count = b.count
        /\ detached(b).waiting = {}
    BY <2>1, <2>2 DEF Barrier_t
  <2> QED BY <2>1, <2>3, <1>3 DEF m
<1> QED BY <1>2, <1>3

(* Leaving a barrier that nobody is in. *)
LEMMA DetachKeeps ==
  ASSUME TypeOK, Shared, Counted, NEW p \in Pid, NEW kind \in {"default", "named"},
         NEW h \in Handle, NEW next, Detach(p, kind, h, next), Quiet, p \notin Died,
         readers[h.slot] = {},
         kind = "default" => default_barrier[p] = h.slot,
         kind = "named" => h \in barrier_list[p]
  PROVE  /\ barriers' \in [Slot -> Barrier_t]
         /\ num_barriers' \in 0 .. max_barriers
         /\ default_barrier' \in [Pid -> Slot \cup {NoSlot}]
         /\ barrier_list' \in [Pid -> SUBSET Handle]
         /\ known' \in [Pid -> SUBSET Handle]
         /\ Shared' /\ Counted'
<1> DEFINE b == barriers[h.slot]
           D == ByDefault(h.slot)
           N == ByName(h.slot)
<1>0. h.slot \in Slot /\ b \in Barrier_t /\ NoSlot \notin Slot /\ b.participants \in Nat
  <2>1. h.slot \in Slot /\ b \in Barrier_t /\ NoSlot \notin Slot
    BY SlotFacts DEF Handle, TypeOK
  <2> HIDE DEF b
  <2> QED BY <2>1 DEF Barrier_t
<1>1. Died' = Died /\ (NobodyDied' <=> NobodyDied)
  BY QuietKeepsDied
<1>2. readers' = readers
  BY DEF Detach
<1>3. \A i \in Slot : /\ ByDefault(i) \in SUBSET Pid /\ ByName(i) \in SUBSET Pid /\ Died \in SUBSET Pid
                      /\ ByDefault(i)' \in SUBSET Pid /\ ByName(i)' \in SUBSET Pid
  BY DEF ByDefault, ByName, Died
<1>4. (kind = "default" => p \in D) /\ (kind = "named" => p \in N)
  BY DEF ByDefault, ByName, InList
<1>5. CASE b.initialized /\ b.participants > 0
  <2> DEFINE n == b.participants
  <2>1. /\ barriers' = [barriers EXCEPT ![h.slot] = detached(@)]
        /\ num_barriers' = IF barriers'[h.slot].initialized THEN num_barriers ELSE Compacted(barriers')
        /\ Forgotten(p, kind, h)
    BY <1>5 DEF Detach
  <2>2. \A i \in Slot : barriers'[i] = IF i = h.slot THEN detached(b) ELSE barriers[i]
    BY <2>1, <1>0 DEF TypeOK
  <2>3. /\ detached(b) \in Barrier_t
        /\ n = 1 => detached(b) = EmptyBarrier
        /\ n # 1 =>
             /\ detached(b).initialized = b.initialized /\ detached(b).name = b.name
             /\ detached(b).participants = n - 1 /\ detached(b).participants > 0
             /\ detached(b).size = n - 1
             /\ detached(b).count = b.count
             /\ detached(b).waiting = {}
    BY <1>0, <1>5, DetachedFields
  <2>4. barriers' \in [Slot -> Barrier_t]
    BY <2>1, <2>3, <1>0 DEF TypeOK
  <2>5. \A i \in Slot : barriers'[i].initialized =>
          /\ barriers[i].initialized /\ barriers'[i].name = barriers[i].name
          /\ i = h.slot => n # 1
    BY <2>2, <2>3, <1>0 DEF EmptyBarrier
  <2>6. /\ default_barrier' \in [Pid -> Slot \cup {NoSlot}]
        /\ barrier_list' \in [Pid -> SUBSET Handle]
        /\ known' \in [Pid -> SUBSET Handle]
        /\ \A i \in Slot : ByDefault(i)' = IF kind = "default" /\ i = h.slot
                                           THEN ByDefault(i) \ {p} ELSE ByDefault(i)
        /\ \A i \in Slot : kind # "named" \/ i # h.slot => ByName(i)' = ByName(i)
        /\ \A i \in Slot : ByName(i) \ {p} \subseteq ByName(i)'
        /\ OneHandle => OneHandle'
        /\ OneHandle /\ kind = "named" => ByName(h.slot)' = N \ {p}
    <3>1. /\ default_barrier' \in [Pid -> Slot \cup {NoSlot}]
          /\ barrier_list' \in [Pid -> SUBSET Handle]
          /\ known' \in [Pid -> SUBSET Handle]
          /\ \A i \in Slot : ByDefault(i)' = IF kind = "default" /\ i = h.slot
                                             THEN ByDefault(i) \ {p} ELSE ByDefault(i)
          /\ \A i \in Slot : kind # "named" \/ i # h.slot => ByName(i)' = ByName(i)
          /\ \A i \in Slot : ByName(i) \ {p} \subseteq ByName(i)'
      BY <2>1, ForgottenPlaces
    <3>2. /\ OneHandle => OneHandle'
          /\ OneHandle /\ h \in barrier_list[p] /\ kind = "named" =>
               ByName(h.slot)' = ByName(h.slot) \ {p}
      BY <2>1, ForgottenPlaces
    <3> QED BY <3>1, <3>2
  <2>7. num_barriers' \in 0 .. max_barriers /\ InitializedAreFound'
    <3>1. CASE barriers'[h.slot].initialized
      BY <3>1, <2>1, <2>5 DEF TypeOK, Shared, InitializedAreFound
    <3>2. CASE ~barriers'[h.slot].initialized
      <4>1. num_barriers' = Compacted(barriers')
        BY <3>2, <2>1
      <4>2. /\ Compacted(barriers') \in 0 .. max_barriers
            /\ \A i \in Slot : barriers'[i].initialized => i < Compacted(barriers')
        BY <2>5, CompactedCovers
      <4> QED BY <4>1, <4>2 DEF InitializedAreFound
    <3> QED BY <3>1, <3>2
  <2>8. NamesAreUnique'
    BY <2>5 DEF Shared, NamesAreUnique
  <2>9. ParticipantsBounded'
    <3> SUFFICES ASSUME NEW i \in Slot, barriers'[i].initialized
                 PROVE  /\ barriers'[i].participants > 0
                        /\ barriers'[i].participants <= Cardinality(ByDefault(i)' \cup Died')
                                                          + Cardinality(ByName(i)' \cup Died')
      BY DEF ParticipantsBounded
    <3>1. CASE i # h.slot
      BY <3>1, <2>2, <2>6, <1>1 DEF Shared, ParticipantsBounded
    <3>2. CASE i = h.slot
      <4> DEFINE A == D \cup Died
                 B == N \cup Died
                 A2 == ByDefault(i)' \cup Died'
                 B2 == ByName(i)' \cup Died'
      <4>1. n <= Cardinality(A) + Cardinality(B)
        BY <1>0, <1>5 DEF Shared, ParticipantsBounded
      <4>2. barriers'[i].participants = n - 1 /\ barriers'[i].participants > 0
        BY <3>2, <2>2, <2>3, <2>5
      <4>3. A \in SUBSET Pid /\ B \in SUBSET Pid /\ A2 \in SUBSET Pid /\ B2 \in SUBSET Pid
        BY <1>0, <1>1, <1>3
      <4>4. Cardinality(A) \in Nat /\ Cardinality(B) \in Nat /\ Cardinality(A2) \in Nat
            /\ Cardinality(B2) \in Nat
        BY <4>3, PidSets
      <4>5. kind = "default" => Cardinality(A2) = Cardinality(A) - 1 /\ Cardinality(B2) = Cardinality(B)
        <5> SUFFICES ASSUME kind = "default"
                     PROVE  Cardinality(A2) = Cardinality(A) - 1 /\ Cardinality(B2) = Cardinality(B)
          OBVIOUS
        <5>1. A2 = A \ {p} /\ B2 = B /\ p \in A
          BY <3>2, <2>6, <1>0, <1>1, <1>4
        <5> HIDE DEF A, B, A2, B2
        <5>2. Cardinality(A \ {p}) = Cardinality(A) - 1
          BY <5>1, <4>3, PidSetChanges
        <5> QED BY <5>1, <5>2
      <4>6. kind = "named" => Cardinality(A2) = Cardinality(A) /\ Cardinality(B2) >= Cardinality(B) - 1
        <5> SUFFICES ASSUME kind = "named"
                     PROVE  Cardinality(A2) = Cardinality(A) /\ Cardinality(B2) >= Cardinality(B) - 1
          OBVIOUS
        <5>1. A2 = A /\ B \ {p} \in SUBSET B2 /\ p \in B
          BY <3>2, <2>6, <1>0, <1>1, <1>4
        <5>2. Cardinality(B \ {p}) = Cardinality(B) - 1
          BY <5>1, <4>3, PidSetChanges
        <5>3. Cardinality(B \ {p}) <= Cardinality(B2)
          BY <5>1, <4>3, PidSubsets
        <5> QED BY <5>1, <5>2, <5>3, <4>4
      <4> HIDE DEF A, B, A2, B2, n
      <4>7. n - 1 <= Cardinality(A2) + Cardinality(B2)
        <5>1. n \in Nat
          BY <1>0 DEF n
        <5>2. CASE kind = "default"
          BY <5>1, <5>2, <4>1, <4>4, <4>5
        <5>3. CASE kind = "named"
          BY <5>1, <5>3, <4>1, <4>4, <4>6
        <5> QED BY <5>2, <5>3
      <4> QED BY <4>2, <4>7 DEF A2, B2
    <3> QED BY <3>1, <3>2
  <2>10. Counted'
    <3> SUFFICES ASSUME NobodyDied PROVE (ParticipantsAreMembers /\ OneHandle /\ ReadersAreInside)'
      BY <1>1 DEF Counted
    <3>1. ParticipantsAreMembers /\ OneHandle /\ ReadersAreInside
      BY DEF Counted
    <3>2. \A i \in Slot :
            /\ barriers[i].participants = Cardinality(ByDefault(i)) + Cardinality(ByName(i))
            /\ barriers[i].size = barriers[i].participants
            /\ barriers[i].initialized <=> barriers[i].participants > 0
      BY <3>1 DEF ParticipantsAreMembers, ByDefault, ByName
    <3>3. ASSUME NEW i \in Slot
          PROVE  /\ barriers'[i].participants = Cardinality(ByDefault(i)') + Cardinality(ByName(i)')
                 /\ barriers'[i].size = barriers'[i].participants
                 /\ barriers'[i].initialized <=> barriers'[i].participants > 0
      <4>1. CASE i # h.slot
        BY <4>1, <3>2, <2>2, <2>6
      <4>2. CASE i = h.slot
        <5> DEFINE x == Cardinality(D)
                   y == Cardinality(N)
                   x2 == Cardinality(ByDefault(i)')
                   y2 == Cardinality(ByName(i)')
        <5>1. x \in Nat /\ y \in Nat
          BY <1>0, <1>3, PidSets
        <5>2. kind = "default" => x2 = x - 1 /\ y2 = y
          BY <4>2, <2>6, <1>0, <1>3, <1>4, PidSetChanges
        <5>3. kind = "named" => x2 = x /\ y2 = y - 1
          BY <4>2, <3>1, <2>6, <1>0, <1>3, <1>4, PidSetChanges
        <5>4. n = x + y
          BY <3>2, <1>0
        <5> HIDE DEF x, y, x2, y2, n
        <5>5. x2 + y2 = n - 1
          BY <5>1, <5>2, <5>3, <5>4
        <5>6. barriers'[i].participants = n - 1 /\ barriers'[i].size = n - 1
              /\ (barriers'[i].initialized <=> n # 1)
          <6>1. barriers'[i] = detached(b)
            BY <4>2, <2>2
          <6>2. CASE n = 1
            BY <6>1, <6>2, <2>3 DEF EmptyBarrier, n
          <6>3. CASE n # 1
            BY <6>1, <6>3, <2>3, <1>5 DEF n
          <6> QED BY <6>2, <6>3
        <5>7. n \in Nat /\ n > 0
          BY <1>0, <1>5 DEF n
        <5>8. n # 1 <=> n - 1 > 0
          BY <5>7
        <5> QED BY <5>5, <5>6, <5>8 DEF x2, y2
      <4> QED BY <4>1, <4>2
    <3>4. ParticipantsAreMembers'
      BY <3>3 DEF ParticipantsAreMembers, ByDefault, ByName
    <3>5. OneHandle'
      BY <3>1, <2>6
    <3>6. ReadersAreInside'
      <4> SUFFICES ASSUME NEW i \in Slot
                   PROVE  /\ readers'[i] = {q \in Pid : call'[q].slot = i}
                          /\ readers'[i] \subseteq ByDefault(i)' \cup ByName(i)'
                          /\ barriers'[i].count = Cardinality(readers'[i])
                          /\ barriers'[i].waiting = {q \in Pid : pc'[q] = "wait" /\ call'[q].slot = i}
        BY DEF ReadersAreInside
      <4>1. /\ readers[i] = {q \in Pid : call[q].slot = i}
            /\ readers[i] \subseteq ByDefault(i) \cup ByName(i)
            /\ barriers[i].count = Cardinality(readers[i])
            /\ barriers[i].waiting = {q \in Pid : pc[q] = "wait" /\ call[q].slot = i}
        BY <3>1 DEF ReadersAreInside
      <4>2. {q \in Pid : pc'[q] = "wait" /\ call'[q].slot = i} = {q \in Pid : pc[q] = "wait" /\ call[q].slot = i}
            /\ {q \in Pid : call'[q].slot = i} = {q \in Pid : call[q].slot = i}
        BY DEF Quiet
      <4>3. CASE i # h.slot
        BY <4>1, <4>2, <4>3, <2>2, <2>6, <1>2
      <4>4. CASE i = h.slot
        <5>1. readers[i] = {} /\ barriers[i].waiting = {} /\ barriers[i].count = 0
          BY <4>1, <4>4, FS_EmptySet
        <5>2. barriers'[i].waiting = {} /\ barriers'[i].count = 0
          BY <5>1, <4>4, <2>2, <2>3 DEF EmptyBarrier
        <5> QED BY <5>1, <5>2, <4>1, <4>2, <1>2
      <4> QED BY <4>3, <4>4
    <3> QED BY <3>4, <3>5, <3>6
  <2> QED BY <2>4, <2>6, <2>7, <2>8, <2>9, <2>10 DEF Shared
<1>6. CASE ~(b.initialized /\ b.participants > 0)
  <2>1. barriers' = barriers /\ num_barriers' = num_barriers
        /\ (Forgotten(p, kind, h) \/ UNCHANGED local)
    BY <1>6 DEF Detach
  <2>2. ~NobodyDied
    <3> SUFFICES ASSUME NobodyDied PROVE FALSE
      OBVIOUS
    <3>1. b.participants = Cardinality(D) + Cardinality(N) /\ (b.initialized <=> b.participants > 0)
      BY <1>0 DEF Counted, ParticipantsAreMembers, ByDefault, ByName
    <3>2. Cardinality(D) \in Nat /\ Cardinality(N) \in Nat
      BY <1>0, <1>3, PidSets
    <3>3. Cardinality(D) # 0 \/ Cardinality(N) # 0
      BY <1>0, <1>3, <1>4, PidSetEmpty
    <3> QED BY <3>1, <3>2, <3>3, <1>6
  <2>3. ~b.initialized
    BY <1>0, <1>6 DEF Shared, ParticipantsBounded
  <2>4. /\ default_barrier' \in [Pid -> Slot \cup {NoSlot}]
        /\ barrier_list' \in [Pid -> SUBSET Handle]
        /\ known' \in [Pid -> SUBSET Handle]
        /\ \A i \in Slot : i # h.slot => ByDefault(i)' = ByDefault(i) /\ ByName(i)' = ByName(i)
    <3>1. CASE Forgotten(p, kind, h)
      BY <3>1, ForgottenPlaces
    <3>2. CASE UNCHANGED local
      BY <3>2 DEF local, TypeOK, ByDefault, ByName, InList
    <3> QED BY <2>1, <3>1, <3>2
  <2>5. NamesAreUnique' /\ InitializedAreFound'
    BY <2>1 DEF Shared, NamesAreUnique, InitializedAreFound
  <2>6. ParticipantsBounded'
    BY <2>1, <2>3, <2>4, <1>1 DEF Shared, ParticipantsBounded
  <2> QED BY <2>1, <2>2, <2>4, <2>5, <2>6, <1>1 DEF Shared, Counted, TypeOK
<1> QED BY <1>5, <1>6

-----------------------------------------------------------------------------
(* Where the processes are, and the lock of the shared memory *)

(* A holder of the lock is not taken for none. *)
LEMMA HolderIsSomebody == NoLock \notin LockHolder
<1>1. DOMAIN NoLock = {"pid"}
  BY DEF NoLock
<1>2. \A l \in LockHolder : "op" \in DOMAIN l
  BY DEF LockHolder
<1> QED BY <1>1, <1>2

(* A step of p changes what no other process has joined. *)
OthersKept(p) ==
  \A q \in Pid \ {p} : default_barrier'[q] = default_barrier[q] /\ barrier_list'[q] = barrier_list[q]

(* That is so of joining, leaving, and neither. *)
LEMMA OnlyOwnPlaces ==
  ASSUME TypeOK, NEW p \in Pid, NEW kind, NEW h,
         Noted(p, kind, h) \/ Forgotten(p, kind, h) \/ UNCHANGED local
  PROVE  OthersKept(p)
<1>1. CASE Noted(p, kind, h)
  BY <1>1 DEF Noted, OthersKept, TypeOK
<1>2. CASE Forgotten(p, kind, h)
  BY <1>2 DEF Forgotten, OthersKept, TypeOK
<1>3. CASE UNCHANGED local
  BY <1>3 DEF local, OthersKept
<1> QED BY <1>1, <1>2, <1>3

(* A process moves on outside the barriers. *)
LEMMA MoveKeeps ==
  ASSUME TypeOK, Places, NEW p \in Pid, NEW x \in {"ready", "finish", "locking"},
         pc[p] \in {"open", "ready", "finish", "locking"}, pc' = [pc EXCEPT ![p] = x],
         call' = call, initialized' = initialized, OthersKept(p)
  PROVE  /\ pc' \in [Pid -> PC] /\ Quiet /\ p \notin Died /\ initialized
         /\ \A q \in Pid : pc'[q] = IF q = p THEN x ELSE pc[q]
         /\ CallsMatch' /\ NewcomersJoinedNothing' /\ UsersInitialized'
<1>1. \A q \in Pid : pc'[q] = IF q = p THEN x ELSE pc[q]
  BY DEF TypeOK
<1>2. pc' \in [Pid -> PC]
  BY DEF TypeOK, PC
<1>3. Quiet /\ p \notin Died
  BY <1>1 DEF Quiet, Died
<1>4. initialized
  BY DEF Places, UsersInitialized
<1>5. CallsMatch'
  BY <1>1 DEF Places, CallsMatch, Inside
<1>6. NewcomersJoinedNothing'
  BY <1>1 DEF Places, NewcomersJoinedNothing, OthersKept
<1> QED BY <1>1, <1>2, <1>3, <1>4, <1>5, <1>6 DEF UsersInitialized

(* The lock of the shared memory is left free. *)
LEMMA NoHolderLeft ==
  ASSUME TypeOK, HolderWaits, NEW p \in Pid, lock = NoLock \/ lock.pid = p, lock' = NoLock,
         pc'[p] # "locking", \A q \in Pid : q # p /\ pc'[q] = "locking" => pc[q] = "locking"
  PROVE  HolderWaits'
BY DEF HolderWaits

(* What the holder of the lock relies on is not changed by others. *)
LEMMA HolderKept ==
  ASSUME TypeOK, HolderWaits, NEW p \in Pid, lock' = lock, OthersKept(p),
         pc[p] # "locking", pc'[p] # "locking",
         \A q \in Pid : q # p => (pc'[q] = "locking" <=> pc[q] = "locking"),
         \A i \in Slot : barriers[i].initialized => barriers'[i].initialized
  PROVE  HolderWaits'
<1>1. \A q \in Pid : pc'[q] = "locking" => lock' # NoLock /\ lock'.pid = q
  BY DEF HolderWaits
<1>2. SUFFICES ASSUME lock # NoLock
               PROVE /\ pc'[lock.pid] = "locking"
                     /\ lock.op = "join" =>
                          /\ barriers'[lock.handle.slot].initialized
                          /\ lock.kind = "default" => default_barrier'[lock.pid] = NoSlot
                          /\ lock.kind = "named" => ~InList(lock.pid, lock.handle.slot)'
                     /\ lock.op = "detach" =>
                          /\ lock.kind = "default" => default_barrier'[lock.pid] = lock.handle.slot
                          /\ lock.kind = "named" => lock.handle \in barrier_list'[lock.pid]
  BY <1>1 DEF HolderWaits
<1>3. lock.pid \in Pid /\ lock.handle.slot \in Slot
  BY <1>2 DEF TypeOK, LockHolder, Handle
<1>4. lock.pid # p /\ pc[lock.pid] = "locking"
  BY <1>2 DEF HolderWaits
<1>5. default_barrier'[lock.pid] = default_barrier[lock.pid] /\ barrier_list'[lock.pid] = barrier_list[lock.pid]
  BY <1>3, <1>4 DEF OthersKept
<1>6. InList(lock.pid, lock.handle.slot)' <=> InList(lock.pid, lock.handle.slot)
  BY <1>5 DEF InList
<1> QED BY <1>2, <1>3, <1>4, <1>5, <1>6 DEF HolderWaits

(* p begins to wait for a slot. *)
LEMMA HolderBegins ==
  ASSUME TypeOK, Places, NEW p \in Pid, NEW op \in {"join", "detach"},
         NEW kind \in {"default", "named"}, NEW h \in Handle, NEW next \in {"ready", "finish"},
         lock = NoLock, pc[p] \in {"open", "ready", "finish"}, WaitForSlot(p, op, kind, h, next),
         op = "join" => /\ barriers[h.slot].initialized
                        /\ kind = "default" => default_barrier[p] = NoSlot
                        /\ kind = "named" => ~InList(p, h.slot),
         op = "detach" => /\ kind = "default" => default_barrier[p] = h.slot
                          /\ kind = "named" => h \in barrier_list[p]
  PROVE  lock' \in LockHolder \cup {NoLock} /\ HolderWaits'
<1>1. lock' = [pid |-> p, op |-> op, kind |-> kind, handle |-> h, next |-> next]
      /\ pc' = [pc EXCEPT ![p] = "locking"] /\ barriers' = barriers
      /\ default_barrier' = default_barrier /\ barrier_list' = barrier_list
  BY DEF WaitForSlot, local
<1>2. lock' \in LockHolder
  BY <1>1 DEF LockHolder
<1>3. lock' # NoLock
  BY <1>2, HolderIsSomebody
<1>4. lock'.pid = p /\ lock'.op = op /\ lock'.kind = kind /\ lock'.handle = h
  BY <1>1
<1>5. \A q \in Pid : pc'[q] = "locking" => q = p
  BY <1>1 DEF TypeOK, Places, HolderWaits
<1>6. pc'[p] = "locking"
  BY <1>1 DEF TypeOK
<1>7. InList(p, h.slot)' <=> InList(p, h.slot)
  BY <1>1 DEF InList
<1> QED BY <1>1, <1>2, <1>3, <1>4, <1>5, <1>6, <1>7 DEF HolderWaits

-----------------------------------------------------------------------------
(* Registering, attaching and detaching *)

(* A step that leaves the array, its readers and the places alone. *)
LEMMA ArrayKept ==
  ASSUME TypeOK, Shared, Counted, Quiet,
         UNCHANGED <<barriers, readers, num_barriers, default_barrier, barrier_list>>
  PROVE  Shared' /\ Counted'
<1>1. Died' = Died /\ (NobodyDied' <=> NobodyDied)
  BY QuietKeepsDied
<1>2. num_barriers' = num_barriers /\ barriers' = barriers /\ readers' = readers
      /\ default_barrier' = default_barrier /\ barrier_list' = barrier_list
  OBVIOUS
<1>3. \A i : ByDefault(i)' = ByDefault(i) /\ ByName(i)' = ByName(i)
  BY <1>2 DEF ByDefault, ByName, InList
<1>4. Shared'
  BY <1>1, <1>2, <1>3 DEF Shared, NamesAreUnique, InitializedAreFound, ParticipantsBounded
<1>5. ParticipantsAreMembers => ParticipantsAreMembers'
  BY <1>1, <1>2 DEF ParticipantsAreMembers, InList
<1>6. OneHandle => OneHandle'
  BY <1>2 DEF OneHandle
<1>7. \A i \in Slot : {q \in Pid : pc'[q] = "wait" /\ call'[q].slot = i} = {q \in Pid : pc[q] = "wait" /\ call[q].slot = i}
                      /\ {q \in Pid : call'[q].slot = i} = {q \in Pid : call[q].slot = i}
  BY DEF Quiet
<1>8. ReadersAreInside => ReadersAreInside'
  BY <1>2, <1>3, <1>7 DEF ReadersAreInside
<1> QED BY <1>1, <1>4, <1>5, <1>6, <1>8 DEF Counted

(* shmem_barrier__register *)
LEMMA RegisterKeeps ==
  ASSUME Inv, NEW p \in Pid, NEW kind \in {"default", "named"}, NEW name \in Name,
         pc[p] \in {"open", "ready"}, Register(p, kind, name),
         kind = "default" => default_barrier[p] = NoSlot,
         kind = "named" => ~(find(name) # NoSlot /\ InList(p, find(name)))
  PROVE  Inv'
<1> DEFINE h == [slot |-> Spot(name), name |-> name]
<1>0. TypeOK /\ Places /\ Shared /\ Counted
  BY DEF Inv
<1>1. lock = NoLock /\ h.slot # NoSlot /\ initialized' = initialized /\ call' = call
  BY DEF Register
<1>2. /\ h.slot \in Slot
      /\ barriers[h.slot].initialized => barriers[h.slot].name = name /\ find(name) = h.slot
      /\ ~barriers[h.slot].initialized =>
           /\ \A i \in Slot : barriers[i].initialized => barriers[i].name # name
           /\ h.slot <= num_barriers
  BY <1>0, <1>1, SpotFacts
<1>3. h \in Handle /\ h.name = name
  BY <1>2 DEF Handle
<1>4. \/ /\ ~barriers[h.slot].initialized
         /\ barriers' = [barriers EXCEPT ![h.slot] = created(name)]
         /\ readers' = [readers EXCEPT ![h.slot] = {}]
         /\ num_barriers' = IF h.slot = num_barriers THEN num_barriers + 1 ELSE num_barriers
         /\ Noted(p, kind, h)
         /\ pc' = [pc EXCEPT ![p] = "ready"]
         /\ lock' = lock
      \/ /\ barriers[h.slot].initialized /\ readers[h.slot] = {}
         /\ Join(p, kind, h) /\ pc' = [pc EXCEPT ![p] = "ready"] /\ lock' = lock
      \/ /\ barriers[h.slot].initialized
         /\ WaitForSlot(p, "join", kind, h, "ready")
  BY DEF Register
<1>5. barriers[h.slot].initialized => (kind = "named" => ~InList(p, h.slot))
  BY <1>1, <1>2
<1> HIDE DEF h
<1>6. CASE /\ ~barriers[h.slot].initialized
           /\ barriers' = [barriers EXCEPT ![h.slot] = created(name)]
           /\ readers' = [readers EXCEPT ![h.slot] = {}]
           /\ num_barriers' = IF h.slot = num_barriers THEN num_barriers + 1 ELSE num_barriers
           /\ Noted(p, kind, h)
           /\ pc' = [pc EXCEPT ![p] = "ready"]
           /\ lock' = lock
  <2>1. OthersKept(p)
    BY <1>0, <1>6, OnlyOwnPlaces
  <2>2. /\ pc' \in [Pid -> PC] /\ Quiet /\ p \notin Died /\ initialized
        /\ \A q \in Pid : pc'[q] = IF q = p THEN "ready" ELSE pc[q]
        /\ CallsMatch' /\ NewcomersJoinedNothing' /\ UsersInitialized'
    BY <1>0, <1>1, <1>6, <2>1, MoveKeeps
  <2>3. HolderWaits'
    BY <1>0, <1>1, <1>6, <2>2, NoHolderLeft DEF Places
  <2>4. /\ default_barrier' \in [Pid -> Slot \cup {NoSlot}]
        /\ barrier_list' \in [Pid -> SUBSET Handle]
        /\ known' \in [Pid -> SUBSET Handle]
    BY <1>0, <1>3, <1>6, NotedPlaces
  <2>5. /\ barriers' \in [Slot -> Barrier_t] /\ readers' \in [Slot -> SUBSET Pid]
        /\ num_barriers' \in 0 .. max_barriers /\ Shared' /\ Counted'
    <3>1. Create(p, kind, h)
      BY <1>3, <1>6 DEF Create
    <3>2. h.slot <= num_barriers /\ ~barriers[h.slot].initialized
          /\ \A i \in Slot : barriers[i].initialized => barriers[i].name # h.name
      BY <1>2, <1>3, <1>6
    <3> QED BY <1>0, <1>3, <2>2, <3>1, <3>2, CreateKeeps
  <2>6. TypeOK'
    BY <1>0, <1>1, <1>6, <2>2, <2>4, <2>5 DEF TypeOK
  <2> QED BY <2>2, <2>3, <2>5, <2>6 DEF Inv, Places
<1>7. CASE /\ barriers[h.slot].initialized /\ readers[h.slot] = {}
           /\ Join(p, kind, h) /\ pc' = [pc EXCEPT ![p] = "ready"] /\ lock' = lock
  <2>0. Noted(p, kind, h) /\ num_barriers' = num_barriers /\ readers' = readers
    BY <1>7 DEF Join
  <2>1. OthersKept(p)
    BY <1>0, <2>0, OnlyOwnPlaces
  <2>2. /\ pc' \in [Pid -> PC] /\ Quiet /\ p \notin Died /\ initialized
        /\ \A q \in Pid : pc'[q] = IF q = p THEN "ready" ELSE pc[q]
        /\ CallsMatch' /\ NewcomersJoinedNothing' /\ UsersInitialized'
    BY <1>0, <1>1, <1>7, <2>1, MoveKeeps
  <2>3. HolderWaits'
    BY <1>0, <1>1, <1>7, <2>2, NoHolderLeft DEF Places
  <2>4. /\ default_barrier' \in [Pid -> Slot \cup {NoSlot}]
        /\ barrier_list' \in [Pid -> SUBSET Handle]
        /\ known' \in [Pid -> SUBSET Handle]
    BY <1>0, <1>3, <2>0, NotedPlaces
  <2>5. barriers' \in [Slot -> Barrier_t] /\ Shared' /\ Counted'
    BY <1>0, <1>3, <1>5, <1>7, <2>2, JoinKeeps
  <2>6. TypeOK'
    BY <1>0, <1>1, <1>7, <2>0, <2>2, <2>4, <2>5 DEF TypeOK
  <2> QED BY <2>2, <2>3, <2>5, <2>6 DEF Inv, Places
<1>8. CASE /\ barriers[h.slot].initialized
           /\ WaitForSlot(p, "join", kind, h, "ready")
  <2>0. pc' = [pc EXCEPT ![p] = "locking"] /\ UNCHANGED <<num_barriers, barriers, readers, local>>
    BY <1>8 DEF WaitForSlot
  <2>1. OthersKept(p)
    BY <1>0, <2>0, OnlyOwnPlaces
  <2>2. /\ pc' \in [Pid -> PC] /\ Quiet /\ p \notin Died /\ initialized
        /\ CallsMatch' /\ NewcomersJoinedNothing' /\ UsersInitialized'
    BY <1>0, <1>1, <2>0, <2>1, MoveKeeps
  <2>3. lock' \in LockHolder \cup {NoLock} /\ HolderWaits'
    BY <1>0, <1>1, <1>3, <1>5, <1>8, HolderBegins
  <2>4. Shared' /\ Counted'
    BY <1>0, <2>0, <2>2, ArrayKept DEF local
  <2>5. TypeOK'
    BY <1>0, <1>1, <2>0, <2>2, <2>3 DEF TypeOK, local
  <2> QED BY <2>2, <2>3, <2>4, <2>5 DEF Inv, Places
<1> QED BY <1>4, <1>6, <1>7, <1>8

(* shmem_barrier__detach *)
LEMMA LeaveKeeps ==
  ASSUME Inv, NEW p \in Pid, NEW kind \in {"default", "named"}, NEW h \in Handle,
         NEW next \in {"ready", "finish"}, pc[p] \in {"ready", "finish"}, Leave(p, kind, h, next),
         kind = "default" => default_barrier[p] = h.slot,
         kind = "named" => h \in barrier_list[p]
  PROVE  Inv'
<1>0. TypeOK /\ Places /\ Shared /\ Counted
  BY DEF Inv
<1>1. lock = NoLock /\ initialized' = initialized /\ call' = call
  BY DEF Leave
<1>2. CASE readers[h.slot] = {}
  <2>0. Detach(p, kind, h, next) /\ pc' = [pc EXCEPT ![p] = next] /\ lock' = lock /\ readers' = readers
    BY <1>2 DEF Leave, Detach
  <2>1. OthersKept(p)
    <3>1. Forgotten(p, kind, h) \/ UNCHANGED local
      BY <2>0 DEF Detach
    <3> QED BY <1>0, <3>1, OnlyOwnPlaces
  <2>2. /\ pc' \in [Pid -> PC] /\ Quiet /\ p \notin Died /\ initialized
        /\ \A q \in Pid : pc'[q] = IF q = p THEN next ELSE pc[q]
        /\ CallsMatch' /\ NewcomersJoinedNothing' /\ UsersInitialized'
    BY <1>0, <1>1, <2>0, <2>1, MoveKeeps
  <2>3. HolderWaits'
    BY <1>0, <1>1, <2>0, <2>2, NoHolderLeft DEF Places
  <2>4. /\ barriers' \in [Slot -> Barrier_t]
        /\ num_barriers' \in 0 .. max_barriers
        /\ default_barrier' \in [Pid -> Slot \cup {NoSlot}]
        /\ barrier_list' \in [Pid -> SUBSET Handle]
        /\ known' \in [Pid -> SUBSET Handle]
        /\ Shared' /\ Counted'
    BY <1>0, <1>2, <2>0, <2>2, DetachKeeps
  <2>5. TypeOK'
    BY <1>0, <1>1, <2>0, <2>2, <2>4 DEF TypeOK
  <2> QED BY <2>2, <2>3, <2>4, <2>5 DEF Inv, Places
<1>3. CASE readers[h.slot] # {}
  <2>0. /\ WaitForSlot(p, "detach", kind, h, next) /\ pc' = [pc EXCEPT ![p] = "locking"]
        /\ UNCHANGED <<num_barriers, barriers, readers, local>>
    BY <1>3 DEF Leave, WaitForSlot
  <2>1. OthersKept(p)
    BY <1>0, <2>0, OnlyOwnPlaces
  <2>2. /\ pc' \in [Pid -> PC] /\ Quiet /\ p \notin Died /\ initialized
        /\ CallsMatch' /\ NewcomersJoinedNothing' /\ UsersInitialized'
    BY <1>0, <1>1, <2>0, <2>1, MoveKeeps
  <2>3. lock' \in LockHolder \cup {NoLock} /\ HolderWaits'
    BY <1>0, <1>1, <2>0, HolderBegins
  <2>4. Shared' /\ Counted'
    BY <1>0, <2>0, <2>2, ArrayKept DEF local
  <2>5. TypeOK'
    BY <1>0, <1>1, <2>0, <2>2, <2>3 DEF TypeOK, local
  <2> QED BY <2>2, <2>3, <2>4, <2>5 DEF Inv, Places
<1> QED BY <1>2, <1>3

(* The lock of the slot is granted to the one that waits for it. *)
LEMMA GrantedKeeps ==
  ASSUME Inv, NEW p \in Pid, Granted(p)
  PROVE  Inv'
<1> DEFINE h == lock.handle
           kind == lock.kind
           next == lock.next
<1>0. TypeOK /\ Places /\ Shared /\ Counted
  BY DEF Inv
<1>1. /\ pc[p] = "locking" /\ readers[h.slot] = {} /\ lock' = NoLock
      /\ pc' = [pc EXCEPT ![p] = next] /\ initialized' = initialized /\ call' = call
  BY DEF Granted
<1>2. lock # NoLock /\ lock.pid = p
  BY <1>0, <1>1 DEF Places, HolderWaits
<1>3. lock \in LockHolder
  BY <1>0, <1>2 DEF TypeOK
<1>4. h \in Handle /\ kind \in {"default", "named"} /\ next \in {"ready", "finish"}
      /\ lock.op \in {"join", "detach"}
  BY <1>3 DEF LockHolder
<1>5. \/ Join(p, kind, h) /\ lock.op = "join"
      \/ Detach(p, kind, h, next) /\ lock.op = "detach"
  BY <1>4 DEF Granted
<1>6. /\ lock.op = "join" =>
            /\ barriers[h.slot].initialized
            /\ kind = "default" => default_barrier[p] = NoSlot
            /\ kind = "named" => ~InList(p, h.slot)
      /\ lock.op = "detach" =>
            /\ kind = "default" => default_barrier[p] = h.slot
            /\ kind = "named" => h \in barrier_list[p]
  BY <1>0, <1>2 DEF Places, HolderWaits
<1> HIDE DEF h, kind, next
<1>7. OthersKept(p)
  <2>1. Noted(p, kind, h) \/ Forgotten(p, kind, h) \/ UNCHANGED local
    BY <1>5 DEF Join, Detach
  <2> QED BY <1>0, <2>1, OnlyOwnPlaces
<1>8. /\ pc' \in [Pid -> PC] /\ Quiet /\ p \notin Died /\ initialized
      /\ \A q \in Pid : pc'[q] = IF q = p THEN next ELSE pc[q]
      /\ CallsMatch' /\ NewcomersJoinedNothing' /\ UsersInitialized'
  BY <1>0, <1>1, <1>4, <1>7, MoveKeeps
<1>9. HolderWaits'
  BY <1>0, <1>1, <1>2, <1>4, <1>8, NoHolderLeft DEF Places
<1>10. /\ barriers' \in [Slot -> Barrier_t]
       /\ num_barriers' \in 0 .. max_barriers
       /\ readers' = readers
       /\ default_barrier' \in [Pid -> Slot \cup {NoSlot}]
       /\ barrier_list' \in [Pid -> SUBSET Handle]
       /\ known' \in [Pid -> SUBSET Handle]
       /\ Shared' /\ Counted'
  <2>1. CASE Join(p, kind, h) /\ lock.op = "join"
    <3>1. Noted(p, kind, h) /\ num_barriers' = num_barriers /\ readers' = readers
      BY <2>1 DEF Join
    <3>2. /\ default_barrier' \in [Pid -> Slot \cup {NoSlot}]
          /\ barrier_list' \in [Pid -> SUBSET Handle]
          /\ known' \in [Pid -> SUBSET Handle]
      BY <1>0, <1>4, <1>6, <2>1, <3>1, NotedPlaces
    <3>3. barriers' \in [Slot -> Barrier_t] /\ Shared' /\ Counted'
      BY <1>0, <1>1, <1>4, <1>6, <1>8, <2>1, JoinKeeps
    <3> QED BY <1>0, <3>1, <3>2, <3>3 DEF TypeOK
  <2>2. CASE Detach(p, kind, h, next) /\ lock.op = "detach"
    <3>1. readers' = readers
      BY <2>2 DEF Detach
    <3> QED BY <1>0, <1>1, <1>4, <1>6, <1>8, <2>2, <3>1, DetachKeeps
  <2> QED BY <1>5, <2>1, <2>2
<1>11. TypeOK'
  BY <1>0, <1>1, <1>8, <1>10 DEF TypeOK
<1> QED BY <1>8, <1>9, <1>10, <1>11 DEF Inv, Places

-----------------------------------------------------------------------------
(* Coming and going *)

(* shmem_finalize, for a process that has closed DLB or gives up. *)
LEMMA FinalizeKeeps ==
  ASSUME Inv, NEW p \in Pid, NEW x \in {"out", "gone"}, shmem_finalize(p),
         pc[p] \in {"finish", "locking"}, pc' = [pc EXCEPT ![p] = x],
         lock = NoLock \/ lock.pid = p, lock' = NoLock, call' = call,
         x = "out" => default_barrier[p] = NoSlot /\ barrier_list[p] = {}
  PROVE  Inv'
<1>0. TypeOK /\ Places /\ Shared /\ Counted
  BY DEF Inv
<1>1. \A q \in Pid : pc'[q] = IF q = p THEN x ELSE pc[q]
  BY <1>0 DEF TypeOK
<1>2. pc' \in [Pid -> PC] /\ lock' \in LockHolder \cup {NoLock}
  BY <1>0 DEF TypeOK, PC
<1>3. Quiet
  BY <1>1 DEF Quiet
<1>4. CallsMatch'
  BY <1>0, <1>1 DEF Places, CallsMatch, Inside
<1>5. HolderWaits'
  BY <1>0, <1>1, NoHolderLeft DEF Places
<1>6. known' \in [Pid -> SUBSET Handle]
  BY <1>0 DEF shmem_finalize, TypeOK
<1>7. CASE \A q \in Pid \ {p} : pc[q] \in {"out", "cleaned", "gone"}
  <2>1. /\ barriers' = [i \in Slot |-> EmptyBarrier]
        /\ readers' = [i \in Slot |-> {}]
        /\ num_barriers' = 0
        /\ initialized' = FALSE
        /\ default_barrier' = [q \in Pid |-> NoSlot]
        /\ barrier_list' = [q \in Pid |-> {}]
    BY <1>7 DEF shmem_finalize
  <2>2. \A q \in Pid : pc'[q] \in {"out", "cleaned", "gone"}
    BY <1>1, <1>7
  <2>3. TypeOK'
    <3>1. barriers' \in [Slot -> Barrier_t] /\ readers' \in [Slot -> SUBSET Pid]
          /\ num_barriers' \in 0 .. max_barriers
      BY <2>1, EmptyBarrierType, BarrierAssumption
    <3>2. default_barrier' \in [Pid -> Slot \cup {NoSlot}] /\ barrier_list' \in [Pid -> SUBSET Handle]
      BY <2>1
    <3> QED BY <1>0, <1>2, <1>6, <2>1, <3>1, <3>2 DEF TypeOK
  <2>4. NewcomersJoinedNothing' /\ UsersInitialized'
    BY <2>1, <2>2 DEF NewcomersJoinedNothing, UsersInitialized
  <2>5. \A i \in Slot : ~barriers'[i].initialized /\ barriers'[i].participants = 0
                        /\ barriers'[i].size = 0 /\ barriers'[i].count = 0 /\ barriers'[i].waiting = {}
                        /\ readers'[i] = {}
    BY <2>1 DEF EmptyBarrier
  <2>6. Shared'
    BY <2>5 DEF Shared, NamesAreUnique, InitializedAreFound, ParticipantsBounded
  <2>7. \A i \in Slot : {q \in Pid : default_barrier'[q] = i} = {} /\ {q \in Pid : InList(q, i)'} = {}
    BY <2>1, SlotFacts DEF InList
  <2>8. Cardinality({}) = 0
    BY FS_EmptySet
  <2>9. ParticipantsAreMembers'
    <3>1. ASSUME NEW i \in Slot
          PROVE  /\ barriers'[i].participants = Cardinality({q \in Pid : default_barrier'[q] = i})
                                                  + Cardinality({q \in Pid : InList(q, i)'})
                 /\ barriers'[i].size = barriers'[i].participants
                 /\ barriers'[i].initialized <=> barriers'[i].participants > 0
      <4>1. Cardinality({q \in Pid : default_barrier'[q] = i}) = 0
            /\ Cardinality({q \in Pid : InList(q, i)'}) = 0
        BY <2>7, <2>8
      <4> QED BY <4>1, <2>5
    <3> QED BY <3>1 DEF ParticipantsAreMembers
  <2>10. OneHandle'
    BY <2>1 DEF OneHandle
  <2>11. ReadersAreInside'
    <3>1. \A q \in Pid : call'[q].slot = NoSlot
      BY <2>2, <1>4 DEF CallsMatch, Inside
    <3>2. \A i \in Slot : {q \in Pid : call'[q].slot = i} = {}
                          /\ {q \in Pid : pc'[q] = "wait" /\ call'[q].slot = i} = {}
      BY <3>1, SlotFacts
    <3> QED BY <2>5, <2>8, <3>2 DEF ReadersAreInside
  <2> QED BY <1>4, <1>5, <2>3, <2>4, <2>6, <2>9, <2>10, <2>11 DEF Inv, Places, Counted
<1>8. CASE ~(\A q \in Pid \ {p} : pc[q] \in {"out", "cleaned", "gone"})
  <2>1. UNCHANGED <<barriers, readers, num_barriers, initialized, default_barrier, barrier_list>>
    BY <1>8 DEF shmem_finalize
  <2>2. initialized
    BY <1>0 DEF Places, UsersInitialized
  <2>3. NewcomersJoinedNothing' /\ UsersInitialized'
    BY <1>0, <1>1, <2>1, <2>2 DEF Places, NewcomersJoinedNothing, UsersInitialized
  <2>4. TypeOK'
    BY <1>0, <1>2, <1>6, <2>1 DEF TypeOK
  <2>5. Shared' /\ Counted'
    BY <1>0, <1>3, <2>1, ArrayKept
  <2> QED BY <1>4, <1>5, <2>3, <2>4, <2>5 DEF Inv, Places
<1> QED BY <1>7, <1>8

(* shmem_init, and shmem_barrier__init. *)
LEMMA OpenKeeps ==
  ASSUME Inv, NEW p \in Pid, Open(p)
  PROVE  Inv'
<1> DEFINE dead == {q \in Pid : pc[q] = "dead"}
           s0 == [num_barriers |-> num_barriers, barriers |-> barriers]
           s == FoldSet(LAMBDA q, t : cleanup_shmem(t), s0, dead)
<1>0. TypeOK /\ Places /\ Shared /\ Counted
  BY DEF Inv
<1>1. /\ pc[p] = "out" /\ lock = NoLock /\ lock' = lock /\ initialized' = TRUE /\ call' = call
      /\ barriers' = s.barriers
      /\ num_barriers' = IF initialized THEN s.num_barriers ELSE 0
      /\ readers' = [i \in Slot |-> IF dead # {} /\ s.barriers[i].size = 0 THEN {} ELSE readers[i]]
      /\ pc' = [q \in Pid |-> IF q = p THEN "open" ELSE IF q \in dead THEN "cleaned" ELSE pc[q]]
      /\ default_barrier' = default_barrier /\ barrier_list' = barrier_list /\ known' = known
  BY DEF Open, local
<1>2. s0 \in CleanedUp
  <2>1. s0 \in Array /\ s0.barriers = barriers /\ s0.num_barriers = num_barriers
    BY <1>0 DEF Array, TypeOK
  <2>2. \A i \in Slot : barriers[i].participants \in Nat
    <3>1. \A i \in Slot : barriers[i] \in Barrier_t
      BY <1>0 DEF TypeOK
    <3> QED BY <3>1 DEF Barrier_t
  <2>3. \A i \in Slot : barriers[i].initialized =>
          i < num_barriers /\ barriers[i].participants > 0
    BY <1>0 DEF Shared, InitializedAreFound, ParticipantsBounded
  <2>4. \A i \in Slot : barriers[i].participants <= barriers[i].participants
    BY <2>2
  <2> HIDE DEF s0
  <2> QED BY <2>1, <2>3, <2>4 DEF CleanedUp
<1>3. s \in CleanedUp /\ (dead = {} => s = s0)
  <2>1. IsFiniteSet(dead)
    BY PidSets
  <2> HIDE DEF s0, dead
  <2> QED BY <1>0, <1>2, <2>1, CleanupFolds
<1>4. dead = {} => s.num_barriers = num_barriers /\ s.barriers = barriers
  <2> HIDE DEF s
  <2> QED BY <1>3
<1> HIDE DEF s, s0
<1>5. s \in Array /\ s.num_barriers \in 0 .. max_barriers /\ s.barriers \in [Slot -> Barrier_t]
  BY <1>3 DEF CleanedUp, Array
<1>6. \A i \in Slot : barriers'[i].initialized =>
        /\ i < s.num_barriers /\ barriers[i].initialized
        /\ barriers'[i].name = barriers[i].name
        /\ barriers'[i].participants > 0
        /\ barriers'[i].participants <= barriers[i].participants
  BY <1>1, <1>3 DEF CleanedUp
<1>7. \A q \in Pid : pc'[q] = IF q = p THEN "open" ELSE IF pc[q] = "dead" THEN "cleaned" ELSE pc[q]
  BY <1>1
<1>8. Quiet
  BY <1>1, <1>7 DEF Quiet
<1>9. TypeOK'
  <2>1. pc' \in [Pid -> PC]
    BY <1>0, <1>1 DEF TypeOK, PC
  <2>2. readers' \in [Slot -> SUBSET Pid]
    BY <1>0, <1>1 DEF TypeOK
  <2>3. num_barriers' \in 0 .. max_barriers /\ barriers' \in [Slot -> Barrier_t]
    BY <1>1, <1>5, BarrierAssumption
  <2> QED BY <1>0, <1>1, <2>1, <2>2, <2>3 DEF TypeOK
<1>10. Places'
  <2>1. CallsMatch'
    BY <1>0, <1>1, <1>7 DEF Places, CallsMatch, Inside
  <2>2. NewcomersJoinedNothing'
    BY <1>0, <1>1, <1>7 DEF Places, NewcomersJoinedNothing
  <2>3. UsersInitialized'
    BY <1>1 DEF UsersInitialized
  <2>4. HolderWaits'
    BY <1>0, <1>1, <1>7, NoHolderLeft DEF Places
  <2> QED BY <2>1, <2>2, <2>3, <2>4 DEF Places
<1>11. Shared'
  <2>1. NamesAreUnique'
    BY <1>0, <1>6 DEF Shared, NamesAreUnique
  <2>2. InitializedAreFound'
    <3>1. CASE initialized
      BY <3>1, <1>1, <1>6 DEF InitializedAreFound
    <3>2. CASE ~initialized
      <4>1. num_barriers = 0
        BY <3>2, <1>0 DEF Places, UsersInitialized
      <4>2. \A i \in Slot : ~barriers[i].initialized
        BY <4>1, <1>0, SlotFacts DEF Shared, InitializedAreFound
      <4> QED BY <4>2, <1>6 DEF InitializedAreFound
    <3> QED BY <3>1, <3>2
  <2>3. ParticipantsBounded'
    <3> SUFFICES ASSUME NEW i \in Slot, barriers'[i].initialized
                 PROVE  /\ barriers'[i].participants > 0
                        /\ barriers'[i].participants <= Cardinality(ByDefault(i)' \cup Died')
                                                          + Cardinality(ByName(i)' \cup Died')
      BY DEF ParticipantsBounded
    <3>1. ByDefault(i)' = ByDefault(i) /\ ByName(i)' = ByName(i) /\ Died' = Died
      BY <1>1, <1>8, QuietKeepsDied DEF ByDefault, ByName, InList
    <3> DEFINE x == Cardinality(ByDefault(i) \cup Died)
               y == Cardinality(ByName(i) \cup Died)
               m == barriers[i].participants
               n == barriers'[i].participants
    <3>2. x \in Nat /\ y \in Nat
      BY PidSets DEF ByDefault, ByName, Died
    <3>3. n > 0 /\ n <= m /\ m <= x + y
      BY <1>0, <1>6 DEF Shared, ParticipantsBounded
    <3>4. m \in Nat /\ n \in Nat
      <4>1. barriers[i] \in Barrier_t /\ barriers'[i] \in Barrier_t
        BY <1>0, <1>9 DEF TypeOK
      <4> QED BY <4>1 DEF Barrier_t
    <3> HIDE DEF x, y, m, n
    <3>5. n > 0 /\ n <= x + y
      BY <3>2, <3>3, <3>4
    <3> QED BY <3>1, <3>5 DEF x, y, n
  <2> QED BY <2>1, <2>2, <2>3 DEF Shared
<1>12. Counted'
  <2> SUFFICES ASSUME NobodyDied PROVE Counted'
    BY <1>8, QuietKeepsDied DEF Counted
  <2>1. dead = {}
    BY DEF NobodyDied
  <2>2. barriers' = barriers /\ s.num_barriers = num_barriers
    BY <1>1, <1>4, <2>1
  <2>3. num_barriers' = num_barriers
    BY <1>0, <1>1, <2>2 DEF Places, UsersInitialized
  <2>4. readers' = readers
    BY <1>0, <1>1, <2>1 DEF TypeOK
  <2> QED BY <1>0, <1>1, <1>8, <2>2, <2>3, <2>4, ArrayKept
<1> QED BY <1>9, <1>10, <1>11, <1>12 DEF Inv

(* A process dies. *)
LEMMA CrashKeeps ==
  ASSUME Inv, NEW p \in Pid, Crash(p)
  PROVE  Inv'
<1>0. TypeOK /\ Places /\ Shared /\ Counted
  BY DEF Inv
<1>1. /\ pc[p] \notin {"out", "dead", "cleaned", "gone", "locking"} /\ pc' = [pc EXCEPT ![p] = "dead"]
      /\ default_barrier' = [default_barrier EXCEPT ![p] = NoSlot]
      /\ barrier_list' = [barrier_list EXCEPT ![p] = {}]
      /\ known' = [known EXCEPT ![p] = {}]
      /\ call' = [call EXCEPT ![p] = Outside]
      /\ UNCHANGED <<initialized, num_barriers, barriers, readers, lock>>
  BY DEF Crash
<1>2. \A q \in Pid : /\ pc'[q] = (IF q = p THEN "dead" ELSE pc[q])
                     /\ default_barrier'[q] = (IF q = p THEN NoSlot ELSE default_barrier[q])
                     /\ barrier_list'[q] = (IF q = p THEN {} ELSE barrier_list[q])
                     /\ call'[q] = (IF q = p THEN Outside ELSE call[q])
  BY <1>0, <1>1 DEF TypeOK
<1>3. TypeOK'
  BY <1>0, <1>1 DEF TypeOK, PC, Outside
<1>4. CallsMatch' /\ NewcomersJoinedNothing' /\ UsersInitialized'
  BY <1>0, <1>1, <1>2 DEF Places, CallsMatch, NewcomersJoinedNothing, UsersInitialized, Inside, Outside
<1>5. HolderWaits'
  <2>1. OthersKept(p)
    BY <1>2 DEF OthersKept
  <2>2. pc[p] # "locking" /\ pc'[p] # "locking"
        /\ \A q \in Pid : q # p => (pc'[q] = "locking" <=> pc[q] = "locking")
    BY <1>1, <1>2
  <2> QED BY <1>0, <1>1, <2>1, <2>2, HolderKept DEF Places
<1>6. ParticipantsBounded'
  <2> SUFFICES ASSUME NEW i \in Slot, barriers[i].initialized
               PROVE  /\ barriers[i].participants > 0
                      /\ barriers[i].participants <= Cardinality(ByDefault(i)' \cup Died')
                                                       + Cardinality(ByName(i)' \cup Died')
    BY <1>1 DEF ParticipantsBounded
  <2> DEFINE A == ByDefault(i) \cup Died
             B == ByName(i) \cup Died
             A2 == ByDefault(i)' \cup Died'
             B2 == ByName(i)' \cup Died'
             n == barriers[i].participants
  <2>1. A2 \in SUBSET Pid /\ B2 \in SUBSET Pid /\ A \in SUBSET A2 /\ B \in SUBSET B2
    <3>1. Died' = Died \cup {p}
      BY <1>2 DEF Died
    <3>2. ByDefault(i) \subseteq ByDefault(i)' \cup {p} /\ ByName(i) \subseteq ByName(i)' \cup {p}
      BY <1>2 DEF ByDefault, ByName, InList
    <3>3. A2 \in SUBSET Pid /\ B2 \in SUBSET Pid
      BY DEF ByDefault, ByName, Died
    <3> QED BY <3>1, <3>2, <3>3
  <2>2. n \in Nat /\ n > 0 /\ n <= Cardinality(A) + Cardinality(B)
    <3>1. barriers[i] \in Barrier_t
      BY <1>0 DEF TypeOK
    <3>2. n \in Nat
      BY <3>1 DEF Barrier_t
    <3> QED BY <3>2, <1>0 DEF Shared, ParticipantsBounded
  <2> HIDE DEF A, B, A2, B2, n
  <2>3. Cardinality(A) <= Cardinality(A2) /\ Cardinality(B) <= Cardinality(B2)
    BY <2>1, PidSubsets
  <2>4. Cardinality(A) \in Nat /\ Cardinality(B) \in Nat /\ Cardinality(A2) \in Nat /\ Cardinality(B2) \in Nat
    <3>1. A \in SUBSET Pid /\ B \in SUBSET Pid
      BY <2>1
    <3> QED BY <2>1, <3>1, PidSets
  <2>5. n > 0 /\ n <= Cardinality(A2) + Cardinality(B2)
    BY <2>2, <2>3, <2>4
  <2> QED BY <2>5 DEF A2, B2, n
<1>7. Shared'
  BY <1>0, <1>1, <1>6 DEF Shared, NamesAreUnique, InitializedAreFound
<1>8. ~NobodyDied'
  BY <1>2 DEF NobodyDied
<1> QED BY <1>3, <1>4, <1>5, <1>7, <1>8 DEF Inv, Places, Counted

-----------------------------------------------------------------------------
(* Inside a barrier *)

(* A step inside the barriers, which changes neither their participants    *)
(* nor who has joined them.                                                *)
LEMMA MembersKept ==
  ASSUME Shared, UNCHANGED <<num_barriers, default_barrier, barrier_list>>,
         \A i \in Slot : /\ barriers'[i].name = barriers[i].name
                         /\ barriers'[i].initialized = barriers[i].initialized
                         /\ barriers'[i].participants = barriers[i].participants
                         /\ barriers'[i].size = barriers[i].size,
         \A q \in Pid : pc'[q] \in {"dead", "cleaned"} <=> pc[q] \in {"dead", "cleaned"}
  PROVE  /\ Shared' /\ (NobodyDied' <=> NobodyDied)
         /\ ParticipantsAreMembers => ParticipantsAreMembers'
         /\ OneHandle => OneHandle'
         /\ \A i \in Slot : ByDefault(i)' = ByDefault(i) /\ ByName(i)' = ByName(i)
<1>1. Died' = Died /\ (NobodyDied' <=> NobodyDied)
  BY DEF Died, NobodyDied
<1>2. \A i \in Slot : ByDefault(i)' = ByDefault(i) /\ ByName(i)' = ByName(i)
  BY DEF ByDefault, ByName, InList
<1>3. Shared'
  BY <1>1, <1>2 DEF Shared, NamesAreUnique, InitializedAreFound, ParticipantsBounded
<1>4. OneHandle => OneHandle'
  BY DEF OneHandle
<1>5. ParticipantsAreMembers => ParticipantsAreMembers'
  BY <1>1, <1>2 DEF ParticipantsAreMembers, ByDefault, ByName
<1> QED BY <1>1, <1>2, <1>3, <1>4, <1>5

(* What does not depend on the barriers, in a step of p inside them. *)
LEMMA InsidePlaces ==
  ASSUME TypeOK, Places, NEW p \in Pid, UNCHANGED <<initialized, num_barriers, lock, local>>,
         pc[p] \in Inside \cup {"ready"},
         \A q \in Pid : pc'[q] # pc[q] => {pc[q], pc'[q]} \subseteq Inside \cup {"ready"},
         \A i \in Slot : barriers'[i].initialized = barriers[i].initialized
  PROVE  NewcomersJoinedNothing' /\ UsersInitialized' /\ HolderWaits'
<1>1. default_barrier' = default_barrier /\ barrier_list' = barrier_list
  BY DEF local
<1>2. \A q \in Pid : /\ pc'[q] \in {"out", "open"} => pc[q] \in {"out", "open"}
                     /\ pc'[q] = "locking" <=> pc[q] = "locking"
  BY DEF Inside
<1>3. NewcomersJoinedNothing'
  BY <1>1, <1>2 DEF Places, NewcomersJoinedNothing
<1>4. initialized
  BY DEF Places, UsersInitialized, Inside
<1>5. pc[p] # "locking"
  BY DEF Inside
<1>6. HolderWaits'
  BY <1>1, <1>2, <1>5, HolderKept DEF Places, OthersKept
<1> QED BY <1>3, <1>4, <1>6 DEF UsersInitialized

(* DLB_Barrier: the lock for reading, and the count. *)
LEMMA EnterKeeps ==
  ASSUME Inv, NEW p \in Pid, Enter(p)
  PROVE  Inv'
<1>0. TypeOK /\ Places /\ Shared /\ Counted
  BY DEF Inv
<1>1. PICK i \in Slot :
        /\ i = default_barrier[p] \/ InList(p, i)
        /\ readers' = [readers EXCEPT ![i] = @ \cup {p}]
        /\ barriers' = [barriers EXCEPT ![i].count = (@ + 1) % UintSize]
        /\ call' = [call EXCEPT ![p] =
                      [slot |-> i, last_in |-> barriers'[i].count = barriers[i].participants]]
  BY DEF Enter
<1>2. pc[p] = "ready" /\ pc' = [pc EXCEPT ![p] = "enter"]
      /\ UNCHANGED <<initialized, num_barriers, lock, local>>
  BY DEF Enter, Ready
<1> DEFINE c == (barriers[i].count + 1) % UintSize
<1>3. barriers[i] \in Barrier_t /\ UintSize \in Nat /\ UintSize > 1
  BY <1>0, RoomForOne DEF TypeOK
<1>4. barriers[i].count \in Nat
  BY <1>3 DEF Barrier_t
<1>5. c \in 0 .. UintSize - 1
  <2> DEFINE k == barriers[i].count
  <2>1. k \in Nat
    BY <1>4
  <2> HIDE DEF k
  <2>2. (k + 1) % UintSize \in 0 .. UintSize - 1
    BY <2>1, <1>3
  <2> QED BY <2>2 DEF k
<1>6. \A j \in Slot : barriers'[j] = IF j = i THEN [barriers[j] EXCEPT !.count = c] ELSE barriers[j]
  BY <1>0, <1>1 DEF TypeOK
<1> HIDE DEF c
<1>7. barriers' \in [Slot -> Barrier_t]
  <2>1. [barriers[i] EXCEPT !.count = c] \in Barrier_t
    BY <1>3, <1>5 DEF Barrier_t
  <2>2. barriers' = [barriers EXCEPT ![i] = [barriers[i] EXCEPT !.count = c]]
    BY <1>1 DEF c
  <2> QED BY <2>1, <2>2, <1>0 DEF TypeOK
<1>8. \A j \in Slot : /\ barriers'[j].name = barriers[j].name
                      /\ barriers'[j].initialized = barriers[j].initialized
                      /\ barriers'[j].participants = barriers[j].participants
                      /\ barriers'[j].size = barriers[j].size
                      /\ barriers'[j].waiting = barriers[j].waiting
                      /\ barriers'[j].count = IF j = i THEN c ELSE barriers[j].count
  BY <1>6, <1>3 DEF Barrier_t
<1>9. \A q \in Pid : pc'[q] = IF q = p THEN "enter" ELSE pc[q]
  BY <1>0, <1>2 DEF TypeOK
<1>10. \A q \in Pid : call'[q].slot = IF q = p THEN i ELSE call[q].slot
  BY <1>0, <1>1 DEF TypeOK
<1>11. TypeOK'
  <2>1. call' \in [Pid -> [slot : Slot \cup {NoSlot}, last_in : BOOLEAN]]
    BY <1>0, <1>1 DEF TypeOK
  <2>2. pc' \in [Pid -> PC] /\ readers' \in [Slot -> SUBSET Pid]
    BY <1>0, <1>1, <1>2 DEF TypeOK, PC
  <2> QED BY <1>0, <1>2, <1>7, <2>1, <2>2 DEF TypeOK, local
<1>12. Places'
  <2>1. CallsMatch'
    BY <1>0, <1>9, <1>10 DEF Places, CallsMatch, Inside
  <2>2. pc[p] \in Inside \cup {"ready"}
        /\ \A q \in Pid : pc'[q] # pc[q] => {pc[q], pc'[q]} \subseteq Inside \cup {"ready"}
    BY <1>2, <1>9 DEF Inside
  <2>3. NewcomersJoinedNothing' /\ UsersInitialized' /\ HolderWaits'
    BY <1>0, <1>2, <1>8, <2>2, InsidePlaces
  <2> QED BY <2>1, <2>3 DEF Places
<1>13. \A q \in Pid : pc'[q] \in {"dead", "cleaned"} <=> pc[q] \in {"dead", "cleaned"}
  BY <1>2, <1>9
<1>14. /\ Shared' /\ (NobodyDied' <=> NobodyDied)
       /\ ParticipantsAreMembers => ParticipantsAreMembers'
       /\ OneHandle => OneHandle'
       /\ \A j \in Slot : ByDefault(j)' = ByDefault(j) /\ ByName(j)' = ByName(j)
  BY <1>0, <1>2, <1>8, <1>13, MembersKept DEF local
<1>15. Counted'
  <2> SUFFICES ASSUME NobodyDied, ReadersAreInside PROVE ReadersAreInside'
    BY <1>0, <1>14 DEF Counted
  <2>1. /\ readers[i] = {q \in Pid : call[q].slot = i}
        /\ barriers[i].count = Cardinality(readers[i])
    BY DEF ReadersAreInside
  <2>2. call[p].slot = NoSlot
    BY <1>0, <1>2 DEF Places, CallsMatch, Inside
  <2>3. p \notin readers[i] /\ readers[i] \in SUBSET Pid
    BY <2>1, <2>2, SlotFacts
  <2>4. c = Cardinality(readers[i] \cup {p})
    <3> DEFINE k == barriers[i].count
    <3>1. Cardinality(readers[i] \cup {p}) = k + 1
      BY <2>1, <2>3, PidSetChanges
    <3>2. k \in Nat /\ k + 1 <= Cardinality(Pid) /\ Cardinality(Pid) \in Nat
      BY <2>1, <2>3, PidSetRoom, PidSets
    <3>3. (k + 1) % UintSize = k + 1
      <4> HIDE DEF k
      <4>1. k + 1 \in Nat /\ k + 1 < UintSize
        BY <3>2, <1>3, BarrierAssumption
      <4> QED BY <4>1, <1>3, ModSmall
    <3> QED BY <3>1, <3>3 DEF c
  <2>5. \A j \in Slot : readers'[j] = IF j = i THEN readers[j] \cup {p} ELSE readers[j]
    BY <1>0, <1>1 DEF TypeOK
  <2>6. p \in ByDefault(i) \cup ByName(i)
    BY <1>1 DEF ByDefault, ByName
  <2>7. ASSUME NEW j \in Slot
        PROVE  /\ readers'[j] = {q \in Pid : call'[q].slot = j}
               /\ readers'[j] \subseteq ByDefault(j)' \cup ByName(j)'
               /\ barriers'[j].count = Cardinality(readers'[j])
               /\ barriers'[j].waiting = {q \in Pid : pc'[q] = "wait" /\ call'[q].slot = j}
    <3>1. /\ readers[j] = {q \in Pid : call[q].slot = j}
          /\ readers[j] \subseteq ByDefault(j) \cup ByName(j)
          /\ barriers[j].count = Cardinality(readers[j])
          /\ barriers[j].waiting = {q \in Pid : pc[q] = "wait" /\ call[q].slot = j}
      BY DEF ReadersAreInside
    <3>2. readers'[j] = {q \in Pid : call'[q].slot = j}
      BY <3>1, <2>2, <2>5, <1>10, SlotFacts
    <3>3. readers'[j] \subseteq ByDefault(j)' \cup ByName(j)'
      BY <3>1, <2>5, <2>6, <1>14
    <3>4. barriers'[j].count = Cardinality(readers'[j])
      BY <3>1, <2>4, <2>5, <1>8
    <3>5. barriers'[j].waiting = {q \in Pid : pc'[q] = "wait" /\ call'[q].slot = j}
      BY <3>1, <1>2, <1>8, <1>9, <1>10
    <3> QED BY <3>2, <3>3, <3>4, <3>5
  <2> QED BY <2>7 DEF ReadersAreInside
<1> QED BY <1>11, <1>12, <1>14, <1>15 DEF Inv

(* pthread_barrier_wait: p waits, or releases all that wait. *)
LEMMA WaitKeeps ==
  ASSUME Inv, NEW p \in Pid, pthread_barrier_wait(p)
  PROVE  Inv'
<1> DEFINE i == call[p].slot
           all == barriers[i].waiting \cup {p}
           full == Cardinality(all) >= barriers[i].size
           w == IF full THEN {} ELSE all
<1>0. TypeOK /\ Places /\ Shared /\ Counted
  BY DEF Inv
<1>1. /\ pc[p] = "enter"
      /\ barriers' = [barriers EXCEPT ![i].waiting = w]
      /\ pc' = [q \in Pid |-> IF q \notin all \/ pc[q] \notin {"enter", "wait"} THEN pc[q]
                               ELSE IF full THEN "released"
                               ELSE "wait"]
      /\ UNCHANGED <<initialized, num_barriers, readers, lock, local, call>>
  BY DEF pthread_barrier_wait
<1>2. i \in Slot /\ barriers[i] \in Barrier_t
  BY <1>0, <1>1 DEF Places, CallsMatch, Inside, TypeOK
<1>3. barriers[i].waiting \in SUBSET Pid
  BY <1>2 DEF Barrier_t
<1>4. all \in SUBSET Pid /\ w \in SUBSET Pid /\ w = IF full THEN {} ELSE all
  BY <1>3
<1>5. p \in all /\ all = barriers[i].waiting \cup {p}
  OBVIOUS
<1> HIDE DEF all, full, w, i
<1>6. \A j \in Slot : barriers'[j] = IF j = i THEN [barriers[j] EXCEPT !.waiting = w] ELSE barriers[j]
  BY <1>0, <1>1, <1>2 DEF TypeOK
<1>7. barriers' \in [Slot -> Barrier_t]
  <2>1. [barriers[i] EXCEPT !.waiting = w] \in Barrier_t
    BY <1>2, <1>4 DEF Barrier_t
  <2>2. barriers' = [barriers EXCEPT ![i] = [barriers[i] EXCEPT !.waiting = w]]
    BY <1>1
  <2> QED BY <2>1, <2>2, <1>0, <1>2 DEF TypeOK
<1>8. \A j \in Slot : /\ barriers'[j].name = barriers[j].name
                      /\ barriers'[j].initialized = barriers[j].initialized
                      /\ barriers'[j].participants = barriers[j].participants
                      /\ barriers'[j].size = barriers[j].size
                      /\ barriers'[j].count = barriers[j].count
                      /\ barriers'[j].waiting = IF j = i THEN w ELSE barriers[j].waiting
  BY <1>6, <1>2 DEF Barrier_t
<1>9. \A q \in Pid : pc'[q] = IF q \notin all \/ pc[q] \notin {"enter", "wait"} THEN pc[q]
                              ELSE IF full THEN "released" ELSE "wait"
  BY <1>1
<1>10. pc' \in [Pid -> PC]
  BY <1>0, <1>1 DEF TypeOK, PC
<1>11. TypeOK'
  BY <1>0, <1>1, <1>7, <1>10 DEF TypeOK, local
<1>12. Places'
  <2>1. CallsMatch'
    BY <1>0, <1>1, <1>9 DEF Places, CallsMatch, Inside
  <2>2. pc[p] \in Inside \cup {"ready"}
        /\ \A q \in Pid : pc'[q] # pc[q] => {pc[q], pc'[q]} \subseteq Inside \cup {"ready"}
    BY <1>1, <1>9 DEF Inside
  <2>3. NewcomersJoinedNothing' /\ UsersInitialized' /\ HolderWaits'
    BY <1>0, <1>1, <1>8, <2>2, InsidePlaces
  <2> QED BY <2>1, <2>3 DEF Places
<1>13. \A q \in Pid : pc'[q] \in {"dead", "cleaned"} <=> pc[q] \in {"dead", "cleaned"}
  BY <1>9
<1>14. /\ Shared' /\ (NobodyDied' <=> NobodyDied)
       /\ ParticipantsAreMembers => ParticipantsAreMembers'
       /\ OneHandle => OneHandle'
       /\ \A j \in Slot : ByDefault(j)' = ByDefault(j) /\ ByName(j)' = ByName(j)
  BY <1>0, <1>1, <1>8, <1>13, MembersKept DEF local
<1>15. Counted'
  <2> SUFFICES ASSUME NobodyDied, ReadersAreInside PROVE ReadersAreInside'
    BY <1>0, <1>14 DEF Counted
  <2>1. barriers[i].waiting = {q \in Pid : pc[q] = "wait" /\ call[q].slot = i}
    BY <1>2 DEF ReadersAreInside
  <2>2. \A q \in Pid : q \in all <=> q = p \/ (pc[q] = "wait" /\ call[q].slot = i)
    BY <2>1, <1>5
  <2>3. call[p].slot = i
    BY DEF i
  <2>4. ASSUME NEW j \in Slot
        PROVE  /\ readers'[j] = {q \in Pid : call'[q].slot = j}
               /\ readers'[j] \subseteq ByDefault(j)' \cup ByName(j)'
               /\ barriers'[j].count = Cardinality(readers'[j])
               /\ barriers'[j].waiting = {q \in Pid : pc'[q] = "wait" /\ call'[q].slot = j}
    <3>1. /\ readers[j] = {q \in Pid : call[q].slot = j}
          /\ readers[j] \subseteq ByDefault(j) \cup ByName(j)
          /\ barriers[j].count = Cardinality(readers[j])
          /\ barriers[j].waiting = {q \in Pid : pc[q] = "wait" /\ call[q].slot = j}
      BY DEF ReadersAreInside
    <3>2. CASE j # i
      <4>1. \A q \in Pid : call[q].slot = j => pc'[q] = pc[q]
        BY <3>2, <2>2, <2>3, <1>9
      <4>2. barriers'[j].waiting = {q \in Pid : pc'[q] = "wait" /\ call'[q].slot = j}
        BY <3>1, <3>2, <4>1, <1>1, <1>8
      <4> QED BY <3>1, <4>2, <1>1, <1>8, <1>14
    <3>3. CASE j = i
      <4>1. CASE full
        <5>1. \A q \in Pid : ~(pc'[q] = "wait" /\ call'[q].slot = i)
          BY <4>1, <2>2, <1>1, <1>9
        <5>2. barriers'[j].waiting = {q \in Pid : pc'[q] = "wait" /\ call'[q].slot = j}
          BY <5>1, <4>1, <3>3, <1>4, <1>8
        <5> QED BY <3>1, <5>2, <1>1, <1>8, <1>14
      <4>2. CASE ~full
        <5>1. \A q \in Pid : q \in all <=> (pc'[q] = "wait" /\ call'[q].slot = i)
          BY <4>2, <2>2, <2>3, <1>1, <1>9
        <5>2. barriers'[j].waiting = {q \in Pid : pc'[q] = "wait" /\ call'[q].slot = j}
          BY <5>1, <4>2, <3>3, <1>4, <1>8
        <5> QED BY <3>1, <5>2, <1>1, <1>8, <1>14
      <4> QED BY <4>1, <4>2
    <3> QED BY <3>2, <3>3
  <2> QED BY <2>4 DEF ReadersAreInside
<1> QED BY <1>11, <1>12, <1>14, <1>15 DEF Inv

(* While nobody dies the pthread barrier of one that waits is not          *)
(* overwritten.                                                            *)
LEMMA NoneWoken ==
  ASSUME Inv, NobodyDied, NEW p \in Pid
  PROVE  ~Woken(p)
<1> SUFFICES ASSUME Woken(p) PROVE FALSE
  OBVIOUS
<1>1. pc[p] = "wait" /\ p \notin barriers[call[p].slot].waiting
  BY DEF Woken
<1>2. call[p].slot \in Slot
  BY <1>1 DEF Inv, Places, CallsMatch, Inside
<1> QED BY <1>1, <1>2 DEF Inv, Counted, ReadersAreInside

(* One that waits in a barrier that was overwritten is woken up. *)
LEMMA WokenKeeps ==
  ASSUME Inv, NEW p \in Pid, Woken(p)
  PROVE  Inv'
<1>0. TypeOK /\ Places /\ Shared /\ ~NobodyDied
  BY NoneWoken DEF Inv
<1>1. pc[p] = "wait" /\ pc' = [pc EXCEPT ![p] = "released"]
      /\ UNCHANGED <<initialized, num_barriers, barriers, readers, lock, local, call>>
  BY DEF Woken
<1>2. \A q \in Pid : pc'[q] = IF q = p THEN "released" ELSE pc[q]
  BY <1>0, <1>1 DEF TypeOK
<1>3. TypeOK'
  BY <1>0, <1>1 DEF TypeOK, PC, local
<1>4. CallsMatch'
  BY <1>0, <1>1, <1>2 DEF Places, CallsMatch, Inside
<1>5. pc[p] \in Inside \cup {"ready"}
      /\ \A q \in Pid : pc'[q] # pc[q] => {pc[q], pc'[q]} \subseteq Inside \cup {"ready"}
  BY <1>1, <1>2 DEF Inside
<1>6. NewcomersJoinedNothing' /\ UsersInitialized' /\ HolderWaits'
  BY <1>0, <1>1, <1>5, InsidePlaces
<1>7. \A q \in Pid : pc'[q] \in {"dead", "cleaned"} <=> pc[q] \in {"dead", "cleaned"}
  BY <1>1, <1>2
<1>8. Shared' /\ (NobodyDied' <=> NobodyDied)
  BY <1>0, <1>1, <1>7, MembersKept DEF local
<1> QED BY <1>0, <1>3, <1>4, <1>6, <1>8 DEF Inv, Places, Counted

(* A process leaves the barrier. *)
LEMMA ExitKeeps ==
  ASSUME Inv, NEW p \in Pid, Exit(p)
  PROVE  Inv'
<1> DEFINE i == call[p].slot
           c == (barriers[i].count - 1) % UintSize
<1>0. TypeOK /\ Places /\ Shared /\ Counted
  BY DEF Inv
<1>1. /\ pc[p] = "released"
      /\ barriers' = [barriers EXCEPT ![i].count = (@ - 1) % UintSize]
      /\ readers' = [readers EXCEPT ![i] = @ \ {p}]
      /\ call' = [call EXCEPT ![p] = Outside]
      /\ pc' = [pc EXCEPT ![p] = "ready"]
      /\ UNCHANGED <<initialized, num_barriers, lock, local>>
  BY DEF Exit, LeaveCounted
<1>2. i \in Slot /\ barriers[i] \in Barrier_t /\ UintSize \in Nat /\ UintSize > 1
  BY <1>0, <1>1, RoomForOne DEF Places, CallsMatch, Inside, TypeOK
<1>3. c \in 0 .. UintSize - 1
  <2> DEFINE k == barriers[i].count
  <2>1. k \in Nat
    BY <1>2 DEF Barrier_t
  <2> HIDE DEF k
  <2>2. (k - 1) % UintSize \in 0 .. UintSize - 1
    BY <2>1, <1>2
  <2> QED BY <2>2 DEF k
<1>4. \A j \in Slot : barriers'[j] = IF j = i THEN [barriers[j] EXCEPT !.count = c] ELSE barriers[j]
  BY <1>0, <1>1, <1>2 DEF TypeOK
<1>5. barriers' = [barriers EXCEPT ![i] = [barriers[i] EXCEPT !.count = c]]
  BY <1>1
<1>6. c = (barriers[i].count - 1) % UintSize /\ call[p].slot = i
  OBVIOUS
<1> HIDE DEF c, i
<1>7. barriers' \in [Slot -> Barrier_t]
  <2>1. [barriers[i] EXCEPT !.count = c] \in Barrier_t
    BY <1>2, <1>3 DEF Barrier_t
  <2> QED BY <2>1, <1>0, <1>2, <1>5 DEF TypeOK
<1>8. \A j \in Slot : /\ barriers'[j].name = barriers[j].name
                      /\ barriers'[j].initialized = barriers[j].initialized
                      /\ barriers'[j].participants = barriers[j].participants
                      /\ barriers'[j].size = barriers[j].size
                      /\ barriers'[j].waiting = barriers[j].waiting
                      /\ barriers'[j].count = IF j = i THEN c ELSE barriers[j].count
  BY <1>2, <1>4 DEF Barrier_t
<1>9. \A q \in Pid : pc'[q] = IF q = p THEN "ready" ELSE pc[q]
  BY <1>0, <1>1 DEF TypeOK
<1>10. \A q \in Pid : call'[q].slot = IF q = p THEN NoSlot ELSE call[q].slot
  BY <1>0, <1>1 DEF TypeOK, Outside
<1>11. TypeOK'
  <2>1. call' \in [Pid -> [slot : Slot \cup {NoSlot}, last_in : BOOLEAN]]
    BY <1>0, <1>1 DEF TypeOK, Outside
  <2>2. pc' \in [Pid -> PC] /\ readers' \in [Slot -> SUBSET Pid]
    BY <1>0, <1>1, <1>2 DEF TypeOK, PC
  <2> QED BY <1>0, <1>1, <1>7, <2>1, <2>2 DEF TypeOK, local
<1>12. Places'
  <2>1. CallsMatch'
    BY <1>0, <1>9, <1>10 DEF Places, CallsMatch, Inside
  <2>2. pc[p] \in Inside \cup {"ready"}
        /\ \A q \in Pid : pc'[q] # pc[q] => {pc[q], pc'[q]} \subseteq Inside \cup {"ready"}
    BY <1>1, <1>9 DEF Inside
  <2>3. NewcomersJoinedNothing' /\ UsersInitialized' /\ HolderWaits'
    BY <1>0, <1>1, <1>8, <2>2, InsidePlaces
  <2> QED BY <2>1, <2>3 DEF Places
<1>13. \A q \in Pid : pc'[q] \in {"dead", "cleaned"} <=> pc[q] \in {"dead", "cleaned"}
  BY <1>1, <1>9
<1>14. /\ Shared' /\ (NobodyDied' <=> NobodyDied)
       /\ ParticipantsAreMembers => ParticipantsAreMembers'
       /\ OneHandle => OneHandle'
       /\ \A j \in Slot : ByDefault(j)' = ByDefault(j) /\ ByName(j)' = ByName(j)
  BY <1>0, <1>1, <1>8, <1>13, MembersKept DEF local
<1>15. Counted'
  <2> SUFFICES ASSUME NobodyDied, ReadersAreInside PROVE ReadersAreInside'
    BY <1>0, <1>14 DEF Counted
  <2>1. /\ readers[i] = {q \in Pid : call[q].slot = i}
        /\ barriers[i].count = Cardinality(readers[i])
    BY <1>2 DEF ReadersAreInside
  <2>2. p \in readers[i] /\ readers[i] \in SUBSET Pid
    BY <2>1, <1>6
  <2>3. c = Cardinality(readers[i] \ {p})
    <3> DEFINE k == barriers[i].count
    <3>1. Cardinality(readers[i] \ {p}) = k - 1
      BY <2>1, <2>2, PidSetChanges
    <3>2. readers[i] \ {p} \in SUBSET Pid
      BY <2>2
    <3>3. Cardinality(readers[i] \ {p}) \in Nat /\ Cardinality(readers[i] \ {p}) <= Cardinality(Pid)
          /\ Cardinality(Pid) \in Nat
      BY <3>2, PidSets
    <3>4. k - 1 \in Nat /\ k - 1 < UintSize
      <4> DEFINE m == k - 1
      <4>1. m \in Nat /\ m <= Cardinality(Pid)
        BY <3>1, <3>3
      <4> HIDE DEF m
      <4>2. m < UintSize
        BY <4>1, <3>3, <1>2, BarrierAssumption
      <4> QED BY <4>1, <4>2 DEF m
    <3>5. (k - 1) % UintSize = k - 1
      BY <3>4, <1>2, ModSmall
    <3> QED BY <3>1, <3>5, <1>6
  <2>4. \A j \in Slot : readers'[j] = IF j = i THEN readers[j] \ {p} ELSE readers[j]
    BY <1>0, <1>1, <1>2 DEF TypeOK
  <2>5. ASSUME NEW j \in Slot
        PROVE  /\ readers'[j] = {q \in Pid : call'[q].slot = j}
               /\ readers'[j] \subseteq ByDefault(j)' \cup ByName(j)'
               /\ barriers'[j].count = Cardinality(readers'[j])
               /\ barriers'[j].waiting = {q \in Pid : pc'[q] = "wait" /\ call'[q].slot = j}
    <3>1. /\ readers[j] = {q \in Pid : call[q].slot = j}
          /\ readers[j] \subseteq ByDefault(j) \cup ByName(j)
          /\ barriers[j].count = Cardinality(readers[j])
          /\ barriers[j].waiting = {q \in Pid : pc[q] = "wait" /\ call[q].slot = j}
      BY DEF ReadersAreInside
    <3>2. readers'[j] = {q \in Pid : call'[q].slot = j}
      <4>1. NoSlot # j
        BY SlotFacts
      <4>2. \A q \in Pid : q \in readers'[j] <=> call'[q].slot = j
        <5> TAKE q \in Pid
        <5>1. q \in readers[j] <=> call[q].slot = j
          BY <3>1
        <5>2. CASE q = p
          <6>1. call'[p].slot # j /\ call[p].slot = i
            BY <4>1, <1>6, <1>10
          <6>2. p \notin readers'[j]
            BY <5>1, <5>2, <6>1, <2>4
          <6> QED BY <5>2, <6>1, <6>2
        <5>3. CASE q # p
          BY <5>1, <5>3, <2>4, <1>10
        <5> QED BY <5>2, <5>3
      <4>3. readers'[j] \in SUBSET Pid
        BY <3>1, <2>4
      <4> QED BY <4>2, <4>3
    <3>3. readers'[j] \subseteq ByDefault(j)' \cup ByName(j)'
      BY <3>1, <2>4, <1>14
    <3>4. barriers'[j].count = Cardinality(readers'[j])
      <4>1. CASE j = i
        BY <4>1, <2>3, <2>4, <1>8, <1>2
      <4>2. CASE j # i
        BY <4>2, <3>1, <2>4, <1>8
      <4> QED BY <4>1, <4>2
    <3>5. barriers'[j].waiting = {q \in Pid : pc'[q] = "wait" /\ call'[q].slot = j}
      BY <3>1, <1>1, <1>8, <1>9, <1>10, SlotFacts
    <3> QED BY <3>2, <3>3, <3>4, <3>5
  <2> QED BY <2>5 DEF ReadersAreInside
<1> QED BY <1>11, <1>12, <1>14, <1>15 DEF Inv

-----------------------------------------------------------------------------
(* The theorems *)

(* The initial state. *)
LEMMA InvInit == Init => Inv
<1> SUFFICES ASSUME Init PROVE Inv
  OBVIOUS
<1>1. TypeOK
  <2>1. barriers \in [Slot -> Barrier_t] /\ readers \in [Slot -> SUBSET Pid]
    BY EmptyBarrierType DEF Init
  <2>2. initialized \in BOOLEAN /\ lock \in LockHolder \cup {NoLock}
    BY DEF Init
  <2>5. num_barriers \in 0 .. max_barriers
    BY BarrierAssumption DEF Init
  <2>3. pc \in [Pid -> PC] /\ default_barrier \in [Pid -> Slot \cup {NoSlot}]
        /\ barrier_list \in [Pid -> SUBSET Handle] /\ known \in [Pid -> SUBSET Handle]
    BY DEF Init, PC
  <2>4. call \in [Pid -> [slot : Slot \cup {NoSlot}, last_in : BOOLEAN]]
    BY DEF Init, Outside
  <2> QED BY <2>1, <2>2, <2>3, <2>4, <2>5 DEF TypeOK
<1>2. Places
  BY DEF Init, Places, CallsMatch, NewcomersJoinedNothing, UsersInitialized, HolderWaits, Inside, Outside
<1>3. \A i \in Slot : /\ ~barriers[i].initialized /\ barriers[i].participants = 0 /\ barriers[i].size = 0
                      /\ barriers[i].count = 0 /\ barriers[i].waiting = {} /\ readers[i] = {}
  BY DEF Init, EmptyBarrier
<1>4. Shared
  BY <1>3 DEF Shared, NamesAreUnique, InitializedAreFound, ParticipantsBounded
<1>5. Cardinality({}) = 0
  BY FS_EmptySet
<1>6. \A i \in Slot : /\ {p \in Pid : default_barrier[p] = i} = {} /\ {p \in Pid : InList(p, i)} = {}
                      /\ {p \in Pid : call[p].slot = i} = {}
                      /\ {p \in Pid : pc[p] = "wait" /\ call[p].slot = i} = {}
  BY SlotFacts DEF Init, InList, Outside
<1>7. ParticipantsAreMembers
  <2>1. ASSUME NEW i \in Slot
        PROVE  /\ barriers[i].participants = Cardinality({p \in Pid : default_barrier[p] = i})
                                               + Cardinality({p \in Pid : InList(p, i)})
               /\ barriers[i].size = barriers[i].participants
               /\ barriers[i].initialized <=> barriers[i].participants > 0
    <3>1. Cardinality({p \in Pid : default_barrier[p] = i}) = 0
          /\ Cardinality({p \in Pid : InList(p, i)}) = 0
      BY <1>5, <1>6
    <3> QED BY <3>1, <1>3
  <2> QED BY <2>1 DEF ParticipantsAreMembers
<1>8. OneHandle
  BY DEF Init, OneHandle
<1>9. ReadersAreInside
  BY <1>3, <1>5, <1>6 DEF ReadersAreInside
<1> QED BY <1>1, <1>2, <1>4, <1>7, <1>8, <1>9 DEF Inv, Counted

(* Every operation, of any process. *)
LEMMA InvStep ==
  ASSUME Inv, NEW p \in Pid, Step(p)
  PROVE  Inv'
<1>0. TypeOK /\ Places /\ Shared /\ Counted
  BY DEF Inv
<1>1. CASE Open(p)
  BY <1>1, OpenKeeps
<1>2. CASE NodeBarrierInit(p)
  <2>1. pc[p] = "open" /\ default_barrier[p] = NoSlot
    BY <1>0, <1>2 DEF NodeBarrierInit, Places, NewcomersJoinedNothing
  <2>2. CASE Register(p, "default", DefaultName)
    <3>1. DefaultName \in Name
      BY DEF Name
    <3> QED BY <2>1, <2>2, <3>1, RegisterKeeps
  <2>3. CASE /\ lock = NoLock /\ pc' = [pc EXCEPT ![p] = "ready"]
             /\ UNCHANGED <<initialized, num_barriers, barriers, readers, lock, local, call>>
    <3>1. OthersKept(p)
      BY <1>0, <2>3, OnlyOwnPlaces
    <3>2. /\ pc' \in [Pid -> PC] /\ Quiet
          /\ \A q \in Pid : pc'[q] = IF q = p THEN "ready" ELSE pc[q]
          /\ CallsMatch' /\ NewcomersJoinedNothing' /\ UsersInitialized'
      BY <1>0, <2>1, <2>3, <3>1, MoveKeeps
    <3>3. HolderWaits'
      BY <1>0, <2>3, <3>2, NoHolderLeft DEF Places
    <3>4. Shared' /\ Counted'
      BY <1>0, <2>3, <3>2, ArrayKept DEF local
    <3>5. TypeOK'
      BY <1>0, <2>3, <3>2 DEF TypeOK, local
    <3> QED BY <3>2, <3>3, <3>4, <3>5 DEF Inv, Places
  <2> QED BY <1>2, <2>2, <2>3 DEF NodeBarrierInit
<1>3. CASE BarrierNamedRegister(p)
  <2>1. PICK name \in Names : ~(find(name) # NoSlot /\ InList(p, find(name))) /\ Register(p, "named", name)
    BY <1>3 DEF BarrierNamedRegister
  <2>2. pc[p] = "ready" /\ name \in Name
    BY <1>3 DEF BarrierNamedRegister, Ready, Name
  <2> QED BY <2>1, <2>2, RegisterKeeps
<1>4. CASE BarrierNamedAttach(p)
  <2>1. PICK h \in known[p] : ~InList(p, h.slot) /\ readers[h.slot] = {} /\ barriers[h.slot].initialized
                              /\ Join(p, "named", h)
    BY <1>4 DEF BarrierNamedAttach
  <2>2. pc[p] = "ready" /\ h \in Handle /\ UNCHANGED <<initialized, lock, pc, call>>
    BY <1>0, <1>4 DEF BarrierNamedAttach, Ready, TypeOK
  <2>3. Noted(p, "named", h) /\ num_barriers' = num_barriers /\ readers' = readers
    BY <2>1 DEF Join
  <2>4. OthersKept(p)
    BY <1>0, <2>3, OnlyOwnPlaces
  <2>5. Quiet /\ p \notin Died
    BY <2>2 DEF Quiet, Died
  <2>6. barriers' \in [Slot -> Barrier_t] /\ Shared' /\ Counted'
        /\ \A i \in Slot : barriers'[i].initialized <=> barriers[i].initialized
    BY <1>0, <2>1, <2>2, <2>5, JoinKeeps
  <2>7. /\ default_barrier' \in [Pid -> Slot \cup {NoSlot}]
        /\ barrier_list' \in [Pid -> SUBSET Handle]
        /\ known' \in [Pid -> SUBSET Handle]
    BY <1>0, <2>2, <2>3, NotedPlaces
  <2>8. TypeOK'
    BY <1>0, <2>2, <2>3, <2>6, <2>7 DEF TypeOK
  <2>9. HolderWaits'
    BY <1>0, <2>2, <2>4, <2>6, HolderKept DEF Places
  <2>10. NewcomersJoinedNothing'
    BY <1>0, <2>2, <2>4 DEF Places, NewcomersJoinedNothing, OthersKept
  <2>11. CallsMatch' /\ UsersInitialized'
    BY <1>0, <2>2, <2>3 DEF Places, CallsMatch, UsersInitialized
  <2> QED BY <2>6, <2>8, <2>9, <2>10, <2>11 DEF Inv, Places
<1>5. CASE BarrierAttach(p)
  <2>1. pc[p] = "ready" /\ default_barrier[p] = NoSlot /\ Register(p, "default", DefaultName)
    BY <1>5 DEF BarrierAttach, Ready
  <2>2. DefaultName \in Name
    BY DEF Name
  <2> QED BY <2>1, <2>2, RegisterKeeps
<1>6. CASE BarrierNamedDetach(p)
  <2>1. PICK h \in known[p] :
          IF h.slot = default_barrier[p] THEN Leave(p, "default", h, "ready")
          ELSE \E e \in barrier_list[p] : e.slot = h.slot /\ Leave(p, "named", e, "ready")
    BY <1>6 DEF BarrierNamedDetach
  <2>2. pc[p] = "ready" /\ h \in Handle
    BY <1>0, <1>6 DEF BarrierNamedDetach, Ready, TypeOK
  <2>3. CASE h.slot = default_barrier[p]
    BY <2>1, <2>2, <2>3, LeaveKeeps
  <2>4. CASE h.slot # default_barrier[p]
    <3>1. PICK e \in barrier_list[p] : Leave(p, "named", e, "ready")
      BY <2>1, <2>4
    <3>2. e \in Handle
      BY <1>0 DEF TypeOK
    <3> QED BY <2>2, <3>1, <3>2, LeaveKeeps
  <2> QED BY <2>3, <2>4
<1>7. CASE BarrierDetach(p)
  <2> DEFINE h == [slot |-> default_barrier[p], name |-> DefaultName]
  <2>1. pc[p] = "ready" /\ default_barrier[p] # NoSlot /\ Leave(p, "default", h, "ready")
    BY <1>7 DEF BarrierDetach, Ready
  <2>2. h \in Handle /\ h.slot = default_barrier[p]
    BY <1>0, <2>1 DEF Handle, Name, TypeOK
  <2> HIDE DEF h
  <2> QED BY <2>1, <2>2, LeaveKeeps
<1>8. CASE Granted(p)
  BY <1>8, GrantedKeeps
<1>9. CASE Timeout(p)
  <2>1. pc[p] = "locking" /\ lock' = NoLock /\ shmem_finalize(p) /\ pc' = [pc EXCEPT ![p] = "gone"]
        /\ call' = call
    BY <1>9 DEF Timeout
  <2>2. lock.pid = p
    BY <1>0, <2>1 DEF Places, HolderWaits
  <2> QED BY <2>1, <2>2, FinalizeKeeps
<1>10. CASE Enter(p)
  BY <1>10, EnterKeeps
<1>11. CASE pthread_barrier_wait(p)
  BY <1>11, WaitKeeps
<1>12. CASE Woken(p)
  BY <1>12, WokenKeeps
<1>13. CASE Exit(p)
  BY <1>13, ExitKeeps
<1>14. CASE Finish(p)
  <2>1. pc[p] = "ready" /\ pc' = [pc EXCEPT ![p] = "finish"]
        /\ UNCHANGED <<initialized, num_barriers, barriers, readers, lock, local, call>>
    BY <1>14 DEF Finish, Ready
  <2>2. OthersKept(p)
    BY <1>0, <2>1, OnlyOwnPlaces
  <2>3. /\ pc' \in [Pid -> PC] /\ Quiet
        /\ \A q \in Pid : pc'[q] = IF q = p THEN "finish" ELSE pc[q]
        /\ CallsMatch' /\ NewcomersJoinedNothing' /\ UsersInitialized'
    BY <1>0, <2>1, <2>2, MoveKeeps
  <2>4. HolderWaits'
    BY <1>0, <2>1, <2>2, <2>3, HolderKept DEF Places
  <2>5. Shared' /\ Counted'
    BY <1>0, <2>1, <2>3, ArrayKept DEF local
  <2>6. TypeOK'
    BY <1>0, <2>1, <2>3 DEF TypeOK, local
  <2> QED BY <2>3, <2>4, <2>5, <2>6 DEF Inv, Places
<1>15. CASE FinishStep(p)
  <2>1. pc[p] = "finish"
    BY <1>15 DEF FinishStep
  <2>2. CASE default_barrier[p] # NoSlot
    <3> DEFINE h == [slot |-> default_barrier[p], name |-> DefaultName]
    <3>1. Leave(p, "default", h, "finish")
      BY <1>15, <2>2 DEF FinishStep
    <3>2. h \in Handle /\ h.slot = default_barrier[p]
      BY <1>0, <2>2 DEF Handle, Name, TypeOK
    <3> HIDE DEF h
    <3> QED BY <2>1, <3>1, <3>2, LeaveKeeps
  <2>3. CASE default_barrier[p] = NoSlot
    <3>1. PICK h \in barrier_list[p] : Leave(p, "named", h, "finish")
      BY <1>15, <2>3 DEF FinishStep
    <3>2. h \in Handle
      BY <1>0 DEF TypeOK
    <3> QED BY <2>1, <3>1, <3>2, LeaveKeeps
  <2> QED BY <2>2, <2>3
<1>16. CASE Close(p)
  <2>1. /\ pc[p] = "finish" /\ default_barrier[p] = NoSlot /\ barrier_list[p] = {} /\ lock = NoLock
        /\ shmem_finalize(p) /\ pc' = [pc EXCEPT ![p] = "out"] /\ lock' = NoLock /\ call' = call
    BY <1>16 DEF Close
  <2> QED BY <2>1, FinalizeKeeps
<1>17. CASE Crash(p)
  BY <1>17, CrashKeeps
<1> QED BY <1>1, <1>2, <1>3, <1>4, <1>5, <1>6, <1>7, <1>8, <1>9, <1>10, <1>11, <1>12, <1>13,
           <1>14, <1>15, <1>16, <1>17 DEF Step

(* A step that changes nothing. *)
LEMMA InvStutter == Inv /\ UNCHANGED vars => Inv'
<1> SUFFICES ASSUME Inv, UNCHANGED vars PROVE Inv'
  OBVIOUS
<1>0. TypeOK /\ Places /\ Shared /\ Counted
  BY DEF Inv
<1>1. UNCHANGED <<initialized, num_barriers, barriers, readers, lock, pc, default_barrier,
                  barrier_list, known, call>>
  BY DEF vars
<1>2. TypeOK'
  BY <1>0, <1>1 DEF TypeOK
<1>3. Places'
  BY <1>0, <1>1 DEF Places, CallsMatch, NewcomersJoinedNothing, UsersInitialized, HolderWaits, InList
<1>4. Quiet
  BY <1>1 DEF Quiet
<1>5. Shared' /\ Counted'
  BY <1>0, <1>1, <1>4, ArrayKept
<1> QED BY <1>2, <1>3, <1>5 DEF Inv

(* The invariant holds in every reachable state. *)
LEMMA InvHolds == Spec => []Inv
<1>1. Inv /\ [Next]_vars => Inv'
  BY InvStep, InvStutter DEF Next
<1> QED BY InvInit, <1>1, PTL DEF Spec

(* Whatever joins, leaves, times out or dies, every field of the barriers  *)
(* and of the descriptors of the processes keeps its type.                 *)
THEOREM BarrierTypeCorrect == Spec => []TypeOK
<1>1. Inv => TypeOK
  BY DEF Inv
<1> QED BY InvHolds, <1>1, PTL

(* The slots of shmem_barrier.c have names of their own and are found, and *)
(* while nobody dies they count their members exactly and are at rest for  *)
(* whoever locks them for writing, for any number of processes and slots.  *)
THEOREM SlotsAreAlwaysSound == Spec => []SlotsAreSound
<1>1. Inv => SlotsAreSound
  <2> SUFFICES ASSUME Inv PROVE SlotsAreSound
    OBVIOUS
  <2>1. NamesAreUnique /\ InitializedAreFound
    BY DEF Inv, Shared
  <2>2. ParticipantsAreMembers
    BY DEF Inv, Counted, ParticipantsAreMembers
  <2>3. CountIsZeroForWriters
    BY FS_EmptySet DEF Inv, Counted, ReadersAreInside, CountIsZeroForWriters
  <2> QED BY <2>1, <2>2, <2>3 DEF SlotsAreSound
<1> QED BY InvHolds, <1>1, PTL

(* A step that lets a process past the barrier finds all its members in    *)
(* it: the pthread barrier waits for as many as have joined, only members  *)
(* wait in it, and it is not created anew while somebody is inside.        *)
LEMMA StepLeavesNobodyBehind ==
  ASSUME Inv, NEW r \in Pid, Step(r), NobodyDied, NEW p \in Pid,
         pc[p] \in {"enter", "wait"}, pc'[p] = "released", NEW q \in Members(call[p].slot)
  PROVE  call[q].slot = call[p].slot
<1>0. TypeOK /\ Places /\ Counted /\ ParticipantsAreMembers /\ ReadersAreInside
  BY DEF Inv, Counted
<1>1. pthread_barrier_wait(r)
  <2>1. ~Woken(r)
    BY NoneWoken
  <2>2. \A x : pc' = [pc EXCEPT ![r] = x] => p = r /\ x = "released"
    BY <1>0 DEF TypeOK
  <2>4. ~Open(r)
    BY <1>0 DEF Open, TypeOK
  <2>5. ~NodeBarrierInit(r)
    BY <2>2 DEF NodeBarrierInit, Register, WaitForSlot
  <2>6. ~BarrierNamedRegister(r) /\ ~BarrierAttach(r)
    BY <2>2 DEF BarrierNamedRegister, BarrierAttach, Register, WaitForSlot
  <2>7. ~BarrierNamedAttach(r)
    BY DEF BarrierNamedAttach
  <2>8. ~BarrierNamedDetach(r) /\ ~BarrierDetach(r) /\ ~FinishStep(r)
    BY <2>2 DEF BarrierNamedDetach, BarrierDetach, FinishStep, Leave, WaitForSlot
  <2>9. ~Granted(r)
    BY <2>2 DEF Granted
  <2>10. ~Timeout(r) /\ ~Finish(r) /\ ~Close(r) /\ ~Crash(r) /\ ~Enter(r) /\ ~Exit(r)
    <3>1. ~Timeout(r) /\ ~Close(r)
      BY <2>2 DEF Timeout, Close
    <3>2. ~Finish(r) /\ ~Crash(r)
      BY <2>2 DEF Finish, Crash
    <3>3. ~Enter(r)
      BY <2>2 DEF Enter
    <3>4. ~Exit(r)
      BY <2>2 DEF Exit, LeaveCounted
    <3> QED BY <3>1, <3>2, <3>3, <3>4
  <2> QED BY <2>1, <2>4, <2>5, <2>6, <2>7, <2>8, <2>9, <2>10 DEF Step
<1> DEFINE i == call[r].slot
           all == barriers[i].waiting \cup {r}
<1>2. /\ pc[r] = "enter"
      /\ \A x \in Pid : pc'[x] = IF x \notin all \/ pc[x] \notin {"enter", "wait"} THEN pc[x]
                                 ELSE IF Cardinality(all) >= barriers[i].size THEN "released" ELSE "wait"
  BY <1>1 DEF pthread_barrier_wait
<1>3. i \in Slot /\ NoSlot \notin Slot
  BY <1>0, <1>2, SlotFacts DEF Places, CallsMatch, Inside
<1>4. /\ readers[i] = {x \in Pid : call[x].slot = i}
      /\ readers[i] \subseteq ByDefault(i) \cup ByName(i)
      /\ barriers[i].waiting = {x \in Pid : pc[x] = "wait" /\ call[x].slot = i}
  BY <1>0, <1>3 DEF ReadersAreInside
<1>5. p \in all /\ Cardinality(all) >= barriers[i].size
  BY <1>2
<1>6. all \subseteq readers[i] /\ call[p].slot = i
  BY <1>4, <1>5
<1> DEFINE M == ByDefault(i) \cup ByName(i)
<1>7. Members(i) = M /\ M \in SUBSET Pid
  BY DEF Members, ByDefault, ByName
<1>8. barriers[i].size = Cardinality(ByDefault(i)) + Cardinality(ByName(i))
  BY <1>0, <1>3 DEF ParticipantsAreMembers, ByDefault, ByName
<1>9. Cardinality(M) <= Cardinality(ByDefault(i)) + Cardinality(ByName(i))
  <2> DEFINE A == ByDefault(i)
             B == ByName(i)
  <2>1. A \in SUBSET Pid /\ B \in SUBSET Pid
    BY DEF ByDefault, ByName
  <2> HIDE DEF A, B
  <2>2. IsFiniteSet(A) /\ IsFiniteSet(B) /\ Cardinality(A) \in Nat /\ Cardinality(B) \in Nat
        /\ Cardinality(A \cap B) \in Nat
    BY <2>1, PidSets
  <2>3. Cardinality(A \cup B) = Cardinality(A) + Cardinality(B) - Cardinality(A \cap B)
    BY <2>2, FS_Union
  <2>4. Cardinality(A \cup B) <= Cardinality(A) + Cardinality(B)
    BY <2>2, <2>3
  <2> QED BY <2>4 DEF A, B
<1>10. all \in SUBSET M
  BY <1>4, <1>6
<1> HIDE DEF all, M, i
<1>11. Cardinality(all) \in Nat /\ Cardinality(M) \in Nat /\ Cardinality(all) <= Cardinality(M)
       /\ (Cardinality(all) = Cardinality(M) => all = M)
  BY <1>7, <1>10, PidSets, PidSubsets
<1>12. Cardinality(ByDefault(i)) \in Nat /\ Cardinality(ByName(i)) \in Nat
  BY PidSets DEF ByDefault, ByName
<1>13. all = M
  BY <1>5, <1>8, <1>9, <1>11, <1>12
<1>14. q \in M
  BY <1>6, <1>7
<1> QED BY <1>4, <1>6, <1>13, <1>14

(* While nobody dies, no process goes past a barrier before all that have  *)
(* joined it are in it, whoever joins, leaves or gives up meanwhile.       *)
THEOREM NobodyIsLeftBehind == Spec => NobodyLeftBehind
<1> DEFINE Behind ==
      \A p \in Pid :
       NobodyDied /\ pc[p] \in {"enter", "wait"} /\ pc'[p] = "released" =>
         \A q \in Members(call[p].slot) : pc[q] = "gone" \/ call[q].slot = call[p].slot
<1>1. Inv /\ [Next]_vars => [Behind]_vars
  <2> SUFFICES ASSUME Inv, Next PROVE Behind
    OBVIOUS
  <2>1. PICK r \in Pid : Step(r)
    BY DEF Next
  <2> QED BY <2>1, StepLeavesNobodyBehind
<1> QED BY InvHolds, <1>1, PTL DEF Spec, NobodyLeftBehind
=============================================================================
