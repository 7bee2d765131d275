--------------------------- MODULE CpuInfoProofs ---------------------------
(***************************************************************************)
(* What the operations on the CPU table do, whatever the node: they keep   *)
(* its type, and what one operation does to a CPU is who owns it, who uses *)
(* it, whether it is claimed, and whether the sets free_cpus and           *)
(* occupied_cores still find it.                                           *)
(***************************************************************************)
EXTENDS CpuInfo, FiniteSetTheorems, WellFoundedInduction, TLAPS

-----------------------------------------------------------------------------
(* Queues *)

(* The positions that a removal keeps are numbered without gaps. *)
LEMMA RankExists ==
  ASSUME NEW n \in Nat, NEW keep \in SUBSET (1 .. n),
         NEW k \in 1 .. Cardinality(keep)
  PROVE  \E i \in keep : Cardinality({j \in keep : j <= i}) = k
<1> DEFINE below(i) == {j \in keep : j <= i}
           N == Cardinality(keep)
           rank == [i \in keep |-> Cardinality(below(i))]
<1>1. IsFiniteSet(keep) /\ N \in Nat
  <2>1. IsFiniteSet(1 .. n)
    BY FS_Interval
  <2> QED BY <2>1, FS_Subset, FS_CardinalityType
<1>2. ASSUME NEW i \in keep
      PROVE  IsFiniteSet(below(i)) /\ Cardinality(below(i)) \in 1 .. N
  <2>1. below(i) \in SUBSET keep OBVIOUS
  <2>2. IsFiniteSet(below(i)) /\ Cardinality(below(i)) <= N
    BY <1>1, <2>1, FS_Subset
  <2>3. Cardinality(below(i)) \in Nat
    BY <2>2, FS_CardinalityType
  <2>4. i \in below(i) OBVIOUS
  <2>5. Cardinality(below(i)) # 0
    BY <2>2, <2>4, FS_EmptySet
  <2> QED BY <1>1, <2>2, <2>3, <2>5
<1>3. ASSUME NEW i \in keep, NEW j \in keep, i < j
      PROVE  Cardinality(below(i)) # Cardinality(below(j))
  <2> i \in Int /\ j \in Int /\ keep \subseteq Int OBVIOUS
  <2> \A l \in keep : l <= i => l <= j
    BY <1>3
  <2> j <= j /\ ~(j <= i)
    BY <1>3
  <2>1. below(i) \in SUBSET below(j) /\ j \in below(j) /\ j \notin below(i)
    OBVIOUS
  <2> QED BY <1>2, <2>1, FS_Subset
<1>4. rank \in [keep -> 1 .. N]
  BY <1>2
<1>5. \A i, j \in keep : i # j => rank[i] # rank[j]
  BY <1>3
<1>6. rank \in Injection(keep, 1 .. N)
  BY <1>4, <1>5 DEF Injection, IsInjective
<1>7. IsFiniteSet(1 .. N) /\ Cardinality(1 .. N) = N
  BY <1>1, FS_Interval
<1>8. rank \in Surjection(keep, 1 .. N)
  BY <1>6, <1>7, FS_Injection
<1>9. PICK i \in keep : rank[i] = k
  BY <1>8 DEF Surjection
<1> QED BY <1>9

(* A removal leaves a queue of the items at the positions that it keeps. *)
LEMMA CompactType ==
  ASSUME NEW S, NEW q \in Seq(S), NEW keep \in SUBSET (1 .. Len(q))
  PROVE  /\ Compact(q, keep) \in Seq(S)
         /\ Len(Compact(q, keep)) = Cardinality(keep)
         /\ \A k \in 1 .. Cardinality(keep) : \E i \in keep : Compact(q, keep)[k] = q[i]
<1>1. Len(q) \in Nat OBVIOUS
<1>2. Cardinality(keep) \in Nat
  <2>1. IsFiniteSet(1 .. Len(q))
    BY <1>1, FS_Interval
  <2> QED BY <2>1, FS_Subset, FS_CardinalityType
<1>3. \A k \in 1 .. Cardinality(keep) :
        \E i \in keep : Cardinality({j \in keep : j <= i}) = k
  BY <1>1, RankExists
<1>4. \A k \in 1 .. Cardinality(keep) : \E i \in keep : Compact(q, keep)[k] = q[i]
  BY <1>3 DEF Compact
<1>5. \A i \in keep : q[i] \in S OBVIOUS
<1>6. Compact(q, keep) \in [1 .. Cardinality(keep) -> S]
  BY <1>4, <1>5 DEF Compact
<1> QED BY <1>2, <1>4, <1>6

(* The first eligible request exists. *)
LEMMA MinInSet ==
  ASSUME NEW T \in SUBSET Nat, T # {}
  PROVE  Min(T) \in T
<1> DEFINE R == OpToRel(<, Nat)
<1>1. IsWellFoundedOn(R, Nat)
  BY NatLessThanWellFounded
<1>2. \E x \in T : \A y \in T : ~(<<y, x>> \in R)
  <2> HIDE DEF R
  <2> QED BY <1>1, WFMin
<1>3. PICK x \in T : \A y \in T : ~(<<y, x>> \in R)
  BY <1>2
<1>4. \A y \in T : ~(y < x)
  BY <1>3 DEF OpToRel
<1>5. \A y \in T : x <= y
  BY <1>4
<1> QED BY <1>5 DEF Min

(* Taking one request out of a queue leaves a queue. *)
LEMMA RemoveAtType ==
  ASSUME NEW S, NEW q \in Seq(S), NEW i \in 1 .. Len(q)
  PROVE  RemoveAt(q, i) \in Seq(S)
BY DEF RemoveAt

(* queue_pid_t_remove leaves a queue of pids. *)
LEMMA QueueRemoveType ==
  ASSUME NEW S, NEW q \in Seq(S), NEW pid
  PROVE  queue_remove(q, pid) \in Seq(S)
BY CompactType DEF queue_remove

-----------------------------------------------------------------------------
(* One operation on the table *)

(* A table freshly initialised by init_shmem is well formed. *)
LEMMA InitShmemType == \A b \in BOOLEAN : init_shmem(b) \in ShData
BY DEF init_shmem, ShData, PidOrNobody, CpuState

(* The tasks to enable and to disable a CPU are well formed. *)
LEMMA TaskType ==
  \A p \in PidOrNobody, c \in Cpu : EnableTask(p, c) \in Task /\ DisableTask(p, c) \in Task
BY DEF EnableTask, DisableTask, Task

(* update_occupied_cores keeps occupied_cores a set of CPUs. *)
LEMMA UpdateOccupiedType ==
  ASSUME NEW s \in ShData, NEW own, NEW c \in Cpu
  PROVE  update_occupied_cores(s, own, c) \in ShData
BY CpuInfoAssumption DEF update_occupied_cores, ShData

(* Removing the requests of a process keeps the queue well formed. *)
LEMMA RemoveProcRequestsType ==
  ASSUME NEW s \in ShData, NEW pid
  PROVE  remove_proc_requests(s, pid) \in ShData
<1> DEFINE q == s.lewi_mask_requests
<1>1. q \in Seq(ProcRequest)
  BY DEF ShData
<1>2. Compact(q, {i \in 1 .. Len(q) : q[i].pid # pid}) \in Seq(ProcRequest)
  BY <1>1, CompactType
<1> QED BY <1>2 DEF remove_proc_requests, ShData

(* shmem_cpuinfo__remove_requests keeps the table well formed. *)
LEMMA RemoveRequestsType ==
  ASSUME NEW s \in ShData, NEW pid, NEW cpus
  PROVE  remove_requests(s, pid, cpus) \in ShData
<1> DEFINE t == remove_proc_requests(s, pid)
<1>1. t \in ShData
  BY RemoveProcRequestsType
<1>2. \A c \in Cpu : queue_remove(t.requests[c], pid) \in Seq(PidOrNobody)
  BY <1>1, QueueRemoveType DEF ShData
<1> HIDE DEF t
<1>3. [t EXCEPT !.requests = [c \in Cpu |-> IF c \in cpus
                                THEN queue_remove(t.requests[c], pid)
                                ELSE t.requests[c]]] \in ShData
  BY <1>1, <1>2 DEF ShData
<1> QED BY <1>3 DEF remove_requests, t

(* register_cpu keeps the table well formed. *)
LEMMA RegisterCpuType ==
  ASSUME NEW s \in ShData, NEW pid \in Pid, NEW pre, NEW c \in Cpu
  PROVE  register_cpu(s, pid, pre, c) \in ShData
<1> DEFINE t == [s EXCEPT !.owner[c] = pid,
                     !.state[c] = "BUSY",
                     !.guest[c] = IF @ \in {NOBODY, pre} THEN pid ELSE @,
                     !.free_cpus = @ \ {c}]
<1>1. t \in ShData
  BY DEF ShData, PidOrNobody, CpuState
<1> QED BY <1>1, UpdateOccupiedType DEF register_cpu

(* A table stays well formed when fields get values of their types. *)
LEMMA NewFieldsType ==
  ASSUME NEW s \in ShData, NEW o \in [Cpu -> PidOrNobody], NEW g \in [Cpu -> PidOrNobody],
         NEW st \in [Cpu -> CpuState], NEW r \in [Cpu -> Seq(PidOrNobody)],
         NEW f \in SUBSET Cpu, NEW oc \in SUBSET Cpu
  PROVE  [s EXCEPT !.owner = o, !.guest = g, !.state = st, !.requests = r,
                   !.free_cpus = f, !.occupied_cores = oc] \in ShData
BY DEF ShData

(* deregister_cpu keeps the table well formed. *)
LEMMA DeregisterCpuType ==
  ASSUME NEW s \in ShData, NEW pid \in Pid, NEW c \in Cpu
  PROVE  deregister_cpu(s, pid, c) \in ShData
<1>1. queue_remove(s.requests[c], pid) \in Seq(PidOrNobody)
  BY QueueRemoveType DEF ShData
<1>2. <<>> \in Seq(PidOrNobody)
  OBVIOUS
<1> DEFINE guest == IF s.guest[c] = pid THEN NOBODY ELSE s.guest[c]
<1>3. guest \in PidOrNobody /\ NOBODY \in PidOrNobody
  BY DEF ShData, PidOrNobody
<1> HIDE DEF guest
<1>4. CASE s.owner[c] = pid
  <2> DEFINE o == [s.owner EXCEPT ![c] = NOBODY]
             g == [s.guest EXCEPT ![c] = guest]
             st == [s.state EXCEPT ![c] = IF PublicPostMortem THEN "LENT" ELSE "DISABLED"]
             r == [s.requests EXCEPT ![c] = IF PublicPostMortem THEN @ ELSE <<>>]
             f == IF ~PublicPostMortem THEN s.free_cpus \ {c}
                  ELSE IF guest = NOBODY THEN s.free_cpus \cup {c} ELSE s.free_cpus
             oc == s.occupied_cores \ core_mask[c]
  <2>1. o \in [Cpu -> PidOrNobody] /\ g \in [Cpu -> PidOrNobody]
    BY <1>3 DEF ShData
  <2>2. st \in [Cpu -> CpuState]
    BY DEF ShData, CpuState
  <2>3. r \in [Cpu -> Seq(PidOrNobody)]
    BY <1>2 DEF ShData
  <2>4. f \in SUBSET Cpu /\ oc \in SUBSET Cpu
    BY DEF ShData
  <2>5. deregister_cpu(s, pid, c) =
          [s EXCEPT !.owner = o, !.guest = g, !.state = st, !.requests = r,
                    !.free_cpus = f, !.occupied_cores = oc]
    BY <1>4, Zenon DEF deregister_cpu, guest
  <2> HIDE DEF o, g, st, r, f, oc
  <2>6. [s EXCEPT !.owner = o, !.guest = g, !.state = st, !.requests = r,
                  !.free_cpus = f, !.occupied_cores = oc] \in ShData
    BY <2>1, <2>2, <2>3, <2>4, NewFieldsType, Zenon
  <2> QED BY <2>5, <2>6, Zenon
<1>5. CASE s.owner[c] # pid
  BY <1>1, <1>3, <1>5 DEF deregister_cpu, ShData, guest
<1> QED BY <1>4, <1>5

-----------------------------------------------------------------------------
(* Lend *)

(* find_new_guest names a process or NOBODY, and a request that is
   partly served still asks for at least one CPU. *)
LEMMA FindNewGuestType ==
  ASSUME NEW s \in ShData, NEW c \in Cpu
  PROVE  /\ find_new_guest(s, c).shm \in ShData
         /\ find_new_guest(s, c).pid \in PidOrNobody
<1>0. /\ s.owner[c] \in PidOrNobody /\ NOBODY \in PidOrNobody
      /\ s.requests[c] \in Seq(PidOrNobody)
      /\ s.lewi_mask_requests \in Seq(ProcRequest)
  BY DEF ShData, PidOrNobody
<1>1. ASSUME CpuCandidates(s, c) # {}
      PROVE  LET f == serve_cpu_request(s, c, Min(CpuCandidates(s, c)))
             IN f.shm \in ShData /\ f.pid \in PidOrNobody
  <2> DEFINE i == Min(CpuCandidates(s, c))
  <2>1. CpuCandidates(s, c) \in SUBSET Nat /\ CpuCandidates(s, c) \subseteq 1 .. Len(s.requests[c])
    BY <1>0 DEF CpuCandidates
  <2>2. i \in 1 .. Len(s.requests[c])
    BY <1>1, <2>1, MinInSet
  <2> HIDE DEF i
  <2>3. RemoveAt(s.requests[c], i) \in Seq(PidOrNobody)
    BY <1>0, <2>2, RemoveAtType
  <2>4. s.requests[c][i] \in PidOrNobody
    BY <1>0, <2>2
  <2>5. [s EXCEPT !.requests[c] = RemoveAt(s.requests[c], i)] \in ShData
    BY <2>3 DEF ShData
  <2> QED BY <2>4, <2>5 DEF serve_cpu_request, i
<1>2. ASSUME ProcCandidates(s, c) # {}
      PROVE  LET f == serve_proc_request(s, Min(ProcCandidates(s, c)))
             IN f.shm \in ShData /\ f.pid \in PidOrNobody
  <2> DEFINE q == s.lewi_mask_requests
             i == Min(ProcCandidates(s, c))
  <2>1. ProcCandidates(s, c) \in SUBSET Nat /\ ProcCandidates(s, c) \subseteq 1 .. Len(q)
    BY <1>0 DEF ProcCandidates
  <2>2. i \in 1 .. Len(q)
    BY <1>2, <2>1, MinInSet
  <2> HIDE DEF i
  <2>3. q[i] \in ProcRequest
    BY <1>0, <2>2
  <2>4. q[i].pid \in PidOrNobody
    BY <2>3 DEF ProcRequest, PidOrNobody
  <2>5. RemoveAt(q, i) \in Seq(ProcRequest)
    BY <1>0, <2>2, RemoveAtType
  <2>6. ASSUME q[i].howmany # 1
        PROVE  [q EXCEPT ![i].howmany = q[i].howmany - 1] \in Seq(ProcRequest)
    <3>1. [q[i] EXCEPT !.howmany = q[i].howmany - 1] \in ProcRequest
      BY <2>3, <2>6 DEF ProcRequest
    <3>2. [q EXCEPT ![i] = [q[i] EXCEPT !.howmany = q[i].howmany - 1]] \in Seq(ProcRequest)
      BY <1>0, <2>2, <3>1
    <3> QED BY <3>2
  <2>7. CASE q[i].howmany = 1
    BY <2>4, <2>5, <2>7 DEF serve_proc_request, ShData, i
  <2>8. CASE q[i].howmany # 1
    BY <2>4, <2>6, <2>8 DEF serve_proc_request, ShData, i
  <2> QED BY <2>7, <2>8
<1> QED BY <1>0, <1>1, <1>2 DEF find_new_guest

(* Giving a free CPU to whoever asked for it keeps the table well formed. *)
LEMMA AssignGuestType ==
  ASSUME NEW s \in ShData, NEW d \in Cpu
  PROVE  assign_guest(s, d) \in ShData
<1> DEFINE f == find_new_guest(s, d)
<1>1. f.shm \in ShData /\ f.pid \in PidOrNobody
  BY FindNewGuestType
<1>2. EnableTask(f.pid, d) \in Task
  BY <1>1, TaskType
<1> HIDE DEF f
<1>3. give_cpu(f, d) \in ShData
  BY <1>1, <1>2 DEF give_cpu, ShData
<1> QED BY <1>3 DEF assign_guest, f

(* So does offering the other CPU of the core. *)
LEMMA AssignSiblingsType ==
  ASSUME NEW s \in ShData, NEW c \in Cpu
  PROVE  assign_siblings(s, c) \in ShData
<1>1. \A d \in Cpu : assign_sibling(s, d) \in ShData
  <2> TAKE d \in Cpu
  <2>1. \A t \in ShData : clear_if_guested(t, d) \in ShData
    BY DEF clear_if_guested, ShData
  <2> QED BY <2>1, AssignGuestType DEF assign_sibling
<1>2. core_mask[c] # {c} => (CHOOSE d \in core_mask[c] : d # c) \in Cpu
  BY CpuInfoAssumption
<1> QED BY <1>1, <1>2 DEF assign_siblings

(* So does offering the lent CPU and its core. *)
LEMMA OfferCpuType ==
  ASSUME NEW s \in ShData, NEW c \in Cpu
  PROVE  offer_cpu(s, c) \in ShData
<1>1. \A t \in ShData : after_offer(t, c) \in ShData
  <2> TAKE t \in ShData
  <2>1. [t EXCEPT !.free_cpus = t.free_cpus \cup {c}] \in ShData
    BY DEF ShData
  <2> QED BY <2>1, AssignSiblingsType DEF after_offer
<1> QED BY <1>1, AssignGuestType DEF offer_cpu

(* The lender leaves the CPU in a well-formed table. *)
LEMMA ReleaseCpuType ==
  ASSUME NEW s \in ShData, NEW pid, NEW c \in Cpu
  PROVE  release_cpu(s, pid, c) \in ShData
<1>1. queue_remove(s.requests[c], pid) \in Seq(PidOrNobody)
  BY QueueRemoveType DEF ShData
<1> QED BY <1>1 DEF release_cpu, ShData, PidOrNobody, CpuState

(* lend_cpu keeps the table well formed. *)
LEMMA LendCpuType ==
  ASSUME NEW s \in ShData, NEW pid, NEW c \in Cpu
  PROVE  lend_cpu(s, pid, c) \in ShData
BY ReleaseCpuType, OfferCpuType, UpdateOccupiedType DEF lend_cpu

-----------------------------------------------------------------------------
(* Reclaim, acquire, borrow and return *)

(* reclaim_cpu keeps the table well formed. *)
LEMMA ReclaimCpuType ==
  ASSUME NEW s \in ShData, NEW pid \in Pid, NEW c \in Cpu
  PROVE  reclaim_cpu(s, pid, c).shm \in ShData
<1>1. /\ s.guest[c] \in PidOrNobody /\ pid \in PidOrNobody
      /\ "BUSY" \in CpuState
  BY DEF ShData, PidOrNobody, CpuState
<1>2. EnableTask(pid, c) \in Task /\ DisableTask(s.guest[c], c) \in Task
  BY <1>1, TaskType
<1>3. [s EXCEPT !.state[c] = "BUSY"] \in ShData
  BY <1>1 DEF ShData
<1>4. [s EXCEPT !.state[c] = "BUSY", !.guest[c] = pid, !.free_cpus = @ \ {c},
                !.tasks = @ \cup {EnableTask(pid, c)}] \in ShData
  BY <1>1, <1>2 DEF ShData
<1>5. [s EXCEPT !.state[c] = "BUSY", !.tasks =
         @ \cup {DisableTask(s.guest[c], c), EnableTask(pid, c)}] \in ShData
  BY <1>1, <1>2 DEF ShData
<1>6. CASE s.owner[c] # pid
  BY <1>6 DEF reclaim_cpu
<1>7. CASE s.owner[c] = pid /\ s.guest[c] = pid
  BY <1>3, <1>7 DEF reclaim_cpu
<1>8. CASE s.owner[c] = pid /\ s.guest[c] # pid /\ s.guest[c] = NOBODY
  BY <1>4, <1>8 DEF reclaim_cpu, ShData
<1>9. CASE s.owner[c] = pid /\ s.guest[c] # pid /\ s.guest[c] # NOBODY
  BY <1>5, <1>9 DEF reclaim_cpu, ShData
<1> QED BY <1>6, <1>7, <1>8, <1>9

(* So does shmem_cpuinfo__reclaim_cpu, with the rest of the core. *)
LEMMA ReclaimCpuAndCoreType ==
  ASSUME NEW s \in ShData, NEW pid \in Pid, NEW c \in Cpu
  PROVE  reclaim_cpu_and_core(s, pid, c).shm \in ShData
<1> DEFINE r == reclaim_cpu(s, pid, c)
           off == {DisableTask(r.shm.guest[d], d) :
                     d \in {e \in core_mask[c] \ {c} : r.shm.guest[e] # pid}}
<1>1. r.shm \in ShData
  BY ReclaimCpuType
<1>2. r \in [shm : {r.shm}, error : {r.error}]
  BY DEF reclaim_cpu
<1> HIDE DEF r
<1>3. off \in SUBSET Task
  <2>1. core_mask[c] \subseteq Cpu
    BY CpuInfoAssumption
  <2>2. \A d \in core_mask[c] : r.shm.guest[d] \in PidOrNobody
    BY <1>1, <2>1 DEF ShData
  <2> QED BY <2>1, <2>2, TaskType
<1> HIDE DEF off
<1>4. [r.shm EXCEPT !.tasks = @ \cup off] \in ShData
  BY <1>1, <1>3 DEF ShData
<1>5. [r EXCEPT !.shm.tasks = @ \cup off].shm = [r.shm EXCEPT !.tasks = @ \cup off]
  BY <1>2
<1>6. vacate_core(r, pid, c).shm \in ShData
  BY <1>1, <1>4, <1>5 DEF vacate_core, off
<1> QED BY <1>6 DEF reclaim_cpu_and_core, r

(* Becoming the guest of a CPU keeps the table well formed. *)
LEMMA TakeCpuType ==
  ASSUME NEW s \in ShData, NEW pid \in Pid, NEW c \in Cpu
  PROVE  take_cpu(s, pid, c) \in ShData
<1>1. pid \in PidOrNobody
  BY DEF PidOrNobody
<1>2. EnableTask(pid, c) \in Task
  BY <1>1, TaskType
<1> QED BY <1>1, <1>2 DEF take_cpu, ShData

(* So does noting that its core is occupied. *)
LEMMA NoteOccupiedType ==
  ASSUME NEW s \in ShData, NEW c \in Cpu
  PROVE  note_occupied(s, c) \in ShData
BY UpdateOccupiedType DEF note_occupied

(* So does taking it out of free_cpus. *)
LEMMA ClearFreeType ==
  ASSUME NEW s \in ShData, NEW c \in Cpu
  PROVE  [s EXCEPT !.free_cpus = @ \ {c}] \in ShData
BY DEF ShData

(* So does claiming it. *)
LEMMA SetBusyType ==
  ASSUME NEW s \in ShData, NEW c \in Cpu
  PROVE  [s EXCEPT !.state[c] = "BUSY"] \in ShData
BY DEF ShData, CpuState

(* A request joins the queue of a CPU. *)
LEMMA EnqueueType ==
  ASSUME NEW s \in ShData, NEW pid \in PidOrNobody, NEW c \in Cpu
  PROVE  [s EXCEPT !.requests[c] = Append(@, pid)] \in ShData
<1>1. Append(s.requests[c], pid) \in Seq(PidOrNobody)
  BY DEF ShData
<1> QED BY <1>1 DEF ShData

(* acquire_cpu keeps the table well formed. *)
LEMMA AcquireCpuType ==
  ASSUME NEW s \in ShData, NEW pid \in Pid, NEW c \in Cpu
  PROVE  acquire_cpu(s, pid, c).shm \in ShData
<1> DEFINE busy == [s EXCEPT !.state[c] = "BUSY"]
           noted == [busy EXCEPT !.tasks =
                       @ \cup {DisableTask(s.guest[c], c), EnableTask(pid, c)}]
           t == take_cpu(s, pid, c)
           u == IF s.owner[c] # NOBODY THEN note_occupied(t, c) ELSE t
<1>1. busy \in ShData
  BY SetBusyType
<1>2. [take_cpu(busy, pid, c) EXCEPT !.free_cpus = @ \ {c}] \in ShData
  BY <1>1, TakeCpuType, ClearFreeType
<1>3. noted \in ShData
  <2>1. s.guest[c] \in PidOrNobody /\ pid \in PidOrNobody
    BY DEF ShData, PidOrNobody
  <2>2. EnableTask(pid, c) \in Task /\ DisableTask(s.guest[c], c) \in Task
    BY <2>1, TaskType
  <2> HIDE DEF busy
  <2> QED BY <1>1, <2>2 DEF ShData
<1>4. note_occupied(noted, c) \in ShData
  BY <1>3, NoteOccupiedType
<1>5. [u EXCEPT !.free_cpus = @ \ {c}] \in ShData
  BY TakeCpuType, NoteOccupiedType, ClearFreeType
<1>6. [s EXCEPT !.requests[c] = Append(@, pid)] \in ShData
  BY EnqueueType DEF PidOrNobody
<1> QED BY <1>2, <1>4, <1>5, <1>6 DEF acquire_cpu

(* borrow_cpu keeps the table well formed. *)
LEMMA BorrowCpuType ==
  ASSUME NEW s \in ShData, NEW pid \in Pid, NEW c \in Cpu
  PROVE  borrow_cpu(s, pid, c).shm \in ShData
<1> DEFINE t == [take_cpu(s, pid, c) EXCEPT !.free_cpus = @ \ {c}]
<1>1. t \in ShData
  BY TakeCpuType, ClearFreeType
<1>2. [t EXCEPT !.state[c] = "BUSY"] \in ShData
  BY <1>1, SetBusyType
<1>3. note_occupied(t, c) \in ShData
  BY <1>1, NoteOccupiedType
<1> QED BY <1>1, <1>2, <1>3 DEF borrow_cpu

(* A CPU left by its guest goes to its owner or to nobody. *)
LEMMA VacateCpuType ==
  ASSUME NEW s \in ShData, NEW c \in Cpu
  PROVE  vacate_cpu(s, c) \in ShData
<1>1. [s EXCEPT !.guest[c] = s.owner[c]] \in ShData
  BY DEF ShData
<1>2. [s EXCEPT !.guest[c] = NOBODY, !.free_cpus = @ \cup {c}] \in ShData
  BY DEF ShData, PidOrNobody
<1> QED BY <1>1, <1>2, UpdateOccupiedType DEF vacate_cpu

(* Adding tasks keeps the table well formed. *)
LEMMA AddTaskType ==
  ASSUME NEW s \in ShData, NEW tasks \in SUBSET Task
  PROVE  [s EXCEPT !.tasks = @ \cup tasks] \in ShData
BY DEF ShData

(* So does telling a process to leave a CPU. *)
LEMMA DisableType ==
  ASSUME NEW s \in ShData, NEW pid \in PidOrNobody, NEW c \in Cpu
  PROVE  [s EXCEPT !.tasks = @ \cup {DisableTask(pid, c)}] \in ShData
BY TaskType, AddTaskType

(* return_cpu keeps the table well formed. *)
LEMMA ReturnCpuType ==
  ASSUME NEW s \in ShData, NEW pid \in Pid, NEW c \in Cpu
  PROVE  return_cpu(s, pid, c).shm \in ShData
<1>1. pid \in PidOrNobody
  BY DEF PidOrNobody
<1> QED BY <1>1, VacateCpuType, DisableType DEF return_cpu

(* shmem_cpuinfo__return_async keeps the table well formed. *)
LEMMA ReturnAsyncType ==
  ASSUME NEW s \in ShData, NEW pid \in PidOrNobody, NEW c \in Cpu
  PROVE  return_async(s, pid, c) \in ShData
BY VacateCpuType, EnqueueType DEF return_async, enqueue_request

-----------------------------------------------------------------------------
(* Whole cores *)

(* A core has a first and a last CPU. *)
LEMMA CoreEnds ==
  ASSUME NEW c \in Cpu
  PROVE  first_cpu(c) \in Cpu /\ last_cpu(c) \in Cpu
<1> DEFINE S == core_mask[c]
<1>1. S \subseteq Cpu /\ c \in S /\ Cpu \subseteq Nat
  BY CpuInfoAssumption
<1>2. \A d, e \in S \ {c} : d = e
  BY CpuInfoAssumption
<1> HIDE DEF S
<1>3. /\ \E d \in S : \A e \in S : d <= e
      /\ \E d \in S : \A e \in S : e <= d
  <2>1. CASE S = {c}
    BY <1>1, <2>1
  <2>2. CASE S # {c}
    <3>1. PICK d \in S : d # c
      BY <1>1, <2>2
    <3>2. \A e \in S : e = c \/ e = d
      BY <1>2, <3>1
    <3>3. c \in Nat /\ d \in Nat
      BY <1>1, <3>1
    <3>4. CASE c <= d
      BY <1>1, <3>1, <3>2, <3>3, <3>4
    <3>5. CASE d <= c
      BY <1>1, <3>1, <3>2, <3>3, <3>5
    <3> QED BY <3>3, <3>4, <3>5
  <2> QED BY <2>1, <2>2
<1>4. /\ (CHOOSE d \in S : \A e \in S : d <= e) \in S
      /\ (CHOOSE d \in S : \A e \in S : e <= d) \in S
  BY <1>3
<1> QED BY <1>1, <1>4 DEF first_cpu, last_cpu, S

(* Trying the CPUs of a core gives a table and a number of CPUs obtained. *)
LEMMA CoreResultType ==
  ASSUME NEW pid, NEW c, NEW r, NEW q, r.shm \in ShData, q.shm \in ShData
  PROVE  /\ core_result(pid, c, r, q).shm \in ShData
         /\ core_result(pid, c, r, q).num \in Nat
<1>1. Obtained(r) \in {0, 1} /\ Obtained(q) \in {0, 1}
  BY DEF Obtained
<1>2. Obtained(r) + Obtained(q) \in Nat /\ Obtained(r) \in Nat
  BY <1>1
<1> QED BY <1>2 DEF core_result

(* reclaim_core keeps the table well formed and counts its CPUs. *)
LEMMA ReclaimCoreType ==
  ASSUME NEW s \in ShData, NEW pid \in Pid, NEW c \in Cpu
  PROVE  reclaim_core(s, pid, c).shm \in ShData /\ reclaim_core(s, pid, c).num \in Nat
<1> DEFINE r == reclaim_cpu(s, pid, first_cpu(c))
           q == reclaim_cpu(r.shm, pid, last_cpu(c))
<1>1. r.shm \in ShData
  BY CoreEnds, ReclaimCpuType
<1>2. q.shm \in ShData
  BY <1>1, CoreEnds, ReclaimCpuType
<1> HIDE DEF r, q
<1>3. core_result(pid, c, r, q).shm \in ShData /\ core_result(pid, c, r, q).num \in Nat
  BY <1>1, <1>2, CoreResultType
<1> QED BY <1>3 DEF reclaim_core, r, q

(* acquire_core keeps the table well formed and counts its CPUs. *)
LEMMA AcquireCoreType ==
  ASSUME NEW s \in ShData, NEW pid \in Pid, NEW c \in Cpu
  PROVE  acquire_core(s, pid, c).shm \in ShData /\ acquire_core(s, pid, c).num \in Nat
<1> DEFINE r == acquire_cpu(s, pid, first_cpu(c))
           q == acquire_cpu(r.shm, pid, last_cpu(c))
<1>1. r.shm \in ShData
  BY CoreEnds, AcquireCpuType
<1>2. q.shm \in ShData
  BY <1>1, CoreEnds, AcquireCpuType
<1> HIDE DEF r, q
<1>3. core_result(pid, c, r, q).shm \in ShData /\ core_result(pid, c, r, q).num \in Nat
  BY <1>1, <1>2, CoreResultType
<1> QED BY <1>3 DEF acquire_core, r, q

(* borrow_core keeps the table well formed and counts its CPUs. *)
LEMMA BorrowCoreType ==
  ASSUME NEW s \in ShData, NEW pid \in Pid, NEW c \in Cpu
  PROVE  borrow_core(s, pid, c).shm \in ShData /\ borrow_core(s, pid, c).num \in Nat
<1> DEFINE r == borrow_cpu(s, pid, first_cpu(c))
           q == borrow_cpu(r.shm, pid, last_cpu(c))
<1>1. r.shm \in ShData
  BY CoreEnds, BorrowCpuType
<1>2. q.shm \in ShData
  BY <1>1, CoreEnds, BorrowCpuType
<1> HIDE DEF r, q
<1>3. core_result(pid, c, r, q).shm \in ShData /\ core_result(pid, c, r, q).num \in Nat
  BY <1>1, <1>2, CoreResultType
<1> QED BY <1>3 DEF borrow_core, r, q

-----------------------------------------------------------------------------
(* Deregister, reset, max_parallelism and ownership *)

(* An iteration of shmem_cpuinfo__deregister keeps the table well formed. *)
LEMMA DeregisterOneType ==
  ASSUME NEW s \in ShData, NEW pid \in Pid, NEW c \in Cpu
  PROVE  deregister_one(s, pid, c) \in ShData
<1> DEFINE lent == lend_cpu(s, pid, c)
           recl == reclaim_cpu(s, pid, c).shm
           dis == [recl EXCEPT !.guest[c] = IF @ = pid THEN NOBODY ELSE @,
                               !.state[c] = "DISABLED",
                               !.free_cpus = @ \ {c}]
           t == IF PublicPostMortem THEN lent ELSE dis
<1>1. lent \in ShData /\ recl \in ShData
  BY LendCpuType, ReclaimCpuType
<1>2. dis \in ShData
  <2> HIDE DEF recl
  <2> QED BY <1>1 DEF ShData, PidOrNobody, CpuState
<1>3. t \in ShData
  BY <1>1, <1>2
<1>4. [t EXCEPT !.owner[c] = NOBODY, !.occupied_cores = @ \ {c}] \in ShData
  <2> HIDE DEF t
  <2> QED BY <1>3 DEF ShData, PidOrNobody
<1> QED BY <1>1, <1>4 DEF deregister_one

(* An iteration of shmem_cpuinfo__reset keeps the table well formed. *)
LEMMA ResetOneType ==
  ASSUME NEW s \in ShData, NEW pid \in Pid, NEW c \in Cpu
  PROVE  reset_one(s, pid, c) \in ShData
<1>1. pid \in PidOrNobody
  BY DEF PidOrNobody
<1> QED BY <1>1, LendCpuType, ReclaimCpuType, DisableType DEF reset_one

(* An iteration of update_max_parallelism keeps the table well formed. *)
LEMMA ShedCpuType ==
  ASSUME NEW s \in ShData, NEW pid \in Pid, NEW c \in Cpu
  PROVE  shed_cpu(s, pid, c) \in ShData
<1>1. pid \in PidOrNobody
  BY DEF PidOrNobody
<1> QED BY <1>1, LendCpuType, DisableType DEF shed_cpu

(* An iteration of update_ownership keeps the table well formed. *)
LEMMA UpdateOwnershipOneType ==
  ASSUME NEW s \in ShData, NEW pid \in Pid, NEW mask, NEW c \in Cpu
  PROVE  update_ownership_one(s, pid, mask, c) \in ShData
<1>1. /\ pid \in PidOrNobody /\ NOBODY \in PidOrNobody
      /\ s.guest[c] \in PidOrNobody
      /\ "BUSY" \in CpuState /\ "DISABLED" \in CpuState
  BY DEF ShData, PidOrNobody, CpuState
<1>2. own_cpu(s, pid, c) \in ShData
  <2> DEFINE idle == s.guest[c] = NOBODY
             guest == IF idle THEN pid ELSE s.guest[c]
             new == {EnableTask(pid, c)} \cup
                    (IF guest # pid THEN {DisableTask(guest, c)} ELSE {})
  <2>1. guest \in PidOrNobody
    BY <1>1
  <2>2. new \in SUBSET Task
    BY <1>1, <2>1, TaskType
  <2> HIDE DEF guest, new
  <2>3. [s EXCEPT !.owner[c] = pid,
            !.state[c] = "BUSY",
            !.guest[c] = guest,
            !.free_cpus = IF idle THEN @ \ {c} ELSE @,
            !.occupied_cores = IF idle THEN @ \ {c} ELSE @,
            !.tasks = @ \cup new] \in ShData
    BY <1>1, <2>1, <2>2 DEF ShData
  <2>4. s.tasks \cup {EnableTask(pid, c)} \cup
          (IF guest # pid THEN {DisableTask(guest, c)} ELSE {}) = s.tasks \cup new
    BY DEF new
  <2> QED BY <2>3, <2>4 DEF own_cpu, guest, ShData
<1>3. disown_cpu(s, pid, c) \in ShData
  <2>1. DisableTask(pid, c) \in Task
    BY <1>1, TaskType
  <2> QED BY <1>1, <2>1 DEF disown_cpu, ShData
<1> QED BY <1>2, <1>3, ReturnCpuType DEF update_ownership_one
-----------------------------------------------------------------------------
(* Whom an operation may take a CPU from *)

(* From table s to table t, only pid may have lost a CPU. *)
OnlyLoses(s, t, pid) ==
  \A d \in Cpu : s.guest[d] = t.guest[d] \/ s.guest[d] = NOBODY \/ s.guest[d] = pid

(* If each of two operations takes CPUs from pid only, so do both. *)
LEMMA OnlyLosesTrans ==
  ASSUME NEW s, NEW t, NEW u, NEW pid, OnlyLoses(s, t, pid), OnlyLoses(t, u, pid)
  PROVE  OnlyLoses(s, u, pid)
BY DEF OnlyLoses

(* The bookkeeping of occupied_cores moves no guest. *)
LEMMA UpdateOccupiedGuest ==
  ASSUME NEW s \in ShData, NEW own, NEW c
  PROVE  update_occupied_cores(s, own, c).guest = s.guest
BY DEF update_occupied_cores, ShData

(* Noting that a core is occupied moves no guest. *)
LEMMA NoteOccupiedGuest ==
  ASSUME NEW s \in ShData, NEW c
  PROVE  note_occupied(s, c).guest = s.guest
BY UpdateOccupiedGuest DEF note_occupied

(* Removing requests moves no guest. *)
LEMMA RemoveRequestsGuest ==
  ASSUME NEW s \in ShData, NEW pid, NEW cpus
  PROVE  /\ remove_proc_requests(s, pid).guest = s.guest
         /\ remove_requests(s, pid, cpus).guest = s.guest
<1> DEFINE t == remove_proc_requests(s, pid)
<1>0. \A q : [s EXCEPT !.lewi_mask_requests = q].guest = s.guest
  BY DEF ShData
<1>1. t.guest = s.guest /\ t \in ShData
  BY <1>0, RemoveProcRequestsType DEF remove_proc_requests
<1> HIDE DEF t
<1>2. \A r : [t EXCEPT !.requests = r].guest = t.guest
  BY <1>1 DEF ShData
<1> QED BY <1>1, <1>2 DEF remove_requests, t

(* Looking for a new guest moves none. *)
LEMMA FindNewGuestGuest ==
  ASSUME NEW s \in ShData, NEW c
  PROVE  find_new_guest(s, c).shm.guest = s.guest
BY DEF find_new_guest, serve_cpu_request, serve_proc_request, ShData

(* An idle CPU is offered without disturbing the others. *)
LEMMA AssignGuestKeeps ==
  ASSUME NEW s \in ShData, NEW d \in Cpu, s.guest[d] = NOBODY
  PROVE  \A pid : OnlyLoses(s, assign_guest(s, d), pid)
<1> DEFINE f == find_new_guest(s, d)
<1>1. f.shm \in ShData /\ f.shm.guest = s.guest
  BY FindNewGuestType, FindNewGuestGuest
<1> HIDE DEF f
<1>2. \A e \in Cpu \ {d} : give_cpu(f, d).guest[e] = s.guest[e]
  BY <1>1 DEF give_cpu, ShData
<1> QED BY <1>2 DEF assign_guest, OnlyLoses, f

(* The other CPU of the core is only given away when it is idle. *)
LEMMA AssignSiblingsKeeps ==
  ASSUME NEW s \in ShData, NEW c \in Cpu
  PROVE  \A pid : OnlyLoses(s, assign_siblings(s, c), pid)
<1>1. ASSUME NEW d \in Cpu, NEW pid
      PROVE  OnlyLoses(s, assign_sibling(s, d), pid)
  <2>1. \A t \in ShData : clear_if_guested(t, d).guest = t.guest
    BY DEF clear_if_guested, ShData
  <2>2. CASE s.guest[d] = NOBODY
    <3> DEFINE t == assign_guest(s, d)
    <3>1. t \in ShData /\ OnlyLoses(s, t, pid)
      BY <2>2, AssignGuestType, AssignGuestKeeps
    <3>2. assign_sibling(s, d).guest = t.guest
      BY <2>1, <2>2, <3>1 DEF assign_sibling
    <3> HIDE DEF t
    <3> QED BY <3>1, <3>2 DEF OnlyLoses
  <2>3. CASE s.guest[d] # NOBODY
    BY <2>3 DEF assign_sibling, OnlyLoses
  <2> QED BY <2>2, <2>3
<1>2. core_mask[c] # {c} => (CHOOSE d \in core_mask[c] : d # c) \in Cpu
  BY CpuInfoAssumption
<1>3. \A pid : OnlyLoses(s, s, pid)
  BY DEF OnlyLoses
<1> QED BY <1>1, <1>2, <1>3 DEF assign_siblings

(* Offering a lent CPU takes no CPU from anybody. *)
LEMMA OfferCpuKeeps ==
  ASSUME NEW s \in ShData, NEW c \in Cpu, NEW pid
  PROVE  OnlyLoses(s, offer_cpu(s, c), pid)
<1>1. ASSUME NEW t \in ShData
      PROVE  OnlyLoses(t, after_offer(t, c), pid)
  <2>1. [t EXCEPT !.free_cpus = t.free_cpus \cup {c}].guest = t.guest
    BY DEF ShData
  <2>2. OnlyLoses(t, [t EXCEPT !.free_cpus = t.free_cpus \cup {c}], pid)
    BY <2>1 DEF OnlyLoses
  <2> QED BY <2>2, AssignSiblingsKeeps DEF after_offer
<1>2. CASE s.guest[c] = NOBODY
  <2> DEFINE t == assign_guest(s, c)
  <2>1. t \in ShData /\ OnlyLoses(s, t, pid)
    BY <1>2, AssignGuestType, AssignGuestKeeps
  <2>2. OnlyLoses(t, after_offer(t, c), pid)
    BY <1>1, <2>1
  <2>3. OnlyLoses(s, after_offer(t, c), pid)
    BY <2>1, <2>2, OnlyLosesTrans
  <2> QED BY <1>2, <2>3 DEF offer_cpu
<1>3. CASE s.guest[c] # NOBODY
  BY <1>3 DEF offer_cpu, OnlyLoses
<1> QED BY <1>2, <1>3

(* Lending takes the CPU from the lender alone. *)
LEMMA LendCpuKeeps ==
  ASSUME NEW s \in ShData, NEW pid, NEW c \in Cpu
  PROVE  OnlyLoses(s, lend_cpu(s, pid, c), pid)
<1> DEFINE t == release_cpu(s, pid, c)
           u == offer_cpu(t, c)
<1>1. t \in ShData /\ u \in ShData
  BY ReleaseCpuType, OfferCpuType
<1>2. OnlyLoses(s, t, pid)
  BY DEF release_cpu, ShData, OnlyLoses
<1>3. OnlyLoses(t, u, pid)
  BY <1>1, OfferCpuKeeps
<1> HIDE DEF t, u
<1>4. OnlyLoses(s, u, pid)
  BY <1>2, <1>3, OnlyLosesTrans
<1>5. OnlyLoses(s, update_occupied_cores(u, s.owner[c], c), pid)
  BY <1>1, <1>4, UpdateOccupiedGuest DEF OnlyLoses
<1>6. OnlyLoses(s, s, pid)
  BY DEF OnlyLoses
<1> QED BY <1>5, <1>6 DEF lend_cpu, t, u

(* Reclaim and borrow take idle CPUs only. *)
LEMMA ReclaimCpuKeeps ==
  ASSUME NEW s \in ShData, NEW pid, NEW c \in Cpu
  PROVE  OnlyLoses(s, reclaim_cpu(s, pid, c).shm, pid)
BY DEF reclaim_cpu, ShData, OnlyLoses

(* Vacating the rest of the core is only asked for, never done. *)
LEMMA ReclaimCpuAndCoreKeeps ==
  ASSUME NEW s \in ShData, NEW pid \in Pid, NEW c \in Cpu
  PROVE  OnlyLoses(s, reclaim_cpu_and_core(s, pid, c).shm, pid)
<1> DEFINE r == reclaim_cpu(s, pid, c)
<1>1. r.shm \in ShData /\ OnlyLoses(s, r.shm, pid)
  BY ReclaimCpuType, ReclaimCpuKeeps
<1>2. r = [shm |-> r.shm, error |-> r.error]
  BY DEF reclaim_cpu
<1> HIDE DEF r
<1>3. \A x : [r EXCEPT !.shm.tasks = x].shm.guest = r.shm.guest
  BY <1>1, <1>2 DEF ShData
<1>4. vacate_core(r, pid, c).shm.guest = r.shm.guest
  BY <1>3 DEF vacate_core
<1> QED BY <1>1, <1>4 DEF reclaim_cpu_and_core, OnlyLoses, r

(* acquire_cpu takes an idle CPU, or asks its guest to leave. *)
LEMMA AcquireCpuKeeps ==
  ASSUME NEW s \in ShData, NEW pid \in Pid, NEW c \in Cpu
  PROVE  OnlyLoses(s, acquire_cpu(s, pid, c).shm, pid)
<1> DEFINE busy == [s EXCEPT !.state[c] = "BUSY"]
           noted == [busy EXCEPT !.tasks =
                       @ \cup {DisableTask(s.guest[c], c), EnableTask(pid, c)}]
           t == take_cpu(s, pid, c)
           u == IF s.owner[c] # NOBODY THEN note_occupied(t, c) ELSE t
<1>1. OnlyLoses(s, s, pid)
  BY DEF OnlyLoses
<1>2. CASE s.owner[c] = pid /\ s.guest[c] = NOBODY
  BY <1>1, <1>2 DEF acquire_cpu, take_cpu, ShData, OnlyLoses
<1>3. CASE s.owner[c] = pid /\ s.guest[c] # NOBODY /\ s.guest[c] # pid
  <2>1. noted \in ShData
    <3>1. s.guest[c] \in PidOrNobody /\ pid \in PidOrNobody
      BY DEF ShData, PidOrNobody
    <3>2. EnableTask(pid, c) \in Task /\ DisableTask(s.guest[c], c) \in Task
      BY <3>1, TaskType
    <3>3. busy \in ShData
      BY SetBusyType
    <3> HIDE DEF busy
    <3> QED BY <3>2, <3>3 DEF ShData
  <2>2. noted.guest = s.guest
    BY DEF ShData
  <2> HIDE DEF noted
  <2>3. note_occupied(noted, c).guest = s.guest
    BY <2>1, <2>2, NoteOccupiedGuest
  <2>4. acquire_cpu(s, pid, c).shm = note_occupied(noted, c)
    BY <1>3 DEF acquire_cpu, noted
  <2> QED BY <2>3, <2>4 DEF OnlyLoses
<1>4. CASE s.owner[c] # pid /\ s.guest[c] = NOBODY
  <2>1. t \in ShData /\ u \in ShData
    BY TakeCpuType, NoteOccupiedType
  <2>2. t.guest = [s.guest EXCEPT ![c] = pid]
    BY DEF take_cpu, ShData
  <2>3. u.guest = t.guest
    BY <2>1, NoteOccupiedGuest
  <2> HIDE DEF t, u
  <2>4. [u EXCEPT !.free_cpus = @ \ {c}].guest = t.guest
    BY <2>1, <2>3 DEF ShData
  <2>5. OnlyLoses(s, [u EXCEPT !.free_cpus = @ \ {c}], pid)
    BY <1>4, <2>2, <2>4 DEF OnlyLoses, ShData
  <2>6. OnlyLoses(s, [s EXCEPT !.requests[c] = Append(@, pid)], pid)
    BY DEF OnlyLoses, ShData
  <2> QED BY <1>1, <1>4, <2>5, <2>6 DEF acquire_cpu, t, u
<1>5. CASE s.owner[c] # pid /\ s.guest[c] # NOBODY
  BY <1>5 DEF acquire_cpu, OnlyLoses, ShData
<1>6. CASE s.guest[c] = pid
  BY <1>1, <1>6 DEF acquire_cpu
<1> QED BY <1>2, <1>3, <1>4, <1>5, <1>6

(* borrow_cpu takes an idle CPU. *)
LEMMA BorrowCpuKeeps ==
  ASSUME NEW s \in ShData, NEW pid \in Pid, NEW c \in Cpu
  PROVE  OnlyLoses(s, borrow_cpu(s, pid, c).shm, pid)
<1> DEFINE t == [take_cpu(s, pid, c) EXCEPT !.free_cpus = @ \ {c}]
<1>1. OnlyLoses(s, s, pid)
  BY DEF OnlyLoses
<1>2. CASE s.guest[c] # NOBODY
  BY <1>1, <1>2 DEF borrow_cpu
<1>3. CASE s.guest[c] = NOBODY
  <2>1. t \in ShData
    BY TakeCpuType, ClearFreeType
  <2>2. t.guest = [s.guest EXCEPT ![c] = pid]
    BY DEF take_cpu, ShData
  <2>3. note_occupied(t, c).guest = t.guest
    BY <2>1, NoteOccupiedGuest
  <2> HIDE DEF t
  <2>4. [t EXCEPT !.state[c] = "BUSY"].guest = t.guest
    BY <2>1 DEF ShData
  <2>5. \A u : u.guest = t.guest => OnlyLoses(s, u, pid)
    BY <1>3, <2>2 DEF OnlyLoses, ShData
  <2> QED BY <1>1, <2>3, <2>4, <2>5 DEF borrow_cpu, t
<1> QED BY <1>2, <1>3

(* return_cpu takes the CPU from the process that returns it. *)
LEMMA ReturnCpuKeeps ==
  ASSUME NEW s \in ShData, NEW pid \in Pid, NEW c \in Cpu
  PROVE  OnlyLoses(s, return_cpu(s, pid, c).shm, pid)
<1> DEFINE t == vacate_cpu(s, c)
<1>1. t \in ShData
  BY VacateCpuType
<1>2. \A d \in Cpu \ {c} : t.guest[d] = s.guest[d]
  <2> DEFINE a == [s EXCEPT !.guest[c] = s.owner[c]]
             b == [s EXCEPT !.guest[c] = NOBODY, !.free_cpus = @ \cup {c}]
  <2>1. a \in ShData /\ b \in ShData
    BY DEF ShData, PidOrNobody
  <2>2. \A d \in Cpu \ {c} : a.guest[d] = s.guest[d] /\ b.guest[d] = s.guest[d]
    BY DEF ShData
  <2> HIDE DEF a, b
  <2>3. /\ update_occupied_cores(a, s.owner[c], c).guest = a.guest
        /\ update_occupied_cores(b, s.owner[c], c).guest = b.guest
    BY <2>1, UpdateOccupiedGuest
  <2> QED BY <2>2, <2>3 DEF vacate_cpu, a, b
<1> HIDE DEF t
<1>3. \A x : [t EXCEPT !.tasks = x].guest = t.guest
  BY <1>1 DEF ShData
<1>4. CASE s.guest[c] = pid
  BY <1>2, <1>3, <1>4 DEF return_cpu, OnlyLoses, t
<1>5. CASE s.guest[c] # pid
  BY <1>5 DEF return_cpu, OnlyLoses
<1> QED BY <1>4, <1>5

(* Registering takes nothing, deregistering takes from the process alone. *)
LEMMA RegisterCpuKeeps ==
  ASSUME NEW s \in ShData, NEW pid \in Pid, NEW c \in Cpu
  PROVE  OnlyLoses(s, register_cpu(s, pid, NOBODY, c), pid)
<1> DEFINE t == [s EXCEPT !.owner[c] = pid,
                     !.state[c] = "BUSY",
                     !.guest[c] = IF @ \in {NOBODY, NOBODY} THEN pid ELSE @,
                     !.free_cpus = @ \ {c}]
<1>1. t \in ShData
  BY DEF ShData, PidOrNobody, CpuState
<1>2. OnlyLoses(s, t, pid)
  BY DEF ShData, OnlyLoses
<1> HIDE DEF t
<1>3. register_cpu(s, pid, NOBODY, c).guest = t.guest
  BY <1>1, UpdateOccupiedGuest DEF register_cpu, t
<1> QED BY <1>2, <1>3 DEF OnlyLoses

(* deregister_cpu takes CPUs from the process deregistered. *)
LEMMA DeregisterCpuKeeps ==
  ASSUME NEW s \in ShData, NEW pid \in Pid, NEW c \in Cpu
  PROVE  OnlyLoses(s, deregister_cpu(s, pid, c), pid)
<1> DEFINE guest == IF s.guest[c] = pid THEN NOBODY ELSE s.guest[c]
<1>1. deregister_cpu(s, pid, c).guest = [s.guest EXCEPT ![c] = guest]
  BY DEF deregister_cpu, ShData
<1> QED BY <1>1 DEF OnlyLoses, ShData

(* shmem_cpuinfo__deregister takes CPUs from the caller. *)
LEMMA DeregisterOneKeeps ==
  ASSUME NEW s \in ShData, NEW pid \in Pid, NEW c \in Cpu
  PROVE  OnlyLoses(s, deregister_one(s, pid, c), pid)
<1> DEFINE lent == lend_cpu(s, pid, c)
           recl == reclaim_cpu(s, pid, c).shm
           dis == [recl EXCEPT !.guest[c] = IF @ = pid THEN NOBODY ELSE @,
                               !.state[c] = "DISABLED",
                               !.free_cpus = @ \ {c}]
           t == IF PublicPostMortem THEN lent ELSE dis
           u == [t EXCEPT !.owner[c] = NOBODY, !.occupied_cores = @ \ {c}]
<1>1. lent \in ShData /\ recl \in ShData
  BY LendCpuType, ReclaimCpuType
<1>2. OnlyLoses(s, lent, pid) /\ OnlyLoses(s, recl, pid) /\ OnlyLoses(s, s, pid)
  BY LendCpuKeeps, ReclaimCpuKeeps DEF OnlyLoses
<1>3. dis \in ShData /\ OnlyLoses(recl, dis, pid)
  <2> HIDE DEF recl
  <2>1. dis \in ShData
    BY <1>1 DEF ShData, PidOrNobody, CpuState
  <2>2. OnlyLoses(recl, dis, pid)
    BY <1>1 DEF ShData, OnlyLoses
  <2> QED BY <2>1, <2>2
<1>4. OnlyLoses(s, dis, pid)
  BY <1>2, <1>3, OnlyLosesTrans
<1>5. t \in ShData /\ OnlyLoses(s, t, pid)
  BY <1>1, <1>2, <1>3, <1>4
<1>6. OnlyLoses(s, u, pid)
  <2> HIDE DEF t
  <2>1. u.guest = t.guest
    BY <1>5 DEF ShData
  <2> QED BY <1>5, <2>1 DEF OnlyLoses
<1> QED BY <1>2, <1>6 DEF deregister_one

(* Lending and disabling, when LeWI is disabled or the limit is lowered. *)
LEMMA ShedCpuKeeps ==
  ASSUME NEW s \in ShData, NEW pid \in Pid, NEW c \in Cpu
  PROVE  OnlyLoses(s, shed_cpu(s, pid, c), pid) /\ OnlyLoses(s, reset_one(s, pid, c), pid)
<1> DEFINE lent == lend_cpu(s, pid, c)
           t == [lent EXCEPT !.tasks = @ \cup {DisableTask(pid, c)}]
<1>1. lent \in ShData /\ OnlyLoses(s, lent, pid)
  BY LendCpuType, LendCpuKeeps
<1>2. t.guest = lent.guest
  <2> HIDE DEF lent
  <2> QED BY <1>1 DEF ShData
<1>3. OnlyLoses(s, t, pid) /\ OnlyLoses(s, s, pid)
  <2> HIDE DEF t, lent
  <2> QED BY <1>1, <1>2 DEF OnlyLoses
<1> QED BY <1>3, ReclaimCpuKeeps DEF shed_cpu, reset_one

(* A new mask takes nobody else's CPU: the guest is told to leave first. *)
LEMMA UpdateOwnershipOneKeeps ==
  ASSUME NEW s \in ShData, NEW pid \in Pid, NEW mask, NEW c \in Cpu
  PROVE  OnlyLoses(s, update_ownership_one(s, pid, mask, c), pid)
<1>1. OnlyLoses(s, own_cpu(s, pid, c), pid)
  <2>1. own_cpu(s, pid, c).guest =
          [s.guest EXCEPT ![c] = IF s.guest[c] = NOBODY THEN pid ELSE s.guest[c]]
    BY DEF own_cpu, ShData
  <2> QED BY <2>1 DEF OnlyLoses, ShData
<1>2. OnlyLoses(s, disown_cpu(s, pid, c), pid)
  <2>1. disown_cpu(s, pid, c).guest =
          [s.guest EXCEPT ![c] = IF s.guest[c] = pid THEN NOBODY ELSE s.guest[c]]
    BY DEF disown_cpu, ShData
  <2> QED BY <2>1 DEF OnlyLoses, ShData
<1>3. OnlyLoses(s, s, pid)
  BY DEF OnlyLoses
<1> QED BY <1>1, <1>2, <1>3, ReturnCpuKeeps DEF update_ownership_one

(* Whole cores. *)
LEMMA CoreKeeps ==
  ASSUME NEW s \in ShData, NEW pid \in Pid, NEW c \in Cpu
  PROVE  /\ OnlyLoses(s, reclaim_core(s, pid, c).shm, pid)
         /\ OnlyLoses(s, acquire_core(s, pid, c).shm, pid)
         /\ OnlyLoses(s, borrow_core(s, pid, c).shm, pid)
<1>1. ASSUME NEW r, NEW q, OnlyLoses(s, r.shm, pid), OnlyLoses(r.shm, q.shm, pid)
      PROVE  OnlyLoses(s, core_result(pid, c, r, q).shm, pid)
  <2>1. OnlyLoses(s, q.shm, pid)
    BY <1>1, OnlyLosesTrans
  <2> QED BY <1>1, <2>1 DEF core_result
<1>2. first_cpu(c) \in Cpu /\ last_cpu(c) \in Cpu
  BY CoreEnds
<1>3. OnlyLoses(s, reclaim_core(s, pid, c).shm, pid)
  <2> DEFINE r == reclaim_cpu(s, pid, first_cpu(c))
             q == reclaim_cpu(r.shm, pid, last_cpu(c))
  <2>1. r.shm \in ShData /\ OnlyLoses(s, r.shm, pid)
    BY <1>2, ReclaimCpuType, ReclaimCpuKeeps
  <2>2. OnlyLoses(r.shm, q.shm, pid)
    BY <1>2, <2>1, ReclaimCpuKeeps
  <2> HIDE DEF r, q
  <2> QED BY <1>1, <2>1, <2>2 DEF reclaim_core, r, q
<1>4. OnlyLoses(s, acquire_core(s, pid, c).shm, pid)
  <2> DEFINE r == acquire_cpu(s, pid, first_cpu(c))
             q == acquire_cpu(r.shm, pid, last_cpu(c))
  <2>1. r.shm \in ShData /\ OnlyLoses(s, r.shm, pid)
    BY <1>2, AcquireCpuType, AcquireCpuKeeps
  <2>2. OnlyLoses(r.shm, q.shm, pid)
    BY <1>2, <2>1, AcquireCpuKeeps
  <2> HIDE DEF r, q
  <2> QED BY <1>1, <2>1, <2>2 DEF acquire_core, r, q
<1>5. OnlyLoses(s, borrow_core(s, pid, c).shm, pid)
  <2> DEFINE r == borrow_cpu(s, pid, first_cpu(c))
             q == borrow_cpu(r.shm, pid, last_cpu(c))
  <2>1. r.shm \in ShData /\ OnlyLoses(s, r.shm, pid)
    BY <1>2, BorrowCpuType, BorrowCpuKeeps
  <2>2. OnlyLoses(r.shm, q.shm, pid)
    BY <1>2, <2>1, BorrowCpuKeeps
  <2> HIDE DEF r, q
  <2> QED BY <1>1, <2>1, <2>2 DEF borrow_core, r, q
<1> QED BY <1>3, <1>4, <1>5

-----------------------------------------------------------------------------
(* The moves of a CPU from table s to table t *)

(* Nothing happens to CPU d. *)
Same(s, t, d) ==
  /\ t.owner[d] = s.owner[d] /\ t.guest[d] = s.guest[d] /\ t.state[d] = s.state[d]
  /\ d \in t.free_cpus <=> d \in s.free_cpus

SameBut(s, t, c) == \A d \in Cpu \ {c} : Same(s, t, d)

(* Nothing happens to any CPU. *)
Unmoved(s, t) ==
  (\A d \in Cpu : Same(s, t, d)) /\ t.occupied_cores = s.occupied_cores

(* Process pid obtains CPU c, or claims it from its guest. *)
Obtains(s, t, pid, c) ==
  /\ t.owner[c] = s.owner[c]
  /\ t.guest[c] # NOBODY
  /\ \/ s.owner[c] = pid /\ t.state[c] = "BUSY"
        /\ t.guest[c] = IF s.guest[c] = NOBODY THEN pid ELSE s.guest[c]
     \/ s.owner[c] # pid /\ s.state[c] = "LENT" /\ t.state[c] = "LENT"
        /\ s.guest[c] = NOBODY /\ t.guest[c] = pid /\ core_is_eligible(s, pid, c)

(* The guest of CPU c leaves it to the owner that has claimed it, or free. *)
Vacates(s, t, c) ==
  /\ t.owner[c] = s.owner[c] /\ t.state[c] = s.state[c]
  /\ IF s.state[c] = "BUSY" THEN t.guest[c] = s.owner[c]
     ELSE t.guest[c] = NOBODY /\ c \in t.free_cpus

(* Process pid lends CPU c. *)
Lends(s, t, pid, c) ==
  /\ t.owner[c] = s.owner[c]
  /\ t.state[c] = IF s.owner[c] = pid THEN "LENT" ELSE s.state[c]
  /\ \/ s.guest[c] \notin {NOBODY, pid} /\ t.guest[c] = s.guest[c]
     \/ s.guest[c] \in {NOBODY, pid} /\ t.guest[c] = NOBODY /\ c \in t.free_cpus
        /\ (t.state[c] = "BUSY" => s.owner[c] = NOBODY)
     \/ s.guest[c] \in {NOBODY, pid} /\ t.guest[c] = s.owner[c] /\ t.state[c] = "BUSY"
     \/ s.guest[c] \in {NOBODY, pid} /\ t.guest[c] # NOBODY /\ s.queues_enabled

(* CPU d, idle although claimed, goes to its owner. *)
Rouses(s, t, d) ==
  /\ s.guest[d] = NOBODY /\ s.state[d] = "BUSY" /\ t.state[d] = "BUSY"
  /\ t.owner[d] = s.owner[d] /\ t.guest[d] = s.owner[d] /\ s.owner[d] # NOBODY

(* occupied_cores of s, brought up to date with the guest of c in t. *)
NewOccupied(s, t, c) ==
  LET own == t.owner[c]
      occ == s.occupied_cores IN
  IF cpu_is_occupied(t, own, c)
  THEN IF c \in occ THEN occ ELSE occ \cup core_mask[c]
  ELSE IF c \notin occ THEN occ
       ELSE IF core_is_occupied(t, own, c) THEN occ \cup core_mask[c]
       ELSE occ \ core_mask[c]

(* occupied_cores is brought up to date, or needs no change. *)
Noted(s, t, c) ==
  \/ t.occupied_cores = NewOccupied(s, t, c)
  \/ /\ t.occupied_cores = s.occupied_cores
     /\ cpu_is_occupied(t, t.owner[c], c) =>
          c \in s.occupied_cores \/ cpu_is_occupied(s, s.owner[c], c)

(* In polling mode no request is added to the queues. *)
Quiet(s, t) ==
  /\ t.queues_enabled = s.queues_enabled
  /\ ~s.queues_enabled => /\ t.lewi_mask_requests = s.lewi_mask_requests
                          /\ \A d \in Cpu : t.requests[d] \in {s.requests[d], <<>>}

(* Process p may use CPU c: as its guest, or as the owner that claims it.  *)
Permits(s, p, c) == s.guest[c] = p \/ (s.owner[c] = p /\ s.state[c] = "BUSY")

(* Tasks are added, and pid is told to use only what it may use. *)
Tells(s, t, pid) ==
  /\ s.tasks \subseteq t.tasks
  /\ \A d \in Cpu : EnableTask(pid, d) \in t.tasks =>
       EnableTask(pid, d) \in s.tasks \/ Permits(t, pid, d)

(* What reclaim, acquire and borrow do for process pid with CPU c. *)
Gains(s, t, pid, c) ==
  /\ t \in ShData /\ Quiet(s, t) /\ Tells(s, t, pid)
  /\ \/ Unmoved(s, t)
     \/ SameBut(s, t, c) /\ Obtains(s, t, pid, c) /\ Noted(s, t, c)

(* What a return of CPU c by process pid does. *)
Returns(s, t, pid, c) ==
  /\ t \in ShData /\ Quiet(s, t) /\ Tells(s, t, pid)
  /\ \/ Unmoved(s, t)
     \/ /\ s.guest[c] = pid /\ s.owner[c] # pid /\ DisableTask(pid, c) \in t.tasks
        /\ SameBut(s, t, c) /\ Vacates(s, t, c) /\ Noted(s, t, c)

(* Process pid registers CPU c. *)
Registers(s, t, pid, c) ==
  /\ t \in ShData /\ Quiet(s, t) /\ t.tasks = s.tasks
  /\ SameBut(s, t, c) /\ Noted(s, t, c)
  /\ t.owner[c] = pid /\ t.state[c] = "BUSY"
  /\ t.guest[c] = IF s.guest[c] = NOBODY THEN pid ELSE s.guest[c]

(* Process pid, or whoever cleans up after it, takes it off CPU c. *)
Deregisters(s, t, pid, c) ==
  /\ t \in ShData /\ Quiet(s, t) /\ t.tasks = s.tasks /\ SameBut(s, t, c)
  /\ t.guest[c] = IF s.guest[c] = pid THEN NOBODY ELSE s.guest[c]
  /\ \/ /\ s.owner[c] = pid /\ t.owner[c] = NOBODY
        /\ t.occupied_cores = s.occupied_cores \ core_mask[c]
        /\ \/ t.state[c] = "DISABLED"
           \/ t.state[c] = "LENT" /\ (t.guest[c] = NOBODY => c \in t.free_cpus)
     \/ /\ s.owner[c] # pid /\ t.owner[c] = s.owner[c] /\ t.state[c] = s.state[c]
        /\ t.occupied_cores = s.occupied_cores
        /\ IF s.guest[c] = pid THEN c \in t.free_cpus
           ELSE c \in t.free_cpus <=> c \in s.free_cpus

(* CPU c, which process pid has lent or reclaimed, loses its owner. *)
Drops(s, t, pid, c) ==
  /\ t \in ShData /\ Quiet(s, t) /\ t.tasks = s.tasks /\ SameBut(s, t, c)
  /\ t.owner[c] = NOBODY /\ t.occupied_cores = s.occupied_cores \ {c}
  /\ \/ /\ t.state[c] = "DISABLED"
        /\ t.guest[c] = IF s.guest[c] = pid THEN NOBODY ELSE s.guest[c]
     \/ /\ t.state[c] = s.state[c] /\ t.guest[c] = s.guest[c]
        /\ c \in t.free_cpus <=> c \in s.free_cpus

(* The new tasks tell guests to use their CPUs. *)
Enables(s, t) ==
  /\ s.tasks \subseteq t.tasks
  /\ \A x \in t.tasks \ s.tasks :
       \E d \in Cpu : t.guest[d] # NOBODY /\ x = EnableTask(t.guest[d], d)

(* What lending CPU c does, which may wake up the other CPU of the core.   *)
LendMoves(s, t, pid, c) ==
  /\ t \in ShData /\ Quiet(s, t) /\ Enables(s, t)
  /\ \/ s.state[c] = "DISABLED" /\ Unmoved(s, t)
     \/ /\ s.state[c] # "DISABLED" /\ Lends(s, t, pid, c) /\ Noted(s, t, c)
        /\ \A d \in Cpu \ {c} : Same(s, t, d) \/ (d \in core_mask[c] /\ Rouses(s, t, d))

(* What process pid may do with CPU d in polling mode (CpuSharing): claim  *)
(* or lend its own, borrow one that is lent, return it, or wake up its     *)
(* owner.                                                                  *)
Passes(s, t, pid, d) ==
  /\ t.owner[d] = s.owner[d]
  /\ \/ t.guest[d] = s.guest[d] /\ t.state[d] = s.state[d]
     \/ s.owner[d] = pid /\ t.state[d] = "BUSY"
        /\ t.guest[d] = IF s.guest[d] = NOBODY THEN pid ELSE s.guest[d]
     \/ s.owner[d] = pid /\ t.state[d] = "LENT"
        /\ t.guest[d] = IF s.guest[d] = pid THEN NOBODY ELSE s.guest[d]
     \/ s.owner[d] # pid /\ s.state[d] = "LENT" /\ t.state[d] = "LENT"
        /\ s.guest[d] = NOBODY /\ t.guest[d] = pid
     \/ s.owner[d] # pid /\ t.state[d] = s.state[d]
        /\ s.guest[d] = pid /\ t.guest[d] = IF s.state[d] = "BUSY" THEN s.owner[d] ELSE NOBODY
     \/ s.state[d] = "BUSY" /\ t.state[d] = "BUSY"
        /\ s.guest[d] = NOBODY /\ t.guest[d] = s.owner[d]

(* And what may happen to it when pid goes. *)
Parts(s, t, pid, d) ==
  \/ s.owner[d] = pid /\ t.owner[d] = NOBODY /\ t.state[d] \in {"DISABLED", "LENT"}
     /\ t.guest[d] = IF s.guest[d] = pid THEN NOBODY ELSE s.guest[d]
  \/ /\ t.owner[d] = s.owner[d] /\ t.state[d] = s.state[d]
     /\ \/ t.guest[d] = s.guest[d]
        \/ s.owner[d] # pid /\ s.guest[d] = pid
           /\ t.guest[d] \in {NOBODY, IF s.state[d] = "BUSY" THEN s.owner[d] ELSE NOBODY}
        \/ s.state[d] = "BUSY" /\ s.guest[d] = NOBODY /\ t.guest[d] = s.owner[d]

-----------------------------------------------------------------------------
(* The fields that the helpers change *)

(* update_occupied_cores changes occupied_cores alone, by its own guests. *)
LEMMA UpdateOccupiedFields ==
  ASSUME NEW s \in ShData, NEW c \in Cpu
  PROVE  LET t == update_occupied_cores(s, s.owner[c], c) IN
         /\ t \in ShData
         /\ t.owner = s.owner /\ t.guest = s.guest /\ t.state = s.state
         /\ t.free_cpus = s.free_cpus /\ t.tasks = s.tasks
         /\ t.requests = s.requests /\ t.lewi_mask_requests = s.lewi_mask_requests
         /\ t.queues_enabled = s.queues_enabled
         /\ t.occupied_cores = NewOccupied(s, t, c)
<1> DEFINE own == s.owner[c]
           occ == s.occupied_cores
           new == IF cpu_is_occupied(s, own, c)
                  THEN IF c \in occ THEN occ ELSE occ \cup core_mask[c]
                  ELSE IF c \notin occ THEN occ
                       ELSE IF core_is_occupied(s, own, c) THEN occ \cup core_mask[c]
                       ELSE occ \ core_mask[c]
           t == update_occupied_cores(s, own, c)
<1>1. t = [s EXCEPT !.occupied_cores = new]
  BY DEF update_occupied_cores
<1>2. t \in ShData
  BY UpdateOccupiedType
<1> HIDE DEF new, t
<1>3. /\ t.owner = s.owner /\ t.guest = s.guest /\ t.state = s.state
      /\ t.free_cpus = s.free_cpus /\ t.tasks = s.tasks
      /\ t.requests = s.requests /\ t.lewi_mask_requests = s.lewi_mask_requests
      /\ t.queues_enabled = s.queues_enabled
      /\ t.occupied_cores = new
  BY <1>1 DEF ShData
<1>4. /\ cpu_is_occupied(t, own, c) <=> cpu_is_occupied(s, own, c)
      /\ core_is_occupied(t, own, c) <=> core_is_occupied(s, own, c)
  BY <1>3 DEF cpu_is_occupied, core_is_occupied
<1>5. new = NewOccupied(s, t, c)
  BY <1>3, <1>4 DEF new, NewOccupied
<1> QED BY <1>2, <1>3, <1>5 DEF t

(* note_occupied does so when the CPU is not among the occupied ones. *)
LEMMA NoteOccupiedFields ==
  ASSUME NEW s \in ShData, NEW c \in Cpu
  PROVE  LET t == note_occupied(s, c) IN
         /\ t \in ShData
         /\ t.owner = s.owner /\ t.guest = s.guest /\ t.state = s.state
         /\ t.free_cpus = s.free_cpus /\ t.tasks = s.tasks
         /\ t.requests = s.requests /\ t.lewi_mask_requests = s.lewi_mask_requests
         /\ t.queues_enabled = s.queues_enabled
         /\ \/ t.occupied_cores = NewOccupied(s, t, c)
            \/ t.occupied_cores = s.occupied_cores /\ c \in s.occupied_cores
<1>1. CASE c \in s.occupied_cores
  BY <1>1 DEF note_occupied
<1>2. CASE c \notin s.occupied_cores
  <2> DEFINE t == update_occupied_cores(s, s.owner[c], c)
  <2>1. note_occupied(s, c) = t
    BY <1>2 DEF note_occupied
  <2>2. /\ t \in ShData
        /\ t.owner = s.owner /\ t.guest = s.guest /\ t.state = s.state
        /\ t.free_cpus = s.free_cpus /\ t.tasks = s.tasks
        /\ t.requests = s.requests /\ t.lewi_mask_requests = s.lewi_mask_requests
        /\ t.queues_enabled = s.queues_enabled
        /\ t.occupied_cores = NewOccupied(s, t, c)
    BY UpdateOccupiedFields
  <2> HIDE DEF t
  <2> QED BY <2>1, <2>2
<1> QED BY <1>1, <1>2

(* The tasks to enable CPUs of a process are told apart. *)
LEMMA TasksDiffer ==
  /\ \A p, q, c, d : EnableTask(p, c) = EnableTask(q, d) => p = q /\ c = d
  /\ \A p, q, c, d : DisableTask(p, c) = DisableTask(q, d) => p = q /\ c = d
  /\ \A p, q, c, d : EnableTask(p, c) # DisableTask(q, d)
BY DEF EnableTask, DisableTask

-----------------------------------------------------------------------------
(* Reclaim, acquire and borrow *)

(* A table with the same cells and more tasks for others. *)
LEMMA SameGains ==
  ASSUME NEW s \in ShData, NEW t \in ShData, NEW pid, NEW c, Quiet(s, t),
         t.owner = s.owner, t.guest = s.guest, t.state = s.state,
         t.free_cpus = s.free_cpus, t.occupied_cores = s.occupied_cores,
         t.tasks = s.tasks
  PROVE  Gains(s, t, pid, c)
BY DEF Gains, Unmoved, Same, Tells

(* reclaim_cpu obtains the CPU, claims it, or leaves it as it was. *)
LEMMA ReclaimCpuGains ==
  ASSUME NEW s \in ShData, NEW pid \in Pid, NEW c \in Cpu
  PROVE  Gains(s, reclaim_cpu(s, pid, c).shm, pid, c)
<1> DEFINE t == reclaim_cpu(s, pid, c).shm
<1>0. t \in ShData /\ pid # NOBODY
  BY ReclaimCpuType, CpuInfoAssumption
<1>1. CASE s.owner[c] # pid
  <2>1. t = s
    BY <1>1 DEF reclaim_cpu
  <2> QED BY <2>1, SameGains DEF Quiet
<1>2. CASE s.owner[c] = pid
  <2> DEFINE busy == [s.state EXCEPT ![c] = "BUSY"]
  <2>1. /\ t.owner = s.owner /\ t.state = busy /\ t.occupied_cores = s.occupied_cores
        /\ t.queues_enabled = s.queues_enabled /\ t.requests = s.requests
        /\ t.lewi_mask_requests = s.lewi_mask_requests
    BY <1>2 DEF reclaim_cpu, ShData
  <2>2. /\ t.guest = IF s.guest[c] = NOBODY THEN [s.guest EXCEPT ![c] = pid] ELSE s.guest
        /\ t.free_cpus = IF s.guest[c] = NOBODY THEN s.free_cpus \ {c} ELSE s.free_cpus
    BY <1>0, <1>2 DEF reclaim_cpu, ShData
  <2>3. t.tasks \in {s.tasks, s.tasks \cup {EnableTask(pid, c)},
                     s.tasks \cup {DisableTask(s.guest[c], c), EnableTask(pid, c)}}
    BY <1>2 DEF reclaim_cpu, ShData
  <2> HIDE DEF t
  <2>4. SameBut(s, t, c)
    BY <2>1, <2>2 DEF SameBut, Same, ShData
  <2>5. Obtains(s, t, pid, c)
    BY <1>0, <1>2, <2>1, <2>2 DEF Obtains, ShData
  <2>6. Noted(s, t, c)
    BY <1>0, <1>2, <2>1, <2>2 DEF Noted, cpu_is_occupied, ShData
  <2>7. Tells(s, t, pid)
    <3>1. Permits(t, pid, c)
      BY <1>2, <2>1 DEF Permits, ShData
    <3> QED BY <2>3, <3>1, TasksDiffer DEF Tells
  <2> QED BY <1>0, <2>1, <2>4, <2>5, <2>6, <2>7 DEF Gains, Quiet, t
<1> QED BY <1>1, <1>2

(* Tasks that disable CPUs of other processes change nothing for pid. *)
LEMMA MoreTasksGain ==
  ASSUME NEW s \in ShData, NEW t, NEW pid, NEW c, Gains(s, t, pid, c),
         NEW off \in SUBSET Task, \A x \in off : x.action = "DISABLE"
  PROVE  Gains(s, [t EXCEPT !.tasks = @ \cup off], pid, c)
<1> DEFINE u == [t EXCEPT !.tasks = @ \cup off]
<1>1. t \in ShData
  BY DEF Gains
<1>2. /\ u \in ShData
      /\ u.owner = t.owner /\ u.guest = t.guest /\ u.state = t.state
      /\ u.free_cpus = t.free_cpus /\ u.occupied_cores = t.occupied_cores
      /\ u.requests = t.requests /\ u.lewi_mask_requests = t.lewi_mask_requests
      /\ u.queues_enabled = t.queues_enabled /\ u.tasks = t.tasks \cup off
  BY <1>1 DEF ShData
<1> HIDE DEF u
<1>3. \A d : EnableTask(pid, d) \notin off
  BY DEF EnableTask
<1>4. Tells(s, u, pid)
  BY <1>2, <1>3 DEF Gains, Tells, Permits
<1>5. Quiet(s, u)
  BY <1>2 DEF Gains, Quiet
<1>6. \A d : Same(s, t, d) => Same(s, u, d)
  BY <1>2 DEF Same
<1>7. Obtains(s, t, pid, c) => Obtains(s, u, pid, c)
  BY <1>2 DEF Obtains
<1>8. Noted(s, t, c) => Noted(s, u, c)
  BY <1>2 DEF Noted, NewOccupied, cpu_is_occupied, core_is_occupied
<1>9. (SameBut(s, t, c) => SameBut(s, u, c)) /\ (Unmoved(s, t) => Unmoved(s, u))
  BY <1>2, <1>6 DEF SameBut, Unmoved
<1> QED BY <1>2, <1>4, <1>5, <1>6, <1>7, <1>8, <1>9 DEF Gains, u

(* shmem_cpuinfo__reclaim_cpu, with the rest of the core. *)
LEMMA ReclaimCpuAndCoreGains ==
  ASSUME NEW s \in ShData, NEW pid \in Pid, NEW c \in Cpu
  PROVE  Gains(s, reclaim_cpu_and_core(s, pid, c).shm, pid, c)
<1> DEFINE r == reclaim_cpu(s, pid, c)
           off == {DisableTask(r.shm.guest[d], d) :
                     d \in {e \in core_mask[c] \ {c} : r.shm.guest[e] # pid}}
<1>1. r.shm \in ShData /\ Gains(s, r.shm, pid, c)
  BY ReclaimCpuType, ReclaimCpuGains
<1>2. r \in [shm : {r.shm}, error : {r.error}]
  BY DEF reclaim_cpu
<1> HIDE DEF r
<1>3. off \in SUBSET Task /\ \A x \in off : x.action = "DISABLE"
  <2>1. core_mask[c] \subseteq Cpu
    BY CpuInfoAssumption
  <2>2. \A d \in core_mask[c] : r.shm.guest[d] \in PidOrNobody
    BY <1>1, <2>1 DEF ShData
  <2>3. \A d \in core_mask[c] : DisableTask(r.shm.guest[d], d) \in Task
    BY <2>1, <2>2, TaskType
  <2> QED BY <2>3 DEF DisableTask
<1> HIDE DEF off
<1>4. Gains(s, [r.shm EXCEPT !.tasks = @ \cup off], pid, c)
  BY <1>1, <1>3, MoreTasksGain
<1>5. [r EXCEPT !.shm.tasks = @ \cup off].shm = [r.shm EXCEPT !.tasks = @ \cup off]
  BY <1>2
<1>6. Gains(s, vacate_core(r, pid, c).shm, pid, c)
  BY <1>1, <1>4, <1>5 DEF vacate_core, off
<1> QED BY <1>6 DEF reclaim_cpu_and_core, r

(* An idle CPU is taken by its owner, or by another process when it is     *)
(* lent and its core is eligible.                                          *)
LEMMA TakenGains ==
  ASSUME NEW s \in ShData, NEW t \in ShData, NEW pid \in Pid, NEW c \in Cpu,
         s.guest[c] = NOBODY, Quiet(s, t),
         t.owner = s.owner, t.guest = [s.guest EXCEPT ![c] = pid],
         t.free_cpus = s.free_cpus \ {c},
         t.tasks = s.tasks \cup {EnableTask(pid, c)},
         \/ s.owner[c] = pid /\ t.state = [s.state EXCEPT ![c] = "BUSY"]
            /\ t.occupied_cores = s.occupied_cores
         \/ s.owner[c] # pid /\ s.state[c] = "LENT" /\ t.state = s.state
            /\ core_is_eligible(s, pid, c) /\ Noted(s, t, c)
  PROVE  Gains(s, t, pid, c)
<1>0. pid # NOBODY
  BY CpuInfoAssumption
<1>1. SameBut(s, t, c)
  BY DEF SameBut, Same, ShData
<1>2. Obtains(s, t, pid, c)
  BY <1>0 DEF Obtains, ShData
<1>3. Noted(s, t, c)
  BY DEF Noted, cpu_is_occupied, ShData
<1>4. Tells(s, t, pid)
  <2>1. Permits(t, pid, c)
    BY DEF Permits, ShData
  <2> QED BY <2>1, TasksDiffer DEF Tells
<1> QED BY <1>1, <1>2, <1>3, <1>4 DEF Gains

(* borrow_cpu takes an idle CPU of an eligible core. *)
LEMMA BorrowCpuGains ==
  ASSUME NEW s \in ShData, NEW pid \in Pid, NEW c \in Cpu
  PROVE  Gains(s, borrow_cpu(s, pid, c).shm, pid, c)
<1> DEFINE t == [take_cpu(s, pid, c) EXCEPT !.free_cpus = @ \ {c}]
           own == [t EXCEPT !.state[c] = "BUSY"]
           noted == note_occupied(t, c)
<1>1. t \in ShData
  BY TakeCpuType, ClearFreeType
<1>2. /\ t.owner = s.owner /\ t.guest = [s.guest EXCEPT ![c] = pid] /\ t.state = s.state
      /\ t.free_cpus = s.free_cpus \ {c} /\ t.tasks = s.tasks \cup {EnableTask(pid, c)}
      /\ t.occupied_cores = s.occupied_cores /\ t.requests = s.requests
      /\ t.lewi_mask_requests = s.lewi_mask_requests /\ t.queues_enabled = s.queues_enabled
  BY DEF take_cpu, ShData
<1> HIDE DEF t
<1>3. CASE s.state[c] # "DISABLED" /\ s.guest[c] = NOBODY /\ core_is_eligible(s, pid, c)
           /\ s.owner[c] = pid
  <2>1. own \in ShData
    BY <1>1, SetBusyType
  <2>2. /\ own.owner = s.owner /\ own.guest = t.guest /\ own.free_cpus = t.free_cpus
        /\ own.state = [s.state EXCEPT ![c] = "BUSY"] /\ own.tasks = t.tasks
        /\ own.occupied_cores = s.occupied_cores /\ Quiet(s, own)
    BY <1>1, <1>2 DEF ShData, Quiet
  <2> HIDE DEF own
  <2>3. Gains(s, own, pid, c)
    BY <1>2, <1>3, <2>1, <2>2, TakenGains
  <2> QED BY <1>3, <2>3 DEF borrow_cpu, own, t
<1>4. CASE s.state[c] = "LENT" /\ s.guest[c] = NOBODY /\ core_is_eligible(s, pid, c)
           /\ s.owner[c] # pid
  <2>1. noted \in ShData /\ noted.owner = s.owner /\ noted.guest = t.guest
        /\ noted.free_cpus = t.free_cpus /\ noted.state = s.state /\ noted.tasks = t.tasks
        /\ Quiet(s, noted)
    BY <1>1, <1>2, NoteOccupiedFields DEF Quiet
  <2>2. Noted(s, noted, c)
    <3>1. \/ noted.occupied_cores = NewOccupied(t, noted, c)
          \/ noted.occupied_cores = t.occupied_cores /\ c \in t.occupied_cores
      BY <1>1, NoteOccupiedFields
    <3> HIDE DEF noted
    <3> QED BY <1>2, <3>1 DEF Noted, NewOccupied
  <2> HIDE DEF noted
  <2>3. Gains(s, noted, pid, c)
    BY <1>2, <1>4, <2>1, <2>2, TakenGains
  <2>4. s.owner[c] = NOBODY => Gains(s, t, pid, c)
    <3>1. ASSUME s.owner[c] = NOBODY PROVE Noted(s, t, c)
      BY <1>2, <3>1 DEF Noted, cpu_is_occupied
    <3>2. Quiet(s, t)
      BY <1>2 DEF Quiet
    <3> QED BY <1>1, <1>2, <1>4, <3>1, <3>2, TakenGains
  <2> QED BY <1>4, <2>3, <2>4 DEF borrow_cpu, noted, t
<1>5. CASE borrow_cpu(s, pid, c).shm = s
  BY <1>5, SameGains DEF Quiet
<1> QED BY <1>3, <1>4, <1>5 DEF borrow_cpu

(* acquire_cpu obtains the CPU, claims it, or leaves a request for it. *)
LEMMA AcquireCpuGains ==
  ASSUME NEW s \in ShData, NEW pid \in Pid, NEW c \in Cpu
  PROVE  Gains(s, acquire_cpu(s, pid, c).shm, pid, c)
<1> DEFINE busy == [s EXCEPT !.state[c] = "BUSY"]
           told == [busy EXCEPT !.tasks =
                      @ \cup {DisableTask(s.guest[c], c), EnableTask(pid, c)}]
           t == take_cpu(s, pid, c)
           u == IF s.owner[c] # NOBODY THEN note_occupied(t, c) ELSE t
<1>0. busy \in ShData /\ pid # NOBODY
  BY SetBusyType, CpuInfoAssumption
<1>1. CASE s.guest[c] = pid
  BY <1>1, SameGains DEF acquire_cpu, Quiet
<1>2. CASE s.owner[c] = pid /\ s.guest[c] = NOBODY
  <2> DEFINE v == [take_cpu(busy, pid, c) EXCEPT !.free_cpus = @ \ {c}]
  <2>1. v \in ShData
    BY <1>0, TakeCpuType, ClearFreeType
  <2>2. /\ v.owner = s.owner /\ v.guest = [s.guest EXCEPT ![c] = pid]
        /\ v.state = [s.state EXCEPT ![c] = "BUSY"]
        /\ v.free_cpus = s.free_cpus \ {c} /\ v.tasks = s.tasks \cup {EnableTask(pid, c)}
        /\ v.occupied_cores = s.occupied_cores
        /\ v.requests = s.requests /\ v.lewi_mask_requests = s.lewi_mask_requests
        /\ v.queues_enabled = s.queues_enabled
    BY DEF take_cpu, ShData
  <2>3. acquire_cpu(s, pid, c).shm = v
    BY <1>0, <1>2 DEF acquire_cpu
  <2> HIDE DEF v
  <2>4. Quiet(s, v)
    BY <2>2 DEF Quiet
  <2>5. Gains(s, v, pid, c)
    BY <1>2, <2>1, <2>2, <2>4, TakenGains
  <2> QED BY <2>3, <2>5
<1>3. CASE s.owner[c] = pid /\ s.guest[c] # NOBODY /\ s.guest[c] # pid
  <2>1. told \in ShData
    <3>1. s.guest[c] \in PidOrNobody /\ pid \in PidOrNobody
      BY DEF ShData, PidOrNobody
    <3>2. EnableTask(pid, c) \in Task /\ DisableTask(s.guest[c], c) \in Task
      BY <3>1, TaskType
    <3> HIDE DEF busy
    <3> QED BY <1>0, <3>2 DEF ShData
  <2>2. /\ told.owner = s.owner /\ told.guest = s.guest
        /\ told.state = [s.state EXCEPT ![c] = "BUSY"]
        /\ told.free_cpus = s.free_cpus /\ told.occupied_cores = s.occupied_cores
        /\ told.tasks = s.tasks \cup {DisableTask(s.guest[c], c), EnableTask(pid, c)}
        /\ told.requests = s.requests /\ told.lewi_mask_requests = s.lewi_mask_requests
        /\ told.queues_enabled = s.queues_enabled
    BY DEF ShData
  <2> DEFINE v == note_occupied(told, c)
  <2>3. acquire_cpu(s, pid, c).shm = v
    BY <1>3 DEF acquire_cpu
  <2> HIDE DEF told
  <2>4. /\ v \in ShData /\ v.owner = s.owner /\ v.guest = s.guest /\ v.state = told.state
        /\ v.free_cpus = s.free_cpus /\ v.tasks = told.tasks
        /\ Quiet(s, v)
    BY <2>1, <2>2, NoteOccupiedFields DEF Quiet
  <2>5. Noted(s, v, c)
    <3>1. \/ v.occupied_cores = NewOccupied(told, v, c)
          \/ v.occupied_cores = told.occupied_cores /\ c \in told.occupied_cores
      BY <2>1, NoteOccupiedFields
    <3> HIDE DEF v
    <3> QED BY <2>2, <3>1 DEF Noted, NewOccupied
  <2> HIDE DEF v
  <2>6. SameBut(s, v, c)
    BY <2>2, <2>4 DEF SameBut, Same, ShData
  <2>7. Obtains(s, v, pid, c)
    BY <1>3, <2>2, <2>4 DEF Obtains, ShData
  <2>8. Tells(s, v, pid)
    <3>1. Permits(v, pid, c)
      BY <1>3, <2>2, <2>4 DEF Permits, ShData
    <3> QED BY <2>2, <2>4, <3>1, TasksDiffer DEF Tells
  <2>9. Gains(s, v, pid, c)
    BY <2>4, <2>5, <2>6, <2>7, <2>8 DEF Gains
  <2> QED BY <2>3, <2>9
<1>4. CASE s.owner[c] # pid /\ s.guest[c] = NOBODY /\ s.state[c] = "LENT"
           /\ core_is_eligible(s, pid, c)
  <2> DEFINE v == [u EXCEPT !.free_cpus = @ \ {c}]
  <2>1. acquire_cpu(s, pid, c).shm = v
    BY <1>0, <1>4 DEF acquire_cpu
  <2>2. t \in ShData
    BY TakeCpuType
  <2>3. /\ t.owner = s.owner /\ t.guest = [s.guest EXCEPT ![c] = pid] /\ t.state = s.state
        /\ t.free_cpus = s.free_cpus /\ t.tasks = s.tasks \cup {EnableTask(pid, c)}
        /\ t.occupied_cores = s.occupied_cores
        /\ t.requests = s.requests /\ t.lewi_mask_requests = s.lewi_mask_requests
        /\ t.queues_enabled = s.queues_enabled
    BY DEF take_cpu, ShData
  <2> HIDE DEF t
  <2>4. /\ u \in ShData /\ u.owner = s.owner /\ u.guest = t.guest /\ u.state = s.state
        /\ u.free_cpus = s.free_cpus /\ u.tasks = t.tasks
        /\ u.requests = s.requests /\ u.lewi_mask_requests = s.lewi_mask_requests
        /\ u.queues_enabled = s.queues_enabled
    BY <2>2, <2>3, NoteOccupiedFields
  <2>5. \/ u.occupied_cores = NewOccupied(t, u, c)
        \/ u.occupied_cores = t.occupied_cores /\ c \in t.occupied_cores
        \/ u.occupied_cores = t.occupied_cores /\ s.owner[c] = NOBODY
    BY <2>2, NoteOccupiedFields
  <2> HIDE DEF u
  <2>6. /\ v \in ShData /\ v.owner = s.owner /\ v.guest = t.guest /\ v.state = s.state
        /\ v.free_cpus = s.free_cpus \ {c} /\ v.tasks = t.tasks
        /\ v.requests = s.requests /\ v.lewi_mask_requests = s.lewi_mask_requests
        /\ v.queues_enabled = s.queues_enabled /\ v.occupied_cores = u.occupied_cores
    BY <2>4 DEF ShData
  <2> HIDE DEF v
  <2>7. NewOccupied(t, u, c) = NewOccupied(s, v, c)
    BY <2>3, <2>4, <2>6 DEF NewOccupied, cpu_is_occupied, core_is_occupied
  <2>8. s.owner[c] = NOBODY => ~cpu_is_occupied(v, v.owner[c], c)
    BY <2>6 DEF cpu_is_occupied
  <2>9. Noted(s, v, c)
    BY <2>3, <2>5, <2>6, <2>7, <2>8 DEF Noted
  <2>10. Quiet(s, v)
    BY <2>6 DEF Quiet
  <2>11. Gains(s, v, pid, c)
    BY <1>4, <2>3, <2>6, <2>9, <2>10, TakenGains
  <2> QED BY <2>1, <2>11
<1>5. CASE s.queues_enabled /\ acquire_cpu(s, pid, c).shm =
                                [s EXCEPT !.requests[c] = Append(@, pid)]
  <2> DEFINE v == [s EXCEPT !.requests[c] = Append(@, pid)]
  <2>1. v \in ShData
    BY EnqueueType DEF PidOrNobody
  <2>2. /\ v.owner = s.owner /\ v.guest = s.guest /\ v.state = s.state
        /\ v.free_cpus = s.free_cpus /\ v.occupied_cores = s.occupied_cores
        /\ v.tasks = s.tasks /\ v.queues_enabled = s.queues_enabled
    BY DEF ShData
  <2> HIDE DEF v
  <2>3. Gains(s, v, pid, c)
    BY <1>5, <2>1, <2>2, SameGains DEF Quiet
  <2> QED BY <1>5, <2>3 DEF v
<1>6. CASE acquire_cpu(s, pid, c).shm = s
  BY <1>6, SameGains DEF Quiet
<1>7. CASE ~(s.guest[c] = pid) /\ s.owner[c] # pid
           /\ ~(s.guest[c] = NOBODY /\ s.state[c] = "LENT" /\ core_is_eligible(s, pid, c))
  <2>1. \/ s.queues_enabled /\ acquire_cpu(s, pid, c).shm =
                                   [s EXCEPT !.requests[c] = Append(@, pid)]
        \/ acquire_cpu(s, pid, c).shm = s
    BY <1>7 DEF acquire_cpu
  <2> QED BY <2>1, <1>5, <1>6
<1> QED BY <1>1, <1>2, <1>3, <1>4, <1>7

-----------------------------------------------------------------------------
(* Return *)

(* The guest of a CPU leaves it, and occupied_cores is brought up to date. *)
LEMMA VacateCpuMoves ==
  ASSUME NEW s \in ShData, NEW c \in Cpu
  PROVE  LET t == vacate_cpu(s, c) IN
         /\ t \in ShData /\ SameBut(s, t, c) /\ Vacates(s, t, c) /\ Noted(s, t, c)
         /\ t.tasks = s.tasks /\ t.requests = s.requests
         /\ t.lewi_mask_requests = s.lewi_mask_requests
         /\ t.queues_enabled = s.queues_enabled
<1> DEFINE u == IF s.state[c] = "BUSY" THEN [s EXCEPT !.guest[c] = s.owner[c]]
                ELSE [s EXCEPT !.guest[c] = NOBODY, !.free_cpus = @ \cup {c}]
           t == update_occupied_cores(u, s.owner[c], c)
<1>1. u \in ShData
  BY DEF ShData, PidOrNobody
<1>2. /\ u.owner = s.owner /\ u.state = s.state /\ u.occupied_cores = s.occupied_cores
      /\ u.tasks = s.tasks /\ u.requests = s.requests
      /\ u.lewi_mask_requests = s.lewi_mask_requests
      /\ u.queues_enabled = s.queues_enabled
  BY DEF ShData
<1>3. /\ u.guest = [s.guest EXCEPT ![c] = IF s.state[c] = "BUSY" THEN s.owner[c] ELSE NOBODY]
      /\ u.free_cpus = IF s.state[c] = "BUSY" THEN s.free_cpus ELSE s.free_cpus \cup {c}
  BY DEF ShData
<1> HIDE DEF u
<1>4. /\ t \in ShData
      /\ t.owner = u.owner /\ t.guest = u.guest /\ t.state = u.state
      /\ t.free_cpus = u.free_cpus /\ t.tasks = u.tasks
      /\ t.requests = u.requests /\ t.lewi_mask_requests = u.lewi_mask_requests
      /\ t.queues_enabled = u.queues_enabled
      /\ t.occupied_cores = NewOccupied(u, t, c)
  BY <1>1, <1>2, UpdateOccupiedFields
<1> HIDE DEF t
<1>5. SameBut(s, t, c)
  BY <1>2, <1>3, <1>4 DEF SameBut, Same, ShData
<1>6. Vacates(s, t, c)
  BY <1>2, <1>3, <1>4 DEF Vacates, ShData
<1>7. Noted(s, t, c)
  BY <1>2, <1>4 DEF Noted, NewOccupied
<1>8. t = vacate_cpu(s, c)
  BY DEF vacate_cpu, t, u
<1> QED BY <1>2, <1>4, <1>5, <1>6, <1>7, <1>8

(* Adding tasks to a table. *)
LEMMA TasksAdded ==
  ASSUME NEW t \in ShData, NEW new \in SUBSET Task
  PROVE  LET u == [t EXCEPT !.tasks = @ \cup new] IN
         /\ u \in ShData /\ u.tasks = t.tasks \cup new
         /\ u.owner = t.owner /\ u.guest = t.guest /\ u.state = t.state
         /\ u.free_cpus = t.free_cpus /\ u.occupied_cores = t.occupied_cores
         /\ u.requests = t.requests /\ u.lewi_mask_requests = t.lewi_mask_requests
         /\ u.queues_enabled = t.queues_enabled
BY DEF ShData

(* return_cpu vacates a CPU that is not the process's own. *)
LEMMA ReturnCpuMoves ==
  ASSUME NEW s \in ShData, NEW pid \in Pid, NEW c \in Cpu
  PROVE  Returns(s, return_cpu(s, pid, c).shm, pid, c)
<1> DEFINE t == vacate_cpu(s, c)
           u == [t EXCEPT !.tasks = @ \cup {DisableTask(pid, c)}]
<1>1. /\ t \in ShData /\ SameBut(s, t, c) /\ Vacates(s, t, c) /\ Noted(s, t, c)
      /\ t.tasks = s.tasks /\ t.requests = s.requests
      /\ t.lewi_mask_requests = s.lewi_mask_requests
      /\ t.queues_enabled = s.queues_enabled
  BY VacateCpuMoves
<1> HIDE DEF t
<1>2. {DisableTask(pid, c)} \in SUBSET Task
  BY TaskType DEF PidOrNobody
<1>3. /\ u \in ShData /\ u.tasks = s.tasks \cup {DisableTask(pid, c)}
      /\ u.owner = t.owner /\ u.guest = t.guest /\ u.state = t.state
      /\ u.free_cpus = t.free_cpus /\ u.occupied_cores = t.occupied_cores
      /\ Quiet(s, u)
  <2> DEFINE off == {DisableTask(pid, c)}
  <2>1. off \in SUBSET Task /\ u = [t EXCEPT !.tasks = @ \cup off]
    BY <1>2
  <2> HIDE DEF off, u
  <2>2. /\ u \in ShData /\ u.tasks = t.tasks \cup off
        /\ u.owner = t.owner /\ u.guest = t.guest /\ u.state = t.state
        /\ u.free_cpus = t.free_cpus /\ u.occupied_cores = t.occupied_cores
        /\ u.requests = t.requests /\ u.lewi_mask_requests = t.lewi_mask_requests
        /\ u.queues_enabled = t.queues_enabled
    BY <1>1, <2>1, TasksAdded
  <2> QED BY <1>1, <2>2 DEF Quiet, off
<1> HIDE DEF u
<1>4. SameBut(s, u, c) /\ Vacates(s, u, c)
  BY <1>1, <1>3 DEF SameBut, Same, Vacates
<1>5. Noted(s, u, c)
  BY <1>1, <1>3 DEF Noted, NewOccupied, cpu_is_occupied, core_is_occupied
<1>6. Tells(s, u, pid)
  BY <1>3, TasksDiffer DEF Tells
<1>7. CASE s.guest[c] = pid /\ s.owner[c] # pid
  <2>1. Returns(s, u, pid, c)
    BY <1>3, <1>4, <1>5, <1>6, <1>7 DEF Returns
  <2>2. Returns(s, s, pid, c)
    BY DEF Returns, Unmoved, Same, Quiet, Tells
  <2> QED BY <2>1, <2>2 DEF return_cpu, u, t
<1>8. CASE ~(s.guest[c] = pid /\ s.owner[c] # pid)
  <2>1. return_cpu(s, pid, c).shm = s
    BY <1>8 DEF return_cpu
  <2> QED BY <2>1 DEF Returns, Unmoved, Same, Quiet, Tells
<1> QED BY <1>7, <1>8

-----------------------------------------------------------------------------
(* Lend *)

(* Looking for a new guest consumes a request, at most; a claimed CPU goes *)
(* to its owner, and without queues no other one finds a guest.            *)
LEMMA FindNewGuestFields ==
  ASSUME NEW s \in ShData, NEW c \in Cpu
  PROVE  LET f == find_new_guest(s, c) IN
         /\ f.shm \in ShData /\ f.pid \in PidOrNobody
         /\ f.shm.owner = s.owner /\ f.shm.guest = s.guest /\ f.shm.state = s.state
         /\ f.shm.free_cpus = s.free_cpus /\ f.shm.occupied_cores = s.occupied_cores
         /\ f.shm.tasks = s.tasks /\ Quiet(s, f.shm)
         /\ IF s.state[c] = "BUSY" THEN f.pid = s.owner[c]
            ELSE ~s.queues_enabled => f.pid = NOBODY
<1> DEFINE f == find_new_guest(s, c)
<1>1. f.shm \in ShData /\ f.pid \in PidOrNobody
  BY FindNewGuestType
<1>2. CASE s.state[c] = "BUSY"
  BY <1>1, <1>2 DEF find_new_guest, Quiet
<1>3. CASE s.state[c] # "BUSY" /\ ~s.queues_enabled
  BY <1>1, <1>3 DEF find_new_guest, Quiet
<1>4. CASE s.state[c] # "BUSY" /\ s.queues_enabled
  <2>1. /\ f.shm.owner = s.owner /\ f.shm.guest = s.guest /\ f.shm.state = s.state
        /\ f.shm.free_cpus = s.free_cpus /\ f.shm.occupied_cores = s.occupied_cores
        /\ f.shm.tasks = s.tasks /\ f.shm.queues_enabled = s.queues_enabled
    BY <1>4 DEF find_new_guest, serve_cpu_request, serve_proc_request, ShData
  <2> QED BY <1>1, <1>4, <2>1 DEF Quiet
<1> QED BY <1>2, <1>3, <1>4

(* An idle CPU that is offered stays idle, or gets a guest: its owner if   *)
(* it is claimed, else somebody who has asked for it.                      *)
LEMMA AssignGuestMoves ==
  ASSUME NEW s \in ShData, NEW d \in Cpu, s.guest[d] = NOBODY
  PROVE  LET t == assign_guest(s, d) IN
         /\ t \in ShData /\ Quiet(s, t) /\ Enables(s, t)
         /\ t.owner = s.owner /\ t.state = s.state
         /\ t.free_cpus = s.free_cpus /\ t.occupied_cores = s.occupied_cores
         /\ \A e \in Cpu \ {d} : t.guest[e] = s.guest[e]
         /\ \/ t.guest[d] = NOBODY /\ (s.state[d] = "BUSY" => s.owner[d] = NOBODY)
            \/ t.guest[d] = s.owner[d] /\ s.state[d] = "BUSY"
            \/ t.guest[d] # NOBODY /\ s.queues_enabled
<1> DEFINE f == find_new_guest(s, d)
           t == assign_guest(s, d)
<1>1. /\ f.shm \in ShData /\ f.pid \in PidOrNobody
      /\ f.shm.owner = s.owner /\ f.shm.guest = s.guest /\ f.shm.state = s.state
      /\ f.shm.free_cpus = s.free_cpus /\ f.shm.occupied_cores = s.occupied_cores
      /\ f.shm.tasks = s.tasks /\ Quiet(s, f.shm)
      /\ IF s.state[d] = "BUSY" THEN f.pid = s.owner[d]
         ELSE ~s.queues_enabled => f.pid = NOBODY
  BY FindNewGuestFields
<1>2. t = give_cpu(f, d)
  BY DEF assign_guest
<1>3. t \in ShData
  BY AssignGuestType
<1> HIDE DEF f, t
<1>4. CASE f.pid = NOBODY
  <2>1. t = f.shm
    BY <1>2, <1>4 DEF give_cpu
  <2> QED BY <1>1, <1>3, <1>4, <2>1 DEF Enables, t
<1>5. CASE f.pid # NOBODY
  <2>1. /\ t.owner = s.owner /\ t.state = s.state
        /\ t.free_cpus = s.free_cpus /\ t.occupied_cores = s.occupied_cores
        /\ t.guest = [s.guest EXCEPT ![d] = f.pid]
        /\ t.tasks = s.tasks \cup {EnableTask(f.pid, d)}
        /\ t.requests = f.shm.requests /\ t.lewi_mask_requests = f.shm.lewi_mask_requests
        /\ t.queues_enabled = f.shm.queues_enabled
    BY <1>1, <1>2, <1>5 DEF give_cpu, ShData
  <2>2. t.guest[d] = f.pid /\ \A e \in Cpu \ {d} : t.guest[e] = s.guest[e]
    BY <2>1 DEF ShData
  <2>3. Quiet(s, t)
    BY <1>1, <2>1 DEF Quiet
  <2>4. Enables(s, t)
    BY <1>5, <2>1, <2>2 DEF Enables
  <2>5. \/ t.guest[d] = s.owner[d] /\ s.state[d] = "BUSY"
        \/ t.guest[d] # NOBODY /\ s.queues_enabled
    BY <1>1, <1>5, <2>2
  <2> QED BY <1>3, <2>1, <2>2, <2>3, <2>4, <2>5 DEF t
<1> QED BY <1>4, <1>5

(* Without SMT a core is one CPU. *)
LEMMA SingleCpuCore ==
  ASSUME ~hw_has_smt, NEW c \in Cpu
  PROVE  core_mask[c] = {c}
BY CpuInfoAssumption DEF hw_has_smt

(* When a lent CPU has a new guest, the other CPU of its core may go to    *)
(* the owner that has claimed it.                                          *)
LEMMA AssignSiblingsMoves ==
  ASSUME NEW s \in ShData, NEW c \in Cpu, s.queues_enabled => ~hw_has_smt
  PROVE  LET t == assign_siblings(s, c) IN
         /\ t \in ShData /\ Quiet(s, t) /\ Enables(s, t) /\ Same(s, t, c)
         /\ t.occupied_cores = s.occupied_cores
         /\ \A d \in Cpu \ {c} : Same(s, t, d) \/ (d \in core_mask[c] /\ Rouses(s, t, d))
<1>1. CASE core_mask[c] = {c}
  BY <1>1 DEF assign_siblings, Quiet, Enables, Same
<1>2. CASE core_mask[c] # {c}
  <2>0. ~s.queues_enabled
    BY <1>2, SingleCpuCore
  <2> DEFINE d == CHOOSE x \in core_mask[c] : x # c
             t == assign_siblings(s, c)
  <2>1. d \in Cpu /\ d \in core_mask[c] /\ d # c
    BY <1>2, CpuInfoAssumption
  <2>2. t = assign_sibling(s, d)
    BY <1>2 DEF assign_siblings
  <2> HIDE DEF d, t
  <2>3. CASE s.guest[d] # NOBODY
    <3>1. t = s
      BY <2>2, <2>3 DEF assign_sibling
    <3> QED BY <3>1 DEF Quiet, Enables, Same, t
  <2>4. CASE s.guest[d] = NOBODY
    <3> DEFINE u == assign_guest(s, d)
    <3>1. /\ u \in ShData /\ Quiet(s, u) /\ Enables(s, u)
          /\ u.owner = s.owner /\ u.state = s.state
          /\ u.free_cpus = s.free_cpus /\ u.occupied_cores = s.occupied_cores
          /\ \A e \in Cpu \ {d} : u.guest[e] = s.guest[e]
          /\ \/ u.guest[d] = NOBODY /\ (s.state[d] = "BUSY" => s.owner[d] = NOBODY)
             \/ u.guest[d] = s.owner[d] /\ s.state[d] = "BUSY"
             \/ u.guest[d] # NOBODY /\ s.queues_enabled
      BY <2>1, <2>4, AssignGuestMoves
    <3>2. t = clear_if_guested(u, d)
      BY <2>2, <2>4 DEF assign_sibling
    <3> HIDE DEF u
    <3>3. CASE u.guest[d] = NOBODY
      <4>1. t = u
        BY <3>2, <3>3 DEF clear_if_guested
      <4>2. \A e \in Cpu : Same(s, t, e)
        BY <2>4, <3>1, <3>3, <4>1 DEF Same
      <4> QED BY <3>1, <4>1, <4>2 DEF t
    <3>4. CASE u.guest[d] # NOBODY
      <4>1. t = [u EXCEPT !.free_cpus = @ \ {d}]
        BY <3>2, <3>4 DEF clear_if_guested
      <4>2. /\ t \in ShData /\ t.owner = s.owner /\ t.state = s.state /\ t.guest = u.guest
            /\ t.free_cpus = s.free_cpus \ {d} /\ t.occupied_cores = s.occupied_cores
            /\ t.tasks = u.tasks /\ t.requests = u.requests
            /\ t.lewi_mask_requests = u.lewi_mask_requests
            /\ t.queues_enabled = u.queues_enabled
        BY <3>1, <4>1 DEF ShData
      <4>3. \A e \in Cpu \ {d} : Same(s, t, e)
        BY <3>1, <4>2 DEF Same
      <4>4. Rouses(s, t, d)
        BY <2>0, <2>4, <3>1, <3>4, <4>2 DEF Rouses
      <4>5. Quiet(s, t) /\ Enables(s, t)
        BY <3>1, <4>2 DEF Quiet, Enables
      <4> QED BY <2>1, <4>2, <4>3, <4>4, <4>5 DEF t
    <3> QED BY <3>3, <3>4
  <2> QED BY <2>3, <2>4
<1> QED BY <1>1, <1>2

(* Lending offers the CPU once the process has given it up. *)
LEMMA OfferCpuMoves ==
  ASSUME NEW s \in ShData, NEW c \in Cpu, s.queues_enabled => ~hw_has_smt
  PROVE  LET t == offer_cpu(s, c) IN
         /\ t \in ShData /\ Quiet(s, t) /\ Enables(s, t)
         /\ t.occupied_cores = s.occupied_cores
         /\ t.owner[c] = s.owner[c] /\ t.state[c] = s.state[c]
         /\ \A d \in Cpu \ {c} : Same(s, t, d) \/ (d \in core_mask[c] /\ Rouses(s, t, d))
         /\ \/ s.guest[c] # NOBODY /\ t.guest[c] = s.guest[c]
            \/ s.guest[c] = NOBODY /\ t.guest[c] = NOBODY /\ c \in t.free_cpus
               /\ (s.state[c] = "BUSY" => s.owner[c] = NOBODY)
            \/ s.guest[c] = NOBODY /\ t.guest[c] = s.owner[c] /\ s.state[c] = "BUSY"
            \/ s.guest[c] = NOBODY /\ t.guest[c] # NOBODY /\ s.queues_enabled
<1> DEFINE t == offer_cpu(s, c)
<1>1. CASE s.guest[c] # NOBODY
  <2>1. t = s
    BY <1>1 DEF offer_cpu
  <2> QED BY <1>1, <2>1 DEF Quiet, Enables, Same
<1>2. CASE s.guest[c] = NOBODY
  <2> DEFINE u == assign_guest(s, c)
  <2>1. /\ u \in ShData /\ Quiet(s, u) /\ Enables(s, u)
        /\ u.owner = s.owner /\ u.state = s.state
        /\ u.free_cpus = s.free_cpus /\ u.occupied_cores = s.occupied_cores
        /\ \A e \in Cpu \ {c} : u.guest[e] = s.guest[e]
        /\ \/ u.guest[c] = NOBODY /\ (s.state[c] = "BUSY" => s.owner[c] = NOBODY)
           \/ u.guest[c] = s.owner[c] /\ s.state[c] = "BUSY"
           \/ u.guest[c] # NOBODY /\ s.queues_enabled
    BY <1>2, AssignGuestMoves
  <2>2. t = after_offer(u, c)
    BY <1>2 DEF offer_cpu
  <2> HIDE DEF u, t
  <2>3. CASE u.guest[c] = NOBODY
    <3>1. t = [u EXCEPT !.free_cpus = @ \cup {c}]
      BY <2>2, <2>3 DEF after_offer
    <3>2. /\ t \in ShData /\ t.owner = s.owner /\ t.state = s.state /\ t.guest = u.guest
          /\ t.free_cpus = s.free_cpus \cup {c} /\ t.occupied_cores = s.occupied_cores
          /\ t.tasks = u.tasks /\ t.requests = u.requests
          /\ t.lewi_mask_requests = u.lewi_mask_requests
          /\ t.queues_enabled = u.queues_enabled
      BY <2>1, <3>1 DEF ShData
    <3>3. \A d \in Cpu \ {c} : Same(s, t, d)
      BY <2>1, <3>2 DEF Same
    <3>4. Quiet(s, t) /\ Enables(s, t)
      BY <2>1, <3>2 DEF Quiet, Enables
    <3>5. s.state[c] = "BUSY" => s.owner[c] = NOBODY
      BY <2>1, <2>3
    <3> QED BY <1>2, <2>3, <3>2, <3>3, <3>4, <3>5 DEF t
  <2>4. CASE u.guest[c] # NOBODY
    <3>1. t = assign_siblings(u, c)
      BY <2>2, <2>4 DEF after_offer
    <3>2. u.queues_enabled => ~hw_has_smt
      BY <2>1 DEF Quiet
    <3>3. /\ t \in ShData /\ Quiet(u, t) /\ Enables(u, t) /\ Same(u, t, c)
          /\ t.occupied_cores = u.occupied_cores
          /\ \A d \in Cpu \ {c} : Same(u, t, d) \/ (d \in core_mask[c] /\ Rouses(u, t, d))
      BY <2>1, <3>1, <3>2, AssignSiblingsMoves
    <3>4. \A d \in Cpu \ {c} : Same(s, t, d) \/ (d \in core_mask[c] /\ Rouses(s, t, d))
      BY <2>1, <3>3 DEF Same, Rouses
    <3>5. Quiet(s, t)
      BY <2>1, <3>3 DEF Quiet
    <3>6. Enables(s, t)
      <4>1. \A d \in Cpu : u.guest[d] # NOBODY => t.guest[d] = u.guest[d]
        BY <3>3 DEF Same, Rouses
      <4> QED BY <2>1, <3>3, <4>1 DEF Enables
    <3>7. t.owner[c] = s.owner[c] /\ t.state[c] = s.state[c] /\ t.guest[c] = u.guest[c]
      BY <2>1, <3>3 DEF Same
    <3> QED BY <1>2, <2>1, <2>4, <3>3, <3>4, <3>5, <3>6, <3>7 DEF t
  <2> QED BY <2>3, <2>4
<1> QED BY <1>1, <1>2

(* lend_cpu *)
LEMMA LendCpuMoves ==
  ASSUME NEW s \in ShData, NEW pid \in Pid, NEW c \in Cpu, s.queues_enabled => ~hw_has_smt
  PROVE  LendMoves(s, lend_cpu(s, pid, c), pid, c)
<1> DEFINE u == release_cpu(s, pid, c)
           v == offer_cpu(u, c)
           t == update_occupied_cores(v, s.owner[c], c)
<1>0. pid # NOBODY
  BY CpuInfoAssumption
<1>1. CASE s.state[c] = "DISABLED"
  BY <1>1 DEF lend_cpu, LendMoves, Unmoved, Same, Quiet, Enables
<1>2. CASE s.state[c] # "DISABLED"
  <2>1. u \in ShData
    BY ReleaseCpuType
  <2>2. /\ u.owner = s.owner /\ u.free_cpus = s.free_cpus /\ u.tasks = s.tasks
        /\ u.occupied_cores = s.occupied_cores /\ u.queues_enabled = s.queues_enabled
        /\ u.lewi_mask_requests = s.lewi_mask_requests
        /\ u.state = [s.state EXCEPT ![c] = IF s.owner[c] = pid THEN "LENT" ELSE s.state[c]]
        /\ u.guest = [s.guest EXCEPT ![c] = IF s.guest[c] = pid THEN NOBODY ELSE s.guest[c]]
    BY DEF release_cpu, ShData
  <2>3. Quiet(s, u)
    <3>1. ~s.queues_enabled => \A d \in Cpu : u.requests[d] = s.requests[d]
      BY DEF release_cpu, ShData
    <3> QED BY <2>2, <3>1 DEF Quiet
  <2> HIDE DEF u
  <2>4. /\ v \in ShData /\ Quiet(u, v) /\ Enables(u, v)
        /\ v.occupied_cores = u.occupied_cores
        /\ v.owner[c] = u.owner[c] /\ v.state[c] = u.state[c]
        /\ \A d \in Cpu \ {c} : Same(u, v, d) \/ (d \in core_mask[c] /\ Rouses(u, v, d))
        /\ \/ u.guest[c] # NOBODY /\ v.guest[c] = u.guest[c]
           \/ u.guest[c] = NOBODY /\ v.guest[c] = NOBODY /\ c \in v.free_cpus
              /\ (u.state[c] = "BUSY" => u.owner[c] = NOBODY)
           \/ u.guest[c] = NOBODY /\ v.guest[c] = u.owner[c] /\ u.state[c] = "BUSY"
           \/ u.guest[c] = NOBODY /\ v.guest[c] # NOBODY /\ u.queues_enabled
    <3>1. u.queues_enabled => ~hw_has_smt
      BY <2>2
    <3> QED BY <2>1, <3>1, OfferCpuMoves
  <2> HIDE DEF v
  <2>5. v.owner[c] = s.owner[c]
    BY <2>2, <2>4
  <2>6. /\ t \in ShData
        /\ t.owner = v.owner /\ t.guest = v.guest /\ t.state = v.state
        /\ t.free_cpus = v.free_cpus /\ t.tasks = v.tasks
        /\ t.requests = v.requests /\ t.lewi_mask_requests = v.lewi_mask_requests
        /\ t.queues_enabled = v.queues_enabled
        /\ t.occupied_cores = NewOccupied(v, t, c)
    BY <2>4, <2>5, UpdateOccupiedFields
  <2> HIDE DEF t
  <2>7. Lends(s, t, pid, c)
    <3>1. /\ t.owner[c] = s.owner[c] /\ t.state[c] = u.state[c] /\ t.guest[c] = v.guest[c]
          /\ u.state[c] = IF s.owner[c] = pid THEN "LENT" ELSE s.state[c]
          /\ u.guest[c] = IF s.guest[c] = pid THEN NOBODY ELSE s.guest[c]
      BY <2>2, <2>4, <2>6 DEF ShData
    <3> QED BY <1>0, <2>2, <2>4, <2>6, <3>1 DEF Lends
  <2>8. Noted(s, t, c)
    BY <2>2, <2>4, <2>6 DEF Noted, NewOccupied
  <2>9. \A d \in Cpu \ {c} : Same(s, t, d) \/ (d \in core_mask[c] /\ Rouses(s, t, d))
    <3> TAKE d \in Cpu \ {c}
    <3>1. u.owner[d] = s.owner[d] /\ u.guest[d] = s.guest[d] /\ u.state[d] = s.state[d]
      BY <2>2 DEF ShData
    <3>2. CASE Same(u, v, d)
      BY <2>2, <2>6, <3>1, <3>2 DEF Same
    <3>3. CASE d \in core_mask[c] /\ Rouses(u, v, d)
      BY <2>6, <3>1, <3>3 DEF Rouses
    <3> QED BY <2>4, <3>2, <3>3
  <2>10. Quiet(s, t)
    BY <2>3, <2>4, <2>6 DEF Quiet
  <2>11. Enables(s, t)
    BY <2>2, <2>4, <2>6 DEF Enables
  <2>12. lend_cpu(s, pid, c) = t
    BY <1>2 DEF lend_cpu, t, v, u
  <2> QED BY <1>2, <2>6, <2>7, <2>8, <2>9, <2>10, <2>11, <2>12 DEF LendMoves
<1> QED BY <1>1, <1>2

-----------------------------------------------------------------------------
(* Register and deregister *)

(* register_cpu *)
LEMMA RegisterCpuMoves ==
  ASSUME NEW s \in ShData, NEW pid \in Pid, NEW c \in Cpu
  PROVE  Registers(s, register_cpu(s, pid, NOBODY, c), pid, c)
<1> DEFINE u == [s EXCEPT !.owner[c] = pid,
                     !.state[c] = "BUSY",
                     !.guest[c] = IF @ \in {NOBODY, NOBODY} THEN pid ELSE @,
                     !.free_cpus = @ \ {c}]
           t == update_occupied_cores(u, pid, c)
<1>0. pid # NOBODY
  BY CpuInfoAssumption
<1>1. u \in ShData
  BY DEF ShData, PidOrNobody, CpuState
<1>2. /\ u.owner = [s.owner EXCEPT ![c] = pid] /\ u.state = [s.state EXCEPT ![c] = "BUSY"]
      /\ u.guest = [s.guest EXCEPT ![c] = IF s.guest[c] = NOBODY THEN pid ELSE s.guest[c]]
      /\ u.free_cpus = s.free_cpus \ {c} /\ u.occupied_cores = s.occupied_cores
      /\ u.tasks = s.tasks /\ u.requests = s.requests
      /\ u.lewi_mask_requests = s.lewi_mask_requests
      /\ u.queues_enabled = s.queues_enabled
  BY DEF ShData
<1>3. u.owner[c] = pid
  BY <1>2 DEF ShData
<1> HIDE DEF u
<1>4. /\ t \in ShData
      /\ t.owner = u.owner /\ t.guest = u.guest /\ t.state = u.state
      /\ t.free_cpus = u.free_cpus /\ t.tasks = u.tasks
      /\ t.requests = u.requests /\ t.lewi_mask_requests = u.lewi_mask_requests
      /\ t.queues_enabled = u.queues_enabled
      /\ t.occupied_cores = NewOccupied(u, t, c)
  BY <1>1, <1>3, UpdateOccupiedFields
<1>5. t = register_cpu(s, pid, NOBODY, c)
  BY DEF register_cpu, u
<1> HIDE DEF t
<1>6. Quiet(s, t) /\ t.tasks = s.tasks
  BY <1>2, <1>4 DEF Quiet
<1>7. SameBut(s, t, c)
  BY <1>2, <1>4 DEF SameBut, Same, ShData
<1>8. Noted(s, t, c)
  BY <1>2, <1>4 DEF Noted, NewOccupied
<1>9. /\ t.owner[c] = pid /\ t.state[c] = "BUSY"
      /\ t.guest[c] = IF s.guest[c] = NOBODY THEN pid ELSE s.guest[c]
  BY <1>2, <1>4 DEF ShData
<1> QED BY <1>4, <1>5, <1>6, <1>7, <1>8, <1>9 DEF Registers

(* deregister_cpu *)
LEMMA DeregisterCpuMoves ==
  ASSUME NEW s \in ShData, NEW pid \in Pid, NEW c \in Cpu
  PROVE  Deregisters(s, deregister_cpu(s, pid, c), pid, c)
<1> DEFINE t == deregister_cpu(s, pid, c)
           guest == IF s.guest[c] = pid THEN NOBODY ELSE s.guest[c]
<1>1. t \in ShData
  BY DeregisterCpuType
<1>2. CASE s.owner[c] = pid
  <2>1. /\ t.owner = [s.owner EXCEPT ![c] = NOBODY] /\ t.guest = [s.guest EXCEPT ![c] = guest]
        /\ t.state = [s.state EXCEPT ![c] = IF PublicPostMortem THEN "LENT" ELSE "DISABLED"]
        /\ t.free_cpus = IF ~PublicPostMortem THEN s.free_cpus \ {c}
                         ELSE IF guest = NOBODY THEN s.free_cpus \cup {c} ELSE s.free_cpus
        /\ t.occupied_cores = s.occupied_cores \ core_mask[c]
        /\ t.tasks = s.tasks /\ t.lewi_mask_requests = s.lewi_mask_requests
        /\ t.queues_enabled = s.queues_enabled
    BY <1>2 DEF deregister_cpu, ShData
  <2>2. t.requests = [s.requests EXCEPT ![c] = IF PublicPostMortem THEN @ ELSE <<>>]
    BY <1>2 DEF deregister_cpu, ShData
  <2> HIDE DEF t, guest
  <2>3. Quiet(s, t)
    BY <2>1, <2>2 DEF Quiet, ShData
  <2>4. SameBut(s, t, c)
    BY <2>1 DEF SameBut, Same, ShData
  <2>5. t.owner[c] = NOBODY /\ t.guest[c] = guest
        /\ t.state[c] = IF PublicPostMortem THEN "LENT" ELSE "DISABLED"
    BY <2>1 DEF ShData
  <2>6. Deregisters(s, t, pid, c)
    BY <1>1, <1>2, <2>1, <2>3, <2>4, <2>5 DEF Deregisters, guest
  <2> QED BY <2>6 DEF t
<1>3. CASE s.owner[c] # pid
  <2>1. /\ t.owner = s.owner /\ t.guest = [s.guest EXCEPT ![c] = guest] /\ t.state = s.state
        /\ t.free_cpus = IF s.guest[c] = pid THEN s.free_cpus \cup {c} ELSE s.free_cpus
        /\ t.occupied_cores = s.occupied_cores
        /\ t.tasks = s.tasks /\ t.lewi_mask_requests = s.lewi_mask_requests
        /\ t.queues_enabled = s.queues_enabled
    BY <1>3 DEF deregister_cpu, ShData
  <2>2. ~s.queues_enabled => \A d \in Cpu : t.requests[d] = s.requests[d]
    BY <1>3 DEF deregister_cpu, ShData
  <2> HIDE DEF t, guest
  <2>3. Quiet(s, t)
    BY <2>1, <2>2 DEF Quiet
  <2>4. SameBut(s, t, c)
    BY <2>1 DEF SameBut, Same, ShData
  <2>5. t.guest[c] = guest
    BY <2>1 DEF ShData
  <2>6. Deregisters(s, t, pid, c)
    BY <1>1, <1>3, <2>1, <2>3, <2>4, <2>5 DEF Deregisters, guest
  <2> QED BY <2>6 DEF t
<1> QED BY <1>2, <1>3

-----------------------------------------------------------------------------
(* What the moves preserve *)

(* An idle CPU is in free_cpus, a CPU that another process than its owner  *)
(* uses is in occupied_cores, and a claimed CPU has an owner.              *)
Tracked(s) ==
  \A d \in Cpu :
    /\ s.guest[d] = NOBODY /\ (s.owner[d] # NOBODY \/ s.state[d] = "LENT")
         => d \in s.free_cpus
    /\ OccupiedTracked(s, d)
    /\ s.state[d] = "BUSY" => s.owner[d] # NOBODY

(* The CPUs of c's core have no other owner than c. *)
AgreeAt(s, c) == \A d \in core_mask[c] : s.owner[d] \in {s.owner[c], NOBODY}

Agree(s) == \A c \in Cpu : AgreeAt(s, c)

(* Two processes use CPUs of one core only if the owner of one of them has *)
(* taken it back.                                                          *)
Apart(s) ==
  \A c \in Cpu : \A d \in core_mask[c] :
    NOBODY \notin {s.guest[c], s.guest[d]} /\ s.guest[c] # s.guest[d] =>
      \E e \in {c, d} : s.state[e] = "BUSY" /\ s.guest[e] = s.owner[e]

(* A move in the name of pid takes nothing from another process. *)
Plays(s, t, pid) ==
  /\ t \in ShData /\ Quiet(s, t)
  /\ \A d \in Cpu :
       /\ t.owner[d] = s.owner[d]
       /\ s.owner[d] # pid => t.state[d] = s.state[d]
       /\ s.guest[d] \notin {NOBODY, pid} => t.guest[d] = s.guest[d]
       /\ ~s.queues_enabled => t.guest[d] \in {NOBODY, s.guest[d], s.owner[d], pid}

(* Where pid loses a CPU, or is told to use one it may not use, it is told *)
(* to stop using it.                                                       *)
UseKept(s, t, pid) ==
  /\ s.tasks \subseteq t.tasks
  /\ \A d \in Cpu :
       /\ Permits(s, pid, d) => Permits(t, pid, d) \/ DisableTask(pid, d) \in t.tasks
       /\ EnableTask(pid, d) \in t.tasks =>
            \/ EnableTask(pid, d) \in s.tasks
            \/ Permits(t, pid, d) \/ DisableTask(pid, d) \in t.tasks

(* occupied_cores finds the occupied CPUs again once it is up to date. *)
LEMMA OccupiedKept ==
  ASSUME NEW s \in ShData, NEW t \in ShData, NEW c \in Cpu,
         \A d \in Cpu : OccupiedTracked(s, d), Noted(s, t, c), AgreeAt(t, c),
         \A d \in Cpu \ {c} : /\ t.owner[d] = s.owner[d]
                              /\ t.guest[d] \in {s.guest[d], s.owner[d], NOBODY}
  PROVE  \A d \in Cpu : OccupiedTracked(t, d)
<1> TAKE d \in Cpu
<1> SUFFICES ASSUME t.owner[d] # NOBODY, t.guest[d] \notin {NOBODY, t.owner[d]}
             PROVE  d \in t.occupied_cores
  BY DEF OccupiedTracked
<1>0. c \in core_mask[c]
  BY CpuInfoAssumption
<1>1. CASE d = c
  <2>1. cpu_is_occupied(t, t.owner[c], c)
    BY <1>1 DEF cpu_is_occupied
  <2>2. CASE t.occupied_cores = NewOccupied(s, t, c)
    BY <1>0, <1>1, <2>1, <2>2 DEF NewOccupied
  <2>3. CASE t.occupied_cores = s.occupied_cores
             /\ (c \in s.occupied_cores \/ cpu_is_occupied(s, s.owner[c], c))
    BY <1>1, <2>3 DEF OccupiedTracked, cpu_is_occupied
  <2> QED BY <2>1, <2>2, <2>3 DEF Noted
<1>2. CASE d # c
  <2>1. d \in s.occupied_cores
    BY <1>2 DEF OccupiedTracked
  <2>2. CASE t.occupied_cores = NewOccupied(s, t, c)
    <3>1. CASE d \notin core_mask[c]
      BY <2>1, <2>2, <3>1 DEF NewOccupied
    <3>2. CASE d \in core_mask[c]
      <4>1. t.owner[c] = t.owner[d]
        BY <3>2 DEF AgreeAt
      <4>2. core_is_occupied(t, t.owner[c], c)
        BY <3>2, <4>1 DEF core_is_occupied
      <4> QED BY <2>1, <2>2, <4>2 DEF NewOccupied
    <3> QED BY <3>1, <3>2
  <2> QED BY <2>1, <2>2 DEF Noted
<1> QED BY <1>1, <1>2

(* Obtaining a CPU keeps the sets. *)
LEMMA GainsTracked ==
  ASSUME NEW s \in ShData, NEW t, NEW pid \in Pid, NEW c \in Cpu,
         Gains(s, t, pid, c), Tracked(s), AgreeAt(s, c)
  PROVE  Tracked(t)
<1>1. CASE Unmoved(s, t)
  BY <1>1 DEF Unmoved, Same, Tracked, OccupiedTracked
<1>2. CASE SameBut(s, t, c) /\ Obtains(s, t, pid, c) /\ Noted(s, t, c)
  <2>1. \A d \in Cpu \ {c} : Same(s, t, d)
    BY <1>2 DEF SameBut
  <2>2. AgreeAt(t, c)
    BY <1>2, <2>1, CpuInfoAssumption DEF AgreeAt, Same, Obtains
  <2>3. \A d \in Cpu : OccupiedTracked(t, d)
    BY <1>2, <2>1, <2>2, OccupiedKept DEF Tracked, Gains, Same
  <2>4. pid # NOBODY
    BY CpuInfoAssumption
  <2> QED BY <1>2, <2>1, <2>3, <2>4 DEF Tracked, Same, Obtains
<1> QED BY <1>1, <1>2 DEF Gains

(* Obtaining a CPU keeps the processes apart. *)
LEMMA GainsApart ==
  ASSUME NEW s \in ShData, NEW t, NEW pid \in Pid, NEW c \in Cpu,
         Gains(s, t, pid, c), Apart(s)
  PROVE  Apart(t)
<1>1. CASE Unmoved(s, t)
  BY <1>1, CpuInfoAssumption DEF Unmoved, Same, Apart
<1>2. CASE SameBut(s, t, c) /\ Obtains(s, t, pid, c) /\ Noted(s, t, c)
  <2>1. \A d \in Cpu \ {c} : Same(s, t, d)
    BY <1>2 DEF SameBut
  <2>2. ASSUME NEW d \in core_mask[c], d # c,
               NOBODY \notin {t.guest[c], t.guest[d]}, t.guest[c] # t.guest[d]
        PROVE  \E e \in {c, d} : t.state[e] = "BUSY" /\ t.guest[e] = t.owner[e]
    <3>0. d \in Cpu /\ Same(s, t, d)
      BY <2>1, <2>2, CpuInfoAssumption
    <3>1. CASE s.owner[c] = pid /\ s.guest[c] = NOBODY
      BY <1>2, <3>1 DEF Obtains
    <3>2. CASE s.owner[c] = pid /\ s.guest[c] # NOBODY
      <4>1. t.guest[c] = s.guest[c] /\ t.state[c] = "BUSY" /\ t.owner[c] = s.owner[c]
        BY <1>2, <3>2 DEF Obtains
      <4>2. \E e \in {c, d} : s.state[e] = "BUSY" /\ s.guest[e] = s.owner[e]
        BY <2>2, <3>0, <4>1 DEF Apart, Same
      <4> QED BY <3>0, <4>1, <4>2 DEF Same
    <3>3. CASE s.owner[c] # pid
      <4>1. core_is_eligible(s, pid, c) /\ t.guest[c] = pid
        BY <1>2, <3>3 DEF Obtains
      <4>2. s.guest[d] \in {pid, NOBODY}
        BY <2>2, <4>1, SingleCpuCore DEF core_is_eligible
      <4> QED BY <2>2, <3>0, <4>1, <4>2 DEF Same
    <3> QED BY <3>1, <3>2, <3>3
  <2> QED BY <2>1, <2>2, CpuInfoAssumption DEF Apart, Same
<1> QED BY <1>1, <1>2 DEF Gains

(* Obtaining a CPU is no loss to anybody. *)
LEMMA GainsPlays ==
  ASSUME NEW s \in ShData, NEW t, NEW pid \in Pid, NEW c \in Cpu, Gains(s, t, pid, c)
  PROVE  Plays(s, t, pid) /\ UseKept(s, t, pid)
<1>0. pid # NOBODY
  BY CpuInfoAssumption
<1>1. CASE Unmoved(s, t)
  BY <1>1 DEF Unmoved, Same, Plays, UseKept, Permits, Gains, Tells
<1>2. CASE SameBut(s, t, c) /\ Obtains(s, t, pid, c) /\ Noted(s, t, c)
  <2>1. \A d \in Cpu \ {c} : Same(s, t, d)
    BY <1>2 DEF SameBut
  <2>2. Plays(s, t, pid)
    BY <1>0, <1>2, <2>1 DEF Plays, Same, Obtains, Gains
  <2>3. \A d \in Cpu : Permits(s, pid, d) => Permits(t, pid, d)
    BY <1>0, <1>2, <2>1 DEF Permits, Same, Obtains
  <2> QED BY <2>2, <2>3 DEF UseKept, Gains, Tells
<1> QED BY <1>1, <1>2 DEF Gains

(* A CPU that its guest leaves is found by its owner. *)
LEMMA VacatesTracked ==
  ASSUME NEW s \in ShData, NEW t \in ShData, NEW c \in Cpu,
         SameBut(s, t, c), Vacates(s, t, c), Noted(s, t, c), Tracked(s), AgreeAt(s, c)
  PROVE  Tracked(t)
<1>1. \A d \in Cpu \ {c} : Same(s, t, d)
  BY DEF SameBut
<1>2. AgreeAt(t, c)
  BY <1>1, CpuInfoAssumption DEF AgreeAt, Same, Vacates
<1>3. \A d \in Cpu : OccupiedTracked(t, d)
  BY <1>1, <1>2, OccupiedKept DEF Tracked, Same
<1>4. s.state[c] = "BUSY" => s.owner[c] # NOBODY
  BY DEF Tracked
<1> QED BY <1>1, <1>3, <1>4 DEF Tracked, Same, Vacates

(* A return keeps the sets, the distance between the processes, and what   *)
(* others use.                                                             *)
LEMMA ReturnsKeep ==
  ASSUME NEW s \in ShData, NEW t, NEW pid \in Pid, NEW c \in Cpu, Returns(s, t, pid, c)
  PROVE  /\ Tracked(s) /\ AgreeAt(s, c) => Tracked(t)
         /\ Apart(s) => Apart(t)
         /\ Plays(s, t, pid) /\ UseKept(s, t, pid)
<1>0. pid # NOBODY
  BY CpuInfoAssumption
<1>1. CASE Unmoved(s, t)
  <2>1. Tracked(s) => Tracked(t)
    BY <1>1 DEF Unmoved, Same, Tracked, OccupiedTracked
  <2>2. Apart(s) => Apart(t)
    BY <1>1, CpuInfoAssumption DEF Unmoved, Same, Apart
  <2>3. Plays(s, t, pid) /\ UseKept(s, t, pid)
    BY <1>1 DEF Unmoved, Same, Plays, UseKept, Permits, Returns, Tells
  <2> QED BY <2>1, <2>2, <2>3
<1>2. CASE /\ s.guest[c] = pid /\ s.owner[c] # pid /\ DisableTask(pid, c) \in t.tasks
           /\ SameBut(s, t, c) /\ Vacates(s, t, c) /\ Noted(s, t, c)
  <2>0. t \in ShData
    BY DEF Returns
  <2>1. \A d \in Cpu \ {c} : Same(s, t, d)
    BY <1>2 DEF SameBut
  <2>2. Tracked(s) /\ AgreeAt(s, c) => Tracked(t)
    BY <1>2, <2>0, VacatesTracked
  <2>3. ASSUME Apart(s) PROVE Apart(t)
    <3>1. t.guest[c] = NOBODY \/ (t.state[c] = "BUSY" /\ t.guest[c] = t.owner[c])
      BY <1>2 DEF Vacates
    <3> QED BY <2>1, <2>3, <3>1, CpuInfoAssumption DEF Apart, Same
  <2>4. Plays(s, t, pid)
    BY <1>0, <1>2, <2>1 DEF Plays, Same, Vacates, Returns
  <2>5. UseKept(s, t, pid)
    BY <1>2, <2>1 DEF UseKept, Permits, Same, Returns, Tells
  <2> QED BY <2>2, <2>3, <2>4, <2>5
<1> QED BY <1>1, <1>2 DEF Returns

(* Lending keeps the sets. *)
LEMMA LendTracked ==
  ASSUME NEW s \in ShData, NEW t, NEW pid \in Pid, NEW c \in Cpu,
         LendMoves(s, t, pid, c), Tracked(s), AgreeAt(s, c)
  PROVE  Tracked(t)
<1>1. CASE Unmoved(s, t)
  BY <1>1 DEF Unmoved, Same, Tracked, OccupiedTracked
<1>2. CASE /\ s.state[c] # "DISABLED" /\ Lends(s, t, pid, c) /\ Noted(s, t, c)
           /\ \A d \in Cpu \ {c} : Same(s, t, d) \/ (d \in core_mask[c] /\ Rouses(s, t, d))
  <2>1. \A d \in Cpu \ {c} : Same(s, t, d) \/ Rouses(s, t, d)
    BY <1>2
  <2>2. AgreeAt(t, c)
    BY <1>2, <2>1, CpuInfoAssumption DEF AgreeAt, Same, Rouses, Lends
  <2>3. \A d \in Cpu : OccupiedTracked(t, d)
    <3>1. \A d \in Cpu \ {c} : /\ t.owner[d] = s.owner[d]
                               /\ t.guest[d] \in {s.guest[d], s.owner[d], NOBODY}
      BY <2>1 DEF Same, Rouses
    <3> QED BY <1>2, <2>2, <3>1, OccupiedKept DEF Tracked, LendMoves
  <2>4. pid # NOBODY
    BY CpuInfoAssumption
  <2>5. \A d \in Cpu \ {c} :
          /\ t.guest[d] = NOBODY /\ (t.owner[d] # NOBODY \/ t.state[d] = "LENT")
               => d \in t.free_cpus
          /\ t.state[d] = "BUSY" => t.owner[d] # NOBODY
    BY <2>1 DEF Tracked, Same, Rouses
  <2>6. /\ t.guest[c] = NOBODY => c \in t.free_cpus
        /\ t.state[c] = "BUSY" => t.owner[c] # NOBODY
    BY <1>2, <2>4 DEF Tracked, Lends
  <2> QED BY <2>3, <2>5, <2>6 DEF Tracked
<1> QED BY <1>1, <1>2 DEF LendMoves

(* Lending keeps the processes apart, where nobody waits in a queue for    *)
(* half of a core.                                                         *)
LEMMA LendApart ==
  ASSUME NEW s \in ShData, NEW t, NEW pid \in Pid, NEW c \in Cpu,
         LendMoves(s, t, pid, c), Apart(s), ~s.queues_enabled
  PROVE  Apart(t)
<1>1. CASE Unmoved(s, t)
  BY <1>1, CpuInfoAssumption DEF Unmoved, Same, Apart
<1>2. CASE /\ s.state[c] # "DISABLED" /\ Lends(s, t, pid, c) /\ Noted(s, t, c)
           /\ \A d \in Cpu \ {c} : Same(s, t, d) \/ (d \in core_mask[c] /\ Rouses(s, t, d))
  <2> DEFINE Back(d) == t.state[d] = "BUSY" /\ t.guest[d] = t.owner[d]
             Kept(d) == /\ t.owner[d] = s.owner[d] /\ t.guest[d] = s.guest[d]
                        /\ s.guest[d] = s.owner[d] => t.state[d] = s.state[d]
  <2>1. \A d \in Cpu : t.guest[d] = NOBODY \/ Back(d) \/ Kept(d)
    <3> TAKE d \in Cpu
    <3>1. CASE d # c
      BY <1>2, <3>1 DEF Same, Rouses
    <3>2. CASE d = c
      BY <1>2, <3>2 DEF Lends
    <3> QED BY <3>1, <3>2
  <2> SUFFICES ASSUME NEW x \in Cpu, NEW y \in core_mask[x],
                      NOBODY \notin {t.guest[x], t.guest[y]}, t.guest[x] # t.guest[y]
               PROVE  \E e \in {x, y} : Back(e)
    BY DEF Apart
  <2>2. y \in Cpu
    BY CpuInfoAssumption
  <2>3. CASE Kept(x) /\ Kept(y)
    <3>1. \E e \in {x, y} : s.state[e] = "BUSY" /\ s.guest[e] = s.owner[e]
      BY <2>3 DEF Apart
    <3> QED BY <2>3, <3>1
  <2> QED BY <2>1, <2>2, <2>3
<1> QED BY <1>1, <1>2 DEF LendMoves

(* Lending takes nothing from another process, and only CPU c from pid. *)
LEMMA LendPlays ==
  ASSUME NEW s \in ShData, NEW t, NEW pid \in Pid, NEW c \in Cpu, LendMoves(s, t, pid, c)
  PROVE  /\ Plays(s, t, pid)
         /\ \A d \in Cpu \ {c} : Permits(s, pid, d) => Permits(t, pid, d)
         /\ \A d \in Cpu : EnableTask(pid, d) \in t.tasks =>
              EnableTask(pid, d) \in s.tasks \/ Permits(t, pid, d)
         /\ \A d \in Cpu : DisableTask(pid, d) \in t.tasks => DisableTask(pid, d) \in s.tasks
         /\ s.tasks \subseteq t.tasks
<1>0. pid # NOBODY
  BY CpuInfoAssumption
<1>1. Plays(s, t, pid)
  <2>1. CASE Unmoved(s, t)
    BY <2>1 DEF Unmoved, Same, Plays, LendMoves
  <2>2. CASE /\ Lends(s, t, pid, c)
             /\ \A d \in Cpu \ {c} : Same(s, t, d) \/ Rouses(s, t, d)
    BY <1>0, <2>2 DEF Plays, Same, Rouses, Lends, LendMoves
  <2> QED BY <2>1, <2>2 DEF LendMoves
<1>2. \A d \in Cpu \ {c} : Permits(s, pid, d) => Permits(t, pid, d)
  <2>1. \A d \in Cpu \ {c} : Same(s, t, d) \/ Rouses(s, t, d)
    BY DEF LendMoves, Unmoved
  <2> QED BY <1>0, <2>1 DEF Permits, Same, Rouses
<1>3. s.tasks \subseteq t.tasks
      /\ \A x \in t.tasks \ s.tasks :
           \E d \in Cpu : t.guest[d] # NOBODY /\ x = EnableTask(t.guest[d], d)
  BY DEF LendMoves, Enables
<1>4. \A d \in Cpu : EnableTask(pid, d) \in t.tasks =>
        EnableTask(pid, d) \in s.tasks \/ Permits(t, pid, d)
  BY <1>3, TasksDiffer DEF Permits
<1>5. \A d \in Cpu : DisableTask(pid, d) \in t.tasks => DisableTask(pid, d) \in s.tasks
  BY <1>3, TasksDiffer
<1> QED BY <1>1, <1>2, <1>3, <1>4, <1>5

(* Lending, CPU by CPU. *)
LEMMA LendPasses ==
  ASSUME NEW s \in ShData, NEW t, NEW pid \in Pid, NEW c \in Cpu, LendMoves(s, t, pid, c),
         ~s.queues_enabled
  PROVE  \A d \in Cpu : Passes(s, t, pid, d)
<1>0. pid # NOBODY
  BY CpuInfoAssumption
<1> SUFFICES ASSUME NEW d \in Cpu
             PROVE  Passes(s, t, pid, d)
  OBVIOUS
<1>1. CASE Same(s, t, d)
  BY <1>1 DEF Same, Passes
<1>2. CASE Rouses(s, t, d)
  BY <1>2 DEF Rouses, Passes
<1>3. CASE d = c /\ Lends(s, t, pid, c)
  BY <1>0, <1>3 DEF Lends, Passes
<1> QED BY <1>1, <1>2, <1>3 DEF LendMoves, Unmoved

(* The gains and the returns of a process, CPU by CPU. *)
LEMMA GainsPass ==
  ASSUME NEW s \in ShData, NEW t, NEW pid \in Pid, NEW c \in Cpu,
         Gains(s, t, pid, c) \/ Returns(s, t, pid, c)
  PROVE  \A d \in Cpu : Passes(s, t, pid, d)
<1> SUFFICES ASSUME NEW d \in Cpu
             PROVE  Passes(s, t, pid, d)
  OBVIOUS
<1>1. CASE Same(s, t, d)
  BY <1>1 DEF Same, Passes
<1>2. CASE Obtains(s, t, pid, d)
  BY <1>2 DEF Obtains, Passes
<1>3. CASE s.guest[d] = pid /\ s.owner[d] # pid /\ Vacates(s, t, d)
  BY <1>3 DEF Vacates, Passes
<1> QED BY <1>1, <1>2, <1>3 DEF Gains, Returns, Unmoved, SameBut

(* Two acts of a process on one CPU are one act, or none. *)
LEMMA PassesTrans ==
  ASSUME NEW s, NEW u, NEW t, NEW pid \in Pid, NEW d,
         Passes(s, u, pid, d), Passes(u, t, pid, d)
  PROVE  Passes(s, t, pid, d)
<1>0. pid # NOBODY
  BY CpuInfoAssumption
<1>1. u.owner[d] = s.owner[d] /\ t.owner[d] = s.owner[d]
  BY DEF Passes
<1>2. CASE s.owner[d] = pid
  BY <1>0, <1>1, <1>2 DEF Passes
<1>3. CASE s.owner[d] # pid
  BY <1>0, <1>1, <1>3 DEF Passes
<1> QED BY <1>2, <1>3

-----------------------------------------------------------------------------
(* The operations of a process in the node *)

(* What every operation of a process does, except a lend. *)
Keeps(s, t, pid) ==
  /\ Plays(s, t, pid) /\ UseKept(s, t, pid)
  /\ Tracked(s) /\ Agree(s) => Tracked(t)
  /\ Apart(s) /\ (s.queues_enabled => ~hw_has_smt) => Apart(t)
  /\ ~s.queues_enabled => \A d \in Cpu : Passes(s, t, pid, d)

(* Without SMT no core can be shared. *)
LEMMA SingleApart ==
  ASSUME ~hw_has_smt, NEW s
  PROVE  Apart(s)
BY SingleCpuCore DEF Apart

(* Nothing happens. *)
LEMMA NothingKeeps ==
  ASSUME NEW s \in ShData, NEW pid
  PROVE  Keeps(s, s, pid)
BY DEF Keeps, Plays, UseKept, Quiet, Passes

(* One operation after another. *)
LEMMA KeepsTrans ==
  ASSUME NEW s \in ShData, NEW u, NEW t, NEW pid \in Pid,
         Keeps(s, u, pid), Keeps(u, t, pid)
  PROVE  Keeps(s, t, pid)
<1>1. Quiet(s, t)
  BY DEF Keeps, Plays, Quiet
<1>2. t \in ShData /\ u.queues_enabled = s.queues_enabled
  BY DEF Keeps, Plays, Quiet
<1>3. ASSUME NEW d \in Cpu
      PROVE  /\ t.owner[d] = s.owner[d]
             /\ s.owner[d] # pid => t.state[d] = s.state[d]
             /\ s.guest[d] \notin {NOBODY, pid} => t.guest[d] = s.guest[d]
             /\ ~s.queues_enabled => t.guest[d] \in {NOBODY, s.guest[d], s.owner[d], pid}
  <2>1. /\ u.owner[d] = s.owner[d]
        /\ s.owner[d] # pid => u.state[d] = s.state[d]
        /\ s.guest[d] \notin {NOBODY, pid} => u.guest[d] = s.guest[d]
        /\ ~s.queues_enabled => u.guest[d] \in {NOBODY, s.guest[d], s.owner[d], pid}
    BY <1>3 DEF Keeps, Plays
  <2>2. /\ t.owner[d] = u.owner[d]
        /\ u.owner[d] # pid => t.state[d] = u.state[d]
        /\ u.guest[d] \notin {NOBODY, pid} => t.guest[d] = u.guest[d]
        /\ ~u.queues_enabled => t.guest[d] \in {NOBODY, u.guest[d], u.owner[d], pid}
    BY <1>3 DEF Keeps, Plays
  <2> QED BY <1>2, <2>1, <2>2
<1>4. Plays(s, t, pid)
  BY <1>1, <1>2, <1>3 DEF Plays
<1>5. UseKept(s, t, pid)
  BY DEF Keeps, UseKept
<1>6. Agree(s) => Agree(u)
  BY CpuInfoAssumption DEF Agree, AgreeAt, Keeps, Plays
<1>7. ~s.queues_enabled => \A d \in Cpu : Passes(s, t, pid, d)
  BY <1>2, PassesTrans DEF Keeps
<1> QED BY <1>2, <1>4, <1>5, <1>6, <1>7 DEF Keeps

(* Reclaim, acquire and borrow. *)
LEMMA GainsKeeps ==
  ASSUME NEW s \in ShData, NEW t, NEW pid \in Pid, NEW c \in Cpu, Gains(s, t, pid, c)
  PROVE  Keeps(s, t, pid)
BY GainsPlays, GainsTracked, GainsApart, GainsPass DEF Keeps, Agree

(* Return. *)
LEMMA ReturnsKeeps ==
  ASSUME NEW s \in ShData, NEW t, NEW pid \in Pid, NEW c \in Cpu, Returns(s, t, pid, c)
  PROVE  Keeps(s, t, pid)
BY ReturnsKeep, GainsPass DEF Keeps, Agree

(* Trying the CPUs of a core in turn. *)
LEMMA CoreKeepsAll ==
  ASSUME NEW s \in ShData, NEW pid \in Pid, NEW c \in Cpu
  PROVE  /\ Keeps(s, reclaim_core(s, pid, c).shm, pid)
         /\ Keeps(s, acquire_core(s, pid, c).shm, pid)
         /\ Keeps(s, borrow_core(s, pid, c).shm, pid)
<1>1. ASSUME NEW r, NEW q, Keeps(s, r.shm, pid), Keeps(r.shm, q.shm, pid)
      PROVE  Keeps(s, core_result(pid, c, r, q).shm, pid)
  <2>1. Keeps(s, q.shm, pid)
    BY <1>1, KeepsTrans
  <2> QED BY <1>1, <2>1 DEF core_result
<1>2. first_cpu(c) \in Cpu /\ last_cpu(c) \in Cpu
  BY CoreEnds
<1>3. Keeps(s, reclaim_core(s, pid, c).shm, pid)
  <2> DEFINE r == reclaim_cpu(s, pid, first_cpu(c))
             q == reclaim_cpu(r.shm, pid, last_cpu(c))
  <2>1. r.shm \in ShData /\ Keeps(s, r.shm, pid)
    BY <1>2, ReclaimCpuType, ReclaimCpuGains, GainsKeeps
  <2>2. Keeps(r.shm, q.shm, pid)
    BY <1>2, <2>1, ReclaimCpuGains, GainsKeeps
  <2> HIDE DEF r, q
  <2> QED BY <1>1, <2>1, <2>2 DEF reclaim_core, r, q
<1>4. Keeps(s, acquire_core(s, pid, c).shm, pid)
  <2> DEFINE r == acquire_cpu(s, pid, first_cpu(c))
             q == acquire_cpu(r.shm, pid, last_cpu(c))
  <2>1. r.shm \in ShData /\ Keeps(s, r.shm, pid)
    BY <1>2, AcquireCpuType, AcquireCpuGains, GainsKeeps
  <2>2. Keeps(r.shm, q.shm, pid)
    BY <1>2, <2>1, AcquireCpuGains, GainsKeeps
  <2> HIDE DEF r, q
  <2> QED BY <1>1, <2>1, <2>2 DEF acquire_core, r, q
<1>5. Keeps(s, borrow_core(s, pid, c).shm, pid)
  <2> DEFINE r == borrow_cpu(s, pid, first_cpu(c))
             q == borrow_cpu(r.shm, pid, last_cpu(c))
  <2>1. r.shm \in ShData /\ Keeps(s, r.shm, pid)
    BY <1>2, BorrowCpuType, BorrowCpuGains, GainsKeeps
  <2>2. Keeps(r.shm, q.shm, pid)
    BY <1>2, <2>1, BorrowCpuGains, GainsKeeps
  <2> HIDE DEF r, q
  <2> QED BY <1>1, <2>1, <2>2 DEF borrow_core, r, q
<1> QED BY <1>3, <1>4, <1>5

(* The cells of two tables that differ in their tasks only. *)
LEMMA SameCells ==
  ASSUME NEW t \in ShData, NEW u \in ShData,
         u.owner = t.owner, u.guest = t.guest, u.state = t.state,
         u.free_cpus = t.free_cpus, u.occupied_cores = t.occupied_cores
  PROVE  /\ Tracked(t) => Tracked(u)
         /\ Apart(t) => Apart(u)
<1>1. Tracked(t) => Tracked(u)
  BY DEF Tracked, OccupiedTracked
<1>2. Apart(t) => Apart(u)
  BY DEF Apart
<1> QED BY <1>1, <1>2

(* A lend after which the process is told to stop using the CPU. *)
LEMMA ShedKeeps ==
  ASSUME NEW s \in ShData, NEW pid \in Pid, NEW c \in Cpu, s.queues_enabled => ~hw_has_smt
  PROVE  Keeps(s, shed_cpu(s, pid, c), pid)
<1> DEFINE t == lend_cpu(s, pid, c)
           off == {DisableTask(pid, c)}
           u == [t EXCEPT !.tasks = @ \cup off]
<1>1. LendMoves(s, t, pid, c)
  BY LendCpuMoves
<1>2. t \in ShData
  BY <1>1 DEF LendMoves
<1>3. off \in SUBSET Task /\ DisableTask(pid, c) \in off
      /\ \A d \in Cpu : EnableTask(pid, d) \notin off
  BY TasksDiffer DEF DisableTask, Task, PidOrNobody
<1> HIDE DEF t, off
<1>4. /\ u \in ShData /\ u.tasks = t.tasks \cup off
      /\ u.owner = t.owner /\ u.guest = t.guest /\ u.state = t.state
      /\ u.free_cpus = t.free_cpus /\ u.occupied_cores = t.occupied_cores
      /\ u.requests = t.requests /\ u.lewi_mask_requests = t.lewi_mask_requests
      /\ u.queues_enabled = t.queues_enabled
  BY <1>2, <1>3, TasksAdded
<1> HIDE DEF u
<1>5. /\ Plays(s, t, pid)
      /\ \A d \in Cpu \ {c} : Permits(s, pid, d) => Permits(t, pid, d)
      /\ \A d \in Cpu : EnableTask(pid, d) \in t.tasks =>
           EnableTask(pid, d) \in s.tasks \/ Permits(t, pid, d)
      /\ s.tasks \subseteq t.tasks
  BY <1>1, LendPlays
<1>6. Plays(s, u, pid)
  BY <1>4, <1>5 DEF Plays, Quiet
<1>7. UseKept(s, u, pid)
  BY <1>3, <1>4, <1>5 DEF UseKept, Permits
<1>8. Tracked(s) /\ Agree(s) => Tracked(u)
  BY <1>1, <1>2, <1>4, LendTracked, SameCells DEF Agree
<1>9. Apart(s) => Apart(u)
  <2>1. CASE s.queues_enabled
    BY <2>1, SingleApart
  <2>2. CASE ~s.queues_enabled
    BY <1>1, <1>2, <1>4, <2>2, LendApart, SameCells
  <2> QED BY <2>1, <2>2
<1>10. ~s.queues_enabled => \A d \in Cpu : Passes(s, u, pid, d)
  <2>1. ~s.queues_enabled => \A d \in Cpu : Passes(s, t, pid, d)
    BY <1>1, LendPasses
  <2> QED BY <1>4, <2>1 DEF Passes
<1>11. u = shed_cpu(s, pid, c)
  BY DEF shed_cpu, u, t, off
<1> QED BY <1>6, <1>7, <1>8, <1>9, <1>10, <1>11 DEF Keeps

(* DLB_Disable. *)
LEMMA ResetKeeps ==
  ASSUME NEW s \in ShData, NEW pid \in Pid, NEW c \in Cpu, s.queues_enabled => ~hw_has_smt
  PROVE  Keeps(s, reset_one(s, pid, c), pid)
<1>1. CASE s.owner[c] = pid
  BY <1>1, ReclaimCpuGains, GainsKeeps DEF reset_one
<1>2. CASE s.owner[c] # pid /\ s.guest[c] = pid
  <2>1. reset_one(s, pid, c) = shed_cpu(s, pid, c)
    BY <1>2 DEF reset_one, shed_cpu
  <2> QED BY <2>1, ShedKeeps
<1>3. CASE s.owner[c] # pid /\ s.guest[c] # pid
  BY <1>3, NothingKeeps DEF reset_one
<1> QED BY <1>1, <1>2, <1>3

-----------------------------------------------------------------------------
(* A process comes and goes *)

(* Processes stay apart where a CPU is vacated, taken back by its owner,   *)
(* or left with its guest.                                                 *)
LEMMA ApartKept ==
  ASSUME NEW s, NEW t, Apart(s),
         \A d \in Cpu :
           \/ t.guest[d] = NOBODY
           \/ t.state[d] = "BUSY" /\ t.guest[d] = t.owner[d]
           \/ /\ t.guest[d] = s.guest[d]
              /\ s.state[d] = "BUSY" /\ s.guest[d] = s.owner[d] =>
                   t.state[d] = "BUSY" /\ t.guest[d] = t.owner[d]
  PROVE  Apart(t)
<1> SUFFICES ASSUME NEW x \in Cpu, NEW y \in core_mask[x],
                    NOBODY \notin {t.guest[x], t.guest[y]}, t.guest[x] # t.guest[y]
             PROVE  \E e \in {x, y} : t.state[e] = "BUSY" /\ t.guest[e] = t.owner[e]
  BY DEF Apart
<1>1. y \in Cpu
  BY CpuInfoAssumption
<1>2. CASE t.guest[x] = s.guest[x] /\ t.guest[y] = s.guest[y]
  <2>1. \E e \in {x, y} : s.state[e] = "BUSY" /\ s.guest[e] = s.owner[e]
    BY <1>2 DEF Apart
  <2> QED BY <1>1, <2>1
<1> QED BY <1>1, <1>2

(* What deregister and deregister_cpu do to CPU c. *)
Leaves(s, t, pid, c) ==
  /\ t \in ShData /\ Quiet(s, t)
  /\ \A d \in Cpu :
       /\ t.owner[d] = IF d = c /\ s.owner[d] = pid THEN NOBODY ELSE s.owner[d]
       /\ s.owner[d] # pid => t.state[d] = s.state[d]
       /\ s.guest[d] \notin {NOBODY, pid} => t.guest[d] = s.guest[d]
       /\ ~s.queues_enabled => t.guest[d] \in {NOBODY, s.guest[d], s.owner[d], pid}
  /\ Apart(s) /\ (s.queues_enabled => ~hw_has_smt) => Apart(t)
  /\ ~s.queues_enabled /\ (s.owner[c] = pid => s.state[c] # "DISABLED") =>
       \A d \in Cpu : Parts(s, t, pid, d)

(* deregister_cpu takes the process off the CPU. *)
LEMMA DeregistersLeave ==
  ASSUME NEW s \in ShData, NEW t, NEW pid \in Pid, NEW c \in Cpu, Deregisters(s, t, pid, c)
  PROVE  /\ Leaves(s, t, pid, c)
         /\ \A d \in Cpu : t.guest[d] = IF d = c /\ s.guest[d] = pid THEN NOBODY
                                        ELSE s.guest[d]
         /\ Tracked(s) /\ (s.owner[c] # pid \/ core_mask[c] = {c}) => Tracked(t)
<1>0. pid # NOBODY
  BY CpuInfoAssumption
<1>1. \A d \in Cpu \ {c} : Same(s, t, d)
  BY DEF Deregisters, SameBut
<1>2. t.guest[c] = IF s.guest[c] = pid THEN NOBODY ELSE s.guest[c]
  BY DEF Deregisters
<1>3. Apart(s) => Apart(t)
  <2>1. \A d \in Cpu :
           \/ t.guest[d] = NOBODY
           \/ t.state[d] = "BUSY" /\ t.guest[d] = t.owner[d]
           \/ /\ t.guest[d] = s.guest[d]
              /\ s.state[d] = "BUSY" /\ s.guest[d] = s.owner[d] =>
                   t.state[d] = "BUSY" /\ t.guest[d] = t.owner[d]
    BY <1>1, <1>2 DEF Same, Deregisters
  <2> QED BY <2>1, ApartKept
<1>p. \A d \in Cpu : Parts(s, t, pid, d)
  <2>1. Parts(s, t, pid, c)
    BY <1>2 DEF Deregisters, Parts
  <2>2. \A d \in Cpu \ {c} : Parts(s, t, pid, d)
    BY <1>1 DEF Same, Parts
  <2> QED BY <2>1, <2>2
<1>4. Leaves(s, t, pid, c)
  BY <1>0, <1>1, <1>2, <1>3, <1>p DEF Leaves, Deregisters, Same
<1>5. ASSUME Tracked(s), s.owner[c] # pid \/ core_mask[c] = {c} PROVE Tracked(t)
  <2>1. CASE s.owner[c] = pid
    BY <1>1, <1>5, <2>1 DEF Tracked, OccupiedTracked, Deregisters, Same
  <2>2. CASE s.owner[c] # pid
    BY <1>1, <2>2, <1>5 DEF Tracked, OccupiedTracked, Deregisters, Same
  <2> QED BY <2>1, <2>2
<1> QED BY <1>1, <1>2, <1>4, <1>5 DEF Same

(* Registering a CPU that nobody else owns. *)
LEMMA RegistersKeep ==
  ASSUME NEW s \in ShData, NEW t, NEW pid \in Pid, NEW c \in Cpu,
         Registers(s, t, pid, c), s.owner[c] \in {NOBODY, pid}
  PROVE  /\ Apart(s) => Apart(t)
         /\ Tracked(s) /\ (\A d \in core_mask[c] : s.owner[d] \in {NOBODY, pid}) => Tracked(t)
<1>0. pid # NOBODY
  BY CpuInfoAssumption
<1>1. \A d \in Cpu \ {c} : Same(s, t, d)
  BY DEF Registers, SameBut
<1>2. /\ t.owner[c] = pid /\ t.state[c] = "BUSY"
      /\ t.guest[c] = IF s.guest[c] = NOBODY THEN pid ELSE s.guest[c]
  BY DEF Registers
<1>3. Apart(s) => Apart(t)
  <2>1. \A d \in Cpu :
           \/ t.guest[d] = NOBODY
           \/ t.state[d] = "BUSY" /\ t.guest[d] = t.owner[d]
           \/ /\ t.guest[d] = s.guest[d]
              /\ s.state[d] = "BUSY" /\ s.guest[d] = s.owner[d] =>
                   t.state[d] = "BUSY" /\ t.guest[d] = t.owner[d]
    BY <1>1, <1>2 DEF Same
  <2> QED BY <2>1, ApartKept
<1>4. ASSUME Tracked(s), \A d \in core_mask[c] : s.owner[d] \in {NOBODY, pid}
      PROVE  Tracked(t)
  <2>1. AgreeAt(t, c)
    BY <1>1, <1>2, <1>4, CpuInfoAssumption DEF AgreeAt, Same
  <2>2. \A d \in Cpu : OccupiedTracked(t, d)
    BY <1>1, <1>4, <2>1, OccupiedKept DEF Tracked, Registers, Same
  <2> QED BY <1>0, <1>1, <1>2, <1>4, <2>2 DEF Tracked, Same
<1> QED BY <1>3, <1>4

(* The owner has taken the CPU back, and stops using it. *)
Disables(u, t, pid, c) ==
  t.state[c] = "DISABLED" /\ t.guest[c] = IF u.guest[c] = pid THEN NOBODY ELSE u.guest[c]

(* An owner that leaves lends the CPU, or takes it back and disables it,   *)
(* and then gives it up.                                                   *)
LEMMA DeregisterOwnedMoves ==
  ASSUME NEW s \in ShData, NEW pid \in Pid, NEW c \in Cpu, s.queues_enabled => ~hw_has_smt,
         s.owner[c] = pid
  PROVE  LET t == deregister_one(s, pid, c) IN
         \E u \in ShData : /\ \/ LendMoves(s, u, pid, c)
                              \/ Gains(s, u, pid, c) /\ Disables(u, t, pid, c)
                           /\ Drops(u, t, pid, c) /\ t.state[c] # "BUSY"
<1> DEFINE t == deregister_one(s, pid, c)
<1>1. CASE PublicPostMortem
  <2> DEFINE u == lend_cpu(s, pid, c)
  <2>1. u \in ShData /\ LendMoves(s, u, pid, c)
    BY LendCpuMoves, LendCpuType
  <2>2. t = [u EXCEPT !.owner[c] = NOBODY, !.occupied_cores = @ \ {c}]
    BY <1>1 DEF deregister_one
  <2> HIDE DEF t, u
  <2>3. /\ t.owner = [u.owner EXCEPT ![c] = NOBODY] /\ t.guest = u.guest /\ t.state = u.state
        /\ t.free_cpus = u.free_cpus /\ t.occupied_cores = u.occupied_cores \ {c}
        /\ t.tasks = u.tasks /\ t.requests = u.requests
        /\ t.lewi_mask_requests = u.lewi_mask_requests
        /\ t.queues_enabled = u.queues_enabled
    BY <2>1, <2>2 DEF ShData
  <2>4. t \in ShData
    BY DeregisterOneType DEF t
  <2>5. SameBut(u, t, c) /\ t.owner[c] = NOBODY
    BY <2>1, <2>3 DEF SameBut, Same, ShData
  <2>6. Quiet(u, t)
    BY <2>3 DEF Quiet
  <2>7. Drops(u, t, pid, c)
    BY <2>3, <2>4, <2>5, <2>6 DEF Drops
  <2>8. t.state[c] # "BUSY"
    BY <2>1, <2>3 DEF LendMoves, Unmoved, Same, Lends
  <2> QED BY <2>1, <2>7, <2>8 DEF t
<1>2. CASE ~PublicPostMortem
  <2> DEFINE u == reclaim_cpu(s, pid, c).shm
  <2>1. u \in ShData /\ Gains(s, u, pid, c)
    BY ReclaimCpuGains, ReclaimCpuType
  <2>2. t = [[u EXCEPT !.guest[c] = IF @ = pid THEN NOBODY ELSE @,
                       !.state[c] = "DISABLED",
                       !.free_cpus = @ \ {c}]
               EXCEPT !.owner[c] = NOBODY, !.occupied_cores = @ \ {c}]
    BY <1>2 DEF deregister_one
  <2> HIDE DEF t, u
  <2>3. /\ t.owner = [u.owner EXCEPT ![c] = NOBODY]
        /\ t.guest = [u.guest EXCEPT ![c] = IF u.guest[c] = pid THEN NOBODY ELSE u.guest[c]]
        /\ t.state = [u.state EXCEPT ![c] = "DISABLED"]
        /\ t.free_cpus = u.free_cpus \ {c} /\ t.occupied_cores = u.occupied_cores \ {c}
        /\ t.tasks = u.tasks /\ t.requests = u.requests
        /\ t.lewi_mask_requests = u.lewi_mask_requests
        /\ t.queues_enabled = u.queues_enabled
    BY <2>1, <2>2 DEF ShData
  <2>4. t \in ShData
    BY DeregisterOneType DEF t
  <2>5. SameBut(u, t, c) /\ t.owner[c] = NOBODY
    BY <2>1, <2>3 DEF SameBut, Same, ShData
  <2>6. Quiet(u, t)
    BY <2>3 DEF Quiet
  <2>7. /\ t.state[c] = "DISABLED"
        /\ t.guest[c] = IF u.guest[c] = pid THEN NOBODY ELSE u.guest[c]
    BY <2>1, <2>3 DEF ShData
  <2>8. Drops(u, t, pid, c)
    BY <2>3, <2>4, <2>5, <2>6, <2>7 DEF Drops
  <2> QED BY <2>1, <2>7, <2>8 DEF t, Disables
<1> QED BY <1>1, <1>2, CpuInfoAssumption

(* deregister takes the process off a CPU that it owns. *)
LEMMA DropsLeave ==
  ASSUME NEW s \in ShData, NEW u \in ShData, NEW t, NEW pid \in Pid, NEW c \in Cpu,
         s.owner[c] = pid, Drops(u, t, pid, c), t.state[c] # "BUSY",
         LendMoves(s, u, pid, c) \/ (Gains(s, u, pid, c) /\ Disables(u, t, pid, c))
  PROVE  /\ Leaves(s, t, pid, c)
         /\ Tracked(s) /\ AgreeAt(s, c) => Tracked(t)
<1>0. pid # NOBODY
  BY CpuInfoAssumption
<1>1. Plays(s, u, pid)
  BY LendPlays, GainsPlays
<1>2. /\ \A d \in Cpu \ {c} : Same(u, t, d)
      /\ t \in ShData /\ Quiet(u, t) /\ t.owner[c] = NOBODY
      /\ t.guest[c] \in {NOBODY, u.guest[c]}
      /\ u.guest[c] # pid => t.guest[c] = u.guest[c]
  BY DEF Drops, SameBut
<1>3. ASSUME Tracked(s), AgreeAt(s, c) PROVE Tracked(t)
  <2>1. Tracked(u)
    BY <1>3, LendTracked, GainsTracked
  <2> QED BY <1>2, <2>1 DEF Tracked, OccupiedTracked, Drops, Same
<1>4. ASSUME Apart(s), s.queues_enabled => ~hw_has_smt PROVE Apart(t)
  <2>1. CASE s.queues_enabled
    BY <1>4, <2>1, SingleApart
  <2>2. CASE ~s.queues_enabled
    <3>1. Apart(u)
      BY <1>4, <2>2, LendApart, GainsApart
    <3>2. t.guest[c] = NOBODY
          \/ (t.guest[c] = u.guest[c] /\ (u.guest[c] = u.owner[c] => u.state[c] # "BUSY"))
      BY <1>0, <1>1, <1>2 DEF Drops, Plays
    <3>3. \A d \in Cpu :
           \/ t.guest[d] = NOBODY
           \/ t.state[d] = "BUSY" /\ t.guest[d] = t.owner[d]
           \/ /\ t.guest[d] = u.guest[d]
              /\ u.state[d] = "BUSY" /\ u.guest[d] = u.owner[d] =>
                   t.state[d] = "BUSY" /\ t.guest[d] = t.owner[d]
      BY <1>2, <3>2 DEF Same
    <3> QED BY <3>1, <3>3, ApartKept
  <2> QED BY <2>1, <2>2
<1>5. Quiet(s, t)
  BY <1>1, <1>2 DEF Quiet, Plays
<1>6. ASSUME NEW d \in Cpu
      PROVE  /\ t.owner[d] = IF d = c /\ s.owner[d] = pid THEN NOBODY ELSE s.owner[d]
             /\ s.owner[d] # pid => t.state[d] = s.state[d]
             /\ s.guest[d] \notin {NOBODY, pid} => t.guest[d] = s.guest[d]
             /\ ~s.queues_enabled => t.guest[d] \in {NOBODY, s.guest[d], s.owner[d], pid}
  <2>1. /\ u.owner[d] = s.owner[d]
        /\ s.owner[d] # pid => u.state[d] = s.state[d]
        /\ s.guest[d] \notin {NOBODY, pid} => u.guest[d] = s.guest[d]
        /\ ~s.queues_enabled => u.guest[d] \in {NOBODY, s.guest[d], s.owner[d], pid}
    BY <1>1, <1>6 DEF Plays
  <2>2. CASE d = c
    BY <1>2, <2>1, <2>2
  <2>3. CASE d # c
    BY <1>2, <1>6, <2>1, <2>3 DEF Same
  <2> QED BY <2>2, <2>3
<1>7. ASSUME ~s.queues_enabled, s.state[c] # "DISABLED", NEW d \in Cpu
      PROVE  Parts(s, t, pid, d)
  <2>1. /\ d # c => Same(s, u, d) \/ Rouses(s, u, d)
        /\ u.guest[c] = s.guest[c] \/ s.guest[c] \in {NOBODY, pid}
    BY <1>0, <1>7 DEF LendMoves, Gains, Unmoved, SameBut, Same, Obtains, Lends
  <2>2. CASE d # c
    BY <1>2, <2>1, <2>2 DEF Same, Rouses, Parts
  <2>3. CASE d = c
    <3>1. t.guest[c] = IF s.guest[c] = pid THEN NOBODY ELSE s.guest[c]
      <4>1. CASE Lends(s, u, pid, c)
        BY <1>0, <1>1, <1>2, <1>7, <4>1 DEF Lends, Drops
      <4>2. CASE Gains(s, u, pid, c) /\ Disables(u, t, pid, c)
        <5>1. u.guest[c] \in {s.guest[c], pid} /\ (u.guest[c] # s.guest[c] => s.guest[c] = NOBODY)
          BY <4>2 DEF Gains, Unmoved, Same, Obtains
        <5> QED BY <1>0, <4>2, <5>1 DEF Disables
      <4> QED BY <1>7, <4>1, <4>2 DEF LendMoves
    <3>2. t.state[c] \in {"DISABLED", "LENT"}
      BY <1>2 DEF ShData, CpuState
    <3> QED BY <1>2, <2>3, <3>1, <3>2 DEF Parts
  <2> QED BY <2>2, <2>3
<1> QED BY <1>2, <1>3, <1>4, <1>5, <1>6, <1>7 DEF Leaves

(* One CPU of deregister. *)
LEMMA DeregisterOneLeaves ==
  ASSUME NEW s \in ShData, NEW pid \in Pid, NEW c \in Cpu, s.queues_enabled => ~hw_has_smt
  PROVE  LET t == deregister_one(s, pid, c) IN
         /\ Leaves(s, t, pid, c)
         /\ Tracked(s) /\ AgreeAt(s, c) => Tracked(t)
<1> DEFINE t == deregister_one(s, pid, c)
<1>1. CASE s.owner[c] = pid
  <2>1. PICK u \in ShData : /\ \/ LendMoves(s, u, pid, c)
                               \/ Gains(s, u, pid, c) /\ Disables(u, t, pid, c)
                            /\ Drops(u, t, pid, c) /\ t.state[c] # "BUSY"
    BY <1>1, DeregisterOwnedMoves
  <2> HIDE DEF t
  <2>2. Leaves(s, t, pid, c) /\ (Tracked(s) /\ AgreeAt(s, c) => Tracked(t))
    BY <1>1, <2>1, DropsLeave
  <2> QED BY <2>2 DEF t
<1>2. CASE s.owner[c] # pid /\ s.guest[c] = pid
  <2>1. t = lend_cpu(s, pid, c)
    BY <1>2 DEF deregister_one
  <2> HIDE DEF t
  <2>2. LendMoves(s, t, pid, c)
    BY <2>1, LendCpuMoves
  <2>3. Plays(s, t, pid)
    BY <2>2, LendPlays
  <2>4. Apart(s) => Apart(t)
    BY <2>2, LendApart, SingleApart
  <2>p. ~s.queues_enabled => \A d \in Cpu : Parts(s, t, pid, d)
    <3>1. ASSUME ~s.queues_enabled, NEW d \in Cpu PROVE Parts(s, t, pid, d)
      <4>1. CASE Same(s, t, d)
        BY <4>1 DEF Same, Parts
      <4>2. CASE Rouses(s, t, d)
        BY <4>2 DEF Rouses, Parts
      <4>3. CASE d = c /\ Lends(s, t, pid, c)
        BY <1>2, <3>1, <4>3 DEF Lends, Parts
      <4> QED BY <2>2, <4>1, <4>2, <4>3 DEF LendMoves, Unmoved
    <3> QED BY <3>1
  <2>5. Leaves(s, t, pid, c)
    BY <1>2, <2>3, <2>4, <2>p DEF Leaves, Plays
  <2>6. Tracked(s) /\ AgreeAt(s, c) => Tracked(t)
    BY <2>2, LendTracked
  <2> QED BY <2>5, <2>6 DEF t
<1>3. CASE s.owner[c] # pid /\ s.guest[c] # pid
  <2>1. t = s
    BY <1>3 DEF deregister_one
  <2> HIDE DEF t
  <2>2. Leaves(s, t, pid, c)
    BY <1>3, <2>1 DEF Leaves, Quiet, Parts
  <2> QED BY <2>1, <2>2 DEF t
<1> QED BY <1>1, <1>2, <1>3

=============================================================================
