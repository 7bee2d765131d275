------------------------------ MODULE LewiMask ------------------------------
(***************************************************************************)
(* The LeWI mask policy (LB_policies/lewi_mask.c) over the CPU table       *)
(* (LB_comm/shmem_cpuinfo.c): the calls a process makes, the loops each of *)
(* them runs while it holds the shared-memory lock, and what it does with  *)
(* the resulting tasks once it has released it.                            *)
(*                                                                         *)
(* A call takes the lock by filling in job.  A loop over CPUs takes one    *)
(* step per CPU, because some readers do not lock; Unlock empties job.  In *)
(* polling mode (Async = FALSE) a process resolves its own tasks and drops *)
(* those of others.  In asynchronous mode it also tells the helper threads *)
(* of the others, and then locks again to return the CPUs it has told them *)
(* to disable.                                                             *)
(***************************************************************************)
EXTENDS CpuInfo

CONSTANTS
  Async,        \* spd.options.mode = MODE_ASYNC
  Calls,        \* the calls this instance makes
  StartMask,    \* StartMask[p]: the cpuset process p is started with
  ArgMasks,     \* cpusets passed as arguments
  ArgNcpus,     \* numbers of CPUs passed as arguments
  DromMasks,    \* cpusets DROM may assign
  MaxMsgs,      \* bound on the messages in a helper's queue
  MaxHowmany    \* bound on the CPUs one process request may add up to

(* With SMT, a reclaim tells NOBODY to disable the idle CPUs of the core.  *)
(* In asynchronous mode that puts NOBODY into the request queues; this     *)
(* combination is left out.                                                *)
ASSUME LewiMaskAssumption ==
  /\ Async \in BOOLEAN
  /\ Async => ~hw_has_smt
  /\ StartMask \in [Pid -> SUBSET Cpu]
  /\ ArgMasks \subseteq (SUBSET Cpu) \ {{}}
  /\ DromMasks \subseteq SUBSET Cpu
  /\ ArgNcpus \subseteq Nat \ {0}
  /\ MaxMsgs \in Nat /\ MaxHowmany \in Nat

VARIABLES
  shm,              \* the CPU table
  job,              \* the operation of the lock holder, or NoJob
  pc,               \* pc[p]: where process p is
  ret,              \* ret[p]: where it goes when its call has finished
  pend,             \* pend[p]: tasks left to resolve
  returning,        \* returning[p]: tasks notified, to be returned under lock
  active,           \* active[p]: the CPUs the runtime of p uses
  msgs,             \* msgs[p]: the queue of p's helper thread
  process_mask,     \* process_mask[p]: spd.process_mask
  max_parallelism   \* max_parallelism[p]: 0 when unset

vars == <<shm, job, pc, ret, pend, returning, active, msgs, process_mask,
          max_parallelism>>

locals == <<active, msgs, process_mask, max_parallelism>>

NoJob == [op |-> "none"]

Op == {"lend", "reclaim", "reclaim_cpu", "reclaim_core", "acquire_cpu",
       "acquire", "borrow_cpu", "borrow", "petition_cpu", "petition_n",
       "return_all", "return", "return_async", "max_owned", "max_guested",
       "deregister", "reset", "update_ownership", "register",
       "deregister_cpu", "deregister_proc"}

(* Loops that stop as soon as enough CPUs have been obtained. *)
Counted == {"reclaim_core", "acquire", "borrow", "petition_n"}

(* Loops along cpus_priority_array, whose order the affinity option and    *)
(* the topology decide, or along core ids: any order.                      *)
Unordered == {"reclaim_core", "acquire", "borrow", "petition_cpu"}

(* The loops that may follow another one under the same lock. *)
Phase == [op : {"acquire", "borrow", "petition_n", "petition_cpu",
                "max_guested", "deregister_proc"},
          todo : SUBSET Cpu]

Job == [pid : PidOrNobody, by : Pid, op : Op, todo : SUBSET Cpu, n : Int,
        prev : SUBSET Cpu, mask : SUBSET Cpu, rest : Seq(Phase)]

PC == {"out", "attached", "registered", "ready", "disabled", "locked",
       "resolve", "return_async", "check", "closing", "joining", "dead"}

Message == [action : {"ENABLE", "DISABLE"}, cpus : SUBSET Cpu]

CpusOf(tasks, action, p) ==
  {c \in Cpu : [action |-> action, pid |-> p, cpuid |-> c] \in tasks}

Owned(p) == {c \in Cpu : shm.owner[c] = p}

Guested(p) == {c \in Cpu : shm.guest[c] = p}

Init ==
  /\ shm = init_shmem(~PublicPostMortem)
  /\ job = NoJob
  /\ pc = [p \in Pid |-> "out"]
  /\ ret = [p \in Pid |-> "out"]
  /\ pend = [p \in Pid |-> {}]
  /\ returning = [p \in Pid |-> {}]
  /\ active = [p \in Pid |-> {}]
  /\ msgs = [p \in Pid |-> <<>>]
  /\ process_mask = [p \in Pid |-> {}]
  /\ max_parallelism = [p \in Pid |-> 0]

-----------------------------------------------------------------------------
(* The shared-memory lock, and the loops that run under it *)

(* Process p runs the loop op over todo, on behalf of pid. *)
NewJob(p, pid, op, todo) ==
  [pid |-> pid, by |-> p, op |-> op, todo |-> todo, n |-> 0, prev |-> {},
   mask |-> todo, rest |-> <<>>]

(* shmem_lock *)
Lock(p, j) ==
  /\ job = NoJob
  /\ job' = j
  /\ pc' = [pc EXCEPT ![p] = "locked"]

(* A client call of p, allowed where LeWI is enabled. *)
Call(p, name, j) ==
  /\ name \in Calls
  /\ pc[p] = "ready"
  /\ Lock(p, j)
  /\ ret' = [ret EXCEPT ![p] = "ready"]

LoopDone ==
  \/ job.todo = {}
  \/ job.op \in Counted /\ job.n <= 0

(* The CPUs the loop op may handle next. *)
Todo(op) ==
  IF job # NoJob /\ job.op = op /\ ~LoopDone
  THEN {c \in job.todo : op \notin Unordered => \A d \in job.todo : c <= d}
  ELSE {}

(* The loop body has handled CPU c: table t, k CPUs fewer to go. *)
Iterate(c, t, k) ==
  /\ shm' = t
  /\ job' = [job EXCEPT !.todo = @ \ {c}, !.n = @ - k, !.prev = core_mask[c]]
  /\ UNCHANGED <<pc, ret, pend, returning, locals>>

NextLoop ==
  /\ job # NoJob
  /\ LoopDone
  /\ job.rest # <<>>
  /\ job' = [job EXCEPT !.op = Head(job.rest).op, !.todo = Head(job.rest).todo,
                        !.prev = {}, !.rest = Tail(job.rest)]
  /\ UNCHANGED <<shm, pc, ret, pend, returning, locals>>

(* In polling mode the tasks of a lend are dropped.  After DROM the        *)
(* set_process_mask callback gives the runtime the whole new mask.         *)
Unlock ==
  LET p == job.by
      left == pend[p] \cup
              (IF job.op = "lend" /\ ~Async THEN {} ELSE shm.tasks) IN
  /\ job # NoJob
  /\ LoopDone
  /\ job.rest = <<>>
  /\ job' = NoJob
  /\ shm' = [shm EXCEPT !.tasks = {}]
  /\ pend' = [pend EXCEPT ![p] = left]
  /\ pc' = [pc EXCEPT ![p] = IF left = {} THEN ret[p] ELSE "resolve"]
  /\ active' = IF job.op = "update_ownership" THEN [active EXCEPT ![p] = job.mask]
               ELSE active
  /\ UNCHANGED <<ret, returning, msgs, process_mask, max_parallelism>>

-----------------------------------------------------------------------------
(* resolve_cpuinfo_tasks *)

Runtime(p, on, off) == active' = [active EXCEPT ![p] = (@ \cup on) \ off]

(* The tasks of p itself are callbacks of its own runtime. *)
ResolveOwn(p) ==
  LET mine == {t \in pend[p] : t.pid = p}
      left == IF Async THEN pend[p] \ mine ELSE {} IN
  /\ pc[p] = "resolve"
  /\ Async => mine # {}
  /\ IF ret[p] \in {"ready", "disabled"}
     THEN Runtime(p, CpusOf(mine, "ENABLE", p), CpusOf(mine, "DISABLE", p))
     ELSE UNCHANGED active
  /\ pend' = [pend EXCEPT ![p] = left]
  /\ pc' = [pc EXCEPT ![p] = IF left = {} THEN ret[p] ELSE "resolve"]
  /\ UNCHANGED <<shm, job, ret, returning, msgs, process_mask, max_parallelism>>

HasHelper(q) ==
  q \in Pid /\ pc[q] \notin {"out", "attached", "registered", "dead", "joining"}

(* The tasks of another process q are messages to its helper thread. *)
Notify(p, q) ==
  LET his == {t \in pend[p] : t.pid = q}
      on == CpusOf(his, "ENABLE", q)
      off == CpusOf(his, "DISABLE", q)
      new == (IF on = {} THEN <<>> ELSE <<[action |-> "ENABLE", cpus |-> on]>>)
             \o (IF off = {} THEN <<>> ELSE <<[action |-> "DISABLE", cpus |-> off]>>)
      back == {t \in his : t.action = "DISABLE"}
      left == pend[p] \ his IN
  /\ Async
  /\ pc[p] = "resolve"
  /\ q # p /\ his # {}
  /\ IF HasHelper(q)
     THEN /\ Len(msgs[q]) + Len(new) <= MaxMsgs
          /\ msgs' = [msgs EXCEPT ![q] = @ \o new]
     ELSE UNCHANGED msgs
  /\ pend' = [pend EXCEPT ![p] = left]
  /\ returning' = [returning EXCEPT ![p] = back]
  /\ pc' = [pc EXCEPT ![p] = IF back # {} THEN "return_async"
                             ELSE IF left # {} THEN "resolve" ELSE ret[p]]
  /\ UNCHANGED <<shm, job, ret, active, process_mask, max_parallelism>>

(* shmem_cpuinfo__return_async_cpu and _mask, after a Notify. *)
ReturnAsync(p) ==
  /\ pc[p] = "return_async"
  /\ \E q \in {t.pid : t \in returning[p]} :
       Lock(p, NewJob(p, q, "return_async", CpusOf(returning[p], "DISABLE", q)))
  /\ returning' = [returning EXCEPT ![p] = {}]
  /\ UNCHANGED <<shm, ret, pend, locals>>

ReturnAsyncStep ==
  \E c \in Todo("return_async") : Iterate(c, return_async(shm, job.pid, c), 0)

(* thread_start of shmem_async.c: the helper of p handles a message. *)
Helper(p) ==
  /\ pc[p] # "dead"
  /\ msgs[p] # <<>>
  /\ LET m == Head(msgs[p]) IN
     IF m.action = "ENABLE" THEN Runtime(p, m.cpus, {}) ELSE Runtime(p, {}, m.cpus)
  /\ msgs' = [msgs EXCEPT ![p] = Tail(@)]
  /\ UNCHANGED <<shm, job, pc, ret, pend, returning, process_mask, max_parallelism>>

-----------------------------------------------------------------------------
(* Lend *)

(* lewi_mask_Lend, LendCpu and LendCpuMask.  The runtime has stopped using *)
(* the CPUs before it lends them.                                          *)
Lend(p) ==
  \E mask \in ArgMasks :
    /\ Call(p, "lend", NewJob(p, p, "lend", mask))
    /\ Runtime(p, {}, mask)
    /\ UNCHANGED <<shm, pend, returning, msgs, process_mask, max_parallelism>>

LendStep ==
  \E c \in Todo("lend") : Iterate(c, lend_cpu(shm, job.pid, c), 0)

-----------------------------------------------------------------------------
(* Reclaim *)

Stay == UNCHANGED <<shm, pend, returning, locals>>

(* The CPUs shmem_cpuinfo__reclaim_cpu_mask considers. *)
Reclaimable(mask) == (shm.free_cpus \cup shm.occupied_cores) \cap mask

ReclaimJob(p, mask) ==
  [NewJob(p, p, "reclaim", Reclaimable(mask)) EXCEPT !.mask = mask]

(* lewi_mask_Reclaim: the CPUs of spd.process_mask. *)
Reclaim(p) ==
  /\ Call(p, "reclaim", ReclaimJob(p, process_mask[p]))
  /\ Stay

ReclaimCpuMask(p) ==
  \E mask \in ArgMasks :
    /\ Call(p, "reclaim_mask", ReclaimJob(p, mask))
    /\ Stay

ReclaimStep ==
  \E c \in Todo("reclaim") : Iterate(c, reclaim_cpu(shm, job.pid, c).shm, 0)

ReclaimCpu(p) ==
  \E c \in Cpu : Call(p, "reclaim_cpu", NewJob(p, p, "reclaim_cpu", {c})) /\ Stay

ReclaimCpuStep ==
  \E c \in Todo("reclaim_cpu") :
    Iterate(c, reclaim_cpu_and_core(shm, job.pid, c).shm, 0)

(* One CPU of each core stands for the core. *)
CoreLeaders == {c \in Cpu : \A d \in core_mask[c] : c <= d}

ReclaimCpus(p) ==
  \E n \in ArgNcpus :
    /\ Call(p, "reclaim_cpus",
            [NewJob(p, p, "reclaim_core", CoreLeaders) EXCEPT !.n = n])
    /\ Stay

ReclaimCoreStep ==
  \E c \in Todo("reclaim_core") :
    LET r == reclaim_core(shm, job.pid, c) IN Iterate(c, r.shm, r.num)

-----------------------------------------------------------------------------
(* Acquire and borrow *)

AcquireCpu(p) ==
  \E c \in Cpu : Call(p, "acquire_cpu", NewJob(p, p, "acquire_cpu", {c})) /\ Stay

AcquireCpuStep ==
  \E c \in Todo("acquire_cpu") : Iterate(c, acquire_cpu(shm, job.pid, c).shm, 0)

BorrowCpu(p) ==
  \E c \in Cpu : Call(p, "borrow_cpu", NewJob(p, p, "borrow_cpu", {c})) /\ Stay

BorrowCpuStep ==
  \E c \in Todo("borrow_cpu") : Iterate(c, borrow_cpu(shm, job.pid, c).shm, 0)

(* How many CPUs of the array a call for n CPUs (0: as many as there are)  *)
(* may obtain; not positive once max_parallelism is reached.               *)
Allowance(p, n, array) ==
  LET want == IF n = 0 THEN Cardinality(Cpu) ELSE n
      room == max_parallelism[p] - Cardinality(Guested(p) \cap array) IN
  IF max_parallelism[p] = 0 THEN want
  ELSE IF room < want THEN room ELSE want

(* Model bound on a request that grows with every call. *)
HowmanyBound(p, n, array) ==
  \A i \in 1 .. Len(shm.lewi_mask_requests) :
    LET r == shm.lewi_mask_requests[i] IN
    r.pid = p /\ r.allowed = array => r.howmany + n <= MaxHowmany

(* lewi_mask_AcquireCpus, AcquireCpuMask and AcquireCpusInMask: first the  *)
(* idle CPUs of the process, then its other ones, then those of others;    *)
(* in asynchronous mode a petition for what is left.                       *)
AcquireBody(p, n, array) ==
  LET enabled == {c \in array : shm.state[c] # "DISABLED"}
      owned_idle == {c \in enabled \cap Owned(p) : shm.guest[c] = NOBODY}
      owned_non_idle == {c \in enabled \cap Owned(p) :
                           shm.guest[c] \notin {NOBODY, p}}
      non_owned == {c \in enabled \ Owned(p) : shm.guest[c] = NOBODY}
      petition == IF ~shm.queues_enabled THEN <<>>
                  ELSE IF n > 0 THEN <<[op |-> "petition_n", todo |-> array]>>
                  ELSE <<[op |-> "petition_cpu", todo |-> array]>> IN
  /\ Allowance(p, n, array) > 0
  /\ HowmanyBound(p, n, array)
  /\ Call(p, "acquire",
          [NewJob(p, p, "acquire", owned_idle) EXCEPT
             !.n = Allowance(p, n, array),
             !.rest = <<[op |-> "acquire", todo |-> owned_non_idle],
                        [op |-> "borrow", todo |-> non_owned]>> \o petition])
  /\ Stay

Acquire(p) == \E n \in ArgNcpus \cup {0}, array \in ArgMasks : AcquireBody(p, n, array)

(* Consecutive CPUs of one core are handled together. *)
AcquireStep ==
  \E c \in Todo("acquire") :
    LET r == acquire_core(shm, job.pid, c) IN
    IF core_mask[c] = job.prev THEN Iterate(c, shm, 0) ELSE Iterate(c, r.shm, r.num)

BorrowStep ==
  \E c \in Todo("borrow") :
    LET r == borrow_core(shm, job.pid, c) IN
    IF core_mask[c] = job.prev THEN Iterate(c, shm, 0) ELSE Iterate(c, r.shm, r.num)

EqualRequests(s, pid, array) ==
  {i \in 1 .. Len(s.lewi_mask_requests) :
     /\ s.lewi_mask_requests[i].pid = pid
     /\ s.lewi_mask_requests[i].allowed = array}

(* A request for a number of CPUs joins an equal one of the process. *)
petition_n(s, pid, n, array) ==
  IF EqualRequests(s, pid, array) # {}
  THEN [s EXCEPT !.lewi_mask_requests[Min(EqualRequests(s, pid, array))].howmany = @ + n]
  ELSE IF Len(s.lewi_mask_requests) < MaxProcRequests
  THEN [s EXCEPT !.lewi_mask_requests =
          Append(@, [pid |-> pid, howmany |-> n, allowed |-> array])]
  ELSE s

PetitionN ==
  /\ job # NoJob
  /\ job.op = "petition_n"
  /\ ~LoopDone
  /\ shm' = petition_n(shm, job.pid, job.n, job.todo)
  /\ job' = [job EXCEPT !.todo = {}]
  /\ UNCHANGED <<pc, ret, pend, returning, locals>>

petition_cpu(s, pid, c) ==
  IF /\ s.state[c] = "DISABLED" \/ pid \notin {s.owner[c], s.guest[c]}
     /\ ~Contains(s.requests[c], pid)
     /\ Len(s.requests[c]) < MaxCpuRequests
  THEN [s EXCEPT !.requests[c] = Append(@, pid)]
  ELSE s

PetitionCpuStep ==
  \E c \in Todo("petition_cpu") : Iterate(c, petition_cpu(shm, job.pid, c), 0)

(* lewi_mask_AcquireCpus(0): shmem_cpuinfo__remove_requests. *)
RemoveRequests(p) ==
  /\ "acquire" \in Calls
  /\ pc[p] = "ready"
  /\ job = NoJob
  /\ shm' = remove_requests(shm, p, Cpu)
  /\ UNCHANGED <<job, pc, ret, pend, returning, locals>>

(* lewi_mask_Borrow, BorrowCpus, BorrowCpuMask and BorrowCpusInMask. *)
Borrow(p) ==
  \E n \in ArgNcpus \cup {0}, array \in ArgMasks :
    /\ Allowance(p, n, array) > 0
    /\ Call(p, "borrow",
            [NewJob(p, p, "borrow", array) EXCEPT
               !.n = IF shm.free_cpus = {} THEN 0 ELSE Allowance(p, n, array)])
    /\ Stay

-----------------------------------------------------------------------------
(* Return, in polling mode *)

(* return_all follows occupied_cores as it changes. *)
Return(p) ==
  /\ ~Async
  /\ Call(p, "return", NewJob(p, p, "return_all", Cpu))
  /\ Stay

ReturnAllStep ==
  \E c \in Todo("return_all") :
    Iterate(c, IF c \in shm.occupied_cores THEN return_cpu(shm, job.pid, c).shm
               ELSE shm, 0)

ReturnCpu(p) ==
  /\ ~Async
  /\ \E c \in Cpu : Call(p, "return_cpu", NewJob(p, p, "return", {c}))
  /\ Stay

ReturnCpuMask(p) ==
  /\ ~Async
  /\ \E mask \in ArgMasks :
       Call(p, "return_mask", NewJob(p, p, "return", mask \cap shm.occupied_cores))
  /\ Stay

ReturnStep ==
  \E c \in Todo("return") : Iterate(c, return_cpu(shm, job.pid, c).shm, 0)

-----------------------------------------------------------------------------
(* max_parallelism, disable and enable *)

SetMaxParallelism(p) ==
  \E max \in ArgNcpus :
    /\ Call(p, "max_parallelism",
            [NewJob(p, p, "max_owned", Cpu) EXCEPT
               !.n = max, !.rest = <<[op |-> "max_guested", todo |-> {}]>>])
    /\ max_parallelism' = [max_parallelism EXCEPT ![p] = max]
    /\ UNCHANGED <<shm, pend, returning, active, msgs, process_mask>>

(* Owned CPUs beyond the limit are lent; guested ones wait for the second  *)
(* loop.  job.n is what is left of the limit.                              *)
MaxOwnedStep ==
  \E c \in Todo("max_owned") :
    LET p == job.pid
        own == shm.owner[c] = p
        next == job.rest[1].todo IN
    /\ shm' = IF own /\ job.n <= 0 THEN shed_cpu(shm, p, c) ELSE shm
    /\ job' = [job EXCEPT
                 !.todo = @ \ {c},
                 !.n = IF own THEN @ - 1 ELSE @,
                 !.rest = <<[op |-> "max_guested",
                             todo |-> IF ~own /\ shm.guest[c] = p
                                      THEN next \cup {c} ELSE next]>>]
    /\ UNCHANGED <<pc, ret, pend, returning, locals>>

MaxGuestedStep ==
  \E c \in Todo("max_guested") :
    Iterate(c, IF job.n <= 0 THEN shed_cpu(shm, job.pid, c) ELSE shm, 1)

UnsetMaxParallelism(p) ==
  /\ "max_parallelism" \in Calls
  /\ pc[p] = "ready"
  /\ max_parallelism' = [max_parallelism EXCEPT ![p] = 0]
  /\ UNCHANGED <<shm, job, pc, ret, pend, returning, active, msgs, process_mask>>

(* The CPUs whose requests deregister and reset remove first. *)
NotOwned(p) == Cpu \ Owned(p)

(* set_lewi_enabled(false), lewi_mask_DisableDLB, shmem_cpuinfo__reset *)
DisableDLB(p) ==
  /\ "disable" \in Calls
  /\ pc[p] = "ready"
  /\ Lock(p, NewJob(p, p, "reset", Cpu))
  /\ shm' = remove_requests(shm, p, NotOwned(p))
  /\ ret' = [ret EXCEPT ![p] = "disabled"]
  /\ UNCHANGED <<pend, returning, locals>>

ResetStep ==
  \E c \in Todo("reset") : Iterate(c, reset_one(shm, job.pid, c), 0)

EnableDLB(p) ==
  /\ pc[p] = "disabled"
  /\ pc' = [pc EXCEPT ![p] = "ready"]
  /\ UNCHANGED <<shm, job, ret, pend, returning, locals>>

-----------------------------------------------------------------------------
(* Availability of a CPU, and ownership *)

(* check_cpu_availability looks at the CPU without the lock ...            *)
CheckCpuAvailability(p) ==
  \E c \in Cpu :
    /\ "check" \in Calls
    /\ pc[p] = "ready"
    /\ shm.owner[c] = p \/ shm.state[c] = "LENT"
    /\ shm.guest[c] = NOBODY
    /\ pend' = [pend EXCEPT ![p] = {EnableTask(p, c)}]
    /\ pc' = [pc EXCEPT ![p] = "check"]
    /\ UNCHANGED <<shm, job, ret, returning, locals>>

(* ... and with the lock looks again at the guest only.                    *)
CheckLocked(p) ==
  \E c \in CpusOf(pend[p], "ENABLE", p) :
    /\ pc[p] = "check"
    /\ job = NoJob
    /\ IF shm.guest[c] = NOBODY
       THEN /\ shm' = [shm EXCEPT !.guest[c] = p, !.free_cpus = @ \ {c}]
            /\ Runtime(p, {c}, {})
       ELSE UNCHANGED <<shm, active>>
    /\ pend' = [pend EXCEPT ![p] = {}]
    /\ pc' = [pc EXCEPT ![p] = "ready"]
    /\ UNCHANGED <<job, ret, returning, msgs, process_mask, max_parallelism>>

(* poll_drom, lewi_mask_UpdateOwnership: process_mask keeps its old value. *)
UpdateOwnership(p) ==
  \E mask \in DromMasks :
    /\ "drom" \in Calls
    /\ pc[p] \in {"ready", "disabled"}
    /\ Lock(p, [NewJob(p, p, "update_ownership", Cpu) EXCEPT !.mask = mask])
    /\ ret' = [ret EXCEPT ![p] = pc[p]]
    /\ Stay

UpdateOwnershipStep ==
  \E c \in Todo("update_ownership") :
    Iterate(c, update_ownership_one(shm, job.pid, job.mask, c), 0)

-----------------------------------------------------------------------------
(* Start, finish and crash *)

(* shmem_init: clean up after the dead processes, then attach. *)
Attach(p) ==
  /\ pc[p] = "out"
  /\ \A q \in Pid : pc[q] # "dead"
  /\ pc' = [pc EXCEPT ![p] = "attached"]
  /\ UNCHANGED <<shm, job, ret, pend, returning, locals>>

Cleanup(p, q) ==
  /\ pc[p] = "out"
  /\ pc[q] = "dead"
  /\ job = NoJob
  /\ job' = NewJob(p, q, "deregister_cpu", Cpu)
  /\ pc' = [pc EXCEPT ![p] = "locked", ![q] = "out"]
  /\ ret' = [ret EXCEPT ![p] = "out"]
  /\ msgs' = [msgs EXCEPT ![q] = <<>>]
  /\ UNCHANGED <<shm, pend, returning, active, process_mask, max_parallelism>>

(* register_process with steal = false: all of the mask, or failure, which *)
(* shmem_cpuinfo__finalize follows.                                        *)
Register(p) ==
  LET free == \A c \in StartMask[p] : shm.owner[c] \in {NOBODY, p} IN
  /\ pc[p] = "attached"
  /\ IF free THEN Lock(p, NewJob(p, p, "register", StartMask[p]))
     ELSE job = NoJob /\ job' = job /\ pc' = [pc EXCEPT ![p] = "closing"]
  /\ ret' = [ret EXCEPT ![p] = "registered"]
  /\ Stay

RegisterStep ==
  \E c \in Todo("register") : Iterate(c, register_cpu(shm, job.pid, NOBODY, c), 0)

(* shmem_async_init and lewi_mask_Init; the flag is set without the lock.  *)
LewiInit(p) ==
  /\ pc[p] = "registered"
  /\ pc' = [pc EXCEPT ![p] = "ready"]
  /\ shm' = [shm EXCEPT !.queues_enabled = @ \/ Async]
  /\ active' = [active EXCEPT ![p] = StartMask[p]]
  /\ process_mask' = [process_mask EXCEPT ![p] = StartMask[p]]
  /\ max_parallelism' = [max_parallelism EXCEPT ![p] = 0]
  /\ UNCHANGED <<job, ret, pend, returning, msgs>>

(* Finish, first part: lewi_mask_Finalize, shmem_cpuinfo__deregister *)
Finish(p) ==
  /\ "finish" \in Calls
  /\ pc[p] \in {"ready", "disabled"}
  /\ Lock(p, NewJob(p, p, "deregister", Cpu))
  /\ shm' = remove_requests(shm, p, NotOwned(p))
  /\ ret' = [ret EXCEPT ![p] = "closing"]
  /\ active' = [active EXCEPT ![p] = {}]
  /\ UNCHANGED <<pend, returning, msgs, process_mask, max_parallelism>>

DeregisterStep ==
  \E c \in Todo("deregister") : Iterate(c, deregister_one(shm, job.pid, c), 0)

(* Finish, second part: shmem_cpuinfo__finalize, deregister_process *)
Finalize(p) ==
  /\ pc[p] = "closing"
  /\ Lock(p, [NewJob(p, p, "deregister_cpu", Cpu) EXCEPT
               !.rest = <<[op |-> "deregister_proc", todo |-> Cpu]>>])
  /\ ret' = [ret EXCEPT ![p] = "joining"]
  /\ Stay

DeregisterCpuStep ==
  \E c \in Todo("deregister_cpu") : Iterate(c, deregister_cpu(shm, job.pid, c), 0)

DeregisterProc ==
  /\ job # NoJob
  /\ job.op = "deregister_proc"
  /\ ~LoopDone
  /\ shm' = IF shm.queues_enabled THEN remove_proc_requests(shm, job.pid) ELSE shm
  /\ job' = [job EXCEPT !.todo = {}]
  /\ UNCHANGED <<pc, ret, pend, returning, locals>>

(* Finish, last part: shmem_async_finalize waits for the helper thread. *)
Leave(p) ==
  /\ pc[p] = "joining"
  /\ msgs[p] = <<>>
  /\ pc' = [pc EXCEPT ![p] = "out"]
  /\ active' = [active EXCEPT ![p] = {}]
  /\ process_mask' = [process_mask EXCEPT ![p] = {}]
  /\ UNCHANGED <<shm, job, ret, pend, returning, msgs, max_parallelism>>

(* The process dies outside of the lock.  The last one alive does not die: *)
(* nobody would be left to notice.                                         *)
Crash(p) ==
  /\ "crash" \in Calls
  /\ \E q \in Pid \ {p} : pc[q] # "dead"
  /\ pc[p] \in {"ready", "disabled", "resolve", "return_async", "check"}
  /\ pc' = [pc EXCEPT ![p] = "dead"]
  /\ pend' = [pend EXCEPT ![p] = {}]
  /\ returning' = [returning EXCEPT ![p] = {}]
  /\ active' = [active EXCEPT ![p] = {}]
  /\ UNCHANGED <<shm, job, ret, msgs, process_mask, max_parallelism>>

-----------------------------------------------------------------------------
(* What the lock holder may do next. *)
JobStep ==
  \/ LendStep \/ ReclaimStep \/ ReclaimCpuStep \/ ReclaimCoreStep
  \/ AcquireCpuStep \/ AcquireStep \/ BorrowCpuStep \/ BorrowStep
  \/ PetitionN \/ PetitionCpuStep
  \/ ReturnAllStep \/ ReturnStep \/ ReturnAsyncStep
  \/ MaxOwnedStep \/ MaxGuestedStep \/ ResetStep
  \/ UpdateOwnershipStep \/ RegisterStep \/ DeregisterStep
  \/ DeregisterCpuStep \/ DeregisterProc
  \/ NextLoop \/ Unlock

(* The calls by which process p uses LeWI. *)
ClientCall(p) ==
  \/ Lend(p) \/ Reclaim(p) \/ ReclaimCpuMask(p) \/ ReclaimCpu(p) \/ ReclaimCpus(p)
  \/ AcquireCpu(p) \/ Acquire(p) \/ RemoveRequests(p)
  \/ BorrowCpu(p) \/ Borrow(p)
  \/ Return(p) \/ ReturnCpu(p) \/ ReturnCpuMask(p)
  \/ SetMaxParallelism(p) \/ UnsetMaxParallelism(p)
  \/ DisableDLB(p) \/ EnableDLB(p)
  \/ CheckCpuAvailability(p) \/ UpdateOwnership(p)

(* What p does to bring a call to its end. *)
Resolve(p) ==
  \/ ResolveOwn(p)
  \/ \E q \in PidOrNobody : Notify(p, q)
  \/ ReturnAsync(p)
  \/ CheckLocked(p)

Lifecycle(p) ==
  \/ Attach(p) \/ Register(p) \/ LewiInit(p)
  \/ Finish(p) \/ Finalize(p) \/ Leave(p)
  \/ Crash(p)
  \/ \E q \in Pid : Cleanup(p, q)

Next ==
  \/ JobStep
  \/ \E p \in Pid : ClientCall(p) \/ Resolve(p) \/ Helper(p) \/ Lifecycle(p)

Spec == Init /\ [][Next]_vars

(* The process that holds the lock goes on: it is a thread inside a call.  *)
(* Nothing is assumed about who gets the lock next, which is a plain       *)
(* pthread mutex, nor about who calls what.                                *)
PollingSpec == Spec /\ WF_vars(JobStep)

-----------------------------------------------------------------------------
(* Properties *)

(* Only CPUs returned asynchronously may be in the name of NOBODY, and the *)
(* owned CPUs are always followed by the guested ones.                     *)
JobOK ==
  job # NoJob =>
    /\ job.pid \in Pid \/ (job.op = "return_async" /\ job.rest = <<>>)
    /\ job.op = "max_owned" => job.rest # <<>>

(* Type correctness of the table and of every process. *)
TypeOK ==
  /\ shm \in ShData
  /\ job \in Job \cup {NoJob}
  /\ JobOK
  /\ pc \in [Pid -> PC]
  /\ ret \in [Pid -> PC]
  /\ pend \in [Pid -> SUBSET Task]
  /\ returning \in [Pid -> SUBSET Task]
  /\ active \in [Pid -> SUBSET Cpu]
  /\ msgs \in [Pid -> Seq(Message)]
  /\ process_mask \in [Pid -> SUBSET Cpu]
  /\ max_parallelism \in [Pid -> Nat]

(* The redundant sets never hide a CPU from the calls that search them. *)
SetsTrackCpus ==
  \A c \in Cpu : NotHidden(shm, c) /\ OccupiedTracked(shm, c) /\ IdleTracked(shm, c)

(* A process that has left is nowhere in the table. *)
GoneLeavesNothing ==
  \A p \in Pid : pc[p] = "out" /\ (job = NoJob \/ job.pid # p) =>
    /\ \A c \in Cpu : /\ p \notin {shm.owner[c], shm.guest[c]}
                      /\ ~Contains(shm.requests[c], p)
    /\ \A i \in 1 .. Len(shm.lewi_mask_requests) :
         shm.lewi_mask_requests[i].pid # p

(* The runtime of p uses a CPU only as its guest, as the owner that has    *)
(* claimed it, or until it resolves the task to disable it.                *)
UseIsPermitted ==
  \A p \in Pid : \A c \in active[p] :
    \/ shm.guest[c] = p
    \/ shm.owner[c] = p /\ shm.state[c] = "BUSY"
    \/ DisableTask(p, c) \in pend[p] \cup shm.tasks

(* A process loses a CPU only in an operation made in its name. *)
GuestStep ==
  \A c \in Cpu : shm.guest[c] \notin {NOBODY, shm'.guest[c]} =>
    job # NoJob /\ job.pid = shm.guest[c]

GuestKept == [][GuestStep]_vars

(* When a reclaim of a mask ends, every CPU of the process in the mask is  *)
(* used by the process or claimed from its guest.                          *)
ReclaimCompletes ==
  [][job # NoJob /\ job' = NoJob /\ job.op = "reclaim" =>
       \A c \in job.mask : shm.owner[c] = job.pid =>
         shm.guest[c] = job.pid \/ shm.state[c] = "BUSY"]_vars

(* Two processes share a core only after the owner of one of the CPUs has  *)
(* taken it back: nobody borrows half of a core in use.                    *)
CoreNotShared ==
  \A c \in Cpu : \A d \in core_mask[c] :
    NOBODY \notin {shm.guest[c], shm.guest[d]} /\ shm.guest[c] # shm.guest[d] =>
      \E e \in {c, d} : shm.state[e] = "BUSY" /\ shm.guest[e] = shm.owner[e]

(* A borrow over the whole node never takes a process past its             *)
(* max_parallelism (Smt1: whole cores are not taken apart).                *)
BelowMaxStep ==
  job # NoJob /\ job.op = "borrow" /\ job.mask = Cpu =>
    \/ max_parallelism[job.pid] = 0
    \/ {c \in Cpu : shm'.guest[c] = job.pid} \subseteq Guested(job.pid)
    \/ Cardinality({c \in Cpu : shm'.guest[c] = job.pid}) <= max_parallelism[job.pid]

BorrowStaysBelowMax == [][BelowMaxStep]_vars

(* dlb.h on DLB_SetMaxParallelism: "If a process reaches its maximum       *)
(* number of resources used at any time, subsequent calls to borrow CPUs   *)
(* will be ignored until some of them are returned".                       *)
BorrowIgnoredAtMax ==
  [][/\ job # NoJob /\ job.op \in {"borrow_cpu", "borrow"}
     /\ max_parallelism[job.pid] # 0
     /\ Cardinality(Guested(job.pid)) >= max_parallelism[job.pid]
     => {c \in Cpu : shm'.guest[c] = job.pid} \subseteq Guested(job.pid)]_vars

(* A call of DLB_Return by p has obtained the lock. *)
Returning(p) == job # NoJob /\ job.pid = p /\ job.op = "return_all"

(* If the calls of DLB_Return by a guest keep obtaining the lock, which    *)
(* is what polling asks of its runtime and what the mutex does not         *)
(* promise, a CPU claimed from this guest comes back to its owner, unless  *)
(* the owner gives it up again.                                            *)
ClaimedComesBack ==
  \A c \in Cpu, p \in Pid : \A q \in Pid \ {p} :
    []<>Returning(q) =>
      ((shm.owner[c] = p /\ shm.state[c] = "BUSY" /\ shm.guest[c] = q)
         ~> (shm.guest[c] = p \/ shm.owner[c] # p \/ shm.state[c] # "BUSY"))

(* dlb.h on DLB_Reclaim: "Reclaim all the CPUs that are owned by the       *)
(* process".  When the call ends, each of them is used by the process or   *)
(* claimed from its guest.                                                 *)
ReclaimsAllOwned ==
  [][/\ job # NoJob /\ job' = NoJob
     /\ job.op = "reclaim" /\ job.mask = process_mask[job.pid]
     => \A c \in Owned(job.pid) :
          shm.guest[c] = job.pid \/ shm.state[c] = "BUSY"]_vars

(* The comment on shdata_t.free_cpus: "lent, non-guested CPUs (idle)". *)
FreeCpusAreIdle == \A c \in Cpu : FreeIsIdle(shm, c)

(* Where process p is in its life, leaving aside that a call of it is      *)
(* under way.                                                              *)
At(p) == IF pc[p] \in {"locked", "resolve", "return_async"} THEN ret[p] ELSE pc[p]

Members == {p \in Pid : At(p) \in {"registered", "ready", "disabled", "check"}}

Sharing ==
  INSTANCE CpuSharing WITH
    members <- Members, owner <- shm.owner, guest <- shm.guest, state <- shm.state

(* The table, the loops and the lock implement CpuSharing: whatever calls  *)
(* meet, and whoever dies, a CPU changes hands only by an act of its       *)
(* owner, of its guest, or of a process that finds it lent and idle; it    *)
(* goes back to an owner that wants it; and who comes again starts with    *)
(* nothing.  In asynchronous mode others act for a process; DROM and the   *)
(* check of availability pass CPUs in other ways.                          *)
SharesCpus == Sharing!Spec

(* The assertion of shmem_cpuinfo__return_async: "cpuinfo->owner != pid && *)
(* cpuinfo->guest == pid".                                                 *)
ReturnAsyncConsistent ==
  \A c \in Todo("return_async") : ReturnAsyncPre(shm, job.pid, c)

=============================================================================
