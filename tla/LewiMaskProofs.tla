--------------------------- MODULE LewiMaskProofs ---------------------------
(***************************************************************************)
(* Theorems about the LeWI mask policy, for every node, every set of       *)
(* processes and every choice of calls: type correctness first, then how   *)
(* the processes share the CPUs.  The redundant sets of the CPU table find *)
(* every CPU, a process uses only what it may use, nobody takes half of a  *)
(* core in use, and who has left holds nothing.                            *)
(***************************************************************************)
EXTENDS LewiMask, CpuInfoProofs

-----------------------------------------------------------------------------
(* What the steps of the model have in common *)

(* The CPU a loop handles, and on whose behalf. *)
LEMMA TodoType ==
  ASSUME TypeOK, NEW op, NEW c \in Todo(op)
  PROVE  /\ c \in Cpu /\ job # NoJob /\ job \in Job /\ job.op = op
         /\ ~LoopDone
         /\ op # "return_async" => job.pid \in Pid
<1>1. job # NoJob /\ job.op = op /\ ~LoopDone /\ c \in job.todo
  BY DEF Todo
<1>2. job \in Job
  BY <1>1 DEF TypeOK
<1> QED BY <1>1, <1>2 DEF TypeOK, JobOK, Job

(* One iteration of a loop other than max_owned. *)
LEMMA IterateType ==
  ASSUME TypeOK, job # NoJob, job.op # "max_owned",
         NEW c \in Cpu, NEW t \in ShData, NEW k \in Int, Iterate(c, t, k)
  PROVE  TypeOK'
<1>1. job \in Job /\ core_mask[c] \in SUBSET Cpu
  BY CpuInfoAssumption DEF TypeOK
<1>2. job' = [job EXCEPT !.todo = @ \ {c}, !.n = @ - k, !.prev = core_mask[c]]
  BY DEF Iterate
<1>3. /\ job' \in Job
      /\ job'.pid = job.pid /\ job'.op = job.op /\ job'.rest = job.rest
  <2>1. job.todo \ {c} \in SUBSET Cpu /\ job.n - k \in Int
    BY <1>1 DEF Job
  <2> QED BY <1>1, <1>2, <2>1 DEF Job
<1>4. JobOK'
  BY <1>3 DEF TypeOK, JobOK
<1> QED BY <1>3, <1>4 DEF TypeOK, Iterate, locals

(* A loop over CPUs, whatever it does to each of them. *)
LEMMA LoopType ==
  ASSUME TypeOK, NEW op, op # "max_owned", NEW c \in Todo(op),
         NEW t \in ShData, NEW k \in Int, Iterate(c, t, k)
  PROVE  TypeOK'
BY TodoType, IterateType

(* A new operation. *)
LEMMA NewJobType ==
  ASSUME NEW p \in Pid, NEW pid \in PidOrNobody, NEW op \in Op, NEW todo \in SUBSET Cpu
  PROVE  /\ NewJob(p, pid, op, todo) \in Job
         /\ NewJob(p, pid, op, todo).pid = pid
         /\ NewJob(p, pid, op, todo).op = op
         /\ NewJob(p, pid, op, todo).rest = <<>>
BY DEF NewJob, Job

(* The lock is taken for a well-formed operation. *)
LEMMA LockType ==
  ASSUME TypeOK, NEW p \in Pid, NEW j \in Job, Lock(p, j),
         j.pid \in Pid \/ (j.op = "return_async" /\ j.rest = <<>>),
         j.op = "max_owned" => j.rest # <<>>
  PROVE  job' \in Job \cup {NoJob} /\ JobOK' /\ pc' \in [Pid -> PC]
BY DEF Lock, TypeOK, JobOK, PC

(* A client call takes the lock for a well-formed operation. *)
LEMMA CallType ==
  ASSUME TypeOK, NEW p \in Pid, NEW name, NEW j \in Job, Call(p, name, j),
         j.pid \in Pid,
         j.op = "max_owned" => j.rest # <<>>
  PROVE  /\ job' \in Job \cup {NoJob} /\ JobOK' /\ pc' \in [Pid -> PC]
         /\ ret' \in [Pid -> PC]
<1>1. Lock(p, j) /\ ret' = [ret EXCEPT ![p] = "ready"]
  BY DEF Call
<1>2. job' \in Job \cup {NoJob} /\ JobOK' /\ pc' \in [Pid -> PC]
  <2>1. j.pid \in Pid \/ (j.op = "return_async" /\ j.rest = <<>>)
    OBVIOUS
  <2> QED BY <1>1, <2>1, LockType
<1>3. ret' \in [Pid -> PC]
  BY <1>1 DEF TypeOK, PC
<1> QED BY <1>2, <1>3

(* A call that only takes the lock. *)
LEMMA StayType ==
  ASSUME TypeOK, NEW p \in Pid, NEW name, NEW j \in Job, Call(p, name, j),
         j.pid \in Pid, j.op # "max_owned", Stay
  PROVE  TypeOK'
<1>1. job' \in Job \cup {NoJob} /\ JobOK' /\ pc' \in [Pid -> PC] /\ ret' \in [Pid -> PC]
  BY CallType
<1> QED BY <1>1 DEF TypeOK, Stay, locals

(* A client call of one loop, without a count. *)
LEMMA SimpleCallType ==
  ASSUME TypeOK, NEW p \in Pid, NEW name, NEW op \in Op \ {"max_owned"},
         NEW todo \in SUBSET Cpu, Call(p, name, NewJob(p, p, op, todo)), Stay
  PROVE  TypeOK'
<1>1. p \in PidOrNobody
  BY DEF PidOrNobody
<1>2. /\ NewJob(p, p, op, todo) \in Job
      /\ NewJob(p, p, op, todo).pid = p
      /\ NewJob(p, p, op, todo).op = op
  BY <1>1, NewJobType
<1> QED BY <1>2, StayType

(* How many CPUs a call may obtain is a number. *)
LEMMA AllowanceType ==
  ASSUME TypeOK, NEW p \in Pid, NEW n \in Nat, NEW array \in SUBSET Cpu
  PROVE  Allowance(p, n, array) \in Int
<1>1. IsFiniteSet(Cpu) /\ Cardinality(Cpu) \in Int
  BY CpuInfoAssumption, FS_CardinalityType
<1>2. Guested(p) \cap array \in SUBSET Cpu
  OBVIOUS
<1>3. Cardinality(Guested(p) \cap array) \in Int
  BY <1>1, <1>2, FS_Subset, FS_CardinalityType
<1>4. max_parallelism[p] \in Int
  BY DEF TypeOK
<1> QED BY <1>1, <1>3, <1>4 DEF Allowance

(* The runtime of a process uses CPUs of the node. *)
LEMMA RuntimeType ==
  ASSUME TypeOK, NEW p \in Pid, NEW on \in SUBSET Cpu, NEW off, Runtime(p, on, off)
  PROVE  active' \in [Pid -> SUBSET Cpu]
BY DEF TypeOK, Runtime

(* A petition for n > 0 CPUs keeps the request queue well formed. *)
LEMMA PetitionNType ==
  ASSUME NEW s \in ShData, NEW pid \in Pid, NEW n \in Nat \ {0}, NEW array \in SUBSET Cpu
  PROVE  petition_n(s, pid, n, array) \in ShData
<1> DEFINE q == s.lewi_mask_requests
           same == EqualRequests(s, pid, array)
           i == Min(same)
           r == [pid |-> pid, howmany |-> n, allowed |-> array]
<1>1. q \in Seq(ProcRequest)
  BY DEF ShData
<1>2. r \in ProcRequest
  BY DEF ProcRequest
<1>3. Append(q, r) \in Seq(ProcRequest)
  BY <1>1, <1>2
<1>4. ASSUME same # {}
      PROVE  [q EXCEPT ![i].howmany = @ + n] \in Seq(ProcRequest)
  <2>1. same \in SUBSET Nat /\ same \subseteq 1 .. Len(q)
    BY <1>1 DEF EqualRequests
  <2>2. i \in 1 .. Len(q)
    BY <1>4, <2>1, MinInSet
  <2> HIDE DEF i
  <2>3. q[i] \in ProcRequest
    BY <1>1, <2>2
  <2>4. [q[i] EXCEPT !.howmany = @ + n] \in ProcRequest
    BY <2>3 DEF ProcRequest
  <2>5. [q EXCEPT ![i] = [q[i] EXCEPT !.howmany = @ + n]] \in Seq(ProcRequest)
    BY <1>1, <2>2, <2>4
  <2> QED BY <2>5
<1>5. CASE same # {}
  BY <1>4, <1>5 DEF petition_n, ShData
<1>6. CASE same = {} /\ Len(q) < MaxProcRequests
  BY <1>3, <1>6 DEF petition_n, ShData
<1>7. CASE same = {} /\ ~(Len(q) < MaxProcRequests)
  BY <1>7 DEF petition_n, ShData
<1> QED BY <1>5, <1>6, <1>7

(* A petition for one CPU keeps the table well formed. *)
LEMMA PetitionCpuType ==
  ASSUME NEW s \in ShData, NEW pid \in Pid, NEW c \in Cpu
  PROVE  petition_cpu(s, pid, c) \in ShData
<1>1. pid \in PidOrNobody
  BY DEF PidOrNobody
<1> QED BY <1>1, EnqueueType DEF petition_cpu

-----------------------------------------------------------------------------
(* Type correctness *)

(* Initially the table and the processes are well typed. *)
LEMMA InitTypeOK == Init => TypeOK
<1> SUFFICES ASSUME Init PROVE TypeOK OBVIOUS
<1>1. shm \in ShData
  BY InitShmemType, CpuInfoAssumption DEF Init
<1>2. job \in Job \cup {NoJob} /\ JobOK
  BY DEF Init, JobOK
<1> QED BY <1>1, <1>2 DEF Init, TypeOK, PC

(* Every step of the lock holder keeps the types. *)
LEMMA JobStepType == TypeOK /\ JobStep => TypeOK'
<1> SUFFICES ASSUME TypeOK, JobStep PROVE TypeOK' OBVIOUS
<1>0. shm \in ShData /\ 0 \in Int /\ 1 \in Int
  BY DEF TypeOK
<1>1. CASE LendStep
  BY <1>0, <1>1, TodoType, LoopType, LendCpuType DEF LendStep
<1>2. CASE ReclaimStep
  BY <1>0, <1>2, TodoType, LoopType, ReclaimCpuType DEF ReclaimStep
<1>3. CASE ReclaimCpuStep
  BY <1>0, <1>3, TodoType, LoopType, ReclaimCpuAndCoreType DEF ReclaimCpuStep
<1>4. CASE AcquireCpuStep
  BY <1>0, <1>4, TodoType, LoopType, AcquireCpuType DEF AcquireCpuStep
<1>5. CASE BorrowCpuStep
  BY <1>0, <1>5, TodoType, LoopType, BorrowCpuType DEF BorrowCpuStep
<1>6. CASE PetitionCpuStep
  BY <1>0, <1>6, TodoType, LoopType, PetitionCpuType DEF PetitionCpuStep
<1>7. CASE ReturnAllStep
  BY <1>0, <1>7, TodoType, LoopType, ReturnCpuType DEF ReturnAllStep
<1>8. CASE ReturnStep
  BY <1>0, <1>8, TodoType, LoopType, ReturnCpuType DEF ReturnStep
<1>9. CASE MaxGuestedStep
  BY <1>0, <1>9, TodoType, LoopType, ShedCpuType DEF MaxGuestedStep
<1>10. CASE ResetStep
  BY <1>0, <1>10, TodoType, LoopType, ResetOneType DEF ResetStep
<1>11. CASE UpdateOwnershipStep
  BY <1>0, <1>11, TodoType, LoopType, UpdateOwnershipOneType DEF UpdateOwnershipStep
<1>12. CASE RegisterStep
  BY <1>0, <1>12, TodoType, LoopType, RegisterCpuType DEF RegisterStep
<1>13. CASE DeregisterStep
  BY <1>0, <1>13, TodoType, LoopType, DeregisterOneType DEF DeregisterStep
<1>14. CASE DeregisterCpuStep
  BY <1>0, <1>14, TodoType, LoopType, DeregisterCpuType DEF DeregisterCpuStep
<1>15. CASE ReturnAsyncStep
  <2>1. PICK c \in Todo("return_async") : Iterate(c, return_async(shm, job.pid, c), 0)
    BY <1>15 DEF ReturnAsyncStep
  <2>2. c \in Cpu /\ job.pid \in PidOrNobody
    BY TodoType DEF Job
  <2>3. return_async(shm, job.pid, c) \in ShData
    BY <1>0, <2>2, ReturnAsyncType
  <2> QED BY <1>0, <2>1, <2>3, LoopType
<1>16. CASE ReclaimCoreStep
  <2>1. PICK c \in Todo("reclaim_core") :
          Iterate(c, reclaim_core(shm, job.pid, c).shm, reclaim_core(shm, job.pid, c).num)
    BY <1>16 DEF ReclaimCoreStep
  <2>2. c \in Cpu /\ job.pid \in Pid
    BY TodoType
  <2>3. reclaim_core(shm, job.pid, c).shm \in ShData /\ reclaim_core(shm, job.pid, c).num \in Int
    BY <1>0, <2>2, ReclaimCoreType
  <2> QED BY <2>1, <2>3, LoopType
<1>17. CASE AcquireStep
  <2>1. PICK c \in Todo("acquire") :
          \/ Iterate(c, shm, 0)
          \/ Iterate(c, acquire_core(shm, job.pid, c).shm, acquire_core(shm, job.pid, c).num)
    BY <1>17 DEF AcquireStep
  <2>2. c \in Cpu /\ job.pid \in Pid
    BY TodoType
  <2>3. acquire_core(shm, job.pid, c).shm \in ShData /\ acquire_core(shm, job.pid, c).num \in Int
    BY <1>0, <2>2, AcquireCoreType
  <2> QED BY <1>0, <2>1, <2>3, LoopType
<1>18. CASE BorrowStep
  <2>1. PICK c \in Todo("borrow") :
          \/ Iterate(c, shm, 0)
          \/ Iterate(c, borrow_core(shm, job.pid, c).shm, borrow_core(shm, job.pid, c).num)
    BY <1>18 DEF BorrowStep
  <2>2. c \in Cpu /\ job.pid \in Pid
    BY TodoType
  <2>3. borrow_core(shm, job.pid, c).shm \in ShData /\ borrow_core(shm, job.pid, c).num \in Int
    BY <1>0, <2>2, BorrowCoreType
  <2> QED BY <1>0, <2>1, <2>3, LoopType
<1>19. CASE PetitionN
  <2>1. /\ job # NoJob /\ job.op = "petition_n" /\ ~LoopDone
        /\ shm' = petition_n(shm, job.pid, job.n, job.todo)
        /\ job' = [job EXCEPT !.todo = {}]
    BY <1>19 DEF PetitionN
  <2>2. job \in Job /\ job.pid \in Pid
    BY <2>1 DEF TypeOK, JobOK
  <2>3. job.n \in Nat \ {0} /\ job.todo \in SUBSET Cpu
    BY <2>1, <2>2 DEF LoopDone, Counted, Job
  <2>4. shm' \in ShData
    BY <1>0, <2>1, <2>2, <2>3, PetitionNType
  <2>5. job' \in Job /\ job'.pid = job.pid /\ job'.op = job.op
    BY <2>1, <2>2 DEF Job
  <2>6. JobOK'
    BY <2>1, <2>2, <2>5 DEF JobOK
  <2> QED BY <1>19, <2>4, <2>5, <2>6 DEF TypeOK, PetitionN, locals
<1>20. CASE MaxOwnedStep
  <2>1. PICK c \in Todo("max_owned") :
          /\ shm' = IF shm.owner[c] = job.pid /\ job.n <= 0
                    THEN shed_cpu(shm, job.pid, c) ELSE shm
          /\ job' = [job EXCEPT
                 !.todo = @ \ {c},
                 !.n = IF shm.owner[c] = job.pid THEN @ - 1 ELSE @,
                 !.rest = <<[op |-> "max_guested",
                             todo |-> IF shm.owner[c] # job.pid /\ shm.guest[c] = job.pid
                                      THEN job.rest[1].todo \cup {c}
                                      ELSE job.rest[1].todo]>>]
          /\ UNCHANGED <<pc, ret, pend, returning, locals>>
    BY <1>20 DEF MaxOwnedStep
  <2>2. /\ c \in Cpu /\ job # NoJob /\ job \in Job /\ job.pid \in Pid
        /\ job.op = "max_owned"
    BY TodoType
  <2>3. job.rest \in Seq(Phase) /\ job.rest # <<>>
    BY <2>2 DEF TypeOK, JobOK, Job
  <2>4. job.rest[1] \in Phase
    BY <2>3
  <2>5. job.rest[1].todo \in SUBSET Cpu
    BY <2>4 DEF Phase
  <2> DEFINE next == [op |-> "max_guested",
                      todo |-> IF shm.owner[c] # job.pid /\ shm.guest[c] = job.pid
                               THEN job.rest[1].todo \cup {c} ELSE job.rest[1].todo]
  <2>6. next \in Phase
    BY <2>2, <2>5 DEF Phase
  <2>7. <<next>> \in Seq(Phase) /\ <<next>> # <<>>
    BY <2>6
  <2>8. /\ job.todo \ {c} \in SUBSET Cpu
        /\ (IF shm.owner[c] = job.pid THEN job.n - 1 ELSE job.n) \in Int
    BY <2>2 DEF Job
  <2>9. /\ job' \in Job /\ job'.pid = job.pid /\ job'.op = "max_owned"
        /\ job'.rest # <<>>
    <3> HIDE DEF next
    <3>1. job' = [job EXCEPT !.todo = job.todo \ {c},
                    !.n = IF shm.owner[c] = job.pid THEN job.n - 1 ELSE job.n,
                    !.rest = <<next>>]
      BY <2>1 DEF next
    <3> QED BY <2>2, <2>7, <2>8, <3>1 DEF Job
  <2>10. JobOK'
    BY <2>2, <2>9 DEF JobOK
  <2>11. shm' \in ShData
    BY <1>0, <2>1, <2>2, ShedCpuType
  <2> QED BY <2>1, <2>9, <2>10, <2>11 DEF TypeOK, locals
<1>21. CASE DeregisterProc
  <2>1. job # NoJob /\ job \in Job /\ job.op = "deregister_proc"
    BY <1>21 DEF DeregisterProc, TypeOK
  <2>2. shm' \in ShData
    BY <1>0, <1>21, RemoveProcRequestsType DEF DeregisterProc
  <2>3. job' = [job EXCEPT !.todo = {}]
    BY <1>21 DEF DeregisterProc
  <2>4. job' \in Job /\ job'.pid = job.pid /\ job'.op = job.op /\ job'.rest = job.rest
    BY <2>1, <2>3 DEF Job
  <2>5. JobOK'
    BY <2>1, <2>4 DEF TypeOK, JobOK
  <2> QED BY <1>21, <2>2, <2>4, <2>5 DEF TypeOK, DeregisterProc, locals
<1>22. CASE NextLoop
  <2>1. job # NoJob /\ job \in Job /\ job.rest # <<>> /\ job.pid \in Pid
    BY <1>22 DEF NextLoop, TypeOK, JobOK
  <2>2. Head(job.rest) \in Phase /\ Tail(job.rest) \in Seq(Phase)
    BY <2>1 DEF Job
  <2>3. /\ Head(job.rest).op \in Op /\ Head(job.rest).op # "max_owned"
        /\ Head(job.rest).todo \in SUBSET Cpu
    BY <2>2 DEF Phase, Op
  <2>4. job' = [job EXCEPT !.op = Head(job.rest).op, !.todo = Head(job.rest).todo,
                           !.prev = {}, !.rest = Tail(job.rest)]
    BY <1>22 DEF NextLoop
  <2>5. job' \in Job /\ job'.pid = job.pid /\ job'.op # "max_owned"
    BY <2>1, <2>2, <2>3, <2>4 DEF Job
  <2>6. JobOK'
    BY <2>1, <2>5 DEF JobOK
  <2> QED BY <1>22, <2>5, <2>6 DEF TypeOK, NextLoop, locals
<1>23. CASE Unlock
  <2> DEFINE p == job.by
             left == pend[p] \cup
                     (IF job.op = "lend" /\ ~Async THEN {} ELSE shm.tasks)
  <2>1. job \in Job
    BY <1>23 DEF Unlock, TypeOK
  <2>2. p \in Pid /\ job.mask \in SUBSET Cpu
    BY <2>1 DEF Job
  <2>3. left \in SUBSET Task
    BY <1>0, <2>2 DEF TypeOK, ShData
  <2> HIDE DEF p, left
  <2>4. /\ job' = NoJob /\ shm' = [shm EXCEPT !.tasks = {}]
        /\ pend' = [pend EXCEPT ![p] = left]
        /\ pc' = [pc EXCEPT ![p] = IF left = {} THEN ret[p] ELSE "resolve"]
        /\ active' = IF job.op = "update_ownership"
                     THEN [active EXCEPT ![p] = job.mask] ELSE active
        /\ UNCHANGED <<ret, returning, msgs, process_mask, max_parallelism>>
    BY <1>23 DEF Unlock, p, left
  <2>5. shm' \in ShData
    BY <1>0, <2>4 DEF ShData
  <2>6. JobOK'
    BY <2>4 DEF JobOK
  <2>7. pend' \in [Pid -> SUBSET Task]
    BY <2>2, <2>3, <2>4 DEF TypeOK
  <2>8. pc' \in [Pid -> PC]
    BY <2>2, <2>4 DEF TypeOK, PC
  <2>9. active' \in [Pid -> SUBSET Cpu]
    BY <2>2, <2>4 DEF TypeOK
  <2> QED BY <2>4, <2>5, <2>6, <2>7, <2>8, <2>9 DEF TypeOK
<1> QED BY <1>1, <1>2, <1>3, <1>4, <1>5, <1>6, <1>7, <1>8, <1>9, <1>10, <1>11, <1>12, <1>13, <1>14, <1>15, <1>16, <1>17, <1>18, <1>19, <1>20, <1>21, <1>22, <1>23 DEF JobStep

(* Every call of a process keeps the types. *)
LEMMA ClientCallType ==
  ASSUME TypeOK, NEW p \in Pid, ClientCall(p)
  PROVE  TypeOK'
<1>0. shm \in ShData /\ p \in PidOrNobody
  BY DEF TypeOK, PidOrNobody
<1>a. /\ \A mask \in ArgMasks : mask \in SUBSET Cpu
      /\ \A mask \in DromMasks : mask \in SUBSET Cpu
      /\ \A n \in ArgNcpus : n \in Nat
  BY LewiMaskAssumption
<1>1. CASE Lend(p)
  <2>1. PICK mask \in ArgMasks :
          /\ Call(p, "lend", NewJob(p, p, "lend", mask))
          /\ Runtime(p, {}, mask)
          /\ UNCHANGED <<shm, pend, returning, msgs, process_mask, max_parallelism>>
    BY <1>1 DEF Lend
  <2>2. /\ NewJob(p, p, "lend", mask) \in Job
        /\ NewJob(p, p, "lend", mask).pid = p
        /\ NewJob(p, p, "lend", mask).op = "lend"
    BY <1>0, <1>a, NewJobType DEF Op
  <2>3. job' \in Job \cup {NoJob} /\ JobOK' /\ pc' \in [Pid -> PC] /\ ret' \in [Pid -> PC]
    BY <2>1, <2>2, CallType
  <2>4. active' \in [Pid -> SUBSET Cpu]
    BY <2>1, RuntimeType
  <2> QED BY <2>1, <2>3, <2>4 DEF TypeOK
<1>2. ASSUME NEW name, NEW mask \in SUBSET Cpu, Call(p, name, ReclaimJob(p, mask)), Stay
      PROVE  TypeOK'
  <2> DEFINE j == NewJob(p, p, "reclaim", Reclaimable(mask))
  <2>1. Reclaimable(mask) \in SUBSET Cpu
    BY <1>0, <1>2 DEF Reclaimable, ShData
  <2>2. j \in Job /\ j.pid = p /\ j.op = "reclaim"
    BY <1>0, <2>1, NewJobType DEF Op
  <2> HIDE DEF j
  <2>3. /\ ReclaimJob(p, mask) \in Job
        /\ ReclaimJob(p, mask).pid = p
        /\ ReclaimJob(p, mask).op = "reclaim"
    <3>1. ReclaimJob(p, mask) = [j EXCEPT !.mask = mask]
      BY DEF ReclaimJob, j
    <3> QED BY <1>2, <2>2, <3>1 DEF Job
  <2> QED BY <1>2, <2>3, StayType
<1>3. CASE Reclaim(p)
  BY <1>2, <1>3 DEF Reclaim, TypeOK
<1>4. CASE ReclaimCpuMask(p)
  BY <1>2, <1>4, <1>a DEF ReclaimCpuMask
<1>5. CASE ReclaimCpu(p)
  BY <1>5, SimpleCallType DEF ReclaimCpu, Op
<1>6. CASE ReclaimCpus(p)
  <2> DEFINE j == NewJob(p, p, "reclaim_core", CoreLeaders)
  <2>1. PICK n \in ArgNcpus : Call(p, "reclaim_cpus", [j EXCEPT !.n = n]) /\ Stay
    BY <1>6 DEF ReclaimCpus
  <2>2. j \in Job /\ j.pid = p /\ j.op = "reclaim_core"
    BY <1>0, NewJobType DEF Op, CoreLeaders
  <2> HIDE DEF j
  <2>3. /\ [j EXCEPT !.n = n] \in Job
        /\ [j EXCEPT !.n = n].pid = p
        /\ [j EXCEPT !.n = n].op = "reclaim_core"
    BY <1>a, <2>2 DEF Job
  <2> QED BY <2>1, <2>3, StayType
<1>7. CASE AcquireCpu(p)
  BY <1>7, SimpleCallType DEF AcquireCpu, Op
<1>8. CASE BorrowCpu(p)
  BY <1>8, SimpleCallType DEF BorrowCpu, Op
<1>9. CASE Acquire(p)
  <2>1. PICK n \in ArgNcpus \cup {0}, array \in ArgMasks : AcquireBody(p, n, array)
    BY <1>9 DEF Acquire
  <2> DEFINE enabled == {c \in array : shm.state[c] # "DISABLED"}
             idle == {c \in enabled \cap Owned(p) : shm.guest[c] = NOBODY}
             busy == {c \in enabled \cap Owned(p) : shm.guest[c] \notin {NOBODY, p}}
             others == {c \in enabled \ Owned(p) : shm.guest[c] = NOBODY}
             petition == IF ~shm.queues_enabled THEN <<>>
                         ELSE IF n > 0 THEN <<[op |-> "petition_n", todo |-> array]>>
                         ELSE <<[op |-> "petition_cpu", todo |-> array]>>
             j == NewJob(p, p, "acquire", idle)
             rest == <<[op |-> "acquire", todo |-> busy],
                       [op |-> "borrow", todo |-> others]>> \o petition
             a == Allowance(p, n, array)
  <2>6. Call(p, "acquire", [j EXCEPT !.n = a, !.rest = rest]) /\ Stay
    BY <2>1 DEF AcquireBody
  <2>7. array \in SUBSET Cpu /\ n \in Nat
    BY <1>a
  <2>8. idle \in SUBSET Cpu /\ busy \in SUBSET Cpu /\ others \in SUBSET Cpu
    BY <2>7
  <2> HIDE DEF enabled, idle, busy, others
  <2>2. a \in Int
    BY <2>7, AllowanceType
  <2>3. rest \in Seq(Phase)
    <3>1. <<[op |-> "acquire", todo |-> busy], [op |-> "borrow", todo |-> others]>> \in Seq(Phase)
      BY <2>8 DEF Phase
    <3>2. petition \in Seq(Phase)
      <4>1. /\ <<[op |-> "petition_n", todo |-> array]>> \in Seq(Phase)
            /\ <<[op |-> "petition_cpu", todo |-> array]>> \in Seq(Phase)
            /\ <<>> \in Seq(Phase)
        BY <2>7 DEF Phase
      <4> QED BY <4>1
    <3> QED BY <3>1, <3>2
  <2>4. j \in Job /\ j.pid = p /\ j.op = "acquire"
    BY <1>0, <2>8, NewJobType DEF Op
  <2> HIDE DEF j, rest, a
  <2>5. /\ [j EXCEPT !.n = a, !.rest = rest] \in Job
        /\ [j EXCEPT !.n = a, !.rest = rest].pid = p
        /\ [j EXCEPT !.n = a, !.rest = rest].op = "acquire"
    BY <2>2, <2>3, <2>4 DEF Job
  <2> QED BY <2>5, <2>6, StayType
<1>10. CASE RemoveRequests(p)
  BY <1>0, <1>10, RemoveRequestsType DEF RemoveRequests, TypeOK, JobOK, locals
<1>11. CASE Borrow(p)
  <2>1. PICK n \in ArgNcpus \cup {0}, array \in ArgMasks :
          /\ Call(p, "borrow", [NewJob(p, p, "borrow", array) EXCEPT
               !.n = IF shm.free_cpus = {} THEN 0 ELSE Allowance(p, n, array)])
          /\ Stay
    BY <1>11 DEF Borrow
  <2> DEFINE j == NewJob(p, p, "borrow", array)
             a == IF shm.free_cpus = {} THEN 0 ELSE Allowance(p, n, array)
  <2>2. a \in Int
    BY <1>a, AllowanceType
  <2>3. j \in Job /\ j.pid = p /\ j.op = "borrow"
    BY <1>0, <1>a, NewJobType DEF Op
  <2> HIDE DEF j, a
  <2>4. [j EXCEPT !.n = a] \in Job /\ [j EXCEPT !.n = a].pid = p
        /\ [j EXCEPT !.n = a].op = "borrow"
    BY <2>2, <2>3 DEF Job
  <2>5. Call(p, "borrow", [j EXCEPT !.n = a]) /\ Stay
    BY <2>1 DEF j, a
  <2> QED BY <2>4, <2>5, StayType
<1>12. CASE Return(p)
  BY <1>12, SimpleCallType DEF Return, Op
<1>13. CASE ReturnCpu(p)
  BY <1>13, SimpleCallType DEF ReturnCpu, Op
<1>14. CASE ReturnCpuMask(p)
  <2>1. PICK mask \in ArgMasks :
          Call(p, "return_mask", NewJob(p, p, "return", mask \cap shm.occupied_cores))
    BY <1>14 DEF ReturnCpuMask
  <2>2. mask \cap shm.occupied_cores \in SUBSET Cpu
    BY <1>a
  <2> QED BY <1>14, <2>1, <2>2, SimpleCallType DEF ReturnCpuMask, Op
<1>15. CASE SetMaxParallelism(p)
  <2> DEFINE j == NewJob(p, p, "max_owned", Cpu)
             rest == <<[op |-> "max_guested", todo |-> {}]>>
  <2>1. PICK max \in ArgNcpus :
          /\ Call(p, "max_parallelism", [j EXCEPT !.n = max, !.rest = rest])
          /\ max_parallelism' = [max_parallelism EXCEPT ![p] = max]
          /\ UNCHANGED <<shm, pend, returning, active, msgs, process_mask>>
    BY <1>15 DEF SetMaxParallelism
  <2>2. j \in Job /\ j.pid = p
    BY <1>0, NewJobType DEF Op
  <2>3. rest \in Seq(Phase) /\ rest # <<>>
    BY DEF Phase
  <2> HIDE DEF j, rest
  <2>4. /\ [j EXCEPT !.n = max, !.rest = rest] \in Job
        /\ [j EXCEPT !.n = max, !.rest = rest].pid = p
        /\ [j EXCEPT !.n = max, !.rest = rest].rest # <<>>
    <3>1. max \in Int
      BY <1>a
    <3> QED BY <2>2, <2>3, <3>1 DEF Job
  <2>5. job' \in Job \cup {NoJob} /\ JobOK' /\ pc' \in [Pid -> PC] /\ ret' \in [Pid -> PC]
    BY <2>1, <2>4, CallType
  <2>6. max_parallelism' \in [Pid -> Nat]
    BY <1>a, <2>1 DEF TypeOK
  <2> QED BY <2>1, <2>5, <2>6 DEF TypeOK
<1>16. CASE UnsetMaxParallelism(p)
  BY <1>16 DEF UnsetMaxParallelism, TypeOK, JobOK
<1>17. CASE DisableDLB(p)
  <2>1. /\ Lock(p, NewJob(p, p, "reset", Cpu))
        /\ ret' = [ret EXCEPT ![p] = "disabled"]
        /\ shm' = remove_requests(shm, p, NotOwned(p))
    BY <1>17 DEF DisableDLB
  <2>2. /\ NewJob(p, p, "reset", Cpu) \in Job
        /\ NewJob(p, p, "reset", Cpu).pid = p
        /\ NewJob(p, p, "reset", Cpu).op = "reset"
    BY <1>0, NewJobType DEF Op
  <2>3. job' \in Job \cup {NoJob} /\ JobOK' /\ pc' \in [Pid -> PC]
    BY <2>1, <2>2, LockType
  <2>4. shm' \in ShData
    BY <1>0, <2>1, RemoveRequestsType
  <2> QED BY <1>17, <2>1, <2>3, <2>4 DEF DisableDLB, TypeOK, PC, locals
<1>18. CASE EnableDLB(p)
  BY <1>18 DEF EnableDLB, TypeOK, JobOK, PC, locals
<1>19. CASE CheckCpuAvailability(p)
  <2>1. PICK c \in Cpu : pend' = [pend EXCEPT ![p] = {EnableTask(p, c)}]
    BY <1>19 DEF CheckCpuAvailability
  <2>2. pend' \in [Pid -> SUBSET Task]
    BY <1>0, <2>1, TaskType DEF TypeOK
  <2> QED BY <1>19, <2>2 DEF CheckCpuAvailability, TypeOK, JobOK, PC, locals
<1>20. CASE UpdateOwnership(p)
  <2> DEFINE j == NewJob(p, p, "update_ownership", Cpu)
  <2>1. PICK mask \in DromMasks :
          /\ Lock(p, [j EXCEPT !.mask = mask])
          /\ ret' = [ret EXCEPT ![p] = pc[p]]
          /\ Stay
    BY <1>20 DEF UpdateOwnership
  <2>2. j \in Job /\ j.pid = p /\ j.op = "update_ownership"
    BY <1>0, NewJobType DEF Op
  <2> HIDE DEF j
  <2>3. /\ [j EXCEPT !.mask = mask] \in Job
        /\ [j EXCEPT !.mask = mask].pid = p
        /\ [j EXCEPT !.mask = mask].op = "update_ownership"
    BY <1>a, <2>2 DEF Job
  <2>4. job' \in Job \cup {NoJob} /\ JobOK' /\ pc' \in [Pid -> PC]
    BY <2>1, <2>3, LockType
  <2> QED BY <2>1, <2>4 DEF TypeOK, Stay, locals
<1> QED BY <1>1, <1>3, <1>4, <1>5, <1>6, <1>7, <1>8, <1>9, <1>10, <1>11, <1>12,
           <1>13, <1>14, <1>15, <1>16, <1>17, <1>18, <1>19, <1>20
        DEF ClientCall

(* Bringing a call to its end keeps the types. *)
LEMMA ResolveType ==
  ASSUME TypeOK, NEW p \in Pid, Resolve(p)
  PROVE  TypeOK'
<1>0. \A tasks, a, q : CpusOf(tasks, a, q) \in SUBSET Cpu
  BY DEF CpusOf
<1>1. CASE ResolveOwn(p)
  <2> DEFINE mine == {t \in pend[p] : t.pid = p}
             left == IF Async THEN pend[p] \ mine ELSE {}
  <2>1. left \in SUBSET Task
    BY DEF TypeOK
  <2> HIDE DEF left, mine
  <2>2. /\ \/ Runtime(p, CpusOf(mine, "ENABLE", p), CpusOf(mine, "DISABLE", p))
           \/ UNCHANGED active
        /\ pend' = [pend EXCEPT ![p] = left]
        /\ pc' = [pc EXCEPT ![p] = IF left = {} THEN ret[p] ELSE "resolve"]
        /\ UNCHANGED <<shm, job, ret, returning, msgs, process_mask, max_parallelism>>
    BY <1>1 DEF ResolveOwn, mine, left
  <2>3. active' \in [Pid -> SUBSET Cpu]
    BY <1>0, <2>2, RuntimeType DEF TypeOK
  <2>4. pc' \in [Pid -> PC] /\ pend' \in [Pid -> SUBSET Task]
    BY <2>1, <2>2 DEF TypeOK, PC
  <2> QED BY <2>2, <2>3, <2>4 DEF TypeOK, JobOK
<1>2. ASSUME NEW q \in PidOrNobody, Notify(p, q)
      PROVE  TypeOK'
  <2> DEFINE his == {t \in pend[p] : t.pid = q}
             on == CpusOf(his, "ENABLE", q)
             off == CpusOf(his, "DISABLE", q)
             new == (IF on = {} THEN <<>> ELSE <<[action |-> "ENABLE", cpus |-> on]>>)
                    \o (IF off = {} THEN <<>> ELSE <<[action |-> "DISABLE", cpus |-> off]>>)
             back == {t \in his : t.action = "DISABLE"}
             left == pend[p] \ his
  <2>1. on \in SUBSET Cpu /\ off \in SUBSET Cpu
    BY <1>0
  <2>2. left \in SUBSET Task /\ back \in SUBSET Task
    BY DEF TypeOK
  <2> HIDE DEF on, off
  <2>3. new \in Seq(Message)
    <3>1. /\ <<[action |-> "ENABLE", cpus |-> on]>> \in Seq(Message)
          /\ <<[action |-> "DISABLE", cpus |-> off]>> \in Seq(Message)
          /\ <<>> \in Seq(Message)
      BY <2>1 DEF Message
    <3>2. /\ (IF on = {} THEN <<>> ELSE <<[action |-> "ENABLE", cpus |-> on]>>) \in Seq(Message)
          /\ (IF off = {} THEN <<>> ELSE <<[action |-> "DISABLE", cpus |-> off]>>) \in Seq(Message)
      BY <3>1
    <3> QED BY <3>2
  <2> HIDE DEF his, new, back, left
  <2>4. /\ \/ HasHelper(q) /\ msgs' = [msgs EXCEPT ![q] = @ \o new]
           \/ UNCHANGED msgs
        /\ pend' = [pend EXCEPT ![p] = left]
        /\ returning' = [returning EXCEPT ![p] = back]
        /\ pc' = [pc EXCEPT ![p] = IF back # {} THEN "return_async"
                                   ELSE IF left # {} THEN "resolve" ELSE ret[p]]
        /\ UNCHANGED <<shm, job, ret, active, process_mask, max_parallelism>>
    BY <1>2 DEF Notify, his, on, off, new, back, left
  <2>5. msgs' \in [Pid -> Seq(Message)]
    <3>1. CASE HasHelper(q) /\ msgs' = [msgs EXCEPT ![q] = @ \o new]
      <4>1. q \in Pid
        BY <3>1 DEF HasHelper
      <4>2. msgs[q] \o new \in Seq(Message)
        BY <2>3, <4>1 DEF TypeOK
      <4> QED BY <3>1, <4>1, <4>2 DEF TypeOK
    <3> QED BY <2>4, <3>1 DEF TypeOK
  <2>6. pc' \in [Pid -> PC]
    BY <2>4 DEF TypeOK, PC
  <2>7. pend' \in [Pid -> SUBSET Task] /\ returning' \in [Pid -> SUBSET Task]
    BY <2>2, <2>4 DEF TypeOK
  <2> QED BY <2>4, <2>5, <2>6, <2>7 DEF TypeOK, JobOK
<1>3. CASE ReturnAsync(p)
  <2>1. PICK t \in returning[p] :
          Lock(p, NewJob(p, t.pid, "return_async", CpusOf(returning[p], "DISABLE", t.pid)))
    BY <1>3 DEF ReturnAsync
  <2> DEFINE j == NewJob(p, t.pid, "return_async", CpusOf(returning[p], "DISABLE", t.pid))
  <2>2. t.pid \in PidOrNobody
    BY DEF TypeOK, Task
  <2>3. j \in Job /\ j.op = "return_async" /\ j.rest = <<>>
    BY <1>0, <2>2, NewJobType DEF Op
  <2> HIDE DEF j
  <2>4. Lock(p, j)
    BY <2>1 DEF j
  <2>5. job' \in Job \cup {NoJob} /\ JobOK' /\ pc' \in [Pid -> PC]
    BY <2>3, <2>4, LockType
  <2>6. returning' \in [Pid -> SUBSET Task]
    BY <1>3 DEF ReturnAsync, TypeOK
  <2> QED BY <1>3, <2>5, <2>6 DEF ReturnAsync, TypeOK, locals
<1>4. CASE CheckLocked(p)
  <2>1. PICK c \in CpusOf(pend[p], "ENABLE", p) :
          /\ \/ /\ shm' = [shm EXCEPT !.guest[c] = p, !.free_cpus = @ \ {c}]
                /\ Runtime(p, {c}, {})
             \/ UNCHANGED <<shm, active>>
          /\ pend' = [pend EXCEPT ![p] = {}]
          /\ pc' = [pc EXCEPT ![p] = "ready"]
          /\ UNCHANGED <<job, ret, returning, msgs, process_mask, max_parallelism>>
    BY <1>4 DEF CheckLocked
  <2>2. c \in Cpu
    BY <1>0
  <2>3. [shm EXCEPT !.guest[c] = p, !.free_cpus = @ \ {c}] \in ShData
    BY <2>2 DEF TypeOK, ShData, PidOrNobody
  <2>4. shm' \in ShData
    BY <2>1, <2>3 DEF TypeOK
  <2>5. active' \in [Pid -> SUBSET Cpu]
    BY <2>1, <2>2, RuntimeType DEF TypeOK
  <2> QED BY <2>1, <2>4, <2>5 DEF TypeOK, JobOK, PC
<1> QED BY <1>1, <1>2, <1>3, <1>4 DEF Resolve

(* A message handled by a helper thread keeps the types. *)
LEMMA HelperType ==
  ASSUME TypeOK, NEW p \in Pid, Helper(p)
  PROVE  TypeOK'
<1> DEFINE m == Head(msgs[p])
<1>1. msgs[p] \in Seq(Message) /\ msgs[p] # <<>>
  BY DEF Helper, TypeOK
<1>2. m \in Message /\ Tail(msgs[p]) \in Seq(Message)
  BY <1>1
<1>3. m.cpus \in SUBSET Cpu
  BY <1>2 DEF Message
<1>4. Runtime(p, m.cpus, {}) \/ Runtime(p, {}, m.cpus)
  BY DEF Helper
<1> HIDE DEF m
<1>5. active' \in [Pid -> SUBSET Cpu]
  BY <1>3, <1>4, RuntimeType
<1>6. msgs' \in [Pid -> Seq(Message)]
  BY <1>2 DEF Helper, TypeOK
<1> QED BY <1>5, <1>6 DEF Helper, TypeOK, JobOK

(* Start, finish and crash keep the types. *)
LEMMA LifecycleType ==
  ASSUME TypeOK, NEW p \in Pid, Lifecycle(p)
  PROVE  TypeOK'
<1>0. shm \in ShData /\ p \in PidOrNobody /\ StartMask[p] \in SUBSET Cpu
  BY LewiMaskAssumption DEF TypeOK, PidOrNobody
<1>1. CASE Attach(p)
  BY <1>1 DEF Attach, TypeOK, JobOK, PC, locals
<1>2. CASE Register(p)
  <2>1. /\ NewJob(p, p, "register", StartMask[p]) \in Job
        /\ NewJob(p, p, "register", StartMask[p]).pid = p
        /\ NewJob(p, p, "register", StartMask[p]).op = "register"
    BY <1>0, NewJobType DEF Op
  <2>2. job' \in Job \cup {NoJob} /\ JobOK' /\ pc' \in [Pid -> PC]
    <3>1. CASE Lock(p, NewJob(p, p, "register", StartMask[p]))
      BY <2>1, <3>1, LockType
    <3>2. CASE job = NoJob /\ job' = job /\ pc' = [pc EXCEPT ![p] = "closing"]
      BY <3>2 DEF TypeOK, JobOK, PC
    <3> QED BY <1>2, <3>1, <3>2 DEF Register
  <2>3. ret' \in [Pid -> PC]
    BY <1>2 DEF Register, TypeOK, PC
  <2> QED BY <1>2, <2>2, <2>3 DEF Register, TypeOK, Stay, locals
<1>3. CASE LewiInit(p)
  <2>1. shm' \in ShData
    <3>1. (shm.queues_enabled \/ Async) \in BOOLEAN
      BY LewiMaskAssumption
    <3>2. shm' = [shm EXCEPT !.queues_enabled = shm.queues_enabled \/ Async]
      BY <1>3 DEF LewiInit
    <3> QED BY <1>0, <3>1, <3>2 DEF ShData
  <2>2. active' \in [Pid -> SUBSET Cpu] /\ process_mask' \in [Pid -> SUBSET Cpu]
    BY <1>0, <1>3 DEF LewiInit, TypeOK
  <2> QED BY <1>3, <2>1, <2>2 DEF LewiInit, TypeOK, JobOK, PC
<1>4. CASE Finish(p)
  <2>1. /\ NewJob(p, p, "deregister", Cpu) \in Job
        /\ NewJob(p, p, "deregister", Cpu).pid = p
        /\ NewJob(p, p, "deregister", Cpu).op = "deregister"
    BY <1>0, NewJobType DEF Op
  <2>2. Lock(p, NewJob(p, p, "deregister", Cpu))
    BY <1>4 DEF Finish
  <2>3. job' \in Job \cup {NoJob} /\ JobOK' /\ pc' \in [Pid -> PC]
    BY <2>1, <2>2, LockType
  <2>4. shm' \in ShData
    BY <1>0, <1>4, RemoveRequestsType DEF Finish
  <2> QED BY <1>4, <2>3, <2>4 DEF Finish, TypeOK, PC
<1>5. CASE Finalize(p)
  <2> DEFINE j == NewJob(p, p, "deregister_cpu", Cpu)
             rest == <<[op |-> "deregister_proc", todo |-> Cpu]>>
  <2>1. j \in Job /\ j.pid = p /\ j.op = "deregister_cpu"
    BY <1>0, NewJobType DEF Op
  <2>2. rest \in Seq(Phase)
    BY DEF Phase
  <2>3. Lock(p, [j EXCEPT !.rest = rest])
    BY <1>5 DEF Finalize
  <2> HIDE DEF j, rest
  <2>4. /\ [j EXCEPT !.rest = rest] \in Job
        /\ [j EXCEPT !.rest = rest].pid = p
        /\ [j EXCEPT !.rest = rest].op = "deregister_cpu"
    BY <2>1, <2>2 DEF Job
  <2>5. job' \in Job \cup {NoJob} /\ JobOK' /\ pc' \in [Pid -> PC]
    BY <2>3, <2>4, LockType
  <2> QED BY <1>5, <2>5 DEF Finalize, TypeOK, PC, Stay, locals
<1>6. CASE Leave(p)
  BY <1>6 DEF Leave, TypeOK, JobOK, PC
<1>7. CASE Crash(p)
  BY <1>7 DEF Crash, TypeOK, JobOK, PC
<1>8. ASSUME NEW q \in Pid, Cleanup(p, q)
      PROVE  TypeOK'
  <2>1. /\ NewJob(p, q, "deregister_cpu", Cpu) \in Job
        /\ NewJob(p, q, "deregister_cpu", Cpu).pid = q
        /\ NewJob(p, q, "deregister_cpu", Cpu).op = "deregister_cpu"
    BY NewJobType DEF Op, PidOrNobody
  <2>2. job' = NewJob(p, q, "deregister_cpu", Cpu)
    BY <1>8 DEF Cleanup
  <2>3. job' \in Job /\ JobOK'
    BY <2>1, <2>2 DEF JobOK
  <2>4. pc' \in [Pid -> PC] /\ ret' \in [Pid -> PC]
    BY <1>8 DEF Cleanup, TypeOK, PC
  <2>5. msgs' \in [Pid -> Seq(Message)]
    BY <1>8 DEF Cleanup, TypeOK
  <2> QED BY <1>8, <2>3, <2>4, <2>5 DEF Cleanup, TypeOK
<1> QED BY <1>1, <1>2, <1>3, <1>4, <1>5, <1>6, <1>7, <1>8 DEF Lifecycle

(* Whatever the processes call and in whatever order they take the lock,   *)
(* crash and come back, the table and the state of every process stay well *)
(* formed: request queues hold positive requests of real processes, tasks  *)
(* name existing CPUs, and no operation but the asynchronous return is     *)
(* ever made in the name of NOBODY.                                        *)
THEOREM TypeCorrect == Spec => []TypeOK
<1>1. Init => TypeOK
  BY InitTypeOK
<1>2. TypeOK /\ [Next]_vars => TypeOK'
  <2> SUFFICES ASSUME TypeOK, [Next]_vars PROVE TypeOK' OBVIOUS
  <2>1. CASE Next
    BY <2>1, JobStepType, ClientCallType, ResolveType, HelperType, LifecycleType DEF Next
  <2>2. CASE UNCHANGED vars
    BY <2>2 DEF vars, TypeOK, JobOK
  <2> QED BY <2>1, <2>2
<1> QED BY <1>1, <1>2, PTL DEF Spec

-----------------------------------------------------------------------------
(* In polling mode a process loses a CPU only in its own calls *)

(* Nobody returns CPUs in the name of another process in polling mode. *)
PollingInv ==
  /\ job # NoJob => job.op # "return_async"
  /\ \A p \in Pid : pc[p] # "return_async" /\ ret[p] # "return_async"

(* A client call starts an operation other than the asynchronous return. *)
LEMMA CallPolling ==
  ASSUME TypeOK, PollingInv, NEW p \in Pid, NEW name, NEW j, Call(p, name, j),
         j.op # "return_async"
  PROVE  PollingInv'
BY DEF Call, Lock, PollingInv, TypeOK

(* The count, mask and further loops leave the operation as it is. *)
LEMMA NewJobOp ==
  ASSUME NEW p, NEW pid, NEW op, NEW todo
  PROVE  /\ NewJob(p, pid, op, todo).op = op
         /\ \A n : [NewJob(p, pid, op, todo) EXCEPT !.n = n].op = op
         /\ \A m : [NewJob(p, pid, op, todo) EXCEPT !.mask = m].op = op
         /\ \A r : [NewJob(p, pid, op, todo) EXCEPT !.rest = r].op = op
         /\ \A n, r : [NewJob(p, pid, op, todo) EXCEPT !.n = n, !.rest = r].op = op
BY DEF NewJob

(* PollingInv is kept by every step in polling mode. *)
LEMMA PollingStep ==
  ASSUME ~Async, TypeOK, PollingInv, [Next]_vars
  PROVE  PollingInv'
<1>1. ASSUME NEW c, NEW t, NEW k, job # NoJob, Iterate(c, t, k)
      PROVE  PollingInv'
  <2>1. job' = [job EXCEPT !.todo = @ \ {c}, !.n = @ - k, !.prev = core_mask[c]]
    BY <1>1 DEF Iterate
  <2>2. job'.op = job.op
    BY <1>1, <2>1 DEF TypeOK, Job
  <2> QED BY <1>1, <2>2 DEF Iterate, PollingInv
<1>2. \A op, c : c \in Todo(op) => job # NoJob
  BY DEF Todo
<1>3. CASE JobStep
  <2>1. CASE NextLoop
    <3>1. job \in Job /\ job.rest # <<>>
      BY <2>1 DEF NextLoop, TypeOK
    <3>2. Head(job.rest) \in Phase
      BY <3>1 DEF Job
    <3>3. Head(job.rest).op # "return_async"
      BY <3>2 DEF Phase
    <3>4. job' = [job EXCEPT !.op = Head(job.rest).op, !.todo = Head(job.rest).todo,
                             !.prev = {}, !.rest = Tail(job.rest)]
      BY <2>1 DEF NextLoop
    <3>5. job'.op = Head(job.rest).op
      BY <3>1, <3>4 DEF Job
    <3> QED BY <2>1, <3>3, <3>5 DEF NextLoop, PollingInv
  <2>2. CASE Unlock
    <3>1. job.by \in Pid
      BY <2>2 DEF Unlock, TypeOK, Job
    <3> QED BY <2>2, <3>1 DEF Unlock, PollingInv, TypeOK
  <2>3. CASE PetitionN \/ DeregisterProc
    <3>1. job # NoJob /\ job' = [job EXCEPT !.todo = {}] /\ UNCHANGED <<pc, ret>>
      BY <2>3 DEF PetitionN, DeregisterProc
    <3>2. job'.op = job.op
      BY <3>1 DEF TypeOK, Job
    <3> QED BY <3>1, <3>2 DEF PollingInv
  <2>4. CASE MaxOwnedStep
    <3>1. job # NoJob /\ UNCHANGED <<pc, ret>>
      BY <1>2, <2>4 DEF MaxOwnedStep
    <3>2. PICK todo, n, rest : job' = [job EXCEPT !.todo = todo, !.n = n, !.rest = rest]
      BY <2>4 DEF MaxOwnedStep
    <3>3. job'.op = job.op
      BY <3>1, <3>2 DEF TypeOK, Job
    <3> QED BY <3>1, <3>3 DEF PollingInv
  <2>5. CASE \/ LendStep \/ ReclaimStep \/ ReclaimCpuStep \/ ReclaimCoreStep
             \/ AcquireCpuStep \/ AcquireStep \/ BorrowCpuStep \/ BorrowStep
    BY <1>1, <1>2, <2>5 DEF LendStep, ReclaimStep, ReclaimCpuStep, ReclaimCoreStep,
       AcquireCpuStep, AcquireStep, BorrowCpuStep, BorrowStep
  <2>6. CASE \/ PetitionCpuStep \/ ReturnAllStep \/ ReturnStep \/ ReturnAsyncStep
             \/ MaxGuestedStep \/ ResetStep \/ UpdateOwnershipStep \/ RegisterStep
             \/ DeregisterStep \/ DeregisterCpuStep
    BY <1>1, <1>2, <2>6 DEF PetitionCpuStep, ReturnAllStep, ReturnStep, ReturnAsyncStep,
       MaxGuestedStep, ResetStep, UpdateOwnershipStep, RegisterStep, DeregisterStep,
       DeregisterCpuStep
  <2> QED BY <1>3, <2>1, <2>2, <2>3, <2>4, <2>5, <2>6 DEF JobStep
<1>4. ASSUME NEW p \in Pid, ClientCall(p)
      PROVE  PollingInv'
  <2>a. ASSUME NEW name, NEW op, NEW todo, op # "return_async",
               Call(p, name, NewJob(p, p, op, todo))
        PROVE  PollingInv'
    <3>1. NewJob(p, p, op, todo).op = op
      BY DEF NewJob
    <3> QED BY <2>a, <3>1, CallPolling
  <2>b. ASSUME NEW name, NEW op, NEW todo, NEW n, op # "return_async",
               Call(p, name, [NewJob(p, p, op, todo) EXCEPT !.n = n])
        PROVE  PollingInv'
    <3>1. [NewJob(p, p, op, todo) EXCEPT !.n = n].op = op
      BY DEF NewJob
    <3> QED BY <2>b, <3>1, CallPolling
  <2>c. ASSUME NEW name, NEW op, NEW todo, NEW m, op # "return_async",
               Call(p, name, [NewJob(p, p, op, todo) EXCEPT !.mask = m])
        PROVE  PollingInv'
    <3>1. [NewJob(p, p, op, todo) EXCEPT !.mask = m].op = op
      BY DEF NewJob
    <3> QED BY <2>c, <3>1, CallPolling
  <2>d. ASSUME NEW name, NEW op, NEW todo, NEW n, NEW r, op # "return_async",
               Call(p, name, [NewJob(p, p, op, todo) EXCEPT !.n = n, !.rest = r])
        PROVE  PollingInv'
    <3>1. [NewJob(p, p, op, todo) EXCEPT !.n = n, !.rest = r].op = op
      BY DEF NewJob
    <3> QED BY <2>d, <3>1, CallPolling
  <2>1. CASE Lend(p)
    BY <2>a, <2>1 DEF Lend
  <2>2. CASE ReclaimCpu(p)
    BY <2>a, <2>2 DEF ReclaimCpu
  <2>3. CASE AcquireCpu(p)
    BY <2>a, <2>3 DEF AcquireCpu
  <2>4. CASE BorrowCpu(p)
    BY <2>a, <2>4 DEF BorrowCpu
  <2>5. CASE Return(p)
    BY <2>a, <2>5 DEF Return
  <2>6. CASE ReturnCpu(p)
    BY <2>a, <2>6 DEF ReturnCpu
  <2>7. CASE ReturnCpuMask(p)
    BY <2>a, <2>7 DEF ReturnCpuMask
  <2>8. CASE Reclaim(p)
    BY <2>c, <2>8 DEF Reclaim, ReclaimJob
  <2>9. CASE ReclaimCpuMask(p)
    BY <2>c, <2>9 DEF ReclaimCpuMask, ReclaimJob
  <2>10. CASE ReclaimCpus(p)
    BY <2>b, <2>10 DEF ReclaimCpus
  <2>11. CASE Borrow(p)
    <3>1. PICK n, array : Call(p, "borrow", [NewJob(p, p, "borrow", array) EXCEPT !.n = n])
      BY <2>11 DEF Borrow
    <3> QED BY <2>b, <3>1
  <2>12. CASE Acquire(p)
    <3>1. PICK n, array, r :
            Call(p, "acquire", [NewJob(p, p, "acquire", array) EXCEPT !.n = n, !.rest = r])
      BY <2>12 DEF Acquire, AcquireBody
    <3> QED BY <2>d, <3>1
  <2>13. CASE SetMaxParallelism(p)
    <3>1. PICK n, r :
            Call(p, "max_parallelism", [NewJob(p, p, "max_owned", Cpu) EXCEPT !.n = n, !.rest = r])
      BY <2>13 DEF SetMaxParallelism
    <3> QED BY <2>d, <3>1
  <2>14. CASE \/ UnsetMaxParallelism(p) \/ EnableDLB(p) \/ RemoveRequests(p)
             \/ CheckCpuAvailability(p)
    BY <2>14 DEF UnsetMaxParallelism, EnableDLB, RemoveRequests, CheckCpuAvailability,
       PollingInv, TypeOK
  <2>15. CASE DisableDLB(p)
    <3>1. NewJob(p, p, "reset", Cpu).op = "reset"
      BY NewJobOp
    <3> QED BY <2>15, <3>1 DEF DisableDLB, Lock, PollingInv, TypeOK
  <2>16. CASE UpdateOwnership(p)
    <3>1. \A m : [NewJob(p, p, "update_ownership", Cpu) EXCEPT !.mask = m].op = "update_ownership"
      BY NewJobOp
    <3> QED BY <2>16, <3>1 DEF UpdateOwnership, Lock, PollingInv, TypeOK
  <2> QED BY <1>4, <2>1, <2>2, <2>3, <2>4, <2>5, <2>6, <2>7, <2>8, <2>9,
             <2>10, <2>11, <2>12, <2>13, <2>14, <2>15, <2>16 DEF ClientCall
<1>5. ASSUME NEW p \in Pid, Resolve(p)
      PROVE  PollingInv'
  <2>1. CASE ResolveOwn(p)
    BY <2>1 DEF ResolveOwn, PollingInv, TypeOK
  <2>2. CASE \E q \in PidOrNobody : Notify(p, q)
    BY <2>2 DEF Notify
  <2>3. CASE ReturnAsync(p)
    BY <2>3 DEF ReturnAsync, PollingInv
  <2>4. CASE CheckLocked(p)
    BY <2>4 DEF CheckLocked, PollingInv, TypeOK
  <2> QED BY <1>5, <2>1, <2>2, <2>3, <2>4 DEF Resolve
<1>6. ASSUME NEW p \in Pid, Helper(p)
      PROVE  PollingInv'
  BY <1>6 DEF Helper, PollingInv
<1>7. ASSUME NEW p \in Pid, Lifecycle(p)
      PROVE  PollingInv'
  <2>1. CASE Attach(p) \/ LewiInit(p) \/ Leave(p) \/ Crash(p)
    BY <2>1 DEF Attach, LewiInit, Leave, Crash, PollingInv, TypeOK
  <2>2. CASE Register(p)
    <3>1. NewJob(p, p, "register", StartMask[p]).op = "register"
      BY NewJobOp
    <3> QED BY <2>2, <3>1 DEF Register, Lock, PollingInv, TypeOK
  <2>3. CASE Finish(p)
    <3>1. NewJob(p, p, "deregister", Cpu).op = "deregister"
      BY NewJobOp
    <3> QED BY <2>3, <3>1 DEF Finish, Lock, PollingInv, TypeOK
  <2>4. CASE Finalize(p)
    <3>1. \A r : [NewJob(p, p, "deregister_cpu", Cpu) EXCEPT !.rest = r].op = "deregister_cpu"
      BY NewJobOp
    <3> QED BY <2>4, <3>1 DEF Finalize, Lock, PollingInv, TypeOK
  <2>5. ASSUME NEW q \in Pid, Cleanup(p, q)
        PROVE  PollingInv'
    <3>1. NewJob(p, q, "deregister_cpu", Cpu).op = "deregister_cpu"
      BY NewJobOp
    <3> QED BY <2>5, <3>1 DEF Cleanup, PollingInv, TypeOK
  <2> QED BY <1>7, <2>1, <2>2, <2>3, <2>4, <2>5 DEF Lifecycle
<1>8. CASE UNCHANGED vars
  BY <1>8 DEF vars, PollingInv
<1> QED BY <1>3, <1>4, <1>5, <1>6, <1>7, <1>8 DEF Next

(* A loop step in whose table only the process served may lose a CPU. *)
LEMMA LoopKeeps ==
  ASSUME job # NoJob, NEW c, NEW t, NEW k, Iterate(c, t, k),
         OnlyLoses(shm, t, job.pid)
  PROVE  GuestStep
BY DEF Iterate, OnlyLoses, GuestStep

(* Every step in polling mode takes CPUs only from the process it serves. *)
LEMMA GuestStepHolds ==
  ASSUME TypeOK, PollingInv, Next
  PROVE  GuestStep
<1>0. shm \in ShData
  BY DEF TypeOK
<1>a. OnlyLoses(shm, shm, job.pid)
  BY DEF OnlyLoses
<1>b. ASSUME shm'.guest = shm.guest
      PROVE  GuestStep
  BY <1>b DEF GuestStep
<1>1. CASE JobStep
  <2>1. CASE LendStep
    BY <1>0, <1>a, <2>1, TodoType, LoopKeeps, LendCpuKeeps DEF LendStep
  <2>2. CASE ReclaimStep
    BY <1>0, <1>a, <2>2, TodoType, LoopKeeps, ReclaimCpuKeeps DEF ReclaimStep
  <2>3. CASE ReclaimCpuStep
    BY <1>0, <1>a, <2>3, TodoType, LoopKeeps, ReclaimCpuAndCoreKeeps DEF ReclaimCpuStep
  <2>4. CASE ReclaimCoreStep
    BY <1>0, <1>a, <2>4, TodoType, LoopKeeps, CoreKeeps DEF ReclaimCoreStep
  <2>5. CASE AcquireCpuStep
    BY <1>0, <1>a, <2>5, TodoType, LoopKeeps, AcquireCpuKeeps DEF AcquireCpuStep
  <2>6. CASE AcquireStep
    BY <1>0, <1>a, <2>6, TodoType, LoopKeeps, CoreKeeps DEF AcquireStep
  <2>7. CASE BorrowCpuStep
    BY <1>0, <1>a, <2>7, TodoType, LoopKeeps, BorrowCpuKeeps DEF BorrowCpuStep
  <2>8. CASE BorrowStep
    BY <1>0, <1>a, <2>8, TodoType, LoopKeeps, CoreKeeps DEF BorrowStep
  <2>9. CASE ReturnAllStep
    BY <1>0, <1>a, <2>9, TodoType, LoopKeeps, ReturnCpuKeeps DEF ReturnAllStep
  <2>10. CASE ReturnStep
    BY <1>0, <1>a, <2>10, TodoType, LoopKeeps, ReturnCpuKeeps DEF ReturnStep
  <2>11. CASE MaxGuestedStep
    BY <1>0, <1>a, <2>11, TodoType, LoopKeeps, ShedCpuKeeps DEF MaxGuestedStep
  <2>12. CASE ResetStep
    BY <1>0, <1>a, <2>12, TodoType, LoopKeeps, ShedCpuKeeps DEF ResetStep
  <2>13. CASE UpdateOwnershipStep
    BY <1>0, <1>a, <2>13, TodoType, LoopKeeps, UpdateOwnershipOneKeeps DEF UpdateOwnershipStep
  <2>14. CASE RegisterStep
    BY <1>0, <1>a, <2>14, TodoType, LoopKeeps, RegisterCpuKeeps DEF RegisterStep
  <2>15. CASE DeregisterStep
    BY <1>0, <1>a, <2>15, TodoType, LoopKeeps, DeregisterOneKeeps DEF DeregisterStep
  <2>16. CASE DeregisterCpuStep
    BY <1>0, <1>a, <2>16, TodoType, LoopKeeps, DeregisterCpuKeeps DEF DeregisterCpuStep
  <2>17. CASE PetitionCpuStep
    <3>1. \A pid, c : petition_cpu(shm, pid, c).guest = shm.guest
      BY <1>0 DEF petition_cpu, ShData
    <3> QED BY <1>b, <2>17, <3>1 DEF PetitionCpuStep, Iterate
  <2>18. CASE PetitionN
    <3>1. petition_n(shm, job.pid, job.n, job.todo).guest = shm.guest
      BY <1>0 DEF petition_n, ShData
    <3> QED BY <1>b, <2>18, <3>1 DEF PetitionN
  <2>19. CASE ReturnAsyncStep
    BY <2>19 DEF ReturnAsyncStep, PollingInv, Todo
  <2>20. CASE MaxOwnedStep
    <3>1. PICK c \in Todo("max_owned") : shm' = shm \/ shm' = shed_cpu(shm, job.pid, c)
      BY <2>20 DEF MaxOwnedStep
    <3>2. c \in Cpu /\ job # NoJob /\ job.pid \in Pid
      BY TodoType
    <3>3. OnlyLoses(shm, shm', job.pid)
      BY <1>0, <1>a, <3>1, <3>2, ShedCpuKeeps
    <3> QED BY <3>2, <3>3 DEF OnlyLoses, GuestStep
  <2>21. CASE DeregisterProc
    BY <1>0, <1>b, <2>21, RemoveRequestsGuest DEF DeregisterProc
  <2>22. CASE NextLoop
    BY <1>b, <2>22 DEF NextLoop
  <2>23. CASE Unlock
    BY <1>0, <1>b, <2>23 DEF Unlock, ShData
  <2> QED BY <1>1, <2>1, <2>2, <2>3, <2>4, <2>5, <2>6, <2>7, <2>8, <2>9, <2>10, <2>11, <2>12,
             <2>13, <2>14, <2>15, <2>16, <2>17, <2>18, <2>19, <2>20, <2>21, <2>22, <2>23 DEF JobStep
<1>2. ASSUME NEW p \in Pid, ClientCall(p)
      PROVE  GuestStep
  <2>1. CASE RemoveRequests(p) \/ DisableDLB(p)
    BY <1>0, <1>b, <2>1, RemoveRequestsGuest DEF RemoveRequests, DisableDLB
  <2>2. CASE ~(RemoveRequests(p) \/ DisableDLB(p))
    <3>1. UNCHANGED shm
      BY <1>2, <2>2 DEF ClientCall, Lend, Reclaim, ReclaimCpuMask, ReclaimCpu, ReclaimCpus,
         AcquireCpu, Acquire, AcquireBody, BorrowCpu, Borrow, Return, ReturnCpu,
         ReturnCpuMask, SetMaxParallelism, UnsetMaxParallelism, EnableDLB,
         CheckCpuAvailability, UpdateOwnership, Stay
    <3> QED BY <1>b, <3>1
  <2> QED BY <2>1, <2>2
<1>3. ASSUME NEW p \in Pid, Resolve(p)
      PROVE  GuestStep
  <2>1. CASE CheckLocked(p)
    <3>1. PICK c \in CpusOf(pend[p], "ENABLE", p) :
            \/ /\ shm.guest[c] = NOBODY
               /\ shm' = [shm EXCEPT !.guest[c] = p, !.free_cpus = @ \ {c}]
            \/ UNCHANGED shm
      BY <2>1 DEF CheckLocked
    <3>2. c \in Cpu
      BY DEF CpusOf
    <3>3. CASE UNCHANGED shm
      BY <1>b, <3>3
    <3>4. CASE /\ shm.guest[c] = NOBODY
               /\ shm' = [shm EXCEPT !.guest[c] = p, !.free_cpus = @ \ {c}]
      <4>1. \A d \in Cpu \ {c} : shm'.guest[d] = shm.guest[d]
        BY <1>0, <3>2, <3>4 DEF ShData
      <4> QED BY <3>4, <4>1 DEF GuestStep
    <3> QED BY <3>1, <3>3, <3>4
  <2>2. CASE ResolveOwn(p) \/ (\E q \in PidOrNobody : Notify(p, q)) \/ ReturnAsync(p)
    BY <1>b, <2>2 DEF ResolveOwn, Notify, ReturnAsync
  <2> QED BY <1>3, <2>1, <2>2 DEF Resolve
<1>4. ASSUME NEW p \in Pid, Helper(p)
      PROVE  GuestStep
  BY <1>b, <1>4 DEF Helper
<1>5. ASSUME NEW p \in Pid, Lifecycle(p)
      PROVE  GuestStep
  <2>1. CASE Finish(p)
    BY <1>0, <1>b, <2>1, RemoveRequestsGuest DEF Finish
  <2>2. CASE LewiInit(p)
    BY <1>0, <1>b, <2>2 DEF LewiInit, ShData
  <2>3. CASE ~Finish(p) /\ ~LewiInit(p)
    BY <1>5, <1>b, <2>3 DEF Lifecycle, Attach, Register, Finalize, Leave, Crash, Cleanup, Stay
  <2> QED BY <2>1, <2>2, <2>3
<1> QED BY <1>1, <1>2, <1>3, <1>4, <1>5 DEF Next

(* In polling mode nobody is ever deprived of a CPU behind its back: the   *)
(* guest of a CPU changes only in an operation on behalf of that guest, be *)
(* it its own call or the cleaning up after it.  Owners get a CPU back     *)
(* because its guest returns it, never by taking it.                       *)
THEOREM PollingGuestKept ==
  ASSUME ~Async
  PROVE  Spec => GuestKept
<1>1. Init => TypeOK /\ PollingInv
  BY InitTypeOK DEF Init, PollingInv
<1>2. TypeOK /\ PollingInv /\ [Next]_vars => PollingInv'
  BY PollingStep
<1>3. TypeOK /\ PollingInv /\ [Next]_vars => [GuestStep]_vars
  BY GuestStepHolds
<1> QED BY <1>1, <1>2, <1>3, TypeCorrect, PTL DEF Spec, GuestKept

-----------------------------------------------------------------------------
(* The steps of the model, by what they do to the table *)

(* Who owns and who uses the CPUs stays as it is; requests may change. *)
Still(s, t) ==
  /\ t \in ShData
  /\ t.owner = s.owner /\ t.guest = s.guest /\ t.state = s.state
  /\ t.free_cpus = s.free_cpus /\ t.occupied_cores = s.occupied_cores
  /\ t.tasks = s.tasks /\ t.queues_enabled = s.queues_enabled

(* A CPU goes to pid, to its owner or to nobody. *)
Holders(s, t, pid) ==
  /\ t \in ShData /\ Quiet(s, t)
  /\ \A d \in Cpu :
       /\ t.owner[d] \in {s.owner[d], NOBODY, pid}
       /\ ~s.queues_enabled => t.guest[d] \in {NOBODY, s.guest[d], s.owner[d], pid}

(* Removing requests touches no CPU. *)
LEMMA RemoveRequestsStill ==
  ASSUME NEW s \in ShData, NEW pid, NEW cpus
  PROVE  /\ Still(s, remove_requests(s, pid, cpus))
         /\ Still(s, remove_proc_requests(s, pid))
         /\ ~s.queues_enabled => remove_requests(s, pid, cpus) = s
<1>1. Still(s, remove_proc_requests(s, pid))
  <2>1. remove_proc_requests(s, pid) \in ShData
    BY RemoveProcRequestsType
  <2> QED BY <2>1 DEF Still, remove_proc_requests, ShData
<1>2. ~s.queues_enabled => remove_requests(s, pid, cpus) = s
  BY DEF remove_requests
<1>3. Still(s, remove_requests(s, pid, cpus))
  <2>1. remove_requests(s, pid, cpus) \in ShData
    BY RemoveRequestsType
  <2>2. CASE ~s.queues_enabled
    BY <1>2, <2>2 DEF Still
  <2>3. CASE s.queues_enabled
    <3> DEFINE t == remove_proc_requests(s, pid)
    <3>1. remove_requests(s, pid, cpus) =
            [t EXCEPT !.requests = [c \in Cpu |-> IF c \in cpus THEN queue_remove(@[c], pid)
                                                  ELSE @[c]]]
      BY <2>3 DEF remove_requests
    <3> HIDE DEF t
    <3>2. Still(s, t)
      BY <1>1 DEF t
    <3> QED BY <2>1, <3>1, <3>2 DEF Still, ShData
  <2> QED BY <2>2, <2>3
<1> QED BY <1>1, <1>2, <1>3

(* Neither do petitions. *)
LEMMA PetitionStill ==
  ASSUME NEW s \in ShData, NEW pid \in Pid
  PROVE  /\ \A n \in Nat \ {0}, array \in SUBSET Cpu : Still(s, petition_n(s, pid, n, array))
         /\ \A c \in Cpu : Still(s, petition_cpu(s, pid, c))
<1>1. ASSUME NEW n \in Nat \ {0}, NEW array \in SUBSET Cpu
      PROVE  Still(s, petition_n(s, pid, n, array))
  <2>1. petition_n(s, pid, n, array) \in ShData
    BY PetitionNType
  <2> QED BY <2>1 DEF Still, petition_n, ShData
<1>2. ASSUME NEW c \in Cpu
      PROVE  Still(s, petition_cpu(s, pid, c))
  <2>1. petition_cpu(s, pid, c) \in ShData
    BY PetitionCpuType
  <2> QED BY <2>1 DEF Still, petition_cpu, ShData
<1> QED BY <1>1, <1>2

(* return_async vacates the CPU. *)
LEMMA ReturnAsyncMoves ==
  ASSUME NEW s \in ShData, NEW pid \in PidOrNobody, NEW c \in Cpu
  PROVE  LET t == return_async(s, pid, c) IN
         /\ t \in ShData /\ SameBut(s, t, c) /\ Vacates(s, t, c) /\ Noted(s, t, c)
         /\ t.queues_enabled = s.queues_enabled
<1> DEFINE u == vacate_cpu(s, c)
           t == enqueue_request(u, pid, c)
<1>1. /\ u \in ShData /\ SameBut(s, u, c) /\ Vacates(s, u, c) /\ Noted(s, u, c)
      /\ u.queues_enabled = s.queues_enabled
  BY VacateCpuMoves
<1>2. return_async(s, pid, c) = t
  BY DEF return_async
<1>3. t \in ShData
  BY <1>2, ReturnAsyncType
<1> HIDE DEF u
<1>4. /\ t.owner = u.owner /\ t.guest = u.guest /\ t.state = u.state
      /\ t.free_cpus = u.free_cpus /\ t.occupied_cores = u.occupied_cores
      /\ t.queues_enabled = u.queues_enabled
  BY <1>1 DEF enqueue_request, ShData
<1> HIDE DEF t
<1>5. SameBut(s, t, c) /\ Vacates(s, t, c)
  BY <1>1, <1>4 DEF SameBut, Same, Vacates
<1>6. Noted(s, t, c)
  BY <1>1, <1>4 DEF Noted, NewOccupied, cpu_is_occupied, core_is_occupied
<1> QED BY <1>1, <1>2, <1>3, <1>4, <1>5, <1>6

(* DROM moves CPUs to and from pid. *)
LEMMA UpdateOwnershipHolders ==
  ASSUME NEW s \in ShData, NEW pid \in Pid, NEW mask, NEW c \in Cpu
  PROVE  Holders(s, update_ownership_one(s, pid, mask, c), pid)
<1> DEFINE t == update_ownership_one(s, pid, mask, c)
<1>0. t \in ShData
  BY UpdateOwnershipOneType
<1>1. CASE t = s
  BY <1>1 DEF Holders, Quiet
<1>2. CASE t = own_cpu(s, pid, c)
  <2> DEFINE guest == IF s.guest[c] = NOBODY THEN pid ELSE s.guest[c]
  <2>1. /\ t.owner = [s.owner EXCEPT ![c] = pid] /\ t.guest = [s.guest EXCEPT ![c] = guest]
        /\ t.requests = s.requests /\ t.lewi_mask_requests = s.lewi_mask_requests
        /\ t.queues_enabled = s.queues_enabled
    BY <1>2 DEF own_cpu, ShData
  <2> HIDE DEF t
  <2>2. Holders(s, t, pid)
    BY <1>0, <2>1 DEF Holders, Quiet, ShData
  <2> QED BY <2>2 DEF t
<1>3. CASE t = disown_cpu(s, pid, c)
  <2> DEFINE guest == IF s.guest[c] = pid THEN NOBODY ELSE s.guest[c]
  <2>1. /\ t.owner = [s.owner EXCEPT ![c] = NOBODY] /\ t.guest = [s.guest EXCEPT ![c] = guest]
        /\ t.requests = s.requests /\ t.lewi_mask_requests = s.lewi_mask_requests
        /\ t.queues_enabled = s.queues_enabled
    BY <1>3 DEF disown_cpu, ShData
  <2> HIDE DEF t
  <2>2. Holders(s, t, pid)
    BY <1>0, <2>1 DEF Holders, Quiet, ShData
  <2> QED BY <2>2 DEF t
<1>4. CASE t = return_cpu(s, pid, c).shm
  <2> HIDE DEF t
  <2>1. Plays(s, t, pid)
    BY <1>4, ReturnCpuMoves, ReturnsKeep
  <2>2. Holders(s, t, pid)
    BY <1>0, <2>1 DEF Holders, Plays
  <2> QED BY <2>2 DEF t
<1> QED BY <1>1, <1>2, <1>3, <1>4 DEF update_ownership_one

-----------------------------------------------------------------------------
(* Where the processes are *)

(* The loops that serve a process in the node and may be followed by       *)
(* others, the petitions, and those that take a process out of the table.  *)
Serving == {"reclaim", "reclaim_cpu", "reclaim_core", "acquire_cpu", "acquire",
            "borrow_cpu", "borrow", "return_all", "return", "max_owned",
            "max_guested", "reset"}

Petition == {"petition_n", "petition_cpu"}

Leaving == {"deregister_cpu", "deregister_proc"}

(* The loops that may still follow. *)
RestOK(op, rest) ==
  /\ op \in {"lend", "register", "deregister", "return_async", "update_ownership"} => rest = <<>>
  /\ \A i \in 1 .. Len(rest) :
       IF op \in Leaving THEN rest[i].op = "deregister_proc"
       ELSE rest[i].op \in {"acquire", "borrow", "max_guested"}
            \/ (Async /\ rest[i].op \in Petition)

(* Who runs which loop. *)
JobRuns ==
  LET own == job.pid = job.by
      to == ret[job.by] IN
  /\ pc[job.by] = "locked"
  /\ job.op \in Leaving =>
       (own /\ to = "joining") \/ (to = "out" /\ pc[job.pid] \in {"out", "attached"})
  /\ job.op = "register" => own /\ to = "registered"
  /\ job.op = "deregister" => own /\ to = "closing"
  /\ job.op \in Serving \cup Petition \cup {"lend", "update_ownership"} =>
       own /\ to \in {"ready", "disabled"}
  /\ job.op = "update_ownership" => "drom" \in Calls
  /\ job.op \in Petition \cup {"return_async"} => Async
  /\ RestOK(job.op, job.rest)

(* The lock, and what each process is waiting for. *)
Control ==
  /\ job # NoJob => JobRuns
  /\ \A p \in Pid : pc[p] = "locked" => job # NoJob /\ job.by = p
  /\ \A p \in Pid : ret[p] \in {"out", "registered", "ready", "disabled", "closing", "joining"}
  /\ \A p \in Pid : pc[p] = "check" => "check" \in Calls
  /\ \A p \in Pid : pc[p] = "dead" => "crash" \in Calls
  /\ \A p \in Pid : pc[p] = "return_async" => Async
  /\ shm.queues_enabled => Async

(* What a loop over CPUs does with one of them. *)
Moves(op, s, t, pid, c) ==
  /\ op \in Serving => Keeps(s, t, pid)
  /\ op = "lend" => LendMoves(s, t, pid, c)
  /\ op = "register" => Registers(s, t, pid, c)
  /\ op = "deregister" => /\ Leaves(s, t, pid, c)
                          /\ Tracked(s) /\ AgreeAt(s, c) => Tracked(t)
  /\ op = "deregister_cpu" => Deregisters(s, t, pid, c)
  /\ op = "update_ownership" => Holders(s, t, pid)
  /\ op = "petition_cpu" => Still(s, t)
  /\ op = "return_async" => /\ t \in ShData /\ SameBut(s, t, c) /\ Vacates(s, t, c)
                            /\ Noted(s, t, c) /\ t.queues_enabled = s.queues_enabled

(* A step of such a loop. *)
Body(c) ==
  /\ job # NoJob /\ job' # NoJob /\ c \in job.todo
  /\ job.op \notin {"petition_n", "deregister_proc"}
  /\ job'.pid = job.pid /\ job'.by = job.by /\ job'.op = job.op
  /\ job'.todo = job.todo \ {c}
  /\ job'.rest = job.rest \/ (job.op = "max_owned" /\ RestOK(job.op, job'.rest))
  /\ UNCHANGED <<pc, ret, pend, returning, locals>>
  /\ Moves(job.op, shm, shm', job.pid, c)

(* A step that removes or adds requests of a process. *)
Asks ==
  /\ job # NoJob /\ job' # NoJob
  /\ job.op \in {"petition_n", "deregister_proc"}
  /\ job'.pid = job.pid /\ job'.by = job.by /\ job'.op = job.op
  /\ job'.todo = {} /\ job'.rest = job.rest
  /\ UNCHANGED <<pc, ret, pend, returning, locals>>
  /\ Still(shm, shm')
  /\ job.op = "deregister_proc" /\ ~shm.queues_enabled => shm' = shm

(* An operation is not the absence of one. *)
LEMMA JobExists ==
  /\ \A j \in Job : j # NoJob /\ j.pid \in PidOrNobody /\ j.by \in Pid /\ j.op \in Op
                    /\ j.todo \in SUBSET Cpu /\ j.rest \in Seq(Phase)
  /\ NoJob.op \notin Op
BY DEF Job, NoJob, Op

(* One step of a loop. *)
LEMMA IterateBody ==
  ASSUME TypeOK, NEW op \in Op \ {"max_owned", "petition_n", "deregister_proc"},
         NEW c \in Todo(op), NEW t, NEW k, Iterate(c, t, k),
         Moves(op, shm, t, job.pid, c)
  PROVE  Body(c)
<1>1. job # NoJob /\ job \in Job /\ job.op = op /\ c \in job.todo
  BY TodoType DEF Todo
<1>2. job' = [job EXCEPT !.todo = @ \ {c}, !.n = @ - k, !.prev = core_mask[c]]
  BY DEF Iterate
<1>3. /\ job'.pid = job.pid /\ job'.by = job.by /\ job'.op = job.op
      /\ job'.todo = job.todo \ {c} /\ job'.rest = job.rest
  BY <1>1, <1>2 DEF Job
<1>4. job' # NoJob
  BY <1>1, <1>3, JobExists
<1> QED BY <1>1, <1>3, <1>4 DEF Body, Iterate

(* The lock holder handles a CPU, asks, goes on to the next loop, or       *)
(* releases the lock.                                                      *)
LEMMA JobShape ==
  ASSUME TypeOK, Control, JobStep
  PROVE  (\E c \in Cpu : Body(c)) \/ Asks \/ NextLoop \/ Unlock
<1>0. shm \in ShData /\ (shm.queues_enabled => ~hw_has_smt)
  BY LewiMaskAssumption DEF TypeOK, Control
<1>a. \A c \in Cpu, pid \in Pid : Keeps(shm, shm, pid)
  BY <1>0, NothingKeeps
<1>k. ASSUME NEW op \in Serving \ {"max_owned"}, NEW c \in Todo(op), NEW t, NEW k,
             Iterate(c, t, k), job.pid \in Pid => Keeps(shm, t, job.pid)
      PROVE  \E x \in Cpu : Body(x)
  <2>1. c \in Cpu /\ job.pid \in Pid
    BY TodoType DEF Serving
  <2>2. Moves(op, shm, t, job.pid, c)
    BY <1>k, <2>1 DEF Moves, Serving
  <2>3. op \in Op \ {"max_owned", "petition_n", "deregister_proc"}
    BY DEF Serving, Op
  <2>4. Body(c)
    BY <1>k, <2>2, <2>3, IterateBody
  <2> QED BY <2>1, <2>4
<1>1. CASE LendStep
  <2>1. PICK c \in Todo("lend") : Iterate(c, lend_cpu(shm, job.pid, c), 0)
    BY <1>1 DEF LendStep
  <2>2. c \in Cpu /\ job.pid \in Pid
    BY TodoType
  <2>3. Moves("lend", shm, lend_cpu(shm, job.pid, c), job.pid, c)
    BY <1>0, <2>2, LendCpuMoves DEF Moves, Serving
  <2>4. Body(c)
    BY <2>1, <2>3, IterateBody DEF Op
  <2> QED BY <2>2, <2>4
<1>2. CASE ReclaimStep
  <2>1. PICK c \in Todo("reclaim") : Iterate(c, reclaim_cpu(shm, job.pid, c).shm, 0)
    BY <1>2 DEF ReclaimStep
  <2>2. c \in Cpu
    BY TodoType
  <2>3. job.pid \in Pid => Keeps(shm, reclaim_cpu(shm, job.pid, c).shm, job.pid)
    BY <1>0, <2>2, ReclaimCpuGains, GainsKeeps
  <2> QED BY <1>k, <2>1, <2>3 DEF Serving
<1>3. CASE ReclaimCpuStep
  <2>1. PICK c \in Todo("reclaim_cpu") : Iterate(c, reclaim_cpu_and_core(shm, job.pid, c).shm, 0)
    BY <1>3 DEF ReclaimCpuStep
  <2>2. c \in Cpu
    BY TodoType
  <2>3. job.pid \in Pid => Keeps(shm, reclaim_cpu_and_core(shm, job.pid, c).shm, job.pid)
    BY <1>0, <2>2, ReclaimCpuAndCoreGains, GainsKeeps
  <2> QED BY <1>k, <2>1, <2>3 DEF Serving
<1>4. CASE ReclaimCoreStep
  <2>1. PICK c \in Todo("reclaim_core") :
          Iterate(c, reclaim_core(shm, job.pid, c).shm, reclaim_core(shm, job.pid, c).num)
    BY <1>4 DEF ReclaimCoreStep
  <2>2. c \in Cpu
    BY TodoType
  <2>3. job.pid \in Pid => Keeps(shm, reclaim_core(shm, job.pid, c).shm, job.pid)
    BY <1>0, <2>2, CoreKeepsAll
  <2> QED BY <1>k, <2>1, <2>3 DEF Serving
<1>5. CASE AcquireCpuStep
  <2>1. PICK c \in Todo("acquire_cpu") : Iterate(c, acquire_cpu(shm, job.pid, c).shm, 0)
    BY <1>5 DEF AcquireCpuStep
  <2>2. c \in Cpu
    BY TodoType
  <2>3. job.pid \in Pid => Keeps(shm, acquire_cpu(shm, job.pid, c).shm, job.pid)
    BY <1>0, <2>2, AcquireCpuGains, GainsKeeps
  <2> QED BY <1>k, <2>1, <2>3 DEF Serving
<1>6. CASE AcquireStep
  <2>1. PICK c \in Todo("acquire") :
          \/ Iterate(c, shm, 0)
          \/ Iterate(c, acquire_core(shm, job.pid, c).shm, acquire_core(shm, job.pid, c).num)
    BY <1>6 DEF AcquireStep
  <2>2. c \in Cpu
    BY TodoType
  <2>3. job.pid \in Pid => Keeps(shm, acquire_core(shm, job.pid, c).shm, job.pid)
    BY <1>0, <2>2, CoreKeepsAll
  <2> QED BY <1>a, <1>k, <2>1, <2>2, <2>3 DEF Serving
<1>7. CASE BorrowCpuStep
  <2>1. PICK c \in Todo("borrow_cpu") : Iterate(c, borrow_cpu(shm, job.pid, c).shm, 0)
    BY <1>7 DEF BorrowCpuStep
  <2>2. c \in Cpu
    BY TodoType
  <2>3. job.pid \in Pid => Keeps(shm, borrow_cpu(shm, job.pid, c).shm, job.pid)
    BY <1>0, <2>2, BorrowCpuGains, GainsKeeps
  <2> QED BY <1>k, <2>1, <2>3 DEF Serving
<1>8. CASE BorrowStep
  <2>1. PICK c \in Todo("borrow") :
          \/ Iterate(c, shm, 0)
          \/ Iterate(c, borrow_core(shm, job.pid, c).shm, borrow_core(shm, job.pid, c).num)
    BY <1>8 DEF BorrowStep
  <2>2. c \in Cpu
    BY TodoType
  <2>3. job.pid \in Pid => Keeps(shm, borrow_core(shm, job.pid, c).shm, job.pid)
    BY <1>0, <2>2, CoreKeepsAll
  <2> QED BY <1>a, <1>k, <2>1, <2>2, <2>3 DEF Serving
<1>9. CASE ReturnAllStep
  <2>1. PICK c \in Todo("return_all") :
          Iterate(c, IF c \in shm.occupied_cores THEN return_cpu(shm, job.pid, c).shm
                     ELSE shm, 0)
    BY <1>9 DEF ReturnAllStep
  <2>2. c \in Cpu
    BY TodoType
  <2>3. job.pid \in Pid => Keeps(shm, return_cpu(shm, job.pid, c).shm, job.pid)
    BY <1>0, <2>2, ReturnCpuMoves, ReturnsKeeps
  <2> QED BY <1>a, <1>k, <2>1, <2>2, <2>3 DEF Serving
<1>10. CASE ReturnStep
  <2>1. PICK c \in Todo("return") : Iterate(c, return_cpu(shm, job.pid, c).shm, 0)
    BY <1>10 DEF ReturnStep
  <2>2. c \in Cpu
    BY TodoType
  <2>3. job.pid \in Pid => Keeps(shm, return_cpu(shm, job.pid, c).shm, job.pid)
    BY <1>0, <2>2, ReturnCpuMoves, ReturnsKeeps
  <2> QED BY <1>k, <2>1, <2>3 DEF Serving
<1>11. CASE MaxGuestedStep
  <2>1. PICK c \in Todo("max_guested") :
          Iterate(c, IF job.n <= 0 THEN shed_cpu(shm, job.pid, c) ELSE shm, 1)
    BY <1>11 DEF MaxGuestedStep
  <2>2. c \in Cpu
    BY TodoType
  <2>3. job.pid \in Pid => Keeps(shm, shed_cpu(shm, job.pid, c), job.pid)
    BY <1>0, <2>2, ShedKeeps
  <2> QED BY <1>a, <1>k, <2>1, <2>2, <2>3 DEF Serving
<1>12. CASE ResetStep
  <2>1. PICK c \in Todo("reset") : Iterate(c, reset_one(shm, job.pid, c), 0)
    BY <1>12 DEF ResetStep
  <2>2. c \in Cpu
    BY TodoType
  <2>3. job.pid \in Pid => Keeps(shm, reset_one(shm, job.pid, c), job.pid)
    BY <1>0, <2>2, ResetKeeps
  <2> QED BY <1>k, <2>1, <2>3 DEF Serving
<1>13. CASE UpdateOwnershipStep
  <2>1. PICK c \in Todo("update_ownership") :
          Iterate(c, update_ownership_one(shm, job.pid, job.mask, c), 0)
    BY <1>13 DEF UpdateOwnershipStep
  <2>2. c \in Cpu /\ job.pid \in Pid
    BY TodoType
  <2>3. Moves("update_ownership", shm, update_ownership_one(shm, job.pid, job.mask, c), job.pid, c)
    BY <1>0, <2>2, UpdateOwnershipHolders DEF Moves, Serving
  <2>4. Body(c)
    BY <2>1, <2>3, IterateBody DEF Op
  <2> QED BY <2>2, <2>4
<1>14. CASE RegisterStep
  <2>1. PICK c \in Todo("register") : Iterate(c, register_cpu(shm, job.pid, NOBODY, c), 0)
    BY <1>14 DEF RegisterStep
  <2>2. c \in Cpu /\ job.pid \in Pid
    BY TodoType
  <2>3. Moves("register", shm, register_cpu(shm, job.pid, NOBODY, c), job.pid, c)
    BY <1>0, <2>2, RegisterCpuMoves DEF Moves, Serving
  <2>4. Body(c)
    BY <2>1, <2>3, IterateBody DEF Op
  <2> QED BY <2>2, <2>4
<1>15. CASE DeregisterStep
  <2>1. PICK c \in Todo("deregister") : Iterate(c, deregister_one(shm, job.pid, c), 0)
    BY <1>15 DEF DeregisterStep
  <2>2. c \in Cpu /\ job.pid \in Pid
    BY TodoType
  <2>3. Moves("deregister", shm, deregister_one(shm, job.pid, c), job.pid, c)
    BY <1>0, <2>2, DeregisterOneLeaves DEF Moves, Serving
  <2>4. Body(c)
    BY <2>1, <2>3, IterateBody DEF Op
  <2> QED BY <2>2, <2>4
<1>16. CASE DeregisterCpuStep
  <2>1. PICK c \in Todo("deregister_cpu") : Iterate(c, deregister_cpu(shm, job.pid, c), 0)
    BY <1>16 DEF DeregisterCpuStep
  <2>2. c \in Cpu /\ job.pid \in Pid
    BY TodoType
  <2>3. Moves("deregister_cpu", shm, deregister_cpu(shm, job.pid, c), job.pid, c)
    BY <1>0, <2>2, DeregisterCpuMoves DEF Moves, Serving
  <2>4. Body(c)
    BY <2>1, <2>3, IterateBody DEF Op
  <2> QED BY <2>2, <2>4
<1>17. CASE PetitionCpuStep
  <2>1. PICK c \in Todo("petition_cpu") : Iterate(c, petition_cpu(shm, job.pid, c), 0)
    BY <1>17 DEF PetitionCpuStep
  <2>2. c \in Cpu /\ job.pid \in Pid
    BY TodoType
  <2>3. Moves("petition_cpu", shm, petition_cpu(shm, job.pid, c), job.pid, c)
    BY <1>0, <2>2, PetitionStill DEF Moves, Serving
  <2>4. Body(c)
    BY <2>1, <2>3, IterateBody DEF Op
  <2> QED BY <2>2, <2>4
<1>18. CASE ReturnAsyncStep
  <2>1. PICK c \in Todo("return_async") : Iterate(c, return_async(shm, job.pid, c), 0)
    BY <1>18 DEF ReturnAsyncStep
  <2>2. c \in Cpu /\ job.pid \in PidOrNobody
    BY TodoType, JobExists
  <2>3. Moves("return_async", shm, return_async(shm, job.pid, c), job.pid, c)
    BY <1>0, <2>2, ReturnAsyncMoves DEF Moves, Serving
  <2>4. Body(c)
    BY <2>1, <2>3, IterateBody DEF Op
  <2> QED BY <2>2, <2>4
<1>19. CASE MaxOwnedStep
  <2>0. PICK c \in Todo("max_owned") :
          /\ shm' = IF shm.owner[c] = job.pid /\ job.n <= 0
                    THEN shed_cpu(shm, job.pid, c) ELSE shm
          /\ job' = [job EXCEPT
                 !.todo = @ \ {c},
                 !.n = IF shm.owner[c] = job.pid THEN @ - 1 ELSE @,
                 !.rest = <<[op |-> "max_guested",
                             todo |-> IF shm.owner[c] # job.pid /\ shm.guest[c] = job.pid
                                      THEN job.rest[1].todo \cup {c}
                                      ELSE job.rest[1].todo]>>]
          /\ UNCHANGED <<pc, ret, pend, returning, locals>>
    BY <1>19 DEF MaxOwnedStep
  <2> DEFINE n == IF shm.owner[c] = job.pid THEN job.n - 1 ELSE job.n
             todo == IF shm.owner[c] # job.pid /\ shm.guest[c] = job.pid
                     THEN job.rest[1].todo \cup {c} ELSE job.rest[1].todo
  <2>1. /\ shm' = shm \/ shm' = shed_cpu(shm, job.pid, c)
        /\ job' = [job EXCEPT !.todo = @ \ {c}, !.n = n,
                     !.rest = <<[op |-> "max_guested", todo |-> todo]>>]
        /\ UNCHANGED <<pc, ret, pend, returning, locals>>
    BY <2>0
  <2> HIDE DEF n, todo
  <2>2. c \in Cpu /\ job.pid \in Pid /\ job \in Job /\ job # NoJob /\ job.op = "max_owned"
        /\ c \in job.todo
    BY TodoType DEF Todo
  <2> DEFINE rest == <<[op |-> "max_guested", todo |-> todo]>>
  <2>3. RestOK("max_owned", rest)
    BY DEF RestOK, Leaving
  <2> HIDE DEF rest
  <2>4. /\ job'.pid = job.pid /\ job'.by = job.by /\ job'.op = job.op
        /\ job'.todo = job.todo \ {c} /\ job'.rest = rest
    BY <2>1, <2>2 DEF Job, rest
  <2>5. job' # NoJob
    BY <2>2, <2>4, JobExists
  <2>6. Keeps(shm, shm', job.pid)
    BY <1>0, <1>a, <2>1, <2>2, ShedKeeps
  <2>7. Moves("max_owned", shm, shm', job.pid, c)
    BY <2>6 DEF Moves
  <2>8. Body(c)
    BY <2>1, <2>2, <2>3, <2>4, <2>5, <2>7 DEF Body
  <2> QED BY <2>2, <2>8
<1>20. CASE PetitionN
  <2>1. /\ job # NoJob /\ job.op = "petition_n" /\ ~LoopDone
        /\ shm' = petition_n(shm, job.pid, job.n, job.todo)
        /\ job' = [job EXCEPT !.todo = {}]
    BY <1>20 DEF PetitionN
  <2>2. job \in Job /\ job.pid \in Pid
    BY <2>1 DEF TypeOK, JobOK
  <2>3. job.n \in Nat \ {0} /\ job.todo \in SUBSET Cpu
    BY <2>1, <2>2 DEF LoopDone, Counted, Job
  <2>4. Still(shm, shm')
    BY <1>0, <2>1, <2>2, <2>3, PetitionStill
  <2>5. /\ job'.pid = job.pid /\ job'.by = job.by /\ job'.op = job.op
        /\ job'.todo = {} /\ job'.rest = job.rest
    BY <2>1, <2>2 DEF Job
  <2>6. job' # NoJob
    BY <2>2, <2>5, JobExists
  <2> QED BY <1>20, <2>1, <2>4, <2>5, <2>6 DEF Asks, PetitionN
<1>21. CASE DeregisterProc
  <2>1. /\ job # NoJob /\ job.op = "deregister_proc"
        /\ shm' = IF shm.queues_enabled THEN remove_proc_requests(shm, job.pid) ELSE shm
        /\ job' = [job EXCEPT !.todo = {}]
    BY <1>21 DEF DeregisterProc
  <2>2. job \in Job
    BY <2>1 DEF TypeOK
  <2>4. Still(shm, shm')
    BY <1>0, <2>1, RemoveRequestsStill DEF Still
  <2>5. /\ job'.pid = job.pid /\ job'.by = job.by /\ job'.op = job.op
        /\ job'.todo = {} /\ job'.rest = job.rest
    BY <2>1, <2>2 DEF Job
  <2>6. job' # NoJob
    BY <2>2, <2>5, JobExists
  <2> QED BY <1>21, <2>1, <2>4, <2>5, <2>6 DEF Asks, DeregisterProc
<1> QED BY <1>1, <1>2, <1>3, <1>4, <1>5, <1>6, <1>7, <1>8, <1>9, <1>10, <1>11, <1>12,
           <1>13, <1>14, <1>15, <1>16, <1>17, <1>18, <1>19, <1>20, <1>21 DEF JobStep

(* A call of p that takes the lock. *)
Opens(p) ==
  /\ job = NoJob /\ pc[p] \in {"ready", "disabled"}
  /\ job' \in Job /\ job'.by = p /\ job'.pid = p
  /\ job'.op \in Serving \cup {"lend", "update_ownership"}
  /\ job'.op = "update_ownership" => "drom" \in Calls
  /\ RestOK(job'.op, job'.rest)
  /\ pc' = [pc EXCEPT ![p] = "locked"]
  /\ \E r \in {"ready", "disabled"} : ret' = [ret EXCEPT ![p] = r]
  /\ Still(shm, shm') /\ (~shm.queues_enabled => shm' = shm)
  /\ UNCHANGED <<pend, returning, msgs>>
  /\ IF job'.op = "lend" THEN Runtime(p, {}, job'.todo) ELSE active' = active

(* A new operation of a process for itself. *)
LEMMA NewJobFields ==
  ASSUME NEW p \in Pid, NEW q \in Pid, NEW op \in Op, NEW todo \in SUBSET Cpu
  PROVE  LET j == NewJob(p, q, op, todo) IN
         /\ j \in Job /\ j.pid = q /\ j.by = p /\ j.op = op /\ j.todo = todo /\ j.rest = <<>>
BY DEF NewJob, Job, PidOrNobody

(* The count, the mask or the further loops of an operation. *)
LEMMA WithFields ==
  ASSUME NEW j \in Job
  PROVE  /\ \A n \in Int : LET k == [j EXCEPT !.n = n] IN
              k \in Job /\ k.pid = j.pid /\ k.by = j.by /\ k.op = j.op /\ k.rest = j.rest
         /\ \A m \in SUBSET Cpu : LET k == [j EXCEPT !.mask = m] IN
              k \in Job /\ k.pid = j.pid /\ k.by = j.by /\ k.op = j.op /\ k.rest = j.rest
         /\ \A r \in Seq(Phase) : LET k == [j EXCEPT !.rest = r] IN
              /\ k \in Job /\ k.pid = j.pid /\ k.by = j.by /\ k.op = j.op /\ k.rest = r
              /\ k.todo = j.todo
BY DEF Job

(* A call that serves p opens an operation. *)
LEMMA CallOpens ==
  ASSUME TypeOK, NEW p \in Pid, NEW name, NEW j \in Job, Call(p, name, j),
         j.pid = p, j.by = p, j.op \in Serving, RestOK(j.op, j.rest),
         UNCHANGED <<shm, pend, returning, active, msgs>>
  PROVE  Opens(p)
<1>1. /\ job = NoJob /\ pc[p] = "ready" /\ job' = j
      /\ pc' = [pc EXCEPT ![p] = "locked"] /\ ret' = [ret EXCEPT ![p] = "ready"]
  BY DEF Call, Lock
<1>2. Still(shm, shm')
  BY DEF TypeOK, Still
<1> QED BY <1>1, <1>2 DEF Opens, Serving

(* A process calls with the lock, or does one of four things without. *)
LEMMA CallShape ==
  ASSUME TypeOK, Control, NEW p \in Pid, ClientCall(p)
  PROVE  Opens(p) \/ UnsetMaxParallelism(p) \/ EnableDLB(p) \/ RemoveRequests(p)
         \/ CheckCpuAvailability(p)
<1>0. shm \in ShData /\ (shm.queues_enabled => Async)
  BY DEF TypeOK, Control
<1>a. /\ \A mask \in ArgMasks : mask \in SUBSET Cpu
      /\ \A mask \in DromMasks : mask \in SUBSET Cpu
      /\ \A n \in ArgNcpus : n \in Int /\ n \in Nat
  BY LewiMaskAssumption
<1>r. \A op \in Serving : op \in Op /\ RestOK(op, <<>>)
  BY DEF Serving, Op, RestOK
<1>s. ASSUME NEW name, NEW op \in Serving, NEW todo \in SUBSET Cpu,
             Call(p, name, NewJob(p, p, op, todo)), Stay
      PROVE  Opens(p)
  BY <1>r, <1>s, NewJobFields, CallOpens DEF Stay, locals
<1>1. CASE Lend(p)
  <2>1. PICK mask \in ArgMasks :
          /\ Call(p, "lend", NewJob(p, p, "lend", mask))
          /\ Runtime(p, {}, mask)
          /\ UNCHANGED <<shm, pend, returning, msgs, process_mask, max_parallelism>>
    BY <1>1 DEF Lend
  <2> DEFINE j == NewJob(p, p, "lend", mask)
  <2>2. j \in Job /\ j.pid = p /\ j.by = p /\ j.op = "lend" /\ j.todo = mask /\ j.rest = <<>>
    BY <1>a, NewJobFields DEF Op
  <2> HIDE DEF j
  <2>3. /\ job = NoJob /\ pc[p] = "ready" /\ job' = j
        /\ pc' = [pc EXCEPT ![p] = "locked"] /\ ret' = [ret EXCEPT ![p] = "ready"]
    BY <2>1 DEF Call, Lock, j
  <2>4. Still(shm, shm') /\ RestOK("lend", <<>>)
    BY <1>0, <2>1 DEF Still, RestOK
  <2> QED BY <2>1, <2>2, <2>3, <2>4 DEF Opens
<1>2. ASSUME NEW name, NEW mask \in SUBSET Cpu, Call(p, name, ReclaimJob(p, mask)), Stay
      PROVE  Opens(p)
  <2> DEFINE j == NewJob(p, p, "reclaim", Reclaimable(mask))
  <2>1. Reclaimable(mask) \in SUBSET Cpu
    BY <1>0, <1>2 DEF Reclaimable, ShData
  <2>2. j \in Job /\ j.pid = p /\ j.by = p /\ j.op = "reclaim" /\ j.rest = <<>>
    BY <1>r, <2>1, NewJobFields DEF Serving
  <2> HIDE DEF j
  <2> DEFINE k == [j EXCEPT !.mask = mask]
  <2>3. k \in Job /\ k.pid = p /\ k.by = p /\ k.op = "reclaim" /\ k.rest = <<>>
    BY <1>2, <2>2, WithFields
  <2>4. Call(p, name, k)
    BY <1>2 DEF ReclaimJob, j
  <2> HIDE DEF k
  <2> QED BY <1>2, <1>r, <2>3, <2>4, CallOpens DEF Stay, locals, Serving
<1>3. CASE Reclaim(p)
  BY <1>2, <1>3 DEF Reclaim, TypeOK
<1>4. CASE ReclaimCpuMask(p)
  BY <1>2, <1>4, <1>a DEF ReclaimCpuMask
<1>5. CASE ReclaimCpu(p)
  BY <1>5, <1>s DEF ReclaimCpu, Serving
<1>6. CASE ReclaimCpus(p)
  <2> DEFINE j == NewJob(p, p, "reclaim_core", CoreLeaders)
  <2>1. PICK n \in ArgNcpus : Call(p, "reclaim_cpus", [j EXCEPT !.n = n]) /\ Stay
    BY <1>6 DEF ReclaimCpus
  <2>2. CoreLeaders \in SUBSET Cpu
    BY DEF CoreLeaders
  <2>3. j \in Job /\ j.pid = p /\ j.by = p /\ j.op = "reclaim_core" /\ j.rest = <<>>
    BY <1>r, <2>2, NewJobFields DEF Serving
  <2> HIDE DEF j
  <2> DEFINE k == [j EXCEPT !.n = n]
  <2>4. k \in Job /\ k.pid = p /\ k.by = p /\ k.op = "reclaim_core" /\ k.rest = <<>>
    BY <1>a, <2>3, WithFields
  <2> HIDE DEF k
  <2> QED BY <1>r, <2>1, <2>4, CallOpens DEF Stay, locals, Serving, k
<1>7. CASE AcquireCpu(p)
  BY <1>7, <1>s DEF AcquireCpu, Serving
<1>8. CASE BorrowCpu(p)
  BY <1>8, <1>s DEF BorrowCpu, Serving
<1>9. CASE Acquire(p)
  <2>1. PICK n \in ArgNcpus \cup {0}, array \in ArgMasks : AcquireBody(p, n, array)
    BY <1>9 DEF Acquire
  <2> DEFINE enabled == {c \in array : shm.state[c] # "DISABLED"}
             idle == {c \in enabled \cap Owned(p) : shm.guest[c] = NOBODY}
             busy == {c \in enabled \cap Owned(p) : shm.guest[c] \notin {NOBODY, p}}
             others == {c \in enabled \ Owned(p) : shm.guest[c] = NOBODY}
             petition == IF ~shm.queues_enabled THEN <<>>
                         ELSE IF n > 0 THEN <<[op |-> "petition_n", todo |-> array]>>
                         ELSE <<[op |-> "petition_cpu", todo |-> array]>>
             j == NewJob(p, p, "acquire", idle)
             first == <<[op |-> "acquire", todo |-> busy], [op |-> "borrow", todo |-> others]>>
             rest == first \o petition
             a == Allowance(p, n, array)
  <2>2. Call(p, "acquire", [j EXCEPT !.n = a, !.rest = rest]) /\ Stay
    BY <2>1 DEF AcquireBody
  <2>3. array \in SUBSET Cpu /\ n \in Nat
    BY <1>a
  <2>4. idle \in SUBSET Cpu /\ busy \in SUBSET Cpu /\ others \in SUBSET Cpu
    BY <2>3
  <2> HIDE DEF enabled, idle, busy, others
  <2>5. a \in Int
    BY <2>3, AllowanceType
  <2>6. /\ first \in Seq(Phase)
        /\ \A i \in 1 .. Len(first) : first[i].op \in {"acquire", "borrow", "max_guested"}
    BY <2>4 DEF Phase
  <2>7. /\ petition \in Seq(Phase)
        /\ \A i \in 1 .. Len(petition) : Async /\ petition[i].op \in Petition
    <3>1. CASE ~shm.queues_enabled
      BY <3>1
    <3>2. CASE shm.queues_enabled /\ n > 0
      BY <1>0, <2>3, <3>2 DEF Phase, Petition
    <3>3. CASE shm.queues_enabled /\ ~(n > 0)
      BY <1>0, <2>3, <3>3 DEF Phase, Petition
    <3> QED BY <3>1, <3>2, <3>3
  <2> HIDE DEF first, petition
  <2>8. rest \in Seq(Phase) /\ RestOK("acquire", rest)
    <3>1. rest \in Seq(Phase) /\ Len(rest) = Len(first) + Len(petition)
      BY <2>6, <2>7
    <3>2. \A i \in 1 .. Len(rest) : rest[i].op \in {"acquire", "borrow", "max_guested"}
                                    \/ (Async /\ rest[i].op \in Petition)
      <4> TAKE i \in 1 .. Len(rest)
      <4>1. CASE i <= Len(first)
        <5>1. i \in 1 .. Len(first) /\ rest[i] = first[i]
          BY <2>6, <2>7, <3>1, <4>1
        <5> QED BY <2>6, <5>1
      <4>2. CASE ~(i <= Len(first))
        <5>1. i - Len(first) \in 1 .. Len(petition) /\ rest[i] = petition[i - Len(first)]
          BY <2>6, <2>7, <3>1, <4>2
        <5> QED BY <2>7, <5>1
      <4> QED BY <4>1, <4>2
    <3> QED BY <3>1, <3>2 DEF RestOK, Leaving
  <2>9. j \in Job /\ j.pid = p /\ j.by = p /\ j.op = "acquire"
    BY <1>r, <2>4, NewJobFields DEF Serving
  <2> HIDE DEF j, rest, a
  <2> DEFINE k == [j EXCEPT !.n = a, !.rest = rest]
  <2>10. k \in Job /\ k.pid = p /\ k.by = p /\ k.op = "acquire" /\ k.rest = rest
    BY <2>5, <2>8, <2>9 DEF Job
  <2> HIDE DEF k
  <2> QED BY <2>2, <2>8, <2>10, CallOpens DEF Stay, locals, Serving, k
<1>10. CASE Borrow(p)
  <2>1. PICK n \in ArgNcpus \cup {0}, array \in ArgMasks :
          /\ Call(p, "borrow", [NewJob(p, p, "borrow", array) EXCEPT
               !.n = IF shm.free_cpus = {} THEN 0 ELSE Allowance(p, n, array)])
          /\ Stay
    BY <1>10 DEF Borrow
  <2> DEFINE j == NewJob(p, p, "borrow", array)
             a == IF shm.free_cpus = {} THEN 0 ELSE Allowance(p, n, array)
  <2>2. a \in Int
    BY <1>a, AllowanceType
  <2>3. j \in Job /\ j.pid = p /\ j.by = p /\ j.op = "borrow" /\ j.rest = <<>>
    BY <1>a, <1>r, NewJobFields DEF Serving
  <2>4. Call(p, "borrow", [j EXCEPT !.n = a]) /\ Stay
    BY <2>1
  <2> HIDE DEF j, a
  <2> DEFINE k == [j EXCEPT !.n = a]
  <2>5. k \in Job /\ k.pid = p /\ k.by = p /\ k.op = "borrow" /\ k.rest = <<>>
    BY <2>2, <2>3, WithFields
  <2> HIDE DEF k
  <2> QED BY <1>r, <2>4, <2>5, CallOpens DEF Stay, locals, Serving, k
<1>11. CASE Return(p)
  BY <1>11, <1>s DEF Return, Serving
<1>12. CASE ReturnCpu(p)
  BY <1>12, <1>s DEF ReturnCpu, Serving
<1>13. CASE ReturnCpuMask(p)
  <2>1. PICK mask \in ArgMasks :
          Call(p, "return_mask", NewJob(p, p, "return", mask \cap shm.occupied_cores))
    BY <1>13 DEF ReturnCpuMask
  <2>2. mask \cap shm.occupied_cores \in SUBSET Cpu
    BY <1>a
  <2> QED BY <1>13, <1>s, <2>1, <2>2 DEF ReturnCpuMask, Serving
<1>14. CASE SetMaxParallelism(p)
  <2> DEFINE j == NewJob(p, p, "max_owned", Cpu)
             rest == <<[op |-> "max_guested", todo |-> {}]>>
  <2>1. PICK max \in ArgNcpus :
          /\ Call(p, "max_parallelism", [j EXCEPT !.n = max, !.rest = rest])
          /\ UNCHANGED <<shm, pend, returning, active, msgs, process_mask>>
    BY <1>14 DEF SetMaxParallelism
  <2>2. j \in Job /\ j.pid = p /\ j.by = p /\ j.op = "max_owned"
    BY <1>r, NewJobFields DEF Serving
  <2>3. rest \in Seq(Phase) /\ RestOK("max_owned", rest)
    BY DEF Phase, RestOK, Leaving
  <2> HIDE DEF j, rest
  <2> DEFINE k == [j EXCEPT !.n = max, !.rest = rest]
  <2>4. k \in Job /\ k.pid = p /\ k.by = p /\ k.op = "max_owned" /\ k.rest = rest
    <3>1. max \in Int
      BY <1>a
    <3> QED BY <2>2, <2>3, <3>1 DEF Job
  <2> HIDE DEF k
  <2> QED BY <2>1, <2>3, <2>4, CallOpens DEF Serving, k
<1>15. CASE DisableDLB(p)
  <2> DEFINE j == NewJob(p, p, "reset", Cpu)
  <2>1. /\ job = NoJob /\ job' = j /\ pc[p] = "ready" /\ pc' = [pc EXCEPT ![p] = "locked"]
        /\ ret' = [ret EXCEPT ![p] = "disabled"]
        /\ shm' = remove_requests(shm, p, NotOwned(p))
        /\ UNCHANGED <<pend, returning, active, msgs>>
    BY <1>15 DEF DisableDLB, Lock, locals
  <2>2. j \in Job /\ j.pid = p /\ j.by = p /\ j.op = "reset" /\ j.rest = <<>>
    BY <1>r, NewJobFields DEF Serving
  <2>3. Still(shm, shm') /\ (~shm.queues_enabled => shm' = shm)
    BY <1>0, <2>1, RemoveRequestsStill
  <2> HIDE DEF j
  <2> QED BY <1>r, <2>1, <2>2, <2>3 DEF Opens, Serving
<1>16. CASE UpdateOwnership(p)
  <2> DEFINE j == NewJob(p, p, "update_ownership", Cpu)
  <2>1. PICK mask \in DromMasks :
          /\ "drom" \in Calls /\ pc[p] \in {"ready", "disabled"}
          /\ Lock(p, [j EXCEPT !.mask = mask])
          /\ ret' = [ret EXCEPT ![p] = pc[p]]
          /\ Stay
    BY <1>16 DEF UpdateOwnership
  <2>2. j \in Job /\ j.pid = p /\ j.by = p /\ j.op = "update_ownership" /\ j.rest = <<>>
    BY NewJobFields DEF Op
  <2> HIDE DEF j
  <2> DEFINE k == [j EXCEPT !.mask = mask]
  <2>3. k \in Job /\ k.pid = p /\ k.by = p /\ k.op = "update_ownership" /\ k.rest = <<>>
    BY <1>a, <2>2, WithFields
  <2>4. job = NoJob /\ job' = k /\ pc' = [pc EXCEPT ![p] = "locked"]
    BY <2>1 DEF Lock
  <2> HIDE DEF k
  <2>5. Still(shm, shm') /\ RestOK("update_ownership", <<>>)
    BY <1>0, <2>1 DEF Still, RestOK, Stay
  <2> QED BY <2>1, <2>3, <2>4, <2>5 DEF Opens, Stay, locals
<1> QED BY <1>1, <1>3, <1>4, <1>5, <1>6, <1>7, <1>8, <1>9, <1>10, <1>11, <1>12,
           <1>13, <1>14, <1>15, <1>16 DEF ClientCall

(* Every loop handles its CPU in one of the ways above. *)
LEMMA MovesTable ==
  ASSUME NEW op \in Op \ {"petition_n", "deregister_proc"}, NEW s, NEW t, NEW pid, NEW c,
         Moves(op, s, t, pid, c)
  PROVE  t \in ShData /\ t.queues_enabled = s.queues_enabled
<1>1. op \in Serving \cup {"lend", "register", "deregister", "deregister_cpu",
                           "update_ownership", "petition_cpu", "return_async"}
  BY DEF Op, Serving
<1> QED BY <1>1 DEF Moves, Keeps, Plays, LendMoves, Registers, Leaves, Deregisters, Holders,
                    Still, Quiet

(* The operation with which a process comes, goes or cleans up. *)
Begins(p, j) ==
  /\ job = NoJob /\ job' = j /\ j \in Job /\ j.by = p
  /\ RestOK(j.op, j.rest)

(* Register, Finish, Finalize, Cleanup and ReturnAsync take the lock. *)
LEMMA LifeShape ==
  ASSUME TypeOK, NEW p \in Pid
  PROVE  /\ Register(p) /\ pc'[p] = "locked" =>
              Begins(p, NewJob(p, p, "register", StartMask[p]))
         /\ Finish(p) => Begins(p, NewJob(p, p, "deregister", Cpu))
         /\ \A q \in Pid : Cleanup(p, q) => Begins(p, NewJob(p, q, "deregister_cpu", Cpu))
         /\ Finalize(p) => /\ Begins(p, job') /\ job'.pid = p /\ job'.op = "deregister_cpu"
                           /\ job'.todo = Cpu
         /\ ReturnAsync(p) => Begins(p, job') /\ job'.op = "return_async"
<1>0. RestOK("register", <<>>) /\ RestOK("deregister", <<>>) /\ RestOK("deregister_cpu", <<>>)
      /\ RestOK("return_async", <<>>)
  BY DEF RestOK
<1>1. ASSUME Register(p), pc'[p] = "locked"
      PROVE  Begins(p, NewJob(p, p, "register", StartMask[p]))
  <2> DEFINE j == NewJob(p, p, "register", StartMask[p])
  <2>1. job = NoJob /\ job' = j
    BY <1>1 DEF Register, Lock, TypeOK
  <2>2. j \in Job /\ j.by = p /\ j.op = "register" /\ j.rest = <<>>
    BY NewJobFields, LewiMaskAssumption DEF Op
  <2> HIDE DEF j
  <2>3. Begins(p, j)
    BY <1>0, <2>1, <2>2 DEF Begins
  <2> QED BY <2>3 DEF j
<1>2. ASSUME Finish(p)
      PROVE  Begins(p, NewJob(p, p, "deregister", Cpu))
  <2> DEFINE j == NewJob(p, p, "deregister", Cpu)
  <2>1. job = NoJob /\ job' = j
    BY <1>2 DEF Finish, Lock
  <2>2. j \in Job /\ j.by = p /\ j.op = "deregister" /\ j.rest = <<>>
    BY NewJobFields DEF Op
  <2> HIDE DEF j
  <2>3. Begins(p, j)
    BY <1>0, <2>1, <2>2 DEF Begins
  <2> QED BY <2>3 DEF j
<1>3. ASSUME NEW q \in Pid, Cleanup(p, q)
      PROVE  Begins(p, NewJob(p, q, "deregister_cpu", Cpu))
  <2> DEFINE j == NewJob(p, q, "deregister_cpu", Cpu)
  <2>1. job = NoJob /\ job' = j
    BY <1>3 DEF Cleanup
  <2>2. j \in Job /\ j.by = p /\ j.op = "deregister_cpu" /\ j.rest = <<>>
    BY NewJobFields DEF Op
  <2> HIDE DEF j
  <2>3. Begins(p, j)
    BY <1>0, <2>1, <2>2 DEF Begins
  <2> QED BY <2>3 DEF j
<1>4. ASSUME Finalize(p)
      PROVE  /\ Begins(p, job') /\ job'.pid = p /\ job'.op = "deregister_cpu"
             /\ job'.todo = Cpu
  <2> DEFINE j == NewJob(p, p, "deregister_cpu", Cpu)
             rest == <<[op |-> "deregister_proc", todo |-> Cpu]>>
             k == [j EXCEPT !.rest = rest]
  <2>1. job = NoJob /\ job' = k
    BY <1>4 DEF Finalize, Lock
  <2>2. j \in Job /\ j.pid = p /\ j.by = p /\ j.op = "deregister_cpu" /\ j.todo = Cpu
    BY NewJobFields DEF Op
  <2>3. rest \in Seq(Phase) /\ RestOK("deregister_cpu", rest)
    BY DEF Phase, RestOK, Leaving
  <2> HIDE DEF j, rest
  <2>4. /\ k \in Job /\ k.pid = p /\ k.by = p /\ k.op = "deregister_cpu" /\ k.rest = rest
        /\ k.todo = Cpu
    BY <2>2, <2>3, WithFields
  <2> HIDE DEF k
  <2> QED BY <2>1, <2>3, <2>4 DEF Begins
<1>5. ASSUME ReturnAsync(p)
      PROVE  Begins(p, job') /\ job'.op = "return_async"
  <2>1. PICK q \in {t.pid : t \in returning[p]} :
          Lock(p, NewJob(p, q, "return_async", CpusOf(returning[p], "DISABLE", q)))
    BY <1>5 DEF ReturnAsync
  <2>2. q \in PidOrNobody /\ CpusOf(returning[p], "DISABLE", q) \in SUBSET Cpu
    BY DEF TypeOK, Task, CpusOf
  <2> DEFINE j == NewJob(p, q, "return_async", CpusOf(returning[p], "DISABLE", q))
  <2>3. j \in Job /\ j.by = p /\ j.op = "return_async" /\ j.rest = <<>>
    BY <2>2 DEF NewJob, Job, Op
  <2> HIDE DEF j
  <2>4. job = NoJob /\ job' = j
    BY <2>1 DEF Lock, j
  <2> QED BY <1>0, <2>3, <2>4 DEF Begins
<1> QED BY <1>1, <1>2, <1>3, <1>4, <1>5

(* What follows a loop. *)
LEMMA RestTail ==
  ASSUME NEW op \in Op, NEW rest \in Seq(Phase), rest # <<>>, RestOK(op, rest)
  PROVE  /\ RestOK(Head(rest).op, Tail(rest))
         /\ op \in Leaving => Head(rest).op = "deregister_proc"
         /\ op \notin Leaving =>
              /\ op \in Serving \cup Petition
              /\ Head(rest).op \in {"acquire", "borrow", "max_guested"}
                 \/ (Async /\ Head(rest).op \in Petition)
<1>1. 1 \in 1 .. Len(rest) /\ Head(rest) = rest[1]
  OBVIOUS
<1>2. /\ op \in Leaving => Head(rest).op = "deregister_proc"
      /\ op \notin Leaving =>
           Head(rest).op \in {"acquire", "borrow", "max_guested"}
           \/ (Async /\ Head(rest).op \in Petition)
  BY <1>1 DEF RestOK
<1>3. op \notin Leaving => op \in Serving \cup Petition
  BY DEF RestOK, Op, Leaving, Serving, Petition
<1>4. \A i \in 1 .. Len(Tail(rest)) : i + 1 \in 1 .. Len(rest) /\ Tail(rest)[i] = rest[i + 1]
  OBVIOUS
<1>5. \A i \in 1 .. Len(Tail(rest)) :
        IF op \in Leaving THEN Tail(rest)[i].op = "deregister_proc"
        ELSE Tail(rest)[i].op \in {"acquire", "borrow", "max_guested"}
             \/ (Async /\ Tail(rest)[i].op \in Petition)
  BY <1>4 DEF RestOK
<1>6. RestOK(Head(rest).op, Tail(rest))
  BY <1>2, <1>5 DEF RestOK, Leaving, Petition
<1> QED BY <1>2, <1>3, <1>6

(* The next loop, by what it is. *)
LEMMA NextLoopShape ==
  ASSUME TypeOK, Control, NextLoop
  PROVE  /\ job # NoJob /\ job \in Job /\ job' \in Job /\ LoopDone
         /\ job'.pid = job.pid /\ job'.by = job.by
         /\ RestOK(job'.op, job'.rest)
         /\ job.op \in Leaving => job'.op = "deregister_proc"
         /\ job.op \notin Leaving =>
              /\ job.op \in Serving \cup Petition
              /\ job'.op \in {"acquire", "borrow", "max_guested"}
                 \/ (Async /\ job'.op \in Petition)
         /\ UNCHANGED <<shm, pc, ret, pend, returning, locals>>
<1>1. /\ job # NoJob /\ job \in Job /\ job.rest # <<>> /\ LoopDone
      /\ UNCHANGED <<shm, pc, ret, pend, returning, locals>>
  BY DEF NextLoop, TypeOK
<1>2. job.op \in Op /\ job.rest \in Seq(Phase) /\ RestOK(job.op, job.rest)
  BY <1>1, JobExists DEF Control, JobRuns
<1>3. job' = [job EXCEPT !.op = Head(job.rest).op, !.todo = Head(job.rest).todo,
                         !.prev = {}, !.rest = Tail(job.rest)]
  BY DEF NextLoop
<1>4. /\ job'.op = Head(job.rest).op /\ job'.rest = Tail(job.rest)
      /\ job'.pid = job.pid /\ job'.by = job.by
  BY <1>1, <1>3 DEF Job
<1>5. job' \in Job
  <2>1. Head(job.rest) \in Phase /\ Tail(job.rest) \in Seq(Phase)
    BY <1>1, <1>2
  <2>2. Head(job.rest).op \in Op /\ Head(job.rest).todo \in SUBSET Cpu
    BY <2>1 DEF Phase, Op
  <2> QED BY <1>1, <1>3, <2>1, <2>2 DEF Job
<1> QED BY <1>1, <1>2, <1>4, <1>5, RestTail

(* A process is where its operation says. *)
LEMMA ControlStep ==
  ASSUME TypeOK, Control, [Next]_vars
  PROVE  Control'
<1>0. shm \in ShData /\ pc \in [Pid -> PC] /\ ret \in [Pid -> PC]
  BY DEF TypeOK
<1>1. CASE JobStep
  <2>0. job # NoJob => /\ job \in Job /\ job.by \in Pid /\ job.op \in Op
    BY JobExists DEF TypeOK
  <2>1. ASSUME NEW c \in Cpu, Body(c) PROVE Control'
    <3>1. shm'.queues_enabled = shm.queues_enabled
      BY <2>0, <2>1, MovesTable DEF Body
    <3>2. RestOK(job'.op, job'.rest)
      BY <2>1 DEF Body, Control, JobRuns
    <3> QED BY <2>1, <3>1, <3>2 DEF Body, Control, JobRuns
  <2>2. CASE Asks
    BY <2>2 DEF Asks, Still, Control, JobRuns
  <2>3. CASE NextLoop
    <3>1. job # NoJob /\ job' # NoJob /\ JobRuns
      BY <2>3, NextLoopShape, JobExists DEF Control
    <3>2. JobRuns'
      BY <2>3, <3>1, NextLoopShape DEF JobRuns, Leaving, Serving, Petition
    <3> QED BY <2>3, <3>1, <3>2, NextLoopShape DEF Control
  <2>4. CASE Unlock
    <3> DEFINE left == pend[job.by] \cup
                       (IF job.op = "lend" /\ ~Async THEN {} ELSE shm.tasks)
    <3>1. /\ job # NoJob /\ job' = NoJob /\ shm' = [shm EXCEPT !.tasks = {}]
          /\ pc' = [pc EXCEPT ![job.by] = IF left = {} THEN ret[job.by] ELSE "resolve"]
          /\ ret' = ret
      BY <2>4 DEF Unlock
    <3> HIDE DEF left
    <3>2. shm'.queues_enabled = shm.queues_enabled
      BY <1>0, <3>1 DEF ShData
    <3> QED BY <1>0, <2>0, <3>1, <3>2 DEF Control
  <2> QED BY <1>1, <2>1, <2>2, <2>3, <2>4, JobShape
<1>2. ASSUME NEW p \in Pid, ClientCall(p) PROVE Control'
  <2>1. CASE Opens(p)
    <3>1. job' # NoJob /\ job = NoJob
      BY <2>1, JobExists DEF Opens
    <3>2. JobRuns'
      BY <1>0, <2>1 DEF Opens, JobRuns, Serving, Petition, Leaving
    <3> QED BY <1>0, <2>1, <3>1, <3>2 DEF Opens, Control, Still
  <2>2. CASE UnsetMaxParallelism(p)
    BY <2>2 DEF UnsetMaxParallelism, Control, JobRuns
  <2>3. CASE EnableDLB(p)
    BY <1>0, <2>3 DEF EnableDLB, Control, JobRuns
  <2>4. CASE RemoveRequests(p)
    BY <1>0, <2>4, RemoveRequestsStill DEF RemoveRequests, Control, JobRuns, Still
  <2>5. CASE CheckCpuAvailability(p)
    BY <1>0, <2>5 DEF CheckCpuAvailability, Control, JobRuns
  <2> QED BY <1>2, <2>1, <2>2, <2>3, <2>4, <2>5, CallShape
<1>3. ASSUME NEW p \in Pid, Resolve(p) PROVE Control'
  <2>1. CASE ResolveOwn(p)
    BY <1>0, <2>1 DEF ResolveOwn, Control, JobRuns
  <2>2. CASE \E q \in PidOrNobody : Notify(p, q)
    BY <1>0, <2>2 DEF Notify, Control, JobRuns
  <2>3. CASE ReturnAsync(p)
    <3>1. job = NoJob /\ job' \in Job /\ job' # NoJob /\ job'.by = p
          /\ RestOK(job'.op, job'.rest) /\ job'.op = "return_async"
      BY <2>3, LifeShape, JobExists DEF Begins
    <3>2. /\ pc[p] = "return_async" /\ pc' = [pc EXCEPT ![p] = "locked"]
          /\ shm' = shm /\ ret' = ret
      BY <2>3 DEF ReturnAsync, Lock
    <3>3. JobRuns'
      BY <1>0, <3>1, <3>2 DEF JobRuns, Serving, Petition, Leaving, Control
    <3> QED BY <1>0, <3>1, <3>2, <3>3 DEF Control
  <2>4. CASE CheckLocked(p)
    <3>1. shm'.queues_enabled = shm.queues_enabled
      BY <1>0, <2>4 DEF CheckLocked, ShData
    <3> QED BY <1>0, <2>4, <3>1 DEF CheckLocked, Control, JobRuns
  <2> QED BY <1>3, <2>1, <2>2, <2>3, <2>4 DEF Resolve
<1>4. ASSUME NEW p \in Pid, Helper(p) PROVE Control'
  BY <1>4 DEF Helper, Control, JobRuns
<1>5. ASSUME NEW p \in Pid, Lifecycle(p) PROVE Control'
  <2>1. CASE Attach(p)
    BY <1>0, <2>1 DEF Attach, Control, JobRuns
  <2>2. CASE Register(p)
    <3>1. CASE pc'[p] = "locked"
      <4> DEFINE j == NewJob(p, p, "register", StartMask[p])
      <4>1. job = NoJob /\ job' = j /\ j \in Job /\ RestOK(j.op, j.rest)
        BY <2>2, <3>1, LifeShape DEF Begins
      <4>2. j.by = p /\ j.pid = p /\ j.op = "register"
        BY DEF NewJob
      <4> HIDE DEF j
      <4>3. pc' = [pc EXCEPT ![p] = "locked"] /\ ret' = [ret EXCEPT ![p] = "registered"]
            /\ shm' = shm
        BY <1>0, <2>2, <3>1 DEF Register, Lock, Stay
      <4>4. JobRuns'
        BY <1>0, <4>1, <4>2, <4>3 DEF JobRuns, Serving, Petition, Leaving
      <4> QED BY <1>0, <4>1, <4>2, <4>3, <4>4, JobExists DEF Control
    <3>2. CASE pc'[p] # "locked"
      <4>1. /\ job = NoJob /\ job' = job /\ pc' = [pc EXCEPT ![p] = "closing"]
            /\ ret' = [ret EXCEPT ![p] = "registered"] /\ shm' = shm
        BY <1>0, <2>2, <3>2 DEF Register, Lock, Stay
      <4> QED BY <1>0, <4>1 DEF Control
    <3> QED BY <3>1, <3>2
  <2>3. CASE LewiInit(p)
    <3>1. shm'.queues_enabled = (shm.queues_enabled \/ Async)
      BY <1>0, <2>3 DEF LewiInit, ShData
    <3>2. shm'.queues_enabled => Async
      BY <3>1 DEF Control
    <3>3. pc[p] = "registered" /\ pc' = [pc EXCEPT ![p] = "ready"] /\ UNCHANGED <<job, ret>>
      BY <2>3 DEF LewiInit
    <3> QED BY <1>0, <3>2, <3>3 DEF Control, JobRuns
  <2>4. CASE Finish(p)
    <3> DEFINE j == NewJob(p, p, "deregister", Cpu)
    <3>1. job = NoJob /\ job' = j /\ j \in Job /\ RestOK(j.op, j.rest)
      BY <2>4, LifeShape DEF Begins
    <3>2. j.by = p /\ j.pid = p /\ j.op = "deregister"
      BY DEF NewJob
    <3> HIDE DEF j
    <3>3. pc' = [pc EXCEPT ![p] = "locked"] /\ ret' = [ret EXCEPT ![p] = "closing"]
          /\ shm'.queues_enabled = shm.queues_enabled
      BY <1>0, <2>4, RemoveRequestsStill DEF Finish, Lock, Still
    <3>4. JobRuns'
      BY <1>0, <3>1, <3>2, <3>3 DEF JobRuns, Serving, Petition, Leaving
    <3> QED BY <1>0, <3>1, <3>2, <3>3, <3>4, JobExists DEF Control
  <2>5. CASE Finalize(p)
    <3>1. /\ job = NoJob /\ job' \in Job /\ job'.by = p /\ job'.pid = p
          /\ job'.op = "deregister_cpu" /\ RestOK(job'.op, job'.rest)
      BY <2>5, LifeShape DEF Begins
    <3>2. pc' = [pc EXCEPT ![p] = "locked"] /\ ret' = [ret EXCEPT ![p] = "joining"]
          /\ shm' = shm
      BY <2>5 DEF Finalize, Lock, Stay
    <3>3. JobRuns'
      BY <1>0, <3>1, <3>2 DEF JobRuns, Serving, Petition, Leaving
    <3> QED BY <1>0, <3>1, <3>2, <3>3, JobExists DEF Control
  <2>6. CASE Leave(p)
    BY <1>0, <2>6 DEF Leave, Control, JobRuns
  <2>7. CASE Crash(p)
    BY <1>0, <2>7 DEF Crash, Control, JobRuns
  <2>8. ASSUME NEW q \in Pid, Cleanup(p, q) PROVE Control'
    <3> DEFINE j == NewJob(p, q, "deregister_cpu", Cpu)
    <3>1. job = NoJob /\ job' = j /\ j \in Job /\ RestOK(j.op, j.rest)
      BY <2>8, LifeShape DEF Begins
    <3>2. j.by = p /\ j.pid = q /\ j.op = "deregister_cpu"
      BY DEF NewJob
    <3> HIDE DEF j
    <3>3. /\ pc[p] = "out" /\ pc[q] = "dead" /\ pc' = [pc EXCEPT ![p] = "locked", ![q] = "out"]
          /\ ret' = [ret EXCEPT ![p] = "out"] /\ shm' = shm
      BY <2>8 DEF Cleanup
    <3>4. p # q /\ pc'[p] = "locked" /\ pc'[q] = "out"
          /\ \A x \in Pid \ {p, q} : pc'[x] = pc[x]
      BY <1>0, <3>3
    <3>5. JobRuns'
      BY <1>0, <3>1, <3>2, <3>3, <3>4 DEF JobRuns, Serving, Petition, Leaving
    <3>6. \A x \in Pid : pc'[x] = "locked" => x = p
      BY <3>1, <3>4 DEF Control
    <3> QED BY <1>0, <3>1, <3>2, <3>3, <3>4, <3>5, <3>6, JobExists DEF Control
  <2> QED BY <1>5, <2>1, <2>2, <2>3, <2>4, <2>5, <2>6, <2>7, <2>8 DEF Lifecycle
<1>6. CASE UNCHANGED vars
  BY <1>6 DEF vars, Control, JobRuns
<1> QED BY <1>1, <1>2, <1>3, <1>4, <1>5, <1>6 DEF Next

(* Initially nobody is there. *)
LEMMA InitControl == Init => Control
BY DEF Init, Control, init_shmem

-----------------------------------------------------------------------------
(* Who has left holds nothing *)

Inside == {"registered", "ready", "disabled", "check", "dead"}

(* The lock holder takes p out of the table. *)
Cleaning(p) == job # NoJob /\ job.pid = p /\ job.op \in Leaving

(* Process p may own, or use, CPU c: it is in the node, or the loop that   *)
(* takes it off its CPUs has not come to c.                                *)
MayOwn(p, c) ==
  IF Cleaning(p) THEN job.op = "deregister_cpu" /\ c \in job.todo
  ELSE \/ At(p) \in Inside
       \/ /\ At(p) = "closing" /\ job # NoJob /\ job.pid = p
          /\ job.op = "deregister" /\ c \in job.todo

MayUse(p, c) ==
  IF Cleaning(p) THEN job.op = "deregister_cpu" /\ c \in job.todo
  ELSE At(p) \in Inside \cup {"closing"}

HoldersIn ==
  \A c \in Cpu, p \in Pid :
    /\ shm.owner[c] = p => MayOwn(p, c)
    /\ shm.guest[c] = p => MayUse(p, c)

(* Nobody asks for CPUs. *)
Unqueued ==
  shm.lewi_mask_requests = <<>> /\ \A c \in Cpu : shm.requests[c] = <<>>

(* In polling mode a CPU goes to the process served, to its owner or to    *)
(* nobody.                                                                 *)
LEMMA MovesHolders ==
  ASSUME NEW op \in Op \ {"petition_n", "petition_cpu", "deregister_proc", "return_async"},
         NEW s \in ShData, NEW t, NEW pid \in Pid, NEW c \in Cpu, Moves(op, s, t, pid, c)
  PROVE  Holders(s, t, pid)
<1>1. CASE op \in Serving
  BY <1>1 DEF Moves, Keeps, Plays, Holders
<1>2. CASE op = "lend"
  BY <1>2, LendPlays DEF Moves, Plays, Holders
<1>3. CASE op = "register"
  <2>1. Registers(s, t, pid, c)
    BY <1>3 DEF Moves
  <2> QED BY <2>1 DEF Registers, SameBut, Same, Holders
<1>4. CASE op = "deregister"
  BY <1>4 DEF Moves, Leaves, Holders
<1>5. CASE op = "deregister_cpu"
  BY <1>5, DeregistersLeave DEF Moves, Leaves, Holders
<1>6. CASE op = "update_ownership"
  BY <1>6 DEF Moves
<1> QED BY <1>1, <1>2, <1>3, <1>4, <1>5, <1>6 DEF Op, Serving

(* No step adds a request in polling mode. *)
LEMMA UnqueuedStep ==
  ASSUME ~Async, TypeOK, Control, Unqueued, [Next]_vars
  PROVE  Unqueued'
<1>0. shm \in ShData /\ ~shm.queues_enabled
  BY DEF TypeOK, Control
<1>1. CASE JobStep
  <2>1. ASSUME NEW c \in Cpu, Body(c) PROVE Unqueued'
    <3>1. job # NoJob /\ job \in Job /\ job.op \notin {"petition_cpu", "return_async"}
      BY <2>1 DEF Body, TypeOK, Control, JobRuns, Petition
    <3>2. job.op \in Op \ {"petition_n", "petition_cpu", "deregister_proc", "return_async"}
      BY <2>1, <3>1, JobExists DEF Body
    <3>3. job.pid \in Pid
      BY <3>1 DEF TypeOK, JobOK
    <3>4. Quiet(shm, shm')
      BY <1>0, <2>1, <3>2, <3>3, MovesHolders DEF Body, Holders
    <3> QED BY <1>0, <3>4 DEF Quiet, Unqueued
  <2>2. CASE Asks
    BY <1>0, <2>2 DEF Asks, Control, JobRuns, Petition, Unqueued
  <2>3. CASE NextLoop
    BY <2>3 DEF NextLoop, Unqueued
  <2>4. CASE Unlock
    BY <1>0, <2>4 DEF Unlock, Unqueued, ShData
  <2> QED BY <1>1, <2>1, <2>2, <2>3, <2>4, JobShape
<1>2. ASSUME NEW p \in Pid, ClientCall(p) PROVE Unqueued'
  <2>1. CASE Opens(p) \/ RemoveRequests(p)
    <3>1. shm' = shm
      BY <1>0, <2>1, RemoveRequestsStill DEF Opens, RemoveRequests
    <3> QED BY <3>1 DEF Unqueued
  <2>2. CASE UnsetMaxParallelism(p) \/ EnableDLB(p) \/ CheckCpuAvailability(p)
    BY <2>2 DEF UnsetMaxParallelism, EnableDLB, CheckCpuAvailability, Unqueued
  <2> QED BY <1>2, <2>1, <2>2, CallShape
<1>3. ASSUME NEW p \in Pid, Resolve(p) PROVE Unqueued'
  <2>1. CASE CheckLocked(p)
    BY <1>0, <2>1 DEF CheckLocked, Unqueued, ShData
  <2>2. CASE ResolveOwn(p) \/ (\E q \in PidOrNobody : Notify(p, q)) \/ ReturnAsync(p)
    BY <2>2 DEF ResolveOwn, Notify, ReturnAsync, Unqueued
  <2> QED BY <1>3, <2>1, <2>2 DEF Resolve
<1>4. ASSUME NEW p \in Pid, Helper(p) PROVE Unqueued'
  BY <1>4 DEF Helper, Unqueued
<1>5. ASSUME NEW p \in Pid, Lifecycle(p) PROVE Unqueued'
  <2>1. CASE Finish(p)
    <3>1. shm' = shm
      BY <1>0, <2>1, RemoveRequestsStill DEF Finish
    <3> QED BY <3>1 DEF Unqueued
  <2>2. CASE LewiInit(p)
    BY <1>0, <2>2 DEF LewiInit, Unqueued, ShData
  <2>3. CASE ~Finish(p) /\ ~LewiInit(p)
    <3>1. shm' = shm
      BY <1>5, <2>3 DEF Lifecycle, Attach, Register, Finalize, Leave, Crash, Cleanup, Stay
    <3> QED BY <3>1 DEF Unqueued
  <2> QED BY <2>1, <2>2, <2>3
<1>6. CASE UNCHANGED vars
  BY <1>6 DEF vars, Unqueued
<1> QED BY <1>1, <1>2, <1>3, <1>4, <1>5, <1>6 DEF Next

(* Where nobody takes a CPU, it is enough that nobody loses the right to   *)
(* what it holds.                                                          *)
LEMMA HoldersStay ==
  ASSUME HoldersIn, shm'.owner = shm.owner, shm'.guest = shm.guest,
         \A c \in Cpu, p \in Pid :
           /\ shm.owner[c] = p /\ MayOwn(p, c) => MayOwn(p, c)'
           /\ shm.guest[c] = p /\ MayUse(p, c) => MayUse(p, c)'
  PROVE  HoldersIn'
BY DEF HoldersIn

(* A loop takes CPUs only for a process in the node, and the last loops    *)
(* leave none behind.                                                      *)
LEMMA HoldersBody ==
  ASSUME ~Async, TypeOK, Control, HoldersIn, NEW c \in Cpu, Body(c)
  PROVE  HoldersIn'
<1>0. shm \in ShData /\ ~shm.queues_enabled
  BY DEF TypeOK, Control
<1>1. job # NoJob /\ job' # NoJob /\ job \in Job /\ job.op \notin {"petition_cpu", "return_async"}
  BY DEF Body, TypeOK, Control, JobRuns, Petition
<1>2. job.op \in Op \ {"petition_n", "petition_cpu", "deregister_proc", "return_async"}
  BY <1>1, JobExists DEF Body
<1>3. job.pid \in Pid
  BY <1>1 DEF TypeOK, JobOK
<1>4. Holders(shm, shm', job.pid) /\ Moves(job.op, shm, shm', job.pid, c)
  BY <1>0, <1>2, <1>3, MovesHolders DEF Body
<1>5. /\ job'.pid = job.pid /\ job'.op = job.op /\ job'.todo = job.todo \ {c}
      /\ \A p \in Pid : At(p)' = At(p)
  BY DEF Body, At
<1>6. \A p \in Pid : Cleaning(p)' <=> Cleaning(p)
  BY <1>1, <1>5 DEF Cleaning
<1> SUFFICES ASSUME NEW d \in Cpu, NEW p \in Pid
             PROVE  /\ shm'.owner[d] = p => MayOwn(p, d)'
                    /\ shm'.guest[d] = p => MayUse(p, d)'
  BY DEF HoldersIn
<1>7. p # NOBODY
  BY CpuInfoAssumption
<1>8. CASE p # job.pid
  <2>1. (MayOwn(p, d)' <=> MayOwn(p, d)) /\ (MayUse(p, d)' <=> MayUse(p, d))
    BY <1>5, <1>6, <1>8 DEF MayOwn, MayUse, Cleaning
  <2>2. MayOwn(p, d) => MayUse(p, d)
    BY DEF MayOwn, MayUse
  <2>3. shm'.owner[d] = p => shm.owner[d] = p
    BY <1>4, <1>7, <1>8 DEF Holders
  <2>4. shm'.guest[d] = p => p \in {shm.guest[d], shm.owner[d]}
    BY <1>0, <1>4, <1>7, <1>8 DEF Holders
  <2> QED BY <2>1, <2>2, <2>3, <2>4 DEF HoldersIn
<1>9. CASE p = job.pid /\ job.op = "deregister_cpu"
  <2>1. /\ shm'.owner[d] = p => d # c /\ shm.owner[d] = p
        /\ shm'.guest[d] = p => d # c /\ shm.guest[d] = p
    <3>1. Deregisters(shm, shm', p, c)
      BY <1>4, <1>9 DEF Moves
    <3>2. Leaves(shm, shm', p, c)
          /\ shm'.guest[d] = IF d = c /\ shm.guest[d] = p THEN NOBODY ELSE shm.guest[d]
      BY <1>0, <3>1, DeregistersLeave
    <3>3. shm'.owner[d] = IF d = c /\ shm.owner[d] = p THEN NOBODY ELSE shm.owner[d]
      BY <3>2 DEF Leaves
    <3> QED BY <1>7, <3>2, <3>3
  <2>2. Cleaning(p)
    BY <1>1, <1>9 DEF Cleaning, Leaving
  <2> QED BY <1>5, <1>6, <1>9, <2>1, <2>2 DEF HoldersIn, MayOwn, MayUse
<1>10. CASE p = job.pid /\ job.op = "deregister"
  <2>1. shm'.owner[d] = p => d # c /\ shm.owner[d] = p
    BY <1>4, <1>7, <1>10 DEF Moves, Leaves
  <2>2. At(p) = "closing" /\ ~Cleaning(p)
    BY <1>1, <1>10 DEF Control, JobRuns, At, Cleaning, Leaving
  <2> QED BY <1>1, <1>5, <1>6, <1>10, <2>1, <2>2 DEF HoldersIn, MayOwn, MayUse, Inside
<1>11. CASE p = job.pid /\ job.op \notin {"deregister_cpu", "deregister"}
  <2>1. job.op \in Serving \cup {"lend", "update_ownership", "register"}
    BY <1>2, <1>11 DEF Op, Serving
  <2>2. At(p) \in Inside
    BY <1>1, <1>11, <2>1 DEF Control, JobRuns, At, Inside
  <2>3. ~Cleaning(p)
    BY <2>1 DEF Cleaning, Leaving, Serving
  <2> QED BY <1>5, <1>6, <2>2, <2>3 DEF MayOwn, MayUse
<1> QED BY <1>8, <1>9, <1>10, <1>11

(* Only a process in the node, or on its way out of it, holds CPUs. *)
LEMMA HoldersStep ==
  ASSUME ~Async, TypeOK, Control, HoldersIn, [Next]_vars
  PROVE  HoldersIn'
<1>0. /\ shm \in ShData /\ ~shm.queues_enabled
      /\ pc \in [Pid -> PC] /\ ret \in [Pid -> PC]
  BY DEF TypeOK, Control
<1>r. \A p \in Pid : ret[p] \notin {"locked", "resolve", "return_async"}
  BY DEF Control
<1>1. CASE JobStep
  <2>1. CASE Asks
    <3>1. /\ shm' = shm /\ job # NoJob /\ job' # NoJob /\ job.op = "deregister_proc"
          /\ job'.pid = job.pid /\ job'.op = job.op /\ \A p \in Pid : At(p)' = At(p)
      BY <1>0, <2>1 DEF Asks, Control, JobRuns, Petition, At
    <3>2. \A p \in Pid : Cleaning(p)' <=> Cleaning(p)
      BY <3>1 DEF Cleaning
    <3>3. \A p \in Pid, c \in Cpu :
            (MayOwn(p, c) => MayOwn(p, c)') /\ (MayUse(p, c) => MayUse(p, c)')
      BY <3>1, <3>2 DEF MayOwn, MayUse
    <3> QED BY <3>1, <3>3, HoldersStay
  <2>2. CASE NextLoop
    <3>1. /\ shm' = shm /\ job # NoJob /\ job' # NoJob /\ job'.pid = job.pid
          /\ \A p \in Pid : At(p)' = At(p)
      BY <2>2, NextLoopShape, JobExists DEF At
    <3>2. CASE job.op \in Leaving
      <4>1. job'.op = "deregister_proc" /\ job.todo = {}
        BY <2>2, <3>2, NextLoopShape DEF LoopDone, Counted, Leaving
      <4>2. \A p \in Pid : Cleaning(p)' <=> Cleaning(p)
        BY <3>1, <3>2, <4>1 DEF Cleaning, Leaving
      <4>3. \A p \in Pid, c \in Cpu :
              (MayOwn(p, c) => MayOwn(p, c)') /\ (MayUse(p, c) => MayUse(p, c)')
        BY <3>1, <3>2, <4>1, <4>2 DEF MayOwn, MayUse, Leaving
      <4> QED BY <3>1, <4>3, HoldersStay
    <3>3. CASE job.op \notin Leaving
      <4>1. job.op # "deregister" /\ job'.op # "deregister" /\ job'.op \notin Leaving
        BY <2>2, <3>3, NextLoopShape DEF Serving, Petition, Leaving
      <4>2. \A p \in Pid : ~Cleaning(p)' /\ ~Cleaning(p)
        BY <3>3, <4>1 DEF Cleaning
      <4>3. \A p \in Pid, c \in Cpu :
              (MayOwn(p, c) => MayOwn(p, c)') /\ (MayUse(p, c) => MayUse(p, c)')
        BY <3>1, <4>1, <4>2 DEF MayOwn, MayUse
      <4> QED BY <3>1, <4>3, HoldersStay
    <3> QED BY <3>2, <3>3
  <2>3. CASE Unlock
    <3>1. /\ job # NoJob /\ job' = NoJob /\ LoopDone /\ shm' = [shm EXCEPT !.tasks = {}]
          /\ ret' = ret
          /\ pc' = [pc EXCEPT ![job.by] = "resolve"] \/ pc' = [pc EXCEPT ![job.by] = ret[job.by]]
      BY <2>3 DEF Unlock
    <3>2. shm'.owner = shm.owner /\ shm'.guest = shm.guest
      BY <1>0, <3>1 DEF ShData
    <3>3. job.by \in Pid /\ pc[job.by] = "locked"
      BY <3>1, JobExists DEF TypeOK, Control, JobRuns
    <3>4. \A p \in Pid : At(p)' = At(p)
      BY <1>0, <1>r, <3>1, <3>3 DEF At
    <3>5. \A p \in Pid : ~Cleaning(p)'
      BY <3>1 DEF Cleaning
    <3>6. job.op \in Leaving \cup {"deregister"} => job.todo = {}
      BY <3>1 DEF LoopDone, Counted, Leaving
    <3>7. \A p \in Pid, c \in Cpu :
            (MayOwn(p, c) => MayOwn(p, c)') /\ (MayUse(p, c) => MayUse(p, c)')
      BY <3>4, <3>5, <3>6 DEF MayOwn, MayUse, Cleaning
    <3> QED BY <3>2, <3>7, HoldersStay
  <2> QED BY <1>1, <2>1, <2>2, <2>3, JobShape, HoldersBody
<1>n. \A p \in Pid : job = NoJob => ~Cleaning(p)
  BY DEF Cleaning
<1>2. ASSUME NEW p \in Pid, ClientCall(p) PROVE HoldersIn'
  <2>1. CASE Opens(p)
    <3>1. job = NoJob /\ job'.op \notin Leaving \cup {"deregister"} /\ shm' = shm
      BY <1>0, <2>1 DEF Opens, Serving, Leaving
    <3>2. At(p)' \in Inside /\ \A q \in Pid \ {p} : At(q)' = At(q)
      BY <1>0, <2>1 DEF Opens, At, Inside
    <3>3. \A q \in Pid, c \in Cpu :
            (MayOwn(q, c) => MayOwn(q, c)') /\ (MayUse(q, c) => MayUse(q, c)')
      BY <1>n, <3>1, <3>2 DEF MayOwn, MayUse, Cleaning
    <3> QED BY <3>1, <3>3, HoldersStay
  <2>2. CASE RemoveRequests(p) \/ UnsetMaxParallelism(p)
    <3>1. shm' = shm /\ job' = job /\ pc' = pc /\ ret' = ret
      BY <1>0, <2>2, RemoveRequestsStill DEF RemoveRequests, UnsetMaxParallelism
    <3> QED BY <3>1 DEF HoldersIn, MayOwn, MayUse, Cleaning, At
  <2>3. CASE EnableDLB(p) \/ CheckCpuAvailability(p)
    <3>1. /\ shm' = shm /\ job' = job /\ ret' = ret /\ pc[p] \in {"ready", "disabled"}
          /\ pc' = [pc EXCEPT ![p] = "ready"] \/ pc' = [pc EXCEPT ![p] = "check"]
      BY <2>3 DEF EnableDLB, CheckCpuAvailability
    <3>2. At(p)' \in Inside /\ \A q \in Pid \ {p} : At(q)' = At(q)
      BY <1>0, <3>1 DEF At, Inside
    <3>3. \A q \in Pid, c \in Cpu :
            (MayOwn(q, c) => MayOwn(q, c)') /\ (MayUse(q, c) => MayUse(q, c)')
      BY <3>1, <3>2 DEF MayOwn, MayUse, Cleaning
    <3> QED BY <3>1, <3>3, HoldersStay
  <2> QED BY <1>2, <2>1, <2>2, <2>3, CallShape
<1>3. ASSUME NEW p \in Pid, Resolve(p) PROVE HoldersIn'
  <2>1. CASE ResolveOwn(p)
    <3>1. /\ shm' = shm /\ job' = job /\ ret' = ret /\ pc[p] = "resolve"
          /\ pc' = [pc EXCEPT ![p] = "resolve"] \/ pc' = [pc EXCEPT ![p] = ret[p]]
      BY <2>1 DEF ResolveOwn
    <3>2. \A q \in Pid : At(q)' = At(q)
      BY <1>0, <1>r, <3>1 DEF At
    <3> QED BY <3>1, <3>2 DEF HoldersIn, MayOwn, MayUse, Cleaning
  <2>2. CASE CheckLocked(p)
    <3>1. PICK c \in Cpu :
            /\ pc[p] = "check" /\ job = NoJob /\ job' = NoJob /\ ret' = ret
            /\ shm' = [shm EXCEPT !.guest[c] = p, !.free_cpus = @ \ {c}] \/ shm' = shm
            /\ pc' = [pc EXCEPT ![p] = "ready"]
      BY <2>2 DEF CheckLocked, CpusOf
    <3>2. shm'.owner = shm.owner /\ \A d \in Cpu : shm'.guest[d] \in {shm.guest[d], p}
      <4>1. CASE shm' = shm
        BY <4>1
      <4>2. CASE shm' = [shm EXCEPT !.guest[c] = p, !.free_cpus = @ \ {c}]
        <5>1. shm'.owner = shm.owner /\ shm'.guest = [shm.guest EXCEPT ![c] = p]
          BY <1>0, <4>2 DEF ShData
        <5> QED BY <1>0, <5>1 DEF ShData
      <4> QED BY <3>1, <4>1, <4>2
    <3>3. At(p)' \in Inside /\ \A q \in Pid \ {p} : At(q)' = At(q)
      BY <1>0, <3>1 DEF At, Inside
    <3> QED BY <3>1, <3>2, <3>3 DEF HoldersIn, MayOwn, MayUse, Cleaning
  <2>3. ~(\E q \in PidOrNobody : Notify(p, q)) /\ ~ReturnAsync(p)
    BY DEF Notify, ReturnAsync, Control
  <2> QED BY <1>3, <2>1, <2>2, <2>3 DEF Resolve
<1>4. ASSUME NEW p \in Pid, Helper(p) PROVE HoldersIn'
  BY <1>4 DEF Helper, HoldersIn, MayOwn, MayUse, Cleaning, At
<1>5. ASSUME NEW p \in Pid, Lifecycle(p) PROVE HoldersIn'
  <2>1. CASE Attach(p) \/ Leave(p)
    <3>1. /\ shm' = shm /\ job' = job /\ ret' = ret /\ pc[p] \in {"out", "joining"}
          /\ \E x \in {"attached", "out"} : pc' = [pc EXCEPT ![p] = x]
      BY <2>1 DEF Attach, Leave
    <3>2. /\ At(p) \notin Inside \cup {"closing"} /\ At(p)' \notin Inside \cup {"closing"}
          /\ \A q \in Pid \ {p} : At(q)' = At(q)
      BY <1>0, <3>1 DEF At, Inside
    <3>3. \A q \in Pid, c \in Cpu :
            (MayOwn(q, c) => MayOwn(q, c)') /\ (MayUse(q, c) => MayUse(q, c)')
      BY <3>1, <3>2 DEF MayOwn, MayUse, Cleaning
    <3> QED BY <3>1, <3>3, HoldersStay
  <2>2. CASE Register(p)
    <3>1. /\ job = NoJob /\ shm' = shm /\ pc[p] = "attached"
          /\ \E x \in {"locked", "closing"} : pc' = [pc EXCEPT ![p] = x]
          /\ ret' = [ret EXCEPT ![p] = "registered"]
          /\ job' = NoJob \/ job'.op = "register"
      BY <2>2 DEF Register, Lock, Stay, NewJob
    <3>2. /\ At(p) \notin Inside \cup {"closing"}
          /\ \A q \in Pid \ {p} : At(q)' = At(q)
      BY <1>0, <3>1 DEF At, Inside
    <3>3. \A q \in Pid, c \in Cpu :
            (MayOwn(q, c) => MayOwn(q, c)') /\ (MayUse(q, c) => MayUse(q, c)')
      BY <1>n, <3>1, <3>2 DEF MayOwn, MayUse, Cleaning, Leaving
    <3> QED BY <3>1, <3>3, HoldersStay
  <2>3. CASE LewiInit(p)
    <3>1. /\ job' = job /\ ret' = ret /\ pc[p] = "registered"
          /\ pc' = [pc EXCEPT ![p] = "ready"]
      BY <2>3 DEF LewiInit
    <3>2. shm'.owner = shm.owner /\ shm'.guest = shm.guest
      BY <1>0, <2>3 DEF LewiInit, ShData
    <3>3. At(p)' \in Inside /\ \A q \in Pid \ {p} : At(q)' = At(q)
      BY <1>0, <3>1 DEF At, Inside
    <3>4. \A q \in Pid, c \in Cpu :
            (MayOwn(q, c) => MayOwn(q, c)') /\ (MayUse(q, c) => MayUse(q, c)')
      BY <3>1, <3>3 DEF MayOwn, MayUse, Cleaning
    <3> QED BY <3>2, <3>4, HoldersStay
  <2>4. CASE Finish(p)
    <3>1. /\ job = NoJob /\ job'.op = "deregister" /\ job'.pid = p /\ job'.todo = Cpu
          /\ job' # NoJob /\ shm' = shm /\ pc' = [pc EXCEPT ![p] = "locked"]
          /\ ret' = [ret EXCEPT ![p] = "closing"]
      BY <1>0, <2>4, RemoveRequestsStill, LifeShape, JobExists
         DEF Finish, Lock, NewJob, Begins
    <3>2. At(p)' = "closing" /\ \A q \in Pid \ {p} : At(q)' = At(q)
      BY <1>0, <3>1 DEF At
    <3>3. \A q \in Pid, c \in Cpu :
            (MayOwn(q, c) => MayOwn(q, c)') /\ (MayUse(q, c) => MayUse(q, c)')
      BY <1>n, <3>1, <3>2 DEF MayOwn, MayUse, Cleaning, Leaving
    <3> QED BY <3>1, <3>3, HoldersStay
  <2>5. CASE Finalize(p)
    <3>1. /\ job = NoJob /\ job' # NoJob /\ job'.pid = p /\ job'.op = "deregister_cpu"
          /\ job'.todo = Cpu
      BY <2>5, LifeShape, JobExists DEF Begins
    <3>2. pc' = [pc EXCEPT ![p] = "locked"] /\ ret' = [ret EXCEPT ![p] = "joining"]
          /\ shm' = shm
      BY <2>5 DEF Finalize, Lock, Stay
    <3>3. \A q \in Pid \ {p} : At(q)' = At(q)
      BY <1>0, <3>2 DEF At
    <3>4. \A q \in Pid, c \in Cpu :
            (MayOwn(q, c) => MayOwn(q, c)') /\ (MayUse(q, c) => MayUse(q, c)')
      BY <1>n, <3>1, <3>3 DEF MayOwn, MayUse, Cleaning, Leaving
    <3> QED BY <3>2, <3>4, HoldersStay
  <2>6. CASE Crash(p)
    <3>1. shm' = shm /\ job' = job /\ ret' = ret /\ pc' = [pc EXCEPT ![p] = "dead"]
      BY <2>6 DEF Crash
    <3>2. At(p)' \in Inside /\ \A q \in Pid \ {p} : At(q)' = At(q)
      BY <1>0, <3>1 DEF At, Inside
    <3>3. \A q \in Pid, c \in Cpu :
            (MayOwn(q, c) => MayOwn(q, c)') /\ (MayUse(q, c) => MayUse(q, c)')
      BY <3>1, <3>2 DEF MayOwn, MayUse, Cleaning
    <3> QED BY <3>1, <3>3, HoldersStay
  <2>7. ASSUME NEW q \in Pid, Cleanup(p, q) PROVE HoldersIn'
    <3> DEFINE j == NewJob(p, q, "deregister_cpu", Cpu)
    <3>0. /\ j \in Job /\ j.pid = q /\ j.op = "deregister_cpu" /\ j.todo = Cpu
          /\ job = NoJob /\ job' = j
      BY <2>7, NewJobFields DEF Cleanup, Op
    <3> HIDE DEF j
    <3>1. /\ job = NoJob /\ job' # NoJob /\ job'.pid = q /\ job'.op = "deregister_cpu"
          /\ job'.todo = Cpu
      BY <3>0, JobExists
    <3>2. /\ pc[p] = "out" /\ pc[q] = "dead" /\ pc' = [pc EXCEPT ![p] = "locked", ![q] = "out"]
          /\ ret' = [ret EXCEPT ![p] = "out"] /\ shm' = shm
      BY <2>7 DEF Cleanup
    <3>3. At(p) = "out" /\ \A x \in Pid \ {p, q} : At(x)' = At(x)
      BY <1>0, <3>2 DEF At
    <3>4. \A x \in Pid, c \in Cpu :
            (MayOwn(x, c) => MayOwn(x, c)') /\ (MayUse(x, c) => MayUse(x, c)')
      BY <1>n, <3>1, <3>3 DEF MayOwn, MayUse, Cleaning, Leaving, Inside
    <3> QED BY <3>2, <3>4, HoldersStay
  <2> QED BY <1>5, <2>1, <2>2, <2>3, <2>4, <2>5, <2>6, <2>7 DEF Lifecycle
<1>6. CASE UNCHANGED vars
  BY <1>6 DEF vars, HoldersIn, MayOwn, MayUse, Cleaning, At
<1> QED BY <1>1, <1>2, <1>3, <1>4, <1>5, <1>6 DEF Next

(* In polling mode, a process that has left the node is nowhere in the CPU *)
(* table: it owns no CPU, uses none, and waits in no queue.  It may have   *)
(* ended its calls one by one, or have died in the middle of one and been  *)
(* cleaned up by another process.                                          *)
THEOREM NobodyHauntsTheTable ==
  ASSUME ~Async
  PROVE  Spec => []GoneLeavesNothing
<1>1. Init => Unqueued /\ HoldersIn
  <2> SUFFICES ASSUME Init PROVE Unqueued /\ HoldersIn
    OBVIOUS
  <2>1. \A c \in Cpu : shm.owner[c] = NOBODY /\ shm.guest[c] = NOBODY
    BY DEF Init, init_shmem
  <2>2. NOBODY \notin Pid
    BY CpuInfoAssumption
  <2> QED BY <2>1, <2>2 DEF Init, init_shmem, Unqueued, HoldersIn
<1>2. TypeOK /\ Control /\ Unqueued /\ HoldersIn /\ [Next]_vars
        => Control' /\ Unqueued' /\ HoldersIn'
  BY ControlStep, UnqueuedStep, HoldersStep
<1>3. TypeOK /\ Control /\ Unqueued /\ HoldersIn => GoneLeavesNothing
  <2> SUFFICES ASSUME TypeOK, Control, Unqueued, HoldersIn, NEW p \in Pid,
                      pc[p] = "out", job = NoJob \/ job.pid # p
               PROVE  /\ \A c \in Cpu : /\ p \notin {shm.owner[c], shm.guest[c]}
                                        /\ ~Contains(shm.requests[c], p)
                      /\ \A i \in 1 .. Len(shm.lewi_mask_requests) :
                           shm.lewi_mask_requests[i].pid # p
    BY DEF GoneLeavesNothing
  <2>1. ~Cleaning(p) /\ At(p) = "out"
    BY DEF Cleaning, At
  <2>2. \A c \in Cpu : ~MayOwn(p, c) /\ ~MayUse(p, c)
    BY <2>1 DEF MayOwn, MayUse, Inside
  <2>3. \A c \in Cpu : ~Contains(shm.requests[c], p)
    BY DEF Unqueued, Contains
  <2>4. \A i \in 1 .. Len(shm.lewi_mask_requests) : FALSE
    BY DEF Unqueued
  <2> QED BY <2>2, <2>3, <2>4 DEF HoldersIn
<1> QED BY <1>1, <1>2, <1>3, TypeCorrect, InitControl, PTL DEF Spec

-----------------------------------------------------------------------------
(* Registration *)

(* Without the lock the table stays as it is, except that a process which  *)
(* checks the availability of a CPU may become its guest.                  *)
LEMMA TableStill ==
  ASSUME TypeOK, Control, [Next]_vars, ~JobStep
  PROVE  /\ shm'.owner = shm.owner /\ shm'.state = shm.state
         /\ shm'.occupied_cores = shm.occupied_cores /\ shm'.tasks = shm.tasks
         /\ \/ "check" \in Calls /\ \E p \in Pid : CheckLocked(p)
            \/ shm'.guest = shm.guest /\ shm'.free_cpus = shm.free_cpus
<1>0. shm \in ShData /\ \A p \in Pid : pc[p] = "check" => "check" \in Calls
  BY DEF TypeOK, Control
<1>1. CASE Still(shm, shm') \/ shm' = shm
  BY <1>1 DEF Still
<1>2. ASSUME NEW p \in Pid, ClientCall(p) PROVE Still(shm, shm') \/ shm' = shm
  BY <1>0, <1>2, CallShape, RemoveRequestsStill
     DEF Opens, UnsetMaxParallelism, EnableDLB, RemoveRequests, CheckCpuAvailability
<1>3. ASSUME NEW p \in Pid, CheckLocked(p)
      PROVE  /\ shm'.owner = shm.owner /\ shm'.state = shm.state
             /\ shm'.occupied_cores = shm.occupied_cores /\ shm'.tasks = shm.tasks
             /\ "check" \in Calls
  <2>1. PICK c \in Cpu : /\ pc[p] = "check"
                         /\ shm' = [shm EXCEPT !.guest[c] = p, !.free_cpus = @ \ {c}]
                            \/ shm' = shm
    BY <1>3 DEF CheckLocked, CpusOf
  <2>2. /\ shm'.owner = shm.owner /\ shm'.state = shm.state
        /\ shm'.occupied_cores = shm.occupied_cores /\ shm'.tasks = shm.tasks
    <3>1. CASE shm' = shm
      BY <3>1
    <3>2. CASE shm' = [shm EXCEPT !.guest[c] = p, !.free_cpus = @ \ {c}]
      BY <1>0, <3>2 DEF ShData
    <3> QED BY <2>1, <3>1, <3>2
  <2> QED BY <1>0, <2>1, <2>2
<1>4. ASSUME NEW p \in Pid, Resolve(p), ~CheckLocked(p) PROVE shm' = shm
  BY <1>4 DEF Resolve, ResolveOwn, Notify, ReturnAsync
<1>5. ASSUME NEW p \in Pid, Helper(p) PROVE shm' = shm
  BY <1>5 DEF Helper
<1>6. ASSUME NEW p \in Pid, LewiInit(p)
      PROVE  /\ shm'.owner = shm.owner /\ shm'.state = shm.state
             /\ shm'.occupied_cores = shm.occupied_cores /\ shm'.tasks = shm.tasks
             /\ shm'.guest = shm.guest /\ shm'.free_cpus = shm.free_cpus
  BY <1>0, <1>6 DEF LewiInit, ShData
<1>7. ASSUME NEW p \in Pid, Lifecycle(p), ~LewiInit(p) PROVE Still(shm, shm') \/ shm' = shm
  BY <1>0, <1>7, RemoveRequestsStill
     DEF Lifecycle, Attach, Register, Finish, Finalize, Leave, Crash, Cleanup, Stay
<1>8. CASE UNCHANGED vars
  BY <1>8 DEF vars
<1>9. CASE \E p \in Pid : LewiInit(p) \/ CheckLocked(p)
  BY <1>3, <1>6, <1>9
<1>10. CASE ~\E p \in Pid : LewiInit(p) \/ CheckLocked(p)
  <2>1. CASE ~UNCHANGED vars
    <3>1. PICK p \in Pid : ClientCall(p) \/ Resolve(p) \/ Helper(p) \/ Lifecycle(p)
      BY <2>1 DEF Next
    <3>2. Still(shm, shm') \/ shm' = shm
      BY <1>2, <1>4, <1>5, <1>7, <1>10, <3>1
    <3> QED BY <1>1, <3>2
  <2> QED BY <1>8, <2>1
<1> QED BY <1>9, <1>10

(* No loop takes a CPU from its owner, or changes what the owner says of   *)
(* it, except the loops of the owner.                                      *)
LEMMA OwnersAct ==
  ASSUME NEW op \in Op \ {"petition_n", "deregister_proc", "update_ownership"},
         NEW s \in ShData, NEW t, NEW pid \in PidOrNobody, NEW c \in Cpu,
         Moves(op, s, t, pid, c), pid \in Pid \/ op = "return_async",
         op = "register" => s.owner[c] \in {NOBODY, pid}
  PROVE  \A d \in Cpu : \A q \in Pid : s.owner[d] = q /\ (q # pid \/ op = "return_async") =>
           t.owner[d] = q /\ t.state[d] = s.state[d]
<1>1. CASE op \in Serving
  BY <1>1 DEF Moves, Keeps, Plays, Serving
<1>2. CASE op = "lend"
  BY <1>2, LendPlays DEF Moves, Plays
<1>3. CASE op = "register"
  <2>1. Registers(s, t, pid, c) /\ NOBODY \notin Pid
    BY <1>3, CpuInfoAssumption DEF Moves
  <2> QED BY <1>3, <2>1 DEF Registers, SameBut, Same
<1>4. CASE op = "deregister"
  BY <1>4 DEF Moves, Leaves
<1>5. CASE op = "deregister_cpu"
  <2>1. Leaves(s, t, pid, c)
    BY <1>5, DeregistersLeave DEF Moves
  <2> QED BY <1>5, <2>1 DEF Leaves
<1>6. CASE op = "petition_cpu"
  BY <1>6 DEF Moves, Still
<1>7. CASE op = "return_async"
  BY <1>7 DEF Moves, SameBut, Same, Vacates
<1> QED BY <1>1, <1>2, <1>3, <1>4, <1>5, <1>6, <1>7 DEF Op, Serving

(* The lock holder registers process p. *)
Registering(p) == job # NoJob /\ job.pid = p /\ job.op = "register"

(* A process that has registered owns its CPUs and claims them; while it   *)
(* registers, the CPUs still to come are free or its own.                  *)
Registered ==
  /\ \A p \in Pid : At(p) = "registered" => \A c \in StartMask[p] :
       \/ shm.owner[c] = p /\ shm.state[c] = "BUSY"
       \/ shm.owner[c] \in {NOBODY, p} /\ Registering(p) /\ c \in job.todo
  /\ \A p \in Pid : Registering(p) => job.todo \subseteq StartMask[p]

(* Where nothing happens to owners and states, and nobody begins or ends a *)
(* registration.                                                           *)
LEMMA RegisteredStay ==
  ASSUME Registered, shm'.owner = shm.owner, shm'.state = shm.state,
         \A p \in Pid : At(p)' = "registered" => At(p) = "registered",
         \A p \in Pid : ~Registering(p)',
         \A p \in Pid : Registering(p) => job.todo = {}
  PROVE  Registered'
BY DEF Registered

(* A loop of another process does not disturb a registration. *)
LEMMA RegisteredBody ==
  ASSUME "drom" \notin Calls, TypeOK, Control, Registered, NEW c \in Cpu, Body(c)
  PROVE  Registered'
<1>0. shm \in ShData
  BY DEF TypeOK
<1>1. /\ job # NoJob /\ job' # NoJob /\ job \in Job /\ JobRuns
      /\ job.op \in Op \ {"petition_n", "deregister_proc", "update_ownership"}
  BY JobExists DEF Body, TypeOK, Control, JobRuns
<1>2. job.pid \in PidOrNobody /\ (job.pid \in Pid \/ job.op = "return_async")
  BY <1>1, JobExists DEF TypeOK, JobOK
<1>3. /\ job'.pid = job.pid /\ job'.op = job.op /\ job'.todo = job.todo \ {c} /\ c \in job.todo
      /\ \A p \in Pid : At(p)' = At(p)
      /\ Moves(job.op, shm, shm', job.pid, c)
  BY DEF Body, At
<1>4. \A p \in Pid : Registering(p)' <=> Registering(p)
  BY <1>1, <1>3 DEF Registering
<1>5. job.op = "register" => At(job.pid) = "registered" /\ Registering(job.pid)
  BY <1>1 DEF JobRuns, At, Registering
<1>6. job.op = "register" => shm.owner[c] \in {NOBODY, job.pid}
  BY <1>2, <1>3, <1>5 DEF Registered
<1>7. \A d \in Cpu : \A q \in Pid :
        shm.owner[d] = q /\ (q # job.pid \/ job.op = "return_async") =>
          shm'.owner[d] = q /\ shm'.state[d] = shm.state[d]
  BY <1>0, <1>1, <1>2, <1>3, <1>6, OwnersAct
<1>8. \A p \in Pid : Registering(p)' => job'.todo \subseteq StartMask[p]
  BY <1>3, <1>4 DEF Registered
<1>9. ASSUME NEW p \in Pid, At(p) = "registered", NEW d \in StartMask[p]
      PROVE  \/ shm'.owner[d] = p /\ shm'.state[d] = "BUSY"
             \/ shm'.owner[d] \in {NOBODY, p} /\ Registering(p)' /\ d \in job'.todo
  <2>0. d \in Cpu
    BY LewiMaskAssumption
  <2>1. CASE Registering(p)
    <3>1. Registers(shm, shm', p, c) /\ p = job.pid
      BY <1>3, <2>1 DEF Moves, Registering
    <3>2. shm'.owner[c] = p /\ shm'.state[c] = "BUSY"
      BY <3>1 DEF Registers
    <3>3. d # c => shm'.owner[d] = shm.owner[d] /\ shm'.state[d] = shm.state[d]
      BY <2>0, <3>1 DEF Registers, SameBut, Same
    <3> QED BY <1>3, <1>4, <1>9, <2>1, <3>2, <3>3 DEF Registered
  <2>2. CASE ~Registering(p)
    <3>1. shm.owner[d] = p /\ shm.state[d] = "BUSY"
      BY <1>9, <2>2 DEF Registered
    <3>2. p # job.pid \/ job.op = "return_async"
      <4> SUFFICES ASSUME p = job.pid, job.op # "return_async" PROVE FALSE
        OBVIOUS
      <4>1. job.op \in Serving \cup Petition \cup {"lend", "deregister", "register"} \cup Leaving
        BY <1>1 DEF Op, Serving, Petition, Leaving
      <4>2. job.op # "register"
        BY <1>1, <2>2 DEF Registering
      <4>3. At(p) # "registered"
        BY <1>1, <4>1, <4>2 DEF JobRuns, At
      <4> QED BY <1>9, <4>3
    <3> QED BY <1>7, <2>0, <3>1, <3>2
  <2> QED BY <2>1, <2>2
<1> QED BY <1>3, <1>8, <1>9 DEF Registered

(* Who registers gets its CPUs, and keeps them until it starts to use them. *)
LEMMA RegisteredStep ==
  ASSUME "drom" \notin Calls, TypeOK, Control, Registered, [Next]_vars
  PROVE  Registered'
<1>0. /\ shm \in ShData /\ pc \in [Pid -> PC] /\ ret \in [Pid -> PC]
      /\ \A p \in Pid : ret[p] \notin {"locked", "resolve", "return_async"}
  BY DEF TypeOK, Control
<1>n. \A p \in Pid : job = NoJob => ~Registering(p)
  BY DEF Registering
<1>1. CASE JobStep
  <2>1. CASE Asks
    <3>1. /\ shm'.owner = shm.owner /\ shm'.state = shm.state /\ \A p \in Pid : At(p)' = At(p)
          /\ job.op # "register" /\ job'.op # "register"
      BY <2>1 DEF Asks, Still, At
    <3> QED BY <3>1, RegisteredStay DEF Registering
  <2>2. CASE NextLoop
    <3>1. /\ shm' = shm /\ \A p \in Pid : At(p)' = At(p)
          /\ job.op # "register" /\ job'.op # "register"
      BY <2>2, NextLoopShape DEF At, Serving, Petition, Leaving
    <3> QED BY <3>1, RegisteredStay DEF Registering
  <2>3. CASE Unlock
    <3>1. /\ job # NoJob /\ job' = NoJob /\ LoopDone /\ shm' = [shm EXCEPT !.tasks = {}]
          /\ ret' = ret
          /\ pc' = [pc EXCEPT ![job.by] = "resolve"] \/ pc' = [pc EXCEPT ![job.by] = ret[job.by]]
      BY <2>3 DEF Unlock
    <3>2. shm'.owner = shm.owner /\ shm'.state = shm.state
      BY <1>0, <3>1 DEF ShData
    <3>3. job.by \in Pid /\ pc[job.by] = "locked"
      BY <3>1, JobExists DEF TypeOK, Control, JobRuns
    <3>4. \A p \in Pid : At(p)' = At(p)
      BY <1>0, <3>1, <3>3 DEF At
    <3>5. \A p \in Pid : ~Registering(p)' /\ (Registering(p) => job.todo = {})
      BY <3>1 DEF Registering, LoopDone, Counted
    <3> QED BY <3>2, <3>4, <3>5, RegisteredStay
  <2> QED BY <1>1, <2>1, <2>2, <2>3, JobShape, RegisteredBody
<1>s. CASE ~JobStep
  <2>0. shm'.owner = shm.owner /\ shm'.state = shm.state
    BY <1>s, TableStill
  <2>j. ASSUME job' = job, \A p \in Pid : At(p)' = "registered" => At(p) = "registered"
        PROVE  Registered'
    BY <2>0, <2>j DEF Registered, Registering
  <2>n. ASSUME job = NoJob, job'.op # "register",
               \A p \in Pid : At(p)' = "registered" => At(p) = "registered"
        PROVE  Registered'
    BY <1>n, <2>0, <2>n, RegisteredStay DEF Registering
  <2>a. ASSUME NEW p \in Pid, NEW x, pc' = [pc EXCEPT ![p] = x], x # "registered",
               x \in {"locked", "resolve", "return_async"} => ret'[p] # "registered",
               \A q \in Pid \ {p} : ret'[q] = ret[q]
        PROVE  \A q \in Pid : At(q)' = "registered" => At(q) = "registered"
    BY <1>0, <2>a DEF At
  <2>1. ASSUME NEW p \in Pid, ClientCall(p) PROVE Registered'
    <3>1. CASE Opens(p)
      <4>1. PICK r \in {"ready", "disabled"} : ret' = [ret EXCEPT ![p] = r]
        BY <3>1 DEF Opens
      <4>2. /\ job = NoJob /\ job'.op # "register" /\ pc' = [pc EXCEPT ![p] = "locked"]
        BY <3>1 DEF Opens, Serving
      <4> QED BY <1>0, <2>a, <2>n, <4>1, <4>2
    <3>2. CASE ~Opens(p)
      <4>1. /\ job' = job /\ ret' = ret
            /\ \/ pc' = pc
               \/ pc' = [pc EXCEPT ![p] = "ready"] \/ pc' = [pc EXCEPT ![p] = "check"]
        BY <2>1, <3>2, CallShape
           DEF UnsetMaxParallelism, EnableDLB, RemoveRequests, CheckCpuAvailability
      <4>2. \A q \in Pid : At(q)' = "registered" => At(q) = "registered"
        BY <1>0, <4>1 DEF At
      <4> QED BY <2>j, <4>1, <4>2
    <3> QED BY <3>1, <3>2
  <2>2. ASSUME NEW p \in Pid, Resolve(p) PROVE Registered'
    <3>1. CASE ResolveOwn(p) \/ \E q \in PidOrNobody : Notify(p, q)
      <4>1. /\ job' = job /\ ret' = ret /\ pc[p] = "resolve"
            /\ \E x \in {"resolve", "return_async", ret[p]} : pc' = [pc EXCEPT ![p] = x]
        BY <3>1 DEF ResolveOwn, Notify
      <4>2. \A q \in Pid : At(q)' = At(q)
        BY <1>0, <4>1 DEF At
      <4> QED BY <2>j, <4>1, <4>2
    <3>2. CASE ReturnAsync(p)
      <4>1. job = NoJob /\ job'.op = "return_async"
        BY <3>2, LifeShape DEF Begins
      <4>2. pc[p] = "return_async" /\ pc' = [pc EXCEPT ![p] = "locked"] /\ ret' = ret
        BY <3>2 DEF ReturnAsync, Lock
      <4>3. \A q \in Pid : At(q)' = At(q)
        BY <1>0, <4>2 DEF At
      <4> QED BY <2>n, <4>1, <4>3
    <3>3. CASE CheckLocked(p)
      <4>1. job' = job /\ ret' = ret /\ pc' = [pc EXCEPT ![p] = "ready"]
        BY <3>3 DEF CheckLocked
      <4> QED BY <2>a, <2>j, <4>1
    <3> QED BY <2>2, <3>1, <3>2, <3>3 DEF Resolve
  <2>3. ASSUME NEW p \in Pid, Helper(p) PROVE Registered'
    BY <2>3, <2>j DEF Helper, At
  <2>4. ASSUME NEW p \in Pid, Lifecycle(p) PROVE Registered'
    <3>1. CASE Attach(p) \/ LewiInit(p) \/ Leave(p) \/ Crash(p)
      <4>1. /\ job' = job /\ ret' = ret
            /\ \E x \in {"attached", "ready", "out", "dead"} : pc' = [pc EXCEPT ![p] = x]
        BY <3>1 DEF Attach, LewiInit, Leave, Crash
      <4> QED BY <2>a, <2>j, <4>1
    <3>2. CASE Register(p) /\ pc'[p] # "locked"
      <4>1. job' = job /\ pc' = [pc EXCEPT ![p] = "closing"]
            /\ ret' = [ret EXCEPT ![p] = "registered"]
        BY <1>0, <3>2 DEF Register, Lock
      <4> QED BY <1>0, <2>a, <2>j, <4>1
    <3>3. CASE Register(p) /\ pc'[p] = "locked"
      <4>1. /\ \A c \in StartMask[p] : shm.owner[c] \in {NOBODY, p}
            /\ job = NoJob /\ job' = NewJob(p, p, "register", StartMask[p])
            /\ pc' = [pc EXCEPT ![p] = "locked"] /\ ret' = [ret EXCEPT ![p] = "registered"]
        BY <1>0, <3>3 DEF Register, Lock
      <4>2. job'.pid = p /\ job'.op = "register" /\ job'.todo = StartMask[p]
        BY <4>1 DEF NewJob
      <4>3. job' # NoJob
        BY <3>3, LifeShape, JobExists DEF Begins
      <4>4. Registering(p)' /\ \A q \in Pid \ {p} : ~Registering(q)'
        BY <4>2, <4>3 DEF Registering
      <4>5. \A q \in Pid \ {p} : At(q)' = At(q)
        BY <1>0, <4>1 DEF At
      <4> QED BY <1>n, <2>0, <4>1, <4>2, <4>4, <4>5 DEF Registered
    <3>4. CASE Finish(p) \/ Finalize(p)
      <4>1. PICK r \in {"closing", "joining"} :
              ret' = [ret EXCEPT ![p] = r] /\ pc' = [pc EXCEPT ![p] = "locked"]
        BY <3>4 DEF Finish, Finalize, Lock
      <4>2. job = NoJob /\ job'.op # "register"
        <5>1. CASE Finish(p)
          BY <5>1 DEF Finish, Lock, NewJob
        <5>2. CASE Finalize(p)
          BY <5>2, LifeShape DEF Begins
        <5> QED BY <3>4, <5>1, <5>2
      <4> QED BY <1>0, <2>a, <2>n, <4>1, <4>2
    <3>5. ASSUME NEW q \in Pid, Cleanup(p, q) PROVE Registered'
      <4>1. /\ pc[p] = "out" /\ pc[q] = "dead"
            /\ pc' = [pc EXCEPT ![p] = "locked", ![q] = "out"]
            /\ ret' = [ret EXCEPT ![p] = "out"]
        BY <3>5 DEF Cleanup
      <4>2. \A x \in Pid : At(x)' = "registered" => At(x) = "registered"
        BY <1>0, <4>1 DEF At
      <4>3. job = NoJob /\ job'.op # "register"
        BY <3>5 DEF Cleanup, NewJob
      <4> QED BY <2>n, <4>2, <4>3
    <3> QED BY <2>4, <3>1, <3>2, <3>3, <3>4, <3>5 DEF Lifecycle
  <2>5. CASE UNCHANGED vars
    BY <2>5, <2>j DEF vars, At
  <2> QED BY <1>s, <2>1, <2>2, <2>3, <2>4, <2>5 DEF Next
<1> QED BY <1>1, <1>s

(* Initially nobody has registered. *)
LEMMA InitRegistered == Init => Registered
BY DEF Init, Registered, Registering, At

-----------------------------------------------------------------------------
(* Cores are not shared *)

(* A loop under the lock keeps the processes apart. *)
LEMMA ApartBody ==
  ASSUME hw_has_smt, TypeOK, Control, Registered, "drom" \notin Calls, Apart(shm),
         NEW c \in Cpu, Body(c)
  PROVE  Apart(shm')
<1>0. shm \in ShData /\ ~Async /\ ~shm.queues_enabled
  BY LewiMaskAssumption DEF TypeOK, Control
<1>1. /\ job # NoJob /\ job \in Job /\ JobRuns
      /\ job.op \in Op \ {"petition_n", "petition_cpu", "deregister_proc", "return_async",
                          "update_ownership"}
  BY <1>0, JobExists DEF Body, TypeOK, Control, JobRuns, Petition
<1>2. job.pid \in Pid /\ c \in job.todo /\ Moves(job.op, shm, shm', job.pid, c)
  BY <1>1 DEF TypeOK, JobOK, Body
<1>3. CASE job.op \in Serving
  BY <1>0, <1>2, <1>3 DEF Moves, Keeps
<1>4. CASE job.op = "lend"
  BY <1>0, <1>2, <1>4, LendApart DEF Moves
<1>5. CASE job.op = "register"
  <2>1. At(job.pid) = "registered" /\ Registering(job.pid)
    BY <1>1, <1>5 DEF JobRuns, At, Registering
  <2>2. shm.owner[c] \in {NOBODY, job.pid}
    BY <1>2, <2>1 DEF Registered
  <2> QED BY <1>0, <1>2, <1>5, <2>2, RegistersKeep DEF Moves
<1>6. CASE job.op = "deregister"
  BY <1>0, <1>2, <1>6 DEF Moves, Leaves
<1>7. CASE job.op = "deregister_cpu"
  BY <1>0, <1>2, <1>7, DeregistersLeave DEF Moves, Leaves
<1> QED BY <1>1, <1>3, <1>4, <1>5, <1>6, <1>7 DEF Op, Serving

(* Nobody comes to use half of a core. *)
LEMMA ApartStep ==
  ASSUME "drom" \notin Calls, "check" \notin Calls,
         TypeOK, Control, Registered, Apart(shm), [Next]_vars
  PROVE  Apart(shm')
<1>1. CASE ~hw_has_smt
  BY <1>1, SingleApart
<1>2. CASE hw_has_smt /\ JobStep
  <2>0. shm \in ShData
    BY DEF TypeOK
  <2>1. CASE Asks \/ NextLoop \/ Unlock
    <3>1. shm'.owner = shm.owner /\ shm'.guest = shm.guest /\ shm'.state = shm.state
      BY <2>0, <2>1 DEF Asks, Still, NextLoop, Unlock, ShData
    <3> QED BY <3>1 DEF Apart
  <2> QED BY <1>2, <2>1, JobShape, ApartBody
<1>3. CASE ~JobStep
  <2>1. shm'.owner = shm.owner /\ shm'.guest = shm.guest /\ shm'.state = shm.state
    BY <1>3, TableStill
  <2> QED BY <2>1 DEF Apart
<1> QED BY <1>1, <1>2, <1>3

(* Where no process changes the owners of CPUs (DROM), and nobody looks at *)
(* a CPU without the lock (check_cpu_availability), two processes never    *)
(* use CPUs of the same core, unless the owner of one has taken it back.   *)
THEOREM CoresAreNeverShared ==
  ASSUME "drom" \notin Calls, "check" \notin Calls
  PROVE  Spec => []CoreNotShared
<1>1. Init => Apart(shm)
  <2> SUFFICES ASSUME Init PROVE Apart(shm)
    OBVIOUS
  <2>1. \A c \in Cpu : shm.guest[c] = NOBODY
    BY DEF Init, init_shmem
  <2> QED BY <2>1 DEF Apart
<1>2. TypeOK /\ Control /\ Registered /\ Apart(shm) /\ [Next]_vars
        => Control' /\ Registered' /\ Apart(shm)'
  BY ControlStep, RegisteredStep, ApartStep
<1>3. Apart(shm) => CoreNotShared
  BY DEF Apart, CoreNotShared
<1> QED BY <1>1, <1>2, <1>3, TypeCorrect, InitControl, InitRegistered, PTL DEF Spec

-----------------------------------------------------------------------------
(* A process uses only what it may use *)

(* What p uses it may use, or it is told to stop using it by a task that   *)
(* it has still to resolve, or will find when it releases the lock.        *)
UsedOK ==
  \A p \in Pid : \A c \in active[p] :
    \/ Permits(shm, p, c)
    \/ DisableTask(p, c) \in pend[p]
    \/ job # NoJob /\ job.by = p /\ DisableTask(p, c) \in shm.tasks

(* What p is about to use it will be allowed to use. *)
ToldOK ==
  \A p \in Pid, c \in Cpu :
    pc[p] = "resolve" /\ ret[p] \in {"ready", "disabled"} /\ EnableTask(p, c) \in pend[p] =>
      Permits(shm, p, c) \/ DisableTask(p, c) \in pend[p]

(* So it is with the tasks of the lock holder.  A lend drops its tasks,    *)
(* but the process has already stopped using what it lends.                *)
TasksOK ==
  /\ job = NoJob => shm.tasks = {}
  /\ job # NoJob /\ job.op # "lend" /\ ret[job.by] \in {"ready", "disabled"} =>
       \A c \in Cpu : EnableTask(job.by, c) \in shm.tasks =>
         Permits(shm, job.by, c) \/ DisableTask(job.by, c) \in shm.tasks
  /\ job # NoJob /\ job.op = "lend" =>
       \A c \in Cpu : /\ c \in job.todo => c \notin active[job.by]
                      /\ DisableTask(job.by, c) \notin shm.tasks

(* Tasks are left only to who resolves them, and CPUs are used only by who *)
(* has started and not finished.                                           *)
IdleOK ==
  \A p \in Pid :
    /\ pend[p] # {} => pc[p] \in {"resolve", "check"}
    /\ pc[p] = "check" => \A c \in Cpu : DisableTask(p, c) \notin pend[p]
    /\ msgs[p] = <<>>
    /\ At(p) \notin {"ready", "disabled", "check"} => active[p] = {}

UsesOK == UsedOK /\ ToldOK /\ TasksOK /\ IdleOK

(* A loop takes from nobody but the process it serves. *)
LEMMA OthersKeepUse ==
  ASSUME NEW op \in Op \ {"petition_n", "petition_cpu", "deregister_proc", "return_async",
                          "update_ownership"},
         NEW s \in ShData, NEW t, NEW pid \in Pid, NEW c \in Cpu,
         Moves(op, s, t, pid, c), op = "register" => s.owner[c] \in {NOBODY, pid}
  PROVE  \A d \in Cpu, q \in Pid \ {pid} : Permits(s, q, d) => Permits(t, q, d)
<1>0. NOBODY \notin Pid
  BY CpuInfoAssumption
<1>1. CASE op \in Serving
  BY <1>0, <1>1 DEF Moves, Keeps, Plays, Permits
<1>2. CASE op = "lend"
  <2>1. Plays(s, t, pid)
    BY <1>2, LendPlays DEF Moves
  <2> QED BY <1>0, <2>1 DEF Plays, Permits
<1>3. CASE op = "register"
  <2>1. Registers(s, t, pid, c)
    BY <1>3 DEF Moves
  <2> QED BY <1>0, <1>3, <2>1 DEF Registers, SameBut, Same, Permits
<1>4. CASE op \in {"deregister", "deregister_cpu"}
  <2>1. Leaves(s, t, pid, c)
    BY <1>4, DeregistersLeave DEF Moves
  <2> QED BY <1>0, <2>1 DEF Leaves, Permits
<1> QED BY <1>1, <1>2, <1>3, <1>4 DEF Op, Serving

(* A loop under the lock leaves every process with what it may use, or     *)
(* tells it.                                                               *)
LEMMA UsesBody ==
  ASSUME ~Async, "drom" \notin Calls, TypeOK, Control, Registered, UsesOK,
         NEW c \in Cpu, Body(c)
  PROVE  UsesOK'
<1>0. shm \in ShData /\ ~shm.queues_enabled /\ active \in [Pid -> SUBSET Cpu]
  BY DEF TypeOK, Control
<1>1. /\ job # NoJob /\ job' # NoJob /\ job \in Job /\ JobRuns
      /\ job.op \in Op \ {"petition_n", "petition_cpu", "deregister_proc", "return_async",
                          "update_ownership"}
  BY JobExists DEF Body, TypeOK, Control, JobRuns, Petition
<1>2. /\ job.pid \in Pid /\ job.by \in Pid /\ c \in job.todo
      /\ Moves(job.op, shm, shm', job.pid, c)
  BY <1>1, JobExists DEF TypeOK, JobOK, Body
<1>3. /\ job'.pid = job.pid /\ job'.by = job.by /\ job'.op = job.op
      /\ job'.todo = job.todo \ {c}
      /\ pc' = pc /\ ret' = ret /\ pend' = pend /\ active' = active /\ msgs' = msgs
      /\ \A p \in Pid : At(p)' = At(p)
  BY DEF Body, At, locals
<1>4. IdleOK'
  BY <1>3 DEF UsesOK, IdleOK
<1>5. job.op = "register" => shm.owner[c] \in {NOBODY, job.pid}
  BY <1>1, <1>2 DEF JobRuns, At, Registered, Registering
<1>6. \A d \in Cpu, q \in Pid \ {job.pid} : Permits(shm, q, d) => Permits(shm', q, d)
  BY <1>0, <1>1, <1>2, <1>5, OthersKeepUse
<1>7. pc[job.by] = "locked"
  BY <1>1 DEF JobRuns
<1>8. CASE job.op \in Serving
  <2>1. /\ job.by = job.pid /\ UseKept(shm, shm', job.pid)
    BY <1>1, <1>2, <1>8 DEF JobRuns, Moves, Keeps
  <2>2. UsedOK'
    BY <1>0, <1>1, <1>3, <1>6, <2>1 DEF UsesOK, UsedOK, UseKept
  <2>3. ToldOK'
    BY <1>3, <1>6, <1>7, <2>1 DEF UsesOK, ToldOK
  <2>4. TasksOK'
    <3>1. job.op # "lend" /\ ret[job.by] \in {"ready", "disabled"}
      BY <1>1, <1>8 DEF Serving, JobRuns
    <3>2. ASSUME NEW d \in Cpu, EnableTask(job.by, d) \in shm'.tasks
          PROVE  Permits(shm', job.by, d) \/ DisableTask(job.by, d) \in shm'.tasks
      BY <1>1, <2>1, <3>1, <3>2 DEF UsesOK, TasksOK, UseKept
    <3> QED BY <1>1, <1>3, <3>1, <3>2 DEF TasksOK
  <2> QED BY <1>4, <2>2, <2>3, <2>4 DEF UsesOK
<1>9. CASE job.op = "lend"
  <2>1. /\ job.by = job.pid
        /\ \A d \in Cpu \ {c} : Permits(shm, job.pid, d) => Permits(shm', job.pid, d)
        /\ \A d \in Cpu : DisableTask(job.pid, d) \in shm'.tasks =>
             DisableTask(job.pid, d) \in shm.tasks
    BY <1>0, <1>1, <1>2, <1>9, LendPlays DEF JobRuns, Moves
  <2>2. \A d \in Cpu : /\ d \in job.todo => d \notin active[job.by]
                       /\ DisableTask(job.by, d) \notin shm.tasks
    BY <1>1, <1>9 DEF UsesOK, TasksOK
  <2>3. UsedOK'
    BY <1>0, <1>1, <1>2, <1>3, <1>6, <2>1, <2>2 DEF UsesOK, UsedOK
  <2>4. ToldOK'
    BY <1>3, <1>6, <1>7, <2>1 DEF UsesOK, ToldOK
  <2>5. TasksOK'
    BY <1>1, <1>3, <1>9, <2>1, <2>2 DEF TasksOK
  <2> QED BY <1>4, <2>3, <2>4, <2>5 DEF UsesOK
<1>10. CASE job.op \in {"register", "deregister", "deregister_cpu"}
  <2>1. /\ ret[job.by] \notin {"ready", "disabled"}
        /\ At(job.by) \notin {"ready", "disabled", "check"}
        /\ At(job.pid) \notin {"ready", "disabled", "check"}
        /\ job.pid = job.by \/ pc[job.pid] # "resolve"
    BY <1>1, <1>10 DEF JobRuns, At, Leaving
  <2>2. active[job.pid] = {} /\ active[job.by] = {}
    BY <1>2, <2>1 DEF UsesOK, IdleOK
  <2>3. UsedOK'
    BY <1>0, <1>1, <1>3, <1>6, <2>2 DEF UsesOK, UsedOK
  <2>4. ToldOK'
    BY <1>3, <1>6, <1>7, <2>1 DEF UsesOK, ToldOK
  <2>5. TasksOK'
    BY <1>1, <1>3, <1>10, <2>1 DEF TasksOK
  <2> QED BY <1>4, <2>3, <2>4, <2>5 DEF UsesOK
<1> QED BY <1>1, <1>8, <1>9, <1>10 DEF Op, Serving

(* A step of process p without the lock, or by which it takes the lock. *)
LEMMA UsesLocal ==
  ASSUME UsesOK, NEW p \in Pid, active' \in [Pid -> SUBSET Cpu],
         shm'.tasks = shm.tasks,
         \A q \in Pid \ {p} : /\ pc'[q] = pc[q] /\ ret'[q] = ret[q] /\ pend'[q] = pend[q]
                              /\ active'[q] = active[q] /\ msgs'[q] = msgs[q]
                              /\ \A c \in Cpu : Permits(shm, q, c) => Permits(shm', q, c),
         \/ job' = job /\ (job # NoJob => job.by \in Pid \ {p})
         \/ /\ job = NoJob /\ job' # NoJob /\ job'.by = p
            /\ job'.op = "lend" => \A c \in job'.todo : c \notin active'[p],
         \/ pend'[p] = {}
         \/ pc'[p] = "check" /\ \A c \in Cpu : DisableTask(p, c) \notin pend'[p],
         msgs'[p] = <<>>,
         \A c \in active'[p] : Permits(shm', p, c),
         At(p)' \notin {"ready", "disabled", "check"} => active'[p] = {}
  PROVE  UsesOK'
<1>1. UsedOK'
  <2> SUFFICES ASSUME NEW q \in Pid \ {p}, NEW c \in active'[q]
               PROVE  \/ Permits(shm', q, c) \/ DisableTask(q, c) \in pend'[q]
                      \/ job' # NoJob /\ job'.by = q /\ DisableTask(q, c) \in shm'.tasks
    BY DEF UsedOK
  <2>1. c \in Cpu /\ c \in active[q]
    OBVIOUS
  <2>2. \/ Permits(shm, q, c) \/ DisableTask(q, c) \in pend[q]
        \/ job # NoJob /\ job.by = q /\ DisableTask(q, c) \in shm.tasks
    BY <2>1 DEF UsesOK, UsedOK
  <2> QED BY <2>1, <2>2
<1>2. ToldOK'
  <2> SUFFICES ASSUME NEW q \in Pid, NEW c \in Cpu, pc'[q] = "resolve",
                      ret'[q] \in {"ready", "disabled"}, EnableTask(q, c) \in pend'[q]
               PROVE  Permits(shm', q, c) \/ DisableTask(q, c) \in pend'[q]
    BY DEF ToldOK
  <2>1. q # p
    OBVIOUS
  <2>2. Permits(shm, q, c) \/ DisableTask(q, c) \in pend[q]
    BY <2>1 DEF UsesOK, ToldOK
  <2> QED BY <2>1, <2>2
<1>3. TasksOK'
  <2>1. CASE job = NoJob
    <3>1. shm'.tasks = {}
      BY <2>1 DEF UsesOK, TasksOK
    <3> QED BY <2>1, <3>1 DEF TasksOK
  <2>2. CASE job # NoJob /\ job' = job /\ job.by \in Pid \ {p}
    BY <2>2 DEF UsesOK, TasksOK
  <2> QED BY <2>1, <2>2
<1>4. IdleOK'
  <2>1. \A q \in Pid \ {p} : At(q)' = At(q)
    BY DEF At
  <2>2. ASSUME NEW q \in Pid \ {p}
        PROVE  /\ pend'[q] # {} => pc'[q] \in {"resolve", "check"}
               /\ pc'[q] = "check" => \A c \in Cpu : DisableTask(q, c) \notin pend'[q]
               /\ msgs'[q] = <<>>
               /\ At(q)' \notin {"ready", "disabled", "check"} => active'[q] = {}
    BY <2>1 DEF UsesOK, IdleOK
  <2>3. /\ pend'[p] # {} => pc'[p] \in {"resolve", "check"}
        /\ pc'[p] = "check" => \A c \in Cpu : DisableTask(p, c) \notin pend'[p]
    OBVIOUS
  <2> QED BY <2>2, <2>3 DEF IdleOK
<1> QED BY <1>1, <1>2, <1>3, <1>4 DEF UsesOK

(* No step leaves a process with a CPU that it may not use. *)
LEMMA UsesStep ==
  ASSUME ~Async, "drom" \notin Calls, TypeOK, Control, Registered, UsesOK, [Next]_vars,
         TypeOK'
  PROVE  UsesOK'
<1>0. /\ shm \in ShData /\ ~shm.queues_enabled
      /\ pc \in [Pid -> PC] /\ ret \in [Pid -> PC] /\ active \in [Pid -> SUBSET Cpu]
      /\ pend \in [Pid -> SUBSET Task] /\ msgs \in [Pid -> Seq(Message)]
      /\ \A p \in Pid : ret[p] \notin {"locked", "resolve", "return_async"}
  BY DEF TypeOK, Control
<1>1. CASE JobStep
  <2>1. CASE Asks
    <3>1. /\ shm' = shm /\ job # NoJob /\ job' # NoJob /\ job.op = "deregister_proc"
          /\ job'.by = job.by /\ job'.op = job.op
          /\ pc' = pc /\ ret' = ret /\ pend' = pend /\ active' = active /\ msgs' = msgs
          /\ \A p \in Pid : At(p)' = At(p)
      BY <1>0, <2>1 DEF Asks, Control, JobRuns, Petition, At, locals
    <3> QED BY <3>1 DEF UsesOK, UsedOK, ToldOK, TasksOK, IdleOK
  <2>2. CASE NextLoop
    <3>1. /\ shm' = shm /\ job # NoJob /\ job' # NoJob /\ job'.by = job.by
          /\ job.op # "lend" /\ job'.op # "lend"
          /\ pc' = pc /\ ret' = ret /\ pend' = pend /\ active' = active /\ msgs' = msgs
          /\ \A p \in Pid : At(p)' = At(p)
      BY <2>2, NextLoopShape, JobExists DEF At, Leaving, Serving, Petition, locals
    <3> QED BY <3>1 DEF UsesOK, UsedOK, ToldOK, TasksOK, IdleOK
  <2>3. CASE Unlock
    <3> DEFINE q == job.by
               left == pend[q] \cup (IF job.op = "lend" /\ ~Async THEN {} ELSE shm.tasks)
    <3>1. /\ job # NoJob /\ job' = NoJob /\ shm' = [shm EXCEPT !.tasks = {}]
          /\ pend' = [pend EXCEPT ![q] = left] /\ ret' = ret /\ msgs' = msgs
          /\ pc' = [pc EXCEPT ![q] = IF left = {} THEN ret[q] ELSE "resolve"]
      BY <2>3 DEF Unlock
    <3>2. /\ q \in Pid /\ pc[q] = "locked" /\ JobRuns
          /\ \A p \in Pid \ {q} : pc[p] # "locked"
      BY <3>1, JobExists DEF TypeOK, Control, JobRuns
    <3>3. active' = active
      BY <2>3, <3>2 DEF Unlock, JobRuns
    <3>4. pend[q] = {}
      BY <3>2 DEF UsesOK, IdleOK
    <3>5. left = IF job.op = "lend" THEN {} ELSE shm.tasks
      BY <3>4
    <3> HIDE DEF left, q
    <3>6. /\ shm'.tasks = {} /\ \A p \in Pid, c \in Cpu : Permits(shm', p, c) <=> Permits(shm, p, c)
      BY <1>0, <3>1 DEF ShData, Permits
    <3>7. \A p \in Pid : At(p)' = At(p)
      BY <1>0, <3>1, <3>2 DEF At
    <3>8. /\ pend'[q] = left /\ \A p \in Pid \ {q} : pend'[p] = pend[p] /\ pc'[p] = pc[p]
      BY <1>0, <3>1, <3>2
    <3>9. pc'[q] = IF left = {} THEN ret[q] ELSE "resolve"
      BY <1>0, <3>1, <3>2
    <3>10. job.op = "lend" => \A c \in Cpu : DisableTask(q, c) \notin shm.tasks
      BY <3>1 DEF UsesOK, TasksOK, q
    <3>11. UsedOK'
      <4> SUFFICES ASSUME NEW p \in Pid, NEW c \in active[p]
                   PROVE  Permits(shm', p, c) \/ DisableTask(p, c) \in pend'[p]
        BY <3>3 DEF UsedOK
      <4>1. c \in Cpu
        BY <1>0
      <4>2. CASE p = q
        <5>1. Permits(shm, p, c) \/ DisableTask(p, c) \in shm.tasks
          BY <3>4, <4>2 DEF UsesOK, UsedOK
        <5> QED BY <3>5, <3>6, <3>8, <3>10, <4>1, <4>2, <5>1
      <4>3. CASE p # q
        <5>1. Permits(shm, p, c) \/ DisableTask(p, c) \in pend[p]
          BY <4>3 DEF UsesOK, UsedOK, q
        <5> QED BY <3>6, <3>8, <4>1, <4>3, <5>1
      <4> QED BY <4>2, <4>3
    <3>12. ToldOK'
      <4> SUFFICES ASSUME NEW p \in Pid, NEW c \in Cpu, pc'[p] = "resolve",
                          ret[p] \in {"ready", "disabled"}, EnableTask(p, c) \in pend'[p]
                   PROVE  Permits(shm', p, c) \/ DisableTask(p, c) \in pend'[p]
        BY <3>1 DEF ToldOK
      <4>1. CASE p = q
        <5>1. job.op # "lend" /\ EnableTask(p, c) \in shm.tasks
          BY <3>5, <3>8, <4>1
        <5>2. Permits(shm, p, c) \/ DisableTask(p, c) \in shm.tasks
          BY <3>1, <4>1, <5>1 DEF UsesOK, TasksOK, q
        <5> QED BY <3>5, <3>6, <3>8, <4>1, <5>1, <5>2
      <4>2. CASE p # q
        BY <3>6, <3>8, <4>2 DEF UsesOK, ToldOK
      <4> QED BY <4>1, <4>2
    <3>13. TasksOK'
      BY <3>1, <3>6 DEF TasksOK
    <3>14. IdleOK'
      BY <1>0, <3>1, <3>3, <3>5, <3>7, <3>8, <3>9 DEF UsesOK, IdleOK, Control
    <3> QED BY <3>11, <3>12, <3>13, <3>14 DEF UsesOK
  <2> QED BY <1>1, <2>1, <2>2, <2>3, JobShape, UsesBody
<1>s. CASE ~JobStep
  <2>0. shm'.owner = shm.owner /\ shm'.state = shm.state /\ shm'.tasks = shm.tasks
    BY <1>s, TableStill
  <2>l. \A p \in Pid : pc[p] # "locked" => ~(job # NoJob /\ job.by = p)
    BY DEF Control, JobRuns
  <2>g. ASSUME \A p \in Pid : ~CheckLocked(p)
        PROVE  \A p \in Pid, c \in Cpu : Permits(shm', p, c) <=> Permits(shm, p, c)
    BY <1>s, <2>0, <2>g, TableStill DEF Permits
  <2>u. \A p \in Pid : /\ pc[p] \notin {"locked", "resolve"} =>
                            \A c \in active[p] : c \in Cpu /\ Permits(shm, p, c)
                       /\ pc[p] \notin {"resolve", "check"} => pend[p] = {}
                       /\ msgs[p] = <<>>
    BY <1>0, <2>l DEF UsesOK, UsedOK, IdleOK
  <2>b. job # NoJob => job.by \in Pid /\ pc[job.by] = "locked"
    BY JobExists DEF TypeOK, Control, JobRuns
  <2>1. ASSUME NEW p \in Pid, CheckLocked(p) PROVE UsesOK'
    <3>1. PICK c \in Cpu :
            /\ pc[p] = "check" /\ job = NoJob /\ job' = NoJob /\ ret' = ret /\ msgs' = msgs
            /\ \/ /\ shm.guest[c] = NOBODY
                  /\ shm' = [shm EXCEPT !.guest[c] = p, !.free_cpus = @ \ {c}]
                  /\ Runtime(p, {c}, {})
               \/ shm' = shm /\ active' = active
            /\ pend' = [pend EXCEPT ![p] = {}] /\ pc' = [pc EXCEPT ![p] = "ready"]
      BY <2>1 DEF CheckLocked, CpusOf
    <3>2. /\ \A q \in Pid \ {p} : /\ active'[q] = active[q]
                                 /\ \A d \in Cpu : Permits(shm, q, d) => Permits(shm', q, d)
          /\ \A d \in active'[p] : Permits(shm', p, d)
      <4>1. CASE shm' = shm /\ active' = active
        BY <2>u, <3>1, <4>1
      <4>2. CASE /\ shm.guest[c] = NOBODY
                 /\ shm' = [shm EXCEPT !.guest[c] = p, !.free_cpus = @ \ {c}]
                 /\ Runtime(p, {c}, {})
        <5>1. shm'.guest = [shm.guest EXCEPT ![c] = p]
          BY <1>0, <4>2 DEF ShData
        <5>2. /\ shm'.guest[c] = p /\ \A d \in Cpu \ {c} : shm'.guest[d] = shm.guest[d]
          BY <1>0, <5>1 DEF ShData
        <5>3. active' = [active EXCEPT ![p] = active[p] \cup {c}]
          BY <4>2 DEF Runtime
        <5>4. NOBODY \notin Pid
          BY CpuInfoAssumption
        <5>5. \A d \in active'[p] : d = c \/ (d \in Cpu /\ Permits(shm, p, d))
          BY <1>0, <2>u, <3>1, <5>3
        <5>6. \A q \in Pid, d \in Cpu : Permits(shm, q, d) => Permits(shm', q, d)
          BY <2>0, <4>2, <5>2, <5>4 DEF Permits
        <5>7. Permits(shm', p, c)
          BY <5>2 DEF Permits
        <5> QED BY <1>0, <5>3, <5>5, <5>6, <5>7
      <4> QED BY <3>1, <4>1, <4>2
    <3>3. /\ pend'[p] = {} /\ msgs'[p] = <<>> /\ At(p)' = "ready"
          /\ \A q \in Pid \ {p} : /\ pc'[q] = pc[q] /\ ret'[q] = ret[q]
                                 /\ pend'[q] = pend[q] /\ msgs'[q] = msgs[q]
      BY <1>0, <2>u, <3>1 DEF At
    <3>4. active' \in [Pid -> SUBSET Cpu]
      BY DEF TypeOK
    <3> QED BY <2>0, <3>1, <3>2, <3>3, <3>4, UsesLocal
  <2>2. CASE \A p \in Pid : ~CheckLocked(p)
    <3>g. \A p \in Pid, c \in Cpu : Permits(shm', p, c) <=> Permits(shm, p, c)
      BY <2>2, <2>g
    <3>t. active' \in [Pid -> SUBSET Cpu]
      BY DEF TypeOK
    <3>l. ASSUME NEW p \in Pid, NEW x, NEW r, pc' = [pc EXCEPT ![p] = x],
                 ret' = [ret EXCEPT ![p] = r],
                 pc[p] # "locked", job' = job, pend'[p] = {},
                 \A q \in Pid \ {p} : pend'[q] = pend[q] /\ active'[q] = active[q],
                 msgs' = msgs, \A c \in active'[p] : c \in Cpu /\ Permits(shm, p, c),
                 LET at == IF x \in {"locked", "resolve", "return_async"} THEN r ELSE x IN
                   at \notin {"ready", "disabled", "check"} => active'[p] = {}
          PROVE  UsesOK'
      <4>1. At(p)' \notin {"ready", "disabled", "check"} => active'[p] = {}
        BY <1>0, <3>l DEF At
      <4>2. \A q \in Pid \ {p} : /\ pc'[q] = pc[q] /\ ret'[q] = ret[q] /\ pend'[q] = pend[q]
                              /\ active'[q] = active[q] /\ msgs'[q] = msgs[q]
                              /\ \A c \in Cpu : Permits(shm, q, c) => Permits(shm', q, c)
        BY <1>0, <3>g, <3>l
      <4>3. msgs'[p] = <<>> /\ \A c \in active'[p] : Permits(shm', p, c)
        BY <2>u, <3>g, <3>l
      <4>4. job' = job /\ (job # NoJob => job.by \in Pid \ {p})
        BY <2>b, <3>l
      <4> QED BY <2>0, <3>l, <3>t, <4>1, <4>2, <4>3, <4>4, UsesLocal
    <3>o. ASSUME NEW p \in Pid, NEW r, pc' = [pc EXCEPT ![p] = "locked"],
                 ret' = [ret EXCEPT ![p] = r],
                 pc[p] # "locked", job = NoJob, job' # NoJob, job'.by = p, pend'[p] = {},
                 job'.op = "lend" => \A c \in job'.todo : c \notin active'[p],
                 \A q \in Pid \ {p} : pend'[q] = pend[q] /\ active'[q] = active[q],
                 msgs' = msgs, \A c \in active'[p] : c \in Cpu /\ Permits(shm, p, c),
                 r \notin {"ready", "disabled"} => active'[p] = {}
          PROVE  UsesOK'
      <4>1. At(p)' \notin {"ready", "disabled", "check"} => active'[p] = {}
        BY <1>0, <3>o DEF At
      <4>2. \A q \in Pid \ {p} : /\ pc'[q] = pc[q] /\ ret'[q] = ret[q] /\ pend'[q] = pend[q]
                              /\ active'[q] = active[q] /\ msgs'[q] = msgs[q]
                              /\ \A c \in Cpu : Permits(shm, q, c) => Permits(shm', q, c)
        BY <1>0, <3>g, <3>o
      <4>3. msgs'[p] = <<>> /\ \A c \in active'[p] : Permits(shm', p, c)
        BY <2>u, <3>g, <3>o
      <4> QED BY <2>0, <3>o, <3>t, <4>1, <4>2, <4>3, UsesLocal
    <3>1. ASSUME NEW p \in Pid, ClientCall(p) PROVE UsesOK'
      <4>1. CASE Opens(p)
        <5>1. PICK r \in {"ready", "disabled"} : ret' = [ret EXCEPT ![p] = r]
          BY <4>1 DEF Opens
        <5>2. /\ job = NoJob /\ job' # NoJob /\ job'.by = p /\ pc[p] \in {"ready", "disabled"}
              /\ pc' = [pc EXCEPT ![p] = "locked"] /\ pend' = pend /\ msgs' = msgs
          BY <4>1, JobExists DEF Opens
        <5>3. /\ \A q \in Pid \ {p} : active'[q] = active[q]
              /\ job'.op = "lend" => \A c \in job'.todo : c \notin active'[p]
              /\ active'[p] \subseteq active[p]
          BY <1>0, <4>1 DEF Opens, Runtime
        <5>4. pend[p] = {} /\ \A c \in active'[p] : c \in Cpu /\ Permits(shm, p, c)
          BY <2>u, <5>2, <5>3
        <5> QED BY <3>o, <5>1, <5>2, <5>3, <5>4
      <4>2. CASE UnsetMaxParallelism(p) \/ RemoveRequests(p) \/ EnableDLB(p)
        <5>1. /\ job' = job /\ ret' = ret /\ pc[p] \in {"ready", "disabled"}
              /\ pend' = pend /\ msgs' = msgs /\ active' = active
              /\ pc' = pc \/ pc' = [pc EXCEPT ![p] = "ready"]
          BY <4>2 DEF UnsetMaxParallelism, RemoveRequests, EnableDLB, locals
        <5>2. /\ ret' = [ret EXCEPT ![p] = ret[p]]
              /\ pc' = [pc EXCEPT ![p] = pc[p]] \/ pc' = [pc EXCEPT ![p] = "ready"]
          BY <1>0, <5>1
        <5>3. pend[p] = {} /\ \A c \in active[p] : c \in Cpu /\ Permits(shm, p, c)
          BY <2>u, <5>1
        <5> QED BY <3>l, <5>1, <5>2, <5>3
      <4>3. CASE CheckCpuAvailability(p)
        <5>1. PICK c \in Cpu :
                /\ pc[p] = "ready" /\ pend' = [pend EXCEPT ![p] = {EnableTask(p, c)}]
                /\ pc' = [pc EXCEPT ![p] = "check"]
                /\ job' = job /\ ret' = ret /\ msgs' = msgs /\ active' = active
          BY <4>3 DEF CheckCpuAvailability, locals
        <5>2. /\ pc'[p] = "check" /\ At(p)' = "check"
              /\ pend'[p] = {EnableTask(p, c)}
              /\ \A q \in Pid \ {p} : pc'[q] = pc[q] /\ pend'[q] = pend[q]
          BY <1>0, <5>1 DEF At
        <5>3. \A d \in Cpu : DisableTask(p, d) \notin pend'[p]
          BY <5>2, TasksDiffer
        <5>4. job # NoJob => job.by \in Pid \ {p}
          BY <2>b, <5>1
        <5>5. msgs'[p] = <<>> /\ \A d \in active'[p] : Permits(shm', p, d)
          BY <2>u, <3>g, <5>1
        <5>6. \A q \in Pid \ {p} : /\ pc'[q] = pc[q] /\ ret'[q] = ret[q] /\ pend'[q] = pend[q]
                              /\ active'[q] = active[q] /\ msgs'[q] = msgs[q]
                              /\ \A d \in Cpu : Permits(shm, q, d) => Permits(shm', q, d)
          BY <3>g, <5>1, <5>2
        <5> QED BY <2>0, <3>t, <5>1, <5>2, <5>3, <5>4, <5>5, <5>6, UsesLocal
      <4> QED BY <3>1, <4>1, <4>2, <4>3, CallShape
    <3>2. ASSUME NEW p \in Pid, Resolve(p) PROVE UsesOK'
      <4> DEFINE mine == {t \in pend[p] : t.pid = p}
                 on == CpusOf(mine, "ENABLE", p)
                 off == CpusOf(mine, "DISABLE", p)
      <4>1. ResolveOwn(p)
        BY <2>2, <3>2 DEF Resolve, Notify, ReturnAsync, Control
      <4>2. /\ pc[p] = "resolve" /\ pend' = [pend EXCEPT ![p] = {}]
            /\ pc' = [pc EXCEPT ![p] = ret[p]] /\ job' = job /\ ret' = ret /\ msgs' = msgs
            /\ IF ret[p] \in {"ready", "disabled"} THEN Runtime(p, on, off) ELSE active' = active
        BY <4>1 DEF ResolveOwn
      <4>3. \A c \in Cpu : /\ c \in on <=> EnableTask(p, c) \in pend[p]
                           /\ c \in off <=> DisableTask(p, c) \in pend[p]
        BY DEF CpusOf, EnableTask, DisableTask
      <4>4. on \in SUBSET Cpu
        BY DEF CpusOf
      <4> HIDE DEF on, off
      <4>5. \A c \in active[p] : c \in Cpu /\ (Permits(shm, p, c) \/ DisableTask(p, c) \in pend[p])
        BY <1>0, <2>l, <4>2 DEF UsesOK, UsedOK
      <4>6. /\ \A q \in Pid \ {p} : active'[q] = active[q]
            /\ \A c \in active'[p] : c \in Cpu /\ Permits(shm, p, c)
            /\ ret[p] \notin {"ready", "disabled"} => active'[p] = {}
        <5>1. CASE ret[p] \in {"ready", "disabled"}
          <6>1. active' = [active EXCEPT ![p] = (active[p] \cup on) \ off]
            BY <4>2, <5>1 DEF Runtime
          <6>2. \A c \in Cpu : EnableTask(p, c) \in pend[p] =>
                  Permits(shm, p, c) \/ DisableTask(p, c) \in pend[p]
            BY <4>2, <5>1 DEF UsesOK, ToldOK
          <6> QED BY <1>0, <4>3, <4>4, <4>5, <5>1, <6>1, <6>2
        <5>2. CASE ret[p] \notin {"ready", "disabled"}
          <6>1. At(p) \notin {"ready", "disabled", "check"}
            BY <4>2, <5>2 DEF At, Control
          <6>2. active[p] = {}
            BY <6>1 DEF UsesOK, IdleOK
          <6> QED BY <4>2, <5>2, <6>2
        <5> QED BY <5>1, <5>2
      <4>7. ret' = [ret EXCEPT ![p] = ret[p]] /\ pend'[p] = {}
            /\ \A q \in Pid \ {p} : pend'[q] = pend[q]
        BY <1>0, <4>2
      <4> QED BY <3>l, <4>2, <4>6, <4>7
    <3>3. ASSUME NEW p \in Pid, Helper(p) PROVE UsesOK'
      BY <2>u, <3>3 DEF Helper
    <3>e. \A p \in Pid : pc[p] \in {"out", "attached", "registered", "closing", "joining", "dead"}
            => active[p] = {}
      BY DEF UsesOK, IdleOK, At
    <3>4. ASSUME NEW p \in Pid, Lifecycle(p) PROVE UsesOK'
      <4>1. CASE Attach(p) \/ Leave(p) \/ Crash(p)
        <5>1. /\ job' = job /\ ret' = ret /\ msgs' = msgs /\ pc[p] # "locked"
              /\ \E x \in {"attached", "out", "dead"} : pc' = [pc EXCEPT ![p] = x]
              /\ active' = active \/ active' = [active EXCEPT ![p] = {}]
          BY <4>1 DEF Attach, Leave, Crash, locals
        <5>2. active'[p] = {} /\ \A q \in Pid \ {p} : active'[q] = active[q]
          BY <1>0, <3>e, <4>1, <5>1 DEF Attach, Leave, Crash, locals
        <5>3. pend'[p] = {} /\ \A q \in Pid \ {p} : pend'[q] = pend[q]
          BY <1>0, <2>u, <4>1 DEF Attach, Leave, Crash
        <5>4. ret' = [ret EXCEPT ![p] = ret[p]]
          BY <1>0, <5>1
        <5> QED BY <3>l, <5>1, <5>2, <5>3, <5>4
      <4>2. CASE LewiInit(p)
        <5>1. /\ job' = job /\ ret' = ret /\ msgs' = msgs /\ pc[p] = "registered" /\ pend' = pend
              /\ pc' = [pc EXCEPT ![p] = "ready"] /\ active' = [active EXCEPT ![p] = StartMask[p]]
          BY <4>2 DEF LewiInit
        <5>2. ~Registering(p) /\ At(p) = "registered"
          BY <2>l, <5>1 DEF Registering, At, Control, JobRuns
        <5>3. \A c \in StartMask[p] : c \in Cpu /\ Permits(shm, p, c)
          BY <5>2, LewiMaskAssumption DEF Registered, Permits
        <5>4. /\ active'[p] = StartMask[p] /\ \A q \in Pid \ {p} : active'[q] = active[q]
              /\ pend'[p] = {} /\ ret' = [ret EXCEPT ![p] = ret[p]]
          BY <1>0, <2>u, <5>1
        <5> QED BY <3>l, <5>1, <5>3, <5>4
      <4>3. CASE Register(p) /\ pc'[p] # "locked"
        <5>1. /\ job' = job /\ pc' = [pc EXCEPT ![p] = "closing"] /\ pc[p] = "attached"
              /\ ret' = [ret EXCEPT ![p] = "registered"]
              /\ pend' = pend /\ active' = active /\ msgs' = msgs
          BY <1>0, <4>3 DEF Register, Lock, Stay, locals
        <5> QED BY <2>u, <3>e, <3>l, <5>1
      <4>4. CASE \/ Register(p) /\ pc'[p] = "locked"
                 \/ Finish(p) \/ Finalize(p)
        <5>1. job = NoJob /\ job' # NoJob /\ job'.by = p /\ job'.op # "lend"
          <6>1. CASE Register(p) /\ pc'[p] = "locked"
            <7>1. job' = NewJob(p, p, "register", StartMask[p]) /\ job = NoJob /\ job' \in Job
              BY <6>1, LifeShape DEF Begins
            <7> QED BY <7>1, JobExists DEF NewJob
          <6>2. CASE Finish(p)
            <7>1. job' = NewJob(p, p, "deregister", Cpu) /\ job = NoJob /\ job' \in Job
              BY <6>2, LifeShape DEF Begins
            <7> QED BY <7>1, JobExists DEF NewJob
          <6>3. CASE Finalize(p)
            BY <6>3, LifeShape, JobExists DEF Begins
          <6> QED BY <4>4, <6>1, <6>2, <6>3
        <5>2. /\ pc[p] \in {"attached", "ready", "disabled", "closing"}
              /\ pc' = [pc EXCEPT ![p] = "locked"] /\ pend' = pend /\ msgs' = msgs
              /\ \E r \in {"registered", "closing", "joining"} : ret' = [ret EXCEPT ![p] = r]
          BY <1>0, <4>4 DEF Register, Finish, Finalize, Lock, Stay, locals
        <5>3. active'[p] = {} /\ \A q \in Pid \ {p} : active'[q] = active[q]
          BY <1>0, <3>e, <4>4 DEF Register, Finish, Finalize, Lock, Stay, locals
        <5> QED BY <2>u, <3>o, <5>1, <5>2, <5>3
      <4>5. ASSUME NEW q \in Pid, Cleanup(p, q) PROVE UsesOK'
        <5> DEFINE j == NewJob(p, q, "deregister_cpu", Cpu)
        <5>0. j \in Job /\ j.by = p /\ j.op = "deregister_cpu" /\ job = NoJob /\ job' = j
          BY <4>5, NewJobFields DEF Cleanup, Op
        <5> HIDE DEF j
        <5>1. job = NoJob /\ job' # NoJob /\ job'.by = p /\ job'.op = "deregister_cpu"
          BY <5>0, JobExists
        <5>2. /\ pc[p] = "out" /\ pc[q] = "dead" /\ shm' = shm /\ pend' = pend /\ active' = active
              /\ pc' = [pc EXCEPT ![p] = "locked", ![q] = "out"]
              /\ ret' = [ret EXCEPT ![p] = "out"] /\ msgs' = [msgs EXCEPT ![q] = <<>>]
          BY <4>5 DEF Cleanup
        <5>3. /\ pend[p] = {} /\ pend[q] = {} /\ active[p] = {} /\ active[q] = {}
              /\ shm.tasks = {} /\ \A x \in Pid : msgs'[x] = <<>>
          BY <1>0, <2>u, <3>e, <5>1, <5>2 DEF UsesOK, TasksOK
        <5>4. /\ pc'[p] = "locked" /\ pc'[q] = "out" /\ ret'[p] = "out"
              /\ \A x \in Pid \ {p, q} : pc'[x] = pc[x] /\ ret'[x] = ret[x] /\ At(x)' = At(x)
          BY <1>0, <5>2 DEF At
        <5>5. UsedOK'
          BY <5>1, <5>2, <5>3 DEF UsesOK, UsedOK
        <5>6. ToldOK'
          BY <5>2, <5>3, <5>4 DEF UsesOK, ToldOK
        <5>7. TasksOK'
          BY <5>1, <5>2, <5>3 DEF TasksOK
        <5>8. IdleOK'
          BY <5>2, <5>3, <5>4 DEF UsesOK, IdleOK
        <5> QED BY <5>5, <5>6, <5>7, <5>8 DEF UsesOK
      <4> QED BY <3>4, <4>1, <4>2, <4>3, <4>4, <4>5 DEF Lifecycle
    <3>5. CASE UNCHANGED vars
      BY <3>5 DEF vars, UsesOK, UsedOK, ToldOK, TasksOK, IdleOK, At
    <3> QED BY <1>s, <3>1, <3>2, <3>3, <3>4, <3>5 DEF Next
  <2> QED BY <2>1, <2>2
<1> QED BY <1>1, <1>s

(* In polling mode, where no process changes the owners of CPUs (DROM),    *)
(* the runtime of a process never uses a CPU after it has lost it: it is   *)
(* its guest, the owner that has claimed it, or has been told to stop and  *)
(* has not resolved that task yet.                                         *)
THEOREM UseIsAlwaysPermitted ==
  ASSUME ~Async, "drom" \notin Calls
  PROVE  Spec => []UseIsPermitted
<1>1. Init => UsesOK
  BY DEF Init, init_shmem, UsesOK, UsedOK, ToldOK, TasksOK, IdleOK
<1>2. TypeOK /\ TypeOK' /\ Control /\ Registered /\ UsesOK /\ [Next]_vars
        => Control' /\ Registered' /\ UsesOK'
  BY ControlStep, RegisteredStep, UsesStep
<1>3. UsesOK => UseIsPermitted
  BY DEF UsesOK, UsedOK, UseIsPermitted, Permits
<1> QED BY <1>1, <1>2, <1>3, TypeCorrect, InitControl, InitRegistered, PTL DEF Spec

-----------------------------------------------------------------------------
(* The sets of the table find every CPU *)

(* Without the lock no operation ends or changes. *)
LEMMA LockKept ==
  ASSUME TypeOK, Control, [Next]_vars, ~JobStep
  PROVE  /\ job' = job \/ job = NoJob
         /\ \A p \in Pid : Cleaning(p)' => \/ job' = job \/ Finalize(p)
                                           \/ \E q \in Pid : pc[q] = "dead"
<1>1. CASE job' = job
  BY <1>1
<1>2. CASE job' # job
  <2>1. CASE UNCHANGED vars
    BY <1>2, <2>1 DEF vars
  <2>2. CASE ~UNCHANGED vars
    <3>1. PICK p \in Pid : ClientCall(p) \/ Resolve(p) \/ Helper(p) \/ Lifecycle(p)
      BY <2>2 DEF Next
    <3>2. CASE ClientCall(p)
      <4>1. Opens(p)
        BY <1>2, <3>2, CallShape
           DEF UnsetMaxParallelism, EnableDLB, RemoveRequests, CheckCpuAvailability
      <4> QED BY <4>1 DEF Opens, Cleaning, Leaving, Serving
    <3>3. CASE Resolve(p)
      <4>1. ReturnAsync(p)
        BY <1>2, <3>3 DEF Resolve, ResolveOwn, Notify, CheckLocked
      <4>2. job = NoJob /\ job'.op = "return_async"
        BY <4>1, LifeShape DEF Begins
      <4> QED BY <4>2 DEF Cleaning, Leaving
    <3>4. CASE Helper(p)
      BY <1>2, <3>4 DEF Helper
    <3>5. CASE Lifecycle(p)
      <4>1. CASE Register(p) \/ Finish(p)
        <5>1. job = NoJob /\ job'.op \notin Leaving
          BY <1>2, <4>1 DEF Register, Finish, Lock, NewJob, Leaving
        <5> QED BY <5>1 DEF Cleaning
      <4>2. CASE Finalize(p)
        <5>1. job = NoJob /\ job'.pid = p
          BY <4>2, LifeShape DEF Begins
        <5> QED BY <4>2, <5>1 DEF Cleaning
      <4>3. CASE \E q \in Pid : Cleanup(p, q)
        BY <4>3 DEF Cleanup
      <4> QED BY <1>2, <3>5, <4>1, <4>2, <4>3
              DEF Lifecycle, Attach, LewiInit, Leave, Crash
    <3> QED BY <3>1, <3>2, <3>3, <3>4, <3>5
  <2> QED BY <2>1, <2>2
<1> QED BY <1>1, <1>2

(* A core that is being registered or deregistered: c has no owner yet, or *)
(* no longer, and d has.                                                   *)
Splitting(c, d) ==
  /\ job # NoJob
  /\ shm.owner[c] = NOBODY /\ shm.owner[d] = job.pid
  /\ \/ job.op = "register" /\ c \in job.todo
     \/ job.op = "deregister" /\ d \in job.todo /\ c \notin job.todo

(* Otherwise the CPUs of a core have one owner. *)
CoresWhole ==
  \A c \in Cpu : \A d \in core_mask[c] :
    shm.owner[d] = shm.owner[c] \/ Splitting(c, d) \/ Splitting(d, c)

(* Who is taken out of the table owns nothing: it has given up its CPUs.   *)
OwnsNothing == \A p \in Pid : Cleaning(p) => \A c \in Cpu : shm.owner[c] # p

WholeOK == CoresWhole /\ OwnsNothing

(* With SMT a process is started on whole cores and does not crash. *)
WholeCores ==
  hw_has_smt => /\ "crash" \notin Calls
                /\ \A p \in Pid : \A c \in StartMask[p] : core_mask[c] \subseteq StartMask[p]

(* Registering and deregistering handle a core CPU by CPU, and leave it    *)
(* whole.                                                                  *)
LEMMA WholeBody ==
  ASSUME hw_has_smt, WholeCores, "drom" \notin Calls, TypeOK, Control, Registered, HoldersIn,
         WholeOK, NEW x \in Cpu, Body(x)
  PROVE  WholeOK'
<1>0. shm \in ShData /\ ~Async /\ NOBODY \notin Pid
  BY LewiMaskAssumption, CpuInfoAssumption DEF TypeOK
<1>1. /\ job # NoJob /\ job' # NoJob /\ job \in Job /\ JobRuns
      /\ job.op \in Op \ {"petition_n", "petition_cpu", "deregister_proc", "return_async",
                          "update_ownership"}
  BY <1>0, JobExists DEF Body, TypeOK, Control, JobRuns, Petition
<1>2. /\ job.pid \in Pid /\ x \in job.todo /\ Moves(job.op, shm, shm', job.pid, x)
      /\ job'.pid = job.pid /\ job'.op = job.op /\ job'.todo = job.todo \ {x}
  BY <1>1 DEF TypeOK, JobOK, Body
<1>c. \A c \in Cpu : \A d \in core_mask[c] : d \in Cpu /\ c \in core_mask[d]
  BY CpuInfoAssumption
<1>3. CASE job.op \in Serving \cup {"lend", "deregister_cpu"}
  <2>1. \A d \in Cpu : shm'.owner[d] = shm.owner[d]
    <3>1. CASE job.op \in Serving
      BY <1>2, <3>1 DEF Moves, Keeps, Plays
    <3>2. CASE job.op = "lend"
      <4>1. Plays(shm, shm', job.pid)
        BY <1>0, <1>2, <3>2, LendPlays DEF Moves
      <4> QED BY <4>1 DEF Plays
    <3>3. CASE job.op = "deregister_cpu"
      <4>1. Leaves(shm, shm', job.pid, x)
        BY <1>0, <1>2, <3>3, DeregistersLeave DEF Moves
      <4>2. Cleaning(job.pid)
        BY <1>1, <3>3 DEF Cleaning, Leaving
      <4>3. shm.owner[x] # job.pid
        BY <1>2, <4>2 DEF WholeOK, OwnsNothing
      <4> QED BY <4>1, <4>3 DEF Leaves
    <3> QED BY <1>3, <3>1, <3>2, <3>3
  <2>2. job.op \notin {"register", "deregister"}
    BY <1>3 DEF Serving
  <2>3. \A c \in Cpu : \A d \in core_mask[c] : shm.owner[d] = shm.owner[c]
    BY <2>2 DEF WholeOK, CoresWhole, Splitting
  <2>4. CoresWhole'
    BY <1>c, <2>1, <2>3 DEF CoresWhole
  <2>5. OwnsNothing'
    BY <1>1, <1>2, <2>1 DEF WholeOK, OwnsNothing, Cleaning
  <2> QED BY <2>4, <2>5 DEF WholeOK
<1>4. CASE job.op = "register"
  <2>1. /\ shm'.owner[x] = job.pid /\ \A d \in Cpu \ {x} : shm'.owner[d] = shm.owner[d]
    BY <1>2, <1>4 DEF Moves, Registers, SameBut, Same
  <2>2. Registering(job.pid) /\ At(job.pid) = "registered"
    BY <1>1, <1>4 DEF Registering, JobRuns, At
  <2>3. x \in StartMask[job.pid]
    BY <1>2, <2>2 DEF Registered
  <2>4. \A d \in core_mask[x] : d \in StartMask[job.pid]
    BY <1>2, <2>3 DEF WholeCores
  <2>5. \A d \in core_mask[x] : \/ shm.owner[d] = job.pid
                                \/ shm.owner[d] = NOBODY /\ d \in job.todo
    BY <1>2, <2>2, <2>4 DEF Registered
  <2>6. ASSUME NEW c \in Cpu, NEW d \in core_mask[c]
        PROVE  shm'.owner[d] = shm'.owner[c] \/ Splitting(c, d)' \/ Splitting(d, c)'
    <3>0. d \in Cpu /\ c \in core_mask[d]
      BY <1>c
    <3>1. CASE c = d
      BY <3>1
    <3>2. CASE c = x /\ c # d
      BY <1>1, <1>2, <1>4, <2>1, <2>5, <3>0, <3>2 DEF Splitting
    <3>3. CASE d = x /\ c # d
      BY <1>1, <1>2, <1>4, <2>1, <2>5, <3>0, <3>3 DEF Splitting
    <3>4. CASE c # x /\ d # x
      BY <1>1, <1>2, <1>4, <2>1, <3>0, <3>4 DEF Splitting, WholeOK, CoresWhole
    <3> QED BY <3>1, <3>2, <3>3, <3>4
  <2>7. CoresWhole'
    BY <2>6 DEF CoresWhole
  <2>8. OwnsNothing'
    BY <1>2, <1>4 DEF OwnsNothing, Cleaning, Leaving
  <2> QED BY <2>7, <2>8 DEF WholeOK
<1>5. CASE job.op = "deregister"
  <2>1. \A d \in Cpu : shm'.owner[d] = IF d = x /\ shm.owner[d] = job.pid THEN NOBODY
                                       ELSE shm.owner[d]
    BY <1>2, <1>5 DEF Moves, Leaves
  <2>2. At(job.pid) = "closing" /\ ~Cleaning(job.pid)
    BY <1>1, <1>5 DEF JobRuns, At, Cleaning, Leaving
  <2>3. \A d \in Cpu : shm.owner[d] = job.pid => d \in job.todo
    BY <1>2, <2>2 DEF HoldersIn, MayOwn, Inside
  <2>6. ASSUME NEW c \in Cpu, NEW d \in core_mask[c]
        PROVE  shm'.owner[d] = shm'.owner[c] \/ Splitting(c, d)' \/ Splitting(d, c)'
    <3>0. d \in Cpu /\ c \in core_mask[d]
      BY <1>c
    <3>a. shm.owner[d] = shm.owner[c] \/ Splitting(c, d) \/ Splitting(d, c)
      BY DEF WholeOK, CoresWhole
    <3>1. CASE c = d
      BY <3>1
    <3>2. CASE c = x /\ c # d
      BY <1>0, <1>1, <1>2, <1>5, <2>1, <2>3, <3>0, <3>a, <3>2 DEF Splitting
    <3>3. CASE d = x /\ c # d
      BY <1>0, <1>1, <1>2, <1>5, <2>1, <2>3, <3>0, <3>a, <3>3 DEF Splitting
    <3>4. CASE c # x /\ d # x
      BY <1>1, <1>2, <1>5, <2>1, <3>0, <3>a, <3>4 DEF Splitting
    <3> QED BY <3>1, <3>2, <3>3, <3>4
  <2>7. CoresWhole'
    BY <2>6 DEF CoresWhole
  <2>8. OwnsNothing'
    BY <1>2, <1>5 DEF OwnsNothing, Cleaning, Leaving
  <2> QED BY <2>7, <2>8 DEF WholeOK
<1> QED BY <1>1, <1>3, <1>4, <1>5 DEF Op, Serving

(* Every step leaves the cores whole. *)
LEMMA WholeStep ==
  ASSUME hw_has_smt, WholeCores, "drom" \notin Calls, TypeOK, Control, Registered, HoldersIn,
         WholeOK, [Next]_vars
  PROVE  WholeOK'
<1>0. shm \in ShData
  BY DEF TypeOK
<1>c. \A c \in Cpu : \A d \in core_mask[c] : d \in Cpu
  BY CpuInfoAssumption
<1>s. ASSUME shm'.owner = shm.owner, \A c, d \in Cpu : ~Splitting(c, d),
             \A p \in Pid : Cleaning(p)' => \A c \in Cpu : shm.owner[c] # p
      PROVE  WholeOK'
  BY <1>c, <1>s DEF WholeOK, CoresWhole, OwnsNothing
<1>1. CASE JobStep
  <2>1. CASE Asks
    <3>1. /\ shm'.owner = shm.owner /\ job # NoJob /\ job'.pid = job.pid /\ job'.op = job.op
          /\ job.op \notin {"register", "deregister"}
      BY <2>1 DEF Asks, Still
    <3>2. \A p \in Pid : Cleaning(p)' => Cleaning(p)
      BY <3>1 DEF Cleaning
    <3> QED BY <1>s, <3>1, <3>2 DEF Splitting, WholeOK, OwnsNothing
  <2>2. CASE NextLoop
    <3>1. /\ shm' = shm /\ job # NoJob /\ job'.pid = job.pid
          /\ job.op \notin {"register", "deregister"} /\ (job'.op \in Leaving => job.op \in Leaving)
      BY <2>2, NextLoopShape DEF Serving, Petition, Leaving
    <3>2. \A p \in Pid : Cleaning(p)' => Cleaning(p)
      BY <3>1 DEF Cleaning
    <3> QED BY <1>s, <3>1, <3>2 DEF Splitting, WholeOK, OwnsNothing
  <2>3. CASE Unlock
    <3>1. job # NoJob /\ job' = NoJob /\ LoopDone /\ shm'.owner = shm.owner
      BY <1>0, <2>3 DEF Unlock, ShData
    <3>2. \A c, d \in Cpu : ~Splitting(c, d)
      BY <3>1 DEF Splitting, LoopDone, Counted
    <3> QED BY <1>s, <3>1, <3>2 DEF Cleaning
  <2> QED BY <1>1, <2>1, <2>2, <2>3, JobShape, WholeBody
<1>2. CASE ~JobStep
  <2>1. shm'.owner = shm.owner
    BY <1>2, TableStill
  <2>2. CASE job' = job
    BY <1>c, <2>1, <2>2 DEF WholeOK, CoresWhole, OwnsNothing, Splitting, Cleaning
  <2>3. CASE job = NoJob /\ job' # job
    <3>1. \A p \in Pid : pc[p] # "dead"
      BY DEF Control, WholeCores
    <3>2. \A p \in Pid : Cleaning(p)' => Finalize(p)
      BY <1>2, <2>3, <3>1, LockKept
    <3>3. ASSUME NEW p \in Pid, Finalize(p), NEW c \in Cpu PROVE shm.owner[c] # p
      BY <2>3, <3>3 DEF Finalize, HoldersIn, MayOwn, Cleaning, At, Inside
    <3> QED BY <1>s, <2>1, <2>3, <3>2, <3>3 DEF Splitting
  <2> QED BY <1>2, <2>2, <2>3, LockKept
<1> QED BY <1>1, <1>2

(* The owners of a core agree whenever the sets are brought up to date. *)
LEMMA CoresAgree ==
  ASSUME hw_has_smt => WholeOK, job # NoJob
  PROVE  /\ job.op \notin {"register", "deregister"} => Agree(shm)
         /\ job.op = "deregister" => \A c \in job.todo : c \in Cpu => AgreeAt(shm, c)
<1>1. CASE ~hw_has_smt
  BY <1>1, SingleCpuCore DEF Agree, AgreeAt
<1>2. CASE hw_has_smt
  <2>1. \A c \in Cpu : \A d \in core_mask[c] :
          shm.owner[d] = shm.owner[c] \/ Splitting(c, d) \/ Splitting(d, c)
    BY <1>2 DEF WholeOK, CoresWhole
  <2>2. job.op \notin {"register", "deregister"} => Agree(shm)
    BY <2>1 DEF Agree, AgreeAt, Splitting
  <2>3. job.op = "deregister" => \A c \in job.todo : c \in Cpu => AgreeAt(shm, c)
    BY <2>1 DEF AgreeAt, Splitting
  <2> QED BY <2>2, <2>3
<1> QED BY <1>1, <1>2

(* A loop under the lock keeps the sets. *)
LEMMA TrackedBody ==
  ASSUME WholeCores, "drom" \notin Calls, TypeOK, Control, Registered,
         hw_has_smt => WholeOK, Tracked(shm), NEW c \in Cpu, Body(c)
  PROVE  Tracked(shm')
<1>0. shm \in ShData
  BY DEF TypeOK
<1>1. /\ job # NoJob /\ job \in Job /\ JobRuns
      /\ job.op \in Op \ {"petition_n", "deregister_proc", "update_ownership"}
  BY JobExists DEF Body, TypeOK, Control, JobRuns
<1>2. /\ job.pid \in Pid \/ job.op = "return_async"
      /\ c \in job.todo /\ Moves(job.op, shm, shm', job.pid, c)
  BY <1>1 DEF TypeOK, JobOK, Body
<1>3. CASE job.op \in Serving
  <2>1. Agree(shm)
    BY <1>1, <1>3, CoresAgree DEF Serving
  <2> QED BY <1>2, <1>3, <2>1 DEF Moves, Keeps
<1>4. CASE job.op = "lend"
  <2>1. Agree(shm)
    BY <1>1, <1>4, CoresAgree
  <2> QED BY <1>0, <1>2, <1>4, <2>1, LendTracked DEF Moves, Agree
<1>5. CASE job.op = "register"
  <2>1. At(job.pid) = "registered" /\ Registering(job.pid)
    BY <1>1, <1>5 DEF JobRuns, At, Registering
  <2>2. c \in StartMask[job.pid]
    BY <1>2, <1>5, <2>1 DEF Registered
  <2>3. \A d \in core_mask[c] : d \in StartMask[job.pid]
    <3>1. CASE hw_has_smt
      BY <1>2, <1>5, <2>2, <3>1 DEF WholeCores
    <3>2. CASE ~hw_has_smt
      BY <2>2, <3>2, SingleCpuCore
    <3> QED BY <3>1, <3>2
  <2>4. \A d \in core_mask[c] : shm.owner[d] \in {NOBODY, job.pid}
    BY <1>2, <1>5, <2>1, <2>3 DEF Registered
  <2>5. shm.owner[c] \in {NOBODY, job.pid}
    BY <2>4, CpuInfoAssumption
  <2> QED BY <1>0, <1>2, <1>5, <2>4, <2>5, RegistersKeep DEF Moves
<1>6. CASE job.op = "deregister"
  <2>1. AgreeAt(shm, c)
    BY <1>1, <1>2, <1>6, CoresAgree
  <2> QED BY <1>2, <1>6, <2>1 DEF Moves
<1>7. CASE job.op = "deregister_cpu"
  <2>1. shm.owner[c] # job.pid \/ core_mask[c] = {c}
    <3>1. CASE hw_has_smt
      BY <1>1, <1>2, <1>7, <3>1 DEF WholeOK, OwnsNothing, Cleaning, Leaving
    <3>2. CASE ~hw_has_smt
      BY <3>2, SingleCpuCore
    <3> QED BY <3>1, <3>2
  <2> QED BY <1>0, <1>2, <1>7, <2>1, DeregistersLeave DEF Moves
<1>8. CASE job.op = "petition_cpu"
  BY <1>2, <1>8 DEF Moves, Still, Tracked, OccupiedTracked
<1>9. CASE job.op = "return_async"
  <2>1. Agree(shm)
    BY <1>1, <1>9, CoresAgree
  <2> QED BY <1>0, <1>2, <1>9, <2>1, VacatesTracked DEF Moves, Agree
<1> QED BY <1>1, <1>3, <1>4, <1>5, <1>6, <1>7, <1>8, <1>9 DEF Op, Serving

(* Every step keeps the sets. *)
LEMMA TrackedStep ==
  ASSUME WholeCores, "drom" \notin Calls, "check" \notin Calls, TypeOK, Control, Registered,
         hw_has_smt => WholeOK, Tracked(shm), [Next]_vars
  PROVE  Tracked(shm')
<1>0. shm \in ShData
  BY DEF TypeOK
<1>s. ASSUME shm'.owner = shm.owner, shm'.guest = shm.guest, shm'.state = shm.state,
             shm'.free_cpus = shm.free_cpus, shm'.occupied_cores = shm.occupied_cores
      PROVE  Tracked(shm')
  BY <1>s DEF Tracked, OccupiedTracked
<1>1. CASE JobStep
  <2>1. CASE Asks \/ NextLoop \/ Unlock
    BY <1>0, <1>s, <2>1 DEF Asks, Still, NextLoop, Unlock, ShData
  <2> QED BY <1>1, <2>1, JobShape, TrackedBody
<1>2. CASE ~JobStep
  BY <1>2, <1>s, TableStill
<1> QED BY <1>1, <1>2

(* free_cpus and occupied_cores never hide a CPU from the calls that look  *)
(* for idle CPUs, for CPUs to give back and for CPUs to reclaim: in        *)
(* polling and in asynchronous mode, with any number of processes, where   *)
(* the owners of CPUs do not change (DROM), nobody looks at a CPU without  *)
(* the lock (check_cpu_availability), and with SMT processes have whole    *)
(* cores and do not crash.                                                 *)
THEOREM SetsAlwaysTrackCpus ==
  ASSUME WholeCores, "drom" \notin Calls, "check" \notin Calls
  PROVE  Spec => []SetsTrackCpus
<1> DEFINE Whole == hw_has_smt => HoldersIn /\ WholeOK
<1>1. Init => Whole /\ Tracked(shm)
  <2> SUFFICES ASSUME Init PROVE HoldersIn /\ WholeOK /\ Tracked(shm)
    OBVIOUS
  <2>1. \A c \in Cpu : /\ shm.owner[c] = NOBODY /\ shm.guest[c] = NOBODY
                       /\ shm.state[c] = "DISABLED" \/ (shm.state[c] = "LENT" /\ c \in shm.free_cpus)
    <3>1. CASE ~PublicPostMortem
      BY <3>1 DEF Init, init_shmem
    <3>2. CASE PublicPostMortem
      BY <3>2 DEF Init, init_shmem
    <3> QED BY <3>1, <3>2
  <2>2. NOBODY \notin Pid /\ \A c \in Cpu : \A d \in core_mask[c] : d \in Cpu
    BY CpuInfoAssumption
  <2>3. HoldersIn
    BY <2>1, <2>2 DEF HoldersIn
  <2>4. WholeOK
    BY <2>1, <2>2 DEF WholeOK, CoresWhole, OwnsNothing
  <2>5. Tracked(shm)
    BY <2>1 DEF Tracked, OccupiedTracked
  <2> QED BY <2>3, <2>4, <2>5
<1>2. TypeOK /\ Control /\ Registered /\ Whole /\ Tracked(shm) /\ [Next]_vars
        => Control' /\ Registered' /\ Whole' /\ Tracked(shm)'
  <2> SUFFICES ASSUME TypeOK, Control, Registered, Whole, Tracked(shm), [Next]_vars
               PROVE  Control' /\ Registered' /\ Whole' /\ Tracked(shm)'
    OBVIOUS
  <2>1. Control' /\ Registered' /\ Tracked(shm)'
    BY ControlStep, RegisteredStep, TrackedStep
  <2>2. ASSUME hw_has_smt PROVE HoldersIn' /\ WholeOK'
    BY <2>2, HoldersStep, WholeStep, LewiMaskAssumption
  <2> QED BY <2>1, <2>2
<1>3. Tracked(shm) => SetsTrackCpus
  BY DEF Tracked, SetsTrackCpus, NotHidden, OccupiedTracked, IdleTracked
<1> HIDE DEF Whole
<1> QED BY <1>1, <1>2, <1>3, TypeCorrect, InitControl, InitRegistered, PTL DEF Spec

-----------------------------------------------------------------------------
(* LeWI implements CpuSharing *)

Sharers == {"registered", "ready", "disabled", "check"}

(* An owned CPU is enabled. *)
OwnedEnabled == \A c \in Cpu : shm.owner[c] # NOBODY => shm.state[c] # "DISABLED"

(* A step that moves no CPU and changes no membership is none. *)
LEMMA StaysShared ==
  ASSUME shm'.owner = shm.owner, shm'.guest = shm.guest, shm'.state = shm.state,
         \A p \in Pid : At(p)' \in Sharers <=> At(p) \in Sharers
  PROVE  UNCHANGED Sharing!vars
<1>1. Members' = Members
  BY DEF Members, Sharers
<1> QED BY <1>1 DEF Sharing!vars

(* A process that enters the node with nothing joins. *)
LEMMA JoinShares ==
  ASSUME NEW p \in Pid, shm'.owner = shm.owner, shm'.guest = shm.guest, shm'.state = shm.state,
         At(p) \notin Sharers, At(p)' \in Sharers, \A q \in Pid \ {p} : At(q)' = At(q),
         \A c \in Cpu : shm.owner[c] # p /\ shm.guest[c] # p
  PROVE  Sharing!Next
<1>1. p \notin Members /\ Members' = Members \cup {p}
  BY DEF Members, Sharers
<1>2. Sharing!Join(p)
  BY <1>1 DEF Sharing!Join
<1> QED BY <1>2 DEF Sharing!Next

(* One that stops sharing, or dies, quits. *)
LEMMA QuitShares ==
  ASSUME NEW p \in Pid, shm'.owner = shm.owner, shm'.guest = shm.guest, shm'.state = shm.state,
         At(p) \in Sharers, At(p)' \notin Sharers, \A q \in Pid \ {p} : At(q)' = At(q)
  PROVE  Sharing!Next
<1>1. p \in Members /\ Members' = Members \ {p}
  BY DEF Members, Sharers
<1>2. Sharing!Quit(p)
  BY <1>1 DEF Sharing!Quit
<1> QED BY <1>2 DEF Sharing!Next

(* The fields of the table that the abstract specification sees. *)
LEMMA SharedTables ==
  ASSUME shm' \in ShData
  PROVE  Sharing!Tables
BY DEF ShData, CpuState, PidOrNobody, Sharing!Tables

(* A member acts on each CPU in one of the ways of CpuSharing. *)
LEMMA PassesShare ==
  ASSUME NEW p \in Pid, At(p) \in Sharers, \A q \in Pid : At(q)' = At(q), shm' \in ShData,
         \A d \in Cpu : Passes(shm, shm', p, d) \/ Sharing!Enters(p, d)
  PROVE  Sharing!Next
<1>1. p \in Members /\ Members' = Members
  BY DEF Members, Sharers
<1>2. ASSUME NEW d \in Cpu, Passes(shm, shm', p, d)
      PROVE  \/ Sharing!Stays(d) \/ Sharing!Claims(p, d) \/ Sharing!Lends(p, d)
             \/ Sharing!Borrows(p, d) \/ Sharing!Returns(p, d) \/ Sharing!Wakes(d)
  BY <1>2 DEF Passes, Sharing!Stays, Sharing!Claims, Sharing!Lends, Sharing!Borrows,
              Sharing!Returns, Sharing!Wakes
<1>3. Sharing!Share(p)
  BY <1>1, <1>2, SharedTables DEF Sharing!Share
<1> QED BY <1>3 DEF Sharing!Next

(* What a process had is taken from it once it is no member. *)
LEMMA PartsShare ==
  ASSUME NEW p \in Pid, At(p) \notin Sharers, \A q \in Pid : At(q)' = At(q), shm' \in ShData,
         \A d \in Cpu : Parts(shm, shm', p, d)
  PROVE  Sharing!Next
<1>1. p \notin Members /\ Members' = Members
  BY DEF Members, Sharers
<1>2. ASSUME NEW d \in Cpu
      PROVE  \/ Sharing!Stays(d) \/ Sharing!Drops(p, d) \/ Sharing!Abandons(p, d)
             \/ Sharing!Returns(p, d) \/ Sharing!Wakes(d)
  BY DEF Parts, Sharing!Stays, Sharing!Drops, Sharing!Abandons, Sharing!Returns, Sharing!Wakes
<1>3. Sharing!Withdraw(p)
  BY <1>1, <1>2, SharedTables DEF Sharing!Withdraw
<1> QED BY <1>3 DEF Sharing!Next

(* Every turn of a loop is one act of the process it runs for. *)
LEMMA BodyShares ==
  ASSUME ~Async, "drom" \notin Calls, TypeOK, Control, Registered, OwnedEnabled,
         NEW c \in Cpu, Body(c)
  PROVE  Sharing!Next /\ OwnedEnabled'
<1>0. shm \in ShData /\ ~shm.queues_enabled /\ NOBODY \notin Pid
  BY CpuInfoAssumption DEF TypeOK, Control
<1>1. /\ job # NoJob /\ job \in Job /\ JobRuns
      /\ job.op \in Op \ {"petition_n", "petition_cpu", "deregister_proc", "return_async",
                          "update_ownership"}
  BY JobExists DEF Body, TypeOK, Control, JobRuns, Petition
<1>2. job.pid \in Pid /\ c \in job.todo /\ Moves(job.op, shm, shm', job.pid, c)
  BY <1>1 DEF TypeOK, JobOK, Body
<1>3. shm' \in ShData /\ \A q \in Pid : At(q)' = At(q)
  BY <1>1, <1>2, MovesTable DEF Body, At
<1>4. CASE job.op \in Serving \cup {"lend"}
  <2>1. At(job.pid) \in Sharers
    BY <1>1, <1>4 DEF JobRuns, At, Sharers
  <2>2. \A d \in Cpu : Passes(shm, shm', job.pid, d)
    <3>1. CASE job.op \in Serving
      BY <1>0, <1>2, <3>1 DEF Moves, Keeps
    <3>2. CASE job.op = "lend"
      BY <1>0, <1>2, <3>2, LendPasses DEF Moves
    <3> QED BY <1>4, <3>1, <3>2
  <2>3. Sharing!Next
    BY <1>2, <1>3, <2>1, <2>2, PassesShare
  <2>4. OwnedEnabled'
    BY <2>2 DEF OwnedEnabled, Passes
  <2> QED BY <2>3, <2>4
<1>5. CASE job.op = "register"
  <2>1. At(job.pid) = "registered" /\ Registering(job.pid)
    BY <1>1, <1>5 DEF JobRuns, At, Registering
  <2>2. shm.owner[c] \in {NOBODY, job.pid}
    BY <1>2, <2>1 DEF Registered
  <2>3. Registers(shm, shm', job.pid, c)
    BY <1>2, <1>5 DEF Moves
  <2>4. ASSUME NEW d \in Cpu PROVE Passes(shm, shm', job.pid, d) \/ Sharing!Enters(job.pid, d)
    <3>1. CASE d # c
      BY <2>3, <3>1 DEF Registers, SameBut, Same, Passes
    <3>2. CASE d = c
      BY <2>2, <2>3, <3>2 DEF Registers, Passes, Sharing!Enters
    <3> QED BY <3>1, <3>2
  <2>5. Sharing!Next
    BY <1>2, <1>3, <2>1, <2>4, PassesShare DEF Sharers
  <2>6. OwnedEnabled'
    BY <2>3 DEF OwnedEnabled, Registers, SameBut, Same
  <2> QED BY <2>5, <2>6
<1>6. CASE job.op \in {"deregister", "deregister_cpu"}
  <2>1. At(job.pid) \notin Sharers
    BY <1>1, <1>6 DEF JobRuns, At, Sharers, Leaving
  <2>2. Leaves(shm, shm', job.pid, c)
    BY <1>0, <1>2, <1>6, DeregistersLeave DEF Moves
  <2>3. shm.owner[c] = job.pid => shm.state[c] # "DISABLED"
    BY <1>0, <1>2 DEF OwnedEnabled
  <2>4. \A d \in Cpu : Parts(shm, shm', job.pid, d)
    BY <1>0, <2>2, <2>3 DEF Leaves
  <2>5. Sharing!Next
    BY <1>2, <1>3, <2>1, <2>4, PartsShare
  <2>6. OwnedEnabled'
    BY <2>4 DEF OwnedEnabled, Parts
  <2> QED BY <2>5, <2>6
<1> QED BY <1>1, <1>4, <1>5, <1>6 DEF Op, Serving

(* Every step is a step of CpuSharing, or none. *)
LEMMA ShareStep ==
  ASSUME ~Async, "drom" \notin Calls, "check" \notin Calls,
         TypeOK, Control, Registered, HoldersIn, OwnedEnabled, [Next]_vars
  PROVE  [Sharing!Next]_(Sharing!vars) /\ OwnedEnabled'
<1>0. /\ shm \in ShData /\ ~shm.queues_enabled
      /\ pc \in [Pid -> PC] /\ ret \in [Pid -> PC]
      /\ \A p \in Pid : ret[p] \notin {"locked", "resolve", "return_async"}
  BY DEF TypeOK, Control
<1>1. CASE \E c \in Cpu : Body(c)
  BY <1>1, BodyShares
<1>2. CASE ~\E c \in Cpu : Body(c)
  <2>1. shm'.owner = shm.owner /\ shm'.guest = shm.guest /\ shm'.state = shm.state
    <3>1. CASE JobStep
      <4>1. Asks \/ NextLoop \/ Unlock
        BY <1>2, <3>1, JobShape
      <4> QED BY <1>0, <4>1 DEF Asks, Still, NextLoop, Unlock, ShData
    <3>2. CASE ~JobStep
      BY <3>2, TableStill
    <3> QED BY <3>1, <3>2
  <2>2. OwnedEnabled'
    BY <2>1 DEF OwnedEnabled
  <2>s. ASSUME \A q \in Pid : At(q)' \in Sharers <=> At(q) \in Sharers
        PROVE  [Sharing!Next]_(Sharing!vars)
    BY <2>1, <2>s, StaysShared
  <2>3. CASE JobStep
    <3>1. CASE Asks \/ NextLoop
      <4>1. \A q \in Pid : At(q)' = At(q)
        BY <3>1 DEF Asks, NextLoop, At
      <4> QED BY <2>2, <2>s, <4>1
    <3>2. CASE Unlock
      <4>1. /\ ret' = ret /\ job # NoJob
            /\ pc' = [pc EXCEPT ![job.by] = "resolve"] \/ pc' = [pc EXCEPT ![job.by] = ret[job.by]]
        BY <3>2 DEF Unlock
      <4>2. job.by \in Pid /\ pc[job.by] = "locked"
        BY <4>1, JobExists DEF TypeOK, Control, JobRuns
      <4>3. \A q \in Pid : At(q)' = At(q)
        BY <1>0, <4>1, <4>2 DEF At
      <4> QED BY <2>2, <2>s, <4>3
    <3> QED BY <1>2, <2>3, <3>1, <3>2, JobShape
  <2>4. ASSUME NEW p \in Pid, ClientCall(p) PROVE [Sharing!Next]_(Sharing!vars)
    <3>1. CASE Opens(p)
      <4>1. /\ At(p)' \in Sharers /\ At(p) \in Sharers
            /\ \A q \in Pid \ {p} : At(q)' = At(q)
        BY <1>0, <3>1 DEF Opens, At, Sharers
      <4> QED BY <2>s, <4>1
    <3>2. CASE RemoveRequests(p) \/ UnsetMaxParallelism(p)
      <4>1. \A q \in Pid : At(q)' = At(q)
        BY <3>2 DEF RemoveRequests, UnsetMaxParallelism, At
      <4> QED BY <2>s, <4>1
    <3>3. CASE EnableDLB(p)
      <4>1. pc[p] = "disabled" /\ pc' = [pc EXCEPT ![p] = "ready"] /\ ret' = ret
        BY <3>3 DEF EnableDLB
      <4>2. /\ At(p)' \in Sharers /\ At(p) \in Sharers
            /\ \A q \in Pid \ {p} : At(q)' = At(q)
        BY <1>0, <4>1 DEF At, Sharers
      <4> QED BY <2>s, <4>2
    <3>4. ~CheckCpuAvailability(p)
      BY DEF CheckCpuAvailability
    <3> QED BY <2>4, <3>1, <3>2, <3>3, <3>4, CallShape
  <2>5. ASSUME NEW p \in Pid, Resolve(p) PROVE [Sharing!Next]_(Sharing!vars)
    <3>1. ResolveOwn(p)
      BY <2>5 DEF Resolve, Notify, ReturnAsync, CheckLocked, Control
    <3>2. /\ ret' = ret /\ pc[p] = "resolve"
          /\ pc' = [pc EXCEPT ![p] = "resolve"] \/ pc' = [pc EXCEPT ![p] = ret[p]]
      BY <3>1 DEF ResolveOwn
    <3>3. \A q \in Pid : At(q)' = At(q)
      BY <1>0, <3>2 DEF At
    <3> QED BY <2>s, <3>3
  <2>6. ASSUME NEW p \in Pid, Helper(p) PROVE [Sharing!Next]_(Sharing!vars)
    <3>1. \A q \in Pid : At(q)' = At(q)
      BY <2>6 DEF Helper, At
    <3> QED BY <2>s, <3>1
  <2>7. ASSUME NEW p \in Pid, Lifecycle(p) PROVE [Sharing!Next]_(Sharing!vars)
    <3>1. CASE Attach(p) \/ Leave(p)
      <4>1. /\ ret' = ret /\ pc[p] \in {"out", "joining"}
            /\ \E x \in {"attached", "out"} : pc' = [pc EXCEPT ![p] = x]
        BY <3>1 DEF Attach, Leave
      <4>2. /\ At(p)' \notin Sharers /\ At(p) \notin Sharers
            /\ \A q \in Pid \ {p} : At(q)' = At(q)
        BY <1>0, <4>1 DEF At, Sharers
      <4> QED BY <2>s, <4>2
    <3>2. CASE Register(p)
      <4>1. /\ job = NoJob /\ pc[p] = "attached"
            /\ \E x \in {"locked", "closing"} : pc' = [pc EXCEPT ![p] = x]
            /\ ret' = [ret EXCEPT ![p] = "registered"]
        BY <3>2 DEF Register, Lock
      <4>2. At(p) = "attached" /\ \A q \in Pid \ {p} : At(q)' = At(q)
        BY <1>0, <4>1 DEF At
      <4>3. \A c \in Cpu : shm.owner[c] # p /\ shm.guest[c] # p
        BY <4>1, <4>2 DEF HoldersIn, MayOwn, MayUse, Cleaning, Inside
      <4>4. CASE At(p)' \in Sharers
        BY <2>1, <4>2, <4>3, <4>4, JoinShares DEF Sharers
      <4>5. CASE At(p)' \notin Sharers
        BY <2>s, <4>2, <4>5 DEF Sharers
      <4> QED BY <4>4, <4>5
    <3>3. CASE LewiInit(p)
      <4>1. pc[p] = "registered" /\ pc' = [pc EXCEPT ![p] = "ready"] /\ ret' = ret
        BY <3>3 DEF LewiInit
      <4>2. /\ At(p)' \in Sharers /\ At(p) \in Sharers
            /\ \A q \in Pid \ {p} : At(q)' = At(q)
        BY <1>0, <4>1 DEF At, Sharers
      <4> QED BY <2>s, <4>2
    <3>4. CASE Finish(p)
      <4>1. /\ pc[p] \in {"ready", "disabled"} /\ pc' = [pc EXCEPT ![p] = "locked"]
            /\ ret' = [ret EXCEPT ![p] = "closing"]
        BY <3>4 DEF Finish, Lock
      <4>2. /\ At(p) \in Sharers /\ At(p)' \notin Sharers
            /\ \A q \in Pid \ {p} : At(q)' = At(q)
        BY <1>0, <4>1 DEF At, Sharers
      <4> QED BY <2>1, <4>2, QuitShares
    <3>5. CASE Finalize(p)
      <4>1. /\ pc[p] = "closing" /\ pc' = [pc EXCEPT ![p] = "locked"]
            /\ ret' = [ret EXCEPT ![p] = "joining"]
        BY <3>5 DEF Finalize, Lock
      <4>2. /\ At(p)' \notin Sharers /\ At(p) \notin Sharers
            /\ \A q \in Pid \ {p} : At(q)' = At(q)
        BY <1>0, <4>1 DEF At, Sharers
      <4> QED BY <2>s, <4>2
    <3>6. CASE Crash(p)
      <4>1. ret' = ret /\ pc' = [pc EXCEPT ![p] = "dead"]
        BY <3>6 DEF Crash
      <4>2. At(p)' \notin Sharers /\ \A q \in Pid \ {p} : At(q)' = At(q)
        BY <1>0, <4>1 DEF At, Sharers
      <4>3. CASE At(p) \in Sharers
        BY <2>1, <4>2, <4>3, QuitShares
      <4>4. CASE At(p) \notin Sharers
        BY <2>s, <4>2, <4>4
      <4> QED BY <4>3, <4>4
    <3>7. ASSUME NEW q \in Pid, Cleanup(p, q) PROVE [Sharing!Next]_(Sharing!vars)
      <4>1. /\ pc[p] = "out" /\ pc[q] = "dead"
            /\ pc' = [pc EXCEPT ![p] = "locked", ![q] = "out"]
            /\ ret' = [ret EXCEPT ![p] = "out"]
        BY <3>7 DEF Cleanup
      <4>2. \A x \in {p, q} : At(x) \notin Sharers /\ At(x)' \notin Sharers
        BY <1>0, <4>1 DEF At, Sharers
      <4>3. \A x \in Pid \ {p, q} : At(x)' = At(x)
        BY <1>0, <4>1 DEF At
      <4> QED BY <2>s, <4>2, <4>3
    <3> QED BY <2>7, <3>1, <3>2, <3>3, <3>4, <3>5, <3>6, <3>7 DEF Lifecycle
  <2>8. CASE UNCHANGED vars
    <3>1. \A q \in Pid : At(q)' = At(q)
      BY <2>8 DEF vars, At
    <3> QED BY <2>2, <2>s, <3>1
  <2> QED BY <2>2, <2>3, <2>4, <2>5, <2>6, <2>7, <2>8 DEF Next
<1> QED BY <1>1, <1>2

(* In polling mode, where nobody changes the owners of CPUs (DROM) or      *)
(* looks at a CPU without the lock (check_cpu_availability), the CPU table *)
(* and the loops of lewi_mask and shmem_cpuinfo implement CpuSharing: a    *)
(* CPU changes hands only by an act of its owner, of its guest, or of a    *)
(* process that finds it lent and idle, whatever the calls do in a row and *)
(* whoever dies between them.                                              *)
THEOREM SharingIsImplemented ==
  ASSUME ~Async, "drom" \notin Calls, "check" \notin Calls
  PROVE  Spec => SharesCpus
<1>1. Init => Sharing!Init /\ HoldersIn /\ OwnedEnabled
  <2> SUFFICES ASSUME Init PROVE Sharing!Init /\ HoldersIn /\ OwnedEnabled
    OBVIOUS
  <2>1. /\ shm.owner = [c \in Cpu |-> NOBODY] /\ shm.guest = [c \in Cpu |-> NOBODY]
        /\ shm.state \in {[c \in Cpu |-> "DISABLED"], [c \in Cpu |-> "LENT"]}
    BY DEF Init, init_shmem
  <2>2. NOBODY \notin Pid
    BY CpuInfoAssumption
  <2>3. Members = {}
    BY DEF Init, Members, At
  <2>4. Sharing!Init
    BY <2>1, <2>3 DEF Sharing!Init
  <2>5. HoldersIn /\ OwnedEnabled
    BY <2>1, <2>2 DEF HoldersIn, OwnedEnabled
  <2> QED BY <2>4, <2>5
<1>2. TypeOK /\ Control /\ Registered /\ HoldersIn /\ OwnedEnabled /\ [Next]_vars
        => /\ Control' /\ Registered' /\ HoldersIn' /\ OwnedEnabled'
           /\ [Sharing!Next]_(Sharing!vars)
  BY ControlStep, RegisteredStep, HoldersStep, ShareStep
<1> QED BY <1>1, <1>2, TypeCorrect, InitControl, InitRegistered, PTL
        DEF Spec, SharesCpus, Sharing!Spec
=============================================================================
