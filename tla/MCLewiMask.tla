---------------------------- MODULE MCLewiMask ----------------------------
(***************************************************************************)
(* An instance of LewiMask for TLC: two processes without helpers that     *)
(* stay, and make the calls of a runtime that polls.                       *)
(***************************************************************************)
EXTENDS LewiMask

CONSTANTS p1, p2

Pids2 == {p1, p2}

Smt1 == [c \in Cpu |-> {c}]

(* p1 is started on CPU 0, p2 on the others. *)
Start2 == [p \in Pid |-> IF p = p1 THEN {0} ELSE Cpu \ {0}]

WholeMask == {Cpu}

(* The steps of Next that these calls can lead to. *)
MCNext ==
  \/ LendStep \/ ReclaimStep \/ ReclaimCpuStep \/ AcquireStep \/ BorrowStep
  \/ ReturnAllStep \/ ResetStep \/ RegisterStep \/ NextLoop \/ Unlock
  \/ \E p \in Pid :
       \/ Attach(p) \/ Register(p) \/ LewiInit(p)
       \/ Lend(p) \/ Reclaim(p) \/ ReclaimCpu(p) \/ Acquire(p) \/ RemoveRequests(p)
       \/ Borrow(p) \/ Return(p) \/ DisableDLB(p) \/ EnableDLB(p)
       \/ ResolveOwn(p)

MCPollingSpec == Init /\ [][MCNext]_vars /\ WF_vars(JobStep)
=============================================================================
