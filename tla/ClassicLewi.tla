---------------------------- MODULE ClassicLewi ----------------------------
(***************************************************************************)
(* LeWI without CPU binding (LB_policies/lewi.c over                       *)
(* LB_comm/comm_lend_light.c): the processes of the node share one count   *)
(* of idle CPUs, changed by atomic instructions and without a lock; each   *)
(* process keeps in static variables how many CPUs it uses.                *)
(***************************************************************************)
EXTENDS Shmem, FiniteSetsExt

CONSTANT
    Ncpus   \* Proc -> default_cpus, the CPUs the process starts with

ASSUME LewiAssumption == \A p \in Proc : Ncpus[p] \in Nat \ {0}

VARIABLES
    lw,     \* Proc -> the static variables: myCPUS, enabled, max_parallelism
    reads,  \* Thread -> the values that the thread has read of idleCpus
    below   \* history: the processes that have taken a count of CPUs below zero

lewiVars == <<lw, reads, below>>

LewiInit ==
    /\ lw = [p \in Proc |-> [my |-> 0, enabled |-> FALSE, max |-> 0]]
    /\ reads = [t \in Thread |-> <<>>]
    /\ below = {}

P(t) == ProcOf[t]

My(t) == lw[P(t)].my

Idle(t) == Mine(t).idle

(* An access to shdata while the memory is not mapped, or a call through a *)
(* pointer that is NULL.                                                   *)
Crashed(t) == Len(todo[t]) > 0 /\ Head(todo[t]).op = "null"

Null(t) == todo' = [todo EXCEPT ![t] = <<Op("null")>>]

(* setThreads_Lend_light.                                                  *)
threads(t) ==
    /\ Doing(t, "threads")
    /\ lw' = [lw EXCEPT ![P(t)].my = Arg(t)]
    /\ Done(t)
    /\ UNCHANGED <<name, seg, map, handler, subs, alive, reads, below>>

(***************************************************************************)
(* The shared count.                                                       *)
(***************************************************************************)

(* ConfigShMem after open_shmem: the first one attached clears the count.  *)
config_then(t) ==
    Then(t, IF Mine(t).nprocs = 0 THEN <<Op("reset")>> ELSE <<>>)

config(t) ==
    /\ Doing(t, "config")
    /\ Write(t, "nprocs", Mine(t).nprocs + 1)
    /\ config_then(t)
    /\ UNCHANGED <<name, map, handler, subs, alive, lw, reads, below>>

reset(t) ==
    /\ Doing(t, "reset")
    /\ Write(t, "idle", 0)
    /\ Done(t)
    /\ UNCHANGED <<name, map, handler, subs, alive, lw, reads, below>>

(* finalize_comm and close_shmem.                                          *)
detach(t) ==
    /\ Doing(t, "detach")
    /\ IF handler[P(t)]
       THEN /\ Write(t, "nprocs", Mine(t).nprocs - 1)
            /\ subs' = [subs EXCEPT ![P(t)] = @ - 1]
            /\ Then(t, IF subs[P(t)] = 1 THEN shmem_finalize ELSE <<>>)
       ELSE Done(t) /\ UNCHANGED <<seg, subs>>
    /\ UNCHANGED <<name, map, handler, alive, lw, reads, below>>

(* releaseCpus(n).                                                         *)
release(t) ==
    /\ Doing(t, "release")
    /\ IF map[P(t)] = 0 THEN Null(t) /\ UNCHANGED seg
       ELSE Write(t, "idle", Idle(t) + Arg(t)) /\ Done(t)
    /\ UNCHANGED <<name, map, handler, subs, alive, lw, reads, below>>

(* acquireCpus(current): the process takes what it lacks of its default,   *)
(* and gives what it has more, whether or not there are idle CPUs.  A      *)
(* greedy process then takes all that is left: it reads the count, swaps   *)
(* it for zero, and adds what the swap found, also when the swap failed    *)
(* and also when the count has gone below zero.                            *)
acquire(t) ==
    /\ Doing(t, "acquire")
    /\ LET lacks == Ncpus[P(t)] - Arg(t)
           left == Idle(t) - lacks
       IN IF map[P(t)] = 0 THEN Null(t) /\ UNCHANGED seg
          ELSE
          /\ Write(t, "idle", left)
          /\ Then(t, IF left > 0 /\ opts[P(t)].greedy THEN <<Op("grab_read")>> ELSE <<>>)
    /\ reads' = [reads EXCEPT ![t] = <<Ncpus[P(t)]>>]
    /\ UNCHANGED <<name, map, handler, subs, alive, lw, below>>

grab_read(t) ==
    /\ Doing(t, "grab_read")
    /\ Then(t, <<With("grab", Idle(t))>>)
    /\ UNCHANGED <<name, seg, map, handler, subs, alive, lw, reads, below>>

grab(t) ==
    /\ Doing(t, "grab")
    /\ Write(t, "idle", IF Idle(t) = Arg(t) THEN 0 ELSE Idle(t))
    /\ reads' = [reads EXCEPT ![t] = <<Ncpus[P(t)] + Idle(t)>>]
    /\ below' = IF Idle(t) < 0 THEN below \union {P(t)} ELSE below
    /\ Done(t)
    /\ UNCHANGED <<name, map, handler, subs, alive, lw>>

(* setThreads_Lend_light with the result of the acquire.                   *)
use(t) ==
    /\ Doing(t, "use")
    /\ lw' = [lw EXCEPT ![P(t)].my = reads[t][1]]
    /\ reads' = [reads EXCEPT ![t] = <<>>]
    /\ Done(t)
    /\ UNCHANGED <<name, seg, map, handler, subs, alive, below>>

(* checkIdleCpus reads idleCpus up to five times: for the two conditions,  *)
(* for aux, and for the two operands of the swap.  A build that reads it   *)
(* once and uses the value again behaves as if no other process had        *)
(* changed it in between.                                                  *)
check_read(t) ==
    /\ Doing(t, "check_read")
    /\ LET r == Append(reads[t], Idle(t))
           releases == r[1] < 0 /\ My(t) > Ncpus[P(t)]
           enough == Len(r) = 5 \/ (releases /\ Len(r) >= 2) \/
                     (~releases /\ Len(r) >= 2 /\ r[2] <= 0)
       IN IF map[P(t)] = 0 THEN Null(t) /\ UNCHANGED reads
          ELSE
          /\ reads' = [reads EXCEPT ![t] = r]
          /\ IF enough THEN Then(t, <<With("check_swap", Arg(t))>>)
                       ELSE UNCHANGED todo
    /\ UNCHANGED <<name, seg, map, handler, subs, alive, lw, below>>

(* Mutant: the swap does not compare.                                      *)
swaps_anyway(t, old) == TRUE

(* __sync_bool_compare_and_swap of idleCpus.                               *)
swaps(t, old) == Idle(t) = old

(* The process gives back CPUs when the count is negative and it uses more *)
(* than its own; it takes idle CPUs, at most Arg(t), when there are some.  *)
check_swap(t) ==
    /\ Doing(t, "check_swap")
    /\ LET r == reads[t]
           releases == r[1] < 0 /\ My(t) > Ncpus[P(t)]
           takes == ~releases /\ r[2] > 0
           abs == IF r[2] < 0 THEN -r[2] ELSE r[2]
           gives == Min({abs, My(t) - Ncpus[P(t)]})
           aux == Min({r[3], Arg(t)})
           old == IF releases THEN r[2] ELSE r[4]
           new == IF releases THEN r[2] + gives ELSE r[5] - aux
           done == (releases \/ takes) /\ swaps(t, old)
           my == IF ~done THEN My(t) ELSE IF releases THEN My(t) - gives ELSE My(t) + aux
       IN /\ seg' = IF done THEN [seg EXCEPT ![map[P(t)]].idle = new] ELSE seg
          /\ Then(t, IF my # My(t) THEN <<With("threads", my)>> ELSE <<>>)
          /\ below' = IF done /\ takes /\ r[3] < 0 THEN below \union {P(t)} ELSE below
    /\ reads' = [reads EXCEPT ![t] = <<>>]
    /\ UNCHANGED <<name, map, handler, subs, alive, lw>>

(***************************************************************************)
(* The policy.  Each function reads the static variables when it starts.   *)
(***************************************************************************)

lewi_Init(t) ==
    <<With("threads", Ncpus[P(t)])>> \o
    (IF handler[P(t)] THEN <<Op("reopened")>> ELSE shmem_init) \o
    <<Op("config"), With("lewi_enabled", 1)>>

lewi_Finalize == <<Op("detach")>>

lewi_EnableDLB == <<With("lewi_enabled", 1)>>

lewi_DisableDLB(t) ==
    (IF lw[P(t)].enabled THEN <<With("acquire", My(t)), With("threads", Ncpus[P(t)])>>
                         ELSE <<>>) \o <<With("lewi_enabled", 0)>>

lewi_SetMaxParallelism(t, max) ==
    (IF My(t) > max THEN <<With("release", My(t) - max), With("threads", max)>> ELSE <<>>)
    \o <<With("max_parallelism", max)>>

lewi_UnsetMaxParallelism == <<With("max_parallelism", 0)>>

Kept(t) == IF opts[P(t)].keep THEN 1 ELSE 0

lewi_IntoBlockingCall(t) ==
    IF lw[P(t)].enabled THEN <<With("release", My(t) - Kept(t)), With("threads", Kept(t))>> ELSE <<>>

(* Mutant: the CPUs come back only when the process kept one.              *)
lewi_OutOfBlockingCall_kept_only(t) ==
    IF lw[P(t)].enabled /\ My(t) > 0 THEN <<With("acquire", My(t)), Op("use")>> ELSE <<>>

lewi_OutOfBlockingCall(t) ==
    IF lw[P(t)].enabled THEN <<With("acquire", My(t)), Op("use")>> ELSE <<>>

lewi_Lend(t) == <<With("release", My(t) - 1), With("threads", 1)>>

lewi_Reclaim(t) == <<With("acquire", My(t)), Op("use")>>

(* A maximum below the CPUs in use makes the number of CPUs to take        *)
(* negative: the process gives them back.                                  *)
lewi_BorrowCpus(t, n) ==
    LET max == lw[P(t)].max
        limit == IF max > 0 /\ max - My(t) < n THEN max - My(t) ELSE n
    IN  IF lw[P(t)].enabled THEN <<With("check_read", limit)>> ELSE <<>>

INT_MAX == 2147483647

lewi_Borrow(t) == lewi_BorrowCpus(t, INT_MAX)

(* The second subprocess of a process finds the memory open.               *)
reopened(t) ==
    /\ Doing(t, "reopened")
    /\ subs' = [subs EXCEPT ![P(t)] = @ + 1]
    /\ Done(t)
    /\ UNCHANGED <<name, seg, map, handler, alive, lw, reads, below>>

statics(t) ==
    \/ /\ Doing(t, "lewi_enabled")
       /\ lw' = [lw EXCEPT ![P(t)].enabled = (Arg(t) = 1)]
       /\ Done(t)
       /\ UNCHANGED <<name, seg, map, handler, subs, alive, reads, below>>
    \/ /\ Doing(t, "max_parallelism")
       /\ lw' = [lw EXCEPT ![P(t)].max = Arg(t)]
       /\ Done(t)
       /\ UNCHANGED <<name, seg, map, handler, subs, alive, reads, below>>

LewiStep(t) ==
    \/ ShmemStep(t) /\ UNCHANGED lewiVars
    \/ threads(t) \/ config(t) \/ reset(t) \/ detach(t) \/ release(t) \/ acquire(t)
    \/ grab_read(t) \/ grab(t) \/ use(t) \/ check_read(t) \/ check_swap(t)
    \/ reopened(t) \/ statics(t)
=============================================================================
