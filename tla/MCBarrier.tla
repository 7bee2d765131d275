----------------------------- MODULE MCBarrier -----------------------------
(***************************************************************************)
(* An instance of Barrier for TLC, with two scenarios.  In "three" three   *)
(* processes do all the calls; in "four" four processes only meet at the   *)
(* default barrier, and may die.  A fourth process is what it takes for a  *)
(* pthread barrier to be overwritten under one that waits in it.           *)
(***************************************************************************)
EXTENDS Barrier, TLC

CONSTANTS p1, p2, p3, p4, a

VARIABLE scenario

Pids3 == {p1, p2, p3}

Pids4 == Pids3 \cup {p4}

Three == \E p \in Pids3 : Step(p)

Four ==
  \E p \in Pid :
    \/ Open(p) \/ NodeBarrierInit(p) \/ Granted(p) \/ Timeout(p)
    \/ Enter(p) \/ pthread_barrier_wait(p) \/ Woken(p) \/ Exit(p) \/ Crash(p)

MCInit == Init /\ scenario \in {"three", "four"}

MCNext ==
  \/ scenario = "three" /\ Three /\ UNCHANGED scenario
  \/ scenario = "four" /\ Four /\ UNCHANGED scenario

MCSpec == MCInit /\ [][MCNext]_<<scenario, vars>>

Symmetric == Permutations(Pids3)
=============================================================================
