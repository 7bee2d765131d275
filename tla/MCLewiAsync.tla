---------------------------- MODULE MCLewiAsync ----------------------------
(***************************************************************************)
(* LewiAsync for TLC.  A behaviour is of two processes that make all calls *)
(* and may die, of two for whom the list has one place, or of three with   *)
(* different surpluses of CPUs.                                            *)
(***************************************************************************)
EXTENDS LewiAsync

CONSTANTS p1, p2, p3

VARIABLE scenario

Pids == {p1, p2, p3}

InitialNcpus == (p1 :> 2) @@ (p2 :> 1) @@ (p3 :> 3)

(* The numbers of CPUs that are passed by three processes.                 *)
ThreeNcpus == {1, 2}

ThreeCalls == {"lend_cpus", "block", "reclaim", "acquire_cpus", "borrow_cpus"}

Three ==
  INSTANCE LewiAsync WITH
    max_processes <- 3, ArgNcpus <- ThreeNcpus, Calls <- ThreeCalls, Threads <- FALSE

Full == INSTANCE LewiAsync WITH max_processes <- 1, Threads <- FALSE

MCInit ==
  /\ scenario \in {"two", "full", "three"}
  /\ Init

(* The third process never comes. *)
OnlyTwo == pc'[p3] = "out"

MCNext ==
  /\ UNCHANGED scenario
  /\ \/ scenario = "two" /\ Next /\ OnlyTwo
     \/ scenario = "full" /\ Full!Next /\ OnlyTwo
     \/ scenario = "three" /\ Three!Next

MCSpec == MCInit /\ [][MCNext]_<<scenario, vars>>
=============================================================================
