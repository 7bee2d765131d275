----------------------------- MODULE MCTalpNode -----------------------------
(* The instances of TalpNode that TLC checks. *)
EXTENDS TalpNode

Given(m, f, c) == [mode |-> m, multiplier |-> f, collectives |-> c]

MCSame == [p \in Procs |-> 1]

(* The processes disagree on the size of the memory. *)
MCOther == [p \in Procs |-> IF p = Leader THEN 2 ELSE 1]

MCCollectFinalize == <<"collect", "finalize">>
MCFinalize == <<"finalize">>

MCSettings ==
  {Given("full", MCSame, MCCollectFinalize), Given("none", MCSame, MCCollectFinalize),
   Given("minimal", MCSame, MCFinalize), Given("minimal", MCOther, MCCollectFinalize)}

=============================================================================
