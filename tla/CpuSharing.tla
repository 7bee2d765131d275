----------------------------- MODULE CpuSharing -----------------------------
(***************************************************************************)
(* What LeWI promises to processes that poll and keep their CPUs: a CPU    *)
(* has at most one owner and one guest, and each passes only by an act of  *)
(* a process on what it holds, on what is free, or on what is its own.     *)
(* There is no lock here, and no loop: a process acts on any CPUs at once. *)
(***************************************************************************)
CONSTANTS
  Cpu,      \* the CPUs of the node
  Pid,      \* the processes
  NOBODY    \* in place of a process

VARIABLES
  members,  \* the processes that share CPUs
  owner,    \* owner[c]: the process that CPU c was started with
  guest,    \* guest[c]: the process that uses it
  state     \* state[c]: "DISABLED", "BUSY" if the owner wants it, or "LENT"

vars == <<members, owner, guest, state>>

Init ==
  /\ members = {}
  /\ owner = [c \in Cpu |-> NOBODY]
  /\ guest = [c \in Cpu |-> NOBODY]
  /\ state \in {[c \in Cpu |-> "DISABLED"], [c \in Cpu |-> "LENT"]}

-----------------------------------------------------------------------------
(* One CPU *)

Stays(c) == owner'[c] = owner[c] /\ guest'[c] = guest[c] /\ state'[c] = state[c]

(* Process p takes the CPU for its own.  Who uses it goes on.              *)
Enters(p, c) ==
  /\ owner[c] = NOBODY /\ owner'[c] = p
  /\ state'[c] = "BUSY"
  /\ guest'[c] = IF guest[c] = NOBODY THEN p ELSE guest[c]

(* The owner wants its CPU.  It gets it at once, or when the guest has     *)
(* returned it.                                                            *)
Claims(p, c) ==
  /\ owner[c] = p /\ owner'[c] = p
  /\ state'[c] = "BUSY"
  /\ guest'[c] = IF guest[c] = NOBODY THEN p ELSE guest[c]

(* The owner does not need its CPU.                                        *)
Lends(p, c) ==
  /\ owner[c] = p /\ owner'[c] = p
  /\ state'[c] = "LENT"
  /\ guest'[c] = IF guest[c] = p THEN NOBODY ELSE guest[c]

(* Another process uses it, as long as it likes.                           *)
Borrows(p, c) ==
  /\ owner[c] # p /\ owner'[c] = owner[c]
  /\ state[c] = "LENT" /\ state'[c] = "LENT"
  /\ guest[c] = NOBODY /\ guest'[c] = p

(* It gives the CPU back, to the owner if the owner wants it.              *)
Returns(p, c) ==
  /\ owner[c] # p /\ owner'[c] = owner[c]
  /\ state'[c] = state[c]
  /\ guest[c] = p /\ guest'[c] = IF state[c] = "BUSY" THEN owner[c] ELSE NOBODY

(* A CPU that its owner wants and nobody uses goes to the owner.           *)
Wakes(c) ==
  /\ owner'[c] = owner[c]
  /\ state[c] = "BUSY" /\ state'[c] = "BUSY"
  /\ guest[c] = NOBODY /\ guest'[c] = owner[c]

(* What a process owned is nobody's any more.                              *)
Drops(p, c) ==
  /\ owner[c] = p /\ owner'[c] = NOBODY
  /\ state'[c] \in {"DISABLED", "LENT"}
  /\ guest'[c] = IF guest[c] = p THEN NOBODY ELSE guest[c]

(* What it used is left behind, also where the owner waits for it.         *)
Abandons(p, c) ==
  /\ owner[c] # p /\ owner'[c] = owner[c]
  /\ state'[c] = state[c]
  /\ guest[c] = p /\ guest'[c] = NOBODY

-----------------------------------------------------------------------------
(* Processes *)

Tables ==
  /\ owner' \in [Cpu -> Pid \cup {NOBODY}]
  /\ guest' \in [Cpu -> Pid \cup {NOBODY}]
  /\ state' \in [Cpu -> {"DISABLED", "BUSY", "LENT"}]

(* A process comes with nothing.                                           *)
Join(p) ==
  /\ p \notin members
  /\ \A c \in Cpu : p \notin {owner[c], guest[c]}
  /\ members' = members \cup {p}
  /\ UNCHANGED <<owner, guest, state>>

(* It ends, or dies, with what it has.                                     *)
Quit(p) ==
  /\ p \in members
  /\ members' = members \ {p}
  /\ UNCHANGED <<owner, guest, state>>

Share(p) ==
  /\ p \in members
  /\ Tables
  /\ \A c \in Cpu :
       \/ Stays(c) \/ Enters(p, c) \/ Claims(p, c) \/ Lends(p, c)
       \/ Borrows(p, c) \/ Returns(p, c) \/ Wakes(c)
  /\ UNCHANGED members

(* What a process had is taken from it, by itself or by those that find it *)
(* dead.                                                                   *)
Withdraw(p) ==
  /\ p \notin members
  /\ Tables
  /\ \A c \in Cpu :
       Stays(c) \/ Drops(p, c) \/ Abandons(p, c) \/ Returns(p, c) \/ Wakes(c)
  /\ UNCHANGED members

Next == \E p \in Pid : Join(p) \/ Quit(p) \/ Share(p) \/ Withdraw(p)

Spec == Init /\ [][Next]_vars
=============================================================================
