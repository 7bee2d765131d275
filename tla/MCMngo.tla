------------------------------- MODULE MCMngo -------------------------------
(* Programs for the managers: the calls all processes make, and the cores  *)
(* they start with.                                                        *)
EXTENDS Mngo, TLC

CONSTANTS a, b, c

Six == a :> {1, 2, 3} @@ b :> {4, 5} @@ c :> {6}
Seven == a :> {1} @@ b :> {2, 3, 4} @@ c :> {5, 6, 7}
Nine == a :> {1, 2, 3} @@ b :> {4, 5, 6} @@ c :> {7, 8, 9}

Program(lewi_on, drom_on, initial, calls) ==
  [mode |-> "regions", lewi |-> lewi_on, drom |-> drom_on, initial |-> initial,
   calls |-> calls]
HelperProgram(calls) ==
  [mode |-> "helper", lewi |-> FALSE, drom |-> FALSE, initial |-> Six, calls |-> calls]

Reg(r) == <<"register", r>>
On(r) == <<"start", r>>
Off(r) == <<"stop", r>>
Fini == <<"fini">>
Wake == <<"wake">>

(* One region again and again: its history wraps. *)
Again == <<Reg("r"), On("r"), Off("r"), On("r"), Off("r"), On("r"), Off("r"),
           On("r")>>
(* One region inside another, registered while the other one is active. *)
Nested == <<Reg("r"), On("r"), Reg("s"), On("s"), Off("s"), Off("r"), On("r"), Fini>>
(* Two regions in turn, each with cores of its own. *)
Turns == <<Reg("r"), Reg("s"), On("r"), Off("r"), On("s"), Off("s"), On("r"), Fini>>
(* Calls that do nothing: a region that is already started, or not the top. *)
Idle == <<Reg("r"), Reg("s"), Reg("r"), On("r"), On("r"), On("s"), Off("r"), Off("s"), Fini>>

MCOptions ==
  {Program(FALSE, TRUE, i, Nested) : i \in {Six, Seven}}
    \cup {Program(FALSE, TRUE, i, Turns) : i \in {Six, Nine}}
    \cup {Program(TRUE, d, Six, calls) : d \in BOOLEAN, calls \in {Again, Idle}}
    \cup {Program(TRUE, FALSE, Six, Turns)}
    \cup {HelperProgram(calls) : calls \in {<<Fini>>, <<Wake, Fini>>, <<Wake, Wake, Fini>>}}
=============================================================================
