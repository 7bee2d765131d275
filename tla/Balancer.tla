------------------------------ MODULE Balancer ------------------------------
(* The arithmetic of MNGO's DROM policy: how many cores a process would    *)
(* like to give or to take (mngo_drom.c, balance), and what it gives or    *)
(* takes once it knows the wishes of the others (mngo_balancer.c).  Every  *)
(* process computes its own share from the same list of wishes, without    *)
(* further communication.                                                  *)
EXTENDS Integers, FiniteSets, FiniteSetsExt

Abs(n) == IF n < 0 THEN -n ELSE n

(* The core change for which the process works as long as the others do:   *)
(* ceil(cores * ratio) - cores, for the ratio num / den of its efficiency  *)
(* to the node's, keeping one core.                                        *)
balance(cores, num, den) ==
  Max({(cores * num + den - 1) \div den - cores, 1 - cores})

(* How many wishes of the given sign reach level l.  Level 0 holds as many *)
(* as level 1: it keeps the maximum.                                       *)
precompute_levels(deltas, size, sign) ==
  [l \in 0..size |->
     Cardinality({i \in DOMAIN deltas : /\ deltas[i] * sign > 0
                                        /\ Abs(deltas[i]) >= l})]

(* A level joins the one below it, in the count of all processes and in    *)
(* the deltas of the calling one.                                          *)
pack_levels(my, st, side, l) ==
  LET low  == st[side][l - 1] + st[side][l]
      one  == [st[side] EXCEPT ![l - 1] = low, ![l] = 0]
      top  == IF one[0] < one[l - 1] THEN [one EXCEPT ![0] = one[l - 1]] ELSE one
      mine == [st.group EXCEPT ![l - 1] = @ + st.group[l], ![l] = 0]
  IN  [st EXCEPT ![side] = top, !.group = IF l <= my THEN mine ELSE @]

(* The level of the givers that matches level la of the takers, if any.    *)
RECURSIVE Match(_, _, _, _)
Match(my, st, la, ls) ==
  IF ls = 0 THEN [st |-> st, at |-> 0]
  ELSE IF st.sub[ls] = 0 THEN Match(my, st, la, ls - 1)
  ELSE IF st.add[0] < st.sub[ls]
         THEN [st |-> pack_levels(my, st, "add", la), at |-> 0]
  ELSE IF st.add[la] > st.sub[0]
         THEN Match(my, pack_levels(my, st, "sub", ls), la, ls - 1)
  ELSE IF st.add[la] = st.sub[ls]
         THEN [st |-> [st EXCEPT !.add[la] = 0, !.sub[ls] = 0], at |-> ls]
  ELSE Match(my, st, la, ls - 1)

RECURSIVE Descend(_, _, _, _)
Descend(giver, my, st, la) ==
  IF la = 0 THEN st.delta
  ELSE IF st.add[la] = 0 THEN Descend(giver, my, st, la - 1)
  ELSE LET m == Match(my, st, la, Max(DOMAIN st.sub))
           l == IF giver THEN m.at ELSE la
       IN  IF m.at = 0 \/ l > my THEN Descend(giver, my, m.st, la - 1)
           ELSE Descend(giver, my,
                  [m.st EXCEPT !.delta = @ + (IF giver THEN -1 ELSE 1) * m.st.group[l],
                               !.group[l] = 0],
                  la - 1)

coherent_redistribution(giver, my, add, sub, size) ==
  Descend(giver, my,
    [add |-> add, sub |-> sub, delta |-> 0,
     group |-> [i \in 0..size |-> IF i <= my THEN 1 ELSE 0]],
    size)

mngo_balancer(id, deltas) ==
  LET size == Max({0} \cup {Abs(deltas[i]) : i \in DOMAIN deltas})
  IN  coherent_redistribution(deltas[id] < 0, Abs(deltas[id]),
        precompute_levels(deltas, size, 1), precompute_levels(deltas, size, -1), size)
=============================================================================
