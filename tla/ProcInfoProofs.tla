--------------------------- MODULE ProcInfoProofs ---------------------------
(***************************************************************************)
(* Proofs about ProcInfo: as long as nothing is broken, no CPU of the DROM *)
(* table has two owners and none is lost.                                  *)
(*                                                                         *)
(* The invariant has four parts: what holds of each entry and of the table *)
(* as a whole (Sound), what a registered process finds in its slot         *)
(* (Rooted), what a synchronous steal still knows when it locks the table  *)
(* again (Resumable), and that every CPU is free, held or awaited          *)
(* (Lossless).  The functions on the table come first, one lemma each,     *)
(* then the actions.                                                       *)
(***************************************************************************)
EXTENDS ProcInfo, FiniteSetTheorems, WellFoundedInduction, NaturalsInduction, TLAPS

-----------------------------------------------------------------------------
(* The invariant *)

Entry == [pid : Pid \cup {NOBODY}, dirty : BOOLEAN, preregistered : BOOLEAN,
          current : SUBSET Cpu, future : SUBSET Cpu, stolen : SUBSET Cpu]

Mode == {"none", "unknown", "exclusive", "shared"}

Table == [info : [Slot -> Entry], num : 0..MaxProcesses, free : SUBSET Cpu,
          mode : Mode, pidlist : SUBSET (Pid \cup {Admin})]

Work == [acquire : SUBSET Cpu, steal : SUBSET Cpu, free : SUBSET Cpu]

Wait == [phase : {"steal", "stolen", "timeout"}, slot : Slot, was : Entry,
         mask : SUBSET Cpu, work : Work, return_stolen : BOOLEAN, preinit : BOOLEAN]

(* What an entry says of its masks: future is what the process has been    *)
(* told to use, whether or not it has polled, and what was stolen from it  *)
(* is not in it.                                                           *)
EntryOK(e) ==
  /\ ~ e.dirty => e.future = e.current
  /\ e.stolen \cap e.future = {}
  /\ e.preregistered => e.stolen \subseteq e.current
  /\ e.pid = NOBODY => e.stolen = {}

Held(T) == {s \in Slot : T.info[s].pid # NOBODY}

(* A held slot that num does not reach yet has nothing, save slot x. *)
BeyondOK(T, x) ==
  \A s \in Held(T) \ {x} : s > T.num => T.info[s].future = {} /\ T.info[s].stolen = {}

(* In a table that nobody has initialised there is nothing at all. *)
NoneOK(T) ==
  T.mode = "none" =>
    /\ T.free = {}
    /\ \A s \in Held(T) : /\ T.info[s].current = {} /\ T.info[s].future = {}
                          /\ T.info[s].stolen = {}

Disjoint(T) ==
  T.mode # "shared" =>
    \A s \in Held(T) :
      /\ T.info[s].future \cap T.free = {}
      /\ \A t \in Held(T) \ {s} : T.info[s].future \cap T.info[t].future = {}

Sound(T, x) ==
  /\ \A s \in Slot : EntryOK(T.info[s])
  /\ BeyondOK(T, x) /\ NoneOK(T) /\ Disjoint(T)

(* The CPUs that are free or held. *)
Known(T) == T.free \cup UNION {T.info[s].future : s \in Held(T)}

(* A registered process finds itself where it remembers. *)
At(T, s, p) ==
  /\ s \in 1..T.num /\ T.info[s].pid = p /\ ~ T.info[s].preregistered
  /\ T.mode \in {"exclusive", "shared"}

Rooted(T, my, in) == \A p \in Pid : in[p] = "in" => At(T, my[p], p)

(* What the steal k of client x was started with. *)
StartedOK(x, k) ==
  /\ k.was.pid # NOBODY /\ ~ k.was.dirty /\ EntryOK(k.was)
  /\ k.work.steal \cap k.was.current = {}
  /\ k.work.free \subseteq k.was.current
  /\ k.preinit => /\ x = Admin /\ k.was.preregistered
                  /\ k.was.current = {} /\ k.was.stolen = {}
                  /\ k.mask = k.work.acquire \cup k.work.steal

(* Where its slot is. *)
TargetOK(T, x, k) ==
  ~ k.preinit => k.slot <= T.num \/ (x = Admin /\ T.info[k.slot].pid = NOBODY)

(* The clients that wait in a synchronous steal, and what they wait for. *)
Steals(c) == {x \in Clients : c[x].phase \in {"steal", "stolen", "timeout"}}

WaitedBy(c) == UNION {c[x].work.steal : x \in Steals(c)}

Resumable(T, in, c) ==
  /\ \A x \in Clients \ {Admin} : c[x] # NoCall => in[x] = "in"
  /\ \A x \in Steals(c) :
       /\ StartedOK(x, c[x]) /\ TargetOK(T, x, c[x])
       /\ x = Admin /\ T.mode = "none" => Held(T) = {}

Lossless(T, c) == T.mode \in {"exclusive", "unknown"} => Cpu \subseteq WaitedBy(c) \cup Known(T)

(* The table T is as it should be for processes that remember the slots of *)
(* my, that are registered or not as in says, and for the calls c.         *)
Good(T, my, in, c) ==
  T \in Table /\ Sound(T, 0) /\ Rooted(T, my, in) /\ Resumable(T, in, c) /\ Lossless(T, c)

Typed ==
  /\ my_pinfo \in [Pid -> 0..MaxProcesses]
  /\ up \in [Pid -> {"out", "in", "dead"}]
  /\ call \in [Clients -> {NoCall, Adopting} \cup Wait]

Inv == ~ broken => Typed /\ Good(shm, my_pinfo, up, call)

-----------------------------------------------------------------------------
(* Smallest elements *)

(* A set of slot numbers that is not empty has a minimum, and Min is it. *)
LEMMA MinIsIn ==
  ASSUME NEW S \in SUBSET Nat, S # {}
  PROVE  Min(S) \in S /\ \A y \in S : Min(S) <= y
<1> DEFINE R == OpToRel(<, Nat)
<1>1. IsWellFoundedOn(R, Nat)
  BY NatLessThanWellFounded
<1>2. \E x \in S : \A y \in S : ~(<<y, x>> \in R)
  <2> HIDE DEF R
  <2> QED BY <1>1, WFMin
<1>3. PICK x \in S : \A y \in S : ~(<<y, x>> \in R)
  BY <1>2
<1>4. \A y \in S : ~(y < x)
  BY <1>3 DEF OpToRel
<1>5. \E z \in S : \A y \in S : z <= y
  BY <1>4
<1> QED BY <1>5, Zenon DEF Min

(* Slots are positive numbers, and 0 stands for none. *)
LEMMA SlotNat == Slot \subseteq Nat /\ 0 \notin Slot /\ IsFiniteSet(Slot)
BY ProcInfoAssumption, FS_Interval DEF Slot

-----------------------------------------------------------------------------
(* get_process *)

(* The slot that get_process finds for p without going to its ancestors. *)
HasSlot(T, mine, p) ==
  (mine # 0 /\ T.info[mine].pid = p) \/ {s \in 1..T.num : T.info[s].pid = p} # {}

OwnSlot(T, mine, p) ==
  IF mine # 0 /\ T.info[mine].pid = p THEN mine
  ELSE Min({s \in 1..T.num : T.info[s].pid = p})

(* f answers for each process as the loop of get_process does. *)
Finding(T, mine, f) ==
  f = [p \in Pid |-> IF mine # 0 /\ T.info[mine].pid = p THEN mine
                     ELSE IF {s \in 1..T.num : T.info[s].pid = p} # {}
                          THEN Min({s \in 1..T.num : T.info[s].pid = p})
                     ELSE IF Parent[p] = NOBODY THEN 0 ELSE f[Parent[p]]]

(* The processes whose closest registered ancestor is process q: the       *)
(* smallest set with q that takes in the children that have no slot.       *)
Below(T, mine, q) ==
  {p \in Pid : \A X \in SUBSET Pid :
     /\ q \in X
     /\ \A r \in Pid : ~ HasSlot(T, mine, r) /\ Parent[r] \in X => r \in X
     => p \in X}

(* Below is such a set. *)
LEMMA BelowIsClosed ==
  ASSUME NEW T, NEW mine, NEW q \in Pid
  PROVE  /\ q \in Below(T, mine, q)
         /\ \A r \in Pid : ~ HasSlot(T, mine, r) /\ Parent[r] \in Below(T, mine, q)
                           => r \in Below(T, mine, q)
BY DEF Below

(* A process without a slot is below q only if its parent is. *)
LEMMA BelowOnlyByParent ==
  ASSUME NEW T, NEW mine, NEW q \in Pid, HasSlot(T, mine, q),
         NEW p \in Below(T, mine, q), ~ HasSlot(T, mine, p)
  PROVE  Parent[p] \in Below(T, mine, q)
<1> DEFINE X == Below(T, mine, q) \ {p}
<1>1. SUFFICES ASSUME Parent[p] \notin Below(T, mine, q) PROVE FALSE
  OBVIOUS
<1>2. X \in SUBSET Pid /\ q \in X
  BY BelowIsClosed DEF Below
<1>3. \A r \in Pid : ~ HasSlot(T, mine, r) /\ Parent[r] \in X => r \in X
  BY <1>1, BelowIsClosed
<1>4. p \in X
  <2> HIDE DEF X
  <2> QED BY <1>2, <1>3 DEF Below
<1> QED BY <1>4

(* A process with a slot is below nobody but itself. *)
LEMMA BelowSelf ==
  ASSUME NEW T, NEW mine, NEW q \in Pid, NEW p \in Below(T, mine, q), HasSlot(T, mine, p)
  PROVE  p = q
<1> DEFINE X == Below(T, mine, q) \ {p}
<1>1. SUFFICES ASSUME p # q PROVE FALSE
  OBVIOUS
<1>2. X \in SUBSET Pid /\ q \in X
  BY <1>1, BelowIsClosed DEF Below
<1>3. \A r \in Pid : ~ HasSlot(T, mine, r) /\ Parent[r] \in X => r \in X
  BY BelowIsClosed
<1>4. p \in X
  <2> HIDE DEF X
  <2> QED BY <1>2, <1>3 DEF Below
<1> QED BY <1>4

(* Nobody is below two processes with a slot. *)
LEMMA BelowOne ==
  ASSUME NEW T, NEW mine, NEW q \in Pid, NEW t \in Pid, HasSlot(T, mine, q),
         HasSlot(T, mine, t), NEW p \in Below(T, mine, q), p \in Below(T, mine, t)
  PROVE  q = t
<1> DEFINE X == Below(T, mine, q) \ Below(T, mine, t)
<1>1. SUFFICES ASSUME q # t PROVE FALSE
  OBVIOUS
<1>2. X \in SUBSET Pid
  BY DEF Below
<1>3. q \in X
  BY <1>1, BelowIsClosed, BelowSelf
<1>4. ASSUME NEW r \in Pid, ~ HasSlot(T, mine, r), Parent[r] \in X PROVE r \in X
  <2>1. r \in Below(T, mine, q)
    BY <1>4, BelowIsClosed
  <2>2. r \notin Below(T, mine, t)
    BY <1>4, BelowOnlyByParent
  <2> QED BY <2>1, <2>2
<1>5. p \in X
  <2> HIDE DEF X
  <2> QED BY <1>2, <1>3, <1>4 DEF Below
<1> QED BY <1>5

(* The loop of get_process always has an answer. *)
LEMMA FindingExists ==
  ASSUME NEW T, NEW mine
  PROVE  \E f : Finding(T, mine, f)
<1> DEFINE own(p) == OwnSlot(T, mine, p)
           has(p) == HasSlot(T, mine, p)
           over(p) == {q \in Pid : has(q) /\ p \in Below(T, mine, q)}
           f == [p \in Pid |-> IF over(p) = {} THEN 0 ELSE own(CHOOSE q \in over(p) : TRUE)]
<1>1. ASSUME NEW p \in Pid, NEW q \in over(p) PROVE f[p] = own(q)
  <2>1. PICK r \in over(p) : r = CHOOSE z \in over(p) : TRUE
    BY <1>1
  <2>2. r = q
    BY <2>1, <1>1, BelowOne
  <2> QED BY <2>1, <2>2, <1>1
<1>2. ASSUME NEW p \in Pid, over(p) = {} PROVE f[p] = 0
  BY <1>2
<1>3. ASSUME NEW p \in Pid, has(p) PROVE f[p] = own(p)
  <2>1. p \in over(p)
    BY <1>3, BelowIsClosed
  <2> HIDE DEF f, own, over
  <2> QED BY <2>1, <1>1
<1>4. ASSUME NEW p \in Pid, ~ has(p), Parent[p] = NOBODY PROVE f[p] = 0
  <2>1. over(p) = {}
    BY <1>4, BelowOnlyByParent, ProcInfoAssumption DEF Below
  <2> HIDE DEF f, own, over
  <2> QED BY <2>1, <1>2
<1>5. ASSUME NEW p \in Pid, ~ has(p), Parent[p] # NOBODY PROVE f[p] = f[Parent[p]]
  <2>1. Parent[p] \in Pid
    BY <1>5, ProcInfoAssumption
  <2>2. over(p) = over(Parent[p])
    <3>1. ASSUME NEW q \in Pid, has(q)
          PROVE  p \in Below(T, mine, q) <=> Parent[p] \in Below(T, mine, q)
      BY <1>5, <3>1, BelowOnlyByParent, BelowIsClosed
    <3> HIDE DEF has
    <3> QED BY <3>1
  <2> QED BY <2>1, <2>2
<1>6. f = [p \in Pid |-> IF has(p) THEN own(p)
                         ELSE IF Parent[p] = NOBODY THEN 0 ELSE f[Parent[p]]]
  <2>1. f = [p \in Pid |-> f[p]]
    OBVIOUS
  <2>2. \A p \in Pid : f[p] = IF has(p) THEN own(p)
                              ELSE IF Parent[p] = NOBODY THEN 0 ELSE f[Parent[p]]
    <3> HIDE DEF f, own, has
    <3> QED BY <1>3, <1>4, <1>5
  <2> HIDE DEF f, own, has
  <2> QED BY <2>1, <2>2
<1>7. \A p \in Pid :
        (IF has(p) THEN own(p) ELSE IF Parent[p] = NOBODY THEN 0 ELSE f[Parent[p]])
        = IF mine # 0 /\ T.info[mine].pid = p THEN mine
          ELSE IF {s \in 1..T.num : T.info[s].pid = p} # {}
               THEN Min({s \in 1..T.num : T.info[s].pid = p})
          ELSE IF Parent[p] = NOBODY THEN 0 ELSE f[Parent[p]]
  <2> HIDE DEF f
  <2> QED BY DEF HasSlot, OwnSlot
<1>8. Finding(T, mine, f)
  <2> HIDE DEF f, has, own
  <2> QED BY <1>6, <1>7 DEF Finding
<1> QED BY <1>8

(* Which it is: the slot of the process where it has one.  Otherwise it is *)
(* 0 or the slot of some process.                                          *)
LEMMA GetProcess ==
  ASSUME NEW T \in Table, NEW mine \in 0..MaxProcesses, NEW p \in Pid
  PROVE  LET s == get_process(T, mine, p)
         IN  /\ s # 0 => s \in Slot /\ T.info[s].pid # NOBODY /\ (s = mine \/ s <= T.num)
             /\ HasSlot(T, mine, p) => s # 0 /\ T.info[s].pid = p
             /\ mine # 0 /\ T.info[mine].pid = p => s = mine
<1> DEFINE f == CHOOSE g : Finding(T, mine, g)
<1>1. Finding(T, mine, f)
  BY FindingExists
<1>2. get_process(T, mine, p) = f[p]
  BY DEF get_process, Finding
<1>3. ASSUME NEW q \in Pid
      PROVE  f[q] = IF HasSlot(T, mine, q) THEN OwnSlot(T, mine, q)
                    ELSE IF Parent[q] = NOBODY THEN 0 ELSE f[Parent[q]]
  <2> HIDE DEF f
  <2> QED BY <1>1 DEF Finding, HasSlot, OwnSlot
<1>4. ASSUME NEW q \in Pid, HasSlot(T, mine, q)
      PROVE  LET s == OwnSlot(T, mine, q)
             IN  s \in Slot /\ T.info[s].pid = q /\ (s = mine \/ s <= T.num)
  <2> DEFINE at == {s \in 1..T.num : T.info[s].pid = q}
  <2>1. T.num \in 0..MaxProcesses
    BY DEF Table
  <2>2. at \subseteq Slot /\ at \in SUBSET Nat /\ \A s \in at : s <= T.num
    BY <2>1, ProcInfoAssumption DEF Slot
  <2>3. CASE mine # 0 /\ T.info[mine].pid = q
    BY <2>3, <1>4 DEF OwnSlot, Slot
  <2>4. CASE ~ (mine # 0 /\ T.info[mine].pid = q)
    <3>1. at # {} /\ OwnSlot(T, mine, q) = Min(at)
      BY <2>4, <1>4 DEF HasSlot, OwnSlot
    <3>2. Min(at) \in at
      BY <2>2, <3>1, MinIsIn
    <3> QED BY <3>1, <3>2, <2>2
  <2> QED BY <2>3, <2>4
<1> DEFINE good(q) == f[q] # 0 => /\ f[q] \in Slot /\ T.info[f[q]].pid # NOBODY
                                  /\ (f[q] = mine \/ f[q] <= T.num)
           Bad == {q \in Pid : ~ good(q)}
<1>5. Bad = {}
  <2>1. SUFFICES ASSUME Bad # {} PROVE FALSE
    OBVIOUS
  <2>2. PICK q \in Bad : Parent[q] \notin Bad
    <3>1. Bad \in SUBSET Pid
      OBVIOUS
    <3> HIDE DEF Bad
    <3> QED BY <2>1, <3>1, ProcInfoAssumption
  <2>3. ~ HasSlot(T, mine, q)
    <3> HIDE DEF f
    <3> QED BY <2>2, <1>3, <1>4, ProcInfoAssumption
  <2> HIDE DEF f
  <2> QED BY <2>2, <2>3, <1>3, ProcInfoAssumption
<1> HIDE DEF f
<1>6. good(p)
  BY <1>5
<1>7. HasSlot(T, mine, p) => f[p] = OwnSlot(T, mine, p)
  BY <1>3
<1>8. HasSlot(T, mine, p) => f[p] # 0 /\ T.info[f[p]].pid = p
  BY <1>7, <1>4, SlotNat
<1>9. mine # 0 /\ T.info[mine].pid = p => f[p] = mine
  BY <1>7 DEF HasSlot, OwnSlot
<1> DEFINE s == get_process(T, mine, p)
<1>10. s = f[p]
  BY <1>2
<1> HIDE DEF s
<1>11. s # 0 => s \in Slot /\ T.info[s].pid # NOBODY /\ (s = mine \/ s <= T.num)
  BY <1>10, <1>6
<1>12. /\ HasSlot(T, mine, p) => s # 0 /\ T.info[s].pid = p
       /\ mine # 0 /\ T.info[mine].pid = p => s = mine
  BY <1>10, <1>8, <1>9
<1> QED BY <1>11, <1>12 DEF s

-----------------------------------------------------------------------------
(* Tables *)

(* U has the same processes in the same slots as T. *)
Same(T, U) ==
  /\ U.num = T.num /\ U.mode = T.mode /\ U.pidlist = T.pidlist
  /\ \A k \in Slot : /\ U.info[k].pid = T.info[k].pid
                     /\ U.info[k].preregistered = T.info[k].preregistered

(* What is in a table. *)
LEMMA TableFields ==
  ASSUME NEW T \in Table
  PROVE  /\ T.info \in [Slot -> Entry] /\ T.num \in 0..MaxProcesses
         /\ T.free \in SUBSET Cpu /\ T.mode \in Mode
         /\ T.pidlist \in SUBSET (Pid \cup {Admin})
         /\ \A s \in Slot : /\ T.info[s] \in Entry
                            /\ T.info[s].pid \in Pid \cup {NOBODY}
                            /\ T.info[s].dirty \in BOOLEAN
                            /\ T.info[s].preregistered \in BOOLEAN
                            /\ T.info[s].current \in SUBSET Cpu
                            /\ T.info[s].future \in SUBSET Cpu
                            /\ T.info[s].stolen \in SUBSET Cpu
<1>1. T.info \in [Slot -> Entry]
  BY DEF Table
<1>2. \A e \in Entry : /\ e.pid \in Pid \cup {NOBODY} /\ e.dirty \in BOOLEAN
                       /\ e.preregistered \in BOOLEAN /\ e.current \in SUBSET Cpu
                       /\ e.future \in SUBSET Cpu /\ e.stolen \in SUBSET Cpu
  BY DEF Entry
<1> QED BY <1>1, <1>2 DEF Table

(* The empty entry and the empty table. *)
LEMMA EmptyFields ==
  /\ EmptySlot \in Entry /\ EntryOK(EmptySlot) /\ EmptySlot.pid = NOBODY
  /\ ~ EmptySlot.dirty /\ ~ EmptySlot.preregistered
  /\ EmptySlot.current = {} /\ EmptySlot.future = {} /\ EmptySlot.stolen = {}
BY DEF EmptySlot, Entry, EntryOK

(* What is in the memory that nobody has initialised. *)
LEMMA ZeroFields ==
  /\ ZeroShm \in Table /\ ZeroShm.num = 0 /\ ZeroShm.free = {} /\ ZeroShm.mode = "none"
  /\ ZeroShm.pidlist = {} /\ \A s \in Slot : ZeroShm.info[s] = EmptySlot
BY EmptyFields, ProcInfoAssumption DEF ZeroShm, Table, Mode

(* What a process has been told to use is what its entry says it will use, *)
(* whether or not it has polled.                                           *)
LEMMA EntryEffective ==
  ASSUME NEW e, EntryOK(e)
  PROVE  Effective(e) = e.future
BY DEF EntryOK, Effective

(* In a sound table the CPUs the table knows the use of are those that are *)
(* free or held.                                                           *)
LEMMA KnownIsAssigned ==
  ASSUME NEW T \in Table, Sound(T, 0)
  PROVE  Assigned(T) = Known(T)
<1>1. \A s \in Slot : Effective(T.info[s]) = T.info[s].future
  BY EntryEffective DEF Sound
<1>2. Registered(T) \subseteq Held(T) /\ Held(T) \subseteq Slot
  BY TableFields, ProcInfoAssumption DEF Registered, Held, Slot
<1>3. \A s \in Held(T) \ Registered(T) : T.info[s].future = {}
  BY TableFields, SlotNat, ProcInfoAssumption DEF Registered, Held, Slot, Sound, BeyondOK
<1>4. ASSUME NEW c PROVE c \in Assigned(T) <=> c \in Known(T)
  BY <1>1, <1>2, <1>3 DEF Assigned, Known
<1> QED BY <1>4

(* Slots that are held or registered in one of two tables with the same    *)
(* processes are so in the other.                                          *)
LEMMA SameSlots ==
  ASSUME NEW T, NEW U, Same(T, U), T.num \in 0..MaxProcesses
  PROVE  Held(U) = Held(T) /\ Registered(U) = Registered(T)
BY ProcInfoAssumption DEF Same, Held, Registered, Slot

(* Having the same processes in the same slots is transitive. *)
LEMMA SameTrans ==
  ASSUME NEW T, NEW U, NEW V, Same(T, U), Same(U, V)
  PROVE  Same(T, V)
BY DEF Same

(* Masks that are disjoint stay so when they shrink. *)
LEMMA DisjointShrinks ==
  ASSUME NEW T, NEW U, Disjoint(T), U.mode = T.mode, U.free \subseteq T.free,
         Held(U) \subseteq Held(T),
         \A k \in Held(U) : U.info[k].future \subseteq T.info[k].future
  PROVE  Disjoint(U)
<1> SUFFICES ASSUME T.mode # "shared" PROVE Disjoint(U)
  BY DEF Disjoint
<1>1. ASSUME NEW k \in Held(U) PROVE U.info[k].future \cap U.free = {}
  <2>1. T.info[k].future \cap T.free = {}
    BY DEF Disjoint
  <2> QED BY <2>1
<1>2. ASSUME NEW k \in Held(U), NEW j \in Held(U) \ {k}
      PROVE  U.info[k].future \cap U.info[j].future = {}
  <2>1. T.info[k].future \cap T.info[j].future = {}
    BY DEF Disjoint
  <2>2. U.info[k].future \subseteq T.info[k].future /\ U.info[j].future \subseteq T.info[j].future
    OBVIOUS
  <2> QED BY <2>1, <2>2
<1> QED BY <1>1, <1>2 DEF Disjoint

(* A process with its own slot keeps it. *)
LEMMA SameRooted ==
  ASSUME NEW T \in Table, NEW U, Same(T, U), NEW my, NEW in, Rooted(T, my, in)
  PROVE  Rooted(U, my, in)
<1> SUFFICES ASSUME NEW p \in Pid, in[p] = "in" PROVE At(U, my[p], p)
  BY DEF Rooted
<1>1. At(T, my[p], p)
  BY DEF Rooted
<1>2. my[p] \in Slot
  BY <1>1, TableFields, ProcInfoAssumption DEF At, Slot
<1> QED BY <1>1, <1>2 DEF At, Same

-----------------------------------------------------------------------------
(* GiveToThief and register_mask *)

(* What is given to slot s is added to its future mask. *)
LEMMA GiveFields ==
  ASSUME NEW T \in Table, NEW s \in Slot, NEW mask \in SUBSET Cpu,
         NEW U, U = GiveToThief(T, s, mask)
  PROVE  /\ U \in Table /\ Same(T, U) /\ U.free = T.free
         /\ \A k \in Slot \ {s} : U.info[k] = T.info[k]
         /\ U.info[s].current = T.info[s].current
         /\ U.info[s].future = T.info[s].future \cup mask
         /\ U.info[s].stolen = T.info[s].stolen \ mask
         /\ U.info[s].dirty = (T.info[s].dirty \/ mask # {})
<1>1. CASE mask = {}
  <2>1. U = T
    BY <1>1 DEF GiveToThief
  <2> QED BY <1>1, <2>1, TableFields DEF Same
<1>2. CASE mask # {}
  <2> DEFINE e == [T.info[s] EXCEPT !.future = @ \cup mask, !.stolen = @ \ mask, !.dirty = TRUE]
             I == [T.info EXCEPT ![s] = e]
  <2>1. U = [T EXCEPT !.info = I]
    BY <1>2, TableFields DEF GiveToThief, Table, Entry
  <2>2. /\ e \in Entry /\ e.pid = T.info[s].pid /\ e.preregistered = T.info[s].preregistered
        /\ e.current = T.info[s].current /\ e.future = T.info[s].future \cup mask
        /\ e.stolen = T.info[s].stolen \ mask /\ e.dirty = TRUE
    BY TableFields DEF Entry
  <2> HIDE DEF e
  <2>3. I \in [Slot -> Entry] /\ I[s] = e /\ \A k \in Slot \ {s} : I[k] = T.info[k]
    BY <2>2, TableFields
  <2> HIDE DEF I
  <2>4. /\ U \in Table /\ U.info = I /\ U.num = T.num /\ U.free = T.free
        /\ U.mode = T.mode /\ U.pidlist = T.pidlist
    BY <2>1, <2>3 DEF Table
  <2> QED BY <1>2, <2>2, <2>3, <2>4 DEF Same
<1> QED BY <1>1, <1>2

(* The entry of slot s has gained the CPUs of mask, and no other changed. *)
Gained(T, U, s, mask) ==
  /\ \A k \in Slot \ {s} : U.info[k] = T.info[k]
  /\ U.info[s].current = T.info[s].current
  /\ U.info[s].future = T.info[s].future \cup mask
  /\ U.info[s].stolen = T.info[s].stolen \ mask
  /\ U.info[s].dirty = (T.info[s].dirty \/ mask # {})

(* A table is sound again when the entry of one slot has gained CPUs that  *)
(* nobody knew, or that were free.                                         *)
LEMMA GiveSound ==
  ASSUME NEW T \in Table, NEW s \in Held(T), Sound(T, s), NEW mask \in SUBSET Cpu,
         T.mode = "none" => mask = {},
         NEW U \in Table, Same(T, U),
         U.free \subseteq T.free, T.mode # "shared" => U.free \cap mask = {},
         T.mode # "shared" => \A k \in Held(T) : T.info[k].future \cap mask = {},
         Gained(T, U, s, mask)
  PROVE  Sound(U, s)
<1> USE DEF Gained
<1>1. Held(U) = Held(T) /\ s \in Slot
  BY SameSlots, TableFields DEF Held
<1>2. \A k \in Slot : EntryOK(U.info[k])
  <2>1. EntryOK(T.info[s])
    BY <1>1 DEF Sound
  <2>2. U.info[s].pid = T.info[s].pid /\ U.info[s].preregistered = T.info[s].preregistered
    BY <1>1 DEF Same
  <2>3. EntryOK(U.info[s])
    <3>1. CASE mask = {}
      BY <2>1, <2>2, <3>1, <1>1 DEF EntryOK
    <3>2. CASE mask # {}
      BY <2>1, <2>2, <3>2, <1>1 DEF EntryOK
    <3> QED BY <3>1, <3>2
  <2> QED BY <2>3 DEF Sound
<1>3. BeyondOK(U, s)
  BY <1>1 DEF Sound, BeyondOK, Same, Held
<1>4. NoneOK(U)
  <2> SUFFICES ASSUME T.mode = "none" PROVE NoneOK(U)
    BY DEF NoneOK, Same
  <2>1. mask = {}
    OBVIOUS
  <2>2. \A k \in Held(T) : /\ U.info[k].current = T.info[k].current
                           /\ U.info[k].future = T.info[k].future
                           /\ U.info[k].stolen = T.info[k].stolen
    BY <2>1 DEF Held
  <2> QED BY <2>1, <2>2, <1>1 DEF Sound, NoneOK
<1>5. Disjoint(U)
  <2> SUFFICES ASSUME T.mode # "shared" PROVE Disjoint(U)
    BY DEF Disjoint, Same
  <2>1. U.free \cap mask = {} /\ U.free \subseteq T.free
    OBVIOUS
  <2>2. \A k \in Held(T) : U.info[k].future = IF k = s THEN T.info[s].future \cup mask
                                              ELSE T.info[k].future
    BY DEF Held
  <2>3. ASSUME NEW k \in Held(T) PROVE U.info[k].future \cap U.free = {}
    BY <2>1, <2>2 DEF Sound, Disjoint
  <2>4. ASSUME NEW k \in Held(T), NEW t \in Held(T) \ {k}
        PROVE  U.info[k].future \cap U.info[t].future = {}
    BY <2>2 DEF Sound, Disjoint
  <2> QED BY <2>3, <2>4, <1>1 DEF Disjoint
<1> QED BY <1>2, <1>3, <1>4, <1>5 DEF Sound

(* What is known after it. *)
LEMMA GiveKnown ==
  ASSUME NEW T \in Table, NEW s \in Held(T), NEW mask, NEW U, Held(U) = Held(T),
         U.free = T.free \ mask \/ U.free = T.free,
         \A k \in Slot \ {s} : U.info[k] = T.info[k],
         U.info[s].future = T.info[s].future \cup mask
  PROVE  Known(U) = Known(T) \cup mask
<1>1. \A k \in Held(T) : U.info[k].future = IF k = s THEN T.info[s].future \cup mask
                                            ELSE T.info[k].future
  BY DEF Held
<1>2. ASSUME NEW c PROVE c \in Known(U) <=> c \in Known(T) \cup mask
  <2>1. CASE c \in Known(U)
    BY <2>1, <1>1 DEF Known
  <2>2. CASE c \in mask
    BY <2>2, <1>1 DEF Known
  <2>3. CASE c \in Known(T) \ mask
    <3>1. CASE c \in T.free
      BY <2>3, <3>1 DEF Known
    <3>2. CASE c \notin T.free
      <4>1. PICK k \in Held(T) : c \in T.info[k].future
        BY <2>3, <3>2 DEF Known
      <4>2. k \in Held(U) /\ c \in U.info[k].future
        BY <4>1, <1>1
      <4>3. c \in Known(U)
        BY <4>2 DEF Known
      <4> QED BY <4>3, <2>3
    <3> QED BY <3>1, <3>2
  <2> QED BY <2>1, <2>2, <2>3
<1> QED BY <1>2

(* steal_mask, the end: the thief gets CPUs that nobody knows. *)
LEMMA GiveOK ==
  ASSUME NEW T \in Table, NEW s \in Held(T), Sound(T, s), NEW mask \in SUBSET Cpu,
         T.mode = "none" => mask = {},
         T.mode # "shared" => mask \cap Known(T) = {},
         NEW U, U = GiveToThief(T, s, mask)
  PROVE  /\ U \in Table /\ Same(T, U) /\ Sound(U, s) /\ Known(U) = Known(T) \cup mask
         /\ U.free = T.free /\ \A k \in Slot \ {s} : U.info[k] = T.info[k]
         /\ U.info[s].future = T.info[s].future \cup mask
         /\ U.info[s].current = T.info[s].current
<1>1. s \in Slot
  BY DEF Held
<1>2. /\ U \in Table /\ Same(T, U) /\ U.free = T.free
      /\ \A k \in Slot \ {s} : U.info[k] = T.info[k]
      /\ U.info[s].current = T.info[s].current
      /\ U.info[s].future = T.info[s].future \cup mask
      /\ U.info[s].stolen = T.info[s].stolen \ mask
      /\ U.info[s].dirty = (T.info[s].dirty \/ mask # {})
  BY <1>1, GiveFields
<1>3. T.mode # "shared" =>
        T.free \cap mask = {} /\ \A k \in Held(T) : T.info[k].future \cap mask = {}
  BY DEF Known
<1>6. Gained(T, U, s, mask)
  BY <1>2 DEF Gained
<1>4. Sound(U, s)
  BY <1>2, <1>3, <1>6, GiveSound
<1>5. Known(U) = Known(T) \cup mask
  BY <1>2, GiveKnown, SameSlots, TableFields
<1> QED BY <1>2, <1>4, <1>5

(* register_mask: CPUs that are free become those of slot s; nothing       *)
(* happens in a table whose processes share CPUs.                          *)
LEMMA RegisterOK ==
  ASSUME NEW T \in Table, NEW s \in Held(T), Sound(T, s), NEW mask \in SUBSET Cpu,
         CanRegister(T, mask), NEW U, U = register_mask(T, s, mask)
  PROVE  /\ U \in Table /\ Same(T, U) /\ Sound(U, s)
         /\ T.mode # "shared" => Known(U) = Known(T)
         /\ \A k \in Slot \ {s} : U.info[k] = T.info[k]
         /\ U.info[s].current = T.info[s].current
         /\ T.mode # "shared" => /\ U.info[s].future = T.info[s].future \cup mask
                                 /\ U.free = T.free \ mask
         /\ T.mode = "shared" => U = T
         /\ U.info[s].stolen \subseteq T.info[s].stolen
<1>1. s \in Slot
  BY DEF Held
<1>2. CASE mask = {} \/ T.mode = "shared"
  <2>1. U = T
    BY <1>2 DEF register_mask, Shared
  <2> QED BY <1>2, <2>1, TableFields, <1>1 DEF Same
<1>3. CASE mask # {} /\ T.mode # "shared"
  <2> DEFINE V == GiveToThief(T, s, mask)
  <2>1. mask \subseteq T.free
    BY <1>3 DEF CanRegister, Shared
  <2>2. T.mode # "none"
    BY <2>1, <1>3 DEF Sound, NoneOK
  <2>3. /\ V \in Table /\ Same(T, V) /\ V.free = T.free
        /\ \A k \in Slot \ {s} : V.info[k] = T.info[k]
        /\ V.info[s].current = T.info[s].current
        /\ V.info[s].future = T.info[s].future \cup mask
        /\ V.info[s].stolen = T.info[s].stolen \ mask
        /\ V.info[s].dirty = (T.info[s].dirty \/ mask # {})
    BY <1>1, GiveFields
  <2>4. U = [V EXCEPT !.free = T.free \ mask]
    BY <1>3, <1>1, TableFields DEF register_mask, Shared, GiveToThief, Unfree, Table, Entry
  <2> HIDE DEF V
  <2>5. /\ U \in Table /\ U.info = V.info /\ U.free = T.free \ mask
        /\ U.num = V.num /\ U.mode = V.mode /\ U.pidlist = V.pidlist
    BY <2>3, <2>4, TableFields DEF Table
  <2>6. Same(T, U)
    BY <2>3, <2>5 DEF Same
  <2>7. \A k \in Held(T) : T.info[k].future \cap mask = {}
    BY <2>1, <1>3 DEF Sound, Disjoint
  <2>a. /\ \A k \in Slot \ {s} : U.info[k] = T.info[k]
        /\ U.info[s].current = T.info[s].current
        /\ U.info[s].future = T.info[s].future \cup mask
        /\ U.info[s].stolen = T.info[s].stolen \ mask
        /\ U.info[s].dirty = (T.info[s].dirty \/ mask # {})
        /\ U.free = T.free \ mask /\ U \in Table
    BY <2>3, <2>5
  <2>8. Sound(U, s)
    <3>1. /\ T.mode = "none" => mask = {}
          /\ T.mode # "shared" => \A k \in Held(T) : T.info[k].future \cap mask = {}
      BY <2>2, <2>7
    <3>2. /\ Gained(T, U, s, mask) /\ U.free \subseteq T.free
          /\ T.mode # "shared" => U.free \cap mask = {}
      BY <2>a DEF Gained
    <3> QED BY <3>1, <3>2, <2>a, <2>6, GiveSound
  <2>9. Known(U) = Known(T) \cup mask
    BY <2>a, <2>6, GiveKnown, SameSlots, TableFields
  <2>10. Known(U) = Known(T)
    BY <2>9, <2>1 DEF Known
  <2> QED BY <1>3, <2>3, <2>5, <2>6, <2>8, <2>10, <2>a
<1> QED BY <1>2, <1>3

-----------------------------------------------------------------------------
(* unregister_mask *)

(* The processes that c was stolen from, and the CPUs of mask that go back *)
(* to slot k.                                                              *)
Losers(T, c) == {k \in Registered(T) : c \in T.info[k].stolen}

Back(T, mask, return_stolen, k) ==
  {c \in mask : return_stolen /\ Losers(T, c) # {} /\ Min(Losers(T, c)) = k}

(* Only a process that a CPU was stolen from gets it back, and only one. *)
LEMMA BackIsLoser ==
  ASSUME NEW T \in Table, NEW mask, NEW return_stolen, NEW k,
         NEW c \in Back(T, mask, return_stolen, k)
  PROVE  k \in Registered(T) /\ c \in T.info[k].stolen /\ c \in mask
<1>1. Losers(T, c) \in SUBSET Nat /\ Losers(T, c) # {}
  BY TableFields, SlotNat DEF Losers, Registered, Back
<1>2. Min(Losers(T, c)) \in Losers(T, c)
  BY <1>1, MinIsIn
<1> QED BY <1>2 DEF Losers, Back

(* The registered processes hold slots. *)
LEMMA RegisteredSlots ==
  ASSUME NEW T \in Table
  PROVE  Registered(T) \subseteq Held(T) /\ Held(T) \subseteq Slot /\ Registered(T) \subseteq Slot
BY TableFields, ProcInfoAssumption DEF Registered, Held, Slot

(* What unregister_mask does to the free mask and to each entry. *)
Unregistered(T, U, s, mask, return_stolen) ==
  /\ U.free = T.free \cup (mask \ UNION {Back(T, mask, return_stolen, k) : k \in Slot})
  /\ \A k \in Slot :
       LET back == Back(T, mask, return_stolen, k)
       IN  /\ U.info[k].current = T.info[k].current
           /\ U.info[k].future = (T.info[k].future \cup back) \ (IF k = s THEN mask ELSE {})
           /\ U.info[k].stolen = T.info[k].stolen \ back
           /\ U.info[k].dirty = (T.info[k].dirty \/ k = s \/ back # {})

(* unregister_mask does just that, and moves no process. *)
LEMMA UnregisterFields ==
  ASSUME NEW T \in Table, NEW s \in Slot, NEW mask \in SUBSET Cpu, NEW return_stolen,
         mask # {}, T.mode # "shared", NEW U, U = unregister_mask(T, s, mask, return_stolen)
  PROVE  U \in Table /\ Same(T, U) /\ Unregistered(T, U, s, mask, return_stolen)
<1> DEFINE back(k) == Back(T, mask, return_stolen, k)
           e(k) == [T.info[k] EXCEPT !.future = (@ \cup back(k)) \ (IF k = s THEN mask ELSE {}),
                                     !.stolen = @ \ back(k),
                                     !.dirty = @ \/ k = s \/ back(k) # {}]
           I == [k \in Slot |-> e(k)]
           F == T.free \cup (mask \ UNION {back(k) : k \in Slot})
<1>1. U = [T EXCEPT !.free = F, !.info = I]
  <2>1. ~ (mask = {} \/ Shared(T))
    BY DEF Shared
  <2> QED BY <2>1, Zenon DEF unregister_mask, Losers, Back
<1>2. \A k \in Slot : back(k) \in SUBSET Cpu
  BY DEF Back
<1>3. ASSUME NEW k \in Slot
      PROVE  /\ e(k) \in Entry /\ e(k).pid = T.info[k].pid
             /\ e(k).preregistered = T.info[k].preregistered
             /\ e(k).current = T.info[k].current
             /\ e(k).future = (T.info[k].future \cup back(k)) \ (IF k = s THEN mask ELSE {})
             /\ e(k).stolen = T.info[k].stolen \ back(k)
             /\ e(k).dirty = (T.info[k].dirty \/ k = s \/ back(k) # {})
  <2>1. T.info[k] \in Entry
    BY TableFields
  <2>2. back(k) \in SUBSET Cpu
    BY <1>2
  <2> HIDE DEF back
  <2> QED BY <2>1, <2>2 DEF Entry
<1>4. F \in SUBSET Cpu
  BY TableFields DEF Back
<1> HIDE DEF e, F, back
<1>5. I \in [Slot -> Entry] /\ \A k \in Slot : I[k] = e(k)
  BY <1>3
<1> HIDE DEF I
<1>6. /\ U \in Table /\ U.info = I /\ U.num = T.num /\ U.free = F
      /\ U.mode = T.mode /\ U.pidlist = T.pidlist
  BY <1>1, <1>4, <1>5 DEF Table
<1>7. Same(T, U)
  BY <1>3, <1>5, <1>6 DEF Same
<1> QED BY <1>3, <1>5, <1>6, <1>7 DEF F, back, Unregistered

(* CPUs of slot s go back to the processes they were stolen from or become *)
(* free: nothing is lost, and nothing gets a second owner.                 *)
LEMMA UnregisterOK ==
  ASSUME NEW T \in Table, NEW s \in Held(T), Sound(T, s), NEW mask \in SUBSET Cpu,
         NEW return_stolen, mask \subseteq T.info[s].future,
         NEW U, U = unregister_mask(T, s, mask, return_stolen)
  PROVE  /\ U \in Table /\ Same(T, U) /\ Sound(U, s)
         /\ T.mode # "shared" => Known(U) = Known(T)
         /\ U.info[s].current = T.info[s].current
         /\ T.mode # "shared" => U.info[s].future = T.info[s].future \ mask
         /\ T.mode = "shared" => U = T
<1> DEFINE back(k) == Back(T, mask, return_stolen, k)
<1>1. s \in Slot
  BY DEF Held
<1>2. CASE mask = {} \/ T.mode = "shared"
  <2>1. U = T
    BY <1>2 DEF unregister_mask, Shared
  <2> QED BY <1>2, <2>1, TableFields, <1>1 DEF Same
<1>3. CASE mask # {} /\ T.mode # "shared"
  <2>1. /\ U \in Table /\ Same(T, U)
        /\ U.free = T.free \cup (mask \ UNION {back(k) : k \in Slot})
        /\ \A k \in Slot :
             /\ U.info[k].current = T.info[k].current
             /\ U.info[k].future = (T.info[k].future \cup back(k)) \ (IF k = s THEN mask ELSE {})
             /\ U.info[k].stolen = T.info[k].stolen \ back(k)
             /\ U.info[k].dirty = (T.info[k].dirty \/ k = s \/ back(k) # {})
    <3>1. mask # {} /\ T.mode # "shared"
      BY <1>3
    <3>2. U \in Table /\ Same(T, U) /\ Unregistered(T, U, s, mask, return_stolen)
      BY <1>1, <3>1, UnregisterFields
    <3> QED BY <3>2, Zenon DEF Unregistered
  <2>2. \A k : \A c \in back(k) : k \in Registered(T) /\ c \in T.info[k].stolen /\ c \in mask
    BY BackIsLoser
  <2>3. \A k, j : \A c \in back(k) : c \in back(j) => k = j
    BY DEF Back
  <2> HIDE DEF back
  <2>4. back(s) = {}
    BY <2>2, <1>1 DEF Sound, EntryOK
  <2>5. Held(U) = Held(T) /\ Registered(T) \subseteq Held(T) /\ Held(T) \subseteq Slot
    BY <2>1, SameSlots, TableFields, RegisteredSlots
  <2>6. ASSUME NEW k \in Slot PROVE EntryOK(U.info[k])
    <3>1. EntryOK(T.info[k])
      BY DEF Sound
    <3>2. U.info[k].pid = T.info[k].pid /\ U.info[k].preregistered = T.info[k].preregistered
      BY <2>1 DEF Same
    <3>3. CASE k = s
      <4>1. /\ U.info[s].future = T.info[s].future \ mask /\ U.info[s].stolen = T.info[s].stolen
            /\ U.info[s].current = T.info[s].current
        <5>2. /\ U.info[s].future = (T.info[s].future \cup {}) \ mask
              /\ U.info[s].stolen = T.info[s].stolen \ {}
              /\ U.info[s].current = T.info[s].current
          BY <1>1, <2>1, <2>4, Zenon
        <5> QED BY <5>2
      <4>2. U.info[s].dirty = TRUE
        BY <1>1, <2>1
      <4> QED BY <3>1, <3>2, <3>3, <4>1, <4>2 DEF EntryOK
    <3>4. CASE k # s
      <4>1. /\ U.info[k].future = T.info[k].future \cup back(k)
            /\ U.info[k].stolen = T.info[k].stolen \ back(k)
            /\ U.info[k].current = T.info[k].current
            /\ U.info[k].dirty = (T.info[k].dirty \/ back(k) # {})
        BY <3>4, <2>1
      <4>2. CASE back(k) = {}
        BY <4>1, <4>2, <3>1, <3>2 DEF EntryOK
      <4>3. CASE back(k) # {}
        BY <4>1, <4>3, <3>1, <3>2 DEF EntryOK
      <4> QED BY <4>2, <4>3
    <3> QED BY <3>3, <3>4
  <2>7. BeyondOK(U, s)
    <3> SUFFICES ASSUME NEW k \in Held(T) \ {s}, k > T.num
                 PROVE  U.info[k].future = {} /\ U.info[k].stolen = {}
      BY <2>1, <2>5 DEF BeyondOK, Same
    <3>1. T.info[k].future = {} /\ T.info[k].stolen = {}
      BY DEF Sound, BeyondOK
    <3>2. back(k) = {}
      BY <2>2, <3>1
    <3> QED BY <3>1, <3>2, <2>1, <2>5
  <2>8. T.mode # "none"
    BY <1>3 DEF Sound, NoneOK
  <2>9. \A k \in Held(T) :
          U.info[k].future = IF k = s THEN T.info[k].future \ mask
                             ELSE T.info[k].future \cup back(k)
    BY <2>1, <2>4, <2>5
  <2>10. Disjoint(U)
    <3>1. ASSUME NEW k \in Held(T) PROVE U.info[k].future \cap U.free = {}
      <4> SUFFICES ASSUME NEW c \in U.info[k].future, c \in U.free PROVE FALSE
        OBVIOUS
      <4>1. CASE c \in back(k)
        BY <4>1, <2>1, <2>2, <2>5, <1>3 DEF Sound, Disjoint
      <4>2. CASE c \in T.info[k].future /\ c \notin back(k)
        <5>1. c \notin T.free /\ (c \in mask => k = s)
          BY <4>2, <1>3 DEF Sound, Disjoint
        <5> QED BY <5>1, <2>1, <2>9
      <4> QED BY <4>1, <4>2, <2>9
    <3>2. ASSUME NEW k \in Held(T), NEW j \in Held(T) \ {k},
                 NEW c \in U.info[k].future, c \in U.info[j].future
          PROVE  FALSE
      <4>1. \A i \in Held(T) : c \in mask /\ i # s => c \notin T.info[i].future
        BY <1>3 DEF Sound, Disjoint
      <4>2. CASE c \in back(k)
        BY <4>1, <4>2, <3>2, <2>2, <2>3, <2>4, <2>9
      <4>3. CASE c \in back(j)
        BY <4>1, <4>3, <3>2, <2>2, <2>3, <2>4, <2>9
      <4>4. CASE c \in T.info[k].future /\ c \in T.info[j].future
        BY <4>4, <3>2, <1>3 DEF Sound, Disjoint
      <4> QED BY <4>2, <4>3, <4>4, <3>2, <2>9
    <3> QED BY <3>1, <3>2, <2>5 DEF Disjoint
  <2>11. ASSUME NEW c PROVE c \in Known(U) <=> c \in Known(T)
    <3>1. CASE c \in mask
      <4>1. c \in Known(T)
        BY <3>1 DEF Known
      <4>2. c \in Known(U)
        <5>1. CASE c \in U.free
          BY <5>1 DEF Known
        <5>2. CASE c \notin U.free
          <6>1. PICK k \in Slot : c \in back(k)
            BY <5>2, <3>1, <2>1
          <6>2. k \in Held(U) /\ c \in U.info[k].future
            BY <6>1, <2>2, <2>4, <2>5, <2>9
          <6> QED BY <6>2 DEF Known
        <5> QED BY <5>1, <5>2
      <4> QED BY <4>1, <4>2
    <3>2. CASE c \notin mask
      <4>1. c \in U.free <=> c \in T.free
        BY <3>2, <2>1
      <4>2. \A k \in Held(T) : c \in U.info[k].future <=> c \in T.info[k].future
        BY <3>2, <2>2, <2>9
      <4> QED BY <4>1, <4>2, <2>5 DEF Known
    <3> QED BY <3>1, <3>2
  <2>12. Sound(U, s)
    BY <2>1, <2>6, <2>7, <2>8, <2>10 DEF Sound, NoneOK, Same
  <2> QED BY <1>3, <1>1, <2>1, <2>4, <2>11, <2>12
<1> QED BY <1>2, <1>3

-----------------------------------------------------------------------------
(* Stealing *)

(* Every victim is a registered process other than the thief. *)
LEMMA VictimsRegistered ==
  ASSUME NEW T \in Table, NEW s, NEW mask
  PROVE  /\ Victims(T, s, mask) \subseteq Registered(T) \ {s}
         /\ Victims(T, s, mask) \subseteq Slot \ {s}
BY RegisteredSlots DEF Victims

(* What stealing does to each entry. *)
Taken(T, U, s, mask) ==
  /\ U.free = T.free
  /\ \A k \in Slot \ Victims(T, s, mask) : U.info[k] = T.info[k]
  /\ \A k \in Victims(T, s, mask) :
       /\ U.info[k].current = T.info[k].current
       /\ U.info[k].future = T.info[k].current \ mask
       /\ U.info[k].stolen = T.info[k].stolen \cup (T.info[k].current \cap mask)
       /\ U.info[k].dirty = TRUE

(* TakeFromVictims does just that, and moves no process. *)
LEMMA TakeFields ==
  ASSUME NEW T \in Table, NEW s, NEW mask \in SUBSET Cpu,
         NEW U, U = TakeFromVictims(T, s, mask)
  PROVE  U \in Table /\ Same(T, U) /\ Taken(T, U, s, mask)
<1> DEFINE V == Victims(T, s, mask)
           v(k) == [T.info[k] EXCEPT !.dirty = TRUE, !.future = T.info[k].current \ mask,
                                     !.stolen = @ \cup (T.info[k].current \cap mask)]
           e(k) == IF k \notin V THEN T.info[k] ELSE v(k)
           I == [k \in Slot |-> e(k)]
<1>1. U = [T EXCEPT !.info = I]
  BY Zenon DEF TakeFromVictims
<1>2. ASSUME NEW k \in Slot
      PROVE  /\ v(k) \in Entry /\ v(k).pid = T.info[k].pid
             /\ v(k).preregistered = T.info[k].preregistered
             /\ v(k).current = T.info[k].current
             /\ v(k).future = T.info[k].current \ mask
             /\ v(k).stolen = T.info[k].stolen \cup (T.info[k].current \cap mask)
             /\ v(k).dirty = TRUE
  BY TableFields DEF Entry
<1> HIDE DEF v, V
<1>3. I \in [Slot -> Entry] /\ \A k \in Slot : I[k] = e(k)
  BY <1>2, TableFields
<1> HIDE DEF I
<1>4. /\ U \in Table /\ U.info = I /\ U.num = T.num /\ U.free = T.free
      /\ U.mode = T.mode /\ U.pidlist = T.pidlist
  BY <1>1, <1>3 DEF Table
<1>5. Same(T, U)
  BY <1>2, <1>3, <1>4 DEF Same
<1>6. V \subseteq Slot
  BY VictimsRegistered DEF V
<1>7. Taken(T, U, s, mask)
  BY <1>2, <1>3, <1>4, <1>6 DEF Taken, V
<1> QED BY <1>4, <1>5, <1>7

(* A steal that the dry run allows takes its CPUs from the processes that  *)
(* own them; nobody knows them afterwards.                                 *)
LEMMA TakeOK ==
  ASSUME NEW T \in Table, NEW s, NEW x, Sound(T, x), NEW mask \in SUBSET Cpu,
         CanSteal(T, s, mask), NEW U, U = TakeFromVictims(T, s, mask)
  PROVE  /\ U \in Table /\ Same(T, U) /\ Sound(U, x)
         /\ T.mode # "shared" => /\ mask \subseteq Known(T) /\ mask \cap Known(U) = {}
                                 /\ Known(T) \subseteq Known(U) \cup mask
         /\ T.mode = "none" => mask = {}
         /\ U.free = T.free
         /\ s \in Slot => U.info[s] = T.info[s]
<1> DEFINE V == Victims(T, s, mask)
<1>1. U \in Table /\ Same(T, U) /\ Taken(T, U, s, mask)
  BY TakeFields
<1>2. V \subseteq Registered(T) \ {s} /\ V \subseteq Held(T) /\ V \subseteq Slot \ {s}
  BY VictimsRegistered, RegisteredSlots
<1>3. mask \subseteq UNION {T.info[k].current : k \in V} /\ \A k \in V : ~ T.info[k].dirty
  BY DEF CanSteal
<1>4. Held(U) = Held(T) /\ Held(T) \subseteq Slot
  BY <1>1, SameSlots, TableFields, RegisteredSlots
<1>5. /\ U.free = T.free /\ \A k \in Slot \ V : U.info[k] = T.info[k]
      /\ \A k \in V :
           /\ U.info[k].current = T.info[k].current
           /\ U.info[k].future = T.info[k].current \ mask
           /\ U.info[k].stolen = T.info[k].stolen \cup (T.info[k].current \cap mask)
           /\ U.info[k].dirty = TRUE
  BY <1>1 DEF Taken
<1> HIDE DEF V
<1>6. \A k \in V : T.info[k].future = T.info[k].current /\ EntryOK(T.info[k])
  BY <1>2, <1>3 DEF Sound, EntryOK
<1>7. \A k \in Held(T) : U.info[k].future = IF k \in V THEN T.info[k].future \ mask
                                            ELSE T.info[k].future
  BY <1>4, <1>5, <1>6
<1>8. ASSUME NEW k \in Slot PROVE EntryOK(U.info[k])
  <2>1. CASE k \in V
    <3>1. U.info[k].pid = T.info[k].pid /\ U.info[k].preregistered = T.info[k].preregistered
      BY <1>1 DEF Same
    <3>2. T.info[k].pid # NOBODY
      BY <2>1, <1>2 DEF Held
    <3> QED BY <2>1, <1>5, <1>6, <3>1, <3>2 DEF EntryOK
  <2>2. CASE k \notin V
    BY <2>2, <1>5 DEF Sound
  <2> QED BY <2>1, <2>2
<1>9. BeyondOK(U, x)
  <2>1. \A k \in V : ~ k > T.num
    BY <1>2, TableFields DEF Registered
  <2> QED BY <2>1, <1>1, <1>4, <1>5 DEF Sound, BeyondOK, Same
<1>10. T.mode = "none" => mask = {} /\ V = {}
  <2> SUFFICES ASSUME T.mode = "none" PROVE mask = {} /\ V = {}
    OBVIOUS
  <2>1. \A k \in V : T.info[k].current = {}
    BY <1>2 DEF Sound, NoneOK
  <2>2. mask = {}
    BY <2>1, <1>3
  <2> QED BY <2>1, <2>2 DEF V, Victims
<1>11. NoneOK(U)
  BY <1>1, <1>4, <1>5, <1>10 DEF Sound, NoneOK, Same
<1>12. Disjoint(U)
  <2>1. U.mode = T.mode /\ U.free \subseteq T.free
    BY <1>1, <1>5 DEF Same
  <2>2. Held(U) \subseteq Held(T) /\ \A k \in Held(U) : U.info[k].future \subseteq T.info[k].future
    BY <1>4, <1>7
  <2>3. Disjoint(T)
    BY DEF Sound
  <2> QED BY <2>1, <2>2, <2>3, DisjointShrinks
<1>13. \A c \in mask : \E k \in V : c \in T.info[k].future
  BY <1>3, <1>6
<1>14. T.mode # "shared" => mask \subseteq Known(T)
  BY <1>2, <1>13 DEF Known
<1>15. T.mode # "shared" => mask \cap Known(U) = {}
  <2> SUFFICES ASSUME T.mode # "shared", NEW c \in mask, c \in Known(U) PROVE FALSE
    OBVIOUS
  <2>1. PICK k \in V : c \in T.info[k].future
    BY <1>13
  <2>2. c \notin T.free
    BY <2>1, <1>2 DEF Sound, Disjoint
  <2>3. PICK j \in Held(T) : c \in U.info[j].future
    BY <2>2, <1>4, <1>5 DEF Known
  <2>4. j \notin V /\ c \in T.info[j].future
    BY <2>3, <1>7
  <2> QED BY <2>1, <2>4, <1>2 DEF Sound, Disjoint
<1>16. ASSUME NEW c \in Known(T), c \notin mask PROVE c \in Known(U)
  <2>1. CASE c \in T.free
    BY <2>1, <1>5 DEF Known
  <2>2. CASE c \notin T.free
    <3>1. PICK k \in Held(T) : c \in T.info[k].future
      BY <2>2 DEF Known
    <3>2. k \in Held(U) /\ c \in U.info[k].future
      BY <3>1, <1>4, <1>7, <1>16
    <3> QED BY <3>2 DEF Known
  <2> QED BY <2>1, <2>2
<1>17. Sound(U, x)
  BY <1>8, <1>9, <1>11, <1>12 DEF Sound
<1> QED BY <1>1, <1>2, <1>5, <1>10, <1>14, <1>15, <1>16, <1>17

(* What a steal that is given up does to each entry. *)
Returned(T, U, s, mask) ==
  /\ U.free = T.free
  /\ \A k \in Slot \ (Registered(T) \ {s}) : U.info[k] = T.info[k]
  /\ \A k \in Registered(T) \ {s} :
       /\ U.info[k].current = T.info[k].current
       /\ U.info[k].future = T.info[k].future \cup (T.info[k].stolen \cap mask)
       /\ U.info[k].stolen = T.info[k].stolen \ mask
       /\ U.info[k].dirty = IF T.info[k].stolen \cap mask = {} THEN T.info[k].dirty
                            ELSE U.info[k].current # U.info[k].future

(* RollBack does just that, and moves no process. *)
LEMMA RollBackFields ==
  ASSUME NEW T \in Table, NEW s, NEW mask \in SUBSET Cpu, NEW U, U = RollBack(T, s, mask)
  PROVE  U \in Table /\ Same(T, U) /\ Returned(T, U, s, mask)
<1> DEFINE R == Registered(T) \ {s}
           back(k) == T.info[k].stolen \cap mask
           v(k) == [T.info[k] EXCEPT !.future = T.info[k].future \cup back(k),
                                     !.stolen = @ \ back(k),
                                     !.dirty = (T.info[k].current # T.info[k].future \cup back(k))]
           e(k) == IF k \notin R \/ back(k) = {} THEN T.info[k] ELSE v(k)
           I == [k \in Slot |-> e(k)]
<1>1. U = [T EXCEPT !.info = I]
  BY Zenon DEF RollBack
<1>2. ASSUME NEW k \in Slot
      PROVE  /\ v(k) \in Entry /\ v(k).pid = T.info[k].pid
             /\ v(k).preregistered = T.info[k].preregistered
             /\ v(k).current = T.info[k].current
             /\ v(k).future = T.info[k].future \cup back(k)
             /\ v(k).stolen = T.info[k].stolen \ mask
             /\ v(k).dirty = (T.info[k].current # T.info[k].future \cup back(k))
  BY TableFields DEF Entry
<1> HIDE DEF v
<1>3. I \in [Slot -> Entry] /\ \A k \in Slot : I[k] = e(k)
  BY <1>2, TableFields
<1> HIDE DEF I
<1>4. /\ U \in Table /\ U.info = I /\ U.num = T.num /\ U.free = T.free
      /\ U.mode = T.mode /\ U.pidlist = T.pidlist
  BY <1>1, <1>3 DEF Table
<1>5. Same(T, U)
  BY <1>2, <1>3, <1>4 DEF Same
<1>6. R \subseteq Slot
  BY RegisteredSlots
<1>7. ASSUME NEW k \in R
      PROVE  /\ U.info[k].current = T.info[k].current
             /\ U.info[k].future = T.info[k].future \cup (T.info[k].stolen \cap mask)
             /\ U.info[k].stolen = T.info[k].stolen \ mask
             /\ U.info[k].dirty = IF T.info[k].stolen \cap mask = {} THEN T.info[k].dirty
                                  ELSE U.info[k].current # U.info[k].future
  <2>1. k \in Slot /\ U.info[k] = e(k)
    BY <1>3, <1>4, <1>6
  <2>2. CASE back(k) = {}
    <3>1. U.info[k] = T.info[k]
      BY <2>1, <2>2
    <3> QED BY <2>2, <3>1
  <2>3. CASE back(k) # {}
    <3>1. U.info[k] = v(k)
      BY <2>1, <2>3
    <3>2. IF back(k) = {} THEN T.info[k].dirty ELSE U.info[k].current # U.info[k].future
          <=> U.info[k].current # U.info[k].future
      BY <2>3
    <3> QED BY <2>1, <2>3, <3>1, <1>2
  <2> QED BY <2>2, <2>3
<1>8. Returned(T, U, s, mask)
  BY <1>3, <1>4, <1>7 DEF Returned
<1> QED BY <1>4, <1>5, <1>8

(* A steal that is given up returns each CPU to the process it was stolen  *)
(* from, if there is exactly one and nobody has it.                        *)
LEMMA RollBackOK ==
  ASSUME NEW T \in Table, NEW s, NEW x, Sound(T, x), NEW mask \in SUBSET Cpu,
         T.mode # "shared" =>
           /\ \A k \in Held(T) : T.info[k].future \cap mask = {}
           /\ T.free \cap mask = {},
         \A c \in mask : \A k, j \in Registered(T) \ {s} :
           c \in T.info[k].stolen /\ c \in T.info[j].stolen => k = j,
         \A c \in mask : \E k \in Registered(T) \ {s} : c \in T.info[k].stolen,
         NEW U, U = RollBack(T, s, mask)
  PROVE  /\ U \in Table /\ Same(T, U) /\ Sound(U, x) /\ Known(U) = Known(T) \cup mask
         /\ s \in Slot => U.info[s] = T.info[s]
<1> DEFINE R == Registered(T) \ {s}
           back(k) == T.info[k].stolen \cap mask
<1>1. U \in Table /\ Same(T, U) /\ Returned(T, U, s, mask)
  BY RollBackFields
<1>2. R \subseteq Held(T) /\ R \subseteq Slot /\ Held(T) \subseteq Slot /\ Held(U) = Held(T)
  BY <1>1, RegisteredSlots, SameSlots, TableFields
<1>3. /\ U.free = T.free /\ \A k \in Slot \ R : U.info[k] = T.info[k]
      /\ \A k \in R : /\ U.info[k].current = T.info[k].current
                      /\ U.info[k].future = T.info[k].future \cup back(k)
                      /\ U.info[k].stolen = T.info[k].stolen \ mask
                      /\ U.info[k].dirty = IF back(k) = {} THEN T.info[k].dirty
                                           ELSE U.info[k].current # U.info[k].future
  BY <1>1, Zenon DEF Returned
<1>4. \A k \in Held(T) : U.info[k].future = IF k \in R THEN T.info[k].future \cup back(k)
                                            ELSE T.info[k].future
  BY <1>2, <1>3
<1>5. ASSUME NEW k \in Slot PROVE EntryOK(U.info[k])
  <2>1. EntryOK(T.info[k])
    BY DEF Sound
  <2>2. CASE k \in R
    <3>1. U.info[k].pid = T.info[k].pid /\ U.info[k].preregistered = T.info[k].preregistered
      BY <1>1 DEF Same
    <3>2. CASE back(k) = {}
      <4>1. /\ U.info[k].future = T.info[k].future /\ U.info[k].stolen = T.info[k].stolen
            /\ U.info[k].current = T.info[k].current
        <5>1. /\ U.info[k].future = T.info[k].future \cup {}
              /\ U.info[k].current = T.info[k].current
          BY <2>2, <3>2, <1>3, Zenon
        <5>2. U.info[k].stolen = T.info[k].stolen \ mask
          BY <2>2, <1>3
        <5>3. T.info[k].stolen \ mask = T.info[k].stolen
          BY <3>2
        <5> QED BY <5>1, <5>2, <5>3
      <4>2. U.info[k].dirty = T.info[k].dirty
        BY <2>2, <3>2, <1>3, Zenon
      <4> QED BY <4>1, <4>2, <2>1, <3>1 DEF EntryOK
    <3>3. CASE back(k) # {}
      <4>1. /\ U.info[k].future = T.info[k].future \cup back(k)
            /\ U.info[k].stolen = T.info[k].stolen \ mask
            /\ U.info[k].current = T.info[k].current
        BY <2>2, <1>3
      <4>2. U.info[k].dirty = (U.info[k].current # U.info[k].future)
        BY <2>2, <3>3, <1>3
      <4> QED BY <4>1, <4>2, <2>1, <3>1 DEF EntryOK
    <3> QED BY <3>2, <3>3
  <2>3. CASE k \notin R
    BY <2>1, <2>3, <1>3
  <2> QED BY <2>2, <2>3
<1>6. BeyondOK(U, x)
  <2>1. \A k \in R : ~ k > T.num
    BY TableFields DEF Registered
  <2> QED BY <2>1, <1>1, <1>2, <1>3 DEF Sound, BeyondOK, Same
<1>7. NoneOK(U)
  <2> SUFFICES ASSUME T.mode = "none" PROVE NoneOK(U)
    BY <1>1 DEF NoneOK, Same
  <2>1. \A k \in R : back(k) = {}
    BY <1>2 DEF Sound, NoneOK
  <2> QED BY <2>1, <1>2, <1>3 DEF Sound, NoneOK
<1>8. Disjoint(U)
  <2> SUFFICES ASSUME T.mode # "shared" PROVE Disjoint(U)
    BY <1>1 DEF Disjoint, Same
  <2>1. \A k \in Held(T) : U.info[k].future \cap U.free = {}
    BY <1>3, <1>4 DEF Sound, Disjoint
  <2>2. ASSUME NEW k \in Held(T), NEW j \in Held(T) \ {k},
               NEW c \in U.info[k].future, c \in U.info[j].future
        PROVE  FALSE
    <3>1. CASE c \in mask
      BY <2>2, <3>1, <1>4
    <3>2. CASE c \notin mask
      BY <2>2, <3>2, <1>4 DEF Sound, Disjoint
    <3> QED BY <3>1, <3>2
  <2> QED BY <2>1, <2>2, <1>2 DEF Disjoint
<1>9. ASSUME NEW c PROVE c \in Known(U) <=> c \in Known(T) \cup mask
  <2>1. CASE c \in mask
    <3>1. PICK k \in R : c \in T.info[k].stolen
      BY <2>1
    <3>2. k \in Held(U) /\ c \in U.info[k].future
      BY <2>1, <3>1, <1>2, <1>3
    <3>3. c \in Known(U)
      BY <3>2 DEF Known
    <3> QED BY <2>1, <3>3
  <2>2. CASE c \notin mask
    <3>1. \A k \in Held(T) : c \in U.info[k].future <=> c \in T.info[k].future
      BY <2>2, <1>4
    <3> QED BY <2>2, <3>1, <1>2, <1>3 DEF Known
  <2> QED BY <2>1, <2>2
<1> QED BY <1>1, <1>3, <1>5, <1>6, <1>7, <1>8, <1>9 DEF Sound

-----------------------------------------------------------------------------
(* set_new_mask and the ends of the calls that use it *)

(* A table that is sound save for a slot that num reaches is sound. *)
LEMMA SoundReached ==
  ASSUME NEW T \in Table, NEW s, Sound(T, s),
         s \in Held(T) /\ s > T.num => T.info[s].future = {} /\ T.info[s].stolen = {}
  PROVE  Sound(T, 0)
BY DEF Sound, BeyondOK

(* A table that is sound is so when one slot is left aside. *)
LEMMA SoundSave ==
  ASSUME NEW T \in Table, NEW s, Sound(T, 0)
  PROVE  Sound(T, s)
<1>1. 0 \notin Held(T)
  BY SlotNat DEF Held
<1> QED BY <1>1 DEF Sound, BeyondOK

(* Once the CPUs to steal are nobody's, the rest of set_new_mask gives     *)
(* slot s what it asked for and takes from it what it asked to free.       *)
LEMMA RearrangeOK ==
  ASSUME NEW T \in Table, NEW s \in Held(T), Sound(T, s), NEW w \in Work, NEW r,
         T.mode # "shared" => w.steal \cap Known(T) = {},
         T.mode = "none" => w.steal = {},
         CanRegister(T, w.acquire), w.free \subseteq T.info[s].future,
         NEW U, U = Rearrange(T, s, w, r)
  PROVE  /\ U \in Table /\ Same(T, U) /\ Sound(U, s)
         /\ U.info[s].current = T.info[s].current
         /\ T.mode # "shared" =>
              /\ Known(U) = Known(T) \cup w.steal
              /\ U.info[s].future = (T.info[s].future \cup w.steal \cup w.acquire) \ w.free
         /\ T.info[s].stolen = {} => U.info[s].stolen = {}
<1> DEFINE G == GiveToThief(T, s, w.steal)
           H == register_mask(G, s, w.acquire)
<1>1. w.steal \in SUBSET Cpu /\ w.acquire \in SUBSET Cpu /\ w.free \in SUBSET Cpu
  BY DEF Work
<1>2. /\ G \in Table /\ Same(T, G) /\ Sound(G, s) /\ Known(G) = Known(T) \cup w.steal
      /\ G.free = T.free /\ G.info[s].future = T.info[s].future \cup w.steal
      /\ G.info[s].current = T.info[s].current
  BY <1>1, GiveOK
<1>3. s \in Held(G) /\ G.mode = T.mode /\ s \in Slot
  BY <1>2, SameSlots, TableFields DEF Same, Held
<1>4. CanRegister(G, w.acquire)
  BY <1>2, <1>3 DEF CanRegister, Shared
<1>5. U = unregister_mask(H, s, w.free, r)
  BY DEF Rearrange
<1> HIDE DEF G
<1>6. /\ H \in Table /\ Same(G, H) /\ Sound(H, s)
      /\ G.mode # "shared" => /\ Known(H) = Known(G)
                              /\ H.info[s].future = G.info[s].future \cup w.acquire
      /\ H.info[s].current = G.info[s].current
      /\ G.mode = "shared" => H = G
  BY <1>1, <1>2, <1>3, <1>4, RegisterOK
<1> HIDE DEF H
<1>7. s \in Held(H) /\ H.mode = T.mode
  BY <1>2, <1>3, <1>6, SameSlots, TableFields DEF Same
<1>8. w.free \subseteq H.info[s].future
  BY <1>2, <1>3, <1>6
<1>9. /\ U \in Table /\ Same(H, U) /\ Sound(U, s)
      /\ H.mode # "shared" => /\ Known(U) = Known(H)
                              /\ U.info[s].future = H.info[s].future \ w.free
      /\ U.info[s].current = H.info[s].current
      /\ H.mode = "shared" => U = H
  <2>1. H \in Table /\ Sound(H, s) /\ s \in Held(H)
    BY <1>6, <1>7
  <2>2. w.free \in SUBSET Cpu
    BY <1>1
  <2> QED BY <2>1, <2>2, <1>5, <1>8, UnregisterOK
<1>10. Same(T, U)
  BY <1>2, <1>6, <1>9, SameTrans
<1>11. T.mode # "shared" =>
         /\ Known(U) = Known(T) \cup w.steal
         /\ U.info[s].future = (T.info[s].future \cup w.steal \cup w.acquire) \ w.free
  BY <1>2, <1>3, <1>6, <1>7, <1>9
<1>12. T.info[s].stolen = {} => U.info[s].stolen = {}
  <2> SUFFICES ASSUME T.info[s].stolen = {} PROVE U.info[s].stolen = {}
    OBVIOUS
  <2>1. G.info[s].stolen = {}
    BY <1>1, <1>3, GiveFields DEF G
  <2>2. H.info[s].stolen = {}
    <3>1. CASE G.mode = "shared" \/ w.acquire = {}
      BY <3>1, <2>1 DEF H, register_mask, Shared
    <3>2. CASE G.mode # "shared" /\ w.acquire # {}
      BY <3>2, <2>1, <1>2, <1>3, TableFields
         DEF H, register_mask, Shared, Unfree, Table, Entry
    <3> QED BY <3>1, <3>2
  <2>3. CASE H.mode = "shared" \/ w.free = {}
    BY <2>3, <2>2, <1>5 DEF unregister_mask, Shared
  <2>4. CASE H.mode # "shared" /\ w.free # {}
    <3>1. Unregistered(H, U, s, w.free, r)
      BY <2>4, <1>1, <1>3, <1>5, <1>6, UnregisterFields
    <3> QED BY <3>1, <2>2, <1>3 DEF Unregistered
  <2> QED BY <2>3, <2>4
<1> QED BY <1>2, <1>6, <1>9, <1>10, <1>11, <1>12

(* num grows to reach slot s, and the processes stay where they are. *)
Grown(T, U, s) ==
  /\ U.num = (IF s > T.num THEN s ELSE T.num) /\ U.mode = T.mode /\ U.pidlist = T.pidlist
  /\ \A k \in Slot : /\ U.info[k].pid = T.info[k].pid
                     /\ U.info[k].preregistered = T.info[k].preregistered

(* The end of preinit: slot s has the mask, and num reaches it. *)
LEMMA PreinitializedOK ==
  ASSUME NEW T \in Table, NEW s \in Held(T), Sound(T, s), NEW mask \in SUBSET Cpu,
         T.mode # "shared" => T.info[s].future = mask,
         T.info[s].stolen = {}, NEW U, U = Preinitialized(T, s, mask)
  PROVE  /\ U \in Table /\ Grown(T, U, s) /\ Sound(U, 0)
         /\ T.mode # "shared" => Known(U) = Known(T)
<1>0. s \in Slot
  BY DEF Held
<1> DEFINE e == [T.info[s] EXCEPT !.current = mask, !.future = mask, !.dirty = FALSE]
           I == [T.info EXCEPT ![s] = e]
           n == IF s > T.num THEN s ELSE T.num
<1>1. U = [T EXCEPT !.info = I, !.num = n]
  BY <1>0, TableFields DEF Preinitialized, GrowTo, Table, Entry
<1>2. /\ e \in Entry /\ e.pid = T.info[s].pid /\ e.preregistered = T.info[s].preregistered
      /\ e.current = mask /\ e.future = mask /\ e.stolen = {} /\ e.dirty = FALSE
  BY <1>0, TableFields DEF Entry
<1> HIDE DEF e
<1>3. I \in [Slot -> Entry] /\ I[s] = e /\ \A k \in Slot \ {s} : I[k] = T.info[k]
  BY <1>0, <1>2, TableFields
<1>4. n \in 0..MaxProcesses /\ s <= n /\ T.num <= n
  BY <1>0, TableFields, ProcInfoAssumption DEF Slot
<1> HIDE DEF I, n
<1>5. /\ U \in Table /\ U.info = I /\ U.num = n /\ U.free = T.free
      /\ U.mode = T.mode /\ U.pidlist = T.pidlist
  BY <1>1, <1>3, <1>4 DEF Table
<1>6. Grown(T, U, s)
  BY <1>2, <1>3, <1>5 DEF Grown, n
<1>7. Held(U) = Held(T) /\ Held(T) \subseteq Slot
  BY <1>6 DEF Grown, Held
<1>8. \A k \in Slot : EntryOK(U.info[k])
  BY <1>0, <1>2, <1>3, <1>5 DEF Sound, EntryOK
<1>9. BeyondOK(U, 0)
  <2> SUFFICES ASSUME NEW k \in Held(T), k > n
               PROVE  U.info[k].future = {} /\ U.info[k].stolen = {}
    BY <1>5, <1>7 DEF BeyondOK
  <2>1. k \in Nat /\ k # s /\ k > T.num
    BY <1>4, <1>7, <1>0, SlotNat, TableFields, ProcInfoAssumption
  <2> QED BY <2>1, <1>3, <1>5, <1>7 DEF Sound, BeyondOK
<1>10. T.mode # "shared" => \A k \in Held(T) : U.info[k].future = T.info[k].future
  BY <1>2, <1>3, <1>5, <1>7
<1>11. NoneOK(U)
  BY <1>2, <1>3, <1>5, <1>7 DEF Sound, NoneOK
<1>12. Disjoint(U)
  <2>1. CASE T.mode = "shared"
    BY <2>1, <1>5 DEF Disjoint
  <2>2. CASE T.mode # "shared"
    BY <2>2, <1>5, <1>7, <1>10, DisjointShrinks DEF Sound
  <2> QED BY <2>1, <2>2
<1>13. T.mode # "shared" => Known(U) = Known(T)
  BY <1>5, <1>7, <1>10 DEF Known
<1> QED BY <1>5, <1>6, <1>8, <1>9, <1>11, <1>12, <1>13 DEF Sound

(* A process adopts the mask it has been told to use. *)
LEMMA SettleOK ==
  ASSUME NEW T \in Table, NEW s \in Slot, NEW x, Sound(T, x), ~ T.info[s].preregistered,
         NEW U, U = Settle(T, s)
  PROVE  U \in Table /\ Same(T, U) /\ Sound(U, x) /\ Known(U) = Known(T)
<1> DEFINE e == [T.info[s] EXCEPT !.current = T.info[s].future, !.dirty = FALSE]
           I == [T.info EXCEPT ![s] = e]
<1>1. U = [T EXCEPT !.info = I]
  BY TableFields DEF Settle, Table, Entry
<1>2. /\ e \in Entry /\ e.pid = T.info[s].pid /\ e.preregistered = T.info[s].preregistered
      /\ e.current = T.info[s].future /\ e.future = T.info[s].future
      /\ e.stolen = T.info[s].stolen /\ e.dirty = FALSE
  BY TableFields DEF Entry
<1> HIDE DEF e
<1>3. I \in [Slot -> Entry] /\ I[s] = e /\ \A k \in Slot \ {s} : I[k] = T.info[k]
  BY <1>2, TableFields
<1> HIDE DEF I
<1>4. /\ U \in Table /\ U.info = I /\ U.num = T.num /\ U.free = T.free
      /\ U.mode = T.mode /\ U.pidlist = T.pidlist
  BY <1>1, <1>3 DEF Table
<1>5. Same(T, U)
  BY <1>2, <1>3, <1>4 DEF Same
<1>6. Held(U) = Held(T) /\ Held(T) \subseteq Slot
  BY <1>5, SameSlots, TableFields, RegisteredSlots
<1>7. \A k \in Slot : U.info[k].future = T.info[k].future /\ U.info[k].stolen = T.info[k].stolen
  BY <1>2, <1>3, <1>4
<1>8. \A k \in Slot : EntryOK(U.info[k])
  BY <1>2, <1>3, <1>4 DEF Sound, EntryOK
<1>9. BeyondOK(U, x) /\ NoneOK(U)
  BY <1>2, <1>3, <1>4, <1>6, <1>7 DEF Sound, BeyondOK, NoneOK
<1>10. Disjoint(U)
  BY <1>4, <1>6, <1>7, DisjointShrinks DEF Sound
<1>11. Known(U) = Known(T)
  BY <1>4, <1>6, <1>7 DEF Known
<1> QED BY <1>4, <1>5, <1>8, <1>9, <1>10, <1>11 DEF Sound

-----------------------------------------------------------------------------
(* Opening and closing the memory *)

Wiped(U) == U.mode = "none" /\ U.free = {} /\ U.num = 0 /\ \A k \in Slot : U.info[k] = EmptySlot

(* Some entries of T are empty in U, and what they had is still known. *)
Thinned(T, U) ==
  /\ U.mode = T.mode /\ U.num = T.num /\ Known(U) = Known(T)
  /\ \A k \in Slot : U.info[k] \in {T.info[k], EmptySlot}

(* A wiped table is sound and nobody is in it. *)
LEMMA WipedSound ==
  ASSUME NEW U \in Table, Wiped(U)
  PROVE  Sound(U, 0) /\ Held(U) = {}
<1>1. Held(U) = {}
  BY EmptyFields DEF Wiped, Held
<1> QED BY <1>1, EmptyFields DEF Wiped, Sound, BeyondOK, NoneOK, Disjoint

(* What is good stays so when entries are emptied or the table is wiped,   *)
(* if the processes that are registered keep theirs.                       *)
LEMMA GoodThinned ==
  ASSUME NEW T, NEW my, NEW in, NEW c \in [Clients -> {NoCall, Adopting} \cup Wait],
         Good(T, my, in, c), NEW U \in Table,
         Sound(U, 0), Rooted(U, my, in), Thinned(T, U) \/ Wiped(U)
  PROVE  Good(U, my, in, c)
<1>1. Lossless(U, c)
  <2>1. CASE Thinned(T, U)
    BY <2>1 DEF Thinned, Lossless, Good
  <2>2. CASE Wiped(U)
    BY <2>2 DEF Wiped, Lossless
  <2> QED BY <2>1, <2>2
<1>2. ASSUME NEW x \in Steals(c) PROVE TargetOK(U, x, c[x])
  <2>1. TargetOK(T, x, c[x])
    BY DEF Good, Resumable
  <2>2. c[x].slot \in Slot
    BY DEF Steals, Wait, NoCall, Adopting
  <2>3. CASE Thinned(T, U)
    BY <2>1, <2>2, <2>3, EmptyFields DEF Thinned, TargetOK
  <2>4. CASE Wiped(U)
    <3>1. CASE x = Admin
      BY <2>2, <2>4, <3>1, EmptyFields DEF Wiped, TargetOK
    <3>2. CASE x # Admin
      <4>1. in[x] = "in" /\ x \in Pid
        BY <3>2, ProcInfoAssumption DEF Good, Resumable, Steals, NoCall
      <4>2. At(U, my[x], x)
        BY <4>1 DEF Rooted
      <4> QED BY <4>2, <2>4 DEF At, Wiped
    <3> QED BY <3>1, <3>2
  <2> QED BY <2>3, <2>4
<1>3. ASSUME NEW x \in Steals(c), x = Admin, U.mode = "none" PROVE Held(U) = {}
  <2>1. CASE Thinned(T, U)
    <3>1. Held(T) = {}
      BY <1>3, <2>1 DEF Thinned, Good, Resumable
    <3> QED BY <2>1, <3>1, EmptyFields DEF Thinned, Held
  <2>2. CASE Wiped(U)
    BY <2>2, WipedSound
  <2> QED BY <2>1, <2>2
<1>4. Resumable(U, in, c)
  BY <1>2, <1>3 DEF Good, Resumable
<1> QED BY <1>1, <1>4 DEF Good

(* Entries of dead processes are emptied and their CPUs become free. *)
LEMMA CleanupOK ==
  ASSUME NEW T \in Table, Sound(T, 0), NEW dead \in SUBSET Pid, NEW my, NEW in, Rooted(T, my, in),
         \A p \in dead : in[p] # "in", NEW U, U = cleanup_shmem(T, dead)
  PROVE  /\ U \in Table /\ Sound(U, 0) /\ Rooted(U, my, in) /\ (Thinned(T, U) \/ Wiped(U))
         /\ \A k \in Slot : T.info[k].pid \notin dead \cup {NOBODY} /\ k <= T.num => U.info[k] = T.info[k]
<1> DEFINE gone == {s \in 1..T.num : T.info[s].pid \in dead}
           F == T.free \cup UNION {Effective(T.info[s]) : s \in gone}
           I == [s \in Slot |-> IF s \in gone THEN EmptySlot ELSE T.info[s]]
           V == [T EXCEPT !.free = F, !.info = I]
           W == [V EXCEPT !.pidlist = @ \ dead]
           Z == [ZeroShm EXCEPT !.pidlist = T.pidlist \ dead]
<1>1. gone \subseteq Held(T) /\ gone \subseteq Slot /\ Held(T) \subseteq Slot
  BY TableFields, ProcInfoAssumption DEF Held, Slot
<1>2. \A s \in Slot : Effective(T.info[s]) = T.info[s].future
  BY EntryEffective DEF Sound
<1>3. F \in SUBSET Cpu /\ F = T.free \cup UNION {T.info[s].future : s \in gone}
  BY <1>1, <1>2, TableFields
<1>4. I \in [Slot -> Entry]
  BY TableFields, EmptyFields
<1>5. \A s \in Slot : I[s] = IF s \in gone THEN EmptySlot ELSE T.info[s]
  OBVIOUS
<1>6. cleanup_shmem(T, dead) = IF dead = {} THEN T ELSE IF is_shmem_empty(V) THEN Z ELSE W
  BY Zenon DEF cleanup_shmem
<1> HIDE DEF I, F, gone
<1>7. /\ V \in Table /\ V.info = I /\ V.free = F /\ V.num = T.num /\ V.mode = T.mode
      /\ V.pidlist = T.pidlist
  BY <1>3, <1>4 DEF Table
<1> HIDE DEF V
<1>8. /\ W \in Table /\ W.info = I /\ W.free = F /\ W.num = T.num /\ W.mode = T.mode
  BY <1>7, TableFields DEF Table
<1> HIDE DEF W
<1>9. ASSUME NEW p \in Pid, in[p] = "in"
      PROVE  my[p] \in Slot \ gone /\ my[p] \in 1..T.num /\ T.info[my[p]].pid = p
  BY <1>9, TableFields, ProcInfoAssumption DEF Rooted, At, gone, Slot
<1>10. CASE dead = {}
  BY <1>10, <1>6 DEF Thinned
<1>11. CASE dead # {} /\ is_shmem_empty(V)
  <2>1. U \in Table /\ Wiped(U)
    <3>1. U = Z
      BY <1>6, <1>11
    <3>2. /\ Z \in Table /\ Z.info = ZeroShm.info /\ Z.num = 0 /\ Z.free = {} /\ Z.mode = "none"
      BY ZeroFields, TableFields DEF Table
    <3> QED BY <3>1, <3>2, ZeroFields DEF Wiped
  <2>2. ASSUME NEW k \in Slot, k <= T.num, T.info[k].pid \notin dead \cup {NOBODY} PROVE FALSE
    <3>1. k \in 1..V.num /\ V.info[k].pid # NOBODY
      BY <2>2, <1>5, <1>7, TableFields, ProcInfoAssumption DEF gone, Slot
    <3> QED BY <3>1, <1>11 DEF is_shmem_empty, Registered
  <2>3. \A p \in Pid : in[p] # "in"
    BY <1>9, <2>2, TableFields, ProcInfoAssumption
  <2> QED BY <2>1, <2>2, <2>3, WipedSound DEF Rooted
<1>12. CASE dead # {} /\ ~ is_shmem_empty(V)
  <2>0. U = W
    BY <1>6, <1>12
  <2>1. /\ U \in Table /\ U.free = F /\ U.num = T.num /\ U.mode = T.mode
        /\ \A s \in Slot : U.info[s] = IF s \in gone THEN EmptySlot ELSE T.info[s]
    BY <2>0, <1>5, <1>8
  <2>2. Held(U) = Held(T) \ gone
    BY <2>1, <1>1, EmptyFields DEF Held
  <2>3. \A k \in Held(U) : U.info[k] = T.info[k]
    BY <2>1, <2>2, <1>1
  <2>4. \A s \in Slot : EntryOK(U.info[s])
    BY <2>1, EmptyFields DEF Sound
  <2>5. BeyondOK(U, 0)
    BY <2>1, <2>2, <2>3 DEF Sound, BeyondOK
  <2>6. NoneOK(U)
    <3> SUFFICES ASSUME T.mode = "none" PROVE NoneOK(U)
      BY <2>1 DEF NoneOK
    <3>1. \A s \in gone : T.info[s].future = {}
      BY <1>1 DEF Sound, NoneOK
    <3>2. U.free = {}
      BY <2>1, <3>1, <1>3 DEF Sound, NoneOK
    <3> QED BY <3>2, <2>2, <2>3 DEF Sound, NoneOK
  <2>7. Disjoint(U)
    <3> SUFFICES ASSUME T.mode # "shared" PROVE Disjoint(U)
      BY <2>1 DEF Disjoint
    <3>1. ASSUME NEW k \in Held(U), NEW c \in U.info[k].future, c \in U.free PROVE FALSE
      <4>1. k \in Held(T) \ gone /\ c \in T.info[k].future
        BY <3>1, <2>2, <2>3
      <4>2. c \notin T.free /\ \A s \in gone : c \notin T.info[s].future
        BY <4>1, <1>1 DEF Sound, Disjoint
      <4> QED BY <4>2, <3>1, <2>1, <1>3
    <3>2. \A k \in Held(U) : \A j \in Held(U) \ {k} : U.info[k].future \cap U.info[j].future = {}
      BY <2>2, <2>3 DEF Sound, Disjoint
    <3> QED BY <3>1, <3>2 DEF Disjoint
  <2>8. Known(U) = Known(T)
    <3>1. ASSUME NEW c \in Known(U) PROVE c \in Known(T)
      <4>1. CASE c \in U.free
        BY <4>1, <2>1, <1>1, <1>3 DEF Known
      <4>2. CASE c \notin U.free
        <5>1. PICK k \in Held(U) : c \in U.info[k].future
          BY <4>2, <3>1 DEF Known
        <5> QED BY <5>1, <2>2, <2>3 DEF Known
      <4> QED BY <4>1, <4>2
    <3>2. ASSUME NEW c \in Known(T) PROVE c \in Known(U)
      <4>1. CASE c \in F
        BY <4>1, <2>1 DEF Known
      <4>2. CASE c \notin F
        <5>1. PICK k \in Held(T) : c \in T.info[k].future
          BY <4>2, <3>2, <1>3 DEF Known
        <5>2. k \in Held(U) /\ c \in U.info[k].future
          BY <5>1, <4>2, <1>3, <2>2, <2>3
        <5> QED BY <5>2 DEF Known
      <4> QED BY <4>1, <4>2
    <3> QED BY <3>1, <3>2
  <2>9. Rooted(U, my, in)
    <3> SUFFICES ASSUME NEW p \in Pid, in[p] = "in" PROVE At(U, my[p], p)
      BY DEF Rooted
    <3>1. U.info[my[p]] = T.info[my[p]]
      BY <1>9, <2>1
    <3> QED BY <3>1, <2>1 DEF Rooted, At
  <2>10. Thinned(T, U)
    BY <2>1, <2>8 DEF Thinned
  <2>11. \A k \in Slot : T.info[k].pid \notin dead \cup {NOBODY} => U.info[k] = T.info[k]
    BY <2>1 DEF gone
  <2> QED BY <2>1, <2>4, <2>5, <2>6, <2>7, <2>9, <2>10, <2>11 DEF Sound
<1> QED BY <1>10, <1>11, <1>12

Calls == [Clients -> {NoCall, Adopting} \cup Wait]

(* The list of attached processes matters to nothing else. *)
LEMMA PidlistOK ==
  ASSUME NEW T, NEW my, NEW in, NEW c \in Calls, Good(T, my, in, c),
         NEW L \in SUBSET (Pid \cup {Admin}), NEW U, U = [T EXCEPT !.pidlist = L]
  PROVE  Good(U, my, in, c) /\ U.info = T.info
<1>1. /\ U \in Table /\ U.info = T.info /\ U.num = T.num /\ U.mode = T.mode /\ U.free = T.free
  BY DEF Good, Table
<1>2. Held(U) = Held(T)
  BY <1>1 DEF Held
<1>3. Known(U) = Known(T)
  BY <1>1, <1>2 DEF Known
<1>4. Sound(U, 0)
  BY <1>1, <1>2 DEF Good, Sound, BeyondOK, NoneOK, Disjoint
<1>5. Rooted(U, my, in)
  BY <1>1 DEF Good, Rooted, At
<1>6. Thinned(T, U)
  BY <1>1, <1>3 DEF Thinned
<1> QED BY <1>1, <1>4, <1>5, <1>6, GoodThinned DEF Calls

(* shmem_init: the process that opens the memory cleans it up first. *)
LEMMA OpenOK ==
  ASSUME Typed, Good(shm, my_pinfo, up, call), NEW x \in Pid \cup {Admin},
         NEW T, T = open_shmem(x)
  PROVE  /\ Good(T, my_pinfo, up, call)
         /\ \A k \in Slot : /\ shm.info[k].pid \notin Dead \cup {NOBODY}
                            /\ k <= shm.num
                            => T.info[k] = shm.info[k]
         /\ T.num = shm.num \/ \A k \in Slot : T.info[k].pid = NOBODY
<1>0. call \in Calls /\ shm \in Table
  BY DEF Typed, Calls, Good
<1>1. CASE x \in shm.pidlist
  BY <1>1 DEF open_shmem
<1>2. CASE x \notin shm.pidlist
  <2> DEFINE V == cleanup_shmem(shm, Dead \cap shm.pidlist)
  <2>1. Dead \cap shm.pidlist \in SUBSET Pid /\ \A p \in Dead : up[p] # "in"
    BY DEF Dead
  <2>2. /\ V \in Table /\ Sound(V, 0) /\ Rooted(V, my_pinfo, up) /\ (Thinned(shm, V) \/ Wiped(V))
        /\ \A k \in Slot : shm.info[k].pid \notin (Dead \cap shm.pidlist) \cup {NOBODY} /\ k <= shm.num
                           => V.info[k] = shm.info[k]
    BY <1>0, <2>1, CleanupOK DEF Good
  <2>3. T = [V EXCEPT !.pidlist = V.pidlist \cup {x}]
    BY <1>2 DEF open_shmem
  <2> HIDE DEF V
  <2>4. Good(V, my_pinfo, up, call)
    BY <1>0, <2>2, GoodThinned DEF Calls
  <2>5. V.pidlist \cup {x} \in SUBSET (Pid \cup {Admin})
    BY <2>2, TableFields
  <2>6. Good(T, my_pinfo, up, call) /\ T.info = V.info
    BY <1>0, <2>3, <2>4, <2>5, PidlistOK
  <2>7. T.num = V.num
    BY <2>2, <2>3 DEF Table
  <2>8. V.num = shm.num \/ \A k \in Slot : V.info[k].pid = NOBODY
    BY <2>2, EmptyFields DEF Thinned, Wiped
  <2> QED BY <2>2, <2>6, <2>7, <2>8
<1> QED BY <1>1, <1>2

(* shmem_finalize: a table without processes may be removed. *)
LEMMA CloseOK ==
  ASSUME NEW T, NEW my, NEW in, NEW c \in Calls, Good(T, my, in, c), NEW x,
         NEW U, U = close_shmem(T, x)
  PROVE  Good(U, my, in, c)
<1>0. T \in Table
  BY DEF Good
<1>1. CASE is_shmem_empty(T) /\ U = ZeroShm
  <2>1. U \in Table /\ Wiped(U)
    BY <1>1, ZeroFields DEF Wiped
  <2>2. Rooted(U, my, in)
    <3> SUFFICES ASSUME NEW p \in Pid, in[p] = "in" PROVE FALSE
      BY DEF Rooted
    <3>1. At(T, my[p], p)
      BY DEF Good, Rooted
    <3> QED BY <3>1, <1>1, ProcInfoAssumption DEF At, is_shmem_empty, Registered
  <2> QED BY <2>1, <2>2, WipedSound, GoodThinned DEF Calls
<1>2. CASE U = [T EXCEPT !.pidlist = T.pidlist \ {x}]
  <2>1. T.pidlist \ {x} \in SUBSET (Pid \cup {Admin})
    BY <1>0, TableFields
  <2> QED BY <1>2, <2>1, PidlistOK
<1> QED BY <1>1, <1>2 DEF close_shmem

Started(T, m) == [T EXCEPT !.mode = m, !.free = Cpu, !.num = 0]

(* The first process initialises the memory: every CPU is free. *)
LEMMA StartOK ==
  ASSUME NEW T, NEW my, NEW in, NEW c \in Calls, Good(T, my, in, c), T.mode = "none",
         NEW m \in Mode \ {"none"}, NEW U, U = Started(T, m)
  PROVE  Good(U, my, in, c) /\ U.mode = m /\ U.info = T.info
<1>0. T \in Table /\ \A p \in Pid : in[p] # "in"
  BY DEF Good, Rooted, At
<1>1. /\ U \in Table /\ U.info = T.info /\ U.num = 0 /\ U.mode = m /\ U.free = Cpu
  <2>1. 0 \in 0..MaxProcesses /\ m \in Mode /\ Cpu \in SUBSET Cpu
    BY ProcInfoAssumption
  <2> QED BY <1>0, <2>1 DEF Table, Started
<1>2. Held(U) = Held(T)
  BY <1>1 DEF Held
<1>3. \A k \in Held(T) : T.info[k].future = {} /\ T.info[k].stolen = {}
  BY DEF Good, Sound, NoneOK
<1>4. Sound(U, 0)
  BY <1>1, <1>2, <1>3 DEF Good, Sound, BeyondOK, NoneOK, Disjoint
<1>5. Lossless(U, c)
  BY <1>1 DEF Lossless, Known
<1>6. Resumable(U, in, c)
  <2>1. ASSUME NEW x \in Steals(c) PROVE TargetOK(U, x, c[x])
    <3>1. c[x].slot \in Slot
      BY DEF Steals, Wait, NoCall, Adopting, Calls
    <3>2. x = Admin
      BY <1>0, ProcInfoAssumption DEF Good, Resumable, Steals, NoCall
    <3>3. T.info[c[x].slot].pid = NOBODY
      BY <3>1, <3>2 DEF Good, Resumable, Held
    <3> QED BY <3>2, <3>3, <1>1 DEF TargetOK
  <2> QED BY <2>1, <1>1 DEF Good, Resumable
<1> QED BY <1>0, <1>1, <1>4, <1>5, <1>6 DEF Good, Rooted

(* Later ones agree on CPU sharing, or an administrator was first. *)
LEMMA PrepareOK ==
  ASSUME NEW T, NEW my, NEW in, NEW c \in Calls, Good(T, my, in, c),
         NEW m \in {"shared", "exclusive"}, NEW U, U = Prepare(T, m)
  PROVE  Good(U, my, in, c) /\ U.info = T.info /\ U.mode \in {"shared", "exclusive"}
<1>0. T \in Table /\ T.mode \in Mode
  BY TableFields DEF Good
<1>1. CASE T.mode = "none"
  <2>1. U = Started(T, m)
    BY <1>1 DEF Prepare, Started
  <2>2. m \in Mode \ {"none"}
    BY DEF Mode
  <2>3. Good(U, my, in, c) /\ U.mode = m /\ U.info = T.info
    BY <1>1, <2>1, <2>2, StartOK
  <2> QED BY <2>3
<1>2. CASE T.mode = "unknown"
  <2>1. U = [T EXCEPT !.mode = m]
    BY <1>2 DEF Prepare
  <2>2. U \in Table /\ U.info = T.info /\ U.num = T.num /\ U.mode = m /\ U.free = T.free
    BY <2>1, <1>0 DEF Table, Mode
  <2>3. Held(U) = Held(T)
    BY <2>2 DEF Held
  <2>4. Known(U) = Known(T)
    BY <2>2, <2>3 DEF Known
  <2>5. Sound(U, 0)
    BY <1>2, <2>2, <2>3 DEF Good, Sound, BeyondOK, NoneOK, Disjoint
  <2>6. Rooted(U, my, in)
    BY <1>2 DEF Good, Rooted, At
  <2>7. Resumable(U, in, c)
    BY <2>2, <2>3 DEF Good, Resumable, TargetOK
  <2>8. Lossless(U, c)
    BY <1>2, <2>4 DEF Good, Lossless
  <2> QED BY <2>2, <2>5, <2>6, <2>7, <2>8 DEF Good
<1>3. CASE T.mode \notin {"none", "unknown"}
  <2>1. U = T
    BY <1>3 DEF Prepare
  <2> QED BY <1>0, <1>3, <2>1 DEF Mode
<1> QED BY <1>1, <1>2, <1>3

-----------------------------------------------------------------------------
(* Registration *)

(* What is free or held by the slots of D. *)
Pool(T, D) == T.free \cup UNION {T.info[k].future : k \in D \cap Held(T)}

(* Sharing out what is free or held by some slots among those slots. *)
LEMMA SpotsSound ==
  ASSUME NEW T \in Table, Sound(T, 0), NEW U \in Table, NEW D \in SUBSET Slot,
         U.mode = T.mode, T.mode # "none", T.num <= U.num, U.free \subseteq T.free,
         \A k \in Slot \ D : U.info[k] = T.info[k],
         \A k \in D : k <= U.num /\ EntryOK(U.info[k]),
         T.mode # "shared" =>
           /\ Pool(T, D) \subseteq Pool(U, D)
           /\ \A k \in D \cap Held(U) :
                /\ U.info[k].future \subseteq Pool(T, D) \ U.free
                /\ \A j \in (D \cap Held(U)) \ {k} : U.info[k].future \cap U.info[j].future = {}
  PROVE  /\ Sound(U, 0)
         /\ T.mode # "shared" => Known(T) \subseteq Known(U)
<1>0. T.num \in Nat /\ U.num \in Nat /\ Slot \subseteq Nat /\ Held(T) \subseteq Slot /\ Held(U) \subseteq Slot
  BY TableFields, SlotNat DEF Held
<1>1. \A k \in Slot \ D : k \in Held(T) <=> k \in Held(U)
  BY DEF Held
<1>2. \A k \in Slot : EntryOK(U.info[k])
  BY DEF Sound
<1>3. BeyondOK(U, 0)
  <2> SUFFICES ASSUME NEW k \in Held(U), k > U.num PROVE U.info[k].future = {} /\ U.info[k].stolen = {}
    BY DEF BeyondOK
  <2>0. k \in Slot /\ k \in Nat /\ k # 0
    BY <1>0, SlotNat
  <2>1. k \notin D /\ k > T.num /\ k # 0
    BY <2>0, <1>0
  <2> QED BY <2>1, <1>0, <1>1 DEF Sound, BeyondOK
<1>4. NoneOK(U)
  BY DEF NoneOK
<1>5. ASSUME T.mode # "shared", NEW k \in Held(U) \ D
      PROVE  /\ k \in Held(T) \ D /\ U.info[k].future = T.info[k].future
             /\ U.info[k].future \cap Pool(T, D) = {}
  <2>1. k \in Held(T) \ D /\ U.info[k] = T.info[k]
    BY <1>0, <1>1
  <2>2. T.info[k].future \cap T.free = {}
    BY <1>5, <2>1 DEF Sound, Disjoint
  <2>3. \A j \in D \cap Held(T) : T.info[k].future \cap T.info[j].future = {}
    BY <1>5, <2>1 DEF Sound, Disjoint
  <2> QED BY <2>1, <2>2, <2>3 DEF Pool
<1>6. Disjoint(U)
  <2> SUFFICES ASSUME T.mode # "shared" PROVE Disjoint(U)
    BY DEF Disjoint
  <2>1. ASSUME NEW k \in Held(U) PROVE U.info[k].future \cap U.free = {}
    <3>1. CASE k \in D
      BY <3>1
    <3>2. CASE k \notin D
      BY <3>2, <1>5 DEF Pool
    <3> QED BY <3>1, <3>2
  <2>2. ASSUME NEW k \in Held(U), NEW j \in Held(U) \ {k}
        PROVE  U.info[k].future \cap U.info[j].future = {}
    <3>1. CASE k \in D /\ j \in D
      BY <3>1
    <3>2. CASE k \in D /\ j \notin D
      <4>1. U.info[k].future \subseteq Pool(T, D)
        BY <3>2
      <4>2. U.info[j].future \cap Pool(T, D) = {}
        BY <3>2, <1>5
      <4> QED BY <4>1, <4>2
    <3>3. CASE k \notin D /\ j \in D
      <4>1. U.info[j].future \subseteq Pool(T, D)
        BY <3>3
      <4>2. U.info[k].future \cap Pool(T, D) = {}
        BY <3>3, <1>5
      <4> QED BY <4>1, <4>2
    <3>4. CASE k \notin D /\ j \notin D
      BY <3>4, <1>5 DEF Sound, Disjoint
    <3> QED BY <3>1, <3>2, <3>3, <3>4
  <2> QED BY <2>1, <2>2 DEF Disjoint
<1>7. ASSUME T.mode # "shared", NEW c \in Known(T) PROVE c \in Known(U)
  <2>1. CASE c \in Pool(T, D)
    <3>1. c \in Pool(U, D)
      BY <1>7, <2>1
    <3> QED BY <3>1 DEF Pool, Known
  <2>2. CASE c \notin Pool(T, D)
    <3>1. PICK k \in Held(T) : c \in T.info[k].future
      BY <1>7, <2>2 DEF Pool, Known
    <3>2. k \notin D
      BY <2>2, <3>1 DEF Pool
    <3>3. k \in Held(U) /\ c \in U.info[k].future
      BY <3>1, <3>2, <1>0, <1>1
    <3> QED BY <3>3 DEF Known
  <2> QED BY <2>1, <2>2
<1> QED BY <1>2, <1>3, <1>4, <1>6, <1>7 DEF Sound

(* What is good stays so when processes come into slots that num reaches. *)
LEMMA GoodGrows ==
  ASSUME NEW T, NEW my, NEW in, NEW c \in Calls, Good(T, my, in, c),
         NEW U \in Table, Sound(U, 0), NEW my2, NEW in2, Rooted(U, my2, in2),
         U.mode = T.mode, T.num <= U.num,
         T.mode # "shared" => Known(T) \subseteq Known(U),
         T.mode = "none" => Held(U) \subseteq Held(T),
         \A k \in Held(U) : k \in Held(T) \/ k <= U.num,
         \A p \in Pid : in[p] = "in" => in2[p] = "in"
  PROVE  Good(U, my2, in2, c)
<1>1. Lossless(U, c)
  BY DEF Good, Lossless
<1>2. T.num \in Nat /\ U.num \in Nat /\ Slot \subseteq Nat
  BY TableFields, SlotNat DEF Good
<1>3. ASSUME NEW x \in Steals(c) PROVE TargetOK(U, x, c[x])
  <2>1. TargetOK(T, x, c[x]) /\ c[x].slot \in Slot
    BY DEF Good, Resumable, Steals, Wait, NoCall, Adopting, Calls
  <2>2. CASE c[x].preinit
    BY <2>2 DEF TargetOK
  <2>3. CASE c[x].slot <= T.num
    <3>1. \A n \in Nat : n <= T.num => n <= U.num
      BY <1>2
    <3>2. c[x].slot \in Nat
      BY <2>1, <1>2
    <3> QED BY <2>3, <3>1, <3>2 DEF TargetOK
  <2>4. CASE x = Admin /\ T.info[c[x].slot].pid = NOBODY
    <3>1. c[x].slot \notin Held(T)
      BY <2>4 DEF Held
    <3>2. c[x].slot \in Held(U) => c[x].slot <= U.num
      BY <3>1
    <3> QED BY <2>1, <2>4, <3>2 DEF TargetOK, Held
  <2> QED BY <2>1, <2>2, <2>3, <2>4 DEF TargetOK
<1>4. Resumable(U, in2, c)
  BY <1>3, ProcInfoAssumption DEF Good, Resumable
<1> QED BY <1>1, <1>4 DEF Good

(* The spots the loop over process_info finds. *)
LEMMA ScanOK ==
  ASSUME NEW T \in Table, NEW p, NEW preinit_pid, NEW f, f = Scan(T, p, preinit_pid)
  PROVE  /\ f.pre # 0 => /\ f.pre \in Slot /\ f.pre <= T.num /\ T.info[f.pre].pid # NOBODY
                         /\ ~ f.clash => T.info[f.pre].preregistered
         /\ f.empty # 0 => /\ f.empty \in Slot
                           /\ T.info[f.empty].pid = NOBODY \/ f.empty = T.num + 1
<1> DEFINE empties == {s \in 1..T.num : T.info[s].pid = NOBODY}
           pres == {s \in 1..T.num : preinit_pid # NOBODY /\ T.info[s].pid = preinit_pid}
           complete(s) == /\ \E e \in empties : e <= s
                          /\ preinit_pid = NOBODY \/ \E q \in pres : q <= s
           looked == {s \in 1..T.num : \A j \in 1..(s - 1) : ~ complete(j)}
           pre == IF pres \cap looked = {} THEN 0 ELSE Min(pres \cap looked)
<1>1. /\ f.pre = pre
      /\ f.empty = IF empties \cap looked # {} THEN Min(empties \cap looked)
                   ELSE IF T.num < MaxProcesses THEN T.num + 1 ELSE 0
      /\ f.clash = (\/ pre # 0 /\ ~ T.info[pre].preregistered
                    \/ \E s \in looked \ {pre} : T.info[s].pid = p)
  BY DEF Scan
<1>2. /\ T.num \in 0..MaxProcesses /\ MaxProcesses \in Nat
      /\ \A s \in 1..T.num : s \in Slot /\ s <= T.num
  BY TableFields, ProcInfoAssumption DEF Slot
<1>3. pres \cap looked \in SUBSET Nat /\ empties \cap looked \in SUBSET Nat
  BY <1>2
<1>4. pre # 0 => pre \in pres
  <2> HIDE DEF pres, looked
  <2> QED BY <1>3, MinIsIn
<1>5. f.empty # 0 => f.empty \in empties \/ (T.num < MaxProcesses /\ f.empty = T.num + 1)
  <2> HIDE DEF empties, looked, pres
  <2> QED BY <1>1, <1>3, MinIsIn
<1>6. f.pre # 0 /\ ~ f.clash => T.info[f.pre].preregistered
  BY <1>1
<1> HIDE DEF pre
<1>7. f.pre # 0 => f.pre \in Slot /\ f.pre <= T.num /\ T.info[f.pre].pid # NOBODY
  BY <1>1, <1>2, <1>4
<1>8. f.empty # 0 => /\ f.empty \in Slot
                     /\ T.info[f.empty].pid = NOBODY \/ f.empty = T.num + 1
  BY <1>2, <1>5 DEF Slot
<1> QED BY <1>6, <1>7, <1>8

(* The slots of D, none of which belongs to a registered process, share    *)
(* out what is free or theirs.                                             *)
Replaced(T, U, D) ==
  /\ U \in Table /\ U.mode = T.mode /\ T.num <= U.num /\ U.free \subseteq T.free
  /\ \A k \in Slot \ D : U.info[k] = T.info[k]
  /\ \A k \in D : /\ k <= U.num /\ EntryOK(U.info[k])
                  /\ T.info[k].pid = NOBODY \/ k > T.num \/ T.info[k].preregistered
  /\ T.mode # "shared" =>
       /\ Pool(T, D) \subseteq Pool(U, D)
       /\ \A k \in D \cap Held(U) :
            /\ U.info[k].future \subseteq Pool(T, D) \ U.free
            /\ \A j \in (D \cap Held(U)) \ {k} : U.info[k].future \cap U.info[j].future = {}

(* What is replaced in that way stays sound, and nothing is lost. *)
LEMMA ReplacedSound ==
  ASSUME NEW T \in Table, Sound(T, 0), T.mode # "none", NEW U, NEW D \in SUBSET Slot,
         Replaced(T, U, D)
  PROVE  /\ Sound(U, 0)
         /\ T.mode # "shared" => Known(T) \subseteq Known(U)
         /\ \A k \in Held(U) : k \in Held(T) \/ k <= U.num
<1>1. /\ Sound(U, 0)
      /\ T.mode # "shared" => Known(T) \subseteq Known(U)
  BY SpotsSound DEF Replaced
<1>2. \A k \in Held(U) : k \in Held(T) \/ k <= U.num
  BY DEF Replaced, Held
<1> QED BY <1>1, <1>2

(* And no registered process is moved. *)
LEMMA ReplacedRooted ==
  ASSUME NEW T \in Table, NEW my, NEW in, Rooted(T, my, in), NEW U, NEW D \in SUBSET Slot,
         Replaced(T, U, D)
  PROVE  Rooted(U, my, in)
<1> SUFFICES ASSUME NEW p \in Pid, in[p] = "in" PROVE At(U, my[p], p)
  BY DEF Rooted
<1>1. At(T, my[p], p)
  BY DEF Rooted
<1>2. T.num \in Nat /\ U.num \in Nat /\ T.num <= U.num
  BY TableFields DEF Replaced
<1>3. my[p] \in Slot /\ my[p] \in 1..T.num /\ my[p] \in 1..U.num
  BY <1>1, <1>2, TableFields, ProcInfoAssumption DEF At, Slot
<1>4. my[p] \notin D
  BY <1>1, <1>2, <1>3, ProcInfoAssumption DEF At, Replaced
<1> QED BY <1>1, <1>3, <1>4 DEF At, Replaced

(* So that a good table stays good. *)
LEMMA ReplacedOK ==
  ASSUME NEW T, NEW my, NEW in, NEW c \in Calls, Good(T, my, in, c), T.mode # "none",
         NEW U, NEW D \in SUBSET Slot, Replaced(T, U, D)
  PROVE  Good(U, my, in, c)
<1>1. /\ T \in Table /\ Sound(T, 0) /\ Rooted(T, my, in)
      /\ U \in Table /\ U.mode = T.mode /\ T.num <= U.num
  BY DEF Good, Replaced
<1>2. /\ Sound(U, 0) /\ Rooted(U, my, in)
      /\ T.mode # "shared" => Known(T) \subseteq Known(U)
      /\ \A k \in Held(U) : k \in Held(T) \/ k <= U.num
  BY <1>1, ReplacedSound, ReplacedRooted
<1> QED BY <1>1, <1>2, GoodGrows

(* And one of them becomes that of process p. *)
LEMMA JoinedOK ==
  ASSUME NEW T, NEW my \in [Pid -> 0..MaxProcesses], NEW in \in [Pid -> {"out", "in", "dead"}],
         NEW c \in Calls, Good(T, my, in, c), T.mode # "none", NEW p \in Pid,
         NEW U, NEW D \in SUBSET Slot, Replaced(T, U, D), NEW s, At(U, s, p)
  PROVE  Good(U, [my EXCEPT ![p] = s], [in EXCEPT ![p] = "in"], c)
<1> DEFINE my2 == [my EXCEPT ![p] = s]
           in2 == [in EXCEPT ![p] = "in"]
<1>1. /\ T \in Table /\ Sound(T, 0) /\ Rooted(T, my, in)
      /\ U \in Table /\ U.mode = T.mode /\ T.num <= U.num
  BY DEF Good, Replaced
<1>2. /\ Sound(U, 0) /\ Rooted(U, my, in)
      /\ T.mode # "shared" => Known(T) \subseteq Known(U)
      /\ \A k \in Held(U) : k \in Held(T) \/ k <= U.num
  BY <1>1, ReplacedSound, ReplacedRooted
<1>3. Rooted(U, my2, in2)
  BY <1>2 DEF Rooted
<1>4. \A q \in Pid : in[q] = "in" => in2[q] = "in"
  OBVIOUS
<1> HIDE DEF my2, in2
<1>5. Good(U, my2, in2, c)
  BY <1>1, <1>2, <1>3, <1>4, GoodGrows
<1> QED BY <1>5 DEF my2, in2

(* A table with another free mask, num and entries. *)
Updated(T, F, n, I) == [T EXCEPT !.free = F, !.num = n, !.info = I]

(* And what is in it. *)
LEMMA UpdatedFields ==
  ASSUME NEW T \in Table, NEW F \in SUBSET Cpu, NEW n \in 0..MaxProcesses,
         NEW I \in [Slot -> Entry], NEW U, U = Updated(T, F, n, I)
  PROVE  /\ U \in Table /\ U.free = F /\ U.num = n /\ U.info = I
         /\ U.mode = T.mode /\ U.pidlist = T.pidlist
BY DEF Table, Updated

(* CPUs are taken from the free mask unless they are shared. *)
LEMMA UnfreeFields ==
  ASSUME NEW T \in Table, NEW mask \in SUBSET Cpu
  PROVE  Unfree(T, mask) = [T EXCEPT !.free = IF T.mode = "shared" THEN T.free ELSE T.free \ mask]
<1>1. CASE T.mode = "shared"
  BY <1>1 DEF Unfree, Shared, Table
<1>2. CASE T.mode # "shared"
  BY <1>2 DEF Unfree, Shared, Table
<1> QED BY <1>1, <1>2

(* A spot the loop found empty has nothing. *)
LEMMA EmptySpot ==
  ASSUME NEW T \in Table, Sound(T, 0), NEW e \in Slot, T.info[e].pid = NOBODY \/ e = T.num + 1
  PROVE  /\ T.info[e].stolen = {}
         /\ e \in Held(T) => T.info[e].future = {}
         /\ T.info[e].pid = NOBODY \/ e > T.num
<1>1. T.num \in Nat /\ e \in Nat /\ e # 0
  BY TableFields, SlotNat
<1>2. CASE T.info[e].pid = NOBODY
  BY <1>2 DEF Sound, EntryOK, Held
<1>3. CASE T.info[e].pid # NOBODY
  <2>1. e \in Held(T) /\ e > T.num
    BY <1>1, <1>3 DEF Held
  <2> QED BY <2>1, <1>1 DEF Sound, BeyondOK
<1> QED BY <1>2, <1>3

Reach(T, e) == IF e > T.num THEN e ELSE T.num

(* num after it has grown to reach a slot. *)
LEMMA ReachFields ==
  ASSUME NEW T \in Table, NEW e \in Slot
  PROVE  Reach(T, e) \in 0..MaxProcesses /\ T.num <= Reach(T, e) /\ e <= Reach(T, e)
BY TableFields, ProcInfoAssumption DEF Slot, Reach

(* A new process in an empty spot, with CPUs that are free or shared. *)
LEMMA NewSpotOK ==
  ASSUME NEW T \in Table, Sound(T, 0), NEW p \in Pid, NEW mask \in SUBSET Cpu,
         NEW e \in Slot, T.info[e].pid = NOBODY \/ e = T.num + 1, CanRegister(T, mask),
         T.mode \in {"exclusive", "shared"},
         NEW U, U = GrowTo([Unfree(T, mask) EXCEPT !.info[e] = Fill(EmptySlot, p, mask)], e)
  PROVE  Replaced(T, U, {e}) /\ At(U, e, p)
<1> DEFINE f == Fill(EmptySlot, p, mask)
           F == IF T.mode = "shared" THEN T.free ELSE T.free \ mask
           I == [T.info EXCEPT ![e] = f]
           n == Reach(T, e)
<1>1. U = Updated(T, F, n, I)
  <2> HIDE DEF f
  <2>1. Unfree(T, mask) = [T EXCEPT !.free = F]
    BY UnfreeFields
  <2>2. U = GrowTo([[T EXCEPT !.free = F] EXCEPT !.info[e] = f], e)
    BY <2>1 DEF f
  <2> HIDE DEF F
  <2> QED BY <2>2, TableFields DEF GrowTo, Updated, Reach, Table
<1>2. /\ f \in Entry /\ f.pid = p /\ ~ f.preregistered /\ f.current = mask
      /\ f.future = mask /\ f.stolen = {}
  <2>1. f = Fill(EmptySlot, p, mask)
    OBVIOUS
  <2> HIDE DEF f
  <2> QED BY <2>1, EmptyFields DEF Fill, Entry
<1> HIDE DEF f
<1>3. F \in SUBSET Cpu /\ I \in [Slot -> Entry] /\ I[e] = f /\ \A k \in Slot \ {e} : I[k] = T.info[k]
  BY <1>2, TableFields
<1>4. n \in 0..MaxProcesses /\ T.num <= n /\ e <= n
  BY ReachFields
<1> HIDE DEF I, n
<1>5. /\ U \in Table /\ U.free = F /\ U.num = n /\ U.info = I /\ U.mode = T.mode
  BY <1>1, <1>3, <1>4, UpdatedFields
<1>6. /\ T.info[e].stolen = {}
      /\ e \in Held(T) => T.info[e].future = {}
      /\ T.info[e].pid = NOBODY \/ e > T.num
  BY EmptySpot
<1>7. EntryOK(U.info[e]) /\ e \in Held(U)
  BY <1>2, <1>3, <1>5, ProcInfoAssumption DEF EntryOK, Held
<1>8. ASSUME T.mode # "shared"
      PROVE  /\ Pool(T, {e}) \subseteq Pool(U, {e})
             /\ U.info[e].future \subseteq Pool(T, {e}) \ U.free
  <2>1. mask \subseteq T.free
    BY <1>8 DEF CanRegister, Shared
  <2>2. Pool(T, {e}) = T.free
    BY <1>6 DEF Pool
  <2>3. U.free = T.free \ mask /\ U.info[e].future = mask
    BY <1>2, <1>3, <1>5, <1>8
  <2>4. Pool(U, {e}) = U.free \cup U.info[e].future
    BY <1>7 DEF Pool
  <2> QED BY <2>1, <2>2, <2>3, <2>4
<1>9. Replaced(T, U, {e})
  BY <1>3, <1>4, <1>5, <1>6, <1>7, <1>8 DEF Replaced
<1>10. At(U, e, p)
  BY <1>2, <1>3, <1>4, <1>5, SlotNat, ProcInfoAssumption DEF At, Slot
<1> QED BY <1>9, <1>10

(* A refused one leaves an empty spot. *)
LEMMA RefusedOK ==
  ASSUME NEW T \in Table, Sound(T, 0), NEW e \in Slot, T.info[e].pid = NOBODY \/ e = T.num + 1,
         NEW U, U = GrowTo([T EXCEPT !.info[e] = EmptySlot], e)
  PROVE  Replaced(T, U, {e})
<1> DEFINE I == [T.info EXCEPT ![e] = EmptySlot]
           n == Reach(T, e)
<1>1. U = Updated(T, T.free, n, I)
  BY TableFields DEF GrowTo, Updated, Reach, Table
<1>2. I \in [Slot -> Entry] /\ I[e] = EmptySlot /\ \A k \in Slot \ {e} : I[k] = T.info[k]
  BY EmptyFields, TableFields
<1>3. n \in 0..MaxProcesses /\ T.num <= n /\ e <= n
  BY ReachFields
<1> HIDE DEF I, n
<1>4. /\ U \in Table /\ U.free = T.free /\ U.num = n /\ U.info = I /\ U.mode = T.mode
  BY <1>1, <1>2, <1>3, UpdatedFields, TableFields
<1>5. /\ e \in Held(T) => T.info[e].future = {}
      /\ T.info[e].pid = NOBODY \/ e > T.num
  BY EmptySpot
<1>6. EntryOK(U.info[e]) /\ e \notin Held(U)
  BY <1>2, <1>4, EmptyFields DEF Held
<1>7. Pool(T, {e}) \subseteq Pool(U, {e})
  BY <1>4, <1>5 DEF Pool
<1> QED BY <1>2, <1>3, <1>4, <1>5, <1>6, <1>7 DEF Replaced

(* A process takes over the entry of a preregistered one as it is. *)
LEMMA InheritOK ==
  ASSUME NEW T \in Table, Sound(T, 0), NEW p \in Pid, NEW s \in Slot, s <= T.num,
         T.info[s].pid # NOBODY, T.info[s].preregistered, T.mode \in {"exclusive", "shared"},
         NEW U, U = [T EXCEPT !.info[s].pid = p, !.info[s].preregistered = FALSE]
  PROVE  Replaced(T, U, {s}) /\ At(U, s, p)
<1> DEFINE f == [T.info[s] EXCEPT !.pid = p, !.preregistered = FALSE]
           I == [T.info EXCEPT ![s] = f]
<1>1. U = Updated(T, T.free, T.num, I)
  BY TableFields DEF Updated, Table, Entry
<1>2. /\ f \in Entry /\ f.pid = p /\ ~ f.preregistered /\ f.current = T.info[s].current
      /\ f.future = T.info[s].future /\ f.stolen = T.info[s].stolen /\ f.dirty = T.info[s].dirty
  BY TableFields DEF Entry
<1> HIDE DEF f
<1>3. I \in [Slot -> Entry] /\ I[s] = f /\ \A k \in Slot \ {s} : I[k] = T.info[k]
  BY <1>2, TableFields
<1> HIDE DEF I
<1>4. /\ U \in Table /\ U.free = T.free /\ U.num = T.num /\ U.info = I /\ U.mode = T.mode
  BY <1>1, <1>3 DEF Updated, Table
<1>5. EntryOK(U.info[s]) /\ s \in Held(U) /\ s \in Held(T)
  BY <1>2, <1>3, <1>4, ProcInfoAssumption DEF EntryOK, Held, Sound
<1>6. ASSUME T.mode # "shared"
      PROVE  /\ Pool(T, {s}) = Pool(U, {s})
             /\ U.info[s].future \subseteq Pool(T, {s}) \ U.free
  <2>1. T.info[s].future \cap T.free = {}
    BY <1>5, <1>6 DEF Sound, Disjoint
  <2>2. U.info[s].future = T.info[s].future
    BY <1>2, <1>3, <1>4
  <2>3. Pool(T, {s}) = T.free \cup T.info[s].future /\ Pool(U, {s}) = U.free \cup U.info[s].future
    BY <1>5 DEF Pool
  <2> QED BY <2>1, <2>2, <2>3, <1>4
<1>7. T.num <= U.num
  BY <1>4, TableFields
<1>8. Replaced(T, U, {s})
  BY <1>3, <1>4, <1>5, <1>6, <1>7 DEF Replaced
<1>9. At(U, s, p)
  <2>1. s \in 1..U.num
    BY <1>4, TableFields, ProcInfoAssumption DEF Slot
  <2> QED BY <2>1, <1>2, <1>3, <1>4 DEF At
<1> QED BY <1>8, <1>9

(* Or with more CPUs. *)
LEMMA ExpandOK ==
  ASSUME NEW T \in Table, Sound(T, 0), NEW p \in Pid, NEW s \in Slot, s <= T.num,
         T.info[s].pid # NOBODY, T.info[s].preregistered, T.mode \in {"exclusive", "shared"},
         ~ T.info[s].dirty, NEW mask \in SUBSET Cpu, T.info[s].future \subseteq mask,
         CanRegister(T, mask \ T.info[s].future),
         NEW U, U = [Unfree(T, mask \ T.info[s].future) EXCEPT !.info[s] = Fill(T.info[s], p, mask)]
  PROVE  Replaced(T, U, {s}) /\ At(U, s, p)
<1> DEFINE extra == mask \ T.info[s].future
           f == Fill(T.info[s], p, mask)
           F == IF T.mode = "shared" THEN T.free ELSE T.free \ extra
           I == [T.info EXCEPT ![s] = f]
<1>1. U = Updated(T, F, T.num, I)
  <2> HIDE DEF f
  <2>1. Unfree(T, extra) = [T EXCEPT !.free = F]
    BY UnfreeFields
  <2>2. U = [[T EXCEPT !.free = F] EXCEPT !.info[s] = f]
    BY <2>1 DEF f
  <2> HIDE DEF F
  <2> QED BY <2>2, TableFields DEF Updated, Table
<1>2. /\ f \in Entry /\ f.pid = p /\ ~ f.preregistered /\ f.current = mask
      /\ f.future = mask /\ f.stolen = T.info[s].stolen
  <2> DEFINE old == T.info[s]
  <2>1. f = Fill(old, p, mask) /\ old \in Entry
    BY TableFields
  <2> HIDE DEF f, old
  <2>2. f \in Entry /\ f.pid = p /\ ~ f.preregistered /\ f.current = mask
    BY <2>1 DEF Fill, Entry
  <2>3. f.future = mask /\ f.stolen = old.stolen
    BY <2>1 DEF Fill, Entry
  <2> QED BY <2>2, <2>3 DEF old
<1> HIDE DEF f
<1>3. F \in SUBSET Cpu /\ I \in [Slot -> Entry] /\ I[s] = f /\ \A k \in Slot \ {s} : I[k] = T.info[k]
  BY <1>2, TableFields
<1> HIDE DEF I
<1>4. /\ U \in Table /\ U.free = F /\ U.num = T.num /\ U.info = I /\ U.mode = T.mode
  <2> HIDE DEF F
  <2> QED BY <1>1, <1>3 DEF Updated, Table
<1>a. T.info[s].stolen = {}
  BY DEF Sound, EntryOK
<1>5. EntryOK(U.info[s]) /\ s \in Held(U) /\ s \in Held(T)
  BY <1>2, <1>3, <1>4, <1>a, ProcInfoAssumption DEF EntryOK, Held
<1>6. ASSUME T.mode # "shared"
      PROVE  /\ Pool(T, {s}) \subseteq Pool(U, {s})
             /\ U.info[s].future \subseteq Pool(T, {s}) \ U.free
  <2>1. T.info[s].future \cap T.free = {} /\ extra \subseteq T.free
    BY <1>5, <1>6 DEF Sound, Disjoint, CanRegister, Shared
  <2>2. U.info[s].future = mask /\ U.free = T.free \ extra
    BY <1>2, <1>3, <1>4, <1>6
  <2>3. Pool(T, {s}) = T.free \cup T.info[s].future /\ Pool(U, {s}) = U.free \cup U.info[s].future
    BY <1>5 DEF Pool
  <2> QED BY <2>1, <2>2, <2>3
<1>7. T.num <= U.num
  BY <1>4, TableFields
<1>b. U.free \subseteq T.free /\ s <= U.num /\ \A k \in Slot \ {s} : U.info[k] = T.info[k]
  <2>1. F \subseteq T.free
    <3> HIDE DEF extra
    <3> QED OBVIOUS
  <2> HIDE DEF F, extra
  <2> QED BY <2>1, <1>3, <1>4
<1> HIDE DEF F, extra
<1>8. Replaced(T, U, {s})
  BY <1>4, <1>5, <1>6, <1>7, <1>b DEF Replaced
<1>9. At(U, s, p)
  <2>1. s \in 1..U.num
    BY <1>4, TableFields, ProcInfoAssumption DEF Slot
  <2> QED BY <2>1, <1>2, <1>3, <1>4 DEF At
<1> QED BY <1>8, <1>9

(* Or takes some of its CPUs, and perhaps others, to a spot of its own. *)
LEMMA SplitOffOK ==
  ASSUME NEW T \in Table, Sound(T, 0), NEW p \in Pid, NEW s \in Slot, s <= T.num,
         T.info[s].pid # NOBODY, T.info[s].preregistered, T.mode \in {"exclusive", "shared"},
         ~ T.info[s].dirty, NEW mask \in SUBSET Cpu,
         NEW e \in Slot, T.info[e].pid = NOBODY \/ e = T.num + 1,
         CanRegister(T, mask \ T.info[s].future), NEW spot \in {EmptySlot, T.info[e]},
         NEW U, U = GrowTo([Unfree(T, mask \ T.info[s].future)
                      EXCEPT !.info[e] = Fill(spot, p, mask),
                             !.info[s] = [T.info[s] EXCEPT !.current = @ \ mask,
                                                           !.future = @ \ mask]], e)
  PROVE  Replaced(T, U, {e, s}) /\ At(U, e, p)
<1> DEFINE extra == mask \ T.info[s].future
           f == Fill(spot, p, mask)
           g == [T.info[s] EXCEPT !.current = @ \ mask, !.future = @ \ mask]
           F == IF T.mode = "shared" THEN T.free ELSE T.free \ extra
           I == [T.info EXCEPT ![e] = f, ![s] = g]
           n == Reach(T, e)
<1>0. T.num \in Nat /\ s \in Nat /\ e \in Nat /\ e # s
  BY TableFields, SlotNat
<1>1. U = Updated(T, F, n, I)
  <2> HIDE DEF f, g
  <2>1. Unfree(T, extra) = [T EXCEPT !.free = F]
    BY UnfreeFields
  <2>2. U = GrowTo([[T EXCEPT !.free = F] EXCEPT !.info[e] = f, !.info[s] = g], e)
    BY <2>1 DEF f, g
  <2> HIDE DEF F
  <2> QED BY <2>2, TableFields DEF GrowTo, Updated, Reach, Table
<1>a. /\ T.info[e].stolen = {}
      /\ e \in Held(T) => T.info[e].future = {}
      /\ T.info[e].pid = NOBODY \/ e > T.num
  BY EmptySpot
<1>2. /\ f \in Entry /\ f.pid = p /\ ~ f.preregistered /\ f.current = mask
      /\ f.future = mask /\ f.stolen = {}
  <2>1. spot \in Entry /\ spot.stolen = {}
    BY <1>a, EmptyFields, TableFields
  <2> QED BY <2>1 DEF Fill, Entry
<1>3. /\ g \in Entry /\ g.pid = T.info[s].pid /\ g.preregistered = T.info[s].preregistered
      /\ g.current = T.info[s].current \ mask /\ g.future = T.info[s].future \ mask
      /\ g.stolen = T.info[s].stolen /\ g.dirty = T.info[s].dirty
  BY TableFields DEF Entry
<1> HIDE DEF f, g
<1>4. /\ F \in SUBSET Cpu /\ I \in [Slot -> Entry] /\ I[e] = f /\ I[s] = g
      /\ \A k \in Slot \ {e, s} : I[k] = T.info[k]
  BY <1>0, <1>2, <1>3, TableFields
<1>5. n \in 0..MaxProcesses /\ T.num <= n /\ e <= n
  BY ReachFields
<1>6. s <= n
  BY <1>0, <1>5
<1> HIDE DEF I, n
<1>7. /\ U \in Table /\ U.free = F /\ U.num = n /\ U.info = I /\ U.mode = T.mode
  BY <1>1, <1>4, <1>5, UpdatedFields
<1>8. EntryOK(T.info[s]) /\ T.info[s].stolen = {} /\ T.info[s].future = T.info[s].current
  BY DEF Sound, EntryOK
<1>b. /\ U.info[e] = f /\ U.info[s] = g
      /\ U.free \subseteq T.free /\ \A k \in Slot \ {e, s} : U.info[k] = T.info[k]
  <2>1. F \subseteq T.free
    <3> HIDE DEF extra
    <3> QED OBVIOUS
  <2> HIDE DEF F, extra
  <2> QED BY <2>1, <1>4, <1>7
<1>9. EntryOK(U.info[e]) /\ EntryOK(U.info[s])
  <2>1. EntryOK(f)
    BY <1>2, ProcInfoAssumption DEF EntryOK
  <2>2. EntryOK(g)
    BY <1>3, <1>8 DEF EntryOK
  <2> QED BY <2>1, <2>2, <1>b
<1>10. e \in Held(U) /\ s \in Held(U) /\ s \in Held(T)
  <2>1. f.pid # NOBODY /\ g.pid # NOBODY
    BY <1>2, <1>3, ProcInfoAssumption
  <2> QED BY <2>1, <1>b DEF Held
<1>11. ASSUME T.mode # "shared"
      PROVE  /\ Pool(T, {e, s}) \subseteq Pool(U, {e, s})
             /\ U.info[s].future \subseteq Pool(T, {e, s}) \ U.free
             /\ U.info[e].future \subseteq Pool(T, {e, s}) \ U.free
             /\ U.info[e].future \cap U.info[s].future = {}
             /\ U.info[s].future \cap U.info[e].future = {}
  <2>1. T.info[s].future \cap T.free = {} /\ extra \subseteq T.free
    BY <1>10, <1>11 DEF Sound, Disjoint, CanRegister, Shared
  <2>2. /\ U.info[e].future = mask /\ U.info[s].future = T.info[s].future \ mask
        /\ U.free = T.free \ extra
    BY <1>2, <1>3, <1>4, <1>7, <1>11
  <2>3. Pool(T, {e, s}) = T.free \cup T.info[s].future
    BY <1>a, <1>10 DEF Pool
  <2>4. Pool(U, {e, s}) = U.free \cup U.info[e].future \cup U.info[s].future
    <3>1. {e, s} \cap Held(U) = {e, s}
      BY <1>10
    <3>2. UNION {U.info[k].future : k \in {e, s}} = U.info[e].future \cup U.info[s].future
      OBVIOUS
    <3> QED BY <3>1, <3>2 DEF Pool
  <2> QED BY <2>1, <2>2, <2>3, <2>4
<1> HIDE DEF F, extra
<1>12. Replaced(T, U, {e, s})
  BY <1>5, <1>6, <1>7, <1>9, <1>11, <1>a, <1>b DEF Replaced
<1>13. At(U, e, p)
  <2>1. e \in 1..U.num
    BY <1>0, <1>5, <1>7, TableFields, SlotNat, ProcInfoAssumption DEF Slot
  <2> QED BY <2>1, <1>2, <1>7, <1>b DEF At
<1> QED BY <1>12, <1>13

(* What registering makes of a table: p, if it is accepted, is at slot     *)
(* out.at, and the other processes are where they were.                    *)
Outcome(T, out, p) ==
  /\ out.at \in 0..MaxProcesses
  /\ out.T = T \/ \E D \in SUBSET Slot : Replaced(T, out.T, D)
  /\ out.ok => \E D \in SUBSET Slot : Replaced(T, out.T, D) /\ At(out.T, out.at, p)

(* Each way in which registering ends, A to D and the refusals. *)
LEMMA InitOutcomeCases ==
  ASSUME NEW T \in Table, Sound(T, 0), T.mode \in {"exclusive", "shared"}, NEW p \in Pid,
         NEW preinit_pid, NEW mask \in SUBSET Cpu,
         NEW out, out = InitOutcome(T, p, preinit_pid, mask)
  PROVE  Outcome(T, out, p)
<1> DEFINE f == Scan(T, p, preinit_pid)
           e == f.empty
           s == f.pre
           pre == T.info[s]
           pre_mask == Effective(pre)
           extra == mask \ pre_mask
           fail == [ok |-> FALSE, T |-> T, at |-> 0]
           done(U, at) == [ok |-> TRUE, T |-> U, at |-> at]
           without == [pre EXCEPT !.current = @ \ mask, !.future = @ \ mask]
           spot == IF mask \subseteq pre_mask THEN EmptySlot ELSE T.info[e]
           new == GrowTo([Unfree(T, mask) EXCEPT !.info[e] = Fill(EmptySlot, p, mask)], e)
           refused == GrowTo([T EXCEPT !.info[e] = EmptySlot], e)
           inherited == [T EXCEPT !.info[s].pid = p, !.info[s].preregistered = FALSE]
           expanded == [Unfree(T, extra) EXCEPT !.info[s] = Fill(pre, p, mask)]
           split == GrowTo([Unfree(T, extra) EXCEPT !.info[e] = Fill(spot, p, mask),
                                                    !.info[s] = without], e)
<1>1. out = IF f.clash THEN fail
            ELSE IF s = 0 THEN
              IF e = 0 THEN fail
              ELSE IF CanRegister(T, mask) THEN done(new, e)
              ELSE [ok |-> FALSE, T |-> refused, at |-> e]
            ELSE IF mask \in {{}, pre_mask} THEN done(inherited, s)
            ELSE IF pre.dirty \/ (e = 0 /\ ~ pre_mask \subseteq mask) \/ ~ CanRegister(T, extra)
            THEN fail
            ELSE IF pre_mask \subseteq mask THEN done(expanded, s)
            ELSE done(split, e)
  BY Zenon DEF InitOutcome
<1>2. s # 0 => /\ s \in Slot /\ s <= T.num /\ T.info[s].pid # NOBODY
               /\ ~ f.clash => T.info[s].preregistered
  BY ScanOK
<1>3. e # 0 => e \in Slot /\ (T.info[e].pid = NOBODY \/ e = T.num + 1)
  BY ScanOK
<1>4. s # 0 => pre_mask = T.info[s].future
  BY <1>2, EntryEffective DEF Sound
<1>5. 0 \in 0..MaxProcesses /\ Slot \subseteq 0..MaxProcesses
  BY ProcInfoAssumption DEF Slot
<1>6. CASE out = fail
  <2>1. out.T = T /\ out.at = 0 /\ ~ out.ok
    BY <1>6
  <2> QED BY <2>1, <1>5 DEF Outcome
<1>7. ASSUME NEW U, NEW at \in Slot, out = done(U, at), NEW D \in SUBSET Slot,
             Replaced(T, U, D), At(U, at, p)
      PROVE  Outcome(T, out, p)
  <2>1. out.T = U /\ out.at = at
    BY <1>7
  <2> QED BY <2>1, <1>7, <1>5 DEF Outcome
<1>8. CASE ~ f.clash /\ s = 0 /\ e # 0 /\ CanRegister(T, mask)
  <2>1. out = done(new, e)
    <3> HIDE DEF new, f, fail, refused, inherited, expanded, split
    <3> QED BY <1>1, <1>8
  <2>2. Replaced(T, new, {e}) /\ At(new, e, p)
    <3> DEFINE d == e
    <3>1. d \in Slot /\ (T.info[d].pid = NOBODY \/ d = T.num + 1) /\ CanRegister(T, mask)
      BY <1>3, <1>8
    <3>2. new = GrowTo([Unfree(T, mask) EXCEPT !.info[d] = Fill(EmptySlot, p, mask)], d)
      OBVIOUS
    <3> HIDE DEF d, new
    <3>3. Replaced(T, new, {d}) /\ At(new, d, p)
      BY <3>1, <3>2, NewSpotOK
    <3> QED BY <3>3 DEF d
  <2>3. e \in Slot /\ {e} \in SUBSET Slot
    BY <1>3, <1>8
  <2> HIDE DEF new, e
  <2> QED BY <2>1, <2>2, <2>3, <1>7
<1>9. CASE ~ f.clash /\ s = 0 /\ e # 0 /\ ~ CanRegister(T, mask)
  <2>1. out = [ok |-> FALSE, T |-> refused, at |-> e]
    <3> HIDE DEF new, f, fail, refused, inherited, expanded, split
    <3> QED BY <1>1, <1>9
  <2>2. Replaced(T, refused, {e}) /\ e \in Slot
    BY <1>3, <1>9, RefusedOK
  <2> HIDE DEF refused, e
  <2>3. out.T = refused /\ out.at = e /\ ~ out.ok /\ {e} \in SUBSET Slot
    BY <2>1, <2>2
  <2> QED BY <2>2, <2>3, <1>5 DEF Outcome
<1>10. CASE ~ f.clash /\ s # 0 /\ mask \in {{}, pre_mask}
  <2>1. out = done(inherited, s)
    <3> HIDE DEF new, f, fail, refused, inherited, expanded, split, pre_mask
    <3> QED BY <1>1, <1>10
  <2>2. Replaced(T, inherited, {s}) /\ At(inherited, s, p)
    <3> HIDE DEF f
    <3> QED BY <1>2, <1>10, InheritOK
  <2>3. s \in Slot /\ {s} \in SUBSET Slot
    BY <1>2, <1>10
  <2> HIDE DEF inherited, s
  <2> QED BY <2>1, <2>2, <2>3, <1>7
<1>11. CASE /\ ~ f.clash /\ s # 0 /\ mask \notin {{}, pre_mask}
            /\ ~ (pre.dirty \/ (e = 0 /\ ~ pre_mask \subseteq mask) \/ ~ CanRegister(T, extra))
            /\ pre_mask \subseteq mask
  <2>1. out = done(expanded, s)
    <3> HIDE DEF new, f, fail, refused, inherited, expanded, split, pre_mask, extra
    <3> QED BY <1>1, <1>11
  <2>2. Replaced(T, expanded, {s}) /\ At(expanded, s, p)
    <3>1. /\ expanded = [Unfree(T, mask \ T.info[s].future) EXCEPT !.info[s] = Fill(T.info[s], p, mask)]
          /\ CanRegister(T, mask \ T.info[s].future) /\ T.info[s].future \subseteq mask
          /\ ~ T.info[s].dirty
      <4> HIDE DEF f, pre_mask
      <4> QED BY <1>4, <1>11, Zenon
    <3> HIDE DEF f, expanded
    <3> QED BY <3>1, <1>2, <1>11, ExpandOK
  <2>3. s \in Slot /\ {s} \in SUBSET Slot
    BY <1>2, <1>11
  <2> HIDE DEF expanded, s
  <2> QED BY <2>1, <2>2, <2>3, <1>7
<1>12. CASE /\ ~ f.clash /\ s # 0 /\ mask \notin {{}, pre_mask}
            /\ ~ (pre.dirty \/ (e = 0 /\ ~ pre_mask \subseteq mask) \/ ~ CanRegister(T, extra))
            /\ ~ pre_mask \subseteq mask
  <2>1. out = done(split, e)
    <3> HIDE DEF new, f, fail, refused, inherited, expanded, split, pre_mask, extra
    <3> QED BY <1>1, <1>12
  <2>2. Replaced(T, split, {e, s}) /\ At(split, e, p)
    <3>1. /\ split = GrowTo([Unfree(T, mask \ T.info[s].future)
                       EXCEPT !.info[e] = Fill(spot, p, mask),
                              !.info[s] = [T.info[s] EXCEPT !.current = @ \ mask,
                                                            !.future = @ \ mask]], e)
          /\ CanRegister(T, mask \ T.info[s].future)
          /\ ~ T.info[s].dirty
      <4> HIDE DEF f, pre_mask, spot
      <4> QED BY <1>4, <1>12, Zenon
    <3>2. spot \in {EmptySlot, T.info[e]} /\ e # 0
      BY <1>12
    <3> HIDE DEF f, split, spot
    <3> QED BY <3>1, <3>2, <1>2, <1>3, <1>12, SplitOffOK
  <2>3. e \in Slot /\ {e, s} \in SUBSET Slot
    BY <1>2, <1>3, <1>12
  <2> HIDE DEF split, s, e
  <2> QED BY <2>1, <2>2, <2>3, <1>7
<1> HIDE DEF new, f, fail, refused, inherited, expanded, split, pre_mask, extra, done
<1> QED BY <1>1, <1>6, <1>8, <1>9, <1>10, <1>11, <1>12

(* Registering leaves a good table good. *)
LEMMA OutcomeOK ==
  ASSUME NEW T, NEW my \in [Pid -> 0..MaxProcesses], NEW in \in [Pid -> {"out", "in", "dead"}],
         NEW c \in Calls, Good(T, my, in, c), T.mode # "none", NEW p \in Pid,
         NEW out, Outcome(T, out, p)
  PROVE  /\ Good(out.T, my, in, c)
         /\ out.ok => Good(out.T, [my EXCEPT ![p] = out.at], [in EXCEPT ![p] = "in"], c)
<1>1. Good(out.T, my, in, c)
  BY ReplacedOK DEF Outcome
<1>2. ASSUME out.ok PROVE Good(out.T, [my EXCEPT ![p] = out.at], [in EXCEPT ![p] = "in"], c)
  <2>1. PICK D \in SUBSET Slot : Replaced(T, out.T, D) /\ At(out.T, out.at, p)
    BY <1>2 DEF Outcome
  <2> QED BY <2>1, JoinedOK
<1> QED BY <1>1, <1>2

-----------------------------------------------------------------------------
(* Processes that leave, and calls *)

(* The table stays good for fewer processes: one that is not registered,   *)
(* or not any more, may remember anything.                                 *)
LEMMA GoodLeaves ==
  ASSUME NEW T, NEW my, NEW in, NEW c, Good(T, my, in, c), NEW my2, NEW in2,
         \A q \in Pid : in2[q] = "in" => in[q] = "in" /\ my2[q] = my[q],
         \A x \in Clients \ {Admin} : c[x] # NoCall => in2[x] = "in"
  PROVE  Good(T, my2, in2, c)
<1>1. Rooted(T, my2, in2)
  BY DEF Good, Rooted
<1>2. Resumable(T, in2, c)
  BY DEF Good, Resumable
<1> QED BY <1>1, <1>2 DEF Good

(* What a call waits for. *)
Pending(k) == IF k \in Wait THEN k.work.steal ELSE {}

(* The calls that wait in a steal, and all that they wait for. *)
LEMMA StealsWait ==
  ASSUME NEW c \in Calls
  PROVE  /\ \A x \in Clients : x \in Steals(c) <=> c[x] \in Wait
         /\ WaitedBy(c) = UNION {Pending(c[x]) : x \in Clients}
<1>1. \A x \in Clients : x \in Steals(c) <=> c[x] \in Wait
  BY DEF Calls, Steals, Wait, NoCall, Adopting
<1>2. WaitedBy(c) = UNION {Pending(c[x]) : x \in Clients}
  BY <1>1 DEF WaitedBy, Pending, Steals
<1> QED BY <1>1, <1>2

(* The call of client x becomes k, and the table U: good if what was known *)
(* or waited for still is, and x can resume.                               *)
LEMMA GoodCall ==
  ASSUME NEW T, NEW my, NEW in, NEW c \in Calls, Good(T, my, in, c), NEW x \in Clients,
         NEW k \in {NoCall, Adopting} \cup Wait, NEW U \in Table, Sound(U, 0), Rooted(U, my, in),
         U.mode = T.mode, T.num <= U.num,
         T.mode # "shared" => Known(T) \cup Pending(c[x]) \subseteq Known(U) \cup Pending(k),
         x = Admin \/ Held(U) \subseteq Held(T),
         k # NoCall => x = Admin \/ in[x] = "in",
         k \in Wait => /\ StartedOK(x, k) /\ TargetOK(U, x, k)
                       /\ U.mode = "none" => Held(U) = {},
         NEW c2, c2 = [c EXCEPT ![x] = k]
  PROVE  c2 \in Calls /\ Good(U, my, in, c2)
<1>1. c2 \in Calls /\ c2[x] = k /\ \A y \in Clients \ {x} : c2[y] = c[y]
  BY DEF Calls
<1>2. Lossless(U, c2)
  <2> SUFFICES ASSUME T.mode \in {"exclusive", "unknown"}, NEW cpu \in Cpu
               PROVE  cpu \in WaitedBy(c2) \cup Known(U)
    BY DEF Lossless
  <2>1. cpu \in Known(T) \/ \E y \in Clients : cpu \in Pending(c[y])
    BY StealsWait DEF Good, Lossless
  <2>2. \A y \in Clients : Pending(c2[y]) \subseteq WaitedBy(c2)
    <3>1. WaitedBy(c2) = UNION {Pending(c2[y]) : y \in Clients}
      BY <1>1, StealsWait
    <3> QED BY <3>1
  <2>3. CASE cpu \in Known(T) \/ cpu \in Pending(c[x])
    BY <2>3, <2>2, <1>1
  <2>4. CASE \E y \in Clients \ {x} : cpu \in Pending(c[y])
    BY <2>4, <2>2, <1>1
  <2> QED BY <2>1, <2>3, <2>4
<1>3. T.num \in Nat /\ U.num \in Nat /\ Slot \subseteq Nat
  BY TableFields, SlotNat DEF Good
<1>4. ASSUME NEW y \in Steals(c2), y # x
      PROVE  /\ StartedOK(y, c2[y]) /\ TargetOK(U, y, c2[y])
             /\ y = Admin /\ U.mode = "none" => Held(U) = {}
  <2>1. y \in Steals(c) /\ c2[y] = c[y]
    BY <1>1, <1>4 DEF Steals
  <2>2. StartedOK(y, c[y]) /\ TargetOK(T, y, c[y]) /\ (y = Admin /\ T.mode = "none" => Held(T) = {})
    BY <2>1 DEF Good, Resumable
  <2>3. c[y].slot \in Slot
    BY <2>1, StealsWait DEF Steals, Wait
  <2>4. CASE c[y].preinit \/ c[y].slot <= T.num
    <3>1. TargetOK(U, y, c[y])
      BY <2>3, <2>4, <1>3 DEF TargetOK
    <3> QED BY <3>1, <2>1, <2>2, <1>4
  <2>5. CASE y = Admin /\ T.info[c[y].slot].pid = NOBODY
    <3>1. c[y].slot \notin Held(U)
      BY <2>5, <1>4 DEF Held
    <3>2. TargetOK(U, y, c[y])
      BY <3>1, <2>3, <2>5 DEF TargetOK, Held
    <3> QED BY <3>2, <2>1, <2>2, <1>4
  <2> QED BY <2>2, <2>4, <2>5 DEF TargetOK
<1>5. x \in Steals(c2) => StartedOK(x, c2[x]) /\ TargetOK(U, x, c2[x])
                          /\ (U.mode = "none" => Held(U) = {})
  BY <1>1, StealsWait
<1>6. \A y \in Clients \ {Admin} : c2[y] # NoCall => in[y] = "in"
  BY <1>1 DEF Good, Resumable
<1>7. Resumable(U, in, c2)
  BY <1>4, <1>5, <1>6 DEF Resumable
<1> QED BY <1>1, <1>2, <1>7 DEF Good

-----------------------------------------------------------------------------
(* The actions *)

(* All that the invariant says while nothing is broken. *)
Safe == Typed /\ Good(shm, my_pinfo, up, call)

(* Slot s gets entry f. *)
Put(T, s, f) == [T EXCEPT !.info[s] = f]

(* A slot without CPUs is vacated. *)
LEMMA VacateOK ==
  ASSUME NEW T \in Table, NEW s \in Slot, Sound(T, s), NEW f \in Entry, EntryOK(f),
         f.pid = NOBODY, T.mode # "shared" /\ s \in Held(T) => T.info[s].future = {},
         NEW U, U = Put(T, s, f)
  PROVE  /\ U \in Table /\ Sound(U, 0) /\ U.mode = T.mode /\ U.num = T.num
         /\ T.mode # "shared" => Known(U) = Known(T)
         /\ U.info[s] = f /\ \A k \in Slot \ {s} : U.info[k] = T.info[k]
         /\ Held(U) = Held(T) \ {s}
<1>1. /\ U \in Table /\ U.mode = T.mode /\ U.num = T.num /\ U.free = T.free
      /\ U.info = [T.info EXCEPT ![s] = f]
  BY DEF Put, Table
<1>2. U.info[s] = f /\ \A k \in Slot \ {s} : U.info[k] = T.info[k]
  BY <1>1, TableFields
<1>3. Held(U) = Held(T) \ {s} /\ Held(U) \subseteq Slot
  BY <1>2 DEF Held
<1>4. \A k \in Slot : EntryOK(U.info[k])
  BY <1>2 DEF Sound
<1>5. BeyondOK(U, 0) /\ NoneOK(U) /\ Disjoint(U)
  BY <1>1, <1>2, <1>3 DEF Sound, BeyondOK, NoneOK, Disjoint
<1>6. ASSUME T.mode # "shared" PROVE Known(U) = Known(T)
  <2>1. ASSUME NEW c PROVE c \in Known(U) <=> c \in Known(T)
    BY <1>1, <1>2, <1>3, <1>6 DEF Known
  <2> QED BY <2>1
<1> QED BY <1>1, <1>2, <1>3, <1>4, <1>5, <1>6 DEF Sound

(* The slot that get_process finds is emptied and its CPUs are returned or *)
(* freed.                                                                  *)
LEMMA RemoveOK ==
  ASSUME NEW T, NEW my, NEW in, NEW c \in Calls, Good(T, my, in, c),
         NEW mine \in 0..MaxProcesses, NEW p \in Pid, NEW r,
         HasSlot(T, mine, p), in[p] # "in",
         NEW U, U = Remove(T, mine, p, r)
  PROVE  Good(U, my, in, c)
<1> DEFINE s == get_process(T, mine, p)
           mask == Effective(T.info[s])
           V == unregister_mask(T, s, mask, r)
<1>0. T \in Table /\ Sound(T, 0) /\ Rooted(T, my, in)
  BY DEF Good
<1>1. s \in Slot /\ T.info[s].pid = p /\ s # 0
  BY <1>0, GetProcess
<1>2. U = Put(V, s, EmptySlot)
  <2> HIDE DEF s
  <2> QED BY <1>1 DEF Remove, Put, s
<1> HIDE DEF s
<1>3. s \in Held(T)
  BY <1>1, ProcInfoAssumption DEF Held
<1>4. mask = T.info[s].future /\ mask \in SUBSET Cpu
  BY <1>0, <1>1, EntryEffective, TableFields DEF Sound
<1> HIDE DEF mask
<1>5. Sound(T, s)
  BY <1>0, SoundSave
<1>6. /\ V \in Table /\ Same(T, V) /\ Sound(V, s)
      /\ T.mode # "shared" => Known(V) = Known(T)
      /\ T.mode # "shared" => V.info[s].future = T.info[s].future \ mask
  BY <1>0, <1>3, <1>4, <1>5, UnregisterOK
<1> HIDE DEF V
<1>7. V.mode = T.mode /\ V.num = T.num /\ Held(V) = Held(T)
  BY <1>0, <1>6, SameSlots, TableFields DEF Same
<1>8. T.mode # "shared" => V.info[s].future = {}
  BY <1>4, <1>6
<1>9. /\ U \in Table /\ Sound(U, 0) /\ U.mode = V.mode /\ U.num = V.num
      /\ V.mode # "shared" => Known(U) = Known(V)
      /\ U.info[s] = EmptySlot /\ \A k \in Slot \ {s} : U.info[k] = V.info[k]
      /\ Held(U) = Held(V) \ {s}
  <2>1. /\ V \in Table /\ s \in Slot /\ Sound(V, s) /\ EmptySlot \in Entry /\ EntryOK(EmptySlot)
        /\ EmptySlot.pid = NOBODY
    BY <1>1, <1>6, EmptyFields
  <2>2. V.mode # "shared" /\ s \in Held(V) => V.info[s].future = {}
    BY <1>7, <1>8
  <2> QED BY <2>1, <2>2, <1>2, VacateOK
<1>10. Rooted(U, my, in)
  <2> SUFFICES ASSUME NEW q \in Pid, in[q] = "in" PROVE At(U, my[q], q)
    BY DEF Rooted
  <2>1. At(V, my[q], q)
    BY <1>0, <1>6, SameRooted DEF Rooted
  <2>2. my[q] \in Slot /\ my[q] # s
    BY <2>1, <1>1, <1>0, <1>6, <1>7, TableFields, ProcInfoAssumption DEF At, Slot, Same
  <2> QED BY <2>1, <2>2, <1>9 DEF At
<1>11. T.num <= U.num
  BY <1>0, <1>7, <1>9, TableFields
<1> QED BY <1>6, <1>7, <1>9, <1>10, <1>11, GoodGrows

(* DLB_Init leaves the table good, whether it succeeds or fails. *)
LEMMA ProcInitOK ==
  ASSUME Safe, NEW p \in Pid, ProcInit(p)
  PROVE  Safe'
<1>1. PICK preinit_pid \in {NOBODY, p, Parent[p]}, mask \in StartMasks :
        LET T == Prepare(open_shmem(p), ModeOf(p))
            out == InitOutcome(T, p, preinit_pid, mask)
            compatible == T.mode = ModeOf(p)
        IN  /\ shm' = IF compatible /\ out.ok THEN out.T
                      ELSE IF compatible THEN close_shmem(out.T, p)
                      ELSE close_shmem(T, p)
            /\ up' = IF compatible /\ out.ok THEN [up EXCEPT ![p] = "in"] ELSE up
            /\ my_pinfo' = IF compatible /\ out.at # 0 THEN [my_pinfo EXCEPT ![p] = out.at]
                           ELSE my_pinfo
  BY Zenon DEF ProcInit
<1> DEFINE O == open_shmem(p)
           T == Prepare(O, ModeOf(p))
           out == InitOutcome(T, p, preinit_pid, mask)
           compatible == T.mode = ModeOf(p)
<1>2. up[p] = "out" /\ call' = call
  BY DEF ProcInit, Startable
<1>3. /\ my_pinfo \in [Pid -> 0..MaxProcesses] /\ up \in [Pid -> {"out", "in", "dead"}]
      /\ call \in Calls /\ mask \in SUBSET Cpu
  BY ProcInfoAssumption DEF Safe, Typed, Calls
<1>4. Good(O, my_pinfo, up, call)
  BY OpenOK DEF Safe
<1>5. ModeOf(p) \in {"shared", "exclusive"}
  BY DEF ModeOf
<1> HIDE DEF O
<1>6. Good(T, my_pinfo, up, call) /\ T.mode \in {"shared", "exclusive"}
  BY <1>3, <1>4, <1>5, PrepareOK
<1>a. /\ shm' = IF compatible /\ out.ok THEN out.T
                ELSE IF compatible THEN close_shmem(out.T, p) ELSE close_shmem(T, p)
      /\ up' = IF compatible /\ out.ok THEN [up EXCEPT ![p] = "in"] ELSE up
      /\ my_pinfo' = IF compatible /\ out.at # 0 THEN [my_pinfo EXCEPT ![p] = out.at]
                     ELSE my_pinfo
  BY <1>1, Zenon DEF O
<1> HIDE DEF T
<1>7. Outcome(T, out, p)
  BY <1>3, <1>6, InitOutcomeCases DEF Good
<1> HIDE DEF out
<1>8. /\ Good(out.T, my_pinfo, up, call)
      /\ out.ok => Good(out.T, [my_pinfo EXCEPT ![p] = out.at], [up EXCEPT ![p] = "in"], call)
  BY <1>3, <1>6, <1>7, OutcomeOK
<1>9. out.at \in 0..MaxProcesses
  BY <1>7 DEF Outcome
<1>10. Typed'
  BY <1>a, <1>2, <1>3, <1>9 DEF Typed, Calls
<1>11. CASE compatible /\ out.ok
  <2>1. out.at # 0
    BY <1>11, <1>7 DEF Outcome, At
  <2> QED BY <1>8, <1>10, <1>11, <1>a, <1>2, <2>1 DEF Safe
<1>12. CASE compatible /\ ~ out.ok
  <2>1. Good(shm', my_pinfo, up, call)
    BY <1>12, <1>3, <1>8, <1>a, CloseOK
  <2>2. up' = up /\ \A q \in Pid : up[q] = "in" => my_pinfo'[q] = my_pinfo[q]
    BY <1>2, <1>3, <1>12, <1>a
  <2>3. \A x \in Clients \ {Admin} : call[x] # NoCall => up[x] = "in"
    BY DEF Safe, Good, Resumable
  <2>4. Good(shm', my_pinfo', up, call)
    BY <2>1, <2>2, <2>3, GoodLeaves
  <2> QED BY <2>2, <2>4, <1>10, <1>2 DEF Safe
<1>13. CASE ~ compatible
  <2>1. Good(shm', my_pinfo, up, call)
    BY <1>13, <1>3, <1>6, <1>a, CloseOK
  <2> QED BY <1>13, <1>a, <2>1, <1>10, <1>2 DEF Safe
<1> QED BY <1>11, <1>12, <1>13

(* A process that leaves takes its entry with it. *)
LEMMA ProcFinalizeOK ==
  ASSUME Safe, NEW p \in Pid, NEW r, ProcFinalize(p, r)
  PROVE  Safe'
<1>1. /\ my_pinfo \in [Pid -> 0..MaxProcesses] /\ up \in [Pid -> {"out", "in", "dead"}]
      /\ call \in Calls
  BY DEF Safe, Typed, Calls
<1>2. /\ up[p] = "in" /\ (p \in Clients => call[p] = NoCall)
      /\ shm' = close_shmem(Remove(shm, my_pinfo[p], p, r), p)
      /\ up' = [up EXCEPT ![p] = "out"] /\ my_pinfo' = [my_pinfo EXCEPT ![p] = 0]
      /\ call' = call
  BY DEF ProcFinalize
<1>3. At(shm, my_pinfo[p], p) /\ shm \in Table
  BY <1>2 DEF Safe, Good, Rooted
<1>4. HasSlot(shm, my_pinfo[p], p)
  BY <1>3 DEF At, HasSlot
<1>5. Good(shm, my_pinfo', up', call)
  <2>1. \A q \in Pid : up'[q] = "in" => up[q] = "in" /\ my_pinfo'[q] = my_pinfo[q]
    BY <1>1, <1>2
  <2>2. \A x \in Clients \ {Admin} : call[x] # NoCall => up'[x] = "in"
    <3> SUFFICES ASSUME NEW x \in Clients \ {Admin}, call[x] # NoCall PROVE up'[x] = "in"
      OBVIOUS
    <3>1. up[x] = "in" /\ x # p /\ x \in Pid
      BY <1>2, ProcInfoAssumption DEF Safe, Good, Resumable
    <3> QED BY <3>1, <1>1, <1>2
  <2> QED BY <2>1, <2>2, GoodLeaves DEF Safe
<1>6. up'[p] # "in"
  BY <1>1, <1>2
<1>7. Good(Remove(shm, my_pinfo[p], p, r), my_pinfo', up', call)
  BY <1>1, <1>4, <1>5, <1>6, RemoveOK
<1>8. Good(shm', my_pinfo', up', call)
  BY <1>1, <1>2, <1>7, CloseOK
<1>9. Typed'
  BY <1>1, <1>2, ProcInfoAssumption DEF Typed, Calls
<1> QED BY <1>2, <1>8, <1>9 DEF Safe

(* So does one that was preregistered and never registered. *)
LEMMA FinalizeUnopenedOK ==
  ASSUME Safe, NEW p \in Pid, NEW r, FinalizeUnopened(p, r)
  PROVE  Safe'
<1> DEFINE O == open_shmem(p)
<1>1. /\ my_pinfo \in [Pid -> 0..MaxProcesses] /\ up \in [Pid -> {"out", "in", "dead"}]
      /\ call \in Calls /\ shm \in Table
  BY DEF Safe, Typed, Calls, Good
<1>2. /\ up[p] = "out" /\ p \in Preregistered(shm)
      /\ shm' = close_shmem(Remove(O, 0, p, r), p)
      /\ my_pinfo' = [my_pinfo EXCEPT ![p] = 0] /\ up' = up /\ call' = call
  BY DEF FinalizeUnopened
<1>3. /\ Good(O, my_pinfo, up, call)
      /\ \A k \in Slot : shm.info[k].pid \notin Dead \cup {NOBODY} /\ k <= shm.num
                         => O.info[k] = shm.info[k]
      /\ O.num = shm.num \/ \A k \in Slot : O.info[k].pid = NOBODY
  BY OpenOK DEF Safe
<1> HIDE DEF O
<1>4. PICK s \in 1..shm.num : shm.info[s].pid = p
  BY <1>2 DEF Preregistered
<1>5. s \in Slot /\ s <= shm.num /\ p \notin Dead \cup {NOBODY}
  BY <1>1, <1>2, TableFields, ProcInfoAssumption DEF Slot, Dead
<1>6. O.info[s].pid = p /\ O.num = shm.num
  BY <1>3, <1>4, <1>5
<1>7. HasSlot(O, 0, p)
  BY <1>4, <1>6 DEF HasSlot
<1>8. 0 \in 0..MaxProcesses /\ up[p] # "in"
  BY <1>2, ProcInfoAssumption
<1>9. Good(Remove(O, 0, p, r), my_pinfo, up, call)
  BY <1>1, <1>3, <1>7, <1>8, RemoveOK
<1>10. Good(shm', my_pinfo, up, call)
  BY <1>1, <1>2, <1>9, CloseOK
<1>11. \A q \in Pid : up[q] = "in" => my_pinfo'[q] = my_pinfo[q]
  BY <1>1, <1>2
<1>12. \A x \in Clients \ {Admin} : call[x] # NoCall => up[x] = "in"
  BY DEF Safe, Good, Resumable
<1>13. Good(shm', my_pinfo', up, call)
  BY <1>10, <1>11, <1>12, GoodLeaves
<1>14. Typed'
  BY <1>1, <1>2, ProcInfoAssumption DEF Typed, Calls
<1> QED BY <1>2, <1>13, <1>14 DEF Safe

(* The administrator removes the entry of a process that is gone. *)
LEMMA PostFinalizeOK ==
  ASSUME Safe, NEW p \in Pid, NEW r, PostFinalize(p, r)
  PROVE  Safe'
<1>1. call \in Calls /\ 0 \in 0..MaxProcesses
  BY ProcInfoAssumption DEF Safe, Typed, Calls
<1>2. /\ up[p] # "in" /\ p \in {shm.info[s].pid : s \in Registered(shm)}
      /\ shm' = Remove(shm, 0, p, r) /\ my_pinfo' = my_pinfo /\ up' = up /\ call' = call
  BY DEF PostFinalize
<1>3. HasSlot(shm, 0, p)
  BY <1>2 DEF HasSlot, Registered
<1>4. Good(shm', my_pinfo, up, call)
  BY <1>1, <1>2, <1>3, RemoveOK DEF Safe
<1> QED BY <1>2, <1>4 DEF Safe, Typed

(* A process that dies leaves its entry as it is. *)
LEMMA CrashOK ==
  ASSUME Safe, NEW p \in Pid, Crash(p), ~ broken'
  PROVE  Safe'
<1>1. /\ my_pinfo \in [Pid -> 0..MaxProcesses] /\ up \in [Pid -> {"out", "in", "dead"}]
      /\ call \in Calls
  BY DEF Safe, Typed, Calls
<1>2. /\ up' = [up EXCEPT ![p] = "dead"] /\ my_pinfo' = [my_pinfo EXCEPT ![p] = 0]
      /\ shm' = shm /\ (p \in Clients => call[p] = NoCall)
      /\ call' = [x \in Clients |-> IF x = p THEN NoCall ELSE call[x]]
  BY DEF Crash
<1>3. call' = call
  <2>1. \A x \in Clients : call'[x] = call[x]
    BY <1>2
  <2> QED BY <2>1, <1>1, <1>2 DEF Calls
<1>4. \A q \in Pid : up'[q] = "in" => up[q] = "in" /\ my_pinfo'[q] = my_pinfo[q]
  BY <1>1, <1>2
<1>5. \A x \in Clients \ {Admin} : call[x] # NoCall => up'[x] = "in"
  <2> SUFFICES ASSUME NEW x \in Clients \ {Admin}, call[x] # NoCall PROVE up'[x] = "in"
    OBVIOUS
  <2>1. up[x] = "in" /\ x # p /\ x \in Pid
    BY <1>2, ProcInfoAssumption DEF Safe, Good, Resumable
  <2> QED BY <2>1, <1>1, <1>2
<1>6. Good(shm, my_pinfo', up', call)
  BY <1>4, <1>5, GoodLeaves DEF Safe
<1>7. Typed'
  BY <1>1, <1>2, <1>3, ProcInfoAssumption DEF Typed, Calls
<1> QED BY <1>2, <1>3, <1>6, <1>7 DEF Safe

(* A pid that is used again starts as a process that is not registered. *)
LEMMA RestartOK ==
  ASSUME Safe, NEW p \in Pid, Restart(p)
  PROVE  Safe'
<1>1. /\ my_pinfo \in [Pid -> 0..MaxProcesses] /\ up \in [Pid -> {"out", "in", "dead"}]
      /\ call \in Calls
  BY DEF Safe, Typed, Calls
<1>2. /\ up[p] = "dead" /\ up' = [up EXCEPT ![p] = "out"] /\ my_pinfo' = my_pinfo
      /\ shm' = shm /\ call' = call
  BY DEF Restart
<1>3. \A q \in Pid : up'[q] = "in" <=> up[q] = "in"
  BY <1>1, <1>2
<1>4. \A x \in Clients \ {Admin} : call[x] # NoCall => up'[x] = "in"
  BY <1>3, ProcInfoAssumption DEF Safe, Good, Resumable
<1>5. Good(shm, my_pinfo, up', call)
  BY <1>3, <1>4, GoodLeaves DEF Safe
<1>6. Typed'
  BY <1>1, <1>2 DEF Typed, Calls
<1> QED BY <1>2, <1>5, <1>6 DEF Safe

(* The administrator opens the memory and, where it is new, initialises it. *)
LEMMA AttachOK ==
  ASSUME Safe, Attach
  PROVE  Safe'
<1> DEFINE O == open_shmem(Admin)
<1>1. call \in Calls
  BY DEF Safe, Typed, Calls
<1>2. /\ shm' = IF O.mode = "none" THEN Started(O, "unknown") ELSE O
      /\ my_pinfo' = my_pinfo /\ up' = up /\ call' = call
  BY DEF Attach, Started
<1>3. Good(O, my_pinfo, up, call)
  BY OpenOK DEF Safe
<1> HIDE DEF O
<1>4. Good(shm', my_pinfo, up, call)
  <2>1. CASE O.mode = "none"
    <3>1. "unknown" \in Mode \ {"none"}
      BY DEF Mode
    <3> QED BY <2>1, <3>1, <1>1, <1>2, <1>3, StartOK
  <2>2. CASE O.mode # "none"
    BY <2>2, <1>2, <1>3
  <2> QED BY <2>1, <2>2
<1> QED BY <1>2, <1>4 DEF Safe, Typed

(* And closes it. *)
LEMMA DetachOK ==
  ASSUME Safe, Detach
  PROVE  Safe'
<1>1. call \in Calls
  BY DEF Safe, Typed, Calls
<1>2. shm' = close_shmem(shm, Admin) /\ my_pinfo' = my_pinfo /\ up' = up /\ call' = call
  BY DEF Detach
<1>3. Good(shm', my_pinfo, up, call)
  BY <1>1, <1>2, CloseOK DEF Safe
<1> QED BY <1>2, <1>3 DEF Safe, Typed

(* A step that only moves CPUs between entries of processes that stay. *)
LEMMA SameGood ==
  ASSUME NEW T, NEW my, NEW in, NEW c \in Calls, Good(T, my, in, c),
         NEW U \in Table, Same(T, U), Sound(U, 0), T.mode # "shared" => Known(T) \subseteq Known(U)
  PROVE  Good(U, my, in, c)
<1>1. T \in Table /\ Rooted(U, my, in)
  BY SameRooted DEF Good
<1>2. Held(U) = Held(T) /\ U.mode = T.mode /\ T.num <= U.num
  BY <1>1, SameSlots, TableFields DEF Same
<1> QED BY <1>1, <1>2, GoodGrows

(* A process that polls adopts the mask it was given. *)
LEMMA SettledOK ==
  ASSUME Safe, NEW p \in Pid, up[p] = "in", shm' = Settle(shm, my_pinfo[p]),
         my_pinfo' = my_pinfo, up' = up, call' = call
  PROVE  Safe'
<1>1. call \in Calls /\ shm \in Table /\ Sound(shm, 0)
  BY DEF Safe, Typed, Calls, Good
<1>2. At(shm, my_pinfo[p], p)
  BY DEF Safe, Good, Rooted
<1>3. my_pinfo[p] \in Slot /\ ~ shm.info[my_pinfo[p]].preregistered
  BY <1>1, <1>2, TableFields, ProcInfoAssumption DEF At, Slot
<1>4. shm' \in Table /\ Same(shm, shm') /\ Sound(shm', 0) /\ Known(shm') = Known(shm)
  BY <1>1, <1>3, SettleOK
<1>5. Good(shm', my_pinfo, up, call)
  BY <1>1, <1>4, SameGood DEF Safe
<1> QED BY <1>5 DEF Safe, Typed

(* poll_drom: the process finds its own slot, not that of an ancestor. *)
LEMMA PollOK ==
  ASSUME Safe, NEW p \in Pid, Poll(p)
  PROVE  Safe'
<1>1. /\ up[p] = "in" /\ shm' = Settle(shm, get_process(shm, my_pinfo[p], p))
      /\ my_pinfo' = my_pinfo /\ up' = up /\ call' = call
  BY DEF Poll
<1>2. At(shm, my_pinfo[p], p) /\ shm \in Table /\ my_pinfo[p] \in 0..MaxProcesses
  BY <1>1 DEF Safe, Good, Rooted, Typed
<1>3. my_pinfo[p] # 0 /\ shm.info[my_pinfo[p]].pid = p
  BY <1>2 DEF At
<1>4. get_process(shm, my_pinfo[p], p) = my_pinfo[p]
  BY <1>2, <1>3, GetProcess
<1> QED BY <1>1, <1>4, SettledOK

(* getprocessmask_self settles the pending mask in the same way. *)
LEMMA GetOwnMaskOK ==
  ASSUME Safe, NEW p \in Pid, GetOwnMask(p)
  PROVE  Safe'
BY SettledOK DEF GetOwnMask

(* A synchronous steal sees its victims gone, or gives up. *)
LEMMA StealPollOK ==
  ASSUME Safe, NEW x \in Clients, StealPoll(x)
  PROVE  Safe'
<1> DEFINE k == call[x]
           m == IF OthersUse(shm, call[x].slot) \cap call[x].work.steal = {}
                THEN "stolen" ELSE "timeout"
           j == [k EXCEPT !.phase = m]
<1>1. call \in Calls /\ shm \in Table
  BY DEF Safe, Typed, Calls, Good
<1>2. k.phase = "steal" /\ shm' = shm /\ my_pinfo' = my_pinfo /\ up' = up
  BY DEF StealPoll
<1>3. k \in Wait /\ x \in Steals(call)
  BY <1>1, <1>2, StealsWait DEF Steals
<1>4. call' = [call EXCEPT ![x] = j]
  BY <1>1 DEF StealPoll, Calls
<1>5. m \in {"stolen", "timeout"}
  OBVIOUS
<1> HIDE DEF m
<1>6. /\ j \in Wait /\ j.slot = k.slot /\ j.was = k.was /\ j.mask = k.mask /\ j.work = k.work
      /\ j.preinit = k.preinit
  BY <1>3, <1>5 DEF Wait
<1>7. StartedOK(x, k) /\ TargetOK(shm, x, k) /\ (x = Admin /\ shm.mode = "none" => Held(shm) = {})
  BY <1>3 DEF Safe, Good, Resumable
<1>8. x = Admin \/ up[x] = "in"
  BY <1>3 DEF Safe, Good, Resumable, Steals, NoCall
<1>9. shm.mode = "none" => Held(shm) = {}
  <2>1. CASE x = Admin
    BY <2>1, <1>7
  <2>2. CASE x # Admin
    <3>1. At(shm, my_pinfo[x], x)
      BY <2>2, <1>8, ProcInfoAssumption DEF Safe, Good, Rooted
    <3> QED BY <3>1 DEF At
  <2> QED BY <2>1, <2>2
<1> HIDE DEF j, k
<1>10. StartedOK(x, j) /\ TargetOK(shm, x, j)
  BY <1>6, <1>7 DEF StartedOK, TargetOK
<1>11. Pending(k) = Pending(j)
  BY <1>3, <1>6 DEF Pending
<1>12. shm.num <= shm.num
  BY <1>1, TableFields
<1>13. call' \in Calls /\ Good(shm, my_pinfo, up, call')
  BY <1>1, <1>4, <1>6, <1>8, <1>9, <1>10, <1>11, <1>12, GoodCall DEF Safe, Good, k
<1> QED BY <1>2, <1>13 DEF Safe, Typed, Calls

(* A synchronous call returns. *)
LEMMA PollEndOK ==
  ASSUME Safe, NEW x \in Clients, PollEnd(x)
  PROVE  Safe'
<1>1. call \in Calls /\ shm \in Table
  BY DEF Safe, Typed, Calls, Good
<1>2. /\ call[x].phase = "poll" /\ call' = [call EXCEPT ![x] = NoCall]
      /\ shm' = shm /\ my_pinfo' = my_pinfo /\ up' = up
  BY DEF PollEnd
<1>3. call[x] \notin Wait /\ NoCall \notin Wait
  BY <1>2 DEF Wait, NoCall
<1>4. shm.num <= shm.num
  BY <1>1, TableFields
<1>5. Pending(call[x]) = {} /\ Pending(NoCall) = {}
  BY <1>3 DEF Pending
<1>6. call' \in Calls /\ Good(shm, my_pinfo, up, call')
  BY <1>1, <1>2, <1>3, <1>4, <1>5, GoodCall DEF Safe, Good
<1> QED BY <1>2, <1>6 DEF Safe, Typed, Calls

(* Registered processes stay where they are in a table that grows. *)
LEMMA RootedGrows ==
  ASSUME NEW T \in Table, NEW my, NEW in, Rooted(T, my, in), NEW U \in Table,
         U.mode = T.mode, T.num <= U.num,
         \A k \in Slot : /\ k <= T.num /\ T.info[k].pid # NOBODY /\ ~ T.info[k].preregistered
                         => U.info[k].pid = T.info[k].pid /\ ~ U.info[k].preregistered
  PROVE  Rooted(U, my, in)
<1> SUFFICES ASSUME NEW p \in Pid, in[p] = "in" PROVE At(U, my[p], p)
  BY DEF Rooted
<1>1. At(T, my[p], p)
  BY DEF Rooted
<1>2. my[p] \in Slot /\ my[p] <= T.num /\ my[p] \in 1..U.num
  BY <1>1, TableFields, ProcInfoAssumption DEF At, Slot
<1>3. T.info[my[p]].pid # NOBODY /\ ~ T.info[my[p]].preregistered /\ T.info[my[p]].pid = p
  BY <1>1, ProcInfoAssumption DEF At
<1> QED BY <1>1, <1>2, <1>3 DEF At

(* The entry that preinit writes before it has any CPU. *)
Reserved(p) == [EmptySlot EXCEPT !.pid = p, !.preregistered = TRUE]

(* What is in it: a pid and no CPU. *)
LEMMA ReservedFields ==
  ASSUME NEW p \in Pid
  PROVE  /\ Reserved(p) \in Entry /\ EntryOK(Reserved(p)) /\ Reserved(p).pid = p
         /\ Reserved(p).preregistered /\ ~ Reserved(p).dirty
         /\ Reserved(p).current = {} /\ Reserved(p).future = {} /\ Reserved(p).stolen = {}
<1>1. Reserved(p) \in Entry /\ Reserved(p).pid = p /\ Reserved(p).preregistered = TRUE
  BY DEF Reserved, EmptySlot, Entry
<1>2. /\ Reserved(p).current = {} /\ Reserved(p).future = {} /\ Reserved(p).stolen = {}
      /\ Reserved(p).dirty = FALSE
  BY DEF Reserved, EmptySlot
<1>3. EntryOK(Reserved(p))
  BY <1>1, <1>2, ProcInfoAssumption DEF EntryOK
<1> QED BY <1>1, <1>2, <1>3

(* Reserving an empty slot changes nothing that is known. *)
LEMMA ReserveOK ==
  ASSUME NEW T \in Table, Sound(T, 0), NEW s \in Slot, T.info[s].pid = NOBODY, NEW p \in Pid,
         NEW U, U = Put(T, s, Reserved(p))
  PROVE  /\ U \in Table /\ Sound(U, 0) /\ U.mode = T.mode /\ U.num = T.num /\ U.free = T.free
         /\ U.info[s] = Reserved(p) /\ \A k \in Slot \ {s} : U.info[k] = T.info[k]
         /\ Held(U) = Held(T) \cup {s} /\ Known(U) = Known(T)
<1> DEFINE f == Reserved(p)
<1>0. /\ f \in Entry /\ EntryOK(f) /\ f.pid = p /\ f.current = {} /\ f.future = {} /\ f.stolen = {}
  BY ReservedFields
<1>a. U = Put(T, s, f)
  OBVIOUS
<1> HIDE DEF f
<1>1. /\ U \in Table /\ U.mode = T.mode /\ U.num = T.num /\ U.free = T.free
      /\ U.info = [T.info EXCEPT ![s] = f]
  BY <1>0, <1>a DEF Put, Table
<1>2. U.info[s] = f /\ \A k \in Slot \ {s} : U.info[k] = T.info[k]
  BY <1>1, TableFields
<1>3. Held(U) = Held(T) \cup {s} /\ s \notin Held(T) /\ Held(T) \subseteq Slot
  BY <1>0, <1>2, ProcInfoAssumption DEF Held
<1>4. \A k \in Slot : EntryOK(U.info[k])
  BY <1>0, <1>2 DEF Sound
<1>5. BeyondOK(U, 0) /\ NoneOK(U)
  BY <1>0, <1>1, <1>2, <1>3 DEF Sound, BeyondOK, NoneOK
<1>6. Disjoint(U)
  <2>1. \A k \in Held(U) : U.info[k].future = IF k = s THEN {} ELSE T.info[k].future
    BY <1>0, <1>2, <1>3
  <2> QED BY <2>1, <1>1, <1>3 DEF Sound, Disjoint
<1>7. Known(U) = Known(T)
  <2>1. ASSUME NEW c PROVE c \in Known(U) <=> c \in Known(T)
    BY <1>0, <1>1, <1>2, <1>3 DEF Known
  <2> QED BY <2>1
<1> QED BY <1>1, <1>2, <1>3, <1>4, <1>5, <1>6, <1>7 DEF Sound, f

(* U differs from T in that slot s, which was empty, is preregistered.     *)
(* Nothing is lost.                                                        *)
Preregisters(T, U, s) ==
  /\ U \in Table /\ Sound(U, 0) /\ U.mode = T.mode /\ T.num <= U.num /\ s <= U.num
  /\ Held(U) = Held(T) \cup {s}
  /\ T.mode # "shared" => Known(T) \subseteq Known(U)
  /\ \A k \in Slot \ {s} : /\ U.info[k].pid = T.info[k].pid
                           /\ U.info[k].preregistered = T.info[k].preregistered

(* Preregistering a process with CPUs that slot s already has. *)
LEMMA PreinitializedGrows ==
  ASSUME NEW T \in Table, NEW s \in Slot, T.info[s].pid = NOBODY, NEW p \in Pid,
         NEW V \in Table, V = Put(T, s, Reserved(p)), Held(V) = Held(T) \cup {s},
         V.num = T.num, V.mode = T.mode, \A k \in Slot \ {s} : V.info[k] = T.info[k],
         NEW W \in Table, Same(V, W), Sound(W, s), NEW mask \in SUBSET Cpu,
         W.mode # "shared" => W.info[s].future = mask /\ Known(T) \subseteq Known(W),
         W.info[s].stolen = {}, NEW U, U = Preinitialized(W, s, mask)
  PROVE  Preregisters(T, U, s)
<1>1. /\ Held(W) = Held(V) /\ W.mode = T.mode /\ W.num = T.num
      /\ \A k \in Slot \ {s} : /\ W.info[k].pid = T.info[k].pid
                               /\ W.info[k].preregistered = T.info[k].preregistered
  BY SameSlots, TableFields DEF Same
<1>2. /\ U \in Table /\ Grown(W, U, s) /\ Sound(U, 0)
      /\ W.mode # "shared" => Known(U) = Known(W)
  BY <1>1, PreinitializedOK
<1>3. Held(U) = Held(W)
  BY <1>2 DEF Grown, Held
<1>4. T.num \in Nat /\ s \in Nat
  BY TableFields, SlotNat
<1>5. T.num <= U.num /\ s <= U.num
  BY <1>1, <1>2, <1>4 DEF Grown
<1> QED BY <1>1, <1>2, <1>3, <1>5 DEF Preregisters, Grown

(* A table in which a slot is preregistered stays good. *)
LEMMA PreregistersOK ==
  ASSUME NEW T, NEW my, NEW in, NEW c \in Calls, Good(T, my, in, c),
         NEW s \in Slot, T.info[s].pid = NOBODY, NEW U, Preregisters(T, U, s),
         T.mode # "none" \/ (Admin \in Clients /\ c[Admin] = NoCall)
  PROVE  Good(U, my, in, c)
<1>0. T \in Table /\ U \in Table /\ Rooted(T, my, in)
  BY DEF Good, Preregisters
<1>1. Rooted(U, my, in)
  BY <1>0, RootedGrows DEF Preregisters
<1>2. CASE T.mode # "none"
  BY <1>0, <1>1, <1>2, GoodGrows DEF Preregisters
<1>3. CASE Admin \in Clients /\ c[Admin] = NoCall
  <2>1. c[Admin] = NoCall /\ c = [c EXCEPT ![Admin] = NoCall] /\ NoCall \notin Wait
    BY <1>3 DEF Calls, NoCall, Wait
  <2> QED BY <2>1, <1>0, <1>1, <1>3, GoodCall DEF Preregisters, Pending
<1> QED BY <1>2, <1>3

Unreserved(T, s) == [T EXCEPT !.info[s].pid = NOBODY]

(* An attempt to preregister that is refused leaves the slot empty. *)
LEMMA UnreserveOK ==
  ASSUME NEW T, NEW my, NEW in, NEW c \in Calls, Good(T, my, in, c),
         NEW s \in Slot, T.info[s].pid = NOBODY, NEW p \in Pid,
         NEW U, U = Unreserved(Put(T, s, Reserved(p)), s)
  PROVE  Good(U, my, in, c)
<1> DEFINE f == [Reserved(p) EXCEPT !.pid = NOBODY]
           V == Put(T, s, Reserved(p))
<1>0. T \in Table /\ Sound(T, 0) /\ Rooted(T, my, in)
  BY DEF Good
<1>1. /\ V \in Table /\ Sound(V, 0) /\ V.mode = T.mode /\ V.num = T.num
      /\ V.info[s] = Reserved(p) /\ \A k \in Slot \ {s} : V.info[k] = T.info[k]
      /\ Held(V) = Held(T) \cup {s} /\ Known(V) = Known(T)
  BY <1>0, ReserveOK
<1>2. f \in Entry /\ f.pid = NOBODY /\ EntryOK(f)
  <2>1. /\ f \in Entry /\ f.pid = NOBODY /\ f.dirty = FALSE /\ f.current = {} /\ f.future = {}
        /\ f.stolen = {}
    BY DEF Reserved, EmptySlot, Entry
  <2> QED BY <2>1 DEF EntryOK
<1> HIDE DEF V
<1>3. U = Put(V, s, f)
  BY <1>1, TableFields DEF V, Put, Unreserved, Table, Entry
<1> HIDE DEF f
<1>4. Sound(V, s) /\ V.info[s].future = {}
  BY <1>1, SoundSave, ReservedFields
<1>5. /\ U \in Table /\ Sound(U, 0) /\ U.mode = V.mode /\ U.num = V.num
      /\ V.mode # "shared" => Known(U) = Known(V)
      /\ U.info[s] = f /\ \A k \in Slot \ {s} : U.info[k] = V.info[k]
      /\ Held(U) = Held(V) \ {s}
  BY <1>1, <1>2, <1>3, <1>4, VacateOK
<1>6. T.num <= U.num
  BY <1>0, <1>1, <1>5, TableFields
<1>7. /\ U.mode = T.mode /\ Held(U) \subseteq Held(T)
      /\ T.mode # "shared" => Known(T) \subseteq Known(U)
      /\ \A k \in Slot \ {s} : U.info[k] = T.info[k]
  BY <1>1, <1>5
<1>8. Rooted(U, my, in)
  <2>1. \A k \in Slot : T.info[k].pid # NOBODY => U.info[k] = T.info[k]
    BY <1>7
  <2> QED BY <2>1, <1>0, <1>5, <1>6, <1>7, RootedGrows
<1>9. /\ \A k \in Held(U) : k \in Held(T) \/ k <= U.num
      /\ \A q \in Pid : in[q] = "in" => in[q] = "in"
  BY <1>7
<1> QED BY <1>5, <1>6, <1>7, <1>8, <1>9, GoodGrows

(* One that finds its CPUs free, or may share them, gets them. *)
LEMMA PreregisterFree ==
  ASSUME NEW T \in Table, Sound(T, 0), NEW s \in Slot, T.info[s].pid = NOBODY, NEW p \in Pid,
         NEW mask \in SUBSET Cpu, NEW V, V = Put(T, s, Reserved(p)), CanRegister(V, mask),
         NEW U, U = Preinitialized(register_mask(V, s, mask), s, mask)
  PROVE  Preregisters(T, U, s)
<1> DEFINE W == register_mask(V, s, mask)
<1>1. /\ V \in Table /\ Sound(V, 0) /\ V.mode = T.mode /\ V.num = T.num
      /\ V.info[s] = Reserved(p) /\ \A k \in Slot \ {s} : V.info[k] = T.info[k]
      /\ Held(V) = Held(T) \cup {s} /\ Known(V) = Known(T)
  BY ReserveOK
<1>2. V.info[s].future = {} /\ V.info[s].stolen = {} /\ Sound(V, s) /\ s \in Held(V)
  BY <1>1, ReservedFields, SoundSave
<1>3. /\ W \in Table /\ Same(V, W) /\ Sound(W, s)
      /\ V.mode # "shared" => Known(W) = Known(V)
      /\ V.mode # "shared" => W.info[s].future = V.info[s].future \cup mask
      /\ W.info[s].stolen \subseteq V.info[s].stolen
  <2>1. W = register_mask(V, s, mask)
    OBVIOUS
  <2> HIDE DEF W
  <2>2. V \in Table /\ s \in Held(V) /\ Sound(V, s) /\ CanRegister(V, mask)
    BY <1>1, <1>2
  <2> HIDE DEF W
  <2> QED BY <2>1, <2>2, RegisterOK
<1> HIDE DEF W
<1>4. W.mode = V.mode
  BY <1>3 DEF Same
<1>5. /\ W.mode # "shared" => W.info[s].future = mask /\ Known(T) \subseteq Known(W)
      /\ W.info[s].stolen = {}
  BY <1>1, <1>2, <1>3, <1>4
<1>6. U = Preinitialized(W, s, mask)
  BY DEF W
<1> QED BY <1>1, <1>3, <1>5, <1>6, PreinitializedGrows

(* DLB_PreInit leaves the table good. *)
LEMMA PreInitSelfOK ==
  ASSUME Safe, NEW p \in Pid, PreInitSelf(p)
  PROVE  Safe'
<1>1. PICK mask \in StartMasks :
       LET T == open_shmem(p)
           U == IF T.mode = "none"
                THEN [T EXCEPT !.mode = "unknown", !.free = Cpu, !.num = 0] ELSE T
           found == {s \in Slot : U.info[s].pid \in {NOBODY, p}}
           s == Min(found)
           V == [U EXCEPT !.info[s] = [EmptySlot EXCEPT !.pid = p, !.preregistered = TRUE]]
       IN  shm' = close_shmem(
             IF found = {} \/ U.info[s].pid = p THEN U
             ELSE IF CanRegister(V, mask)
             THEN Preinitialized(register_mask(V, s, mask), s, mask)
             ELSE [V EXCEPT !.info[s].pid = NOBODY], p)
  BY DEF PreInitSelf
<1> DEFINE T == open_shmem(p)
           U == IF T.mode = "none" THEN Started(T, "unknown") ELSE T
           found == {s \in Slot : U.info[s].pid \in {NOBODY, p}}
           s == Min(found)
           V == Put(U, s, Reserved(p))
           W == IF found = {} \/ U.info[s].pid = p THEN U
                ELSE IF CanRegister(V, mask) THEN Preinitialized(register_mask(V, s, mask), s, mask)
                ELSE Unreserved(V, s)
<1>2. shm' = close_shmem(W, p)
  BY <1>1, Zenon DEF Started, Put, Reserved, Unreserved
<1>3. my_pinfo' = my_pinfo /\ up' = up /\ call' = call
  BY DEF PreInitSelf
<1>4. call \in Calls /\ mask \in SUBSET Cpu
  BY ProcInfoAssumption DEF Safe, Typed, Calls
<1>5. Good(T, my_pinfo, up, call)
  BY OpenOK DEF Safe
<1> HIDE DEF T
<1>6. Good(U, my_pinfo, up, call) /\ U.mode # "none"
  <2>1. CASE T.mode = "none"
    <3>1. "unknown" \in Mode \ {"none"}
      BY DEF Mode
    <3> QED BY <2>1, <3>1, <1>4, <1>5, StartOK
  <2>2. CASE T.mode # "none"
    BY <2>2, <1>5
  <2> QED BY <2>1, <2>2
<1> HIDE DEF U
<1>7. Good(W, my_pinfo, up, call)
  <2>1. CASE found = {} \/ U.info[s].pid = p
    <3>1. W = U
      BY <2>1
    <3> QED BY <3>1, <1>6
  <2>2. CASE ~ (found = {} \/ U.info[s].pid = p)
    <3>1. found \in SUBSET Nat
      BY SlotNat
    <3>2. s \in found
      BY <2>2, <3>1, MinIsIn
    <3>3. s \in Slot /\ U.info[s].pid = NOBODY
      BY <3>2, <2>2
    <3>4. CASE CanRegister(V, mask)
      <4>1. W = Preinitialized(register_mask(V, s, mask), s, mask)
        <5> HIDE DEF V, s, found
        <5> QED BY <2>2, <3>4
      <4> HIDE DEF s, found, W
      <4>2. Preregisters(U, W, s)
        BY <4>1, <3>3, <3>4, <1>4, <1>6, PreregisterFree DEF Good
      <4> QED BY <4>2, <3>3, <1>4, <1>6, PreregistersOK
    <3>5. CASE ~ CanRegister(V, mask)
      <4>1. W = Unreserved(V, s)
        <5> HIDE DEF V, s, found
        <5> QED BY <2>2, <3>5
      <4> HIDE DEF s, found, W
      <4> QED BY <4>1, <3>3, <1>4, <1>6, UnreserveOK
    <3> QED BY <3>4, <3>5
  <2> QED BY <2>1, <2>2
<1> HIDE DEF W
<1>8. Good(shm', my_pinfo, up, call)
  BY <1>2, <1>4, <1>7, CloseOK
<1> QED BY <1>3, <1>8 DEF Safe, Typed

(* What set_new_mask decides to do with each CPU. *)
LEMMA SplitFields ==
  ASSUME NEW T \in Table, NEW s \in Slot, NEW mask \in SUBSET Cpu, NEW w, w = Split(T, s, mask)
  PROVE  /\ w \in Work /\ w.acquire = mask \cap T.free
         /\ w.steal = mask \ (T.free \cup T.info[s].current)
         /\ w.free = T.info[s].current \ mask
<1>1. T.free \in SUBSET Cpu /\ T.info[s].current \in SUBSET Cpu
  BY TableFields
<1> QED BY <1>1 DEF Split, Work

(* The whole of set_new_mask, up to and after the steal: w is what it      *)
(* decided, V the table with the CPUs stolen and U the one at the end.     *)
Moved(T, s, w, V, U) ==
  /\ w \in Work /\ V \in Table /\ Same(T, V) /\ Sound(V, 0) /\ V.info[s] = T.info[s]
  /\ Known(T) \subseteq Known(V) \cup w.steal
  /\ T.mode = "none" => w.steal = {}
  /\ U \in Table /\ Same(T, U) /\ Sound(U, s) /\ Known(T) \subseteq Known(U)
  /\ U.info[s].future = (T.info[s].future \cup w.steal \cup w.acquire) \ w.free
  /\ T.info[s].stolen = {} => U.info[s].stolen = {}

(* set_new_mask loses no CPU, whatever it steals, acquires and frees. *)
LEMMA SetNewMaskOK ==
  ASSUME NEW T \in Table, Sound(T, 0), T.mode # "shared", NEW s \in Held(T), ~ T.info[s].dirty,
         NEW mask \in SUBSET Cpu, NEW w, w = Split(T, s, mask), CanSteal(T, s, w.steal),
         NEW V, V = TakeFromVictims(T, s, w.steal), NEW r, NEW U, U = Rearrange(V, s, w, r)
  PROVE  Moved(T, s, w, V, U)
<1>0. s \in Slot
  BY DEF Held
<1>1. /\ w \in Work /\ w.acquire = mask \cap T.free
      /\ w.free = T.info[s].current \ mask
  BY <1>0, SplitFields
<1>2. w.steal \in SUBSET Cpu /\ w.acquire \in SUBSET Cpu
  BY <1>1 DEF Work
<1>3. /\ V \in Table /\ Same(T, V) /\ Sound(V, 0)
      /\ w.steal \cap Known(V) = {} /\ Known(T) \subseteq Known(V) \cup w.steal
      /\ T.mode = "none" => w.steal = {}
      /\ V.free = T.free /\ V.info[s] = T.info[s]
  BY <1>0, <1>2, TakeOK
<1>4. s \in Held(V) /\ Sound(V, s) /\ V.mode = T.mode
  BY <1>3, SameSlots, SoundSave, TableFields DEF Same
<1>5. CanRegister(V, w.acquire)
  BY <1>1, <1>3 DEF CanRegister
<1>6. w.free \subseteq V.info[s].future
  BY <1>0, <1>1, <1>3 DEF Sound, EntryOK
<1>7. /\ U \in Table /\ Same(V, U) /\ Sound(U, s) /\ Known(U) = Known(V) \cup w.steal
      /\ U.info[s].future = (V.info[s].future \cup w.steal \cup w.acquire) \ w.free
      /\ V.info[s].stolen = {} => U.info[s].stolen = {}
  <2>1. /\ V \in Table /\ s \in Held(V) /\ Sound(V, s) /\ w \in Work
        /\ V.mode # "shared" => w.steal \cap Known(V) = {}
        /\ V.mode = "none" => w.steal = {}
        /\ CanRegister(V, w.acquire) /\ w.free \subseteq V.info[s].future
    BY <1>1, <1>3, <1>4, <1>5, <1>6
  <2>2. V.mode # "shared"
    BY <1>4
  <2> QED BY <2>1, <2>2, RearrangeOK
<1>8. Same(T, U)
  BY <1>3, <1>7, SameTrans
<1> QED BY <1>1, <1>3, <1>7, <1>8 DEF Moved

(* A process that sets its own mask. *)
LEMMA SetOwnMaskOK ==
  ASSUME Safe, NEW p \in Pid, SetOwnMask(p), ~ broken'
  PROVE  Safe'
<1> DEFINE s == my_pinfo[p]
<1>1. PICK mask \in ArgMasks, return_stolen \in ReturnStolen, no_sync \in BOOLEAN :
        LET w == Split(shm, s, mask)
            T == Rearrange(TakeFromVictims(shm, s, w.steal), s, w, return_stolen)
        IN  /\ up[p] = "in"
            /\ ~ Shared(shm) /\ CanSteal(shm, s, w.steal)
            /\ shm' = IF no_sync THEN T ELSE Settle(T, s)
            /\ broken' = (broken \/ shm.info[s].dirty)
            /\ UNCHANGED <<my_pinfo, up, call>>
  BY Zenon DEF SetOwnMask
<1> DEFINE w == Split(shm, s, mask)
           V == TakeFromVictims(shm, s, w.steal)
           U == Rearrange(V, s, w, return_stolen)
<1>2. call \in Calls /\ shm \in Table /\ Sound(shm, 0) /\ mask \in SUBSET Cpu
  BY ProcInfoAssumption DEF Safe, Typed, Calls, Good
<1>3. /\ up[p] = "in" /\ ~ shm.info[s].dirty /\ shm.mode # "shared"
      /\ my_pinfo' = my_pinfo /\ up' = up /\ call' = call
  BY <1>1 DEF Shared
<1>4. CanSteal(shm, s, w.steal) /\ shm' = IF no_sync THEN U ELSE Settle(U, s)
  BY <1>1
<1>5. At(shm, s, p)
  BY <1>3 DEF Safe, Good, Rooted
<1> HIDE DEF s
<1>6. s \in Held(shm) /\ s \in Slot /\ s <= shm.num /\ ~ shm.info[s].preregistered
  BY <1>2, <1>5, TableFields, ProcInfoAssumption DEF At, Held, Slot
<1>7. Moved(shm, s, w, V, U)
  <2>1. w = Split(shm, s, mask) /\ V = TakeFromVictims(shm, s, w.steal)
    OBVIOUS
  <2>2. U = Rearrange(V, s, w, return_stolen)
    OBVIOUS
  <2> HIDE DEF U, V, w
  <2> QED BY <2>1, <2>2, <1>2, <1>3, <1>4, <1>6, SetNewMaskOK
<1> HIDE DEF U, V, w
<1>8. U \in Table /\ Same(shm, U) /\ Sound(U, 0) /\ Known(shm) \subseteq Known(U)
  <2>1. U.num = shm.num /\ shm.num \in Nat /\ s \in Nat
    BY <1>2, <1>6, <1>7, TableFields, SlotNat DEF Moved, Same
  <2>2. ~ (s > U.num)
    BY <2>1, <1>6
  <2> QED BY <2>2, <1>7, SoundReached DEF Moved
<1>9. CASE no_sync
  BY <1>2, <1>3, <1>4, <1>8, <1>9, SameGood DEF Safe, Typed
<1>10. CASE ~ no_sync
  <2>1. ~ U.info[s].preregistered
    BY <1>6, <1>8 DEF Same
  <2>2. shm' = Settle(U, s)
    BY <1>4, <1>10
  <2>3. shm' \in Table /\ Same(U, shm') /\ Sound(shm', 0) /\ Known(shm') = Known(U)
    BY <2>1, <2>2, <1>6, <1>8, SettleOK
  <2>4. Same(shm, shm')
    BY <2>3, <1>8, SameTrans
  <2>5. Known(shm) \subseteq Known(shm')
    BY <2>3, <1>8
  <2> QED BY <2>3, <2>4, <2>5, <1>2, <1>3, SameGood DEF Safe, Typed
<1> QED BY <1>9, <1>10

(* A call that starts to wait knows what it was started with. *)
LEMMA WaitingOK ==
  ASSUME NEW T \in Table, NEW s \in Slot, NEW mask \in SUBSET Cpu, NEW w, w = Split(T, s, mask),
         T.info[s].pid # NOBODY, ~ T.info[s].dirty, EntryOK(T.info[s]),
         NEW r \in BOOLEAN, NEW x, NEW preinit \in BOOLEAN,
         preinit => /\ x = Admin /\ T.info[s].preregistered
                    /\ T.info[s].current = {} /\ T.info[s].stolen = {},
         NEW k, k = Waiting(s, T.info[s], mask, w, r, preinit)
  PROVE  /\ k \in Wait /\ StartedOK(x, k) /\ k.slot = s /\ k.preinit = preinit
         /\ Pending(k) = w.steal
<1> DEFINE e == T.info[s]
<1>1. /\ w \in Work /\ w.acquire = mask \cap T.free
      /\ w.steal = mask \ (T.free \cup e.current)
      /\ w.free = e.current \ mask
  BY SplitFields
<1>2. e \in Entry
  BY TableFields
<1>3. k = Waiting(s, e, mask, w, r, preinit) /\ e.pid # NOBODY /\ ~ e.dirty /\ EntryOK(e)
  OBVIOUS
<1>4. preinit => x = Admin /\ e.preregistered /\ e.current = {} /\ e.stolen = {}
  OBVIOUS
<1> HIDE DEF e
<1>5. /\ k \in Wait /\ k.slot = s /\ k.was = e /\ k.mask = mask /\ k.work = w /\ k.preinit = preinit
  BY <1>1, <1>2, <1>3 DEF Waiting, Wait
<1>6. w.steal \cap e.current = {} /\ w.free \subseteq e.current
  BY <1>1
<1>7. preinit => mask = w.acquire \cup w.steal
  BY <1>1, <1>4
<1>8. StartedOK(x, k)
  BY <1>3, <1>4, <1>5, <1>6, <1>7 DEF StartedOK
<1> QED BY <1>5, <1>8 DEF Pending

(* A client sets the mask of another process, at once or after a wait. *)
LEMMA SetProcessMaskOK ==
  ASSUME Safe, NEW x \in Clients, NEW p \in Pid, SetProcessMask(x, p)
  PROVE  Safe'
<1> DEFINE s == get_process(shm, Mine(x), p)
<1>1. PICK mask \in ArgMasks, sync \in Sync, return_stolen \in ReturnStolen :
        LET w == Split(shm, s, mask)
            T == TakeFromVictims(shm, s, w.steal)
            wait == Waiting(s, shm.info[s], mask, w, return_stolen, FALSE)
        IN  /\ Caller(x) /\ x # p
            /\ s # 0 /\ ~ shm.info[s].dirty
            /\ ~ Shared(shm) /\ CanSteal(shm, s, w.steal)
            /\ IF sync /\ w.steal # {}
               THEN shm' = T /\ call' = [call EXCEPT ![x] = wait]
               ELSE /\ shm' = Rearrange(T, s, w, return_stolen)
                    /\ call' = IF sync THEN [call EXCEPT ![x] = Adopting]
                               ELSE call
            /\ UNCHANGED <<my_pinfo, up, broken>>
  BY Zenon DEF SetProcessMask
<1> DEFINE w == Split(shm, s, mask)
           V == TakeFromVictims(shm, s, w.steal)
           U == Rearrange(V, s, w, return_stolen)
           wait == Waiting(s, shm.info[s], mask, w, return_stolen, FALSE)
<1>2. /\ call \in Calls /\ shm \in Table /\ Sound(shm, 0) /\ mask \in SUBSET Cpu
      /\ return_stolen \in BOOLEAN
  BY ProcInfoAssumption DEF Safe, Typed, Calls, Good
<1>3. /\ call[x] = NoCall /\ (x = Admin \/ up[x] = "in") /\ s # 0 /\ ~ shm.info[s].dirty
      /\ shm.mode # "shared" /\ my_pinfo' = my_pinfo /\ up' = up
  BY <1>1 DEF Shared, Caller
<1>4. /\ CanSteal(shm, s, w.steal)
      /\ IF sync /\ w.steal # {}
         THEN shm' = V /\ call' = [call EXCEPT ![x] = wait]
         ELSE /\ shm' = U
              /\ call' = IF sync THEN [call EXCEPT ![x] = Adopting] ELSE call
  BY <1>1, Zenon
<1>5. Mine(x) \in 0..MaxProcesses /\ (Mine(x) # 0 => Mine(x) <= shm.num)
  <2>1. CASE x = Admin
    BY <2>1, ProcInfoAssumption DEF Mine
  <2>2. CASE x # Admin
    <3>1. x \in Pid /\ Mine(x) = my_pinfo[x]
      BY <2>2, ProcInfoAssumption DEF Mine
    <3>2. At(shm, my_pinfo[x], x)
      BY <2>2, <3>1, <1>3 DEF Safe, Good, Rooted
    <3> QED BY <3>1, <3>2, <1>2, TableFields DEF At, Safe, Typed
  <2> QED BY <2>1, <2>2
<1>6. s \in Slot /\ shm.info[s].pid # NOBODY /\ s <= shm.num
  <2>1. s \in Slot /\ shm.info[s].pid # NOBODY /\ (s = Mine(x) \/ s <= shm.num)
    BY <1>2, <1>3, <1>5, GetProcess
  <2> HIDE DEF s
  <2> QED BY <2>1, <1>3, <1>5
<1> HIDE DEF s
<1>7. s \in Held(shm) /\ EntryOK(shm.info[s])
  BY <1>2, <1>6 DEF Held, Sound
<1>a. w = Split(shm, s, mask) /\ V = TakeFromVictims(shm, s, w.steal)
  OBVIOUS
<1>b. U = Rearrange(V, s, w, return_stolen) /\ wait = Waiting(s, shm.info[s], mask, w, return_stolen, FALSE)
  OBVIOUS
<1> HIDE DEF U, V, w, wait
<1>8. Moved(shm, s, w, V, U)
  BY <1>a, <1>b, <1>2, <1>3, <1>4, <1>7, SetNewMaskOK
<1>9. Pending(call[x]) = {} /\ Pending(Adopting) = {} /\ Pending(NoCall) = {}
  <2>1. NoCall \notin Wait /\ Adopting \notin Wait
    BY DEF Wait, NoCall, Adopting
  <2> QED BY <2>1, <1>3 DEF Pending
<1>10. CASE sync /\ w.steal # {}
  <2>1. shm' = V /\ call' = [call EXCEPT ![x] = wait]
    BY <1>4, <1>10
  <2>2. /\ wait \in Wait /\ StartedOK(x, wait) /\ wait.slot = s /\ Pending(wait) = w.steal
    <3> DEFINE b == FALSE
    <3>1. /\ b \in BOOLEAN /\ wait = Waiting(s, shm.info[s], mask, w, return_stolen, b)
          /\ b => /\ x = Admin /\ shm.info[s].preregistered
                  /\ shm.info[s].current = {} /\ shm.info[s].stolen = {}
      BY <1>b
    <3> HIDE DEF b
    <3> QED BY <3>1, <1>a, <1>2, <1>3, <1>6, <1>7, WaitingOK
  <2>3. /\ V \in Table /\ Sound(V, 0) /\ V.mode = shm.mode /\ V.num = shm.num /\ Held(V) = Held(shm)
        /\ Rooted(V, my_pinfo, up) /\ V.mode # "none"
    BY <1>2, <1>8, <1>10, SameSlots, SameRooted, TableFields DEF Moved, Same, Safe, Good
  <2>4. TargetOK(V, x, wait) /\ shm.num <= V.num
    BY <2>2, <2>3, <1>2, <1>6, TableFields DEF TargetOK
  <2>5. Known(shm) \cup Pending(call[x]) \subseteq Known(V) \cup Pending(wait)
    BY <1>8, <1>9, <2>2 DEF Moved
  <2>6. call' \in Calls /\ Good(V, my_pinfo, up, call')
    BY <2>1, <2>2, <2>3, <2>4, <2>5, <1>2, <1>3, GoodCall DEF Safe
  <2> QED BY <2>1, <2>6, <1>3 DEF Safe, Typed, Calls
<1>11. CASE ~ (sync /\ w.steal # {})
  <2>1. shm' = U /\ call' \in {call, [call EXCEPT ![x] = Adopting]}
    BY <1>4, <1>11
  <2>2. U.num = shm.num /\ shm.num \in Nat /\ s \in Nat
    BY <1>2, <1>6, <1>8, TableFields, SlotNat DEF Moved, Same
  <2>3. ~ (s > U.num) /\ shm.num <= U.num
    BY <2>2, <1>6
  <2>4. U \in Table /\ Same(shm, U) /\ Sound(U, 0) /\ Known(shm) \subseteq Known(U)
    BY <2>3, <1>8, SoundReached DEF Moved
  <2>5. U.mode = shm.mode /\ Held(U) = Held(shm) /\ Rooted(U, my_pinfo, up)
    BY <2>4, <1>2, SameSlots, SameRooted, TableFields DEF Same, Safe, Good
  <2>6. CASE call' = call
    <3>1. Good(U, my_pinfo, up, call)
      BY <2>4, <1>2, SameGood DEF Safe
    <3> QED BY <3>1, <2>1, <2>6, <1>3 DEF Safe, Typed
  <2>7. CASE call' = [call EXCEPT ![x] = Adopting]
    <3>1. Adopting \in {NoCall, Adopting} \cup Wait /\ Adopting \notin Wait
      BY DEF Wait, Adopting
    <3>2. Known(shm) \cup Pending(call[x]) \subseteq Known(U) \cup Pending(Adopting)
      BY <1>9, <2>4
    <3>3. call' \in Calls /\ Good(U, my_pinfo, up, call')
      BY <2>3, <2>4, <2>5, <2>7, <3>1, <3>2, <1>2, <1>3, GoodCall DEF Safe
    <3> QED BY <2>1, <3>3, <1>3 DEF Safe, Typed, Calls
  <2> QED BY <2>1, <2>6, <2>7
<1> QED BY <1>10, <1>11

(* PreInit that finds or steals its CPUs without waiting. *)
LEMMA PreregisterSteal ==
  ASSUME NEW T \in Table, Sound(T, 0), NEW s \in Slot, T.info[s].pid = NOBODY, NEW p \in Pid,
         NEW mask \in SUBSET Cpu, NEW V, V = Put(T, s, Reserved(p)), V.mode # "shared",
         NEW w, w = Split(V, s, mask), NEW W, NEW X, Moved(V, s, w, W, X),
         NEW U, U = Preinitialized(X, s, mask)
  PROVE  Preregisters(T, U, s)
<1>1. /\ V \in Table /\ V.mode = T.mode /\ V.num = T.num
      /\ V.info[s] = Reserved(p) /\ \A k \in Slot \ {s} : V.info[k] = T.info[k]
      /\ Held(V) = Held(T) \cup {s} /\ Known(V) = Known(T)
  BY ReserveOK
<1>2. V.info[s].current = {} /\ V.info[s].future = {} /\ V.info[s].stolen = {}
  BY <1>1, ReservedFields
<1>3. /\ w.acquire = mask \cap V.free
      /\ w.steal = mask \ (V.free \cup V.info[s].current)
      /\ w.free = V.info[s].current \ mask
  BY <1>1, SplitFields
<1>4. /\ X \in Table /\ Same(V, X) /\ Sound(X, s) /\ Known(V) \subseteq Known(X)
      /\ X.info[s].future = (V.info[s].future \cup w.steal \cup w.acquire) \ w.free
      /\ X.info[s].stolen = {}
  BY <1>2 DEF Moved
<1>5. X.info[s].future = mask
  BY <1>2, <1>3, <1>4
<1>6. Known(T) \subseteq Known(X)
  BY <1>1, <1>4
<1> QED BY <1>1, <1>4, <1>5, <1>6, PreinitializedGrows

(* DLB_DROM_PreInit. *)
LEMMA PreInitOK ==
  ASSUME Safe, NEW p \in Pid, PreInit(p)
  PROVE  Safe'
<1> DEFINE found == {s \in Slot : shm.info[s].pid \in {NOBODY, p}}
           s == Min(found)
           T == Put(shm, s, Reserved(p))
           failed == Unreserved(T, s)
           w(mask) == Split(T, s, mask)
           V(mask) == TakeFromVictims(T, s, w(mask).steal)
           U(mask, r) == Rearrange(V(mask), s, w(mask), r)
           wait(mask, r) == Waiting(s, T.info[s], mask, w(mask), r, TRUE)
<1>1. PICK mask \in ArgMasks, steal \in BOOLEAN, sync \in Sync, return_stolen \in ReturnStolen :
        /\ Attached /\ found # {} /\ shm.info[s].pid = NOBODY
        /\ \/ /\ ~ steal
              /\ shm' = IF CanRegister(T, mask)
                        THEN Preinitialized(register_mask(T, s, mask), s, mask) ELSE failed
              /\ UNCHANGED call
           \/ /\ steal /\ (Shared(T) \/ ~ CanSteal(T, s, w(mask).steal))
              /\ shm' = failed
              /\ UNCHANGED call
           \/ /\ steal /\ ~ Shared(T) /\ CanSteal(T, s, w(mask).steal)
              /\ shm' = Preinitialized(U(mask, return_stolen), s, mask)
              /\ UNCHANGED call
           \/ /\ w(mask).steal # {} /\ ~ Shared(T) /\ CanSteal(T, s, w(mask).steal)
              /\ shm' = V(mask)
              /\ call' = [call EXCEPT ![Admin] = wait(mask, return_stolen)]
        /\ UNCHANGED <<my_pinfo, up, broken>>
  <2>1. PICK mask \in ArgMasks, steal \in BOOLEAN, sync \in Sync, return_stolen \in ReturnStolen :
          LET TT == [shm EXCEPT !.info[s] = [EmptySlot EXCEPT !.pid = p, !.preregistered = TRUE]]
              ww == Split(TT, s, mask)
              nothing == [TT EXCEPT !.info[s].pid = NOBODY]
              waits == steal /\ sync /\ ww.steal # {}
          IN  /\ Attached /\ up[p] = "out" /\ found # {} /\ shm.info[s].pid = NOBODY
              /\ (sync => steal) /\ (return_stolen => steal)
              /\ \/ /\ ~ steal
                    /\ shm' = IF CanRegister(TT, mask)
                              THEN Preinitialized(register_mask(TT, s, mask), s, mask) ELSE nothing
                    /\ UNCHANGED call
                 \/ /\ steal /\ (Shared(TT) \/ ~ CanSteal(TT, s, ww.steal))
                    /\ shm' = nothing
                    /\ UNCHANGED call
                 \/ /\ steal /\ ~ Shared(TT) /\ CanSteal(TT, s, ww.steal) /\ ~ waits
                    /\ shm' = Preinitialized(
                                Rearrange(TakeFromVictims(TT, s, ww.steal), s, ww, return_stolen), s, mask)
                    /\ UNCHANGED call
                 \/ /\ waits /\ ~ Shared(TT) /\ CanSteal(TT, s, ww.steal)
                    /\ shm' = TakeFromVictims(TT, s, ww.steal)
                    /\ call' = [call EXCEPT ![Admin] = Waiting(s, TT.info[s], mask, ww, return_stolen, TRUE)]
              /\ UNCHANGED <<my_pinfo, up, broken>>
    BY Zenon DEF PreInit
  <2>2. /\ [shm EXCEPT !.info[s] = [EmptySlot EXCEPT !.pid = p, !.preregistered = TRUE]] = T
        /\ [T EXCEPT !.info[s].pid = NOBODY] = failed
    BY Zenon DEF Put, Reserved, Unreserved
  <2> HIDE DEF T, failed, found, s
  <2>3. /\ Attached /\ found # {} /\ shm.info[s].pid = NOBODY
        /\ UNCHANGED <<my_pinfo, up, broken>>
    BY <2>1
  <2>4. \/ /\ ~ steal
           /\ shm' = IF CanRegister(T, mask)
                     THEN Preinitialized(register_mask(T, s, mask), s, mask) ELSE failed
           /\ UNCHANGED call
        \/ /\ steal /\ (Shared(T) \/ ~ CanSteal(T, s, w(mask).steal))
           /\ shm' = failed
           /\ UNCHANGED call
        \/ /\ steal /\ ~ Shared(T) /\ CanSteal(T, s, w(mask).steal)
           /\ shm' = Preinitialized(U(mask, return_stolen), s, mask)
           /\ UNCHANGED call
        \/ /\ w(mask).steal # {} /\ ~ Shared(T) /\ CanSteal(T, s, w(mask).steal)
           /\ shm' = V(mask)
           /\ call' = [call EXCEPT ![Admin] = wait(mask, return_stolen)]
    BY <2>1, <2>2, Zenon
  <2> HIDE DEF w, V, U, wait
  <2> QED BY <2>3, <2>4, Zenon
<1>2. /\ call \in Calls /\ shm \in Table /\ Sound(shm, 0) /\ mask \in SUBSET Cpu
      /\ return_stolen \in BOOLEAN
  BY ProcInfoAssumption DEF Safe, Typed, Calls, Good
<1>3. Admin \in Clients /\ call[Admin] = NoCall /\ my_pinfo' = my_pinfo /\ up' = up
  BY <1>1 DEF Attached, AdminIdle
<1>4. s \in Slot /\ shm.info[s].pid = NOBODY
  <2>1. found \in SUBSET Nat /\ found # {}
    BY <1>1, SlotNat
  <2>2. s \in found
    BY <2>1, MinIsIn
  <2> QED BY <2>2, <1>1
<1> HIDE DEF found, s
<1>5. /\ T \in Table /\ Sound(T, 0) /\ T.mode = shm.mode /\ T.num = shm.num /\ T.free = shm.free
      /\ T.info[s] = Reserved(p) /\ \A k \in Slot \ {s} : T.info[k] = shm.info[k]
      /\ Held(T) = Held(shm) \cup {s} /\ Known(T) = Known(shm)
  BY <1>2, <1>4, ReserveOK
<1>6. /\ T.info[s].pid # NOBODY /\ ~ T.info[s].dirty /\ T.info[s].preregistered
      /\ T.info[s].current = {} /\ T.info[s].stolen = {} /\ EntryOK(T.info[s]) /\ s \in Held(T)
  BY <1>5, ReservedFields, ProcInfoAssumption
<1>7. Good(failed, my_pinfo, up, call)
  <2>1. failed = Unreserved(Put(shm, s, Reserved(p)), s)
    OBVIOUS
  <2> HIDE DEF failed
  <2> QED BY <2>1, <1>2, <1>4, UnreserveOK DEF Safe
<1>8. ASSUME NEW X, Preregisters(shm, X, s) PROVE Good(X, my_pinfo, up, call)
  BY <1>8, <1>2, <1>3, <1>4, PreregistersOK DEF Safe
<1>a. T = Put(shm, s, Reserved(p)) /\ w(mask) = Split(T, s, mask)
  OBVIOUS
<1>b. /\ V(mask) = TakeFromVictims(T, s, w(mask).steal)
      /\ U(mask, return_stolen) = Rearrange(V(mask), s, w(mask), return_stolen)
      /\ wait(mask, return_stolen) = Waiting(s, T.info[s], mask, w(mask), return_stolen, TRUE)
  BY Zenon
<1> HIDE DEF failed, w, V, U, wait, T
<1>c. ASSUME Good(shm', my_pinfo, up, call), call' = call PROVE Safe'
  BY <1>c, <1>3 DEF Safe, Typed
<1>9. CASE shm' = failed /\ call' = call
  BY <1>7, <1>9, <1>c
<1>10. CASE /\ CanRegister(T, mask) /\ call' = call
            /\ shm' = Preinitialized(register_mask(T, s, mask), s, mask)
  <2>1. Preregisters(shm, shm', s)
    BY <1>10, <1>a, <1>2, <1>4, PreregisterFree
  <2> QED BY <2>1, <1>8, <1>10, <1>c
<1>d. ASSUME T.mode # "shared", CanSteal(T, s, w(mask).steal)
      PROVE  Moved(T, s, w(mask), V(mask), U(mask, return_stolen))
  <2> DEFINE ww == w(mask)
             VV == V(mask)
             UU == U(mask, return_stolen)
  <2>1. /\ ww = Split(T, s, mask) /\ VV = TakeFromVictims(T, s, ww.steal)
        /\ UU = Rearrange(VV, s, ww, return_stolen) /\ CanSteal(T, s, ww.steal)
    BY <1>a, <1>b, <1>d
  <2> HIDE DEF ww, VV, UU
  <2>2. Moved(T, s, ww, VV, UU)
    BY <2>1, <1>d, <1>2, <1>5, <1>6, SetNewMaskOK
  <2> QED BY <2>2 DEF ww, VV, UU
<1>11. CASE /\ ~ Shared(T) /\ CanSteal(T, s, w(mask).steal) /\ call' = call
            /\ shm' = Preinitialized(U(mask, return_stolen), s, mask)
  <2>1. Moved(T, s, w(mask), V(mask), U(mask, return_stolen)) /\ T.mode # "shared"
    BY <1>11, <1>d DEF Shared
  <2>2. Preregisters(shm, shm', s)
    BY <2>1, <1>11, <1>a, <1>2, <1>4, PreregisterSteal
  <2> QED BY <2>2, <1>8, <1>11, <1>c
<1>12. CASE /\ w(mask).steal # {} /\ ~ Shared(T) /\ CanSteal(T, s, w(mask).steal)
            /\ shm' = V(mask)
            /\ call' = [call EXCEPT ![Admin] = wait(mask, return_stolen)]
  <2> DEFINE ww == w(mask)
             VV == V(mask)
             k == wait(mask, return_stolen)
             b == TRUE
  <2>1. Moved(T, s, ww, VV, U(mask, return_stolen)) /\ ww.steal # {} /\ T.mode # "shared"
    BY <1>12, <1>d DEF Shared
  <2>2. /\ b \in BOOLEAN /\ k = Waiting(s, T.info[s], mask, ww, return_stolen, b) /\ b
        /\ b => /\ Admin = Admin /\ T.info[s].preregistered
                /\ T.info[s].current = {} /\ T.info[s].stolen = {}
    BY <1>b, <1>6
  <2>a. ww = Split(T, s, mask)
    BY <1>a
  <2>b. shm' = VV /\ call' = [call EXCEPT ![Admin] = k]
    BY <1>12
  <2> HIDE DEF ww, VV, k, b
  <2>3. k \in Wait /\ StartedOK(Admin, k) /\ Pending(k) = ww.steal
    <3> DEFINE x == Admin
    <3>1. b => /\ x = Admin /\ T.info[s].preregistered
               /\ T.info[s].current = {} /\ T.info[s].stolen = {}
      BY <1>6
    <3>2. T \in Table /\ T.info[s].pid # NOBODY /\ ~ T.info[s].dirty /\ EntryOK(T.info[s])
      BY <1>5, <1>6
    <3>3. k = Waiting(s, T.info[s], mask, ww, return_stolen, b) /\ b \in BOOLEAN
      BY <2>2
    <3> HIDE DEF x
    <3>4. k \in Wait /\ StartedOK(x, k) /\ Pending(k) = ww.steal
      BY <3>1, <3>2, <3>3, <2>a, <1>2, <1>4, WaitingOK
    <3> QED BY <3>4 DEF x
  <2>c. k.preinit
    BY <2>2 DEF Waiting
  <2>4. /\ VV \in Table /\ Sound(VV, 0) /\ VV.mode = shm.mode /\ VV.num = shm.num
        /\ VV.mode # "none" /\ Same(T, VV) /\ Known(T) \subseteq Known(VV) \cup ww.steal
    BY <2>1, <1>5 DEF Moved, Same
  <2>5. shm.num <= VV.num
    BY <2>4, <1>2, TableFields
  <2>6. Rooted(VV, my_pinfo, up)
    <3>1. \A j \in Slot : shm.info[j].pid # NOBODY
                          => /\ VV.info[j].pid = shm.info[j].pid
                             /\ VV.info[j].preregistered = shm.info[j].preregistered
      BY <2>4, <1>4, <1>5 DEF Same
    <3>2. Rooted(shm, my_pinfo, up)
      BY DEF Safe, Good
    <3> QED BY <3>1, <3>2, <2>4, <2>5, <1>2, RootedGrows
  <2>7. TargetOK(VV, Admin, k)
    BY <2>c DEF TargetOK
  <2>8. Known(shm) \cup Pending(call[Admin]) \subseteq Known(VV) \cup Pending(k)
    <3>1. NoCall \notin Wait
      BY DEF NoCall, Wait
    <3>2. Pending(call[Admin]) = {}
      BY <3>1, <1>3 DEF Pending
    <3> QED BY <3>2, <2>3, <2>4, <1>5
  <2>9. call' \in Calls /\ Good(VV, my_pinfo, up, call')
    BY <2>b, <2>3, <2>4, <2>5, <2>6, <2>7, <2>8, <1>2, <1>3, GoodCall DEF Safe
  <2> QED BY <2>b, <2>9, <1>3 DEF Safe, Typed, Calls
<1> QED BY <1>1, <1>9, <1>10, <1>11, <1>12

(* CPUs that were stolen from a process and are free again go back to it. *)
LEMMA RecoverOK ==
  ASSUME Safe, NEW p \in Pid, RecoverStolenCpus(p)
  PROVE  Safe'
<1> DEFINE s == get_process(shm, 0, p)
           back == shm.info[s].stolen \cap shm.free
           T == register_mask(shm, s, back)
<1>1. call \in Calls /\ shm \in Table /\ Sound(shm, 0) /\ 0 \in 0..MaxProcesses
  BY ProcInfoAssumption DEF Safe, Typed, Calls, Good
<1>2. /\ s # 0 /\ my_pinfo' = my_pinfo /\ up' = up /\ call' = call
      /\ shm' = [T EXCEPT !.info[s].stolen = @ \ back]
  BY DEF RecoverStolenCpus
<1>3. s \in Slot /\ shm.info[s].pid # NOBODY /\ s <= shm.num
  BY <1>1, <1>2, GetProcess, SlotNat
<1> HIDE DEF s
<1>4. s \in Held(shm) /\ Sound(shm, s) /\ back \in SUBSET Cpu /\ CanRegister(shm, back)
  BY <1>1, <1>3, SoundSave, TableFields DEF Held, CanRegister
<1>5. T = register_mask(shm, s, back)
  OBVIOUS
<1> HIDE DEF back, T
<1>6. /\ T \in Table /\ Same(shm, T) /\ Sound(T, s)
      /\ shm.mode # "shared" => Known(T) = Known(shm)
  BY <1>1, <1>4, <1>5, RegisterOK
<1> DEFINE e == T.info[s]
           f == [e EXCEPT !.stolen = e.stolen \ back]
<1>7. shm' = Put(T, s, f)
  BY <1>2, <1>3, <1>6, TableFields DEF Put, Table, Entry
<1>8. e \in Entry /\ EntryOK(e)
  BY <1>3, <1>6, TableFields DEF Sound
<1>a. e = T.info[s]
  OBVIOUS
<1> HIDE DEF e
<1>9. /\ f \in Entry /\ f.pid = e.pid /\ f.preregistered = e.preregistered /\ f.dirty = e.dirty
      /\ f.current = e.current /\ f.future = e.future /\ f.stolen = e.stolen \ back
  BY <1>8 DEF Entry
<1> HIDE DEF f
<1>10. EntryOK(f)
  BY <1>8, <1>9 DEF EntryOK
<1>11. /\ shm' \in Table /\ shm'.mode = T.mode /\ shm'.num = T.num /\ shm'.free = T.free
       /\ shm'.pidlist = T.pidlist /\ shm'.info = [T.info EXCEPT ![s] = f]
  BY <1>6, <1>7, <1>9 DEF Put, Table
<1>12. shm'.info[s] = f /\ \A k \in Slot \ {s} : shm'.info[k] = T.info[k]
  BY <1>3, <1>6, <1>11, TableFields
<1>13. Same(T, shm')
  BY <1>a, <1>9, <1>11, <1>12 DEF Same
<1>14. Held(shm') = Held(T) /\ Held(T) \subseteq Slot
  BY <1>6, <1>13, SameSlots, TableFields DEF Held
<1>15. \A k \in Slot : /\ shm'.info[k].future = T.info[k].future
                       /\ shm'.info[k].current = T.info[k].current
                       /\ shm'.info[k].stolen \subseteq T.info[k].stolen
  BY <1>a, <1>9, <1>12
<1>16. Known(shm') = Known(T)
  <2>1. ASSUME NEW c PROVE c \in Known(shm') <=> c \in Known(T)
    BY <1>11, <1>14, <1>15 DEF Known
  <2> QED BY <2>1
<1>17. Sound(shm', s)
  <2>1. \A k \in Slot : EntryOK(shm'.info[k])
    BY <1>6, <1>10, <1>12 DEF Sound
  <2>2. BeyondOK(shm', s) /\ NoneOK(shm')
    BY <1>6, <1>11, <1>14, <1>15 DEF Sound, BeyondOK, NoneOK
  <2>3. Disjoint(shm')
    BY <1>6, <1>11, <1>14, <1>15 DEF Sound, Disjoint
  <2> QED BY <2>1, <2>2, <2>3 DEF Sound
<1>18. Same(shm, shm')
  BY <1>6, <1>13, SameTrans
<1>19. ~ (s > shm'.num)
  BY <1>1, <1>3, <1>18, TableFields, SlotNat DEF Same
<1>20. Sound(shm', 0)
  BY <1>11, <1>17, <1>19, SoundReached
<1>21. shm.mode # "shared" => Known(shm) \subseteq Known(shm')
  BY <1>6, <1>16
<1>22. Good(shm', my_pinfo, up, call)
  BY <1>1, <1>11, <1>18, <1>20, <1>21, SameGood DEF Safe
<1> QED BY <1>2, <1>22 DEF Safe, Typed

(* What a steal k that was waiting finds when it locks the table again and *)
(* the wait has been clean: its target is what it was, and the CPUs it     *)
(* waits for are nobody's.                                                 *)
Regained(x, k) ==
  /\ k \in Wait /\ StartedOK(x, k) /\ k.slot \in Held(shm) /\ shm.info[k.slot] = k.was
  /\ shm.mode # "none" /\ Sound(shm, k.slot)
  /\ k.work.steal \cap Known(shm) = {}
  /\ k.work.free \subseteq shm.info[k.slot].future
  /\ k.was.future = k.was.current
  /\ ~ k.preinit => k.slot <= shm.num
  /\ x = Admin \/ up[x] = "in"

(* A clean wait gives all of that. *)
LEMMA CleanRegained ==
  ASSUME Safe, NEW x \in Clients, call[x].phase \in {"stolen", "timeout"}, Clean(call[x])
  PROVE  Regained(x, call[x])
<1> DEFINE k == call[x]
           s == k.slot
<1>1. call \in Calls /\ shm \in Table /\ Sound(shm, 0) /\ Rooted(shm, my_pinfo, up)
  BY DEF Safe, Typed, Calls, Good
<1>2. x \in Steals(call) /\ k \in Wait
  BY <1>1, StealsWait DEF Steals
<1>3. /\ StartedOK(x, k) /\ TargetOK(shm, x, k)
      /\ x = Admin /\ shm.mode = "none" => Held(shm) = {}
  BY <1>2 DEF Safe, Good, Resumable
<1>4. x = Admin \/ up[x] = "in"
  BY <1>2 DEF Safe, Good, Resumable, Steals, NoCall
<1>5. shm.info[s] = k.was /\ s \in Slot /\ k.was.pid # NOBODY /\ s \in Held(shm)
  BY <1>2, <1>3 DEF Clean, Wait, StartedOK, Held
<1>6. shm.mode # "none"
  <2>1. CASE x = Admin
    BY <2>1, <1>3, <1>5
  <2>2. CASE x # Admin
    <3>1. At(shm, my_pinfo[x], x)
      BY <2>2, <1>1, <1>4, ProcInfoAssumption DEF Rooted
    <3> QED BY <3>1 DEF At
  <2> QED BY <2>1, <2>2
<1>7. Sound(shm, s)
  BY <1>1, SoundSave
<1>8. /\ k.was.future = k.was.current /\ k.work.steal \cap k.was.current = {}
      /\ k.work.free \subseteq k.was.current
  BY <1>3 DEF StartedOK, EntryOK
<1>9. k.work.steal \cap Known(shm) = {}
  <2> SUFFICES ASSUME NEW c \in k.work.steal, c \in Known(shm) PROVE FALSE
    OBVIOUS
  <2>1. c \notin shm.free /\ \A j \in Registered(shm) \ {s} : c \notin Effective(shm.info[j])
    BY DEF Clean
  <2>2. PICK j \in Held(shm) : c \in shm.info[j].future
    BY <2>1 DEF Known
  <2>3. j # s
    BY <2>2, <1>5, <1>8
  <2>4. j \in Slot /\ Effective(shm.info[j]) = shm.info[j].future
    BY <1>1, EntryEffective DEF Held, Sound
  <2>5. j \notin Registered(shm)
    BY <2>1, <2>2, <2>3, <2>4
  <2>6. j > shm.num /\ j # 0
    BY <2>4, <2>5, <1>1, TableFields, SlotNat, ProcInfoAssumption DEF Registered, Held, Slot
  <2> QED BY <2>2, <2>6, <1>1 DEF Sound, BeyondOK
<1>10. ~ k.preinit => s <= shm.num
  BY <1>3, <1>5 DEF TargetOK
<1> HIDE DEF k, s
<1>11. k.work.free \subseteq shm.info[s].future
  BY <1>5, <1>8
<1> QED BY <1>2, <1>3, <1>4, <1>5, <1>6, <1>7, <1>8, <1>9, <1>10, <1>11 DEF Regained, k, s

(* A CPU that was stolen from one process only goes back to that one. *)
LEMMA OneLoser ==
  ASSUME shm \in Table, NEW k, Clean(k), k.phase = "timeout"
  PROVE  /\ \A c \in k.work.steal : \A i, j \in Registered(shm) \ {k.slot} :
              c \in shm.info[i].stolen /\ c \in shm.info[j].stolen => i = j
         /\ \A c \in k.work.steal : \E i \in Registered(shm) \ {k.slot} : c \in shm.info[i].stolen
<1> DEFINE losers(c) == {i \in Registered(shm) \ {k.slot} : c \in shm.info[i].stolen}
<1>1. ASSUME NEW c \in k.work.steal PROVE \E i : losers(c) = {i}
  <2>1. Cardinality(losers(c)) = 1
    BY DEF Clean
  <2>2. IsFiniteSet(losers(c))
    <3>1. losers(c) \subseteq Slot /\ IsFiniteSet(Slot)
      BY RegisteredSlots, SlotNat
    <3> HIDE DEF losers
    <3> QED BY <3>1, FS_Subset
  <2> HIDE DEF losers
  <2> QED BY <2>1, <2>2, FS_Singleton
<1>2. ASSUME NEW c \in k.work.steal, NEW i \in Registered(shm) \ {k.slot},
             NEW j \in Registered(shm) \ {k.slot},
             c \in shm.info[i].stolen, c \in shm.info[j].stolen
      PROVE  i = j
  <2>1. i \in losers(c) /\ j \in losers(c)
    BY <1>2
  <2> HIDE DEF losers
  <2> QED BY <2>1, <1>1
<1>3. ASSUME NEW c \in k.work.steal
      PROVE  \E i \in Registered(shm) \ {k.slot} : c \in shm.info[i].stolen
  <2>1. PICK i : losers(c) = {i}
    BY <1>1
  <2>2. i \in losers(c)
    BY <2>1
  <2> QED BY <2>2
<1> QED BY <1>2, <1>3

(* The call of x ends with table U, where nothing that was known or waited *)
(* for is lost and no process but that of slot s has changed.              *)
LEMMA CallEnds ==
  ASSUME Safe, NEW x \in Clients, NEW k, k = call[x], Regained(x, k), shm' \in Table,
         Sound(shm', 0), shm'.mode = shm.mode, shm.num <= shm'.num,
         shm.mode # "shared" => Known(shm) \cup k.work.steal \subseteq Known(shm'),
         Held(shm') \subseteq Held(shm),
         \A j \in Slot : j # k.slot \/ ~ k.preinit
                         => /\ shm'.info[j].pid = shm.info[j].pid
                            /\ shm'.info[j].preregistered = shm.info[j].preregistered,
         NEW j \in {NoCall, Adopting}, call' = [call EXCEPT ![x] = j],
         my_pinfo' = my_pinfo, up' = up
  PROVE  Safe'
<1>1. call \in Calls /\ shm \in Table /\ Rooted(shm, my_pinfo, up)
  BY DEF Safe, Typed, Calls, Good
<1>2. Pending(k) = k.work.steal /\ Pending(j) = {} /\ j \notin Wait
  <2>1. j \notin Wait
    BY DEF Wait, NoCall, Adopting
  <2> QED BY <2>1 DEF Pending, Regained
<1>3. k.preinit => shm.info[k.slot].preregistered
  BY DEF Regained, StartedOK
<1>4. Rooted(shm', my_pinfo, up)
  <2>1. \A i \in Slot : ~ shm.info[i].preregistered
                        => /\ shm'.info[i].pid = shm.info[i].pid
                           /\ ~ shm'.info[i].preregistered
    <3> SUFFICES ASSUME NEW i \in Slot, ~ shm.info[i].preregistered
                 PROVE  /\ shm'.info[i].pid = shm.info[i].pid
                        /\ ~ shm'.info[i].preregistered
      OBVIOUS
    <3>1. i # k.slot \/ ~ k.preinit
      BY <1>3
    <3> QED BY <3>1
  <2> QED BY <2>1, <1>1, RootedGrows
<1>5. x = Admin \/ up[x] = "in"
  BY DEF Regained
<1>6. shm.mode # "shared" => Known(shm) \cup Pending(call[x]) \subseteq Known(shm') \cup Pending(j)
  BY <1>2
<1>7. call' \in Calls /\ Good(shm', my_pinfo, up, call')
  <2>1. j \in {NoCall, Adopting} \cup Wait /\ (j # NoCall => x = Admin \/ up[x] = "in")
    BY <1>5
  <2> QED BY <2>1, <1>1, <1>2, <1>4, <1>6, GoodCall DEF Safe
<1> QED BY <1>7 DEF Safe, Typed, Calls

(* The rest of a synchronous steal. *)
LEMMA StealEndOK ==
  ASSUME Safe, NEW x \in Clients, StealEnd(x), ~ broken'
  PROVE  Safe'
<1> DEFINE k == call[x]
           s == k.slot
           granted == k.phase = "stolen" /\ CanRegister(shm, k.work.acquire)
           T == IF k.phase = "timeout" THEN RollBack(shm, s, k.work.steal)
                ELSE IF granted THEN Rearrange(shm, s, k.work, k.return_stolen)
                ELSE GiveToThief(shm, s, k.work.steal)
<1>1. /\ k.phase \in {"stolen", "timeout"} /\ Clean(k)
      /\ shm' = IF granted /\ k.preinit THEN Preinitialized(T, s, k.mask)
                ELSE IF k.preinit THEN Unreserved(T, s) ELSE T
      /\ call' = [call EXCEPT ![x] = IF granted /\ ~ k.preinit THEN Adopting ELSE NoCall]
      /\ my_pinfo' = my_pinfo /\ up' = up
  BY DEF StealEnd, Unreserved
<1>2. Regained(x, k)
  BY <1>1, CleanRegained
<1>3. shm \in Table /\ Sound(shm, 0)
  BY DEF Safe, Good
<1>4. /\ k \in Wait /\ s \in Held(shm) /\ s \in Slot /\ Sound(shm, s) /\ shm.info[s] = k.was
      /\ k.work \in Work /\ k.work.steal \in SUBSET Cpu /\ k.mask \in SUBSET Cpu
      /\ k.work.steal \cap Known(shm) = {} /\ shm.mode # "none"
      /\ k.work.free \subseteq shm.info[s].future
  BY <1>2 DEF Regained, Held, Wait, Work
<1>5. k.preinit => /\ shm.info[s].preregistered /\ shm.info[s].future = {}
                   /\ shm.info[s].current = {} /\ shm.info[s].stolen = {}
                   /\ k.mask = k.work.acquire \cup k.work.steal /\ k.work.free = {}
  BY <1>2, <1>4 DEF Regained, StartedOK
<1>8. NoCall \in {NoCall, Adopting} /\ Adopting \in {NoCall, Adopting}
  OBVIOUS
<1>a. ~ k.preinit => s <= shm.num
  BY <1>2 DEF Regained
<1> HIDE DEF k, s, T, granted
<1>7. shm.num \in Nat /\ s \in Nat
  <2>1. shm.num \in 0..MaxProcesses
    BY <1>3, TableFields
  <2>2. s \in Slot
    BY <1>4
  <2> QED BY <2>1, <2>2, SlotNat
<1>6. ~ k.preinit => ~ (s > shm.num)
  BY <1>a, <1>7
<1>9. CASE k.phase = "timeout"
  <2>1. T = RollBack(shm, s, k.work.steal) /\ ~ granted
    BY <1>9 DEF T, granted
  <2>2. call' = [call EXCEPT ![x] = NoCall] /\ shm' = IF k.preinit THEN Unreserved(T, s) ELSE T
    BY <1>1, <2>1
  <2>3. /\ \A c \in k.work.steal : \A i, j \in Registered(shm) \ {s} :
             c \in shm.info[i].stolen /\ c \in shm.info[j].stolen => i = j
        /\ \A c \in k.work.steal : \E i \in Registered(shm) \ {s} : c \in shm.info[i].stolen
    BY <1>1, <1>3, <1>9, OneLoser DEF s
  <2>4. /\ \A i \in Held(shm) : shm.info[i].future \cap k.work.steal = {}
        /\ shm.free \cap k.work.steal = {}
    BY <1>4 DEF Known
  <2>5. /\ T \in Table /\ Same(shm, T) /\ Sound(T, 0) /\ Known(T) = Known(shm) \cup k.work.steal
        /\ T.info[s] = shm.info[s]
    BY <2>1, <2>3, <2>4, <1>3, <1>4, RollBackOK
  <2>6. Held(T) = Held(shm) /\ T.mode = shm.mode /\ T.num = shm.num
    BY <2>5, <1>3, SameSlots, TableFields DEF Same
  <2>7. CASE ~ k.preinit
    <3>1. shm' = T
      BY <2>2, <2>7
    <3>2. shm.num <= shm'.num
      BY <3>1, <2>6, <1>7
    <3> QED BY <3>1, <3>2, <2>2, <2>5, <2>6, <1>1, <1>2, <1>8, CallEnds DEF Same, k, s
  <2>8. CASE k.preinit
    <3> DEFINE e == T.info[s]
               f == [e EXCEPT !.pid = NOBODY]
    <3>1. shm' = Put(T, s, f)
      BY <2>2, <2>5, <2>8, <1>4, TableFields DEF Unreserved, Put, Table, Entry
    <3>2. e \in Entry /\ EntryOK(e) /\ e.future = {} /\ e.stolen = {} /\ T.info[s].future = {}
      BY <2>5, <2>8, <1>4, <1>5, TableFields DEF Sound
    <3> HIDE DEF e
    <3>3. /\ f \in Entry /\ f.pid = NOBODY /\ f.dirty = e.dirty /\ f.current = e.current
          /\ f.future = e.future /\ f.stolen = e.stolen /\ f.preregistered = e.preregistered
      BY <3>2 DEF Entry
    <3> HIDE DEF f
    <3>4. EntryOK(f)
      BY <3>2, <3>3 DEF EntryOK
    <3>5. Sound(T, s)
      BY <2>5, SoundSave
    <3>6. /\ shm' \in Table /\ Sound(shm', 0) /\ shm'.mode = T.mode /\ shm'.num = T.num
          /\ T.mode # "shared" => Known(shm') = Known(T)
          /\ \A i \in Slot \ {s} : shm'.info[i] = T.info[i]
          /\ Held(shm') = Held(T) \ {s}
      BY <3>1, <3>2, <3>3, <3>4, <3>5, <2>5, <1>4, VacateOK
    <3>7. shm.num <= shm'.num /\ Held(shm') \subseteq Held(shm) /\ shm'.mode = shm.mode
      BY <3>6, <2>6, <1>7
    <3>8. \A i \in Slot : i # s \/ ~ k.preinit
            => /\ shm'.info[i].pid = shm.info[i].pid
               /\ shm'.info[i].preregistered = shm.info[i].preregistered
      BY <3>6, <2>5, <2>8 DEF Same
    <3>9. shm.mode # "shared" => Known(shm) \cup k.work.steal \subseteq Known(shm')
      BY <3>6, <2>5, <2>6
    <3> QED BY <3>6, <3>7, <3>8, <3>9, <2>2, <1>1, <1>2, <1>8, CallEnds DEF k, s
  <2> QED BY <2>7, <2>8
<1>10. CASE k.phase = "stolen"
  <2>0. CanRegister(shm, k.work.acquire)
    BY <1>1, <1>10 DEF Clean
  <2>1. T = Rearrange(shm, s, k.work, k.return_stolen) /\ granted
    BY <1>10, <2>0 DEF T, granted
  <2>2. /\ call' = [call EXCEPT ![x] = IF k.preinit THEN NoCall ELSE Adopting]
        /\ shm' = IF k.preinit THEN Preinitialized(T, s, k.mask) ELSE T
    <3>1. CASE k.preinit
      BY <1>1, <2>1, <3>1
    <3>2. CASE ~ k.preinit
      BY <1>1, <2>1, <3>2
    <3> QED BY <3>1, <3>2
  <2>3. /\ T \in Table /\ Same(shm, T) /\ Sound(T, s)
        /\ shm.mode # "shared" =>
             /\ Known(T) = Known(shm) \cup k.work.steal
             /\ T.info[s].future = (shm.info[s].future \cup k.work.steal \cup k.work.acquire) \ k.work.free
        /\ shm.info[s].stolen = {} => T.info[s].stolen = {}
    <3> DEFINE w == k.work
               r == k.return_stolen
    <3>1. /\ w \in Work /\ T = Rearrange(shm, s, w, r) /\ CanRegister(shm, w.acquire)
          /\ w.free \subseteq shm.info[s].future
          /\ shm.mode # "shared" => w.steal \cap Known(shm) = {}
          /\ shm.mode = "none" => w.steal = {}
      BY <2>0, <2>1, <1>4
    <3> HIDE DEF w, r
    <3>2. /\ T \in Table /\ Same(shm, T) /\ Sound(T, s)
          /\ shm.mode # "shared" =>
               /\ Known(T) = Known(shm) \cup w.steal
               /\ T.info[s].future = (shm.info[s].future \cup w.steal \cup w.acquire) \ w.free
          /\ shm.info[s].stolen = {} => T.info[s].stolen = {}
      BY <3>1, <1>3, <1>4, RearrangeOK
    <3> QED BY <3>2 DEF w
  <2>4. Held(T) = Held(shm) /\ T.mode = shm.mode /\ T.num = shm.num
    BY <2>3, <1>3, SameSlots, TableFields DEF Same
  <2>5. CASE ~ k.preinit
    <3>1. shm' = T /\ call' = [call EXCEPT ![x] = Adopting]
      BY <2>2, <2>5
    <3>2. shm.num <= shm'.num
      BY <3>1, <2>4, <1>7
    <3>3. Sound(T, 0)
      BY <2>3, <2>4, <2>5, <1>6, SoundReached
    <3> QED BY <3>1, <3>2, <3>3, <2>3, <2>4, <1>1, <1>2, <1>8, CallEnds DEF Same, k, s
  <2>6. CASE k.preinit
    <3>1. shm' = Preinitialized(T, s, k.mask) /\ call' = [call EXCEPT ![x] = NoCall]
      BY <2>2, <2>6
    <3>2. T.mode # "shared" => T.info[s].future = k.mask
      BY <2>3, <2>4, <2>6, <1>5
    <3>3. /\ shm' \in Table /\ Grown(T, shm', s) /\ Sound(shm', 0)
          /\ T.mode # "shared" => Known(shm') = Known(T)
      BY <3>1, <3>2, <2>3, <2>4, <2>6, <1>4, <1>5, PreinitializedOK
    <3>4. shm.num <= shm'.num /\ shm'.mode = shm.mode
      BY <3>3, <2>4, <1>7 DEF Grown
    <3>5. \A i \in Slot : /\ shm'.info[i].pid = shm.info[i].pid
                          /\ shm'.info[i].preregistered = shm.info[i].preregistered
      BY <3>3, <2>3 DEF Grown, Same
    <3>6. Held(shm') = Held(shm)
      BY <3>5 DEF Held
    <3>7. shm.mode # "shared" => Known(shm) \cup k.work.steal \subseteq Known(shm')
      BY <3>3, <2>3, <2>4
    <3> QED BY <3>1, <3>3, <3>4, <3>5, <3>6, <3>7, <1>1, <1>2, <1>8, CallEnds DEF k
  <2> QED BY <2>5, <2>6
<1> QED BY <1>1, <1>9, <1>10

-----------------------------------------------------------------------------
(* The theorems *)

(* The memory, the processes and the clients start as they should be. *)
LEMMA InitOK ==
  ASSUME Init
  PROVE  Safe
<1>1. Typed
  BY ProcInfoAssumption DEF Init, Typed
<1>2. call \in Calls /\ \A x \in Clients : call[x] = NoCall
  BY DEF Init, Calls
<1>3. shm = ZeroShm /\ shm \in Table /\ shm.mode = "none" /\ Wiped(shm)
  BY ZeroFields DEF Init, Wiped
<1>4. Sound(shm, 0)
  BY <1>3, WipedSound
<1>5. Rooted(shm, my_pinfo, up)
  BY DEF Init, Rooted
<1>6. Steals(call) = {}
  BY <1>2 DEF Steals, NoCall
<1>7. Resumable(shm, up, call)
  BY <1>2, <1>6 DEF Resumable
<1>8. Lossless(shm, call)
  BY <1>3 DEF Lossless
<1> QED BY <1>1, <1>3, <1>4, <1>5, <1>7, <1>8 DEF Safe, Good

(* Each action keeps all that the invariant says, unless it breaks it. *)
LEMMA NextOK ==
  ASSUME Safe, Next, ~ broken'
  PROVE  Safe'
<1>1. ASSUME NEW p \in Pid, ProcInit(p) PROVE Safe'
  BY <1>1, ProcInitOK
<1>2. ASSUME NEW p \in Pid, PreInitSelf(p) PROVE Safe'
  BY <1>2, PreInitSelfOK
<1>3. ASSUME NEW p \in Pid, Crash(p) PROVE Safe'
  BY <1>3, CrashOK
<1>4. ASSUME NEW p \in Pid, Restart(p) PROVE Safe'
  BY <1>4, RestartOK
<1>5. ASSUME NEW p \in Pid, NEW r \in ReturnStolen, ProcFinalize(p, r) PROVE Safe'
  BY <1>5, ProcFinalizeOK
<1>6. ASSUME NEW p \in Pid, NEW r \in ReturnStolen, FinalizeUnopened(p, r) PROVE Safe'
  BY <1>6, FinalizeUnopenedOK
<1>7. ASSUME NEW p \in Pid, NEW r \in ReturnStolen, PostFinalize(p, r) PROVE Safe'
  BY <1>7, PostFinalizeOK
<1>8. ASSUME NEW p \in Pid, PreInit(p) PROVE Safe'
  BY <1>8, PreInitOK
<1>9. ASSUME NEW p \in Pid, RecoverStolenCpus(p) PROVE Safe'
  BY <1>9, RecoverOK
<1>10. ASSUME NEW p \in Pid, Poll(p) PROVE Safe'
  BY <1>10, PollOK
<1>11. ASSUME NEW p \in Pid, GetOwnMask(p) PROVE Safe'
  BY <1>11, GetOwnMaskOK
<1>12. ASSUME NEW p \in Pid, SetOwnMask(p) PROVE Safe'
  BY <1>12, SetOwnMaskOK
<1>13. ASSUME NEW x \in Clients, StealPoll(x) PROVE Safe'
  BY <1>13, StealPollOK
<1>14. ASSUME NEW x \in Clients, StealEnd(x) PROVE Safe'
  BY <1>14, StealEndOK
<1>15. ASSUME NEW x \in Clients, PollEnd(x) PROVE Safe'
  BY <1>15, PollEndOK
<1>16. ASSUME NEW x \in Clients, NEW p \in Pid, SetProcessMask(x, p) PROVE Safe'
  BY <1>16, SetProcessMaskOK
<1> QED
  BY <1>1, <1>2, <1>3, <1>4, <1>5, <1>6, <1>7, <1>8, <1>9, <1>10, <1>11, <1>12, <1>13,
     <1>14, <1>15, <1>16, AttachOK, DetachOK DEF Next

(* What breaks the table is not forgotten. *)
LEMMA BrokenStays ==
  ASSUME Next, broken
  PROVE  broken'
<1>1. ASSUME NEW p \in Pid, ProcInit(p) PROVE broken'
  BY <1>1, Zenon DEF ProcInit
<1>2. ASSUME NEW p \in Pid, PreInitSelf(p) PROVE broken'
  BY <1>2, Zenon DEF PreInitSelf
<1>3. ASSUME NEW p \in Pid, Crash(p) PROVE broken'
  BY <1>3, Zenon DEF Crash
<1>4. ASSUME NEW p \in Pid, Restart(p) PROVE broken'
  BY <1>4 DEF Restart
<1>5. ASSUME NEW p \in Pid, PreInit(p) PROVE broken'
  BY <1>5 DEF PreInit
<1>6. ASSUME NEW p \in Pid, RecoverStolenCpus(p) PROVE broken'
  BY <1>6 DEF RecoverStolenCpus
<1>7. ASSUME NEW p \in Pid, Poll(p) PROVE broken'
  BY <1>7 DEF Poll
<1>8. ASSUME NEW p \in Pid, GetOwnMask(p) PROVE broken'
  BY <1>8 DEF GetOwnMask
<1>9. ASSUME NEW p \in Pid, SetOwnMask(p) PROVE broken'
  BY <1>9, Zenon DEF SetOwnMask
<1>10. ASSUME NEW p \in Pid, NEW r \in ReturnStolen, ProcFinalize(p, r) PROVE broken'
  BY <1>10 DEF ProcFinalize
<1>11. ASSUME NEW p \in Pid, NEW r \in ReturnStolen, FinalizeUnopened(p, r) PROVE broken'
  BY <1>11 DEF FinalizeUnopened
<1>12. ASSUME NEW p \in Pid, NEW r \in ReturnStolen, PostFinalize(p, r) PROVE broken'
  BY <1>12 DEF PostFinalize
<1>13. ASSUME NEW x \in Clients, StealPoll(x) PROVE broken'
  BY <1>13 DEF StealPoll
<1>14. ASSUME NEW x \in Clients, StealEnd(x) PROVE broken'
  BY <1>14, Zenon DEF StealEnd
<1>15. ASSUME NEW x \in Clients, PollEnd(x) PROVE broken'
  BY <1>15 DEF PollEnd
<1>16. ASSUME NEW x \in Clients, NEW p \in Pid, SetProcessMask(x, p) PROVE broken'
  BY <1>16, Zenon DEF SetProcessMask
<1>17. ASSUME Attach \/ Detach PROVE broken'
  BY <1>17 DEF Attach, Detach
<1> QED BY <1>1, <1>2, <1>3, <1>4, <1>5, <1>6, <1>7, <1>8, <1>9, <1>10,
            <1>11, <1>12, <1>13, <1>14, <1>15, <1>16, <1>17 DEF Next

(* As long as nothing is broken the DROM table is as it should be: each    *)
(* entry agrees with itself, each registered process finds itself in its   *)
(* slot, each synchronous steal can resume, no CPU is doubled or lost.     *)
THEOREM TableStaysSound == Spec => []Inv
<1>1. Init => Inv
  BY InitOK DEF Inv, Safe
<1>2. Inv /\ [Next]_vars => Inv'
  <2> SUFFICES ASSUME Inv, [Next]_vars, ~ broken' PROVE Safe'
    BY DEF Inv, Safe
  <2>1. CASE Next
    <3>1. ~ broken
      BY <2>1, BrokenStays
    <3>2. Safe
      BY <3>1 DEF Inv, Safe
    <3> QED BY <2>1, <3>2, NextOK
  <2>2. CASE UNCHANGED vars
    BY <2>2 DEF vars, Inv, Safe, Typed
  <2> QED BY <2>1, <2>2
<1> QED BY <1>1, <1>2, PTL DEF Spec

(* Without CPU sharing, and as long as nothing is broken, no CPU has two   *)
(* owners and no free CPU has one: for any number of processes, CPUs and   *)
(* slots, and any process tree.                                            *)
THEOREM CpusHaveOneOwner == Spec => []OneOwner
<1>1. Inv => OneOwner
  <2> SUFFICES ASSUME Inv, shm.mode = "exclusive", ~ broken, NEW s \in Registered(shm)
               PROVE  /\ Owned(s) \cap shm.free = {}
                      /\ \A t \in Registered(shm) \ {s} : Owned(s) \cap Owned(t) = {}
    BY DEF OneOwner
  <2>1. shm \in Table /\ Sound(shm, 0)
    BY DEF Inv, Good
  <2>2. Registered(shm) \subseteq Held(shm) /\ Held(shm) \subseteq Slot
    BY <2>1, RegisteredSlots
  <2>3. \A t \in Slot : Owned(t) = shm.info[t].future
    BY <2>1, EntryEffective DEF Owned, Sound
  <2> QED BY <2>1, <2>2, <2>3 DEF Sound, Disjoint
<1> QED BY <1>1, TableStaysSound, PTL

(* And none is lost: each is free, owned by a registered process, or what  *)
(* a synchronous steal in progress waits for.                              *)
THEOREM NoCpuIsLost == Spec => []NothingLost
<1>1. Inv => NothingLost
  <2> SUFFICES ASSUME Inv, shm.mode \in {"exclusive", "unknown"}, ~ broken
               PROVE  Cpu = Awaited \cup Assigned(shm)
    BY DEF NothingLost
  <2>1. /\ shm \in Table /\ Sound(shm, 0) /\ Lossless(shm, call)
        /\ call \in Calls
    BY DEF Inv, Good, Typed, Calls
  <2>2. Assigned(shm) = Known(shm)
    BY <2>1, KnownIsAssigned
  <2>3. Awaited = WaitedBy(call)
    BY DEF Awaited, WaitedBy, Stealing, Steals
  <2>4. Cpu \subseteq WaitedBy(call) \cup Known(shm)
    BY <2>1 DEF Lossless
  <2>5. Known(shm) \subseteq Cpu
    BY <2>1, TableFields DEF Known, Held
  <2>6. WaitedBy(call) \subseteq Cpu
    <3>1. \A x \in Clients : Pending(call[x]) \subseteq Cpu
      BY DEF Pending, Wait, Work
    <3> QED BY <2>1, <3>1, StealsWait
  <2> QED BY <2>2, <2>3, <2>4, <2>5, <2>6
<1> QED BY <1>1, TableStaysSound, PTL

=============================================================================
