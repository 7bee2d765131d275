--------------------------- MODULE OmpToolProofs ---------------------------
(***************************************************************************)
(* The counter of enabled free agents follows their bits, for any number   *)
(* of CPUs, threads and agents, whatever the threads and the callbacks of  *)
(* LeWI do at once, and whatever the memory held that is not initialized.  *)
(***************************************************************************)
EXTENDS OmpTool, FiniteSetTheorems, TLAPS

-----------------------------------------------------------------------------
(* CPUs in increasing order *)

(* The numbers of a finite set are ranked without gaps. *)
LEMMA RankExists ==
  ASSUME NEW S \in SUBSET Int, IsFiniteSet(S), NEW k \in 1 .. Cardinality(S)
  PROVE  \E c \in S : Cardinality({d \in S : d <= c}) = k
<1> DEFINE below(c) == {d \in S : d <= c}
           N == Cardinality(S)
           rank == [c \in S |-> Cardinality(below(c))]
<1>1. N \in Nat
  BY FS_CardinalityType
<1>2. ASSUME NEW c \in S
      PROVE  IsFiniteSet(below(c)) /\ Cardinality(below(c)) \in 1 .. N
  <2>1. below(c) \in SUBSET S OBVIOUS
  <2>2. IsFiniteSet(below(c)) /\ Cardinality(below(c)) <= N
    BY <2>1, FS_Subset
  <2>3. Cardinality(below(c)) \in Nat
    BY <2>2, FS_CardinalityType
  <2>4. c \in below(c) OBVIOUS
  <2>5. Cardinality(below(c)) # 0
    BY <2>2, <2>4, FS_EmptySet
  <2> QED BY <1>1, <2>2, <2>3, <2>5
<1>3. ASSUME NEW c \in S, NEW d \in S, c < d
      PROVE  Cardinality(below(c)) # Cardinality(below(d))
  <2>1. \A e \in S : e <= c => e <= d
    BY <1>3
  <2>2. d <= d /\ ~(d <= c)
    BY <1>3
  <2>3. below(c) \in SUBSET below(d) /\ d \in below(d) /\ d \notin below(c)
    BY <2>1, <2>2
  <2> QED BY <1>2, <2>3, FS_Subset
<1>4. rank \in [S -> 1 .. N]
  BY <1>2
<1>5. \A c, d \in S : c # d => rank[c] # rank[d]
  BY <1>3
<1>6. rank \in Injection(S, 1 .. N)
  BY <1>4, <1>5 DEF Injection, IsInjective
<1>7. IsFiniteSet(1 .. N) /\ Cardinality(1 .. N) = N
  BY <1>1, FS_Interval
<1>8. rank \in Surjection(S, 1 .. N)
  BY <1>6, <1>7, FS_Injection
<1>9. PICK c \in S : rank[c] = k
  BY <1>8 DEF Surjection
<1> QED BY <1>9

(* A set of CPUs, or of agent ids, is finite. *)
LEMMA CpusFinite ==
  /\ \A S \in SUBSET Cpu : S \in SUBSET Int /\ IsFiniteSet(S) /\ Cardinality(S) \in Nat
  /\ \A S \in SUBSET Agent : S \in SUBSET Int /\ IsFiniteSet(S)
<1>1. ASSUME NEW S \in SUBSET Cpu
      PROVE  S \in SUBSET Int /\ IsFiniteSet(S) /\ Cardinality(S) \in Nat
  <2>1. IsFiniteSet(S)
    BY CpuAssumption, FS_Subset
  <2>2. Cardinality(Cpu) \in Nat
    BY CpuAssumption, FS_CardinalityType
  <2>3. Cpu \subseteq Int
    BY <2>2, CpuAssumption
  <2> QED BY <2>1, <2>3, FS_CardinalityType
<1>2. ASSUME NEW S \in SUBSET Agent
      PROVE  S \in SUBSET Int /\ IsFiniteSet(S)
  <2>1. IsFiniteSet(Agent)
    BY AgentsAssumption, FS_Interval DEF Agent
  <2>2. Agent \subseteq Int
    BY AgentsAssumption DEF Agent
  <2> QED BY <2>1, <2>2, FS_Subset
<1> QED BY <1>1, <1>2

(* The CPUs of a set, in order, are CPUs of the set. *)
LEMMA AscendingType ==
  ASSUME NEW S \in SUBSET Cpu
  PROVE  /\ Ascending(S) \in Seq(S)
         /\ Len(Ascending(S)) = Cardinality(S)
<1>1. S \in SUBSET Int /\ IsFiniteSet(S) /\ Cardinality(S) \in Nat
  BY CpusFinite
<1>2. ASSUME NEW i \in 1 .. Cardinality(S)
      PROVE  (CHOOSE c \in S : Cardinality({d \in S : d <= c}) = i) \in S
  BY <1>1, RankExists
<1>3. Ascending(S) \in [1 .. Cardinality(S) -> S]
  BY <1>2 DEF Ascending
<1> QED BY <1>1, <1>3

(* A set of numbers that is finite and not empty has a minimum. *)
LEMMA MinType ==
  ASSUME NEW S \in SUBSET Int, IsFiniteSet(S), S # {}
  PROVE  Min(S) \in S
<1>1. Cardinality(S) \in Nat /\ Cardinality(S) # 0
  BY FS_CardinalityType, FS_EmptySet
<1>2. PICK c \in S : Cardinality({d \in S : d <= c}) = 1
  BY <1>1, RankExists
<1>3. ASSUME NEW d \in S, d < c
      PROVE  FALSE
  <2> DEFINE B == {e \in S : e <= c}
  <2>1. c \in B /\ d \in B /\ c # d /\ IsFiniteSet(B)
    <3>1. B \in SUBSET S OBVIOUS
    <3> QED BY <1>3, <3>1, FS_Subset
  <2>2. {c} \in SUBSET B /\ {c} # B
    BY <2>1
  <2>3. Cardinality({c}) = 1
    BY FS_Singleton
  <2> QED BY <1>2, <2>1, <2>2, <2>3, FS_Subset
<1>4. \A d \in S : c <= d
  BY <1>3
<1> QED BY <1>4 DEF Min
-----------------------------------------------------------------------------
(* The steps of the handlers *)

(* The steps that handle one CPU or the memory in front of the array, one  *)
(* CPU, and the others.                                                    *)
OnSlot == {"enable", "enable cas", "enable set", "enabled"}

OnCpu == {"disable", "disable clear", "disabled",
          "begin", "work", "in parallel", "complete", "check", "more", "ReturnCpu"}

OnMask == {"acquire", "lend", "into", "outof", "end",
           "LendCpuMask", "ReclaimCpuMask", "AcquireCpusInMask"}

Step == {r \in [op : OnSlot \cup OnCpu \cup OnMask, cpu : Slot, set : SUBSET Cpu] :
           r.op \in OnCpu => r.cpu \in Cpu}

(* A step other than the one that changes the counter. *)
Plain == {r \in Step : r.op \notin {"enabled", "disabled"}}

(* Only the next step of a thread may change the counter. *)
Program == {p \in Seq(Step) : p = <<>> \/ Tail(p) \in Seq(Plain)}

(* The threads that have changed a bit and not yet the counter, and the    *)
(* CPUs whose bit is set.                                                  *)
Enabling == {t \in Thread : Does(t, "enabled")}

Disabling == {t \in Thread : Does(t, "disabled")}

EnabledCpus == {c \in Slot : "ENABLED" \in state[c]}

(* The CPU that a handler names is a CPU of the node: an agent that        *)
(* executes a task has been bound to one, and is in no team.               *)
Handlers ==
    /\ todo \in [Thread -> Program]
    /\ state \in [Slot -> SUBSET Bits]
    /\ lists \in [Agent -> Cpu \cup {-1}]
    /\ enabled \in Int
    /\ \A i \in Agent : /\ AgentThread[i] \notin team
                        /\ AgentThread[i] \in inTask => lists[i] # -1

(* The tool has not started. *)
NotStarted ==
    /\ manager = "none" /\ team = {} /\ inTask = {}
    /\ todo = [t \in Thread |-> <<>>]
    /\ lists = [i \in Agent |-> -1]
    /\ enabled = 0

Inv ==
    /\ tool = "off" => NotStarted
    /\ FA => Handlers /\ AgentsAreCounted

(* The fields of a step on a CPU. *)
LEMMA OpFields ==
  ASSUME NEW name, NEW c
  PROVE  Op(name, c).op = name /\ Op(name, c).cpu = c
BY DEF Op

(* A step on a CPU, and a step on a mask. *)
LEMMA OpPlain ==
  /\ \A name \in OnCpu \ {"disabled"}, c \in Cpu : <<Op(name, c)>> \in Seq(Plain)
  /\ \A name \in OnSlot \ {"enabled"}, c \in Slot : <<Op(name, c)>> \in Seq(Plain)
  /\ \A name \in OnMask : <<Op(name, -1)>> \in Seq(Plain)
  /\ \A name \in OnMask, S \in SUBSET Cpu : <<OnSet(name, S)>> \in Seq(Plain)
<1>1. ASSUME NEW name \in OnCpu \ {"disabled"}, NEW c \in Cpu
      PROVE  <<Op(name, c)>> \in Seq(Plain)
  <2>1. Op(name, c) \in Plain
    BY DEF Op, Plain, Step, Slot, OnCpu
  <2> QED BY <2>1
<1>4. ASSUME NEW name \in OnSlot \ {"enabled"}, NEW c \in Slot
      PROVE  <<Op(name, c)>> \in Seq(Plain)
  <2>1. Op(name, c) \in Plain
    BY DEF Op, Plain, Step, OnSlot, OnCpu
  <2> QED BY <2>1
<1>2. ASSUME NEW name \in OnMask
      PROVE  <<Op(name, -1)>> \in Seq(Plain)
  <2>1. Op(name, -1) \in Plain
    BY DEF Op, Plain, Step, OnMask, OnCpu, Slot
  <2> QED BY <2>1
<1>3. ASSUME NEW name \in OnMask, NEW S \in SUBSET Cpu
      PROVE  <<OnSet(name, S)>> \in Seq(Plain)
  <2>1. OnSet(name, S) \in Plain
    BY DEF OnSet, Plain, Step, OnMask, OnCpu, Slot
  <2> QED BY <2>1
<1> QED BY <1>1, <1>2, <1>3, <1>4

(* Nothing to do, and one thing after the other. *)
LEMMA PlainSeq ==
  /\ <<>> \in Seq(Plain)
  /\ \A p, q \in Seq(Plain) : p \o q \in Seq(Plain)
OBVIOUS

(* One step for each CPU of a set. *)
LEMMA ForAllPlain ==
  ASSUME NEW name \in (OnSlot \cup OnCpu) \ {"enabled", "disabled"}, NEW S \in SUBSET Cpu
  PROVE  ForAll(name, S) \in Seq(Plain)
<1>1. Cardinality(S) \in Nat
  BY CpusFinite
<1>2. ASSUME NEW i \in 1 .. Cardinality(S)
      PROVE  Op(name, Ascending(S)[i]) \in Plain
  <2>1. Ascending(S)[i] \in Cpu
    BY <1>1, AscendingType
  <2> QED BY <2>1 DEF Op, Plain, Step, Slot
<1> QED BY <1>1, <1>2 DEF ForAll

(* What a plain program does next changes no counter. *)
LEMMA PlainIsProgram ==
  ASSUME NEW p \in Seq(Plain)
  PROVE  /\ p \in Program
         /\ p # <<>> => Head(p).op \notin {"enabled", "disabled"}
<1>1. p \in Seq(Step)
  BY DEF Plain
<1>2. p # <<>> => Tail(p) \in Seq(Plain) /\ Head(p) \in Plain
  OBVIOUS
<1> QED BY <1>1, <1>2 DEF Program, Plain

(* A thread that does not change the counter now goes on with a plain      *)
(* program: the counts stay as they are unless a bit changes.              *)
LEMMA QuietStep ==
  ASSUME todo \in [Thread -> Program], AgentsAreCounted,
         NEW t \in Thread, ~Does(t, "enabled"), ~Does(t, "disabled"),
         NEW q \in Seq(Plain), Enter(t, q),
         enabled' = enabled, found' = found, EnabledCpus' = EnabledCpus
  PROVE  todo' \in [Thread -> Program] /\ AgentsAreCounted'
<1>1. /\ todo' \in [Thread -> Program]
      /\ todo'[t] = q /\ \A u \in Thread \ {t} : todo'[u] = todo[u]
  BY PlainIsProgram DEF Enter
<1>2. Enabling' = Enabling /\ Disabling' = Disabling
  BY <1>1, PlainIsProgram DEF Enabling, Disabling, Does
<1> QED BY <1>1, <1>2 DEF AgentsAreCounted, Doing, Enabling, Disabling, EnabledCpus, Found

(* One more step at the head of a program. *)
LEMMA FirstThen ==
  ASSUME NEW S, NEW r \in S, NEW s \in Seq(S)
  PROVE  /\ <<r>> \o s \in Seq(S)
         /\ <<r>> \o s # <<>>
         /\ Head(<<r>> \o s) = r
         /\ Tail(<<r>> \o s) = s
OBVIOUS

(* A sequence of elements of T. *)
LEMMA SeqWithin ==
  ASSUME NEW S, NEW T, NEW s \in Seq(S), \A i \in 1 .. Len(s) : s[i] \in T
  PROVE  s \in Seq(T)
OBVIOUS

(* What is left of a handler after its first step. *)
LEMMA RestPlain ==
  ASSUME todo \in [Thread -> Program], NEW t \in Thread, todo[t] # <<>>
  PROVE  /\ Tail(todo[t]) \in Seq(Plain)
         /\ Tail(todo[t]) \in Seq(Step)
         /\ Head(todo[t]) \in Step
         /\ todo[t] \in Seq(Step)
BY DEF Program

(* The same for a step of a handler that is followed by p. *)
LEMMA QuietThen ==
  ASSUME todo \in [Thread -> Program], AgentsAreCounted,
         NEW t \in Thread, NEW name, name \notin {"enabled", "disabled"}, Does(t, name),
         NEW p \in Seq(Plain), Then(t, p),
         enabled' = enabled, found' = found, EnabledCpus' = EnabledCpus
  PROVE  todo' \in [Thread -> Program] /\ AgentsAreCounted'
<1> DEFINE q == p \o Tail(todo[t])
<1>1. q \in Seq(Plain)
  BY RestPlain, PlainSeq DEF Does
<1>2. Enter(t, q)
  BY DEF Then, Enter
<1>3. ~Does(t, "enabled") /\ ~Does(t, "disabled")
  BY DEF Does
<1> HIDE DEF q
<1> QED BY <1>1, <1>2, <1>3, QuietStep
-----------------------------------------------------------------------------
(* The steps of the manager *)

(* Which CPUs are enabled depends on their bits only. *)
LEMMA SameEnabled ==
  ASSUME \A c \in Slot : "ENABLED" \in state'[c] <=> "ENABLED" \in state[c]
  PROVE  EnabledCpus' = EnabledCpus
BY DEF EnabledCpus

(* A step that changes neither the counter nor the bit of an agent. *)
LEMMA StepKeeps ==
  ASSUME Handlers, AgentsAreCounted, NEW t \in Thread,
         NEW name, name \notin {"enabled", "disabled"}, Does(t, name),
         NEW p \in Seq(Plain), Then(t, p),
         UNCHANGED <<enabled, found, lists, team, inTask>>,
         state' \in [Slot -> SUBSET Bits],
         \A c \in Slot : "ENABLED" \in state'[c] <=> "ENABLED" \in state[c]
  PROVE  Handlers' /\ AgentsAreCounted'
<1>1. EnabledCpus' = EnabledCpus
  BY SameEnabled
<1>2. todo' \in [Thread -> Program] /\ AgentsAreCounted'
  BY <1>1, QuietThen DEF Handlers
<1> QED BY <1>2 DEF Handlers

(* The CPU that the next step of a thread handles, and its mask. *)
LEMMA CpuOfType ==
  ASSUME Handlers, NEW t \in Thread, NEW name, Does(t, name)
  PROVE  /\ name \in OnSlot \cup OnCpu \cup OnMask
         /\ CpuOf(t) \in Slot
         /\ name \in OnCpu => CpuOf(t) \in Cpu
         /\ SetOf(t) \in SUBSET Cpu
BY RestPlain DEF Handlers, Does, CpuOf, SetOf, Step

(* Agents are bound to CPUs of the node. *)
LEMMA AgentCpusType ==
  ASSUME Handlers
  PROVE  AgentCpus \in SUBSET Cpu
BY DEF Handlers, AgentCpus

(* Setting or exchanging bits other than ENABLED. *)
LEMMA CasBit ==
  ASSUME Handlers, NEW c \in Slot, NEW from \in Bits \ {"ENABLED"}, NEW to \in Bits \ {"ENABLED"}
  PROVE  /\ cas_bit(c, from, to) \in SUBSET Bits
         /\ "ENABLED" \in cas_bit(c, from, to) <=> "ENABLED" \in state[c]
BY DEF Handlers, cas_bit

(* cb_enable_cpu: the test, and the change of the bit. *)
LEMMA EnableStep ==
  ASSUME Handlers, AgentsAreCounted, NEW t \in Thread, fa_enable(t)
  PROVE  Handlers' /\ AgentsAreCounted'
<1> DEFINE c == CpuOf(t)
<1>1. /\ Does(t, "enable") /\ UNCHANGED <<state, enabled, found, lists, team, inTask>>
      /\ Then(t, <<>>) \/ Then(t, <<Op("enable cas", c)>>)
  BY DEF fa_enable, faVars, Others
<1>2. c \in Slot /\ state \in [Slot -> SUBSET Bits]
  BY <1>1, CpuOfType DEF Handlers
<1> HIDE DEF c
<1>3. <<>> \in Seq(Plain) /\ <<Op("enable cas", c)>> \in Seq(Plain)
  BY <1>2, OpPlain, PlainSeq DEF OnSlot
<1> QED BY <1>1, <1>2, <1>3, StepKeeps

(* A reclaimed CPU becomes idle. *)
LEMMA EnableCasStep ==
  ASSUME Handlers, AgentsAreCounted, NEW t \in Thread, fa_enable_cas(t)
  PROVE  Handlers' /\ AgentsAreCounted'
<1> DEFINE c == CpuOf(t)
<1>1. /\ Does(t, "enable cas") /\ UNCHANGED <<enabled, found, lists, team, inTask>>
      /\ state \in [Slot -> SUBSET Bits]
      /\ state' = [state EXCEPT ![c] = cas_bit(c, "RECLAIMED", "IDLE")]
      /\ Then(t, <<>>) \/ Then(t, <<Op("enable set", c)>>)
  BY DEF fa_enable_cas, Others, Handlers
<1>2. c \in Slot
  BY <1>1, CpuOfType
<1> HIDE DEF c
<1>3. /\ cas_bit(c, "RECLAIMED", "IDLE") \in SUBSET Bits
      /\ "ENABLED" \in cas_bit(c, "RECLAIMED", "IDLE") <=> "ENABLED" \in state[c]
  BY <1>2, CasBit DEF Bits
<1>4. /\ state' \in [Slot -> SUBSET Bits]
      /\ \A d \in Slot : "ENABLED" \in state'[d] <=> "ENABLED" \in state[d]
  BY <1>1, <1>2, <1>3
<1>5. <<>> \in Seq(Plain) /\ <<Op("enable set", c)>> \in Seq(Plain)
  BY <1>2, OpPlain, PlainSeq DEF OnSlot
<1> QED BY <1>1, <1>4, <1>5, StepKeeps

(* The terms of the equation of the counter are numbers. *)
LEMMA Terms ==
  ASSUME Handlers
  PROVE  /\ IsFiniteSet(Enabling) /\ IsFiniteSet(Disabling) /\ IsFiniteSet(EnabledCpus)
         /\ Cardinality(Enabling) \in Nat /\ Cardinality(Disabling) \in Nat
         /\ Cardinality(EnabledCpus) \in Nat /\ Cardinality(Found("ENABLED")) \in Nat
         /\ enabled \in Int
<1>1. /\ Enabling \in SUBSET Thread /\ Disabling \in SUBSET Thread
      /\ EnabledCpus \in SUBSET Slot /\ Found("ENABLED") \in SUBSET Slot
  BY DEF Enabling, Disabling, EnabledCpus, Found
<1>0. IsFiniteSet(Slot)
  BY CpuAssumption, FS_AddElement DEF Slot
<1>2. /\ IsFiniteSet(Enabling) /\ IsFiniteSet(Disabling) /\ IsFiniteSet(EnabledCpus)
      /\ IsFiniteSet(Found("ENABLED"))
  BY <1>0, <1>1, ThreadAssumption, FS_Subset
<1> QED BY <1>2, FS_CardinalityType DEF Handlers

(* The equation holds after a step that adds as much to both sides. *)
LEMMA Balance ==
  ASSUME Handlers, AgentsAreCounted, UNCHANGED found,
         \/ /\ enabled' = enabled
            /\ Cardinality(Enabling)' = Cardinality(Enabling) + 1
            /\ Cardinality(Disabling)' = Cardinality(Disabling)
            /\ Cardinality(EnabledCpus)' = Cardinality(EnabledCpus) + 1
         \/ /\ enabled' = enabled + 1
            /\ Cardinality(Enabling)' = Cardinality(Enabling) - 1
            /\ Cardinality(Disabling)' = Cardinality(Disabling)
            /\ Cardinality(EnabledCpus)' = Cardinality(EnabledCpus)
         \/ /\ enabled' = enabled
            /\ Cardinality(Enabling)' = Cardinality(Enabling)
            /\ Cardinality(Disabling)' = Cardinality(Disabling) + 1
            /\ Cardinality(EnabledCpus)' = Cardinality(EnabledCpus) - 1
         \/ /\ enabled' = enabled - 1
            /\ Cardinality(Enabling)' = Cardinality(Enabling)
            /\ Cardinality(Disabling)' = Cardinality(Disabling) - 1
            /\ Cardinality(EnabledCpus)' = Cardinality(EnabledCpus)
  PROVE  AgentsAreCounted'
<1> DEFINE first == Cardinality(Found("ENABLED"))
<1>0. first' = first
  BY DEF Found
<1>1. enabled + Cardinality(Enabling) - Cardinality(Disabling) = Cardinality(EnabledCpus) - first
  BY DEF AgentsAreCounted, Doing, Enabling, Disabling, EnabledCpus
<1>3. /\ Cardinality(Enabling) \in Nat /\ Cardinality(Disabling) \in Nat
      /\ Cardinality(EnabledCpus) \in Nat /\ first \in Nat /\ enabled \in Int
  BY Terms
<1> HIDE DEF first
<1>2. enabled' + Cardinality(Enabling)' - Cardinality(Disabling)'
        = Cardinality(EnabledCpus)' - first'
  BY <1>0, <1>1, <1>3
<1> USE DEF first
<1> QED BY <1>2 DEF AgentsAreCounted, Doing, Enabling, Disabling, EnabledCpus

(* A thread has changed a bit, and is to change the counter next. *)
LEMMA CountsNext ==
  ASSUME todo \in [Thread -> Program], NEW t \in Thread, NEW from, Does(t, from),
         NEW name \in {"enabled", "disabled"}, NEW c \in Slot, name = "disabled" => c \in Cpu,
         Then(t, <<Op(name, c)>>)
  PROVE  /\ todo' \in [Thread -> Program]
         /\ todo'[t] # <<>> /\ Head(todo'[t]).op = name
         /\ \A u \in Thread \ {t} : todo'[u] = todo[u]
<1> DEFINE r == Op(name, c)
           q == <<r>> \o Tail(todo[t])
<1>1. Tail(todo[t]) \in Seq(Plain) /\ Tail(todo[t]) \in Seq(Step)
  BY RestPlain DEF Does
<1>2. r \in Step
  BY DEF Op, Step, OnCpu, OnSlot
<1>3. r.op = name
  BY DEF Op
<1>4. todo' = [todo EXCEPT ![t] = q]
  BY DEF Then
<1> HIDE DEF r
<1>5. q \in Seq(Step) /\ q # <<>> /\ Head(q) = r /\ Tail(q) = Tail(todo[t])
  BY <1>1, <1>2, FirstThen
<1> HIDE DEF q
<1>6. q \in Program
  BY <1>1, <1>5 DEF Program
<1>7. Head(q).op = name
  BY <1>3, <1>5
<1> QED BY <1>4, <1>5, <1>6, <1>7

(* A bit that was clear is set: one more CPU, and one more thread that     *)
(* has still to count it.                                                  *)
LEMMA BitSet ==
  ASSUME Handlers, AgentsAreCounted, NEW t \in Thread, Does(t, "enable set"),
         NEW c \in Slot, "ENABLED" \notin state[c],
         state' = [state EXCEPT ![c] = (@ \ {"IDLE"}) \cup {"ENABLED"}],
         Then(t, <<Op("enabled", c)>>),
         UNCHANGED <<enabled, found, lists, team, inTask>>
  PROVE  Handlers' /\ AgentsAreCounted'
<1>1. /\ todo' \in [Thread -> Program]
      /\ todo'[t] # <<>> /\ Head(todo'[t]).op = "enabled"
      /\ \A u \in Thread \ {t} : todo'[u] = todo[u]
  BY CountsNext DEF Handlers
<1>2. Enabling' = Enabling \cup {t} /\ t \notin Enabling /\ Disabling' = Disabling
  BY <1>1 DEF Enabling, Disabling, Does
<1>3. EnabledCpus' = EnabledCpus \cup {c} /\ c \notin EnabledCpus
  BY DEF EnabledCpus, Handlers
<1>4. /\ Cardinality(Enabling)' = Cardinality(Enabling) + 1
      /\ Cardinality(EnabledCpus)' = Cardinality(EnabledCpus) + 1
      /\ Cardinality(Disabling)' = Cardinality(Disabling)
  BY <1>2, <1>3, Terms, FS_AddElement
<1>5. AgentsAreCounted'
  BY <1>4, Balance
<1>6. state' \in [Slot -> SUBSET Bits]
  BY DEF Handlers, Bits
<1> QED BY <1>1, <1>5, <1>6 DEF Handlers

(* The bits of the CPU are changed unless the agent is enabled already. *)
LEMMA EnableSetStep ==
  ASSUME Handlers, AgentsAreCounted, NEW t \in Thread, fa_enable_set(t)
  PROVE  Handlers' /\ AgentsAreCounted'
<1> DEFINE c == CpuOf(t)
<1>1. /\ Does(t, "enable set") /\ UNCHANGED <<enabled, found, lists, team, inTask>>
      /\ state \in [Slot -> SUBSET Bits]
  BY DEF fa_enable_set, Others, Handlers
<1>2. c \in Slot
  BY <1>1, CpuOfType
<1> HIDE DEF c
<1>4. CASE Then(t, <<OnSet("LendCpuMask", {c} \ {-1})>>) /\ UNCHANGED state
  <2>1. {c} \ {-1} \in SUBSET Cpu
    BY <1>2 DEF Slot
  <2>2. <<OnSet("LendCpuMask", {c} \ {-1})>> \in Seq(Plain)
    BY <2>1, OpPlain DEF OnMask
  <2> QED BY <1>1, <1>4, <2>2, StepKeeps
<1>5. CASE Then(t, <<>>) /\ UNCHANGED state
  BY <1>1, <1>5, PlainSeq, StepKeeps
<1>6. CASE /\ "ENABLED" \notin state[c]
           /\ state' = [state EXCEPT ![c] = (@ \ {"IDLE"}) \cup {"ENABLED"}]
           /\ Then(t, <<Op("enabled", c)>>)
  BY <1>1, <1>2, <1>6, BitSet
<1> QED BY <1>4, <1>5, <1>6 DEF fa_enable_set, c

(* The counter is changed: the thread goes on with a plain program. *)
LEMMA CountedNow ==
  ASSUME todo \in [Thread -> Program], NEW t \in Thread, NEW name, Does(t, name),
         Then(t, <<>>)
  PROVE  /\ todo' \in [Thread -> Program]
         /\ todo'[t] # <<>> => Head(todo'[t]).op \notin {"enabled", "disabled"}
         /\ \A u \in Thread \ {t} : todo'[u] = todo[u]
<1> DEFINE q == Tail(todo[t])
<1>1. q \in Seq(Plain)
  BY RestPlain DEF Does
<1>2. todo' = [todo EXCEPT ![t] = <<>> \o q]
  BY DEF Then
<1> HIDE DEF q
<1>3. <<>> \o q = q
  BY <1>1
<1> QED BY <1>1, <1>2, <1>3, PlainIsProgram

(* The thread that has set the bit counts it. *)
LEMMA EnabledStep ==
  ASSUME Handlers, AgentsAreCounted, NEW t \in Thread, fa_enabled(t)
  PROVE  Handlers' /\ AgentsAreCounted'
<1>1. /\ Does(t, "enabled") /\ Then(t, <<>>)
      /\ enabled' = enabled + 1 /\ UNCHANGED <<state, found, lists, team, inTask>>
  BY DEF fa_enabled, Others
<1>2. /\ todo' \in [Thread -> Program]
      /\ todo'[t] # <<>> => Head(todo'[t]).op \notin {"enabled", "disabled"}
      /\ \A u \in Thread \ {t} : todo'[u] = todo[u]
  BY <1>1, CountedNow DEF Handlers
<1>3. /\ Enabling' = Enabling \ {t} /\ t \in Enabling /\ Disabling' = Disabling
      /\ EnabledCpus' = EnabledCpus
  BY <1>1, <1>2 DEF Enabling, Disabling, EnabledCpus, Does
<1>4. /\ Cardinality(Enabling)' = Cardinality(Enabling) - 1
      /\ Cardinality(Disabling)' = Cardinality(Disabling)
      /\ Cardinality(EnabledCpus)' = Cardinality(EnabledCpus)
  BY <1>3, Terms, FS_RemoveElement
<1>5. AgentsAreCounted'
  BY <1>1, <1>4, Balance
<1> QED BY <1>1, <1>2, <1>5 DEF Handlers

(* cb_disable_cpu: the CPU becomes idle. *)
LEMMA DisableStep ==
  ASSUME Handlers, AgentsAreCounted, NEW t \in Thread, fa_disable(t)
  PROVE  Handlers' /\ AgentsAreCounted'
<1> DEFINE c == CpuOf(t)
<1>1. /\ Does(t, "disable") /\ UNCHANGED <<enabled, found, lists, team, inTask>>
      /\ state \in [Slot -> SUBSET Bits]
  BY DEF fa_disable, Others, Handlers
<1>2. c \in Cpu /\ c \in Slot
  BY <1>1, CpuOfType DEF OnCpu
<1>3. PICK p \in {<<>>, <<Op("disable clear", c)>>} :
        Then(t, p) /\ (Set(c, "IDLE") \/ UNCHANGED state)
  BY DEF fa_disable
<1> HIDE DEF c
<1>4. p \in Seq(Plain)
  BY <1>2, OpPlain, PlainSeq DEF OnCpu
<1>5. /\ state' \in [Slot -> SUBSET Bits]
      /\ \A d \in Slot : "ENABLED" \in state'[d] <=> "ENABLED" \in state[d]
  <2>1. CASE UNCHANGED state
    BY <1>1, <2>1
  <2>2. CASE Set(c, "IDLE")
    BY <1>1, <1>2, <2>2 DEF Set, Bits
  <2> QED BY <1>3, <2>1, <2>2
<1> QED BY <1>1, <1>3, <1>4, <1>5, StepKeeps

(* The bit is cleared; if it was set, the thread has to count that. *)
LEMMA DisableClearStep ==
  ASSUME Handlers, AgentsAreCounted, NEW t \in Thread, fa_disable_clear(t)
  PROVE  Handlers' /\ AgentsAreCounted'
<1> DEFINE c == CpuOf(t)
<1>1. /\ Does(t, "disable clear") /\ UNCHANGED <<enabled, found, lists, team, inTask>>
      /\ state \in [Slot -> SUBSET Bits]
      /\ state' = [state EXCEPT ![c] = @ \ {"ENABLED"}]
      /\ IF "ENABLED" \in state[c] THEN Then(t, <<Op("disabled", c)>>) ELSE Then(t, <<>>)
  BY DEF fa_disable_clear, Others, Handlers
<1>2. c \in Cpu /\ c \in Slot
  BY <1>1, CpuOfType DEF OnCpu
<1> HIDE DEF c
<1>3. state' \in [Slot -> SUBSET Bits]
  BY <1>1, <1>2
<1>4. CASE "ENABLED" \notin state[c]
  <2>1. \A d \in Slot : "ENABLED" \in state'[d] <=> "ENABLED" \in state[d]
    BY <1>1, <1>2, <1>4
  <2> QED BY <1>1, <1>3, <1>4, <2>1, PlainSeq, StepKeeps
<1>5. CASE "ENABLED" \in state[c]
  <2>1. /\ todo' \in [Thread -> Program]
        /\ todo'[t] # <<>> /\ Head(todo'[t]).op = "disabled"
        /\ \A u \in Thread \ {t} : todo'[u] = todo[u]
    BY <1>1, <1>2, <1>5, CountsNext DEF Handlers
  <2>2. Disabling' = Disabling \cup {t} /\ t \notin Disabling /\ Enabling' = Enabling
    BY <1>1, <2>1 DEF Enabling, Disabling, Does
  <2>3. EnabledCpus' = EnabledCpus \ {c} /\ c \in EnabledCpus
    BY <1>1, <1>2, <1>5 DEF EnabledCpus
  <2>4. /\ Cardinality(Disabling)' = Cardinality(Disabling) + 1
        /\ Cardinality(EnabledCpus)' = Cardinality(EnabledCpus) - 1
        /\ Cardinality(Enabling)' = Cardinality(Enabling)
    BY <2>2, <2>3, Terms, FS_AddElement, FS_RemoveElement
  <2>5. AgentsAreCounted'
    BY <1>1, <2>4, Balance
  <2> QED BY <1>1, <1>3, <2>1, <2>5 DEF Handlers
<1> QED BY <1>4, <1>5

(* The thread that has cleared the bit counts it. *)
LEMMA DisabledStep ==
  ASSUME Handlers, AgentsAreCounted, NEW t \in Thread, fa_disabled(t)
  PROVE  Handlers' /\ AgentsAreCounted'
<1>1. /\ Does(t, "disabled") /\ Then(t, <<>>)
      /\ enabled' = enabled - 1 /\ UNCHANGED <<state, found, lists, team, inTask>>
  BY DEF fa_disabled, Others
<1>2. /\ todo' \in [Thread -> Program]
      /\ todo'[t] # <<>> => Head(todo'[t]).op \notin {"enabled", "disabled"}
      /\ \A u \in Thread \ {t} : todo'[u] = todo[u]
  BY <1>1, CountedNow DEF Handlers
<1>3. /\ Disabling' = Disabling \ {t} /\ t \in Disabling /\ Enabling' = Enabling
      /\ EnabledCpus' = EnabledCpus
  BY <1>1, <1>2 DEF Enabling, Disabling, EnabledCpus, Does
<1>4. /\ Cardinality(Disabling)' = Cardinality(Disabling) - 1
      /\ Cardinality(Enabling)' = Cardinality(Enabling)
      /\ Cardinality(EnabledCpus)' = Cardinality(EnabledCpus)
  BY <1>3, Terms, FS_RemoveElement
<1>5. AgentsAreCounted'
  BY <1>1, <1>4, Balance
<1> QED BY <1>1, <1>2, <1>5 DEF Handlers

(* acquire_one_free_agent: what it enables is a CPU of an agent or -1, and *)
(* those that it asks LeWI for are CPUs of agents.                         *)
LEMMA AcquireStep ==
  ASSUME Handlers, AgentsAreCounted, NEW t \in Thread, fa_acquire(t)
  PROVE  Handlers' /\ AgentsAreCounted'
<1> DEFINE free == {c \in {lists[i] : i \in Agent} :
                      state[c] \cap {"IN_PARALLEL", "ENABLED"} = {}}
           idle == {c \in free : state[c] = {"IDLE"}}
<1>1. free \ {-1} \in SUBSET Cpu /\ idle \in SUBSET Slot
  BY DEF Handlers, Slot
<1>2. Foremost(idle) \in SUBSET Slot
  <2> HIDE DEF idle
  <2>1. CASE idle \cap ProcessMask # {}
    <3>1. idle \cap ProcessMask \in SUBSET Cpu
      BY CpuAssumption
    <3>2. Min(idle \cap ProcessMask) \in idle
      BY <2>1, <3>1, CpusFinite, MinType
    <3> QED BY <1>1, <2>1, <3>2 DEF Foremost
  <2>2. CASE idle \cap ProcessMask = {}
    BY <1>1, <2>2 DEF Foremost
  <2> QED BY <2>1, <2>2
<1>3. /\ Does(t, "acquire") /\ UNCHANGED <<state, enabled, found, lists, team, inTask>>
      /\ \/ Then(t, <<>>)
         \/ \E c \in Foremost(idle) : Then(t, <<Op("enable", c)>>)
         \/ Then(t, <<OnSet("AcquireCpusInMask", free \ {-1})>>)
  BY DEF fa_acquire, faVars, Others
<1> HIDE DEF free, idle
<1>4. /\ <<>> \in Seq(Plain) /\ <<OnSet("AcquireCpusInMask", free \ {-1})>> \in Seq(Plain)
      /\ \A c \in Foremost(idle) : <<Op("enable", c)>> \in Seq(Plain)
  BY <1>1, <1>2, OpPlain, PlainSeq DEF OnSlot, OnMask
<1>5. state \in [Slot -> SUBSET Bits]
  BY DEF Handlers
<1> QED BY <1>3, <1>4, <1>5, StepKeeps

(* Exchanging bits other than ENABLED, on a set of CPUs. *)
LEMMA CasBits ==
  ASSUME Handlers, NEW L, NEW from \in Bits \ {"ENABLED"}, NEW to \in Bits \ {"ENABLED"},
         state' = [c \in Slot |-> IF c \in L THEN cas_bit(c, from, to) ELSE state[c]]
  PROVE  /\ state' \in [Slot -> SUBSET Bits]
         /\ \A c \in Slot : "ENABLED" \in state'[c] <=> "ENABLED" \in state[c]
<1>1. \A c \in Slot : /\ cas_bit(c, from, to) \in SUBSET Bits
                      /\ "ENABLED" \in cas_bit(c, from, to) <=> "ENABLED" \in state[c]
  BY CasBit
<1>2. state \in [Slot -> SUBSET Bits]
  BY DEF Handlers
<1> QED BY <1>1, <1>2

(* omptm_free_agents__lend, with what the uninitialized mask holds. *)
LEMMA LendStep ==
  ASSUME Handlers, AgentsAreCounted, NEW t \in Thread, fa_lend(t)
  PROVE  Handlers' /\ AgentsAreCounted'
<1> DEFINE L == {c \in WorkerMask : "IDLE" \in state[c]}
<1>1. PICK garbage \in SUBSET Cpu : Then(t, <<OnSet("LendCpuMask", L \cup garbage)>>)
  BY AgentsAssumption DEF fa_lend
<1>2. /\ Does(t, "lend") /\ UNCHANGED <<enabled, found, lists, team, inTask>>
      /\ state' = [c \in Slot |-> IF c \in L THEN cas_bit(c, "IDLE", "LENT") ELSE state[c]]
  BY DEF fa_lend, Others
<1>3. L \in SUBSET Cpu
  BY CpuAssumption DEF WorkerMask
<1> HIDE DEF L
<1>4. <<OnSet("LendCpuMask", L \cup garbage)>> \in Seq(Plain)
  BY <1>3, OpPlain DEF OnMask
<1>5. /\ state' \in [Slot -> SUBSET Bits]
      /\ \A c \in Slot : "ENABLED" \in state'[c] <=> "ENABLED" \in state[c]
  BY <1>2, CasBits DEF Bits
<1> QED BY <1>1, <1>2, <1>4, <1>5, StepKeeps

(* IntoBlockingCall lends, and OutOfBlockingCall reclaims. *)
LEMMA BlockingStep ==
  ASSUME Handlers, AgentsAreCounted, NEW t \in Thread, fa_into(t) \/ fa_outof(t)
  PROVE  Handlers' /\ AgentsAreCounted'
<1> DEFINE L(b) == {c \in OwnWithRole : b \in state[c]}
<1>1. \A b : L(b) \in SUBSET Cpu
  BY CpuAssumption DEF OwnWithRole
<1>2. CASE fa_into(t)
  <2>1. /\ Does(t, "into") /\ UNCHANGED <<enabled, found, lists, team, inTask>>
        /\ state' = [c \in Slot |-> IF c \in L("IDLE") THEN cas_bit(c, "IDLE", "LENT") ELSE state[c]]
        /\ Then(t, <<OnSet("LendCpuMask", L("IDLE"))>>)
    BY <1>2 DEF fa_into, Others
  <2> HIDE DEF L
  <2>2. <<OnSet("LendCpuMask", L("IDLE"))>> \in Seq(Plain)
    BY <1>1, OpPlain DEF OnMask
  <2>3. /\ state' \in [Slot -> SUBSET Bits]
        /\ \A c \in Slot : "ENABLED" \in state'[c] <=> "ENABLED" \in state[c]
    BY <2>1, CasBits DEF Bits
  <2> QED BY <2>1, <2>2, <2>3, StepKeeps
<1>3. CASE fa_outof(t)
  <2>1. /\ Does(t, "outof") /\ UNCHANGED <<enabled, found, lists, team, inTask>>
        /\ state' = [c \in Slot |-> IF c \in L("LENT") THEN cas_bit(c, "LENT", "RECLAIMED") ELSE state[c]]
        /\ Then(t, <<OnSet("ReclaimCpuMask", L("LENT"))>>)
    BY <1>3 DEF fa_outof, Others
  <2> HIDE DEF L
  <2>2. <<OnSet("ReclaimCpuMask", L("LENT"))>> \in Seq(Plain)
    BY <1>1, OpPlain DEF OnMask
  <2>3. /\ state' \in [Slot -> SUBSET Bits]
        /\ \A c \in Slot : "ENABLED" \in state'[c] <=> "ENABLED" \in state[c]
    BY <2>1, CasBits DEF Bits
  <2> QED BY <2>1, <2>2, <2>3, StepKeeps
<1> QED BY <1>2, <1>3

(* One CPU of parallel_begin: what was lent is added to the mask that is   *)
(* reclaimed at the end.                                                   *)
LEMMA BeginStep ==
  ASSUME Handlers, AgentsAreCounted, NEW t \in Thread, fa_begin(t)
  PROVE  Handlers' /\ AgentsAreCounted'
<1> DEFINE c == CpuOf(t)
           n == Len(todo[t])
           r == [todo[t][n] EXCEPT !.set = @ \cup {c}]
           s == WithCpu(todo[t], c)
<1>1. /\ Does(t, "begin") /\ UNCHANGED <<state, enabled, found, lists, team, inTask>>
      /\ \/ Then(t, <<>>) \/ Then(t, <<Op("disable", c)>>)
         \/ Enter(t, Tail(s))
  BY DEF fa_begin, Others
<1>2. /\ c \in Cpu /\ state \in [Slot -> SUBSET Bits]
      /\ todo[t] # <<>> /\ todo[t] \in Seq(Step) /\ Tail(todo[t]) \in Seq(Plain)
  BY <1>1, CpuOfType, RestPlain DEF OnCpu, Handlers, Does
<1>3. CASE Then(t, <<>>) \/ Then(t, <<Op("disable", c)>>)
  <2> HIDE DEF c
  <2>1. <<Op("disable", c)>> \in Seq(Plain) /\ <<>> \in Seq(Plain)
    BY <1>2, OpPlain, PlainSeq DEF OnCpu
  <2> QED BY <1>1, <1>2, <1>3, <2>1, StepKeeps
<1>4. CASE Enter(t, Tail(s))
  <2>1. n \in Nat \ {0}
    BY <1>2
  <2>2. Len(Tail(todo[t])) = n - 1 /\ \A i \in 1 .. n - 1 : Tail(todo[t])[i] = todo[t][i + 1]
    BY <1>2
  <2>3. \A i \in 2 .. n : todo[t][i] \in Plain
    <3>1. SUFFICES ASSUME NEW i \in 2 .. n
                   PROVE  todo[t][i] \in Plain
      OBVIOUS
    <3>2. i - 1 \in 1 .. n - 1 /\ (i - 1) + 1 = i
      BY <2>1
    <3>3. Tail(todo[t])[i - 1] \in Plain
      BY <1>2, <2>2, <3>2
    <3> QED BY <2>2, <3>2, <3>3
  <2>4. n >= 2 => r \in Plain
    BY <1>2, <2>1, <2>3 DEF Plain, Step
  <2> s = [todo[t] EXCEPT ![n] = r]
    BY DEF WithCpu
  <2>5. s \in Seq(Step \cup {r}) /\ Len(s) = n /\ s # <<>>
    BY <1>2, <2>1
  <2>6. \A i \in 2 .. n : s[i] \in Plain
    BY <1>2, <2>1, <2>3, <2>4
  <2> HIDE DEF s, r
  <2>7. /\ Tail(s) \in Seq(Step \cup {r}) /\ Len(Tail(s)) = n - 1
        /\ \A i \in 1 .. n - 1 : Tail(s)[i] = s[i + 1]
    BY <2>1, <2>5
  <2>8. Tail(s) \in Seq(Plain)
    <3>1. \A i \in 1 .. n - 1 : Tail(s)[i] \in Plain
      BY <2>1, <2>6, <2>7
    <3> QED BY <2>7, <3>1, SeqWithin
  <2>9. Enter(t, Tail(s)) /\ ~Does(t, "enabled") /\ ~Does(t, "disabled")
    BY <1>1, <1>4 DEF Does
  <2>10. EnabledCpus' = EnabledCpus /\ enabled' = enabled  /\ found' = found
    BY <1>1, SameEnabled
  <2>11. todo' \in [Thread -> Program] /\ AgentsAreCounted'
    BY <2>8, <2>9, <2>10, QuietStep DEF Handlers
  <2> QED BY <1>1, <2>11 DEF Handlers
<1> QED BY <1>1, <1>3, <1>4

(* parallel_end: the CPUs of the workers become idle. *)
LEMMA EndStep ==
  ASSUME Handlers, AgentsAreCounted, NEW t \in Thread, fa_end(t)
  PROVE  Handlers' /\ AgentsAreCounted'
<1>1. /\ Does(t, "end") /\ UNCHANGED <<enabled, found, lists, team, inTask>>
      /\ state' = [c \in Slot |-> IF c \in RoleWorker
                                  THEN cas_bit(c, "IN_PARALLEL", "IDLE") ELSE state[c]]
      /\ Then(t, <<Op("lend", -1)>>) \/ Then(t, <<>>)
  BY DEF fa_end, Others
<1>2. <<Op("lend", -1)>> \in Seq(Plain) /\ <<>> \in Seq(Plain)
  BY OpPlain, PlainSeq DEF OnMask
<1>3. /\ state' \in [Slot -> SUBSET Bits]
      /\ \A c \in Slot : "ENABLED" \in state'[c] <=> "ENABLED" \in state[c]
  BY <1>1, CasBits DEF Bits
<1> QED BY <1>1, <1>2, <1>3, StepKeeps

(* The steps that leave the bits of all CPUs alone. *)
LEMMA BitsKept ==
  ASSUME Handlers, AgentsAreCounted, NEW t \in Thread,
         NEW name, name \notin {"enabled", "disabled"}, Does(t, name),
         NEW p \in Seq(Plain), Then(t, p),
         UNCHANGED <<state, enabled, found, lists, team, inTask>>
  PROVE  Handlers' /\ AgentsAreCounted'
<1>1. state \in [Slot -> SUBSET Bits]
  BY DEF Handlers
<1> QED BY <1>1, StepKeeps

(* into_parallel_function: the CPU is reclaimed if need be, and in use. *)
LEMMA WorkStep ==
  ASSUME Handlers, AgentsAreCounted, NEW t \in Thread, fa_work(t) \/ fa_in_parallel(t)
  PROVE  Handlers' /\ AgentsAreCounted'
<1> DEFINE c == CpuOf(t)
<1>1. CASE fa_work(t)
  <2> DEFINE p == (IF "LENT" \in state[c] THEN <<OnSet("ReclaimCpuMask", {c})>> ELSE <<>>)
                  \o <<Op("in parallel", c)>>
  <2>1. /\ Does(t, "work") /\ UNCHANGED <<state, enabled, found, lists, team, inTask>>
        /\ Then(t, p)
    BY <1>1 DEF fa_work, faVars, Others
  <2>2. c \in Cpu
    BY <2>1, CpuOfType DEF OnCpu
  <2> HIDE DEF c
  <2>3. /\ <<OnSet("ReclaimCpuMask", {c})>> \in Seq(Plain) /\ <<>> \in Seq(Plain)
        /\ <<Op("in parallel", c)>> \in Seq(Plain)
    BY <2>2, OpPlain, PlainSeq DEF OnCpu, OnMask
  <2>4. p \in Seq(Plain)
    BY <2>3, PlainSeq
  <2> HIDE DEF p
  <2> QED BY <2>1, <2>4, BitsKept
<1>2. CASE fa_in_parallel(t)
  <2>1. /\ Does(t, "in parallel") /\ UNCHANGED <<enabled, found, lists, team, inTask>>
        /\ Set(c, "IN_PARALLEL") /\ Then(t, <<>>)
    BY <1>2 DEF fa_in_parallel, Others
  <2>2. c \in Slot
    BY <2>1, CpuOfType
  <2> HIDE DEF c
  <2>3. /\ state' \in [Slot -> SUBSET Bits]
        /\ \A d \in Slot : "ENABLED" \in state'[d] <=> "ENABLED" \in state[d]
    BY <2>1, <2>2 DEF Set, Bits, Handlers
  <2> QED BY <2>1, <2>3, PlainSeq, StepKeeps
<1> QED BY <1>1, <1>2

(* task_complete: whether the agent goes on, and what becomes of its CPU. *)
LEMMA CompleteStep ==
  ASSUME Handlers, AgentsAreCounted, NEW t \in Thread,
         fa_complete(t) \/ fa_check(t) \/ fa_more(t)
  PROVE  Handlers' /\ AgentsAreCounted'
<1> DEFINE c == CpuOf(t)
           give == <<Op("disable", c)>> \o <<OnSet("LendCpuMask", {c})>>
           stop == <<Op("disable", c)>> \o <<>>
<1>1. UNCHANGED <<state, enabled, found, lists, team, inTask>>
  BY DEF fa_complete, fa_check, fa_more, faVars, Others
<1>2. PICK name \in {"complete", "check", "more"} : Does(t, name)
  BY DEF fa_complete, fa_check, fa_more
<1>3. c \in Cpu
  BY <1>2, CpuOfType DEF OnCpu
<1>4. \/ Then(t, <<>>) \/ Then(t, <<Op("disable", c)>>) \/ Then(t, <<Op("check", c)>>)
      \/ Then(t, <<Op("ReturnCpu", c)>>) \/ Then(t, <<Op("more", c)>>)
      \/ Then(t, give) \/ Then(t, stop)
  <2>1. CASE fa_complete(t)
    BY <2>1 DEF fa_complete
  <2>2. CASE fa_check(t)
    BY <2>2 DEF fa_check
  <2>3. CASE fa_more(t)
    BY <2>3 DEF fa_more
  <2> QED BY <2>1, <2>2, <2>3
<1> HIDE DEF c
<1>5. /\ <<>> \in Seq(Plain) /\ <<Op("disable", c)>> \in Seq(Plain)
      /\ <<Op("check", c)>> \in Seq(Plain) /\ <<Op("ReturnCpu", c)>> \in Seq(Plain)
      /\ <<Op("more", c)>> \in Seq(Plain) /\ <<OnSet("LendCpuMask", {c})>> \in Seq(Plain)
  BY <1>3, OpPlain, PlainSeq DEF OnCpu, OnMask
<1>6. give \in Seq(Plain) /\ stop \in Seq(Plain)
  BY <1>5, PlainSeq
<1> HIDE DEF give, stop
<1> QED BY <1>1, <1>2, <1>4, <1>5, <1>6, BitsKept

(* Every step of the manager. *)
LEMMA FaStepKeeps ==
  ASSUME Handlers, AgentsAreCounted, NEW t \in Thread, FaStep(t)
  PROVE  Handlers' /\ AgentsAreCounted'
BY EnableStep, EnableCasStep, EnableSetStep, EnabledStep, DisableStep, DisableClearStep, DisabledStep,
   AcquireStep, LendStep, BlockingStep, BeginStep, EndStep, WorkStep, CompleteStep
   DEF FaStep, FaCallback

(* The LeWI calls of the manager, and the callbacks that they run. *)
LEMMA LewiCallKeeps ==
  ASSUME Handlers, AgentsAreCounted, NEW t \in Thread, LewiCall(t),
         UNCHANGED <<state, enabled, found, lists>>
  PROVE  Handlers' /\ AgentsAreCounted'
<1>1. SetOf(t) \in SUBSET Cpu
  <2>1. \E name : Does(t, name)
    BY DEF LewiCall, DLB_LendCpuMask, DLB_ReclaimCpuMask, DLB_AcquireCpusInMask, DLB_BorrowCpus,
           DLB_Return, DLB_ReturnCpu, DLB_SetMaxParallelism
  <2> QED BY <2>1, CpuOfType
<1>2. <<>> \in Seq(Plain) /\ \A c \in Cpu : /\ <<Op("enable", c)>> \in Seq(Plain)
                                            /\ <<Op("disable", c)>> \in Seq(Plain)
  BY OpPlain, PlainSeq DEF OnCpu, OnSlot, Slot
<1>3. CASE DLB_LendCpuMask(t)
  <2>1. Does(t, "LendCpuMask") /\ Then(t, <<>>) /\ UNCHANGED <<team, inTask>>
    BY <1>3 DEF DLB_LendCpuMask
  <2> QED BY <1>2, <2>1, BitsKept
<1>4. CASE DLB_ReclaimCpuMask(t)
  <2> DEFINE p == ForAll("enable", Reclaimed(SetOf(t)))
  <2>1. Does(t, "ReclaimCpuMask") /\ Then(t, p) /\ UNCHANGED <<team, inTask>>
    BY <1>4 DEF DLB_ReclaimCpuMask
  <2>2. Reclaimed(SetOf(t)) \in SUBSET Cpu
    BY <1>1 DEF Reclaimed
  <2>3. p \in Seq(Plain)
    BY <2>2, ForAllPlain DEF OnSlot
  <2> HIDE DEF p
  <2> QED BY <2>1, <2>3, BitsKept
<1>5. CASE DLB_AcquireCpusInMask(t)
  <2>1. Candidates(SetOf(t)) \in SUBSET Cpu
    BY <1>1 DEF Candidates, Reclaimed
  <2>2. /\ Does(t, "AcquireCpusInMask") /\ UNCHANGED <<team, inTask>>
        /\ Then(t, <<>>) \/ \E c \in Cpu : Then(t, <<Op("enable", c)>>)
    BY <1>5, <2>1 DEF DLB_AcquireCpusInMask
  <2> QED BY <1>2, <2>2, BitsKept
<1>6. CASE DLB_ReturnCpu(t)
  <2>1. /\ Does(t, "ReturnCpu") /\ UNCHANGED <<team, inTask>>
        /\ Then(t, <<>>) \/ Then(t, <<Op("disable", CpuOf(t))>>)
    BY <1>6 DEF DLB_ReturnCpu
  <2>2. CpuOf(t) \in Cpu
    BY <2>1, CpuOfType DEF OnCpu
  <2> QED BY <1>2, <2>1, <2>2, BitsKept
<1>7. CASE DLB_BorrowCpus(t) \/ DLB_Return(t) \/ DLB_SetMaxParallelism(t)
  <2>1. \E name \in {"BorrowCpus", "Return", "SetMaxParallelism"} : Does(t, name)
    BY <1>7 DEF DLB_BorrowCpus, DLB_Return, DLB_SetMaxParallelism
  <2> QED BY <2>1, CpuOfType DEF OnSlot, OnCpu, OnMask
<1> QED BY <1>3, <1>4, <1>5, <1>6, <1>7 DEF LewiCall

-----------------------------------------------------------------------------
(* The events of the runtime and of MPI *)

(* The first CPU of the process is one of its CPUs. *)
LEMMA FirstType == First \in Cpu
<1>1. ProcessMask \in SUBSET Int /\ IsFiniteSet(ProcessMask) /\ ProcessMask # {}
  BY CpuAssumption, CpusFinite
<1>2. Min(ProcessMask) \in ProcessMask
  BY <1>1, MinType
<1>3. First = Min(ProcessMask)
  BY DEF First, Min
<1> QED BY <1>2, <1>3, CpuAssumption

(* A thread of a team is bound to a CPU of the node. *)
LEMMA BindingType ==
  ASSUME NEW t \in Thread
  PROVE  Binding(t) \in Cpu
<1> DEFINE M == ProcessMask \ {First}
<1>1. M \in SUBSET Cpu
  BY CpuAssumption
<1>2. M # {} => Ascending(M)[1] \in Cpu
  <2> HIDE DEF M
  <2>1. Ascending(M) \in Seq(M) /\ Len(Ascending(M)) = Cardinality(M)
    BY <1>1, AscendingType
  <2>2. IsFiniteSet(M) /\ Cardinality(M) \in Nat
    BY <1>1, CpusFinite
  <2>3. M # {} => Cardinality(M) # 0
    BY <2>2, FS_EmptySet
  <2> QED BY <1>1, <2>1, <2>2, <2>3
<1>3. M = {} => ProcessMask = {First}
  BY CpuAssumption
<1> QED BY <1>2, <1>3, FirstType DEF Binding

(* So is an agent, if there is a CPU left. *)
LEMMA AgentBindingType ==
  ASSUME NEW i \in Agent
  PROVE  get_free_agent_binding(i) \in Cpu \cup {-1}
<1>1. /\ Spare \in SUBSET Cpu /\ Cpu \ ProcessMask \in SUBSET Cpu /\ WorkerMask \in SUBSET Cpu
  BY CpuAssumption DEF Spare, WorkerMask
<1>2. /\ Ascending(Spare) \in Seq(Cpu) /\ Ascending(Cpu \ ProcessMask) \in Seq(Cpu)
      /\ Ascending(WorkerMask) \in Seq(Cpu)
  <2>1. /\ Ascending(Spare) \in Seq(Spare)
        /\ Ascending(Cpu \ ProcessMask) \in Seq(Cpu \ ProcessMask)
        /\ Ascending(WorkerMask) \in Seq(WorkerMask)
    BY <1>1, AscendingType
  <2> QED BY <1>1, <2>1
<1> DEFINE order == Ascending(Spare) \o Ascending(Cpu \ ProcessMask) \o Ascending(WorkerMask)
<1>3. order \in Seq(Cpu)
  BY <1>2
<1>4. get_free_agent_binding(i) = IF i < Len(order) THEN order[i + 1] ELSE -1
  BY DEF get_free_agent_binding
<1>5. i \in Nat
  BY AgentsAssumption DEF Agent
<1> HIDE DEF order
<1> QED BY <1>3, <1>4, <1>5

(* A thread that is in no handler enters a plain one. *)
LEMMA EnterKeeps ==
  ASSUME Handlers, AgentsAreCounted, NEW t \in Thread, Ready(t),
         NEW q \in Seq(Plain), Enter(t, q),
         UNCHANGED <<state, enabled, found, lists>>,
         \A i \in Agent : /\ AgentThread[i] \notin team'
                          /\ AgentThread[i] \in inTask' => lists[i] # -1
  PROVE  Handlers' /\ AgentsAreCounted'
<1>1. ~Does(t, "enabled") /\ ~Does(t, "disabled")
  BY DEF Does, Ready
<1>2. EnabledCpus' = EnabledCpus
  BY SameEnabled
<1>3. todo' \in [Thread -> Program] /\ AgentsAreCounted'
  BY <1>1, <1>2, QuietStep DEF Handlers
<1> QED BY <1>3 DEF Handlers

(* There is one manager. *)
LEMMA OneManager == FA => ~O5 /\ ~RS
BY DEF FA, O5, RS

(* Parallel regions: the primary thread begins and ends them, and the      *)
(* threads of the team, no agents, enter their function.                   *)
LEMMA ParallelKeeps ==
  ASSUME Handlers, AgentsAreCounted, FA,
         \/ parallel_begin \/ parallel_end
         \/ \E t \in Thread : into_parallel_function(t)
  PROVE  Handlers' /\ AgentsAreCounted'
<1>0. /\ Primary \in Thread /\ FA /\ ~O5 /\ ~RS
      /\ \A i \in Agent : AgentThread[i] \notin team
                          /\ (AgentThread[i] \in inTask => lists[i] # -1)
  <2>1. \A i \in Agent : AgentThread[i] \notin team
                         /\ (AgentThread[i] \in inTask => lists[i] # -1)
    BY DEF Handlers
  <2> QED BY <2>1, ThreadAssumption, OneManager, Zenon
<1>1. CASE parallel_begin
  <2> DEFINE p == ForAll("begin", ProcessMask) \o <<OnSet("ReclaimCpuMask", {})>>
  <2>1. /\ Ready(Primary) /\ UNCHANGED <<state, enabled, found, lists, team, inTask>>
        /\ Enter(Primary, p) \/ Enter(Primary, <<>>)
    <3>1. PICK n \in 0 .. 1, requested \in {1, Cardinality(ProcessMask)} :
            Enter(Primary, CASE FA -> fa_parallel_begin(requested)
                             [] O5 -> o5_borrow(n)
                             [] OTHER -> <<>>)
      BY <1>1 DEF parallel_begin
    <3>2. Enter(Primary, fa_parallel_begin(requested))
      BY <1>0, <3>1
    <3>3. fa_parallel_begin(requested) \in {p, <<>>}
      BY DEF fa_parallel_begin
    <3> QED BY <1>1, <3>2, <3>3 DEF parallel_begin, Serial, faVars
  <2>2. p \in Seq(Plain) /\ <<>> \in Seq(Plain)
    <3>1. ForAll("begin", ProcessMask) \in Seq(Plain)
      BY CpuAssumption, ForAllPlain DEF OnCpu
    <3>2. <<OnSet("ReclaimCpuMask", {})>> \in Seq(Plain)
      BY OpPlain DEF OnMask
    <3> QED BY <3>1, <3>2, PlainSeq
  <2> HIDE DEF p
  <2> QED BY <1>0, <2>1, <2>2, EnterKeeps
<1>2. CASE parallel_end
  <2>1. /\ Ready(Primary) /\ UNCHANGED <<state, enabled, found, lists, inTask>> /\ team' = {}
        /\ Enter(Primary, <<Op("end", -1)>>)
    BY <1>0, <1>2 DEF parallel_end, Serial, faVars
  <2>2. <<Op("end", -1)>> \in Seq(Plain)
    BY OpPlain DEF OnMask
  <2> QED BY <1>0, <2>1, <2>2, EnterKeeps
<1>3. ASSUME NEW t \in Thread, into_parallel_function(t)
      PROVE  Handlers' /\ AgentsAreCounted'
  <2>1. /\ Ready(t) /\ UNCHANGED <<state, enabled, found, lists, inTask>>
        /\ team' = team \cup {t} /\ t \in Workers
        /\ Enter(t, <<Op("work", Binding(t))>>)
    BY <1>0, <1>3 DEF into_parallel_function, faVars
  <2>2. <<Op("work", Binding(t))>> \in Seq(Plain)
    BY BindingType, OpPlain DEF OnCpu
  <2>3. \A i \in Agent : AgentThread[i] # t
    BY <1>0, <2>1 DEF Workers
  <2> QED BY <1>0, <2>1, <2>2, <2>3, EnterKeeps
<1> QED BY <1>1, <1>2, <1>3

(* Blocking calls. *)
LEMMA BlockingKeeps ==
  ASSUME Handlers, AgentsAreCounted, FA, into_blocking_call \/ outof_blocking_call
  PROVE  Handlers' /\ AgentsAreCounted'
<1> DEFINE lend == <<OnSet("LendCpuMask", {First})>>
           reclaim == <<OnSet("ReclaimCpuMask", {First})>>
<1>0. /\ Primary \in Thread /\ FA /\ ~O5 /\ ~RS
      /\ \A i \in Agent : AgentThread[i] \notin team
                          /\ (AgentThread[i] \in inTask => lists[i] # -1)
  <2>1. \A i \in Agent : AgentThread[i] \notin team
                         /\ (AgentThread[i] \in inTask => lists[i] # -1)
    BY DEF Handlers
  <2> QED BY <2>1, ThreadAssumption, OneManager, Zenon
<1>1. /\ Ready(Primary) /\ UNCHANGED <<state, enabled, found, lists, team, inTask>>
      /\ \/ Enter(Primary, lend \o <<Op("into", -1)>>)
         \/ Enter(Primary, reclaim \o <<>>)
         \/ Enter(Primary, reclaim \o <<Op("outof", -1)>>)
  <2>1. CASE into_blocking_call
    BY <1>0, <2>1 DEF into_blocking_call, Serial, faVars
  <2>2. CASE outof_blocking_call
    BY <1>0, <2>2 DEF outof_blocking_call, faVars
  <2> QED BY <2>1, <2>2
<1>2. /\ lend \in Seq(Plain) /\ reclaim \in Seq(Plain) /\ <<>> \in Seq(Plain)
      /\ <<Op("into", -1)>> \in Seq(Plain) /\ <<Op("outof", -1)>> \in Seq(Plain)
  BY FirstType, OpPlain, PlainSeq DEF OnMask
<1> HIDE DEF lend, reclaim
<1>3. /\ lend \o <<Op("into", -1)>> \in Seq(Plain) /\ reclaim \o <<>> \in Seq(Plain)
      /\ reclaim \o <<Op("outof", -1)>> \in Seq(Plain)
  BY <1>2, PlainSeq
<1> QED BY <1>0, <1>1, <1>3, EnterKeeps

(* Explicit tasks: an agent that executes one is bound to a CPU. *)
LEMMA TasksKeep ==
  ASSUME Handlers, AgentsAreCounted, FA, NEW t \in Thread,
         task_create(t) \/ task_switch(t) \/ task_complete(t)
  PROVE  Handlers' /\ AgentsAreCounted'
<1>0. /\ FA /\ ~O5 /\ ~RS
      /\ \A i \in Agent : AgentThread[i] \notin team
                          /\ (AgentThread[i] \in inTask => lists[i] # -1)
  <2>1. \A i \in Agent : AgentThread[i] \notin team
                         /\ (AgentThread[i] \in inTask => lists[i] # -1)
    BY DEF Handlers
  <2> QED BY <2>1, OneManager, Zenon
<1>1. Asks(t) = <<Op("acquire", -1)>>
  BY <1>0 DEF Asks
<1>2. Asks(t) \in Seq(Plain) /\ <<>> \in Seq(Plain)
  BY <1>1, OpPlain, PlainSeq DEF OnMask
<1>3. CASE task_create(t)
  <2>1. Ready(t) /\ Enter(t, Asks(t)) /\ UNCHANGED <<state, enabled, found, lists, team, inTask>>
    BY <1>3 DEF task_create, faVars
  <2> QED BY <1>0, <1>2, <2>1, EnterKeeps
<1>4. CASE task_switch(t)
  <2>1. /\ Ready(t)
        /\ Enter(t, Asks(t)) \/ Enter(t, <<>>)
        /\ UNCHANGED <<state, enabled, found, lists, team>> /\ inTask' = inTask \cup {t}
        /\ t \in team \/ IsAgent(t) \/ t = Primary
    BY <1>4 DEF task_switch, faVars
  <2>2. ASSUME NEW i \in Agent, AgentThread[i] \in inTask'
        PROVE  lists[i] # -1
    <3>1. CASE AgentThread[i] \in inTask
      BY <1>0, <3>1
    <3>2. CASE AgentThread[i] = t
      <4>1. AgentThread[i] # Primary
        BY AgentsAssumption
      <4>2. IsAgent(t)
        BY <1>0, <2>1, <3>2, <4>1
      <4>3. PICK j \in Agent : AgentThread[j] = t /\ lists[j] # -1
        BY <1>0, <4>2 DEF IsAgent, AgentIds
      <4> QED BY <3>2, <4>3, AgentsAssumption
    <3> QED BY <2>1, <2>2, <3>1, <3>2
  <2> QED BY <1>0, <1>2, <2>1, <2>2, EnterKeeps
<1>5. CASE task_complete(t)
  <2> DEFINE p == <<Op("complete", lists[Min(AgentIds(t))])>>
  <2>1. /\ Ready(t) /\ t \in inTask /\ UNCHANGED <<state, enabled, found, lists, team>>
        /\ inTask' = inTask \ {t}
        /\ (AgentIds(t) # {} /\ Enter(t, p)) \/ Enter(t, <<>>)
    <3>1. CASE AgentIds(t) # {}
      BY <1>0, <1>5, <3>1 DEF task_complete, faVars
    <3>2. CASE AgentIds(t) = {}
      BY <1>0, <1>5, <3>2 DEF task_complete, faVars
    <3> QED BY <3>1, <3>2
  <2>2. AgentIds(t) # {} => p \in Seq(Plain)
    <3>1. SUFFICES ASSUME AgentIds(t) # {}
                   PROVE  p \in Seq(Plain)
      OBVIOUS
    <3>2. AgentIds(t) \in SUBSET Agent
      BY DEF AgentIds
    <3>3. Min(AgentIds(t)) \in AgentIds(t)
      BY <3>1, <3>2, CpusFinite, MinType
    <3>4. lists[Min(AgentIds(t))] \in Cpu
      BY <1>0, <2>1, <3>3 DEF AgentIds, Handlers
    <3> QED BY <3>4, OpPlain DEF OnCpu
  <2> HIDE DEF p
  <2> QED BY <1>0, <1>2, <2>1, <2>2, EnterKeeps
<1> QED BY <1>3, <1>4, <1>5

(* An agent registers, and the other processes of the node go on. *)
LEMMA QuietKeeps ==
  ASSUME Handlers, AgentsAreCounted, FA,
         \/ \E i \in Tid : thread_begin(i)
         \/ OtherProcesses \/ nested_parallel
  PROVE  Handlers' /\ AgentsAreCounted'
<1>0. FA /\ ~O5 /\ ~RS
  BY OneManager
<1>1. UNCHANGED <<todo, state, enabled, found, team, inTask>>
  <2>1. ASSUME NEW i \in Tid, thread_begin(i)
        PROVE  UNCHANGED <<todo, state, enabled, found, team, inTask>>
    BY <1>0, <2>1 DEF thread_begin, fa_thread_begin, Others
  <2>2. CASE OtherProcesses
    BY <2>2 DEF OtherProcesses, OthersDo, faVars
  <2>3. CASE nested_parallel
    BY <2>3 DEF nested_parallel, faVars
  <2> QED BY <2>1, <2>2, <2>3
<1>2. AgentsAreCounted'
  BY <1>1 DEF AgentsAreCounted, Doing, Does, Found
<1>3. /\ lists' \in [Agent -> Cpu \cup {-1}]
      /\ \A i \in Agent : lists[i] # -1 => lists'[i] # -1
  <2>1. ASSUME NEW i \in Tid, thread_begin(i)
        PROVE  /\ lists' \in [Agent -> Cpu \cup {-1}]
               /\ \A j \in Agent : lists[j] # -1 => lists'[j] # -1
    <3>1. /\ i \in Agent /\ get_free_agent_binding(i) # -1
          /\ lists' = [lists EXCEPT ![i] = get_free_agent_binding(i)]
      BY <1>0, <2>1 DEF thread_begin, fa_thread_begin
    <3>2. get_free_agent_binding(i) \in Cpu \cup {-1}
      BY <3>1, AgentBindingType
    <3> QED BY <3>1, <3>2 DEF Handlers
  <2>2. CASE UNCHANGED lists
    BY <2>2 DEF Handlers
  <2>3. OtherProcesses \/ nested_parallel => UNCHANGED lists
    BY DEF OtherProcesses, nested_parallel, faVars
  <2> QED BY <2>1, <2>2, <2>3
<1> QED BY <1>1, <1>2, <1>3 DEF Handlers

-----------------------------------------------------------------------------
(* The theorem *)

(* At the start no agent is enabled and no handler runs. *)
LEMMA InitInv == Init => Inv
<1> SUFFICES ASSUME Init
             PROVE  Inv
  OBVIOUS
<1>2. /\ manager = "none" /\ team = {} /\ inTask = {} /\ enabled = 0
      /\ todo = [t \in Thread |-> <<>>] /\ lists = [i \in Agent |-> -1]
  BY DEF Init, EnvInit, FreeAgentsInit
<1>3. ~FA
  BY <1>2 DEF FA
<1>4. NotStarted
  BY <1>2 DEF NotStarted
<1> QED BY <1>3, <1>4, Zenon DEF Inv

(* The bits that are set at the start are those that were found. *)
LEMMA StartBits ==
  ASSUME omptm_free_agents_init
  PROVE  state' \in [Slot -> SUBSET Bits] /\ EnabledCpus' = Found("ENABLED")'
<1>1. First \in Cpu /\ -1 \notin Cpu
  BY FirstType, CpuAssumption, FS_CardinalityType
<1>2. PICK l \in Launches :
        found' = [c \in Slot |-> IF c \in Spare' \cup {-1} THEN l.memory[c] ELSE {}]
  BY DEF omptm_free_agents_init
<1>3. state' = [c \in Slot |-> IF c = First THEN {"IN_PARALLEL"}
                               ELSE IF c \in WorkerMask' THEN {"IDLE"} ELSE found'[c] \cap Bits]
  BY DEF omptm_free_agents_init
<1>4. WorkerMask' \in SUBSET Cpu /\ Spare' = ProcessMask \ (WorkerMask' \cup {First})
  BY CpuAssumption DEF WorkerMask, Spare
<1>5. found'[First] = {} /\ \A c \in WorkerMask' : found'[c] = {}
  BY <1>1, <1>2, <1>4 DEF Slot
<1>6. \A c \in Slot : "ENABLED" \in state'[c] <=> "ENABLED" \in found'[c]
  BY <1>3, <1>5 DEF Bits
<1>7. state' \in [Slot -> SUBSET Bits]
  BY <1>3 DEF Bits
<1>8. EnabledCpus' = {c \in Slot : "ENABLED" \in state'[c]}
  BY DEF EnabledCpus
<1>9. Found("ENABLED")' = {c \in Slot : "ENABLED" \in found'[c]}
  BY DEF Found
<1> QED BY <1>6, <1>7, <1>8, <1>9

(* The tool starts: nothing has been counted, and the primary thread may   *)
(* lend.                                                                   *)
LEMMA StartKeeps ==
  ASSUME Inv, omptool_initialize, FA'
  PROVE  Handlers' /\ AgentsAreCounted'
<1>1. NotStarted
  BY Zenon DEF omptool_initialize, Inv
<1>2. /\ UNCHANGED <<enabled, lists, team, inTask>> /\ omptm_free_agents_init
      /\ Enter(Primary, <<Op("lend", -1)>>) \/ Enter(Primary, <<>>)
  <2>1. manager' = "free agents"
    BY DEF FA
  <2>2. \E lend \in BOOLEAN :
          /\ Enter(Primary, CASE manager' = "free agents" /\ lend -> <<Op("lend", -1)>>
                              [] manager' = "omp5" /\ lend ->
                                     <<Op("only mine", -1), Op("SetMaxParallelism", -1)>>
                              [] OTHER -> <<>>)
          /\ IF manager' = "free agents" THEN omptm_free_agents_init ELSE UNCHANGED faVars
    BY DEF omptool_initialize
  <2>3. omptm_free_agents_init
    BY <2>1, <2>2
  <2> QED BY <2>1, <2>2, <2>3 DEF omptool_initialize, omptm_free_agents_init
<1>3. PICK q \in Seq(Plain) : Enter(Primary, q)
  BY <1>2, OpPlain, PlainSeq DEF OnMask
<1>4. /\ Primary \in Thread /\ <<>> \in Program /\ q \in Program
      /\ q # <<>> => Head(q).op \notin {"enabled", "disabled"}
  BY ThreadAssumption, PlainIsProgram DEF Program
<1>5. todo' = [t \in Thread |-> IF t = Primary THEN q ELSE <<>>]
  BY <1>1, <1>3, <1>4 DEF NotStarted, Enter
<1>6. todo' \in [Thread -> Program] /\ Enabling' = {} /\ Disabling' = {}
  BY <1>4, <1>5 DEF Enabling, Disabling, Does
<1>7. Handlers'
  BY <1>1, <1>2, <1>6, StartBits DEF NotStarted, Handlers
<1>8. AgentsAreCounted'
  <2>1. Cardinality(Enabling') = 0 /\ Cardinality(Disabling') = 0 /\ enabled' = 0
    BY <1>1, <1>2, <1>6, FS_EmptySet DEF NotStarted
  <2>2. Cardinality(EnabledCpus') = Cardinality(Found("ENABLED")')
    BY <1>2, StartBits
  <2>3. IsFiniteSet(Slot) /\ EnabledCpus' \in SUBSET Slot
    BY CpuAssumption, FS_AddElement DEF Slot, EnabledCpus
  <2>4. Cardinality(EnabledCpus') \in Nat
    BY <2>3, FS_Subset, FS_CardinalityType
  <2>5. enabled' + Cardinality(Enabling') - Cardinality(Disabling')
          = Cardinality(EnabledCpus') - Cardinality(Found("ENABLED")')
    BY <2>1, <2>2, <2>4
  <2> QED BY <2>5 DEF AgentsAreCounted, Doing, Enabling, Disabling, EnabledCpus
<1> QED BY <1>7, <1>8

(* Everything but the start and the end of the tool happens while it runs, *)
(* and leaves the manager alone.                                           *)
Events ==
    \/ parallel_begin \/ nested_parallel \/ parallel_end
    \/ into_blocking_call \/ outof_blocking_call \/ lend_from_api
    \/ OtherProcesses
    \/ \E i \in Tid : thread_begin(i) \/ thread_role_shift(i)
    \/ \E t \in Thread :
         \/ into_parallel_function(t)
         \/ task_create(t) \/ task_switch(t) \/ task_complete(t)
         \/ ManagerStep(t) \/ LewiStep(t)

(* No event happens before the tool starts. *)
LEMMA EventsRun ==
  ASSUME Inv, Events
  PROVE  tool # "off" /\ UNCHANGED <<manager, tool>>
<1>1. CASE parallel_begin \/ nested_parallel \/ parallel_end \/ into_blocking_call
           \/ outof_blocking_call \/ lend_from_api \/ OtherProcesses
  BY <1>1 DEF parallel_begin, nested_parallel, parallel_end, into_blocking_call,
              outof_blocking_call, lend_from_api, OtherProcesses, Serial, Running, toolVars
<1>2. ASSUME NEW i \in Tid, thread_begin(i) \/ thread_role_shift(i)
      PROVE  tool # "off" /\ UNCHANGED <<manager, tool>>
  BY <1>2 DEF thread_begin, thread_role_shift, Running, toolVars
<1>3. ASSUME NEW t \in Thread, into_parallel_function(t) \/ task_create(t) \/ task_switch(t)
                               \/ task_complete(t)
      PROVE  tool # "off" /\ UNCHANGED <<manager, tool>>
  BY <1>3 DEF into_parallel_function, task_create, task_switch, task_complete, Running, toolVars
<1>4. ASSUME NEW t \in Thread, ManagerStep(t)
      PROVE  tool # "off" /\ UNCHANGED <<manager, tool>>
  <2>1. manager \in {"free agents", "role shift", "omp5"} /\ UNCHANGED <<manager, tool>>
    BY <1>4 DEF ManagerStep, FA, RS, O5, toolVars
  <2> QED BY <2>1 DEF Inv, NotStarted
<1>5. ASSUME NEW t \in Thread, LewiStep(t)
      PROVE  tool # "off" /\ UNCHANGED <<manager, tool>>
  <2>1. todo[t] # <<>> /\ UNCHANGED <<manager, tool>>
    BY <1>5 DEF LewiStep, LewiCall, Does, toolVars, DLB_LendCpuMask, DLB_ReclaimCpuMask,
                DLB_AcquireCpusInMask, DLB_BorrowCpus, DLB_Return, DLB_ReturnCpu,
                DLB_SetMaxParallelism
  <2> QED BY <2>1 DEF Inv, NotStarted
<1> QED BY <1>1, <1>2, <1>3, <1>4, <1>5 DEF Events

(* The events with the manager for free agents. *)
LEMMA EventsKeep ==
  ASSUME Handlers, AgentsAreCounted, FA, Events
  PROVE  Handlers' /\ AgentsAreCounted'
<1>0. ~O5 /\ ~RS
  BY OneManager
<1>1. CASE parallel_begin \/ parallel_end \/ \E t \in Thread : into_parallel_function(t)
  BY <1>1, ParallelKeeps
<1>2. CASE into_blocking_call \/ outof_blocking_call
  BY <1>2, BlockingKeeps
<1>3. CASE nested_parallel \/ OtherProcesses \/ \E i \in Tid : thread_begin(i)
  BY <1>3, QuietKeeps
<1>4. ~lend_from_api /\ ~(\E i \in Tid : thread_role_shift(i))
  BY <1>0 DEF lend_from_api, thread_role_shift
<1>5. ASSUME NEW t \in Thread, task_create(t) \/ task_switch(t) \/ task_complete(t)
      PROVE  Handlers' /\ AgentsAreCounted'
  BY <1>5, TasksKeep
<1>6. ASSUME NEW t \in Thread, ManagerStep(t)
      PROVE  Handlers' /\ AgentsAreCounted'
  <2>1. FaStep(t)
    BY <1>0, <1>6 DEF ManagerStep
  <2> QED BY <2>1, FaStepKeeps
<1>7. ASSUME NEW t \in Thread, LewiStep(t)
      PROVE  Handlers' /\ AgentsAreCounted'
  <2>1. LewiCall(t) /\ UNCHANGED <<state, enabled, found, lists>>
    BY <1>7 DEF LewiStep, faVars
  <2> QED BY <2>1, LewiCallKeeps
<1> QED BY <1>1, <1>2, <1>3, <1>4, <1>5, <1>6, <1>7 DEF Events

(* Every step keeps the invariant. *)
LEMMA NextInv == Inv /\ [Next]_vars => Inv'
<1> SUFFICES ASSUME Inv, [Next]_vars
             PROVE  Inv'
  OBVIOUS
<1>1. CASE UNCHANGED vars
  <2>1. UNCHANGED <<manager, tool, todo, state, found, lists, enabled, team, inTask>>
    BY <1>1 DEF vars, envVars, faVars, toolVars
  <2> QED BY <2>1 DEF Inv, NotStarted, FA, Handlers, AgentsAreCounted, Doing, Does, Found
<1>2. CASE omptool_initialize
  <2>1. tool' \in {"on", "done"}
    BY <1>2 DEF omptool_initialize
  <2>2. FA' => Handlers' /\ AgentsAreCounted'
    BY <1>2, StartKeeps
  <2> QED BY <2>1, <2>2 DEF Inv
<1>3. CASE omptool_finalize \/ \E i \in Tid \cup {SystemSize} : thread_begin_aborts(i)
  <2>1. tool' = "done" /\ manager' = "none"
    BY <1>3 DEF omptool_finalize, thread_begin_aborts
  <2> QED BY <2>1 DEF Inv, FA
<1>4. CASE Events
  <2>1. tool' # "off" /\ (FA' <=> FA)
    BY <1>4, EventsRun DEF FA
  <2>2. FA => Handlers' /\ AgentsAreCounted'
    BY <1>4, EventsKeep DEF Inv
  <2> QED BY <2>1, <2>2 DEF Inv
<1> QED BY <1>1, <1>2, <1>3, <1>4 DEF Next, Events

(* With the manager for free agents, num_enabled_free_agents and the       *)
(* threads that have still to change it match the bits of the CPUs at any  *)
(* time, although every thread may run cb_enable_cpu and cb_disable_cpu on *)
(* any CPU: the counter does not drift.  It is short of the bits that were *)
(* set in the memory that omptm_free_agents__init does not write: those of *)
(* spare CPUs, and of the memory in front of cpu_data.                     *)
THEOREM AgentsStayCounted == Spec => []FreeAgentsCounted
<1>1. Inv => FreeAgentsCounted
  BY DEF Inv, FreeAgentsCounted
<1> QED BY <1>1, InitInv, NextInv, PTL DEF Spec
=============================================================================
