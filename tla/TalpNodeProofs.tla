--------------------------- MODULE TalpNodeProofs ---------------------------
(***************************************************************************)
(* Proofs about TalpNode: all ranks reduce the same regions at the end.    *)
(***************************************************************************)
EXTENDS TalpNode, FiniteSetTheorems, TLAPS

-----------------------------------------------------------------------------
(* The invariant *)

(* The positions of s are numbered from 1. *)
Numbered(s) == s \in Seq({s[i] : i \in DOMAIN s})

Place == {"off", "opened", "refused", "initialized", "on", "temporary", "unusable", "post",
          "barrier", "queried",
          "summary", "gathered", "exchange", "reduce", "done", "dead"}

Shape ==
  /\ pop \in BOOLEAN
  /\ pc \in [Procs -> Place]
  /\ tree \in [Procs -> [Name -> Nat]]
  /\ heap = [p \in Procs |-> heap[p]] /\ \A p \in Procs : Numbered(heap[p])
  /\ reduced \in [Procs -> SUBSET Name]

(* A rank that has registered the regions of all others. *)
Past(p) == pc[p] \in {"reduce", "done"}

(* The first rank to get past the exchange has waited for all, so that     *)
(* nobody registers a region by itself any more; the ranks past it have    *)
(* the same names, and these include those of the ranks still in it.       *)
Exchange ==
  /\ (\E p \in Procs : Past(p)) => \A q \in Procs : pc[q] \in {"exchange", "reduce", "done", "dead"}
  /\ \A p, q \in Procs : Past(p) /\ Past(q) => exchanged(p) = exchanged(q)
  /\ \A p, q \in Procs : Past(p) /\ pc[q] = "exchange" => RegisteredNames(q) \subseteq exchanged(p)

Agreed ==
  IF pop THEN Exchange ELSE \A p \in Procs : pc[p] = "done" => reduced[p] = {}

Inv == Shape /\ Agreed

-----------------------------------------------------------------------------
(* Sequences and sets *)

(* A sequence of anything is numbered. *)
LEMMA SeqNumbered ==
  ASSUME NEW S, NEW s \in Seq(S)
  PROVE  Numbered(s)
BY DEF Numbered

(* And the empty one. *)
LEMMA EmptyNumbered == Numbered(<<>>)
<1>1. <<>> \in Seq({})
  OBVIOUS
<1> QED BY <1>1, SeqNumbered

(* So is a function on the first numbers. *)
LEMMA FunctionNumbered ==
  ASSUME NEW n \in Nat, NEW s, s = [i \in 1..n |-> s[i]]
  PROVE  Numbered(s) /\ Len(s) = n
BY DEF Numbered

(* What is numbered has a length, and is a function on its positions. *)
LEMMA NumberedLen ==
  ASSUME NEW s, Numbered(s)
  PROVE  Len(s) \in Nat /\ DOMAIN s = 1..Len(s)
BY DEF Numbered

(* Appending an element to what is numbered. *)
LEMMA AppendNumbered ==
  ASSUME NEW s, Numbered(s), NEW e
  PROVE  Numbered(Append(s, e))
<1> DEFINE R == {s[i] : i \in DOMAIN s} \cup {e}
<1>1. s \in Seq(R)
  BY DEF Numbered
<1>2. Append(s, e) \in Seq(R)
  BY <1>1
<1> QED BY <1>2, SeqNumbered

(* Two sequences one after the other. *)
LEMMA ConcatNumbered ==
  ASSUME NEW s, NEW t, Numbered(s), Numbered(t)
  PROVE  Numbered(s \o t)
<1> DEFINE R == {s[i] : i \in DOMAIN s} \cup {t[i] : i \in DOMAIN t}
<1>1. s \in Seq(R) /\ t \in Seq(R)
  BY DEF Numbered
<1>2. s \o t \in Seq(R)
  BY <1>1
<1> QED BY <1>2, SeqNumbered

(* SetToSeq puts every element of a finite set somewhere. *)
LEMMA SetToSeqCovers ==
  ASSUME NEW S, IsFiniteSet(S)
  PROVE  /\ Numbered(SetToSeq(S))
         /\ \A x \in S : \E i \in DOMAIN SetToSeq(S) : SetToSeq(S)[i] = x
<1> DEFINE n == Cardinality(S)
           f == SetToSeq(S)
<1>1. n \in Nat
  BY FS_CardinalityType
<1>2. \E g \in [1..n -> S] : IsInjective(g)
  <2>1. \E g \in Bijection(1..n, S) : TRUE
    BY FS_NatBijection, FS_CardinalityType DEF ExistsBijection
  <2>2. PICK g : g \in Bijection(1..n, S)
    BY <2>1
  <2> QED BY <2>2 DEF Bijection, Injection, IsInjective
<1>3. f \in [1..n -> S] /\ IsInjective(f)
  BY <1>2 DEF SetToSeq
<1>4. Numbered(f)
  BY <1>1, <1>3 DEF Numbered
<1>5. f \in Surjection(1..n, S)
  <2>1. f \in Injection(1..n, S)
    BY <1>3 DEF Injection
  <2>2. IsFiniteSet(1..n) /\ Cardinality(1..n) = n
    BY <1>1, FS_Interval
  <2> QED BY <2>1, <2>2, FS_Injection
<1>6. \A x \in S : \E i \in DOMAIN f : f[i] = x
  BY <1>3, <1>5 DEF Surjection
<1> QED BY <1>4, <1>6

-----------------------------------------------------------------------------
(* Steps by what they do to the exchange *)

(* The process is neither past the exchange nor in it, so nobody is past   *)
(* it; whatever the process registers, nobody gets past it now.            *)
LEMMA BeforeExchange ==
  ASSUME Inv, NEW p \in Procs,
         pc[p] \notin {"exchange", "reduce", "done", "dead"},
         pc' = [pc EXCEPT ![p] = pc'[p]],
         pc'[p] \notin {"reduce", "done"} \/ (~pop /\ pc'[p] = "reduce"),
         reduced' = reduced, pop' = pop
  PROVE  Agreed'
<1>1. CASE pop
  <2>1. \A q \in Procs : ~Past(q)
    BY <1>1 DEF Inv, Agreed, Exchange
  <2>2. \A q \in Procs : ~Past(q)'
    BY <1>1, <2>1 DEF Past, Inv, Shape
  <2>3. Exchange'
    BY <2>2 DEF Exchange
  <2> QED BY <1>1, <2>3 DEF Agreed
<1>2. CASE ~pop
  <2>1. \A q \in Procs : pc'[q] = "done" => pc[q] = "done"
    BY <1>2 DEF Inv, Shape
  <2> QED BY <1>2, <2>1 DEF Inv, Agreed
<1> QED BY <1>1, <1>2

(* The processes stay where they are, with the same regions. *)
LEMMA SameExchange ==
  ASSUME Inv, pc' = pc, tree' = tree, reduced' = reduced, pop' = pop
  PROVE  Agreed'
<1>1. Exchange => Exchange'
  BY DEF Exchange, Past, exchanged, RegisteredNames
<1> QED BY <1>1 DEF Inv, Agreed

(* The shape is kept by a step that changes the monitors of one process at *)
(* most, and keeps them numbered.                                          *)
LEMMA ShapeStep ==
  ASSUME Shape, NEW p \in Procs, NEW h, Numbered(h),
         heap' = [heap EXCEPT ![p] = h],
         pop' = pop, pc' \in [Procs -> Place], tree' \in [Procs -> [Name -> Nat]],
         reduced' \in [Procs -> SUBSET Name]
  PROVE  Shape'
<1>1. \A q \in Procs : heap'[q] = IF q = p THEN h ELSE heap[q]
  BY DEF Shape
<1>2. heap' = [q \in Procs |-> heap'[q]]
  BY <1>1 DEF Shape
<1>3. \A q \in Procs : Numbered(heap'[q])
  BY <1>1 DEF Shape
<1> QED BY <1>2, <1>3 DEF Shape

(* Adding time to the open regions. *)
LEMMA AggregatedNumbered ==
  ASSUME Shape, NEW p \in Procs, NEW d
  PROVE  Numbered(aggregated(p, d))
<1>1. Len(heap[p]) \in Nat /\ DOMAIN heap[p] = 1..Len(heap[p])
  BY NumberedLen DEF Shape
<1> QED BY <1>1, FunctionNumbered DEF aggregated

(* A new monitor. *)
LEMMA InsertNumbered ==
  ASSUME Shape, NEW p \in Procs, NEW n
  PROVE  Numbered(insert(p, n).heap) /\ insert(p, n).id \in Nat \ {0}
<1>1. Len(heap[p]) \in Nat /\ DOMAIN heap[p] = 1..Len(heap[p])
  BY NumberedLen DEF Shape
<1> DEFINE freed == [i \in DOMAIN heap[p] |-> IF i = tree[p][n]
                       THEN [heap[p][i] EXCEPT !.alive = FALSE] ELSE heap[p][i]]
<1>2. Numbered(freed)
  BY <1>1, FunctionNumbered
<1>3. \A m : Numbered(Append(freed, m))
  BY <1>2, AppendNumbered
<1> QED BY <1>1, <1>3 DEF insert

(* A step of a process that has not come to the exchange. *)
LEMMA EarlyStep ==
  ASSUME Inv, NEW p \in Procs, NEW h,
         pc[p] \notin {"exchange", "reduce", "done", "dead"},
         pc' = [pc EXCEPT ![p] = pc'[p]], pc'[p] \in Place,
         pc'[p] \notin {"reduce", "done"} \/ (~pop /\ pc'[p] = "reduce"),
         Numbered(h), heap' = [heap EXCEPT ![p] = h] \/ heap' = heap,
         tree' \in [Procs -> [Name -> Nat]] \/ tree' = tree,
         reduced' = reduced, pop' = pop
  PROVE  Inv'
<1>1. Agreed'
  BY BeforeExchange
<1>2. Shape
  BY DEF Inv
<1>3. pc' \in [Procs -> Place] /\ reduced' \in [Procs -> SUBSET Name]
  BY <1>2 DEF Shape
<1>4. tree' \in [Procs -> [Name -> Nat]]
  BY <1>2 DEF Shape
<1>5. Shape'
  <2>1. CASE heap' = heap
    BY <1>2, <1>3, <1>4, <2>1 DEF Shape
  <2>2. CASE heap' = [heap EXCEPT ![p] = h]
    BY <1>2, <1>3, <1>4, <2>2, ShapeStep
  <2> QED BY <2>1, <2>2
<1> QED BY <1>1, <1>5 DEF Inv

(* Starting a region again after a collection. *)
LEMMA ResumeStep ==
  ASSUME Inv, NEW p \in Procs, NEW s, resume_region(p, s),
         pc[p] \in {"barrier", "queried"},
         pop' = pop, tree' = tree, reduced' = reduced
  PROVE  Inv'
<1>1. pc' = [pc EXCEPT ![p] = "on"]
  BY DEF resume_region
<1>2. pc'[p] = "on" /\ pc' = [pc EXCEPT ![p] = pc'[p]]
  BY <1>1 DEF Inv, Shape
<1>3. CASE heap' = heap
  <2>1. Numbered(heap[p])
    BY DEF Inv, Shape
  <2> QED BY <1>2, <1>3, <2>1, EarlyStep DEF Place
<1>4. CASE heap' # heap
  <2>1. PICK d : heap' = [heap EXCEPT ![p] = aggregated(p, d)]
    BY <1>4 DEF resume_region
  <2>2. Numbered(aggregated(p, d))
    BY AggregatedNumbered DEF Inv
  <2> QED BY <1>2, <2>1, <2>2, EarlyStep DEF Place
<1> QED BY <1>3, <1>4

-----------------------------------------------------------------------------
(* The steps before the exchange *)

(* The steps that leave a process where it is, with the same regions. *)
LEMMA StayStep ==
  ASSUME Inv,
         \/ \E p \in Procs :
              \/ Update(p)
              \/ \E n \in Name : Start(p, n) \/ Stop(p, n) \/ Reset(p, n)
              \/ \E t \in Threads, n \in Names : Lookup(p, t, n)
         \/ \E x \in Observers : Attach(x) \/ Detach(x)
  PROVE  Inv'
<1>1. pc' = pc /\ tree' = tree /\ reduced' = reduced /\ pop' = pop
  BY DEF Update, Start, Stop, Reset, Lookup, Attach, Detach, options, unchanged_regions
<1>2. Agreed'
  BY <1>1, SameExchange
<1>3. Shape'
  <2>1. CASE heap' = heap
    BY <1>1, <2>1 DEF Inv, Shape
  <2>2. CASE \E p \in Procs : \E h : Numbered(h) /\ heap' = [heap EXCEPT ![p] = h]
    BY <1>1, <2>2, ShapeStep DEF Inv, Shape
  <2>3. ASSUME NEW p \in Procs, NEW d, aggregate(p, d)
        PROVE  Numbered(aggregated(p, d)) /\ heap' = [heap EXCEPT ![p] = aggregated(p, d)]
    BY <2>3, AggregatedNumbered DEF aggregate, Inv
  <2>4. ASSUME NEW p \in Procs, NEW n \in Name, Reset(p, n)
        PROVE  \E h : Numbered(h) /\ heap' = [heap EXCEPT ![p] = h]
    <3> DEFINE h == [heap[p] EXCEPT ![tree[p][n]].time = 0]
    <3>1. heap' = [heap EXCEPT ![p] = h]
      BY <2>4 DEF Reset
    <3>2. Len(heap[p]) \in Nat /\ DOMAIN heap[p] = 1..Len(heap[p])
      BY NumberedLen DEF Inv, Shape
    <3>3. Numbered(h)
      BY <3>2, FunctionNumbered
    <3> QED BY <3>1, <3>3
  <2>5. CASE \E p \in Procs, t \in Threads, n \in Names : Lookup(p, t, n)
    BY <2>1, <2>5 DEF Lookup
  <2>6. CASE \E x \in Observers : Attach(x) \/ Detach(x)
    BY <2>1, <2>6 DEF Attach, Detach, unchanged_regions
  <2>7. CASE \E p \in Procs : Update(p) \/ \E n \in Name : Start(p, n) \/ Stop(p, n)
    BY <2>2, <2>3, <2>7 DEF Update, Start, Stop
  <2> QED BY <2>2, <2>4, <2>5, <2>6, <2>7
<1> QED BY <1>2, <1>3 DEF Inv

(* talp_init *)
LEMMA StartUpStep ==
  ASSUME Inv, NEW p \in Procs, Open(p) \/ Initialize(p) \/ Refuse(p) \/ RegisterGlobal(p)
  PROVE  Inv'
<1>1. pop' = pop /\ reduced' = reduced
  BY DEF Open, Initialize, Refuse, RegisterGlobal, options, unchanged_regions
<1>2. CASE Open(p) \/ Initialize(p) \/ Refuse(p)
  <2>1. /\ pc[p] \in {"off", "opened", "refused"} /\ heap' = heap /\ tree' = tree
        /\ \/ pc' = [pc EXCEPT ![p] = "opened"] \/ pc' = [pc EXCEPT ![p] = "refused"]
           \/ pc' = [pc EXCEPT ![p] = "initialized"]
    BY <1>2 DEF Open, Initialize, Refuse, unchanged_regions
  <2>2. pc' = [pc EXCEPT ![p] = pc'[p]] /\ pc'[p] \in {"opened", "refused", "initialized"}
    BY <2>1 DEF Inv, Shape
  <2>3. Numbered(heap[p])
    BY DEF Inv, Shape
  <2> QED BY <1>1, <2>1, <2>2, <2>3, EarlyStep DEF Place
<1>3. CASE RegisterGlobal(p)
  <2> DEFINE r == insert(p, Global)
  <2>1. /\ pc[p] \in {"off", "initialized"} /\ pc' = [pc EXCEPT ![p] = "on"]
        /\ heap' = [heap EXCEPT ![p] = r.heap] /\ tree' = [tree EXCEPT ![p][Global] = r.id]
    BY <1>3 DEF RegisterGlobal
  <2>2. pc' = [pc EXCEPT ![p] = pc'[p]] /\ pc'[p] = "on"
    BY <2>1 DEF Inv, Shape
  <2>3. Numbered(r.heap) /\ r.id \in Nat
    BY InsertNumbered DEF Inv
  <2>4. tree' \in [Procs -> [Name -> Nat]]
    BY <2>1, <2>3 DEF Inv, Shape, Name
  <2> QED BY <1>1, <2>1, <2>2, <2>3, <2>4, EarlyStep DEF Place
<1> QED BY <1>2, <1>3

(* region_register, second part *)
LEMMA InsertStep ==
  ASSUME Inv, NEW p \in Procs, NEW t \in Threads, Insert(p, t)
  PROVE  Inv'
<1> DEFINE n == looked[p][t]
           r == insert(p, n)
<1>1. /\ pop' = pop /\ reduced' = reduced /\ pc' = pc /\ pc[p] = "on"
      /\ heap' = [heap EXCEPT ![p] = r.heap] /\ tree' = [tree EXCEPT ![p][n] = r.id]
  BY DEF Insert, options
<1>2. Numbered(r.heap) /\ r.id \in Nat
  BY InsertNumbered DEF Inv
<1>3. tree' \in [Procs -> [Name -> Nat]]
  BY <1>1, <1>2 DEF Inv, Shape
<1>4. pc' = [pc EXCEPT ![p] = pc'[p]] /\ pc'[p] = "on"
  BY <1>1 DEF Inv, Shape
<1> QED BY <1>1, <1>2, <1>3, <1>4, EarlyStep DEF Place

(* The collection of the metrics of a node. *)
LEMMA CollectStep ==
  ASSUME Inv, NEW p \in Procs,
         \/ Collect(p) \/ CollectInitialize(p) \/ CollectRefuse(p) \/ CollectPost(p) \/ Query(p)
         \/ RemoveTemporary(p)
  PROVE  Inv'
<1>1. pop' = pop /\ reduced' = reduced /\ tree' = tree
  BY DEF Collect, CollectInitialize, CollectRefuse, CollectPost, Query, RemoveTemporary, options,
         unchanged_regions
<1>2. Numbered(heap[p]) /\ \A d : Numbered(aggregated(p, d))
  BY AggregatedNumbered DEF Inv, Shape
<1>3. CASE Collect(p)
  <2>1. pc[p] = "on" /\ pc' \in {[pc EXCEPT ![p] = "barrier"], [pc EXCEPT ![p] = "temporary"]}
    BY <1>3 DEF Collect, next_call
  <2>2. pc' = [pc EXCEPT ![p] = pc'[p]] /\ pc'[p] \in {"barrier", "temporary"}
    BY <2>1 DEF Inv, Shape
  <2>3. \/ heap' = [heap EXCEPT ![p] = heap[p]]
        \/ \E d : heap' = [heap EXCEPT ![p] = aggregated(p, d)]
    BY <1>3 DEF Collect
  <2> QED BY <1>1, <1>2, <2>1, <2>2, <2>3, EarlyStep DEF Place
<1>4. CASE CollectInitialize(p) \/ CollectRefuse(p)
  <2>1. /\ pc[p] \in {"temporary", "unusable"} /\ heap' = heap
        /\ pc' \in {[pc EXCEPT ![p] = "unusable"], [pc EXCEPT ![p] = "post"]}
    BY <1>4 DEF CollectInitialize, CollectRefuse, unchanged_regions
  <2>2. pc' = [pc EXCEPT ![p] = pc'[p]] /\ pc'[p] \in {"unusable", "post"}
    BY <2>1 DEF Inv, Shape
  <2> QED BY <1>1, <1>2, <2>1, <2>2, EarlyStep DEF Place
<1>5. CASE CollectPost(p)
  <2>1. /\ pc[p] = "post" /\ pc' = [pc EXCEPT ![p] = "barrier"]
        /\ \/ heap' = heap
           \/ \E v : heap' = [heap EXCEPT ![p][tree[p][Collected]].slot = v]
    BY <1>5 DEF CollectPost
  <2>2. pc' = [pc EXCEPT ![p] = pc'[p]] /\ pc'[p] = "barrier"
    BY <2>1 DEF Inv, Shape
  <2>3. CASE heap' = heap
    BY <1>1, <1>2, <2>1, <2>2, <2>3, EarlyStep DEF Place
  <2>4. ASSUME NEW v, heap' = [heap EXCEPT ![p][tree[p][Collected]].slot = v]
        PROVE  Inv'
    <3> DEFINE h == [heap[p] EXCEPT ![tree[p][Collected]].slot = v]
    <3>1. heap' = [heap EXCEPT ![p] = h]
      BY <2>4
    <3>2. Numbered(h)
      BY <1>2, NumberedLen, FunctionNumbered
    <3> QED BY <1>1, <2>1, <2>2, <3>1, <3>2, EarlyStep DEF Place
  <2> QED BY <2>1, <2>3, <2>4
<1>6. CASE Query(p)
  <2>1. CASE mode = "full"
    BY <1>1, <1>6, <2>1, ResumeStep DEF Query
  <2>2. CASE mode # "full"
    <3>1. pc[p] = "barrier" /\ pc' = [pc EXCEPT ![p] = "queried"] /\ heap' = heap
      BY <1>6, <2>2 DEF Query
    <3>2. pc' = [pc EXCEPT ![p] = pc'[p]] /\ pc'[p] = "queried"
      BY <3>1 DEF Inv, Shape
    <3> QED BY <1>1, <1>2, <3>1, <3>2, EarlyStep DEF Place
  <2> QED BY <2>1, <2>2
<1>7. CASE RemoveTemporary(p)
  BY <1>1, <1>7, ResumeStep DEF RemoveTemporary
<1> QED BY <1>3, <1>4, <1>5, <1>6, <1>7

(* The end of the measures, up to the exchange. *)
LEMMA SummaryStep ==
  ASSUME Inv, NEW p \in Procs, MpiFinalize(p) \/ Summary(p) \/ AfterSummary(p)
  PROVE  Inv'
<1>1. pop' = pop /\ reduced' = reduced /\ tree' = tree
  BY DEF MpiFinalize, Summary, AfterSummary, options
<1>2. Numbered(heap[p]) /\ \A d : Numbered(aggregated(p, d))
  BY AggregatedNumbered DEF Inv, Shape
<1>3. pc[p] \in {"on", "summary", "gathered"}
  BY DEF MpiFinalize, Summary, AfterSummary, next_call
<1>4. \E x \in {"summary", "gathered", after_summary} : pc' = [pc EXCEPT ![p] = x]
  BY DEF MpiFinalize, Summary, AfterSummary
<1>5. after_summary \in Place /\ after_summary # "done" /\ (after_summary = "reduce" => ~pop)
  BY DEF after_summary, Place
<1>6. /\ pc' = [pc EXCEPT ![p] = pc'[p]] /\ pc'[p] \in Place
      /\ pc'[p] \notin {"reduce", "done"} \/ (~pop /\ pc'[p] = "reduce")
  BY <1>4, <1>5 DEF Inv, Shape, Place
<1>7. \/ heap' = heap \/ heap' = [heap EXCEPT ![p] = heap[p]]
      \/ \E d : heap' = [heap EXCEPT ![p] = aggregated(p, d)]
  BY DEF MpiFinalize, Summary, AfterSummary
<1> QED BY <1>1, <1>2, <1>3, <1>6, <1>7, EarlyStep DEF Place

-----------------------------------------------------------------------------
(* The exchange, and what comes after it *)

(* talp_register_common_mpi_regions: the process has the names of all. *)
LEMMA CommonNames ==
  ASSUME Inv, NEW p \in Procs, RegisterCommonRegions(p)
  PROVE  /\ Shape'
         /\ RegisteredNames(p)' = UNION {exchanged(q) : q \in Procs}
         /\ \A q \in Procs \ {p} : RegisteredNames(q)' = RegisteredNames(q)
<1> DEFINE all == UNION {exchanged(q) : q \in Procs}
           missing == missing_names(p)
           names == SetToSeq(missing)
           first == Len(heap[p])
           pos(n) == Position(names, n)
           s == IF mode = "full" /\ attached[p] > 0 THEN register_all(shm, p, names) ELSE shm
           mons == new_monitors(p, names, s)
           new == [n \in Name |-> IF n \in missing THEN first + pos(n) ELSE tree[p][n]]
<1>0. missing = all \ RegisteredNames(p)
  BY DEF missing_names
<1>1. Shape
  BY DEF Inv
<1>2. Numbered(heap[p]) /\ first \in Nat
  BY <1>1, NumberedLen DEF Shape
<1>3. all \subseteq Name /\ RegisteredNames(p) \subseteq all
  <2>1. \A q \in Procs : exchanged(q) \subseteq Name
    BY <1>1 DEF exchanged, RegisteredNames, Shape
  <2>2. exchanged(p) = RegisteredNames(p)
    BY DEF exchanged, RegisterCommonRegions
  <2> QED BY <2>1, <2>2
<1>4. IsFiniteSet(missing)
  <2>1. IsFiniteSet(Name)
    <3>1. IsFiniteSet(Names) /\ IsFiniteSet({Global})
      BY TalpNodeAssumption, FS_Singleton
    <3> QED BY <3>1, FS_Union DEF Name
  <2> QED BY <1>0, <1>3, <2>1, FS_Subset
<1>5. /\ Numbered(names) /\ Len(names) \in Nat /\ DOMAIN names = 1..Len(names)
      /\ \A n \in missing : pos(n) \in DOMAIN names
  <2>1. Numbered(names) /\ \A n \in missing : \E i \in DOMAIN names : names[i] = n
    BY <1>4, SetToSeqCovers
  <2> HIDE DEF names
  <2> QED BY <2>1, NumberedLen DEF Position
<1> HIDE DEF missing, names, all, s
<1>6. new \in [Name -> Nat] /\ \A n \in Name : new[n] # 0 <=> n \in all
  <2>1. \A n \in missing : first + pos(n) \in Nat /\ first + pos(n) # 0
    BY <1>2, <1>5
  <2>2. \A n \in Name \ missing : tree[p][n] \in Nat /\ (tree[p][n] # 0 <=> n \in all)
    BY <1>0, <1>1, <1>3 DEF Shape, RegisteredNames
  <2> HIDE DEF pos, first
  <2> QED BY <1>0, <2>1, <2>2, <1>3
<1>7. /\ tree' = [tree EXCEPT ![p] = new] /\ pc' = [pc EXCEPT ![p] = "reduce"]
      /\ pop' = pop /\ reduced' = reduced
      /\ heap' = [heap EXCEPT ![p] = heap[p] \o mons]
  BY DEF RegisterCommonRegions, options, missing, names, s
<1>8. Shape'
  <2>2. Numbered(mons)
    BY <1>5, FunctionNumbered DEF new_monitors
  <2> HIDE DEF mons
  <2>3. Numbered(heap[p] \o mons)
    BY <1>2, <2>2, ConcatNumbered
  <2> HIDE DEF new
  <2>4. tree' \in [Procs -> [Name -> Nat]] /\ pc' \in [Procs -> Place]
        /\ reduced' \in [Procs -> SUBSET Name]
    BY <1>1, <1>6, <1>7 DEF Shape, Place
  <2> QED BY <1>1, <1>7, <2>3, <2>4, ShapeStep
<1>9. RegisteredNames(p)' = all
  <2> HIDE DEF new
  <2>1. tree'[p] = new
    BY <1>1, <1>7 DEF Shape
  <2> QED BY <1>3, <1>6, <2>1 DEF RegisteredNames
<1>10. \A q \in Procs \ {p} : RegisteredNames(q)' = RegisteredNames(q)
  <2> HIDE DEF new
  <2> QED BY <1>1, <1>7 DEF Shape, RegisteredNames
<1> QED BY <1>8, <1>9, <1>10 DEF all

(* The exchange is over for p. *)
LEMMA ExchangeStep ==
  ASSUME Inv, NEW p \in Procs, RegisterCommonRegions(p)
  PROVE  Inv'
<1> DEFINE all == UNION {exchanged(q) : q \in Procs}
<1>1. /\ Shape' /\ RegisteredNames(p)' = all
      /\ \A q \in Procs \ {p} : RegisteredNames(q)' = RegisteredNames(q)
  BY CommonNames
<1>2. /\ pop' = pop /\ reduced' = reduced /\ pc[p] = "exchange"
      /\ pc' = [pc EXCEPT ![p] = "reduce"]
      /\ \A q \in Procs : pc[q] \in {"exchange", "reduce", "done"}
  BY DEF RegisterCommonRegions, options, everyone_exchanges
<1>3. pc'[p] = "reduce" /\ \A q \in Procs \ {p} : pc'[q] = pc[q]
  BY <1>2 DEF Inv, Shape
<1>4. /\ exchanged(p)' = all
      /\ \A q \in Procs \ {p} : exchanged(q)' = exchanged(q)
  BY <1>1, <1>2, <1>3 DEF exchanged
<1>5. ASSUME pop PROVE Agreed'
  <2>1. Exchange
    BY <1>5 DEF Inv, Agreed
  <2>2. \A q \in Procs : exchanged(q) \subseteq all
    OBVIOUS
  <2>3. \A q \in Procs : pc[q] = "exchange" => exchanged(q) = RegisteredNames(q)
    BY DEF exchanged
  <2>4. \A r \in Procs : Past(r) => exchanged(r) = all
    <3>1. ASSUME NEW r \in Procs, Past(r), NEW q \in Procs
          PROVE  exchanged(q) \subseteq exchanged(r)
      BY <1>2, <2>1, <2>3, <3>1 DEF Exchange, Past
    <3> QED BY <3>1, <2>2
  <2> HIDE DEF all
  <2>5. \A q \in Procs : pc'[q] \in {"exchange", "reduce", "done", "dead"}
    BY <1>2, <1>3
  <2>6. \A q \in Procs : Past(q)' => exchanged(q)' = all
    BY <1>3, <1>4, <2>4 DEF Past
  <2>7. \A q \in Procs : pc'[q] = "exchange" => RegisteredNames(q)' \subseteq all
    BY <1>1, <1>3, <2>2, <2>3
  <2>8. Exchange'
    BY <2>5, <2>6, <2>7 DEF Exchange
  <2> QED BY <1>2, <1>5, <2>8 DEF Agreed
<1>6. ASSUME ~pop PROVE Agreed'
  BY <1>2, <1>3, <1>6 DEF Inv, Agreed
<1> QED BY <1>1, <1>5, <1>6 DEF Inv

(* The reductions, and talp_finalize. *)
LEMMA FinalizeStep ==
  ASSUME Inv, NEW p \in Procs, Finalize(p)
  PROVE  Inv'
<1>1. Shape
  BY DEF Inv
<1> DEFINE none == [n \in Name |-> 0]
<1>2. /\ pop' = pop /\ pc[p] = "reduce" /\ pc' = [pc EXCEPT ![p] = "done"]
      /\ reduced' = [reduced EXCEPT ![p] = IF pop THEN RegisteredNames(p) ELSE {}]
      /\ tree' = [tree EXCEPT ![p] = none] /\ heap' = [heap EXCEPT ![p] = <<>>]
  BY DEF Finalize, options
<1>3. Shape'
  <2>1. Numbered(<<>>)
    BY EmptyNumbered
  <2>2. tree' \in [Procs -> [Name -> Nat]] /\ pc' \in [Procs -> Place]
    BY <1>1, <1>2 DEF Shape, Place
  <2>3. reduced' \in [Procs -> SUBSET Name]
    BY <1>1, <1>2 DEF Shape, RegisteredNames
  <2> QED BY <1>1, <1>2, <2>1, <2>2, <2>3, ShapeStep
<1>4. /\ pc'[p] = "done" /\ reduced'[p] = IF pop THEN RegisteredNames(p) ELSE {}
      /\ \A q \in Procs \ {p} : /\ pc'[q] = pc[q] /\ tree'[q] = tree[q]
                                /\ reduced'[q] = reduced[q]
  BY <1>1, <1>2 DEF Shape
<1>5. ASSUME pop PROVE Agreed'
  <2>1. \A q \in Procs : exchanged(q)' = exchanged(q)
    BY <1>2, <1>4, <1>5 DEF exchanged, RegisteredNames
  <2>2. \A q \in Procs : (Past(q)' <=> Past(q)) /\ (pc'[q] = "exchange" <=> pc[q] = "exchange")
    BY <1>2, <1>4 DEF Past
  <2>3. \A q \in Procs : pc[q] = "exchange" => RegisteredNames(q)' = RegisteredNames(q)
    BY <1>2, <1>4 DEF RegisteredNames
  <2>4. \A q \in Procs : pc[q] \in {"exchange", "reduce", "done", "dead"}
    BY <1>2, <1>5 DEF Inv, Agreed, Exchange, Past
  <2>5. \A q \in Procs : pc'[q] \in {"exchange", "reduce", "done", "dead"}
    BY <1>4, <2>4
  <2>6. Exchange'
    BY <1>5, <2>1, <2>2, <2>3, <2>5 DEF Exchange, Inv, Agreed
  <2> QED BY <1>2, <1>5, <2>6 DEF Agreed
<1>6. ASSUME ~pop PROVE Agreed'
  BY <1>2, <1>4, <1>6 DEF Inv, Agreed
<1> QED BY <1>3, <1>5, <1>6 DEF Inv

(* A process dies. *)
LEMMA CrashStep ==
  ASSUME Inv, NEW p \in Procs, Crash(p)
  PROVE  Inv'
<1>1. /\ pop' = pop /\ reduced' = reduced /\ tree' = tree /\ heap' = heap
      /\ pc' = [pc EXCEPT ![p] = "dead"] /\ pc[p] # "done"
  BY DEF Crash, unchanged_regions, options
<1>2. Shape'
  BY <1>1 DEF Inv, Shape, Place
<1>3. pc'[p] = "dead" /\ \A q \in Procs \ {p} : pc'[q] = pc[q]
  BY <1>1 DEF Inv, Shape
<1>4. Exchange => Exchange'
  <2>1. \A q \in Procs : Past(q)' => Past(q) /\ q # p
    BY <1>3 DEF Past
  <2>2. \A q \in Procs \ {p} : exchanged(q)' = exchanged(q) /\ RegisteredNames(q)' = RegisteredNames(q)
    BY <1>1, <1>3 DEF exchanged, RegisteredNames
  <2> QED BY <1>3, <2>1, <2>2 DEF Exchange
<1>5. Agreed'
  BY <1>1, <1>3, <1>4 DEF Inv, Agreed
<1> QED BY <1>2, <1>5 DEF Inv

-----------------------------------------------------------------------------
(* At the start nobody has a region. *)
LEMMA InitInv == Init => Inv
<1> SUFFICES ASSUME Init PROVE Inv
  OBVIOUS
<1>1. \A p \in Procs : heap[p] = <<>> /\ Numbered(heap[p])
  BY EmptyNumbered DEF Init
<1>2. Shape
  BY <1>1 DEF Init, Shape, Place
<1>3. \A p \in Procs : pc[p] = "off"
  BY DEF Init
<1>4. Agreed
  BY <1>3 DEF Agreed, Exchange, Past
<1> QED BY <1>2, <1>4 DEF Inv

(* Every step keeps the invariant. *)
LEMMA NextInv == Inv /\ [Next]_vars => Inv'
<1> SUFFICES ASSUME Inv, [Next]_vars PROVE Inv'
  OBVIOUS
<1>1. CASE UNCHANGED vars
  <2>1. pc' = pc /\ tree' = tree /\ reduced' = reduced /\ pop' = pop /\ heap' = heap
    BY <1>1 DEF vars
  <2>2. Shape'
    BY <2>1 DEF Inv, Shape
  <2> QED BY <2>1, <2>2, SameExchange DEF Inv
<1>2. CASE Next
  <2>1. ASSUME NEW p \in Procs, Open(p) \/ Initialize(p) \/ Refuse(p) \/ RegisterGlobal(p)
        PROVE  Inv'
    BY <2>1, StartUpStep
  <2>2. ASSUME NEW p \in Procs, NEW t \in Threads, Insert(p, t) PROVE Inv'
    BY <2>2, InsertStep
  <2>3. ASSUME NEW p \in Procs,
               \/ Collect(p) \/ CollectInitialize(p) \/ CollectRefuse(p) \/ CollectPost(p)
               \/ Query(p) \/ RemoveTemporary(p)
        PROVE  Inv'
    BY <2>3, CollectStep
  <2>4. ASSUME NEW p \in Procs, MpiFinalize(p) \/ Summary(p) \/ AfterSummary(p) PROVE Inv'
    BY <2>4, SummaryStep
  <2>5. ASSUME NEW p \in Procs, RegisterCommonRegions(p) PROVE Inv'
    BY <2>5, ExchangeStep
  <2>6. ASSUME NEW p \in Procs, Finalize(p) PROVE Inv'
    BY <2>6, FinalizeStep
  <2>7. ASSUME NEW p \in Procs, Crash(p) PROVE Inv'
    BY <2>7, CrashStep
  <2> QED BY <1>2, <2>1, <2>2, <2>3, <2>4, <2>5, <2>6, <2>7, StayStep DEF Next
<1> QED BY <1>1, <1>2

(* All ranks that have come to the end have reduced the same regions in    *)
(* talp_mpi_finalize, whichever regions each of them, any of its threads   *)
(* or the exchange registered and in whatever order they came, also when   *)
(* others die.                                                             *)
THEOREM RanksReduceAlike == Spec => []SameReductions
<1>1. Inv => SameReductions
  <2> SUFFICES ASSUME Inv, NEW p \in Procs, NEW q \in Procs, pc[p] = "done", pc[q] = "done"
               PROVE  reduced[p] = reduced[q]
    BY DEF SameReductions
  <2>1. CASE pop
    BY <2>1 DEF Inv, Agreed, Exchange, Past, exchanged
  <2>2. CASE ~pop
    BY <2>2 DEF Inv, Agreed
  <2> QED BY <2>1, <2>2
<1> QED BY <1>1, InitInv, NextInv, PTL DEF Spec
=============================================================================
