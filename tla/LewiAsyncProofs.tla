--------------------------- MODULE LewiAsyncProofs ---------------------------
(***************************************************************************)
(* Proofs about LewiAsync.                                                 *)
(*                                                                         *)
(* Sums over finite sets come first: SumFunctionOnSet is a fold, whose     *)
(* recursive function must be shown to exist before anything is known of   *)
(* it.  Induction is over the sets, by a smallest counterexample.          *)
(***************************************************************************)
EXTENDS LewiAsync, FiniteSetTheorems, WellFoundedInduction, NaturalsInduction, TLAPS

-----------------------------------------------------------------------------
(* Induction *)

(* A set of numbers that is not empty has a smallest one. *)
LEMMA SmallestNumber ==
  ASSUME NEW T \in SUBSET Nat, T # {}
  PROVE  \E x \in T : \A y \in T : x <= y
<1> DEFINE R == OpToRel(<, Nat)
<1>1. IsWellFoundedOn(R, Nat)
  BY NatLessThanWellFounded
<1>2. \E x \in T : \A y \in T : ~(<<y, x>> \in R)
  <2> HIDE DEF R
  <2> QED BY <1>1, WFMin
<1>3. PICK x \in T : \A y \in T : ~(<<y, x>> \in R)
  BY <1>2
<1>4. \A y \in T : ~(y < x)
  BY <1>3 DEF OpToRel
<1> QED BY <1>4

(* A set of subsets of a finite set that is not empty has one that is      *)
(* contained in no other smaller one.                                      *)
LEMMA SmallestSet ==
  ASSUME NEW S, IsFiniteSet(S), NEW Bad \in SUBSET SUBSET S, Bad # {}
  PROVE  \E B \in Bad : \A C \in SUBSET B : C # B => C \notin Bad
<1>1. \A B \in Bad : IsFiniteSet(B) /\ Cardinality(B) \in Nat
  BY FS_Subset, FS_CardinalityType
<1> DEFINE Sizes == {Cardinality(B) : B \in Bad}
<1>2. Sizes \in SUBSET Nat /\ Sizes # {}
  BY <1>1
<1>3. PICK n \in Sizes : \A k \in Sizes : n <= k
  <2> HIDE DEF Sizes
  <2> QED BY <1>2, SmallestNumber
<1>4. PICK B \in Bad : n = Cardinality(B)
  BY <1>3
<1>5. ASSUME NEW C \in SUBSET B, C # B, C \in Bad PROVE FALSE
  <2>1. Cardinality(C) < Cardinality(B)
    BY <1>1, <1>5, FS_Subset
  <2>2. Cardinality(B) <= Cardinality(C)
    BY <1>3, <1>4, <1>5
  <2> QED BY <2>1, <2>2, <1>1, <1>5
<1> QED BY <1>4, <1>5

-----------------------------------------------------------------------------
(* Sums *)

Pick(s) == CHOOSE x \in s : TRUE

(* g is the recursive function by which f is summed over subsets of S. *)
Summing(f, S, g) ==
  g = [s \in SUBSET S |-> IF s = {} THEN 0 ELSE f[Pick(s)] + g[s \ {Pick(s)}]]

NatOn(f, S) == \A x \in S : f[x] \in Nat

(* The element that the fold takes first is one of the set. *)
LEMMA PickIsIn == ASSUME NEW s, s # {} PROVE Pick(s) \in s
BY DEF Pick

(* Two functions by which f is summed agree where both are defined, and    *)
(* their values are numbers.                                               *)
LEMMA SummingAgree ==
  ASSUME NEW S, IsFiniteSet(S), NEW T \in SUBSET S, NEW f, NatOn(f, S), NEW g, NEW h,
         Summing(f, S, g), Summing(f, T, h)
  PROVE  \A s \in SUBSET T : g[s] = h[s] /\ h[s] \in Nat
<1> DEFINE Bad == {s \in SUBSET T : ~(g[s] = h[s] /\ h[s] \in Nat)}
<1>1. SUFFICES ASSUME Bad # {} PROVE FALSE
  OBVIOUS
<1>2. \E B \in Bad : \A C \in SUBSET B : C # B => C \notin Bad
  <2>1. IsFiniteSet(T) /\ Bad \in SUBSET SUBSET T
    BY FS_Subset
  <2> HIDE DEF Bad
  <2> QED BY <1>1, <2>1, SmallestSet
<1>3. PICK B \in Bad : \A C \in SUBSET B : C # B => C \notin Bad
  BY <1>2
<1>4. B \in SUBSET T /\ B \in SUBSET S
  OBVIOUS
<1>5. g[B] = IF B = {} THEN 0 ELSE f[Pick(B)] + g[B \ {Pick(B)}]
  BY <1>4 DEF Summing
<1>6. h[B] = IF B = {} THEN 0 ELSE f[Pick(B)] + h[B \ {Pick(B)}]
  BY <1>4 DEF Summing
<1>7. CASE B = {}
  BY <1>5, <1>6, <1>7
<1>8. CASE B # {}
  <2>1. Pick(B) \in B
    BY <1>8, PickIsIn
  <2>2. B \ {Pick(B)} \in SUBSET B /\ B \ {Pick(B)} # B /\ B \ {Pick(B)} \in SUBSET T
    BY <2>1, <1>4
  <2>3. B \ {Pick(B)} \notin Bad
    BY <2>2, <1>3
  <2>4. g[B \ {Pick(B)}] = h[B \ {Pick(B)}] /\ h[B \ {Pick(B)}] \in Nat
    BY <2>2, <2>3
  <2>5. f[Pick(B)] \in Nat
    BY <2>1, <1>4 DEF NatOn
  <2> QED BY <2>4, <2>5, <1>5, <1>6, <1>8
<1> QED BY <1>7, <1>8

(* There is a function by which f is summed over a finite set. *)
LEMMA SummingExists ==
  ASSUME NEW S, IsFiniteSet(S), NEW f, NatOn(f, S)
  PROVE  \E g : Summing(f, S, g)
<1> DEFINE Bad == {s \in SUBSET S : ~ \E g : Summing(f, s, g)}
<1>1. SUFFICES ASSUME Bad # {} PROVE FALSE
  OBVIOUS
<1>2. \E B \in Bad : \A C \in SUBSET B : C # B => C \notin Bad
  <2>1. Bad \in SUBSET SUBSET S
    OBVIOUS
  <2> HIDE DEF Bad
  <2> QED BY <1>1, <2>1, SmallestSet
<1>3. PICK B \in Bad : \A C \in SUBSET B : C # B => C \notin Bad
  BY <1>2
<1>4. IsFiniteSet(B) /\ B \in SUBSET S
  BY FS_Subset
<1>5. \A C \in SUBSET B : C # B => \E g : Summing(f, C, g)
  BY <1>3, <1>4
<1> DEFINE sub(C) == CHOOSE g : Summing(f, C, g)
           val(C) == sub(C)[C]
           G == [s \in SUBSET B |->
                  IF s = {} THEN 0 ELSE f[Pick(s)] + val(s \ {Pick(s)})]
<1>6. \A C \in SUBSET B : C # B => Summing(f, C, sub(C))
  BY <1>5
<1> HIDE DEF sub
<1>7. ASSUME NEW C \in SUBSET B, C # B PROVE G[C] = val(C)
  <2>1. Summing(f, C, sub(C)) /\ C \in SUBSET C
    BY <1>6, <1>7
  <2>2. val(C) = IF C = {} THEN 0 ELSE f[Pick(C)] + sub(C)[C \ {Pick(C)}]
    BY <2>1 DEF Summing
  <2>3. CASE C = {}
    BY <2>2, <2>3
  <2>4. CASE C # {}
    <3>1. Pick(C) \in C
      BY <2>4, PickIsIn
    <3> DEFINE D == C \ {Pick(C)}
    <3>2. D \in SUBSET B /\ D # B /\ D \in SUBSET C /\ C \in SUBSET S
      BY <3>1, <1>4
    <3>3. Summing(f, D, sub(D))
      BY <3>2, <1>6
    <3>4. IsFiniteSet(C) /\ NatOn(f, C) /\ D \in SUBSET D
      BY <3>2, FS_Subset DEF NatOn
    <3> HIDE DEF D
    <3>5. sub(C)[D] = sub(D)[D]
      BY <3>2, <3>3, <3>4, <2>1, SummingAgree
    <3>6. G[C] = f[Pick(C)] + val(D)
      BY <2>4 DEF D
    <3>7. val(C) = f[Pick(C)] + sub(C)[D]
      BY <2>2, <2>4 DEF D
    <3> QED BY <3>5, <3>6, <3>7
  <2> QED BY <2>3, <2>4
<1>8. ASSUME NEW s \in SUBSET B
      PROVE G[s] = IF s = {} THEN 0 ELSE f[Pick(s)] + G[s \ {Pick(s)}]
  <2>1. CASE s = {}
    BY <2>1
  <2>2. CASE s # {}
    <3>1. Pick(s) \in s
      BY <2>2, PickIsIn
    <3> DEFINE D == s \ {Pick(s)}
    <3>2. D \in SUBSET B /\ D # B
      BY <3>1
    <3>3. G[D] = val(D)
      <4> HIDE DEF D
      <4> QED BY <3>2, <1>7
    <3>4. G[s] = f[Pick(s)] + val(D)
      BY <2>2
    <3> HIDE DEF G, val
    <3> QED BY <2>2, <3>3, <3>4
  <2> QED BY <2>1, <2>2
<1>9. Summing(f, B, G)
  <2>1. G = [s \in SUBSET B |-> G[s]]
    OBVIOUS
  <2> HIDE DEF G
  <2>2. [s \in SUBSET B |-> G[s]]
          = [s \in SUBSET B |-> IF s = {} THEN 0 ELSE f[Pick(s)] + G[s \ {Pick(s)}]]
    BY <1>8
  <2> QED BY <2>1, <2>2 DEF Summing
<1> QED BY <1>3, <1>9

(* A sum is what some function by which f is summed gives. *)
LEMMA SumIsSumming ==
  ASSUME NEW S, IsFiniteSet(S), NEW f, NatOn(f, S)
  PROVE  \E g : Summing(f, S, g) /\ SumFunctionOnSet(f, S) = g[S]
<1> DEFINE Def(g) == [s \in SUBSET S |->
                       IF s = {} THEN 0
                       ELSE f[CHOOSE x \in s : TRUE] + g[s \ {CHOOSE x \in s : TRUE}]]
           iter == CHOOSE g : g = Def(g)
<1>1. SumFunctionOnSet(f, S) = iter[S]
  BY DEF SumFunctionOnSet, FoldFunctionOnSet, MapThenFoldSet
<1>2. \A g : Summing(f, S, g) <=> g = Def(g)
  BY DEF Summing, Pick
<1>3. \E g : g = Def(g)
  <2>1. PICK g : Summing(f, S, g)
    BY SummingExists
  <2>2. g = Def(g)
    BY <2>1, <1>2
  <2> HIDE DEF Def
  <2> QED BY <2>2
<1>4. iter = Def(iter)
  BY <1>3
<1> HIDE DEF iter
<1>5. Summing(f, S, iter)
  BY <1>2, <1>4
<1> QED BY <1>1, <1>5

(* A sum is a number; the sum over the empty set is 0.                     *)
LEMMA SumIsNat ==
  ASSUME NEW S, IsFiniteSet(S), NEW f, NatOn(f, S)
  PROVE  SumFunctionOnSet(f, S) \in Nat /\ (S = {} => SumFunctionOnSet(f, S) = 0)
<1>1. PICK g : Summing(f, S, g) /\ SumFunctionOnSet(f, S) = g[S]
  BY SumIsSumming
<1>2. S \in SUBSET S
  OBVIOUS
<1>3. g[S] \in Nat
  BY <1>1, <1>2, SummingAgree
<1>4. S = {} => g[S] = 0
  BY <1>1, <1>2 DEF Summing
<1> QED BY <1>1, <1>3, <1>4

(* The fold takes one element first. *)
LEMMA SumPicks ==
  ASSUME NEW S, IsFiniteSet(S), NEW f, NatOn(f, S), S # {}
  PROVE  SumFunctionOnSet(f, S) = f[Pick(S)] + SumFunctionOnSet(f, S \ {Pick(S)})
<1> DEFINE D == S \ {Pick(S)}
<1>1. PICK g : Summing(f, S, g) /\ SumFunctionOnSet(f, S) = g[S]
  BY SumIsSumming
<1>2. D \in SUBSET S /\ S \in SUBSET S /\ D \in SUBSET D
  OBVIOUS
<1>3. IsFiniteSet(D) /\ NatOn(f, D)
  BY <1>2, FS_Subset DEF NatOn
<1>4. g[S] = f[Pick(S)] + g[D]
  BY <1>1, <1>2 DEF Summing
<1> HIDE DEF D
<1>5. PICK h : Summing(f, D, h) /\ SumFunctionOnSet(f, D) = h[D]
  BY <1>3, SumIsSumming
<1>6. g[D] = h[D]
  BY <1>1, <1>2, <1>5, SummingAgree
<1> QED BY <1>1, <1>4, <1>5, <1>6 DEF D

(* Any element may be taken first. *)
LEMMA SumTakes ==
  ASSUME NEW S, IsFiniteSet(S), NEW f, NatOn(f, S), NEW x \in S
  PROVE  SumFunctionOnSet(f, S) = f[x] + SumFunctionOnSet(f, S \ {x})
<1> DEFINE Sum(s) == SumFunctionOnSet(f, s)
           Bad == {s \in SUBSET S : ~ \A z \in s : Sum(s) = f[z] + Sum(s \ {z})}
<1>1. SUFFICES ASSUME Bad # {} PROVE FALSE
  OBVIOUS
<1>2. \E B \in Bad : \A C \in SUBSET B : C # B => C \notin Bad
  <2>1. Bad \in SUBSET SUBSET S
    OBVIOUS
  <2> HIDE DEF Bad
  <2> QED BY <1>1, <2>1, SmallestSet
<1>3. PICK B \in Bad : \A C \in SUBSET B : C # B => C \notin Bad
  BY <1>2
<1>4. \A s \in SUBSET S : IsFiniteSet(s) /\ NatOn(f, s)
  BY FS_Subset DEF NatOn
<1>5. \A s \in SUBSET S : Sum(s) \in Nat
  BY <1>4, SumIsNat
<1>6. PICK z \in B : Sum(B) # f[z] + Sum(B \ {z})
  OBVIOUS
<1> DEFINE y == Pick(B)
<1>7. y \in B /\ B \in SUBSET S
  BY <1>6, PickIsIn
<1>8. Sum(B) = f[y] + Sum(B \ {y})
  BY <1>4, <1>6, <1>7, SumPicks
<1> HIDE DEF y
<1>9. y # z
  BY <1>6, <1>8
<1>10. Sum(B \ {y}) = f[z] + Sum((B \ {y}) \ {z})
  <2>1. B \ {y} \in SUBSET B /\ B \ {y} # B /\ B \ {y} \in SUBSET S /\ z \in B \ {y}
    BY <1>6, <1>7, <1>9
  <2>2. B \ {y} \notin Bad
    BY <2>1, <1>3
  <2> HIDE DEF Sum
  <2> QED BY <2>1, <2>2
<1>11. Sum(B \ {z}) = f[y] + Sum((B \ {z}) \ {y})
  <2>1. B \ {z} \in SUBSET B /\ B \ {z} # B /\ B \ {z} \in SUBSET S /\ y \in B \ {z}
    BY <1>6, <1>7, <1>9
  <2>2. B \ {z} \notin Bad
    BY <2>1, <1>3
  <2> HIDE DEF Sum
  <2> QED BY <2>1, <2>2
<1>12. (B \ {z}) \ {y} = (B \ {y}) \ {z}
  OBVIOUS
<1>13. f[y] \in Nat /\ f[z] \in Nat
  BY <1>6, <1>7 DEF NatOn
<1>14. (B \ {y}) \ {z} \in SUBSET S
  BY <1>7
<1>15. Sum((B \ {y}) \ {z}) \in Nat
  BY <1>5, <1>14
<1> HIDE DEF Sum
<1> QED BY <1>6, <1>8, <1>10, <1>11, <1>12, <1>13, <1>15

(* A sum is that over a part and that over the rest. *)
LEMMA SumSplits ==
  ASSUME NEW S, IsFiniteSet(S), NEW f, NatOn(f, S), NEW A \in SUBSET S
  PROVE  SumFunctionOnSet(f, S) = SumFunctionOnSet(f, A) + SumFunctionOnSet(f, S \ A)
<1> DEFINE Sum(s) == SumFunctionOnSet(f, s)
           Bad == {s \in SUBSET S : Sum(S) # Sum(s) + Sum(S \ s)}
<1>1. SUFFICES ASSUME Bad # {} PROVE FALSE
  OBVIOUS
<1>2. \E B \in Bad : \A C \in SUBSET B : C # B => C \notin Bad
  <2>1. Bad \in SUBSET SUBSET S
    OBVIOUS
  <2> HIDE DEF Bad
  <2> QED BY <1>1, <2>1, SmallestSet
<1>3. PICK B \in Bad : \A C \in SUBSET B : C # B => C \notin Bad
  BY <1>2
<1>4. \A s \in SUBSET S : IsFiniteSet(s) /\ NatOn(f, s)
  BY FS_Subset DEF NatOn
<1>5. \A s \in SUBSET S : Sum(s) \in Nat /\ (s = {} => Sum(s) = 0)
  BY <1>4, SumIsNat
<1>6. B \in SUBSET S /\ S \ B \in SUBSET S /\ S \in SUBSET S
  OBVIOUS
<1>7. CASE B = {}
  <2>1. S \ B = S /\ Sum(B) = 0 /\ Sum(S) \in Nat
    BY <1>5, <1>6, <1>7
  <2>2. Sum(S) # Sum(B) + Sum(S \ B)
    BY <1>3
  <2> HIDE DEF Sum
  <2> QED BY <2>1, <2>2
<1>8. CASE B # {}
  <2>1. PICK x \in B : TRUE
    BY <1>8
  <2> DEFINE C == B \ {x}
  <2>2. /\ C \in SUBSET B /\ C # B /\ C \in SUBSET S /\ S \ C \in SUBSET S
        /\ x \in S \ C /\ (S \ C) \ {x} = S \ B
    BY <2>1, <1>6
  <2>3. C \notin Bad
    BY <2>2, <1>3
  <2>4. Sum(S) = Sum(C) + Sum(S \ C)
    BY <2>2, <2>3
  <2>5. Sum(B) = f[x] + Sum(C)
    BY <2>1, <1>4, <1>6, SumTakes
  <2>6. IsFiniteSet(S \ C) /\ NatOn(f, S \ C)
    BY <2>2, <1>4
  <2>7. SumFunctionOnSet(f, S \ C) = f[x] + SumFunctionOnSet(f, (S \ C) \ {x})
    <3> HIDE DEF C, Sum
    <3> QED BY <2>2, <2>6, SumTakes
  <2>8. Sum(S \ C) = f[x] + Sum(S \ B)
    BY <2>2, <2>7
  <2>9. f[x] \in Nat /\ Sum(C) \in Nat /\ Sum(S \ B) \in Nat
    BY <2>1, <2>2, <1>5, <1>6 DEF NatOn
  <2>10. Sum(S) # Sum(B) + Sum(S \ B)
    BY <1>3
  <2> HIDE DEF Sum, C
  <2> QED BY <2>4, <2>5, <2>8, <2>9, <2>10
<1> QED BY <1>7, <1>8

(* The sum of the sums. *)
LEMMA SumAdds ==
  ASSUME NEW S, IsFiniteSet(S), NEW f, NEW g, NEW h, NatOn(f, S), NatOn(g, S), NatOn(h, S),
         \A x \in S : h[x] = f[x] + g[x]
  PROVE  SumFunctionOnSet(h, S) = SumFunctionOnSet(f, S) + SumFunctionOnSet(g, S)
<1> DEFINE F(s) == SumFunctionOnSet(f, s)
           G(s) == SumFunctionOnSet(g, s)
           H(s) == SumFunctionOnSet(h, s)
           Bad == {s \in SUBSET S : H(s) # F(s) + G(s)}
<1>1. SUFFICES ASSUME Bad # {} PROVE FALSE
  OBVIOUS
<1>2. \E B \in Bad : \A C \in SUBSET B : C # B => C \notin Bad
  <2>1. Bad \in SUBSET SUBSET S
    OBVIOUS
  <2> HIDE DEF Bad
  <2> QED BY <1>1, <2>1, SmallestSet
<1>3. PICK B \in Bad : \A C \in SUBSET B : C # B => C \notin Bad
  BY <1>2
<1>4. \A s \in SUBSET S : IsFiniteSet(s) /\ NatOn(f, s) /\ NatOn(g, s) /\ NatOn(h, s)
  BY FS_Subset DEF NatOn
<1>5. \A s \in SUBSET S : F(s) \in Nat /\ (s = {} => F(s) = 0)
  BY <1>4, SumIsNat
<1>6. \A s \in SUBSET S : G(s) \in Nat /\ (s = {} => G(s) = 0)
  BY <1>4, SumIsNat
<1>7. \A s \in SUBSET S : H(s) \in Nat /\ (s = {} => H(s) = 0)
  BY <1>4, SumIsNat
<1>8. B \in SUBSET S /\ H(B) # F(B) + G(B)
  BY <1>3
<1>9. CASE B = {}
  <2>1. F(B) = 0 /\ G(B) = 0 /\ H(B) = 0
    BY <1>5, <1>6, <1>7, <1>8, <1>9
  <2> HIDE DEF F, G, H
  <2> QED BY <2>1, <1>8
<1>10. CASE B # {}
  <2>1. PICK x \in B : TRUE
    BY <1>10
  <2> DEFINE C == B \ {x}
  <2>2. C \in SUBSET B /\ C # B /\ C \in SUBSET S /\ x \in S
    BY <2>1, <1>8
  <2>3. C \notin Bad
    BY <2>2, <1>3
  <2>4. H(C) = F(C) + G(C)
    BY <2>2, <2>3
  <2>5. IsFiniteSet(B) /\ NatOn(f, B) /\ NatOn(g, B) /\ NatOn(h, B)
    BY <1>4, <1>8
  <2>6. F(B) = f[x] + F(C)
    BY <2>1, <2>5, SumTakes
  <2>7. G(B) = g[x] + G(C)
    BY <2>1, <2>5, SumTakes
  <2>8. H(B) = h[x] + H(C)
    BY <2>1, <2>5, SumTakes
  <2>9. f[x] \in Nat /\ g[x] \in Nat /\ h[x] = f[x] + g[x]
    BY <2>2 DEF NatOn
  <2>10. F(C) \in Nat /\ G(C) \in Nat
    BY <2>2, <1>5, <1>6
  <2> HIDE DEF F, G, H, C
  <2> QED BY <2>4, <2>6, <2>7, <2>8, <2>9, <2>10, <1>8
<1> QED BY <1>9, <1>10

(* The sum of zeroes. *)
LEMMA SumOfZero ==
  ASSUME NEW S, IsFiniteSet(S), NEW f, \A x \in S : f[x] = 0
  PROVE  SumFunctionOnSet(f, S) = 0
<1>1. NatOn(f, S)
  BY DEF NatOn
<1>2. SumFunctionOnSet(f, S) \in Nat
  BY <1>1, SumIsNat
<1>3. SumFunctionOnSet(f, S) = SumFunctionOnSet(f, S) + SumFunctionOnSet(f, S)
  BY <1>1, SumAdds
<1> DEFINE k == SumFunctionOnSet(f, S)
<1> HIDE DEF k
<1>4. k \in Nat /\ k = k + k
  BY <1>2, <1>3 DEF k
<1>5. k = 0
  BY <1>4
<1> QED BY <1>5 DEF k

(* Functions that are equal on the set have the same sum. *)
LEMMA SumSame ==
  ASSUME NEW S, IsFiniteSet(S), NEW f, NEW g, NatOn(f, S), \A x \in S : g[x] = f[x]
  PROVE  SumFunctionOnSet(g, S) = SumFunctionOnSet(f, S)
<1> DEFINE z == [x \in S |-> 0]
<1>1. NatOn(g, S) /\ NatOn(z, S)
  BY DEF NatOn
<1>2. \A x \in S : f[x] \in Nat /\ g[x] = f[x] + z[x]
  BY DEF NatOn
<1>3. SumFunctionOnSet(z, S) = 0
  BY SumOfZero
<1> HIDE DEF z
<1>4. SumFunctionOnSet(g, S) = SumFunctionOnSet(f, S) + SumFunctionOnSet(z, S)
  BY <1>1, <1>2, SumAdds
<1> DEFINE k == SumFunctionOnSet(f, S)
<1>5. k \in Nat
  BY SumIsNat
<1> HIDE DEF k
<1>6. SumFunctionOnSet(g, S) = k
  BY <1>3, <1>4, <1>5 DEF k
<1> QED BY <1>6 DEF k

(* Greater terms have a greater sum. *)
LEMMA SumMonotone ==
  ASSUME NEW S, IsFiniteSet(S), NEW f, NEW g, NatOn(f, S), NatOn(g, S), \A x \in S : f[x] <= g[x]
  PROVE  SumFunctionOnSet(f, S) <= SumFunctionOnSet(g, S)
<1> DEFINE d == [x \in S |-> g[x] - f[x]]
<1>1. NatOn(d, S)
  BY DEF NatOn
<1>2. \A x \in S : g[x] = f[x] + d[x]
  BY DEF NatOn
<1> HIDE DEF d
<1>3. SumFunctionOnSet(g, S) = SumFunctionOnSet(f, S) + SumFunctionOnSet(d, S)
  BY <1>1, <1>2, SumAdds
<1>4. SumFunctionOnSet(f, S) \in Nat /\ SumFunctionOnSet(d, S) \in Nat
  BY <1>1, SumIsNat
<1> DEFINE a == SumFunctionOnSet(f, S)
           b == SumFunctionOnSet(d, S)
<1> HIDE DEF a, b
<1>5. a \in Nat /\ b \in Nat /\ SumFunctionOnSet(g, S) = a + b
  BY <1>3, <1>4 DEF a, b
<1>6. a <= a + b
  BY <1>5
<1> QED BY <1>5, <1>6 DEF a

(* What is zero outside a part adds nothing. *)
LEMMA SumOfPart ==
  ASSUME NEW S, IsFiniteSet(S), NEW f, NatOn(f, S), NEW A \in SUBSET S,
         \A x \in S \ A : f[x] = 0
  PROVE  SumFunctionOnSet(f, S) = SumFunctionOnSet(f, A)
<1>1. IsFiniteSet(S \ A) /\ IsFiniteSet(A) /\ NatOn(f, A)
  BY FS_Subset DEF NatOn
<1>2. SumFunctionOnSet(f, S \ A) = 0
  BY <1>1, SumOfZero
<1> DEFINE k == SumFunctionOnSet(f, A)
<1>3. k \in Nat
  BY <1>1, SumIsNat
<1> HIDE DEF k
<1>4. SumFunctionOnSet(f, S) = k + 0
  BY <1>2, SumSplits DEF k
<1> QED BY <1>3, <1>4 DEF k

-----------------------------------------------------------------------------
(* The distribution of CPUs: pop_ncpus *)

(* f is the recursive function that pop_ncpus uses, up to the m-th of the  *)
(* n entries of the queue: the CPUs left after each of them.               *)
Leaving(q, ncpus, ord, n, m, f) ==
  f = [k \in 0 .. m |->
        IF k = 0 THEN ncpus
        ELSE f[k - 1] - Min2(f[k - 1] \div (n - k + 1), q[ord[k]])]

(* There is such a function. *)
LEMMA LeavingExists ==
  ASSUME NEW q, NEW ncpus, NEW ord, NEW n, NEW m \in Nat
  PROVE  \E f : Leaving(q, ncpus, ord, n, m, f)
<1> DEFINE Bad == {k \in Nat : ~ \E f : Leaving(q, ncpus, ord, n, k, f)}
           next(x, k) == x - Min2(x \div (n - k + 1), q[ord[k]])
<1>1. SUFFICES ASSUME Bad # {} PROVE FALSE
  OBVIOUS
<1>2. \E k \in Bad : \A j \in Bad : k <= j
  <2>1. Bad \in SUBSET Nat
    OBVIOUS
  <2> HIDE DEF Bad
  <2> QED BY <1>1, <2>1, SmallestNumber
<1>3. PICK k \in Bad : \A j \in Bad : k <= j
  BY <1>2
<1>4. k \in Nat
  OBVIOUS
<1>5. CASE k = 0
  <2> DEFINE f == [j \in 0 .. 0 |-> ncpus]
  <2>1. Leaving(q, ncpus, ord, n, 0, f)
    BY DEF Leaving
  <2> QED BY <2>1, <1>5
<1>6. CASE k > 0
  <2>1. k - 1 \in Nat /\ k - 1 \notin Bad
    <3>1. k - 1 \in Nat /\ ~(k <= k - 1)
      BY <1>4, <1>6
    <3> HIDE DEF Bad
    <3> QED BY <3>1, <1>3
  <2>2. PICK g : Leaving(q, ncpus, ord, n, k - 1, g)
    BY <2>1
  <2>3. \A j \in 0 .. k - 1 : g[j] = IF j = 0 THEN ncpus ELSE next(g[j - 1], j)
    BY <2>2 DEF Leaving
  <2> HIDE DEF next
  <2> DEFINE f == [j \in 0 .. k |-> IF j < k THEN g[j] ELSE next(g[k - 1], k)]
  <2>4. \A j \in 0 .. k - 1 : f[j] = g[j]
    BY <1>4
  <2>5. f[k] = next(g[k - 1], k)
    BY <1>4
  <2>6. ASSUME NEW j \in 0 .. k PROVE f[j] = IF j = 0 THEN ncpus ELSE next(f[j - 1], j)
    <3> HIDE DEF f
    <3>1. CASE j = k
      <4>1. k - 1 \in 0 .. k - 1 /\ j # 0
        BY <1>4, <1>6, <3>1
      <4>2. f[j - 1] = g[k - 1]
        BY <4>1, <2>4, <3>1
      <4> QED BY <4>1, <4>2, <2>5, <3>1
    <3>2. CASE j # k
      <4>1. j \in 0 .. k - 1 /\ (j # 0 => j - 1 \in 0 .. k - 1)
        BY <1>4, <3>2
      <4> QED BY <4>1, <2>3, <2>4
    <3> QED BY <3>1, <3>2
  <2>7. f = [j \in 0 .. k |-> f[j]]
    OBVIOUS
  <2> HIDE DEF f
  <2>8. [j \in 0 .. k |-> f[j]] = [j \in 0 .. k |-> IF j = 0 THEN ncpus ELSE next(f[j - 1], j)]
    BY <2>6
  <2>9. Leaving(q, ncpus, ord, n, k, f)
    BY <2>7, <2>8 DEF Leaving, next
  <2> QED BY <2>9, <1>3
<1> QED BY <1>4, <1>5, <1>6

(* An even share of what is left never takes more than there is, nor more  *)
(* than is asked for.                                                      *)
LEMMA ShareBounds ==
  ASSUME NEW L \in Nat, NEW m \in Nat \ {0}, NEW a \in Nat
  PROVE  /\ Min2(L \div m, a) \in Nat
         /\ Min2(L \div m, a) <= a
         /\ Min2(L \div m, a) <= L
<1> DEFINE s == L \div m
<1>1. s \in Nat /\ m * s <= L
  OBVIOUS
<1>2. s <= m * s
  <2> HIDE DEF s
  <2> QED BY <1>1
<1> HIDE DEF s
<1>3. Min2(s, a) \in Nat /\ Min2(s, a) <= a /\ Min2(s, a) <= L
  <2>1. s <= L
    <3> DEFINE u == m * s
    <3>1. u \in Nat /\ s <= u /\ u <= L
      BY <1>1, <1>2
    <3> HIDE DEF u
    <3> QED BY <3>1, <1>1
  <2> QED BY <2>1, <1>1 DEF Min2
<1> QED BY <1>3 DEF s

(* When L is at most m shares of x, and x is asked for, then after one     *)
(* share there are at most m - 1 of x.                                     *)
LEMMA ShareSaturated ==
  ASSUME NEW L \in Nat, NEW m \in Nat \ {0}, NEW a \in Nat, NEW x \in Nat, L <= m * x, x <= a
  PROVE  L - Min2(L \div m, a) <= (m - 1) * x
<1> DEFINE s == L \div m
<1>1. s \in Nat /\ m * s <= L /\ L < m * s + m
  OBVIOUS
<1> HIDE DEF s
<1>2. s <= x
  <2>1. SUFFICES ASSUME s >= x + 1 PROVE FALSE
    BY <1>1
  <2>2. m * s >= m * (x + 1)
    BY <2>1, <1>1
  <2>3. m * (x + 1) = m * x + m
    OBVIOUS
  <2> DEFINE u == m * s
             v == m * x
  <2>4. u \in Nat /\ v \in Nat /\ u >= v + m /\ u <= L /\ L <= v
    BY <2>2, <2>3, <1>1
  <2> HIDE DEF u, v
  <2> QED BY <2>4
<1>3. Min2(s, a) = s
  BY <1>1, <1>2 DEF Min2
<1>4. L - s <= (m - 1) * x
  <2>1. CASE s = x
    <3>1. (m - 1) * x = m * x - x
      OBVIOUS
    <3> QED BY <3>1, <2>1, <1>1
  <2>2. CASE s < x
    <3>1. (m - 1) * (s + 1) <= (m - 1) * x
      BY <2>2, <1>1
    <3>2. (m - 1) * (s + 1) = m * s + m - s - 1
      BY <1>1
    <3> DEFINE u == m * s
               v == (m - 1) * x
    <3>3. u \in Nat /\ v \in Nat /\ u + m - s - 1 <= v /\ L < u + m
      BY <3>1, <3>2, <1>1
    <3> HIDE DEF u
    <3>4. v \in Nat /\ u + m - s - 1 <= v
      BY <3>3
    <3> HIDE DEF v
    <3>5. L - s <= v
      BY <3>3, <3>4, <1>1
    <3> QED BY <3>5 DEF v
  <2> QED BY <2>1, <2>2, <1>1, <1>2
<1> QED BY <1>3, <1>4 DEF s

(* When a process gets less than it asks for, as much as it got and one    *)
(* more for each of the others is more than what is left.                  *)
LEMMA ShareSaturates ==
  ASSUME NEW L \in Nat, NEW m \in Nat \ {0}, NEW a \in Nat, Min2(L \div m, a) # a
  PROVE  \E x \in Nat : x <= a /\ L - Min2(L \div m, a) <= (m - 1) * x
<1> DEFINE s == L \div m
<1>1. s \in Nat /\ m * s <= L /\ L < m * s + m
  OBVIOUS
<1> HIDE DEF s
<1>2. s < a /\ Min2(s, a) = s
  BY <1>1 DEF Min2, s
<1>3. s + 1 \in Nat /\ s + 1 <= a
  BY <1>1, <1>2
<1>4. (m - 1) * (s + 1) = m * s + m - s - 1
  BY <1>1
<1> DEFINE u == m * s
           v == (m - 1) * (s + 1)
<1>5. u \in Nat /\ v = u + m - s - 1 /\ L < u + m
  BY <1>1, <1>4
<1>6. L - s <= v
  <2> HIDE DEF u, v
  <2> QED BY <1>5, <1>1
<1> QED BY <1>2, <1>3, <1>6 DEF s

(* The entries of the queue in the order of pop_ncpus: each process that   *)
(* asks for something, once, the smallest request first.                   *)
LEMMA OrdersAreSorted ==
  ASSUME NEW q \in [Pid -> Nat], NEW ord \in Orders(q)
  PROVE  LET S == {p \in Pid : q[p] > 0}
             n == Cardinality(S)
         IN  /\ n \in Nat /\ Len(ord) = n
             /\ ord \in [1 .. n -> S]
             /\ \A i, j \in 1 .. n : ord[i] = ord[j] => i = j
             /\ \A p \in S : \E i \in 1 .. n : ord[i] = p
             /\ \A i, j \in 1 .. n : i < j => q[ord[i]] <= q[ord[j]]
<1> DEFINE S == {p \in Pid : q[p] > 0}
           n == Cardinality(S)
<1>1. IsFiniteSet(S) /\ n \in Nat
  BY FS_Subset, FS_CardinalityType, LewiAsyncAssumption
<1>2. ord \in [1 .. n -> S] /\ \A i, j \in 1 .. n : i # j => ord[i] # ord[j]
  BY DEF Orders, SetToSeqs
<1>3. \A i, j \in 1 .. Len(ord) : i < j => q[ord[i]] <= q[ord[j]]
  BY DEF Orders
<1> HIDE DEF S, n
<1>4. ord \in Seq(S) /\ Len(ord) = n
  BY <1>1, <1>2
<1>5. ord \in Surjection(1 .. n, S)
  <2>1. ord \in Injection(1 .. n, S)
    BY <1>2 DEF Injection, IsInjective
  <2>2. Cardinality(1 .. n) = n
    BY <1>1, FS_Interval
  <2> QED BY <2>1, <2>2, <1>1, FS_Injection DEF n
<1>6. \A p \in S : \E i \in 1 .. n : ord[i] = p
  BY <1>5 DEF Surjection
<1> QED BY <1>1, <1>2, <1>3, <1>4, <1>6 DEF S, n

Sorted(q, ord, n) == \A i, j \in 1 .. n : i < j => q[ord[i]] <= q[ord[j]]

(* What is left of the CPUs: a number at every entry, of which no more is  *)
(* taken than is asked for; and if some is left at the end then everybody  *)
(* got what was asked for.                                                 *)
FairShares(q, ncpus, ord, n, f) ==
  /\ f[0] = ncpus
  /\ \A k \in 0 .. n : f[k] \in Nat
  /\ \A k \in 1 .. n : f[k - 1] - f[k] \in 0 .. q[ord[k]]
  /\ f[n] > 0 => \A k \in 1 .. n : f[k - 1] - f[k] = q[ord[k]]

(* The recursive function of pop_ncpus shares the CPUs so. *)
LEMMA LeavingShares ==
  ASSUME NEW q \in [Pid -> Nat], NEW ncpus \in Nat, NEW n \in Nat,
         NEW ord \in [1 .. n -> Pid], Sorted(q, ord, n),
         NEW f, Leaving(q, ncpus, ord, n, n, f)
  PROVE  FairShares(q, ncpus, ord, n, f)
<1> DEFINE take(k) == Min2(f[k - 1] \div (n - k + 1), q[ord[k]])
           all(k) == \A j \in 1 .. k : f[j - 1] - f[j] = q[ord[j]]
           sat(k) == \E x \in Nat : /\ f[k] <= (n - k) * x
                                    /\ \A j \in 1 .. n : j > k => x <= q[ord[j]]
           Good(k) == f[k] \in Nat /\ (all(k) \/ sat(k))
           Bad == {k \in 0 .. n : ~Good(k)}
<1>1. f[0] = ncpus
  BY DEF Leaving
<1>2. \A k \in 1 .. n : f[k] = f[k - 1] - take(k)
  BY DEF Leaving
<1>3. \A k \in 1 .. n : q[ord[k]] \in Nat /\ n - k + 1 \in Nat \ {0}
  OBVIOUS
<1>4. \A k \in 1 .. n : f[k - 1] \in Nat =>
        take(k) \in Nat /\ take(k) <= q[ord[k]] /\ take(k) <= f[k - 1]
  BY <1>3, ShareBounds
<1>5. ASSUME NEW k \in 1 .. n, Good(k - 1) PROVE Good(k)
  <2> DEFINE L == f[k - 1]
             m == n - k + 1
             a == q[ord[k]]
  <2>1. L \in Nat /\ m \in Nat \ {0} /\ a \in Nat
    BY <1>3, <1>5
  <2>2. f[k] = L - Min2(L \div m, a) /\ n - k = m - 1
    BY <1>2
  <2>3. f[k] \in Nat
    BY <1>2, <1>4, <1>5
  <2>4. CASE sat(k - 1)
    <3>1. PICK x \in Nat : L <= m * x /\ \A j \in 1 .. n : j > k - 1 => x <= q[ord[j]]
      <4>1. n - (k - 1) = m
        OBVIOUS
      <4> HIDE DEF m
      <4> QED BY <4>1, <2>4
    <3>2. x <= a
      BY <3>1
    <3> HIDE DEF L, m, a
    <3>3. L - Min2(L \div m, a) <= (m - 1) * x
      BY <2>1, <3>1, <3>2, ShareSaturated
    <3>4. f[k] <= (n - k) * x
      BY <2>2, <3>3
    <3>5. \A j \in 1 .. n : j > k => x <= q[ord[j]]
      BY <3>1
    <3> QED BY <2>3, <3>4, <3>5
  <2>5. CASE all(k - 1) /\ take(k) = a
    <3>1. f[k - 1] - f[k] = a
      <4>1. f[k] = L - a
        BY <2>5, <1>2
      <4> HIDE DEF a
      <4> QED BY <4>1, <2>1, <2>3
    <3>2. \A j \in 1 .. k : j = k \/ j \in 1 .. k - 1
      OBVIOUS
    <3>3. all(k)
      BY <2>5, <3>1, <3>2
    <3> QED BY <2>3, <3>3
  <2>6. CASE take(k) # a
    <3>1. Min2(L \div m, a) # a
      BY <2>6
    <3> HIDE DEF L, m
    <3>2. PICK x \in Nat : x <= a /\ L - Min2(L \div m, a) <= (m - 1) * x
      <4> HIDE DEF a
      <4> QED BY <2>1, <3>1, ShareSaturates
    <3>3. f[k] <= (n - k) * x
      BY <2>2, <3>2
    <3>4. \A j \in 1 .. n : j > k => x <= q[ord[j]]
      <4> SUFFICES ASSUME NEW j \in 1 .. n, j > k PROVE x <= q[ord[j]]
        OBVIOUS
      <4>1. a <= q[ord[j]] /\ q[ord[j]] \in Nat
        BY <1>3 DEF Sorted
      <4> HIDE DEF a
      <4> QED BY <3>2, <2>1, <4>1
    <3> QED BY <2>3, <3>3, <3>4
  <2> HIDE DEF take, a, sat, all
  <2>7. all(k - 1) \/ sat(k - 1)
    BY <1>5
  <2> QED BY <2>4, <2>5, <2>6, <2>7
<1>6. Good(0)
  BY <1>1
<1>7. \A k \in 0 .. n : Good(k)
  <2>1. SUFFICES ASSUME Bad # {} PROVE FALSE
    OBVIOUS
  <2>2. Bad \in SUBSET Nat
    OBVIOUS
  <2>3. PICK k \in Bad : \A j \in Bad : k <= j
    <3> HIDE DEF Bad
    <3> QED BY <2>1, <2>2, SmallestNumber
  <2> HIDE DEF Good
  <2>4. k \in 0 .. n /\ ~Good(k)
    OBVIOUS
  <2>5. k # 0
    BY <2>4, <1>6
  <2>6. k \in 1 .. n /\ k - 1 \in 0 .. n /\ ~(k <= k - 1)
    BY <2>4, <2>5
  <2>7. k - 1 \notin Bad
    <3> HIDE DEF Bad
    <3> QED BY <2>3, <2>6
  <2>8. Good(k - 1)
    BY <2>6, <2>7
  <2> QED BY <2>4, <2>6, <2>8, <1>5
<1>8. \A k \in 0 .. n : f[k] \in Nat
  BY <1>7
<1>9. ASSUME NEW k \in 1 .. n PROVE f[k - 1] - f[k] \in 0 .. q[ord[k]]
  <2>1. k - 1 \in 0 .. n /\ k \in 0 .. n
    OBVIOUS
  <2>2. f[k - 1] \in Nat /\ f[k] \in Nat
    BY <2>1, <1>8
  <2>3. take(k) \in Nat /\ take(k) <= q[ord[k]] /\ f[k] = f[k - 1] - take(k)
    BY <2>2, <1>2, <1>4
  <2> HIDE DEF take
  <2> QED BY <2>2, <2>3, <1>3
<1>10. ASSUME f[n] > 0 PROVE all(n)
  <2>1. f[n] \in Nat /\ (all(n) \/ sat(n))
    <3>1. n \in 0 .. n
      OBVIOUS
    <3> HIDE DEF all, sat
    <3> QED BY <3>1, <1>7
  <2>2. CASE sat(n)
    <3>1. PICK x \in Nat : f[n] <= (n - n) * x
      BY <2>2
    <3> QED BY <3>1, <2>1, <1>10
  <2> QED BY <2>1, <2>2
<1> QED BY <1>1, <1>8, <1>9, <1>10 DEF FairShares

(* A part of the numbers below k has less than k elements. *)
LEMMA FewBelow ==
  ASSUME NEW k \in Nat \ {0}, NEW T \in SUBSET (1 .. k - 1)
  PROVE  Cardinality(T) \in Nat /\ Cardinality(T) < k
<1>1. IsFiniteSet(1 .. k - 1) /\ Cardinality(1 .. k - 1) <= k - 1
  BY FS_Interval
<1>2. /\ Cardinality(T) \in Nat /\ Cardinality(1 .. k - 1) \in Nat
      /\ Cardinality(T) <= Cardinality(1 .. k - 1)
  BY <1>1, FS_Subset, FS_CardinalityType
<1> QED BY <1>1, <1>2

(* pop_ncpus gives each process at most what it asks for, and in total no  *)
(* more CPUs than there are; when some are left and the array has room for *)
(* every process that asks, everybody got everything.                      *)
LEMMA PopShares ==
  ASSUME NEW q \in [Pid -> Nat], NEW ncpus \in Nat, NEW ord \in Orders(q),
         Cardinality({p \in Pid : q[p] > 0}) <= node_size
  PROVE  LET popped == pop_ncpus(q, ncpus, ord) IN
         /\ popped \in [Pid -> Nat]
         /\ \A p \in Pid : popped[p] <= q[p]
         /\ Total(popped) \in Nat /\ Total(popped) <= ncpus
         /\ Total(popped) < ncpus => popped = q
<1> DEFINE S == {p \in Pid : q[p] > 0}
           n == Cardinality(S)
           left == CHOOSE f : f = [k \in 0 .. n |->
                     IF k = 0 THEN ncpus
                     ELSE f[k - 1] - Min2(f[k - 1] \div (n - k + 1), q[ord[k]])]
           popped == pop_ncpus(q, ncpus, ord)
           at(p) == {k \in 1 .. n : ord[k] = p}
           served(k) == {j \in 1 .. k - 1 : left[j] # left[j - 1]}
           in(p) == {k \in 1 .. n : ord[k] = p /\ Cardinality(served(k)) < node_size}
<1>1. /\ n \in Nat /\ Len(ord) = n
      /\ ord \in [1 .. n -> S]
      /\ \A i, j \in 1 .. n : ord[i] = ord[j] => i = j
      /\ \A p \in S : \E i \in 1 .. n : ord[i] = p
      /\ \A i, j \in 1 .. n : i < j => q[ord[i]] <= q[ord[j]]
  BY OrdersAreSorted
<1>2. popped = [p \in Pid |-> IF at(p) = {} THEN 0 ELSE left[Max(at(p)) - 1] - left[Max(at(p))]]
  <2>1. popped = [p \in Pid |-> IF in(p) = {} THEN 0 ELSE left[Max(in(p)) - 1] - left[Max(in(p))]]
    BY <1>1 DEF pop_ncpus
  <2>2. n <= node_size /\ n \in Nat
    BY <1>1
  <2> HIDE DEF left, n, popped
  <2>3. ASSUME NEW k \in 1 .. n PROVE Cardinality(served(k)) < node_size
    <3>1. k \in Nat \ {0} /\ served(k) \in SUBSET (1 .. k - 1)
      BY <2>2
    <3> HIDE DEF served
    <3>2. Cardinality(served(k)) \in Nat /\ Cardinality(served(k)) < k
      BY <3>1, FewBelow
    <3> QED BY <3>2, <2>2, LewiAsyncAssumption
  <2> HIDE DEF served
  <2>4. \A p \in Pid : in(p) = at(p)
    BY <2>3
  <2> HIDE DEF in, at
  <2> QED BY <2>1, <2>4
<1>3. S \in SUBSET Pid /\ ord \in [1 .. n -> Pid] /\ IsFiniteSet(S)
  BY <1>1, FS_Subset, LewiAsyncAssumption
<1> HIDE DEF n, popped
<1>4. Leaving(q, ncpus, ord, n, n, left)
  <2>1. \E f : Leaving(q, ncpus, ord, n, n, f)
    BY <1>1, LeavingExists
  <2> QED BY <2>1 DEF Leaving
<1> HIDE DEF left
<1>5. /\ left[0] = ncpus
      /\ \A k \in 0 .. n : left[k] \in Nat
      /\ \A k \in 1 .. n : left[k - 1] - left[k] \in 0 .. q[ord[k]]
      /\ left[n] > 0 => \A k \in 1 .. n : left[k - 1] - left[k] = q[ord[k]]
  <2>1. n \in Nat /\ Sorted(q, ord, n)
    BY <1>1 DEF Sorted
  <2>2. FairShares(q, ncpus, ord, n, left)
    BY <2>1, <1>3, <1>4, LeavingShares
  <2> QED BY <2>2 DEF FairShares
<1>6. ASSUME NEW k \in 1 .. n PROVE popped[ord[k]] = left[k - 1] - left[k]
  <2>1. ord[k] \in Pid /\ at(ord[k]) = {k}
    BY <1>1, <1>3
  <2>2. Max({k}) = k
    BY DEF Max
  <2> QED BY <2>1, <2>2, <1>2
<1>7. ASSUME NEW p \in Pid \ S PROVE popped[p] = 0 /\ q[p] = 0
  <2>1. at(p) = {}
    BY <1>1
  <2> QED BY <2>1, <1>2
<1>8. ASSUME NEW p \in Pid
      PROVE popped[p] \in Nat /\ popped[p] <= q[p] /\ (left[n] > 0 => popped[p] = q[p])
  <2>1. CASE p \in S
    <3>1. PICK k \in 1 .. n : ord[k] = p
      BY <2>1, <1>1
    <3>2. popped[p] = left[k - 1] - left[k] /\ left[k - 1] - left[k] \in 0 .. q[p]
      BY <3>1, <1>5, <1>6
    <3>3. left[n] > 0 => left[k - 1] - left[k] = q[p]
      BY <3>1, <1>5
    <3> QED BY <3>2, <3>3
  <2>2. CASE p \notin S
    BY <2>2, <1>7
  <2> QED BY <2>1, <2>2
<1>9. popped \in [Pid -> Nat] /\ \A p \in Pid : popped[p] <= q[p]
  BY <1>2, <1>8
<1>10. Total(popped) = ncpus - left[n]
  <2> DEFINE first(k) == {ord[j] : j \in 1 .. k}
             Sum(s) == SumFunctionOnSet(popped, s)
             Good(k) == Sum(first(k)) = ncpus - left[k]
             Bad == {k \in 0 .. n : ~Good(k)}
  <2>1. \A s \in SUBSET Pid : IsFiniteSet(s) /\ NatOn(popped, s)
    BY <1>9, FS_Subset, LewiAsyncAssumption DEF NatOn
  <2>2. \A k \in 0 .. n : first(k) \in SUBSET Pid
    BY <1>1, <1>3
  <2>3. \A k \in 0 .. n : Sum(first(k)) \in Nat
    BY <2>1, <2>2, SumIsNat
  <2>4. Good(0)
    <3>1. first(0) = {} /\ first(0) \in SUBSET Pid
      OBVIOUS
    <3>2. Sum(first(0)) = 0
      BY <3>1, <2>1, SumIsNat
    <3> QED BY <3>2, <1>5
  <2>5. ASSUME NEW k \in 1 .. n, Good(k - 1) PROVE Good(k)
    <3>1. ord[k] \in first(k) /\ first(k) \ {ord[k]} = first(k - 1)
      <4>1. \A j \in 1 .. k : j # k <=> j \in 1 .. k - 1
        OBVIOUS
      <4>2. \A j \in 1 .. k : j \in 1 .. n /\ (ord[j] = ord[k] => j = k)
        BY <1>1
      <4> QED BY <4>1, <4>2
    <3>2. k \in 0 .. n /\ k - 1 \in 0 .. n
      BY <1>1
    <3>3. IsFiniteSet(first(k)) /\ NatOn(popped, first(k))
      BY <2>1, <2>2, <3>2
    <3> HIDE DEF first
    <3>4. Sum(first(k)) = popped[ord[k]] + Sum(first(k - 1))
      BY <3>1, <3>3, SumTakes
    <3>5. popped[ord[k]] = left[k - 1] - left[k]
      BY <1>6
    <3>6. left[k - 1] \in Nat /\ left[k] \in Nat /\ Sum(first(k - 1)) = ncpus - left[k - 1]
      BY <3>2, <1>5, <2>5
    <3> HIDE DEF Sum
    <3> QED BY <3>4, <3>5, <3>6
  <2>6. Good(n)
    <3>1. SUFFICES ASSUME Bad # {} PROVE FALSE
      <4>1. n \in 0 .. n
        BY <1>1
      <4> HIDE DEF Good
      <4> QED BY <4>1
    <3>2. Bad \in SUBSET Nat
      OBVIOUS
    <3>3. PICK k \in Bad : \A j \in Bad : k <= j
      <4> HIDE DEF Bad
      <4> QED BY <3>1, <3>2, SmallestNumber
    <3> HIDE DEF Good
    <3>4. k \in 0 .. n /\ ~Good(k)
      OBVIOUS
    <3>5. k # 0
      BY <3>4, <2>4
    <3>6. k \in 1 .. n /\ k - 1 \in 0 .. n /\ ~(k <= k - 1)
      BY <3>4, <3>5, <1>1
    <3>7. k - 1 \notin Bad
      <4> HIDE DEF Bad
      <4> QED BY <3>3, <3>6
    <3>8. Good(k - 1)
      BY <3>6, <3>7
    <3> QED BY <3>4, <3>6, <3>8, <2>5
  <2>7. first(n) = S
    BY <1>1
  <2>8. Sum(Pid) = Sum(S)
    <3>1. IsFiniteSet(Pid) /\ NatOn(popped, Pid)
      BY <2>1
    <3> QED BY <3>1, <1>3, <1>7, SumOfPart
  <2>9. Total(popped) = Sum(Pid)
    <3>1. DOMAIN popped = Pid
      BY <1>9
    <3> QED BY <3>1 DEF Total, SumFunction
  <2> HIDE DEF first, Sum
  <2> QED BY <2>6, <2>7, <2>8, <2>9
<1>11. left[n] \in Nat /\ left[n] <= ncpus
  <2>1. left[n] \in Nat
    BY <1>1, <1>5
  <2>2. Total(popped) \in Nat
    <3>1. IsFiniteSet(Pid) /\ NatOn(popped, Pid) /\ DOMAIN popped = Pid
      BY <1>9, LewiAsyncAssumption DEF NatOn
    <3> QED BY <3>1, SumIsNat DEF Total, SumFunction
  <2> QED BY <2>1, <2>2, <1>10
<1>12. ASSUME Total(popped) < ncpus PROVE popped = q
  <2>1. left[n] > 0
    BY <1>10, <1>11, <1>12
  <2> QED BY <2>1, <1>8, <1>9
<1>13. Total(popped) \in Nat /\ Total(popped) <= ncpus
  BY <1>10, <1>11
<1> QED BY <1>9, <1>12, <1>13 DEF popped

-----------------------------------------------------------------------------
(* The operations on the shared memory *)

(* RequestsAreServed, of any contents, and the list is not over its size. *)
Served(s) ==
  /\ s.idle_cpus > 0 => \A p \in Pid : s.requests[p] = 0
  /\ \A p \in Pid : s.requests[p] > 0 => p \in s.processes
  /\ Cardinality(s.processes) <= max_processes

(* The CPUs that are idle or in use. *)
Cpus(s) == s.idle_cpus + SumFunctionOnSet(s.current_ncpus, s.processes)

Balanced(s) == Cpus(s) = SumFunctionOnSet(initial_ncpus, s.processes)

Sound(s) == s \in ShData /\ Served(s)

SameList(s, t) == t.processes = s.processes /\ t.attached_nprocs = s.attached_nprocs

Result == [shdata : ShData, msgs : SUBSET Request, failed : BOOLEAN]

(* An operation on s with the result r that adds n CPUs. *)
Keeps(s, r, n) ==
  /\ r \in Result
  /\ Served(r.shdata)
  /\ SameList(s, r.shdata)
  /\ Cpus(r.shdata) = Cpus(s) + n

(* Subsets of the processes and sums of numbers of CPUs over them. *)
LEMMA SumOfCpus ==
  ASSUME NEW f \in [Pid -> Nat], NEW P \in SUBSET Pid
  PROVE  IsFiniteSet(P) /\ NatOn(f, P) /\ SumFunctionOnSet(f, P) \in Nat
<1>1. IsFiniteSet(P) /\ NatOn(f, P)
  BY FS_Subset, LewiAsyncAssumption DEF NatOn
<1> QED BY <1>1, SumIsNat

(* The fields of the shared memory. *)
LEMMA ShDataFields ==
  ASSUME NEW s \in ShData
  PROVE  /\ s.idle_cpus \in Nat /\ s.attached_nprocs \in 0 .. UintSize - 1
         /\ s.requests \in [Pid -> Nat] /\ s.processes \in SUBSET Pid
         /\ s.current_ncpus \in [Pid -> Nat]
BY DEF ShData

(* There is room for as many requests as there are processes in the list.  *)
LEMMA RoomForList ==
  ASSUME NEW s \in ShData, Served(s), NEW q \in [Pid -> Nat],
         \A p \in Pid \ s.processes : q[p] = 0
  PROVE  Cardinality({p \in Pid : q[p] > 0}) <= node_size
<1> DEFINE T == {p \in Pid : q[p] > 0}
<1>1. s.processes \in SUBSET Pid
  BY ShDataFields
<1>2. IsFiniteSet(s.processes) /\ T \in SUBSET s.processes
  BY <1>1, FS_Subset, LewiAsyncAssumption
<1> HIDE DEF T
<1>3. /\ Cardinality(T) \in Nat /\ Cardinality(s.processes) \in Nat
      /\ Cardinality(T) <= Cardinality(s.processes)
  BY <1>2, FS_Subset, FS_CardinalityType
<1>4. Cardinality(s.processes) <= max_processes
  BY DEF Served
<1>5. Cardinality(T) <= node_size
  BY <1>3, <1>4, LewiAsyncAssumption, OneProcessPerCpu
<1> QED BY <1>5 DEF T

(* The number of CPUs is a number. *)
LEMMA CpusIsNat ==
  ASSUME NEW s \in ShData
  PROVE  Cpus(s) \in Nat
<1>1. s.idle_cpus \in Nat /\ SumFunctionOnSet(s.current_ncpus, s.processes) \in Nat
  BY ShDataFields, SumOfCpus
<1> QED BY <1>1 DEF Cpus

(* The sum when one term changes. *)
LEMMA SumExcept ==
  ASSUME NEW f \in [Pid -> Nat], NEW P \in SUBSET Pid, NEW p \in P, NEW v \in Nat
  PROVE  SumFunctionOnSet([f EXCEPT ![p] = v], P) + f[p] = SumFunctionOnSet(f, P) + v
<1> DEFINE g == [f EXCEPT ![p] = v]
           D == P \ {p}
<1>1. g \in [Pid -> Nat] /\ g[p] = v /\ \A x \in D : g[x] = f[x]
  OBVIOUS
<1>2. D \in SUBSET Pid
  OBVIOUS
<1> HIDE DEF g
<1>3. SumFunctionOnSet(f, P) = f[p] + SumFunctionOnSet(f, D)
  BY SumOfCpus, SumTakes
<1>4. SumFunctionOnSet(g, P) = g[p] + SumFunctionOnSet(g, D)
  BY <1>1, SumOfCpus, SumTakes
<1> HIDE DEF D
<1>5. IsFiniteSet(D) /\ NatOn(f, D) /\ SumFunctionOnSet(f, D) \in Nat
  BY <1>2, SumOfCpus
<1>6. SumFunctionOnSet(g, D) = SumFunctionOnSet(f, D)
  BY <1>1, <1>5, SumSame
<1> DEFINE k == SumFunctionOnSet(f, D)
<1> HIDE DEF k
<1>7. SumFunctionOnSet(f, P) = f[p] + k /\ SumFunctionOnSet(g, P) = v + k /\ k \in Nat
  BY <1>1, <1>3, <1>4, <1>5, <1>6 DEF k
<1>8. f[p] \in Nat
  OBVIOUS
<1>9. SumFunctionOnSet(g, P) + f[p] = SumFunctionOnSet(f, P) + v
  BY <1>7, <1>8
<1> QED BY <1>9 DEF g

(* The total over all processes of what only those of the list have. *)
LEMMA TotalOfList ==
  ASSUME NEW f \in [Pid -> Nat], NEW P \in SUBSET Pid, \A p \in Pid \ P : f[p] = 0
  PROVE  Total(f) = SumFunctionOnSet(f, P)
<1>1. IsFiniteSet(Pid) /\ NatOn(f, Pid) /\ DOMAIN f = Pid
  BY LewiAsyncAssumption DEF NatOn
<1>2. SumFunctionOnSet(f, Pid) = SumFunctionOnSet(f, P)
  BY <1>1, SumOfPart
<1> QED BY <1>1, <1>2 DEF Total, SumFunction

(* The messages tell numbers of CPUs. *)
LEMMA ResolvedType ==
  ASSUME NEW popped, NEW howmany \in [Pid -> Nat]
  PROVE  Resolved(popped, howmany) \in SUBSET Request
BY DEF Resolved, Request

(* Lending gives to those that ask, and what is left is idle only if       *)
(* nobody asks for more.                                                   *)
LEMMA LendKeeps ==
  ASSUME NEW s, Sound(s), NEW ncpus \in Nat, NEW r \in lend_ncpus_to_shmem(s, ncpus)
  PROVE  /\ Keeps(s, r, ncpus)
         /\ r.failed = FALSE
         /\ \A p \in Pid : r.shdata.requests[p] <= s.requests[p]
         /\ \A p \in Pid : s.requests[p] = 0 =>
              r.shdata.current_ncpus[p] = s.current_ncpus[p]
<1>1. s \in ShData /\ Served(s)
  BY DEF Sound
<1>2. /\ s.idle_cpus \in Nat /\ s.attached_nprocs \in 0 .. UintSize - 1
      /\ s.requests \in [Pid -> Nat] /\ s.processes \in SUBSET Pid
      /\ s.current_ncpus \in [Pid -> Nat]
  BY <1>1, ShDataFields
<1>3. PICK ord \in Orders(s.requests) :
        LET popped == pop_ncpus(s.requests, ncpus, ord)
            current == Plus(s.current_ncpus, popped) IN
        r = [shdata |-> [s EXCEPT !.idle_cpus = @ + ncpus - Total(popped),
                                  !.requests = Minus(@, popped),
                                  !.current_ncpus = current],
             msgs |-> Resolved(popped, current),
             failed |-> FALSE]
  BY DEF lend_ncpus_to_shmem
<1> DEFINE popped == pop_ncpus(s.requests, ncpus, ord)
           current == Plus(s.current_ncpus, popped)
           t == r.shdata
           P == s.processes
<1>4. /\ popped \in [Pid -> Nat]
      /\ \A p \in Pid : popped[p] <= s.requests[p]
      /\ Total(popped) \in Nat /\ Total(popped) <= ncpus
      /\ Total(popped) < ncpus => popped = s.requests
  <2>1. \A p \in Pid \ s.processes : s.requests[p] = 0
    BY <1>1, <1>2 DEF Served
  <2>2. Cardinality({p \in Pid : s.requests[p] > 0}) <= node_size
    BY <2>1, <1>1, <1>2, RoomForList
  <2> QED BY <2>2, <1>2, PopShares
<1>5. t = [s EXCEPT !.idle_cpus = @ + ncpus - Total(popped),
                    !.requests = Minus(@, popped),
                    !.current_ncpus = current]
      /\ r = [shdata |-> t, msgs |-> Resolved(popped, current), failed |-> FALSE]
  BY <1>3
<1> HIDE DEF popped, t
<1>6. current \in [Pid -> Nat] /\ \A p \in Pid : current[p] = s.current_ncpus[p] + popped[p]
  BY <1>2, <1>4 DEF Plus
<1>7. /\ Minus(s.requests, popped) \in [Pid -> Nat]
      /\ \A p \in Pid : Minus(s.requests, popped)[p] = s.requests[p] - popped[p]
  BY <1>2, <1>4 DEF Minus
<1> HIDE DEF current
<1>8. /\ t.idle_cpus = s.idle_cpus + ncpus - Total(popped)
      /\ t.requests = Minus(s.requests, popped)
      /\ t.current_ncpus = current
      /\ t.processes = s.processes
      /\ t.attached_nprocs = s.attached_nprocs
  BY <1>1, <1>5 DEF ShData
<1>9. t.idle_cpus \in Nat
  BY <1>2, <1>4, <1>8
<1>10. t \in ShData
  <2>1. s.idle_cpus + ncpus - Total(popped) \in Nat
    BY <1>8, <1>9
  <2> QED BY <2>1, <1>1, <1>5, <1>6, <1>7 DEF ShData
<1>11. r \in Result
  <2>1. Resolved(popped, current) \in SUBSET Request
    BY <1>6, ResolvedType
  <2> QED BY <2>1, <1>5, <1>10 DEF Result
<1>12. \A p \in Pid : t.requests[p] <= s.requests[p] /\ t.requests[p] \in Nat
  BY <1>2, <1>4, <1>7, <1>8
<1>13. Served(t)
  <2>1. ASSUME t.idle_cpus > 0, NEW p \in Pid PROVE t.requests[p] = 0
    <3>1. CASE s.idle_cpus > 0
      <4>1. s.requests[p] = 0
        BY <3>1, <1>1 DEF Served
      <4> QED BY <4>1, <1>12
    <3>2. CASE s.idle_cpus = 0
      <4>1. Total(popped) < ncpus
        BY <3>2, <2>1, <1>4, <1>8
      <4>2. popped = s.requests
        BY <4>1, <1>4
      <4> QED BY <4>2, <1>2, <1>7, <1>8
    <3> QED BY <3>1, <3>2, <1>2
  <2>2. ASSUME NEW p \in Pid, t.requests[p] > 0 PROVE p \in t.processes
    <3>1. s.requests[p] > 0
      BY <2>2, <1>2, <1>12
    <3> QED BY <3>1, <1>1, <1>8 DEF Served
  <2>3. Cardinality(t.processes) <= max_processes
    BY <1>1, <1>8 DEF Served
  <2> QED BY <2>1, <2>2, <2>3 DEF Served
<1>14. Cpus(t) = Cpus(s) + ncpus
  <2>1. \A p \in Pid \ P : popped[p] = 0
    BY <1>1, <1>2, <1>4 DEF Served
  <2>2. Total(popped) = SumFunctionOnSet(popped, P)
    BY <2>1, <1>2, <1>4, TotalOfList
  <2>3. IsFiniteSet(P) /\ NatOn(s.current_ncpus, P) /\ NatOn(popped, P) /\ NatOn(current, P)
    BY <1>2, <1>4, <1>6, SumOfCpus
  <2>4. \A p \in P : current[p] = s.current_ncpus[p] + popped[p]
    BY <1>2, <1>6
  <2>5. SumFunctionOnSet(current, P) = SumFunctionOnSet(s.current_ncpus, P) + SumFunctionOnSet(popped, P)
    BY <2>3, <2>4, SumAdds
  <2>6. SumFunctionOnSet(s.current_ncpus, P) \in Nat
    BY <1>2, SumOfCpus
  <2> DEFINE a == SumFunctionOnSet(s.current_ncpus, P)
             b == Total(popped)
  <2>7. Cpus(s) = s.idle_cpus + a /\ Cpus(t) = (s.idle_cpus + ncpus - b) + (a + b)
    BY <2>2, <2>5, <1>8 DEF Cpus
  <2>8. a \in Nat /\ b \in Nat
    BY <2>6, <1>4
  <2> HIDE DEF a, b
  <2> QED BY <2>7, <2>8, <1>2
<1>15. ASSUME NEW p \in Pid, s.requests[p] = 0 PROVE t.current_ncpus[p] = s.current_ncpus[p]
  <2>1. popped[p] = 0
    BY <1>15, <1>4
  <2> QED BY <2>1, <1>2, <1>6, <1>8
<1>16. SameList(s, t)
  BY <1>8 DEF SameList
<1> QED BY <1>5, <1>11, <1>12, <1>13, <1>14, <1>15, <1>16 DEF Keeps, t

(* The surplus of each process, and what it lacks. *)
LEMMA SurplusFacts ==
  ASSUME NEW s \in ShData
  PROVE  /\ Surplus(s) \in [Pid -> Nat]
         /\ \A p \in Pid : Surplus(s)[p] <= s.current_ncpus[p]
         /\ \A p \in Pid \ s.processes : Surplus(s)[p] = 0
         /\ \A p \in Pid : Deficit(s, p) \in Nat
         /\ \A p \in Pid : s.current_ncpus[p] <= initial_ncpus[p] => Surplus(s)[p] = 0
         /\ \A p \in Pid : s.current_ncpus[p] <= initial_ncpus[p] =>
              s.current_ncpus[p] + Deficit(s, p) = initial_ncpus[p]
         /\ \A p \in s.processes :
              s.current_ncpus[p] + Deficit(s, p) = initial_ncpus[p] + Surplus(s)[p]
<1>1. s.current_ncpus \in [Pid -> Nat] /\ s.processes \in SUBSET Pid /\ initial_ncpus \in [Pid -> Nat]
  BY ShDataFields, LewiAsyncAssumption
<1>2. \A p \in Pid : s.current_ncpus[p] \in Nat /\ initial_ncpus[p] \in Nat
  BY <1>1
<1>3. \A p \in Pid : Surplus(s)[p] =
        IF p \in s.processes /\ s.current_ncpus[p] > initial_ncpus[p]
        THEN s.current_ncpus[p] - initial_ncpus[p] ELSE 0
  BY DEF Surplus
<1>4. Surplus(s) \in [Pid -> Nat]
  BY <1>2 DEF Surplus
<1>5. ASSUME NEW p \in Pid
      PROVE /\ Surplus(s)[p] <= s.current_ncpus[p]
            /\ p \notin s.processes => Surplus(s)[p] = 0
            /\ Deficit(s, p) \in Nat
            /\ s.current_ncpus[p] <= initial_ncpus[p] => Surplus(s)[p] = 0
            /\ s.current_ncpus[p] <= initial_ncpus[p] =>
                 s.current_ncpus[p] + Deficit(s, p) = initial_ncpus[p]
            /\ p \in s.processes =>
                 s.current_ncpus[p] + Deficit(s, p) = initial_ncpus[p] + Surplus(s)[p]
  <2> DEFINE c == s.current_ncpus[p]
             i == initial_ncpus[p]
  <2>1. c \in Nat /\ i \in Nat
    BY <1>2
  <2>2. Surplus(s)[p] = IF p \in s.processes /\ c > i THEN c - i ELSE 0
    BY <1>3
  <2>3. Deficit(s, p) = IF c < i THEN i - c ELSE 0
    BY DEF Deficit
  <2> HIDE DEF c, i
  <2>4. /\ Surplus(s)[p] <= c
        /\ p \notin s.processes => Surplus(s)[p] = 0
        /\ Deficit(s, p) \in Nat
        /\ c <= i => Surplus(s)[p] = 0
        /\ c <= i => c + Deficit(s, p) = i
        /\ p \in s.processes => c + Deficit(s, p) = i + Surplus(s)[p]
    BY <2>1, <2>2, <2>3
  <2> QED BY <2>4 DEF c, i
<1> QED BY <1>1, <1>4, <1>5

(* When the account is right and nothing is idle, the others have what a   *)
(* process lacks.                                                          *)
LEMMA SurplusCovers ==
  ASSUME NEW s \in ShData, Balanced(s), s.idle_cpus = 0, NEW p \in s.processes
  PROVE  Total(Surplus(s)) \in Nat /\ Deficit(s, p) <= Total(Surplus(s))
<1> DEFINE P == s.processes
           d == [q \in Pid |-> Deficit(s, q)]
           both == [q \in Pid |-> s.current_ncpus[q] + Deficit(s, q)]
<1>1. /\ P \in SUBSET Pid /\ s.current_ncpus \in [Pid -> Nat] /\ initial_ncpus \in [Pid -> Nat]
      /\ Surplus(s) \in [Pid -> Nat]
  BY ShDataFields, SurplusFacts, LewiAsyncAssumption
<1>2. d \in [Pid -> Nat] /\ both \in [Pid -> Nat]
  BY <1>1, SurplusFacts
<1>3. \A q \in P : both[q] = s.current_ncpus[q] + d[q]
  BY <1>1
<1>4. \A q \in P : both[q] = initial_ncpus[q] + Surplus(s)[q]
  BY <1>1, SurplusFacts
<1>5. d[p] = Deficit(s, p) /\ p \in P /\ d[p] \in Nat
  BY <1>1, <1>2
<1> HIDE DEF d, both
<1>6. /\ IsFiniteSet(P) /\ NatOn(d, P) /\ NatOn(both, P) /\ NatOn(s.current_ncpus, P)
      /\ NatOn(initial_ncpus, P) /\ NatOn(Surplus(s), P)
  BY <1>1, <1>2, SumOfCpus
<1>7. SumFunctionOnSet(both, P) = SumFunctionOnSet(s.current_ncpus, P) + SumFunctionOnSet(d, P)
  BY <1>3, <1>6, SumAdds
<1>8. SumFunctionOnSet(both, P) = SumFunctionOnSet(initial_ncpus, P) + SumFunctionOnSet(Surplus(s), P)
  BY <1>4, <1>6, SumAdds
<1>9. Total(Surplus(s)) = SumFunctionOnSet(Surplus(s), P)
  <2>1. \A q \in Pid \ P : Surplus(s)[q] = 0
    BY SurplusFacts
  <2> QED BY <2>1, <1>1, TotalOfList
<1>10. SumFunctionOnSet(d, P) = d[p] + SumFunctionOnSet(d, P \ {p})
  BY <1>5, <1>6, SumTakes
<1>11. SumFunctionOnSet(d, P \ {p}) \in Nat
  <2>1. P \ {p} \in SUBSET Pid
    BY <1>1
  <2> QED BY <2>1, <1>2, SumOfCpus
<1>12. SumFunctionOnSet(s.current_ncpus, P) \in Nat /\ SumFunctionOnSet(Surplus(s), P) \in Nat
       /\ SumFunctionOnSet(initial_ncpus, P) \in Nat
  BY <1>1, SumOfCpus
<1>13. SumFunctionOnSet(s.current_ncpus, P) = SumFunctionOnSet(initial_ncpus, P)
  BY <1>12 DEF Balanced, Cpus
<1> DEFINE c == SumFunctionOnSet(s.current_ncpus, P)
           x == SumFunctionOnSet(Surplus(s), P)
           y == SumFunctionOnSet(d, P \ {p})
<1>14. c + (d[p] + y) = c + x /\ c \in Nat /\ x \in Nat /\ y \in Nat /\ Total(Surplus(s)) = x
  BY <1>7, <1>8, <1>9, <1>10, <1>11, <1>12, <1>13
<1> HIDE DEF c, x, y
<1> QED BY <1>5, <1>14

(* borrow_idle takes at most n of the idle CPUs, all of them if n is more. *)
LEMMA BorrowIdle ==
  ASSUME NEW s, Sound(s), NEW p \in s.processes, NEW n \in Nat
  PROVE  LET b == borrow_idle(s, p, n)
             m == Min2(s.idle_cpus, n)
         IN  /\ Sound(b) /\ SameList(s, b) /\ Cpus(b) = Cpus(s)
             /\ m \in Nat /\ m <= n /\ s.idle_cpus - b.idle_cpus = m
             /\ m < n => b.idle_cpus = 0
             /\ b.requests = s.requests
             /\ b.current_ncpus[p] = s.current_ncpus[p] + m
<1> DEFINE b == borrow_idle(s, p, n)
           m == Min2(s.idle_cpus, n)
           P == s.processes
<1>1. s \in ShData /\ Served(s)
  BY DEF Sound
<1>2. /\ s.idle_cpus \in Nat /\ s.processes \in SUBSET Pid
      /\ s.current_ncpus \in [Pid -> Nat] /\ p \in Pid /\ s.current_ncpus[p] \in Nat
  BY <1>1, ShDataFields
<1>3. m \in Nat /\ m <= n /\ m <= s.idle_cpus /\ (m < n => m = s.idle_cpus)
  BY <1>2 DEF Min2
<1>4. b = [s EXCEPT !.idle_cpus = @ - m, !.current_ncpus[p] = @ + m]
  BY DEF borrow_idle
<1> HIDE DEF b, m
<1> DEFINE cur == [s.current_ncpus EXCEPT ![p] = s.current_ncpus[p] + m]
<1>5. /\ b.idle_cpus = s.idle_cpus - m /\ b.requests = s.requests
      /\ b.processes = s.processes /\ b.attached_nprocs = s.attached_nprocs
      /\ b.current_ncpus = cur /\ cur[p] = s.current_ncpus[p] + m
  BY <1>1, <1>2, <1>4 DEF ShData
<1>6. s.idle_cpus - m \in Nat /\ s.current_ncpus[p] + m \in Nat
  BY <1>2, <1>3
<1>7. b \in ShData
  <2>1. cur \in [Pid -> Nat]
    BY <1>2, <1>6
  <2>2. b = [s EXCEPT !.idle_cpus = s.idle_cpus - m, !.current_ncpus = cur]
    BY <1>1, <1>4 DEF ShData
  <2> HIDE DEF cur
  <2> QED BY <2>1, <2>2, <1>1, <1>6 DEF ShData
<1>8. Served(b)
  <2>1. b.idle_cpus > 0 => s.idle_cpus > 0
    BY <1>2, <1>3, <1>5
  <2> QED BY <2>1, <1>1, <1>5 DEF Served
<1>9. Cpus(b) = Cpus(s)
  <2>1. SumFunctionOnSet(cur, P) + s.current_ncpus[p]
          = SumFunctionOnSet(s.current_ncpus, P) + (s.current_ncpus[p] + m)
    BY <1>2, <1>6, SumExcept
  <2>2. SumFunctionOnSet(s.current_ncpus, P) \in Nat
    BY <1>2, SumOfCpus
  <2>3. SumFunctionOnSet(cur, P) \in Nat
    <3>1. cur \in [Pid -> Nat]
      BY <1>2, <1>6
    <3> HIDE DEF cur
    <3> QED BY <3>1, <1>2, SumOfCpus
  <2> DEFINE x == SumFunctionOnSet(cur, P)
             y == SumFunctionOnSet(s.current_ncpus, P)
             c == s.current_ncpus[p]
  <2>4. Cpus(b) = (s.idle_cpus - m) + x /\ Cpus(s) = s.idle_cpus + y
    BY <1>5 DEF Cpus
  <2>5. x + c = y + (c + m) /\ x \in Nat /\ y \in Nat /\ c \in Nat
    BY <2>1, <2>2, <2>3, <1>2
  <2> HIDE DEF x, y, c
  <2> QED BY <2>4, <2>5, <1>2, <1>3
<1>10. s.idle_cpus - b.idle_cpus = m /\ (m < n => b.idle_cpus = 0)
  BY <1>2, <1>3, <1>5
<1>11. Sound(b) /\ SameList(s, b)
  BY <1>5, <1>7, <1>8 DEF Sound, SameList
<1> QED BY <1>3, <1>5, <1>9, <1>10, <1>11 DEF b, m

(* reclaim_from_shmem takes from the victims exactly what p gets; when     *)
(* their surplus is too small it changes nothing.                          *)
LEMMA ReclaimFromKeeps ==
  ASSUME NEW s, Sound(s), NEW p \in s.processes, NEW n \in Nat,
         s.idle_cpus = 0, s.current_ncpus[p] <= initial_ncpus[p],
         NEW r \in reclaim_from_shmem(s, p, n)
  PROVE  /\ Keeps(s, r, 0)
         /\ r.shdata.idle_cpus = 0
         /\ r.shdata.requests[p] = s.requests[p]
         /\ r.failed => Total(Surplus(s)) \in Nat /\ Total(Surplus(s)) < n
         /\ ~r.failed => r.shdata.current_ncpus[p] = s.current_ncpus[p] + n
         /\ r.failed => r.shdata = s
<1>1. s \in ShData /\ Served(s)
  BY DEF Sound
<1>2. /\ s.requests \in [Pid -> Nat] /\ s.processes \in SUBSET Pid
      /\ s.current_ncpus \in [Pid -> Nat] /\ p \in Pid
  BY <1>1, ShDataFields
<1>3. /\ Surplus(s) \in [Pid -> Nat]
      /\ \A q \in Pid : Surplus(s)[q] <= s.current_ncpus[q]
      /\ \A q \in Pid \ s.processes : Surplus(s)[q] = 0
      /\ Surplus(s)[p] = 0
  BY <1>1, <1>2, SurplusFacts
<1>4. PICK ord \in Orders(Surplus(s)) :
        LET popped == pop_ncpus(Surplus(s), n, ord)
            current == Minus(s.current_ncpus, popped) IN
        r = IF Total(popped) = n
            THEN [shdata |-> [s EXCEPT !.requests = Plus(@, popped),
                                       !.current_ncpus = [current EXCEPT ![p] = @ + n]],
                  msgs |-> Resolved(popped, current), failed |-> FALSE]
            ELSE [shdata |-> s, msgs |-> Resolved(popped, popped), failed |-> TRUE]
  BY DEF reclaim_from_shmem
<1> DEFINE popped == pop_ncpus(Surplus(s), n, ord)
           current == Minus(s.current_ncpus, popped)
           new == [current EXCEPT ![p] = current[p] + n]
           t == r.shdata
           P == s.processes
<1>5. /\ popped \in [Pid -> Nat]
      /\ \A q \in Pid : popped[q] <= Surplus(s)[q]
      /\ Total(popped) \in Nat /\ Total(popped) <= n
      /\ Total(popped) < n => popped = Surplus(s)
  <2>1. Cardinality({q \in Pid : Surplus(s)[q] > 0}) <= node_size
    BY <1>1, <1>3, RoomForList
  <2> QED BY <2>1, <1>3, PopShares
<1>6. CASE Total(popped) # n
  <2>1. r = [shdata |-> s, msgs |-> Resolved(popped, popped), failed |-> TRUE]
    BY <1>4, <1>6
  <2> HIDE DEF popped
  <2>2. Total(Surplus(s)) < n /\ Total(Surplus(s)) \in Nat
    BY <1>5, <1>6
  <2>3. r \in Result
    BY <2>1, <1>1, <1>5, ResolvedType DEF Result
  <2>4. r.shdata = s /\ r.failed
    BY <2>1
  <2>5. Cpus(s) = Cpus(s) + 0
    <3>1. Cpus(s) \in Nat
      BY <1>1, CpusIsNat
    <3> QED BY <3>1
  <2> QED BY <2>2, <2>3, <2>4, <2>5, <1>1 DEF Keeps, SameList
<1>7. CASE Total(popped) = n
  <2>1. r = [shdata |-> t, msgs |-> Resolved(popped, current), failed |-> FALSE]
        /\ t = [s EXCEPT !.requests = Plus(@, popped), !.current_ncpus = new]
    BY <1>4, <1>7
  <2> HIDE DEF popped, t
  <2>2. \A q \in Pid : popped[q] \in Nat /\ popped[q] <= s.current_ncpus[q]
    BY <1>2, <1>3, <1>5
  <2>3. current \in [Pid -> Nat] /\ \A q \in Pid : current[q] = s.current_ncpus[q] - popped[q]
    BY <2>2, <1>2 DEF Minus
  <2>4. /\ Plus(s.requests, popped) \in [Pid -> Nat]
        /\ \A q \in Pid : Plus(s.requests, popped)[q] = s.requests[q] + popped[q]
    BY <2>2, <1>2 DEF Plus
  <2>5. popped[p] = 0
    BY <1>2, <1>3, <1>5
  <2> HIDE DEF current
  <2>6. current[p] + n \in Nat
    BY <2>3, <1>2
  <2>7. new \in [Pid -> Nat] /\ new[p] = s.current_ncpus[p] + n
    <3>1. current[p] = s.current_ncpus[p]
      BY <2>3, <2>5, <1>2
    <3> QED BY <3>1, <2>3, <2>6, <1>2
  <2>8. SumFunctionOnSet(new, P) + current[p] = SumFunctionOnSet(current, P) + (current[p] + n)
    BY <2>3, <2>6, <1>2, SumExcept
  <2> HIDE DEF new
  <2>9. /\ t.idle_cpus = s.idle_cpus
        /\ t.requests = Plus(s.requests, popped)
        /\ t.current_ncpus = new
        /\ t.processes = s.processes
        /\ t.attached_nprocs = s.attached_nprocs
    BY <2>1, <1>1 DEF ShData
  <2>10. t \in ShData
    BY <2>1, <2>4, <2>7, <1>1 DEF ShData
  <2>11. r \in Result
    <3>1. Resolved(popped, current) \in SUBSET Request
      BY <2>3, ResolvedType
    <3> QED BY <3>1, <2>1, <2>10 DEF Result
  <2>12. Served(t)
    <3>1. ASSUME NEW q \in Pid, t.requests[q] > 0 PROVE q \in t.processes
      <4>1. s.requests[q] \in Nat /\ popped[q] \in Nat /\ t.requests[q] = s.requests[q] + popped[q]
        BY <2>2, <2>4, <2>9, <1>2
      <4>2. CASE s.requests[q] > 0
        BY <4>2, <2>9, <1>1 DEF Served
      <4>3. CASE popped[q] > 0
        BY <4>3, <2>9, <1>3, <1>5
      <4> QED BY <4>1, <4>2, <4>3, <3>1
    <3>2. Cardinality(t.processes) <= max_processes
      BY <2>9, <1>1 DEF Served
    <3> QED BY <3>1, <3>2, <2>9 DEF Served
  <2>13. Cpus(t) = Cpus(s) + 0
    <3>1. \A q \in Pid \ P : popped[q] = 0
      BY <1>3, <1>5
    <3>2. SumFunctionOnSet(popped, P) = n
      BY <3>1, <1>2, <1>5, <1>7, TotalOfList
    <3>3. IsFiniteSet(P) /\ NatOn(s.current_ncpus, P) /\ NatOn(popped, P) /\ NatOn(current, P)
      BY <2>3, <1>2, <1>5, SumOfCpus
    <3>4. \A q \in P : s.current_ncpus[q] = current[q] + popped[q]
      BY <2>2, <2>3, <1>2
    <3>5. SumFunctionOnSet(s.current_ncpus, P)
            = SumFunctionOnSet(current, P) + SumFunctionOnSet(popped, P)
      BY <3>3, <3>4, SumAdds
    <3>6. SumFunctionOnSet(current, P) \in Nat /\ SumFunctionOnSet(new, P) \in Nat
      BY <2>3, <2>7, <1>2, SumOfCpus
    <3> DEFINE x == SumFunctionOnSet(new, P)
               y == SumFunctionOnSet(current, P)
               c == current[p]
    <3>7. Cpus(t) = s.idle_cpus + x /\ Cpus(s) = s.idle_cpus + (y + n)
      BY <2>9, <3>2, <3>5 DEF Cpus
    <3>8. x + c = y + (c + n) /\ x \in Nat /\ y \in Nat /\ c \in Nat
      BY <2>3, <2>8, <3>6, <1>2
    <3> HIDE DEF x, y, c
    <3> QED BY <3>7, <3>8
  <2>14. t.requests[p] = s.requests[p]
    BY <2>4, <2>5, <2>9, <1>2
  <2>15. r.shdata = t /\ ~r.failed
    BY <2>1
  <2>16. SameList(s, t)
    BY <2>9 DEF SameList
  <2>17. t.idle_cpus = 0 /\ t.current_ncpus[p] = s.current_ncpus[p] + n
    BY <2>7, <2>9
  <2> QED BY <2>11, <2>12, <2>13, <2>14, <2>15, <2>16, <2>17 DEF Keeps
<1> QED BY <1>6, <1>7

(* Two steps, one after the other. *)
LEMMA KeepsThen ==
  ASSUME NEW s, NEW b, NEW r, SameList(s, b), Cpus(b) = Cpus(s), NEW n, Keeps(b, r, n)
  PROVE  Keeps(s, r, n)
BY DEF Keeps, SameList

(* The result when nothing is reclaimed. *)
LEMMA KeepsPlain ==
  ASSUME NEW s, NEW b, Sound(b), SameList(s, b), Cpus(b) = Cpus(s),
         NEW r, r = [shdata |-> b, msgs |-> {}, failed |-> FALSE]
  PROVE  Keeps(s, r, 0)
<1>1. b \in ShData /\ Served(b)
  BY DEF Sound
<1>2. r \in Result /\ r.shdata = b
  BY <1>1 DEF Result
<1>3. Cpus(b) \in Nat
  BY <1>1, CpusIsNat
<1> QED BY <1>1, <1>2, <1>3 DEF Keeps

(* borrow_and_reclaim gets n CPUs for p, which lacks them, and only fails  *)
(* when the account of CPUs is wrong.                                      *)
LEMMA BorrowAndReclaim ==
  ASSUME NEW s, Sound(s), NEW p \in s.processes, NEW n \in Nat,
         s.current_ncpus[p] + n <= initial_ncpus[p],
         NEW r \in borrow_and_reclaim(s, p, n)
  PROVE  /\ Keeps(s, r, 0)
         /\ r.shdata.requests[p] = s.requests[p]
         /\ ~r.failed => r.shdata.current_ncpus[p] = s.current_ncpus[p] + n
         /\ r.failed => ~Balanced(s)
<1> DEFINE b == borrow_idle(s, p, n)
           m == Min2(s.idle_cpus, n)
           rest == n - (s.idle_cpus - b.idle_cpus)
<1>1. s \in ShData /\ p \in Pid /\ s.current_ncpus[p] \in Nat /\ initial_ncpus[p] \in Nat
      /\ s.idle_cpus \in Nat
  BY ShDataFields, LewiAsyncAssumption DEF Sound
<1>2. /\ Sound(b) /\ SameList(s, b) /\ Cpus(b) = Cpus(s)
      /\ m \in Nat /\ m <= n /\ s.idle_cpus - b.idle_cpus = m
      /\ m < n => b.idle_cpus = 0
      /\ b.requests = s.requests
      /\ b.current_ncpus[p] = s.current_ncpus[p] + m
  BY BorrowIdle
<1>3. r \in IF rest = 0 THEN {[shdata |-> b, msgs |-> {}, failed |-> FALSE]}
            ELSE reclaim_from_shmem(b, p, rest)
  BY DEF borrow_and_reclaim
<1> HIDE DEF b, m
<1>4. rest = n - m /\ rest \in Nat
  BY <1>2
<1> HIDE DEF rest
<1>5. CASE rest = 0
  <2>1. r = [shdata |-> b, msgs |-> {}, failed |-> FALSE]
    BY <1>3, <1>5
  <2>2. Keeps(s, r, 0)
    BY <2>1, <1>2, KeepsPlain
  <2>3. m = n
    BY <1>2, <1>4, <1>5
  <2> QED BY <2>1, <2>2, <2>3, <1>2
<1>6. CASE rest # 0
  <2>1. r \in reclaim_from_shmem(b, p, rest) /\ m < n /\ b.idle_cpus = 0
    BY <1>2, <1>3, <1>4, <1>6
  <2>2. p \in b.processes /\ b \in ShData
    BY <1>2 DEF SameList, Sound
  <2>3. b.current_ncpus[p] + rest <= initial_ncpus[p] /\ b.current_ncpus[p] <= initial_ncpus[p]
        /\ b.current_ncpus[p] \in Nat
    BY <1>1, <1>2, <1>4
  <2>4. /\ Keeps(b, r, 0)
        /\ r.shdata.requests[p] = b.requests[p]
        /\ r.failed => Total(Surplus(b)) \in Nat /\ Total(Surplus(b)) < rest
        /\ ~r.failed => r.shdata.current_ncpus[p] = b.current_ncpus[p] + rest
    BY <2>1, <2>2, <2>3, <1>2, <1>4, ReclaimFromKeeps
  <2>5. Keeps(s, r, 0)
    BY <2>4, <1>2, KeepsThen
  <2>6. ASSUME r.failed, Balanced(s) PROVE FALSE
    <3>1. Balanced(b)
      BY <2>6, <1>2 DEF Balanced, SameList
    <3>2. Total(Surplus(b)) \in Nat /\ Deficit(b, p) <= Total(Surplus(b))
      BY <2>1, <2>2, <3>1, SurplusCovers
    <3>3. Deficit(b, p) \in Nat /\ b.current_ncpus[p] + Deficit(b, p) = initial_ncpus[p]
      BY <2>2, <2>3, <1>1, SurplusFacts
    <3>4. rest <= Deficit(b, p)
      BY <2>3, <3>3, <1>1, <1>4
    <3> QED BY <2>4, <2>6, <3>2, <3>3, <3>4, <1>4
  <2>7. ~r.failed => r.shdata.current_ncpus[p] = s.current_ncpus[p] + n
    <3>1. ~r.failed => r.shdata.current_ncpus[p] = (s.current_ncpus[p] + m) + (n - m)
      BY <2>4, <1>2, <1>4
    <3>2. (s.current_ncpus[p] + m) + (n - m) = s.current_ncpus[p] + n
      BY <1>1, <1>2
    <3> QED BY <3>1, <3>2
  <2> QED BY <2>4, <2>5, <2>6, <2>7, <1>2
<1> QED BY <1>5, <1>6

(* A process of the list asks for v CPUs: nothing may be idle then. *)
LEMMA SetRequests ==
  ASSUME NEW s, Sound(s), NEW p \in s.processes, NEW v \in Nat, v = 0 \/ s.idle_cpus = 0
                                                            \/ v = s.requests[p]
  PROVE  LET t == [s EXCEPT !.requests[p] = v] IN
         /\ Sound(t) /\ SameList(s, t) /\ Cpus(t) = Cpus(s)
         /\ t.requests[p] = v /\ t.current_ncpus = s.current_ncpus /\ t.idle_cpus = s.idle_cpus
<1> DEFINE t == [s EXCEPT !.requests[p] = v]
<1>1. s \in ShData /\ Served(s)
  BY DEF Sound
<1>2. s.requests \in [Pid -> Nat] /\ p \in Pid
  BY <1>1, ShDataFields
<1> DEFINE q == [s.requests EXCEPT ![p] = v]
<1>3. q \in [Pid -> Nat] /\ q[p] = v /\ \A x \in Pid : x # p => q[x] = s.requests[x]
  BY <1>2
<1>4. t = [s EXCEPT !.requests = q]
  BY <1>1 DEF ShData
<1> HIDE DEF q, t
<1>5. /\ t.idle_cpus = s.idle_cpus /\ t.requests = q /\ t.current_ncpus = s.current_ncpus
      /\ t.processes = s.processes /\ t.attached_nprocs = s.attached_nprocs
  BY <1>1, <1>4 DEF ShData
<1>6. t \in ShData
  BY <1>1, <1>3, <1>4 DEF ShData
<1>7. Served(t)
  <2>1. ASSUME t.idle_cpus > 0, NEW x \in Pid PROVE t.requests[x] = 0
    <3>1. s.idle_cpus > 0 /\ s.requests[x] = 0 /\ s.requests[p] = 0
      BY <2>1, <1>1, <1>2, <1>5 DEF Served
    <3>2. v = 0
      BY <3>1
    <3> QED BY <3>1, <3>2, <1>3, <1>5
  <2>2. ASSUME NEW x \in Pid, t.requests[x] > 0 PROVE x \in t.processes
    <3>1. CASE x = p
      BY <3>1, <1>5
    <3>2. CASE x # p
      BY <3>2, <2>2, <1>1, <1>3, <1>5 DEF Served
    <3> QED BY <3>1, <3>2
  <2>3. Cardinality(t.processes) <= max_processes
    BY <1>1, <1>5 DEF Served
  <2> QED BY <2>1, <2>2, <2>3 DEF Served
<1>8. Cpus(t) = Cpus(s)
  BY <1>5 DEF Cpus
<1> QED BY <1>3, <1>5, <1>6, <1>7, <1>8 DEF Sound, SameList, t

(* A process of the list has v CPUs. *)
LEMMA SetCurrent ==
  ASSUME NEW s, Sound(s), NEW p \in s.processes, NEW v \in Nat
  PROVE  LET t == [s EXCEPT !.current_ncpus[p] = v] IN
         /\ Sound(t) /\ SameList(s, t)
         /\ Cpus(t) + s.current_ncpus[p] = Cpus(s) + v
         /\ t.requests = s.requests /\ t.idle_cpus = s.idle_cpus
         /\ t.current_ncpus[p] = v
<1> DEFINE t == [s EXCEPT !.current_ncpus[p] = v]
<1>1. s \in ShData /\ Served(s)
  BY DEF Sound
<1>2. s.current_ncpus \in [Pid -> Nat] /\ p \in Pid /\ s.processes \in SUBSET Pid
      /\ s.idle_cpus \in Nat /\ s.current_ncpus[p] \in Nat
  BY <1>1, ShDataFields
<1> DEFINE c == [s.current_ncpus EXCEPT ![p] = v]
<1>3. c \in [Pid -> Nat] /\ c[p] = v
  BY <1>2
<1>4. t = [s EXCEPT !.current_ncpus = c]
  BY <1>1 DEF ShData
<1>5. SumFunctionOnSet(c, s.processes) + s.current_ncpus[p]
        = SumFunctionOnSet(s.current_ncpus, s.processes) + v
  BY <1>2, SumExcept
<1> HIDE DEF c, t
<1>6. /\ t.idle_cpus = s.idle_cpus /\ t.requests = s.requests /\ t.current_ncpus = c
      /\ t.processes = s.processes /\ t.attached_nprocs = s.attached_nprocs
  BY <1>1, <1>4 DEF ShData
<1>7. t \in ShData
  BY <1>1, <1>3, <1>4 DEF ShData
<1>8. Served(t)
  BY <1>1, <1>6 DEF Served
<1>9. Cpus(t) + s.current_ncpus[p] = Cpus(s) + v
  <2> DEFINE x == SumFunctionOnSet(c, s.processes)
             y == SumFunctionOnSet(s.current_ncpus, s.processes)
             k == s.current_ncpus[p]
  <2>1. x \in Nat /\ y \in Nat /\ k \in Nat /\ x + k = y + v
    BY <1>2, <1>3, <1>5, SumOfCpus
  <2>2. Cpus(t) = s.idle_cpus + x /\ Cpus(s) = s.idle_cpus + y
    BY <1>6 DEF Cpus
  <2> HIDE DEF x, y
  <2>3. k \in Nat /\ x \in Nat /\ y \in Nat /\ x + k = y + v
    BY <2>1
  <2> HIDE DEF k
  <2>4. (s.idle_cpus + x) + k = (s.idle_cpus + y) + v
    BY <2>3, <1>2
  <2> QED BY <2>2, <2>4 DEF k
<1> QED BY <1>3, <1>6, <1>7, <1>8, <1>9 DEF Sound, SameList, t

(* A process that lends n of its CPUs keeps the account, and has no        *)
(* requests left.                                                          *)
LEMMA LendCpusKeeps ==
  ASSUME NEW s, Sound(s), NEW p \in s.processes, NEW n \in Nat, n <= s.current_ncpus[p],
         NEW r \in lend_cpus(s, p, n)
  PROVE  Keeps(s, r, 0) /\ r.shdata.requests[p] = 0 /\ ~r.failed
<1> DEFINE a == [s EXCEPT !.requests[p] = 0]
           b == [a EXCEPT !.current_ncpus[p] = s.current_ncpus[p] - n]
           c == s.current_ncpus[p]
<1>1. s \in ShData /\ p \in Pid /\ c \in Nat
  BY ShDataFields DEF Sound
<1>2. /\ Sound(a) /\ SameList(s, a) /\ Cpus(a) = Cpus(s)
      /\ a.requests[p] = 0 /\ a.current_ncpus = s.current_ncpus
  BY SetRequests
<1>3. r \in lend_ncpus_to_shmem(b, n)
  <2>1. b = [s EXCEPT !.requests[p] = 0, !.current_ncpus[p] = @ - n]
    BY <1>1 DEF ShData
  <2> QED BY <2>1 DEF lend_cpus
<1>4. p \in a.processes /\ c - n \in Nat /\ a.current_ncpus[p] = c
  BY <1>1, <1>2 DEF SameList
<1> HIDE DEF a
<1>5. /\ Sound(b) /\ SameList(a, b) /\ Cpus(b) + c = Cpus(a) + (c - n)
      /\ b.requests = a.requests
  BY <1>2, <1>4, SetCurrent
<1> HIDE DEF b
<1>6. /\ Keeps(b, r, n) /\ r.failed = FALSE
      /\ \A x \in Pid : r.shdata.requests[x] <= b.requests[x]
  BY <1>3, <1>5, LendKeeps
<1>7. r.shdata.requests[p] = 0
  <2>1. r.shdata \in ShData
    BY <1>6 DEF Keeps, Result
  <2>2. r.shdata.requests[p] \in Nat
    BY <2>1, <1>1, ShDataFields
  <2> QED BY <2>2, <1>1, <1>2, <1>5, <1>6
<1>8. Cpus(b) + n = Cpus(s)
  <2>1. Cpus(b) \in Nat /\ Cpus(s) \in Nat
    BY <1>1, <1>5, CpusIsNat DEF Sound
  <2> DEFINE x == Cpus(b)
             y == Cpus(s)
  <2>2. x + c = y + (c - n) /\ x \in Nat /\ y \in Nat /\ c \in Nat
    BY <2>1, <1>1, <1>2, <1>5
  <2> HIDE DEF c, x, y
  <2>3. x + n = y
    BY <2>2
  <2> QED BY <2>3 DEF x, y
<1>9. Keeps(s, r, 0)
  <2>1. Cpus(s) = Cpus(s) + 0
    <3>1. Cpus(s) \in Nat
      BY <1>1, CpusIsNat
    <3> QED BY <3>1
  <2> QED BY <2>1, <1>2, <1>5, <1>6, <1>8 DEF Keeps, SameList
<1> QED BY <1>6, <1>7, <1>9

(* reset_process leaves p with its initial CPUs and no request; it only    *)
(* fails when the account of CPUs is wrong.                                *)
LEMMA ResetKeeps ==
  ASSUME NEW s, Sound(s), NEW p \in s.processes, NEW r \in reset_process(s, p)
  PROVE  /\ Keeps(s, r, 0)
         /\ r.shdata.requests[p] = 0
         /\ ~r.failed => r.shdata.current_ncpus[p] = initial_ncpus[p]
         /\ r.failed => ~Balanced(s)
<1> DEFINE a == [s EXCEPT !.requests[p] = 0]
           b == [a EXCEPT !.current_ncpus[p] = initial_ncpus[p]]
           excess == Surplus(s)[p]
           c == s.current_ncpus[p]
<1>1. s \in ShData /\ p \in Pid /\ c \in Nat /\ initial_ncpus[p] \in Nat
  BY ShDataFields, LewiAsyncAssumption DEF Sound
<1>2. /\ Sound(a) /\ SameList(s, a) /\ Cpus(a) = Cpus(s)
      /\ a.requests[p] = 0 /\ a.current_ncpus = s.current_ncpus
  BY SetRequests
<1>3. r \in IF excess > 0 THEN lend_ncpus_to_shmem(b, excess)
            ELSE borrow_and_reclaim(a, p, Deficit(s, p))
  BY DEF reset_process
<1>4. p \in a.processes /\ a.current_ncpus[p] = c
  BY <1>2 DEF SameList
<1>5. /\ excess \in Nat /\ Deficit(s, p) \in Nat
      /\ c + Deficit(s, p) = initial_ncpus[p] + excess
      /\ c <= initial_ncpus[p] => c + Deficit(s, p) = initial_ncpus[p]
  BY <1>1, SurplusFacts
<1>6. excess > 0 => c = initial_ncpus[p] + excess
  BY <1>1 DEF Surplus
<1>7. excess = 0 => c <= initial_ncpus[p]
  BY <1>1 DEF Surplus
<1> HIDE DEF a, excess
<1>8. CASE excess > 0
  <2>1. /\ Sound(b) /\ SameList(a, b) /\ Cpus(b) + c = Cpus(a) + initial_ncpus[p]
        /\ b.requests = a.requests /\ b.current_ncpus[p] = initial_ncpus[p]
    BY <1>1, <1>2, <1>4, SetCurrent
  <2> HIDE DEF b
  <2>2. r \in lend_ncpus_to_shmem(b, excess)
    BY <1>3, <1>8
  <2>3. /\ Keeps(b, r, excess) /\ r.failed = FALSE
        /\ \A x \in Pid : r.shdata.requests[x] <= b.requests[x]
        /\ \A x \in Pid : b.requests[x] = 0 => r.shdata.current_ncpus[x] = b.current_ncpus[x]
    BY <2>1, <2>2, <1>5, LendKeeps
  <2>4. r.shdata.requests[p] = 0
    <3>1. r.shdata \in ShData
      BY <2>3 DEF Keeps, Result
    <3>2. r.shdata.requests[p] \in Nat
      BY <3>1, <1>1, ShDataFields
    <3> QED BY <3>2, <2>1, <2>3, <1>1, <1>2
  <2>5. r.shdata.current_ncpus[p] = initial_ncpus[p]
    BY <2>1, <2>3, <1>1, <1>2
  <2>6. Cpus(b) + excess = Cpus(s) + 0
    <3>1. Cpus(b) \in Nat /\ Cpus(s) \in Nat
      BY <2>1, <1>1, CpusIsNat DEF Sound
    <3>2. c = initial_ncpus[p] + excess
      BY <1>6, <1>8
    <3> HIDE DEF c
    <3> QED BY <3>1, <3>2, <2>1, <1>1, <1>2, <1>5
  <2>7. Keeps(s, r, 0)
    BY <2>1, <2>3, <2>6, <1>2 DEF Keeps, SameList
  <2> QED BY <2>3, <2>4, <2>5, <2>7
<1>9. CASE excess = 0
  <2> DEFINE d == Deficit(s, p)
  <2>1. c + d = initial_ncpus[p] /\ d \in Nat
    BY <1>5, <1>7, <1>9
  <2>2. r \in borrow_and_reclaim(a, p, d)
    BY <1>3, <1>9
  <2> HIDE DEF d
  <2>3. a.current_ncpus[p] + d <= initial_ncpus[p]
    BY <2>1, <1>1, <1>4
  <2>4. /\ Keeps(a, r, 0)
        /\ r.shdata.requests[p] = a.requests[p]
        /\ ~r.failed => r.shdata.current_ncpus[p] = a.current_ncpus[p] + d
        /\ r.failed => ~Balanced(a)
    BY <2>1, <2>2, <2>3, <1>2, <1>4, BorrowAndReclaim
  <2>5. Keeps(s, r, 0)
    BY <2>4, <1>2, KeepsThen
  <2>6. Balanced(s) => Balanced(a)
    BY <1>2 DEF Balanced, SameList
  <2> QED BY <2>1, <2>4, <2>5, <2>6, <1>2, <1>4
<1> QED BY <1>5, <1>8, <1>9

(* reclaim gives p what it lacks and then what it asked for before, and    *)
(* only fails when the account of CPUs is wrong.                           *)
LEMMA ReclaimKeeps ==
  ASSUME NEW s, Sound(s), NEW p \in s.processes, NEW prev \in Nat,
         s.current_ncpus[p] <= initial_ncpus[p],
         NEW r \in reclaim(s, p, prev)
  PROVE  /\ Keeps(s, r, 0)
         /\ ~r.failed => r.shdata.current_ncpus[p] >= initial_ncpus[p]
         /\ r.failed => ~Balanced(s)
<1> DEFINE d == Deficit(s, p)
<1>1. s \in ShData /\ p \in Pid /\ s.current_ncpus[p] \in Nat /\ initial_ncpus[p] \in Nat
  BY ShDataFields, LewiAsyncAssumption DEF Sound
<1>2. d \in Nat /\ s.current_ncpus[p] + d = initial_ncpus[p]
  BY <1>1, SurplusFacts
<1>3. PICK e \in borrow_and_reclaim(s, p, d) :
        LET a == borrow_idle(e.shdata, p, prev)
            rest == prev - (e.shdata.idle_cpus - a.idle_cpus) IN
        r = [e EXCEPT !.shdata = [a EXCEPT !.requests[p] = @ + rest]]
  BY DEF reclaim
<1> HIDE DEF d
<1>4. s.current_ncpus[p] + d <= initial_ncpus[p]
  BY <1>1, <1>2
<1>5. /\ Keeps(s, e, 0)
      /\ ~e.failed => e.shdata.current_ncpus[p] = s.current_ncpus[p] + d
      /\ e.failed => ~Balanced(s)
  BY <1>2, <1>4, BorrowAndReclaim
<1> DEFINE u == e.shdata
           a == borrow_idle(u, p, prev)
           m == Min2(u.idle_cpus, prev)
           rest == prev - (u.idle_cpus - a.idle_cpus)
           t == [a EXCEPT !.requests[p] = a.requests[p] + rest]
<1>6. Sound(u) /\ p \in u.processes /\ e \in Result /\ SameList(s, u) /\ Cpus(u) = Cpus(s)
  <2>1. Cpus(s) \in Nat
    BY <1>1, CpusIsNat
  <2>2. u \in ShData
    BY <1>5 DEF Keeps, Result
  <2> QED BY <2>1, <2>2, <1>5 DEF Keeps, Sound, SameList
<1>7. r = [e EXCEPT !.shdata = t]
  BY <1>3
<1>8. /\ Sound(a) /\ SameList(u, a) /\ Cpus(a) = Cpus(u)
      /\ m \in Nat /\ m <= prev /\ u.idle_cpus - a.idle_cpus = m
      /\ m < prev => a.idle_cpus = 0
      /\ a.requests = u.requests
      /\ a.current_ncpus[p] = u.current_ncpus[p] + m
  <2> HIDE DEF u
  <2> QED BY <1>6, BorrowIdle
<1> HIDE DEF u, a, m
<1>9. rest \in Nat /\ (rest = 0 \/ a.idle_cpus = 0)
  BY <1>8
<1> HIDE DEF rest
<1>10. p \in a.processes /\ a.requests[p] \in Nat
  <2>1. a \in ShData
    BY <1>8 DEF Sound
  <2> QED BY <2>1, <1>1, <1>6, <1>8, ShDataFields DEF SameList
<1> DEFINE v == a.requests[p] + rest
<1>11. v \in Nat /\ (v = 0 \/ a.idle_cpus = 0 \/ v = a.requests[p])
  BY <1>9, <1>10
<1>12. t = [a EXCEPT !.requests[p] = v]
  OBVIOUS
<1> HIDE DEF v, t
<1>13. Sound(t) /\ SameList(a, t) /\ Cpus(t) = Cpus(a) /\ t.current_ncpus = a.current_ncpus
  BY <1>8, <1>10, <1>11, <1>12, SetRequests
<1>14. r \in Result /\ r.shdata = t /\ r.failed = e.failed
  BY <1>6, <1>7, <1>13 DEF Result, Sound
<1>15. Keeps(s, r, 0)
  <2>1. Cpus(s) \in Nat
    BY <1>1, CpusIsNat
  <2>2. Cpus(t) = Cpus(s) + 0
    BY <2>1, <1>6, <1>8, <1>13
  <2> QED BY <2>2, <1>6, <1>8, <1>13, <1>14 DEF Keeps, SameList, Sound
<1>16. ASSUME ~r.failed PROVE r.shdata.current_ncpus[p] >= initial_ncpus[p]
  <2>1. r.shdata.current_ncpus[p] = u.current_ncpus[p] + m
    BY <1>8, <1>13, <1>14
  <2>2. u.current_ncpus[p] = initial_ncpus[p]
    BY <1>2, <1>5, <1>14, <1>16 DEF u
  <2> QED BY <2>1, <2>2, <1>1, <1>8
<1> QED BY <1>5, <1>14, <1>15, <1>16

(* acquire_cpus leaves what it could not get as a request. *)
LEMMA AcquireKeeps ==
  ASSUME NEW s, Sound(s), NEW p \in s.processes, NEW n \in Nat, NEW r \in acquire_cpus(s, p, n)
  PROVE  Keeps(s, r, 0) /\ ~r.failed
<1> DEFINE b == borrow_idle(s, p, n)
           m == Min2(s.idle_cpus, n)
           rest == n - (s.idle_cpus - b.idle_cpus)
           k == Min2(rest, Deficit(b, p))
<1>1. s \in ShData /\ p \in Pid
  BY ShDataFields DEF Sound
<1>2. /\ Sound(b) /\ SameList(s, b) /\ Cpus(b) = Cpus(s)
      /\ m \in Nat /\ m <= n /\ s.idle_cpus - b.idle_cpus = m
      /\ m < n => b.idle_cpus = 0
  BY BorrowIdle
<1>3. PICK e \in IF k = 0 THEN {[shdata |-> b, msgs |-> {}, failed |-> FALSE]}
                 ELSE reclaim_from_shmem(b, p, k) :
        LET noted == IF e.failed THEN rest ELSE rest - k IN
        r = [e EXCEPT !.shdata.requests[p] = @ + noted, !.failed = FALSE]
  BY DEF acquire_cpus
<1> DEFINE noted == IF e.failed THEN rest ELSE rest - k
<1> HIDE DEF b, m
<1>4. rest \in Nat /\ (rest = 0 \/ b.idle_cpus = 0)
  BY <1>2
<1>5. p \in b.processes /\ b \in ShData /\ b.current_ncpus[p] \in Nat /\ initial_ncpus[p] \in Nat
  BY <1>1, <1>2, ShDataFields, LewiAsyncAssumption DEF SameList, Sound
<1>6. Deficit(b, p) \in Nat /\ (Deficit(b, p) > 0 => b.current_ncpus[p] <= initial_ncpus[p])
  BY <1>5 DEF Deficit
<1> HIDE DEF rest
<1>7. k \in Nat /\ k <= rest /\ k <= Deficit(b, p)
  BY <1>4, <1>6 DEF Min2
<1> HIDE DEF k
<1>8. Keeps(b, e, 0) /\ (noted = 0 \/ e.shdata.idle_cpus = 0)
  <2>1. CASE k = 0
    <3>1. e = [shdata |-> b, msgs |-> {}, failed |-> FALSE]
      BY <2>1, <1>3
    <3>2. SameList(b, b)
      BY DEF SameList
    <3>3. Keeps(b, e, 0)
      BY <3>1, <3>2, <1>2, KeepsPlain
    <3>4. noted = rest /\ e.shdata = b
      BY <3>1, <2>1, <1>4
    <3> QED BY <3>3, <3>4, <1>4
  <2>2. CASE k # 0
    <3>1. e \in reclaim_from_shmem(b, p, k)
      BY <2>2, <1>3
    <3>2. b.current_ncpus[p] <= initial_ncpus[p] /\ b.idle_cpus = 0
      BY <2>2, <1>4, <1>6, <1>7
    <3>3. Keeps(b, e, 0) /\ e.shdata.idle_cpus = 0
      BY <3>1, <3>2, <1>2, <1>5, <1>7, ReclaimFromKeeps
    <3> QED BY <3>3
  <2> QED BY <2>1, <2>2
<1> DEFINE u == e.shdata
           v == u.requests[p] + noted
           t == [u EXCEPT !.requests[p] = v]
<1>9. e \in Result /\ Sound(u) /\ SameList(b, u) /\ Cpus(u) = Cpus(b) + 0
  BY <1>8 DEF Keeps, Sound, Result
<1>10. noted \in Nat
  BY <1>4, <1>7
<1>11. p \in u.processes /\ u.requests[p] \in Nat
  <2>1. u \in ShData
    BY <1>9 DEF Sound
  <2> HIDE DEF u
  <2> QED BY <2>1, <1>1, <1>5, <1>9, ShDataFields DEF SameList
<1>12. r = [e EXCEPT !.shdata = t, !.failed = FALSE]
  BY <1>3, <1>9 DEF Result
<1> HIDE DEF noted
<1>13. v \in Nat /\ (v = 0 \/ u.idle_cpus = 0 \/ v = u.requests[p])
  BY <1>8, <1>10, <1>11
<1> HIDE DEF u, v
<1>14. Sound(t) /\ SameList(u, t) /\ Cpus(t) = Cpus(u)
  BY <1>9, <1>11, <1>13, SetRequests
<1> HIDE DEF t
<1>15. r \in Result /\ r.shdata = t /\ ~r.failed
  BY <1>9, <1>12, <1>14 DEF Result, Sound
<1>16. Cpus(t) = Cpus(s) + 0
  BY <1>2, <1>9, <1>14
<1> QED BY <1>2, <1>9, <1>14, <1>15, <1>16 DEF Keeps, SameList, Sound

-----------------------------------------------------------------------------
(* The inductive invariant *)

(* Where a process is between its initialization and its finalization, and *)
(* where it may be while it is in the list of processes.                   *)
Inside == {"ready", "disabled", "blocked"}

InList == Inside \cup {"post"}

Places ==
  /\ \A p \in Pid : pc[p] \in InList => p \in shdata.processes
  /\ \A p \in Pid : pc[p] = "post" => post[p].next \in Inside
  /\ \A p \in shdata.processes : pc[p] \in InList \cup {"dead", "gone"}

Accounts ==
  NobodyDied => /\ shdata.attached_nprocs = Cardinality(shdata.processes)
                /\ Balanced(shdata)

Inv == TypeOK /\ Places /\ Served(shdata) /\ Accounts

(* The invariant implies what the runs check. *)
LEMMA InvImplies == Inv => RequestsAreServed /\ CpusConserved
BY DEF Inv, Served, Accounts, Balanced, Cpus, RequestsAreServed, CpusConserved

(* Nothing of the shared memory is used at first. *)
LEMMA EmptyIsSound ==
  /\ Sound(EmptyShmem) /\ EmptyShmem.processes = {} /\ EmptyShmem.attached_nprocs = 0
  /\ Balanced(EmptyShmem)
<1>1. 0 \in 0 .. UintSize - 1
  <2>1. Cardinality(Pid) \in Nat
    BY FS_CardinalityType, LewiAsyncAssumption
  <2> QED BY <2>1, LewiAsyncAssumption
<1>2. EmptyShmem \in ShData
  BY <1>1 DEF EmptyShmem, ShData
<1>3. EmptyShmem.processes = {} /\ EmptyShmem.attached_nprocs = 0 /\ EmptyShmem.idle_cpus = 0
      /\ EmptyShmem.requests = [p \in Pid |-> 0]
  BY DEF EmptyShmem
<1>4. Served(EmptyShmem)
  <2>1. Cardinality(EmptyShmem.processes) <= max_processes
    BY <1>3, FS_EmptySet, LewiAsyncAssumption
  <2> QED BY <2>1, <1>3 DEF Served
<1>5. \A f : SumFunctionOnSet(f, {}) = 0
  BY SumOfZero, FS_EmptySet
<1>6. Balanced(EmptyShmem)
  BY <1>3, <1>5 DEF Balanced, Cpus
<1> QED BY <1>2, <1>3, <1>4, <1>6 DEF Sound

(* It holds at first. *)
LEMMA InvInit == Init => Inv
<1> SUFFICES ASSUME Init PROVE Inv
  OBVIOUS
<1> USE DEF Init
<1>1. shdata \in ShData /\ Served(shdata)
  BY EmptyIsSound DEF Sound
<1>2. TypeOK
  <2>1. NoPost \in Post
    BY DEF NoPost, Post, PC
  <2>2. post \in [Pid -> Post] /\ pc \in [Pid -> PC]
    BY <2>1 DEF PC
  <2>3. <<>> \in Seq(Nat)
    OBVIOUS
  <2>4. inbox \in [Pid -> Seq(Nat)] /\ num_threads \in [Pid -> Nat] /\ prev_requested \in [Pid -> Nat]
    BY <2>3
  <2> QED BY <2>2, <2>4, <1>1 DEF TypeOK
<1>3. Places
  BY EmptyIsSound DEF Places, InList, Inside
<1>4. Accounts
  BY EmptyIsSound, FS_EmptySet DEF Accounts
<1> QED BY <1>1, <1>2, <1>3, <1>4 DEF Inv

(* t may follow: the same processes have the same CPUs. *)
Kept(t) == t \in ShData /\ Served(t) /\ SameList(shdata, t) /\ Cpus(t) = Cpus(shdata)

(* A step of a process of the list that stays in it.                       *)
LEMMA InsideKeeps ==
  ASSUME Inv, TypeOK', Kept(shdata'), NEW p \in Pid, pc[p] \in InList,
         NEW n \in InList, pc' = [pc EXCEPT ![p] = n],
         n = "post" => post'[p].next \in Inside,
         \A q \in Pid : q # p => post'[q] = post[q]
  PROVE  Inv'
<1>1. TypeOK /\ Places /\ Accounts
  BY DEF Inv
<1>2. shdata'.processes = shdata.processes /\ shdata'.attached_nprocs = shdata.attached_nprocs
      /\ Cpus(shdata') = Cpus(shdata) /\ Served(shdata')
  BY DEF Kept, SameList
<1>3. pc'[p] = n /\ \A q \in Pid : q # p => pc'[q] = pc[q]
  BY <1>1 DEF TypeOK
<1>4. shdata.processes \in SUBSET Pid
  BY <1>1, ShDataFields DEF TypeOK
<1>5. Places'
  <2>1. ASSUME NEW q \in Pid, pc'[q] \in InList PROVE q \in shdata'.processes
    BY <2>1, <1>1, <1>2, <1>3 DEF Places
  <2>2. ASSUME NEW q \in Pid, pc'[q] = "post" PROVE post'[q].next \in Inside
    BY <2>2, <1>1, <1>3 DEF Places
  <2>3. ASSUME NEW q \in shdata'.processes PROVE pc'[q] \in InList \cup {"dead", "gone"}
    BY <2>3, <1>1, <1>2, <1>3, <1>4 DEF Places
  <2> QED BY <2>1, <2>2, <2>3 DEF Places
<1>6. Accounts'
  <2>1. NobodyDied' => NobodyDied
    BY <1>3 DEF NobodyDied, InList, Inside
  <2> QED BY <2>1, <1>1, <1>2 DEF Accounts, Balanced
<1>7. Served(shdata)'
  BY <1>2 DEF Served
<1> QED BY <1>5, <1>6, <1>7 DEF Inv

(* The end of an operation under the lock. *)
LEMMA DoneKeeps ==
  ASSUME Inv, NEW p \in Pid, pc[p] \in InList, NEW r, Kept(r.shdata),
         r.msgs \in SUBSET Request, NEW next \in Inside, Done(p, r, next),
         prev_requested' \in [Pid -> Nat]
  PROVE  Inv'
<1>1. TypeOK
  BY DEF Inv
<1>2. shdata' = r.shdata /\ num_threads' = num_threads /\ inbox' = inbox
  BY DEF Done
<1>3. Kept(shdata')
  BY <1>2
<1>4. next \in PC /\ "post" \in PC /\ next \in InList /\ "post" \in InList
  BY DEF Inside, InList, PC
<1>5. CASE Threads
  <2> DEFINE x == [ncpus |-> r.shdata.current_ncpus[p], msgs |-> r.msgs, next |-> next]
  <2>1. post' = [post EXCEPT ![p] = x] /\ pc' = [pc EXCEPT ![p] = "post"]
    BY <1>5 DEF Done
  <2>2. x \in Post
    <3>1. r.shdata.current_ncpus[p] \in Nat
      BY ShDataFields DEF Kept
    <3> QED BY <3>1, <1>4 DEF Post
  <2>3. x.next = next
    OBVIOUS
  <2> HIDE DEF x
  <2>4. TypeOK'
    BY <2>1, <2>2, <1>1, <1>2, <1>3, <1>4 DEF TypeOK, Kept
  <2>5. post'[p].next \in Inside /\ \A q \in Pid : q # p => post'[q] = post[q]
    BY <2>1, <2>3, <1>1 DEF TypeOK
  <2> QED BY <2>1, <2>4, <2>5, <1>3, <1>4, InsideKeeps
<1>6. CASE ~Threads
  <2>1. post' = post /\ pc' = [pc EXCEPT ![p] = next]
    BY <1>6 DEF Done
  <2>2. TypeOK'
    BY <2>1, <1>1, <1>2, <1>3, <1>4 DEF TypeOK, Kept
  <2>3. next # "post"
    BY DEF Inside
  <2> QED BY <2>1, <2>2, <2>3, <1>3, <1>4, InsideKeeps
<1> QED BY <1>5, <1>6, LewiAsyncAssumption

(* The end of an operation that failed. *)
LEMMA FailedKeeps ==
  ASSUME Inv, NEW p \in Pid, pc[p] \in InList, NEW r, Kept(r.shdata),
         NEW next \in Inside, Failed(p, r, next)
  PROVE  Inv'
<1>1. TypeOK
  BY DEF Inv
<1>2. /\ shdata' = r.shdata /\ num_threads' = num_threads /\ inbox' = inbox
      /\ prev_requested' = prev_requested /\ post' = post /\ pc' = [pc EXCEPT ![p] = next]
  BY DEF Failed
<1>3. Kept(shdata')
  BY <1>2
<1>4. next \in PC /\ next \in InList /\ next # "post"
  BY DEF Inside, InList, PC
<1>5. TypeOK'
  BY <1>1, <1>2, <1>3, <1>4 DEF TypeOK, Kept
<1> QED BY <1>2, <1>3, <1>4, <1>5, InsideKeeps

(* What the operations on the shared memory keep may follow. *)
LEMMA KeepsIsKept ==
  ASSUME Inv, NEW r, Keeps(shdata, r, 0)
  PROVE  Kept(r.shdata) /\ r.msgs \in SUBSET Request
<1>1. Cpus(shdata) \in Nat
  BY CpusIsNat DEF Inv, TypeOK
<1> QED BY <1>1 DEF Keeps, Kept, Result

(* Nothing need change. *)
LEMMA SameIsKept == ASSUME Inv PROVE Kept(shdata)
BY DEF Inv, TypeOK, Kept, SameList

(* The shared memory of a process of the list. *)
LEMMA InvSound ==
  ASSUME Inv, NEW p \in Pid, pc[p] \in InList
  PROVE  /\ Sound(shdata) /\ p \in shdata.processes
         /\ shdata.current_ncpus[p] \in Nat /\ shdata.requests[p] \in Nat
         /\ shdata.idle_cpus \in Nat /\ prev_requested[p] \in Nat /\ initial_ncpus[p] \in Nat
<1>1. shdata \in ShData /\ prev_requested[p] \in Nat /\ initial_ncpus[p] \in Nat
  BY LewiAsyncAssumption DEF Inv, TypeOK
<1> QED BY <1>1, ShDataFields DEF Inv, Places, Sound

-----------------------------------------------------------------------------
(* The client operations *)

(* What lewi_info remembers is a number. *)
LEMMA RememberType ==
  ASSUME TypeOK, NEW p \in Pid, NEW n \in Nat, Remember(p, n)
  PROVE  prev_requested' \in [Pid -> Nat]
BY DEF TypeOK, Remember

(* What a process asks for again is a number. *)
LEMMA RequestedType ==
  ASSUME NEW s \in ShData, NEW p \in Pid, NEW n \in Nat
  PROVE  Requested(s, p, n) \in Nat
<1>1. Surplus(s)[p] \in Nat /\ s.requests[p] \in Nat
  BY SurplusFacts, ShDataFields
<1>2. Min2(Surplus(s)[p], n) \in Nat
  BY <1>1 DEF Min2
<1> QED BY <1>1, <1>2 DEF Requested

(* Lending n CPUs that the process has. *)
LEMMA LendingKeeps ==
  ASSUME Inv, NEW p \in Pid, pc[p] \in InList, NEW n \in Nat, n <= shdata.current_ncpus[p],
         NEW next \in Inside, Remember(p, Requested(shdata, p, n)),
         NEW r \in lend_cpus(shdata, p, n), Done(p, r, next)
  PROVE  Inv'
<1>1. TypeOK /\ shdata \in ShData
  BY DEF Inv, TypeOK
<1>2. Keeps(shdata, r, 0)
  BY InvSound, LendCpusKeeps
<1>3. Requested(shdata, p, n) \in Nat
  BY <1>1, RequestedType
<1>4. prev_requested' \in [Pid -> Nat]
  BY <1>1, <1>3, RememberType
<1> QED BY <1>2, <1>4, KeepsIsKept, DoneKeeps

(* DLB_LendCpus keeps the invariant. *)
LEMMA LendCpusStep == ASSUME Inv, NEW p \in Pid, LendCpus(p) PROVE Inv'
<1>1. pc[p] \in InList /\ "ready" \in Inside
  BY DEF LendCpus, Ready, InList, Inside
<1>2. PICK n \in ArgNcpus : /\ n <= shdata.current_ncpus[p]
                            /\ Remember(p, Requested(shdata, p, n))
                            /\ \E r \in lend_cpus(shdata, p, n) : Done(p, r, "ready")
  BY DEF LendCpus
<1>3. n \in Nat
  BY LewiAsyncAssumption
<1>4. PICK r \in lend_cpus(shdata, p, n) : Done(p, r, "ready")
  BY <1>2
<1> QED BY <1>1, <1>2, <1>3, <1>4, LendingKeeps

(* So does lending all CPUs but those that are kept, *)
LEMMA LendKeepStep ==
  ASSUME Inv, NEW p \in Pid, pc[p] \in InList, NEW keep \in {0, 1}, NEW next \in Inside,
         LendKeepCpus(p, keep, next)
  PROVE  Inv'
<1> DEFINE n == shdata.current_ncpus[p] - keep
<1>1. shdata.current_ncpus[p] \in Nat
  BY InvSound
<1>2. CASE n > 0
  <2>1. n \in Nat /\ n <= shdata.current_ncpus[p]
    BY <1>1, <1>2
  <2>2. Remember(p, Requested(shdata, p, n)) /\ \E r \in lend_cpus(shdata, p, n) : Done(p, r, next)
    BY <1>2 DEF LendKeepCpus
  <2> HIDE DEF n
  <2>3. PICK r \in lend_cpus(shdata, p, n) : Done(p, r, next)
    BY <2>2
  <2> QED BY <2>1, <2>2, <2>3, LendingKeeps
<1>3. CASE ~(n > 0)
  <2> DEFINE r == [shdata |-> shdata]
  <2>1. Failed(p, r, next) /\ r.shdata = shdata
    BY <1>3 DEF LendKeepCpus
  <2> HIDE DEF r
  <2> QED BY <2>1, SameIsKept, FailedKeeps
<1> QED BY <1>2, <1>3

(* which is what DLB_Lend does, *)
LEMMA LendStep == ASSUME Inv, NEW p \in Pid, Lend(p) PROVE Inv'
<1>1. pc[p] \in InList /\ "ready" \in Inside /\ 1 \in {0, 1} /\ LendKeepCpus(p, 1, "ready")
  BY DEF Lend, Ready, InList, Inside
<1> QED BY <1>1, LendKeepStep

(* and the start of a blocking call. *)
LEMMA IntoBlockingCallStep == ASSUME Inv, NEW p \in Pid, IntoBlockingCall(p) PROVE Inv'
<1>1. pc[p] \in InList /\ "blocked" \in Inside
  BY DEF IntoBlockingCall, Ready, InList, Inside
<1>2. PICK keep \in {0, 1} : LendKeepCpus(p, keep, "blocked")
  BY DEF IntoBlockingCall
<1> QED BY <1>1, <1>2, LendKeepStep

(* Reclaiming what the process lacks. *)
LEMMA ReclaimStep == ASSUME Inv, NEW p \in Pid, Reclaim(p) PROVE Inv'
<1>1. pc[p] \in InList /\ "ready" \in Inside
  BY DEF Reclaim, Ready, InList, Inside
<1>2. TypeOK
  BY DEF Inv
<1>3. CASE Deficit(shdata, p) > 0
  <2>1. PICK r \in reclaim(shdata, p, prev_requested[p]) :
          IF r.failed THEN Failed(p, r, "ready")
          ELSE /\ Done(p, r, "ready")
               /\ prev_requested' = [prev_requested EXCEPT ![p] = 0]
    BY <1>3 DEF Reclaim
  <2>2. shdata.current_ncpus[p] <= initial_ncpus[p]
    BY <1>1, <1>3, InvSound DEF Deficit
  <2>3. Keeps(shdata, r, 0)
    BY <2>2, <1>1, InvSound, ReclaimKeeps
  <2>4. Kept(r.shdata) /\ r.msgs \in SUBSET Request
    BY <2>3, KeepsIsKept
  <2>5. CASE r.failed
    BY <2>1, <2>4, <2>5, <1>1, FailedKeeps
  <2>6. CASE ~r.failed
    <3>1. Done(p, r, "ready") /\ prev_requested' = [prev_requested EXCEPT ![p] = 0]
      BY <2>1, <2>6
    <3>2. prev_requested' \in [Pid -> Nat]
      BY <3>1, <1>2 DEF TypeOK
    <3> QED BY <3>1, <3>2, <2>4, <1>1, DoneKeeps
  <2> QED BY <2>5, <2>6
<1>4. CASE ~(Deficit(shdata, p) > 0)
  <2> DEFINE r == [shdata |-> shdata]
  <2>1. Failed(p, r, "ready") /\ r.shdata = shdata
    BY <1>4 DEF Reclaim
  <2> HIDE DEF r
  <2> QED BY <2>1, <1>1, SameIsKept, FailedKeeps
<1> QED BY <1>3, <1>4

(* Asking for CPUs. *)
LEMMA AcquiringKeeps ==
  ASSUME Inv, NEW p \in Pid, pc[p] \in InList, NEW n \in Nat, Acquire(p, n)
  PROVE  Inv'
<1>1. TypeOK /\ prev_requested[p] \in Nat /\ "ready" \in Inside
  BY DEF Inv, TypeOK, Inside
<1> DEFINE k == n + prev_requested[p]
<1>2. PICK r \in acquire_cpus(shdata, p, k) : Done(p, r, "ready")
  BY DEF Acquire
<1>3. k \in Nat
  BY <1>1
<1> HIDE DEF k
<1>4. Keeps(shdata, r, 0)
  BY <1>3, InvSound, AcquireKeeps
<1>5. prev_requested' \in [Pid -> Nat]
  BY <1>1 DEF Acquire, TypeOK
<1> QED BY <1>1, <1>2, <1>4, <1>5, KeepsIsKept, DoneKeeps

(* DLB_AcquireCpus keeps the invariant. *)
LEMMA AcquireCpusStep == ASSUME Inv, NEW p \in Pid, AcquireCpus(p) PROVE Inv'
<1>1. pc[p] \in InList
  BY DEF AcquireCpus, Ready, InList, Inside
<1>2. PICK n \in ArgNcpus : Acquire(p, n)
  BY DEF AcquireCpus
<1>3. n \in Nat
  BY LewiAsyncAssumption
<1> QED BY <1>1, <1>2, <1>3, AcquiringKeeps

(* Deleting the requests keeps the invariant. *)
LEMMA RemoveRequestsStep == ASSUME Inv, NEW p \in Pid, RemoveRequests(p) PROVE Inv'
<1>1. pc[p] \in InList /\ TypeOK
  BY DEF RemoveRequests, Ready, InList, Inside, Inv
<1> DEFINE t == [shdata EXCEPT !.requests[p] = 0]
<1>2. Sound(t) /\ SameList(shdata, t) /\ Cpus(t) = Cpus(shdata)
  BY <1>1, InvSound, SetRequests
<1>3. /\ shdata' = t /\ prev_requested' = [prev_requested EXCEPT ![p] = 0]
      /\ pc' = pc /\ num_threads' = num_threads /\ post' = post /\ inbox' = inbox
  BY DEF RemoveRequests
<1> HIDE DEF t
<1>4. Kept(shdata')
  BY <1>2, <1>3 DEF Kept, Sound
<1>5. TypeOK'
  BY <1>1, <1>3, <1>4 DEF TypeOK, Kept
<1>6. pc' = [pc EXCEPT ![p] = pc[p]] /\ (pc[p] = "post" => post'[p].next \in Inside)
  BY <1>1, <1>3 DEF TypeOK, Inv, Places
<1> QED BY <1>1, <1>3, <1>4, <1>5, <1>6, InsideKeeps

(* Borrowing idle CPUs keeps the invariant. *)
LEMMA BorrowCpusStep == ASSUME Inv, NEW p \in Pid, BorrowCpus(p) PROVE Inv'
<1>1. pc[p] \in InList /\ "ready" \in Inside /\ TypeOK
  BY DEF BorrowCpus, Ready, InList, Inside, Inv
<1>2. PICK n \in ArgNcpus \cup {shdata.idle_cpus} :
        Done(p, [shdata |-> borrow_idle(shdata, p, n), msgs |-> {}], "ready")
  BY DEF BorrowCpus
<1>3. n \in Nat
  BY <1>1, InvSound, LewiAsyncAssumption
<1> DEFINE b == borrow_idle(shdata, p, n)
           r == [shdata |-> b, msgs |-> {}]
<1>4. Sound(b) /\ SameList(shdata, b) /\ Cpus(b) = Cpus(shdata)
  BY <1>1, <1>3, InvSound, BorrowIdle
<1>5. Done(p, r, "ready") /\ r.shdata = b /\ r.msgs \in SUBSET Request
  BY <1>2
<1>6. prev_requested' \in [Pid -> Nat]
  BY <1>1 DEF BorrowCpus, TypeOK
<1> HIDE DEF b, r
<1>7. Kept(r.shdata)
  BY <1>4, <1>5 DEF Kept, Sound
<1> QED BY <1>1, <1>5, <1>6, <1>7, DoneKeeps

(* Disabling DLB keeps the invariant, *)
LEMMA DisableStep == ASSUME Inv, NEW p \in Pid, Disable(p) PROVE Inv'
<1> DEFINE excess == Surplus(shdata)[p]
<1>1. pc[p] \in InList /\ "disabled" \in Inside /\ TypeOK
  BY DEF Disable, Ready, InList, Inside, Inv
<1>2. CASE shdata.current_ncpus[p] # initial_ncpus[p]
  <2>1. PICK r \in reset_process(shdata, p) :
          IF r.failed THEN Failed(p, r, "disabled")
          ELSE Done(p, r, "disabled") /\ Remember(p, shdata.requests[p] + excess)
    BY <1>2 DEF Disable
  <2>2. Keeps(shdata, r, 0)
    BY <1>1, InvSound, ResetKeeps
  <2>3. Kept(r.shdata) /\ r.msgs \in SUBSET Request
    BY <2>2, KeepsIsKept
  <2>4. CASE r.failed
    BY <2>1, <2>3, <2>4, <1>1, FailedKeeps
  <2>5. CASE ~r.failed
    <3>1. shdata.requests[p] + excess \in Nat
      <4>1. excess \in Nat
        BY <1>1, SurplusFacts DEF TypeOK
      <4> HIDE DEF excess
      <4> QED BY <4>1, <1>1, InvSound
    <3> HIDE DEF excess
    <3>2. Done(p, r, "disabled") /\ Remember(p, shdata.requests[p] + excess)
      BY <2>1, <2>5
    <3>3. prev_requested' \in [Pid -> Nat]
      BY <3>1, <3>2, <1>1, RememberType
    <3> QED BY <3>2, <3>3, <2>3, <1>1, DoneKeeps
  <2> QED BY <2>4, <2>5
<1>3. CASE shdata.current_ncpus[p] = initial_ncpus[p]
  <2> DEFINE r == [shdata |-> shdata]
  <2>1. Failed(p, r, "disabled") /\ r.shdata = shdata
    BY <1>3 DEF Disable
  <2> HIDE DEF r
  <2> QED BY <2>1, <1>1, SameIsKept, FailedKeeps
<1> QED BY <1>2, <1>3

(* and so does enabling it. *)
LEMMA EnableStep == ASSUME Inv, NEW p \in Pid, Enable(p) PROVE Inv'
<1>1. pc[p] \in InList /\ "ready" \in Inside /\ prev_requested[p] \in Nat
  BY DEF Enable, InList, Inside, Inv, TypeOK
<1>2. CASE prev_requested[p] > 0
  <2>1. Acquire(p, prev_requested[p])
    BY <1>2 DEF Enable
  <2> QED BY <2>1, <1>1, AcquiringKeeps
<1>3. CASE ~(prev_requested[p] > 0)
  <2> DEFINE r == [shdata |-> shdata]
  <2>1. Failed(p, r, "ready") /\ r.shdata = shdata
    BY <1>3 DEF Enable
  <2> HIDE DEF r
  <2> QED BY <2>1, <1>1, SameIsKept, FailedKeeps
<1> QED BY <1>2, <1>3

-----------------------------------------------------------------------------
(* After the unlock *)

(* Steps that leave the shared memory and the calls alone. *)
LEMMA QuietKeeps ==
  ASSUME Inv, TypeOK', shdata' = shdata, pc' = pc,
         \A q \in Pid : post'[q].next = post[q].next
  PROVE  Inv'
<1>1. Places'
  BY DEF Inv, Places
<1>2. Accounts'
  BY DEF Inv, Accounts, NobodyDied, Balanced, Cpus
<1>3. Served(shdata)'
  BY DEF Inv, Served
<1> QED BY <1>1, <1>2, <1>3 DEF Inv

(* A number of threads is a number. *)
LEMMA ThreadsType == ASSUME NEW n \in Nat PROVE update_threads(n) \in Nat
BY DEF update_threads

(* The process sets its own number of threads. *)
LEMMA SetNumThreadsStep == ASSUME Inv, NEW p \in Pid, SetNumThreads(p) PROVE Inv'
<1>1. TypeOK /\ post[p] \in Post /\ pc' = pc /\ shdata' = shdata
  BY DEF Inv, TypeOK, SetNumThreads
<1>2. post[p].ncpus \in Nat
  BY <1>1 DEF SetNumThreads, Post
<1>3. update_threads(post[p].ncpus) \in Nat
  BY <1>2, ThreadsType
<1> DEFINE x == [post[p] EXCEPT !.ncpus = Nothing]
<1>4. x \in Post /\ x.next = post[p].next
  BY <1>1 DEF Post
<1>5. post' = [post EXCEPT ![p] = x]
  BY DEF SetNumThreads
<1> HIDE DEF x
<1>6. TypeOK'
  BY <1>1, <1>3, <1>4, <1>5 DEF TypeOK, SetNumThreads
<1>7. \A q \in Pid : post'[q].next = post[q].next
  BY <1>1, <1>4, <1>5 DEF TypeOK
<1> QED BY <1>1, <1>6, <1>7, QuietKeeps

(* The process sends a number of threads. *)
LEMMA SendStep == ASSUME Inv, NEW p \in Pid, Send(p) PROVE Inv'
<1>1. TypeOK /\ post[p] \in Post
  BY DEF Inv, TypeOK
<1>2. PICK m \in post[p].msgs :
        /\ post' = [post EXCEPT ![p].msgs = @ \ {m}]
        /\ inbox' = IF HasHelper(m.pid) THEN [inbox EXCEPT ![m.pid] = Append(@, m.howmany)]
                    ELSE inbox
        /\ UNCHANGED <<shdata, pc, prev_requested, num_threads>>
  BY DEF Send
<1>3. m.pid \in Pid /\ m.howmany \in Nat
  BY <1>1 DEF Post, Request
<1> DEFINE x == [post[p] EXCEPT !.msgs = post[p].msgs \ {m}]
<1>4. x \in Post /\ x.next = post[p].next
  BY <1>1 DEF Post
<1>5. post' = [post EXCEPT ![p] = x]
  BY <1>2
<1> HIDE DEF x
<1>6. inbox' \in [Pid -> Seq(Nat)]
  <2>1. inbox[m.pid] \in Seq(Nat) /\ inbox \in [Pid -> Seq(Nat)]
    BY <1>1, <1>3 DEF TypeOK
  <2>2. Append(inbox[m.pid], m.howmany) \in Seq(Nat)
    BY <2>1, <1>3
  <2> QED BY <2>1, <2>2, <1>2, <1>3
<1>7. TypeOK'
  BY <1>1, <1>2, <1>4, <1>5, <1>6 DEF TypeOK
<1>8. \A q \in Pid : post'[q].next = post[q].next
  BY <1>1, <1>4, <1>5 DEF TypeOK
<1> QED BY <1>2, <1>7, <1>8, QuietKeeps

(* A helper sets a number of threads. *)
LEMMA HelperStepStep == ASSUME Inv, NEW p \in Pid, HelperStep(p) PROVE Inv'
<1>1. TypeOK /\ inbox[p] \in Seq(Nat) /\ inbox[p] # <<>>
  BY DEF Inv, TypeOK, HelperStep
<1>2. Head(inbox[p]) \in Nat /\ Tail(inbox[p]) \in Seq(Nat)
  BY <1>1
<1>3. update_threads(Head(inbox[p])) \in Nat
  BY <1>2, ThreadsType
<1>4. inbox' \in [Pid -> Seq(Nat)]
  BY <1>1, <1>2 DEF TypeOK, HelperStep
<1>5. num_threads' \in [Pid -> Nat]
  BY <1>1, <1>3 DEF TypeOK, HelperStep
<1>6. shdata' = shdata /\ pc' = pc /\ post' = post /\ prev_requested' = prev_requested
  BY DEF HelperStep
<1>7. TypeOK'
  BY <1>1, <1>4, <1>5, <1>6 DEF TypeOK
<1> QED BY <1>6, <1>7, QuietKeeps

(* The call returns. *)
LEMMA EndCallStep == ASSUME Inv, NEW p \in Pid, EndCall(p) PROVE Inv'
<1>1. TypeOK /\ pc[p] = "post" /\ post[p].next \in Inside
  BY DEF Inv, Places, EndCall
<1>2. /\ pc' = [pc EXCEPT ![p] = post[p].next] /\ post' = [post EXCEPT ![p] = NoPost]
      /\ shdata' = shdata /\ prev_requested' = prev_requested /\ num_threads' = num_threads
      /\ inbox' = inbox
  BY DEF EndCall
<1>3. NoPost \in Post
  BY DEF NoPost, Post, PC
<1>4. post[p].next \in PC /\ post[p].next \in InList /\ post[p].next # "post" /\ pc[p] \in InList
  BY <1>1 DEF Inside, InList, PC
<1>5. TypeOK'
  BY <1>1, <1>2, <1>3, <1>4 DEF TypeOK
<1>6. \A q \in Pid : q # p => post'[q] = post[q]
  BY <1>1, <1>2 DEF TypeOK
<1>7. Kept(shdata')
  BY <1>2, SameIsKept
<1> QED BY <1>2, <1>4, <1>5, <1>6, <1>7, InsideKeeps

-----------------------------------------------------------------------------
(* Coming and going *)

(* A step of a process that is not in the list, before and after, and the  *)
(* shared memory stays or is removed.                                      *)
LEMMA OutsideKeeps ==
  ASSUME Inv, TypeOK', NEW p \in Pid, pc[p] \notin InList \cup {"dead", "gone"}, NEW n \in PC,
         n \notin InList \cup {"dead", "gone"}, pc' = [pc EXCEPT ![p] = n],
         \A q \in Pid : q # p => post'[q] = post[q],
         NEW s \in ShData, Served(s), SameList(shdata, s), NobodyDied => Balanced(s),
         shdata' = s \/ (shdata' = EmptyShmem /\ Attached = {p})
  PROVE  Inv'
<1>1. TypeOK /\ Places /\ Accounts /\ Served(shdata)
  BY DEF Inv
<1>2. pc'[p] = n /\ \A q \in Pid : q # p => pc'[q] = pc[q]
  BY <1>1 DEF TypeOK
<1>3. NobodyDied' => NobodyDied
  BY <1>2 DEF NobodyDied
<1>4. CASE shdata' = s
  <2>1. shdata'.processes = shdata.processes /\ shdata'.attached_nprocs = shdata.attached_nprocs
        /\ shdata.processes \in SUBSET Pid
    BY <1>1, <1>4, ShDataFields DEF SameList, TypeOK
  <2>2. ASSUME NEW q \in Pid, pc'[q] \in InList PROVE q \in shdata'.processes
    BY <2>1, <2>2, <1>1, <1>2 DEF Places
  <2>3. ASSUME NEW q \in Pid, pc'[q] = "post" PROVE post'[q].next \in Inside
    BY <2>3, <1>1, <1>2 DEF Places, InList
  <2>4. ASSUME NEW q \in shdata'.processes PROVE pc'[q] \in InList \cup {"dead", "gone"}
    BY <2>1, <2>4, <1>1, <1>2 DEF Places
  <2>5. Places'
    BY <2>2, <2>3, <2>4 DEF Places
  <2>6. NobodyDied => Balanced(shdata')
    BY <1>4
  <2>7. Balanced(shdata') => Balanced(shdata)'
    BY DEF Balanced, Cpus
  <2>8. Accounts'
    BY <2>1, <2>6, <2>7, <1>1, <1>3 DEF Accounts
  <2>9. Served(shdata)'
    BY <1>4 DEF Served
  <2> QED BY <2>5, <2>8, <2>9 DEF Inv
<1>5. CASE shdata' = EmptyShmem /\ Attached = {p}
  <2>1. shdata'.processes = {} /\ shdata'.attached_nprocs = 0 /\ Served(shdata') /\ Balanced(shdata')
    BY <1>5, EmptyIsSound DEF Sound
  <2>2. ASSUME NEW q \in Pid PROVE pc'[q] \notin InList
    <3>1. CASE q = p
      BY <3>1, <1>2
    <3>2. CASE q # p
      <4>1. q \notin Attached
        BY <3>2, <1>5
      <4>2. pc[q] \notin InList
        BY <4>1 DEF Attached, InList, Inside
      <4> QED BY <4>2, <3>2, <1>2
    <3> QED BY <3>1, <3>2
  <2>3. Places'
    BY <2>1, <2>2 DEF Places, InList
  <2>4. Accounts'
    <3>1. Balanced(shdata)'
      BY <2>1 DEF Balanced, Cpus
    <3> QED BY <3>1, <2>1, FS_EmptySet DEF Accounts
  <2>5. Served(shdata)'
    BY <2>1 DEF Served
  <2> QED BY <2>3, <2>4, <2>5 DEF Inv
<1> QED BY <1>4, <1>5

(* The last process to detach may remove the shared memory. *)
LEMMA CloseStep == ASSUME Inv, NEW p \in Pid, Close(p) PROVE Inv'
<1>1. TypeOK /\ Served(shdata) /\ pc[p] = "closing" /\ shdata \in ShData
  BY DEF Inv, TypeOK, Close
<1>2. /\ shdata' = close_shmem(shdata, p) /\ pc' = [pc EXCEPT ![p] = "finishing"]
      /\ prev_requested' = prev_requested /\ num_threads' = num_threads /\ post' = post
      /\ inbox' = inbox
  BY DEF Close
<1>3. shdata' = shdata \/ (shdata' = EmptyShmem /\ Attached = {p})
  BY <1>2 DEF close_shmem
<1>4. shdata' \in ShData
  BY <1>1, <1>3, EmptyIsSound DEF Sound
<1>5. "finishing" \in PC /\ "finishing" \notin InList \cup {"dead", "gone"}
      /\ pc[p] \notin InList \cup {"dead", "gone"}
  BY <1>1 DEF PC, InList, Inside
<1>6. TypeOK'
  BY <1>1, <1>2, <1>4, <1>5 DEF TypeOK
<1>7. SameList(shdata, shdata) /\ (NobodyDied => Balanced(shdata))
  BY DEF SameList, Inv, Accounts
<1> QED BY <1>1, <1>2, <1>3, <1>5, <1>6, <1>7, OutsideKeeps

(* A process whose helper has finished is out. *)
LEMMA LeaveStep == ASSUME Inv, NEW p \in Pid, Leave(p) PROVE Inv'
<1>1. TypeOK /\ Served(shdata) /\ pc[p] \in {"noshmem", "finishing"} /\ shdata \in ShData
  BY DEF Inv, TypeOK, Leave
<1>2. /\ shdata' = shdata /\ pc' = [pc EXCEPT ![p] = "out"]
      /\ prev_requested' = prev_requested /\ num_threads' = [num_threads EXCEPT ![p] = 0]
      /\ post' = post /\ inbox' = inbox
  BY DEF Leave
<1>3. "out" \in PC /\ "out" \notin InList \cup {"dead", "gone"}
      /\ pc[p] \notin InList \cup {"dead", "gone"}
  BY <1>1 DEF PC, InList, Inside
<1>4. TypeOK'
  BY <1>1, <1>2, <1>3 DEF TypeOK
<1>5. SameList(shdata, shdata) /\ (NobodyDied => Balanced(shdata))
  BY DEF SameList, Inv, Accounts
<1> QED BY <1>1, <1>2, <1>3, <1>4, <1>5, OutsideKeeps

(* A process dies; what it had stays in the shared memory. *)
LEMMA CrashStep == ASSUME Inv, NEW p \in Pid, Crash(p) PROVE Inv'
<1>1. TypeOK /\ Places /\ Served(shdata)
  BY DEF Inv
<1>2. /\ shdata' = shdata /\ pc' = [pc EXCEPT ![p] = "dead"] /\ post' = [post EXCEPT ![p] = NoPost]
      /\ inbox' = [inbox EXCEPT ![p] = <<>>]
      /\ prev_requested' = [prev_requested EXCEPT ![p] = 0]
      /\ num_threads' = [num_threads EXCEPT ![p] = 0]
  BY DEF Crash
<1>3. NoPost \in Post /\ "dead" \in PC /\ <<>> \in Seq(Nat)
  BY DEF NoPost, Post, PC
<1>4. TypeOK'
  BY <1>1, <1>2, <1>3 DEF TypeOK
<1>5. pc'[p] = "dead" /\ \A q \in Pid : q # p => pc'[q] = pc[q] /\ post'[q] = post[q]
  BY <1>1, <1>2 DEF TypeOK
<1>6. shdata.processes \in SUBSET Pid
  BY <1>1, ShDataFields DEF TypeOK
<1>7. Places'
  <2>1. ASSUME NEW q \in Pid, pc'[q] \in InList PROVE q \in shdata'.processes
    BY <2>1, <1>1, <1>2, <1>5 DEF Places, InList, Inside
  <2>2. ASSUME NEW q \in Pid, pc'[q] = "post" PROVE post'[q].next \in Inside
    BY <2>2, <1>1, <1>5 DEF Places
  <2>3. ASSUME NEW q \in shdata'.processes PROVE pc'[q] \in InList \cup {"dead", "gone"}
    BY <2>3, <1>1, <1>2, <1>5, <1>6 DEF Places
  <2> QED BY <2>1, <2>2, <2>3 DEF Places
<1>8. Accounts'
  BY <1>5 DEF Accounts, NobodyDied
<1>9. Served(shdata)'
  BY <1>1, <1>2 DEF Served
<1> QED BY <1>4, <1>7, <1>8, <1>9 DEF Inv

(* Subsets of the processes can be counted by an unsigned. *)
LEMMA CountFits ==
  ASSUME NEW P \in SUBSET Pid
  PROVE  /\ IsFiniteSet(P) /\ Cardinality(P) \in Nat /\ Cardinality(P) < UintSize
         /\ \A p \in Pid \ P : Cardinality(P \cup {p}) = Cardinality(P) + 1
         /\ \A p \in P : Cardinality(P \ {p}) = Cardinality(P) - 1
         /\ Cardinality(P) = 0 => P = {}
<1>1. /\ IsFiniteSet(P) /\ Cardinality(P) \in Nat /\ Cardinality(Pid) \in Nat
      /\ Cardinality(P) <= Cardinality(Pid)
  BY FS_Subset, FS_CardinalityType, LewiAsyncAssumption
<1>2. Cardinality(P) < UintSize
  BY <1>1, LewiAsyncAssumption
<1>3. \A p \in Pid \ P : Cardinality(P \cup {p}) = Cardinality(P) + 1
  BY <1>1, FS_AddElement
<1>4. \A p \in P : Cardinality(P \ {p}) = Cardinality(P) - 1
  BY <1>1, FS_RemoveElement
<1>5. Cardinality(P) = 0 => P = {}
  BY <1>1, FS_EmptySet
<1> QED BY <1>1, <1>2, <1>3, <1>4, <1>5

(* An unsigned that has room for one more, or one to give back. *)
LEMMA UnsignedStays ==
  ASSUME NEW u \in Nat, NEW a \in 0 .. u - 1
  PROVE  /\ (a + 1) % u \in 0 .. u - 1 /\ (a - 1) % u \in 0 .. u - 1
         /\ a + 1 < u => (a + 1) % u = a + 1
         /\ a > 0 => (a - 1) % u = a - 1
<1>1. u > 0
  OBVIOUS
<1> QED BY <1>1

(* The dead are counted out, and then nobody is sure of the account. *)
LEMMA OpenStep == ASSUME Inv, NEW p \in Pid, Open(p) PROVE Inv'
<1> DEFINE dead == {q \in Pid : pc[q] = "dead"}
           n == shdata.attached_nprocs - Cardinality(dead)
           k == IF n < 0 THEN 0 ELSE n
<1>1. TypeOK /\ Places /\ Served(shdata) /\ Accounts /\ pc[p] = "out" /\ shdata \in ShData
  BY DEF Inv, TypeOK, Open
<1>2. /\ shdata' = [shdata EXCEPT !.attached_nprocs = k]
      /\ pc' = [q \in Pid |-> IF q = p THEN "open" ELSE IF q \in dead THEN "gone" ELSE pc[q]]
      /\ prev_requested' = prev_requested /\ num_threads' = num_threads /\ post' = post
      /\ inbox' = inbox
  BY DEF Open
<1>3. dead \in SUBSET Pid /\ Cardinality(dead) \in Nat
  <2>1. dead \in SUBSET Pid
    OBVIOUS
  <2> HIDE DEF dead
  <2> QED BY <2>1, CountFits
<1>4. shdata.attached_nprocs \in 0 .. UintSize - 1 /\ UintSize \in Nat
  BY <1>1, ShDataFields, LewiAsyncAssumption
<1>5. k \in 0 .. UintSize - 1
  <2> HIDE DEF dead
  <2> QED BY <1>3, <1>4
<1>6. dead = {} => k = shdata.attached_nprocs
  <2>1. dead = {} => Cardinality(dead) = 0
    BY FS_EmptySet
  <2> HIDE DEF dead
  <2> QED BY <2>1, <1>4
<1> HIDE DEF k
<1>7. /\ shdata'.attached_nprocs = k /\ shdata'.processes = shdata.processes
      /\ shdata'.idle_cpus = shdata.idle_cpus /\ shdata'.requests = shdata.requests
      /\ shdata'.current_ncpus = shdata.current_ncpus
  BY <1>1, <1>2 DEF ShData
<1>8. TypeOK'
  <2>1. shdata' \in ShData
    BY <1>1, <1>2, <1>5 DEF ShData
  <2>2. pc' \in [Pid -> PC]
    BY <1>1, <1>2 DEF TypeOK, PC
  <2> QED BY <2>1, <2>2, <1>1, <1>2 DEF TypeOK
<1>9. shdata.processes \in SUBSET Pid
  BY <1>1, ShDataFields
<1>10. \A q \in Pid : pc'[q] \in InList => pc'[q] = pc[q]
  BY <1>2 DEF InList, Inside
<1>11. Places'
  <2>1. ASSUME NEW q \in Pid, pc'[q] \in InList PROVE q \in shdata'.processes
    BY <2>1, <1>1, <1>7, <1>10 DEF Places
  <2>2. ASSUME NEW q \in Pid, pc'[q] = "post" PROVE post'[q].next \in Inside
    BY <2>2, <1>1, <1>2, <1>10 DEF Places, InList
  <2>3. ASSUME NEW q \in shdata'.processes PROVE pc'[q] \in InList \cup {"dead", "gone"}
    <3>1. q \in Pid /\ pc[q] \in InList \cup {"dead", "gone"}
      BY <2>3, <1>1, <1>7, <1>9 DEF Places
    <3>2. q # p
      BY <3>1, <1>1 DEF InList, Inside
    <3> QED BY <3>1, <3>2, <1>2
  <2> QED BY <2>1, <2>2, <2>3 DEF Places
<1>12. Served(shdata)'
  BY <1>1, <1>7 DEF Served
<1>13. Accounts'
  <2>1. SUFFICES ASSUME NobodyDied'
                 PROVE  /\ shdata'.attached_nprocs = Cardinality(shdata'.processes)
                        /\ Balanced(shdata)'
    BY DEF Accounts
  <2>2. \A q \in Pid : pc[q] \notin {"dead", "gone"}
    BY <2>1, <1>1, <1>2 DEF NobodyDied
  <2>3. NobodyDied /\ dead = {}
    BY <2>2 DEF NobodyDied
  <2>4. shdata.attached_nprocs = Cardinality(shdata.processes) /\ Balanced(shdata)
    BY <2>3, <1>1 DEF Accounts
  <2>5. Balanced(shdata)'
    BY <2>4, <1>7 DEF Balanced, Cpus
  <2> QED BY <2>3, <2>4, <2>5, <1>6, <1>7
<1> QED BY <1>8, <1>11, <1>12, <1>13 DEF Inv

(* The first process to initialize resets the idle CPUs and the requests. *)
LEMMA LewiInitStep == ASSUME Inv, NEW p \in Pid, LewiInit(p) PROVE Inv'
<1> DEFINE s == IF shdata.attached_nprocs = 0
                THEN [shdata EXCEPT !.idle_cpus = 0, !.requests = [q \in Pid |-> 0]]
                ELSE shdata
           P == shdata.processes
<1>1. TypeOK /\ Places /\ Served(shdata) /\ Accounts /\ pc[p] = "open" /\ shdata \in ShData
  BY DEF Inv, TypeOK, LewiInit
<1>2. /\ shdata.idle_cpus \in Nat /\ shdata.attached_nprocs \in 0 .. UintSize - 1
      /\ shdata.current_ncpus \in [Pid -> Nat] /\ P \in SUBSET Pid
      /\ initial_ncpus \in [Pid -> Nat] /\ initial_ncpus[p] \in Nat /\ UintSize \in Nat
  BY <1>1, ShDataFields, LewiAsyncAssumption
<1>3. p \notin P
  BY <1>1 DEF Places, InList, Inside
<1>4. s \in ShData
  BY <1>1 DEF ShData
<1>5. /\ s.processes = P /\ s.attached_nprocs = shdata.attached_nprocs
      /\ s.current_ncpus = shdata.current_ncpus
  BY <1>1 DEF ShData
<1>6. Served(s)
  <2>1. CASE shdata.attached_nprocs = 0
    <3>1. s.idle_cpus = 0 /\ s.requests = [q \in Pid |-> 0]
      BY <2>1, <1>1 DEF ShData
    <3> HIDE DEF s
    <3>2. Cardinality(s.processes) <= max_processes
      BY <1>1, <1>5 DEF Served
    <3> QED BY <3>1, <3>2 DEF Served
  <2>2. CASE shdata.attached_nprocs # 0
    BY <2>2, <1>1
  <2> QED BY <2>1, <2>2
<1>7. ASSUME NobodyDied PROVE Balanced(s) /\ shdata.attached_nprocs = Cardinality(P)
  <2>1. shdata.attached_nprocs = Cardinality(P) /\ Balanced(shdata)
    BY <1>1, <1>7 DEF Accounts
  <2>2. CASE shdata.attached_nprocs = 0
    <3>1. P = {}
      BY <2>1, <2>2, <1>2, CountFits
    <3>2. s.idle_cpus = 0
      BY <2>2, <1>1 DEF ShData
    <3>3. \A f : SumFunctionOnSet(f, {}) = 0
      BY SumOfZero, FS_EmptySet
    <3> HIDE DEF s
    <3>4. Balanced(s)
      BY <3>1, <3>2, <3>3, <1>5 DEF Balanced, Cpus
    <3> QED BY <2>1, <3>4
  <2>3. CASE shdata.attached_nprocs # 0
    BY <2>1, <2>3
  <2> QED BY <2>2, <2>3
<1>8. /\ num_threads' = [num_threads EXCEPT ![p] = update_threads(initial_ncpus[p])]
      /\ prev_requested' = prev_requested /\ post' = post /\ inbox' = inbox
  BY DEF LewiInit
<1>9. num_threads' \in [Pid -> Nat]
  BY <1>1, <1>2, <1>8, ThreadsType DEF TypeOK
<1>10. CASE Cardinality(s.processes) < max_processes
  <2> DEFINE a == (s.attached_nprocs + 1) % UintSize
             c == [s.current_ncpus EXCEPT ![p] = initial_ncpus[p]]
  <2>1. /\ shdata' = [s EXCEPT !.attached_nprocs = (@ + 1) % UintSize,
                               !.processes = @ \cup {p},
                               !.current_ncpus[p] = initial_ncpus[p]]
        /\ pc' = [pc EXCEPT ![p] = "ready"]
    BY <1>10 DEF LewiInit
  <2> HIDE DEF s
  <2>2. shdata' = [s EXCEPT !.attached_nprocs = a, !.processes = P \cup {p}, !.current_ncpus = c]
    BY <2>1, <1>4, <1>5 DEF ShData
  <2>3. a \in 0 .. UintSize - 1 /\ (shdata.attached_nprocs + 1 < UintSize => a = shdata.attached_nprocs + 1)
    BY <1>2, <1>5, UnsignedStays
  <2>4. c \in [Pid -> Nat] /\ c[p] = initial_ncpus[p] /\ \A q \in P : c[q] = s.current_ncpus[q]
    BY <1>2, <1>3, <1>5
  <2> HIDE DEF a, c
  <2>5. /\ shdata'.attached_nprocs = a /\ shdata'.processes = P \cup {p}
        /\ shdata'.current_ncpus = c /\ shdata'.idle_cpus = s.idle_cpus
        /\ shdata'.requests = s.requests
    BY <2>2, <1>4 DEF ShData
  <2>6. TypeOK'
    <3>1. shdata' \in ShData
      BY <2>2, <2>3, <2>4, <1>2, <1>4 DEF ShData
    <3>2. pc' \in [Pid -> PC]
      BY <2>1, <1>1 DEF TypeOK, PC
    <3> QED BY <3>1, <3>2, <1>1, <1>8, <1>9 DEF TypeOK
  <2>7. pc'[p] = "ready" /\ \A q \in Pid : q # p => pc'[q] = pc[q]
    BY <2>1, <1>1 DEF TypeOK
  <2>8. Places'
    <3>1. ASSUME NEW q \in Pid, pc'[q] \in InList PROVE q \in shdata'.processes
      BY <3>1, <2>5, <2>7, <1>1 DEF Places
    <3>2. ASSUME NEW q \in Pid, pc'[q] = "post" PROVE post'[q].next \in Inside
      BY <3>2, <2>7, <1>1, <1>8 DEF Places
    <3>3. ASSUME NEW q \in shdata'.processes PROVE pc'[q] \in InList \cup {"dead", "gone"}
      <4>1. CASE q = p
        BY <4>1, <2>7 DEF InList, Inside
      <4>2. CASE q # p
        BY <4>2, <3>3, <2>5, <2>7, <1>1, <1>2 DEF Places
      <4> QED BY <4>1, <4>2
    <3> QED BY <3>1, <3>2, <3>3 DEF Places
  <2>9. Served(shdata)'
    <3>1. Cardinality(P \cup {p}) = Cardinality(P) + 1 /\ Cardinality(P) \in Nat
      BY <1>2, <1>3, FS_Subset, FS_AddElement, FS_CardinalityType, LewiAsyncAssumption
    <3>2. Cardinality(shdata'.processes) <= max_processes
      BY <3>1, <2>5, <1>5, <1>10, LewiAsyncAssumption
    <3> QED BY <3>2, <2>5, <1>5, <1>6 DEF Served
  <2>10. Accounts'
    <3>1. SUFFICES ASSUME NobodyDied'
                   PROVE  /\ shdata'.attached_nprocs = Cardinality(shdata'.processes)
                          /\ Balanced(shdata)'
      BY DEF Accounts
    <3>2. NobodyDied
      BY <3>1, <2>7, <1>1 DEF NobodyDied
    <3>3. Balanced(s) /\ shdata.attached_nprocs = Cardinality(P)
      BY <3>2, <1>7
    <3>4. P \cup {p} \in SUBSET Pid /\ Cardinality(P \cup {p}) = Cardinality(P) + 1
      BY <1>2, <1>3, CountFits
    <3>5. Cardinality(P \cup {p}) < UintSize
      BY <3>4, CountFits
    <3>6. a = Cardinality(P \cup {p})
      BY <2>3, <3>3, <3>4, <3>5
    <3>7. /\ SumFunctionOnSet(c, P \cup {p}) = c[p] + SumFunctionOnSet(c, P)
          /\ SumFunctionOnSet(initial_ncpus, P \cup {p}) = initial_ncpus[p] + SumFunctionOnSet(initial_ncpus, P)
      <4>1. p \in P \cup {p} /\ (P \cup {p}) \ {p} = P
        BY <1>3
      <4>2. IsFiniteSet(P \cup {p}) /\ NatOn(c, P \cup {p}) /\ NatOn(initial_ncpus, P \cup {p})
        BY <2>4, <3>4, <1>2, SumOfCpus
      <4> DEFINE Q == P \cup {p}
      <4> HIDE DEF Q
      <4>3. p \in Q /\ Q \ {p} = P /\ IsFiniteSet(Q) /\ NatOn(c, Q) /\ NatOn(initial_ncpus, Q)
        BY <4>1, <4>2 DEF Q
      <4>4. SumFunctionOnSet(c, Q) = c[p] + SumFunctionOnSet(c, Q \ {p})
        BY <4>3, SumTakes
      <4>5. SumFunctionOnSet(initial_ncpus, Q) = initial_ncpus[p] + SumFunctionOnSet(initial_ncpus, Q \ {p})
        BY <4>3, SumTakes
      <4> QED BY <4>3, <4>4, <4>5 DEF Q
    <3>8. SumFunctionOnSet(c, P) = SumFunctionOnSet(s.current_ncpus, P)
      <4>1. IsFiniteSet(P) /\ NatOn(s.current_ncpus, P)
        BY <1>2, <1>5, SumOfCpus
      <4> QED BY <4>1, <2>4, SumSame
    <3>9. SumFunctionOnSet(s.current_ncpus, P) \in Nat /\ SumFunctionOnSet(initial_ncpus, P) \in Nat
          /\ s.idle_cpus \in Nat
      BY <1>2, <1>4, <1>5, SumOfCpus, ShDataFields
    <3> DEFINE x == SumFunctionOnSet(s.current_ncpus, P)
               y == SumFunctionOnSet(initial_ncpus, P)
               i == initial_ncpus[p]
    <3>10. s.idle_cpus + x = y
      BY <3>3, <1>5 DEF Balanced, Cpus
    <3>11. i \in Nat /\ x \in Nat /\ y \in Nat
      BY <3>9, <1>2
    <3>12. SumFunctionOnSet(c, P \cup {p}) = i + x /\ SumFunctionOnSet(initial_ncpus, P \cup {p}) = i + y
      BY <2>4, <3>7, <3>8
    <3>13. s.idle_cpus + (i + x) = i + y
      <4> HIDE DEF x, y, i
      <4> QED BY <3>9, <3>10, <3>11
    <3>14. Balanced(shdata)'
      <4> HIDE DEF x, y, i
      <4> QED BY <2>5, <3>12, <3>13 DEF Balanced, Cpus
    <3> QED BY <2>5, <3>6, <3>14
  <2> QED BY <2>6, <2>8, <2>9, <2>10 DEF Inv
<1>11. CASE ~(Cardinality(s.processes) < max_processes)
  <2>1. shdata' = close_shmem(s, p) /\ pc' = [pc EXCEPT ![p] = "noshmem"]
    BY <1>11 DEF LewiInit
  <2> HIDE DEF s
  <2>2. shdata' = s \/ (shdata' = EmptyShmem /\ Attached = {p})
    BY <2>1 DEF close_shmem
  <2>3. shdata' \in ShData
    BY <2>2, <1>4, EmptyIsSound DEF Sound
  <2>4. "noshmem" \in PC /\ "noshmem" \notin InList \cup {"dead", "gone"}
        /\ pc[p] \notin InList \cup {"dead", "gone"}
    BY <1>1 DEF PC, InList, Inside
  <2>5. TypeOK'
    BY <2>1, <2>3, <2>4, <1>1, <1>8, <1>9 DEF TypeOK
  <2>6. SameList(shdata, s)
    BY <1>5 DEF SameList
  <2> QED BY <2>1, <2>2, <2>4, <2>5, <2>6, <1>4, <1>6, <1>7, <1>8, OutsideKeeps
<1> QED BY <1>10, <1>11

(* A process that leaves has its initial CPUs and no request. *)
LEMMA FinalizeStep == ASSUME Inv, NEW p \in Pid, Finalize(p) PROVE Inv'
<1> DEFINE P == shdata.processes
<1>1. TypeOK /\ Places /\ Accounts /\ pc[p] \in {"ready", "disabled"} /\ pc[p] \in InList
  BY DEF Inv, Finalize, InList, Inside
<1>2. Sound(shdata) /\ p \in P /\ initial_ncpus[p] \in Nat /\ shdata \in ShData
  BY <1>1, InvSound DEF TypeOK
<1>3. PICK r \in reset_process(shdata, p) :
        /\ shdata' = [r.shdata EXCEPT !.processes = @ \ {p}, !.current_ncpus[p] = 0,
                                      !.attached_nprocs = (@ - 1) % UintSize]
        /\ post' = [post EXCEPT ![p] = [NoPost EXCEPT !.msgs = IF Threads THEN r.msgs ELSE {}]]
  BY DEF Finalize
<1>4. /\ Keeps(shdata, r, 0) /\ r.shdata.requests[p] = 0
      /\ ~r.failed => r.shdata.current_ncpus[p] = initial_ncpus[p]
      /\ r.failed => ~Balanced(shdata)
  BY <1>2, ResetKeeps
<1> DEFINE s == r.shdata
           a == (s.attached_nprocs - 1) % UintSize
           c == [s.current_ncpus EXCEPT ![p] = 0]
           x == [NoPost EXCEPT !.msgs = IF Threads THEN r.msgs ELSE {}]
<1>5. s \in ShData /\ Served(s) /\ SameList(shdata, s) /\ Cpus(s) = Cpus(shdata)
      /\ r.msgs \in SUBSET Request
  BY <1>4, KeepsIsKept DEF Kept
<1> HIDE DEF s
<1>6. shdata' = [s EXCEPT !.processes = P \ {p}, !.current_ncpus = c, !.attached_nprocs = a]
  <2>1. s.processes = P
    BY <1>5 DEF SameList
  <2> QED BY <2>1, <1>3, <1>5 DEF s, ShData
<1>7. /\ s.processes = P /\ P \in SUBSET Pid /\ s.attached_nprocs = shdata.attached_nprocs
      /\ s.current_ncpus \in [Pid -> Nat] /\ s.idle_cpus \in Nat
      /\ s.attached_nprocs \in 0 .. UintSize - 1 /\ UintSize \in Nat
      /\ initial_ncpus \in [Pid -> Nat]
  BY <1>2, <1>5, ShDataFields, LewiAsyncAssumption DEF SameList
<1>8. a \in 0 .. UintSize - 1 /\ (s.attached_nprocs > 0 => a = s.attached_nprocs - 1)
  BY <1>7, UnsignedStays
<1>9. c \in [Pid -> Nat] /\ \A q \in P \ {p} : c[q] = s.current_ncpus[q]
  BY <1>7
<1>10. x \in Post
  BY <1>5 DEF NoPost, Post, PC
<1> HIDE DEF a, c, x
<1>11. /\ shdata'.attached_nprocs = a /\ shdata'.processes = P \ {p}
       /\ shdata'.current_ncpus = c /\ shdata'.idle_cpus = s.idle_cpus
       /\ shdata'.requests = s.requests
  BY <1>5, <1>6 DEF ShData
<1>12. /\ pc' = [pc EXCEPT ![p] = "closing"] /\ prev_requested' = [prev_requested EXCEPT ![p] = 0]
       /\ num_threads' = num_threads /\ inbox' = inbox /\ post' = [post EXCEPT ![p] = x]
  BY <1>3 DEF Finalize, x
<1>13. TypeOK'
  <2>1. shdata' \in ShData
    BY <1>5, <1>6, <1>7, <1>8, <1>9 DEF ShData
  <2>2. pc' \in [Pid -> PC]
    BY <1>1, <1>12 DEF TypeOK, PC
  <2> QED BY <2>1, <2>2, <1>1, <1>10, <1>12 DEF TypeOK
<1>14. pc'[p] = "closing" /\ \A q \in Pid : q # p => pc'[q] = pc[q] /\ post'[q] = post[q]
  BY <1>1, <1>12 DEF TypeOK
<1>15. Places'
  <2>1. ASSUME NEW q \in Pid, pc'[q] \in InList PROVE q \in shdata'.processes
    <3>1. q # p
      BY <2>1, <1>14 DEF InList, Inside
    <3> QED BY <3>1, <2>1, <1>1, <1>11, <1>14 DEF Places
  <2>2. ASSUME NEW q \in Pid, pc'[q] = "post" PROVE post'[q].next \in Inside
    BY <2>2, <1>1, <1>14 DEF Places
  <2>3. ASSUME NEW q \in shdata'.processes PROVE pc'[q] \in InList \cup {"dead", "gone"}
    BY <2>3, <1>1, <1>7, <1>11, <1>14 DEF Places
  <2> QED BY <2>1, <2>2, <2>3 DEF Places
<1>16. Served(shdata)'
  <2>1. ASSUME shdata'.idle_cpus > 0, NEW q \in Pid PROVE shdata'.requests[q] = 0
    BY <2>1, <1>5, <1>11 DEF Served
  <2>2. ASSUME NEW q \in Pid, shdata'.requests[q] > 0 PROVE q \in shdata'.processes
    <3>1. q # p /\ q \in s.processes
      BY <2>2, <1>4, <1>5, <1>11 DEF Served, s
    <3> QED BY <3>1, <1>7, <1>11
  <2>3. Cardinality(shdata'.processes) <= max_processes
    <3>1. Cardinality(P) <= max_processes
      BY <1>5, <1>7 DEF Served
    <3>2. /\ Cardinality(P \ {p}) \in Nat /\ Cardinality(P) \in Nat
          /\ Cardinality(P \ {p}) <= Cardinality(P)
      BY <1>7, FS_Subset, FS_CardinalityType, LewiAsyncAssumption
    <3> QED BY <3>1, <3>2, <1>11, LewiAsyncAssumption
  <2> QED BY <2>1, <2>2, <2>3 DEF Served
<1>17. Accounts'
  <2>1. SUFFICES ASSUME NobodyDied'
                 PROVE  /\ shdata'.attached_nprocs = Cardinality(shdata'.processes)
                        /\ Balanced(shdata)'
    BY DEF Accounts
  <2>2. NobodyDied
    BY <2>1, <1>1, <1>14 DEF NobodyDied
  <2>3. shdata.attached_nprocs = Cardinality(P) /\ Balanced(shdata)
    BY <2>2, <1>1 DEF Accounts
  <2>4. Cardinality(P) \in Nat /\ Cardinality(P) > 0 /\ Cardinality(P \ {p}) = Cardinality(P) - 1
    BY <1>2, <1>7, CountFits
  <2>5. a = Cardinality(P \ {p})
    BY <2>3, <2>4, <1>7, <1>8
  <2>6. s.current_ncpus[p] = initial_ncpus[p]
    BY <2>3, <1>4 DEF s
  <2>7. SumFunctionOnSet(s.current_ncpus, P) = initial_ncpus[p] + SumFunctionOnSet(s.current_ncpus, P \ {p})
    <3>1. IsFiniteSet(P) /\ NatOn(s.current_ncpus, P)
      BY <1>7, SumOfCpus
    <3> QED BY <3>1, <2>6, <1>2, SumTakes
  <2>8. SumFunctionOnSet(initial_ncpus, P) = initial_ncpus[p] + SumFunctionOnSet(initial_ncpus, P \ {p})
    <3>1. IsFiniteSet(P) /\ NatOn(initial_ncpus, P)
      BY <1>7, SumOfCpus
    <3> QED BY <3>1, <1>2, SumTakes
  <2> DEFINE Q == P \ {p}
  <2>9. Q \in SUBSET Pid
    BY <1>7
  <2> HIDE DEF Q
  <2>10. SumFunctionOnSet(c, Q) = SumFunctionOnSet(s.current_ncpus, Q)
    <3>1. IsFiniteSet(Q) /\ NatOn(s.current_ncpus, Q)
      BY <2>9, <1>7, SumOfCpus
    <3>2. \A q \in Q : c[q] = s.current_ncpus[q]
      BY <1>9 DEF Q
    <3> QED BY <3>1, <3>2, SumSame
  <2>11. SumFunctionOnSet(s.current_ncpus, Q) \in Nat /\ SumFunctionOnSet(initial_ncpus, Q) \in Nat
    BY <2>9, <1>7, SumOfCpus
  <2>12. s.idle_cpus + SumFunctionOnSet(s.current_ncpus, P) = SumFunctionOnSet(initial_ncpus, P)
    BY <2>3, <1>5, <1>7 DEF Balanced, Cpus
  <2> DEFINE u == SumFunctionOnSet(s.current_ncpus, Q)
             v == SumFunctionOnSet(initial_ncpus, Q)
             i == initial_ncpus[p]
  <2>13. s.idle_cpus + (i + u) = i + v /\ u \in Nat /\ v \in Nat /\ i \in Nat
    BY <2>7, <2>8, <2>11, <2>12, <1>2 DEF Q
  <2>14. s.idle_cpus + u = v
    <3> HIDE DEF u, v, i
    <3> QED BY <2>13, <1>7
  <2>15. Balanced(shdata)'
    <3>1. shdata'.processes = Q
      BY <1>11 DEF Q
    <3> QED BY <3>1, <2>10, <2>14, <1>11 DEF Balanced, Cpus
  <2> QED BY <2>5, <2>15, <1>11
<1> QED BY <1>13, <1>15, <1>16, <1>17 DEF Inv

-----------------------------------------------------------------------------
(* The theorems *)

(* Every step keeps the invariant. *)
LEMMA InvStep == Inv /\ [Next]_vars => Inv'
<1> SUFFICES ASSUME Inv, [Next]_vars PROVE Inv'
  OBVIOUS
<1>1. CASE UNCHANGED vars
  <2>1. /\ shdata' = shdata /\ pc' = pc /\ prev_requested' = prev_requested
        /\ num_threads' = num_threads /\ post' = post /\ inbox' = inbox
    BY <1>1 DEF vars
  <2>2. TypeOK'
    BY <2>1 DEF Inv, TypeOK
  <2> QED BY <2>1, <2>2, QuietKeeps
<1>2. CASE Next
  <2>1. PICK p \in Pid :
          \/ Open(p) \/ LewiInit(p)
          \/ LendCpus(p) \/ Lend(p) \/ IntoBlockingCall(p)
          \/ Reclaim(p)
          \/ AcquireCpus(p) \/ RemoveRequests(p) \/ BorrowCpus(p)
          \/ Disable(p) \/ Enable(p)
          \/ SetNumThreads(p) \/ Send(p) \/ EndCall(p) \/ HelperStep(p)
          \/ Finalize(p) \/ Close(p) \/ Leave(p) \/ Crash(p)
    BY <1>2 DEF Next
  <2> QED BY <2>1, OpenStep, LewiInitStep, LendCpusStep, LendStep, IntoBlockingCallStep,
             ReclaimStep, AcquireCpusStep, RemoveRequestsStep, BorrowCpusStep, DisableStep,
             EnableStep, SetNumThreadsStep, SendStep, EndCallStep, HelperStepStep,
             FinalizeStep, CloseStep, LeaveStep, CrashStep
<1> QED BY <1>1, <1>2

(* The invariant holds in every state. *)
LEMMA InvHolds == Spec => []Inv
BY InvInit, InvStep, PTL DEF Spec

(* The shared memory and the processes keep their types: in particular no  *)
(* unsigned number of CPUs of shmem_lewi_async.c goes below zero.          *)
THEOREM LewiAsyncTypeCorrect == Spec => []TypeOK
<1>1. Inv => TypeOK
  BY DEF Inv
<1> QED BY <1>1, InvHolds, PTL

(* No CPU is idle while a process asks for one, and no request is of a     *)
(* process that has left the list (lend_ncpus_to_shmem).                   *)
THEOREM RequestsAreAlwaysServed == Spec => []RequestsAreServed
<1>1. Inv => RequestsAreServed
  BY InvImplies
<1> QED BY <1>1, InvHolds, PTL

(* While no process dies, CPUs are neither created nor lost                *)
(* (shmem_lewi_async.c).                                                   *)
THEOREM CpusAreAlwaysConserved == Spec => []CpusConserved
<1>1. Inv => CpusConserved
  BY InvImplies
<1> QED BY <1>1, InvHolds, PTL

(* While no process dies, a process that comes out of a blocking call has  *)
(* its CPUs again: reclaim_from_shmem cannot fail.                         *)
THEOREM ReclaimAlwaysRestores == Spec => ReclaimRestores
<1> DEFINE Restores(p) ==
      NobodyDied /\ pc[p] = "blocked" /\ pc'[p] \in {"ready", "post"}
        => shdata'.current_ncpus[p] >= initial_ncpus[p]
<1>1. ASSUME Inv, [Next]_vars, NEW p \in Pid PROVE Restores(p)
  <2>1. SUFFICES ASSUME NobodyDied, pc[p] = "blocked", pc'[p] \in {"ready", "post"}
                 PROVE  shdata'.current_ncpus[p] >= initial_ncpus[p]
    OBVIOUS
  <2>2. TypeOK /\ Balanced(shdata) /\ pc[p] \in InList
    BY <1>1, <2>1 DEF Inv, Accounts, InList, Inside
  <2>3. Reclaim(p)
    <3>1. PICK q \in Pid :
            \/ Open(q) \/ LewiInit(q)
            \/ LendCpus(q) \/ Lend(q) \/ IntoBlockingCall(q)
            \/ Reclaim(q)
            \/ AcquireCpus(q) \/ RemoveRequests(q) \/ BorrowCpus(q)
            \/ Disable(q) \/ Enable(q)
            \/ SetNumThreads(q) \/ Send(q) \/ EndCall(q) \/ HelperStep(q)
            \/ Finalize(q) \/ Close(q) \/ Leave(q) \/ Crash(q)
      BY <1>1, <2>1 DEF Next, vars
    <3>2. \A n : pc' = [pc EXCEPT ![q] = n] /\ q # p => pc'[p] = pc[p]
      BY <2>2 DEF TypeOK
    <3>3. CASE q # p
      <4>1. \A n, r : Done(q, r, n) => pc'[p] = pc[p]
        BY <3>2, <3>3, LewiAsyncAssumption DEF Done
      <4>2. \A n, r : Failed(q, r, n) => pc'[p] = pc[p]
        BY <3>2, <3>3 DEF Failed
      <4>3. \A keep, n : LendKeepCpus(q, keep, n) => pc'[p] = pc[p]
        BY <4>1, <4>2 DEF LendKeepCpus
      <4>4. Open(q) \/ LewiInit(q) => pc'[p] = pc[p]
        BY <3>2, <3>3, <2>1 DEF Open, LewiInit
      <4>5. LendCpus(q) \/ Lend(q) \/ IntoBlockingCall(q) => pc'[p] = pc[p]
        BY <4>1, <4>3 DEF LendCpus, Lend, IntoBlockingCall
      <4>6. Reclaim(q) \/ Disable(q) => pc'[p] = pc[p]
        BY <4>1, <4>2 DEF Reclaim, Disable
      <4>7. AcquireCpus(q) \/ Enable(q) \/ BorrowCpus(q) => pc'[p] = pc[p]
        BY <4>1, <4>2 DEF AcquireCpus, Enable, Acquire, BorrowCpus
      <4>8. RemoveRequests(q) \/ SetNumThreads(q) \/ Send(q) \/ HelperStep(q) => pc'[p] = pc[p]
        BY DEF RemoveRequests, SetNumThreads, Send, HelperStep
      <4>9. EndCall(q) \/ Finalize(q) \/ Close(q) \/ Leave(q) \/ Crash(q) => pc'[p] = pc[p]
        BY <3>2, <3>3 DEF EndCall, Finalize, Close, Leave, Crash
      <4> QED BY <3>1, <4>4, <4>5, <4>6, <4>7, <4>8, <4>9, <2>1
    <3>4. CASE q = p
      <4>1. ~(Open(p) \/ LewiInit(p) \/ LendCpus(p) \/ Lend(p) \/ IntoBlockingCall(p))
        BY <2>1 DEF Open, LewiInit, LendCpus, Lend, IntoBlockingCall, Ready
      <4>2. ~(AcquireCpus(p) \/ RemoveRequests(p) \/ BorrowCpus(p) \/ Disable(p) \/ Enable(p))
        BY <2>1 DEF AcquireCpus, RemoveRequests, BorrowCpus, Disable, Enable, Ready
      <4>3. ~(SetNumThreads(p) \/ EndCall(p) \/ Finalize(p) \/ Close(p) \/ Leave(p))
        BY <2>1 DEF SetNumThreads, EndCall, Finalize, Close, Leave
      <4>4. ~(Send(p) \/ HelperStep(p))
        BY <2>1 DEF Send, HelperStep
      <4>5. ~Crash(p)
        BY <2>1, <2>2 DEF Crash, TypeOK
      <4> QED BY <3>1, <3>4, <4>1, <4>2, <4>3, <4>4, <4>5
    <3> QED BY <3>3, <3>4
  <2>4. shdata.current_ncpus[p] \in Nat /\ initial_ncpus[p] \in Nat /\ Sound(shdata)
        /\ p \in shdata.processes /\ prev_requested[p] \in Nat
    BY <1>1, <2>2, InvSound
  <2>5. CASE Deficit(shdata, p) > 0
    <3>1. PICK r \in reclaim(shdata, p, prev_requested[p]) :
            IF r.failed THEN Failed(p, r, "ready")
            ELSE /\ Done(p, r, "ready")
                 /\ prev_requested' = [prev_requested EXCEPT ![p] = 0]
      BY <2>3, <2>5 DEF Reclaim
    <3>2. shdata.current_ncpus[p] <= initial_ncpus[p]
      BY <2>4, <2>5 DEF Deficit
    <3>3. /\ ~r.failed => r.shdata.current_ncpus[p] >= initial_ncpus[p]
          /\ r.failed => ~Balanced(shdata)
      BY <3>2, <2>4, ReclaimKeeps
    <3>4. ~r.failed /\ Done(p, r, "ready")
      BY <3>1, <3>3, <2>2
    <3> QED BY <3>3, <3>4 DEF Done
  <2>6. CASE ~(Deficit(shdata, p) > 0)
    <3>1. shdata' = shdata
      BY <2>3, <2>6 DEF Reclaim, Failed
    <3>2. shdata.current_ncpus[p] >= initial_ncpus[p]
      BY <2>4, <2>6 DEF Deficit
    <3> QED BY <3>1, <3>2
  <2> QED BY <2>5, <2>6
<1>2. ASSUME Inv, [Next]_vars
      PROVE \A p \in Pid : Restores(p)
  <2> HIDE DEF Restores
  <2> QED BY <1>1, <1>2
<1>3. Inv /\ [Next]_vars => [\A p \in Pid : Restores(p)]_vars
  BY <1>2
<1> QED BY <1>3, InvHolds, PTL DEF Spec, ReclaimRestores
=============================================================================
