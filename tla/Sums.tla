-------------------------------- MODULE Sums --------------------------------
(***************************************************************************)
(* Facts about numbers, finite sets, the sums of the community modules,    *)
(* folds and recursive functions that the proofs of several components     *)
(* rest on. The induction theorems of the library take an operator; here   *)
(* what is to hold is given as the set of the numbers, or of the sets, of  *)
(* which it holds.                                                         *)
(***************************************************************************)
EXTENDS Functions, FiniteSetTheorems, WellFoundedInduction, TLAPS

-----------------------------------------------------------------------------
(* Induction *)

\* A set of numbers has a smallest one.
LEMMA SmallestOf == ASSUME NEW T \in SUBSET Nat, T # {} PROVE \E m \in T : \A k \in T : m <= k
  <1> DEFINE Below == {ss \in Nat \X Nat : ss[1] < ss[2]}
  <1>1. IsWellFoundedOn(Below, Nat)
    BY NatLessThanWellFounded DEF OpToRel
  <1>2. PICK m \in T : \A k \in T : ~(<<k, m>> \in Below)
    <2> HIDE DEF Below
    <2> QED
      BY <1>1, WFMin
  <1>3. ASSUME NEW k \in T PROVE m <= k
    <2>1. ~(<<k, m>> \in Below)
      BY <1>2
    <2>2. ~(k < m)
      BY <2>1
    <2> QED
      BY <2>2
  <1> QED
    BY <1>3

\* A bounded set of numbers has a greatest one.
LEMMA GreatestOf ==
  ASSUME NEW n \in Nat, NEW S \in SUBSET (0 .. n), S # {}
  PROVE  \E r \in S : \A k \in S : k <= r
  <1> DEFINE T == {n - k : k \in S}
  <1>1. T \in SUBSET Nat /\ T # {}
    <2>1. \A k \in S : n - k \in Nat
      OBVIOUS
    <2> QED
      BY <2>1
  <1>2. PICK x \in T : \A y \in T : x <= y
    <2> HIDE DEF T
    <2> QED
      BY <1>1, SmallestOf
  <1>3. PICK r \in S : x = n - r
    BY <1>2
  <1>4. \A k \in S : n - r <= n - k
    BY <1>2, <1>3
  <1> QED
    BY <1>4

\* What holds of 0, and of n + 1 if of n, holds of every number.
LEMMA EveryNat ==
  ASSUME NEW G, 0 \in G, \A n \in Nat : n \in G => n + 1 \in G
  PROVE  Nat \subseteq G
  <1> DEFINE B == Nat \ G
  <1>1. ASSUME B # {} PROVE FALSE
    <2>1. PICK x \in B : \A y \in B : x <= y
      BY <1>1, SmallestOf
    <2>2. x \in Nat /\ x # 0 /\ x - 1 \in Nat /\ ~(x <= x - 1) /\ (x - 1) + 1 = x
      OBVIOUS
    <2>3. x - 1 \in G
      BY <2>1, <2>2
    <2> QED
      BY <2>2, <2>3
  <1> QED
    BY <1>1

\* What holds of the empty set, and of a set with one more element if of the
\* set, holds of every finite set.
LEMMA EverySubset ==
  ASSUME NEW U, IsFiniteSet(U), NEW G, {} \in G,
         \A T \in SUBSET U, x \in U : T \in G /\ x \notin T => T \cup {x} \in G
  PROVE  SUBSET U \subseteq G
  <1> DEFINE H == {n \in Nat : \A T \in SUBSET U : Cardinality(T) = n => T \in G}
  <1>1. \A T \in SUBSET U : IsFiniteSet(T) /\ Cardinality(T) \in Nat
    BY FS_Subset, FS_CardinalityType
  <1>2. 0 \in H
    BY <1>1, FS_EmptySet
  <1>3. ASSUME NEW n \in Nat, n \in H PROVE n + 1 \in H
    <2> SUFFICES ASSUME NEW T \in SUBSET U, Cardinality(T) = n + 1 PROVE T \in G
      OBVIOUS
    <2>1. T # {}
      BY FS_EmptySet
    <2>2. PICK x \in T : TRUE
      BY <2>1
    <2>3. Cardinality(T \ {x}) = n
      <3>1. IsFiniteSet(T) /\ Cardinality(T) = n + 1
        BY <1>1
      <3>2. Cardinality(T \ {x}) = Cardinality(T) - 1
        BY <2>2, <3>1, FS_RemoveElement
      <3> QED
        BY <3>1, <3>2
    <2>4. T \ {x} \in G
      BY <1>3, <2>3
    <2>5. T = (T \ {x}) \cup {x} /\ x \in U
      BY <2>2
    <2> QED
      BY <2>4, <2>5
  <1>4. Nat \subseteq H
    <2> HIDE DEF H
    <2> QED
      BY <1>2, <1>3, EveryNat
  <1> QED
    BY <1>1, <1>4

-----------------------------------------------------------------------------
(* Sums, as the community modules define them *)

Some(s) == CHOOSE x \in s : TRUE

Integral(f, S) == IsFiniteSet(S) /\ \A x \in S : f[x] \in Int

\* One step of the recursion of MapThenFoldSet.
AddSome(f, S, g) == [s \in SUBSET S |-> IF s = {} THEN 0 ELSE f[Some(s)] + g[s \ {Some(s)}]]

\* The fold is the function that its recursion determines.
LEMMA SumUnfolded ==
  ASSUME NEW f, NEW S
  PROVE  SumFunctionOnSet(f, S) = (CHOOSE g : g = AddSome(f, S, g))[S]
  BY Zenon DEF SumFunctionOnSet, FoldFunctionOnSet, MapThenFoldSet, AddSome, Some

\* There is such a function.
LEMMA SumExists ==
  ASSUME NEW f, NEW S, Integral(f, S)
  PROVE  \E g \in [SUBSET S -> Int] : g = AddSome(f, S, g)
  <1> DEFINE H == {n \in Nat : \E g \in [SUBSET S -> Int] : \A s \in SUBSET S :
                                 Cardinality(s) <= n => g[s] = AddSome(f, S, g)[s]}
  <1>1. \A s \in SUBSET S : IsFiniteSet(s) /\ Cardinality(s) \in Nat
    BY FS_Subset, FS_CardinalityType DEF Integral
  <1>2. \A s \in SUBSET S : s # {} => Some(s) \in s
    BY DEF Some
  <1>3. \A s \in SUBSET S : s # {} => Cardinality(s \ {Some(s)}) = Cardinality(s) - 1
    BY <1>1, <1>2, FS_RemoveElement
  <1>4. \A g \in [SUBSET S -> Int] : AddSome(f, S, g) \in [SUBSET S -> Int]
    BY <1>2 DEF AddSome, Integral
  <1>5. 0 \in H
    <2> DEFINE g == [s \in SUBSET S |-> 0]
    <2>1. \A s \in SUBSET S : Cardinality(s) <= 0 => s = {}
      BY <1>1, FS_EmptySet
    <2>2. g \in [SUBSET S -> Int] /\ \A s \in SUBSET S : s = {} => g[s] = AddSome(f, S, g)[s]
      BY DEF AddSome
    <2> HIDE DEF g
    <2> QED
      BY <2>1, <2>2
  <1>6. ASSUME NEW n \in Nat, n \in H PROVE n + 1 \in H
    <2>1. PICK g \in [SUBSET S -> Int] : \A s \in SUBSET S :
                 Cardinality(s) <= n => g[s] = AddSome(f, S, g)[s]
      BY <1>6
    <2> DEFINE h == AddSome(f, S, g)
    <2>2. h \in [SUBSET S -> Int]
      BY <1>4
    <2>3. ASSUME NEW s \in SUBSET S, Cardinality(s) <= n + 1 PROVE h[s] = AddSome(f, S, h)[s]
      <3>1. CASE s = {}
        BY <3>1 DEF AddSome
      <3>2. CASE s # {}
        <4> DEFINE t == s \ {Some(s)}
        <4>1. t \in SUBSET S /\ Cardinality(t) <= n
          BY <1>1, <1>3, <2>3, <3>2
        <4>2. g[t] = h[t]
          BY <2>1, <4>1
        <4>3. h[s] = f[Some(s)] + g[t] /\ AddSome(f, S, h)[s] = f[Some(s)] + h[t]
          BY <3>2 DEF AddSome
        <4> QED
          BY <4>2, <4>3
      <3> QED
        BY <3>1, <3>2
    <2> HIDE DEF h
    <2> QED
      BY <2>2, <2>3
  <1>7. Nat \subseteq H
    <2> HIDE DEF H
    <2> QED
      BY <1>5, <1>6, EveryNat
  <1>8. PICK g \in [SUBSET S -> Int] : \A s \in SUBSET S :
               Cardinality(s) <= Cardinality(S) => g[s] = AddSome(f, S, g)[s]
    BY <1>1, <1>7
  <1>9. \A s \in SUBSET S : Cardinality(s) <= Cardinality(S)
    BY FS_Subset DEF Integral
  <1>10. g = AddSome(f, S, g)
    <2> DEFINE h == AddSome(f, S, g)
    <2>1. h \in [SUBSET S -> Int] /\ \A s \in SUBSET S : g[s] = h[s]
      BY <1>4, <1>8, <1>9
    <2> HIDE DEF h
    <2>2. g = h
      BY <2>1
    <2> QED
      BY <2>2 DEF h
  <1> QED
    BY <1>10

\* It is the same on every set that has the elements.
LEMMA SumUnique ==
  ASSUME NEW f, NEW S, Integral(f, S), NEW T \in SUBSET S, NEW g, NEW h,
         g = AddSome(f, S, g), h = AddSome(f, T, h)
  PROVE  \A s \in SUBSET T : g[s] = h[s]
  <1> DEFINE H == {n \in Nat : \A s \in SUBSET T : Cardinality(s) = n => g[s] = h[s]}
  <1>1. \A s \in SUBSET T : IsFiniteSet(s) /\ Cardinality(s) \in Nat
    BY FS_Subset, FS_CardinalityType DEF Integral
  <1>2. \A s \in SUBSET T : /\ g[s] = IF s = {} THEN 0 ELSE f[Some(s)] + g[s \ {Some(s)}]
                            /\ h[s] = IF s = {} THEN 0 ELSE f[Some(s)] + h[s \ {Some(s)}]
    <2>1. \A s \in SUBSET S : g[s] = IF s = {} THEN 0 ELSE f[Some(s)] + g[s \ {Some(s)}]
      BY DEF AddSome
    <2>2. \A s \in SUBSET T : h[s] = IF s = {} THEN 0 ELSE f[Some(s)] + h[s \ {Some(s)}]
      BY DEF AddSome
    <2> QED
      BY <2>1, <2>2
  <1>3. 0 \in H
    <2>1. \A s \in SUBSET T : Cardinality(s) = 0 => s = {}
      BY <1>1, FS_EmptySet
    <2> QED
      BY <1>2, <2>1
  <1>4. ASSUME NEW n \in Nat, n \in H PROVE n + 1 \in H
    <2> SUFFICES ASSUME NEW s \in SUBSET T, Cardinality(s) = n + 1 PROVE g[s] = h[s]
      OBVIOUS
    <2>1. s # {}
      BY FS_EmptySet
    <2>2. Some(s) \in s
      BY <2>1 DEF Some
    <2>3. Cardinality(s \ {Some(s)}) = n
      <3>1. IsFiniteSet(s) /\ Cardinality(s) = n + 1
        BY <1>1
      <3>2. Cardinality(s \ {Some(s)}) = Cardinality(s) - 1
        BY <2>2, <3>1, FS_RemoveElement
      <3> QED
        BY <3>1, <3>2
    <2>4. g[s \ {Some(s)}] = h[s \ {Some(s)}]
      BY <1>4, <2>3
    <2> QED
      BY <1>2, <2>1, <2>4
  <1>5. Nat \subseteq H
    <2> HIDE DEF H
    <2> QED
      BY <1>3, <1>4, EveryNat
  <1> QED
    BY <1>1, <1>5

\* What the sum of a set is.
LEMMA SumOfSome ==
  ASSUME NEW f, NEW S, Integral(f, S)
  PROVE  /\ SumFunctionOnSet(f, S) \in Int
         /\ S = {} => SumFunctionOnSet(f, S) = 0
         /\ S # {} => /\ Some(S) \in S
                      /\ SumFunctionOnSet(f, S)
                           = f[Some(S)] + SumFunctionOnSet(f, S \ {Some(S)})
  <1>1. \E g \in [SUBSET S -> Int] : g = AddSome(f, S, g)
    BY SumExists
  <1> DEFINE g == CHOOSE g : g = AddSome(f, S, g)
             T == S \ {Some(S)}
             h == CHOOSE h : h = AddSome(f, T, h)
  <1>2. g = AddSome(f, S, g)
    BY <1>1
  <1>3. Integral(f, T) /\ T \in SUBSET S
    BY FS_Subset DEF Integral
  <1>4. \E h0 \in [SUBSET T -> Int] : h0 = AddSome(f, T, h0)
    BY <1>3, SumExists
  <1>5. h = AddSome(f, T, h)
    BY <1>4
  <1>6. SumFunctionOnSet(f, S) = g[S] /\ SumFunctionOnSet(f, T) = h[T]
    BY SumUnfolded
  <1> HIDE DEF g, h
  <1>7. g[T] = h[T]
    BY <1>2, <1>3, <1>5, SumUnique
  <1>8. g[S] = IF S = {} THEN 0 ELSE f[Some(S)] + g[S \ {Some(S)}]
    <2>1. S \in SUBSET S
      OBVIOUS
    <2> QED
      BY <1>2, <2>1 DEF AddSome
  <1>9. g[S] \in Int
    <2>1. PICK g0 \in [SUBSET S -> Int] : g0 = AddSome(f, S, g0)
      BY <1>1
    <2>2. S \in SUBSET S
      OBVIOUS
    <2>3. g[S] = g0[S]
      BY <1>2, <2>1, <2>2, SumUnique
    <2> QED
      BY <2>1, <2>2, <2>3
  <1>10. S # {} => Some(S) \in S
    BY DEF Some
  <1> QED
    BY <1>6, <1>7, <1>8, <1>9, <1>10

\* The order of the elements does not matter.
LEMMA SumOfOne ==
  ASSUME NEW f, NEW S, Integral(f, S), NEW x \in S
  PROVE  SumFunctionOnSet(f, S) = f[x] + SumFunctionOnSet(f, S \ {x})
  <1> DEFINE H == {n \in Nat : \A T \in SUBSET S : Cardinality(T) = n =>
                     \A y \in T : SumFunctionOnSet(f, T) = f[y] + SumFunctionOnSet(f, T \ {y})}
  <1>1. \A T \in SUBSET S : IsFiniteSet(T) /\ Cardinality(T) \in Nat /\ Integral(f, T)
    BY FS_Subset, FS_CardinalityType DEF Integral
  <1>2. 0 \in H
    <2>1. \A T \in SUBSET S : Cardinality(T) = 0 => T = {}
      BY <1>1, FS_EmptySet
    <2> QED
      BY <2>1
  <1>3. ASSUME NEW n \in Nat, n \in H PROVE n + 1 \in H
    <2> SUFFICES ASSUME NEW T \in SUBSET S, Cardinality(T) = n + 1, NEW y \in T
                 PROVE  SumFunctionOnSet(f, T) = f[y] + SumFunctionOnSet(f, T \ {y})
      OBVIOUS
    <2> DEFINE z == Some(T)
    <2>1. z \in T /\ SumFunctionOnSet(f, T) = f[z] + SumFunctionOnSet(f, T \ {z})
      BY <1>1, SumOfSome
    <2> HIDE DEF z
    <2>2. CASE z = y
      BY <2>1, <2>2
    <2>3. CASE z # y
      <3>1. /\ T \ {z} \in SUBSET S /\ y \in T \ {z}
            /\ T \ {y} \in SUBSET S /\ z \in T \ {y}
        BY <2>1, <2>3
      <3>2. Cardinality(T \ {z}) = n /\ Cardinality(T \ {y}) = n
        <4>1. IsFiniteSet(T) /\ Cardinality(T) = n + 1
          BY <1>1
        <4>2. \A u \in T : Cardinality(T \ {u}) = Cardinality(T) - 1
          BY <4>1, FS_RemoveElement
        <4> QED
          BY <2>1, <4>1, <4>2
      <3> DEFINE W == (T \ {z}) \ {y}
      <3>3. W = (T \ {y}) \ {z} /\ W \in SUBSET S
        OBVIOUS
      <3>4. /\ SumFunctionOnSet(f, T \ {z}) = f[y] + SumFunctionOnSet(f, W)
            /\ SumFunctionOnSet(f, T \ {y}) = f[z] + SumFunctionOnSet(f, W)
        BY <1>3, <3>1, <3>2, <3>3
      <3>5. f[y] \in Int /\ f[z] \in Int /\ SumFunctionOnSet(f, W) \in Int
        <4>1. SumFunctionOnSet(f, W) \in Int
          BY <1>1, <3>3, SumOfSome
        <4> QED
          BY <2>1, <4>1 DEF Integral
      <3> HIDE DEF W
      <3> QED
        BY <2>1, <3>4, <3>5
    <2> QED
      BY <2>2, <2>3
  <1>4. Nat \subseteq H
    <2> HIDE DEF H
    <2> QED
      BY <1>2, <1>3, EveryNat
  <1> QED
    BY <1>1, <1>4

\* One more element adds its value.
LEMMA SumOfMore ==
  ASSUME NEW f, NEW S, NEW x, x \notin S, Integral(f, S \cup {x})
  PROVE  /\ SumFunctionOnSet(f, S) \in Int /\ f[x] \in Int
         /\ SumFunctionOnSet(f, S \cup {x}) = f[x] + SumFunctionOnSet(f, S)
  <1>1. (S \cup {x}) \ {x} = S
    OBVIOUS
  <1>2. Integral(f, S) /\ f[x] \in Int
    BY FS_Subset DEF Integral
  <1>3. SumFunctionOnSet(f, S) \in Int
    BY <1>2, SumOfSome
  <1> DEFINE T == S \cup {x}
  <1>4. x \in T /\ T \ {x} = S /\ Integral(f, T)
    BY <1>1
  <1> HIDE DEF T
  <1>5. SumFunctionOnSet(f, T) = f[x] + SumFunctionOnSet(f, T \ {x})
    BY <1>4, SumOfOne
  <1> QED
    BY <1>2, <1>3, <1>4, <1>5 DEF T

\* Functions that differ in a set of places by w have sums that differ by w's.
LEMMA SumOfRaised ==
  ASSUME NEW f, NEW h, NEW w, NEW S, NEW R,
         Integral(f, S), \A x \in S : w[x] \in Int,
         \A x \in S : h[x] = IF x \in R THEN f[x] + w[x] ELSE f[x]
  PROVE  SumFunctionOnSet(h, S) = SumFunctionOnSet(f, S) + SumFunctionOnSet(w, S \cap R)
  <1> DEFINE G == {T \in SUBSET S : SumFunctionOnSet(h, T)
                       = SumFunctionOnSet(f, T) + SumFunctionOnSet(w, T \cap R)}
  <1>1. \A T \in SUBSET S : Integral(f, T) /\ Integral(h, T) /\ Integral(w, T)
    <2>1. \A x \in S : f[x] \in Int /\ h[x] \in Int
      BY DEF Integral
    <2> QED
      BY <2>1, FS_Subset DEF Integral
  <1>2. {} \in G
    <2>1. {} \cap R = {} /\ {} \in SUBSET S
      OBVIOUS
    <2>2. SumFunctionOnSet(f, {}) = 0 /\ SumFunctionOnSet(h, {}) = 0 /\ SumFunctionOnSet(w, {}) = 0
      BY <1>1, <2>1, SumOfSome
    <2> QED
      BY <2>1, <2>2
  <1>3. ASSUME NEW T \in SUBSET S, NEW x \in S, T \in G, x \notin T PROVE T \cup {x} \in G
    <2>1. /\ T \cup {x} \in SUBSET S /\ T \cap R \in SUBSET S
          /\ (T \cup {x}) \cap R = IF x \in R THEN (T \cap R) \cup {x} ELSE T \cap R
      OBVIOUS
    <2>2. /\ SumFunctionOnSet(h, T \cup {x}) = h[x] + SumFunctionOnSet(h, T)
          /\ SumFunctionOnSet(f, T \cup {x}) = f[x] + SumFunctionOnSet(f, T)
          /\ SumFunctionOnSet(f, T) \in Int
      BY <1>1, <1>3, <2>1, SumOfMore
    <2>3. SumFunctionOnSet(w, T \cap R) \in Int
      BY <1>1, <2>1, SumOfSome
    <2>4. SumFunctionOnSet(h, T) = SumFunctionOnSet(f, T) + SumFunctionOnSet(w, T \cap R)
      BY <1>3
    <2>5. w[x] \in Int /\ f[x] \in Int
      BY DEF Integral
    <2>6. SumFunctionOnSet(w, (T \cup {x}) \cap R)
            = SumFunctionOnSet(w, T \cap R) + IF x \in R THEN w[x] ELSE 0
      <3>1. CASE x \in R
        <4>1. (T \cap R) \cup {x} \in SUBSET S /\ x \notin T \cap R
          BY <1>3
        <4>2. SumFunctionOnSet(w, (T \cap R) \cup {x}) = w[x] + SumFunctionOnSet(w, T \cap R)
          BY <1>1, <4>1, SumOfMore
        <4> QED
          BY <2>1, <2>3, <2>5, <3>1, <4>2
      <3>2. CASE x \notin R
        <4>1. (T \cup {x}) \cap R = T \cap R
          BY <3>2
        <4>2. SumFunctionOnSet(w, (T \cup {x}) \cap R) = SumFunctionOnSet(w, T \cap R)
          BY <4>1
        <4> QED
          BY <2>3, <3>2, <4>2
      <3> QED
        BY <3>1, <3>2
    <2>7. SumFunctionOnSet(h, T \cup {x})
            = SumFunctionOnSet(f, T \cup {x}) + SumFunctionOnSet(w, (T \cup {x}) \cap R)
      <3>1. CASE x \in R
        BY <2>2, <2>3, <2>4, <2>5, <2>6, <3>1
      <3>2. CASE x \notin R
        BY <2>2, <2>3, <2>4, <2>5, <2>6, <3>2
      <3> QED
        BY <3>1, <3>2
    <2> QED
      BY <2>1, <2>7
  <1>4. SUBSET S \subseteq G
    <2> HIDE DEF G
    <2> QED
      BY <1>2, <1>3, EverySubset DEF Integral
  <1> QED
    BY <1>4

\* The sum depends on the values in the set only.
LEMMA SumOfSame ==
  ASSUME NEW f, NEW h, NEW S, Integral(f, S), \A x \in S : h[x] = f[x]
  PROVE  SumFunctionOnSet(h, S) = SumFunctionOnSet(f, S)
  <1> DEFINE G == {T \in SUBSET S : SumFunctionOnSet(h, T) = SumFunctionOnSet(f, T)}
  <1>1. \A T \in SUBSET S : Integral(f, T) /\ Integral(h, T)
    <2>1. \A x \in S : f[x] \in Int /\ h[x] \in Int
      BY DEF Integral
    <2> QED
      BY <2>1, FS_Subset DEF Integral
  <1>2. {} \in G
    <2>1. {} \in SUBSET S
      OBVIOUS
    <2>2. SumFunctionOnSet(f, {}) = 0 /\ SumFunctionOnSet(h, {}) = 0
      BY <1>1, <2>1, SumOfSome
    <2> QED
      BY <2>1, <2>2
  <1>3. ASSUME NEW T \in SUBSET S, NEW x \in S, T \in G, x \notin T PROVE T \cup {x} \in G
    <2>1. T \cup {x} \in SUBSET S
      OBVIOUS
    <2>2. /\ SumFunctionOnSet(h, T \cup {x}) = h[x] + SumFunctionOnSet(h, T)
          /\ SumFunctionOnSet(f, T \cup {x}) = f[x] + SumFunctionOnSet(f, T)
      BY <1>1, <1>3, <2>1, SumOfMore
    <2> QED
      BY <1>3, <2>1, <2>2
  <1>4. SUBSET S \subseteq G
    <2> HIDE DEF G
    <2> QED
      BY <1>2, <1>3, EverySubset DEF Integral
  <1> QED
    BY <1>4

\* A set and what is beside it.
LEMMA SumOfParts ==
  ASSUME NEW f, NEW S, NEW R \in SUBSET S, Integral(f, S)
  PROVE  SumFunctionOnSet(f, S) = SumFunctionOnSet(f, R) + SumFunctionOnSet(f, S \ R)
  <1> DEFINE G == {T \in SUBSET R : SumFunctionOnSet(f, (S \ R) \cup T)
                       = SumFunctionOnSet(f, T) + SumFunctionOnSet(f, S \ R)}
  <1>1. \A T \in SUBSET S : Integral(f, T) /\ SumFunctionOnSet(f, T) \in Int
    BY FS_Subset, SumOfSome DEF Integral
  <1>2. {} \in G
    <2>1. (S \ R) \cup {} = S \ R /\ S \ R \in SUBSET S /\ {} \in SUBSET R /\ {} \in SUBSET S
      OBVIOUS
    <2>2. SumFunctionOnSet(f, {}) = 0
      BY <1>1, <2>1, SumOfSome
    <2> QED
      BY <1>1, <2>1, <2>2
  <1>3. ASSUME NEW T \in SUBSET R, NEW x \in R, T \in G, x \notin T PROVE T \cup {x} \in G
    <2>1. /\ (S \ R) \cup (T \cup {x}) = ((S \ R) \cup T) \cup {x} /\ x \notin (S \ R) \cup T
          /\ ((S \ R) \cup T) \cup {x} \in SUBSET S /\ T \cup {x} \in SUBSET S
          /\ T \cup {x} \in SUBSET R /\ S \ R \in SUBSET S
      BY <1>3
    <2>2. /\ SumFunctionOnSet(f, T \cup {x}) = f[x] + SumFunctionOnSet(f, T)
          /\ SumFunctionOnSet(f, T) \in Int /\ f[x] \in Int
      BY <1>1, <1>3, <2>1, SumOfMore
    <2>3. SumFunctionOnSet(f, ((S \ R) \cup T) \cup {x})
            = f[x] + SumFunctionOnSet(f, (S \ R) \cup T)
      BY <1>1, <2>1, SumOfMore
    <2>4. SumFunctionOnSet(f, (S \ R) \cup T) = SumFunctionOnSet(f, T) + SumFunctionOnSet(f, S \ R)
      BY <1>3
    <2>5. SumFunctionOnSet(f, S \ R) \in Int
      BY <1>1, <2>1
    <2>6. SumFunctionOnSet(f, (S \ R) \cup (T \cup {x}))
            = SumFunctionOnSet(f, T \cup {x}) + SumFunctionOnSet(f, S \ R)
      <3>1. SumFunctionOnSet(f, (S \ R) \cup (T \cup {x}))
              = f[x] + (SumFunctionOnSet(f, T) + SumFunctionOnSet(f, S \ R))
        BY <2>1, <2>3, <2>4
      <3> QED
        BY <2>2, <2>5, <3>1
    <2> QED
      BY <2>1, <2>6
  <1>4. SUBSET R \subseteq G
    <2>1. IsFiniteSet(R)
      BY FS_Subset DEF Integral
    <2> HIDE DEF G
    <2> QED
      BY <1>2, <1>3, <2>1, EverySubset
  <1>5. R \in G /\ (S \ R) \cup R = S
    BY <1>4
  <1> QED
    BY <1>5

\* A sum of numbers is at least each of them.
LEMMA SumOfNats ==
  ASSUME NEW f, NEW S, IsFiniteSet(S), \A x \in S : f[x] \in Nat
  PROVE  /\ SumFunctionOnSet(f, S) \in Nat
         /\ \A x \in S : f[x] <= SumFunctionOnSet(f, S)
  <1> DEFINE G == {T \in SUBSET S : SumFunctionOnSet(f, T) \in Nat}
  <1>1. \A T \in SUBSET S : Integral(f, T)
    BY FS_Subset DEF Integral
  <1>2. {} \in G
    <2>1. {} \in SUBSET S /\ Integral(f, {})
      BY <1>1
    <2>2. SumFunctionOnSet(f, {}) = 0
      BY <2>1, SumOfSome
    <2> QED
      BY <2>1, <2>2
  <1>3. ASSUME NEW T \in SUBSET S, NEW x \in S, T \in G, x \notin T PROVE T \cup {x} \in G
    <2>1. T \cup {x} \in SUBSET S
      BY <1>3
    <2>2. Integral(f, T \cup {x})
      BY <1>1, <2>1
    <2>3. SumFunctionOnSet(f, T \cup {x}) = f[x] + SumFunctionOnSet(f, T)
      BY <1>3, <2>2, SumOfMore
    <2>4. SumFunctionOnSet(f, T) \in Nat /\ f[x] \in Nat
      BY <1>3
    <2> QED
      BY <2>1, <2>3, <2>4
  <1>4. SUBSET S \subseteq G
    <2> HIDE DEF G
    <2> QED
      BY <1>2, <1>3, EverySubset
  <1>5. ASSUME NEW x \in S PROVE f[x] <= SumFunctionOnSet(f, S)
    <2>1. SumFunctionOnSet(f, S) = f[x] + SumFunctionOnSet(f, S \ {x})
      BY <1>1, SumOfOne
    <2>2. SumFunctionOnSet(f, S \ {x}) \in Nat
      BY <1>4
    <2> QED
      BY <2>1, <2>2
  <1> QED
    BY <1>4, <1>5

\* A sum of zeros is zero: it is its own double.
LEMMA SumOfZeros ==
  ASSUME NEW f, NEW S, IsFiniteSet(S), \A x \in S : f[x] = 0
  PROVE  SumFunctionOnSet(f, S) = 0
  <1>1. Integral(f, S) /\ S \cap S = S /\ \A x \in S : f[x] \in Int
    BY DEF Integral
  <1>2. \A x \in S : f[x] = IF x \in S THEN f[x] + f[x] ELSE f[x]
    OBVIOUS
  <1>3. SumFunctionOnSet(f, S) = SumFunctionOnSet(f, S) + SumFunctionOnSet(f, S \cap S)
    BY <1>1, <1>2, SumOfRaised
  <1>4. SumFunctionOnSet(f, S) \in Int
    BY <1>1, SumOfSome
  <1> DEFINE sum == SumFunctionOnSet(f, S)
  <1>5. sum = sum + sum /\ sum \in Int
    BY <1>1, <1>3, <1>4
  <1> HIDE DEF sum
  <1>6. sum = 0
    BY <1>5
  <1> QED
    BY <1>6 DEF sum

-----------------------------------------------------------------------------
(* Folds of sequences, as the community modules define them *)

Greatest(s) == CHOOSE x \in s : \A y \in s : x >= y

\* One step of the recursion of FoldLeft. F gives the next value from the one
\* before and the place in the sequence.
FoldStep(F, base, n, g) ==
  [s \in SUBSET (1 .. n) |->
     IF s = {} THEN base ELSE F[<<g[s \ {Greatest(s)}], Greatest(s)>>]]

\* The last place of a set is one of it.
LEMMA GreatestIsIn ==
  ASSUME NEW n \in Nat, NEW s \in SUBSET (1 .. n), s # {}
  PROVE  Greatest(s) \in s /\ Greatest(s) \in 1 .. n
  <1>1. PICK m \in s : \A k \in s : k <= m
    <2>1. s \in SUBSET (0 .. n)
      OBVIOUS
    <2> QED
      BY <2>1, GreatestOf
  <1>2. \A y \in s : m >= y
    BY <1>1
  <1> QED
    BY <1>2 DEF Greatest

\* Any finite set of numbers has a greatest one.
LEMMA GreatestOfFinite ==
  ASSUME NEW S \in SUBSET Nat, IsFiniteSet(S), S # {}
  PROVE  Greatest(S) \in S /\ \A y \in S : Greatest(S) >= y
  <1> DEFINE G == {T \in SUBSET S : T # {} => \E x \in T : \A y \in T : x >= y}
  <1>1. {} \in G
    OBVIOUS
  <1>2. ASSUME NEW T \in G, NEW x \in S \ T PROVE T \cup {x} \in G
    <2>1. CASE T = {}
      BY <2>1
    <2>2. CASE T # {}
      <3>1. PICK z \in T : \A y \in T : z >= y
        BY <2>2
      <3>2. CASE x >= z
        <4>1. \A y \in T \cup {x} : x >= y
          BY <3>1, <3>2
        <4> QED
          BY <4>1
      <3>3. CASE z >= x
        <4>1. \A y \in T \cup {x} : z >= y
          BY <3>1, <3>3
        <4> QED
          BY <3>1, <4>1
      <3> QED
        BY <3>1, <3>2, <3>3
    <2> QED
      BY <2>1, <2>2
  <1>3. S \in G
    <2> HIDE DEF G
    <2> QED
      BY <1>1, <1>2, EverySubset
  <1> QED
    BY <1>3 DEF Greatest

\* Of the first places it is the last.
LEMMA GreatestOfFirst == ASSUME NEW i \in Nat \ {0} PROVE Greatest(1 .. i) = i
  <1>1. i \in 1 .. i /\ \A y \in 1 .. i : i >= y
    OBVIOUS
  <1>2. \A x \in 1 .. i : (\A y \in 1 .. i : x >= y) => x = i
    OBVIOUS
  <1> QED
    BY <1>1, <1>2 DEF Greatest

\* A function of the sets of places obeys the recursion of F, when F is of the
\* right type.
HasFold(St, base, n, F) ==
  base \in St /\ n \in Nat /\ F \in [St \X (1 .. n) -> St]
    => \E g \in [SUBSET (1 .. n) -> St] : g = FoldStep(F, base, n, g)

\* There always is such a function.
LEMMA FoldExists == \A St, base, n, F : HasFold(St, base, n, F)
  <1> SUFFICES ASSUME NEW St, NEW base, NEW n, NEW F PROVE HasFold(St, base, n, F)
    OBVIOUS
  <1> SUFFICES ASSUME base \in St, n \in Nat, F \in [St \X (1 .. n) -> St]
               PROVE  \E g \in [SUBSET (1 .. n) -> St] : g = FoldStep(F, base, n, g)
    BY DEF HasFold
  <1>int. PICK S : S = 1 .. n
    OBVIOUS
  <1> DEFINE H == {m \in Nat : \E g \in [SUBSET S -> St] : \A s \in SUBSET S :
                     Cardinality(s) <= m => g[s] = FoldStep(F, base, n, g)[s]}
  <1>fin. IsFiniteSet(S)
    BY <1>int, FS_Interval
  <1>1. IsFiniteSet(S) /\ \A s \in SUBSET S : IsFiniteSet(s) /\ Cardinality(s) \in Nat
    BY <1>fin, FS_Subset, FS_CardinalityType
  <1>2. \A s \in SUBSET S : s # {} => Greatest(s) \in s /\ Greatest(s) \in S
    BY <1>int, GreatestIsIn
  <1>3. \A s \in SUBSET S : s # {} => Cardinality(s \ {Greatest(s)}) = Cardinality(s) - 1
    BY <1>1, <1>2, FS_RemoveElement
  <1>4. \A g \in [SUBSET S -> St] : FoldStep(F, base, n, g) \in [SUBSET S -> St]
    BY <1>int, <1>2 DEF FoldStep
  <1>5. 0 \in H
    <2> DEFINE g == [s \in SUBSET S |-> base]
    <2>1. \A s \in SUBSET S : Cardinality(s) <= 0 => s = {}
      BY <1>1, FS_EmptySet
    <2>2. g \in [SUBSET S -> St] /\ \A s \in SUBSET S : s = {} => g[s] = FoldStep(F, base, n, g)[s]
      BY <1>int DEF FoldStep
    <2> HIDE DEF g
    <2> QED
      BY <2>1, <2>2
  <1>6. ASSUME NEW m \in Nat, m \in H PROVE m + 1 \in H
    <2>1. PICK g \in [SUBSET S -> St] : \A s \in SUBSET S :
                 Cardinality(s) <= m => g[s] = FoldStep(F, base, n, g)[s]
      BY <1>6
    <2> DEFINE h == FoldStep(F, base, n, g)
    <2>2. h \in [SUBSET S -> St]
      BY <1>4
    <2>3. ASSUME NEW s \in SUBSET S, Cardinality(s) <= m + 1
          PROVE  h[s] = FoldStep(F, base, n, h)[s]
      <3>1. CASE s = {}
        BY <1>int, <3>1 DEF FoldStep
      <3>2. CASE s # {}
        <4> DEFINE t == s \ {Greatest(s)}
        <4>1. t \in SUBSET S /\ Cardinality(t) <= m
          <5>1. Cardinality(t) = Cardinality(s) - 1 /\ Cardinality(s) \in Nat
            BY <1>1, <1>3, <3>2
          <5> QED
            BY <2>3, <5>1
        <4>2. g[t] = h[t]
          BY <2>1, <4>1
        <4>3. /\ h[s] = F[<<g[t], Greatest(s)>>]
              /\ FoldStep(F, base, n, h)[s] = F[<<h[t], Greatest(s)>>]
          BY <1>int, <3>2 DEF FoldStep
        <4> QED
          BY <4>2, <4>3
      <3> QED
        BY <3>1, <3>2
    <2> HIDE DEF h
    <2> QED
      BY <2>2, <2>3
  <1>7. Nat \subseteq H
    <2> HIDE DEF H
    <2> QED
      BY <1>5, <1>6, EveryNat
  <1>8. PICK g \in [SUBSET S -> St] : \A s \in SUBSET S :
               Cardinality(s) <= Cardinality(S) => g[s] = FoldStep(F, base, n, g)[s]
    BY <1>1, <1>7
  <1>9. \A s \in SUBSET S : Cardinality(s) <= Cardinality(S)
    BY <1>1, FS_Subset
  <1>10. g = FoldStep(F, base, n, g)
    <2> DEFINE h == FoldStep(F, base, n, g)
    <2>1. h \in [SUBSET S -> St] /\ \A s \in SUBSET S : g[s] = h[s]
      BY <1>4, <1>8, <1>9
    <2> HIDE DEF h
    <2>2. g = h
      BY <2>1
    <2> QED
      BY <2>2 DEF h
  <1> QED
    BY <1>int, <1>10

\* The first places of a sequence, as the recursion goes through them.
LEMMA FirstPlaces ==
  ASSUME NEW n \in Nat
  PROVE  /\ 1 .. 0 = {}
         /\ \A i \in 1 .. n : /\ 1 .. i \in SUBSET (1 .. n) /\ 1 .. i # {}
                              /\ Greatest(1 .. i) = i /\ (1 .. i) \ {i} = 1 .. (i - 1)
  <1>1. ASSUME NEW i \in 1 .. n
        PROVE  /\ 1 .. i \in SUBSET (1 .. n) /\ 1 .. i # {}
               /\ Greatest(1 .. i) = i /\ (1 .. i) \ {i} = 1 .. (i - 1)
    <2>1. Greatest(1 .. i) = i
      BY GreatestOfFirst
    <2>2. 1 .. i \in SUBSET (1 .. n) /\ i \in 1 .. i
      OBVIOUS
    <2>3. (1 .. i) \ {i} = 1 .. (i - 1)
      OBVIOUS
    <2> QED
      BY <2>1, <2>2, <2>3
  <1> QED
    BY <1>1

\* A function of the numbers up to n obeys the recursion of F, when F is of the
\* right type.
Recursion(F, base, n, h) == [k \in 0 .. n |-> IF k = 0 THEN base ELSE F[<<h[k - 1], k>>]]

HasRecursion(St, base, n, F) ==
  base \in St /\ n \in Nat /\ F \in [St \X (1 .. n) -> St]
    => \E h \in [0 .. n -> St] : h = Recursion(F, base, n, h)

\* There always is such a function: the fold of the first places.
LEMMA RecursionExists == \A St, base, n, F : HasRecursion(St, base, n, F)
  <1> SUFFICES ASSUME NEW St, NEW base, NEW n, NEW F PROVE HasRecursion(St, base, n, F)
    OBVIOUS
  <1> SUFFICES ASSUME base \in St, n \in Nat, F \in [St \X (1 .. n) -> St]
               PROVE  \E h \in [0 .. n -> St] : h = Recursion(F, base, n, h)
    BY DEF HasRecursion
  <1>1. HasFold(St, base, n, F)
    BY FoldExists
  <1>2. PICK g \in [SUBSET (1 .. n) -> St] : g = FoldStep(F, base, n, g)
    BY <1>1 DEF HasFold
  <1> DEFINE h == [k \in 0 .. n |-> g[1 .. k]]
  <1>3. 1 .. 0 = {} /\ \A k \in 0 .. n : 1 .. k \in SUBSET (1 .. n)
    OBVIOUS
  <1>4. h \in [0 .. n -> St]
    BY <1>3
  <1>5. \A k \in 1 .. n : g[1 .. k] = F[<<g[1 .. (k - 1)], k>>]
    <2> SUFFICES ASSUME NEW k \in 1 .. n PROVE g[1 .. k] = F[<<g[1 .. (k - 1)], k>>]
      OBVIOUS
    <2>1. /\ 1 .. k \in SUBSET (1 .. n) /\ 1 .. k # {}
          /\ Greatest(1 .. k) = k /\ (1 .. k) \ {k} = 1 .. (k - 1)
      BY FirstPlaces
    <2>2. PICK s, t : s = 1 .. k /\ t = 1 .. (k - 1)
      OBVIOUS
    <2>3. s \in SUBSET (1 .. n) /\ s # {} /\ Greatest(s) = k /\ s \ {k} = t
      BY <2>1, <2>2
    <2>4. g[s] = F[<<g[t], k>>]
      BY <1>2, <2>3, Zenon DEF FoldStep
    <2> QED
      BY <2>2, <2>4
  <1>6. h[0] = base /\ \A k \in 1 .. n : h[k] = F[<<h[k - 1], k>>]
    <2>1. {} \in SUBSET (1 .. n) /\ g[{}] = base
      BY <1>2 DEF FoldStep
    <2> QED
      BY <1>3, <1>5, <2>1
  <1> HIDE DEF h
  <1>7. h = Recursion(F, base, n, h)
    BY <1>4, <1>6 DEF Recursion
  <1> QED
    BY <1>4, <1>7

=============================================================================
