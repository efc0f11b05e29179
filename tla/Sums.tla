------------------------------- MODULE Sums -------------------------------
(***************************************************************************)
(* What SumFunctionOnSet computes.  It is a fold over a finite set that    *)
(* takes the elements in an order of its own; the lemmas say that the      *)
(* order does not matter.  Induction is the least-element principle of the *)
(* natural numbers, applied to the set of sizes for which a fact fails.    *)
(***************************************************************************)
EXTENDS Functions, FiniteSetTheorems, TLAPS

\* The element a fold takes first.
Pick(s) == CHOOSE x \in s : TRUE

\* g adds up f over each set in D.
Adds(g, f, D) ==
    g = [s \in D |-> IF s = {} THEN 0 ELSE f[Pick(s)] + g[s \ {Pick(s)}]]

\* A fold is what a function that adds up over all subsets says of the whole set.
LEMMA SumIs ==
    ASSUME NEW f, NEW S
    PROVE  SumFunctionOnSet(f, S) = (CHOOSE g : Adds(g, f, SUBSET S))[S]
BY DEF SumFunctionOnSet, FoldFunctionOnSet, MapThenFoldSet, Adds, Pick

\* Every set of natural numbers that has an element has a least one.
LEMMA Least ==
    ASSUME NEW T \in SUBSET Nat, T # {}
    PROVE  \E m \in T : \A n \in T : m <= n
<1>1. PICK m \in T : \A n \in T : ~(<<n, m>> \in OpToRel(<, Nat))
  BY NatLessThanWellFounded, WFMin
<1>2. \A n \in T : ~(n < m)
  BY <1>1, Zenon DEF OpToRel
<1> QED BY <1>2

\* What holds of 0 and goes from a number to the next holds of all.
LEMMA Count ==
    ASSUME NEW G, 0 \in G, \A n \in Nat : n \in G => n + 1 \in G
    PROVE  Nat \subseteq G
<1>1. SUFFICES ASSUME Nat \ G # {}
               PROVE  FALSE
  OBVIOUS
<1>2. PICK m \in Nat \ G : \A n \in Nat \ G : m <= n
  BY <1>1, Least, Zenon
<1>3. m # 0 /\ m - 1 \in Nat /\ m - 1 \notin Nat \ G
  BY <1>2
<1> QED BY <1>2, <1>3

\* What holds of the empty set, and of a set if it holds of the set without one of its
\* elements, holds of a finite set.
LEMMA Grow ==
    ASSUME NEW S, IsFiniteSet(S), NEW G, {} \in G,
           \A T \in SUBSET S : \A x \in T : T \ {x} \in G => T \in G
    PROVE  S \in G
<1> DEFINE N == {n \in Nat : \A T \in SUBSET S : Cardinality(T) = n => T \in G}
<1>1. \A T \in SUBSET S : IsFiniteSet(T) /\ Cardinality(T) \in Nat
  BY FS_Subset, FS_CardinalityType
<1>2. 0 \in N
  BY <1>1, FS_EmptySet, Zenon
<1>3. ASSUME NEW n \in Nat, n \in N
      PROVE  n + 1 \in N
  <2> SUFFICES ASSUME NEW T \in SUBSET S, Cardinality(T) = n + 1
               PROVE  T \in G
    BY <1>3
  <2>1. PICK x : x \in T
    BY <1>1, FS_EmptySet
  <2>2. IsFiniteSet(T)
    BY <1>1
  <2>3. Cardinality(T \ {x}) = Cardinality(T) - 1
    BY <2>1, <2>2, FS_RemoveElement, Zenon
  <2>4. T \ {x} \in G
    BY <1>3, <2>3
  <2> QED BY <2>1, <2>4
<1> HIDE DEF N
<1>4. Cardinality(S) \in N
  BY <1>1, <1>2, <1>3, Count
<1> QED BY <1>4 DEF N

\* The subsets of S with at most n elements.
UpTo(S, n) == {s \in SUBSET S : Cardinality(s) <= n}

\* The element a fold takes is one of the set, and leaves one element less.
LEMMA Picked ==
    ASSUME NEW S, IsFiniteSet(S), S # {}
    PROVE  /\ Pick(S) \in S
           /\ IsFiniteSet(S \ {Pick(S)})
           /\ Cardinality(S \ {Pick(S)}) = Cardinality(S) - 1
           /\ Cardinality(S) \in Nat \ {0}
<1>1. Pick(S) \in S
  BY DEF Pick
<1>2. Cardinality(S) \in Nat \ {0}
  BY FS_CardinalityType, FS_EmptySet
<1> QED BY <1>1, <1>2, FS_RemoveElement

\* There is a function that adds up.
LEMMA AdderExists ==
    ASSUME NEW S, IsFiniteSet(S), NEW f
    PROVE  \E g : Adds(g, f, SUBSET S)
<1> DEFINE N == {n \in Nat : \E g : Adds(g, f, UpTo(S, n))}
<1>1. \A T \in SUBSET S : IsFiniteSet(T) /\ Cardinality(T) \in Nat
  BY FS_Subset, FS_CardinalityType
<1>2. 0 \in N
  <2>1. UpTo(S, 0) = {{}}
    BY <1>1, FS_EmptySet DEF UpTo
  <2>2. Adds([s \in {{}} |-> 0], f, {{}})
    BY DEF Adds
  <2> QED BY <2>1, <2>2
<1>3. ASSUME NEW n \in Nat, n \in N
      PROVE  n + 1 \in N
  <2>1. PICK g : Adds(g, f, UpTo(S, n))
    BY <1>3
  <2> DEFINE Next(s) == IF s = {} THEN 0 ELSE f[Pick(s)] + g[s \ {Pick(s)}]
             h == [s \in UpTo(S, n + 1) |-> Next(s)]
  <2>2. \A s \in UpTo(S, n) : s \in UpTo(S, n + 1) /\ g[s] = Next(s)
    <3>1. \A s \in UpTo(S, n) : g[s] = Next(s)
      BY <2>1, Zenon DEF Adds
    <3>2. \A s \in UpTo(S, n) : s \in UpTo(S, n + 1)
      BY <1>1 DEF UpTo
    <3> QED BY <3>1, <3>2
  <2>3. \A s \in UpTo(S, n + 1) : s # {} => s \ {Pick(s)} \in UpTo(S, n)
    BY <1>1, Picked DEF UpTo
  <2>4. \A s \in UpTo(S, n) : h[s] = g[s]
    BY <2>2
  <2>5. \A s \in UpTo(S, n + 1) :
          Next(s) = IF s = {} THEN 0 ELSE f[Pick(s)] + h[s \ {Pick(s)}]
    BY <2>3, <2>4, Zenon
  <2>6. Adds(h, f, UpTo(S, n + 1))
    BY <2>5, Zenon DEF Adds
  <2> QED BY <2>6
<1> HIDE DEF N
<1>4. Cardinality(S) \in N
  BY <1>1, <1>2, <1>3, Count
<1>5. UpTo(S, Cardinality(S)) = SUBSET S
  BY <1>1, FS_Subset DEF UpTo
<1> QED BY <1>4, <1>5, Zenon DEF N

Agree(g, h, T) == g[T] = h[T]

\* Two functions that add up agree where both are defined.
LEMMA AddersAgree ==
    ASSUME NEW S, NEW T, NEW f, NEW g, NEW h, T \subseteq S, IsFiniteSet(T),
           Adds(g, f, SUBSET S), Adds(h, f, SUBSET T)
    PROVE  Agree(g, h, T)
<1> SUFFICES g[T] = h[T]
  BY DEF Agree
<1> DEFINE N == {n \in Nat : \A U \in SUBSET T : Cardinality(U) = n => g[U] = h[U]}
<1>1. \A U \in SUBSET T : IsFiniteSet(U) /\ Cardinality(U) \in Nat
  BY FS_Subset, FS_CardinalityType
<1>2. \A U \in SUBSET T : g[U] = (IF U = {} THEN 0 ELSE f[Pick(U)] + g[U \ {Pick(U)}])
  BY Zenon DEF Adds
<1>3. \A U \in SUBSET T : h[U] = (IF U = {} THEN 0 ELSE f[Pick(U)] + h[U \ {Pick(U)}])
  BY Zenon DEF Adds
<1>4. 0 \in N
  BY <1>1, <1>2, <1>3, FS_EmptySet, Zenon
<1>5. ASSUME NEW n \in Nat, n \in N
      PROVE  n + 1 \in N
  <2> SUFFICES ASSUME NEW U \in SUBSET T, Cardinality(U) = n + 1
               PROVE  g[U] = h[U]
    BY <1>5
  <2>1. U # {} /\ IsFiniteSet(U)
    BY <1>1, FS_EmptySet
  <2>2. Cardinality(U \ {Pick(U)}) = Cardinality(U) - 1
    BY <2>1, Picked, Zenon
  <2>3. g[U \ {Pick(U)}] = h[U \ {Pick(U)}]
    BY <1>5, <2>2
  <2> QED BY <1>2, <1>3, <2>1, <2>3
<1> HIDE DEF N
<1>6. Cardinality(T) \in N
  BY <1>1, <1>4, <1>5, Count
<1> QED BY <1>6 DEF N

\* The sum is what some function that adds up says.
LEMMA SumValue ==
    ASSUME NEW S, IsFiniteSet(S), NEW f
    PROVE  \E g : Adds(g, f, SUBSET S) /\ SumFunctionOnSet(f, S) = g[S]
<1>1. Adds(CHOOSE g : Adds(g, f, SUBSET S), f, SUBSET S)
  BY AdderExists, Zenon
<1> QED BY <1>1, SumIs

\* A function that adds up says what the sum over a smaller set is.
LEMMA SumWithin ==
    ASSUME NEW S, NEW T \in SUBSET S, IsFiniteSet(T), NEW f, NEW g, Adds(g, f, SUBSET S)
    PROVE  SumFunctionOnSet(f, T) = g[T]
<1>1. PICK h : Adds(h, f, SUBSET T) /\ SumFunctionOnSet(f, T) = h[T]
  BY SumValue, Zenon
<1>2. T \subseteq S /\ Adds(h, f, SUBSET T)
  BY <1>1
<1>3. Agree(g, h, T)
  BY <1>2, AddersAgree, Zenon
<1> QED BY <1>1, <1>3 DEF Agree

\* The sum over a finite set, from the element that the fold takes first.
LEMMA SumUnfold ==
    ASSUME NEW S, IsFiniteSet(S), NEW f
    PROVE  SumFunctionOnSet(f, S) =
             IF S = {} THEN 0 ELSE f[Pick(S)] + SumFunctionOnSet(f, S \ {Pick(S)})
<1>1. IsFiniteSet(S \ {Pick(S)})
  BY FS_RemoveElement
<1>2. PICK g : Adds(g, f, SUBSET S)
  BY AdderExists, Zenon
<1>3. \A T \in SUBSET S : IsFiniteSet(T) => SumFunctionOnSet(f, T) = g[T]
  BY <1>2, SumWithin
<1>4. g[S] = IF S = {} THEN 0 ELSE f[Pick(S)] + g[S \ {Pick(S)}]
  BY <1>2, Zenon DEF Adds
<1> QED BY <1>1, <1>3, <1>4

\* The sum of integers is an integer.
LEMMA SumType ==
    ASSUME NEW S, IsFiniteSet(S), NEW f, \A x \in S : f[x] \in Int
    PROVE  SumFunctionOnSet(f, S) \in Int
<1> DEFINE N == {n \in Nat : \A T \in SUBSET S :
                               Cardinality(T) = n => SumFunctionOnSet(f, T) \in Int}
<1>1. \A T \in SUBSET S : IsFiniteSet(T) /\ Cardinality(T) \in Nat
  BY FS_Subset, FS_CardinalityType
<1>2. 0 \in N
  BY <1>1, SumUnfold, FS_EmptySet
<1>3. ASSUME NEW n \in Nat, n \in N
      PROVE  n + 1 \in N
  <2> SUFFICES ASSUME NEW T \in SUBSET S, Cardinality(T) = n + 1
               PROVE  SumFunctionOnSet(f, T) \in Int
    BY <1>3
  <2>1. T # {} /\ IsFiniteSet(T)
    BY <1>1, FS_EmptySet
  <2>2. /\ T \ {Pick(T)} \in SUBSET S /\ Cardinality(T \ {Pick(T)}) = n
        /\ Pick(T) \in S
    BY <2>1, Picked
  <2>3. SumFunctionOnSet(f, T \ {Pick(T)}) \in Int
    BY <1>3, <2>2
  <2>4. SumFunctionOnSet(f, T) = f[Pick(T)] + SumFunctionOnSet(f, T \ {Pick(T)})
    BY <2>1, SumUnfold, Zenon
  <2> QED BY <2>2, <2>3, <2>4
<1> HIDE DEF N
<1>4. Cardinality(S) \in N
  BY <1>1, <1>2, <1>3, Count
<1> QED BY <1>4 DEF N

\* Any element may be taken first.
LEMMA SumRemove ==
    ASSUME NEW S, IsFiniteSet(S), NEW f, \A y \in S : f[y] \in Int, NEW x \in S
    PROVE  SumFunctionOnSet(f, S) = f[x] + SumFunctionOnSet(f, S \ {x})
<1> DEFINE From(T, y) == SumFunctionOnSet(f, T) = f[y] + SumFunctionOnSet(f, T \ {y})
           N == {n \in Nat : \A T \in SUBSET S :
                               Cardinality(T) = n => \A y \in T : From(T, y)}
<1>1. \A T \in SUBSET S : IsFiniteSet(T) /\ Cardinality(T) \in Nat
  BY FS_Subset, FS_CardinalityType
<1>2. \A T \in SUBSET S : SumFunctionOnSet(f, T) \in Int
  BY <1>1, SumType
<1>3. 0 \in N
  BY <1>1, FS_EmptySet
<1>4. ASSUME NEW n \in Nat, n \in N
      PROVE  n + 1 \in N
  <2> SUFFICES ASSUME NEW T \in SUBSET S, Cardinality(T) = n + 1, NEW y \in T
               PROVE  From(T, y)
    BY <1>4
  <2> DEFINE p == Pick(T)
             a == T \ {p}
             b == T \ {y}
  <2>1. T # {} /\ IsFiniteSet(T)
    BY <1>1
  <2>2. p \in T /\ From(T, p)
    BY <2>1, Picked, SumUnfold, Zenon
  <2>3. CASE p = y
    BY <2>2, <2>3
  <2>4. CASE p # y
    <3>1. /\ a \in SUBSET S /\ Cardinality(a) = n /\ y \in a
          /\ b \in SUBSET S /\ Cardinality(b) = n /\ p \in b
          /\ a \ {y} = b \ {p} /\ a \ {y} \in SUBSET S
      <4>1. \A z \in T : Cardinality(T \ {z}) = Cardinality(T) - 1
        BY <2>1, FS_RemoveElement, Zenon
      <4>2. Cardinality(a) = n /\ Cardinality(b) = n
        BY <2>2, <4>1
      <4> QED BY <2>2, <2>4, <4>2
    <3>2. From(a, y) /\ From(b, p)
      <4> HIDE DEF a, b, From
      <4> QED BY <1>4, <3>1
    <3>3. f[p] \in Int /\ f[y] \in Int /\ SumFunctionOnSet(f, a \ {y}) \in Int
      BY <1>2, <2>2, <3>1
    <3> HIDE DEF a, b, p
    <3>4. /\ SumFunctionOnSet(f, T) = f[p] + SumFunctionOnSet(f, a)
          /\ SumFunctionOnSet(f, a) = f[y] + SumFunctionOnSet(f, a \ {y})
          /\ SumFunctionOnSet(f, b) = f[p] + SumFunctionOnSet(f, a \ {y})
      BY <2>2, <3>1, <3>2 DEF a
    <3>5. SumFunctionOnSet(f, T) = f[y] + SumFunctionOnSet(f, b)
      BY <3>3, <3>4
    <3> QED BY <3>5 DEF b
  <2> QED BY <2>3, <2>4
<1> HIDE DEF N
<1>5. Cardinality(S) \in N
  BY <1>1, <1>3, <1>4, Count
<1> QED BY <1>5 DEF N

-----------------------------------------------------------------------------
\* The sum over no element.
LEMMA SumEmpty == \A f : SumFunctionOnSet(f, {}) = 0
BY SumUnfold, FS_EmptySet

\* One more element.
LEMMA SumAdd ==
    ASSUME NEW S, IsFiniteSet(S), NEW f, NEW x, x \notin S, \A y \in S \cup {x} : f[y] \in Int
    PROVE  SumFunctionOnSet(f, S \cup {x}) = SumFunctionOnSet(f, S) + f[x]
<1>1. IsFiniteSet(S \cup {x})
  BY FS_AddElement
<1>2. SumFunctionOnSet(f, S \cup {x}) = f[x] + SumFunctionOnSet(f, (S \cup {x}) \ {x})
  BY <1>1, SumRemove
<1>3. (S \cup {x}) \ {x} = S
  OBVIOUS
<1>4. SumFunctionOnSet(f, (S \cup {x}) \ {x}) = SumFunctionOnSet(f, S)
  BY <1>3
<1>5. SumFunctionOnSet(f, S) \in Int /\ f[x] \in Int
  BY SumType
<1> QED BY <1>2, <1>4, <1>5

\* The sum depends only on the values at the elements of the set.
LEMMA SumSame ==
    ASSUME NEW S, IsFiniteSet(S), NEW f, NEW g, \A x \in S : f[x] = g[x], \A x \in S : f[x] \in Int
    PROVE  SumFunctionOnSet(f, S) = SumFunctionOnSet(g, S)
<1> DEFINE G == {T \in SUBSET S : SumFunctionOnSet(f, T) = SumFunctionOnSet(g, T)}
<1>1. {} \in G
  BY SumEmpty
<1>2. ASSUME NEW T \in SUBSET S, NEW x \in T, T \ {x} \in G
      PROVE  T \in G
  <2>1. IsFiniteSet(T)
    BY FS_Subset
  <2>2. SumFunctionOnSet(f, T) = f[x] + SumFunctionOnSet(f, T \ {x})
    BY <2>1, SumRemove
  <2>3. SumFunctionOnSet(g, T) = g[x] + SumFunctionOnSet(g, T \ {x})
    BY <2>1, SumRemove
  <2> QED BY <1>2, <2>2, <2>3
<1> HIDE DEF G
<1>3. S \in G
  BY <1>1, <1>2, Grow, Zenon
<1> QED BY <1>3 DEF G

\* One value changes.
LEMMA SumUpdate ==
    ASSUME NEW S, IsFiniteSet(S), NEW f, NEW g, NEW x \in S,
           \A y \in S : f[y] \in Int /\ g[y] \in Int, \A y \in S \ {x} : f[y] = g[y]
    PROVE  SumFunctionOnSet(g, S) = SumFunctionOnSet(f, S) - f[x] + g[x]
<1>1. IsFiniteSet(S \ {x})
  BY FS_RemoveElement
<1>2. SumFunctionOnSet(f, S \ {x}) = SumFunctionOnSet(g, S \ {x})
  BY <1>1, SumSame
<1>3. SumFunctionOnSet(f, S) = f[x] + SumFunctionOnSet(f, S \ {x})
  BY SumRemove
<1>4. SumFunctionOnSet(g, S) = g[x] + SumFunctionOnSet(g, S \ {x})
  BY SumRemove
<1>5. SumFunctionOnSet(f, S \ {x}) \in Int
  BY <1>1, SumType
<1> QED BY <1>2, <1>3, <1>4, <1>5

\* g is f with d added at x.
Shifted(g, f, S, x, d) ==
    \A y \in S : f[y] \in Int /\ g[y] = IF y = x THEN f[y] + d ELSE f[y]

LEMMA SumShift ==
    ASSUME NEW S, IsFiniteSet(S), NEW f, NEW g, NEW x \in S, NEW d \in Int,
           Shifted(g, f, S, x, d)
    PROVE  SumFunctionOnSet(g, S) = SumFunctionOnSet(f, S) + d
<1>1. \A y \in S : f[y] \in Int /\ g[y] \in Int
  BY DEF Shifted
<1>2. \A y \in S \ {x} : f[y] = g[y]
  BY DEF Shifted
<1>3. SumFunctionOnSet(g, S) = SumFunctionOnSet(f, S) - f[x] + g[x]
  BY <1>1, <1>2, SumUpdate
<1>4. SumFunctionOnSet(f, S) \in Int
  BY <1>1, SumType
<1>5. f[x] \in Int /\ g[x] = f[x] + d
  BY DEF Shifted
<1> QED BY <1>3, <1>4, <1>5

\* The sum of natural numbers is one.
LEMMA SumNat ==
    ASSUME NEW S, IsFiniteSet(S), NEW f, \A x \in S : f[x] \in Nat
    PROVE  SumFunctionOnSet(f, S) \in Nat
<1> DEFINE G == {T \in SUBSET S : SumFunctionOnSet(f, T) \in Nat}
<1>1. {} \in G
  BY SumEmpty
<1>2. ASSUME NEW T \in SUBSET S, NEW x \in T, T \ {x} \in G
      PROVE  T \in G
  <2>1. IsFiniteSet(T)
    BY FS_Subset
  <2>2. SumFunctionOnSet(f, T) = f[x] + SumFunctionOnSet(f, T \ {x})
    BY <2>1, SumRemove
  <2> QED BY <1>2, <2>2
<1> HIDE DEF G
<1>3. S \in G
  BY <1>1, <1>2, Grow, Zenon
<1> QED BY <1>3 DEF G

\* Two disjoint sets.
LEMMA SumUnion ==
    ASSUME NEW S, IsFiniteSet(S), NEW T, IsFiniteSet(T), S \cap T = {},
           NEW f, \A x \in S \cup T : f[x] \in Int
    PROVE  SumFunctionOnSet(f, S \cup T) = SumFunctionOnSet(f, S) + SumFunctionOnSet(f, T)
<1> DEFINE G == {U \in SUBSET T : SumFunctionOnSet(f, S \cup U) =
                                  SumFunctionOnSet(f, S) + SumFunctionOnSet(f, U)}
<1>1. SumFunctionOnSet(f, S) \in Int
  BY SumType
<1>2. {} \in G
  BY <1>1, SumEmpty
<1>3. ASSUME NEW U \in SUBSET T, NEW x \in U, U \ {x} \in G
      PROVE  U \in G
  <2>1. IsFiniteSet(U)
    BY FS_Subset
  <2>2. IsFiniteSet(S \cup U)
    BY <2>1, FS_Union, Zenon
  <2>3. IsFiniteSet(U \ {x})
    BY <2>1, FS_RemoveElement
  <2>4. SumFunctionOnSet(f, U) = f[x] + SumFunctionOnSet(f, U \ {x})
    BY <2>1, SumRemove
  <2>5. SumFunctionOnSet(f, S \cup U) = f[x] + SumFunctionOnSet(f, (S \cup U) \ {x})
    BY <2>2, SumRemove
  <2>6. (S \cup U) \ {x} = S \cup (U \ {x})
    OBVIOUS
  <2>7. SumFunctionOnSet(f, (S \cup U) \ {x}) = SumFunctionOnSet(f, S \cup (U \ {x}))
    BY <2>6
  <2>8. SumFunctionOnSet(f, U \ {x}) \in Int /\ f[x] \in Int
    BY <2>3, SumType
  <2> QED BY <1>1, <1>3, <2>4, <2>5, <2>7, <2>8
<1> HIDE DEF G
<1>4. T \in G
  BY <1>2, <1>3, Grow, Zenon
<1> QED BY <1>4 DEF G

\* A part of a sum of natural numbers is at most the whole.
LEMMA SumPart ==
    ASSUME NEW S, IsFiniteSet(S), NEW T \in SUBSET S, NEW f, \A x \in S : f[x] \in Nat
    PROVE  SumFunctionOnSet(f, T) <= SumFunctionOnSet(f, S)
<1>1. IsFiniteSet(T) /\ IsFiniteSet(S \ T) /\ T \cap (S \ T) = {}
  BY FS_Subset
<1>2. SumFunctionOnSet(f, T) \in Nat /\ SumFunctionOnSet(f, S \ T) \in Nat
  BY <1>1, SumNat
<1>3. SumFunctionOnSet(f, T \cup (S \ T)) = SumFunctionOnSet(f, T) + SumFunctionOnSet(f, S \ T)
  BY <1>1, SumUnion
<1>4. T \cup (S \ T) = S
  OBVIOUS
<1>5. SumFunctionOnSet(f, T \cup (S \ T)) = SumFunctionOnSet(f, S)
  BY <1>4
<1> QED BY <1>2, <1>3, <1>5

\* The sum of zeros.
LEMMA SumZero ==
    ASSUME NEW S, IsFiniteSet(S), NEW f, \A x \in S : f[x] = 0
    PROVE  SumFunctionOnSet(f, S) = 0
<1> DEFINE G == {T \in SUBSET S : SumFunctionOnSet(f, T) = 0}
<1>1. {} \in G
  BY SumEmpty
<1>2. ASSUME NEW T \in SUBSET S, NEW x \in T, T \ {x} \in G
      PROVE  T \in G
  <2>1. IsFiniteSet(T)
    BY FS_Subset
  <2>2. SumFunctionOnSet(f, T) = f[x] + SumFunctionOnSet(f, T \ {x})
    BY <2>1, SumRemove
  <2> QED BY <1>2, <2>2
<1> HIDE DEF G
<1>3. S \in G
  BY <1>1, <1>2, Grow, Zenon
<1> QED BY <1>3 DEF G

\* The sum of sums.
LEMMA SumPlus ==
    ASSUME NEW S, IsFiniteSet(S), NEW f, NEW g, NEW h,
           \A x \in S : f[x] \in Int /\ g[x] \in Int, \A x \in S : h[x] = f[x] + g[x]
    PROVE  SumFunctionOnSet(h, S) = SumFunctionOnSet(f, S) + SumFunctionOnSet(g, S)
<1> DEFINE G == {T \in SUBSET S : SumFunctionOnSet(h, T) =
                                  SumFunctionOnSet(f, T) + SumFunctionOnSet(g, T)}
<1>1. {} \in G
  BY SumEmpty
<1>2. ASSUME NEW T \in SUBSET S, NEW x \in T, T \ {x} \in G
      PROVE  T \in G
  <2>1. IsFiniteSet(T) /\ IsFiniteSet(T \ {x})
    BY FS_Subset
  <2>2. SumFunctionOnSet(f, T) = f[x] + SumFunctionOnSet(f, T \ {x})
    BY <2>1, SumRemove
  <2>3. SumFunctionOnSet(g, T) = g[x] + SumFunctionOnSet(g, T \ {x})
    BY <2>1, SumRemove
  <2>4. SumFunctionOnSet(h, T) = h[x] + SumFunctionOnSet(h, T \ {x})
    <3>1. \A y \in T : h[y] \in Int
      OBVIOUS
    <3> QED BY <2>1, <3>1, SumRemove
  <2>5. SumFunctionOnSet(f, T \ {x}) \in Int /\ SumFunctionOnSet(g, T \ {x}) \in Int
    BY <2>1, SumType
  <2> QED BY <1>2, <2>2, <2>3, <2>4, <2>5
<1> HIDE DEF G
<1>3. S \in G
  BY <1>1, <1>2, Grow, Zenon
<1> QED BY <1>3 DEF G

\* What two sets cover, up to elements that count for nothing, is at most both together.
LEMMA SumCover ==
    ASSUME NEW S, IsFiniteSet(S), NEW T, IsFiniteSet(T), NEW U, IsFiniteSet(U),
           NEW f, \A x \in S \cup T \cup U : f[x] \in Nat,
           \A x \in U \ (S \cup T) : f[x] = 0
    PROVE  SumFunctionOnSet(f, U) <= SumFunctionOnSet(f, S) + SumFunctionOnSet(f, T)
<1> DEFINE A == U \cap S
           B == (U \cap T) \ S
           Z == U \ (S \cup T)
<1>1. IsFiniteSet(A) /\ IsFiniteSet(B) /\ IsFiniteSet(Z) /\ IsFiniteSet(A \cup B)
  BY FS_Subset
<1>2. /\ A \cap B = {} /\ (A \cup B) \cap Z = {} /\ (A \cup B) \cup Z = U
      /\ A \in SUBSET S /\ B \in SUBSET T
  OBVIOUS
<1>3. /\ \A x \in S : f[x] \in Nat
      /\ \A x \in T : f[x] \in Nat
      /\ \A x \in Z : f[x] = 0
      /\ \A x \in A \cup B : f[x] \in Int
      /\ \A x \in (A \cup B) \cup Z : f[x] \in Int
  OBVIOUS
<1> HIDE DEF A, B, Z
<1>4. SumFunctionOnSet(f, A) <= SumFunctionOnSet(f, S)
  BY <1>2, <1>3, SumPart
<1>5. SumFunctionOnSet(f, B) <= SumFunctionOnSet(f, T)
  BY <1>2, <1>3, SumPart
<1>6. SumFunctionOnSet(f, Z) = 0
  BY <1>1, <1>3, SumZero
<1>7. SumFunctionOnSet(f, A \cup B) = SumFunctionOnSet(f, A) + SumFunctionOnSet(f, B)
  BY <1>1, <1>2, <1>3, SumUnion
<1>8. SumFunctionOnSet(f, (A \cup B) \cup Z) =
        SumFunctionOnSet(f, A \cup B) + SumFunctionOnSet(f, Z)
  BY <1>1, <1>2, <1>3, SumUnion
<1>9. SumFunctionOnSet(f, (A \cup B) \cup Z) = SumFunctionOnSet(f, U)
  BY <1>2, Zenon
<1>10. /\ SumFunctionOnSet(f, A) \in Int /\ SumFunctionOnSet(f, B) \in Int
       /\ SumFunctionOnSet(f, S) \in Int /\ SumFunctionOnSet(f, T) \in Int
  <2>1. /\ \A x \in A : f[x] \in Int
        /\ \A x \in B : f[x] \in Int
        /\ \A x \in S : f[x] \in Int
        /\ \A x \in T : f[x] \in Int
    BY <1>3
  <2> QED BY <1>1, <2>1, SumType
<1> QED BY <1>4, <1>5, <1>6, <1>7, <1>8, <1>9, <1>10
=============================================================================
