------------------------------ MODULE SumLemmas ------------------------------
(***************************************************************************)
(* Sums over finite sets: what SumFunctionOnSet of the community modules   *)
(* is, for every function to the integers.                                 *)
(***************************************************************************)
EXTENDS Functions, FiniteSetTheorems, WellFoundedInduction, TLAPS

-----------------------------------------------------------------------------
(* Induction, with a set in the place of a predicate.                       *)

LEMMA LeastNatural ==
  ASSUME NEW T, T \subseteq Nat, T # {}
  PROVE  \E n \in T : \A m \in T : n <= m
<1> DEFINE Less == { p \in Nat \X Nat : p[1] < p[2] }
<1>1. IsWellFoundedOn(Less, Nat)
  BY NatLessThanWellFounded, Zenon DEF OpToRel
<1>2. \E n \in T : \A m \in T : ~(<< m, n >> \in Less)
  <2> HIDE DEF Less
  <2>1. QED
    BY <1>1, WFMin
<1>3. PICK n \in T : \A m \in T : ~(<< m, n >> \in Less)
  BY <1>2
<1>4. \A m \in T : n <= m
  <2> SUFFICES ASSUME NEW m \in T PROVE n <= m
    OBVIOUS
  <2>1. m \in Nat /\ n \in Nat
    OBVIOUS
  <2>2. << m, n >> \in Nat \X Nat /\ ~(m < n)
    BY <1>3, <2>1
  <2>3. QED
    BY <2>1, <2>2
<1>5. QED
  BY <1>4

LEMMA NaturalInduction ==
  ASSUME NEW T, 0 \in T, \A n \in Nat : n \in T => n + 1 \in T
  PROVE  Nat \subseteq T
<1> SUFFICES ASSUME Nat \ T # {} PROVE FALSE
  OBVIOUS
<1>1. PICK n \in Nat \ T : \A m \in Nat \ T : n <= m
  BY LeastNatural
<1>2. n # 0
  OBVIOUS
<1>3. n - 1 \in Nat
  BY <1>2
<1>4. n - 1 \in T
  BY <1>1, <1>3
<1>5. (n - 1) + 1 \in T
  BY <1>3, <1>4
<1>6. QED
  BY <1>5

\* A set of subsets of a finite set that holds the empty one and grows by single
\* elements holds them all.
LEMMA SubsetInduction ==
  ASSUME NEW S, IsFiniteSet(S), NEW T, {} \in T,
         \A U \in SUBSET S, x \in S : (U \in T /\ x \notin U) => U \cup {x} \in T
  PROVE  SUBSET S \subseteq T
<1> DEFINE N == { n \in Nat : \A U \in SUBSET S : Cardinality(U) = n => U \in T }
<1>0. \A U \in SUBSET S : IsFiniteSet(U) /\ Cardinality(U) \in Nat
  BY FS_Subset, FS_CardinalityType
<1>1. 0 \in N
  BY <1>0, FS_EmptySet
<1>2. ASSUME NEW n \in Nat, n \in N
      PROVE  n + 1 \in N
  <2> SUFFICES ASSUME NEW U \in SUBSET S, Cardinality(U) = n + 1
               PROVE  U \in T
    OBVIOUS
  <2>1. U # {}
    BY FS_EmptySet
  <2>2. PICK x \in U : TRUE
    BY <2>1
  <2>3. Cardinality(U \ {x}) = n
    <3>1. IsFiniteSet(U)
      BY <1>0
    <3>2. Cardinality(U \ {x}) = (n + 1) - 1
      BY <3>1, FS_RemoveElement
    <3>3. QED
      BY <3>2
  <2>4. U \ {x} \in T
    BY <1>2, <2>3
  <2>5. (U \ {x}) \cup {x} = U
    OBVIOUS
  <2>6. QED
    BY <2>4, <2>5
<1> HIDE DEF N
<1>3. Nat \subseteq N
  BY <1>1, <1>2, NaturalInduction
<1>4. QED
  BY <1>0, <1>3 DEF N

-----------------------------------------------------------------------------
(* The recursive function behind SumFunctionOnSet.                          *)

Pick(s) == CHOOSE x \in s : TRUE
SumBody(f, g, s) == IF s = {} THEN 0 ELSE f[Pick(s)] + g[s \ {Pick(s)}]
SumIter(f, S) == CHOOSE g : g = [ s \in SUBSET S |-> SumBody(f, g, s) ]

LEMMA SumUnfolds ==
  ASSUME NEW f, NEW S
  PROVE  SumFunctionOnSet(f, S) = SumIter(f, S)[S]
BY DEF SumFunctionOnSet, FoldFunctionOnSet, MapThenFoldSet, SumIter, SumBody, Pick

\* The recursion is well founded: the function exists.
LEMMA SumIterRecurs ==
  ASSUME NEW f, NEW S, IsFiniteSet(S)
  PROVE  \A U \in SUBSET S : SumIter(f, S)[U] = SumBody(f, SumIter(f, S), U)
<1> DEFINE Small(n) == { s \in SUBSET S : Cardinality(s) <= n }
           T == { n \in Nat : \E g : g = [ s \in Small(n) |-> SumBody(f, g, s) ] }
<1>0. \A s \in SUBSET S : IsFiniteSet(s) /\ Cardinality(s) \in Nat
  BY FS_Subset, FS_CardinalityType
<1>1. 0 \in T
  <2> DEFINE g == [ s \in Small(0) |-> 0 ]
  <2>1. \A s \in Small(0) : s = {}
    BY <1>0, FS_EmptySet
  <2>2. g = [ s \in Small(0) |-> SumBody(f, g, s) ]
    BY <2>1 DEF SumBody
  <2>3. QED
    BY <2>2
<1>2. ASSUME NEW n \in Nat, n \in T
      PROVE  n + 1 \in T
  <2>1. PICK h : h = [ s \in Small(n) |-> SumBody(f, h, s) ]
    BY <1>2
  <2> DEFINE g == [ s \in Small(n + 1) |-> SumBody(f, h, s) ]
  <2>2. \A s \in Small(n) : s \in Small(n + 1) /\ g[s] = h[s]
    BY <1>0, <2>1
  <2>3. ASSUME NEW s \in Small(n + 1), s # {}
        PROVE  s \ {Pick(s)} \in Small(n)
    <3>1. Pick(s) \in s
      BY <2>3 DEF Pick
    <3>2. IsFiniteSet(s) /\ s \in SUBSET S /\ Cardinality(s) <= n + 1 /\ Cardinality(s) \in Nat
      BY <1>0
    <3>3. Cardinality(s \ {Pick(s)}) = Cardinality(s) - 1
      BY <3>1, <3>2, FS_RemoveElement
    <3>4. QED
      BY <3>2, <3>3
  <2> HIDE DEF Small
  <2>4. \A s \in Small(n + 1) : SumBody(f, h, s) = SumBody(f, g, s)
    <3> HIDE DEF g
    <3>1. QED
      BY <2>2, <2>3 DEF SumBody
  <2>5. g = [ s \in Small(n + 1) |-> SumBody(f, g, s) ]
    BY <2>4
  <2> HIDE DEF g
  <2>6. \E gg : gg = [ s \in Small(n + 1) |-> SumBody(f, gg, s) ]
    BY <2>5
  <2>7. QED
    BY <2>6
<1>3. Cardinality(S) \in T
  <2> HIDE DEF T
  <2>1. QED
    BY <1>1, <1>2, NaturalInduction, FS_CardinalityType
<1>4. Small(Cardinality(S)) = SUBSET S
  BY FS_Subset
<1>5. \E g : g = [ s \in SUBSET S |-> SumBody(f, g, s) ]
  BY <1>3, <1>4
<1> DEFINE iter == SumIter(f, S)
<1>6. iter = [ s \in SUBSET S |-> SumBody(f, iter, s) ]
  BY <1>5 DEF SumIter
<1> HIDE DEF iter
<1>7. \A U \in SUBSET S : iter[U] = SumBody(f, iter, U)
  BY <1>6
<1>8. QED
  BY <1>7 DEF iter

\* What it gives for a subset does not depend on the set it was built for.
LEMMA SumIterAgrees ==
  ASSUME NEW f, NEW S, IsFiniteSet(S), NEW V \in SUBSET S
  PROVE  SumIter(f, S)[V] = SumIter(f, V)[V]
<1> DEFINE g == SumIter(f, S)
           h == SumIter(f, V)
           T == { n \in Nat : \A U \in SUBSET V : Cardinality(U) = n => g[U] = h[U] }
<1>0. \A U \in SUBSET V : IsFiniteSet(U) /\ Cardinality(U) \in Nat /\ U \in SUBSET S
  BY FS_Subset, FS_CardinalityType
<1>1. IsFiniteSet(V)
  BY <1>0
<1>2. \A U \in SUBSET V : g[U] = SumBody(f, g, U) /\ h[U] = SumBody(f, h, U)
  BY <1>0, <1>1, SumIterRecurs
<1> HIDE DEF g, h
<1>3. 0 \in T
  BY <1>0, <1>2, FS_EmptySet DEF SumBody
<1>4. ASSUME NEW n \in Nat, n \in T
      PROVE  n + 1 \in T
  <2> SUFFICES ASSUME NEW U \in SUBSET V, Cardinality(U) = n + 1
               PROVE  g[U] = h[U]
    OBVIOUS
  <2>1. IsFiniteSet(U) /\ U # {}
    BY <1>0, FS_EmptySet
  <2>2. Pick(U) \in U
    BY <2>1 DEF Pick
  <2>3. Cardinality(U \ {Pick(U)}) = n
    <3>1. Cardinality(U \ {Pick(U)}) = Cardinality(U) - 1
      BY <2>1, <2>2, FS_RemoveElement
    <3>2. QED
      BY <3>1
  <2>4. g[U \ {Pick(U)}] = h[U \ {Pick(U)}]
    BY <1>4, <2>3
  <2>5. QED
    BY <1>2, <2>1, <2>4 DEF SumBody
<1>5. Cardinality(V) \in T
  <2> HIDE DEF T
  <2>1. Nat \subseteq T
    BY <1>3, <1>4, NaturalInduction
  <2>2. QED
    BY <1>0, <2>1
<1>6. QED
  BY <1>5 DEF g, h

LEMMA SumOfNothing == ASSUME NEW f PROVE SumFunctionOnSet(f, {}) = 0
<1>1. IsFiniteSet({}) /\ {} \in SUBSET {}
  BY FS_EmptySet
<1>2. SumIter(f, {})[{}] = 0
  BY <1>1, SumIterRecurs DEF SumBody
<1>3. QED
  BY <1>2, SumUnfolds

LEMMA SumPicks ==
  ASSUME NEW f, NEW S, IsFiniteSet(S), S # {}
  PROVE  SumFunctionOnSet(f, S) = f[Pick(S)] + SumFunctionOnSet(f, S \ {Pick(S)})
<1>1. SumIter(f, S)[S] = SumBody(f, SumIter(f, S), S)
  BY SumIterRecurs
<1>2. SumIter(f, S)[S \ {Pick(S)}] = SumIter(f, S \ {Pick(S)})[S \ {Pick(S)}]
  BY SumIterAgrees
<1>3. QED
  BY <1>1, <1>2, SumUnfolds DEF SumBody

-----------------------------------------------------------------------------
(* The laws of sums.                                                        *)

\* Any element may be taken out of a sum of integers first.
LEMMA SumTakesAny ==
  ASSUME NEW S, IsFiniteSet(S), NEW f, \A x \in S : f[x] \in Int
  PROVE  /\ SumFunctionOnSet(f, S) \in Int
         /\ \A x \in S : SumFunctionOnSet(f, S) = f[x] + SumFunctionOnSet(f, S \ {x})
<1> DEFINE Sum(U) == SumFunctionOnSet(f, U)
           Law(U) == Sum(U) \in Int /\ \A x \in U : Sum(U) = f[x] + Sum(U \ {x})
           T == { n \in Nat : \A U \in SUBSET S : Cardinality(U) <= n => Law(U) }
<1>0. \A U \in SUBSET S : IsFiniteSet(U) /\ Cardinality(U) \in Nat
  BY FS_Subset, FS_CardinalityType
<1>1. 0 \in T
  <2> SUFFICES ASSUME NEW U \in SUBSET S, Cardinality(U) <= 0 PROVE Law(U)
    OBVIOUS
  <2>1. U = {}
    BY <1>0, FS_EmptySet
  <2>2. QED
    BY <2>1, SumOfNothing
<1>2. ASSUME NEW n \in Nat, n \in T
      PROVE  n + 1 \in T
  <2> SUFFICES ASSUME NEW U \in SUBSET S, Cardinality(U) <= n + 1, U # {} PROVE Law(U)
    BY SumOfNothing
  <2>0. IsFiniteSet(U) /\ Cardinality(U) \in Nat
    BY <1>0
  <2> DEFINE p == Pick(U)
  <2>1. p \in U
    BY DEF Pick
  <2>2. Sum(U) = f[p] + Sum(U \ {p})
    BY <2>0, SumPicks
  <2> HIDE DEF p, Sum
  <2>3. \A x \in U : Law(U \ {x})
    <3> SUFFICES ASSUME NEW x \in U PROVE Law(U \ {x})
      OBVIOUS
    <3>1. Cardinality(U \ {x}) = Cardinality(U) - 1
      BY <2>0, FS_RemoveElement
    <3>2. U \ {x} \in SUBSET S /\ Cardinality(U \ {x}) <= n
      BY <2>0, <3>1
    <3> HIDE DEF Law
    <3>3. QED
      BY <1>2, <3>2
  <2>4. Sum(U) \in Int
    BY <2>1, <2>2, <2>3
  <2>5. ASSUME NEW x \in U
        PROVE  Sum(U) = f[x] + Sum(U \ {x})
    <3>1. CASE x = p
      BY <2>2, <3>1
    <3>2. CASE x # p
      <4>1. Sum(U \ {p}) = f[x] + Sum((U \ {p}) \ {x})
        BY <2>1, <2>3, <3>2
      <4>2. Sum(U \ {x}) = f[p] + Sum((U \ {x}) \ {p})
        BY <2>1, <2>3, <3>2
      <4>3. (U \ {x}) \ {p} = (U \ {p}) \ {x}
        OBVIOUS
      <4>4. Law((U \ {p}) \ {x})
        <5>1. Cardinality(U \ {p}) = Cardinality(U) - 1 /\ IsFiniteSet(U \ {p})
          BY <2>0, <2>1, FS_RemoveElement
        <5>2. x \in U \ {p}
          BY <3>2
        <5>3. Cardinality((U \ {p}) \ {x}) = Cardinality(U \ {p}) - 1
          BY <5>1, <5>2, FS_RemoveElement
        <5>4. Cardinality((U \ {p}) \ {x}) <= n /\ (U \ {p}) \ {x} \in SUBSET S
          BY <2>0, <5>1, <5>3
        <5> HIDE DEF Law
        <5>5. QED
          BY <1>2, <5>4
      <4>5. f[p] \in Int /\ f[x] \in Int
        BY <2>1
      <4>6. Sum((U \ {p}) \ {x}) \in Int
        BY <4>4
      <4>7. Sum(U \ {x}) = f[p] + Sum((U \ {p}) \ {x})
        BY <4>2, <4>3, Zenon
      <4>8. QED
        BY <2>2, <4>1, <4>5, <4>6, <4>7
    <3>3. QED
      BY <3>1, <3>2
  <2>6. QED
    BY <2>4, <2>5
<1>3. Cardinality(S) \in T
  <2> HIDE DEF T
  <2>1. Nat \subseteq T
    BY <1>1, <1>2, NaturalInduction
  <2>2. QED
    BY <1>0, <2>1
<1>4. QED
  BY <1>0, <1>3

\* A new element adds its value.
LEMMA SumAdds ==
  ASSUME NEW S, IsFiniteSet(S), NEW x, x \notin S,
         NEW f, \A y \in S \cup {x} : f[y] \in Int
  PROVE  SumFunctionOnSet(f, S \cup {x}) = f[x] + SumFunctionOnSet(f, S)
<1>1. IsFiniteSet(S \cup {x})
  BY FS_AddElement
<1>2. (S \cup {x}) \ {x} = S /\ x \in S \cup {x}
  OBVIOUS
<1>3. \A z \in S \cup {x} :
        SumFunctionOnSet(f, S \cup {x}) = f[z] + SumFunctionOnSet(f, (S \cup {x}) \ {z})
  BY <1>1, SumTakesAny
<1>4. QED
  BY <1>2, <1>3

\* Only the values on the set count.
LEMMA SumOfEquals ==
  ASSUME NEW S, IsFiniteSet(S), NEW f, NEW g,
         \A x \in S : f[x] \in Int /\ g[x] = f[x]
  PROVE  SumFunctionOnSet(g, S) = SumFunctionOnSet(f, S)
<1> DEFINE T == { U \in SUBSET S : SumFunctionOnSet(g, U) = SumFunctionOnSet(f, U) }
<1>1. {} \in T
  BY SumOfNothing
<1>2. ASSUME NEW U \in SUBSET S, NEW x \in S, U \in T, x \notin U
      PROVE  U \cup {x} \in T
  <2>1. IsFiniteSet(U)
    BY FS_Subset
  <2>2. /\ SumFunctionOnSet(f, U \cup {x}) = f[x] + SumFunctionOnSet(f, U)
        /\ SumFunctionOnSet(g, U \cup {x}) = g[x] + SumFunctionOnSet(g, U)
    BY <1>2, <2>1, SumAdds
  <2>3. QED
    BY <1>2, <2>2
<1>3. SUBSET S \subseteq T
  <2> HIDE DEF T
  <2>1. QED
    BY <1>1, <1>2, SubsetInduction
<1>4. S \in SUBSET S
  OBVIOUS
<1>5. QED
  BY <1>3, <1>4

\* A change of one value changes the sum by the difference.
LEMMA SumOfUpdate ==
  ASSUME NEW S, IsFiniteSet(S), NEW x \in S,
         NEW f, NEW g, \A y \in S : f[y] \in Int /\ g[y] \in Int,
         \A y \in S \ {x} : g[y] = f[y]
  PROVE  SumFunctionOnSet(g, S) = SumFunctionOnSet(f, S) - f[x] + g[x]
<1>1. IsFiniteSet(S \ {x})
  BY FS_RemoveElement
<1>2. SumFunctionOnSet(g, S \ {x}) = SumFunctionOnSet(f, S \ {x})
  BY <1>1, SumOfEquals
<1>3. /\ SumFunctionOnSet(f, S) = f[x] + SumFunctionOnSet(f, S \ {x})
      /\ SumFunctionOnSet(g, S) = g[x] + SumFunctionOnSet(g, S \ {x})
  BY SumTakesAny
<1>4. SumFunctionOnSet(f, S \ {x}) \in Int
  BY <1>1, SumTakesAny
<1>5. QED
  BY <1>2, <1>3, <1>4

\* A sum over two disjoint sets is the sum of the two sums.
LEMMA SumOfParts ==
  ASSUME NEW S, IsFiniteSet(S), NEW P \in SUBSET S,
         NEW f, \A x \in S : f[x] \in Int
  PROVE  SumFunctionOnSet(f, S) = SumFunctionOnSet(f, P) + SumFunctionOnSet(f, S \ P)
<1> DEFINE Q == S \ P
           T == { U \in SUBSET Q : SumFunctionOnSet(f, P \cup U)
                                     = SumFunctionOnSet(f, P) + SumFunctionOnSet(f, U) }
<1>0. IsFiniteSet(P) /\ IsFiniteSet(Q)
  BY FS_Subset
<1>1. {} \in T
  <2>1. P \cup {} = P /\ SumFunctionOnSet(f, P) \in Int
    BY <1>0, SumTakesAny
  <2>2. QED
    BY <2>1, SumOfNothing
<1>2. ASSUME NEW U \in SUBSET Q, NEW x \in Q, U \in T, x \notin U
      PROVE  U \cup {x} \in T
  <2>1. IsFiniteSet(U) /\ IsFiniteSet(P \cup U)
    BY <1>0, FS_Subset
  <2>2. SumFunctionOnSet(f, U \cup {x}) = f[x] + SumFunctionOnSet(f, U)
    BY <1>2, <2>1, SumAdds
  <2>3. SumFunctionOnSet(f, (P \cup U) \cup {x}) = f[x] + SumFunctionOnSet(f, P \cup U)
    BY <1>2, <2>1, SumAdds
  <2>4. /\ SumFunctionOnSet(f, P) \in Int /\ SumFunctionOnSet(f, U) \in Int
        /\ f[x] \in Int
    BY <1>0, <2>1, SumTakesAny
  <2>5. P \cup (U \cup {x}) = (P \cup U) \cup {x}
    OBVIOUS
  <2>6. SumFunctionOnSet(f, P \cup (U \cup {x}))
          = SumFunctionOnSet(f, P) + SumFunctionOnSet(f, U \cup {x})
    <3>1. SumFunctionOnSet(f, P \cup U) = SumFunctionOnSet(f, P) + SumFunctionOnSet(f, U)
      BY <1>2
    <3>2. SumFunctionOnSet(f, P \cup (U \cup {x})) = f[x] + SumFunctionOnSet(f, P \cup U)
      BY <2>3, <2>5, Zenon
    <3>3. QED
      BY <2>2, <2>4, <3>1, <3>2
  <2>7. QED
    BY <2>6
<1>3. SUBSET Q \subseteq T
  <2> HIDE DEF T, Q
  <2>1. QED
    BY <1>0, <1>1, <1>2, SubsetInduction
<1>4. Q \in T
  BY <1>3
<1>5. P \cup Q = S
  OBVIOUS
<1>6. QED
  BY <1>4, <1>5

\* A sum of naturals is a natural, and no part of it is larger.
LEMMA SumOfNaturals ==
  ASSUME NEW S, IsFiniteSet(S), NEW f, \A x \in S : f[x] \in Nat
  PROVE  /\ SumFunctionOnSet(f, S) \in Nat
         /\ \A P \in SUBSET S : SumFunctionOnSet(f, P) <= SumFunctionOnSet(f, S)
<1> DEFINE T == { U \in SUBSET S : SumFunctionOnSet(f, U) \in Nat }
<1>0. \A x \in S : f[x] \in Int
  OBVIOUS
<1>1. {} \in T
  BY SumOfNothing
<1>2. ASSUME NEW U \in SUBSET S, NEW x \in S, U \in T, x \notin U
      PROVE  U \cup {x} \in T
  <2>1. IsFiniteSet(U)
    BY FS_Subset
  <2>2. SumFunctionOnSet(f, U \cup {x}) = f[x] + SumFunctionOnSet(f, U)
    BY <1>0, <1>2, <2>1, SumAdds
  <2>3. QED
    BY <1>2, <2>2
<1>3. SUBSET S \subseteq T
  <2> HIDE DEF T
  <2>1. QED
    BY <1>1, <1>2, SubsetInduction
<1>4. \A P \in SUBSET S : SumFunctionOnSet(f, P) \in Nat
  BY <1>3
<1>5. S \in SUBSET S /\ \A P \in SUBSET S : S \ P \in SUBSET S
  OBVIOUS
<1>6. \A P \in SUBSET S :
        SumFunctionOnSet(f, S) = SumFunctionOnSet(f, P) + SumFunctionOnSet(f, S \ P)
  BY <1>0, SumOfParts
<1>7. ASSUME NEW P \in SUBSET S
      PROVE  SumFunctionOnSet(f, P) <= SumFunctionOnSet(f, S)
  <2>1. /\ SumFunctionOnSet(f, P) \in Nat
        /\ SumFunctionOnSet(f, S \ P) \in Nat
        /\ SumFunctionOnSet(f, S) = SumFunctionOnSet(f, P) + SumFunctionOnSet(f, S \ P)
    BY <1>4, <1>5, <1>6
  <2>2. QED
    BY <2>1
<1>8. QED
  BY <1>4, <1>5, <1>7

\* Nothing added up is nothing.
LEMMA SumOfZeros ==
  ASSUME NEW S, IsFiniteSet(S), NEW f, \A x \in S : f[x] = 0
  PROVE  SumFunctionOnSet(f, S) = 0
<1> DEFINE T == { U \in SUBSET S : SumFunctionOnSet(f, U) = 0 }
<1>1. {} \in T
  BY SumOfNothing
<1>2. ASSUME NEW U \in SUBSET S, NEW x \in S, U \in T, x \notin U
      PROVE  U \cup {x} \in T
  <2>1. IsFiniteSet(U) /\ SumFunctionOnSet(f, U) = 0
    BY <1>2, FS_Subset
  <2>2. \A y \in U \cup {x} : f[y] \in Int
    OBVIOUS
  <2>3. SumFunctionOnSet(f, U \cup {x}) = f[x] + SumFunctionOnSet(f, U)
    BY <1>2, <2>1, <2>2, SumAdds
  <2>4. QED
    BY <2>1, <2>3
<1>3. SUBSET S \subseteq T
  <2> HIDE DEF T
  <2>1. QED
    BY <1>1, <1>2, SubsetInduction
<1>4. QED
  BY <1>3
=============================================================================
