--------------------------------- MODULE Sums ---------------------------------
(***************************************************************************)
(* Facts about sums of natural numbers over finite sets, as the models     *)
(* take them with SumFunction and SumFunctionOnSet: order, subsets, one    *)
(* element more, one value changed.  The induction is by a smallest        *)
(* counterexample: inclusion of finite sets is well founded.               *)
(***************************************************************************)
EXTENDS Integers, FiniteSets, Functions, FiniteSetTheorems, TLAPS

First(s) == CHOOSE y \in s : TRUE

\* g is the recursive function that the fold of f over S defines.
IsSum(g, f, S) ==
  g = [s \in SUBSET S |-> IF s = {} THEN 0
                          ELSE LET x == CHOOSE y \in s : TRUE IN f[x] + g[s \ {x}]]

-----------------------------------------------------------------------------
(* The recursion.                                                          *)

\* Among subsets of a finite set, some one has no smaller one beside it.
LEMMA SmallestSubset ==
  ASSUME NEW S, IsFiniteSet(S), NEW B \in SUBSET SUBSET S, B # {}
  PROVE  \E s \in B : IsFiniteSet(s) /\ \A t \in SUBSET s : t # s => t \notin B
<1>1. IsWellFoundedOn(StrictSubsetOrdering(S), SUBSET S)
  BY FS_StrictSubsetOrderingWellFounded, FS_FiniteSubsetsOfFinite
<1>2. PICK s \in B : \A t \in B : ~(<<t, s>> \in StrictSubsetOrdering(S))
  BY <1>1, WFMin
<1>3. s \in SUBSET S /\ IsFiniteSet(s)
  BY FS_Subset
<1>4. ASSUME NEW t \in SUBSET s, t # s, t \in B
      PROVE  FALSE
  <2>1. <<t, s>> \in StrictSubsetOrdering(S)
    BY <1>3, <1>4 DEF StrictSubsetOrdering
  <2> QED
    BY <1>2, <1>4, <2>1
<1> QED
  BY <1>3, <1>4

\* One step of the recursion.
LEMMA OneStep ==
  ASSUME NEW f, NEW S, NEW g, IsSum(g, f, S)
  PROVE  /\ g[{}] = 0
         /\ \A s \in SUBSET S : s # {} =>
              First(s) \in s /\ g[s] = f[First(s)] + g[s \ {First(s)}]
<1>1. \A s \in SUBSET S : g[s] = IF s = {} THEN 0 ELSE f[First(s)] + g[s \ {First(s)}]
  BY DEF IsSum, First
<1>2. \A s : s # {} => First(s) \in s
  BY DEF First
<1> QED
  BY <1>1, <1>2

\* The same, for one set.
LEMMA StepOf ==
  ASSUME NEW f, NEW S, NEW g, IsSum(g, f, S), NEW s \in SUBSET S, s # {}
  PROVE  g[s] = f[First(s)] + g[s \ {First(s)}]
BY OneStep

\* Two recursions agree where both are defined.
LEMMA RecursionsAgree ==
  ASSUME NEW f, NEW S, NEW R, IsFiniteSet(S), NEW g, NEW h, IsSum(g, f, S), IsSum(h, f, R),
         NEW s \in SUBSET (S \cap R)
  PROVE  g[s] = h[s]
<1> DEFINE B == {t \in SUBSET (S \cap R) : g[t] # h[t]}
<1>1. SUFFICES ASSUME B # {}
               PROVE  FALSE
  OBVIOUS
<1>2. PICK t \in B : \A u \in SUBSET t : u # t => u \notin B
  <2>1. IsFiniteSet(S \cap R) /\ B \in SUBSET SUBSET (S \cap R)
    BY FS_Intersection
  <2> HIDE DEF B
  <2> QED
    BY <1>1, <2>1, SmallestSubset
<1>3. t \in SUBSET S /\ t \in SUBSET R
  OBVIOUS
<1>4. t # {}
  BY OneStep
<1>5. g[t] = f[First(t)] + g[t \ {First(t)}] /\ h[t] = f[First(t)] + h[t \ {First(t)}]
      /\ First(t) \in t
  BY <1>3, <1>4, OneStep
<1>6. g[t \ {First(t)}] = h[t \ {First(t)}]
  BY <1>2, <1>5
<1> QED
  BY <1>5, <1>6

\* The recursion is defined for every finite set.
LEMMA RecursionExists ==
  ASSUME NEW f, NEW S, IsFiniteSet(S)
  PROVE  \E g : IsSum(g, f, S)
<1> DEFINE B == {s \in SUBSET S : ~\E g : IsSum(g, f, s)}
<1>1. SUFFICES ASSUME B # {}
               PROVE  FALSE
  OBVIOUS
<1>2. PICK s \in B : IsFiniteSet(s) /\ \A t \in SUBSET s : t # s => t \notin B
  <2>1. B \in SUBSET SUBSET S
    OBVIOUS
  <2> HIDE DEF B
  <2> QED
    BY <1>1, <2>1, SmallestSubset
<1> DEFINE G(x) == CHOOSE g : IsSum(g, f, s \ {x})
           h == [t \in SUBSET s |->
                   IF t = {} THEN 0 ELSE f[First(t)] + G(First(t))[t \ {First(t)}]]
<1>3. ASSUME NEW x \in s
      PROVE  IsSum(G(x), f, s \ {x})
  BY <1>2
<1>4. ASSUME NEW t \in SUBSET s, t # {}
      PROVE  h[t] = f[First(t)] + h[t \ {First(t)}]
  <2> DEFINE x == First(t)
             u == t \ {x}
  <2>1. x \in t /\ x \in s /\ u \in SUBSET (s \ {x})
    BY <1>4 DEF First
  <2>2. h[t] = f[x] + G(x)[u]
    BY <1>4
  <2>3. G(x)[u] = h[u]
    <3>1. CASE u = {}
      <4>1. IsSum(G(x), f, s \ {x}) /\ h[u] = 0
        BY <1>3, <2>1, <3>1
      <4>2. G(x)[{}] = 0
        <5> HIDE DEF G, x, h
        <5> QED
          BY <4>1, OneStep
      <4> QED
        BY <3>1, <4>1, <4>2
    <3>2. CASE u # {}
      <4> DEFINE y == First(u)
      <4>1. y \in u /\ y \in s /\ u \ {y} \in SUBSET (s \ {y})
        BY <2>1, <3>2 DEF First
      <4>2. G(x)[u] = f[y] + G(x)[u \ {y}]
        <5>1. IsSum(G(x), f, s \ {x}) /\ u \in SUBSET (s \ {x}) /\ u # {}
          BY <1>3, <2>1, <3>2
        <5> HIDE DEF B, G, x, u, h
        <5> QED
          BY <5>1, StepOf
      <4>3. h[u] = f[y] + G(y)[u \ {y}]
        BY <2>1, <3>2
      <4>4. G(x)[u \ {y}] = G(y)[u \ {y}]
        <5>1. IsSum(G(x), f, s \ {x}) /\ IsSum(G(y), f, s \ {y}) /\ IsFiniteSet(s \ {x})
          BY <1>2, <1>3, <2>1, <4>1, FS_RemoveElement
        <5>2. u \ {y} \in SUBSET ((s \ {x}) \cap (s \ {y}))
          BY <2>1, <4>1
        <5> HIDE DEF G, x, y, u
        <5> QED
          BY <5>1, <5>2, RecursionsAgree
      <4> QED
        BY <4>2, <4>3, <4>4
    <3> QED
      BY <3>1, <3>2
  <2> QED
    BY <2>2, <2>3
<1>5. IsSum(h, f, s)
  <2>1. h[{}] = 0 /\ h = [t \in SUBSET s |-> h[t]]
    OBVIOUS
  <2> HIDE DEF h
  <2>2. \A t \in SUBSET s :
          h[t] = IF t = {} THEN 0 ELSE LET x == CHOOSE y \in t : TRUE IN f[x] + h[t \ {x}]
    BY <1>4, <2>1 DEF First
  <2> QED
    BY <2>1, <2>2 DEF IsSum
<1> QED
  BY <1>2, <1>5

\* What a sum is: a recursion that gives the sum of every subset.
LEMMA SumIsRecursion ==
  ASSUME NEW f, NEW S, IsFiniteSet(S)
  PROVE  \E g : IsSum(g, f, S) /\ \A T \in SUBSET S : SumFunctionOnSet(f, T) = g[T]
<1>1. PICK g : IsSum(g, f, S)
  BY RecursionExists
<1>2. ASSUME NEW T \in SUBSET S
      PROVE  SumFunctionOnSet(f, T) = g[T]
  <2>1. IsFiniteSet(T) /\ \E h : IsSum(h, f, T)
    BY FS_Subset, RecursionExists
  <2>2. \E h : IsSum(h, f, T) /\ SumFunctionOnSet(f, T) = h[T]
    BY <2>1, Zenon DEF SumFunctionOnSet, FoldFunctionOnSet, MapThenFoldSet, IsSum
  <2> QED
    BY <1>1, <2>1, <2>2, RecursionsAgree
<1> QED
  BY <1>1, <1>2

-----------------------------------------------------------------------------
(* Sums.                                                                   *)

\* Nothing sums to zero.
LEMMA SumEmpty ==
  ASSUME NEW f
  PROVE  SumFunctionOnSet(f, {}) = 0
<1>1. PICK g : IsSum(g, f, {}) /\ SumFunctionOnSet(f, {}) = g[{}]
  BY FS_EmptySet, SumIsRecursion
<1> QED
  BY <1>1, OneStep

\* The sum with its first element set apart.
LEMMA SumFirst ==
  ASSUME NEW f, NEW S, IsFiniteSet(S), S # {}
  PROVE  First(S) \in S /\ SumFunctionOnSet(f, S) = f[First(S)] + SumFunctionOnSet(f, S \ {First(S)})
<1>1. PICK g : IsSum(g, f, S) /\ \A T \in SUBSET S : SumFunctionOnSet(f, T) = g[T]
  BY SumIsRecursion
<1>2. First(S) \in S /\ g[S] = f[First(S)] + g[S \ {First(S)}]
  BY <1>1, OneStep
<1> QED
  BY <1>1, <1>2

\* Sums of natural numbers are natural numbers.
LEMMA SumType ==
  ASSUME NEW f, NEW S, IsFiniteSet(S), \A x \in S : f[x] \in Nat
  PROVE  SumFunctionOnSet(f, S) \in Nat
<1> DEFINE B == {T \in SUBSET S : SumFunctionOnSet(f, T) \notin Nat}
<1>1. SUFFICES ASSUME B # {}
               PROVE  FALSE
  OBVIOUS
<1>2. PICK T \in B : IsFiniteSet(T) /\ \A U \in SUBSET T : U # T => U \notin B
  <2>1. B \in SUBSET SUBSET S
    OBVIOUS
  <2> HIDE DEF B
  <2> QED
    BY <1>1, <2>1, SmallestSubset
<1>3. T # {}
  BY SumEmpty
<1>4. First(T) \in T /\ SumFunctionOnSet(f, T) = f[First(T)] + SumFunctionOnSet(f, T \ {First(T)})
  BY <1>2, <1>3, SumFirst
<1>5. SumFunctionOnSet(f, T \ {First(T)}) \in Nat /\ f[First(T)] \in Nat
  BY <1>2, <1>4
<1> QED
  BY <1>4, <1>5

\* Any element may be set apart.
LEMMA SumRemove ==
  ASSUME NEW f, NEW S, IsFiniteSet(S), \A x \in S : f[x] \in Nat, NEW z \in S
  PROVE  SumFunctionOnSet(f, S) = f[z] + SumFunctionOnSet(f, S \ {z})
<1> DEFINE B == {T \in SUBSET S : \E x \in T : SumFunctionOnSet(f, T) # f[x] + SumFunctionOnSet(f, T \ {x})}
<1>1. SUFFICES ASSUME B # {}
               PROVE  FALSE
  OBVIOUS
<1>2. PICK T \in B : IsFiniteSet(T) /\ \A U \in SUBSET T : U # T => U \notin B
  <2>1. B \in SUBSET SUBSET S
    OBVIOUS
  <2> HIDE DEF B
  <2> QED
    BY <1>1, <2>1, SmallestSubset
<1>3. PICK x \in T : SumFunctionOnSet(f, T) # f[x] + SumFunctionOnSet(f, T \ {x})
  OBVIOUS
<1> DEFINE c == First(T)
           U == T \ {x, c}
<1>4. c \in T /\ SumFunctionOnSet(f, T) = f[c] + SumFunctionOnSet(f, T \ {c})
  BY <1>2, SumFirst
<1>5. x # c
  BY <1>3, <1>4
<1>6. SumFunctionOnSet(f, T \ {c}) = f[x] + SumFunctionOnSet(f, U) /\ SumFunctionOnSet(f, T \ {x}) = f[c] + SumFunctionOnSet(f, U)
  <2>1. (T \ {c}) \ {x} = U /\ (T \ {x}) \ {c} = U
    OBVIOUS
  <2>2. T \ {c} \notin B /\ T \ {x} \notin B
    BY <1>2, <1>4
  <2>3. x \in T \ {c} /\ c \in T \ {x} /\ T \ {c} \in SUBSET S /\ T \ {x} \in SUBSET S
    BY <1>4, <1>5
  <2> HIDE DEF c, U
  <2> QED
    BY <2>1, <2>2, <2>3
<1>7. SumFunctionOnSet(f, U) \in Nat /\ f[x] \in Nat /\ f[c] \in Nat
  <2>1. IsFiniteSet(U) /\ U \subseteq S
    BY <1>2, FS_Subset
  <2> HIDE DEF U
  <2> QED
    BY <1>4, <2>1, SumType
<1> HIDE DEF c, U, B
<1> QED
  BY <1>3, <1>4, <1>6, <1>7

\* Smaller values over fewer elements have a smaller sum.
LEMMA SumMonotone ==
  ASSUME NEW f, NEW g, NEW S, IsFiniteSet(S), NEW R \in SUBSET S,
         \A x \in S : f[x] \in Nat /\ g[x] \in Nat, \A x \in R : f[x] <= g[x]
  PROVE  SumFunctionOnSet(f, R) <= SumFunctionOnSet(g, S)
<1> DEFINE B == {T \in SUBSET S : ~(SumFunctionOnSet(f, T \cap R) <= SumFunctionOnSet(g, T))}
<1>1. SUFFICES ASSUME B # {}
               PROVE  FALSE
  BY DEF B
<1>2. PICK T \in B : IsFiniteSet(T) /\ \A U \in SUBSET T : U # T => U \notin B
  <2>1. B \in SUBSET SUBSET S
    OBVIOUS
  <2> HIDE DEF B
  <2> QED
    BY <1>1, <2>1, SmallestSubset
<1>3. T # {}
  BY SumEmpty
<1> DEFINE c == First(T)
           U == T \ {c}
<1>4. c \in T /\ SumFunctionOnSet(g, T) = g[c] + SumFunctionOnSet(g, U)
  BY <1>2, <1>3, SumFirst
<1>5. SumFunctionOnSet(f, U \cap R) <= SumFunctionOnSet(g, U)
  <2>1. U \in SUBSET T /\ U # T
    BY <1>4
  <2> QED
    BY <1>2, <2>1
<1>6. /\ SumFunctionOnSet(f, U \cap R) \in Nat /\ SumFunctionOnSet(g, U) \in Nat
      /\ f[c] \in Nat /\ g[c] \in Nat
  <2>1. IsFiniteSet(U) /\ IsFiniteSet(U \cap R) /\ U \subseteq S
    BY <1>2, FS_Subset
  <2> HIDE DEF U
  <2> QED
    BY <1>4, <2>1, SumType
<1>7. CASE c \in R
  <2>1. c \in T \cap R /\ (T \cap R) \ {c} = U \cap R /\ IsFiniteSet(T \cap R)
    BY <1>2, <1>4, <1>7, FS_Subset
  <2>2. SumFunctionOnSet(f, T \cap R) = f[c] + SumFunctionOnSet(f, U \cap R) /\ f[c] <= g[c]
    <3> HIDE DEF c, U, B
    <3> QED
      BY <1>7, <2>1, SumRemove
  <2> HIDE DEF c, U
  <2> QED
    BY <1>4, <1>5, <1>6, <2>2
<1>8. CASE c \notin R
  <2>1. T \cap R = U \cap R
    BY <1>8
  <2>2. SumFunctionOnSet(f, T \cap R) = SumFunctionOnSet(f, U \cap R)
    BY <2>1
  <2> HIDE DEF c, U
  <2>3. SumFunctionOnSet(g, U) <= SumFunctionOnSet(g, T)
    BY <1>4, <1>6
  <2>4. SumFunctionOnSet(g, T) \in Nat
    BY <1>4, <1>6
  <2> QED
    BY <1>5, <1>6, <2>2, <2>3, <2>4
<1> QED
  BY <1>7, <1>8

\* Equal values have equal sums.
LEMMA SumSame ==
  ASSUME NEW f, NEW g, NEW S, IsFiniteSet(S), \A x \in S : f[x] \in Nat /\ g[x] = f[x]
  PROVE  SumFunctionOnSet(f, S) = SumFunctionOnSet(g, S)
<1>1. S \in SUBSET S
  OBVIOUS
<1>2. SumFunctionOnSet(f, S) \in Nat /\ SumFunctionOnSet(g, S) \in Nat
  BY SumType
<1>3. SumFunctionOnSet(f, S) <= SumFunctionOnSet(g, S) /\ SumFunctionOnSet(g, S) <= SumFunctionOnSet(f, S)
  BY <1>1, SumMonotone
<1> QED
  BY <1>2, <1>3

\* One value more.
LEMMA SumAdd ==
  ASSUME NEW f, NEW S, NEW z, IsFiniteSet(S), z \notin S, \A x \in S \cup {z} : f[x] \in Nat
  PROVE  SumFunctionOnSet(f, S \cup {z}) = f[z] + SumFunctionOnSet(f, S)
<1>1. IsFiniteSet(S \cup {z}) /\ (S \cup {z}) \ {z} = S /\ z \in S \cup {z}
  BY FS_AddElement
<1> QED
  BY <1>1, SumRemove

\* One value changed.
LEMMA SumChange ==
  ASSUME NEW f, NEW g, NEW S, NEW z \in S, IsFiniteSet(S),
         \A x \in S : f[x] \in Nat /\ g[x] \in Nat, \A x \in S \ {z} : g[x] = f[x]
  PROVE  SumFunctionOnSet(g, S) + f[z] = SumFunctionOnSet(f, S) + g[z]
<1>1. SumFunctionOnSet(f, S) = f[z] + SumFunctionOnSet(f, S \ {z}) /\ SumFunctionOnSet(g, S) = g[z] + SumFunctionOnSet(g, S \ {z})
  BY SumRemove
<1>2. IsFiniteSet(S \ {z})
  BY FS_RemoveElement
<1>3. SumFunctionOnSet(f, S \ {z}) = SumFunctionOnSet(g, S \ {z}) /\ SumFunctionOnSet(f, S \ {z}) \in Nat
  BY <1>2, SumSame, SumType
<1> QED
  BY <1>1, <1>3

\* A sum over two sets without a common element.
LEMMA SumUnion ==
  ASSUME NEW f, NEW S, NEW R, IsFiniteSet(S), IsFiniteSet(R), S \cap R = {},
         \A x \in S \cup R : f[x] \in Nat
  PROVE  SumFunctionOnSet(f, S \cup R) = SumFunctionOnSet(f, S) + SumFunctionOnSet(f, R)
<1> DEFINE B == {T \in SUBSET S : SumFunctionOnSet(f, T \cup R) # SumFunctionOnSet(f, T) + SumFunctionOnSet(f, R)}
<1>1. SUFFICES ASSUME B # {}
               PROVE  FALSE
  BY DEF B
<1>2. PICK T \in B : IsFiniteSet(T) /\ \A U \in SUBSET T : U # T => U \notin B
  <2>1. B \in SUBSET SUBSET S
    OBVIOUS
  <2> HIDE DEF B
  <2> QED
    BY <1>1, <2>1, SmallestSubset
<1>3. SumFunctionOnSet(f, R) \in Nat
  BY SumType
<1>4. T # {}
  <2>1. {} \cup R = R
    OBVIOUS
  <2>2. SumFunctionOnSet(f, {}) = 0
    BY SumEmpty
  <2>3. SumFunctionOnSet(f, {} \cup R) = SumFunctionOnSet(f, {}) + SumFunctionOnSet(f, R)
    <3> HIDE DEF B
    <3> QED
      BY <1>3, <2>1, <2>2
  <2> QED
    BY <2>3
<1> DEFINE c == First(T)
           U == T \ {c}
<1>5. c \in T /\ SumFunctionOnSet(f, T) = f[c] + SumFunctionOnSet(f, U)
  BY <1>2, <1>4, SumFirst
<1>6. SumFunctionOnSet(f, U \cup R) = SumFunctionOnSet(f, U) + SumFunctionOnSet(f, R)
  <2>1. U \in SUBSET T /\ U # T /\ U \in SUBSET S
    BY <1>5
  <2> HIDE DEF U
  <2> QED
    BY <1>2, <2>1
<1>7. IsFiniteSet(U) /\ IsFiniteSet(U \cup R) /\ c \notin U \cup R /\ T \cup R = (U \cup R) \cup {c}
  <2>1. IsFiniteSet(U)
    BY <1>2, FS_RemoveElement
  <2>2. c \notin R /\ T \cup R = (U \cup R) \cup {c}
    BY <1>5
  <2> QED
    BY <2>1, <2>2, FS_Union
<1>8. SumFunctionOnSet(f, U) \in Nat /\ f[c] \in Nat /\ \A x \in (U \cup R) \cup {c} : f[x] \in Nat
  <2>1. \A x \in (U \cup R) \cup {c} : f[x] \in Nat
    BY <1>5
  <2> HIDE DEF U, c
  <2> QED
    BY <1>7, <2>1, SumType
<1>9. SumFunctionOnSet(f, T \cup R) = f[c] + SumFunctionOnSet(f, U \cup R)
  <2> HIDE DEF U, c, B
  <2> QED
    BY <1>7, <1>8, SumAdd
<1> HIDE DEF U, c
<1> QED
  BY <1>3, <1>5, <1>6, <1>8, <1>9


\* Every value multiplied.
LEMMA SumScale ==
  ASSUME NEW f, NEW g, NEW S, IsFiniteSet(S), NEW k \in Nat,
         \A x \in S : f[x] \in Nat /\ g[x] = k * f[x]
  PROVE  SumFunctionOnSet(g, S) = k * SumFunctionOnSet(f, S)
<1> DEFINE B == {T \in SUBSET S : SumFunctionOnSet(g, T) # k * SumFunctionOnSet(f, T)}
<1>1. SUFFICES ASSUME B # {}
               PROVE  FALSE
  BY DEF B
<1>2. PICK T \in B : IsFiniteSet(T) /\ \A U \in SUBSET T : U # T => U \notin B
  <2>1. B \in SUBSET SUBSET S
    OBVIOUS
  <2> HIDE DEF B
  <2> QED
    BY <1>1, <2>1, SmallestSubset
<1>3. T # {}
  <2>1. SumFunctionOnSet(f, {}) = 0 /\ SumFunctionOnSet(g, {}) = 0 /\ k * 0 = 0
    BY SumEmpty
  <2> QED
    BY <2>1
<1> DEFINE c == First(T)
           U == T \ {c}
<1>4. /\ c \in T /\ SumFunctionOnSet(f, T) = f[c] + SumFunctionOnSet(f, U)
      /\ SumFunctionOnSet(g, T) = g[c] + SumFunctionOnSet(g, U)
  BY <1>2, <1>3, SumFirst
<1>5. SumFunctionOnSet(g, U) = k * SumFunctionOnSet(f, U)
  <2>1. U \in SUBSET T /\ U # T /\ U \in SUBSET S
    BY <1>4
  <2> HIDE DEF U
  <2> QED
    BY <1>2, <2>1
<1>6. SumFunctionOnSet(f, U) \in Nat /\ f[c] \in Nat /\ g[c] = k * f[c]
  <2>1. IsFiniteSet(U) /\ U \subseteq S
    BY <1>2, FS_Subset
  <2> HIDE DEF U
  <2> QED
    BY <1>4, <2>1, SumType
<1>7. SumFunctionOnSet(g, T) # k * SumFunctionOnSet(f, T)
  OBVIOUS
<1> HIDE DEF c, U, B
<1>8. \A a, b \in Nat : k * (a + b) = k * a + k * b
  OBVIOUS
<1> QED
  BY <1>4, <1>5, <1>6, <1>7, <1>8
===============================================================================
