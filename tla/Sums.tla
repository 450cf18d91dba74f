--------------------------------- MODULE Sums ---------------------------------
(***************************************************************************)
(* Sums over finite sets (SumFunction and SumFunctionOnSet of Functions),  *)
(* which the services' totals are stated with.  The library defines a sum  *)
(* by a fold, a function over all subsets of the summands, and has no      *)
(* theorems about it.  Here are the laws of sums the services' proofs use. *)
(*                                                                         *)
(* The induction behind them is stated for sets (of numbers, or of finite  *)
(* sets) and not for predicates: a set of counterexamples, if it is not    *)
(* empty, has a least member, and that is then shown not to be one.        *)
(***************************************************************************)
EXTENDS Functions, FiniteSetTheorems, TLAPS

\* The least-number principle, for sets in place of predicates.
LEMMA LeastNat ==
  ASSUME NEW T, T \subseteq Nat, T # {}
  PROVE  \E m \in T : \A n \in T : m <= n
  <1> DEFINE R == {x \in Nat \X Nat : x[1] < x[2]}
  <1>1. IsWellFoundedOn(R, Nat)
    BY NatLessThanWellFounded DEF OpToRel
  <1>2. \A m, n \in Nat : <<n, m>> \in R <=> n < m
    OBVIOUS
  <1> HIDE DEF R
  <1>3. PICK m \in T : \A n \in T : ~(<<n, m>> \in R)
    BY <1>1, WFMin
  <1>4. ASSUME NEW n \in T PROVE m <= n
    <2>1. ~(n < m) /\ n \in Nat /\ m \in Nat
      BY <1>2, <1>3
    <2>2. QED
      BY <2>1
  <1>5. QED
    BY <1>4

\* A set of finite sets that is not empty has a member all of whose proper subsets are
\* outside it: induction over finite sets, with a set in place of a predicate.
LEMMA LeastSet ==
  ASSUME NEW C, C # {}, \A s \in C : IsFiniteSet(s)
  PROVE  \E s \in C : \A t \in C : t \subseteq s => t = s
  <1> DEFINE T == {Cardinality(s) : s \in C}
  <1>1. T \subseteq Nat /\ T # {}
    BY FS_CardinalityType
  <1>2. PICK m \in T : \A n \in T : m <= n
    BY <1>1, LeastNat
  <1>3. PICK s \in C : m = Cardinality(s)
    OBVIOUS
  <1>4. ASSUME NEW t \in C, t \subseteq s PROVE t = s
    <2>1. Cardinality(t) <= Cardinality(s) /\ (Cardinality(t) = Cardinality(s) => t = s)
      BY <1>4, FS_Subset
    <2>2. Cardinality(s) <= Cardinality(t)
      BY <1>2, <1>3
    <2>3. Cardinality(s) \in Nat /\ Cardinality(t) \in Nat
      BY FS_CardinalityType
    <2>4. QED
      BY <2>1, <2>2, <2>3
  <1>5. QED
    BY <1>4

-----------------------------------------------------------------------------
(* What the library's sum computes: it takes the summands one by one.       *)

\* The summand taken first, and g as the sums of f over all subsets of U.
Pick(s) == CHOOSE x \in s : TRUE
Adds(f, g, U) == g = [s \in SUBSET U |-> IF s = {} THEN 0 ELSE f[Pick(s)] + g[s \ {Pick(s)}]]

\* The summand taken first is one of them.
LEMMA PickIn == \A s : s # {} => Pick(s) \in s
  BY DEF Pick

\* The sum over one of the subsets.
LEMMA AddsAt ==
  ASSUME NEW f, NEW g, NEW U, Adds(f, g, U), NEW s, s \subseteq U
  PROVE  g[s] = IF s = {} THEN 0 ELSE f[Pick(s)] + g[s \ {Pick(s)}]
  BY DEF Adds

\* Sums over the same set of values that are the same, taken within any two sets.
LEMMA AddsAgree ==
  ASSUME NEW f, NEW e, NEW g, NEW h, NEW U, NEW V, Adds(f, g, U), Adds(e, h, V),
         NEW s, IsFiniteSet(s), s \subseteq U, s \subseteq V, \A x \in s : f[x] = e[x]
  PROVE  g[s] = h[s]
  <1> DEFINE C == {t \in SUBSET s : g[t] # h[t]}
  <1> SUFFICES ASSUME C # {} PROVE FALSE
    OBVIOUS
  <1>1. \A t \in C : IsFiniteSet(t)
    BY FS_Subset
  <1>2. PICK t \in C : \A u \in C : u \subseteq t => u = t
    <2> HIDE DEF C
    <2>1. QED
      BY <1>1, LeastSet
  <1>3. t \subseteq s /\ t \subseteq U /\ t \subseteq V /\ g[t] # h[t]
    OBVIOUS
  <1>4. g[t] = (IF t = {} THEN 0 ELSE f[Pick(t)] + g[t \ {Pick(t)}])
    BY <1>3 DEF Adds
  <1>5. h[t] = (IF t = {} THEN 0 ELSE e[Pick(t)] + h[t \ {Pick(t)}])
    BY <1>3 DEF Adds
  <1>6. t # {} /\ Pick(t) \in t
    BY <1>3, <1>4, <1>5, PickIn
  <1>7. g[t \ {Pick(t)}] = h[t \ {Pick(t)}]
    <2>1. t \ {Pick(t)} \notin C
      BY <1>2, <1>6
    <2>2. QED
      BY <2>1, <1>3
  <1>8. f[Pick(t)] = e[Pick(t)]
    BY <1>3, <1>6
  <1>9. QED
    BY <1>3, <1>4, <1>5, <1>6, <1>7, <1>8

\* Over a finite set there are such sums: the recursion of the library is well-founded.
LEMMA AddsExists ==
  ASSUME NEW f, NEW U, IsFiniteSet(U)
  PROVE  \E g : Adds(f, g, U)
  <1> DEFINE C == {t \in SUBSET U : ~ \E g : Adds(f, g, t)}
  <1> SUFFICES ASSUME C # {} PROVE FALSE
    OBVIOUS
  <1>1. \A t \in C : IsFiniteSet(t)
    BY FS_Subset
  <1>2. PICK s \in C : \A u \in C : u \subseteq s => u = s
    <2> HIDE DEF C
    <2>1. QED
      BY <1>1, LeastSet
  <1> DEFINE Val(t) == (CHOOSE g : Adds(f, g, t))[t]
             Solves(t) == Adds(f, CHOOSE g : Adds(f, g, t), t)
  <1>3. ASSUME NEW t, t \subseteq s, t # s PROVE Solves(t)
    <2>1. t \notin C /\ t \in SUBSET U
      BY <1>2, <1>3
    <2>2. \E g : Adds(f, g, t)
      BY <2>1
    <2>3. QED
      BY <2>2
  <1> DEFINE h == [t \in SUBSET s |-> IF t = {} THEN 0 ELSE f[Pick(t)] + Val(t \ {Pick(t)})]
  <1>4. ASSUME NEW u, u \subseteq s, u # s PROVE h[u] = Val(u)
    <2> DEFINE k == CHOOSE g : Adds(f, g, u)
    <2>1. Adds(f, k, u)
      BY <1>3, <1>4
    <2>2. Val(u) = IF u = {} THEN 0 ELSE f[Pick(u)] + k[u \ {Pick(u)}]
      <3> HIDE DEF k
      <3>1. k[u] = IF u = {} THEN 0 ELSE f[Pick(u)] + k[u \ {Pick(u)}]
        BY <2>1, AddsAt
      <3>2. QED
        BY <3>1 DEF k
    <2>3. CASE u = {}
      BY <2>2, <2>3
    <2>4. CASE u # {}
      <3> DEFINE v == u \ {Pick(u)}
                 l == CHOOSE g : Adds(f, g, v)
      <3>1. v \subseteq u /\ v # u
        BY <2>4, PickIn
      <3>2. Adds(f, l, v)
        BY <1>3, <1>4, <3>1
      <3>3. IsFiniteSet(v)
        BY <1>4, <3>1, FS_Subset
      <3>4. k[v] = l[v]
        <4> HIDE DEF k, l, v
        <4>1. QED
          BY <2>1, <3>1, <3>2, <3>3, AddsAgree
      <3>5. h[u] = f[Pick(u)] + l[v]
        BY <1>4, <2>4
      <3>6. QED
        BY <2>2, <2>4, <3>4, <3>5
    <2>5. QED
      BY <2>3, <2>4
  <1>5. \A t \in SUBSET s : t # {} => h[t \ {Pick(t)}] = Val(t \ {Pick(t)})
    <2> SUFFICES ASSUME NEW t \in SUBSET s, t # {} PROVE h[t \ {Pick(t)}] = Val(t \ {Pick(t)})
      OBVIOUS
    <2>1. t \ {Pick(t)} \subseteq s /\ t \ {Pick(t)} # s
      BY PickIn
    <2> HIDE DEF h, Val
    <2>2. QED
      BY <1>4, <2>1
  <1>6. Adds(f, h, s)
    <2>0. h = [t \in SUBSET s |-> IF t = {} THEN 0 ELSE f[Pick(t)] + Val(t \ {Pick(t)})]
      OBVIOUS
    <2> HIDE DEF h, Val
    <2>1. \A t \in SUBSET s : (IF t = {} THEN 0 ELSE f[Pick(t)] + Val(t \ {Pick(t)}))
                              = (IF t = {} THEN 0 ELSE f[Pick(t)] + h[t \ {Pick(t)}])
      BY <1>5
    <2>2. h = [t \in SUBSET s |-> IF t = {} THEN 0 ELSE f[Pick(t)] + h[t \ {Pick(t)}]]
      BY <2>0, <2>1
    <2>3. QED
      BY <2>2 DEF Adds
  <1>7. QED
    BY <1>2, <1>6

-----------------------------------------------------------------------------
(* The library's sum and its laws.                                          *)

\* The library's sum is one of them.
LEMMA SumIs ==
  ASSUME NEW f, NEW U
  PROVE  SumFunctionOnSet(f, U) = (CHOOSE g : Adds(f, g, U))[U]
  BY DEF SumFunctionOnSet, FoldFunctionOnSet, MapThenFoldSet, Adds, Pick

\* The empty sum.
LEMMA SumEmpty == \A f : SumFunctionOnSet(f, {}) = 0
  <1> SUFFICES ASSUME NEW f PROVE SumFunctionOnSet(f, {}) = 0
    OBVIOUS
  <1> DEFINE g == CHOOSE g : Adds(f, g, {})
  <1>1. Adds(f, g, {})
    BY AddsExists, FS_EmptySet
  <1> HIDE DEF g
  <1>2. g[{}] = 0
    BY <1>1, AddsAt
  <1>3. QED
    BY <1>2, SumIs DEF g

\* The first summand and the others.
LEMMA SumPick ==
  ASSUME NEW f, NEW U, IsFiniteSet(U), U # {}
  PROVE  SumFunctionOnSet(f, U) = f[Pick(U)] + SumFunctionOnSet(f, U \ {Pick(U)})
  <1> DEFINE V == U \ {Pick(U)}
             g == CHOOSE g : Adds(f, g, U)
             h == CHOOSE h : Adds(f, h, V)
  <1>0. V \subseteq U /\ IsFiniteSet(V)
    BY FS_Subset
  <1>1. Adds(f, g, U) /\ Adds(f, h, V)
    <2> HIDE DEF V
    <2>1. (\E k : Adds(f, k, U)) /\ (\E k : Adds(f, k, V))
      BY <1>0, AddsExists
    <2>2. QED
      BY <2>1
  <1>4. SumFunctionOnSet(f, U) = g[U] /\ SumFunctionOnSet(f, V) = h[V]
    BY SumIs
  <1> HIDE DEF g, h
  <1>2. g[U] = f[Pick(U)] + g[V]
    BY <1>1, AddsAt
  <1>3. g[V] = h[V]
    <2> HIDE DEF V
    <2>1. QED
      BY <1>0, <1>1, AddsAgree
  <1>5. QED
    BY <1>2, <1>3, <1>4

\* Only the values at the summands count.
LEMMA SumSame ==
  ASSUME NEW f, NEW e, NEW U, IsFiniteSet(U), \A x \in U : f[x] = e[x]
  PROVE  SumFunctionOnSet(f, U) = SumFunctionOnSet(e, U)
  <1> DEFINE g == CHOOSE g : Adds(f, g, U)
             h == CHOOSE h : Adds(e, h, U)
  <1>1. Adds(f, g, U) /\ Adds(e, h, U)
    BY AddsExists
  <1>2. SumFunctionOnSet(f, U) = g[U] /\ SumFunctionOnSet(e, U) = h[U]
    BY SumIs
  <1> HIDE DEF g, h
  <1>3. g[U] = h[U]
    BY <1>1, AddsAgree
  <1>4. QED
    BY <1>2, <1>3

\* A sum of integers is an integer.
LEMMA SumInt ==
  ASSUME NEW f, NEW U, IsFiniteSet(U), \A x \in U : f[x] \in Int
  PROVE  SumFunctionOnSet(f, U) \in Int
  <1> DEFINE C == {t \in SUBSET U : SumFunctionOnSet(f, t) \notin Int}
  <1> SUFFICES ASSUME C # {} PROVE FALSE
    OBVIOUS
  <1>1. \A t \in C : IsFiniteSet(t)
    BY FS_Subset
  <1>2. PICK s \in C : \A u \in C : u \subseteq s => u = s
    <2> HIDE DEF C
    <2>1. QED
      BY <1>1, LeastSet
  <1>3. s # {}
    BY SumEmpty
  <1>4. Pick(s) \in s /\ f[Pick(s)] \in Int
    BY <1>3, PickIn
  <1>5. SumFunctionOnSet(f, s \ {Pick(s)}) \in Int
    BY <1>2, <1>4
  <1>6. SumFunctionOnSet(f, s) = f[Pick(s)] + SumFunctionOnSet(f, s \ {Pick(s)})
    BY <1>1, <1>3, SumPick
  <1>7. QED
    BY <1>4, <1>5, <1>6

\* Any summand can be taken out first.
LEMMA SumTakeOut ==
  ASSUME NEW f, NEW U, IsFiniteSet(U), \A x \in U : f[x] \in Int, NEW y \in U
  PROVE  SumFunctionOnSet(f, U) = f[y] + SumFunctionOnSet(f, U \ {y})
  <1> DEFINE Out(s, z) == SumFunctionOnSet(f, s) = f[z] + SumFunctionOnSet(f, s \ {z})
             C == {s \in SUBSET U : \E z \in s : ~Out(s, z)}
  <1> SUFFICES ASSUME C # {} PROVE FALSE
    OBVIOUS
  <1>1. \A t \in C : IsFiniteSet(t)
    BY FS_Subset
  <1>2. PICK s \in C : \A u \in C : u \subseteq s => u = s
    <2> HIDE DEF C
    <2>1. QED
      BY <1>1, LeastSet
  <1>3. PICK z \in s : ~Out(s, z)
    OBVIOUS
  <1>4. IsFiniteSet(s) /\ s \subseteq U /\ s # {}
    BY <1>1
  <1> DEFINE p == Pick(s)
  <1>5. p \in s /\ Out(s, p)
    BY <1>4, SumPick, PickIn
  <1>6. p # z
    BY <1>3, <1>5
  <1> HIDE DEF p
  <1>7. Out(s \ {p}, z) /\ Out(s \ {z}, p)
    <2>1. s \ {p} \in SUBSET U /\ s \ {p} # s /\ s \ {p} \notin C
      BY <1>2, <1>4, <1>5
    <2>2. s \ {z} \in SUBSET U /\ s \ {z} # s /\ s \ {z} \notin C
      BY <1>2, <1>4
    <2> HIDE DEF Out
    <2>3. QED
      BY <2>1, <2>2, <1>5, <1>6
  <1>8. (s \ {p}) \ {z} = (s \ {z}) \ {p}
    OBVIOUS
  <1>9. /\ f[p] \in Int /\ f[z] \in Int /\ SumFunctionOnSet(f, (s \ {p}) \ {z}) \in Int
    <2>1. IsFiniteSet((s \ {p}) \ {z}) /\ \A x \in (s \ {p}) \ {z} : f[x] \in Int
      BY <1>4, FS_Subset
    <2>2. QED
      BY <2>1, <1>4, <1>5, SumInt
  <1>10. QED
    BY <1>3, <1>5, <1>7, <1>8, <1>9

-----------------------------------------------------------------------------
(* More laws, and the inductions they and others are proved by.              *)

\* Descent: no set of bad subsets of a finite set in which each has a smaller one.
LEMMA FiniteDescent ==
  ASSUME NEW U, IsFiniteSet(U), NEW C, C \subseteq SUBSET U, {} \notin C,
         \A s \in C : \E x \in s : s \ {x} \in C
  PROVE  C = {}
  <1> SUFFICES ASSUME C # {} PROVE FALSE
    OBVIOUS
  <1>1. \A s \in C : IsFiniteSet(s)
    BY FS_Subset
  <1>2. PICK s \in C : \A t \in C : t \subseteq s => t = s
    BY <1>1, LeastSet
  <1>3. PICK x \in s : s \ {x} \in C
    OBVIOUS
  <1>4. QED
    BY <1>2, <1>3

\* A summand more.
LEMMA SumAdded ==
  ASSUME NEW f, NEW g, NEW U, NEW V, NEW y, IsFiniteSet(U),
         \A x \in U : f[x] \in Int, \A x \in U : g[x] = f[x],
         V = U \cup {y}, y \notin U, g[y] \in Int
  PROVE  SumFunctionOnSet(g, V) = SumFunctionOnSet(f, U) + g[y]
  <1>1. IsFiniteSet(V) /\ y \in V /\ V \ {y} = U /\ \A x \in V : g[x] \in Int
    BY FS_AddElement
  <1>2. SumFunctionOnSet(g, V) = g[y] + SumFunctionOnSet(g, U)
    BY ONLY <1>1, SumTakeOut
  <1>3. SumFunctionOnSet(g, U) = SumFunctionOnSet(f, U) /\ SumFunctionOnSet(f, U) \in Int
    BY SumSame, SumInt
  <1>4. QED
    BY <1>2, <1>3

\* Of two functions, the sum of the sums is the sum of their values added.
LEMMA SumPlus ==
  ASSUME NEW f, NEW g, NEW h, NEW U, IsFiniteSet(U),
         \A x \in U : f[x] \in Int /\ g[x] \in Int /\ h[x] = f[x] + g[x]
  PROVE  SumFunctionOnSet(h, U) = SumFunctionOnSet(f, U) + SumFunctionOnSet(g, U)
  <1> DEFINE P(s) == SumFunctionOnSet(h, s) = SumFunctionOnSet(f, s) + SumFunctionOnSet(g, s)
             C == {s \in SUBSET U : ~P(s)}
  <1>1. P({})
    BY SumEmpty
  <1>2. ASSUME NEW s \in C
        PROVE  \E x \in s : s \ {x} \in C
    <2>1. s # {}
      BY <1>1
    <2>2. PICK x \in s : TRUE
      BY <2>1
    <2> DEFINE t == s \ {x}
    <2>3. IsFiniteSet(s) /\ IsFiniteSet(t) /\ x \in U /\ s \subseteq U
      BY FS_Subset
    <2>4. /\ SumFunctionOnSet(f, s) = f[x] + SumFunctionOnSet(f, t)
          /\ SumFunctionOnSet(g, s) = g[x] + SumFunctionOnSet(g, t)
          /\ SumFunctionOnSet(h, s) = h[x] + SumFunctionOnSet(h, t)
      <3>1. /\ \A z \in s : f[z] \in Int
            /\ \A z \in s : g[z] \in Int
            /\ \A z \in s : h[z] \in Int
        BY <2>3
      <3>2. QED
        BY <2>3, <3>1, SumTakeOut
    <2>5. SumFunctionOnSet(f, t) \in Int /\ SumFunctionOnSet(g, t) \in Int
      <3>1. (\A z \in t : f[z] \in Int) /\ (\A z \in t : g[z] \in Int)
        BY <2>3
      <3> HIDE DEF t
      <3>2. QED
        BY <2>3, <3>1, SumInt
    <2>6. ~P(t)
      <3>1. ~P(s)
        OBVIOUS
      <3>2. h[x] = f[x] + g[x] /\ f[x] \in Int /\ g[x] \in Int
        BY <2>3
      <3> HIDE DEF t
      <3>3. QED
        BY <2>4, <2>5, <3>1, <3>2
    <2>7. QED
      BY <2>3, <2>6
  <1>3. {} \notin C /\ C \subseteq SUBSET U
    BY <1>1
  <1>4. C = {}
    <2> HIDE DEF C
    <2>1. QED
      BY <1>2, <1>3, FiniteDescent
  <1>5. QED
    BY <1>4

\* Summands that are 0 can be left out.
LEMMA SumWhere ==
  ASSUME NEW f, NEW U, IsFiniteSet(U), NEW V, V \subseteq U,
         \A x \in U : f[x] \in Int, \A x \in U \ V : f[x] = 0
  PROVE  SumFunctionOnSet(f, U) = SumFunctionOnSet(f, V)
  <1> DEFINE P(s) == SumFunctionOnSet(f, V \cup s) = SumFunctionOnSet(f, V)
             C == {s \in SUBSET (U \ V) : ~P(s)}
  <1>1. IsFiniteSet(U \ V)
    BY FS_Subset
  <1>2. P({})
    <2>1. V \cup {} = V
      OBVIOUS
    <2>2. QED
      BY <2>1
  <1>3. ASSUME NEW s \in C
        PROVE  \E x \in s : s \ {x} \in C
    <2>1. s # {}
      BY <1>2
    <2>2. PICK x \in s : TRUE
      BY <2>1
    <2> DEFINE t == s \ {x}
               W == V \cup s
    <2>3. IsFiniteSet(W) /\ x \in W /\ W \ {x} = V \cup t /\ f[x] = 0 /\ W \subseteq U
          /\ (V \cup t) \subseteq U /\ IsFiniteSet(V \cup t)
      BY FS_Subset
    <2>4. SumFunctionOnSet(f, W) = f[x] + SumFunctionOnSet(f, V \cup t)
      <3> HIDE DEF W, t
      <3>1. \A z \in W : f[z] \in Int
        BY <2>3
      <3>2. QED
        BY <2>3, <3>1, SumTakeOut
    <2>5. SumFunctionOnSet(f, V \cup t) \in Int
      <3> DEFINE Y == V \cup t
      <3>1. IsFiniteSet(Y) /\ \A z \in Y : f[z] \in Int
        BY <2>3
      <3> HIDE DEF Y
      <3>2. SumFunctionOnSet(f, Y) \in Int
        BY <3>1, SumInt
      <3>3. QED
        BY <3>2 DEF Y
    <2>6. ~P(t)
      BY <2>3, <2>4, <2>5
    <2>7. QED
      BY <2>6
  <1>4. {} \notin C /\ C \subseteq SUBSET (U \ V)
    BY <1>2
  <1>5. C = {}
    <2> HIDE DEF C
    <2>1. QED
      BY <1>1, <1>3, <1>4, FiniteDescent
  <1>6. P(U \ V) /\ V \cup (U \ V) = U
    BY <1>5
  <1>7. QED
    BY <1>6

\* One summand changes.
LEMMA SumChanged ==
  ASSUME NEW f, NEW g, NEW U, IsFiniteSet(U), NEW y \in U,
         \A x \in U : f[x] \in Int /\ g[x] \in Int,
         \A x \in U : x # y => g[x] = f[x]
  PROVE  SumFunctionOnSet(g, U) = SumFunctionOnSet(f, U) - f[y] + g[y]
  <1> DEFINE V == U \ {y}
  <1>1. IsFiniteSet(V)
    BY FS_Difference
  <1>2. SumFunctionOnSet(f, U) = f[y] + SumFunctionOnSet(f, V)
    BY SumTakeOut
  <1>3. SumFunctionOnSet(g, U) = g[y] + SumFunctionOnSet(g, V)
    BY SumTakeOut
  <1>4. SumFunctionOnSet(g, V) = SumFunctionOnSet(f, V)
    BY <1>1, SumSame
  <1>5. SumFunctionOnSet(f, V) \in Int
    BY <1>1, SumInt
  <1>6. f[y] \in Int /\ g[y] \in Int
    OBVIOUS
  <1> HIDE DEF V
  <1>7. QED
    BY <1>2, <1>3, <1>4, <1>5, <1>6

\* A sum of nothing but 0 is 0.
LEMMA SumZero ==
  ASSUME NEW f, NEW U, IsFiniteSet(U), \A x \in U : f[x] = 0
  PROVE  SumFunctionOnSet(f, U) = 0
  <1>1. SumFunctionOnSet(f, U) = SumFunctionOnSet(f, {})
    BY SumWhere
  <1>2. QED
    BY <1>1, SumEmpty

\* Over one more position of a sequence.
LEMMA SumNext ==
  ASSUME NEW f, NEW g, NEW n \in Nat, \A i \in 1..n : f[i] \in Int /\ g[i] = f[i],
         g[n + 1] \in Int
  PROVE  SumFunctionOnSet(g, 1..(n + 1)) = SumFunctionOnSet(f, 1..n) + g[n + 1]
  <1>1. PICK U, V, y : U = 1..n /\ V = 1..(n + 1) /\ y = n + 1
    OBVIOUS
  <1>2. IsFiniteSet(U)
    BY <1>1, FS_Interval
  <1>3. (\A x \in U : f[x] \in Int) /\ (\A x \in U : g[x] = f[x])
    BY <1>1
  <1>4. V = U \cup {y} /\ y \notin U
    BY <1>1
  <1>5. g[y] \in Int
    BY <1>1
  <1>6. SumFunctionOnSet(g, V) = SumFunctionOnSet(f, U) + g[y]
    BY ONLY <1>2, <1>3, <1>4, <1>5, SumAdded
  <1>7. QED
    BY <1>1, <1>6

\* Induction on the natural numbers, with a set of numbers in place of a predicate.
LEMMA NatDescent ==
  ASSUME NEW C, C \subseteq Nat, 0 \notin C, \A n \in Nat : n + 1 \in C => n \in C
  PROVE  C = {}
  <1> SUFFICES ASSUME C # {} PROVE FALSE
    OBVIOUS
  <1>1. PICK m \in C : \A n \in C : m <= n
    BY LeastNat
  <1>2. m \in Nat /\ m # 0
    OBVIOUS
  <1>3. m - 1 \in Nat /\ (m - 1) + 1 = m
    BY <1>2
  <1>4. m - 1 \in C
    BY <1>3
  <1>5. QED
    BY <1>1, <1>2, <1>4

\* The sum of n times the same number.
LEMMA SumConstant ==
  ASSUME NEW c \in Int, NEW n \in Nat, NEW f, \A i \in 1..n : f[i] = c
  PROVE  SumFunctionOnSet(f, 1..n) = n * c
  <1> DEFINE C == {m \in 0..n : SumFunctionOnSet(f, 1..m) # m * c}
  <1>1. C \subseteq Nat
    OBVIOUS
  <1>2. 0 \notin C
    <2>1. 1..0 = {} /\ 0 * c = 0
      OBVIOUS
    <2>2. SumFunctionOnSet(f, 1..0) = 0
      BY <2>1, SumEmpty
    <2>3. QED
      BY <2>1, <2>2
  <1>3. ASSUME NEW m \in Nat, m + 1 \in C PROVE m \in C
    <2>1. m + 1 \in 0..n /\ SumFunctionOnSet(f, 1..(m + 1)) # (m + 1) * c
      BY <1>3
    <2>2. m \in 0..n /\ m + 1 \in 1..n /\ f[m + 1] = c /\ \A i \in 1..m : f[i] \in Int
      BY <2>1
    <2>3. SumFunctionOnSet(f, 1..(m + 1)) = SumFunctionOnSet(f, 1..m) + c
      BY <2>2, SumNext
    <2>4. (m + 1) * c = m * c + c
      OBVIOUS
    <2>5. SumFunctionOnSet(f, 1..m) # m * c
      BY <2>1, <2>3, <2>4
    <2>6. QED
      BY <2>2, <2>5
  <1> HIDE DEF C
  <1>4. C = {}
    BY <1>1, <1>2, <1>3, NatDescent
  <1>5. n \in 0..n
    OBVIOUS
  <1>6. QED
    BY <1>4, <1>5 DEF C

-----------------------------------------------------------------------------
(* The same for the sum of all values of a function.                        *)

\* A function's sum is the sum over its domain.
LEMMA SumFunctionIs == \A f : SumFunction(f) = SumFunctionOnSet(f, DOMAIN f)
  BY DEF SumFunction

\* The sum of a function without values.
LEMMA SumFunctionEmpty == \A f : DOMAIN f = {} => SumFunction(f) = 0
  BY SumFunctionIs, SumEmpty

\* The sum of a function whose values are integers.
LEMMA SumFunctionInt ==
  ASSUME NEW f, IsFiniteSet(DOMAIN f), \A x \in DOMAIN f : f[x] \in Int
  PROVE  SumFunction(f) \in Int
  BY SumFunctionIs, SumInt

\* The sum of a function with one value more.
LEMMA SumFunctionAdded ==
  ASSUME NEW f, NEW g, NEW y, IsFiniteSet(DOMAIN f), y \notin DOMAIN f,
         DOMAIN g = DOMAIN f \cup {y},
         \A x \in DOMAIN f : f[x] \in Int /\ g[x] = f[x], g[y] \in Int
  PROVE  SumFunction(g) = SumFunction(f) + g[y]
  BY SumFunctionIs, SumAdded

\* The sum of a function of one value.
LEMMA SumFunctionOne ==
  ASSUME NEW f, NEW y, DOMAIN f = {y}, f[y] \in Int
  PROVE  SumFunction(f) = f[y]
  <1>1. PICK U, V : U = {} /\ V = {y}
    OBVIOUS
  <1>2. IsFiniteSet(U) /\ y \notin U /\ V = U \cup {y} /\ \A x \in U : f[x] \in Int /\ f[x] = f[x]
    BY <1>1, FS_EmptySet
  <1>3. SumFunctionOnSet(f, V) = SumFunctionOnSet(f, U) + f[y]
    BY <1>2, SumAdded
  <1>4. SumFunctionOnSet(f, U) = 0
    BY <1>1, SumEmpty
  <1>5. QED
    BY <1>1, <1>3, <1>4, SumFunctionIs

=============================================================================
