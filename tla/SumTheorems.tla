----------------------------- MODULE SumTheorems -----------------------------
(***************************************************************************)
(* Facts about sums over finite sets and folds over sequences.  What a     *)
(* fold computes needs induction over its set.  The induction is taken     *)
(* here from the least element of a set of counterexamples, which needs no *)
(* operator as a parameter.                                                *)
(***************************************************************************)
EXTENDS Sums, FiniteSetTheorems, TLAPS

-----------------------------------------------------------------------------
(* Induction. *)

LEMMA LeastNumber ==
  ASSUME NEW B, B \subseteq Nat, B # {}
  PROVE  \E n \in B : \A m \in B : n <= m
<1> DEFINE R == OpToRel(<, Nat)
<1>1. IsWellFoundedOn(R, Nat)
  BY NatLessThanWellFounded
<1>2. R = {p \in Nat \X Nat : p[1] < p[2]}
  BY DEF OpToRel
<1> HIDE DEF R
<1>3. PICK n \in B : \A m \in B : ~(<<m, n>> \in R)
  BY <1>1, WFMin
<1>4. \A m \in B : ~(m < n)
  BY <1>2, <1>3
<1> QED
  BY <1>4

\* Up to n, one after the other.
LEMMA RangeInduction ==
  ASSUME NEW n \in Nat, NEW G, 0 \in G, \A i \in 1 .. n : i - 1 \in G => i \in G
  PROVE  n \in G
<1> SUFFICES ASSUME n \notin G PROVE FALSE
  OBVIOUS
<1> DEFINE B == {i \in 0 .. n : i \notin G}
<1>1. B \subseteq Nat /\ B # {}
  OBVIOUS
<1>2. PICK k \in B : \A m \in B : k <= m
  BY <1>1, LeastNumber
<1>3. k \in 1 .. n /\ k - 1 \in 0 .. n
  BY <1>2
<1>4. k - 1 \in G
  BY <1>2, <1>3
<1> QED
  BY <1>2, <1>3, <1>4

\* What holds of every subset all of whose parts short of one element have it,
\* holds of the whole set.
LEMMA SubsetInduction ==
  ASSUME NEW S, IsFiniteSet(S), NEW G,
         \A T \in SUBSET S : (\A x \in T : T \ {x} \in G) => T \in G
  PROVE  S \in G
<1> SUFFICES ASSUME {T \in SUBSET S : T \notin G} # {} PROVE FALSE
  OBVIOUS
<1> DEFINE B == {T \in SUBSET S : T \notin G}
<1>1. IsWellFoundedOn(StrictSubsetOrdering(S), SUBSET S)
  <2>1. IsWellFoundedOn(StrictSubsetOrdering(S), FiniteSubsetsOf(S))
    BY FS_StrictSubsetOrderingWellFounded
  <2>2. FiniteSubsetsOf(S) = SUBSET S
    BY FS_FiniteSubsetsOfFinite
  <2> QED
    BY <2>1, <2>2
<1>2. PICK T \in B : \A U \in B : ~(<<U, T>> \in StrictSubsetOrdering(S))
  <2>1. B \subseteq SUBSET S /\ B # {}
    OBVIOUS
  <2> HIDE DEF B
  <2> QED
    BY <1>1, <2>1, WFMin
<1>3. ASSUME NEW x \in T
      PROVE  T \ {x} \in G
  <2> DEFINE U == T \ {x}
  <2>1. T \in SUBSET S /\ U \in SUBSET S /\ U \subseteq T /\ U # T
    BY <1>3
  <2> HIDE DEF U
  <2>2. <<U, T>> \in StrictSubsetOrdering(S)
    BY <2>1 DEF StrictSubsetOrdering
  <2>3. U \in G
    BY <1>2, <2>1, <2>2
  <2> QED
    BY <2>3 DEF U
<1> QED
  BY <1>2, <1>3

-----------------------------------------------------------------------------
(* The fold is what its recursion says. *)

First(s) == CHOOSE x \in s : TRUE

\* One line of the recursion, for a table g of partial sums.
Adds(g, f, s) == g[s] = IF s = {} THEN 0 ELSE f[First(s)] + g[s \ {First(s)}]

IsTable(g, f, S) ==
  g = [s \in SUBSET S |-> IF s = {} THEN 0 ELSE f[First(s)] + g[s \ {First(s)}]]
Table(f, S) == CHOOSE g : IsTable(g, f, S)

LEMMA FirstRest ==
  ASSUME NEW S, IsFiniteSet(S), NEW s \in SUBSET S
  PROVE  /\ IsFiniteSet(s) /\ Cardinality(s) \in Nat /\ Cardinality(s) <= Cardinality(S)
         /\ s = {} <=> Cardinality(s) = 0
         /\ s # {} => /\ First(s) \in s /\ s \ {First(s)} \in SUBSET S
                      /\ Cardinality(s \ {First(s)}) = Cardinality(s) - 1
<1>1. IsFiniteSet(s) /\ Cardinality(s) <= Cardinality(S)
  BY FS_Subset
<1> QED
  BY <1>1, FS_CardinalityType, FS_RemoveElement, FS_EmptySet DEF First

\* There is such a table: one up to size n gives one up to size n + 1.
LEMMA TableExists ==
  ASSUME NEW S, IsFiniteSet(S), NEW f
  PROVE  \E g : IsTable(g, f, S)
<1> DEFINE UpTo(g, n) == /\ g = [s \in SUBSET S |-> g[s]]
                         /\ \A s \in SUBSET S : Cardinality(s) <= n => Adds(g, f, s)
           Def(n) == \E g : UpTo(g, n)
<1>1. Def(0)
  <2> DEFINE g == [s \in SUBSET S |-> 0]
  <2>1. ASSUME NEW s \in SUBSET S, Cardinality(s) <= 0
        PROVE  s = {}
    <3>1. Cardinality(s) \in Nat /\ (s = {} <=> Cardinality(s) = 0)
      BY FirstRest
    <3> QED
      BY <2>1, <3>1
  <2>2. g = [s \in SUBSET S |-> g[s]] /\ \A s \in SUBSET S : g[s] = 0
    OBVIOUS
  <2> HIDE DEF g
  <2>3. UpTo(g, 0)
    BY <2>1, <2>2 DEF Adds
  <2> QED
    BY <2>3
<1>2. ASSUME NEW n \in Nat, Def(n)
      PROVE  Def(n + 1)
  <2>1. PICK g : UpTo(g, n)
    BY <1>2
  <2> DEFINE h == [s \in SUBSET S |-> IF Cardinality(s) <= n THEN g[s]
                                      ELSE f[First(s)] + g[s \ {First(s)}]]
  <2>2. \A s \in SUBSET S : Cardinality(s) <= n => h[s] = g[s]
    OBVIOUS
  <2>3. ASSUME NEW s \in SUBSET S, Cardinality(s) <= n + 1
        PROVE  Adds(h, f, s)
    <3>1. CASE s = {}
      <4>1. Cardinality(s) <= n
        BY <3>1, FS_EmptySet
      <4>2. h[s] = g[s] /\ g[s] = 0
        BY <2>1, <2>2, <3>1, <4>1 DEF Adds
      <4> QED
        BY <3>1, <4>2 DEF Adds
    <3>2. CASE s # {}
      <4>1. s \ {First(s)} \in SUBSET S /\ Cardinality(s \ {First(s)}) <= n
        BY <2>3, <3>2, FirstRest
      <4>2. h[s \ {First(s)}] = g[s \ {First(s)}]
        BY <2>2, <4>1
      <4>3. h[s] = f[First(s)] + g[s \ {First(s)}]
        BY <2>1, <3>2 DEF Adds
      <4> QED
        BY <3>2, <4>2, <4>3 DEF Adds
    <3> QED
      BY <3>1, <3>2
  <2>4. h = [s \in SUBSET S |-> h[s]]
    OBVIOUS
  <2> HIDE DEF h
  <2> QED
    BY <2>3, <2>4
<1> HIDE DEF Def
<1>3. ASSUME {n \in Nat : ~Def(n)} # {} PROVE FALSE
  <2> DEFINE B == {n \in Nat : ~Def(n)}
  <2>1. B \subseteq Nat /\ B # {}
    BY <1>3
  <2>2. PICK n \in B : \A m \in B : n <= m
    BY <2>1, LeastNumber
  <2>3. n # 0 /\ n - 1 \in Nat
    BY <1>1, <2>2
  <2>4. Def(n - 1)
    BY <2>2, <2>3
  <2>5. Def((n - 1) + 1)
    BY <1>2, <2>3, <2>4
  <2> QED
    BY <2>2, <2>5
<1>4. PICK g : UpTo(g, Cardinality(S))
  BY <1>3, FS_CardinalityType DEF Def
<1>5. \A s \in SUBSET S : Adds(g, f, s)
  BY <1>4, FirstRest
<1>6. g = [s \in SUBSET S |-> IF s = {} THEN 0 ELSE f[First(s)] + g[s \ {First(s)}]]
  BY <1>4, <1>5 DEF Adds
<1> QED
  BY <1>6 DEF IsTable

LEMMA TableAdds ==
  ASSUME NEW S, IsFiniteSet(S), NEW f
  PROVE  \A s \in SUBSET S : Adds(Table(f, S), f, s)
<1> DEFINE g == Table(f, S)
<1>1. IsTable(g, f, S)
  BY TableExists DEF Table
<1> HIDE DEF g
<1>2. \A s \in SUBSET S : Adds(g, f, s)
  BY <1>1 DEF Adds, IsTable
<1> QED
  BY <1>2 DEF g

LEMMA SumIsTable ==
  ASSUME NEW S, NEW f
  PROVE  SumOver(f, S) = Table(f, S)[S]
BY DEF SumOver, MapThenSumSet, MapThenFoldSet, Table, IsTable, First

\* The tables of a set and of its subset agree.
LEMMA TablesAgree ==
  ASSUME NEW S, IsFiniteSet(S), NEW T \in SUBSET S, NEW f
  PROVE  Table(f, S)[T] = SumOver(f, T)
<1> DEFINE G == {U \in SUBSET T : Table(f, S)[U] = Table(f, T)[U]}
<1>1. IsFiniteSet(T)
  BY FS_Subset
<1>2. ASSUME NEW U \in SUBSET T, \A x \in U : U \ {x} \in G
      PROVE  U \in G
  <2>1. Adds(Table(f, S), f, U) /\ Adds(Table(f, T), f, U)
    BY <1>1, TableAdds
  <2>2. U # {} => First(U) \in U
    BY DEF First
  <2> QED
    BY <1>2, <2>1, <2>2 DEF Adds
<1> HIDE DEF G
<1>3. T \in G
  BY <1>1, <1>2, SubsetInduction
<1> QED
  BY <1>3, SumIsTable DEF G

LEMMA SumEmpty ==
  ASSUME NEW f
  PROVE  SumOver(f, {}) = 0
BY FS_EmptySet, TableAdds, SumIsTable DEF Adds

LEMMA SumFirst ==
  ASSUME NEW S, IsFiniteSet(S), S # {}, NEW f
  PROVE  SumOver(f, S) = f[First(S)] + SumOver(f, S \ {First(S)})
<1>1. Adds(Table(f, S), f, S)
  BY TableAdds
<1>2. S \ {First(S)} \in SUBSET S
  OBVIOUS
<1> QED
  BY <1>1, <1>2, TablesAgree, SumIsTable DEF Adds

-----------------------------------------------------------------------------
(* Sums of integers. *)

\* A sum of integers is an integer.
LEMMA SumInt ==
  ASSUME NEW S, IsFiniteSet(S), NEW f, \A x \in S : f[x] \in Int
  PROVE  SumOver(f, S) \in Int
<1> DEFINE G == {T \in SUBSET S : SumOver(f, T) \in Int}
<1>1. ASSUME NEW T \in SUBSET S, \A x \in T : T \ {x} \in G
      PROVE  T \in G
  <2>1. CASE T = {}
    BY <2>1, SumEmpty
  <2>2. CASE T # {}
    <3>1. IsFiniteSet(T) /\ First(T) \in T
      BY <2>2, FirstRest
    <3>2. SumOver(f, T \ {First(T)}) \in Int /\ f[First(T)] \in Int
      BY <1>1, <3>1
    <3>3. SumOver(f, T) = f[First(T)] + SumOver(f, T \ {First(T)})
      BY <2>2, <3>1, SumFirst
    <3> QED
      BY <3>2, <3>3
  <2> QED
    BY <2>1, <2>2
<1> HIDE DEF G
<1>2. \A T \in SUBSET S : (\A x \in T : T \ {x} \in G) => T \in G
  BY <1>1
<1>3. S \in G
  BY <1>2, SubsetInduction, Zenon
<1> QED
  BY <1>3 DEF G

\* The order does not matter: any element may be taken out first.
LEMMA SumWithout ==
  ASSUME NEW S, IsFiniteSet(S), NEW f, \A x \in S : f[x] \in Int, NEW x \in S
  PROVE  SumOver(f, S) = f[x] + SumOver(f, S \ {x})
<1> DEFINE G == {T \in SUBSET S : \A y \in T : SumOver(f, T) = f[y] + SumOver(f, T \ {y})}
<1>1. ASSUME NEW T \in SUBSET S, \A y \in T : T \ {y} \in G
      PROVE  T \in G
  <2> SUFFICES ASSUME NEW y \in T
               PROVE  SumOver(f, T) = f[y] + SumOver(f, T \ {y})
    OBVIOUS
  <2> DEFINE c == First(T)
             R == (T \ {c}) \ {y}
  <2>1. IsFiniteSet(T) /\ c \in T
    BY FirstRest
  <2>2. SumOver(f, T) = f[c] + SumOver(f, T \ {c})
    BY <2>1, SumFirst
  <2> HIDE DEF c
  <2>3. CASE y = c
    BY <2>2, <2>3
  <2>4. CASE y # c
    <3>1. SumOver(f, T \ {c}) = f[y] + SumOver(f, (T \ {c}) \ {y})
      BY <1>1, <2>1, <2>4
    <3>2. SumOver(f, T \ {y}) = f[c] + SumOver(f, (T \ {y}) \ {c})
      BY <1>1, <2>1, <2>4
    <3>3. (T \ {y}) \ {c} = R
      OBVIOUS
    <3>4. f[c] \in Int /\ f[y] \in Int
      BY <2>1
    <3>5. SumOver(f, R) \in Int
      <4>1. IsFiniteSet(R) /\ \A z \in R : f[z] \in Int
        BY <2>1, FS_Subset
      <4> QED
        BY <4>1, SumInt
    <3> HIDE DEF R
    <3>6. /\ SumOver(f, T) = f[c] + (f[y] + SumOver(f, R))
          /\ SumOver(f, T \ {y}) = f[c] + SumOver(f, R)
      BY <2>2, <3>1, <3>2, <3>3 DEF R
    <3> QED
      BY <3>4, <3>5, <3>6
  <2> QED
    BY <2>3, <2>4
<1> HIDE DEF G
<1>2. \A T \in SUBSET S : (\A y \in T : T \ {y} \in G) => T \in G
  BY <1>1
<1>3. S \in G
  BY <1>2, SubsetInduction, Zenon
<1> QED
  BY <1>3 DEF G

\* Sums compare as their terms do: up to factors, and to a constant for each term.
LEMMA SumCompare ==
  ASSUME NEW S, IsFiniteSet(S),
         NEW f, \A x \in S : f[x] \in Int, NEW g, \A x \in S : g[x] \in Int,
         NEW u \in Int, NEW v \in Int, NEW w \in Int,
         \A x \in S : u * f[x] <= v * g[x] + w
  PROVE  u * SumOver(f, S) <= v * SumOver(g, S) + w * Cardinality(S)
<1> DEFINE G == {T \in SUBSET S :
                   u * SumOver(f, T) <= v * SumOver(g, T) + w * Cardinality(T)}
<1>1. ASSUME NEW T \in SUBSET S, \A x \in T : T \ {x} \in G
      PROVE  T \in G
  <2>1. CASE T = {}
    <3>1. SumOver(f, T) = 0 /\ SumOver(g, T) = 0 /\ Cardinality(T) = 0
      BY <2>1, SumEmpty, FS_EmptySet
    <3> QED
      BY <3>1
  <2>2. CASE T # {}
    <3>1. PICK x \in T : TRUE
      BY <2>2
    <3> DEFINE R == T \ {x}
               F == SumOver(f, R)
               H == SumOver(g, R)
               n == Cardinality(R)
    <3>2. IsFiniteSet(T) /\ IsFiniteSet(R) /\ R \subseteq S
      BY FS_Subset
    <3>3. F \in Int /\ H \in Int
      BY <3>2, SumInt
    <3>4. n \in Nat /\ Cardinality(T) = n + 1
      BY <3>2, FS_CardinalityType, FS_RemoveElement
    <3>5. SumOver(f, T) = f[x] + F /\ SumOver(g, T) = g[x] + H
      BY <3>2, SumWithout
    <3>6. u * F <= v * H + w * n
      BY <1>1
    <3>7. f[x] \in Int /\ g[x] \in Int /\ u * f[x] <= v * g[x] + w
      OBVIOUS
    <3> HIDE DEF F, H, n
    <3>8. /\ u * (f[x] + F) = u * f[x] + u * F
          /\ v * (g[x] + H) = v * g[x] + v * H
          /\ w * (n + 1) = w * n + w
      BY <3>3, <3>4, <3>7
    <3>9. /\ u * f[x] \in Int /\ u * F \in Int /\ v * g[x] \in Int /\ v * H \in Int
          /\ w * n \in Int
      BY <3>3, <3>4, <3>7
    <3>10. u * f[x] + u * F <= (v * g[x] + v * H) + (w * n + w)
      BY <3>6, <3>7, <3>9
    <3> QED
      BY <3>4, <3>5, <3>8, <3>10
  <2> QED
    BY <2>1, <2>2
<1> HIDE DEF G
<1>2. \A T \in SUBSET S : (\A x \in T : T \ {x} \in G) => T \in G
  BY <1>1
<1>3. S \in G
  BY <1>2, SubsetInduction, Zenon
<1> QED
  BY <1>3 DEF G

\* Sums of the same terms are the same.
LEMMA SumEqual ==
  ASSUME NEW S, IsFiniteSet(S), NEW f, NEW g, \A x \in S : f[x] = g[x]
  PROVE  SumOver(f, S) = SumOver(g, S)
<1> DEFINE G == {T \in SUBSET S : SumOver(f, T) = SumOver(g, T)}
<1>1. ASSUME NEW T \in SUBSET S, \A x \in T : T \ {x} \in G
      PROVE  T \in G
  <2>1. CASE T = {}
    BY <2>1, SumEmpty
  <2>2. CASE T # {}
    <3>1. IsFiniteSet(T) /\ First(T) \in T
      BY <2>2, FirstRest
    <3>2. /\ SumOver(f, T) = f[First(T)] + SumOver(f, T \ {First(T)})
          /\ SumOver(g, T) = g[First(T)] + SumOver(g, T \ {First(T)})
      BY <2>2, <3>1, SumFirst
    <3> QED
      BY <1>1, <3>1, <3>2
  <2> QED
    BY <2>1, <2>2
<1> HIDE DEF G
<1>2. \A T \in SUBSET S : (\A x \in T : T \ {x} \in G) => T \in G
  BY <1>1
<1>3. S \in G
  BY <1>2, SubsetInduction, Zenon
<1> QED
  BY <1>3 DEF G

\* One more term.
LEMMA SumWith ==
  ASSUME NEW S, IsFiniteSet(S), NEW x, x \notin S, NEW f, \A y \in S \cup {x} : f[y] \in Int
  PROVE  SumOver(f, S \cup {x}) = SumOver(f, S) + f[x]
<1>1. IsFiniteSet(S \cup {x}) /\ (S \cup {x}) \ {x} = S
  BY FS_AddElement
<1>2. SumOver(f, S \cup {x}) = f[x] + SumOver(f, S)
  BY <1>1, SumWithout
<1> QED
  BY <1>2, SumInt

\* One term changes.
LEMMA SumChange ==
  ASSUME NEW S, IsFiniteSet(S), NEW x \in S,
         NEW f, \A y \in S : f[y] \in Int, NEW g, g[x] \in Int,
         \A y \in S \ {x} : g[y] = f[y]
  PROVE  SumOver(g, S) = SumOver(f, S) - f[x] + g[x]
<1>1. IsFiniteSet(S \ {x})
  BY FS_Subset
<1>2. SumOver(f, S \ {x}) = SumOver(g, S \ {x}) /\ SumOver(f, S \ {x}) \in Int
  BY <1>1, SumEqual, SumInt
<1>3. \A y \in S : g[y] \in Int
  OBVIOUS
<1>4. /\ SumOver(f, S) = f[x] + SumOver(f, S \ {x})
      /\ SumOver(g, S) = g[x] + SumOver(g, S \ {x})
  BY <1>3, SumWithout
<1> QED
  BY <1>2, <1>4

\* A sum of naturals is a natural, no smaller than any of its terms.
LEMMA SumNat ==
  ASSUME NEW S, IsFiniteSet(S), NEW f, \A x \in S : f[x] \in Nat
  PROVE  SumOver(f, S) \in Nat /\ \A x \in S : f[x] <= SumOver(f, S)
<1>1. ASSUME NEW T \in SUBSET S
      PROVE  SumOver(f, T) \in Nat
  <2>1. IsFiniteSet(T) /\ Cardinality(T) \in Nat
    BY FirstRest
  <2>2. \A x \in T : f[x] \in Int /\ 0 * f[x] <= 1 * f[x] + 0
    OBVIOUS
  <2>3. 0 * SumOver(f, T) <= 1 * SumOver(f, T) + 0 * Cardinality(T)
    <3>1. 0 \in Int /\ 1 \in Int
      OBVIOUS
    <3> QED
      BY <2>1, <2>2, <3>1, SumCompare, Zenon
  <2>4. SumOver(f, T) \in Int
    BY <2>1, <2>2, SumInt
  <2> QED
    BY <2>1, <2>3, <2>4
<1>2. ASSUME NEW x \in S
      PROVE  f[x] <= SumOver(f, S)
  <2>1. SumOver(f, S) = f[x] + SumOver(f, S \ {x})
    BY SumWithout
  <2>2. SumOver(f, S \ {x}) \in Nat
    BY <1>1
  <2> QED
    BY <2>1, <2>2
<1> QED
  BY <1>1, <1>2

\* A sum of nothing but zeroes.
LEMMA SumZero ==
  ASSUME NEW S, IsFiniteSet(S), NEW f, \A x \in S : f[x] = 0
  PROVE  SumOver(f, S) = 0
<1>1. \A x \in S : f[x] \in Int /\ 1 * f[x] <= 0 * f[x] + 0 /\ f[x] \in Nat
  OBVIOUS
<1>2. 1 * SumOver(f, S) <= 0 * SumOver(f, S) + 0 * Cardinality(S)
  <2>1. 0 \in Int /\ 1 \in Int
    OBVIOUS
  <2> QED
    BY <1>1, <2>1, SumCompare, Zenon
<1>3. SumOver(f, S) \in Nat /\ Cardinality(S) \in Nat
  BY <1>1, SumNat, FS_CardinalityType
<1> QED
  BY <1>2, <1>3

\* A part of the summands, none of them negative, sums up to no more than all.
LEMMA SumSubset ==
  ASSUME NEW S, IsFiniteSet(S), NEW f, \A x \in S : f[x] \in Nat, NEW T \in SUBSET S
  PROVE  SumOver(f, T) <= SumOver(f, S)
<1> DEFINE G == {U \in SUBSET S : SumOver(f, T \cap U) <= SumOver(f, U)}
<1>1. ASSUME NEW U \in SUBSET S, \A x \in U : U \ {x} \in G
      PROVE  U \in G
  <2>1. CASE U = {}
    <3>1. T \cap U = {} /\ SumOver(f, {}) = 0
      BY <2>1, SumEmpty
    <3> QED
      BY <2>1, <3>1
  <2>2. CASE U # {}
    <3>1. PICK x \in U : TRUE
      BY <2>2
    <3>2. IsFiniteSet(U) /\ IsFiniteSet(U \ {x}) /\ IsFiniteSet(T \cap U)
      BY FS_Subset
    <3>3. SumOver(f, U) = f[x] + SumOver(f, U \ {x})
      BY <3>1, <3>2, SumWithout
    <3>4. SumOver(f, T \cap (U \ {x})) <= SumOver(f, U \ {x})
      BY <1>1, <3>1
    <3>5. SumOver(f, U \ {x}) \in Int /\ SumOver(f, T \cap (U \ {x})) \in Int
      <4>1. IsFiniteSet(T \cap (U \ {x}))
        BY <3>2, FS_Subset
      <4> QED
        BY <3>2, <4>1, SumInt
    <3>6. CASE x \in T
      <4>1. x \in T \cap U /\ (T \cap U) \ {x} = T \cap (U \ {x})
        BY <3>1, <3>6
      <4>2. SumOver(f, T \cap U) = f[x] + SumOver(f, (T \cap U) \ {x})
        BY <3>2, <4>1, SumWithout
      <4>3. SumOver(f, T \cap U) = f[x] + SumOver(f, T \cap (U \ {x}))
        BY <4>1, <4>2
      <4> QED
        BY <3>1, <3>3, <3>4, <3>5, <4>3
    <3>7. CASE x \notin T
      <4>1. T \cap U = T \cap (U \ {x})
        BY <3>7
      <4>2. SumOver(f, T \cap U) = SumOver(f, T \cap (U \ {x}))
        BY <4>1
      <4> QED
        BY <3>1, <3>3, <3>4, <3>5, <4>2
    <3> QED
      BY <3>6, <3>7
  <2> QED
    BY <2>1, <2>2
<1>2. \A U \in SUBSET S : (\A x \in U : U \ {x} \in G) => U \in G
  BY <1>1
<1>3. S \in G
  BY <1>2, SubsetInduction, Zenon
<1>4. T \cap S = T
  OBVIOUS
<1> QED
  BY <1>3, <1>4

\* A sum over places, each of which has its own element, is the sum over the
\* elements.
LEMMA SumImage ==
  ASSUME NEW S, IsFiniteSet(S), NEW s, \A j, k \in S : s[j] = s[k] => j = k,
         NEW f, NEW g, \A j \in S : g[j] = f[s[j]] /\ f[s[j]] \in Int
  PROVE  SumOver(g, S) = SumOver(f, {s[j] : j \in S})
<1> DEFINE Im(T) == {s[j] : j \in T}
           G == {T \in SUBSET S : IsFiniteSet(Im(T)) /\ SumOver(g, T) = SumOver(f, Im(T))}
<1>1. ASSUME NEW T \in SUBSET S, \A x \in T : T \ {x} \in G
      PROVE  T \in G
  <2>1. CASE T = {}
    <3>1. Im(T) = {} /\ IsFiniteSet({})
      BY <2>1, FS_EmptySet
    <3>2. SumOver(g, {}) = 0 /\ SumOver(f, {}) = 0
      BY SumEmpty
    <3> QED
      BY <2>1, <3>1, <3>2
  <2>2. CASE T # {}
    <3>1. PICK x \in T : TRUE
      BY <2>2
    <3>2. IsFiniteSet(T) /\ \A j \in T : g[j] \in Int
      BY FS_Subset
    <3>3. SumOver(g, T) = g[x] + SumOver(g, T \ {x})
      BY <3>1, <3>2, SumWithout
    <3>4. IsFiniteSet(Im(T \ {x})) /\ SumOver(g, T \ {x}) = SumOver(f, Im(T \ {x}))
      BY <1>1, <3>1
    <3>5. Im(T) = Im(T \ {x}) \cup {s[x]} /\ s[x] \notin Im(T \ {x})
      BY <3>1
    <3>6. \A y \in Im(T \ {x}) \cup {s[x]} : f[y] \in Int
      BY <3>1
    <3> HIDE DEF Im
    <3>7. IsFiniteSet(Im(T)) /\ SumOver(f, Im(T)) = SumOver(f, Im(T \ {x})) + f[s[x]]
      <4>1. PICK R, e : R = Im(T \ {x}) /\ e = s[x]
        OBVIOUS
      <4>2. IsFiniteSet(R) /\ e \notin R /\ \A y \in R \cup {e} : f[y] \in Int
        BY <3>4, <3>5, <3>6, <4>1
      <4>3. IsFiniteSet(R \cup {e}) /\ SumOver(f, R \cup {e}) = SumOver(f, R) + f[e]
        BY <4>2, SumWith, FS_AddElement
      <4> QED
        BY <3>5, <4>1, <4>3
    <3>8. SumOver(f, Im(T \ {x})) \in Int /\ f[s[x]] \in Int /\ g[x] = f[s[x]]
      BY <3>1, <3>4, <3>6, SumInt
    <3> QED
      BY <3>3, <3>4, <3>7, <3>8
  <2> QED
    BY <2>1, <2>2
<1>2. S \in G
  <2>1. \A T \in SUBSET S : (\A x \in T : T \ {x} \in G) => T \in G
    BY <1>1
  <2> HIDE DEF G
  <2> QED
    BY <2>1, SubsetInduction, Zenon
<1> QED
  BY <1>2

-----------------------------------------------------------------------------
(* Parts of a whole, floored. *)

LEMMA Floors ==
  ASSUME NEW x \in Nat, NEW u \in Nat \ {0}
  PROVE  /\ x \div u \in Nat
         /\ (x \div u) * u <= x
         /\ x < (x \div u) * u + u
OBVIOUS

\* What fits u times fits once: inequalities scaled up and down again.
LEMMA Scaled ==
  ASSUME NEW x \in Nat, NEW y \in Nat, NEW u \in Nat
  PROVE  /\ x <= y => x * u <= y * u
         /\ x * u < y * u => x < y
<1>1. ASSUME x <= y PROVE x * u <= y * u
  <2>1. PICK d \in Nat : y = x + d
    <3>1. y - x \in Nat /\ y = x + (y - x)
      BY <1>1
    <3> QED
      BY <3>1
  <2>2. y * u = x * u + d * u /\ x * u \in Nat /\ d * u \in Nat
    BY <2>1
  <2> QED
    BY <2>2
<1>2. ASSUME y <= x PROVE y * u <= x * u
  <2>1. PICK d \in Nat : x = y + d
    <3>1. x - y \in Nat /\ x = y + (x - y)
      BY <1>2
    <3> QED
      BY <3>1
  <2>2. x * u = y * u + d * u /\ y * u \in Nat /\ d * u \in Nat
    BY <2>1
  <2> QED
    BY <2>2
<1>3. x * u \in Nat /\ y * u \in Nat
  OBVIOUS
<1> QED
  BY <1>1, <1>2, <1>3

\* What fits u times fits once, and what is less than n too much u times is less
\* than n too much once.
LEMMA FactorOut ==
  ASSUME NEW u \in Nat \ {0}, NEW a \in Nat, NEW t \in Nat, NEW n \in Nat \ {0}
  PROVE  /\ u * t <= a * u => t <= a
         /\ a * u <= u * t + (u - 1) * n => a - t <= n - 1
<1>1. ASSUME u * t <= a * u PROVE t <= a
  BY <1>1
<1>2. ASSUME a * u <= u * t + (u - 1) * n PROVE a - t <= n - 1
  <2> SUFFICES ASSUME a - t >= n PROVE FALSE
    OBVIOUS
  <2>1. PICK k \in Nat : a = t + n + k
    <3>1. a - t - n \in Nat /\ a = t + n + (a - t - n)
      OBVIOUS
    <3> QED
      BY <3>1
  <2>2. a * u = u * t + u * n + u * k /\ (u - 1) * n = u * n - n
    BY <2>1
  <2>3. u * t \in Nat /\ u * n \in Nat /\ u * k \in Nat
    BY <2>1
  <2> QED
    BY <1>2, <2>2, <2>3
<1> QED
  BY <1>1, <1>2

\* Floored pro-rata parts of a never exceed it together, and miss it by less than
\* one unit a part.
LEMMA FlooredParts ==
  ASSUME NEW S, IsFiniteSet(S), NEW f, \A x \in S : f[x] \in Nat, NEW a \in Nat,
         SumOver(f, S) # 0,
         NEW g, \A x \in S : g[x] = (a * f[x]) \div SumOver(f, S)
  PROVE  /\ SumOver(g, S) \in Nat /\ SumOver(g, S) <= a
         /\ a - SumOver(g, S) <= Cardinality(S) - 1
<1>1. PICK w \in Nat \ {0} : w = SumOver(f, S)
  BY SumNat
<1>2. PICK n \in Nat \ {0} : n = Cardinality(S)
  <2>1. S # {}
    BY SumEmpty
  <2>2. Cardinality(S) \in Nat /\ Cardinality(S) # 0
    BY <2>1, FS_CardinalityType, FS_EmptySet
  <2> QED
    BY <2>2
<1>3. ASSUME NEW x \in S
      PROVE  /\ g[x] \in Nat
             /\ w * g[x] <= a * f[x] + 0 /\ a * f[x] <= w * g[x] + (w - 1)
  <2>1. PICK m \in Nat : m = a * f[x]
    OBVIOUS
  <2>2. g[x] = m \div w
    BY <1>1, <2>1
  <2>3. m \div w \in Nat /\ (m \div w) * w <= m /\ m < (m \div w) * w + w
    BY Floors
  <2>4. PICK k \in Nat : k = m \div w
    BY <2>3
  <2>5. k * w <= m /\ m < k * w + w /\ k * w = w * k /\ w * k \in Nat
    BY <2>3, <2>4
  <2>6. w * k <= m + 0 /\ m <= w * k + (w - 1)
    BY <2>5
  <2> QED
    BY <2>1, <2>2, <2>4, <2>6
<1>4. (\A x \in S : f[x] \in Int /\ g[x] \in Int /\ g[x] \in Nat) /\ 0 \in Int /\ w - 1 \in Int
      /\ w \in Int /\ a \in Int
  BY <1>3
<1>5. PICK t \in Nat : t = SumOver(g, S)
  BY <1>4, SumNat
<1>6. w * t <= a * w
  <2>1. \A x \in S : w * g[x] <= a * f[x] + 0
    BY <1>3
  <2>2. w * SumOver(g, S) <= a * SumOver(f, S) + 0 * Cardinality(S)
    BY <1>4, <2>1, SumCompare, Zenon
  <2>3. w * t <= a * w + 0 * n
    BY <1>1, <1>2, <1>5, <2>2
  <2>4. 0 * n = 0 /\ a * w \in Nat
    OBVIOUS
  <2> QED
    BY <2>3, <2>4
<1>7. a * w <= w * t + (w - 1) * n
  <2>1. \A x \in S : a * f[x] <= w * g[x] + (w - 1)
    BY <1>3
  <2>2. a * SumOver(f, S) <= w * SumOver(g, S) + (w - 1) * Cardinality(S)
    BY <1>4, <2>1, SumCompare, Zenon
  <2> QED
    BY <1>1, <1>2, <1>5, <2>2
<1>8. t <= a /\ a - t <= n - 1
  BY <1>6, <1>7, FactorOut
<1> QED
  BY <1>2, <1>5, <1>8

-----------------------------------------------------------------------------
(* The least and the greatest of a set. *)

LEMMA LeastIs ==
  ASSUME NEW S \in SUBSET Int, NEW v \in S, \A n \in S : v <= n
  PROVE  Min(S) = v
<1>1. Min(S) \in S /\ \A n \in S : Min(S) <= n
  BY DEF Min
<1>2. PICK m \in Int : m = Min(S) /\ \A n \in S : m <= n
  BY <1>1
<1>3. v \in Int /\ m <= v /\ v <= m
  BY <1>1, <1>2
<1> QED
  BY <1>2, <1>3

LEMMA GreatestIs ==
  ASSUME NEW S \in SUBSET Int, NEW v \in S, \A n \in S : n <= v
  PROVE  Max(S) = v
<1>1. Max(S) \in S /\ \A n \in S : Max(S) >= n
  BY DEF Max
<1>2. PICK m \in Int : m = Max(S) /\ \A n \in S : m >= n
  BY <1>1
<1>3. v \in Int /\ m >= v /\ m <= v
  BY <1>1, <1>2
<1> QED
  BY <1>2, <1>3

-----------------------------------------------------------------------------
(* Folds over sequences: Max picks the elements from the last to the first. *)

\* One line of the recursion of a fold whose steps are listed in F.
FoldsAt(g, base, F, s) == g[s] = IF s = {} THEN base ELSE F[<<g[s \ {Max(s)}], Max(s)>>]

\* Max takes the last element of a range away, and leaves the rest.
LEMMA MaxRest ==
  ASSUME NEW n \in Nat, NEW s \in SUBSET (1 .. n)
  PROVE  /\ IsFiniteSet(s) /\ Cardinality(s) \in Nat /\ Cardinality(s) <= n
         /\ s = {} <=> Cardinality(s) = 0
         /\ s # {} => /\ Max(s) \in s /\ \A x \in s : x <= Max(s)
                      /\ s \ {Max(s)} \in SUBSET (1 .. n)
                      /\ Cardinality(s \ {Max(s)}) = Cardinality(s) - 1
<1>1. IsFiniteSet(1 .. n) /\ Cardinality(1 .. n) = n
  BY FS_Interval
<1>2. IsFiniteSet(s) /\ Cardinality(s) <= n
  BY <1>1, FS_Subset
<1>3. ASSUME s # {}
      PROVE  Max(s) \in s /\ \A x \in s : x <= Max(s)
  <2> DEFINE B == {m \in Nat : \E x \in s : m = n - x}
  <2>1. B \subseteq Nat /\ B # {}
    <3>1. PICK x \in s : TRUE
      BY <1>3
    <3>2. n - x \in Nat
      OBVIOUS
    <3> QED
      BY <3>1, <3>2
  <2>2. PICK m \in B : \A k \in B : m <= k
    BY <2>1, LeastNumber
  <2>3. PICK y \in s : m = n - y
    BY <2>2
  <2>4. ASSUME NEW x \in s
        PROVE  y >= x
    <3>1. n - x \in Nat /\ x \in Int /\ y \in Int
      OBVIOUS
    <3>2. n - x \in B
      BY <3>1
    <3>3. n - y <= n - x
      BY <2>2, <2>3, <3>2
    <3> QED
      BY <3>1, <3>3
  <2> HIDE DEF B
  <2>5. \E z \in s : \A x \in s : z >= x
    BY <2>4
  <2>6. Max(s) \in s /\ \A x \in s : Max(s) >= x
    BY <2>5 DEF Max
  <2> QED
    BY <2>6
<1> QED
  BY <1>2, <1>3, FS_CardinalityType, FS_RemoveElement, FS_EmptySet

\* There is a table of the fold's values, one for every part of the range.
LEMMA FoldExists ==
  ASSUME NEW n \in Nat, NEW V, NEW base \in V, NEW F \in [V \X (1 .. n) -> V]
  PROVE  \E g \in [SUBSET (1 .. n) -> V] : \A s \in SUBSET (1 .. n) : FoldsAt(g, base, F, s)
<1> DEFINE D == SUBSET (1 .. n)
           UpTo(g, k) == /\ g \in [D -> V]
                         /\ \A s \in D : Cardinality(s) <= k => FoldsAt(g, base, F, s)
           Def(k) == \E g : UpTo(g, k)
<1>1. Def(0)
  <2> DEFINE g == [s \in D |-> base]
  <2>1. g \in [D -> V] /\ \A s \in D : g[s] = base
    OBVIOUS
  <2>2. ASSUME NEW s \in D, Cardinality(s) <= 0
        PROVE  s = {}
    <3>1. Cardinality(s) \in Nat /\ (s = {} <=> Cardinality(s) = 0)
      BY MaxRest
    <3> QED
      BY <2>2, <3>1
  <2> HIDE DEF g
  <2>3. UpTo(g, 0)
    BY <2>1, <2>2 DEF FoldsAt
  <2> QED
    BY <2>3
<1>2. ASSUME NEW k \in Nat, Def(k)
      PROVE  Def(k + 1)
  <2>1. PICK g : UpTo(g, k)
    BY <1>2
  <2> DEFINE h == [s \in D |-> IF Cardinality(s) <= k THEN g[s]
                               ELSE IF s = {} THEN base
                               ELSE F[<<g[s \ {Max(s)}], Max(s)>>]]
  <2>2. h \in [D -> V]
    <3>1. ASSUME NEW s \in D, s # {}
          PROVE  F[<<g[s \ {Max(s)}], Max(s)>>] \in V
      <4>1. Max(s) \in 1 .. n /\ s \ {Max(s)} \in D
        BY <3>1, MaxRest
      <4>2. g[s \ {Max(s)}] \in V
        BY <2>1, <4>1
      <4> QED
        BY <4>1, <4>2
    <3> QED
      BY <2>1, <3>1
  <2>3. \A s \in D : Cardinality(s) <= k => h[s] = g[s]
    OBVIOUS
  <2>4. ASSUME NEW s \in D, Cardinality(s) <= k + 1
        PROVE  FoldsAt(h, base, F, s)
    <3>1. CASE s = {}
      <4>1. Cardinality(s) <= k
        BY <3>1, FS_EmptySet
      <4> QED
        BY <2>1, <2>3, <3>1, <4>1 DEF FoldsAt
    <3>2. CASE s # {}
      <4>1. s \ {Max(s)} \in D /\ Cardinality(s \ {Max(s)}) <= k
        BY <2>4, <3>2, MaxRest
      <4>2. h[s \ {Max(s)}] = g[s \ {Max(s)}]
        BY <2>3, <4>1
      <4>3. h[s] = F[<<g[s \ {Max(s)}], Max(s)>>]
        BY <2>1, <3>2 DEF FoldsAt
      <4> QED
        BY <3>2, <4>2, <4>3 DEF FoldsAt
    <3> QED
      BY <3>1, <3>2
  <2> HIDE DEF h
  <2>5. UpTo(h, k + 1)
    BY <2>2, <2>4
  <2> QED
    BY <2>5
<1> HIDE DEF Def
<1>3. Def(n)
  <2> DEFINE G == {k \in 0 .. n : Def(k)}
  <2>1. 0 \in G /\ \A k \in 1 .. n : k - 1 \in G => k \in G
    <3>1. ASSUME NEW k \in 1 .. n, k - 1 \in G
          PROVE  k \in G
      <4>1. Def((k - 1) + 1)
        BY <1>2, <3>1
      <4> QED
        BY <4>1
    <3> QED
      BY <1>1, <3>1
  <2> HIDE DEF G
  <2>2. n \in G
    BY <2>1, RangeInduction
  <2> QED
    BY <2>2 DEF G
<1>4. PICK g : UpTo(g, n)
  BY <1>3 DEF Def
<1> QED
  BY <1>4, MaxRest

\* Max walks a sequence from its end.
LEMMA MaxOfRange ==
  ASSUME NEW i \in Nat \ {0}
  PROVE  1 .. i # {} /\ Max(1 .. i) = i /\ (1 .. i) \ {i} = 1 .. (i - 1)
<1>1. i \in 1 .. i /\ 1 .. i \in SUBSET (1 .. i)
  OBVIOUS
<1>2. Max(1 .. i) \in 1 .. i /\ \A x \in 1 .. i : x <= Max(1 .. i)
  BY <1>1, MaxRest
<1> QED
  BY <1>1, <1>2
=============================================================================
