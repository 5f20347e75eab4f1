---------------------------- MODULE SumTheorems -----------------------------
(***************************************************************************)
(* What SumFunction returns, for a function of natural numbers on any      *)
(* finite set: a natural number, nothing for nothing, and d more when one  *)
(* summand is d more.                                                      *)
(*                                                                         *)
(* SumFunction is a recursion over subsets.  Its induction is made over    *)
(* sets, not predicates: a set of natural numbers has a least element.     *)
(***************************************************************************)
EXTENDS Functions, FiniteSetTheorems, NaturalsInduction, WellFoundedInduction, TLAPS

\* A set of natural numbers has a least one.
LEMMA Least ==
    ASSUME NEW T, T \subseteq Nat, T # {}
    PROVE  \E n \in T : \A m \in T : ~(m < n)
<1> DEFINE R == {ss \in Nat \X Nat : ss[1] < ss[2]}
<1>1. IsWellFoundedOn(R, Nat)
  BY NatLessThanWellFounded DEF OpToRel
<1>2. \A m, n \in Nat : m < n => <<m, n>> \in R
  OBVIOUS
<1> HIDE DEF R
<1>3. \E n \in T : \A m \in T : <<m, n>> \notin R
  BY <1>1, WFMin
<1> QED
  BY <1>2, <1>3

\* Induction over the natural numbers, of a set.
LEMMA Climb ==
    ASSUME NEW T, 0 \in T, \A n \in Nat : n \in T => n + 1 \in T
    PROVE  Nat \subseteq T
<1> SUFFICES ASSUME Nat \ T # {} PROVE FALSE
  OBVIOUS
<1>1. PICK n \in Nat \ T : \A m \in Nat \ T : ~(m < n)
  BY Least
<1>2. n # 0 /\ n - 1 \in Nat /\ n - 1 < n /\ (n - 1) + 1 = n
  OBVIOUS
<1> QED
  BY <1>1, <1>2

\* The element a sum takes next.
Some(s) == CHOOSE x \in s : TRUE

\* Induction over the subsets of a finite set, in the order the sums take.
LEMMA OneByOne ==
    ASSUME NEW S, IsFiniteSet(S), NEW T, {} \in T,
           \A s \in SUBSET S : s # {} /\ s \ {Some(s)} \in T => s \in T
    PROVE  SUBSET S \subseteq T
<1> DEFINE N == {n \in Nat : \A s \in SUBSET S : Cardinality(s) = n => s \in T}
<1>1. \A s \in SUBSET S : IsFiniteSet(s) /\ Cardinality(s) \in Nat
  BY FS_Subset, FS_CardinalityType
<1>2. 0 \in N
  BY <1>1, FS_EmptySet
<1>3. ASSUME NEW n \in Nat, n \in N PROVE n + 1 \in N
  <2>1. SUFFICES ASSUME NEW s \in SUBSET S, Cardinality(s) = n + 1 PROVE s \in T
    OBVIOUS
  <2>2. s # {}
    BY <2>1, FS_EmptySet
  <2>3. Some(s) \in s
    BY <2>2 DEF Some
  <2>4. Cardinality(s \ {Some(s)}) = n
    BY <1>1, <2>1, <2>3, FS_RemoveElement
  <2> QED
    BY <1>3, <2>2, <2>4
<1>4. Nat \subseteq N
  <2> HIDE DEF N
  <2> QED
    BY <1>2, <1>3, Climb
<1> QED
  BY <1>1, <1>4

\* The recursion by which SumFunction(f) is computed, as a table of subsets.
SumRow(f, h, s) ==
    h[s] = IF s = {} THEN 0 ELSE f[Some(s)] + h[s \ {Some(s)}]

SumTable(f, h) ==
    h = [s \in SUBSET DOMAIN f |->
            IF s = {} THEN 0 ELSE f[Some(s)] + h[s \ {Some(s)}]]

\* Such a table exists: it is filled in the order of the cardinalities.
LEMMA TableExists ==
    ASSUME NEW S, IsFiniteSet(S), NEW f \in [S -> Nat]
    PROVE  \E h : SumTable(f, h)
<1> DEFINE UpTo(n) == \E h \in [SUBSET S -> Nat] :
               \A s \in SUBSET S : Cardinality(s) <= n => SumRow(f, h, s)
           N == {n \in Nat : UpTo(n)}
<1>1. \A s \in SUBSET S : IsFiniteSet(s) /\ Cardinality(s) \in Nat
  BY FS_Subset, FS_CardinalityType
<1>2. 0 \in N
  <2>1. \A s \in SUBSET S : Cardinality(s) <= 0 => s = {}
    BY <1>1, FS_EmptySet
  <2>2. [s \in SUBSET S |-> 0] \in [SUBSET S -> Nat]
    OBVIOUS
  <2>3. \A s \in SUBSET S : Cardinality(s) <= 0 => SumRow(f, [u \in SUBSET S |-> 0], s)
    BY <2>1 DEF SumRow
  <2>4. UpTo(0)
    BY <2>2, <2>3
  <2> HIDE DEF UpTo
  <2> QED
    BY <2>4
<1>3. ASSUME NEW n \in Nat, n \in N PROVE n + 1 \in N
  <2>1. PICK h \in [SUBSET S -> Nat] :
            \A s \in SUBSET S : Cardinality(s) <= n => SumRow(f, h, s)
    BY <1>3
  <2> DEFINE g == [s \in SUBSET S |->
                      IF Cardinality(s) = n + 1 THEN f[Some(s)] + h[s \ {Some(s)}]
                                                ELSE h[s]]
  <2>2. \A s \in SUBSET S : s # {} =>
            /\ Some(s) \in s /\ s \ {Some(s)} \in SUBSET S
            /\ Cardinality(s \ {Some(s)}) = Cardinality(s) - 1
    BY <1>1, FS_RemoveElement DEF Some
  <2>3. \A s \in SUBSET S : Cardinality(s) = n + 1 => s # {}
    <3>1. Cardinality({}) = 0
      BY FS_EmptySet
    <3> QED
      BY <3>1
  <2>4. g \in [SUBSET S -> Nat]
    BY <2>2, <2>3
  <2>5. ASSUME NEW s \in SUBSET S, Cardinality(s) <= n + 1 PROVE SumRow(f, g, s)
    <3>1. CASE Cardinality(s) = n + 1
      <4>1. g[s \ {Some(s)}] = h[s \ {Some(s)}]
        BY <2>2, <2>3, <3>1
      <4> QED
        BY <2>3, <3>1, <4>1 DEF SumRow
    <3>2. CASE Cardinality(s) <= n
      <4>1. g[s] = h[s]
        BY <3>2, <1>1
      <4>2. s # {} => g[s \ {Some(s)}] = h[s \ {Some(s)}]
        BY <1>1, <2>2, <3>2
      <4> QED
        BY <2>1, <3>2, <4>1, <4>2 DEF SumRow
    <3> QED
      BY <1>1, <2>5, <3>1, <3>2
  <2>6. UpTo(n + 1)
    <3> HIDE DEF g
    <3> QED
      BY <2>4, <2>5
  <2> HIDE DEF UpTo
  <2> QED
    BY <2>6
<1>4. UpTo(Cardinality(S))
  <2>1. Nat \subseteq N
    <3> HIDE DEF N
    <3> QED
      BY <1>2, <1>3, Climb
  <2> QED
    BY <1>1, <2>1
<1>5. PICK h \in [SUBSET S -> Nat] :
          \A s \in SUBSET S : Cardinality(s) <= Cardinality(S) => SumRow(f, h, s)
  BY <1>4
<1>6. \A s \in SUBSET S : Cardinality(s) <= Cardinality(S)
  BY FS_Subset
<1>7. SumTable(f, h)
  BY <1>5, <1>6 DEF SumTable, SumRow
<1> QED
  BY <1>7

\* The table the sum of a function is read from.
LEMMA SumTabled ==
    ASSUME NEW S, IsFiniteSet(S), NEW f \in [S -> Nat]
    PROVE  \E h : /\ SumFunction(f) = h[S]
                  /\ \A s \in SUBSET S : SumRow(f, h, s)
<1> DEFINE h == CHOOSE g : SumTable(f, g)
<1>1. SumFunction(f) = h[S]
  <2>1. DOMAIN f = S
    OBVIOUS
  <2>2. SumFunction(f) = (CHOOSE g : SumTable(f, g))[DOMAIN f]
    BY DEF SumFunction, SumFunctionOnSet, FoldFunctionOnSet, MapThenFoldSet, SumTable,
           Some
  <2> QED
    BY <2>1, <2>2
<1>2. SumTable(f, h)
  <2>1. \E g : SumTable(f, g)
    BY TableExists
  <2> HIDE DEF SumTable
  <2> QED
    BY <2>1
<1>3. \A s \in SUBSET S : SumRow(f, h, s)
  <2> HIDE DEF h
  <2> QED
    BY <1>2 DEF SumTable, SumRow
<1> QED
  BY <1>1, <1>3

\* A sum of natural numbers is one.
LEMMA SumNat ==
    ASSUME NEW S, IsFiniteSet(S), NEW f \in [S -> Nat]
    PROVE  SumFunction(f) \in Nat
<1>1. PICK h : /\ SumFunction(f) = h[S]
               /\ \A s \in SUBSET S : SumRow(f, h, s)
  BY SumTabled
<1> DEFINE T == {s \in SUBSET S : h[s] \in Nat}
<1>2. {} \in T
  <2>1. {} \in SUBSET S /\ SumRow(f, h, {})
    BY <1>1
  <2>2. h[{}] = 0
    BY <2>1 DEF SumRow
  <2> QED
    BY <2>1, <2>2
<1>3. ASSUME NEW s \in SUBSET S, s # {}, s \ {Some(s)} \in T PROVE s \in T
  <2>1. Some(s) \in S
    BY <1>3 DEF Some
  <2> QED
    BY <1>1, <1>3, <2>1 DEF SumRow
<1>4. SUBSET S \subseteq T
  <2> HIDE DEF T
  <2> QED
    BY <1>2, <1>3, OneByOne
<1> QED
  BY <1>1, <1>4

\* One summand grows by d: so does the sum.
LEMMA SumRaised ==
    ASSUME NEW S, IsFiniteSet(S), NEW f \in [S -> Nat], NEW g \in [S -> Nat],
           NEW x \in S, NEW d \in Nat,
           g[x] = f[x] + d, \A y \in S \ {x} : g[y] = f[y]
    PROVE  SumFunction(g) = SumFunction(f) + d
<1>1. PICK h : /\ SumFunction(f) = h[S]
               /\ \A s \in SUBSET S : SumRow(f, h, s)
  BY SumTabled
<1>2. PICK k : /\ SumFunction(g) = k[S]
               /\ \A s \in SUBSET S : SumRow(g, k, s)
  BY SumTabled
<1> DEFINE T == {s \in SUBSET S : /\ h[s] \in Nat
                                  /\ k[s] = IF x \in s THEN h[s] + d ELSE h[s]}
<1>3. {} \in T
  <2>1. {} \in SUBSET S /\ SumRow(f, h, {}) /\ SumRow(g, k, {})
    BY <1>1, <1>2
  <2>2. h[{}] = 0 /\ k[{}] = 0
    BY <2>1 DEF SumRow
  <2> QED
    BY <2>1, <2>2
<1>4. ASSUME NEW s \in SUBSET S, s # {}, s \ {Some(s)} \in T PROVE s \in T
  <2>1. Some(s) \in S /\ Some(s) \in s
    BY <1>4 DEF Some
  <2>2. /\ h[s] = f[Some(s)] + h[s \ {Some(s)}]
        /\ k[s] = g[Some(s)] + k[s \ {Some(s)}]
    BY <1>1, <1>2, <1>4 DEF SumRow
  <2>3. f[Some(s)] \in Nat /\ h[s \ {Some(s)}] \in Nat
    BY <1>4, <2>1
  <2>4. k[s \ {Some(s)}] = IF x \in s \ {Some(s)} THEN h[s \ {Some(s)}] + d
                                                  ELSE h[s \ {Some(s)}]
    BY <1>4
  <2>5. h[s] \in Nat
    BY <2>2, <2>3
  <2>6. CASE x = Some(s)
    BY <2>1, <2>2, <2>3, <2>4, <2>5, <2>6
  <2>7. CASE x # Some(s)
    BY <2>1, <2>2, <2>3, <2>4, <2>5, <2>7
  <2> QED
    BY <2>6, <2>7
<1>5. SUBSET S \subseteq T
  <2> HIDE DEF T
  <2> QED
    BY <1>3, <1>4, OneByOne
<1> QED
  BY <1>1, <1>2, <1>5

\* Nothing adds up to nothing.
LEMMA SumZero ==
    ASSUME NEW S, IsFiniteSet(S), NEW f \in [S -> Nat], \A x \in S : f[x] = 0
    PROVE  SumFunction(f) = 0
<1>1. PICK h : /\ SumFunction(f) = h[S]
               /\ \A s \in SUBSET S : SumRow(f, h, s)
  BY SumTabled
<1> DEFINE T == {s \in SUBSET S : h[s] = 0}
<1>2. {} \in T
  BY <1>1 DEF SumRow
<1>3. ASSUME NEW s \in SUBSET S, s # {}, s \ {Some(s)} \in T PROVE s \in T
  <2>1. Some(s) \in S
    BY <1>3 DEF Some
  <2> QED
    BY <1>1, <1>3, <2>1 DEF SumRow
<1>4. SUBSET S \subseteq T
  <2> HIDE DEF T
  <2> QED
    BY <1>2, <1>3, OneByOne
<1> QED
  BY <1>1, <1>4
=============================================================================
