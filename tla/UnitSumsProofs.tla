---------------------------- MODULE UnitSumsProofs ----------------------------
(* The laws of Total that the accounting proofs rest on. *)
EXTENDS UnitSums, FiniteSetTheorems, TLAPS

\* The units of one index: as many as its value.
LEMMA ColumnSize ==
    ASSUME NEW i, NEW n \in Nat
    PROVE  /\ IsFiniteSet({i} \X (1 .. n))
           /\ Cardinality({i} \X (1 .. n)) = n
<1>1. IsFiniteSet({i}) /\ Cardinality({i}) = 1
  BY FS_Singleton
<1>2. IsFiniteSet(1 .. n) /\ Cardinality(1 .. n) = n
  BY FS_Interval
<1>3. /\ IsFiniteSet({i} \X (1 .. n))
      /\ Cardinality({i} \X (1 .. n)) = Cardinality({i}) * Cardinality(1 .. n)
  BY <1>1, <1>2, FS_Product, Zenon
<1>4. 1 * n = n
  OBVIOUS
<1> QED BY <1>1, <1>2, <1>3, <1>4

\* The units of a function on a finite set are finite.
LEMMA UnitsFinite ==
    ASSUME NEW S, IsFiniteSet(S), NEW f \in [S -> Nat]
    PROVE  IsFiniteSet(Units(f))
<1> DEFINE Column(i) == {i} \X (1 .. f[i])
           columns == {Column(i) : i \in S}
           toColumn == [i \in S |-> Column(i)]
<1>1. toColumn \in Surjection(S, columns)
  <2> HIDE DEF Column
  <2>1. toColumn \in [S -> columns]
    OBVIOUS
  <2>2. \A c \in columns : \E i \in S : toColumn[i] = c
    OBVIOUS
  <2> QED BY <2>1, <2>2 DEF Surjection
<1>2. IsFiniteSet(columns)
  BY <1>1, FS_Surjection
<1>3. \A c \in columns : IsFiniteSet(c)
  <2> SUFFICES ASSUME NEW i \in S PROVE IsFiniteSet(Column(i))
    OBVIOUS
  <2>1. f[i] \in Nat
    OBVIOUS
  <2> QED BY <2>1, ColumnSize
<1>4. Units(f) = UNION columns
  BY DEF Units
<1> HIDE DEF columns
<1> QED BY <1>2, <1>3, <1>4, FS_UNION

\* A total is a natural.
THEOREM TotalType ==
    ASSUME NEW S, IsFiniteSet(S), NEW f \in [S -> Nat]
    PROVE  Total(f) \in Nat
  BY UnitsFinite, FS_CardinalityType DEF Total

\* A total is one value and the total of the rest.
LEMMA TotalSplit ==
    ASSUME NEW S, IsFiniteSet(S), NEW f \in [S -> Nat], NEW a \in S
    PROVE  Total(f) = Total([i \in S \ {a} |-> f[i]]) + f[a]
<1> DEFINE g == [i \in S \ {a} |-> f[i]]
           column == {a} \X (1 .. f[a])
<1>1. IsFiniteSet(S \ {a}) /\ g \in [S \ {a} -> Nat]
  BY FS_Difference
<1>2. IsFiniteSet(Units(g)) /\ Total(g) \in Nat
  BY <1>1, UnitsFinite, TotalType
<1>3. IsFiniteSet(column) /\ Cardinality(column) = f[a]
  BY ColumnSize
<1>4. Units(f) = Units(g) \cup column
  <2>1. DOMAIN f = S /\ DOMAIN g = S \ {a}
    OBVIOUS
  <2>2. ASSUME NEW u \in Units(f) PROVE u \in Units(g) \cup column
    <3>1. PICK i \in S : u \in {i} \X (1 .. f[i])
      BY <2>1, <2>2 DEF Units
    <3>2. CASE i = a
      BY <3>1, <3>2
    <3>3. CASE i # a
      BY <2>1, <3>1, <3>3 DEF Units
    <3> QED BY <3>2, <3>3
  <2>3. ASSUME NEW u \in Units(g) PROVE u \in Units(f)
    <3>1. PICK i \in S \ {a} : u \in {i} \X (1 .. g[i])
      BY <2>1, <2>3 DEF Units
    <3> QED BY <2>1, <3>1 DEF Units
  <2>4. column \subseteq Units(f)
    BY <2>1 DEF Units
  <2> QED BY <2>2, <2>3, <2>4
<1>5. Units(g) \cap column = {}
  <2> SUFFICES ASSUME NEW u \in Units(g), u \in column PROVE FALSE
    OBVIOUS
  <2>1. PICK i \in S \ {a} : u \in {i} \X (1 .. g[i])
    BY DEF Units
  <2> QED BY <2>1
<1> HIDE DEF g, column
<1>6. Cardinality(Units(f)) = Cardinality(Units(g)) + Cardinality(column) - 0
  BY <1>2, <1>3, <1>4, <1>5, FS_Union, FS_EmptySet
<1> QED BY <1>2, <1>3, <1>6 DEF Total, g

\* Two functions that agree but at one index have totals that differ by the
\* difference there.
THEOREM TotalUpdate ==
    ASSUME NEW S, IsFiniteSet(S), NEW f \in [S -> Nat], NEW g \in [S -> Nat],
           NEW a \in S, \A i \in S \ {a} : g[i] = f[i]
    PROVE  Total(g) + f[a] = Total(f) + g[a]
<1> DEFINE rest(h) == [i \in S \ {a} |-> h[i]]
<1>1. rest(f) = rest(g)
  OBVIOUS
<1>2. Total(f) = Total(rest(f)) + f[a] /\ Total(g) = Total(rest(g)) + g[a]
  BY TotalSplit
<1>3. Total(rest(f)) \in Nat
  <2>1. IsFiniteSet(S \ {a}) /\ rest(f) \in [S \ {a} -> Nat]
    BY FS_Difference
  <2> QED BY <2>1, TotalType
<1> HIDE DEF rest
<1>4. f[a] \in Nat /\ g[a] \in Nat
  OBVIOUS
<1> QED BY <1>1, <1>2, <1>3, <1>4

\* Functions that agree everywhere have the same total.
LEMMA TotalEqual ==
    ASSUME NEW S, NEW f \in [S -> Nat], NEW g \in [S -> Nat],
           \A i \in S : g[i] = f[i]
    PROVE  Total(g) = Total(f)
<1>1. g = f
  OBVIOUS
<1> QED BY <1>1

\* The total of a function that is zero everywhere.
LEMMA TotalZero ==
    ASSUME NEW S, NEW f \in [S -> Nat], \A i \in S : f[i] = 0
    PROVE  Total(f) = 0
<1>1. Units(f) = {}
  BY DEF Units
<1> QED BY <1>1, FS_EmptySet DEF Total

\* What two functions cover index by index, their totals cover together.
THEOREM TotalCovered ==
    ASSUME NEW S, IsFiniteSet(S), NEW f \in [S -> Nat], NEW g \in [S -> Nat],
           NEW h \in [S -> Nat], \A i \in S : h[i] <= f[i] + g[i]
    PROVE  Total(h) <= Total(f) + Total(g)
<1> DEFINE both == Units(h) \cap Units(f)
           rest == Units(h) \ Units(f)
           down == [u \in rest |-> <<u[1], u[2] - f[u[1]]>>]
<1>1. /\ IsFiniteSet(Units(h)) /\ IsFiniteSet(Units(f)) /\ IsFiniteSet(Units(g))
      /\ Total(f) \in Nat /\ Total(g) \in Nat /\ Total(h) \in Nat
  BY UnitsFinite, TotalType
<1>2. /\ IsFiniteSet(both) /\ Cardinality(both) <= Total(f)
      /\ Cardinality(both) \in Nat
  BY <1>1, FS_Subset, FS_CardinalityType DEF Total
<1>3. /\ IsFiniteSet(rest) /\ Cardinality(rest) = Total(h) - Cardinality(both)
  BY <1>1, FS_Difference DEF Total
<1>4. ASSUME NEW u \in rest
      PROVE  \E i \in S, n \in Nat : /\ n <= h[i] /\ n > f[i]
                                     /\ u = <<i, n>>
  <2>1. PICK i \in S, n \in Nat : u = <<i, n>> /\ 1 <= n /\ n <= h[i]
    BY DEF Units
  <2>2. n > f[i]
    <3> SUFFICES ASSUME ~(n > f[i]) PROVE FALSE
      OBVIOUS
    <3>1. f[i] \in Nat
      OBVIOUS
    <3>2. n \in 1 .. f[i]
      BY <2>1, <3>1
    <3>3. u \in Units(f)
      BY <2>1, <3>2 DEF Units
    <3> QED BY <3>3
  <2> QED BY <2>1, <2>2
<1>5. \A u \in rest : down[u] \in Units(g)
  <2> SUFFICES ASSUME NEW u \in rest PROVE down[u] \in Units(g)
    OBVIOUS
  <2>1. PICK i \in S, n \in Nat : n <= h[i] /\ n > f[i] /\ u = <<i, n>>
    BY <1>4
  <2>2. h[i] <= f[i] + g[i] /\ f[i] \in Nat /\ g[i] \in Nat /\ h[i] \in Nat
    OBVIOUS
  <2>3. n - f[i] \in 1 .. g[i]
    BY <2>1, <2>2
  <2>4. down[u] = <<i, n - f[i]>>
    BY <2>1
  <2> QED BY <2>3, <2>4 DEF Units
<1>6. \A u, w \in rest : down[u] = down[w] => u = w
  <2> SUFFICES ASSUME NEW u \in rest, NEW w \in rest, down[u] = down[w] PROVE u = w
    OBVIOUS
  <2>1. PICK i \in S, n \in Nat : n <= h[i] /\ n > f[i] /\ u = <<i, n>>
    BY <1>4
  <2>2. PICK j \in S, m \in Nat : m <= h[j] /\ m > f[j] /\ w = <<j, m>>
    BY <1>4
  <2>3. down[u] = <<i, n - f[i]>> /\ down[w] = <<j, m - f[j]>>
    BY <2>1, <2>2
  <2>4. i = j /\ n - f[i] = m - f[j]
    BY <2>3
  <2>5. n = m
    <3>1. f[i] \in Nat
      OBVIOUS
    <3> QED BY <2>4, <3>1
  <2> QED BY <2>1, <2>2, <2>4, <2>5
<1>7. down \in Injection(rest, Units(g))
  <2>1. down \in [rest -> Units(g)]
    BY <1>5
  <2> HIDE DEF down, rest
  <2> QED BY <1>6, <2>1 DEF Injection, IsInjective
<1> HIDE DEF down, rest, both
<1>8. Cardinality(rest) <= Total(g)
  BY <1>1, <1>7, FS_Injection DEF Total
<1> QED BY <1>1, <1>2, <1>3, <1>8

\* A total of no smaller values is no smaller.
THEOREM TotalMonotone ==
    ASSUME NEW S, IsFiniteSet(S), NEW f \in [S -> Nat], NEW h \in [S -> Nat],
           \A i \in S : h[i] <= f[i]
    PROVE  Total(h) <= Total(f)
<1> DEFINE g == [i \in S |-> 0]
<1>1. g \in [S -> Nat] /\ \A i \in S : h[i] <= f[i] + g[i]
  OBVIOUS
<1>2. Total(g) = 0
  BY <1>1, TotalZero
<1> HIDE DEF g
<1>3. Total(h) <= Total(f) + Total(g)
  BY <1>1, TotalCovered
<1>4. Total(f) \in Nat
  BY TotalType
<1> QED BY <1>2, <1>3, <1>4
=============================================================================
