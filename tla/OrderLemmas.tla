---------------------------- MODULE OrderLemmas ----------------------------
(***************************************************************************)
(* What the library's operators Max, Min, SetToSeqs and FlattenSeq are     *)
(* good for: a bounded set of naturals has a largest and a smallest        *)
(* member, a finite set can be sorted, and flattened sequences hold what   *)
(* they held before, each element once.                                    *)
(***************************************************************************)
EXTENDS Integers, FiniteSetsExt, SequencesExt, FiniteSetTheorems, WellFoundedInduction, TLAPS

LEMMA MaxOfNaturals ==
  ASSUME NEW n \in Nat, NEW S \in SUBSET (0..n), S # {}
  PROVE  Max(S) \in S /\ \A y \in S : y <= Max(S)
<1> DEFINE T == {n - y : y \in S}
<1>1. T \subseteq Nat /\ T # {}
  <2>1. \A y \in S : n - y \in Nat
    OBVIOUS
  <2>2. PICK y \in S : TRUE
    OBVIOUS
  <2>3. n - y \in T
    BY <2>2
  <2>. QED
    BY <2>1, <2>3
<1>2. PICK x \in T : \A y \in T : ~ (<<y, x>> \in OpToRel(<, Nat))
  BY <1>1, NatLessThanWellFounded, WFMin, Zenon
<1>3. \A y \in T : ~ (y < x)
  BY <1>1, <1>2 DEF OpToRel
<1>4. PICK z \in S : x = n - z
  BY <1>2
<1>5. \A y \in S : n - y \in T
  OBVIOUS
<1>6. \A y \in S : y <= z
  <2> SUFFICES ASSUME NEW y \in S PROVE y <= z
    OBVIOUS
  <2>1. ~ (n - y < n - z)
    BY <1>3, <1>4, <1>5
  <2>. QED
    BY <2>1
<1>7. \A y \in S : z >= y
  BY <1>6
<1>8. \E m \in S : \A y \in S : m >= y
  BY <1>7
<1>9. Max(S) \in S /\ \A y \in S : Max(S) >= y
  BY <1>8 DEF Max
<1>. QED
  BY <1>9

LEMMA MinOfNaturals ==
  ASSUME NEW S \in SUBSET Nat, S # {}
  PROVE  Min(S) \in S /\ \A y \in S : Min(S) <= y
<1>1. PICK x \in S : \A y \in S : ~ (<<y, x>> \in OpToRel(<, Nat))
  BY NatLessThanWellFounded, WFMin, Zenon
<1>2. \A y \in S : ~ (y < x)
  BY <1>1 DEF OpToRel
<1>3. \A y \in S : x <= y
  BY <1>2
<1>4. Min(S) \in S /\ \A y \in S : Min(S) <= y
  BY <1>3 DEF Min
<1>. QED
  BY <1>4

(* A finite set whose elements have different depths can be put in order:  *)
(* the place of an element is the number of those that are no deeper.      *)
LEMMA OrderExists ==
  ASSUME NEW S, IsFiniteSet(S), NEW d \in [S -> Nat],
         \A x, y \in S : x # y => d[x] # d[y]
  PROVE  \E s \in SetToSeqs(S) : \A i, j \in DOMAIN s : i < j => d[s[i]] < d[s[j]]
<1> DEFINE N == Cardinality(S)
           Below(x) == {y \in S : d[y] <= d[x]}
           rank == [x \in S |-> Cardinality(Below(x))]
<1>1. N \in Nat
  BY FS_CardinalityType
<1>2. ASSUME NEW x \in S
      PROVE  IsFiniteSet(Below(x)) /\ Cardinality(Below(x)) \in 1..N
  <2>1. Below(x) \in SUBSET S /\ x \in Below(x)
    OBVIOUS
  <2>2. IsFiniteSet(Below(x)) /\ Cardinality(Below(x)) <= N
    BY <2>1, FS_Subset
  <2>3. Cardinality(Below(x)) \in Nat /\ Cardinality(Below(x)) # 0
    BY <2>1, <2>2, FS_CardinalityType, FS_EmptySet
  <2>. HIDE DEF Below
  <2>. QED
    BY <1>1, <2>2, <2>3
<1>3. ASSUME NEW x \in S, NEW y \in S, d[x] < d[y]
      PROVE  rank[x] < rank[y]
  <2>1. Below(x) \in SUBSET Below(y) /\ y \in Below(y) /\ y \notin Below(x)
    BY <1>3
  <2>2. Cardinality(Below(x)) <= Cardinality(Below(y)) /\ Cardinality(Below(x)) # Cardinality(Below(y))
    BY <2>1, <1>2, FS_Subset
  <2>. QED
    BY <2>2, <1>2, <1>1
<1>4. rank \in [S -> 1..N]
  BY <1>2
<1> HIDE DEF rank
<1>5. \A x, y \in S : rank[x] = rank[y] => x = y
  <2> SUFFICES ASSUME NEW x \in S, NEW y \in S, x # y PROVE rank[x] # rank[y]
    OBVIOUS
  <2>1. d[x] < d[y] \/ d[y] < d[x]
    OBVIOUS
  <2>2. rank[x] < rank[y] \/ rank[y] < rank[x]
    BY <2>1, <1>3
  <2>. QED
    BY <2>2, <1>4, <1>1
<1>6. rank \in Injection(S, 1..N)
  BY <1>4, <1>5 DEF Injection, IsInjective
<1>7. IsFiniteSet(1..N) /\ Cardinality(1..N) = N
  BY <1>1, FS_Interval
<1>8. rank \in Surjection(S, 1..N)
  BY <1>6, <1>7, FS_Injection
<1>9. \A i \in 1..N : \E x \in S : rank[x] = i
  BY <1>8 DEF Surjection
<1> DEFINE s == [i \in 1..N |-> CHOOSE x \in S : rank[x] = i]
<1>10. \A i \in 1..N : s[i] \in S /\ rank[s[i]] = i
  BY <1>9
<1>11. s \in [1..N -> S] /\ DOMAIN s = 1..N
  BY <1>10
<1> HIDE DEF s
<1>12. s \in SetToSeqs(S)
  BY <1>10, <1>11 DEF SetToSeqs
<1>13. ASSUME NEW i \in 1..N, NEW j \in 1..N, i < j
       PROVE  d[s[i]] < d[s[j]]
  <2>1. s[i] \in S /\ s[j] \in S /\ rank[s[i]] < rank[s[j]]
    BY <1>10, <1>13
  <2>2. ~ (d[s[j]] < d[s[i]])
    BY <2>1, <1>3, <1>4, <1>1
  <2>3. d[s[i]] # d[s[j]]
    BY <2>1, <1>4, <1>1
  <2>. QED
    BY <2>1, <2>2, <2>3
<1>. QED
  BY <1>11, <1>12, <1>13

(* In a finite set with a strict order on it, the number of elements below *)
(* an element is its place.                                                *)
Orders(R, S) ==
  /\ \A x \in S : <<x, x>> \notin R
  /\ \A x, y \in S : x # y => <<x, y>> \in R \/ <<y, x>> \in R
  /\ \A x, y, z \in S : <<x, y>> \in R /\ <<y, z>> \in R => <<x, z>> \in R

Ranking(S, R) == [x \in S |-> Cardinality({y \in S : <<y, x>> \in R})]

LEMMA RanksArePlaces ==
  ASSUME NEW S, IsFiniteSet(S), NEW R, Orders(R, S)
  PROVE  /\ Cardinality(S) \in Nat /\ Ranking(S, R) \in [S -> 0..(Cardinality(S) - 1)]
         /\ \A x, y \in S : Ranking(S, R)[x] < Ranking(S, R)[y] => <<x, y>> \in R
         /\ \A x, y \in S : Ranking(S, R)[x] = Ranking(S, R)[y] => x = y
         /\ \A i \in 1..Cardinality(S) : \E x \in S : Ranking(S, R)[x] = i - 1
<1> DEFINE rank == Ranking(S, R)
           N == Cardinality(S)
           Below(x) == {y \in S : <<y, x>> \in R}
<1>1. N \in Nat
  BY FS_CardinalityType
<1>2. rank = [x \in S |-> Cardinality(Below(x))]
  BY DEF Ranking
<1> HIDE DEF rank
<1>3. ASSUME NEW x \in S
      PROVE  IsFiniteSet(Below(x)) /\ Cardinality(Below(x)) \in 0..(N - 1)
  <2>1. Below(x) \in SUBSET S /\ x \notin Below(x)
    BY DEF Orders
  <2> HIDE DEF Below
  <2>2. IsFiniteSet(Below(x)) /\ Cardinality(Below(x)) <= N
    BY <2>1, FS_Subset
  <2>3. Cardinality(Below(x)) # N
    BY <2>1, FS_Subset
  <2>4. Cardinality(Below(x)) \in Nat
    BY <2>2, FS_CardinalityType
  <2> HIDE DEF N
  <2> QED BY <1>1, <2>2, <2>3, <2>4
<1>4. ASSUME NEW x \in S, NEW y \in S, <<x, y>> \in R
      PROVE  rank[x] < rank[y]
  <2>1. Below(x) \in SUBSET Below(y)
    BY <1>4 DEF Orders
  <2>2. x \in Below(y) /\ x \notin Below(x)
    BY <1>4 DEF Orders
  <2> HIDE DEF Below
  <2>3. Cardinality(Below(x)) <= Cardinality(Below(y)) /\ Cardinality(Below(x)) # Cardinality(Below(y))
    BY <2>1, <2>2, <1>3, FS_Subset
  <2> HIDE DEF N
  <2>4. Cardinality(Below(x)) \in Nat /\ Cardinality(Below(y)) \in Nat
    BY <1>1, <1>3
  <2> QED BY <2>3, <2>4, <1>2
<1>5. rank \in [S -> 0..(N - 1)]
  <2> HIDE DEF Below, N
  <2> QED BY <1>2, <1>3
<1> HIDE DEF Below
<1>6. ASSUME NEW x \in S, NEW y \in S, x # y PROVE rank[x] # rank[y]
  <2>1. rank[x] < rank[y] \/ rank[y] < rank[x]
    BY <1>4, <1>6 DEF Orders
  <2>2. rank[x] \in Nat /\ rank[y] \in Nat
    BY <1>5
  <2> QED BY <2>1, <2>2
<1>7. \A i \in 0..(N - 1) : \E x \in S : rank[x] = i
  <2> DEFINE P == 0..(N - 1)
  <2>1. rank \in Injection(S, P)
    BY <1>5, <1>6 DEF Injection, IsInjective
  <2>2. IsFiniteSet(P) /\ Cardinality(P) = N
    <3> HIDE DEF N
    <3>1. 0 \in Int /\ N - 1 \in Int /\ (0 > N - 1 => N = 0) /\ (N - 1) - 0 + 1 = N
      BY <1>1
    <3> QED BY <3>1, FS_Interval
  <2> HIDE DEF P
  <2>3. rank \in Surjection(S, P)
    BY <2>1, <2>2, FS_Injection
  <2> QED BY <2>3 DEF Surjection, P
<1>8. ASSUME NEW x \in S, NEW y \in S, rank[x] < rank[y] PROVE <<x, y>> \in R
  <2>1. rank[x] \in Nat /\ rank[y] \in Nat /\ ~(rank[y] < rank[x])
    BY <1>5, <1>8
  <2>2. x # y
    BY <1>8, <2>1
  <2>3. <<y, x>> \notin R
    BY <1>4, <2>1
  <2> QED BY <2>2, <2>3 DEF Orders
<1>9. \A i \in 1..N : \E x \in S : rank[x] = i - 1
  <2>1. \A i \in 1..N : i - 1 \in 0..(N - 1)
    <3> HIDE DEF N
    <3> QED BY <1>1
  <2> QED BY <1>7, <2>1
<1> QED BY <1>1, <1>5, <1>6, <1>8, <1>9 DEF rank

(* What a recursion over 0..n defines is a function.                       *)
Recurs(f, n, start, step) == f[0] = start /\ \A i \in 1..n : f[i] = step[i][f[i - 1]]

LEMMA RecursionExists ==
  ASSUME NEW n \in Nat, NEW A, NEW start \in A, NEW step \in [1..n -> [A -> A]]
  PROVE  \E f \in [0..n -> A] : Recurs(f, n, start, step)
<1> DEFINE Runs(f, m) == f \in [0..m -> A] /\ f[0] = start /\ \A i \in 1..m : f[i] = step[i][f[i - 1]]
           bad == {m \in 0..n : ~ \E f : Runs(f, m)}
<1>1. Runs([i \in 0..0 |-> start], 0)
  OBVIOUS
<1>2. ASSUME NEW m \in 1..n, NEW f, Runs(f, m - 1) PROVE \E g : Runs(g, m)
  <2> DEFINE g == [i \in 0..m |-> IF i = m THEN step[m][f[m - 1]] ELSE f[i]]
  <2>1. m \in Nat /\ m # 0 /\ m - 1 \in 0..(m - 1) /\ 0 \in 0..m
    OBVIOUS
  <2>2. f \in [0..(m - 1) -> A] /\ f[0] = start /\ \A i \in 1..(m - 1) : f[i] = step[i][f[i - 1]]
    BY <1>2
  <2>3. step[m] \in [A -> A] /\ f[m - 1] \in A
    BY <2>1, <2>2
  <2>4. step[m][f[m - 1]] \in A
    BY <2>3
  <2>5. \A i \in 0..m : i # m => i \in 0..(m - 1)
    OBVIOUS
  <2>6. \A i \in 0..m : g[i] = IF i = m THEN step[m][f[m - 1]] ELSE f[i]
    OBVIOUS
  <2>7. g \in [0..m -> A]
    BY <2>2, <2>4, <2>5
  <2> HIDE DEF g
  <2>8. g[0] = start
    BY <2>1, <2>2, <2>6
  <2>9. ASSUME NEW i \in 1..m PROVE g[i] = step[i][g[i - 1]]
    <3>1. i \in 0..m /\ i - 1 \in 0..m /\ i - 1 # m
      BY <2>1
    <3>2. g[i - 1] = f[i - 1]
      BY <3>1, <2>6
    <3>3. CASE i = m
      BY <3>1, <3>2, <3>3, <2>6
    <3>4. CASE i # m
      <4>1. i \in 1..(m - 1)
        BY <2>1, <3>4
      <4> QED BY <4>1, <3>1, <3>2, <3>4, <2>2, <2>6
    <3> QED BY <3>3, <3>4
  <2> QED BY <2>7, <2>8, <2>9
<1>3. bad = {}
  <2> SUFFICES ASSUME bad # {} PROVE FALSE
    OBVIOUS
  <2>1. bad \in SUBSET Nat
    OBVIOUS
  <2> DEFINE m == Min(bad)
  <2> HIDE DEF bad
  <2>2. m \in bad /\ \A y \in bad : m <= y
    BY <2>1, MinOfNaturals
  <2> HIDE DEF m
  <2>3. m \in 0..n /\ ~ \E f : Runs(f, m)
    BY <2>2 DEF bad
  <2>4. m # 0
    BY <1>1, <2>3
  <2>5. m \in 1..n /\ m - 1 \in 0..n /\ ~ (m <= m - 1)
    BY <2>3, <2>4
  <2>6. m - 1 \notin bad
    BY <2>2, <2>5
  <2>7. \E f : Runs(f, m - 1)
    BY <2>5, <2>6 DEF bad
  <2> HIDE DEF Runs
  <2> QED BY <1>2, <2>3, <2>5, <2>7
<1>4. \E f : Runs(f, n)
  <2>1. n \in 0..n
    OBVIOUS
  <2> HIDE DEF Runs
  <2> QED BY <1>3, <2>1
<1>5. PICK f : Runs(f, n)
  BY <1>4, Zenon
<1> QED BY <1>5 DEF Recurs

(* flat lists what the first m of seqs list, and nothing twice.            *)
Origins(a, b, flat, seqs, m) ==
    /\ \A n \in DOMAIN flat : a[n] \in 1..m /\ b[n] \in DOMAIN seqs[a[n]] /\ flat[n] = seqs[a[n]][b[n]]
    /\ \A n, o \in DOMAIN flat : a[n] = a[o] /\ b[n] = b[o] => n = o
    /\ \A k \in 1..m : \A j \in DOMAIN seqs[k] : \E n \in DOMAIN flat : a[n] = k /\ b[n] = j
Lists(flat, seqs, m) == \E a, b : Origins(a, b, flat, seqs, m)

LEMMA ListsOneMore ==
  ASSUME NEW A, NEW seqs \in Seq(Seq(A)), NEW m \in 1..Len(seqs),
         NEW flat \in Seq(A), Lists(flat, seqs, m - 1)
  PROVE  flat \o seqs[m] \in Seq(A) /\ Lists(flat \o seqs[m], seqs, m)
<1> DEFINE L == Len(flat)
           s == seqs[m]
           more == flat \o s
<1>1. s \in Seq(A) /\ L \in Nat /\ Len(s) \in Nat /\ m \in Nat /\ m - 1 \in Nat
      /\ DOMAIN flat = 1..L /\ DOMAIN s = 1..Len(s)
  OBVIOUS
<1>2. /\ more \in Seq(A) /\ DOMAIN more = 1..(L + Len(s))
      /\ \A n \in 1..L : more[n] = flat[n]
      /\ \A n \in (L + 1)..(L + Len(s)) : more[n] = s[n - L]
  <2> HIDE DEF s
  <2> QED BY <1>1
<1>3. PICK a, b :
    /\ \A n \in DOMAIN flat : a[n] \in 1..(m - 1) /\ b[n] \in DOMAIN seqs[a[n]] /\ flat[n] = seqs[a[n]][b[n]]
    /\ \A n, o \in DOMAIN flat : a[n] = a[o] /\ b[n] = b[o] => n = o
    /\ \A k \in 1..(m - 1) : \A j \in DOMAIN seqs[k] : \E n \in DOMAIN flat : a[n] = k /\ b[n] = j
  BY DEF Lists, Origins
<1> DEFINE N == L + Len(s)
           c == [n \in 1..N |-> IF n <= L THEN a[n] ELSE m]
           d == [n \in 1..N |-> IF n <= L THEN b[n] ELSE n - L]
<1>4. /\ \A n \in 1..N : n <= L => n \in DOMAIN flat /\ n \in 1..L
      /\ \A n \in 1..N : ~(n <= L) => n - L \in 1..Len(s) /\ n \in (L + 1)..N /\ n - L \in Nat
      /\ \A n \in DOMAIN flat : n \in 1..N /\ n <= L
      /\ \A j \in 1..Len(s) : L + j \in 1..N /\ ~(L + j <= L) /\ (L + j) - L = j
  BY <1>1
<1>5. \A n \in 1..N : c[n] = (IF n <= L THEN a[n] ELSE m) /\ d[n] = (IF n <= L THEN b[n] ELSE n - L)
  OBVIOUS
<1>6. DOMAIN more = 1..N
  BY <1>2
<1> HIDE DEF c, d, N, more
<1>7. ASSUME NEW n \in 1..N
      PROVE  c[n] \in 1..m /\ d[n] \in DOMAIN seqs[c[n]] /\ more[n] = seqs[c[n]][d[n]]
  <2>1. CASE n <= L
    <3>1. n \in DOMAIN flat /\ c[n] = a[n] /\ d[n] = b[n] /\ more[n] = flat[n]
      BY <1>2, <1>4, <1>5, <2>1
    <3>2. a[n] \in 1..(m - 1) => a[n] \in 1..m
      BY <1>1
    <3> QED BY <1>3, <3>1, <3>2
  <2>2. CASE ~(n <= L)
    <3>1. c[n] = m /\ d[n] = n - L /\ n - L \in DOMAIN s
      BY <1>1, <1>4, <1>5, <2>2
    <3>2. more[n] = s[n - L]
      <4>1. n \in (L + 1)..(L + Len(s))
        BY <1>4, <2>2 DEF N
      <4> QED BY <1>2, <4>1
    <3> QED BY <1>1, <3>1, <3>2
  <2> QED BY <2>1, <2>2
<1>8. ASSUME NEW n \in 1..N, NEW o \in 1..N, c[n] = c[o], d[n] = d[o]
      PROVE  n = o
  <2>1. \A x \in 1..N : x <= L => c[x] \in 1..(m - 1) /\ c[x] # m
    <3> SUFFICES ASSUME NEW x \in 1..N, x <= L PROVE c[x] \in 1..(m - 1) /\ c[x] # m
      OBVIOUS
    <3>1. c[x] = a[x] /\ a[x] \in 1..(m - 1)
      BY <1>3, <1>4, <1>5
    <3> QED BY <3>1, <1>1
  <2>2. CASE n <= L /\ o <= L
    BY <1>3, <1>4, <1>5, <1>8, <2>2
  <2>3. CASE ~(n <= L) /\ ~(o <= L)
    <3>1. n - L = o - L
      BY <1>5, <1>8, <2>3
    <3>2. n \in Nat /\ o \in Nat
      OBVIOUS
    <3> QED BY <1>1, <3>1, <3>2
  <2>4. \A x \in 1..N : ~(x <= L) => c[x] = m
    BY <1>5
  <2> QED BY <1>8, <2>1, <2>2, <2>3, <2>4
<1>9. ASSUME NEW k \in 1..m, NEW j \in DOMAIN seqs[k]
       PROVE  \E n \in 1..N : c[n] = k /\ d[n] = j
  <2>1. CASE k = m
    <3>1. j \in 1..Len(s)
      BY <1>1, <1>9, <2>1
    <3>2. L + j \in 1..N /\ c[L + j] = m /\ d[L + j] = j
      BY <1>4, <1>5, <3>1
    <3> QED BY <2>1, <3>2
  <2>2. CASE k # m
    <3>1. k \in 1..(m - 1)
      BY <1>1, <2>2
    <3>2. PICK n \in DOMAIN flat : a[n] = k /\ b[n] = j
      BY <1>3, <3>1
    <3>3. n \in 1..N /\ n <= L
      BY <1>4
    <3> QED BY <1>5, <3>2, <3>3
  <2> QED BY <2>1, <2>2
<1>10. Lists(more, seqs, m)
  <2> DEFINE dom == DOMAIN more
  <2>1. dom = 1..N
    BY <1>6
  <2>2. /\ \A n \in dom : c[n] \in 1..m /\ d[n] \in DOMAIN seqs[c[n]] /\ more[n] = seqs[c[n]][d[n]]
        /\ \A n, o \in dom : c[n] = c[o] /\ d[n] = d[o] => n = o
        /\ \A k \in 1..m : \A j \in DOMAIN seqs[k] : \E n \in dom : c[n] = k /\ d[n] = j
    <3> HIDE DEF dom
    <3> QED BY <1>7, <1>8, <1>9, <2>1, Zenon
  <2>3. Origins(c, d, more, seqs, m)
    BY <2>2, Zenon DEF Origins
  <2> QED BY <2>3 DEF Lists
<1> QED BY <1>2, <1>10 DEF more

LEMMA FlattenLists ==
  ASSUME NEW A, NEW seqs \in Seq(Seq(A))
  PROVE  FlattenSeq(seqs) \in Seq(A) /\ Lists(FlattenSeq(seqs), seqs, Len(seqs))
<1> DEFINE N == Len(seqs)
<1>1. N \in Nat /\ DOMAIN seqs = 1..N /\ \A i \in 1..N : seqs[i] \in Seq(A)
  OBVIOUS
<1>2. <<>> \in Seq(A) /\ Lists(<<>>, seqs, 0)
  <2>1. DOMAIN <<>> = {} /\ 1..0 = {}
    OBVIOUS
  <2> QED BY <2>1 DEF Lists, Origins
<1>3. CASE N = 0
  <2>1. seqs = <<>> /\ FlattenSeq(seqs) = seqs
    BY <1>3 DEF FlattenSeq
  <2> QED BY <1>2, <1>3, <2>1
<1>4. CASE N # 0
  <2> DEFINE flatten == CHOOSE f : f = [i \in 1..N |-> IF i = 1 THEN seqs[i] ELSE f[i - 1] \o seqs[i]]
             step == [i \in 1..(N - 1) |-> [s \in Seq(A) |-> s \o seqs[i + 1]]]
  <2>1. FlattenSeq(seqs) = flatten[N]
    BY <1>4 DEF FlattenSeq
  <2>2. \A i \in 1..(N - 1) : i + 1 \in 1..N
    BY <1>1
  <2>3. step \in [1..(N - 1) -> [Seq(A) -> Seq(A)]] /\ N - 1 \in Nat /\ seqs[1] \in Seq(A)
    <3>1. ASSUME NEW i \in 1..(N - 1), NEW s \in Seq(A) PROVE s \o seqs[i + 1] \in Seq(A)
      <4>1. seqs[i + 1] \in Seq(A)
        BY <1>1, <2>2
      <4> QED BY <4>1
    <3> QED BY <1>1, <1>4, <3>1
  <2>4. \A i \in 1..(N - 1) : \A s \in Seq(A) : step[i][s] = s \o seqs[i + 1]
    OBVIOUS
  <2> HIDE DEF step, N
  <2>5. PICK h \in [0..(N - 1) -> Seq(A)] :
            h[0] = seqs[1] /\ \A i \in 1..(N - 1) : h[i] = step[i][h[i - 1]]
    <3> DEFINE n == N - 1
               B == Seq(A)
               first == seqs[1]
    <3>1. n \in Nat /\ first \in B /\ step \in [1..n -> [B -> B]]
      BY <2>3
    <3> HIDE DEF n, B, first
    <3>2. PICK h \in [0..n -> B] : Recurs(h, n, first, step)
      BY <3>1, RecursionExists
    <3> QED BY <3>2 DEF Recurs, n, B, first
  <2> DEFINE f == [i \in 1..N |-> h[i - 1]]
  <2>6. f = [i \in 1..N |-> IF i = 1 THEN seqs[i] ELSE f[i - 1] \o seqs[i]]
    <3>1. ASSUME NEW i \in 1..N PROVE f[i] = IF i = 1 THEN seqs[i] ELSE f[i - 1] \o seqs[i]
      <4>1. i - 1 \in 0..(N - 1) /\ f[i] = h[i - 1]
        BY <1>1
      <4>2. CASE i = 1
        BY <2>5, <4>1, <4>2
      <4>3. CASE i # 1
        <5>1. i - 1 \in 1..(N - 1) /\ i - 1 \in 1..N /\ i - 1 # 0 /\ (i - 1) - 1 \in 0..(N - 1) /\ (i - 1) + 1 = i
          BY <1>1, <4>3
        <5>2. h[(i - 1) - 1] \in Seq(A) /\ f[i - 1] = h[(i - 1) - 1]
          BY <5>1
        <5>3. h[i - 1] = step[i - 1][h[(i - 1) - 1]]
          BY <2>5, <4>1, <5>1
        <5>4. step[i - 1][h[(i - 1) - 1]] = h[(i - 1) - 1] \o seqs[(i - 1) + 1]
          BY <2>4, <5>1, <5>2
        <5> QED BY <4>1, <4>3, <5>1, <5>2, <5>3, <5>4
      <4> QED BY <4>2, <4>3
    <3> QED BY <3>1
  <2> HIDE DEF f
  <2>7. flatten = [i \in 1..N |-> IF i = 1 THEN seqs[i] ELSE flatten[i - 1] \o seqs[i]]
    BY <2>6
  <2>8. \A i \in 1..N : flatten[i] = IF i = 1 THEN seqs[i] ELSE flatten[i - 1] \o seqs[i]
    <3> HIDE DEF flatten
    <3> QED BY <2>7
  <2> HIDE DEF flatten
  <2> DEFINE Good(m) == flatten[m] \in Seq(A) /\ Lists(flatten[m], seqs, m)
             bad == {m \in 1..N : ~Good(m)}
  <2>9. ASSUME NEW m \in 1..N, m = 1 \/ Good(m - 1) PROVE Good(m)
    <3> DEFINE before == IF m = 1 THEN <<>> ELSE flatten[m - 1]
    <3>1. before \in Seq(A) /\ Lists(before, seqs, m - 1)
      <4>1. CASE m = 1
        BY <1>2, <4>1
      <4>2. CASE m # 1
        BY <2>9, <4>2
      <4> QED BY <4>1, <4>2
    <3>2. flatten[m] = before \o seqs[m]
      <4>1. seqs[m] \in Seq(A)
        BY <1>1
      <4>2. <<>> \o seqs[m] = seqs[m]
        BY <4>1
      <4> QED BY <2>8, <4>2
    <3> HIDE DEF before
    <3>3. m \in 1..Len(seqs)
      BY DEF N
    <3>4. before \o seqs[m] \in Seq(A) /\ Lists(before \o seqs[m], seqs, m)
      BY <3>1, <3>3, ListsOneMore
    <3> QED BY <3>2, <3>4
  <2> HIDE DEF Good
  <2>10. bad = {}
    <3> SUFFICES ASSUME bad # {} PROVE FALSE
      OBVIOUS
    <3> DEFINE m == Min(bad)
    <3>1. bad \in SUBSET Nat
      BY <1>1
    <3>2. \A x \in bad : x \in 1..N /\ ~Good(x)
      OBVIOUS
    <3>3. \A x \in 1..N : x \notin bad => Good(x)
      OBVIOUS
    <3> HIDE DEF bad
    <3>4. m \in bad /\ \A y \in bad : m <= y
      BY <3>1, MinOfNaturals
    <3> HIDE DEF m
    <3>5. m \in 1..N /\ ~Good(m)
      BY <3>2, <3>4
    <3>6. m = 1 \/ (m - 1 \in 1..N /\ ~(m <= m - 1))
      BY <1>1, <3>5
    <3>7. m = 1 \/ Good(m - 1)
      BY <3>3, <3>4, <3>6
    <3> QED BY <2>9, <3>5, <3>7
  <2>11. Good(N)
    <3>1. N \in 1..N
      BY <1>1, <1>4
    <3> QED BY <2>10, <3>1
  <2> QED BY <2>1, <2>11 DEF Good, N
<1> QED BY <1>3, <1>4
=============================================================================
