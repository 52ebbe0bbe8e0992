----------------------------- MODULE SharedLemmas -----------------------------
(***************************************************************************)
(* Facts about naturals, division and sums, and about edges and their      *)
(* equations, that the proofs of more than one component need.  Nothing    *)
(* here is about a component.                                              *)
(***************************************************************************)
EXTENDS EdgeGeometry, FiniteSets, Functions, PowersOfTwo, FiniteSetTheorems,
        WellFoundedInduction, NaturalsInduction, TLAPS

(* A set of naturals that is not empty has a least element. *)
LEMMA LeastElement ==
  ASSUME NEW S \in SUBSET Nat, S # {}
  PROVE  \E m \in S : \A k \in S : m <= k
<1>1. PICK m \in S : \A k \in S : ~ (<<k, m>> \in OpToRel(<, Nat))
  BY NatLessThanWellFounded, WFMin
<1>2. \A k \in S : ~ (k < m)
  BY <1>1 DEF OpToRel
<1> QED
  BY <1>2

(* A longer row of blocks of one size covers at least as much. *)
LEMMA Multiples ==
  ASSUME NEW i \in Nat, NEW j \in Nat, NEW k \in Nat, i <= j
  PROVE  i * k <= j * k
<1>1. PICK d \in Nat : j = i + d
  <2>1. j - i \in Nat /\ j = i + (j - i)
    OBVIOUS
  <2> QED
    BY <2>1
<1>2. (i + d) * k = i * k + d * k
  OBVIOUS
<1>3. d * k \in Nat /\ i * k \in Nat
  OBVIOUS
<1> QED
  BY <1>1, <1>2, <1>3

(* Division rounds down, so it keeps bounds that are whole. *)
LEMMA DivBounds ==
  ASSUME NEW n \in Int, NEW b \in Nat \ {0}, NEW m \in Int
  PROVE  /\ n \div b \in Int
         /\ n <= b * m => n \div b <= m
         /\ b * m <= n => m <= n \div b
<1>1. /\ n \div b \in Int /\ n % b \in 0 .. b - 1
      /\ n = b * (n \div b) + (n % b)
  OBVIOUS
<1>2. PICK q \in Int, r \in 0 .. b - 1 : q = n \div b /\ n = b * q + r
  BY <1>1
<1>3. n <= b * m => q <= m
  <2>1. SUFFICES ASSUME n <= b * m, m + 1 <= q PROVE FALSE
    OBVIOUS
  <2>2. b * (m + 1) <= b * q
    BY <2>1
  <2>3. b * (m + 1) = b * m + b
    OBVIOUS
  <2> QED
    BY <1>2, <2>1, <2>2, <2>3
<1>4. b * m <= n => m <= q
  <2>1. SUFFICES ASSUME b * m <= n, q + 1 <= m PROVE FALSE
    OBVIOUS
  <2>2. b * (q + 1) <= b * m
    BY <2>1
  <2>3. b * (q + 1) = b * q + b
    OBVIOUS
  <2> QED
    BY <1>2, <2>1, <2>2, <2>3
<1> QED
  BY <1>1, <1>2, <1>3, <1>4

(* Induction from 0 to n, for the numbers in a set: the least number that is
   not in it would have one before it that is. *)
LEMMA UpTo ==
  ASSUME NEW n \in Nat, NEW S, 0 \in S,
         \A i \in 0 .. n - 1 : i \in S => i + 1 \in S
  PROVE  \A i \in 0 .. n : i \in S
<1> DEFINE Out == {i \in 0 .. n : i \notin S}
<1>1. SUFFICES ASSUME Out # {} PROVE FALSE
  OBVIOUS
<1>2. PICK m \in Out : \A k \in Out : m <= k
  <2>1. Out \in SUBSET Nat
    OBVIOUS
  <2> HIDE DEF Out
  <2> QED
    BY <1>1, <2>1, LeastElement
<1>3. m \in 0 .. n /\ m \notin S /\ m # 0
  OBVIOUS
<1>4. m - 1 \in 0 .. n - 1 /\ m - 1 \in 0 .. n /\ (m - 1) + 1 = m /\ ~ (m <= m - 1)
  BY <1>3
<1>5. m - 1 \in S
  BY <1>2, <1>4
<1> QED
  BY <1>3, <1>4, <1>5
-----------------------------------------------------------------------------
(* The running sums of a row of integers exist. *)
LEMMA RunningSums ==
  ASSUME NEW n \in Nat, NEW f \in [0 .. n - 1 -> Int]
  PROVE  \E p \in [0 .. n -> Int] : p[0] = 0 /\ \A i \in 0 .. n - 1 : p[i + 1] = p[i] + f[i]
<1> DEFINE Sums(k, p) == p[0] = 0 /\ \A i \in 0 .. k - 1 : p[i + 1] = p[i] + f[i]
<1> DEFINE S == {k \in 0 .. n : \E p \in [0 .. k -> Int] : Sums(k, p)}
<1>1. 0 \in S
  <2>1. PICK p \in [0 .. 0 -> Int] : p[0] = 0
    <3>1. [i \in 0 .. 0 |-> 0] \in [0 .. 0 -> Int] /\ [i \in 0 .. 0 |-> 0][0] = 0
      OBVIOUS
    <3> QED
      BY <3>1
  <2>2. \A i \in 0 .. 0 - 1 : p[i + 1] = p[i] + f[i]
    OBVIOUS
  <2> QED
    BY <2>1, <2>2
<1>2. ASSUME NEW k \in 0 .. n - 1, k \in S PROVE k + 1 \in S
  <2>1. PICK p \in [0 .. k -> Int] : Sums(k, p)
    BY <1>2
  <2>2. PICK v \in Int : v = p[k] + f[k]
    OBVIOUS
  <2> DEFINE q == [i \in 0 .. k + 1 |-> IF i = k + 1 THEN v ELSE p[i]]
  <2>3. q \in [0 .. k + 1 -> Int]
    OBVIOUS
  <2>4. q[0] = 0
    BY <2>1
  <2>5. ASSUME NEW i \in 0 .. (k + 1) - 1 PROVE q[i + 1] = q[i] + f[i]
    <3>1. CASE i = k
      BY <2>2, <3>1
    <3>2. CASE i # k
      <4>1. i \in 0 .. k - 1 /\ i + 1 # k + 1 /\ i # k + 1
        BY <3>2
      <4> QED
        BY <2>1, <4>1
    <3> QED
      BY <3>1, <3>2
  <2>6. k + 1 \in 0 .. n
    OBVIOUS
  <2> HIDE DEF q
  <2> QED
    BY <2>3, <2>4, <2>5, <2>6
<1>3. \A k \in 0 .. n : k \in S
  <2> HIDE DEF S
  <2> QED
    BY <1>1, <1>2, UpTo
<1>4. n \in S
  <2> HIDE DEF S
  <2> QED
    BY <1>3
<1> QED
  BY <1>4

(* The sums of all parts of a row exist; which element comes last does not
   matter. *)
LEMMA PartSums ==
  ASSUME NEW n \in Nat, NEW f \in [0 .. n - 1 -> Int]
  PROVE  \E g \in [SUBSET (0 .. n - 1) -> Int] :
           /\ g[{}] = 0
           /\ \A s \in SUBSET (0 .. n - 1) : \A x \in s : g[s] = f[x] + g[s \ {x}]
<1> DEFINE Sums(k, g) ==
      /\ g[{}] = 0
      /\ \A s \in SUBSET (0 .. k - 1) : \A x \in s : g[s] = f[x] + g[s \ {x}]
<1> DEFINE S == {k \in 0 .. n : \E g \in [SUBSET (0 .. k - 1) -> Int] : Sums(k, g)}
<1>1. 0 \in S
  <2>1. 0 .. 0 - 1 = {}
    OBVIOUS
  <2>2. PICK g \in [SUBSET (0 .. 0 - 1) -> Int] : g[{}] = 0
    <3>1. [s \in SUBSET (0 .. 0 - 1) |-> 0] \in [SUBSET (0 .. 0 - 1) -> Int]
      OBVIOUS
    <3>2. [s \in SUBSET (0 .. 0 - 1) |-> 0][{}] = 0
      OBVIOUS
    <3> QED
      BY <3>1, <3>2
  <2>3. \A s \in SUBSET (0 .. 0 - 1) : \A x \in s : g[s] = f[x] + g[s \ {x}]
    BY <2>1
  <2>4. 0 \in 0 .. n
    OBVIOUS
  <2> QED
    BY <2>2, <2>3, <2>4
<1>2. ASSUME NEW k \in 0 .. n - 1, k \in S PROVE k + 1 \in S
  <2>1. PICK g \in [SUBSET (0 .. k - 1) -> Int] : Sums(k, g)
    BY <1>2
  <2>2. PICK v \in Int : v = f[k]
    OBVIOUS
  <2> DEFINE h == [s \in SUBSET (0 .. (k + 1) - 1) |->
                     IF k \in s THEN v + g[s \ {k}] ELSE g[s]]
  <2>3. /\ k \notin 0 .. k - 1
        /\ \A x \in 0 .. (k + 1) - 1 : x # k => x \in 0 .. k - 1
    OBVIOUS
  <2>4. \A s \in SUBSET (0 .. (k + 1) - 1) : s \ {k} \in SUBSET (0 .. k - 1)
    BY <2>3
  <2>5. \A s \in SUBSET (0 .. (k + 1) - 1) : k \notin s => s \in SUBSET (0 .. k - 1)
    BY <2>3
  <2>6. ASSUME NEW s \in SUBSET (0 .. (k + 1) - 1)
        PROVE  /\ h[s] \in Int
               /\ k \in s => h[s] = v + g[s \ {k}]
               /\ k \notin s => h[s] = g[s]
    <3>1. CASE k \in s
      <4>1. h[s] = v + g[s \ {k}] /\ g[s \ {k}] \in Int
        BY <2>4, <3>1
      <4> QED
        BY <3>1, <4>1
    <3>2. CASE k \notin s
      <4>1. h[s] = g[s] /\ g[s] \in Int
        BY <2>5, <3>2
      <4> QED
        BY <3>2, <4>1
    <3> QED
      BY <3>1, <3>2
  <2>7. h \in [SUBSET (0 .. (k + 1) - 1) -> Int]
    BY <2>6
  <2>8. h[{}] = 0
    <3>1. {} \in SUBSET (0 .. (k + 1) - 1) /\ k \notin {}
      OBVIOUS
    <3> HIDE DEF h
    <3> QED
      BY <2>1, <2>6, <3>1
  <2> HIDE DEF h
  <2>9. ASSUME NEW s \in SUBSET (0 .. (k + 1) - 1), NEW x \in s
        PROVE  h[s] = f[x] + h[s \ {x}]
    <3>1. s \ {x} \in SUBSET (0 .. (k + 1) - 1)
      OBVIOUS
    <3>2. CASE x = k
      <4>1. k \notin s \ {x} /\ s \ {k} = s \ {x}
        BY <3>2
      <4> QED
        BY <2>2, <2>6, <3>1, <3>2, <4>1
    <3>3. CASE x # k /\ k \in s
      <4>1. k \in s \ {x} /\ (s \ {x}) \ {k} = (s \ {k}) \ {x} /\ x \in s \ {k}
        BY <3>3
      <4>2. h[s] = v + g[s \ {k}] /\ h[s \ {x}] = v + g[(s \ {k}) \ {x}]
        BY <2>6, <3>1, <3>3, <4>1
      <4>3. g[s \ {k}] = f[x] + g[(s \ {k}) \ {x}]
        BY <2>1, <2>4, <4>1
      <4>4. PICK y \in Int : y = f[x]
        OBVIOUS
      <4>5. PICK z \in Int : z = g[(s \ {k}) \ {x}]
        <5>1. (s \ {k}) \ {x} \in SUBSET (0 .. k - 1)
          BY <2>4
        <5> QED
          BY <5>1
      <4> QED
        BY <4>2, <4>3, <4>4, <4>5
    <3>4. CASE k \notin s
      <4>1. k \notin s \ {x}
        BY <3>4
      <4>2. h[s] = g[s] /\ h[s \ {x}] = g[s \ {x}]
        BY <2>6, <3>1, <3>4, <4>1
      <4>3. s \in SUBSET (0 .. k - 1)
        BY <2>5, <3>4
      <4>4. g[s] = f[x] + g[s \ {x}]
        BY <2>1, <4>3
      <4> QED
        BY <4>2, <4>4
    <3> QED
      BY <3>2, <3>3, <3>4
  <2>10. k + 1 \in 0 .. n
    OBVIOUS
  <2> QED
    BY <2>7, <2>8, <2>9, <2>10
<1>3. \A k \in 0 .. n : k \in S
  <2> HIDE DEF S
  <2> QED
    BY <1>1, <1>2, UpTo
<1>4. n \in S
  <2> HIDE DEF S
  <2> QED
    BY <1>3
<1> QED
  BY <1>4

(* SumFunctionOnSet takes the elements of a set in an order of its own; its
   value is the sum, whatever the order. *)
LEMMA SumTakesOut ==
  ASSUME NEW n \in Nat, NEW f \in [0 .. n - 1 -> Int],
         NEW s \in SUBSET (0 .. n - 1)
  PROVE  /\ SumFunctionOnSet(f, {}) = 0
         /\ SumFunctionOnSet(f, s) \in Int
         /\ \A x \in s : SumFunctionOnSet(f, s) = f[x] + SumFunctionOnSet(f, s \ {x})
<1> DEFINE Some(u) == CHOOSE x \in u : TRUE
<1>1. PICK g \in [SUBSET (0 .. n - 1) -> Int] :
        /\ g[{}] = 0
        /\ \A u \in SUBSET (0 .. n - 1) : \A x \in u : g[u] = f[x] + g[u \ {x}]
  BY PartSums
<1>2. ASSUME NEW T \in SUBSET (0 .. n - 1)
      PROVE  SumFunctionOnSet(f, T) = g[T]
  <2> DEFINE Eq(it) ==
        it = [u \in SUBSET T |-> IF u = {} THEN 0 ELSE f[Some(u)] + it[u \ {Some(u)}]]
  <2>1. SumFunctionOnSet(f, T) =
          (CHOOSE it : it = [u \in SUBSET T |->
             IF u = {} THEN 0
             ELSE f[CHOOSE x \in u : TRUE] + it[u \ {CHOOSE x \in u : TRUE}]])[T]
    BY DEF SumFunctionOnSet, FoldFunctionOnSet, MapThenFoldSet
  <2>2. PICK r : r = [u \in SUBSET T |-> g[u]]
    OBVIOUS
  <2>3. ASSUME NEW u \in SUBSET T
        PROVE  r[u] = IF u = {} THEN 0 ELSE f[Some(u)] + r[u \ {Some(u)}]
    <3>1. CASE u = {}
      <4>1. r[u] = g[u]
        BY <2>2
      <4> QED
        BY <1>1, <3>1, <4>1
    <3>2. CASE u # {}
      <4>1. PICK x \in u : x = Some(u)
        BY <3>2
      <4>2. u \in SUBSET (0 .. n - 1) /\ x \in 0 .. n - 1 /\ u \ {x} \in SUBSET T
        OBVIOUS
      <4>3. r[u] = g[u] /\ r[u \ {x}] = g[u \ {x}]
        BY <2>2, <4>2
      <4>4. g[u] = f[x] + g[u \ {x}]
        BY <1>1, <4>2
      <4>5. r[u] = f[x] + r[u \ {x}]
        BY <4>3, <4>4
      <4> HIDE DEF Some
      <4> QED
        BY <3>2, <4>1, <4>5
    <3> QED
      BY <3>1, <3>2
  <2>4. r = [u \in SUBSET T |-> r[u]]
    BY <2>2
  <2>5. Eq(r)
    <3> HIDE DEF Some
    <3> QED
      BY <2>3, <2>4
  <2>6. PICK it : it = (CHOOSE h : Eq(h)) /\ Eq(it)
    <3> HIDE DEF Eq
    <3> QED
      BY <2>5
  <2>7. SumFunctionOnSet(f, T) = it[T]
    BY <2>1, <2>6
  <2>8. \A u \in SUBSET T : it[u] = IF u = {} THEN 0 ELSE f[Some(u)] + it[u \ {Some(u)}]
    <3> HIDE DEF Some
    <3> QED
      BY <2>6
  <2>9. IsFiniteSet(T) /\ Cardinality(T) \in Nat
    <3>1. IsFiniteSet(0 .. n - 1)
      BY FS_Interval
    <3>2. IsFiniteSet(T)
      BY <3>1, FS_Subset
    <3> QED
      BY <3>2, FS_CardinalityType
  <2> HIDE DEF Eq
  <2> DEFINE K == {k \in Nat : \A u \in SUBSET T : Cardinality(u) = k => it[u] = g[u]}
  <2>10. 0 \in K
    <3>1. ASSUME NEW u \in SUBSET T, Cardinality(u) = 0 PROVE it[u] = g[u]
      <4>1. u = {}
        BY <2>9, <3>1, FS_Subset, FS_EmptySet
      <4> QED
        BY <1>1, <2>8, <4>1
    <3> QED
      BY <3>1
  <2>11. ASSUME NEW k \in Nat, k \in K PROVE k + 1 \in K
    <3>1. ASSUME NEW u \in SUBSET T, Cardinality(u) = k + 1 PROVE it[u] = g[u]
      <4>1. IsFiniteSet(u)
        BY <2>9, FS_Subset
      <4>2. u # {}
        <5>1. k + 1 # 0
          OBVIOUS
        <5> QED
          BY <3>1, <5>1, FS_EmptySet
      <4>3. PICK x \in u : x = Some(u)
        BY <4>2
      <4>4. Cardinality(u \ {x}) = k
        <5>1. Cardinality(u \ {x}) = Cardinality(u) - 1
          BY <4>1, FS_RemoveElement
        <5> QED
          BY <3>1, <5>1
      <4>5. it[u \ {x}] = g[u \ {x}]
        BY <2>11, <4>4
      <4>6. it[u] = f[x] + it[u \ {x}]
        <5> HIDE DEF Some
        <5> QED
          BY <2>8, <4>2, <4>3
      <4>7. g[u] = f[x] + g[u \ {x}]
        BY <1>1
      <4> QED
        BY <4>5, <4>6, <4>7
    <3> QED
      BY <3>1
  <2>12. \A k \in 0 .. Cardinality(T) : k \in K
    <3>1. \A i \in 0 .. Cardinality(T) - 1 : i \in K => i + 1 \in K
      BY <2>9, <2>11
    <3> HIDE DEF K
    <3> QED
      BY <2>9, <2>10, <3>1, UpTo
  <2>13. Cardinality(T) \in K
    <3> HIDE DEF K
    <3> QED
      BY <2>9, <2>12
  <2>14. it[T] = g[T]
    BY <2>13
  <2> QED
    BY <2>7, <2>14
<1>3. SumFunctionOnSet(f, {}) = 0
  BY <1>1, <1>2
<1>4. SumFunctionOnSet(f, s) \in Int
  BY <1>2
<1>5. ASSUME NEW x \in s PROVE SumFunctionOnSet(f, s) = f[x] + SumFunctionOnSet(f, s \ {x})
  <2>1. s \ {x} \in SUBSET (0 .. n - 1) /\ x \in 0 .. n - 1
    OBVIOUS
  <2>2. SumFunctionOnSet(f, s) = g[s] /\ SumFunctionOnSet(f, s \ {x}) = g[s \ {x}]
    BY <1>2, <2>1
  <2>3. g[s] = f[x] + g[s \ {x}]
    BY <1>1
  <2> QED
    BY <2>2, <2>3
<1> QED
  BY <1>3, <1>4, <1>5

(* The sum of the first cells of a row, cell by cell. *)
LEMMA SumOfFirst ==
  ASSUME NEW n \in Nat, NEW f \in [0 .. n - 1 -> Int]
  PROVE  /\ SumFunctionOnSet(f, 0 .. 0 - 1) = 0
         /\ \A i \in 0 .. n : SumFunctionOnSet(f, 0 .. i - 1) \in Int
         /\ \A i \in 0 .. n - 1 :
              SumFunctionOnSet(f, 0 .. (i + 1) - 1) = SumFunctionOnSet(f, 0 .. i - 1) + f[i]
<1>1. 0 .. 0 - 1 = {}
  OBVIOUS
<1>2. \A i \in 0 .. n : 0 .. i - 1 \in SUBSET (0 .. n - 1)
  OBVIOUS
<1>3. ASSUME NEW i \in 0 .. n - 1
      PROVE  SumFunctionOnSet(f, 0 .. (i + 1) - 1) = SumFunctionOnSet(f, 0 .. i - 1) + f[i]
  <2>1. i \in 0 .. (i + 1) - 1 /\ 0 .. (i + 1) - 1 \in SUBSET (0 .. n - 1)
    OBVIOUS
  <2>2. (0 .. (i + 1) - 1) \ {i} = 0 .. i - 1
    OBVIOUS
  <2>3. SumFunctionOnSet(f, 0 .. (i + 1) - 1) = f[i] + SumFunctionOnSet(f, 0 .. i - 1)
    <3>1. PICK s \in SUBSET (0 .. n - 1) : s = 0 .. (i + 1) - 1
      BY <2>1
    <3>2. i \in s /\ s \ {i} = 0 .. i - 1
      BY <2>1, <2>2, <3>1
    <3>3. SumFunctionOnSet(f, s) = f[i] + SumFunctionOnSet(f, s \ {i})
      BY <3>2, SumTakesOut
    <3> QED
      BY <3>1, <3>2, <3>3
  <2>4. 0 .. i - 1 \in SUBSET (0 .. n - 1)
    OBVIOUS
  <2>5. SumFunctionOnSet(f, 0 .. i - 1) \in Int
    BY <2>4, SumTakesOut
  <2>6. PICK u \in Int, v \in Int : u = f[i] /\ v = SumFunctionOnSet(f, 0 .. i - 1)
    BY <2>5
  <2> QED
    BY <2>3, <2>6
<1> QED
  BY <1>1, <1>2, <1>3, SumTakesOut

(* What a loop computes, one step after the other, exists. *)
HasRun(n, V, v, g) ==
  \E f \in [0 .. n -> V] : f[0] = v /\ \A i \in 0 .. n - 1 : f[i + 1] = g[i][f[i]]
(* By induction on the number of steps. *)
LEMMA StepByStep ==
  ASSUME NEW n \in Nat, NEW V, NEW v \in V,
         NEW g \in [0 .. n - 1 -> [V -> V]]
  PROVE  HasRun(n, V, v, g)
<1> DEFINE Steps(k, f) == f[0] = v /\ \A i \in 0 .. k - 1 : f[i + 1] = g[i][f[i]]
<1> DEFINE S == {k \in 0 .. n : \E f \in [0 .. k -> V] : Steps(k, f)}
<1>1. 0 \in S
  <2>1. PICK f \in [0 .. 0 -> V] : f[0] = v
    <3>1. [i \in 0 .. 0 |-> v] \in [0 .. 0 -> V] /\ [i \in 0 .. 0 |-> v][0] = v
      OBVIOUS
    <3> QED
      BY <3>1
  <2>2. \A i \in 0 .. 0 - 1 : f[i + 1] = g[i][f[i]]
    OBVIOUS
  <2> QED
    BY <2>1, <2>2
<1>2. ASSUME NEW k \in 0 .. n - 1, k \in S PROVE k + 1 \in S
  <2>1. PICK f \in [0 .. k -> V] : Steps(k, f)
    BY <1>2
  <2>2. PICK w \in V : w = g[k][f[k]]
    OBVIOUS
  <2> DEFINE q == [i \in 0 .. k + 1 |-> IF i = k + 1 THEN w ELSE f[i]]
  <2>3. q \in [0 .. k + 1 -> V]
    OBVIOUS
  <2>4. q[0] = v
    BY <2>1
  <2>5. ASSUME NEW i \in 0 .. (k + 1) - 1 PROVE q[i + 1] = g[i][q[i]]
    <3>1. CASE i = k
      BY <2>2, <3>1
    <3>2. CASE i # k
      <4>1. i \in 0 .. k - 1 /\ i + 1 # k + 1 /\ i # k + 1
        BY <3>2
      <4> QED
        BY <2>1, <4>1
    <3> QED
      BY <3>1, <3>2
  <2>6. k + 1 \in 0 .. n
    OBVIOUS
  <2> HIDE DEF q
  <2> QED
    BY <2>3, <2>4, <2>5, <2>6
<1>3. \A k \in 0 .. n : k \in S
  <2> HIDE DEF S
  <2> QED
    BY <1>1, <1>2, UpTo
<1>4. n \in S
  <2> HIDE DEF S
  <2> QED
    BY <1>3
<1> QED
  BY <1>4 DEF HasRun

(* A set of numbers below n that has all smaller ones with each of its
   elements is an interval. *)
LEMMA Prefix ==
  ASSUME NEW n \in Nat, NEW S \in SUBSET (0 .. n - 1),
         \A i \in S : \A j \in 0 .. n - 1 : j < i => j \in S
  PROVE  Cardinality(S) \in 0 .. n /\ S = 0 .. Cardinality(S) - 1
<1>1. CASE S = 0 .. n - 1
  <2>1. Cardinality(0 .. n - 1) = n
    BY FS_Interval
  <2> QED
    BY <1>1, <2>1
<1>2. CASE S # 0 .. n - 1
  <2> DEFINE Out == {i \in 0 .. n - 1 : i \notin S}
  <2>1. Out \in SUBSET Nat /\ Out # {}
    <3>1. PICK x : x \in 0 .. n - 1 /\ x \notin S
      BY <1>2, Zenon
    <3> QED
      BY <3>1
  <2>2. PICK k \in Out : \A i \in Out : k <= i
    <3> HIDE DEF Out
    <3> QED
      BY <2>1, LeastElement
  <2>3. k \in 0 .. n - 1 /\ k \notin S
    OBVIOUS
  <2>4. \A i \in 0 .. k - 1 : i \in S
    BY <2>2, <2>3
  <2>5. \A i \in S : i < k
    BY <2>3
  <2>6. S = 0 .. k - 1
    <3>1. \A i : i \in S => i \in 0 .. k - 1
      BY <2>3, <2>5
    <3> QED
      BY <2>4, <3>1, Zenon
  <2>7. Cardinality(0 .. k - 1) = k
    BY <2>3, FS_Interval
  <2> QED
    BY <2>3, <2>6, <2>7
<1> QED
  BY <1>1, <1>2

(* How many elements of S are less than i. *)
Below(S, i) == Cardinality({j \in S : j < i})
(* Going on to k + 1, the number grows by one if k is an element. *)
LEMMA BelowGrows ==
  ASSUME NEW n \in Nat, NEW S \in SUBSET (0 .. n - 1)
  PROVE  /\ Below(S, 0) = 0
         /\ Below(S, n) = Cardinality(S)
         /\ \A k \in 0 .. n : Below(S, k) \in Nat
         /\ \A k \in 0 .. n - 1 :
              Below(S, k + 1) = IF k \in S THEN Below(S, k) + 1 ELSE Below(S, k)
<1>0. IsFiniteSet(0 .. n - 1)
  BY FS_Interval
<1>1. ASSUME NEW k \in 0 .. n
      PROVE  IsFiniteSet({j \in S : j < k}) /\ Below(S, k) \in Nat
  <2>1. {j \in S : j < k} \in SUBSET (0 .. n - 1)
    OBVIOUS
  <2> QED
    BY <1>0, <2>1, FS_Subset, FS_CardinalityType DEF Below
<1>2. {j \in S : j < 0} = {} /\ {j \in S : j < n} = S
  <2>1. \A j \in S : ~ (j < 0) /\ j < n
    OBVIOUS
  <2> QED
    BY <2>1
<1>3. Below(S, 0) = 0 /\ Below(S, n) = Cardinality(S)
  BY <1>2, FS_EmptySet DEF Below
<1>4. ASSUME NEW k \in 0 .. n - 1
      PROVE  Below(S, k + 1) = IF k \in S THEN Below(S, k) + 1 ELSE Below(S, k)
  <2> DEFINE B == {j \in S : j < k}
  <2>1. {j \in S : j < k + 1} = IF k \in S THEN B \cup {k} ELSE B
    <3>1. \A j \in S : j < k + 1 <=> (j < k \/ j = k)
      OBVIOUS
    <3> QED
      BY <3>1
  <2>2. IsFiniteSet(B) /\ k \notin B
    BY <1>1
  <2>3. Cardinality(B \cup {k}) = Cardinality(B) + 1
    <3> HIDE DEF B
    <3> QED
      BY <2>2, FS_AddElement
  <2>4. CASE k \in S
    BY <2>1, <2>3, <2>4 DEF Below
  <2>5. CASE k \notin S
    BY <2>1, <2>5 DEF Below
  <2> QED
    BY <2>4, <2>5
<1> QED
  BY <1>1, <1>3, <1>4

(* The elements of S are numbered by how many are less. *)
LEMMA NthElement ==
  ASSUME NEW n \in Nat, NEW S \in SUBSET (0 .. n - 1)
  PROVE  /\ Cardinality(S) \in Nat
         /\ \A i \in S : Below(S, i) \in 0 .. Cardinality(S) - 1
         /\ \A i, k \in S : i < k => Below(S, i) < Below(S, k)
         /\ \A g \in 0 .. Cardinality(S) - 1 : \E i \in S : Below(S, i) = g
<1>1. PICK b \in [0 .. n -> Nat] : \A k \in 0 .. n : b[k] = Below(S, k)
  <2>1. [k \in 0 .. n |-> Below(S, k)] \in [0 .. n -> Nat]
    BY BelowGrows
  <2> QED
    BY <2>1
<1>2. /\ b[0] = 0 /\ b[n] = Cardinality(S)
      /\ \A k \in 0 .. n - 1 : b[k + 1] = IF k \in S THEN b[k] + 1 ELSE b[k]
  BY <1>1, BelowGrows
<1>3. \A i \in 0 .. n : \A k \in 0 .. n : i <= k => b[i] <= b[k]
  <2> TAKE i \in 0 .. n
  <2> DEFINE T == {k \in 0 .. n : i <= k => b[i] <= b[k]}
  <2>1. 0 \in T
    OBVIOUS
  <2>2. ASSUME NEW k \in 0 .. n - 1, k \in T PROVE k + 1 \in T
    <3>1. k + 1 \in 0 .. n /\ k \in 0 .. n
      OBVIOUS
    <3>2. PICK u \in Nat, v \in Nat, w \in Nat : u = b[i] /\ v = b[k] /\ w = b[k + 1]
      BY <3>1
    <3>3. v <= w
      <4>1. b[k + 1] = b[k] + 1 \/ b[k + 1] = b[k]
        BY <1>2
      <4> QED
        BY <3>2, <4>1
    <3>4. i <= k + 1 => u <= w
      BY <2>2, <3>1, <3>2, <3>3
    <3> QED
      BY <3>1, <3>2, <3>4
  <2>3. \A k \in 0 .. n : k \in T
    <3> HIDE DEF T
    <3> QED
      BY <2>1, <2>2, UpTo
  <2> QED
    BY <2>3
<1>4. ASSUME NEW i \in S, NEW k \in 0 .. n, i < k
      PROVE  b[i] < b[k]
  <2>1. i \in 0 .. n - 1 /\ i \in 0 .. n /\ i + 1 \in 0 .. n /\ i + 1 <= k
    BY <1>4
  <2>2. b[i + 1] = b[i] + 1 /\ b[i + 1] <= b[k]
    BY <1>2, <1>3, <2>1
  <2>3. b[i] \in Nat /\ b[k] \in Nat
    BY <2>1
  <2> QED
    BY <2>2, <2>3
<1>5. \A g \in 0 .. b[n] - 1 : \E i \in S : b[i] = g
  <2> DEFINE T == {k \in 0 .. n : \A g \in 0 .. b[k] - 1 : \E i \in S : b[i] = g}
  <2>1. 0 \in T
    BY <1>2
  <2>2. ASSUME NEW k \in 0 .. n - 1, k \in T PROVE k + 1 \in T
    <3>1. k + 1 \in 0 .. n /\ k \in 0 .. n /\ b[k] \in Nat
      OBVIOUS
    <3>2. ASSUME NEW g \in 0 .. b[k + 1] - 1 PROVE \E i \in S : b[i] = g
      <4>1. CASE g \in 0 .. b[k] - 1
        BY <2>2, <4>1
      <4>2. CASE g \notin 0 .. b[k] - 1
        <5>1. k \in S /\ g = b[k]
          BY <1>2, <3>1, <3>2, <4>2
        <5> QED
          BY <5>1
      <4> QED
        BY <4>1, <4>2
    <3> QED
      BY <3>1, <3>2
  <2>3. \A k \in 0 .. n : k \in T
    <3> HIDE DEF T
    <3> QED
      BY <2>1, <2>2, UpTo
  <2>4. n \in T
    <3> HIDE DEF T
    <3> QED
      BY <2>3
  <2> QED
    BY <2>4
<1>6. \A i \in S : i \in 0 .. n /\ i < n /\ b[i] = Below(S, i) /\ b[i] \in Nat
  BY <1>1
<1>7. b[n] \in Nat
  OBVIOUS
<1>8. \A i \in S : Below(S, i) \in 0 .. Cardinality(S) - 1
  <2> TAKE i \in S
  <2>1. n \in 0 .. n
    OBVIOUS
  <2>2. b[i] < b[n] /\ b[i] \in Nat
    BY <1>4, <1>6, <2>1
  <2> QED
    BY <1>2, <1>6, <1>7, <2>2
<1>9. \A i, k \in S : i < k => Below(S, i) < Below(S, k)
  BY <1>4, <1>6
<1> QED
  BY <1>2, <1>5, <1>6, <1>7, <1>8, <1>9

(* The same, where each step starts from a set of its own. *)
HasRunIn(n, V, v, g) ==
  \E f : /\ f = [i \in 0 .. n |-> f[i]]
         /\ f[0] = v
         /\ \A i \in 0 .. n - 1 : f[i + 1] = g[i][f[i]]
         /\ \A i \in 0 .. n : f[i] \in V[i]
(* From the lemma before, with one set for all steps. *)
LEMMA StepInto ==
  ASSUME NEW n \in Nat, NEW V, NEW v \in V[0], NEW g,
         \A i \in 0 .. n - 1 : \A x \in V[i] : g[i][x] \in V[i + 1]
  PROVE  HasRunIn(n, V, v, g)
<1> DEFINE W == UNION {V[i] : i \in 0 .. n}
<1> DEFINE d == [i \in 0 .. n - 1 |-> [x \in W |-> IF x \in V[i] THEN g[i][x] ELSE v]]
<1>1. v \in W
  <2>1. 0 \in 0 .. n
    OBVIOUS
  <2> QED
    BY <2>1
<1>2. d \in [0 .. n - 1 -> [W -> W]]
  <2> SUFFICES ASSUME NEW i \in 0 .. n - 1, NEW x \in W
               PROVE  (IF x \in V[i] THEN g[i][x] ELSE v) \in W
    OBVIOUS
  <2>1. i + 1 \in 0 .. n
    OBVIOUS
  <2>2. CASE x \in V[i]
    BY <2>1, <2>2
  <2>3. CASE x \notin V[i]
    BY <1>1, <2>3
  <2> QED
    BY <2>2, <2>3
<1>3. HasRun(n, W, v, d)
  <2> HIDE DEF W, d
  <2> QED
    BY <1>1, <1>2, StepByStep
<1>4. PICK f \in [0 .. n -> W] : f[0] = v /\ \A i \in 0 .. n - 1 : f[i + 1] = d[i][f[i]]
  <2> HIDE DEF W, d
  <2> QED
    BY <1>3 DEF HasRun
<1>5. ASSUME NEW i \in 0 .. n - 1, f[i] \in V[i] PROVE f[i + 1] = g[i][f[i]] /\ f[i + 1] \in V[i + 1]
  <2>1. f[i] \in W
    <3>1. i \in 0 .. n
      OBVIOUS
    <3> HIDE DEF W
    <3> QED
      BY <3>1
  <2>2. d[i][f[i]] = g[i][f[i]]
    <3> HIDE DEF W
    <3> QED
      BY <1>5, <2>1
  <2> HIDE DEF W, d
  <2>3. f[i + 1] = g[i][f[i]]
    BY <1>4, <2>2
  <2> QED
    BY <1>5, <2>3
<1> DEFINE T == {i \in 0 .. n : f[i] \in V[i]}
<1>6. 0 \in T
  BY <1>4
<1>7. ASSUME NEW i \in 0 .. n - 1, i \in T PROVE i + 1 \in T
  <2>1. i + 1 \in 0 .. n /\ f[i] \in V[i]
    BY <1>7
  <2>2. f[i + 1] \in V[i + 1]
    BY <1>5, <2>1
  <2> QED
    BY <2>1, <2>2
<1>8. \A i \in 0 .. n : i \in T
  <2> HIDE DEF T
  <2> QED
    BY <1>6, <1>7, UpTo
<1>9. \A i \in 0 .. n - 1 : f[i + 1] = g[i][f[i]]
  <2> TAKE i \in 0 .. n - 1
  <2>1. i \in 0 .. n
    OBVIOUS
  <2>2. f[i] \in V[i]
    BY <1>8, <2>1
  <2> QED
    BY <1>5, <2>2
<1>10. f = [i \in 0 .. n |-> f[i]] /\ \A i \in 0 .. n : f[i] \in V[i]
  BY <1>8
<1> QED
  BY <1>4, <1>9, <1>10 DEF HasRunIn
-----------------------------------------------------------------------------
(* The power of an exponent is reached by doubling that many times. *)
IsPower(n, v) ==
  \E f \in [0 .. n -> Nat] :
    f[0] = 1 /\ (\A i \in 0 .. n - 1 : f[i + 1] = 2 * f[i]) /\ f[n] = v

(* Doubling gives one number. *)
LEMMA PowerExists ==
  ASSUME NEW n \in Nat
  PROVE  /\ \E v \in Nat : IsPower(n, v)
         /\ \A v, u : IsPower(n, v) /\ IsPower(n, u) => v = u
<1>1. \E v \in Nat : IsPower(n, v)
  <2>1. PICK g : g = [i \in 0 .. n - 1 |-> [x \in Nat |-> 2 * x]]
    OBVIOUS
  <2>2. g \in [0 .. n - 1 -> [Nat -> Nat]] /\ 1 \in Nat
    BY <2>1
  <2>3. HasRun(n, Nat, 1, g)
    BY <2>2, StepByStep
  <2>4. PICK f \in [0 .. n -> Nat] : f[0] = 1 /\ \A i \in 0 .. n - 1 : f[i + 1] = g[i][f[i]]
    BY <2>3 DEF HasRun
  <2>5. \A i \in 0 .. n - 1 : f[i + 1] = 2 * f[i]
    <3>1. ASSUME NEW i \in 0 .. n - 1 PROVE f[i + 1] = 2 * f[i]
      <4>1. f[i] \in Nat
        OBVIOUS
      <4> QED
        BY <2>1, <2>4, <4>1
    <3> QED
      BY <3>1
  <2>6. f[n] \in Nat
    OBVIOUS
  <2> QED
    BY <2>4, <2>5, <2>6 DEF IsPower
<1>2. ASSUME NEW v, NEW u, IsPower(n, v), IsPower(n, u) PROVE v = u
  <2>1. PICK f \in [0 .. n -> Nat] :
          f[0] = 1 /\ (\A i \in 0 .. n - 1 : f[i + 1] = 2 * f[i]) /\ f[n] = v
    BY <1>2 DEF IsPower
  <2>2. PICK h \in [0 .. n -> Nat] :
          h[0] = 1 /\ (\A i \in 0 .. n - 1 : h[i + 1] = 2 * h[i]) /\ h[n] = u
    BY <1>2 DEF IsPower
  <2> DEFINE S == {i \in 0 .. n : f[i] = h[i]}
  <2>3. 0 \in S
    BY <2>1, <2>2
  <2>4. \A i \in 0 .. n - 1 : i \in S => i + 1 \in S
    BY <2>1, <2>2
  <2>5. \A i \in 0 .. n : i \in S
    <3> HIDE DEF S
    <3> QED
      BY <2>3, <2>4, UpTo
  <2>6. n \in 0 .. n
    OBVIOUS
  <2> QED
    BY <2>1, <2>2, <2>5, <2>6
<1> QED
  BY <1>1, <1>2

(* The powers of two. *)
LEMMA Powers ==
  /\ Pow2[0] = 1
  /\ \A n \in Nat : Pow2[n] \in Nat \ {0} /\ Pow2[n + 1] = 2 * Pow2[n]
<1>1. PICK p : p = [n \in Nat |-> CHOOSE v \in Nat : IsPower(n, v)]
  OBVIOUS
<1>2. \A n \in Nat : p[n] \in Nat /\ IsPower(n, p[n])
  BY <1>1, PowerExists
<1>3. p[0] = 1
  <2>1. PICK f \in [0 .. 0 -> Nat] : f[0] = 1 /\ f[0] = p[0]
    BY <1>2 DEF IsPower
  <2> QED
    BY <2>1
<1>4. ASSUME NEW n \in Nat PROVE p[n + 1] = 2 * p[n]
  <2>1. IsPower(n + 1, p[n + 1])
    BY <1>2
  <2>2. PICK f \in [0 .. n + 1 -> Nat] :
          f[0] = 1 /\ (\A i \in 0 .. (n + 1) - 1 : f[i + 1] = 2 * f[i]) /\ f[n + 1] = p[n + 1]
    BY <2>1 DEF IsPower
  <2>3. PICK h : h = [i \in 0 .. n |-> f[i]]
    OBVIOUS
  <2>4. h \in [0 .. n -> Nat] /\ h[0] = 1 /\ (\A i \in 0 .. n - 1 : h[i + 1] = 2 * h[i])
    BY <2>2, <2>3
  <2>5. IsPower(n, f[n])
    <3>1. h[n] = f[n]
      BY <2>3
    <3> QED
      BY <2>4, <3>1 DEF IsPower
  <2>6. f[n] = p[n]
    BY <1>2, <2>5, PowerExists
  <2>7. n \in 0 .. (n + 1) - 1
    OBVIOUS
  <2> QED
    BY <2>2, <2>6, <2>7
<1>5. p = [n \in Nat |-> IF n = 0 THEN 1 ELSE 2 * p[n - 1]]
  <2>1. ASSUME NEW n \in Nat PROVE p[n] = IF n = 0 THEN 1 ELSE 2 * p[n - 1]
    <3>1. CASE n = 0
      BY <1>3, <3>1
    <3>2. CASE n # 0
      <4>1. n - 1 \in Nat /\ (n - 1) + 1 = n
        BY <3>2
      <4>2. p[(n - 1) + 1] = 2 * p[n - 1]
        BY <1>4, <4>1
      <4> QED
        BY <3>2, <4>1, <4>2
    <3> QED
      BY <3>1, <3>2
  <2>2. p = [n \in Nat |-> p[n]]
    BY <1>1
  <2> QED
    BY <2>1, <2>2
<1>6. Pow2 = [n \in Nat |-> IF n = 0 THEN 1 ELSE 2 * Pow2[n - 1]]
  <2>1. \E f : f = [n \in Nat |-> IF n = 0 THEN 1 ELSE 2 * f[n - 1]]
    BY <1>5
  <2> QED
    BY <2>1, Zenon DEF Pow2
<1>7. Pow2[0] = 1
  BY <1>6
<1>8. ASSUME NEW n \in Nat PROVE Pow2[n + 1] = 2 * Pow2[n]
  <2>1. n + 1 \in Nat /\ n + 1 # 0 /\ (n + 1) - 1 = n
    OBVIOUS
  <2> QED
    BY <1>6, <2>1
<1>9. ASSUME NEW n \in Nat PROVE Pow2[n] \in Nat \ {0}
  <2> DEFINE S == {i \in Nat : Pow2[i] \in Nat \ {0}}
  <2>1. 0 \in S
    BY <1>7
  <2>2. \A i \in 0 .. n - 1 : i \in S => i + 1 \in S
    BY <1>8
  <2>3. \A i \in 0 .. n : i \in S
    <3> HIDE DEF S
    <3> QED
      BY <2>1, <2>2, UpTo
  <2>4. n \in 0 .. n
    OBVIOUS
  <2> QED
    BY <2>3, <2>4
<1> QED
  BY <1>7, <1>8, <1>9
-----------------------------------------------------------------------------
(* An edge that is not vertical, taken from its left end to its right end,
   with its equation; the equation is zero on its line only. *)
OnLine(a, b, c, x, y) == x * a + y * b + c = 0
FromLeft(s, xl, yl, xr, yr, a, b, c) ==
  /\ Ends(s) = {<<xl, yl>>, <<xr, yr>>} /\ XMin(s) = xl /\ XMax(s) = xr /\ xl < xr
  /\ YMin(s) \in Int /\ YMin(s) <= yl /\ YMin(s) <= yr
  /\ YMax(s) \in Int /\ yl <= YMax(s) /\ yr <= YMax(s)
  /\ Equation(s).a = a /\ Equation(s).b = b /\ Equation(s).c = c
  /\ a = yl - yr /\ b = xr - xl /\ c = -(xl * a) - yl * b
  /\ \A x, y \in Int : OnLine(a, b, c, x, y) => Turn(s.x1, s.y1, s.x2, s.y2, x, y) = 0
Corner(s) == s.x1 \in Int /\ s.y1 \in Int /\ s.x2 \in Int /\ s.y2 \in Int

LEMMA LeftToRight ==
  ASSUME NEW s, Corner(s), XMin(s) < XMax(s)
  PROVE  \E xl, yl, xr, yr, a, b, c \in Int : FromLeft(s, xl, yl, xr, yr, a, b, c)
<1>1. PICK x1 \in Int, y1 \in Int, x2 \in Int, y2 \in Int :
        s.x1 = x1 /\ s.y1 = y1 /\ s.x2 = x2 /\ s.y2 = y2
  BY DEF Corner
<1>2. PICK a \in Int, b \in Int : a = y1 - y2 /\ b = x2 - x1
  OBVIOUS
<1>3. PICK c \in Int : c = -(x1 * a) - y1 * b
  <2>1. -(x1 * a) - y1 * b \in Int
    OBVIOUS
  <2> QED
    BY <2>1
<1>4. -x1 * a - y1 * b = c
  BY <1>3
<1>5. Equation(s) = IF b < 0 THEN [a |-> -a, b |-> -b, c |-> -c] ELSE [a |-> a, b |-> b, c |-> c]
  BY <1>1, <1>2, <1>4 DEF Equation
<1>6. /\ YMin(s) \in Int /\ YMin(s) <= y1 /\ YMin(s) <= y2
      /\ YMax(s) \in Int /\ y1 <= YMax(s) /\ y2 <= YMax(s)
  BY <1>1 DEF YMin, YMax
<1>7. ASSUME NEW x \in Int, NEW y \in Int, OnLine(a, b, c, x, y)
      PROVE  Turn(s.x1, s.y1, s.x2, s.y2, x, y) = 0
  <2>1. (x2 - x1) * (y - y1) - (y2 - y1) * (x - x1) = x * a + y * b + c
    BY <1>2, <1>3
  <2> QED
    BY <1>1, <1>7, <2>1 DEF Turn, OnLine
<1>8. CASE x1 < x2
  <2>1. XMin(s) = x1 /\ XMax(s) = x2 /\ ~ (b < 0)
    BY <1>1, <1>2, <1>8 DEF XMin, XMax
  <2>2. Equation(s).a = a /\ Equation(s).b = b /\ Equation(s).c = c
    BY <1>5, <2>1
  <2>3. Ends(s) = {<<x1, y1>>, <<x2, y2>>}
    BY <1>1 DEF Ends
  <2>4. FromLeft(s, x1, y1, x2, y2, a, b, c)
    BY <1>2, <1>3, <1>6, <1>7, <1>8, <2>1, <2>2, <2>3 DEF FromLeft
  <2> QED
    BY <2>4
<1>9. CASE ~ (x1 < x2)
  <2>1. XMin(s) = x2 /\ XMax(s) = x1 /\ x2 < x1 /\ b < 0
    BY <1>1, <1>2, <1>9 DEF XMin, XMax
  <2>2. PICK p \in Int, q \in Int, t \in Int : p = -a /\ q = -b /\ t = -c
    OBVIOUS
  <2>3. Equation(s).a = p /\ Equation(s).b = q /\ Equation(s).c = t
    BY <1>5, <2>1, <2>2
  <2>4. Ends(s) = {<<x2, y2>>, <<x1, y1>>}
    BY <1>1 DEF Ends
  <2>5. p = y2 - y1 /\ q = x1 - x2
    BY <1>2, <2>2
  <2>6. t = -(x2 * p) - y2 * q
    <3>1. t = x1 * a + y1 * b
      BY <1>3, <2>2
    <3>2. x1 * a + y1 * b = x2 * a + y2 * b
      BY <1>2
    <3> QED
      BY <2>2, <3>1, <3>2
  <2>7. \A x, y \in Int : OnLine(p, q, t, x, y) => Turn(s.x1, s.y1, s.x2, s.y2, x, y) = 0
    <3> SUFFICES ASSUME NEW x \in Int, NEW y \in Int, OnLine(p, q, t, x, y)
                 PROVE  Turn(s.x1, s.y1, s.x2, s.y2, x, y) = 0
      OBVIOUS
    <3>1. x * p + y * q + t = -(x * a + y * b + c)
      BY <2>2
    <3>2. x * a + y * b + c \in Int
      OBVIOUS
    <3>3. OnLine(a, b, c, x, y)
      BY <3>1, <3>2 DEF OnLine
    <3> QED
      BY <1>7, <3>3
  <2>8. FromLeft(s, x2, y2, x1, y1, p, q, t)
    BY <1>6, <2>1, <2>3, <2>4, <2>5, <2>6, <2>7 DEF FromLeft
  <2> QED
    BY <2>8
<1> QED
  BY <1>8, <1>9

(* It crosses the vertical line at x, between its ends, within its box. *)
LEMMA HeightInBox ==
  ASSUME NEW s, NEW xl \in Int, NEW yl \in Int, NEW xr \in Int, NEW yr \in Int,
         NEW a \in Int, NEW b \in Int, NEW c \in Int, FromLeft(s, xl, yl, xr, yr, a, b, c),
         NEW x \in Int, xl <= x, x <= xr, NEW h \in Int, h = -(a * x) - c
  PROVE  YMin(s) * b <= h /\ h <= YMax(s) * b
<1>1. PICK lo \in Int, hi \in Int : lo = YMin(s) /\ hi = YMax(s)
  BY DEF FromLeft
<1>2. lo <= yl /\ lo <= yr /\ yl <= hi /\ yr <= hi /\ a = yl - yr /\ b = xr - xl
  BY <1>1 DEF FromLeft
<1>3. PICK u \in Nat, v \in Nat : u = xr - x /\ v = x - xl
  OBVIOUS
<1>4. h = yl * u + yr * v
  <2>1. c = -(xl * a) - yl * b
    BY DEF FromLeft
  <2> QED
    BY <1>2, <1>3, <2>1
<1>5. b = u + v
  BY <1>2, <1>3
<1>6. lo * u <= yl * u /\ yl * u <= hi * u /\ lo * v <= yr * v /\ yr * v <= hi * v
  BY <1>2
<1>7. lo * b = lo * u + lo * v /\ hi * b = hi * u + hi * v
  BY <1>5
<1>8. lo * b <= h /\ h <= hi * b
  BY <1>4, <1>6, <1>7
<1> QED
  BY <1>1, <1>8

(* A point of its line between its ends, on which it does not pass, is one of
   its ends. *)
LEMMA EndOfOther ==
  ASSUME NEW s, NEW xl \in Int, NEW yl \in Int, NEW xr \in Int, NEW yr \in Int,
         NEW a \in Int, NEW b \in Int, NEW c \in Int, FromLeft(s, xl, yl, xr, yr, a, b, c),
         NEW x \in Int, NEW y \in Int, OnLine(a, b, c, x, y), xl <= x, x <= xr,
         ~ Touches(s, <<x, y>>)
  PROVE  <<x, y>> \in Ends(s)
<1>1. Turn(s.x1, s.y1, s.x2, s.y2, x, y) = 0
  BY DEF FromLeft
<1>2. x \in XMin(s) .. XMax(s)
  BY DEF FromLeft
<1>3. PICK lo \in Int, hi \in Int : lo = YMin(s) /\ hi = YMax(s)
  BY DEF FromLeft
<1>4. PICK h \in Int : h = -(a * x) - c
  <2>1. PICK m \in Int : m = a * x
    OBVIOUS
  <2>2. -m - c \in Int
    OBVIOUS
  <2> QED
    BY <2>1, <2>2
<1>5. lo * b <= h /\ h <= hi * b
  BY <1>3, <1>4, HeightInBox
<1>6. h = y * b /\ b > 0
  <2>1. a * x = x * a
    OBVIOUS
  <2>2. b > 0
    BY DEF FromLeft
  <2> QED
    BY <1>4, <2>1, <2>2 DEF OnLine
<1>7. lo <= y /\ y <= hi
  <2>1. (y - lo) * b >= 0 /\ (hi - y) * b >= 0
    BY <1>5, <1>6
  <2> QED
    BY <1>6, <2>1
<1> QED
  BY <1>1, <1>2, <1>3, <1>7 DEF Touches

(* Two equations of one line have the same points. *)
SameLine(a, b, c, p, q, t) == b > 0 /\ q > 0 /\ a * q = p * b /\ c * q = t * b
SamePoints(a, b, c, p, q, t) ==
  \A x, y \in Int : OnLine(a, b, c, x, y) <=> OnLine(p, q, t, x, y)

LEMMA PointOnBoth ==
  ASSUME NEW a \in Int, NEW b \in Int, NEW c \in Int, NEW p \in Int, NEW q \in Int, NEW t \in Int,
         SameLine(a, b, c, p, q, t)
  PROVE  SamePoints(a, b, c, p, q, t)
<1> SUFFICES ASSUME NEW x \in Int, NEW y \in Int
             PROVE  OnLine(a, b, c, x, y) <=> OnLine(p, q, t, x, y)
  BY DEF SamePoints
<1>1. PICK u \in Int, v \in Int : u = x * a + y * b + c /\ v = x * p + y * q + t
  OBVIOUS
<1>2. q * u = b * v
  <2>1. q * u = x * (a * q) + y * b * q + c * q
    BY <1>1
  <2>2. b * v = x * (p * b) + y * b * q + t * b
    BY <1>1
  <2> QED
    BY <2>1, <2>2 DEF SameLine
<1>3. u = 0 => b * v = 0
  BY <1>2
<1>4. v = 0 => q * u = 0
  BY <1>2
<1> QED
  BY <1>1, <1>3, <1>4 DEF OnLine, SameLine

(* Edges of a planar map do not lie on one another. *)
LEMMA NoOverlap ==
  ASSUME NEW s, NEW xl \in Int, NEW yl \in Int, NEW xr \in Int, NEW yr \in Int,
         NEW a \in Int, NEW b \in Int, NEW c \in Int, FromLeft(s, xl, yl, xr, yr, a, b, c),
         NEW r, NEW ul \in Int, NEW vl \in Int, NEW ur \in Int, NEW vr \in Int,
         NEW p \in Int, NEW q \in Int, NEW t \in Int, FromLeft(r, ul, vl, ur, vr, p, q, t),
         Planar(s, r), xl < ur, ul < xr
  PROVE  ~ SameLine(a, b, c, p, q, t)
<1>1. SUFFICES ASSUME SameLine(a, b, c, p, q, t) PROVE FALSE
  OBVIOUS
<1>2. /\ Ends(s) = {<<xl, yl>>, <<xr, yr>>} /\ Ends(r) = {<<ul, vl>>, <<ur, vr>>}
      /\ xl < xr /\ ul < ur
  BY DEF FromLeft
<1>3. \A x, y \in Int : OnLine(a, b, c, x, y) <=> OnLine(p, q, t, x, y)
  <2>1. SamePoints(a, b, c, p, q, t)
    BY <1>1, PointOnBoth
  <2> QED
    BY <2>1 DEF SamePoints
<1>4. /\ OnLine(a, b, c, xl, yl) /\ OnLine(a, b, c, xr, yr)
  <2>1. a = yl - yr /\ b = xr - xl /\ c = -(xl * a) - yl * b
    BY DEF FromLeft
  <2>2. xr * a + yr * b = xl * a + yl * b
    BY <2>1
  <2> QED
    BY <2>1, <2>2 DEF OnLine
<1>5. /\ OnLine(p, q, t, ul, vl) /\ OnLine(p, q, t, ur, vr)
  <2>1. p = vl - vr /\ q = ur - ul /\ t = -(ul * p) - vl * q
    BY DEF FromLeft
  <2>2. ur * p + vr * q = ul * p + vl * q
    BY <2>1
  <2> QED
    BY <2>1, <2>2 DEF OnLine
<1>6. /\ ~ Touches(r, <<xl, yl>>) /\ ~ Touches(r, <<xr, yr>>)
      /\ ~ Touches(s, <<ul, vl>>) /\ ~ Touches(s, <<ur, vr>>) /\ Ends(s) # Ends(r)
  BY <1>2 DEF Planar
<1>7. xr = ur /\ yr = vr
  <2>1. CASE xr <= ur
    <3>1. OnLine(p, q, t, xr, yr)
      BY <1>3, <1>4
    <3>2. <<xr, yr>> \in Ends(r)
      BY <1>6, <2>1, <3>1, EndOfOther
    <3> QED
      BY <1>2, <3>2
  <2>2. CASE ur <= xr
    <3>1. OnLine(a, b, c, ur, vr)
      BY <1>3, <1>5
    <3>2. <<ur, vr>> \in Ends(s)
      BY <1>6, <2>2, <3>1, EndOfOther
    <3> QED
      BY <1>2, <3>2
  <2> QED
    BY <2>1, <2>2
<1>8. xl = ul /\ yl = vl
  <2>1. CASE ul <= xl
    <3>1. OnLine(p, q, t, xl, yl)
      BY <1>3, <1>4
    <3>2. <<xl, yl>> \in Ends(r)
      BY <1>6, <2>1, <3>1, EndOfOther
    <3> QED
      BY <1>2, <3>2
  <2>2. CASE xl <= ul
    <3>1. OnLine(a, b, c, ul, vl)
      BY <1>3, <1>5
    <3>2. <<ul, vl>> \in Ends(s)
      BY <1>6, <2>2, <3>1, EndOfOther
    <3> QED
      BY <1>2, <3>2
  <2> QED
    BY <2>1, <2>2
<1> QED
  BY <1>2, <1>6, <1>7, <1>8

-----------------------------------------------------------------------------
(* On which side a point that is moved by (1 / f, 1 / f^2) is, is decided as
   Side does: by the value there, else by a, else by b. *)
Decided(v, a, b, g) == IF v # 0 THEN v ELSE IF a # 0 THEN g * a ELSE g * b

ValueMoved(w, v, a, b, f, g) == w = f * f * v + g * (f * a + b)
InReach(a, R) == -R <= a /\ a <= R
IsFine(f, R) == f > 2 * R /\ f > 2 * (R * R)
SameSign(u, v) == (u > 0 <=> v > 0) /\ (u < 0 <=> v < 0)

LEMMA SideMoved ==
  ASSUME NEW v \in Int, NEW a \in Int, NEW b \in Int, NEW g \in {1, -1},
         NEW R \in Nat, NEW f \in Nat, IsFine(f, R), InReach(a, R), InReach(b, R),
         NEW w \in Int, ValueMoved(w, v, a, b, f, g)
  PROVE  SameSign(w, Decided(v, a, b, g))
<1> f >= 2 * R + 1
  BY DEF IsFine
<1>1. PICK p \in Int, q \in Int : p = g * a /\ q = g * b
  OBVIOUS
<1>2. -R <= p /\ p <= R /\ -R <= q /\ q <= R /\ (a = 0 <=> p = 0)
  BY <1>1 DEF InReach
<1>3. PICK u \in Int : u = f * v + p /\ w = f * u + q
  <2>1. w = f * f * v + g * (f * a + b)
    BY DEF ValueMoved
  <2> QED
    BY <1>1, <2>1
<1>4. CASE v > 0
  <2>1. f * v >= f
    BY <1>4
  <2>2. u >= 1
    BY <1>2, <1>3, <2>1
  <2>3. f * u >= f
    BY <2>2
  <2> QED
    BY <1>2, <1>3, <1>4, <2>3 DEF Decided, SameSign
<1>5. CASE v < 0
  <2>1. f * v <= -f
    BY <1>5
  <2>2. u <= -1
    BY <1>2, <1>3, <2>1
  <2>3. f * u <= -f
    BY <2>2
  <2> QED
    BY <1>2, <1>3, <1>5, <2>3 DEF Decided, SameSign
<1>6. CASE v = 0
  <2>1. u = p
    BY <1>3, <1>6
  <2>2. CASE p > 0
    <3>1. f * u >= f
      BY <2>1, <2>2
    <3> QED
      BY <1>1, <1>2, <1>3, <1>6, <2>2, <3>1 DEF Decided, SameSign
  <2>3. CASE p < 0
    <3>1. f * u <= -f
      BY <2>1, <2>3
    <3> QED
      BY <1>1, <1>2, <1>3, <1>6, <2>3, <3>1 DEF Decided, SameSign
  <2>4. CASE p = 0
    <3>1. w = q
      BY <1>3, <2>1, <2>4
    <3> QED
      BY <1>1, <1>2, <1>6, <2>4, <3>1 DEF Decided, SameSign
  <2> QED
    BY <2>2, <2>3, <2>4
<1> QED
  BY <1>4, <1>5, <1>6

(* How a coordinate compares with one that is moved by g / f. *)
LEMMA ShiftedOrder ==
  ASSUME NEW f \in Nat, f > 1, NEW u \in Int, NEW v \in Int, NEW g \in {1, -1}
  PROVE  /\ f * u < f * v + g <=> u < v \/ (u = v /\ g = 1)
         /\ f * v + g < f * u <=> v < u \/ (u = v /\ g = -1)
<1>1. CASE u < v
  <2>1. f * (v - u) >= f
    BY <1>1
  <2>2. f * (v - u) = f * v - f * u
    OBVIOUS
  <2> QED
    BY <1>1, <2>1, <2>2
<1>2. CASE v < u
  <2>1. f * (u - v) >= f
    BY <1>2
  <2>2. f * (u - v) = f * u - f * v
    OBVIOUS
  <2> QED
    BY <1>2, <2>1, <2>2
<1>3. CASE u = v
  BY <1>3
<1> QED
  BY <1>1, <1>2, <1>3

(* An edge over or under x that is not vertical, its equation within R. *)
Small(s, x, R, a, b, c) ==
  /\ \E xl, yl, xr, yr \in Int : FromLeft(s, xl, yl, xr, yr, a, b, c) /\ xl <= x /\ x <= xr
  /\ Equation(s).a = a /\ Equation(s).b = b /\ Equation(s).c = c
  /\ InReach(a, R) /\ InReach(b, R) /\ b > 0

LEMMA SmallEquation ==
  ASSUME NEW s, Corner(s), NEW x \in Int, XMin(s) < XMax(s), XMin(s) <= x, x <= XMax(s),
         NEW R \in Nat, XMax(s) - XMin(s) <= R, YMax(s) - YMin(s) <= R
  PROVE  \E a, b, c \in Int : Small(s, x, R, a, b, c)
<1>1. PICK xl \in Int, yl \in Int, xr \in Int, yr \in Int, a \in Int, b \in Int, c \in Int :
        FromLeft(s, xl, yl, xr, yr, a, b, c)
  BY LeftToRight
<1>2. PICK lo \in Int, hi \in Int : lo = YMin(s) /\ hi = YMax(s)
  BY <1>1 DEF FromLeft
<1>3. /\ XMin(s) = xl /\ XMax(s) = xr /\ xl < xr /\ a = yl - yr /\ b = xr - xl
      /\ lo <= yl /\ lo <= yr /\ yl <= hi /\ yr <= hi
      /\ Equation(s).a = a /\ Equation(s).b = b /\ Equation(s).c = c
  BY <1>1, <1>2 DEF FromLeft
<1>4. hi - lo <= R /\ xr - xl <= R
  BY <1>2, <1>3
<1>5. InReach(a, R) /\ InReach(b, R) /\ b > 0 /\ xl <= x /\ x <= xr
  BY <1>3, <1>4 DEF InReach
<1>6. \E i, j, k, l \in Int : FromLeft(s, i, j, k, l, a, b, c) /\ i <= x /\ x <= k
  BY <1>1, <1>5
<1>7. Small(s, x, R, a, b, c)
  BY <1>3, <1>5, <1>6 DEF Small
<1> QED
  BY <1>7

(* An edge is over the moved point if the point, where it is, is not decided to
   be above the edge. *)
ValueAt(v, a, b, c, x, y) == v = x * a + y * b + c

LEMMA HeightDecides ==
  ASSUME NEW s, NEW x \in Int, NEW y \in Int, NEW g \in {1, -1},
         NEW R \in Nat, NEW f \in Nat, IsFine(f, R),
         NEW a \in Int, NEW b \in Int, NEW c \in Int, Small(s, x, R, a, b, c),
         NEW v \in Int, ValueAt(v, a, b, c, x, y)
  PROVE  /\ HeightMoved(s, x, f, g) > (f * f * y + g) * Equation(s).b <=> ~ (Decided(v, a, b, g) > 0)
         /\ ~ (Decided(v, a, b, g) > 0) => v <= 0
<1>1. /\ Equation(s).a = a /\ Equation(s).b = b /\ Equation(s).c = c
      /\ InReach(a, R) /\ InReach(b, R) /\ b > 0
  BY DEF Small
<1>2. PICK w \in Int : w = f * f * v + g * (f * a + b)
  OBVIOUS
<1>3. w < 0 <=> ~ (Decided(v, a, b, g) > 0)
  <2>1. ValueMoved(w, v, a, b, f, g) /\ IsFine(f, R) /\ InReach(a, R) /\ InReach(b, R)
    BY <1>1, <1>2 DEF ValueMoved
  <2>2. w < 0 <=> Decided(v, a, b, g) < 0
    BY <2>1, SideMoved DEF SameSign
  <2>3. Decided(v, a, b, g) \in Int /\ Decided(v, a, b, g) # 0
    BY <1>1 DEF Decided
  <2> QED
    BY <2>2, <2>3
<1>4. PICK k \in Int : k = a * (f * x + g)
  OBVIOUS
<1>5. HeightMoved(s, x, f, g) = f * (-k - f * c)
  BY <1>1, <1>4 DEF HeightMoved
<1>6. f * (-k - f * c) - (f * f * y + g) * b = -w
  BY <1>2, <1>4 DEF ValueAt
<1>7. f * (-k - f * c) \in Int /\ (f * f * y + g) * b \in Int
  OBVIOUS
<1>8. HeightMoved(s, x, f, g) > (f * f * y + g) * Equation(s).b <=> w < 0
  BY <1>1, <1>5, <1>6, <1>7
<1>9. ~ (Decided(v, a, b, g) > 0) => v <= 0
  BY DEF Decided
<1> QED
  BY <1>3, <1>8, <1>9

(* Which of two edges over a point is lower: the one with the smaller height
   at the point, and where they are equal, the slope decides. *)
Rise(s, x) == -Equation(s).a * x - Equation(s).c
Drop(s, r, x) == Rise(s, x) * Equation(r).b - Rise(r, x) * Equation(s).b
Gap(s, r) == Equation(s).a * Equation(r).b - Equation(r).a * Equation(s).b
Under(drop, gap, g) == drop < 0 \/ (drop = 0 /\ g * gap > 0)

(* Heights are whole, counted in 1 / b. *)
LEMMA WholeRise ==
  ASSUME NEW s, NEW x \in Int, Equation(s).a \in Int, Equation(s).c \in Int
  PROVE  Rise(s, x) \in Int
<1>1. PICK a \in Int, c \in Int : a = Equation(s).a /\ c = Equation(s).c
  OBVIOUS
<1>2. PICK n \in Int : n = a * x
  OBVIOUS
<1>3. Rise(s, x) = -n - c
  BY <1>1, <1>2 DEF Rise
<1>4. -n - c \in Int
  OBVIOUS
<1> QED
  BY <1>3, <1>4

(* How large the product of two coefficients is. *)
LEMMA ProductInReach ==
  ASSUME NEW R \in Nat, NEW v \in Int, NEW w \in Int, InReach(v, R), InReach(w, R)
  PROVE  -(R * R) <= v * w /\ v * w <= R * R
<1>1. /\ (R - v) * (R + w) >= 0 /\ (R + v) * (R - w) >= 0
      /\ (R - v) * (R - w) >= 0 /\ (R + v) * (R + w) >= 0
  BY DEF InReach
<1>2. /\ (R - v) * (R + w) + (R + v) * (R - w) = 2 * (R * R) - 2 * (v * w)
      /\ (R - v) * (R - w) + (R + v) * (R + w) = 2 * (R * R) + 2 * (v * w)
  OBVIOUS
<1>3. PICK t \in Int, z \in Int : t = v * w /\ z = R * R
  OBVIOUS
<1> QED
  BY <1>1, <1>2, <1>3

(* The slopes differ by less than the move could hide. *)
LEMMA LowerIsUnder ==
  ASSUME NEW s, NEW r, NEW x \in Int, NEW g \in {1, -1},
         NEW R \in Nat, NEW f \in Nat, IsFine(f, R),
         NEW a \in Int, NEW b \in Int, NEW c \in Int, Small(s, x, R, a, b, c),
         NEW i \in Int, NEW j \in Int, NEW k \in Int, Small(r, x, R, i, j, k)
  PROVE  /\ Drop(s, r, x) \in Int /\ Gap(s, r) \in Int
         /\ Drop(r, s, x) = -Drop(s, r, x) /\ Gap(r, s) = -Gap(s, r)
         /\ LowerMoved(s, r, x, f, g) <=> Under(Drop(s, r, x), Gap(s, r), g)
<1>1. /\ Equation(s).a = a /\ Equation(s).b = b /\ Equation(s).c = c
      /\ Equation(r).a = i /\ Equation(r).b = j /\ Equation(r).c = k
      /\ InReach(a, R) /\ InReach(b, R) /\ b > 0 /\ InReach(i, R) /\ InReach(j, R) /\ j > 0
  BY DEF Small
<1>2. PICK m \in Int, n \in Int : m = a * x /\ n = i * x
  OBVIOUS
<1>3. PICK h \in Int, u \in Int : h = -m - c /\ u = -n - k
  <2>1. -m - c \in Int /\ -n - k \in Int
    OBVIOUS
  <2> QED
    BY <2>1
<1>4. Rise(s, x) = h /\ Rise(r, x) = u
  BY <1>1, <1>2, <1>3 DEF Rise
<1>5. PICK d \in Int, e \in Int : d = h * j - u * b /\ e = a * j - i * b
  OBVIOUS
<1>6. Drop(s, r, x) = d /\ Gap(s, r) = e
  BY <1>1, <1>4, <1>5 DEF Drop, Gap
<1>7. Drop(r, s, x) = -d /\ Gap(r, s) = -e
  <2>1. Drop(r, s, x) = u * b - h * j /\ Gap(r, s) = i * b - a * j
    BY <1>1, <1>4 DEF Drop, Gap
  <2> QED
    BY <1>5, <2>1
<1>8. -f < e /\ e < f
  <2>1. PICK z \in Int, v \in Int, w \in Int : z = R * R /\ v = a * j /\ w = i * b
    OBVIOUS
  <2>2. v <= z /\ -z <= v /\ w <= z /\ -z <= w
    BY <1>1, <2>1, ProductInReach
  <2>3. f > 2 * z
    BY <2>1 DEF IsFine
  <2> QED
    BY <1>5, <2>1, <2>2, <2>3
<1>9. PICK t \in Int : t = f * d - g * e
  OBVIOUS
<1>10. LowerMoved(s, r, x, f, g) <=> f * t < 0
  <2>1. PICK v \in Int, w \in Int : v = a * (f * x + g) /\ w = i * (f * x + g)
    OBVIOUS
  <2>2. HeightMoved(s, x, f, g) = f * (-v - f * c) /\ HeightMoved(r, x, f, g) = f * (-w - f * k)
    BY <1>1, <2>1 DEF HeightMoved
  <2>3. LowerMoved(s, r, x, f, g) <=> f * (-v - f * c) * j < f * (-w - f * k) * b
    BY <1>1, <2>2 DEF LowerMoved
  <2>4. f * (-v - f * c) * j - f * (-w - f * k) * b = f * t
    BY <1>2, <1>3, <1>5, <1>9, <2>1
  <2>5. f * (-v - f * c) * j \in Int /\ f * (-w - f * k) * b \in Int
    OBVIOUS
  <2> QED
    BY <2>3, <2>4, <2>5
<1>11. f > 0
  BY <1>8
<1>12. f * t < 0 <=> t < 0
  <2>1. t < 0 => f * t < 0
    BY <1>11
  <2>2. t >= 0 => f * t >= 0
    BY <1>11
  <2> QED
    BY <2>1, <2>2
<1>13. t < 0 <=> Under(d, e, g)
  <2>1. CASE d < 0
    <3>1. f * d <= -f
      BY <1>11, <2>1
    <3> QED
      BY <1>8, <1>9, <2>1, <3>1 DEF Under
  <2>2. CASE d > 0
    <3>1. f * d >= f
      BY <1>11, <2>2
    <3> QED
      BY <1>8, <1>9, <2>2, <3>1 DEF Under
  <2>3. CASE d = 0
    BY <1>9, <2>3 DEF Under
  <2> QED
    BY <2>1, <2>2, <2>3
<1> QED
  BY <1>6, <1>7, <1>10, <1>12, <1>13

(* Two edges of a planar map over one point are not equally high there with
   the same slope. *)
LEMMA NotLevel ==
  ASSUME NEW s, NEW r, NEW x \in Int, Planar(s, r), XMin(s) < XMax(r), XMin(r) < XMax(s), NEW R,
         NEW a \in Int, NEW b \in Int, NEW c \in Int, Small(s, x, R, a, b, c),
         NEW i \in Int, NEW j \in Int, NEW k \in Int, Small(r, x, R, i, j, k)
  PROVE  ~ (Drop(s, r, x) = 0 /\ Gap(s, r) = 0)
<1>1. SUFFICES ASSUME Drop(s, r, x) = 0, Gap(s, r) = 0 PROVE FALSE
  OBVIOUS
<1>2. /\ Equation(s).a = a /\ Equation(s).b = b /\ Equation(s).c = c
      /\ Equation(r).a = i /\ Equation(r).b = j /\ Equation(r).c = k /\ b > 0 /\ j > 0
  BY DEF Small
<1>3. PICK m \in Int, n \in Int : m = a * x /\ n = i * x
  OBVIOUS
<1>4. (-m - c) * j - (-n - k) * b = 0 /\ a * j - i * b = 0
  BY <1>1, <1>2, <1>3 DEF Drop, Gap, Rise
<1>5. SameLine(a, b, c, i, j, k)
  <2>1. a * j = i * b
    <3>1. a * j \in Int /\ i * b \in Int
      OBVIOUS
    <3> QED
      BY <1>4, <3>1
  <2>2. m * j = n * b
    <3>1. m * j = (a * j) * x /\ n * b = (i * b) * x
      BY <1>3
    <3> QED
      BY <2>1, <3>1
  <2>3. c * j = k * b
    <3>1. (-m - c) * j - (-n - k) * b = (n * b - m * j) + (k * b - c * j)
      OBVIOUS
    <3>2. PICK t \in Int, u \in Int, v \in Int, w \in Int : t = n * b /\ u = m * j /\ v = k * b /\ w = c * j
      OBVIOUS
    <3> QED
      BY <1>4, <2>2, <3>1, <3>2
  <2> QED
    BY <1>2, <2>1, <2>3 DEF SameLine
<1>6. PICK xl \in Int, yl \in Int, xr \in Int, yr \in Int : FromLeft(s, xl, yl, xr, yr, a, b, c)
  BY DEF Small
<1>7. PICK ul \in Int, vl \in Int, ur \in Int, vr \in Int : FromLeft(r, ul, vl, ur, vr, i, j, k)
  BY DEF Small
<1>8. xl < ur /\ ul < xr
  BY <1>6, <1>7 DEF FromLeft
<1> QED
  BY <1>5, <1>6, <1>7, <1>8, NoOverlap
=============================================================================
