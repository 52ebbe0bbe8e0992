------------------------ MODULE XsectPipelineProofs ------------------------
(***************************************************************************)
(* Theorems about XsectPipeline, for every number of crossings and every   *)
(* order of them.                                                          *)
(*                                                                         *)
(* The sorted crossings lie in consecutive ranges, one for each edge that  *)
(* is crossed.  A thread moves crossings within the range of its edge and  *)
(* nowhere else, so the ranges are the same for all threads and stay what  *)
(* they are; as each range has one midpoint less than it has slots, the    *)
(* numbers that the threads give to their midpoints meet nowhere and leave *)
(* no gap.  Of the quicksort it is enough to know that two crossings of a  *)
(* range that are in the wrong order are both in one range that is put off *)
(* or is being sorted, and that such ranges do not overlap; and, for the   *)
(* size of its stack, that what is put off after a range fits into a room  *)
(* no larger than that range.                                              *)
(***************************************************************************)
EXTENDS XsectPipeline, SharedLemmas, SequenceTheorems

-----------------------------------------------------------------------------
(* What follows speaks of an input, a map and an array that do not change. *)

Spots(in) == 0 .. Len(in.queue) - 1
Found(in) == {in.queue[i] : i \in 1 .. Len(in.queue)}

(* Each crossing is in one slot. *)
Whole(in, a) ==
  /\ DOMAIN a = Spots(in)
  /\ \A i \in Spots(in) : a[i].x \in Found(in)
  /\ \A c \in Found(in) : \E i \in Spots(in) : a[i].x = c
  /\ \A i, j \in Spots(in) : a[i].x = a[j].x => i = j

(* The slots are in the order of the edges. *)
Sorted(in, m, a) == \A i, j \in Spots(in) : i < j => Eid(m, a[i].x) <= Eid(m, a[j].x)

(* The order along an edge. *)
LessIn(in, m, r, s) ==
  \/ in.rank[m][r.x] < in.rank[m][s.x]
  \/ /\ in.program \in {"rt", "vk"}
     /\ in.rank[m][r.x] = in.rank[m][s.x]
     /\ Eid(1 - m, r.x) < Eid(1 - m, s.x)

(* The edges that are crossed, from the least to the greatest. *)
Edges(in, m, a, u) ==
  \E N \in Nat :
    /\ DOMAIN u = 0 .. N - 1
    /\ \A g \in 0 .. N - 1 : u[g] \in Nat /\ \E i \in Spots(in) : Eid(m, a[i].x) = u[g]
    /\ \A g, h \in 0 .. N - 1 : g < h => u[g] < u[h]
    /\ \A i \in Spots(in) : \E g \in 0 .. N - 1 : Eid(m, a[i].x) = u[g]

(* What the two searches find, for all groups. *)
First(in, m, a, e) == Cardinality({i \in Spots(in) : Eid(m, a[i].x) < e})
Behind(in, m, a, e) == Cardinality({i \in Spots(in) : Eid(m, a[i].x) <= e})
FirstOf(in, m, a, u) == [g \in DOMAIN u |-> First(in, m, a, u[g])]
BehindOf(in, m, a, u) == [g \in DOMAIN u |-> Behind(in, m, a, u[g])]

(* N ranges that follow each other from 0 to l. *)
Consecutive(N, lo, hi, l) ==
  /\ lo \in [0 .. N - 1 -> 0 .. l] /\ hi \in [0 .. N - 1 -> 0 .. l]
  /\ \A g \in 0 .. N - 1 : lo[g] < hi[g]
  /\ N = 0 => l = 0
  /\ N > 0 => lo[0] = 0 /\ hi[N - 1] = l
  /\ \A g \in 0 .. N - 2 : lo[g + 1] = hi[g]

(* Slots s of b have the records that they have in a, in some order; the
   other slots have what they had. *)
Rearranged(in, a, b, s) ==
  /\ DOMAIN b = DOMAIN a
  /\ \A i \in DOMAIN a \ s : b[i] = a[i]
  /\ \A i \in s : \E j \in s : b[i] = a[j]
  /\ \A j \in s : \E i \in s : b[i] = a[j]
  /\ (\A i, j \in Spots(in) : a[i].x = a[j].x => i = j)
       => (\A i, j \in Spots(in) : b[i].x = b[j].x => i = j)

-----------------------------------------------------------------------------
(* The crossings of an input are pairs of edges, and each is queued once. *)
LEMMA InputFacts ==
  ASSUME NEW in \in Inputs
  PROVE  /\ in.program \in {"rt", "lbvh", "grid", "vk"}
         /\ Len(in.queue) \in Nat
         /\ Found(in) \subseteq Nat \X Nat
         /\ \A i \in Spots(in) : in.queue[i + 1] \in Found(in)
         /\ \A c \in Found(in) : \E i \in Spots(in) : in.queue[i + 1] = c
         /\ \A i, j \in Spots(in) : in.queue[i + 1] = in.queue[j + 1] => i = j
         /\ \A m \in Maps : \A c \in Found(in) : in.rank[m][c] \in Nat
<1>1. /\ in.program \in {"rt", "lbvh", "grid", "vk"}
      /\ in.queue \in Seq(Nat \X Nat) /\ Cardinality(Range(in.queue)) = Len(in.queue)
      /\ \A m \in Maps : \A x \in Range(in.queue) : in.rank[m][x] \in Nat
  BY InputsAssumption
<1>2. PICK q \in Seq(Nat \X Nat) : q = in.queue
  BY <1>1
<1>3. /\ Len(q) \in Nat /\ DOMAIN q = 1 .. Len(q)
      /\ \A i \in 1 .. Len(q) : q[i] \in Nat \X Nat
      /\ Range(q) = Found(in)
  BY <1>2 DEF Range, Found
<1>4. q \in Surjection(1 .. Len(q), Range(q))
  BY <1>3, SMTT(30) DEF Surjection, Range
<1>5. IsFiniteSet(1 .. Len(q)) /\ Cardinality(1 .. Len(q)) = Len(q)
  BY <1>3, FS_Interval
<1>6. q \in Injection(1 .. Len(q), Range(q))
  BY <1>1, <1>2, <1>4, <1>5, FS_SurjSameCardinalityImpliesInj
<1>7. \A i, j \in 1 .. Len(q) : q[i] = q[j] => i = j
  BY <1>3, <1>6 DEF Injection, IsInjective
<1>8. \A i \in Spots(in) : i + 1 \in 1 .. Len(q)
  BY <1>2, <1>3 DEF Spots
<1>9. \A i \in 1 .. Len(q) : i - 1 \in Spots(in) /\ (i - 1) + 1 = i
  BY <1>2, <1>3 DEF Spots
<1>10. \A i \in Spots(in) : in.queue[i + 1] \in Found(in)
  BY <1>2, <1>8 DEF Found
<1>11. \A c \in Found(in) : \E i \in Spots(in) : in.queue[i + 1] = c
  <2> TAKE c \in Found(in)
  <2>1. PICK i \in 1 .. Len(q) : q[i] = c
    BY <1>2 DEF Found
  <2> QED
    BY <1>2, <1>9, <2>1
<1>12. \A i, j \in Spots(in) : in.queue[i + 1] = in.queue[j + 1] => i = j
  <2> TAKE i, j \in Spots(in)
  <2>1. in.queue[i + 1] = in.queue[j + 1] => i + 1 = j + 1
    BY <1>2, <1>7, <1>8
  <2>2. i \in Int /\ j \in Int
    BY DEF Spots
  <2> QED
    BY <2>1, <2>2
<1>13. Found(in) \subseteq Nat \X Nat
  BY <1>2, <1>3 DEF Found
<1> QED
  BY <1>1, <1>2, <1>3, <1>10, <1>11, <1>12, <1>13

(* The edges of the crossings in an array are numbers. *)
LEMMA EidFacts ==
  ASSUME NEW in \in Inputs, NEW m \in Maps, NEW a, Whole(in, a)
  PROVE  \A i \in Spots(in) : /\ Eid(m, a[i].x) \in Nat
                              /\ Eid(1 - m, a[i].x) \in Nat
                              /\ in.rank[m][a[i].x] \in Nat
<1> TAKE i \in Spots(in)
<1>1. a[i].x \in Found(in) /\ a[i].x \in Nat \X Nat
  BY InputFacts DEF Whole
<1>2. in.rank[m][a[i].x] \in Nat
  BY <1>1, InputFacts
<1>3. a[i].x[1] \in Nat /\ a[i].x[2] \in Nat
  BY <1>1
<1> QED
  BY <1>2, <1>3 DEF Eid

(* What the searches find parts the slots. *)
LEMMA SearchFinds ==
  ASSUME NEW in \in Inputs, NEW m \in Maps, NEW a, Whole(in, a), Sorted(in, m, a), NEW e \in Nat
  PROVE  /\ First(in, m, a, e) \in 0 .. Len(in.queue)
         /\ Behind(in, m, a, e) \in 0 .. Len(in.queue)
         /\ \A i \in Spots(in) : i < First(in, m, a, e) <=> Eid(m, a[i].x) < e
         /\ \A i \in Spots(in) : i < Behind(in, m, a, e) <=> Eid(m, a[i].x) <= e
<1>1. PICK l \in Nat : l = Len(in.queue)
  BY InputFacts
<1>2. Spots(in) = 0 .. l - 1
  BY <1>1 DEF Spots
<1>3. PICK f \in [Spots(in) -> Nat] : \A i \in Spots(in) : f[i] = Eid(m, a[i].x)
  <2>1. [i \in Spots(in) |-> Eid(m, a[i].x)] \in [Spots(in) -> Nat]
    BY EidFacts
  <2> QED
    BY <2>1
<1>4. \A i, j \in 0 .. l - 1 : i < j => f[i] <= f[j]
  BY <1>2, <1>3 DEF Sorted
<1>5. ASSUME NEW S \in SUBSET (0 .. l - 1), \A i \in S : \A j \in 0 .. l - 1 : j < i => j \in S
      PROVE  Cardinality(S) \in 0 .. l /\ \A i \in 0 .. l - 1 : i < Cardinality(S) <=> i \in S
  <2>1. Cardinality(S) \in 0 .. l /\ S = 0 .. Cardinality(S) - 1
    BY <1>5, Prefix
  <2>2. PICK d \in 0 .. l : d = Cardinality(S)
    BY <2>1
  <2>3. \A i \in 0 .. l - 1 : i < d <=> i \in 0 .. d - 1
    OBVIOUS
  <2> QED
    BY <2>1, <2>2, <2>3
<1>6. /\ {i \in Spots(in) : Eid(m, a[i].x) < e} = {i \in 0 .. l - 1 : f[i] < e}
      /\ {i \in Spots(in) : Eid(m, a[i].x) <= e} = {i \in 0 .. l - 1 : f[i] <= e}
  BY <1>2, <1>3
<1>7. /\ First(in, m, a, e) \in 0 .. l
      /\ \A i \in 0 .. l - 1 : i < First(in, m, a, e) <=> f[i] < e
  <2> DEFINE S == {i \in 0 .. l - 1 : f[i] < e}
  <2>1. \A i \in S : \A j \in 0 .. l - 1 : j < i => j \in S
    BY <1>2, <1>3, <1>4
  <2>2. Cardinality(S) \in 0 .. l /\ \A i \in 0 .. l - 1 : i < Cardinality(S) <=> i \in S
    <3>1. S \in SUBSET (0 .. l - 1)
      OBVIOUS
    <3> HIDE DEF S
    <3> QED
      BY <1>5, <2>1, <3>1
  <2> QED
    BY <1>6, <2>2 DEF First
<1>8. /\ Behind(in, m, a, e) \in 0 .. l
      /\ \A i \in 0 .. l - 1 : i < Behind(in, m, a, e) <=> f[i] <= e
  <2> DEFINE S == {i \in 0 .. l - 1 : f[i] <= e}
  <2>1. \A i \in S : \A j \in 0 .. l - 1 : j < i => j \in S
    BY <1>2, <1>3, <1>4
  <2>2. Cardinality(S) \in 0 .. l /\ \A i \in 0 .. l - 1 : i < Cardinality(S) <=> i \in S
    <3>1. S \in SUBSET (0 .. l - 1)
      OBVIOUS
    <3> HIDE DEF S
    <3> QED
      BY <1>5, <2>1, <3>1
  <2> QED
    BY <1>6, <2>2 DEF Behind
<1> QED
  BY <1>1, <1>2, <1>3, <1>7, <1>8

(* The ranges of an array sorted by edge. *)
Layout(in, m, a, u, N, lo, hi) ==
  /\ DOMAIN u = 0 .. N - 1
  /\ Consecutive(N, lo, hi, Len(in.queue))
  /\ \A g \in 0 .. N - 1 : \A i \in Spots(in) : Eid(m, a[i].x) = u[g] <=> lo[g] <= i /\ i < hi[g]
  /\ \A i \in Spots(in) : \E g \in 0 .. N - 1 : lo[g] <= i /\ i < hi[g]

(* The searches return the ranges: consecutive, and each with the slots of its edge. *)
LEMMA EdgesLayout ==
  ASSUME NEW in \in Inputs, NEW m \in Maps, NEW a, Whole(in, a), Sorted(in, m, a),
         NEW u, Edges(in, m, a, u)
  PROVE  \E N \in Nat : Layout(in, m, a, u, N, FirstOf(in, m, a, u), BehindOf(in, m, a, u))
<1>1. PICK N \in Nat :
        /\ DOMAIN u = 0 .. N - 1
        /\ \A g \in 0 .. N - 1 : u[g] \in Nat /\ \E i \in Spots(in) : Eid(m, a[i].x) = u[g]
        /\ \A g, h \in 0 .. N - 1 : g < h => u[g] < u[h]
        /\ \A i \in Spots(in) : \E g \in 0 .. N - 1 : Eid(m, a[i].x) = u[g]
  BY DEF Edges
<1>2. PICK l \in Nat : l = Len(in.queue)
  BY InputFacts
<1>3. PICK f \in [0 .. l - 1 -> Nat] : \A i \in Spots(in) : f[i] = Eid(m, a[i].x)
  <2>1. [i \in Spots(in) |-> Eid(m, a[i].x)] \in [0 .. l - 1 -> Nat]
    BY <1>2, EidFacts DEF Spots
  <2> QED
    BY <2>1
<1>4. Spots(in) = 0 .. l - 1
  BY <1>2 DEF Spots
<1>5. PICK lo \in [0 .. N - 1 -> 0 .. l], hi \in [0 .. N - 1 -> 0 .. l] :
        lo = FirstOf(in, m, a, u) /\ hi = BehindOf(in, m, a, u)
  <2>1. FirstOf(in, m, a, u) \in [0 .. N - 1 -> 0 .. l]
    BY <1>1, <1>2, SearchFinds DEF FirstOf
  <2>2. BehindOf(in, m, a, u) \in [0 .. N - 1 -> 0 .. l]
    BY <1>1, <1>2, SearchFinds DEF BehindOf
  <2> QED
    BY <2>1, <2>2
<1>6. \A g \in 0 .. N - 1 : \A i \in 0 .. l - 1 : (i < lo[g] <=> f[i] < u[g]) /\ (i < hi[g] <=> f[i] <= u[g])
  <2> TAKE g \in 0 .. N - 1
  <2>1. lo[g] = First(in, m, a, u[g]) /\ hi[g] = Behind(in, m, a, u[g]) /\ u[g] \in Nat
    BY <1>1, <1>5 DEF FirstOf, BehindOf
  <2> QED
    <3>1. PICK e \in Nat : e = u[g]
      BY <2>1
    <3>2. /\ \A i \in Spots(in) : i < First(in, m, a, e) <=> Eid(m, a[i].x) < e
          /\ \A i \in Spots(in) : i < Behind(in, m, a, e) <=> Eid(m, a[i].x) <= e
      BY SearchFinds
    <3> QED
      BY <1>3, <1>4, <2>1, <3>1, <3>2
<1>7. PICK v \in [0 .. N - 1 -> Nat] : \A g \in 0 .. N - 1 : v[g] = u[g]
  <2>1. [g \in 0 .. N - 1 |-> u[g]] \in [0 .. N - 1 -> Nat]
    BY <1>1
  <2> QED
    BY <2>1
<1>8. /\ \A g \in 0 .. N - 1 : \E i \in 0 .. l - 1 : f[i] = v[g]
      /\ \A g, h \in 0 .. N - 1 : g < h => v[g] < v[h]
      /\ \A i \in 0 .. l - 1 : \E g \in 0 .. N - 1 : f[i] = v[g]
      /\ \A g \in 0 .. N - 1 : \A i \in 0 .. l - 1 : (i < lo[g] <=> f[i] < v[g]) /\ (i < hi[g] <=> f[i] <= v[g])
  <2>1. ASSUME NEW g \in 0 .. N - 1 PROVE \E i \in 0 .. l - 1 : f[i] = v[g]
    <3>1. PICK i \in Spots(in) : Eid(m, a[i].x) = u[g]
      BY <1>1
    <3>2. i \in 0 .. l - 1 /\ f[i] = v[g]
      BY <1>3, <1>4, <1>7, <3>1
    <3> QED
      BY <3>2
  <2>2. \A g, h \in 0 .. N - 1 : g < h => v[g] < v[h]
    BY <1>1, <1>7
  <2>3. \A i \in 0 .. l - 1 : \E g \in 0 .. N - 1 : f[i] = v[g]
    BY <1>1, <1>3, <1>4, <1>7
  <2>4. \A g \in 0 .. N - 1 : \A i \in 0 .. l - 1 : (i < lo[g] <=> f[i] < v[g]) /\ (i < hi[g] <=> f[i] <= v[g])
    BY <1>6, <1>7
  <2> QED
    BY <2>1, <2>2, <2>3, <2>4
<1>9. \A g \in 0 .. N - 1 : \A i \in 0 .. l - 1 : f[i] = v[g] <=> lo[g] <= i /\ i < hi[g]
  <2> TAKE g \in 0 .. N - 1
  <2> TAKE i \in 0 .. l - 1
  <2>1. f[i] \in Nat /\ v[g] \in Nat /\ lo[g] \in 0 .. l /\ hi[g] \in 0 .. l
    OBVIOUS
  <2>2. (i < lo[g] <=> f[i] < v[g]) /\ (i < hi[g] <=> f[i] <= v[g])
    BY <1>8
  <2> QED
    BY <2>1, <2>2
<1>10. \A g \in 0 .. N - 1 : lo[g] < hi[g]
  <2> TAKE g \in 0 .. N - 1
  <2>1. PICK i \in 0 .. l - 1 : f[i] = v[g]
    BY <1>8
  <2>2. lo[g] <= i /\ i < hi[g] /\ lo[g] \in 0 .. l /\ hi[g] \in 0 .. l
    BY <1>9, <2>1
  <2> QED
    BY <2>2
<1>11. N = 0 => l = 0
  <2> SUFFICES ASSUME N = 0, l # 0 PROVE FALSE
    OBVIOUS
  <2>1. 0 \in 0 .. l - 1
    OBVIOUS
  <2> QED
    BY <1>8, <2>1
<1>12. ASSUME N > 0 PROVE lo[0] = 0
  <2> SUFFICES ASSUME lo[0] # 0 PROVE FALSE
    OBVIOUS
  <2>1. 0 \in 0 .. N - 1 /\ lo[0] \in 0 .. l
    BY <1>12
  <2>2. 0 \in 0 .. l - 1 /\ 0 < lo[0]
    BY <2>1
  <2>3. f[0] < v[0]
    BY <1>8, <2>1, <2>2
  <2>4. PICK g \in 0 .. N - 1 : f[0] = v[g]
    BY <1>8, <2>2
  <2>5. g = 0 \/ v[0] < v[g]
    BY <1>8, <2>1
  <2>6. v[0] \in Nat /\ v[g] \in Nat
    BY <2>1
  <2> QED
    BY <2>3, <2>4, <2>5, <2>6
<1>13. ASSUME N > 0 PROVE hi[N - 1] = l
  <2> SUFFICES ASSUME hi[N - 1] # l PROVE FALSE
    OBVIOUS
  <2>1. N - 1 \in 0 .. N - 1 /\ hi[N - 1] \in 0 .. l
    BY <1>13
  <2>2. l - 1 \in 0 .. l - 1 /\ ~ (l - 1 < hi[N - 1])
    BY <2>1
  <2>3. ~ (f[l - 1] <= v[N - 1])
    BY <1>8, <2>1, <2>2
  <2>4. PICK g \in 0 .. N - 1 : f[l - 1] = v[g]
    BY <1>8, <2>2
  <2>5. g = N - 1 \/ v[g] < v[N - 1]
    BY <1>8, <2>1
  <2>6. PICK p \in Nat, q \in Nat : p = v[N - 1] /\ q = v[g]
    BY <2>1
  <2>7. ~ (q <= p) /\ (q = p \/ q < p)
    BY <2>3, <2>4, <2>5, <2>6
  <2> QED
    BY <2>7
<1>14. ASSUME NEW g \in 0 .. N - 2 PROVE lo[g + 1] = hi[g]
  <2>1. g \in 0 .. N - 1 /\ g + 1 \in 0 .. N - 1 /\ g < g + 1
    OBVIOUS
  <2>2. PICK x \in 0 .. l, y \in 0 .. l, p \in Nat, q \in Nat :
          x = lo[g + 1] /\ y = hi[g] /\ p = v[g] /\ q = v[g + 1]
    BY <2>1
  <2>3. p < q
    BY <1>8, <2>1, <2>2
  <2>4. \A i \in 0 .. l - 1 : (i < x <=> f[i] < q) /\ (i < y <=> f[i] <= p)
    BY <1>8, <2>1, <2>2
  <2>5. ~ (x < y)
    <3> SUFFICES ASSUME x < y PROVE FALSE
      OBVIOUS
    <3>1. x \in 0 .. l - 1
      OBVIOUS
    <3>2. ~ (f[x] < q) /\ f[x] <= p
      BY <2>4, <3>1
    <3>3. f[x] \in Nat
      BY <3>1
    <3> QED
      BY <2>3, <3>2, <3>3
  <2>6. ~ (y < x)
    <3> SUFFICES ASSUME y < x PROVE FALSE
      OBVIOUS
    <3>1. y \in 0 .. l - 1
      OBVIOUS
    <3>2. f[y] < q /\ ~ (f[y] <= p)
      BY <2>4, <3>1
    <3>3. PICK h \in 0 .. N - 1 : f[y] = v[h]
      BY <1>8, <3>1
    <3>4. h < g \/ h = g \/ h = g + 1 \/ g + 1 < h
      OBVIOUS
    <3>5. (h < g => v[h] < v[g]) /\ (g + 1 < h => v[g + 1] < v[h])
      BY <1>8, <2>1
    <3>6. PICK w \in Nat : w = v[h]
      OBVIOUS
    <3>7. w < q /\ ~ (w <= p)
      BY <3>2, <3>3, <3>6
    <3>8. w < p \/ w = p \/ w = q \/ q < w
      BY <2>2, <3>4, <3>5, <3>6
    <3> QED
      BY <3>7, <3>8
  <2> QED
    BY <2>2, <2>5, <2>6
<1>15. Consecutive(N, lo, hi, l)
  BY <1>10, <1>11, <1>12, <1>13, <1>14 DEF Consecutive
<1>16. \A i \in Spots(in) : \E g \in 0 .. N - 1 : lo[g] <= i /\ i < hi[g]
  BY <1>4, <1>8, <1>9
<1>17. \A g \in 0 .. N - 1 : \A i \in Spots(in) : Eid(m, a[i].x) = u[g] <=> lo[g] <= i /\ i < hi[g]
  BY <1>3, <1>4, <1>7, <1>9
<1>18. Layout(in, m, a, u, N, lo, hi)
  BY <1>1, <1>2, <1>15, <1>16, <1>17 DEF Layout
<1> QED
  BY <1>5, <1>18

(* The slots of a range that another of its slots follows, and their numbers
   among the midpoints. *)
PieceIn(lo, hi, g, i) == lo[g] <= i /\ i + 1 < hi[g]

Reached(N, l, lo, hi) ==
  \A k \in 0 .. l - N - 1 : \E g \in 0 .. N - 1 : \E i \in Int : PieceIn(lo, hi, g, i) /\ i - g = k

(* The midpoints of all ranges are numbered without gap and without overlap. *)
LEMMA PiecesNumbered ==
  ASSUME NEW N \in Nat, NEW l \in Nat, NEW lo, NEW hi, Consecutive(N, lo, hi, l)
  PROVE  /\ N <= l
         /\ \A g, h \in 0 .. N - 1 : g < h => hi[g] <= lo[h]
         /\ \A g \in 0 .. N - 1 : \A i \in Int : PieceIn(lo, hi, g, i) => i - g \in 0 .. l - N - 1
         /\ \A g, h \in 0 .. N - 1 : \A i, j \in Int :
              PieceIn(lo, hi, g, i) /\ PieceIn(lo, hi, h, j) /\ i - g = j - h => g = h /\ i = j
         /\ Reached(N, l, lo, hi)
<1>1. /\ lo \in [0 .. N - 1 -> 0 .. l] /\ hi \in [0 .. N - 1 -> 0 .. l]
      /\ \A g \in 0 .. N - 1 : lo[g] < hi[g]
      /\ N = 0 => l = 0
      /\ N > 0 => lo[0] = 0 /\ hi[N - 1] = l
      /\ \A g \in 0 .. N - 2 : lo[g + 1] = hi[g]
  BY DEF Consecutive
<1>2. \A g \in 0 .. N - 1 : lo[g] \in Nat /\ hi[g] \in Nat /\ lo[g] < hi[g] /\ hi[g] <= l
  BY <1>1
<1>3. ASSUME NEW g \in 0 .. N - 1, NEW h \in 0 .. N - 1, g < h
      PROVE  hi[g] + (h - g - 1) <= lo[h]
  <2> DEFINE T == {k \in 0 .. N - 1 : g < k => hi[g] + (k - g - 1) <= lo[k]}
  <2>1. 0 \in T
    OBVIOUS
  <2>2. ASSUME NEW k \in 0 .. (N - 1) - 1, k \in T PROVE k + 1 \in T
    <3>1. k \in 0 .. N - 1 /\ k + 1 \in 0 .. N - 1 /\ k \in 0 .. N - 2
      OBVIOUS
    <3>2. PICK x \in Nat, y \in Nat, z \in Nat, w \in Nat :
            x = hi[g] /\ y = lo[k] /\ z = hi[k] /\ w = lo[k + 1]
      BY <1>2, <3>1
    <3>3. w = z /\ y < z
      BY <1>1, <3>1, <3>2
    <3>4. g < k => x + (k - g - 1) <= y
      BY <2>2, <3>2
    <3>5. g = k => x = z
      BY <3>2
    <3>6. g < k + 1 => x + ((k + 1) - g - 1) <= w
      BY <3>3, <3>4, <3>5
    <3> QED
      BY <3>1, <3>2, <3>6
  <2>3. N - 1 \in Nat
    OBVIOUS
  <2>4. \A k \in 0 .. N - 1 : k \in T
    <3> HIDE DEF T
    <3> QED
      BY <2>1, <2>2, <2>3, UpTo
  <2> QED
    BY <1>3, <2>4
<1>4. ASSUME NEW g \in 0 .. N - 1 PROVE g <= lo[g]
  <2>1. CASE g = 0
    BY <1>2, <2>1
  <2>2. CASE g # 0
    <3>1. 0 \in 0 .. N - 1 /\ 0 < g /\ g \in Nat
      BY <2>2
    <3>2. hi[0] + (g - 0 - 1) <= lo[g]
      BY <1>3, <3>1
    <3>3. hi[0] \in Nat /\ hi[0] > 0 /\ lo[g] \in Nat
      BY <1>2, <3>1
    <3> QED
      BY <3>1, <3>2, <3>3
  <2> QED
    BY <2>1, <2>2
<1>5. ASSUME NEW g \in 0 .. N - 1 PROVE hi[g] + (N - 1 - g) <= l
  <2>0. N - 1 \in 0 .. N - 1 /\ N > 0
    OBVIOUS
  <2>1. CASE g = N - 1
    BY <1>1, <1>2, <2>0, <2>1
  <2>2. CASE g # N - 1
    <3>1. hi[g] + ((N - 1) - g - 1) <= lo[N - 1]
      BY <1>3, <2>0, <2>2
    <3>2. hi[N - 1] = l /\ lo[N - 1] \in Nat /\ hi[g] \in Nat /\ lo[N - 1] < hi[N - 1]
      BY <1>1, <1>2, <2>0
    <3> QED
      BY <3>1, <3>2
  <2> QED
    BY <2>1, <2>2
<1>6. N <= l
  <2>1. CASE N = 0
    BY <2>1
  <2>2. CASE N # 0
    <3>1. N - 1 \in 0 .. N - 1
      BY <2>2
    <3>2. N - 1 <= lo[N - 1] /\ lo[N - 1] \in Nat /\ hi[N - 1] \in Nat /\ lo[N - 1] < hi[N - 1] /\ hi[N - 1] <= l
      BY <1>2, <1>4, <3>1
    <3> QED
      BY <3>2
  <2> QED
    BY <2>1, <2>2
<1>7. ASSUME NEW g \in 0 .. N - 1, NEW h \in 0 .. N - 1, g < h PROVE hi[g] <= lo[h]
  <2>1. hi[g] + (h - g - 1) <= lo[h] /\ hi[g] \in Nat /\ lo[h] \in Nat
    BY <1>2, <1>3, <1>7
  <2> QED
    BY <1>7, <2>1
<1>8. ASSUME NEW g \in 0 .. N - 1, NEW i \in Int, PieceIn(lo, hi, g, i)
      PROVE  i - g \in 0 .. l - N - 1
  <2>1. PICK x \in Nat, y \in Nat : x = lo[g] /\ y = hi[g]
    BY <1>2
  <2>2. g <= x /\ y + (N - 1 - g) <= l /\ x <= i /\ i + 1 < y
    BY <1>4, <1>5, <1>8, <2>1 DEF PieceIn
  <2> QED
    BY <2>2
<1>9. ASSUME NEW g \in 0 .. N - 1, NEW h \in 0 .. N - 1, g < h, NEW i \in Int, NEW j \in Int,
             PieceIn(lo, hi, g, i), PieceIn(lo, hi, h, j)
      PROVE  i - g < j - h
  <2>1. PICK x \in Nat, y \in Nat : x = hi[g] /\ y = lo[h]
    BY <1>2
  <2>2. x + (h - g - 1) <= y /\ i + 1 < x /\ y <= j
    BY <1>3, <1>9, <2>1 DEF PieceIn
  <2> QED
    BY <2>2
<1>10. ASSUME NEW g \in 0 .. N - 1, NEW h \in 0 .. N - 1, NEW i \in Int, NEW j \in Int,
              PieceIn(lo, hi, g, i), PieceIn(lo, hi, h, j), i - g = j - h
       PROVE  g = h /\ i = j
  <2>1. g < h \/ h < g \/ g = h
    OBVIOUS
  <2>2. g < h => i - g < j - h
    BY <1>9, <1>10
  <2>3. h < g => j - h < i - g
    BY <1>9, <1>10
  <2> QED
    BY <1>10, <2>1, <2>2, <2>3
<1>11. ASSUME NEW k \in 0 .. l - N - 1
       PROVE  \E g \in 0 .. N - 1 : \E i \in Int : PieceIn(lo, hi, g, i) /\ i - g = k
  <2>1. N > 0 /\ N - 1 \in Nat
    BY <1>1
  <2> DEFINE Here(g) == lo[g] <= k + g /\ (k + g) + 1 < hi[g]
  <2> SUFFICES ASSUME \A g \in 0 .. N - 1 : ~ Here(g) PROVE FALSE
    <3> SUFFICES ASSUME NEW g \in 0 .. N - 1, Here(g)
                 PROVE  \E i \in Int : PieceIn(lo, hi, g, i) /\ i - g = k
      OBVIOUS
    <3>1. k + g \in Int /\ (k + g) - g = k
      OBVIOUS
    <3> QED
      BY <3>1 DEF PieceIn
  <2> DEFINE T == {g \in 0 .. N - 1 : lo[g] <= k + g}
  <2>2. 0 \in T
    BY <1>1, <2>1
  <2>3. ASSUME NEW g \in 0 .. (N - 1) - 1, g \in T PROVE g + 1 \in T
    <3>1. g \in 0 .. N - 1 /\ g + 1 \in 0 .. N - 1 /\ g \in 0 .. N - 2
      OBVIOUS
    <3>2. PICK x \in Nat, y \in Nat, z \in Nat : x = lo[g] /\ y = hi[g] /\ z = lo[g + 1]
      BY <1>2, <3>1
    <3>3. x <= k + g /\ ~ (x <= k + g /\ (k + g) + 1 < y) /\ z = y
      BY <1>1, <2>3, <3>1, <3>2
    <3>4. z <= k + (g + 1)
      BY <3>3
    <3> QED
      BY <3>1, <3>2, <3>4
  <2>4. \A g \in 0 .. N - 1 : g \in T
    <3> HIDE DEF T
    <3> QED
      BY <2>1, <2>2, <2>3, UpTo
  <2>5. N - 1 \in 0 .. N - 1
    BY <2>1
  <2>6. PICK x \in Nat, y \in Nat : x = lo[N - 1] /\ y = hi[N - 1]
    BY <1>2, <2>5
  <2>7. x <= k + (N - 1) /\ y = l
    BY <1>1, <2>1, <2>4, <2>5, <2>6
  <2>8. (k + (N - 1)) + 1 < l
    OBVIOUS
  <2> QED
    BY <2>5, <2>6, <2>7, <2>8
<1>12. Reached(N, l, lo, hi)
  BY <1>11 DEF Reached
<1> QED
  BY <1>6, <1>7, <1>8, <1>10, <1>12

-----------------------------------------------------------------------------
(* Rearranging within the range of one edge. *)

SameEdges(in, m, a, b) == \A i \in Spots(in) : Eid(m, a[i].x) = Eid(m, b[i].x)

(* Nothing that is by edge changes. *)
LEMMA SameEdgesKeep ==
  ASSUME NEW in, NEW m, NEW a, NEW b, SameEdges(in, m, a, b), NEW u
  PROVE  /\ Sorted(in, m, a) => Sorted(in, m, b)
         /\ Edges(in, m, a, u) => Edges(in, m, b, u)
         /\ FirstOf(in, m, b, u) = FirstOf(in, m, a, u)
         /\ BehindOf(in, m, b, u) = BehindOf(in, m, a, u)
<1>1. \A i \in Spots(in) : Eid(m, a[i].x) = Eid(m, b[i].x)
  BY DEF SameEdges
<1>2. Sorted(in, m, a) => Sorted(in, m, b)
  BY <1>1 DEF Sorted
<1>3. ASSUME Edges(in, m, a, u) PROVE Edges(in, m, b, u)
  <2>1. PICK N \in Nat :
          /\ DOMAIN u = 0 .. N - 1
          /\ \A g \in 0 .. N - 1 : u[g] \in Nat /\ \E i \in Spots(in) : Eid(m, a[i].x) = u[g]
          /\ \A g, h \in 0 .. N - 1 : g < h => u[g] < u[h]
          /\ \A i \in Spots(in) : \E g \in 0 .. N - 1 : Eid(m, a[i].x) = u[g]
    BY <1>3 DEF Edges
  <2>2. \A g \in 0 .. N - 1 : u[g] \in Nat /\ \E i \in Spots(in) : Eid(m, b[i].x) = u[g]
    BY <1>1, <2>1
  <2>3. \A i \in Spots(in) : \E g \in 0 .. N - 1 : Eid(m, b[i].x) = u[g]
    BY <1>1, <2>1
  <2> QED
    BY <2>1, <2>2, <2>3 DEF Edges
<1>4. \A e : First(in, m, b, e) = First(in, m, a, e) /\ Behind(in, m, b, e) = Behind(in, m, a, e)
  <2> TAKE e
  <2>1. {i \in Spots(in) : Eid(m, b[i].x) < e} = {i \in Spots(in) : Eid(m, a[i].x) < e}
    BY <1>1
  <2>2. {i \in Spots(in) : Eid(m, b[i].x) <= e} = {i \in Spots(in) : Eid(m, a[i].x) <= e}
    BY <1>1
  <2> QED
    BY <2>1, <2>2 DEF First, Behind
<1> QED
  BY <1>2, <1>3, <1>4 DEF FirstOf, BehindOf

(* A rearrangement of a rearrangement of the same slots is one. *)
LEMMA RearrangedTwice ==
  ASSUME NEW in, NEW a, NEW b, NEW c, NEW s, s \subseteq DOMAIN a,
         Rearranged(in, a, b, s), Rearranged(in, b, c, s)
  PROVE  Rearranged(in, a, c, s)
<1>1. DOMAIN c = DOMAIN a /\ \A i \in DOMAIN a \ s : c[i] = a[i]
  BY DEF Rearranged
<1>2. \A i \in s : \E j \in s : c[i] = a[j]
  BY DEF Rearranged
<1>3. \A j \in s : \E i \in s : c[i] = a[j]
  BY DEF Rearranged
<1>4. (\A i, j \in Spots(in) : a[i].x = a[j].x => i = j)
        => (\A i, j \in Spots(in) : c[i].x = c[j].x => i = j)
  BY DEF Rearranged
<1> QED
  BY <1>1, <1>2, <1>3, <1>4 DEF Rearranged

(* A permutation of the slots rearranges. *)
LEMMA PermutedIsRearranged ==
  ASSUME NEW in, NEW a, DOMAIN a = Spots(in), NEW s \in SUBSET Spots(in),
         NEW f \in Bijection(s, s), NEW b,
         b = [i \in Spots(in) |-> IF i \in s THEN a[f[i]] ELSE a[i]]
  PROVE  Rearranged(in, a, b, s)
<1>1. /\ f \in [s -> s]
      /\ \A i, j \in s : f[i] = f[j] => i = j
      /\ \A j \in s : \E i \in s : f[i] = j
  BY DEF Bijection, Injection, Surjection, IsInjective
<1>2. DOMAIN b = DOMAIN a /\ \A i \in DOMAIN a \ s : b[i] = a[i]
  OBVIOUS
<1>3. \A i \in s : b[i] = a[f[i]] /\ f[i] \in s
  BY <1>1
<1>4. \A i \in s : \E j \in s : b[i] = a[j]
  BY <1>3
<1>5. \A j \in s : \E i \in s : b[i] = a[j]
  BY <1>1, <1>3
<1>6. ASSUME \A i, j \in Spots(in) : a[i].x = a[j].x => i = j
      PROVE  \A i, j \in Spots(in) : b[i].x = b[j].x => i = j
  <2> TAKE i, j \in Spots(in)
  <2> HAVE b[i].x = b[j].x
  <2>1. PICK k \in Spots(in) : b[i] = a[k] /\ (i \in s => k = f[i] /\ k \in s) /\ (i \notin s => k = i)
    BY <1>1
  <2>2. PICK l \in Spots(in) : b[j] = a[l] /\ (j \in s => l = f[j] /\ l \in s) /\ (j \notin s => l = j)
    BY <1>1
  <2>3. k = l
    BY <1>6, <2>1, <2>2
  <2> QED
    BY <1>1, <2>1, <2>2, <2>3
<1> QED
  BY <1>2, <1>4, <1>5, <1>6 DEF Rearranged

(* So does a swap. *)
Swapped(in, a, c, D, R, s, i, j) ==
  /\ c \in [D -> R]
  /\ c[i] = a[j] /\ c[j] = a[i]
  /\ \A h \in D : h # i /\ h # j => c[h] = a[h]
  /\ Rearranged(in, a, c, s)
(* Swapping two of the slots rearranges them. *)
LEMMA SwapRearranges ==
  ASSUME NEW in, NEW a, NEW D, NEW R, a \in [D -> R], NEW s \in SUBSET D,
         NEW i \in s, NEW j \in s, D = Spots(in)
  PROVE  Swapped(in, a, Swap(a, i, j), D, R, s, i, j)
<1>1. Swap(a, i, j) = [h \in D |-> IF h = j THEN a[i] ELSE IF h = i THEN a[j] ELSE a[h]]
  BY DEF Swap
<1> DEFINE b == [h \in D |-> IF h = j THEN a[i] ELSE IF h = i THEN a[j] ELSE a[h]]
<1>2. b \in [D -> R] /\ b[i] = a[j] /\ b[j] = a[i] /\ \A h \in D : h # i /\ h # j => b[h] = a[h]
  OBVIOUS
<1>3. Rearranged(in, a, b, s)
  <2>1. DOMAIN b = DOMAIN a /\ \A h \in DOMAIN a \ s : b[h] = a[h]
    OBVIOUS
  <2>2. \A h \in s : \E k \in s : b[h] = a[k]
    <3> HIDE DEF b
    <3> QED
      BY <1>2
  <2>3. \A k \in s : \E h \in s : b[h] = a[k]
    <3> HIDE DEF b
    <3> QED
      BY <1>2
  <2>4. ASSUME \A h, k \in Spots(in) : a[h].x = a[k].x => h = k
        PROVE  \A h, k \in Spots(in) : b[h].x = b[k].x => h = k
    <3> TAKE h, k \in Spots(in)
    <3> HAVE b[h].x = b[k].x
    <3> HIDE DEF b
    <3>1. \E p \in D : b[h] = a[p] /\ p = (IF h = j THEN i ELSE IF h = i THEN j ELSE h)
      BY <1>2
    <3>2. \E p \in D : b[k] = a[p] /\ p = (IF k = j THEN i ELSE IF k = i THEN j ELSE k)
      BY <1>2
    <3>3. (IF h = j THEN i ELSE IF h = i THEN j ELSE h) = (IF k = j THEN i ELSE IF k = i THEN j ELSE k)
      BY <2>4, <3>1, <3>2
    <3> QED
      BY <3>3
  <2> HIDE DEF b
  <2> QED
    BY <2>1, <2>2, <2>3, <2>4 DEF Rearranged
<1> HIDE DEF b
<1> QED
  BY <1>1, <1>2, <1>3 DEF Swapped

(* Rearranging within one range loses no crossing and changes nothing by edge. *)
LEMMA RearrangedKeeps ==
  ASSUME NEW in, NEW m, NEW a, NEW b, NEW s \in SUBSET Spots(in),
         Whole(in, a), Rearranged(in, a, b, s),
         \A i, j \in s : Eid(m, a[i].x) = Eid(m, a[j].x)
  PROVE  Whole(in, b) /\ SameEdges(in, m, a, b)
<1>1. DOMAIN b = Spots(in) /\ DOMAIN a = Spots(in)
  BY DEF Whole, Rearranged
<1>2. \A i \in Spots(in) : \E j \in Spots(in) : b[i] = a[j] /\ Eid(m, b[i].x) = Eid(m, a[i].x)
  <2> TAKE i \in Spots(in)
  <2>1. CASE i \in s
    <3>1. PICK j \in s : b[i] = a[j]
      BY <2>1 DEF Rearranged
    <3> QED
      BY <2>1, <3>1
  <2>2. CASE i \notin s
    BY <1>1, <2>2 DEF Rearranged
  <2> QED
    BY <2>1, <2>2
<1>3. \A i \in Spots(in) : b[i].x \in Found(in)
  BY <1>2 DEF Whole
<1>4. \A c \in Found(in) : \E i \in Spots(in) : b[i].x = c
  <2> TAKE c \in Found(in)
  <2>1. PICK j \in Spots(in) : a[j].x = c
    BY DEF Whole
  <2>2. \E i \in Spots(in) : b[i] = a[j]
    <3>1. CASE j \in s
      BY <3>1 DEF Rearranged
    <3>2. CASE j \notin s
      BY <1>1, <3>2 DEF Rearranged
    <3> QED
      BY <3>1, <3>2
  <2> QED
    BY <2>1, <2>2
<1>5. \A i, j \in Spots(in) : b[i].x = b[j].x => i = j
  BY DEF Whole, Rearranged
<1> QED
  BY <1>1, <1>2, <1>3, <1>4, <1>5 DEF Whole, SameEdges

-----------------------------------------------------------------------------
(* The partition of a range lo .. hi. *)

(* Slots lo .. p - 1 are less than the pivot, slots from q on to r are not. *)
Parted(a, lo, p, q, r, pivot) ==
  /\ \A j \in lo .. p - 1 : Less(a[j], pivot)
  /\ \A j \in q .. r : ~ Less(a[j], pivot)

(* What partitionRange has after k of its records. *)
Moved(R, D, a, lo, hi, k) ==
  {y \in [a : [D -> R], i : Int] :
     /\ y.i \in lo .. lo + k
     /\ Rearranged(input, a, y.a, lo .. hi)
     /\ y.a[hi] = a[hi]
     /\ Parted(y.a, lo, y.i, y.i, lo + k - 1, a[hi])}

(* How it treats the next one. *)
MoveOne(a, lo, hi, k, y) ==
  IF Less(y.a[lo + k], a[hi]) THEN [a |-> Swap(y.a, y.i, lo + k), i |-> y.i + 1] ELSE y

(* Changing nothing is a rearrangement. *)
LEMMA RearrangedNot ==
  ASSUME NEW in, NEW a, NEW s, s \subseteq DOMAIN a
  PROVE  Rearranged(in, a, a, s)
BY DEF Rearranged

(* One more record keeps what partitionRange has. *)
LEMMA MovesOn ==
  ASSUME NEW l \in Nat, Spots(input) = 0 .. l - 1, NEW R, NEW a \in [0 .. l - 1 -> R],
         NEW lo \in 0 .. l - 1, NEW hi \in 0 .. l - 1, lo < hi,
         NEW k \in 0 .. hi - lo - 1, NEW y \in Moved(R, 0 .. l - 1, a, lo, hi, k)
  PROVE  MoveOne(a, lo, hi, k, y) \in Moved(R, 0 .. l - 1, a, lo, hi, k + 1)
<1>1. /\ y \in [a : [0 .. l - 1 -> R], i : Int]
      /\ y.i \in lo .. lo + k
      /\ Rearranged(input, a, y.a, lo .. hi)
      /\ y.a[hi] = a[hi]
      /\ \A j \in lo .. y.i - 1 : Less(y.a[j], a[hi])
      /\ \A j \in y.i .. lo + k - 1 : ~ Less(y.a[j], a[hi])
  BY DEF Moved, Parted
<1>2. PICK b \in [0 .. l - 1 -> R], p \in lo .. lo + k : b = y.a /\ p = y.i
  BY <1>1
<1>3. /\ Rearranged(input, a, b, lo .. hi) /\ b[hi] = a[hi]
      /\ \A j \in lo .. p - 1 : Less(b[j], a[hi])
      /\ \A j \in p .. lo + k - 1 : ~ Less(b[j], a[hi])
  BY <1>1, <1>2
<1>4. CASE ~ Less(b[lo + k], a[hi])
  <2>1. MoveOne(a, lo, hi, k, y) = y
    BY <1>2, <1>4 DEF MoveOne
  <2>2. \A j \in p .. lo + (k + 1) - 1 : ~ Less(b[j], a[hi])
    <3>1. \A j \in p .. lo + (k + 1) - 1 : j \in p .. lo + k - 1 \/ j = lo + k
      OBVIOUS
    <3> QED
      BY <1>3, <1>4, <3>1
  <2>3. p \in lo .. lo + (k + 1)
    OBVIOUS
  <2> QED
    BY <1>1, <1>2, <1>3, <2>1, <2>2, <2>3 DEF Moved, Parted
<1>5. CASE Less(b[lo + k], a[hi])
  <2>1. PICK c : c = Swap(b, p, lo + k)
    OBVIOUS
  <2>2. MoveOne(a, lo, hi, k, y) = [a |-> c, i |-> p + 1]
    BY <1>2, <1>5, <2>1 DEF MoveOne
  <2>3. lo .. hi \in SUBSET (0 .. l - 1) /\ p \in lo .. hi /\ lo + k \in lo .. hi
    OBVIOUS
  <2>4. /\ c \in [0 .. l - 1 -> R]
        /\ c[p] = b[lo + k] /\ c[lo + k] = b[p]
        /\ \A h \in 0 .. l - 1 : h # p /\ h # lo + k => c[h] = b[h]
        /\ Rearranged(input, b, c, lo .. hi)
    <3>0. PICK D : D = 0 .. l - 1
      OBVIOUS
    <3>1. D = 0 .. l - 1 /\ \E s \in SUBSET D : s = lo .. hi
      BY <2>3, <3>0
    <3> PICK s \in SUBSET D : s = lo .. hi
      BY <3>1
    <3>2. b \in [D -> R] /\ p \in s /\ lo + k \in s /\ D = Spots(input)
      BY <2>3, <3>1
    <3>3. Swapped(input, b, Swap(b, p, lo + k), D, R, s, p, lo + k)
      BY <3>2, SwapRearranges
    <3> QED
      BY <2>1, <3>0, <3>3 DEF Swapped
  <2>5. Rearranged(input, a, c, lo .. hi)
    BY <1>3, <2>3, <2>4, RearrangedTwice
  <2>6. c[hi] = a[hi]
    <3>1. hi # p /\ hi # lo + k
      OBVIOUS
    <3> QED
      BY <1>3, <2>4, <3>1
  <2>7. \A j \in lo .. (p + 1) - 1 : Less(c[j], a[hi])
    <3> TAKE j \in lo .. (p + 1) - 1
    <3>1. CASE j = p
      BY <1>5, <2>4, <3>1
    <3>2. CASE j # p
      <4>1. j \in lo .. p - 1 /\ j \in 0 .. l - 1 /\ j # lo + k
        BY <3>2
      <4> QED
        BY <1>3, <2>4, <3>2, <4>1
    <3> QED
      BY <3>1, <3>2
  <2>8. \A j \in p + 1 .. lo + (k + 1) - 1 : ~ Less(c[j], a[hi])
    <3> TAKE j \in p + 1 .. lo + (k + 1) - 1
    <3>1. CASE j = lo + k
      <4>1. p \in p .. lo + k - 1
        BY <3>1
      <4> QED
        BY <1>3, <2>4, <3>1, <4>1
    <3>2. CASE j # lo + k
      <4>1. j \in p .. lo + k - 1 /\ j \in 0 .. l - 1 /\ j # p
        BY <3>2
      <4> QED
        BY <1>3, <2>4, <3>2, <4>1
    <3> QED
      BY <3>1, <3>2
  <2>9. p + 1 \in lo .. lo + (k + 1) /\ p + 1 \in Int
    OBVIOUS
  <2>10. [a |-> c, i |-> p + 1] \in [a : [0 .. l - 1 -> R], i : Int]
    BY <2>4, <2>9
  <2> QED
    BY <2>2, <2>4, <2>5, <2>6, <2>7, <2>8, <2>9, <2>10 DEF Moved, Parted
<1> QED
  BY <1>2, <1>4, <1>5

(* The partition moves the pivot, the last record of the range, between the
   records that are less and those that are not. *)
PartitionOf(R, D, a, lo, hi, b, p) ==
  /\ b \in [D -> R]
  /\ p \in lo .. hi
  /\ Rearranged(input, a, b, lo .. hi)
  /\ b[p] = a[hi]
  /\ Parted(b, lo, p, p + 1, hi, a[hi])
(* That is what it does. *)
LEMMA PartitionParts ==
  ASSUME NEW l \in Nat, Spots(input) = 0 .. l - 1, NEW R, NEW a \in [0 .. l - 1 -> R],
         NEW lo \in 0 .. l - 1, NEW hi \in 0 .. l - 1, lo < hi
  PROVE  PartitionOf(R, 0 .. l - 1, a, lo, hi, Partitioned(a, lo, hi).a, Partitioned(a, lo, hi).p)
<1> DEFINE Eq(s) ==
      s = [k \in 0 .. hi - lo |->
             IF k = 0 THEN [a |-> a, i |-> lo]
             ELSE IF Less(s[k - 1].a[lo + k - 1], a[hi])
                  THEN [a |-> Swap(s[k - 1].a, s[k - 1].i, lo + k - 1), i |-> s[k - 1].i + 1]
                  ELSE s[k - 1]]
<1> DEFINE it == CHOOSE s : Eq(s)
<1>1. Partitioned(a, lo, hi) = [a |-> Swap(it[hi - lo].a, it[hi - lo].i, hi), p |-> it[hi - lo].i]
  BY DEF Partitioned
<1> DEFINE V == [k \in 0 .. hi - lo |-> Moved(R, 0 .. l - 1, a, lo, hi, k)]
<1> DEFINE G == [k \in 0 .. hi - lo - 1 |->
                   [y \in Moved(R, 0 .. l - 1, a, lo, hi, k) |-> MoveOne(a, lo, hi, k, y)]]
<1>2. PICK d \in Nat : d = hi - lo
  OBVIOUS
<1>3. [a |-> a, i |-> lo] \in V[0]
  <2>1. lo .. hi \subseteq DOMAIN a
    OBVIOUS
  <2>2. Rearranged(input, a, a, lo .. hi)
    BY <2>1, RearrangedNot
  <2>3. [a |-> a, i |-> lo] \in Moved(R, 0 .. l - 1, a, lo, hi, 0)
    BY <2>2 DEF Moved, Parted
  <2> QED
    BY <2>3
<1>4. \A k \in 0 .. d - 1 : \A y \in V[k] : G[k][y] \in V[k + 1]
  <2> TAKE k \in 0 .. d - 1
  <2> TAKE y \in V[k]
  <2>1. k \in 0 .. hi - lo - 1 /\ k \in 0 .. hi - lo /\ k + 1 \in 0 .. hi - lo
    BY <1>2
  <2>2. y \in Moved(R, 0 .. l - 1, a, lo, hi, k)
    BY <2>1
  <2>3. G[k][y] = MoveOne(a, lo, hi, k, y)
    BY <2>1, <2>2
  <2>4. MoveOne(a, lo, hi, k, y) \in Moved(R, 0 .. l - 1, a, lo, hi, k + 1)
    BY <2>1, <2>2, MovesOn
  <2> QED
    BY <2>1, <2>3, <2>4
<1>5. HasRunIn(d, V, [a |-> a, i |-> lo], G)
  <2> HIDE DEF V, G
  <2> QED
    BY <1>3, <1>4, StepInto
<1>6. PICK s : /\ s = [k \in 0 .. d |-> s[k]]
               /\ s[0] = [a |-> a, i |-> lo]
               /\ \A k \in 0 .. d - 1 : s[k + 1] = G[k][s[k]]
               /\ \A k \in 0 .. d : s[k] \in V[k]
  <2> HIDE DEF V, G
  <2> QED
    BY <1>5 DEF HasRunIn
<1>7. \A k \in 0 .. d : s[k] \in Moved(R, 0 .. l - 1, a, lo, hi, k)
  BY <1>2, <1>6
<1>8. Eq(s)
  <2>1. ASSUME NEW k \in 0 .. hi - lo
        PROVE  s[k] = IF k = 0 THEN [a |-> a, i |-> lo]
             ELSE IF Less(s[k - 1].a[lo + k - 1], a[hi])
                  THEN [a |-> Swap(s[k - 1].a, s[k - 1].i, lo + k - 1), i |-> s[k - 1].i + 1]
                  ELSE s[k - 1]
    <3>1. CASE k = 0
      BY <1>6, <3>1
    <3>2. CASE k # 0
      <4>1. PICK j \in 0 .. d - 1 : j = k - 1 /\ k = j + 1
        BY <1>2, <3>2
      <4>2. j \in 0 .. hi - lo - 1 /\ j \in 0 .. d /\ lo + k - 1 = lo + j
        BY <1>2, <4>1
      <4>3. s[k] = G[j][s[j]]
        <5> HIDE DEF G
        <5> QED
          BY <1>6, <4>1
      <4>4. G[j][s[j]] = MoveOne(a, lo, hi, j, s[j])
        BY <1>7, <4>2
      <4>5. s[k] = MoveOne(a, lo, hi, j, s[j])
        BY <4>3, <4>4
      <4> HIDE DEF G, V
      <4>6. MoveOne(a, lo, hi, j, s[j]) =
              IF Less(s[j].a[lo + j], a[hi])
              THEN [a |-> Swap(s[j].a, s[j].i, lo + j), i |-> s[j].i + 1] ELSE s[j]
        BY DEF MoveOne
      <4> QED
        BY <3>2, <4>1, <4>2, <4>5, <4>6
    <3> QED
      BY <3>1, <3>2
  <2>2. s = [k \in 0 .. hi - lo |-> s[k]]
    BY <1>2, <1>6
  <2> QED
    BY <2>1, <2>2
<1>9. PICK r : r = it /\ Eq(r)
  <2> HIDE DEF Eq
  <2> QED
    BY <1>8
<1> HIDE DEF it
<1>10. \A k \in 0 .. d : r[k] \in Moved(R, 0 .. l - 1, a, lo, hi, k)
  <2> DEFINE T == {k \in 0 .. d : r[k] \in Moved(R, 0 .. l - 1, a, lo, hi, k)}
  <2>1. 0 \in T
    BY <1>2, <1>3, <1>9
  <2>2. ASSUME NEW k \in 0 .. d - 1, k \in T PROVE k + 1 \in T
    <3>1. k \in 0 .. hi - lo - 1 /\ k + 1 \in 0 .. hi - lo /\ k + 1 # 0 /\ (k + 1) - 1 = k
          /\ lo + (k + 1) - 1 = lo + k
      BY <1>2
    <3>2. r[k + 1] = IF Less(r[k].a[lo + k], a[hi])
                     THEN [a |-> Swap(r[k].a, r[k].i, lo + k), i |-> r[k].i + 1] ELSE r[k]
      BY <1>9, <3>1
    <3> HIDE DEF Eq, V, G
    <3>3. r[k + 1] = MoveOne(a, lo, hi, k, r[k])
      BY <3>2 DEF MoveOne
    <3>4. r[k] \in Moved(R, 0 .. l - 1, a, lo, hi, k)
      BY <2>2
    <3>5. r[k + 1] \in Moved(R, 0 .. l - 1, a, lo, hi, k + 1)
      BY <3>1, <3>3, <3>4, MovesOn
    <3>6. k + 1 \in 0 .. d
      OBVIOUS
    <3> QED
      BY <3>5, <3>6
  <2>3. \A k \in 0 .. d : k \in T
    <3> HIDE DEF T, Eq, V, G
    <3> QED
      BY <2>1, <2>2, UpTo
  <2> QED
    BY <2>3
<1> HIDE DEF Eq, V, G
<1>11. r[d] \in Moved(R, 0 .. l - 1, a, lo, hi, d)
  BY <1>10
<1>12. /\ r[d] \in [a : [0 .. l - 1 -> R], i : Int]
       /\ r[d].i \in lo .. lo + d
       /\ Rearranged(input, a, r[d].a, lo .. hi)
       /\ r[d].a[hi] = a[hi]
       /\ \A j \in lo .. r[d].i - 1 : Less(r[d].a[j], a[hi])
       /\ \A j \in r[d].i .. lo + d - 1 : ~ Less(r[d].a[j], a[hi])
  BY <1>11 DEF Moved, Parted
<1>13. PICK b \in [0 .. l - 1 -> R], p \in lo .. hi : b = r[d].a /\ p = r[d].i
  <2>1. r[d].a \in [0 .. l - 1 -> R]
    BY <1>12
  <2>2. r[d].i \in lo .. hi
    BY <1>2, <1>12
  <2> QED
    BY <2>1, <2>2
<1>14. /\ Rearranged(input, a, b, lo .. hi) /\ b[hi] = a[hi]
       /\ \A j \in lo .. p - 1 : Less(b[j], a[hi])
       /\ \A j \in p .. hi - 1 : ~ Less(b[j], a[hi])
  <2>1. lo + d - 1 = hi - 1
    BY <1>2
  <2> QED
    BY <1>12, <1>13, <2>1
<1>15. PICK c : c = Swap(b, p, hi)
  OBVIOUS
<1>16. Partitioned(a, lo, hi) = [a |-> c, p |-> p]
  BY <1>1, <1>2, <1>9, <1>13, <1>15
<1>17. /\ c \in [0 .. l - 1 -> R]
       /\ c[p] = b[hi] /\ c[hi] = b[p]
       /\ \A h \in 0 .. l - 1 : h # p /\ h # hi => c[h] = b[h]
       /\ Rearranged(input, b, c, lo .. hi)
  <2>0. PICK D : D = 0 .. l - 1
    OBVIOUS
  <2>1. D = 0 .. l - 1 /\ \E w \in SUBSET D : w = lo .. hi
    BY <2>0
  <2> PICK s1 \in SUBSET D : s1 = lo .. hi
    BY <2>1
  <2>2. b \in [D -> R] /\ p \in s1 /\ hi \in s1 /\ D = Spots(input)
    BY <2>1
  <2>3. Swapped(input, b, Swap(b, p, hi), D, R, s1, p, hi)
    BY <2>2, SwapRearranges
  <2> QED
    BY <1>15, <2>0, <2>3 DEF Swapped
<1>18. Rearranged(input, a, c, lo .. hi)
  <2>1. lo .. hi \subseteq DOMAIN a
    OBVIOUS
  <2> QED
    BY <1>14, <1>17, <2>1, RearrangedTwice
<1>19. \A j \in lo .. p - 1 : Less(c[j], a[hi])
  <2> TAKE j \in lo .. p - 1
  <2>1. j \in 0 .. l - 1 /\ j # p /\ j # hi
    OBVIOUS
  <2> QED
    BY <1>14, <1>17, <2>1
<1>20. \A j \in p + 1 .. hi : ~ Less(c[j], a[hi])
  <2> TAKE j \in p + 1 .. hi
  <2>1. CASE j = hi
    <3>1. p \in p .. hi - 1
      BY <2>1
    <3> QED
      BY <1>14, <1>17, <2>1, <3>1
  <2>2. CASE j # hi
    <3>1. j \in p .. hi - 1 /\ j \in 0 .. l - 1 /\ j # p
      BY <2>2
    <3> QED
      BY <1>14, <1>17, <2>2, <3>1
  <2> QED
    BY <2>1, <2>2
<1>21. PartitionOf(R, 0 .. l - 1, a, lo, hi, c, p)
  BY <1>14, <1>17, <1>18, <1>19, <1>20 DEF PartitionOf, Parted
<1>22. Partitioned(a, lo, hi).a = c /\ Partitioned(a, lo, hi).p = p
  BY <1>16
<1> QED
  BY <1>21, <1>22

-----------------------------------------------------------------------------
(* What is kept of each run are the edges that are crossed. *)
LEMMA RunsAreEdges ==
  ASSUME input \in Inputs, NEW m, m = im, m \in Maps, Whole(input, xs), Sorted(input, m, xs)
  PROVE  Edges(input, m, xs, [g \in 0 .. Cardinality(RunStarts) - 1 |-> EidAt(RunStart(g))])
<1>1. PICK l \in Nat : l = Len(queue)
  BY InputFacts DEF queue
<1>2. Slots = 0 .. l - 1 /\ Spots(input) = 0 .. l - 1
  BY <1>1 DEF Slots, n, Spots, queue
<1>3. PICK f \in [0 .. l - 1 -> Nat] : \A i \in 0 .. l - 1 : f[i] = Eid(m, xs[i].x)
  <2>1. [i \in 0 .. l - 1 |-> Eid(m, xs[i].x)] \in [0 .. l - 1 -> Nat]
    BY <1>2, EidFacts
  <2> QED
    BY <2>1
<1>4. \A i \in 0 .. l - 1 : f[i] = EidAt(i)
  BY <1>3 DEF EidAt
<1>5. \A i, j \in 0 .. l - 1 : i < j => f[i] <= f[j]
  BY <1>2, <1>3 DEF Sorted
<1>6. PICK S \in SUBSET (0 .. l - 1) : S = RunStarts
  BY <1>2 DEF RunStarts
<1>7. \A i \in 0 .. l - 1 : i \in S <=> (i = 0 \/ f[i] # f[i - 1])
  <2> TAKE i \in 0 .. l - 1
  <2>1. i = 0 \/ i - 1 \in 0 .. l - 1
    OBVIOUS
  <2> QED
    BY <1>2, <1>4, <1>6, <2>1 DEF RunStarts
<1>8. PICK N \in Nat : N = Cardinality(S)
  BY NthElement
<1>9. /\ \A i \in S : Below(S, i) \in 0 .. N - 1
      /\ \A i, k \in S : i < k => Below(S, i) < Below(S, k)
      /\ \A g \in 0 .. N - 1 : \E i \in S : Below(S, i) = g
  BY <1>8, NthElement
<1>10. PICK b \in [S -> 0 .. N - 1] : \A i \in S : b[i] = Below(S, i)
  <2>1. [i \in S |-> Below(S, i)] \in [S -> 0 .. N - 1]
    BY <1>9
  <2> QED
    BY <2>1
<1>11. \A i, k \in S : i < k => b[i] < b[k]
  BY <1>9, <1>10
<1>12. \A i, k \in S : b[i] = b[k] => i = k
  <2> TAKE i, k \in S
  <2>1. i \in Nat /\ k \in Nat /\ b[i] \in Nat /\ b[k] \in Nat
    OBVIOUS
  <2>2. (i < k => b[i] < b[k]) /\ (k < i => b[k] < b[i])
    BY <1>11
  <2> QED
    BY <2>1, <2>2
<1>13. ASSUME NEW g \in 0 .. N - 1 PROVE RunStart(g) \in S /\ b[RunStart(g)] = g
  <2>1. RunStart(g) = CHOOSE i \in S : Below(S, i) = g
    BY <1>6 DEF RunStart, Below
  <2>2. \E i \in S : Below(S, i) = g
    BY <1>9
  <2>3. RunStart(g) \in S /\ Below(S, RunStart(g)) = g
    BY <2>1, <2>2
  <2> QED
    BY <1>10, <2>3
<1>14. PICK r \in [0 .. N - 1 -> S] : \A g \in 0 .. N - 1 : r[g] = RunStart(g) /\ b[r[g]] = g
  <2>1. [g \in 0 .. N - 1 |-> RunStart(g)] \in [0 .. N - 1 -> S]
    BY <1>13
  <2> QED
    BY <1>13, <2>1
<1>15. PICK u : u = [g \in 0 .. N - 1 |-> f[r[g]]]
  OBVIOUS
<1>16. [g \in 0 .. Cardinality(RunStarts) - 1 |-> EidAt(RunStart(g))] = u
  <2>1. \A g \in 0 .. N - 1 : EidAt(RunStart(g)) = f[r[g]]
    BY <1>4, <1>14
  <2>2. Cardinality(RunStarts) = N
    BY <1>6, <1>8
  <2> QED
    BY <1>15, <2>1, <2>2
<1>17. \A g \in 0 .. N - 1 : u[g] \in Nat /\ \E i \in Spots(input) : Eid(m, xs[i].x) = u[g]
  <2> TAKE g \in 0 .. N - 1
  <2>1. r[g] \in 0 .. l - 1 /\ u[g] = f[r[g]]
    BY <1>15
  <2> QED
    BY <1>2, <1>3, <2>1
<1>18. ASSUME NEW g \in 0 .. N - 1, NEW h \in 0 .. N - 1, g < h PROVE u[g] < u[h]
  <2>1. PICK i \in S, k \in S : i = r[g] /\ k = r[h] /\ b[i] = g /\ b[k] = h
    BY <1>14
  <2>2. i < k
    <3>1. i \in Nat /\ k \in Nat
      OBVIOUS
    <3>2. k < i => b[k] < b[i]
      BY <1>11
    <3> QED
      BY <1>18, <2>1, <3>1, <3>2
  <2>3. k \in 0 .. l - 1 /\ k # 0 /\ k - 1 \in 0 .. l - 1 /\ i \in 0 .. l - 1 /\ i <= k - 1
    BY <2>2
  <2>4. f[k] # f[k - 1]
    BY <1>7, <2>3
  <2>5. PICK x \in Nat, y \in Nat, z \in Nat : x = f[i] /\ y = f[k - 1] /\ z = f[k]
    BY <2>3
  <2>6. x <= y
    <3>1. CASE i = k - 1
      BY <2>5, <3>1
    <3>2. CASE i # k - 1
      <4>1. i < k - 1
        BY <2>3, <3>2
      <4> QED
        BY <1>5, <2>3, <2>5, <4>1
    <3> QED
      BY <3>1, <3>2
  <2>7. y <= z
    <3>1. k - 1 < k
      BY <2>3
    <3> QED
      BY <1>5, <2>3, <2>5, <3>1
  <2>8. x < z
    BY <2>4, <2>5, <2>6, <2>7
  <2> QED
    BY <1>15, <2>1, <2>5, <2>8
<1>19. \A i \in 0 .. l - 1 : \E g \in 0 .. N - 1 : f[i] = u[g]
  <2> DEFINE T == {i \in 0 .. l - 1 : \E k \in S : f[i] = f[k]}
  <2>1. ASSUME l > 0 PROVE 0 \in T
    <3>1. 0 \in S
      BY <1>7, <2>1
    <3> QED
      BY <3>1
  <2>2. ASSUME NEW i \in 0 .. (l - 1) - 1, i \in T PROVE i + 1 \in T
    <3>1. i + 1 \in 0 .. l - 1 /\ i + 1 # 0 /\ (i + 1) - 1 = i
      OBVIOUS
    <3>2. CASE i + 1 \in S
      BY <3>1, <3>2
    <3>3. CASE i + 1 \notin S
      <4>1. f[i + 1] = f[i]
        BY <1>7, <3>1, <3>3
      <4> QED
        BY <2>2, <3>1, <4>1
    <3> QED
      BY <3>2, <3>3
  <2>3. \A i \in 0 .. l - 1 : i \in T
    <3>1. CASE l = 0
      BY <3>1
    <3>2. CASE l > 0
      <4>1. l - 1 \in Nat
        BY <3>2
      <4> HIDE DEF T
      <4> QED
        BY <2>1, <2>2, <3>2, <4>1, UpTo
    <3> QED
      BY <3>1, <3>2
  <2> TAKE i \in 0 .. l - 1
  <2>4. PICK k \in S : f[i] = f[k]
    BY <2>3
  <2>5. b[k] \in 0 .. N - 1 /\ r[b[k]] = k
    BY <1>12, <1>14
  <2>6. u[b[k]] = f[k]
    BY <1>15, <2>5
  <2> QED
    BY <2>4, <2>5, <2>6
<1>20. \A i \in Spots(input) : \E g \in 0 .. N - 1 : Eid(m, xs[i].x) = u[g]
  BY <1>2, <1>3, <1>19
<1>21. DOMAIN u = 0 .. N - 1
  BY <1>15
<1>22. Edges(input, m, xs, u)
  BY <1>17, <1>18, <1>20, <1>21 DEF Edges
<1> QED
  BY <1>16, <1>22

(* The running sums of the counts, where the ranges are. *)
LEMMA SumsAreRanges ==
  ASSUME NEW N \in Nat, NEW l \in Nat, NEW lo, NEW hi, Consecutive(N, lo, hi, l),
         NEW c, c = [g \in 0 .. N - 1 |-> hi[g] - lo[g]]
  PROVE  \A g \in 0 .. N - 1 : /\ SumFunctionOnSet(c, 0 .. g - 1) = lo[g]
                               /\ SumFunctionOnSet(c, 0 .. g) = hi[g]
<1>1. /\ lo \in [0 .. N - 1 -> 0 .. l] /\ hi \in [0 .. N - 1 -> 0 .. l]
      /\ N > 0 => lo[0] = 0
      /\ \A g \in 0 .. N - 2 : lo[g + 1] = hi[g]
  BY DEF Consecutive
<1>2. c \in [0 .. N - 1 -> Int]
  BY <1>1
<1>3. /\ SumFunctionOnSet(c, 0 .. 0 - 1) = 0
      /\ \A i \in 0 .. N : SumFunctionOnSet(c, 0 .. i - 1) \in Int
      /\ \A i \in 0 .. N - 1 :
           SumFunctionOnSet(c, 0 .. (i + 1) - 1) = SumFunctionOnSet(c, 0 .. i - 1) + c[i]
  BY <1>2, SumOfFirst
<1>4. PICK p \in [0 .. N -> Int] : \A i \in 0 .. N : p[i] = SumFunctionOnSet(c, 0 .. i - 1)
  <2>1. [i \in 0 .. N |-> SumFunctionOnSet(c, 0 .. i - 1)] \in [0 .. N -> Int]
    BY <1>3
  <2> QED
    BY <2>1
<1>5. p[0] = 0 /\ \A i \in 0 .. N - 1 : p[i + 1] = p[i] + c[i]
  <2>1. p[0] = 0
    BY <1>3, <1>4
  <2>2. ASSUME NEW i \in 0 .. N - 1 PROVE p[i + 1] = p[i] + c[i]
    <3>1. i \in 0 .. N /\ i + 1 \in 0 .. N
      OBVIOUS
    <3> QED
      BY <1>3, <1>4, <3>1
  <2> QED
    BY <2>1, <2>2
<1> DEFINE T == {g \in 0 .. N - 1 : p[g] = lo[g]}
<1>6. ASSUME NEW g \in 0 .. N - 1, p[g] = lo[g] PROVE p[g + 1] = hi[g]
  <2>1. PICK x \in Int, y \in Int : x = lo[g] /\ y = hi[g]
    BY <1>1
  <2>2. c[g] = y - x
    BY <2>1
  <2>3. p[g + 1] = x + (y - x)
    BY <1>5, <1>6, <2>1, <2>2
  <2> QED
    BY <2>1, <2>3
<1>7. \A g \in 0 .. N - 1 : g \in T
  <2>1. ASSUME N > 0 PROVE 0 \in T
    BY <1>1, <1>5, <2>1
  <2>2. ASSUME NEW g \in 0 .. (N - 1) - 1, g \in T PROVE g + 1 \in T
    <3>1. g \in 0 .. N - 1 /\ g + 1 \in 0 .. N - 1 /\ g \in 0 .. N - 2
      OBVIOUS
    <3>2. p[g + 1] = hi[g]
      BY <1>6, <2>2, <3>1
    <3> QED
      BY <1>1, <3>1, <3>2
  <2>3. CASE N = 0
    BY <2>3
  <2>4. CASE N > 0
    <3>1. N - 1 \in Nat
      BY <2>4
    <3> HIDE DEF T
    <3> QED
      BY <2>1, <2>2, <2>4, <3>1, UpTo
  <2> QED
    BY <2>3, <2>4
<1> TAKE g \in 0 .. N - 1
<1>8. p[g] = lo[g] /\ p[g + 1] = hi[g]
  BY <1>6, <1>7
<1>9. g \in 0 .. N /\ g + 1 \in 0 .. N /\ (g + 1) - 1 = g
  OBVIOUS
<1> QED
  BY <1>4, <1>8, <1>9

-----------------------------------------------------------------------------
(* What is known of one group, whose slots are lo .. hi - 1. *)

Ordered(in, m, a, lo, hi) == \A i, j \in lo .. hi - 1 : i < j => ~ LessIn(in, m, a[j], a[i])
Uncut(a, lo, hi) == \A i \in lo .. hi - 1 : a[i].mid = DontKnow
Cut(m, a, lo, hi) ==
  \A i \in lo .. hi - 1 : a[i].mid = IF i + 1 < hi THEN <<1 - m, a[i].x, a[i + 1].x>> ELSE DontKnow
Stored(md, a, lo, hi, g) == \A i \in lo .. hi - 2 : md[i - g] = <<a[i].x, a[i + 1].x>>

(* Which of it holds when; d: the thread of the group is done. *)
IsOrdered(ph, d) == ph \in {"mids", "assign", "assigned"} \/ d
IsCut(ph, pr, d) == ph = "assigned" \/ (d /\ (ph = "assign" \/ pr = "grid"))
IsStored(ph, pr, d) == ph = "assign" \/ (d /\ pr # "grid")

GroupOK(in, m, ph, a, md, lo, hi, g, d) ==
  /\ IsOrdered(ph, d) => Ordered(in, m, a, lo, hi)
  /\ IF IsCut(ph, in.program, d) THEN Cut(m, a, lo, hi) ELSE Uncut(a, lo, hi)
  /\ IsStored(ph, in.program, d) => Stored(md, a, lo, hi, g)

(* The ranges that the quicksort of a group has left: range 0 is the one it
   is at, the others are those on the stack. *)
Left(c, s, k) == IF k = 0 THEN c[1] < c[2] ELSE k \in 1 .. Len(s)
RangeAt(c, s, k) == IF k = 0 THEN c ELSE s[k]

Quick(in, m, a, lo, hi, c, s) ==
  /\ c \in Int \X Int /\ s \in Seq(Int \X Int)
  /\ \A k \in 0 .. Len(s) : Left(c, s, k) =>
       LET r == RangeAt(c, s, k) IN lo <= r[1] /\ r[1] < r[2] /\ r[2] < hi
  /\ \A k, h \in 0 .. Len(s) : Left(c, s, k) /\ Left(c, s, h) /\ k # h =>
       \/ RangeAt(c, s, k)[2] < RangeAt(c, s, h)[1]
       \/ RangeAt(c, s, h)[2] < RangeAt(c, s, k)[1]
  /\ \A i, j \in lo .. hi - 1 : i < j /\ LessIn(in, m, a[j], a[i]) =>
       \E k \in 0 .. Len(s) : /\ Left(c, s, k)
                              /\ RangeAt(c, s, k)[1] <= i /\ j <= RangeAt(c, s, k)[2]

(* What ComputeOutputPolygons leaves for a map. *)
Finished(in, m, a) ==
  /\ Whole(in, a)
  /\ \A i, j \in Spots(in) : i < j =>
       \/ Eid(m, a[i].x) < Eid(m, a[j].x)
       \/ Eid(m, a[i].x) = Eid(m, a[j].x) /\ ~ LessIn(in, m, a[j], a[i])
  /\ \A i \in Spots(in) :
       a[i].mid = IF i + 1 \in Spots(in) /\ Eid(m, a[i].x) = Eid(m, a[i + 1].x)
                  THEN <<1 - m, a[i].x, a[i + 1].x>> ELSE DontKnow

Lo == FirstOf(input, im, xs, uniq)
Hi == BehindOf(input, im, xs, uniq)

InGroups == phase \in {"groups", "mids", "assign", "assigned"}

(* The phases, and the programs that have them. *)
PhasesOK ==
  /\ input \in Inputs
  /\ todo \in {<<0, 1>>, <<1>>, <<>>}
  /\ phase # "sort" => todo # <<>>
  /\ phase = "index" => program # "grid"
  /\ phase = "mids" => program = "vk"
  /\ phase = "assign" => program # "grid"
  /\ phase = "assigned" => program = "vk"
  /\ phase \in {"sort", "unique", "index"} \/ (phase = "groups" /\ program = "vk") => done = {}

SortedOK ==
  phase # "sort" => /\ xs = [i \in Spots(input) |-> xs[i]]
                    /\ Whole(input, xs) /\ Sorted(input, im, xs)
                    /\ ~ InGroups => Uncut(xs, 0, n)

(* The index has the ranges that the searches find, whenever they are made. *)
IndexOK ==
  /\ phase \notin {"sort", "unique"} =>
       /\ Edges(input, im, xs, uniq)
       /\ \A g \in DOMAIN range : g \in Groups /\ range[g] = <<Lo[g], Hi[g]>>
  /\ InGroups /\ program # "grid" =>
       /\ DOMAIN range = Groups
       /\ DOMAIN mids = 0 .. n - Cardinality(Groups) - 1

ThreadsOK ==
  /\ InGroups => \A g \in Groups : GroupOK(input, im, phase, xs, mids, Lo[g], Hi[g], g, g \in done)
  /\ phase = "groups" /\ program = "vk" =>
       /\ DOMAIN cur = Groups /\ DOMAIN stack = Groups
       /\ \A g \in Groups : Quick(input, im, xs, Lo[g], Hi[g], cur[g], stack[g])
  /\ phase = "assign" => /\ DOMAIN polys = DOMAIN mids
                         /\ \A k \in DOMAIN mids : polys[k] = <<1 - im>> \o mids[k]

ResultsOK ==
  /\ DOMAIN result = Maps
  /\ \A m \in Maps \ Range(todo) : Finished(input, m, result[m])

Inv == PhasesOK /\ TypeOK /\ SortedOK /\ IndexOK /\ ThreadsOK /\ ResultsOK

(* The order along an edge is one. *)
LEMMA LessIsOrder ==
  ASSUME NEW in \in Inputs, NEW m \in Maps, NEW r, NEW s, NEW t,
         r.x \in Found(in), s.x \in Found(in), t.x \in Found(in)
  PROVE  /\ ~ (LessIn(in, m, r, s) /\ LessIn(in, m, s, r))
         /\ LessIn(in, m, r, s) /\ LessIn(in, m, s, t) => LessIn(in, m, r, t)
<1>1. in.rank[m][r.x] \in Nat /\ in.rank[m][s.x] \in Nat /\ in.rank[m][t.x] \in Nat
  BY InputFacts
<1>2. r.x \in Nat \X Nat /\ s.x \in Nat \X Nat /\ t.x \in Nat \X Nat
  BY InputFacts
<1>3. Eid(1 - m, r.x) \in Nat /\ Eid(1 - m, s.x) \in Nat /\ Eid(1 - m, t.x) \in Nat
  BY <1>2 DEF Eid
<1>4. PICK p \in Nat, q \in Nat, v \in Nat, x \in Nat, y \in Nat, z \in Nat :
        /\ p = in.rank[m][r.x] /\ q = in.rank[m][s.x] /\ v = in.rank[m][t.x]
        /\ x = Eid(1 - m, r.x) /\ y = Eid(1 - m, s.x) /\ z = Eid(1 - m, t.x)
  BY <1>1, <1>3
<1>5. CASE in.program \in {"rt", "vk"}
  <2>1. /\ LessIn(in, m, r, s) <=> p < q \/ (p = q /\ x < y)
        /\ LessIn(in, m, s, r) <=> q < p \/ (q = p /\ y < x)
        /\ LessIn(in, m, s, t) <=> q < v \/ (q = v /\ y < z)
        /\ LessIn(in, m, r, t) <=> p < v \/ (p = v /\ x < z)
    BY <1>4, <1>5 DEF LessIn
  <2> QED
    BY <2>1
<1>6. CASE in.program \notin {"rt", "vk"}
  <2>1. /\ LessIn(in, m, r, s) <=> p < q
        /\ LessIn(in, m, s, r) <=> q < p
        /\ LessIn(in, m, s, t) <=> q < v
        /\ LessIn(in, m, r, t) <=> p < v
    BY <1>4, <1>6 DEF LessIn
  <2> QED
    BY <2>1
<1> QED
  BY <1>5, <1>6

(* A group keeps what it has when the slots and the midpoints of others change. *)
LEMMA GroupUntouched ==
  ASSUME NEW in, NEW m, NEW ph, NEW a, NEW b, NEW ma, NEW mb, NEW lo \in Int, NEW hi \in Int,
         NEW g, NEW d, GroupOK(in, m, ph, a, ma, lo, hi, g, d),
         \A i \in lo .. hi - 1 : b[i] = a[i],
         \A i \in lo .. hi - 2 : mb[i - g] = ma[i - g]
  PROVE  GroupOK(in, m, ph, b, mb, lo, hi, g, d)
<1>1. Ordered(in, m, a, lo, hi) => Ordered(in, m, b, lo, hi)
  BY DEF Ordered
<1>2. Uncut(a, lo, hi) => Uncut(b, lo, hi)
  BY DEF Uncut
<1>3. Cut(m, a, lo, hi) => Cut(m, b, lo, hi)
  <2> SUFFICES ASSUME Cut(m, a, lo, hi), NEW i \in lo .. hi - 1
               PROVE  b[i].mid = IF i + 1 < hi THEN <<1 - m, b[i].x, b[i + 1].x>> ELSE DontKnow
    BY DEF Cut
  <2>1. a[i].mid = IF i + 1 < hi THEN <<1 - m, a[i].x, a[i + 1].x>> ELSE DontKnow
    BY DEF Cut
  <2>2. b[i] = a[i]
    OBVIOUS
  <2>3. CASE i + 1 < hi
    <3>1. i + 1 \in lo .. hi - 1
      BY <2>3
    <3>2. b[i + 1] = a[i + 1]
      BY <3>1
    <3> QED
      BY <2>1, <2>2, <2>3, <3>2
  <2>4. CASE ~ (i + 1 < hi)
    BY <2>1, <2>2, <2>4
  <2> QED
    BY <2>3, <2>4
<1>4. Stored(ma, a, lo, hi, g) => Stored(mb, b, lo, hi, g)
  <2>1. \A i \in lo .. hi - 2 : i \in lo .. hi - 1 /\ i + 1 \in lo .. hi - 1
    OBVIOUS
  <2> QED
    BY <2>1 DEF Stored
<1> QED
  BY <1>1, <1>2, <1>3, <1>4 DEF GroupOK

(* The quicksort of a group does not notice what happens in the slots of others. *)
LEMMA QuickUntouched ==
  ASSUME NEW in, NEW m, NEW a, NEW b, NEW lo, NEW hi, NEW c, NEW s,
         Quick(in, m, a, lo, hi, c, s), \A i \in lo .. hi - 1 : b[i] = a[i]
  PROVE  Quick(in, m, b, lo, hi, c, s)
<1>1. ASSUME NEW i \in lo .. hi - 1, NEW j \in lo .. hi - 1, i < j, LessIn(in, m, b[j], b[i])
      PROVE  \E k \in 0 .. Len(s) : /\ Left(c, s, k)
                                    /\ RangeAt(c, s, k)[1] <= i /\ j <= RangeAt(c, s, k)[2]
  <2>1. LessIn(in, m, a[j], a[i])
    BY <1>1
  <2> QED
    BY <1>1, <2>1 DEF Quick
<1> QED
  BY <1>1 DEF Quick

(* Groups that are all ordered and cut make a finished map. *)
LEMMA GroupsFinish ==
  ASSUME NEW in \in Inputs, NEW m \in Maps, NEW a, Whole(in, a), Sorted(in, m, a),
         NEW u, NEW N \in Nat, NEW lo, NEW hi, Layout(in, m, a, u, N, lo, hi),
         \A g \in 0 .. N - 1 : Ordered(in, m, a, lo[g], hi[g]) /\ Cut(m, a, lo[g], hi[g])
  PROVE  Finished(in, m, a)
<1>1. PICK l \in Nat : l = Len(in.queue)
  BY InputFacts
<1>2. Spots(in) = 0 .. l - 1
  BY <1>1 DEF Spots
<1>3. /\ lo \in [0 .. N - 1 -> 0 .. l] /\ hi \in [0 .. N - 1 -> 0 .. l]
      /\ \A g \in 0 .. N - 1 : \A i \in 0 .. l - 1 : Eid(m, a[i].x) = u[g] <=> lo[g] <= i /\ i < hi[g]
      /\ \A i \in 0 .. l - 1 : \E g \in 0 .. N - 1 : lo[g] <= i /\ i < hi[g]
  BY <1>1, <1>2 DEF Layout, Consecutive
<1>4. ASSUME NEW i \in Spots(in), NEW j \in Spots(in), i < j
      PROVE  \/ Eid(m, a[i].x) < Eid(m, a[j].x)
             \/ Eid(m, a[i].x) = Eid(m, a[j].x) /\ ~ LessIn(in, m, a[j], a[i])
  <2>1. PICK x \in Nat, y \in Nat : x = Eid(m, a[i].x) /\ y = Eid(m, a[j].x) /\ x <= y
    BY <1>4, EidFacts DEF Sorted
  <2>2. CASE x < y
    BY <2>1, <2>2
  <2>3. CASE x = y
    <3>1. PICK g \in 0 .. N - 1 : lo[g] <= i /\ i < hi[g]
      BY <1>2, <1>3
    <3>2. Eid(m, a[i].x) = u[g]
      BY <1>2, <1>3, <3>1
    <3>3. lo[g] <= j /\ j < hi[g]
      BY <1>2, <1>3, <2>1, <2>3, <3>2
    <3>4. lo[g] \in 0 .. l /\ hi[g] \in 0 .. l
      BY <1>3
    <3>5. i \in lo[g] .. hi[g] - 1 /\ j \in lo[g] .. hi[g] - 1
      BY <1>2, <3>1, <3>3, <3>4
    <3>6. ~ LessIn(in, m, a[j], a[i])
      BY <1>4, <3>5 DEF Ordered
    <3> QED
      BY <2>1, <2>3, <3>6
  <2> QED
    BY <2>1, <2>2, <2>3
<1>5. ASSUME NEW i \in Spots(in)
      PROVE  a[i].mid = IF i + 1 \in Spots(in) /\ Eid(m, a[i].x) = Eid(m, a[i + 1].x)
                        THEN <<1 - m, a[i].x, a[i + 1].x>> ELSE DontKnow
  <2>1. PICK g \in 0 .. N - 1 : lo[g] <= i /\ i < hi[g]
    BY <1>2, <1>3
  <2>2. Eid(m, a[i].x) = u[g]
    BY <1>2, <1>3, <2>1
  <2>3. lo[g] \in 0 .. l /\ hi[g] \in 0 .. l
    BY <1>3
  <2>4. i \in lo[g] .. hi[g] - 1
    BY <1>2, <2>1, <2>3
  <2>5. a[i].mid = IF i + 1 < hi[g] THEN <<1 - m, a[i].x, a[i + 1].x>> ELSE DontKnow
    BY <2>4 DEF Cut
  <2>6. CASE i + 1 < hi[g]
    <3>1. i + 1 \in 0 .. l - 1 /\ lo[g] <= i + 1
      BY <1>2, <2>1, <2>3, <2>6
    <3>2. Eid(m, a[i + 1].x) = u[g]
      BY <1>3, <2>6, <3>1
    <3> QED
      BY <1>2, <2>2, <2>5, <2>6, <3>1, <3>2
  <2>7. CASE ~ (i + 1 < hi[g])
    <3>1. ~ (i + 1 \in 0 .. l - 1 /\ Eid(m, a[i + 1].x) = u[g])
      BY <1>3, <2>7
    <3> QED
      BY <1>2, <2>2, <2>5, <2>7, <3>1
  <2> QED
    BY <2>6, <2>7
<1> QED
  BY <1>4, <1>5 DEF Finished

(* The context of a step behind the deduplication. *)
LEMMA LaidOut ==
  ASSUME Inv, phase \notin {"sort", "unique"}
  PROVE  /\ input \in Inputs /\ im \in Maps /\ Whole(input, xs) /\ Sorted(input, im, xs)
         /\ Slots = Spots(input) /\ Crossings = Found(input) /\ n = Len(input.queue)
         /\ \E N \in Nat : /\ Layout(input, im, xs, uniq, N, Lo, Hi)
                           /\ Groups = 0 .. N - 1 /\ Cardinality(Groups) = N
<1>1. input \in Inputs /\ todo \in {<<0, 1>>, <<1>>}
  BY DEF Inv, PhasesOK
<1>2. im \in Maps
  BY <1>1 DEF im, Maps
<1>3. Whole(input, xs) /\ Sorted(input, im, xs) /\ Edges(input, im, xs, uniq)
  BY DEF Inv, SortedOK, IndexOK
<1>4. PICK N \in Nat : Layout(input, im, xs, uniq, N, Lo, Hi)
  BY <1>1, <1>2, <1>3, EdgesLayout DEF Lo, Hi
<1>5. Groups = 0 .. N - 1
  BY <1>4 DEF Layout, Groups
<1>6. Cardinality(Groups) = N
  BY <1>5, FS_Interval
<1>7. Slots = Spots(input) /\ Crossings = Found(input) /\ n = Len(input.queue)
  BY DEF Slots, Spots, Crossings, Found, n, queue
<1> QED
  BY <1>1, <1>2, <1>3, <1>4, <1>5, <1>6, <1>7

-----------------------------------------------------------------------------
(* The three values of todo, written out. *)
LEMMA TodoFacts ==
  /\ Range(<<0, 1>>) = Maps /\ Range(<<1>>) = {1} /\ Range(<<>>) = {}
  /\ Head(<<0, 1>>) = 0 /\ Head(<<1>>) = 1
  /\ Tail(<<0, 1>>) = <<1>> /\ Tail(<<1>>) = <<>>
<1>1. DOMAIN <<0, 1>> = {1, 2} /\ DOMAIN <<1>> = {1}
  OBVIOUS
<1>2. Range(<<0, 1>>) = Maps
  BY <1>1 DEF Range, Maps
<1>3. Range(<<1>>) = {1}
  BY <1>1 DEF Range
<1>4. Range(<<>>) = {}
  BY DEF Range
<1> QED
  BY <1>2, <1>3, <1>4

(* The invariant holds at first. *)
LEMMA InitInv == Init => Inv
<1> SUFFICES ASSUME Init PROVE Inv
  OBVIOUS
<1> USE DEF Init
<1>1. PhasesOK
  BY DEF PhasesOK
<1>2. TypeOK
  BY DEF TypeOK
<1>3. SortedOK
  BY DEF SortedOK
<1>4. IndexOK
  BY DEF IndexOK, InGroups
<1>5. ThreadsOK
  BY DEF ThreadsOK, InGroups
<1>6. ResultsOK
  BY TodoFacts DEF ResultsOK
<1> QED
  BY <1>1, <1>2, <1>3, <1>4, <1>5, <1>6 DEF Inv

(* In a map that is not done, the crossings of the map before are done. *)
LEMMA ResultsStay ==
  ASSUME Inv, UNCHANGED <<input, todo, result>>
  PROVE  ResultsOK'
BY DEF Inv, ResultsOK

(* SortByEdge keeps the invariant. *)
LEMMA SortByEdgeKeeps ==
  ASSUME Inv, SortByEdge
  PROVE  Inv'
<1>1. /\ todo # <<>> /\ phase = "sort" /\ phase' = "unique" /\ done' = {}
      /\ UNCHANGED <<input, todo, uniq, range, sortVars, mids, polys, result>>
  BY DEF SortByEdge, Go
<1>2. /\ input \in Inputs /\ todo \in {<<0, 1>>, <<1>>}
  BY <1>1 DEF Inv, PhasesOK
<1>3. PICK m \in Maps : m = im /\ m = im'
  BY <1>1, <1>2 DEF im, Maps
<1>4. PICK l \in Nat : l = n /\ l = Len(input.queue)
  BY <1>2, InputFacts DEF n, queue
<1>5. Slots = 0 .. l - 1 /\ Spots(input) = 0 .. l - 1
  BY <1>4 DEF Slots, Spots
<1>6. PICK f \in Bijection(0 .. l - 1, 0 .. l - 1) :
        /\ ByEdge(f)
        /\ xs' = [i \in 0 .. l - 1 |-> [x |-> queue[f[i] + 1], mid |-> DontKnow]]
  BY <1>5 DEF SortByEdge
<1>7. /\ f \in [0 .. l - 1 -> 0 .. l - 1]
      /\ \A i, j \in 0 .. l - 1 : f[i] = f[j] => i = j
      /\ \A j \in 0 .. l - 1 : \E i \in 0 .. l - 1 : f[i] = j
  BY <1>6 DEF Bijection, Injection, Surjection, IsInjective
<1>8. PICK q : q = [i \in 0 .. l - 1 |-> input.queue[i + 1]]
  OBVIOUS
<1>9. /\ \A i \in 0 .. l - 1 : q[i] \in Found(input)
      /\ \A c \in Found(input) : \E i \in 0 .. l - 1 : q[i] = c
      /\ \A i, j \in 0 .. l - 1 : q[i] = q[j] => i = j
  <2>1. /\ \A i \in 0 .. l - 1 : input.queue[i + 1] \in Found(input)
        /\ \A c \in Found(input) : \E i \in 0 .. l - 1 : input.queue[i + 1] = c
        /\ \A i, j \in 0 .. l - 1 : input.queue[i + 1] = input.queue[j + 1] => i = j
    BY <1>2, <1>5, InputFacts
  <2>2. \A i \in 0 .. l - 1 : q[i] = input.queue[i + 1]
    BY <1>8
  <2> QED
    BY <2>1, <2>2
<1>10. \A i \in 0 .. l - 1 : xs'[i] = [x |-> q[f[i]], mid |-> DontKnow]
  <2> TAKE i \in 0 .. l - 1
  <2>1. f[i] \in 0 .. l - 1
    BY <1>7
  <2>2. q[f[i]] = input.queue[f[i] + 1]
    BY <1>8, <2>1
  <2> QED
    BY <1>6, <2>2 DEF queue
<1>11. PICK b : b = xs'
  OBVIOUS
<1>12. /\ b = [i \in 0 .. l - 1 |-> b[i]]
       /\ \A i \in 0 .. l - 1 : b[i].x = q[f[i]] /\ b[i].mid = DontKnow
  <2>1. b = [i \in 0 .. l - 1 |-> b[i]]
    BY <1>6, <1>11
  <2>2. \A i \in 0 .. l - 1 : b[i] = [x |-> q[f[i]], mid |-> DontKnow]
    BY <1>10, <1>11
  <2> QED
    BY <2>1, <2>2
<1>13. Whole(input, b)
  <2>1. DOMAIN b = 0 .. l - 1
    BY <1>12
  <2>2. \A i \in 0 .. l - 1 : b[i].x \in Found(input)
    BY <1>7, <1>9, <1>12
  <2>3. \A c \in Found(input) : \E i \in 0 .. l - 1 : b[i].x = c
    <3> TAKE c \in Found(input)
    <3>1. PICK j \in 0 .. l - 1 : q[j] = c
      BY <1>9
    <3>2. PICK i \in 0 .. l - 1 : f[i] = j
      BY <1>7
    <3> QED
      BY <1>12, <3>1, <3>2
  <2>4. \A i, j \in 0 .. l - 1 : b[i].x = b[j].x => i = j
    <3> TAKE i, j \in 0 .. l - 1
    <3>1. PICK h \in 0 .. l - 1, k \in 0 .. l - 1 : h = f[i] /\ k = f[j]
      BY <1>7
    <3>2. b[i].x = q[h] /\ b[j].x = q[k]
      BY <1>12, <3>1
    <3>3. b[i].x = b[j].x => h = k
      BY <1>9, <3>2
    <3> QED
      BY <1>7, <3>1, <3>3
  <2> QED
    BY <1>5, <2>1, <2>2, <2>3, <2>4 DEF Whole
<1>14. Sorted(input, m, b)
  <2>1. \A i, j \in 0 .. l - 1 : i < j => Eid(m, q[f[i]]) <= Eid(m, q[f[j]])
    <3> TAKE i, j \in 0 .. l - 1
    <3>1. i < j => QueueEid(f[i]) <= QueueEid(f[j])
      BY <1>5, <1>6 DEF ByEdge
    <3>2. f[i] \in 0 .. l - 1 /\ f[j] \in 0 .. l - 1
      BY <1>7
    <3>3. q[f[i]] = input.queue[f[i] + 1] /\ q[f[j]] = input.queue[f[j] + 1]
      BY <1>8, <3>2
    <3> QED
      BY <1>3, <3>1, <3>3 DEF QueueEid, queue
  <2> QED
    BY <1>5, <1>12, <2>1 DEF Sorted
<1>15. SortedOK'
  <2>1. Uncut(b, 0, l)
    BY <1>12 DEF Uncut
  <2>2. n' = l
    BY <1>1, <1>4 DEF n, queue
  <2> QED
    BY <1>1, <1>3, <1>5, <1>11, <1>12, <1>13, <1>14, <2>1, <2>2 DEF SortedOK
<1>16. PhasesOK'
  BY <1>1, <1>2 DEF PhasesOK, program
<1>17. TypeOK'
  <2>1. n' = l /\ Slots' = 0 .. l - 1 /\ Crossings' = Found(input)
    BY <1>1, <1>4 DEF n, queue, Slots, Crossings, Found
  <2>2. \A i \in DOMAIN b : i \in 0 .. l - 1 /\ b[i].x \in Found(input)
    BY <1>5, <1>13 DEF Whole
  <2>3. /\ \A g \in DOMAIN range : range[g][1] < range[g][2] /\ range[g][2] <= l
        /\ DOMAIN mids \subseteq 0 .. l - 2
        /\ \A g \in DOMAIN stack : \A r \in Range(stack[g]) : r[1] < r[2] /\ r[2] < l
    BY <1>4 DEF Inv, TypeOK
  <2>4. range' = range /\ mids' = mids /\ stack' = stack
    BY <1>1 DEF sortVars
  <2> QED
    BY <1>1, <1>11, <2>1, <2>2, <2>3, <2>4 DEF TypeOK
<1>18. IndexOK' /\ ThreadsOK'
  BY <1>1 DEF IndexOK, ThreadsOK, InGroups
<1> QED
  BY <1>1, <1>15, <1>16, <1>17, <1>18, ResultsStay DEF Inv

(* Dedup keeps the invariant. *)
LEMMA DedupKeeps ==
  ASSUME Inv, Dedup
  PROVE  Inv'
<1>1. /\ phase = "unique" /\ done' = {} /\ range' = <<>>
      /\ phase' = IF program = "grid" THEN "groups" ELSE "index"
      /\ uniq' = [g \in 0 .. Cardinality(RunStarts) - 1 |-> EidAt(RunStart(g))]
      /\ UNCHANGED <<input, todo, xs, sortVars, mids, polys, result>>
  BY DEF Dedup, Go
<1>2. /\ input \in Inputs /\ todo \in {<<0, 1>>, <<1>>}
  BY <1>1 DEF Inv, PhasesOK
<1>3. PICK m \in Maps : m = im /\ m = im'
  BY <1>1, <1>2 DEF im, Maps
<1>4. PICK a, u : a = xs /\ a = xs' /\ u = uniq'
  BY <1>1
<1>5. Whole(input, a) /\ Sorted(input, m, a) /\ a = [i \in Spots(input) |-> a[i]] /\ Uncut(a, 0, n)
  BY <1>1, <1>3, <1>4 DEF Inv, SortedOK, InGroups
<1>6. Edges(input, m, a, u)
  <2>1. Edges(input, m, xs, [g \in 0 .. Cardinality(RunStarts) - 1 |-> EidAt(RunStart(g))])
    BY <1>2, <1>3, <1>4, <1>5, RunsAreEdges
  <2> QED
    BY <1>1, <1>4, <2>1
<1>7. PhasesOK'
  BY <1>1, <1>2 DEF PhasesOK, program
<1>8. TypeOK'
  <2>1. n' = n /\ Slots' = Slots /\ Crossings' = Crossings
    BY <1>1 DEF n, queue, Slots, Crossings
  <2>2. range' = <<>> /\ mids' = mids /\ stack' = stack /\ xs' = xs
    BY <1>1 DEF sortVars
  <2>3. phase' \in {"index", "groups"}
    BY <1>1
  <2> QED
    BY <1>1, <2>1, <2>2, <2>3 DEF Inv, TypeOK
<1>9. SortedOK'
  <2>1. n' = n
    BY <1>1 DEF n, queue
  <2> QED
    BY <1>1, <1>3, <1>4, <1>5, <2>1 DEF SortedOK
<1>10. IndexOK'
  <2>1. DOMAIN range' = {}
    BY <1>1
  <2>2. (InGroups /\ program # "grid")' => FALSE
    BY <1>1 DEF InGroups, program
  <2>3. Edges(input, im, xs, uniq)'
    BY <1>1, <1>3, <1>4, <1>6
  <2> QED
    BY <2>1, <2>2, <2>3 DEF IndexOK
<1>11. ThreadsOK'
  <2>1. CASE program # "grid"
    BY <1>1, <2>1 DEF ThreadsOK, InGroups
  <2>2. CASE program = "grid"
    <3>1. PICK N \in Nat : Layout(input, m, a, u, N, FirstOf(input, m, a, u), BehindOf(input, m, a, u))
      BY <1>2, <1>5, <1>6, EdgesLayout
    <3>2. PICK lo, hi : lo = FirstOf(input, m, a, u) /\ hi = BehindOf(input, m, a, u)
      OBVIOUS
    <3>3. PICK l \in Nat : l = n /\ l = Len(input.queue)
      BY <1>2, InputFacts DEF n, queue
    <3>4. /\ DOMAIN u = 0 .. N - 1 
          /\ lo \in [0 .. N - 1 -> 0 .. l] /\ hi \in [0 .. N - 1 -> 0 .. l]
      BY <3>1, <3>2, <3>3 DEF Layout, Consecutive
    <3>5. \A g \in 0 .. N - 1 : Uncut(a, lo[g], hi[g])
      <4> TAKE g \in 0 .. N - 1
      <4>1. lo[g] \in 0 .. l /\ hi[g] \in 0 .. l
        BY <3>4
      <4>2. \A i \in lo[g] .. hi[g] - 1 : i \in 0 .. l - 1
        BY <4>1
      <4> QED
        BY <1>5, <3>3, <4>2 DEF Uncut
    <3>6. \A g \in 0 .. N - 1 : GroupOK(input, m, "groups", a, mids, lo[g], hi[g], g, FALSE)
      BY <3>5 DEF GroupOK, IsOrdered, IsCut, IsStored
    <3>7. Groups' = 0 .. N - 1 /\ Lo' = lo /\ Hi' = hi /\ done' = {}
      BY <1>1, <1>3, <1>4, <3>2, <3>4 DEF Groups, Lo, Hi
    <3>8. phase' = "groups" /\ program' = "grid"
      BY <1>1, <2>2 DEF program
    <3>9. \A g \in Groups' : GroupOK(input, im, phase, xs, mids, Lo[g], Hi[g], g, g \in done)'
      <4> TAKE g \in Groups'
      <4>1. GroupOK(input, m, "groups", a, mids, lo[g], hi[g], g, FALSE)
        BY <3>6, <3>7
      <4>2. (g \in done') = FALSE
        BY <3>7
      <4>3. mids' = mids /\ input' = input
        BY <1>1
      <4> QED
        BY <1>3, <1>4, <3>7, <3>8, <4>1, <4>2, <4>3
    <3> QED
      BY <3>8, <3>9 DEF ThreadsOK
  <2> QED
    BY <2>1, <2>2
<1> QED
  BY <1>1, <1>7, <1>8, <1>9, <1>10, <1>11, ResultsStay DEF Inv

(* The two searches of the code are the ones the ranges are made of. *)
LEMMA BoundsAreRanges ==
  \A g \in Groups : LowerBound(uniq[g]) = Lo[g] /\ UpperBound(uniq[g]) = Hi[g]
<1> TAKE g \in Groups
<1>1. Slots = Spots(input)
  BY DEF Slots, Spots, n, queue
<1>2. \A i \in Spots(input) : EidAt(i) = Eid(im, xs[i].x)
  BY DEF EidAt
<1>3. PICK e : e = uniq[g]
  OBVIOUS
<1>4. LowerBound(e) = First(input, im, xs, e)
  <2>1. {i \in Slots : EidAt(i) < e} = {i \in Spots(input) : Eid(im, xs[i].x) < e}
    BY <1>1, <1>2
  <2> QED
    BY <2>1 DEF LowerBound, First
<1>5. UpperBound(e) = Behind(input, im, xs, e)
  <2>1. {i \in Slots : EidAt(i) <= e} = {i \in Spots(input) : Eid(im, xs[i].x) <= e}
    BY <1>1, <1>2
  <2> QED
    BY <2>1 DEF UpperBound, Behind
<1>6. Lo[g] = First(input, im, xs, uniq[g]) /\ Hi[g] = Behind(input, im, xs, uniq[g])
  BY DEF Lo, Hi, FirstOf, BehindOf, Groups
<1> QED
  BY <1>3, <1>4, <1>5, <1>6

(* What is behind BuildIndex: N groups with their ranges. *)
LEMMA NewGroups ==
  ASSUME NEW in, NEW m, NEW a, NEW md, NEW N \in Nat, NEW l \in Nat, NEW lo, NEW hi,
         Consecutive(N, lo, hi, l), Uncut(a, 0, l), NEW ph \in {"groups", "assigned"},
         ph = "assigned" => N = l
  PROVE  \A g \in 0 .. N - 1 : GroupOK(in, m, ph, a, md, lo[g], hi[g], g, FALSE)
<1> TAKE g \in 0 .. N - 1
<1>1. lo[g] \in 0 .. l /\ hi[g] \in 0 .. l /\ lo[g] < hi[g]
  BY DEF Consecutive
<1>2. Uncut(a, lo[g], hi[g])
  <2>1. \A i \in lo[g] .. hi[g] - 1 : i \in 0 .. l - 1
    BY <1>1
  <2> QED
    BY <2>1 DEF Uncut
<1>3. CASE ph = "groups"
  BY <1>2, <1>3 DEF GroupOK, IsOrdered, IsCut, IsStored
<1>4. CASE ph = "assigned"
  <2>1. \A i \in Int : ~ PieceIn(lo, hi, g, i)
    <3> SUFFICES ASSUME NEW i \in Int, PieceIn(lo, hi, g, i) PROVE FALSE
      OBVIOUS
    <3>1. i - g \in 0 .. l - N - 1
      BY PiecesNumbered
    <3> QED
      BY <1>4, <3>1
  <2>2. \A i \in lo[g] .. hi[g] - 1 : ~ (i + 1 < hi[g])
    <3> TAKE i \in lo[g] .. hi[g] - 1
    <3>1. i \in Int /\ lo[g] <= i
      BY <1>1
    <3> QED
      BY <2>1, <3>1 DEF PieceIn
  <2>3. Ordered(in, m, a, lo[g], hi[g])
    <3> SUFFICES ASSUME NEW i \in lo[g] .. hi[g] - 1, NEW j \in lo[g] .. hi[g] - 1, i < j
                 PROVE  FALSE
      BY DEF Ordered
    <3>1. i + 1 < hi[g]
      BY <1>1
    <3> QED
      BY <2>2, <3>1
  <2>4. Cut(m, a, lo[g], hi[g])
    BY <1>2, <2>2 DEF Cut, Uncut
  <2> QED
    BY <1>4, <2>3, <2>4 DEF GroupOK, IsOrdered, IsCut, IsStored
<1> QED
  BY <1>3, <1>4

(* The quicksort of a group starts with all of it, if that is more than one slot. *)
LEMMA QuickStarts ==
  ASSUME NEW in, NEW m, NEW a, NEW lo \in Nat, NEW hi \in Nat, NEW s,
         s = IF hi - lo > 1 THEN <<<<lo, hi - 1>>>> ELSE <<>>
  PROVE  Quick(in, m, a, lo, hi, <<0, 0>>, s)
<1>1. CASE hi - lo > 1
  <2>1. s = <<<<lo, hi - 1>>>>
    BY <1>1
  <2>2. s \in Seq(Int \X Int) /\ Len(s) = 1 /\ s[1] = <<lo, hi - 1>>
    BY <2>1
  <2>3. \A k \in 0 .. 1 : Left(<<0, 0>>, s, k) <=> k = 1
    BY <2>2 DEF Left
  <2>4. \A k \in 0 .. 1 : Left(<<0, 0>>, s, k) => RangeAt(<<0, 0>>, s, k) = <<lo, hi - 1>>
    BY <2>2, <2>3 DEF RangeAt
  <2>5. ASSUME NEW i \in lo .. hi - 1, NEW j \in lo .. hi - 1
        PROVE  \E k \in 0 .. 1 : /\ Left(<<0, 0>>, s, k)
                                 /\ RangeAt(<<0, 0>>, s, k)[1] <= i /\ j <= RangeAt(<<0, 0>>, s, k)[2]
    <3>1. 1 \in 0 .. 1 /\ Left(<<0, 0>>, s, 1) /\ RangeAt(<<0, 0>>, s, 1) = <<lo, hi - 1>>
      BY <2>3, <2>4
    <3>2. RangeAt(<<0, 0>>, s, 1)[1] = lo /\ RangeAt(<<0, 0>>, s, 1)[2] = hi - 1
      BY <3>1
    <3>3. lo <= i /\ j <= hi - 1
      OBVIOUS
    <3> QED
      BY <3>1, <3>2, <3>3
  <2> QED
    BY <1>1, <2>2, <2>3, <2>4, <2>5 DEF Quick
<1>2. CASE ~ (hi - lo > 1)
  <2>1. s = <<>> /\ Len(s) = 0 /\ s \in Seq(Int \X Int)
    BY <1>2
  <2>2. \A k \in 0 .. 0 : ~ Left(<<0, 0>>, s, k)
    BY DEF Left
  <2>3. \A i, j \in lo .. hi - 1 : ~ (i < j)
    BY <1>2
  <2> QED
    BY <2>1, <2>2, <2>3 DEF Quick
<1> QED
  BY <1>1, <1>2

(* BuildIndex keeps the invariant. *)
LEMMA BuildIndexKeeps ==
  ASSUME Inv, BuildIndex
  PROVE  Inv'
<1>1. /\ phase = "index" /\ done' = {}
      /\ range' = [g \in Groups |-> <<SumFunctionOnSet(Counts, 0 .. g - 1), SumFunctionOnSet(Counts, 0 .. g)>>]
      /\ mids' = [k \in 0 .. n - Cardinality(Groups) - 1 |-> Blank]
      /\ phase' = IF program = "vk" /\ mids' = <<>> THEN "assigned" ELSE "groups"
      /\ cur' = [g \in Groups |-> <<0, 0>>]
      /\ stack' = [g \in Groups |-> IF Counts[g] > 1 THEN <<<<range'[g][1], range'[g][2] - 1>>>> ELSE <<>>]
      /\ UNCHANGED <<input, todo, xs, uniq, polys, result>>
  BY DEF BuildIndex, Go, NMidPoints
<1>2. /\ input \in Inputs /\ todo \in {<<0, 1>>, <<1>>} /\ program # "grid"
  BY <1>1 DEF Inv, PhasesOK
<1>3. /\ input \in Inputs /\ im \in Maps /\ Whole(input, xs) /\ Sorted(input, im, xs)
      /\ Slots = Spots(input) /\ Crossings = Found(input) /\ n = Len(input.queue)
  BY <1>1, LaidOut
<1>4. PICK N \in Nat : /\ Layout(input, im, xs, uniq, N, Lo, Hi)
                       /\ Groups = 0 .. N - 1 /\ Cardinality(Groups) = N
  BY <1>1, LaidOut
<1>5. PICK m \in Maps : m = im /\ m = im'
  BY <1>1, <1>2 DEF im, Maps
<1>6. PICK l \in Nat : l = n /\ l = Len(input.queue)
  BY <1>2, <1>3, InputFacts
<1>7. PICK lo, hi : lo = Lo /\ hi = Hi /\ lo = Lo' /\ hi = Hi'
  <2>1. Lo' = Lo /\ Hi' = Hi
    BY <1>1, <1>5 DEF Lo, Hi
  <2> QED
    BY <2>1
<1>8. Consecutive(N, lo, hi, l)
  BY <1>4, <1>6, <1>7 DEF Layout
<1>9. /\ lo \in [0 .. N - 1 -> 0 .. l] /\ hi \in [0 .. N - 1 -> 0 .. l]
      /\ \A g \in 0 .. N - 1 : lo[g] < hi[g]
      /\ N = 0 => l = 0
  BY <1>8 DEF Consecutive
<1>10. N <= l
  BY <1>8, PiecesNumbered
<1>11. Counts = [g \in 0 .. N - 1 |-> hi[g] - lo[g]]
  BY <1>4, <1>7, BoundsAreRanges DEF Counts
<1>12. \A g \in 0 .. N - 1 : range'[g] = <<lo[g], hi[g]>>
  <2>1. \A g \in 0 .. N - 1 : /\ SumFunctionOnSet(Counts, 0 .. g - 1) = lo[g]
                              /\ SumFunctionOnSet(Counts, 0 .. g) = hi[g]
    BY <1>8, <1>11, SumsAreRanges
  <2> QED
    BY <1>1, <1>4, <2>1
<1>13. DOMAIN range' = 0 .. N - 1 /\ DOMAIN cur' = 0 .. N - 1 /\ DOMAIN stack' = 0 .. N - 1
  BY <1>1, <1>4
<1>14. \A g \in 0 .. N - 1 : /\ cur'[g] = <<0, 0>>
                             /\ stack'[g] = IF hi[g] - lo[g] > 1 THEN <<<<lo[g], hi[g] - 1>>>> ELSE <<>>
  <2> TAKE g \in 0 .. N - 1
  <2>1. Counts[g] = hi[g] - lo[g] /\ range'[g][1] = lo[g] /\ range'[g][2] = hi[g]
    BY <1>11, <1>12
  <2> QED
    BY <1>1, <1>4, <2>1
<1>15. DOMAIN mids' = 0 .. l - N - 1
  BY <1>1, <1>4, <1>6
<1>16. phase' \in {"groups", "assigned"} /\ (phase' = "assigned" => program = "vk" /\ N = l)
  <2>1. mids' = <<>> => N = l
    <3> SUFFICES ASSUME mids' = <<>>, N # l PROVE FALSE
      OBVIOUS
    <3>1. DOMAIN mids' = {}
      OBVIOUS
    <3>2. 0 \in 0 .. l - N - 1
      BY <1>10
    <3> QED
      BY <1>15, <3>1, <3>2
  <2> QED
    BY <1>1, <2>1
<1>17. PhasesOK'
  <2>1. todo' = todo /\ input' = input /\ program' = program /\ done' = {} /\ todo # <<>>
    BY <1>1, <1>2, SMTT(30) DEF program
  <2> QED
    BY <1>2, <1>16, <2>1 DEF PhasesOK
<1>18. Groups' = Groups /\ n' = n /\ Slots' = Slots /\ Crossings' = Crossings /\ InGroups'
  BY <1>1, <1>16 DEF Groups, n, queue, Slots, Crossings, InGroups
<1>19. TypeOK'
  <2>1. \A i \in DOMAIN xs' : i \in Slots' /\ xs'[i].x \in Crossings'
    BY <1>1, <1>18 DEF Inv, TypeOK
  <2>2. \A g \in DOMAIN range' : range'[g][1] < range'[g][2] /\ range'[g][2] <= l
    <3> TAKE g \in DOMAIN range'
    <3>1. g \in 0 .. N - 1 /\ range'[g][1] = lo[g] /\ range'[g][2] = hi[g]
      BY <1>12, <1>13
    <3> QED
      BY <1>9, <3>1
  <2>3. DOMAIN mids' \subseteq 0 .. l - 2
    BY <1>9, <1>15
  <2>4. ASSUME NEW g \in DOMAIN stack', NEW r \in Range(stack'[g]) PROVE r[1] < r[2] /\ r[2] < l
    <3>1. g \in 0 .. N - 1 /\ lo[g] \in 0 .. l /\ hi[g] \in 0 .. l
      BY <1>9, <1>13
    <3>2. CASE hi[g] - lo[g] > 1
      <4>1. stack'[g] = <<<<lo[g], hi[g] - 1>>>>
        BY <1>14, <3>1, <3>2
      <4>2. r = <<lo[g], hi[g] - 1>>
        BY <4>1, <2>4 DEF Range
      <4> QED
        BY <3>1, <3>2, <4>2
    <3>3. CASE ~ (hi[g] - lo[g] > 1)
      <4>1. stack'[g] = <<>>
        BY <1>14, <3>1, <3>3
      <4> QED
        BY <2>4, <4>1, TodoFacts
    <3> QED
      BY <3>2, <3>3
  <2> QED
    <3>1. phase' \in {"sort", "unique", "index", "groups", "mids", "assign", "assigned"}
      BY <1>16
    <3>2. done' \subseteq Groups'
      BY <1>1
    <3>3. n' = l
      BY <1>6, <1>18
    <3> QED
      BY <2>1, <2>2, <2>3, <2>4, <3>1, <3>2, <3>3, Zenon DEF TypeOK
<1>20. SortedOK'
  BY <1>1, <1>5, <1>18 DEF Inv, SortedOK
<1>21. IndexOK'
  <2>1. Edges(input, im, xs, uniq)'
    BY <1>1, <1>5 DEF Inv, IndexOK
  <2>2. \A g \in DOMAIN range' : g \in Groups' /\ range'[g] = <<Lo'[g], Hi'[g]>>
    BY <1>4, <1>7, <1>12, <1>13, <1>18
  <2>3. DOMAIN mids' = 0 .. n' - Cardinality(Groups') - 1 /\ DOMAIN range' = Groups'
    BY <1>4, <1>6, <1>13, <1>15, <1>18
  <2> QED
    BY <2>1, <2>2, <2>3 DEF IndexOK
<1>22. ThreadsOK'
  <2>1. PICK a, ph : a = xs /\ a = xs' /\ ph = phase'
    BY <1>1
  <2>2. Uncut(a, 0, l)
    BY <1>1, <1>6, <2>1 DEF Inv, SortedOK, InGroups
  <2>3. \A g \in 0 .. N - 1 : GroupOK(input, m, ph, a, mids', lo[g], hi[g], g, FALSE)
    BY <1>8, <1>16, <2>1, <2>2, NewGroups
  <2>4. \A g \in Groups' : GroupOK(input, im, phase, xs, mids, Lo[g], Hi[g], g, g \in done)'
    <3> TAKE g \in Groups'
    <3>1. GroupOK(input, m, ph, a, mids', lo[g], hi[g], g, FALSE)
      BY <1>4, <1>18, <2>3
    <3>2. (g \in done') = FALSE /\ input' = input
      BY <1>1
    <3> QED
      BY <1>5, <1>7, <2>1, <3>1, <3>2
  <2>5. \A g \in 0 .. N - 1 : Quick(input, m, a, lo[g], hi[g], cur'[g], stack'[g])
    <3> TAKE g \in 0 .. N - 1
    <3>1. lo[g] \in Nat /\ hi[g] \in Nat
      BY <1>9
    <3>2. PICK s : s = IF hi[g] - lo[g] > 1 THEN <<<<lo[g], hi[g] - 1>>>> ELSE <<>>
      OBVIOUS
    <3>3. Quick(input, m, a, lo[g], hi[g], <<0, 0>>, s)
      BY <3>1, <3>2, QuickStarts
    <3> QED
      BY <1>14, <3>2, <3>3
  <2>6. \A g \in Groups' : Quick(input, im, xs, Lo[g], Hi[g], cur[g], stack[g])'
    BY <1>1, <1>4, <1>5, <1>7, <1>18, <2>1, <2>5
  <2>7. phase' # "assign" /\ DOMAIN cur' = Groups' /\ DOMAIN stack' = Groups'
    BY <1>4, <1>13, <1>16, <1>18
  <2> QED
    BY <2>4, <2>6, <2>7 DEF ThreadsOK
<1> QED
  BY <1>1, <1>17, <1>19, <1>20, <1>21, <1>22, ResultsStay DEF Inv

-----------------------------------------------------------------------------
(* All that is the same for every step of a thread. *)
Context(m, N, l, lo, hi) ==
  /\ input \in Inputs /\ m \in Maps /\ m = im
  /\ N \in Nat /\ l \in Nat /\ l = n /\ l = Len(input.queue)
  /\ Slots = 0 .. l - 1 /\ Spots(input) = 0 .. l - 1 /\ Crossings = Found(input)
  /\ Groups = 0 .. N - 1 /\ Cardinality(Groups) = N
  /\ lo = Lo /\ hi = Hi
  /\ Whole(input, xs) /\ Sorted(input, m, xs)
  /\ Layout(input, m, xs, uniq, N, lo, hi) /\ Consecutive(N, lo, hi, l)
  /\ lo \in [0 .. N - 1 -> 0 .. l] /\ hi \in [0 .. N - 1 -> 0 .. l]
  /\ \A g \in 0 .. N - 1 : lo[g] < hi[g]
  /\ \A g \in DOMAIN range : g \in 0 .. N - 1 /\ range[g] = <<lo[g], hi[g]>>

(* There is such a context behind the deduplication. *)
LEMMA InContext ==
  ASSUME Inv, phase \notin {"sort", "unique"}
  PROVE  \E m, N, l, lo, hi : Context(m, N, l, lo, hi)
<1>1. /\ input \in Inputs /\ im \in Maps /\ Whole(input, xs) /\ Sorted(input, im, xs)
      /\ Slots = Spots(input) /\ Crossings = Found(input) /\ n = Len(input.queue)
  BY LaidOut
<1>2. PICK N \in Nat : /\ Layout(input, im, xs, uniq, N, Lo, Hi)
                       /\ Groups = 0 .. N - 1 /\ Cardinality(Groups) = N
  BY LaidOut
<1>3. PICK m \in Maps : m = im
  BY <1>1
<1>4. PICK l \in Nat : l = n /\ l = Len(input.queue)
  BY <1>1, InputFacts
<1>5. PICK lo, hi : lo = Lo /\ hi = Hi
  OBVIOUS
<1>6. Layout(input, m, xs, uniq, N, lo, hi) /\ Consecutive(N, lo, hi, l)
  BY <1>2, <1>3, <1>4, <1>5 DEF Layout
<1>7. /\ lo \in [0 .. N - 1 -> 0 .. l] /\ hi \in [0 .. N - 1 -> 0 .. l]
      /\ \A g \in 0 .. N - 1 : lo[g] < hi[g]
  BY <1>6 DEF Consecutive
<1>8. \A g \in DOMAIN range : g \in 0 .. N - 1 /\ range[g] = <<lo[g], hi[g]>>
  BY <1>2, <1>5 DEF Inv, IndexOK
<1>9. Spots(input) = 0 .. l - 1
  BY <1>4 DEF Spots
<1>10. Context(m, N, l, lo, hi)
  BY <1>1, <1>2, <1>3, <1>4, <1>5, <1>6, <1>7, <1>8, <1>9 DEF Context
<1> QED
  BY <1>10

(* What a step of a thread keeps if no crossing leaves the slots of its edge. *)
LEMMA ThreadStep ==
  ASSUME Inv, InGroups, UNCHANGED <<input, todo, phase, uniq, range, result>>,
         xs' = [i \in Spots(input) |-> xs'[i]], Whole(input, xs'),
         SameEdges(input, im, xs, xs'),
         DOMAIN mids' = DOMAIN mids,
         done' \subseteq Groups, phase = "groups" /\ program = "vk" => done' = {},
         \A g \in DOMAIN stack' : \A r \in Range(stack'[g]) : r[1] < r[2] /\ r[2] < n
  PROVE  /\ Lo' = Lo /\ Hi' = Hi /\ im' = im /\ Groups' = Groups
         /\ PhasesOK' /\ TypeOK' /\ SortedOK' /\ IndexOK' /\ ResultsOK'
<1>1. phase \notin {"sort", "unique", "index"} /\ InGroups'
  BY DEF InGroups
<1>2. PICK m, N, l, lo, hi : Context(m, N, l, lo, hi)
  BY <1>1, InContext
<1>3. m = im /\ m = im'
  BY <1>2 DEF Context, im
<1>4. PICK a, b, u : a = xs /\ b = xs' /\ u = uniq /\ u = uniq'
  OBVIOUS
<1>5. SameEdges(input, m, a, b)
  BY <1>3, <1>4
<1>6. FirstOf(input, m, b, u) = FirstOf(input, m, a, u) /\ BehindOf(input, m, b, u) = BehindOf(input, m, a, u)
  BY <1>5, SameEdgesKeep
<1>7. Lo' = Lo /\ Hi' = Hi
  BY <1>3, <1>4, <1>6 DEF Lo, Hi
<1>8. Groups' = Groups /\ n' = n /\ Slots' = Slots /\ Crossings' = Crossings /\ program' = program
  BY DEF Groups, n, queue, Slots, Crossings, program
<1>9. PhasesOK'
  BY <1>1, <1>8 DEF Inv, PhasesOK
<1>10. TypeOK'
  <2>1. \A i \in DOMAIN b : i \in 0 .. l - 1 /\ b[i].x \in Found(input)
    BY <1>2, <1>4 DEF Whole, Context
  <2>2. \A i \in DOMAIN xs' : i \in Slots' /\ xs'[i].x \in Crossings'
    BY <1>2, <1>4, <1>8, <2>1 DEF Context
  <2>3. \A g \in DOMAIN range : range[g][1] < range[g][2] /\ range[g][2] <= n
    BY DEF Inv, TypeOK
  <2>4. DOMAIN mids' \subseteq 0 .. n - 2 /\ phase' \in {"sort", "unique", "index", "groups", "mids", "assign", "assigned"}
    BY DEF Inv, TypeOK
  <2> QED
    BY <1>8, <2>2, <2>3, <2>4 DEF TypeOK
<1>11. SortedOK'
  <2>1. Sorted(input, m, b)
    BY <1>2, <1>4, <1>5, SameEdgesKeep DEF Context
  <2> QED
    BY <1>1, <1>3, <1>4, <2>1 DEF SortedOK
<1>12. IndexOK'
  <2>1. Edges(input, m, a, u)
    BY <1>1, <1>3, <1>4 DEF Inv, IndexOK
  <2>2. Edges(input, m, b, u)
    BY <1>5, <2>1, SameEdgesKeep
  <2>3. Edges(input, im, xs, uniq)'
    BY <1>3, <1>4, <2>2
  <2>4. \A g \in DOMAIN range' : g \in Groups' /\ range'[g] = <<Lo'[g], Hi'[g]>>
    BY <1>1, <1>7, <1>8 DEF Inv, IndexOK
  <2>5. (InGroups /\ program # "grid")' => DOMAIN range' = Groups' /\ DOMAIN mids' = 0 .. n' - Cardinality(Groups') - 1
    BY <1>8 DEF Inv, IndexOK
  <2> QED
    BY <2>3, <2>4, <2>5 DEF IndexOK
<1> QED
  BY <1>3, <1>7, <1>8, <1>9, <1>10, <1>11, <1>12, ResultsStay

(* A thread that moves crossings within its own slots leaves those of others. *)
LEMMA OwnSlots ==
  ASSUME NEW m, NEW N, NEW l, NEW lo, NEW hi, Context(m, N, l, lo, hi),
         NEW g \in 0 .. N - 1, NEW b, Rearranged(input, xs, b, lo[g] .. hi[g] - 1)
  PROVE  /\ Whole(input, b) /\ SameEdges(input, m, xs, b)
         /\ \A h \in 0 .. N - 1 : h # g => \A i \in lo[h] .. hi[h] - 1 : b[i] = xs[i]
<1>1. PICK a, u : a = xs /\ u = uniq
  OBVIOUS
<1>2. /\ input \in Inputs /\ m \in Maps /\ N \in Nat /\ l \in Nat
      /\ Spots(input) = 0 .. l - 1
      /\ Whole(input, a)
      /\ Layout(input, m, a, u, N, lo, hi) /\ Consecutive(N, lo, hi, l)
      /\ lo \in [0 .. N - 1 -> 0 .. l] /\ hi \in [0 .. N - 1 -> 0 .. l]
  BY <1>1 DEF Context
<1>3. PICK s \in SUBSET Spots(input) : s = lo[g] .. hi[g] - 1
  <2>1. lo[g] \in 0 .. l /\ hi[g] \in 0 .. l
    BY <1>2
  <2>2. lo[g] .. hi[g] - 1 \in SUBSET (0 .. l - 1)
    BY <1>2, <2>1
  <2> QED
    BY <1>2, <2>2
<1>4. \A i, j \in s : Eid(m, a[i].x) = Eid(m, a[j].x)
  <2>1. \A i \in s : lo[g] <= i /\ i < hi[g]
    BY <1>2, <1>3
  <2>2. \A i \in s : Eid(m, a[i].x) = u[g]
    BY <1>2, <1>3, <2>1 DEF Layout
  <2> QED
    BY <2>2
<1>5. Rearranged(input, a, b, s)
  BY <1>1, <1>3
<1>6. Whole(input, b) /\ SameEdges(input, m, a, b)
  BY <1>2, <1>4, <1>5, RearrangedKeeps
<1>7. ASSUME NEW h \in 0 .. N - 1, h # g, NEW i \in lo[h] .. hi[h] - 1 PROVE b[i] = a[i]
  <2>1. lo[h] \in 0 .. l /\ hi[h] \in 0 .. l /\ lo[g] \in 0 .. l /\ hi[g] \in 0 .. l
    BY <1>2
  <2>2. (g < h => hi[g] <= lo[h]) /\ (h < g => hi[h] <= lo[g])
    BY <1>2, PiecesNumbered
  <2>3. i \notin s /\ i \in 0 .. l - 1
    <3>1. PICK p \in 0 .. l, q \in 0 .. l, v \in 0 .. l, w \in 0 .. l :
            p = lo[g] /\ q = hi[g] /\ v = lo[h] /\ w = hi[h]
      BY <2>1
    <3>2. q <= v \/ w <= p
      BY <1>7, <2>2, <3>1
    <3>3. i \in v .. w - 1 /\ s = p .. q - 1
      BY <1>3, <3>1
    <3> QED
      BY <1>2, <3>2, <3>3
  <2>4. DOMAIN a = 0 .. l - 1
    BY <1>2 DEF Whole
  <2> QED
    BY <1>5, <2>3, <2>4 DEF Rearranged
<1> QED
  BY <1>1, <1>6, <1>7

(* Changing polygons only does not move a crossing. *)
LEMMA SameCrossings ==
  ASSUME NEW in, NEW m, NEW a, Whole(in, a), NEW b, DOMAIN b = Spots(in),
         \A i \in Spots(in) : b[i].x = a[i].x
  PROVE  /\ Whole(in, b) /\ SameEdges(in, m, a, b)
         /\ \A lo, hi : lo .. hi - 1 \subseteq Spots(in) /\ Ordered(in, m, a, lo, hi) => Ordered(in, m, b, lo, hi)
<1>1. Whole(in, b)
  BY DEF Whole
<1>2. SameEdges(in, m, a, b)
  BY DEF SameEdges
<1>3. ASSUME NEW lo, NEW hi, lo .. hi - 1 \subseteq Spots(in), Ordered(in, m, a, lo, hi)
      PROVE  Ordered(in, m, b, lo, hi)
  <2> SUFFICES ASSUME NEW i \in lo .. hi - 1, NEW j \in lo .. hi - 1, i < j
               PROVE  ~ LessIn(in, m, b[j], b[i])
    BY DEF Ordered
  <2>1. b[i].x = a[i].x /\ b[j].x = a[j].x
    BY <1>3
  <2>2. ~ LessIn(in, m, a[j], a[i])
    BY <1>3 DEF Ordered
  <2> QED
    BY <2>1, <2>2 DEF LessIn
<1> QED
  BY <1>1, <1>2, <1>3

(* What sorting a group leaves. *)
LEMMA SortedFacts ==
  ASSUME NEW m, NEW N, NEW l, NEW lo, NEW hi, Context(m, N, l, lo, hi),
         NEW g \in DOMAIN range, NEW b \in SortedSlots(GroupSlots(g))
  PROVE  /\ b = [i \in Spots(input) |-> b[i]]
         /\ Rearranged(input, xs, b, lo[g] .. hi[g] - 1)
         /\ Ordered(input, m, b, lo[g], hi[g])
         /\ Uncut(xs, lo[g], hi[g]) => Uncut(b, lo[g], hi[g])
<1>1. PICK s \in SUBSET Spots(input) : s = lo[g] .. hi[g] - 1 /\ s = GroupSlots(g)
  <2>1. g \in 0 .. N - 1 /\ range[g] = <<lo[g], hi[g]>>
    BY DEF Context
  <2>2. lo[g] \in 0 .. l /\ hi[g] \in 0 .. l /\ l \in Nat /\ Spots(input) = 0 .. l - 1
    BY <2>1 DEF Context
  <2>3. lo[g] .. hi[g] - 1 \in SUBSET (0 .. l - 1)
    BY <2>2
  <2>4. GroupSlots(g) = lo[g] .. hi[g] - 1
    BY <2>1 DEF GroupSlots
  <2> QED
    BY <2>2, <2>3, <2>4
<1>2. PICK a : a = xs /\ DOMAIN a = Spots(input)
  BY DEF Context, Whole
<1>3. Slots = Spots(input)
  BY DEF Context
<1>4. PICK f \in Bijection(s, s) :
        /\ \A i, j \in s : i < j => ~ Less(a[f[j]], a[f[i]])
        /\ b = [i \in Spots(input) |-> IF i \in s THEN a[f[i]] ELSE a[i]]
  <2>1. b \in {[i \in Slots |-> IF i \in s THEN xs[f[i]] ELSE xs[i]] :
                f \in {f \in Bijection(s, s) : \A i, j \in s : i < j => ~ Less(xs[f[j]], xs[f[i]])}}
    <3>1. b \in SortedSlots(s)
      BY <1>1
    <3> QED
      BY <3>1 DEF SortedSlots
  <2>2. PICK f \in Bijection(s, s) :
          /\ \A i, j \in s : i < j => ~ Less(xs[f[j]], xs[f[i]])
          /\ b = [i \in Slots |-> IF i \in s THEN xs[f[i]] ELSE xs[i]]
    BY <2>1
  <2> QED
    BY <1>2, <1>3, <2>2
<1>5. Rearranged(input, a, b, s)
  BY <1>2, <1>4, PermutedIsRearranged
<1>6. \A i \in s : b[i] = a[f[i]]
  BY <1>4
<1>7. Ordered(input, m, b, lo[g], hi[g])
  <2>1. \A r, t : Less(r, t) <=> LessIn(input, m, r, t)
    BY DEF Less, LessIn, Distance, rank, program, Context
  <2>2. \A i, j \in s : i < j => ~ LessIn(input, m, b[j], b[i])
    BY <1>4, <1>6, <2>1
  <2> QED
    BY <1>1, <2>2 DEF Ordered
<1>8. ASSUME Uncut(a, lo[g], hi[g]) PROVE Uncut(b, lo[g], hi[g])
  <2>1. \A i \in s : \E j \in s : b[i] = a[j]
    BY <1>5 DEF Rearranged
  <2> QED
    BY <1>1, <1>8, <2>1 DEF Uncut
<1>9. b = [i \in Spots(input) |-> b[i]]
  BY <1>4
<1> QED
  BY <1>1, <1>2, <1>5, <1>7, <1>8, <1>9

(* What storing the midpoints of a group does. *)
LEMMA WithMidsFacts ==
  ASSUME Inv, InGroups, program # "grid",
         NEW m, NEW N, NEW l, NEW lo, NEW hi, Context(m, N, l, lo, hi),
         NEW g \in 0 .. N - 1, NEW a
  PROVE  /\ DOMAIN WithMids(g, a) = DOMAIN mids
         /\ Stored(WithMids(g, a), a, lo[g], hi[g], g)
         /\ \A h \in 0 .. N - 1 : h # g => \A i \in lo[h] .. hi[h] - 2 : WithMids(g, a)[i - h] = mids[i - h]
<1>1. /\ N \in Nat /\ l \in Nat /\ Consecutive(N, lo, hi, l)
      /\ lo \in [0 .. N - 1 -> 0 .. l] /\ hi \in [0 .. N - 1 -> 0 .. l]
  BY DEF Context
<1>2. DOMAIN mids = 0 .. l - N - 1 /\ range[g] = <<lo[g], hi[g]>>
  BY DEF Inv, IndexOK, Context
<1>3. PieceSlots(g) = lo[g] .. hi[g] - 2
  BY <1>2 DEF PieceSlots
<1>4. \A h \in 0 .. N - 1 : \A i \in lo[h] .. hi[h] - 2 : i \in Int /\ PieceIn(lo, hi, h, i)
  <2> TAKE h \in 0 .. N - 1
  <2>1. lo[h] \in 0 .. l /\ hi[h] \in 0 .. l
    BY <1>1
  <2> QED
    BY <2>1 DEF PieceIn
<1>5. \A h \in 0 .. N - 1 : \A i \in lo[h] .. hi[h] - 2 : i - h \in DOMAIN mids
  BY <1>1, <1>2, <1>4, PiecesNumbered
<1>6. PICK w : w = WithMids(g, a)
  OBVIOUS
<1>7. /\ DOMAIN w = DOMAIN mids
      /\ \A k \in DOMAIN mids :
           w[k] = IF \E i \in PieceSlots(g) : i - g = k
                  THEN MidPoint(a, CHOOSE i \in PieceSlots(g) : i - g = k) ELSE mids[k]
  BY <1>6 DEF WithMids, MidSlot
<1>8. ASSUME NEW i \in lo[g] .. hi[g] - 2 PROVE w[i - g] = <<a[i].x, a[i + 1].x>>
  <2>1. i - g \in DOMAIN mids /\ i \in PieceSlots(g)
    BY <1>3, <1>5
  <2>2. w[i - g] = MidPoint(a, CHOOSE j \in PieceSlots(g) : j - g = i - g)
    BY <1>7, <2>1
  <2>3. \A j \in PieceSlots(g) : j - g = i - g => j = i
    <3>1. lo[g] \in 0 .. l /\ hi[g] \in 0 .. l
      BY <1>1
    <3> QED
      BY <1>3, <3>1
  <2>4. (CHOOSE j \in PieceSlots(g) : j - g = i - g) = i
    BY <2>1, <2>3
  <2> QED
    BY <2>2, <2>4 DEF MidPoint
<1>9. ASSUME NEW h \in 0 .. N - 1, h # g, NEW i \in lo[h] .. hi[h] - 2 PROVE w[i - h] = mids[i - h]
  <2>1. i - h \in DOMAIN mids
    BY <1>5
  <2>2. ~ \E j \in PieceSlots(g) : j - g = i - h
    <3> SUFFICES ASSUME NEW j \in PieceSlots(g), j - g = i - h PROVE FALSE
      OBVIOUS
    <3>1. j \in Int /\ PieceIn(lo, hi, g, j) /\ i \in Int /\ PieceIn(lo, hi, h, i)
      BY <1>3, <1>4
    <3> QED
      BY <1>1, <1>9, <3>1, PiecesNumbered
  <2> QED
    BY <1>7, <2>1, <2>2
<1> QED
  BY <1>6, <1>7, <1>8, <1>9 DEF Stored

(* The other groups keep what they have. *)
LEMMA OthersKeep ==
  ASSUME Inv, InGroups, NEW m, NEW N, NEW l, NEW lo, NEW hi, Context(m, N, l, lo, hi),
         NEW g \in 0 .. N - 1, done' \in {done, done \cup {g}},
         \A h \in 0 .. N - 1 : h # g => \A i \in lo[h] .. hi[h] - 1 : xs'[i] = xs[i],
         \A h \in 0 .. N - 1 : h # g => \A i \in lo[h] .. hi[h] - 2 : mids'[i - h] = mids[i - h]
  PROVE  \A h \in 0 .. N - 1 : h # g =>
           GroupOK(input, m, phase, xs', mids', lo[h], hi[h], h, h \in done')
<1> SUFFICES ASSUME NEW h \in 0 .. N - 1, h # g
             PROVE  GroupOK(input, m, phase, xs', mids', lo[h], hi[h], h, h \in done')
  OBVIOUS
<1>1. GroupOK(input, m, phase, xs, mids, lo[h], hi[h], h, h \in done)
  <2>1. h \in Groups /\ m = im /\ lo = Lo /\ hi = Hi
    BY DEF Context
  <2> QED
    BY <2>1 DEF Inv, ThreadsOK
<1>2. (h \in done') = (h \in done)
  OBVIOUS
<1>3. PICK p, q : p = lo[h] /\ q = hi[h] /\ p \in Int /\ q \in Int
  <2>1. lo[h] \in 0 .. l /\ hi[h] \in 0 .. l
    BY DEF Context
  <2> QED
    BY <2>1
<1>4. PICK a, b, ma, mb, d, ph : /\ a = xs /\ b = xs' /\ ma = mids /\ mb = mids'
                                 /\ d = (h \in done) /\ ph = phase
  OBVIOUS
<1>5. GroupOK(input, m, ph, a, ma, p, q, h, d)
  BY <1>1, <1>3, <1>4
<1>6. (\A i \in p .. q - 1 : b[i] = a[i]) /\ (\A i \in p .. q - 2 : mb[i - h] = ma[i - h])
  BY <1>3, <1>4
<1>7. GroupOK(input, m, ph, b, mb, p, q, h, d)
  BY <1>3, <1>5, <1>6, GroupUntouched
<1> QED
  BY <1>2, <1>3, <1>4, <1>7

(* With the group itself, all groups. *)
LEMMA AllGroups ==
  ASSUME NEW m, NEW N, NEW l, NEW lo, NEW hi, Context(m, N, l, lo, hi),
         NEW g \in 0 .. N - 1,
         GroupOK(input, m, phase, xs', mids', lo[g], hi[g], g, g \in done'),
         \A h \in 0 .. N - 1 : h # g =>
           GroupOK(input, m, phase, xs', mids', lo[h], hi[h], h, h \in done'),
         UNCHANGED <<input, phase>>, Lo' = Lo, Hi' = Hi, im' = im, Groups' = Groups
  PROVE  \A h \in Groups' : GroupOK(input, im, phase, xs, mids, Lo[h], Hi[h], h, h \in done)'
<1>1. Groups' = 0 .. N - 1 /\ lo = Lo' /\ hi = Hi' /\ m = im'
  BY DEF Context
<1> TAKE h \in Groups'
<1>2. GroupOK(input, m, phase, xs', mids', lo[h], hi[h], h, h \in done')
  BY <1>1
<1> QED
  BY <1>1, <1>2

(* FindRange keeps the invariant. *)
LEMMA FindRangeKeeps ==
  ASSUME Inv, NEW g \in Groups, FindRange(g)
  PROVE  Inv'
<1>1. /\ phase = "groups" /\ program = "grid"
      /\ UNCHANGED <<input, todo, phase, done, xs, uniq, sortVars, mids, polys, result>>
      /\ range' = [h \in DOMAIN range \cup {g} |->
                     IF h = g THEN <<LowerBound(uniq[g]), UpperBound(uniq[g])>> ELSE range[h]]
  BY DEF FindRange
<1>2. PICK m, N, l, lo, hi : Context(m, N, l, lo, hi)
  BY <1>1, InContext
<1>3. range' = [h \in DOMAIN range \cup {g} |-> IF h = g THEN <<lo[g], hi[g]>> ELSE range[h]]
  BY <1>1, <1>2, BoundsAreRanges DEF Context
<1>4. DOMAIN range \subseteq 0 .. N - 1 /\ g \in 0 .. N - 1
  BY <1>2 DEF Context
<1>5. \A h \in DOMAIN range' : h \in 0 .. N - 1 /\ range'[h] = <<lo[h], hi[h]>>
  BY <1>2, <1>3, <1>4 DEF Context
<1>6. /\ Groups' = Groups /\ n' = n /\ Slots' = Slots /\ Crossings' = Crossings
      /\ program' = program /\ im' = im /\ Lo' = Lo /\ Hi' = Hi /\ InGroups' /\ InGroups
  BY <1>1 DEF Groups, n, queue, Slots, Crossings, program, im, Lo, Hi, InGroups
<1>7. PhasesOK'
  BY <1>1, <1>6 DEF Inv, PhasesOK
<1>8. TypeOK'
  <2>1. \A h \in DOMAIN range' : range'[h][1] < range'[h][2] /\ range'[h][2] <= n
    <3> TAKE h \in DOMAIN range'
    <3>1. h \in 0 .. N - 1 /\ range'[h][1] = lo[h] /\ range'[h][2] = hi[h]
      BY <1>5
    <3>2. lo[h] < hi[h] /\ hi[h] \in 0 .. l /\ l = n
      BY <1>2, <3>1 DEF Context
    <3> QED
      BY <3>1, <3>2
  <2>2. xs' = xs /\ mids' = mids /\ stack' = stack /\ done' = done /\ phase' = phase
    BY <1>1 DEF sortVars
  <2> QED
    BY <1>6, <2>1, <2>2 DEF Inv, TypeOK
<1>9. SortedOK'
  BY <1>1, <1>6 DEF Inv, SortedOK
<1>10. IndexOK'
  <2>1. Edges(input, im, xs, uniq)'
    BY <1>1, <1>6 DEF Inv, IndexOK
  <2>2. \A h \in DOMAIN range' : h \in Groups' /\ range'[h] = <<Lo'[h], Hi'[h]>>
    BY <1>2, <1>5, <1>6 DEF Context
  <2> QED
    BY <1>1, <1>6, <2>1, <2>2 DEF IndexOK
<1>11. ThreadsOK'
  <2>1. \A h \in Groups' : GroupOK(input, im, phase, xs, mids, Lo[h], Hi[h], h, h \in done)'
    <3> TAKE h \in Groups'
    <3>1. GroupOK(input, im, phase, xs, mids, Lo[h], Hi[h], h, h \in done)
      BY <1>6 DEF Inv, ThreadsOK
    <3> QED
      BY <1>1, <1>6, <3>1
  <2>2. phase' # "assign" /\ program' # "vk"
    BY <1>1, <1>6
  <2> QED
    BY <2>1, <2>2 DEF ThreadsOK
<1> QED
  BY <1>1, <1>7, <1>8, <1>9, <1>10, <1>11, ResultsStay DEF Inv

(* SortAndStore keeps the invariant. *)
LEMMA SortAndStoreKeeps ==
  ASSUME Inv, NEW g \in Groups, SortAndStore(g)
  PROVE  Inv'
<1>1. /\ phase = "groups" /\ program \in {"rt", "lbvh"} /\ g \notin done
      /\ xs' \in SortedSlots(GroupSlots(g))
      /\ mids' = WithMids(g, xs')
      /\ done' = done \cup {g}
      /\ UNCHANGED <<input, todo, phase, uniq, range, sortVars, polys, result>>
  BY DEF SortAndStore
<1>2. InGroups /\ program # "grid" /\ program # "vk"
  BY <1>1 DEF InGroups
<1>3. PICK m, N, l, lo, hi : Context(m, N, l, lo, hi)
  BY <1>1, InContext
<1>4. g \in 0 .. N - 1 /\ g \in DOMAIN range
  BY <1>2, <1>3 DEF Inv, IndexOK, Context
<1>5. PICK b : b = xs' /\ b \in SortedSlots(GroupSlots(g))
  BY <1>1
<1>6. /\ b = [i \in Spots(input) |-> b[i]]
      /\ Rearranged(input, xs, b, lo[g] .. hi[g] - 1)
      /\ Ordered(input, m, b, lo[g], hi[g])
      /\ Uncut(xs, lo[g], hi[g]) => Uncut(b, lo[g], hi[g])
  BY <1>3, <1>4, <1>5, SortedFacts
<1>7. /\ Whole(input, b) /\ SameEdges(input, m, xs, b)
      /\ \A h \in 0 .. N - 1 : h # g => \A i \in lo[h] .. hi[h] - 1 : b[i] = xs[i]
  BY <1>3, <1>4, <1>6, OwnSlots
<1>8. PICK w : w = mids' /\ w = WithMids(g, b)
  BY <1>1, <1>5
<1>9. /\ DOMAIN w = DOMAIN mids
      /\ Stored(w, b, lo[g], hi[g], g)
      /\ \A h \in 0 .. N - 1 : h # g => \A i \in lo[h] .. hi[h] - 2 : w[i - h] = mids[i - h]
  BY <1>2, <1>3, <1>4, <1>8, WithMidsFacts
<1>10. /\ Lo' = Lo /\ Hi' = Hi /\ im' = im /\ Groups' = Groups
       /\ PhasesOK' /\ TypeOK' /\ SortedOK' /\ IndexOK' /\ ResultsOK'
  <2>1. m = im
    BY <1>3 DEF Context
  <2>2. stack' = stack /\ \A h \in DOMAIN stack : \A r \in Range(stack[h]) : r[1] < r[2] /\ r[2] < n
    BY <1>1 DEF Inv, TypeOK, sortVars
  <2>3. done' \subseteq Groups
    BY <1>1 DEF Inv, TypeOK
  <2>4. xs' = [i \in Spots(input) |-> xs'[i]] /\ Whole(input, xs') /\ SameEdges(input, im, xs, xs')
    BY <1>5, <1>6, <1>7, <2>1
  <2>5. DOMAIN mids' = DOMAIN mids
    BY <1>8, <1>9
  <2> QED
    BY <1>1, <1>2, <2>2, <2>3, <2>4, <2>5, ThreadStep
<1>11. GroupOK(input, m, phase, xs', mids', lo[g], hi[g], g, g \in done')
  <2>1. GroupOK(input, m, phase, xs, mids, lo[g], hi[g], g, FALSE)
    <3>1. m = im /\ lo = Lo /\ hi = Hi
      BY <1>3 DEF Context
    <3>2. (g \in done) = FALSE
      BY <1>1
    <3> QED
      BY <1>2, <3>1, <3>2 DEF Inv, ThreadsOK
  <2>2. Uncut(b, lo[g], hi[g])
    BY <1>1, <1>6, <2>1 DEF GroupOK, IsCut
  <2>3. GroupOK(input, m, "groups", b, w, lo[g], hi[g], g, TRUE)
    <3>1. input.program # "grid"
      BY <1>2 DEF program
    <3> QED
      BY <1>6, <1>9, <2>2, <3>1 DEF GroupOK, IsOrdered, IsCut, IsStored
  <2>4. (g \in done') = TRUE
    BY <1>1
  <2> QED
    BY <1>1, <1>5, <1>8, <2>3, <2>4
<1>12. \A h \in 0 .. N - 1 : h # g => GroupOK(input, m, phase, xs', mids', lo[h], hi[h], h, h \in done')
  BY <1>1, <1>2, <1>3, <1>4, <1>5, <1>7, <1>8, <1>9, OthersKeep
<1>13. ThreadsOK'
  <2>1. \A h \in Groups' : GroupOK(input, im, phase, xs, mids, Lo[h], Hi[h], h, h \in done)'
    BY <1>1, <1>3, <1>4, <1>10, <1>11, <1>12, AllGroups
  <2>2. phase' = "groups" /\ program' # "vk"
    BY <1>1, <1>2 DEF program
  <2> QED
    BY <2>1, <2>2 DEF ThreadsOK
<1> QED
  BY <1>10, <1>13 DEF Inv

(* The polygon of a midpoint, written out. *)
LEMMA OneAndTwo ==
  ASSUME NEW x, NEW y, NEW z
  PROVE  <<x>> \o <<y, z>> = <<x, y, z>>
<1>1. PICK S : S = {x, y, z}
  OBVIOUS
<1>2. <<x>> \in Seq(S) /\ <<y, z>> \in Seq(S) /\ <<x, y, z>> \in Seq(S)
  BY <1>1
<1>3. Len(<<x>>) = 1 /\ Len(<<y, z>>) = 2 /\ Len(<<x, y, z>>) = 3
  OBVIOUS
<1>4. PICK s : s = <<x>> \o <<y, z>>
  OBVIOUS
<1>5. /\ s \in Seq(S) /\ Len(s) = 3
      /\ \A i \in 1 .. 3 : s[i] = IF i <= 1 THEN <<x>>[i] ELSE <<y, z>>[i - 1]
  BY <1>2, <1>3, <1>4, ConcatProperties
<1>6. s[1] = x /\ s[2] = y /\ s[3] = z
  <2>1. s[1] = <<x>>[1] /\ s[2] = <<y, z>>[1] /\ s[3] = <<y, z>>[2]
    BY <1>5
  <2> QED
    BY <2>1
<1>7. \A i \in 1 .. 3 : s[i] = <<x, y, z>>[i]
  <2>1. \A i \in 1 .. 3 : i = 1 \/ i = 2 \/ i = 3
    OBVIOUS
  <2> QED
    BY <1>6, <2>1
<1>8. s = <<x, y, z>>
  BY <1>2, <1>3, <1>5, <1>7, SeqEqual
<1> QED
  BY <1>4, <1>8

(* The slots of two groups are different ones. *)
LEMMA Apart ==
  ASSUME NEW m, NEW N, NEW l, NEW lo, NEW hi, Context(m, N, l, lo, hi),
         NEW g \in 0 .. N - 1, NEW h \in 0 .. N - 1, NEW i \in lo[h] .. hi[h] - 1
  PROVE  i \in 0 .. l - 1 /\ (h # g => i \notin lo[g] .. hi[g] - 1)
<1>1. /\ N \in Nat /\ l \in Nat /\ Consecutive(N, lo, hi, l)
      /\ lo[h] \in 0 .. l /\ hi[h] \in 0 .. l /\ lo[g] \in 0 .. l /\ hi[g] \in 0 .. l
  BY DEF Context
<1>2. (g < h => hi[g] <= lo[h]) /\ (h < g => hi[h] <= lo[g])
  BY <1>1, PiecesNumbered
<1>3. PICK p \in 0 .. l, q \in 0 .. l, v \in 0 .. l, w \in 0 .. l :
        p = lo[g] /\ q = hi[g] /\ v = lo[h] /\ w = hi[h]
  BY <1>1
<1>4. g # h => q <= v \/ w <= p
  BY <1>2, <1>3
<1> QED
  BY <1>1, <1>3, <1>4

(* Giving each crossing of a group the polygon behind it cuts the group. *)
Marks(m, a, b, lo, hi) ==
  /\ DOMAIN b = Spots(input)
  /\ \A i \in Spots(input) :
       IF i \in lo .. hi - 2
       THEN b[i].x = a[i].x /\ b[i].mid = <<1 - m, a[i].x, a[i + 1].x>> ELSE b[i] = a[i]
Marked(m, N, lo, hi, g, a, b) ==
  /\ Whole(input, b) /\ SameEdges(input, m, a, b)
  /\ Ordered(input, m, b, lo[g], hi[g]) /\ Cut(m, b, lo[g], hi[g])
  /\ \A i \in Spots(input) : b[i].x = a[i].x
  /\ \A h \in 0 .. N - 1 : h # g => \A i \in lo[h] .. hi[h] - 1 : b[i] = a[i]
(* A group whose crossings have got their polygons is cut. *)
LEMMA MarkingCuts ==
  ASSUME NEW m, NEW N, NEW l, NEW lo, NEW hi, Context(m, N, l, lo, hi),
         NEW g \in 0 .. N - 1, NEW a, Whole(input, a),
         Uncut(a, lo[g], hi[g]), Ordered(input, m, a, lo[g], hi[g]),
         NEW b, Marks(m, a, b, lo[g], hi[g])
  PROVE  Marked(m, N, lo, hi, g, a, b)
<1> USE DEF Marks
<1>1. /\ N \in Nat /\ l \in Nat /\ Spots(input) = 0 .. l - 1
      /\ lo[g] \in 0 .. l /\ hi[g] \in 0 .. l
  BY DEF Context
<1>2. \A i \in Spots(input) : b[i].x = a[i].x
  OBVIOUS
<1>3. DOMAIN b = Spots(input)
  OBVIOUS
<1>4. Whole(input, b) /\ SameEdges(input, m, a, b)
  BY <1>2, <1>3, SameCrossings
<1>5. lo[g] .. hi[g] - 1 \subseteq Spots(input)
  BY <1>1
<1>6. Ordered(input, m, b, lo[g], hi[g])
  BY <1>2, <1>3, <1>5, SameCrossings
<1>7. ASSUME NEW i \in lo[g] .. hi[g] - 1
      PROVE  b[i].mid = IF i + 1 < hi[g] THEN <<1 - m, b[i].x, b[i + 1].x>> ELSE DontKnow
  <2>1. i \in Spots(input)
    BY <1>5
  <2>2. CASE i + 1 < hi[g]
    <3>1. i \in lo[g] .. hi[g] - 2 /\ i + 1 \in Spots(input)
      BY <1>1, <2>2
    <3>2. b[i].mid = <<1 - m, a[i].x, a[i + 1].x>>
      BY <2>1, <3>1
    <3> QED
      BY <1>2, <2>1, <2>2, <3>1, <3>2
  <2>3. CASE ~ (i + 1 < hi[g])
    <3>1. i \notin lo[g] .. hi[g] - 2
      BY <1>1, <2>3
    <3>2. b[i] = a[i]
      BY <2>1, <3>1
    <3>3. a[i].mid = DontKnow
      BY DEF Uncut
    <3> QED
      BY <2>3, <3>2, <3>3
  <2> QED
    BY <2>2, <2>3
<1>8. ASSUME NEW h \in 0 .. N - 1, h # g, NEW i \in lo[h] .. hi[h] - 1 PROVE b[i] = a[i]
  <2>1. i \in 0 .. l - 1 /\ i \notin lo[g] .. hi[g] - 1
    BY <1>8, Apart
  <2>2. i \notin lo[g] .. hi[g] - 2
    BY <1>1, <2>1
  <2> QED
    BY <1>1, <2>1, <2>2
<1> QED
  BY <1>2, <1>4, <1>6, <1>7, <1>8 DEF Cut, Marked

(* SortAndLocate keeps the invariant. *)
LEMMA SortAndLocateKeeps ==
  ASSUME Inv, NEW g \in Groups, SortAndLocate(g)
  PROVE  Inv'
<1>1. /\ phase = "groups" /\ program = "grid" /\ g \in DOMAIN range \ done
      /\ done' = done \cup {g}
      /\ UNCHANGED <<input, todo, phase, uniq, range, sortVars, mids, polys, result>>
  BY DEF SortAndLocate
<1>2. PICK a \in SortedSlots(GroupSlots(g)) :
        xs' = [i \in Slots |-> IF i \in PieceSlots(g)
                               THEN [x |-> a[i].x, mid |-> PolygonOf(MidPoint(a, i))] ELSE a[i]]
  BY DEF SortAndLocate
<1>3. InGroups
  BY <1>1 DEF InGroups
<1>4. PICK m, N, l, lo, hi : Context(m, N, l, lo, hi)
  BY <1>1, InContext
<1>5. /\ g \in 0 .. N - 1 /\ range[g] = <<lo[g], hi[g]>> /\ m = im /\ Slots = Spots(input)
      /\ lo = Lo /\ hi = Hi
  BY <1>1, <1>4 DEF Context
<1>6. /\ Rearranged(input, xs, a, lo[g] .. hi[g] - 1)
      /\ Ordered(input, m, a, lo[g], hi[g])
      /\ Uncut(xs, lo[g], hi[g]) => Uncut(a, lo[g], hi[g])
  BY <1>1, <1>4, SortedFacts
<1>7. /\ Whole(input, a) /\ SameEdges(input, m, xs, a)
      /\ \A h \in 0 .. N - 1 : h # g => \A i \in lo[h] .. hi[h] - 1 : a[i] = xs[i]
  BY <1>4, <1>5, <1>6, OwnSlots
<1>8. Uncut(a, lo[g], hi[g])
  <2>1. GroupOK(input, m, phase, xs, mids, lo[g], hi[g], g, FALSE)
    <3>1. (g \in done) = FALSE
      BY <1>1
    <3> QED
      BY <1>3, <1>5, <3>1 DEF Inv, ThreadsOK
  <2> QED
    BY <1>1, <1>6, <2>1 DEF GroupOK, IsCut
<1>9. PICK b : b = xs'
  OBVIOUS
<1>10. PieceSlots(g) = lo[g] .. hi[g] - 2
  BY <1>5 DEF PieceSlots
<1>11. b = [i \in Spots(input) |-> IF i \in lo[g] .. hi[g] - 2
                                   THEN [x |-> a[i].x, mid |-> PolygonOf(MidPoint(a, i))] ELSE a[i]]
  BY <1>2, <1>5, <1>9, <1>10
<1>12. Marks(m, a, b, lo[g], hi[g])
  <2>1. \A i : PolygonOf(MidPoint(a, i)) = <<1 - m, a[i].x, a[i + 1].x>>
    BY <1>5, OneAndTwo DEF PolygonOf, MidPoint
  <2> QED
    BY <1>11, <2>1 DEF Marks
<1>13. /\ Whole(input, b) /\ SameEdges(input, m, a, b)
       /\ Ordered(input, m, b, lo[g], hi[g]) /\ Cut(m, b, lo[g], hi[g])
       /\ \A h \in 0 .. N - 1 : h # g => \A i \in lo[h] .. hi[h] - 1 : b[i] = a[i]
  <2>1. Marked(m, N, lo, hi, g, a, b)
    BY <1>4, <1>5, <1>6, <1>7, <1>8, <1>12, MarkingCuts
  <2> QED
    BY <2>1 DEF Marked
<1>14. /\ Lo' = Lo /\ Hi' = Hi /\ im' = im /\ Groups' = Groups
       /\ PhasesOK' /\ TypeOK' /\ SortedOK' /\ IndexOK' /\ ResultsOK'
  <2>1. SameEdges(input, m, xs, b)
    BY <1>7, <1>13 DEF SameEdges
  <2>2. stack' = stack /\ \A h \in DOMAIN stack : \A r \in Range(stack[h]) : r[1] < r[2] /\ r[2] < n
    BY <1>1 DEF Inv, TypeOK, sortVars
  <2>3. done' \subseteq Groups
    BY <1>1 DEF Inv, TypeOK
  <2>4. xs' = [i \in Spots(input) |-> xs'[i]] /\ Whole(input, xs') /\ SameEdges(input, im, xs, xs')
    <3>1. b = [i \in Spots(input) |-> b[i]]
      BY <1>11
    <3> QED
      BY <1>5, <1>9, <1>13, <2>1, <3>1
  <2> QED
    BY <1>1, <1>3, <2>2, <2>3, <2>4, ThreadStep
<1>15. GroupOK(input, m, phase, xs', mids', lo[g], hi[g], g, g \in done')
  <2>1. GroupOK(input, m, "groups", b, mids, lo[g], hi[g], g, TRUE)
    <3>1. input.program = "grid"
      BY <1>1 DEF program
    <3> QED
      BY <1>13, <3>1 DEF GroupOK, IsOrdered, IsCut, IsStored
  <2>2. (g \in done') = TRUE
    BY <1>1
  <2> QED
    BY <1>1, <1>9, <2>1, <2>2
<1>16. \A h \in 0 .. N - 1 : h # g => GroupOK(input, m, phase, xs', mids', lo[h], hi[h], h, h \in done')
  <2>1. \A h \in 0 .. N - 1 : h # g => \A i \in lo[h] .. hi[h] - 1 : xs'[i] = xs[i]
    BY <1>7, <1>9, <1>13
  <2> QED
    BY <1>1, <1>3, <1>4, <1>5, <2>1, OthersKeep
<1>17. ThreadsOK'
  <2>1. \A h \in Groups' : GroupOK(input, im, phase, xs, mids, Lo[h], Hi[h], h, h \in done)'
    BY <1>1, <1>4, <1>5, <1>14, <1>15, <1>16, AllGroups
  <2>2. phase' = "groups" /\ program' # "vk"
    BY <1>1 DEF program
  <2> QED
    BY <2>1, <2>2 DEF ThreadsOK
<1> QED
  BY <1>14, <1>17 DEF Inv

(* StoreMids keeps the invariant. *)
LEMMA StoreMidsKeeps ==
  ASSUME Inv, NEW g \in Groups, StoreMids(g)
  PROVE  Inv'
<1>1. /\ phase = "mids" /\ g \notin done
      /\ mids' = WithMids(g, xs)
      /\ done' = done \cup {g}
      /\ UNCHANGED <<input, todo, phase, xs, uniq, range, sortVars, polys, result>>
  BY DEF StoreMids
<1>2. InGroups /\ program # "grid"
  BY <1>1 DEF InGroups, Inv, PhasesOK
<1>3. PICK m, N, l, lo, hi : Context(m, N, l, lo, hi)
  BY <1>1, InContext
<1>4. g \in 0 .. N - 1 /\ m = im /\ lo = Lo /\ hi = Hi
  BY <1>3 DEF Context
<1>5. PICK b : b = xs /\ b = xs'
  BY <1>1
<1>6. PICK w : w = mids' /\ w = WithMids(g, b)
  BY <1>1, <1>5
<1>7. /\ DOMAIN w = DOMAIN mids
      /\ Stored(w, b, lo[g], hi[g], g)
      /\ \A h \in 0 .. N - 1 : h # g => \A i \in lo[h] .. hi[h] - 2 : w[i - h] = mids[i - h]
  BY <1>2, <1>3, <1>4, <1>6, WithMidsFacts
<1>8. /\ Lo' = Lo /\ Hi' = Hi /\ im' = im /\ Groups' = Groups
      /\ PhasesOK' /\ TypeOK' /\ SortedOK' /\ IndexOK' /\ ResultsOK'
  <2>1. stack' = stack /\ \A h \in DOMAIN stack : \A r \in Range(stack[h]) : r[1] < r[2] /\ r[2] < n
    BY <1>1 DEF Inv, TypeOK, sortVars
  <2>2. done' \subseteq Groups
    BY <1>1 DEF Inv, TypeOK
  <2>3. xs' = [i \in Spots(input) |-> xs'[i]] /\ Whole(input, xs')
    BY <1>1 DEF Inv, SortedOK
  <2>4. SameEdges(input, im, xs, xs')
    BY <1>1 DEF SameEdges
  <2>5. DOMAIN mids' = DOMAIN mids
    BY <1>6, <1>7
  <2> QED
    BY <1>1, <1>2, <2>1, <2>2, <2>3, <2>4, <2>5, ThreadStep
<1>9. GroupOK(input, m, phase, xs', mids', lo[g], hi[g], g, g \in done')
  <2>1. GroupOK(input, m, "mids", b, mids, lo[g], hi[g], g, FALSE)
    <3>1. (g \in done) = FALSE
      BY <1>1
    <3> QED
      BY <1>1, <1>2, <1>4, <1>5, <3>1 DEF Inv, ThreadsOK
  <2>2. input.program # "grid"
    BY <1>2 DEF program
  <2>3. Ordered(input, m, b, lo[g], hi[g]) /\ Uncut(b, lo[g], hi[g])
    BY <2>1 DEF GroupOK, IsOrdered, IsCut
  <2>4. GroupOK(input, m, "mids", b, w, lo[g], hi[g], g, TRUE)
    BY <1>7, <2>2, <2>3 DEF GroupOK, IsOrdered, IsCut, IsStored
  <2>5. (g \in done') = TRUE
    BY <1>1
  <2> QED
    BY <1>1, <1>5, <1>6, <2>4, <2>5
<1>10. \A h \in 0 .. N - 1 : h # g => GroupOK(input, m, phase, xs', mids', lo[h], hi[h], h, h \in done')
  BY <1>1, <1>2, <1>3, <1>4, <1>6, <1>7, OthersKeep
<1>11. ThreadsOK'
  <2>1. \A h \in Groups' : GroupOK(input, im, phase, xs, mids, Lo[h], Hi[h], h, h \in done)'
    BY <1>1, <1>3, <1>4, <1>8, <1>9, <1>10, AllGroups
  <2>2. phase' = "mids"
    BY <1>1
  <2> QED
    BY <2>1, <2>2 DEF ThreadsOK
<1> QED
  BY <1>8, <1>11 DEF Inv

(* Assign keeps the invariant. *)
LEMMA AssignKeeps ==
  ASSUME Inv, NEW g \in Groups, Assign(g)
  PROVE  Inv'
<1>1. /\ phase = "assign" /\ g \notin done
      /\ xs' = [i \in Slots |-> IF i \in PieceSlots(g)
                                THEN [x |-> xs[i].x, mid |-> polys[MidSlot(g, i)]] ELSE xs[i]]
      /\ done' = done \cup {g}
      /\ UNCHANGED <<input, todo, phase, uniq, range, sortVars, mids, polys, result>>
  BY DEF Assign
<1>2. InGroups /\ program # "grid"
  BY <1>1 DEF InGroups, Inv, PhasesOK
<1>3. PICK m, N, l, lo, hi : Context(m, N, l, lo, hi)
  BY <1>1, InContext
<1>4. /\ g \in 0 .. N - 1 /\ m = im /\ lo = Lo /\ hi = Hi /\ Slots = Spots(input)
      /\ N \in Nat /\ l \in Nat /\ Spots(input) = 0 .. l - 1 /\ l = n
      /\ lo[g] \in 0 .. l /\ hi[g] \in 0 .. l /\ Cardinality(Groups) = N
      /\ Consecutive(N, lo, hi, l)
  BY <1>3 DEF Context
<1>5. range[g] = <<lo[g], hi[g]>>
  BY <1>1, <1>2, <1>4 DEF Inv, IndexOK
<1>6. PICK a, b : a = xs /\ b = xs'
  OBVIOUS
<1>7. GroupOK(input, m, "assign", a, mids, lo[g], hi[g], g, FALSE)
  <2>1. (g \in done) = FALSE
    BY <1>1
  <2> QED
    BY <1>1, <1>2, <1>4, <1>6, <2>1 DEF Inv, ThreadsOK
<1>8. /\ Ordered(input, m, a, lo[g], hi[g]) /\ Uncut(a, lo[g], hi[g])
      /\ Stored(mids, a, lo[g], hi[g], g)
  BY <1>7 DEF GroupOK, IsOrdered, IsCut, IsStored
<1>9. \A i \in lo[g] .. hi[g] - 2 : polys[i - g] = <<1 - m, a[i].x, a[i + 1].x>>
  <2> TAKE i \in lo[g] .. hi[g] - 2
  <2>1. i - g \in DOMAIN mids
    <3>1. DOMAIN mids = 0 .. l - N - 1
      BY <1>2, <1>4 DEF Inv, IndexOK
    <3>2. i \in Int /\ PieceIn(lo, hi, g, i)
      BY <1>4 DEF PieceIn
    <3> QED
      BY <1>4, <3>1, <3>2, PiecesNumbered
  <2>2. polys[i - g] = <<1 - m>> \o mids[i - g]
    BY <1>1, <1>4, <2>1 DEF Inv, ThreadsOK
  <2>3. mids[i - g] = <<a[i].x, a[i + 1].x>>
    BY <1>8 DEF Stored
  <2> QED
    BY <2>2, <2>3, OneAndTwo
<1>10. b = [i \in Spots(input) |-> IF i \in lo[g] .. hi[g] - 2
                                   THEN [x |-> a[i].x, mid |-> polys[i - g]] ELSE a[i]]
  <2>1. PieceSlots(g) = lo[g] .. hi[g] - 2
    BY <1>5 DEF PieceSlots
  <2> QED
    BY <1>1, <1>4, <1>6, <2>1 DEF MidSlot
<1>11. Marks(m, a, b, lo[g], hi[g])
  BY <1>9, <1>10 DEF Marks
<1>12. Whole(input, a)
  BY <1>3, <1>6 DEF Context
<1>13. /\ Whole(input, b) /\ SameEdges(input, m, a, b)
       /\ Ordered(input, m, b, lo[g], hi[g]) /\ Cut(m, b, lo[g], hi[g])
       /\ \A i \in Spots(input) : b[i].x = a[i].x
       /\ \A h \in 0 .. N - 1 : h # g => \A i \in lo[h] .. hi[h] - 1 : b[i] = a[i]
  <2>1. Marked(m, N, lo, hi, g, a, b)
    BY <1>3, <1>4, <1>8, <1>11, <1>12, MarkingCuts
  <2> QED
    BY <2>1 DEF Marked
<1>14. /\ Lo' = Lo /\ Hi' = Hi /\ im' = im /\ Groups' = Groups
       /\ PhasesOK' /\ TypeOK' /\ SortedOK' /\ IndexOK' /\ ResultsOK'
  <2>1. stack' = stack /\ \A h \in DOMAIN stack : \A r \in Range(stack[h]) : r[1] < r[2] /\ r[2] < n
    BY <1>1 DEF Inv, TypeOK, sortVars
  <2>2. done' \subseteq Groups
    BY <1>1 DEF Inv, TypeOK
  <2>3. xs' = [i \in Spots(input) |-> xs'[i]] /\ Whole(input, xs') /\ SameEdges(input, im, xs, xs')
    <3>1. b = [i \in Spots(input) |-> b[i]]
      BY <1>10
    <3> QED
      BY <1>4, <1>6, <1>13, <3>1
  <2> QED
    BY <1>1, <1>2, <2>1, <2>2, <2>3, ThreadStep
<1>15. GroupOK(input, m, phase, xs', mids', lo[g], hi[g], g, g \in done')
  <2>1. Stored(mids, b, lo[g], hi[g], g)
    <3>1. \A i \in lo[g] .. hi[g] - 2 : i \in Spots(input) /\ i + 1 \in Spots(input)
      BY <1>4
    <3> QED
      BY <1>8, <1>13, <3>1 DEF Stored
  <2>2. GroupOK(input, m, "assign", b, mids, lo[g], hi[g], g, TRUE)
    BY <1>13, <2>1 DEF GroupOK, IsOrdered, IsCut, IsStored
  <2>3. (g \in done') = TRUE
    BY <1>1
  <2> QED
    BY <1>1, <1>6, <2>2, <2>3
<1>16. \A h \in 0 .. N - 1 : h # g => GroupOK(input, m, phase, xs', mids', lo[h], hi[h], h, h \in done')
  <2>1. \A h \in 0 .. N - 1 : h # g => \A i \in lo[h] .. hi[h] - 1 : xs'[i] = xs[i]
    BY <1>6, <1>13
  <2>2. \A h \in 0 .. N - 1 : h # g => \A i \in lo[h] .. hi[h] - 2 : mids'[i - h] = mids[i - h]
    BY <1>1
  <2>3. done' \in {done, done \cup {g}} /\ g \in 0 .. N - 1
    BY <1>1, <1>4
  <2> QED
    BY <1>2, <1>3, <2>1, <2>2, <2>3, OthersKeep
<1>17. ThreadsOK'
  <2>1. \A h \in Groups' : GroupOK(input, im, phase, xs, mids, Lo[h], Hi[h], h, h \in done)'
    BY <1>1, <1>3, <1>4, <1>14, <1>15, <1>16, AllGroups
  <2>2. phase' = "assign"
    BY <1>1
  <2>3. DOMAIN polys' = DOMAIN mids' /\ \A k \in DOMAIN mids' : polys'[k] = <<1 - im'>> \o mids'[k]
    BY <1>1, <1>14 DEF Inv, ThreadsOK
  <2> QED
    BY <2>1, <2>2, <2>3 DEF ThreadsOK
<1> QED
  BY <1>14, <1>17 DEF Inv

-----------------------------------------------------------------------------
(* What stays when a kernel ends and the next one starts. *)
LEMMA PhaseStep ==
  ASSUME Inv, InGroups, InGroups', done' = {},
         UNCHANGED <<input, todo, xs, uniq, range, stack, mids, result>>
  PROVE  /\ Lo' = Lo /\ Hi' = Hi /\ im' = im /\ Groups' = Groups
         /\ TypeOK' /\ SortedOK' /\ IndexOK' /\ ResultsOK'
<1>1. im' = im
  BY DEF im
<1>2. /\ Groups' = Groups /\ n' = n /\ Slots' = Slots /\ Crossings' = Crossings
      /\ program' = program /\ Lo' = Lo /\ Hi' = Hi
  BY <1>1 DEF Groups, n, queue, Slots, Crossings, program, Lo, Hi
<1>3. TypeOK'
  <2>1. phase' \in {"sort", "unique", "index", "groups", "mids", "assign", "assigned"}
    BY DEF InGroups
  <2> QED
    BY <1>2, <2>1 DEF Inv, TypeOK
<1>4. phase \notin {"sort", "unique", "index"} /\ phase' \notin {"sort", "unique", "index"}
  BY DEF InGroups
<1>5. SortedOK'
  BY <1>1, <1>2, <1>4 DEF Inv, SortedOK
<1>6. IndexOK'
  <2>1. Edges(input, im, xs, uniq)'
    BY <1>1, <1>4 DEF Inv, IndexOK
  <2>2. \A g \in DOMAIN range' : g \in Groups' /\ range'[g] = <<Lo'[g], Hi'[g]>>
    BY <1>2, <1>4 DEF Inv, IndexOK
  <2>3. (InGroups /\ program # "grid")' => DOMAIN range' = Groups' /\ DOMAIN mids' = 0 .. n' - Cardinality(Groups') - 1
    BY <1>2 DEF Inv, IndexOK
  <2> QED
    BY <2>1, <2>2, <2>3 DEF IndexOK
<1> QED
  BY <1>1, <1>2, <1>3, <1>5, <1>6, ResultsStay

(* A quicksort with nothing left has sorted its group. *)
LEMMA QuickEnds ==
  ASSUME NEW in, NEW m, NEW a, NEW lo, NEW hi, NEW c, NEW s, Quick(in, m, a, lo, hi, c, s),
         ~ (c[1] < c[2]), s = <<>>
  PROVE  Ordered(in, m, a, lo, hi)
<1>1. \A k \in 0 .. Len(s) : ~ Left(c, s, k)
  BY DEF Left
<1> QED
  BY <1>1 DEF Quick, Ordered

(* SortingDone keeps the invariant. *)
LEMMA SortingDoneKeeps ==
  ASSUME Inv, SortingDone
  PROVE  Inv'
<1>1. /\ phase = "groups" /\ program = "vk" /\ phase' = "mids" /\ done' = {}
      /\ \A g \in Groups : ~ Busy(g) /\ stack[g] = <<>>
      /\ UNCHANGED <<input, todo, xs, uniq, range, cur, stack, mids, polys, result>>
  BY DEF SortingDone, Go, sortVars
<1>2. InGroups /\ InGroups'
  BY <1>1 DEF InGroups
<1>3. /\ Lo' = Lo /\ Hi' = Hi /\ im' = im /\ Groups' = Groups
      /\ TypeOK' /\ SortedOK' /\ IndexOK' /\ ResultsOK'
  BY <1>1, <1>2, PhaseStep
<1>4. PhasesOK'
  <2>1. program' = program
    BY <1>1 DEF program
  <2> QED
    BY <1>1, <2>1 DEF Inv, PhasesOK
<1>5. ThreadsOK'
  <2>1. ASSUME NEW g \in Groups
        PROVE  GroupOK(input, im, "mids", xs, mids, Lo[g], Hi[g], g, FALSE)
    <3>1. GroupOK(input, im, "groups", xs, mids, Lo[g], Hi[g], g, g \in done)
      BY <1>1, <1>2 DEF Inv, ThreadsOK
    <3>2. done = {} /\ input.program = "vk"
      BY <1>1 DEF Inv, PhasesOK, program
    <3>3. Uncut(xs, Lo[g], Hi[g])
      BY <3>1, <3>2 DEF GroupOK, IsCut
    <3>4. Quick(input, im, xs, Lo[g], Hi[g], cur[g], stack[g])
      BY <1>1 DEF Inv, ThreadsOK
    <3>5. ~ (cur[g][1] < cur[g][2]) /\ stack[g] = <<>>
      BY <1>1 DEF Busy
    <3>6. Ordered(input, im, xs, Lo[g], Hi[g])
      BY <3>4, <3>5, QuickEnds
    <3> QED
      BY <3>3, <3>6 DEF GroupOK, IsOrdered, IsCut, IsStored
  <2>2. \A g \in Groups' : GroupOK(input, im, phase, xs, mids, Lo[g], Hi[g], g, g \in done)'
    <3> TAKE g \in Groups'
    <3>1. (g \in done') = FALSE
      BY <1>1
    <3> QED
      BY <1>1, <1>3, <2>1, <3>1
  <2> QED
    BY <1>1, <2>2 DEF ThreadsOK
<1> QED
  BY <1>3, <1>4, <1>5 DEF Inv

(* QueryMids keeps the invariant. *)
LEMMA QueryMidsKeeps ==
  ASSUME Inv, QueryMids
  PROVE  Inv'
<1>1. /\ done = Groups /\ phase' = "assign" /\ done' = {}
      /\ phase = "mids" \/ (phase = "groups" /\ program \in {"rt", "lbvh"})
      /\ polys' = [k \in DOMAIN mids |-> PolygonOf(mids[k])]
      /\ UNCHANGED <<input, todo, xs, uniq, range, stack, mids, result>>
  BY DEF QueryMids, Go, sortVars
<1>2. InGroups /\ InGroups'
  BY <1>1 DEF InGroups
<1>3. /\ Lo' = Lo /\ Hi' = Hi /\ im' = im /\ Groups' = Groups
      /\ TypeOK' /\ SortedOK' /\ IndexOK' /\ ResultsOK'
  BY <1>1, <1>2, PhaseStep
<1>4. program # "grid" /\ input.program # "grid"
  BY <1>1 DEF Inv, PhasesOK, program
<1>5. PhasesOK'
  <2>1. program' = program /\ todo' = todo /\ input' = input
    BY <1>1 DEF program
  <2>2. todo # <<>>
    BY <1>1 DEF Inv, PhasesOK
  <2> QED
    BY <1>1, <1>4, <2>1, <2>2 DEF Inv, PhasesOK
<1>6. ThreadsOK'
  <2>1. ASSUME NEW g \in Groups
        PROVE  GroupOK(input, im, "assign", xs, mids, Lo[g], Hi[g], g, FALSE)
    <3>1. GroupOK(input, im, phase, xs, mids, Lo[g], Hi[g], g, TRUE)
      <4>1. (g \in done) = TRUE
        BY <1>1
      <4> QED
        BY <1>2, <4>1 DEF Inv, ThreadsOK
    <3>2. phase # "assign" /\ phase # "assigned"
      BY <1>1
    <3> QED
      BY <1>4, <3>1, <3>2 DEF GroupOK, IsOrdered, IsCut, IsStored
  <2>2. \A g \in Groups' : GroupOK(input, im, phase, xs, mids, Lo[g], Hi[g], g, g \in done)'
    <3> TAKE g \in Groups'
    <3>1. (g \in done') = FALSE
      BY <1>1
    <3> QED
      BY <1>1, <1>3, <2>1, <3>1
  <2>3. DOMAIN polys' = DOMAIN mids' /\ \A k \in DOMAIN mids' : polys'[k] = <<1 - im'>> \o mids'[k]
    BY <1>1, <1>3 DEF PolygonOf
  <2> QED
    BY <1>1, <2>2, <2>3 DEF ThreadsOK
<1> QED
  BY <1>3, <1>5, <1>6 DEF Inv

(* FinishMap keeps the invariant. *)
LEMMA FinishMapKeeps ==
  ASSUME Inv, FinishMap
  PROVE  Inv'
<1>1. /\ \/ phase = "assigned"
         \/ phase = "assign" /\ done = Groups
         \/ phase = "groups" /\ program = "grid" /\ done = Groups
      /\ result' = [result EXCEPT ![im] = xs]
      /\ todo' = Tail(todo)
      /\ phase' = "sort" /\ done' = {}
      /\ UNCHANGED <<input, xs, uniq, range, stack, mids>>
  BY DEF FinishMap, Go, sortVars
<1>2. InGroups
  BY <1>1 DEF InGroups
<1>3. PICK m, N, l, lo, hi : Context(m, N, l, lo, hi)
  BY <1>1, InContext
<1>4. \A g \in 0 .. N - 1 : Ordered(input, m, xs, lo[g], hi[g]) /\ Cut(m, xs, lo[g], hi[g])
  <2> TAKE g \in 0 .. N - 1
  <2>1. g \in Groups /\ m = im /\ lo = Lo /\ hi = Hi
    BY <1>3 DEF Context
  <2>2. GroupOK(input, m, phase, xs, mids, lo[g], hi[g], g, g \in done)
    BY <1>2, <2>1 DEF Inv, ThreadsOK
  <2>3. CASE phase = "assigned"
    BY <2>2, <2>3 DEF GroupOK, IsOrdered, IsCut
  <2>4. CASE phase # "assigned"
    <3>1. (g \in done) = TRUE
      BY <1>1, <2>1, <2>4
    <3>2. GroupOK(input, m, phase, xs, mids, lo[g], hi[g], g, TRUE)
      BY <2>2, <3>1
    <3>3. phase = "assign" \/ input.program = "grid"
      BY <1>1, <2>4 DEF program
    <3> QED
      BY <3>2, <3>3 DEF GroupOK, IsOrdered, IsCut
  <2> QED
    BY <2>3, <2>4
<1>5. Finished(input, m, xs)
  <2>1. PICK a, u : a = xs /\ u = uniq
    OBVIOUS
  <2>2. /\ input \in Inputs /\ m \in Maps /\ Whole(input, a) /\ Sorted(input, m, a) /\ N \in Nat
        /\ Layout(input, m, a, u, N, lo, hi)
    BY <1>3, <2>1 DEF Context
  <2>3. Finished(input, m, a)
    BY <1>4, <2>1, <2>2, GroupsFinish
  <2> QED
    BY <2>1, <2>3
<1>6. m = im /\ input \in Inputs /\ todo \in {<<0, 1>>, <<1>>}
  BY <1>1, <1>3 DEF Inv, PhasesOK, Context
<1>7. ResultsOK'
  <2>1. DOMAIN result = Maps /\ \A k \in Maps \ Range(todo) : Finished(input, k, result[k])
    BY DEF Inv, ResultsOK
  <2>2. DOMAIN result' = Maps
    BY <1>1, <2>1
  <2>3. CASE todo = <<0, 1>>
    <3>1. m = 0 /\ todo' = <<1>>
      BY <1>1, <1>6, <2>3, TodoFacts DEF im
    <3>2. result'[0] = xs
      BY <1>1, <1>6, <2>1, <3>1 DEF Maps
    <3>3. Maps \ Range(todo') = {0}
      BY <3>1, TodoFacts DEF Maps
    <3> QED
      BY <1>1, <1>5, <2>2, <3>1, <3>2, <3>3 DEF ResultsOK
  <2>4. CASE todo = <<1>>
    <3>1. m = 1 /\ todo' = <<>>
      BY <1>1, <1>6, <2>4, TodoFacts DEF im
    <3>2. result'[1] = xs /\ result'[0] = result[0]
      BY <1>1, <1>6, <2>1, <3>1 DEF Maps
    <3>3. Finished(input, 0, result[0])
      BY <2>1, <2>4, TodoFacts DEF Maps
    <3> QED
      BY <1>1, <1>5, <2>2, <3>1, <3>2, <3>3 DEF ResultsOK, Maps
  <2> QED
    BY <1>6, <2>3, <2>4
<1>8. PhasesOK'
  <2>1. todo' \in {<<0, 1>>, <<1>>, <<>>}
    BY <1>1, <1>6, TodoFacts
  <2> QED
    BY <1>1, <1>6, <2>1 DEF PhasesOK
<1>9. TypeOK'
  <2>1. Groups' = Groups /\ n' = n /\ Slots' = Slots /\ Crossings' = Crossings
    BY <1>1 DEF Groups, n, queue, Slots, Crossings
  <2> QED
    BY <1>1, <2>1 DEF Inv, TypeOK
<1>10. SortedOK' /\ IndexOK' /\ ThreadsOK'
  BY <1>1 DEF SortedOK, IndexOK, ThreadsOK, InGroups
<1> QED
  BY <1>7, <1>8, <1>9, <1>10 DEF Inv

-----------------------------------------------------------------------------
(* The quicksort of a group. *)

(* Two ranges have no slot in common. *)
Away(r, t) == r[2] < t[1] \/ t[2] < r[1]
Within(r, lo, hi) == lo <= r[1] /\ r[1] < r[2] /\ r[2] < hi
Covers(r, i, j) == r[1] <= i /\ j <= r[2]

(* The invariant, in these words. *)
LEMMA QuickMeans ==
  ASSUME NEW in, NEW m, NEW a, NEW lo, NEW hi, NEW c, NEW s
  PROVE  Quick(in, m, a, lo, hi, c, s) <=>
           /\ c \in Int \X Int /\ s \in Seq(Int \X Int)
           /\ \A k \in 0 .. Len(s) : Left(c, s, k) => Within(RangeAt(c, s, k), lo, hi)
           /\ \A k, h \in 0 .. Len(s) : Left(c, s, k) /\ Left(c, s, h) /\ k # h =>
                Away(RangeAt(c, s, k), RangeAt(c, s, h))
           /\ \A i, j \in lo .. hi - 1 : i < j /\ LessIn(in, m, a[j], a[i]) =>
                \E k \in 0 .. Len(s) : Left(c, s, k) /\ Covers(RangeAt(c, s, k), i, j)
BY DEF Quick, Away, Within, Covers

(* Taking the last range off the stack loses no range. *)
LEMMA QuickPops ==
  ASSUME NEW in, NEW m, NEW a, NEW lo, NEW hi, NEW c, NEW s, Quick(in, m, a, lo, hi, c, s),
         ~ (c[1] < c[2]), s # <<>>
  PROVE  Quick(in, m, a, lo, hi, Last(s), Front(s))
<1>1. /\ c \in Int \X Int /\ s \in Seq(Int \X Int)
      /\ \A k \in 0 .. Len(s) : Left(c, s, k) => Within(RangeAt(c, s, k), lo, hi)
      /\ \A k, h \in 0 .. Len(s) : Left(c, s, k) /\ Left(c, s, h) /\ k # h =>
           Away(RangeAt(c, s, k), RangeAt(c, s, h))
      /\ \A i, j \in lo .. hi - 1 : i < j /\ LessIn(in, m, a[j], a[i]) =>
           \E k \in 0 .. Len(s) : Left(c, s, k) /\ Covers(RangeAt(c, s, k), i, j)
  BY QuickMeans
<1>2. PICK l \in Nat \ {0} : l = Len(s)
  BY <1>1, EmptySeq
<1>3. PICK t, d : t = Front(s) /\ d = Last(s)
  OBVIOUS
<1>4. t \in Seq(Int \X Int) /\ Len(t) = l - 1 /\ \A k \in 1 .. l - 1 : t[k] = s[k]
  BY <1>1, <1>2, <1>3, SMTT(30) DEF Front
<1>5. d = s[l] /\ d \in Int \X Int
  BY <1>1, <1>2, <1>3, ElementOfSeq DEF Last
<1> DEFINE Old(k) == IF k = 0 THEN l ELSE k
<1>6. \A k \in 0 .. l - 1 : Old(k) \in 0 .. l /\ Old(k) \in 1 .. l
  OBVIOUS
<1>7. \A k \in 0 .. l - 1 : Left(c, s, Old(k)) /\ RangeAt(d, t, k) = RangeAt(c, s, Old(k))
  BY <1>2, <1>4, <1>5, <1>6 DEF Left, RangeAt
<1>8. \A k \in 0 .. l : Left(c, s, k) => k \in 1 .. l
  BY <1>2 DEF Left
<1>9. \A k \in 0 .. l - 1 : Left(d, t, k)
  <2> TAKE k \in 0 .. l - 1
  <2>1. CASE k = 0
    <3>1. Within(RangeAt(c, s, l), lo, hi)
      BY <1>1, <1>2, <1>6, <1>7
    <3>2. RangeAt(c, s, l) = d
      BY <1>2, <1>5 DEF RangeAt
    <3> QED
      BY <2>1, <3>1, <3>2 DEF Within, Left
  <2>2. CASE k # 0
    BY <1>4, <2>2 DEF Left
  <2> QED
    BY <2>1, <2>2
<1>10. \A k \in 0 .. l - 1 : Within(RangeAt(d, t, k), lo, hi)
  BY <1>1, <1>2, <1>6, <1>7
<1>11. \A k, h \in 0 .. l - 1 : k # h => Away(RangeAt(d, t, k), RangeAt(d, t, h))
  <2> TAKE k, h \in 0 .. l - 1
  <2>1. k # h => Old(k) # Old(h)
    OBVIOUS
  <2> HIDE DEF Old
  <2> QED
    BY <1>1, <1>2, <1>6, <1>7, <2>1
<1>12. ASSUME NEW i \in lo .. hi - 1, NEW j \in lo .. hi - 1, i < j, LessIn(in, m, a[j], a[i])
       PROVE  \E k \in 0 .. l - 1 : Covers(RangeAt(d, t, k), i, j)
  <2>1. PICK o \in 0 .. l : Left(c, s, o) /\ Covers(RangeAt(c, s, o), i, j)
    BY <1>1, <1>2, <1>12
  <2>2. \E k \in 0 .. l - 1 : Old(k) = o
    <3>1. o \in 1 .. l
      BY <1>8, <2>1
    <3>2. CASE o = l
      <4>1. 0 \in 0 .. l - 1 /\ Old(0) = o
        BY <3>2
      <4> QED
        BY <4>1
    <3>3. CASE o # l
      <4>1. o \in 0 .. l - 1 /\ Old(o) = o
        BY <3>1, <3>3
      <4> QED
        BY <4>1
    <3> QED
      BY <3>2, <3>3
  <2> HIDE DEF Old
  <2> QED
    BY <1>7, <2>1, <2>2
<1>13. Quick(in, m, a, lo, hi, d, t)
  <2>1. 0 .. Len(t) = 0 .. l - 1
    BY <1>4
  <2> HIDE DEF Old
  <2> QED
    BY <1>4, <1>5, <1>9, <1>10, <1>11, <1>12, <2>1, QuickMeans
<1> QED
  BY <1>3, <1>13

(* The range a quicksort was at is replaced by up to two that are in it. *)
LEMMA QuickSplits ==
  ASSUME NEW in, NEW m, NEW b, NEW lo, NEW hi, NEW d \in Int \X Int, NEW s \in Seq(Int \X Int),
         NEW one \in Int \X Int, NEW two \in Int \X Int, NEW t,
         t = IF two[1] < two[2] THEN Append(s, two) ELSE s,
         one[1] < one[2] => d = one,
         d[1] < d[2] => d = one,
         \A k \in 1 .. Len(s) : Within(s[k], lo, hi),
         \A k, h \in 1 .. Len(s) : k # h => Away(s[k], s[h]),
         one[1] < one[2] => Within(one, lo, hi) /\ \A k \in 1 .. Len(s) : Away(s[k], one),
         two[1] < two[2] => Within(two, lo, hi) /\ \A k \in 1 .. Len(s) : Away(s[k], two),
         Away(one, two),
         \A i, j \in lo .. hi - 1 : i < j /\ LessIn(in, m, b[j], b[i]) =>
           \/ \E k \in 1 .. Len(s) : Covers(s[k], i, j)
           \/ one[1] < one[2] /\ Covers(one, i, j)
           \/ two[1] < two[2] /\ Covers(two, i, j)
  PROVE  Quick(in, m, b, lo, hi, d, t)
<1>1. PICK l \in Nat : l = Len(s)
  BY LenProperties
<1>2. /\ t \in Seq(Int \X Int) /\ Len(t) = IF two[1] < two[2] THEN l + 1 ELSE l
      /\ \A k \in 1 .. l : t[k] = s[k]
      /\ two[1] < two[2] => t[l + 1] = two
  <2>1. CASE two[1] < two[2]
    BY <1>1, <2>1
  <2>2. CASE ~ (two[1] < two[2])
    BY <1>1, <2>2
  <2> QED
    BY <2>1, <2>2
<1>3. \A k \in 0 .. Len(t) : Left(d, t, k) =>
        \/ k = 0 /\ one[1] < one[2] /\ RangeAt(d, t, k) = one
        \/ k \in 1 .. l /\ RangeAt(d, t, k) = s[k]
        \/ k = l + 1 /\ two[1] < two[2] /\ RangeAt(d, t, k) = two
  <2> TAKE k \in 0 .. Len(t)
  <2>1. CASE k = 0
    BY <2>1 DEF Left, RangeAt
  <2>2. CASE k \in 1 .. l
    BY <1>2, <2>2, SMTT(30) DEF RangeAt
  <2>3. CASE k # 0 /\ k \notin 1 .. l
    <3>1. two[1] < two[2] /\ k = l + 1
      BY <1>2, <2>3
    <3> QED
      BY <1>2, <2>3, <3>1 DEF RangeAt
  <2> QED
    BY <2>1, <2>2, <2>3
<1>4. /\ \A k \in 1 .. l : k \in 0 .. Len(t) /\ Left(d, t, k) /\ RangeAt(d, t, k) = s[k]
      /\ one[1] < one[2] => 0 \in 0 .. Len(t) /\ Left(d, t, 0) /\ RangeAt(d, t, 0) = one
      /\ two[1] < two[2] => l + 1 \in 0 .. Len(t) /\ Left(d, t, l + 1) /\ RangeAt(d, t, l + 1) = two
  <2>1. ASSUME NEW k \in 1 .. l PROVE k \in 0 .. Len(t) /\ Left(d, t, k) /\ RangeAt(d, t, k) = s[k]
    BY <1>2, SMTT(30) DEF Left, RangeAt
  <2>2. one[1] < one[2] => 0 \in 0 .. Len(t) /\ Left(d, t, 0) /\ RangeAt(d, t, 0) = one
    BY <1>2 DEF Left, RangeAt
  <2>3. two[1] < two[2] => l + 1 \in 0 .. Len(t) /\ Left(d, t, l + 1) /\ RangeAt(d, t, l + 1) = two
    BY <1>2 DEF Left, RangeAt
  <2> QED
    BY <2>1, <2>2, <2>3
<1>5. \A k \in 0 .. Len(t) : Left(d, t, k) => Within(RangeAt(d, t, k), lo, hi)
  BY <1>1, <1>3
<1>6. ASSUME NEW k \in 0 .. Len(t), NEW h \in 0 .. Len(t), Left(d, t, k), Left(d, t, h), k # h
      PROVE  Away(RangeAt(d, t, k), RangeAt(d, t, h))
  <2>1. \/ k = 0 /\ one[1] < one[2] /\ RangeAt(d, t, k) = one
        \/ k \in 1 .. l /\ RangeAt(d, t, k) = s[k]
        \/ k = l + 1 /\ two[1] < two[2] /\ RangeAt(d, t, k) = two
    BY <1>3, <1>6
  <2>2. \/ h = 0 /\ one[1] < one[2] /\ RangeAt(d, t, h) = one
        \/ h \in 1 .. l /\ RangeAt(d, t, h) = s[h]
        \/ h = l + 1 /\ two[1] < two[2] /\ RangeAt(d, t, h) = two
    BY <1>3, <1>6
  <2>3. \A r, w : Away(r, w) => Away(w, r)
    BY DEF Away
  <2> QED
    BY <1>1, <1>6, <2>1, <2>2, <2>3, SMTT(30)
<1>7. ASSUME NEW i \in lo .. hi - 1, NEW j \in lo .. hi - 1, i < j, LessIn(in, m, b[j], b[i])
      PROVE  \E k \in 0 .. Len(t) : Left(d, t, k) /\ Covers(RangeAt(d, t, k), i, j)
  <2>1. \/ \E k \in 1 .. l : Covers(s[k], i, j)
        \/ one[1] < one[2] /\ Covers(one, i, j)
        \/ two[1] < two[2] /\ Covers(two, i, j)
    BY <1>1, <1>7
  <2> QED
    BY <1>4, <2>1
<1> QED
  BY <1>2, <1>5, <1>6, <1>7, QuickMeans

(* What partitionRange makes of a range c1 .. c2, in constant terms. *)
Splits(in, m, a, b, c1, c2, p) ==
  /\ p \in c1 .. c2
  /\ Rearranged(in, a, b, c1 .. c2)
  /\ b[p] = a[c2]
  /\ \A i \in c1 .. p - 1 : LessIn(in, m, b[i], a[c2])
  /\ \A i \in p + 1 .. c2 : ~ LessIn(in, m, b[i], a[c2])

(* In the wrong order after a partition: two slots of a range that was put
   off before, or of one side of the pivot. *)
PairPlaced(in, m, b, c1, c2, s, p, i, j) ==
  (i < j /\ LessIn(in, m, b[j], b[i])) =>
    \/ \E k \in 1 .. Len(s) : Covers(s[k], i, j)
    \/ c1 <= i /\ j <= p - 1
    \/ p + 1 <= i /\ j <= c2

(* Two crossings in the wrong order after a partition are both left of the
   pivot, both right of it, or both in a range that was put off before. *)
LEMMA PairsParted ==
  ASSUME NEW in \in Inputs, NEW m \in Maps, NEW a, NEW b, NEW lo \in Nat, NEW hi \in Nat,
         NEW c1 \in Int, NEW c2 \in Int, NEW s, c1 < c2, Quick(in, m, a, lo, hi, <<c1, c2>>, s),
         \A x \in lo .. hi - 1 : a[x].x \in Found(in) /\ b[x].x \in Found(in),
         NEW p, Splits(in, m, a, b, c1, c2, p), lo .. hi - 1 \subseteq DOMAIN a,
         NEW i \in lo .. hi - 1, NEW j \in lo .. hi - 1
  PROVE  PairPlaced(in, m, b, c1, c2, s, p, i, j)
<1> SUFFICES ASSUME i < j, LessIn(in, m, b[j], b[i])
             PROVE  \/ \E k \in 1 .. Len(s) : Covers(s[k], i, j)
                    \/ c1 <= i /\ j <= p - 1
                    \/ p + 1 <= i /\ j <= c2
  BY DEF PairPlaced
<1>0. p \in c1 .. c2 /\ p \in Int /\ b[p] = a[c2] /\ i \in Int /\ j \in Int
  BY DEF Splits
<1>a. \A x \in lo .. hi - 1 : x \notin c1 .. c2 => b[x] = a[x]
  BY DEF Splits, Rearranged
<1>b. \A x \in c1 .. c2 : \E y \in c1 .. c2 : b[x] = a[y]
  BY DEF Splits, Rearranged
<1>c. /\ \A x \in c1 .. p - 1 : LessIn(in, m, b[x], a[c2])
      /\ \A x \in p + 1 .. c2 : ~ LessIn(in, m, b[x], a[c2])
  BY DEF Splits
<1> DEFINE c == <<c1, c2>>
<1>1. /\ \A k \in 0 .. Len(s) : Left(c, s, k) => Within(RangeAt(c, s, k), lo, hi)
      /\ \A k, h \in 0 .. Len(s) : Left(c, s, k) /\ Left(c, s, h) /\ k # h =>
           Away(RangeAt(c, s, k), RangeAt(c, s, h))
      /\ \A x, y \in lo .. hi - 1 : x < y /\ LessIn(in, m, a[y], a[x]) =>
           \E k \in 0 .. Len(s) : Left(c, s, k) /\ Covers(RangeAt(c, s, k), x, y)
      /\ s \in Seq(Int \X Int)
  BY QuickMeans
<1>2. PICK l \in Nat : l = Len(s)
  BY <1>1, LenProperties
<1>3. 0 \in 0 .. l /\ Left(c, s, 0) /\ RangeAt(c, s, 0) = c
  BY <1>2 DEF Left, RangeAt
<1>4. \A k \in 1 .. l : k \in 0 .. l /\ k # 0 /\ Left(c, s, k) /\ RangeAt(c, s, k) = s[k]
  BY <1>2 DEF Left, RangeAt
<1>5. \A k \in 1 .. l : s[k] \in Int \X Int /\ (s[k][2] < c1 \/ c2 < s[k][1])
  <2> TAKE k \in 1 .. l
  <2>1. Away(RangeAt(c, s, k), RangeAt(c, s, 0))
    BY <1>1, <1>2, <1>3, <1>4
  <2>2. Away(s[k], c)
    BY <1>3, <1>4, <2>1
  <2>3. s[k] \in Int \X Int
    BY <1>1, <1>2, ElementOfSeq
  <2> QED
    BY <2>2, <2>3 DEF Away
<1>6. lo <= c1 /\ c2 < hi
  <2>1. Within(RangeAt(c, s, 0), lo, hi)
    BY <1>1, <1>2, <1>3
  <2>2. Within(c, lo, hi) /\ c[1] = c1 /\ c[2] = c2
    BY <1>3, <2>1
  <2> QED
    BY <2>2 DEF Within
<1>7. ASSUME NEW x \in lo .. hi - 1, NEW y \in lo .. hi - 1, x < y, LessIn(in, m, a[y], a[x])
      PROVE  \/ c1 <= x /\ y <= c2
             \/ \E k \in 1 .. l : Covers(s[k], x, y)
  <2>1. PICK k \in 0 .. l : Left(c, s, k) /\ Covers(RangeAt(c, s, k), x, y)
    BY <1>1, <1>2, <1>7
  <2>2. CASE k = 0
    BY <1>3, <2>1, <2>2 DEF Covers
  <2>3. CASE k # 0
    <3>1. k \in 1 .. l
      BY <2>3
    <3> QED
      BY <1>4, <2>1, <3>1
  <2> QED
    BY <2>2, <2>3
<1> HIDE DEF c
<1>8. c1 .. c2 \subseteq lo .. hi - 1
  BY <1>6
<1>9. CASE i \in c1 .. c2 /\ j \in c1 .. c2
  <2>0. c1 <= i /\ i <= c2 /\ c1 <= j /\ j <= c2
    BY <1>9
  <2>1. CASE j <= p - 1
    BY <2>0, <2>1
  <2>2. CASE p + 1 <= i
    BY <2>0, <2>2
  <2>3. CASE ~ (j <= p - 1) /\ ~ (p + 1 <= i)
    <3>1. i <= p /\ p <= j /\ p \in Int /\ p \in lo .. hi - 1 /\ c2 \in lo .. hi - 1
      BY <1>0, <1>8, <2>3
    <3>2. a[c2].x \in Found(in) /\ b[i].x \in Found(in) /\ b[j].x \in Found(in)
      BY <3>1
    <3>3. CASE i = p
      <4>1. j \in p + 1 .. c2
        BY <1>0, <2>0, <3>3
      <4> QED
        BY <1>0, <1>c, <3>3, <4>1
    <3>4. CASE i # p /\ j = p
      <4>1. i \in c1 .. p - 1
        BY <1>0, <2>0, <3>1, <3>4
      <4>2. LessIn(in, m, b[i], a[c2]) /\ LessIn(in, m, a[c2], b[i])
        BY <1>0, <1>c, <3>4, <4>1
      <4> QED
        BY <3>2, <4>2, LessIsOrder
    <3>5. CASE i # p /\ j # p
      <4>1. i \in c1 .. p - 1 /\ j \in p + 1 .. c2
        BY <1>0, <2>0, <3>1, <3>5
      <4>2. LessIn(in, m, b[i], a[c2]) /\ ~ LessIn(in, m, b[j], a[c2])
        BY <1>c, <4>1
      <4> QED
        BY <3>2, <4>2, LessIsOrder
    <3> QED
      BY <3>3, <3>4, <3>5
  <2> QED
    BY <2>1, <2>2, <2>3
<1>10. CASE i \in c1 .. c2 /\ j \notin c1 .. c2
  <2>1. PICK x \in c1 .. c2 : b[i] = a[x]
    BY <1>b, <1>10
  <2>2. b[j] = a[j] /\ x \in lo .. hi - 1 /\ x < j /\ c2 < j /\ x \in Int /\ c1 <= x /\ x <= c2
    <3>1. b[j] = a[j] /\ x \in lo .. hi - 1
      BY <1>8, <1>a, <1>10
    <3>2. c2 < j
      BY <1>0, <1>10
    <3> QED
      BY <1>0, <3>1, <3>2
  <2>3. PICK k \in 1 .. l : Covers(s[k], x, j)
    <3>1. LessIn(in, m, a[j], a[x])
      BY <2>1, <2>2
    <3>2. ~ (c1 <= x /\ j <= c2)
      BY <1>0, <2>2
    <3> QED
      BY <1>7, <2>2, <3>1, <3>2
  <2>4. PICK y \in Int, z \in Int : y = s[k][1] /\ z = s[k][2]
    BY <1>5
  <2>5. y <= x /\ j <= z /\ (z < c1 \/ c2 < y)
    BY <1>5, <2>3, <2>4 DEF Covers
  <2> QED
    BY <1>0, <2>2, <2>5
<1>11. CASE i \notin c1 .. c2 /\ j \in c1 .. c2
  <2>1. PICK x \in c1 .. c2 : b[j] = a[x]
    BY <1>b, <1>11
  <2>2. b[i] = a[i] /\ x \in lo .. hi - 1 /\ i < x /\ i < c1 /\ x \in Int /\ c1 <= x /\ x <= c2
    <3>1. b[i] = a[i] /\ x \in lo .. hi - 1
      BY <1>8, <1>a, <1>11
    <3>2. i < c1
      BY <1>0, <1>11
    <3> QED
      BY <1>0, <3>1, <3>2
  <2>3. PICK k \in 1 .. l : Covers(s[k], i, x)
    <3>1. LessIn(in, m, a[x], a[i])
      BY <2>1, <2>2
    <3>2. ~ (c1 <= i /\ x <= c2)
      BY <1>0, <2>2
    <3> QED
      BY <1>7, <2>2, <3>1, <3>2
  <2>4. PICK y \in Int, z \in Int : y = s[k][1] /\ z = s[k][2]
    BY <1>5
  <2>5. y <= i /\ x <= z /\ (z < c1 \/ c2 < y)
    BY <1>5, <2>3, <2>4 DEF Covers
  <2> QED
    BY <1>0, <2>2, <2>5
<1>12. CASE i \notin c1 .. c2 /\ j \notin c1 .. c2
  <2>1. b[i] = a[i] /\ b[j] = a[j]
    BY <1>a, <1>12
  <2>2. ~ (c1 <= i /\ j <= c2)
    BY <1>0, <1>12
  <2> QED
    BY <1>2, <1>7, <2>1, <2>2
<1> QED
  BY <1>9, <1>10, <1>11, <1>12

(* After a partition the two sides take the place of the range. *)
LEMMA QuickPartitions ==
  ASSUME NEW in \in Inputs, NEW m \in Maps, NEW a, NEW b, NEW lo \in Nat, NEW hi \in Nat,
         NEW c1 \in Int, NEW c2 \in Int, NEW s, c1 < c2, Quick(in, m, a, lo, hi, <<c1, c2>>, s),
         lo .. hi - 1 \subseteq DOMAIN a,
         \A i \in lo .. hi - 1 : a[i].x \in Found(in) /\ b[i].x \in Found(in),
         NEW p, Splits(in, m, a, b, c1, c2, p)
  PROVE  Quick(in, m, b, lo, hi, Sides(c1, p, c2, s).c, Sides(c1, p, c2, s).s)
<1>0. p \in c1 .. c2 /\ p \in Int
  BY DEF Splits
<1> DEFINE c == <<c1, c2>>
<1>1. /\ \A k \in 0 .. Len(s) : Left(c, s, k) => Within(RangeAt(c, s, k), lo, hi)
      /\ \A k, h \in 0 .. Len(s) : Left(c, s, k) /\ Left(c, s, h) /\ k # h =>
           Away(RangeAt(c, s, k), RangeAt(c, s, h))
      /\ s \in Seq(Int \X Int)
  BY QuickMeans
<1>2. PICK l \in Nat : l = Len(s)
  BY <1>1, LenProperties
<1>3. 0 \in 0 .. l /\ Left(c, s, 0) /\ RangeAt(c, s, 0) = c
  BY <1>2 DEF Left, RangeAt
<1>4. \A k \in 1 .. l : k \in 0 .. l /\ k # 0 /\ Left(c, s, k) /\ RangeAt(c, s, k) = s[k]
  BY <1>2 DEF Left, RangeAt
<1>5. \A k \in 1 .. l : s[k] \in Int \X Int /\ (s[k][2] < c1 \/ c2 < s[k][1])
  <2> TAKE k \in 1 .. l
  <2>1. Away(RangeAt(c, s, k), RangeAt(c, s, 0))
    BY <1>1, <1>2, <1>3, <1>4
  <2>2. Away(s[k], c)
    BY <1>3, <1>4, <2>1
  <2>3. s[k] \in Int \X Int
    BY <1>1, <1>2, ElementOfSeq
  <2> QED
    BY <2>2, <2>3 DEF Away
<1>6. lo <= c1 /\ c2 < hi
  BY <1>1, <1>2, <1>3 DEF Within
<1>7. /\ \A k \in 1 .. Len(s) : Within(s[k], lo, hi)
      /\ \A k, h \in 1 .. Len(s) : k # h => Away(s[k], s[h])
  BY <1>1, <1>2, <1>4
<1> HIDE DEF c
<1>8. PICK left, right : left = <<c1, p - 1>> /\ right = <<p + 1, c2>>
  OBVIOUS
<1>9. /\ left \in Int \X Int /\ right \in Int \X Int
      /\ left[1] = c1 /\ left[2] = p - 1 /\ right[1] = p + 1 /\ right[2] = c2
  BY <1>0, <1>8
<1>10. /\ left[1] < left[2] => Within(left, lo, hi) /\ \A k \in 1 .. Len(s) : Away(s[k], left)
       /\ right[1] < right[2] => Within(right, lo, hi) /\ \A k \in 1 .. Len(s) : Away(s[k], right)
       /\ Away(left, right) /\ Away(right, left)
  <2>1. Away(left, right) /\ Away(right, left)
    BY <1>0, <1>9 DEF Away
  <2>2. (left[1] < left[2] => Within(left, lo, hi)) /\ (right[1] < right[2] => Within(right, lo, hi))
    BY <1>0, <1>6, <1>9 DEF Within
  <2>3. ASSUME NEW k \in 1 .. l PROVE Away(s[k], left) /\ Away(s[k], right)
    <3>1. PICK x \in Int, y \in Int : x = s[k][1] /\ y = s[k][2]
      BY <1>5
    <3>2. y < c1 \/ c2 < x
      BY <1>5, <3>1
    <3> QED
      BY <1>0, <1>9, <3>1, <3>2 DEF Away
  <2> QED
    BY <1>2, <2>1, <2>2, <2>3
<1>11. ASSUME NEW i \in lo .. hi - 1, NEW j \in lo .. hi - 1, i < j, LessIn(in, m, b[j], b[i])
       PROVE  \/ \E k \in 1 .. Len(s) : Covers(s[k], i, j)
              \/ left[1] < left[2] /\ Covers(left, i, j)
              \/ right[1] < right[2] /\ Covers(right, i, j)
  <2>1. \/ \E k \in 1 .. Len(s) : Covers(s[k], i, j)
        \/ c1 <= i /\ j <= p - 1
        \/ p + 1 <= i /\ j <= c2
    <3>1. PairPlaced(in, m, b, c1, c2, s, p, i, j)
      BY PairsParted
    <3> QED
      BY <1>11, <3>1 DEF PairPlaced
  <2> QED
    BY <1>0, <1>9, <1>11, <2>1 DEF Covers
<1>12. PICK d, t : d = Sides(c1, p, c2, s).c /\ t = Sides(c1, p, c2, s).s
  OBVIOUS
<1>13. CASE p - c1 > c2 - p
  <2>1. d = right /\ t = IF left[1] < left[2] THEN Append(s, left) ELSE s
    BY <1>0, <1>8, <1>9, <1>12, <1>13 DEF Sides, PutOff
  <2>2. Quick(in, m, b, lo, hi, d, t)
    BY <1>1, <1>7, <1>9, <1>10, <1>11, <2>1, QuickSplits
  <2> QED
    BY <1>12, <2>2
<1>14. CASE ~ (p - c1 > c2 - p)
  <2>1. d = (IF p = 0 THEN <<0, 0>> ELSE left) /\ t = IF right[1] < right[2] THEN Append(s, right) ELSE s
    BY <1>0, <1>8, <1>9, <1>12, <1>14 DEF Sides, PutOff
  <2>2. d \in Int \X Int /\ (left[1] < left[2] => d = left) /\ (d[1] < d[2] => d = left)
    <3>1. CASE p = 0
      <4>1. ~ (left[1] < left[2])
        BY <1>0, <1>6, <1>9, <3>1
      <4>2. d = <<0, 0>>
        BY <2>1, <3>1
      <4> QED
        BY <4>1, <4>2
    <3>2. CASE p # 0
      BY <1>9, <2>1, <3>2
    <3> QED
      BY <3>1, <3>2
  <2>3. Quick(in, m, b, lo, hi, d, t)
    BY <1>1, <1>7, <1>9, <1>10, <1>11, <2>1, <2>2, QuickSplits
  <2> QED
    BY <1>12, <2>3
<1> QED
  BY <1>13, <1>14

(* A range on the stack is not empty and ends before the group does. *)
LEMMA StackedRanges ==
  ASSUME NEW in, NEW m, NEW a, NEW l \in Nat, NEW lo \in 0 .. l, NEW hi \in 0 .. l, NEW c, NEW s,
         Quick(in, m, a, lo, hi, c, s)
  PROVE  \A r \in Range(s) : r[1] < r[2] /\ r[2] < l
<1> TAKE r \in Range(s)
<1>1. /\ s \in Seq(Int \X Int)
      /\ \A k \in 0 .. Len(s) : Left(c, s, k) => Within(RangeAt(c, s, k), lo, hi)
  BY QuickMeans
<1>2. PICK k \in 1 .. Len(s) : r = s[k]
  BY <1>1, LenProperties DEF Range
<1>3. r \in Int \X Int
  BY <1>1, <1>2, ElementOfSeq
<1>4. k \in 0 .. Len(s) /\ Left(c, s, k) /\ RangeAt(c, s, k) = r
  BY <1>1, <1>2, LenProperties DEF Left, RangeAt
<1>5. Within(r, lo, hi)
  BY <1>1, <1>4
<1>6. PICK x \in Int, y \in Int : x = r[1] /\ y = r[2]
  BY <1>3
<1> QED
  BY <1>5, <1>6 DEF Within

(* A step of the quicksort of group g. *)
QuickTo(m, lo, hi, g, b, c, s) ==
  /\ UNCHANGED <<input, todo, phase, done, uniq, range, mids, polys, result>>
  /\ xs' = b /\ cur' = [cur EXCEPT ![g] = c] /\ stack' = [stack EXCEPT ![g] = s]
  /\ b = [i \in Spots(input) |-> b[i]]
  /\ Rearranged(input, xs, b, lo[g] .. hi[g] - 1) /\ Uncut(b, lo[g], hi[g])
  /\ Quick(input, m, b, lo[g], hi[g], c, s)

(* It keeps the invariant if its range and its stack still cover what is in the
   wrong order. *)
LEMMA QuickStep ==
  ASSUME Inv, phase = "groups", program = "vk",
         NEW m, NEW N, NEW l, NEW lo, NEW hi, Context(m, N, l, lo, hi),
         NEW g \in 0 .. N - 1, NEW b, NEW c, NEW s, QuickTo(m, lo, hi, g, b, c, s)
  PROVE  Inv'
<1>0. /\ UNCHANGED <<input, todo, phase, done, uniq, range, mids, polys, result>>
      /\ xs' = b /\ cur' = [cur EXCEPT ![g] = c] /\ stack' = [stack EXCEPT ![g] = s]
      /\ b = [i \in Spots(input) |-> b[i]]
      /\ Rearranged(input, xs, b, lo[g] .. hi[g] - 1) /\ Uncut(b, lo[g], hi[g])
      /\ Quick(input, m, b, lo[g], hi[g], c, s)
  BY DEF QuickTo
<1>1. InGroups /\ Groups = 0 .. N - 1 /\ m = im /\ lo = Lo /\ hi = Hi /\ input.program = "vk"
  BY DEF InGroups, Context, program
<1>2. /\ Whole(input, b) /\ SameEdges(input, m, xs, b)
      /\ \A h \in 0 .. N - 1 : h # g => \A i \in lo[h] .. hi[h] - 1 : b[i] = xs[i]
  BY <1>0, OwnSlots
<1>3. /\ DOMAIN cur = 0 .. N - 1 /\ DOMAIN stack = 0 .. N - 1
      /\ \A h \in 0 .. N - 1 : Quick(input, m, xs, lo[h], hi[h], cur[h], stack[h])
  BY <1>1 DEF Inv, ThreadsOK
<1>4. /\ DOMAIN cur' = 0 .. N - 1 /\ DOMAIN stack' = 0 .. N - 1
      /\ cur'[g] = c /\ stack'[g] = s
      /\ \A h \in 0 .. N - 1 : h # g => cur'[h] = cur[h] /\ stack'[h] = stack[h]
  BY <1>0, <1>3
<1>5. \A h \in 0 .. N - 1 : Quick(input, m, b, lo[h], hi[h], cur'[h], stack'[h])
  <2> TAKE h \in 0 .. N - 1
  <2>1. CASE h = g
    BY <1>0, <1>4, <2>1
  <2>2. CASE h # g
    <3>1. PICK p, q, d, t : p = lo[h] /\ q = hi[h] /\ d = cur[h] /\ t = stack[h]
      OBVIOUS
    <3>2. Quick(input, m, xs, p, q, d, t) /\ \A i \in p .. q - 1 : b[i] = xs[i]
      BY <1>2, <1>3, <2>2, <3>1
    <3>3. Quick(input, m, b, p, q, d, t)
      BY <3>2, QuickUntouched
    <3> QED
      BY <1>4, <2>2, <3>1, <3>3
  <2> QED
    BY <2>1, <2>2
<1>6. \A h \in DOMAIN stack' : \A r \in Range(stack'[h]) : r[1] < r[2] /\ r[2] < n
  <2> TAKE h \in DOMAIN stack'
  <2>1. PICK p, q, d, t : p = lo[h] /\ q = hi[h] /\ d = cur'[h] /\ t = stack'[h]
    OBVIOUS
  <2>2. l \in Nat /\ l = n /\ p \in 0 .. l /\ q \in 0 .. l /\ Quick(input, m, b, p, q, d, t)
    BY <1>4, <1>5, <2>1 DEF Context
  <2>3. \A r \in Range(t) : r[1] < r[2] /\ r[2] < l
    BY <2>2, StackedRanges
  <2> QED
    BY <2>1, <2>2, <2>3
<1>7. done = {}
  BY DEF Inv, PhasesOK
<1>8. /\ Lo' = Lo /\ Hi' = Hi /\ im' = im /\ Groups' = Groups
      /\ PhasesOK' /\ TypeOK' /\ SortedOK' /\ IndexOK' /\ ResultsOK'
  <2>1. done' \subseteq Groups /\ done' = {}
    BY <1>0, <1>7
  <2>2. xs' = [i \in Spots(input) |-> xs'[i]] /\ Whole(input, xs') /\ SameEdges(input, im, xs, xs')
    BY <1>0, <1>1, <1>2
  <2>3. DOMAIN mids' = DOMAIN mids
    BY <1>0
  <2> QED
    BY <1>0, <1>1, <1>6, <2>1, <2>2, <2>3, ThreadStep
<1>9. GroupOK(input, m, phase, xs', mids', lo[g], hi[g], g, g \in done')
  <2>1. (g \in done') = FALSE
    BY <1>0, <1>7
  <2>2. GroupOK(input, m, "groups", b, mids, lo[g], hi[g], g, FALSE)
    BY <1>0, <1>1 DEF GroupOK, IsOrdered, IsCut, IsStored
  <2> QED
    BY <1>0, <2>1, <2>2
<1>10. \A h \in 0 .. N - 1 : h # g => GroupOK(input, m, phase, xs', mids', lo[h], hi[h], h, h \in done')
  <2>1. done' \in {done, done \cup {g}}
    BY <1>0
  <2>2. /\ \A h \in 0 .. N - 1 : h # g => \A i \in lo[h] .. hi[h] - 1 : xs'[i] = xs[i]
        /\ \A h \in 0 .. N - 1 : h # g => \A i \in lo[h] .. hi[h] - 2 : mids'[i - h] = mids[i - h]
    BY <1>0, <1>2
  <2> QED
    BY <1>1, <2>1, <2>2, OthersKeep
<1>11. ThreadsOK'
  <2>1. \A h \in Groups' : GroupOK(input, im, phase, xs, mids, Lo[h], Hi[h], h, h \in done)'
    BY <1>0, <1>8, <1>9, <1>10, AllGroups
  <2>2. /\ DOMAIN cur' = Groups' /\ DOMAIN stack' = Groups'
        /\ \A h \in Groups' : Quick(input, im, xs, Lo[h], Hi[h], cur[h], stack[h])'
    <3>1. /\ Groups' = 0 .. N - 1 /\ m = im' /\ lo = Lo' /\ hi = Hi' /\ input' = input /\ xs' = b
      BY <1>0, <1>1, <1>8
    <3> QED
      BY <1>4, <1>5, <3>1
  <2>3. phase' # "assign"
    BY <1>0
  <2> QED
    BY <2>1, <2>2, <2>3 DEF ThreadsOK
<1> QED
  BY <1>8, <1>11 DEF Inv

(* Pop keeps the invariant. *)
LEMMA PopKeeps ==
  ASSUME Inv, NEW g \in Groups, Pop(g)
  PROVE  Inv'
<1>1. /\ phase = "groups" /\ program = "vk"
      /\ ~ (cur[g][1] < cur[g][2]) /\ stack[g] # <<>>
      /\ cur' = [cur EXCEPT ![g] = Last(stack[g])]
      /\ stack' = [stack EXCEPT ![g] = Front(stack[g])]
      /\ UNCHANGED <<input, todo, phase, done, xs, uniq, range, mids, polys, result>>
  BY DEF Pop, Busy
<1>2. PICK m, N, l, lo, hi : Context(m, N, l, lo, hi)
  BY <1>1, InContext
<1>3. /\ g \in 0 .. N - 1 /\ m = im /\ lo = Lo /\ hi = Hi /\ InGroups /\ input.program = "vk"
      /\ Spots(input) = 0 .. l - 1 /\ l \in Nat /\ lo[g] \in 0 .. l /\ hi[g] \in 0 .. l
  BY <1>1, <1>2 DEF Context, InGroups, program
<1>4. PICK b, c, s : b = xs /\ c = Last(stack[g]) /\ s = Front(stack[g])
  OBVIOUS
<1>5. Quick(input, m, b, lo[g], hi[g], c, s)
  <2>1. PICK p, q, d, t : p = lo[g] /\ q = hi[g] /\ d = cur[g] /\ t = stack[g]
    OBVIOUS
  <2>2. Quick(input, m, b, p, q, d, t) /\ ~ (d[1] < d[2]) /\ t # <<>>
    BY <1>1, <1>3, <1>4, <2>1 DEF Inv, ThreadsOK
  <2>3. Quick(input, m, b, p, q, Last(t), Front(t))
    BY <2>2, QuickPops
  <2> QED
    BY <1>4, <2>1, <2>3
<1>6. b = [i \in Spots(input) |-> b[i]]
  BY <1>1, <1>4 DEF Inv, SortedOK
<1>7. Rearranged(input, xs, b, lo[g] .. hi[g] - 1)
  <2>1. PICK x \in 0 .. l, y \in 0 .. l : x = lo[g] /\ y = hi[g]
    BY <1>3
  <2>2. x .. y - 1 \subseteq DOMAIN b
    BY <1>3, <1>6, <2>1
  <2>3. Rearranged(input, b, b, x .. y - 1)
    BY <2>2, RearrangedNot
  <2> QED
    BY <1>4, <2>1, <2>3
<1>8. Uncut(b, lo[g], hi[g])
  <2>1. done = {}
    BY <1>1 DEF Inv, PhasesOK
  <2>2. GroupOK(input, m, "groups", b, mids, lo[g], hi[g], g, FALSE)
    <3>1. (g \in done) = FALSE
      BY <2>1
    <3> QED
      BY <1>1, <1>3, <1>4, <3>1 DEF Inv, ThreadsOK
  <2> QED
    BY <1>3, <2>2 DEF GroupOK, IsCut
<1>9. xs' = b /\ cur' = [cur EXCEPT ![g] = c] /\ stack' = [stack EXCEPT ![g] = s]
  BY <1>1, <1>4
<1>10. QuickTo(m, lo, hi, g, b, c, s)
  BY <1>1, <1>5, <1>6, <1>7, <1>8, <1>9 DEF QuickTo
<1> QED
  BY <1>1, <1>2, <1>3, <1>10, QuickStep

(* Rearranged within a range is rearranged within a larger one. *)
LEMMA RearrangedMore ==
  ASSUME NEW in, NEW a, NEW b, NEW s, NEW t, s \subseteq t, t \subseteq DOMAIN a,
         Rearranged(in, a, b, s)
  PROVE  Rearranged(in, a, b, t)
<1>1. DOMAIN b = DOMAIN a /\ \A i \in DOMAIN a \ s : b[i] = a[i]
  BY DEF Rearranged
<1>2. \A i \in t : \E j \in t : b[i] = a[j]
  <2> TAKE i \in t
  <2>1. CASE i \in s
    BY <2>1 DEF Rearranged
  <2>2. CASE i \notin s
    BY <1>1, <2>2
  <2> QED
    BY <2>1, <2>2
<1>3. \A j \in t : \E i \in t : b[i] = a[j]
  <2> TAKE j \in t
  <2>1. CASE j \in s
    BY <2>1 DEF Rearranged
  <2>2. CASE j \notin s
    BY <1>1, <2>2
  <2> QED
    BY <2>1, <2>2
<1>4. (\A i, j \in Spots(in) : a[i].x = a[j].x => i = j)
        => (\A i, j \in Spots(in) : b[i].x = b[j].x => i = j)
  BY DEF Rearranged
<1> QED
  BY <1>1, <1>2, <1>3, <1>4 DEF Rearranged

(* PartitionRange keeps the invariant. *)
LEMMA PartitionRangeKeeps ==
  ASSUME Inv, NEW g \in Groups, PartitionRange(g)
  PROVE  Inv'
<1>1. /\ phase = "groups" /\ program = "vk" /\ cur[g][1] < cur[g][2]
      /\ xs' = Partitioned(xs, cur[g][1], cur[g][2]).a
      /\ cur' = [cur EXCEPT ![g] =
           Sides(cur[g][1], Partitioned(xs, cur[g][1], cur[g][2]).p, cur[g][2], stack[g]).c]
      /\ stack' = [stack EXCEPT ![g] =
           Sides(cur[g][1], Partitioned(xs, cur[g][1], cur[g][2]).p, cur[g][2], stack[g]).s]
      /\ UNCHANGED <<input, todo, phase, done, uniq, range, mids, polys, result>>
  BY DEF PartitionRange, Busy
<1>2. PICK m, N, l, lo, hi : Context(m, N, l, lo, hi)
  BY <1>1, InContext
<1>3. /\ g \in 0 .. N - 1 /\ m = im /\ lo = Lo /\ hi = Hi /\ InGroups /\ input.program = "vk"
      /\ Spots(input) = 0 .. l - 1 /\ l \in Nat /\ lo[g] \in 0 .. l /\ hi[g] \in 0 .. l
      /\ input \in Inputs /\ m \in Maps /\ Whole(input, xs)
  BY <1>1, <1>2 DEF Context, InGroups, program
<1>4. PICK x \in 0 .. l, y \in 0 .. l : x = lo[g] /\ y = hi[g]
  BY <1>3
<1>4a. PICK s : s = stack[g]
  OBVIOUS
<1>5. Quick(input, m, xs, x, y, cur[g], s)
  <2>1. Quick(input, im, xs, Lo[g], Hi[g], cur[g], stack[g])
    BY <1>1 DEF Inv, ThreadsOK
  <2> QED
    BY <1>3, <1>4, <1>4a, <2>1
<1>6. PICK c1 \in Int, c2 \in Int : cur[g] = <<c1, c2>>
  BY <1>5 DEF Quick
<1>7. c1 < c2 /\ x <= c1 /\ c2 < y /\ Quick(input, m, xs, x, y, <<c1, c2>>, s)
  <2>1. /\ s \in Seq(Int \X Int)
        /\ \A k \in 0 .. Len(s) : Left(cur[g], s, k) => Within(RangeAt(cur[g], s, k), x, y)
    BY <1>5, QuickMeans
  <2>2. 0 \in 0 .. Len(s) /\ Left(cur[g], s, 0) /\ RangeAt(cur[g], s, 0) = cur[g]
    BY <1>1, <2>1, LenProperties DEF Left, RangeAt
  <2>3. Within(cur[g], x, y)
    BY <2>1, <2>2
  <2> QED
    BY <1>5, <1>6, <2>3 DEF Within
<1>8. PICK b, p : b = Partitioned(xs, c1, c2).a /\ p = Partitioned(xs, c1, c2).p
  OBVIOUS
<1>9. PICK a : a = xs /\ a = [i \in 0 .. l - 1 |-> a[i]]
  BY <1>1, <1>3 DEF Inv, SortedOK
<1>10. PICK R : R = {a[i] : i \in 0 .. l - 1}
  OBVIOUS
<1>11. PartitionOf(R, 0 .. l - 1, a, c1, c2, b, p)
  <2>1. a \in [0 .. l - 1 -> R] /\ c1 \in 0 .. l - 1 /\ c2 \in 0 .. l - 1
    <3>1. c1 \in 0 .. l - 1 /\ c2 \in 0 .. l - 1
      BY <1>3, <1>4, <1>7
    <3>2. a \in [0 .. l - 1 -> R]
      BY <1>9, <1>10
    <3> QED
      BY <3>1, <3>2
  <2>2. PartitionOf(R, 0 .. l - 1, a, c1, c2, Partitioned(a, c1, c2).a, Partitioned(a, c1, c2).p)
    BY <1>3, <1>7, <2>1, PartitionParts
  <2> QED
    BY <1>8, <1>9, <2>2
<1>12. Splits(input, m, a, b, c1, c2, p)
  <2>1. \A r, t : Less(r, t) <=> LessIn(input, m, r, t)
    BY <1>3 DEF Less, LessIn, Distance, rank, program
  <2>2. /\ p \in c1 .. c2 /\ Rearranged(input, a, b, c1 .. c2) /\ b[p] = a[c2]
        /\ \A i \in c1 .. p - 1 : Less(b[i], a[c2])
        /\ \A i \in p + 1 .. c2 : ~ Less(b[i], a[c2])
    BY <1>11 DEF PartitionOf, Parted
  <2> QED
    BY <2>1, <2>2 DEF Splits
<1>13. x .. y - 1 \subseteq DOMAIN a /\ c1 .. c2 \subseteq x .. y - 1 /\ x \in Nat /\ y \in Nat
  <2>1. x \in Nat /\ y \in Nat /\ DOMAIN a = 0 .. l - 1
    BY <1>3, <1>9
  <2>2. x .. y - 1 \subseteq 0 .. l - 1 /\ c1 .. c2 \subseteq x .. y - 1
    BY <1>3, <1>7, <2>1
  <2> QED
    BY <2>1, <2>2
<1>14. Rearranged(input, a, b, x .. y - 1)
  <2>1. Rearranged(input, a, b, c1 .. c2)
    BY <1>12 DEF Splits
  <2> QED
    BY <1>13, <2>1, RearrangedMore
<1>15. Whole(input, b)
  <2>1. Rearranged(input, xs, b, lo[g] .. hi[g] - 1)
    BY <1>4, <1>9, <1>14
  <2> QED
    BY <1>2, <1>3, <2>1, OwnSlots
<1>16. \A i \in x .. y - 1 : a[i].x \in Found(input) /\ b[i].x \in Found(input)
  <2>1. x .. y - 1 \subseteq Spots(input)
    BY <1>3, <1>4
  <2> QED
    BY <1>3, <1>9, <1>15, <2>1 DEF Whole
<1>17. PICK c, t : c = Sides(c1, p, c2, s).c /\ t = Sides(c1, p, c2, s).s
  OBVIOUS
<1>18. Quick(input, m, b, x, y, c, t)
  BY <1>3, <1>7, <1>9, <1>12, <1>13, <1>16, <1>17, QuickPartitions
<1>19. Uncut(b, x, y)
  <2>1. done = {}
    BY <1>1 DEF Inv, PhasesOK
  <2>2. GroupOK(input, m, "groups", a, mids, x, y, g, FALSE)
    <3>1. (g \in done) = FALSE
      BY <2>1
    <3> QED
      BY <1>1, <1>3, <1>4, <1>9, <3>1 DEF Inv, ThreadsOK
  <2>3. Uncut(a, x, y)
    BY <1>3, <2>2 DEF GroupOK, IsCut
  <2>4. \A i \in x .. y - 1 : \E j \in x .. y - 1 : b[i] = a[j]
    BY <1>14 DEF Rearranged
  <2> QED
    BY <2>3, <2>4 DEF Uncut
<1>20. QuickTo(m, lo, hi, g, b, c, t)
  <2>1. b = [i \in Spots(input) |-> b[i]]
    BY <1>3, <1>11 DEF PartitionOf
  <2>2. xs' = b /\ cur' = [cur EXCEPT ![g] = c] /\ stack' = [stack EXCEPT ![g] = t]
    <3>1. cur[g][1] = c1 /\ cur[g][2] = c2
      BY <1>6
    <3> QED
      BY <1>1, <1>4a, <1>8, <1>17, <3>1
  <2>3. /\ Rearranged(input, xs, b, lo[g] .. hi[g] - 1) /\ Uncut(b, lo[g], hi[g])
        /\ Quick(input, m, b, lo[g], hi[g], c, t)
    BY <1>4, <1>9, <1>14, <1>18, <1>19
  <2> QED
    BY <1>1, <2>1, <2>2, <2>3 DEF QuickTo
<1> QED
  BY <1>1, <1>2, <1>3, <1>20, QuickStep

-----------------------------------------------------------------------------
(* All steps. *)
LEMMA StutterKeeps ==
  ASSUME Inv, UNCHANGED vars
  PROVE  Inv'
<1>1. UNCHANGED <<input, todo, phase, done, xs, uniq, range, cur, stack, mids, polys, result>>
  BY DEF vars, sortVars
<1>2. /\ Groups' = Groups /\ n' = n /\ Slots' = Slots /\ Crossings' = Crossings
      /\ program' = program /\ im' = im /\ Lo' = Lo /\ Hi' = Hi /\ InGroups' = InGroups
  BY <1>1 DEF Groups, n, queue, Slots, Crossings, program, im, Lo, Hi, InGroups
<1>3. PhasesOK' /\ SortedOK'
  BY <1>1, <1>2 DEF Inv, PhasesOK, SortedOK
<1>4. TypeOK'
  BY <1>1, <1>2 DEF Inv, TypeOK
<1>5. IndexOK'
  BY <1>1, <1>2 DEF Inv, IndexOK
<1>6. ThreadsOK'
  BY <1>1, <1>2 DEF Inv, ThreadsOK
<1> QED
  BY <1>1, <1>3, <1>4, <1>5, <1>6, ResultsStay DEF Inv

(* Every step keeps the invariant. *)
LEMMA NextKeeps ==
  ASSUME Inv, [Next]_vars
  PROVE  Inv'
<1>1. CASE SortByEdge
  BY <1>1, SortByEdgeKeeps
<1>2. CASE Dedup
  BY <1>2, DedupKeeps
<1>3. CASE BuildIndex
  BY <1>3, BuildIndexKeeps
<1>4. CASE SortingDone
  BY <1>4, SortingDoneKeeps
<1>5. CASE QueryMids
  BY <1>5, QueryMidsKeeps
<1>6. CASE FinishMap
  BY <1>6, FinishMapKeeps
<1>7. ASSUME NEW g \in Groups, Thread(g) PROVE Inv'
  <2>1. CASE FindRange(g)
    BY <2>1, FindRangeKeeps
  <2>2. CASE SortAndStore(g)
    BY <2>2, SortAndStoreKeeps
  <2>3. CASE SortAndLocate(g)
    BY <2>3, SortAndLocateKeeps
  <2>4. CASE Pop(g)
    BY <2>4, PopKeeps
  <2>5. CASE PartitionRange(g)
    BY <2>5, PartitionRangeKeeps
  <2>6. CASE StoreMids(g)
    BY <2>6, StoreMidsKeeps
  <2>7. CASE Assign(g)
    BY <2>7, AssignKeeps
  <2> QED
    BY <1>7, <2>1, <2>2, <2>3, <2>4, <2>5, <2>6, <2>7 DEF Thread
<1>8. CASE UNCHANGED vars
  BY <1>8, StutterKeeps
<1> QED
  BY <1>1, <1>2, <1>3, <1>4, <1>5, <1>6, <1>7, <1>8 DEF Next, Step, Done

(* The inductive invariant, on which the next three theorems rest: the sorted
   crossings lie in one range per edge, each thread keeps to its own, and what
   is known of a range depends on its own thread only. *)
THEOREM Invariance == Spec => []Inv
<1>1. Inv /\ [Next]_vars => Inv'
  BY NextKeeps
<1> QED
  BY <1>1, InitInv, PTL DEF Spec

(* Nothing is outside its array: every slot has one of the crossings, every
   range found ends behind its start and in the array, and there is room for
   each midpoint. *)
THEOREM TypeCorrect == Spec => []TypeOK
<1>1. Inv => TypeOK
  BY DEF Inv
<1> QED
  BY <1>1, Invariance, PTL

(* What a finished map says, as the properties say it. *)
LEMMA FinishedMeans ==
  ASSUME Inv, NEW m \in Maps \ Range(todo), NEW a, a = result[m]
  PROVE  /\ Whole(input, a) /\ Finished(input, m, a) /\ m \in Maps /\ input \in Inputs
         /\ Slots = Spots(input) /\ Crossings = Found(input)
         /\ \A i \in Slots : i \in Int /\ input.rank[m][a[i].x] \in Nat /\ a[i].x \in Nat \X Nat
<1>1. input \in Inputs /\ Finished(input, m, a) /\ m \in Maps
  BY DEF Inv, PhasesOK, ResultsOK
<1>2. Slots = Spots(input) /\ Crossings = Found(input)
  BY DEF Slots, Spots, Crossings, Found, n, queue
<1>3. Whole(input, a)
  BY <1>1 DEF Finished
<1>4. PICK l \in Nat : l = Len(input.queue)
  BY <1>1, InputFacts
<1>5. \A i \in Slots : i \in Int
  BY <1>2, <1>4 DEF Spots
<1>6. \A i \in Slots : a[i].x \in Found(input)
  BY <1>2, <1>3 DEF Whole
<1> QED
  BY <1>1, <1>2, <1>3, <1>5, <1>6, InputFacts

(* ComputeOutputPolygons, in every program and whatever the order of its
   threads, leaves for each map every crossing once, by edge and along its
   edge, and with each the polygon that the midpoint to the next crossing of
   that very edge is in; no midpoint is queried that nobody has stored. *)
THEOREM PiecesAreExact == Spec => []PiecesExact
<1>1. ASSUME Inv, NEW m \in Maps \ Range(todo)
      PROVE  LET a == result[m] IN
               /\ DOMAIN a = Slots
               /\ {a[i].x : i \in Slots} = Crossings
               /\ \A i, j \in Slots : i < j =>
                    \/ Eid(m, a[i].x) < Eid(m, a[j].x)
                    \/ Eid(m, a[i].x) = Eid(m, a[j].x) /\ rank[m][a[i].x] <= rank[m][a[j].x]
               /\ \A i \in Slots : a[i].mid = IF SameEdge(m, a, i) THEN <<1 - m, a[i].x, a[i + 1].x>>
                                                                   ELSE DontKnow
  <2>1. PICK a : a = result[m]
    OBVIOUS
  <2>2. /\ Whole(input, a) /\ Finished(input, m, a) /\ m \in Maps /\ input \in Inputs
        /\ Slots = Spots(input) /\ Crossings = Found(input)
        /\ \A i \in Slots : i \in Int /\ input.rank[m][a[i].x] \in Nat /\ a[i].x \in Nat \X Nat
    BY <1>1, <2>1, FinishedMeans
  <2>3. DOMAIN a = Slots /\ {a[i].x : i \in Slots} = Crossings
    BY <2>2 DEF Whole
  <2>4. ASSUME NEW i \in Slots, NEW j \in Slots, i < j
        PROVE  \/ Eid(m, a[i].x) < Eid(m, a[j].x)
               \/ Eid(m, a[i].x) = Eid(m, a[j].x) /\ rank[m][a[i].x] <= rank[m][a[j].x]
    <3>1. \/ Eid(m, a[i].x) < Eid(m, a[j].x)
          \/ Eid(m, a[i].x) = Eid(m, a[j].x) /\ ~ LessIn(input, m, a[j], a[i])
      BY <2>2, <2>4 DEF Finished
    <3>2. PICK x \in Nat, y \in Nat : x = input.rank[m][a[i].x] /\ y = input.rank[m][a[j].x]
      BY <2>2
    <3>3. ~ LessIn(input, m, a[j], a[i]) => x <= y
      BY <3>2 DEF LessIn
    <3> QED
      BY <3>1, <3>2, <3>3 DEF rank
  <2>5. \A i \in Slots : a[i].mid = IF SameEdge(m, a, i) THEN <<1 - m, a[i].x, a[i + 1].x>>
                                                         ELSE DontKnow
    BY <2>2 DEF Finished, SameEdge
  <2> QED
    BY <2>1, <2>3, <2>4, <2>5
<1>2. ASSUME Inv, phase = "assign", NEW k \in DOMAIN mids PROVE mids[k] # Blank
  <2>1. InGroups /\ phase \notin {"sort", "unique"} /\ program # "grid"
    BY <1>2 DEF InGroups, Inv, PhasesOK
  <2>2. PICK m, N, l, lo, hi : Context(m, N, l, lo, hi)
    BY <1>2, <2>1, InContext
  <2>3. k \in 0 .. l - N - 1 /\ N \in Nat /\ l \in Nat /\ Consecutive(N, lo, hi, l)
    BY <1>2, <2>1, <2>2 DEF Inv, IndexOK, Context
  <2>4. PICK g \in 0 .. N - 1 : \E i \in Int : PieceIn(lo, hi, g, i) /\ i - g = k
    <3>1. Reached(N, l, lo, hi)
      BY <2>3, PiecesNumbered
    <3> QED
      BY <2>3, <3>1 DEF Reached
  <2>5. PICK i \in Int : PieceIn(lo, hi, g, i) /\ i - g = k
    BY <2>4
  <2>6. lo[g] \in 0 .. l /\ hi[g] \in 0 .. l
    BY <2>2 DEF Context
  <2>7. i \in lo[g] .. hi[g] - 2
    BY <2>3, <2>5, <2>6 DEF PieceIn
  <2>8. Stored(mids, xs, lo[g], hi[g], g)
    <3>1. g \in Groups /\ lo = Lo /\ hi = Hi
      BY <2>2 DEF Context
    <3>2. GroupOK(input, im, phase, xs, mids, lo[g], hi[g], g, g \in done)
      BY <1>2, <2>1, <3>1 DEF Inv, ThreadsOK
    <3> QED
      BY <1>2, <3>2 DEF GroupOK, IsStored
  <2>9. mids[i - g] = <<xs[i].x, xs[i + 1].x>>
    BY <2>7, <2>8 DEF Stored
  <2>10. PICK p, q : p = xs[i].x /\ q = xs[i + 1].x
    OBVIOUS
  <2>11. mids[k] = <<p, q>>
    BY <2>5, <2>9, <2>10
  <2>12. Len(<<p, q>>) = 2 /\ Len(<<>>) = 0
    OBVIOUS
  <2> QED
    BY <2>11, <2>12 DEF Blank
<1>3. Inv => PiecesExact
  BY <1>1, <1>2 DEF PiecesExact
<1> QED
  BY <1>3, Invariance, PTL

(* In the programs that decide a tie by the other edge, OptiX and Vulkan, the
   order of the crossings of an edge is strict: it does not depend on the order
   in which they were found, even where several are at one place. *)
THEOREM OrderIsReproducible == Spec => []OrderReproducible
<1>1. ASSUME Inv, program \in {"rt", "vk"}, NEW m \in Maps \ Range(todo), NEW a, a = result[m],
             NEW i \in Slots, SameEdge(m, a, i)
      PROVE  \/ rank[m][a[i].x] < rank[m][a[i + 1].x]
             \/ /\ rank[m][a[i].x] = rank[m][a[i + 1].x]
                /\ Eid(1 - m, a[i].x) < Eid(1 - m, a[i + 1].x)
  <2>1. /\ Whole(input, a) /\ Finished(input, m, a) /\ m \in Maps /\ input \in Inputs
        /\ Slots = Spots(input)
        /\ \A j \in Slots : j \in Int /\ input.rank[m][a[j].x] \in Nat /\ a[j].x \in Nat \X Nat
    BY <1>1, FinishedMeans
  <2>2. i \in Int /\ i + 1 \in Slots /\ Eid(m, a[i].x) = Eid(m, a[i + 1].x) /\ i + 1 \in Int
        /\ i < i + 1 /\ i # i + 1
    BY <1>1, <2>1 DEF SameEdge
  <2>3. PICK c \in Nat \X Nat, d \in Nat \X Nat : c = a[i].x /\ d = a[i + 1].x
    BY <2>1, <2>2
  <2>4. PICK x \in Nat, y \in Nat : x = input.rank[m][c] /\ y = input.rank[m][d]
    BY <2>1, <2>2, <2>3
  <2>5. PICK v \in Nat, w \in Nat : v = Eid(1 - m, c) /\ w = Eid(1 - m, d)
    BY <2>3 DEF Eid
  <2>6. Eid(m, c) \in Nat /\ Eid(m, c) = Eid(m, d)
    BY <2>2, <2>3 DEF Eid
  <2>7. ~ LessIn(input, m, a[i + 1], a[i])
    <3>1. \/ Eid(m, a[i].x) < Eid(m, a[i + 1].x)
          \/ Eid(m, a[i].x) = Eid(m, a[i + 1].x) /\ ~ LessIn(input, m, a[i + 1], a[i])
      BY <1>1, <2>1, <2>2 DEF Finished
    <3> QED
      BY <2>3, <2>6, <3>1
  <2>8. ~ (y < x) /\ ~ (x = y /\ w < v)
    BY <1>1, <2>3, <2>4, <2>5, <2>7 DEF LessIn, program
  <2>9. v # w
    <3> SUFFICES ASSUME v = w PROVE FALSE
      OBVIOUS
    <3>1. c = d
      <4>1. m \in {0, 1} /\ Eid(m, c) = Eid(m, d) /\ Eid(1 - m, c) = Eid(1 - m, d)
        BY <2>1, <2>3, <2>5, <2>6 DEF Maps
      <4>2. c[1] = d[1] /\ c[2] = d[2]
        BY <4>1 DEF Eid
      <4> QED
        BY <2>3, <4>2
    <3> QED
      BY <1>1, <2>1, <2>2, <2>3, <3>1 DEF Whole
  <2>10. x < y \/ (x = y /\ v < w)
    BY <2>8, <2>9
  <2> QED
    BY <2>3, <2>4, <2>5, <2>10 DEF rank
<1>2. Inv => OrderReproducible
  BY <1>1 DEF OrderReproducible
<1> QED
  BY <1>2, Invariance, PTL

-----------------------------------------------------------------------------
(* The quicksort's stack.  A partition puts off the larger side and goes on
   with the other, so whatever is put off later fits into a room that is no
   larger than the range that was put off before: w[i] is the room above the
   first i ranges, and w[0] the room of the group. *)

Size(r) == IF r[1] < r[2] THEN r[2] - r[1] + 1 ELSE 0

Room(N, c, s, w) ==
  /\ w \in [0 .. Len(s) -> Nat]
  /\ w[0] <= N /\ Size(c) <= w[Len(s)]
  /\ \A i \in 1 .. Len(s) : /\ s[i][1] < s[i][2]
                            /\ w[i] <= Size(s[i]) /\ w[i] + Size(s[i]) + 1 <= w[i - 1]

(* A group of N crossings whose range has not been taken off its stack. *)
NotBegun(N, c, s) == ~ (c[1] < c[2]) /\ Len(s) = 1 /\ Size(s[1]) = N

HasRoom(N, c, s) == NotBegun(N, c, s) \/ \E w : Room(N, c, s, w)

StackOK ==
  IF phase = "groups" /\ program = "vk"
  THEN \A g \in Groups : HasRoom(NXsect(g), cur[g], stack[g])
  ELSE \A g \in DOMAIN stack : Len(stack[g]) <= 1

(* The size of a range is a number. *)
LEMMA Sizes ==
  \A r \in Int \X Int : Size(r) \in Nat /\ (r[1] < r[2] => Size(r) = r[2] - r[1] + 1 /\ 2 <= Size(r))
<1> TAKE r \in Int \X Int
<1>1. PICK x \in Int, y \in Int : x = r[1] /\ y = r[2]
  OBVIOUS
<1> QED
  BY <1>1 DEF Size

(* A range taken off the stack fits into the room below it. *)
LEMMA RoomPops ==
  ASSUME NEW N \in Nat, NEW c \in Int \X Int, NEW s \in Seq(Int \X Int), s # <<>>,
         ~ (c[1] < c[2]), HasRoom(N, c, s)
  PROVE  HasRoom(N, Last(s), Front(s))
<1>1. PICK l \in Nat \ {0} : l = Len(s)
  BY EmptySeq
<1>2. PICK t, d : t = Front(s) /\ d = Last(s)
  OBVIOUS
<1>3. t \in Seq(Int \X Int) /\ Len(t) = l - 1 /\ \A k \in 1 .. l - 1 : t[k] = s[k]
  BY <1>1, <1>2, SMTT(30) DEF Front
<1>4. d = s[l] /\ d \in Int \X Int
  BY <1>1, <1>2, ElementOfSeq DEF Last
<1>5. PICK z \in Nat : z = Size(d)
  BY <1>4, Sizes
<1>6. CASE NotBegun(N, c, s)
  <2>1. l = 1 /\ z = N
    BY <1>1, <1>4, <1>5, <1>6 DEF NotBegun
  <2>2. PICK w : w = [i \in 0 .. 0 |-> N]
    OBVIOUS
  <2>3. w \in [0 .. 0 -> Nat] /\ w[0] = N
    BY <2>2
  <2>4. Len(t) = 0
    BY <1>3, <2>1
  <2>5. Room(N, d, t, w)
    BY <1>5, <2>1, <2>3, <2>4 DEF Room
  <2> QED
    BY <1>2, <2>5 DEF HasRoom
<1>7. CASE \E w : Room(N, c, s, w)
  <2>1. PICK w : Room(N, c, s, w)
    BY <1>7
  <2>2. /\ w \in [0 .. l -> Nat] /\ w[0] <= N
        /\ \A i \in 1 .. l : /\ s[i][1] < s[i][2]
                             /\ w[i] <= Size(s[i]) /\ w[i] + Size(s[i]) + 1 <= w[i - 1]
    BY <1>1, <2>1 DEF Room
  <2>3. PICK v : v = [i \in 0 .. l - 1 |-> w[i]]
    OBVIOUS
  <2>4. v \in [0 .. l - 1 -> Nat] /\ \A i \in 0 .. l - 1 : v[i] = w[i]
    BY <2>2, <2>3
  <2>5. v[0] <= N
    BY <2>2, <2>4
  <2>6. z <= v[l - 1]
    <3>1. l \in 1 .. l /\ l - 1 \in 0 .. l - 1
      OBVIOUS
    <3>2. w[l] + z + 1 <= w[l - 1] /\ w[l] \in Nat /\ w[l - 1] \in Nat
      BY <1>4, <1>5, <2>2, <3>1
    <3>3. v[l - 1] = w[l - 1]
      BY <2>4, <3>1
    <3>4. PICK x \in Nat, y \in Nat : x = w[l] /\ y = w[l - 1]
      BY <3>2
    <3>5. x + z + 1 <= y
      BY <3>2, <3>4
    <3>6. z <= y
      BY <3>5
    <3> QED
      BY <3>3, <3>4, <3>6
  <2>7. ASSUME NEW i \in 1 .. l - 1
        PROVE  /\ t[i][1] < t[i][2]
               /\ v[i] <= Size(t[i]) /\ v[i] + Size(t[i]) + 1 <= v[i - 1]
    <3>1. i \in 1 .. l /\ i \in 0 .. l - 1 /\ i - 1 \in 0 .. l - 1
      OBVIOUS
    <3>2. t[i] = s[i] /\ v[i] = w[i] /\ v[i - 1] = w[i - 1]
      BY <1>3, <2>4, <3>1
    <3> QED
      BY <2>2, <3>1, <3>2
  <2>8. Room(N, d, t, v)
    BY <1>3, <1>5, <2>4, <2>5, <2>6, <2>7 DEF Room
  <2> QED
    BY <1>2, <2>8 DEF HasRoom
<1> QED
  BY <1>6, <1>7 DEF HasRoom

(* A range d put off, with no less in it than in what is next, leaves room for
   that. *)
LEMMA RoomGrows ==
  ASSUME NEW N, NEW c, NEW s \in Seq(Int \X Int), NEW w, Room(N, c, s, w),
         NEW d \in Int \X Int, d[1] < d[2], NEW e \in Int \X Int,
         NEW x \in Nat, x = Size(c), Size(e) <= Size(d), Size(e) + Size(d) + 1 <= x
  PROVE  HasRoom(N, e, Append(s, d))
<1>1. PICK l \in Nat : l = Len(s)
  BY LenProperties
<1>2. PICK t : t = Append(s, d)
  OBVIOUS
<1>3. t \in Seq(Int \X Int) /\ Len(t) = l + 1 /\ t[l + 1] = d /\ \A i \in 1 .. l : t[i] = s[i]
  BY <1>1, <1>2
<1>4. PICK y \in Nat, z \in Nat : y = Size(d) /\ z = Size(e)
  BY Sizes
<1>5. z <= y /\ z + y + 1 <= x
  BY <1>4
<1>6. /\ w \in [0 .. l -> Nat] /\ w[0] <= N /\ x <= w[l]
      /\ \A i \in 1 .. l : /\ s[i][1] < s[i][2]
                           /\ w[i] <= Size(s[i]) /\ w[i] + Size(s[i]) + 1 <= w[i - 1]
  BY <1>1 DEF Room
<1>7. PICK v : v = [i \in 0 .. l + 1 |-> IF i = l + 1 THEN z ELSE w[i]]
  OBVIOUS
<1>8. v \in [0 .. l + 1 -> Nat]
  <2>1. ASSUME NEW i \in 0 .. l + 1 PROVE (IF i = l + 1 THEN z ELSE w[i]) \in Nat
    <3>1. i # l + 1 => i \in 0 .. l
      OBVIOUS
    <3> QED
      BY <1>4, <1>6, <3>1
  <2> QED
    BY <1>7, <2>1
<1>9. v[l + 1] = z /\ \A i \in 0 .. l : v[i] = w[i]
  BY <1>7
<1>10. v[0] <= N
  BY <1>6, <1>9
<1>11. ASSUME NEW i \in 1 .. l + 1
       PROVE  /\ t[i][1] < t[i][2]
              /\ v[i] <= Size(t[i]) /\ v[i] + Size(t[i]) + 1 <= v[i - 1]
  <2>1. CASE i = l + 1
    <3>1. i - 1 = l /\ l \in 0 .. l
      BY <2>1
    <3>2. PICK u \in Nat : u = w[l]
      BY <1>6, <3>1
    <3>3. t[i] = d /\ v[i] = z /\ v[i - 1] = u
      BY <1>3, <1>9, <2>1, <3>1, <3>2
    <3>4. z + y + 1 <= u
      BY <1>5, <1>6, <3>2
    <3> QED
      BY <1>4, <1>5, <3>3, <3>4
  <2>2. CASE i # l + 1
    <3>1. i \in 1 .. l /\ i \in 0 .. l /\ i - 1 \in 0 .. l
      BY <2>2
    <3>2. t[i] = s[i] /\ v[i] = w[i] /\ v[i - 1] = w[i - 1]
      BY <1>3, <1>9, <3>1
    <3> QED
      BY <1>6, <3>1, <3>2
  <2> QED
    BY <2>1, <2>2
<1>12. Room(N, e, t, v)
  <2>1. PICK k \in Nat : k = l + 1
    OBVIOUS
  <2>2. Len(t) = k /\ v \in [0 .. k -> Nat] /\ Size(e) <= v[k]
    <3>1. z <= z
      OBVIOUS
    <3> QED
      BY <1>3, <1>4, <1>8, <1>9, <2>1, <3>1
  <2>3. \A i \in 1 .. k : /\ t[i][1] < t[i][2]
                          /\ v[i] <= Size(t[i]) /\ v[i] + Size(t[i]) + 1 <= v[i - 1]
    BY <1>11, <2>1
  <2> QED
    BY <1>10, <2>2, <2>3 DEF Room
<1> QED
  BY <1>2, <1>12 DEF HasRoom

(* So does going on with a part of the range and putting nothing off. *)
LEMMA RoomStays ==
  ASSUME NEW N, NEW c, NEW s \in Seq(Int \X Int), NEW w, Room(N, c, s, w),
         NEW e \in Int \X Int, NEW x \in Nat, x = Size(c), Size(e) <= x
  PROVE  HasRoom(N, e, s)
<1>1. PICK l \in Nat : l = Len(s)
  BY LenProperties
<1>2. w \in [0 .. l -> Nat] /\ x <= w[l] /\ l \in 0 .. l
  BY <1>1 DEF Room
<1>3. PICK u \in Nat, z \in Nat : u = w[l] /\ z = Size(e)
  BY <1>2, Sizes
<1>4. z <= u
  BY <1>2, <1>3
<1>5. Room(N, e, s, w)
  BY <1>1, <1>3, <1>4 DEF Room
<1> QED
  BY <1>5 DEF HasRoom

(* A partition leaves room for the side that it goes on with. *)
LEMMA RoomParted ==
  ASSUME NEW N \in Nat, NEW s \in Seq(Int \X Int), NEW c1 \in Int, NEW c2 \in Int, c1 < c2,
         NEW p \in c1 .. c2, HasRoom(N, <<c1, c2>>, s)
  PROVE  HasRoom(N, Sides(c1, p, c2, s).c, Sides(c1, p, c2, s).s)
<1>1. PICK c \in Int \X Int : c = <<c1, c2>>
  OBVIOUS
<1>2. c[1] < c[2] /\ Size(c) = c2 - c1 + 1
  BY <1>1 DEF Size
<1>3. PICK w : Room(N, c, s, w)
  <2>1. ~ NotBegun(N, c, s)
    BY <1>2 DEF NotBegun
  <2> QED
    BY <1>1, <2>1 DEF HasRoom
<1>4. PICK x \in Nat : x = c2 - c1 + 1 /\ x = Size(c)
  BY <1>2
<1>5. p \in Int /\ c1 <= p /\ p <= c2
  OBVIOUS
<1>6. CASE p - c1 > c2 - p
  <2>0. PICK p1 \in Int, p2 \in Int : p1 = p + 1 /\ p2 = p - 1
    BY <1>5
  <2>1. PICK e, d : e = <<p1, c2>> /\ d = <<c1, p2>>
    OBVIOUS
  <2>1a. e \in Int \X Int /\ d \in Int \X Int
    BY <2>1
  <2>2. Sides(c1, p, c2, s) = [c |-> e, s |-> PutOff(s, c1, p2)]
    BY <1>6, <2>0, <2>1 DEF Sides
  <2>3. PICK z \in Nat : z = Size(e) /\ z <= c2 - p
    <3>1. Size(e) = IF p1 < c2 THEN c2 - p1 + 1 ELSE 0
      BY <2>1 DEF Size
    <3>2. Size(e) \in Nat /\ Size(e) <= c2 - p
      <4>1. CASE p1 < c2
        BY <1>5, <2>0, <3>1, <4>1
      <4>2. CASE ~ (p1 < c2)
        BY <1>5, <2>0, <3>1, <4>2
      <4> QED
        BY <4>1, <4>2
    <3> QED
      BY <3>2
  <2>4. CASE p2 > c1
    <3>1. PICK y \in Nat : y = p - c1
      BY <1>5
    <3>2. d[1] < d[2] /\ Size(d) = y
      BY <2>0, <2>1, <2>4, <3>1 DEF Size
    <3>3. z <= y /\ z + y + 1 <= x
      <4>1. x = c2 - c1 + 1 /\ z <= c2 - p
        BY <1>4, <2>3
      <4> QED
        BY <1>5, <1>6, <3>1, <4>1
    <3>4. HasRoom(N, e, Append(s, d))
      BY <1>3, <1>4, <2>1a, <2>3, <3>2, <3>3, RoomGrows
    <3> QED
      BY <2>1, <2>2, <2>4, <3>4 DEF PutOff
  <2>5. CASE ~ (p2 > c1)
    <3>1. z <= x
      BY <1>4, <1>5, <2>3
    <3>2. HasRoom(N, e, s)
      BY <1>3, <1>4, <2>1a, <2>3, <3>1, RoomStays
    <3> QED
      BY <2>2, <2>5, <3>2 DEF PutOff
  <2> QED
    BY <2>4, <2>5
<1>7. CASE ~ (p - c1 > c2 - p)
  <2>0. PICK p1 \in Int, p2 \in Int : p1 = p + 1 /\ p2 = p - 1
    BY <1>5
  <2>1. PICK e, d : e = (IF p = 0 THEN <<0, 0>> ELSE <<c1, p2>>) /\ d = <<p1, c2>>
    OBVIOUS
  <2>1a. e \in Int \X Int /\ d \in Int \X Int
    BY <2>1
  <2>2. Sides(c1, p, c2, s) = [c |-> e, s |-> PutOff(s, p1, c2)]
    BY <1>7, <2>0, <2>1 DEF Sides
  <2>3. PICK z \in Nat : z = Size(e) /\ z <= p - c1
    <3>1. Size(e) \in Nat /\ Size(e) <= p - c1
      <4>1. CASE p = 0
        <5>1. Size(e) = 0
          BY <2>1, <4>1 DEF Size
        <5> QED
          BY <1>5, <5>1
      <4>2. CASE p # 0
        <5>1. Size(e) = IF c1 < p2 THEN p2 - c1 + 1 ELSE 0
          BY <2>1, <4>2 DEF Size
        <5>2. CASE c1 < p2
          BY <1>5, <2>0, <5>1, <5>2
        <5>3. CASE ~ (c1 < p2)
          BY <1>5, <2>0, <5>1, <5>3
        <5> QED
          BY <5>2, <5>3
      <4> QED
        BY <4>1, <4>2
    <3> QED
      BY <3>1
  <2>4. CASE c2 > p1
    <3>1. PICK y \in Nat : y = c2 - p
      BY <1>5
    <3>2. d[1] < d[2] /\ Size(d) = y
      BY <2>0, <2>1, <2>4, <3>1 DEF Size
    <3>3. z <= y /\ z + y + 1 <= x
      <4>1. x = c2 - c1 + 1 /\ z <= p - c1
        BY <1>4, <2>3
      <4> QED
        BY <1>5, <1>7, <3>1, <4>1
    <3>4. HasRoom(N, e, Append(s, d))
      BY <1>3, <1>4, <2>1a, <2>3, <3>2, <3>3, RoomGrows
    <3> QED
      BY <2>1, <2>2, <2>4, <3>4 DEF PutOff
  <2>5. CASE ~ (c2 > p1)
    <3>1. z <= x
      BY <1>4, <1>5, <2>3
    <3>2. HasRoom(N, e, s)
      BY <1>3, <1>4, <2>1a, <2>3, <3>1, RoomStays
    <3> QED
      BY <2>2, <2>5, <3>2 DEF PutOff
  <2> QED
    BY <2>4, <2>5
<1> QED
  BY <1>6, <1>7

(* The room doubles from each range to the one below it. *)
LEMMA RoomDoubles ==
  ASSUME NEW N \in Nat, NEW c, NEW s \in Seq(Int \X Int), HasRoom(N, c, s), Len(s) > 1
  PROVE  Pow2[Len(s) + 1] <= N + 1
<1>1. PICK l \in Nat : l = Len(s) /\ l > 1
  BY LenProperties
<1>2. PICK w : Room(N, c, s, w)
  <2>1. l > 1
    BY <1>1
  <2>2. l # 1
    <3> HIDE <1>1
    <3> QED
      BY <2>1
  <2>3. ~ NotBegun(N, c, s)
    BY <1>1, <2>2 DEF NotBegun
  <2> QED
    BY <2>3 DEF HasRoom
<1>3. w \in [0 .. l -> Nat] /\ w[0] <= N
  BY <1>1, <1>2 DEF Room
<1>4. \A i \in 1 .. l : /\ 2 <= Size(s[i]) /\ Size(s[i]) \in Nat
                        /\ w[i] <= Size(s[i]) /\ w[i] + Size(s[i]) + 1 <= w[i - 1]
  <2> TAKE i \in 1 .. l
  <2>1. s[i] \in Int \X Int
    BY <1>1, ElementOfSeq
  <2>2. s[i][1] < s[i][2] /\ w[i] <= Size(s[i]) /\ w[i] + Size(s[i]) + 1 <= w[i - 1]
    BY <1>1, <1>2 DEF Room
  <2> QED
    BY <2>1, <2>2, Sizes
<1> DEFINE S == {j \in 0 .. l - 1 : Pow2[(j + 1) + 1] <= w[l - (j + 1)] + 1}
<1>5. 0 \in S
  <2>1. Pow2[(0 + 1) + 1] = 4
    <3>1. PICK q \in Nat, o \in Nat : q = 0 + 1 /\ o = q + 1
      OBVIOUS
    <3>2. Pow2[0] = 1 /\ Pow2[0 + 1] = 2 * Pow2[0] /\ Pow2[q + 1] = 2 * Pow2[q]
      BY Powers
    <3> QED
      BY <3>1, <3>2
  <2>a. l \in 1 .. l /\ l \in 0 .. l /\ l - 1 \in 0 .. l
    BY <1>1
  <2>2. PICK x \in Nat, y \in Nat, z \in Nat : x = w[l] /\ y = w[l - 1] /\ z = Size(s[l])
    BY <1>3, <1>4, <2>a
  <2>3. 2 <= z /\ x + z + 1 <= y
    BY <1>4, <2>2, <2>a
  <2>4. l - (0 + 1) = l - 1 /\ 0 \in 0 .. l - 1
    BY <1>1
  <2>5. 4 <= y + 1
    BY <2>3
  <2> QED
    BY <2>1, <2>2, <2>4, <2>5
<1>6. ASSUME NEW j \in 0 .. (l - 1) - 1, j \in S PROVE j + 1 \in S
  <2>0. l - (j + 1) \in 1 .. l
    BY <1>1
  <2>1. PICK i \in 1 .. l : i = l - (j + 1)
    BY <2>0
  <2>2. i - 1 = l - ((j + 1) + 1) /\ i - 1 \in 0 .. l /\ i \in 0 .. l /\ j + 1 \in 0 .. l - 1
        /\ (j + 1) + 1 \in Nat
    BY <1>1, <2>1
  <2>3. PICK x \in Nat, y \in Nat, z \in Nat : x = w[i] /\ y = w[i - 1] /\ z = Size(s[i])
    BY <1>3, <1>4, <2>2
  <2>4. x <= z /\ x + z + 1 <= y
    BY <1>4, <2>3
  <2>5. PICK q \in Nat : q = Pow2[(j + 1) + 1] /\ Pow2[((j + 1) + 1) + 1] = 2 * q
    BY <2>2, Powers
  <2>6. q <= x + 1
    BY <1>6, <2>1, <2>3, <2>5
  <2>7. 2 * q <= y + 1
    BY <2>4, <2>6
  <2> QED
    BY <2>2, <2>3, <2>5, <2>7
<1>7. l - 1 \in S
  <2>1. l - 1 \in Nat /\ l - 1 \in 0 .. l - 1
    BY <1>1
  <2>2. \A j \in 0 .. l - 1 : j \in S
    <3> HIDE DEF S
    <3> QED
      BY <1>5, <1>6, <2>1, UpTo
  <2> HIDE DEF S
  <2> QED
    BY <2>1, <2>2
<1>8. PICK x \in Nat : x = w[0]
  BY <1>3
<1>9. ((l - 1) + 1) + 1 = l + 1 /\ l - ((l - 1) + 1) = 0 /\ l + 1 \in Nat
  OBVIOUS
<1>10. PICK q \in Nat : q = Pow2[l + 1]
  BY <1>9, Powers
<1>11. q <= x + 1
  BY <1>7, <1>8, <1>9, <1>10
<1>12. q <= N + 1
  BY <1>3, <1>8, <1>11
<1> QED
  BY <1>1, <1>10, <1>12

(* What a group of the quicksort is, in the invariant, and its ranges. *)
LEMMA SortingGroup ==
  ASSUME Inv, phase = "groups", program = "vk", NEW g \in Groups
  PROVE  /\ \E lo \in Int, hi \in Int : range[g] = <<lo, hi>> /\ hi - lo \in Nat
         /\ NXsect(g) \in Nat /\ cur[g] \in Int \X Int /\ stack[g] \in Seq(Int \X Int)
         /\ DOMAIN cur = Groups /\ DOMAIN stack = Groups
<1>1. PICK m, N, l, lo, hi : Context(m, N, l, lo, hi)
  BY InContext
<1>2. Groups = 0 .. N - 1 /\ g \in 0 .. N - 1
  BY <1>1 DEF Context
<1>3. g \in DOMAIN range
  BY DEF Inv, IndexOK, InGroups
<1>4. /\ range[g] = <<lo[g], hi[g]>> /\ lo[g] < hi[g]
      /\ l \in Nat /\ lo[g] \in 0 .. l /\ hi[g] \in 0 .. l
  BY <1>1, <1>2, <1>3 DEF Context
<1>5. PICK x \in Nat, y \in Nat : x = lo[g] /\ y = hi[g] /\ x < y
  BY <1>4
<1>6. NXsect(g) = y - x
  BY <1>4, <1>5 DEF NXsect
<1>7. /\ DOMAIN cur = Groups /\ DOMAIN stack = Groups
      /\ Quick(input, im, xs, Lo[g], Hi[g], cur[g], stack[g])
  BY DEF Inv, ThreadsOK
<1>8. y - x \in Nat /\ range[g] = <<x, y>>
  BY <1>4, <1>5
<1> QED
  BY <1>5, <1>6, <1>7, <1>8 DEF Quick

Sorting == phase = "groups" /\ program = "vk"
RangesOK == \A g \in Groups : \E lo \in Int, hi \in Int : range[g] = <<lo, hi>> /\ hi - lo \in Nat

(* The ranges, as a formula that holds of the next state too. *)
LEMMA SortingRanges == Inv /\ Sorting => RangesOK
BY SortingGroup DEF RangesOK, Sorting

(* BuildIndex puts off the whole range of a group, or nothing. *)
LEMMA BuildIndexStacks ==
  ASSUME Inv, BuildIndex
  PROVE  StackOK'
<1>1. Inv'
  BY BuildIndexKeeps
<1>2. /\ cur' = [g \in Groups |-> <<0, 0>>]
      /\ stack' = [g \in Groups |-> IF Counts[g] > 1 THEN <<<<range'[g][1], range'[g][2] - 1>>>> ELSE <<>>]
      /\ Groups' = Groups
  BY DEF BuildIndex, Groups
<1>3. ASSUME NEW g \in Groups PROVE Len(stack'[g]) <= 1
  <2>1. Len(<<<<range'[g][1], range'[g][2] - 1>>>>) = 1 /\ Len(<<>>) = 0
    OBVIOUS
  <2> QED
    BY <1>2, <2>1
<1>4. ASSUME phase' = "groups", program' = "vk", NEW g \in Groups
      PROVE  HasRoom(NXsect(g)', cur'[g], stack'[g])
  <2>1. PICK r : r = range'[g]
    OBVIOUS
  <2>2. PICK N, lo \in Int, hi \in Int : r = <<lo, hi>> /\ N = NXsect(g)' /\ N = hi - lo /\ N \in Nat
    <3>1. g \in Groups'
      BY <1>2
    <3>2. \E lo \in Int, hi \in Int : range'[g] = <<lo, hi>> /\ hi - lo \in Nat
      <4>0. Sorting'
        BY <1>4 DEF Sorting
      <4>1. RangesOK'
        BY <1>1, <4>0, SortingRanges, PTL
      <4> QED
        BY <3>1, <4>1 DEF RangesOK
    <3> QED
      BY <2>1, <3>2 DEF NXsect
  <2>3. cur'[g] = <<0, 0>>
    BY <1>2
  <2>4. CASE Counts[g] > 1
    <3>1. PICK d : d = <<lo, hi - 1>>
      OBVIOUS
    <3>2. stack'[g] = <<d>>
      <4>1. range'[g][1] = lo /\ range'[g][2] - 1 = hi - 1
        BY <2>1, <2>2
      <4>2. stack'[g] = <<<<range'[g][1], range'[g][2] - 1>>>>
        BY <1>2, <2>4
      <4> QED
        BY <3>1, <4>1, <4>2
    <3>3. d[1] < d[2]
      <4>1. g \in DOMAIN stack' /\ d \in Range(stack'[g])
        BY <1>2, <3>2 DEF Range
      <4> QED
        BY <1>1, <4>1 DEF Inv, TypeOK
    <3>4. Size(d) = hi - lo
      BY <3>1, <3>3 DEF Size
    <3>5. NotBegun(N, <<0, 0>>, <<d>>)
      BY <2>2, <3>4 DEF NotBegun
    <3> QED
      BY <2>2, <2>3, <3>2, <3>5 DEF HasRoom
  <2>5. CASE ~ (Counts[g] > 1)
    <3>1. stack'[g] = <<>>
      BY <1>2, <2>5
    <3>2. PICK w : w = [i \in 0 .. 0 |-> 0]
      OBVIOUS
    <3>3. w \in [0 .. 0 -> Nat] /\ w[0] = 0 /\ 0 <= N
      BY <2>2, <3>2
    <3>4. Len(<<>>) = 0 /\ Size(<<0, 0>>) = 0
      BY DEF Size
    <3>5. Room(N, <<0, 0>>, <<>>, w)
      BY <3>3, <3>4 DEF Room
    <3> QED
      BY <2>2, <2>3, <3>1, <3>5 DEF HasRoom
  <2> QED
    BY <2>4, <2>5
<1>5. DOMAIN stack' = Groups
  BY <1>2
<1> QED
  BY <1>2, <1>3, <1>4, <1>5 DEF StackOK

(* A step that changes no stack keeps what is known of them, in the quicksort
   and outside it. *)
LEMMA OthersStack ==
  ASSUME Inv, StackOK, UNCHANGED stack,
         \/ UNCHANGED <<input, phase, cur, range, uniq>>
         \/ /\ phase' # "groups" \/ program' # "vk"
            /\ phase # "groups" \/ program # "vk"
  PROVE  StackOK'
<1>1. CASE UNCHANGED <<input, phase, cur, range, uniq>>
  <2>1. Groups' = Groups /\ program' = program /\ \A g \in Groups : NXsect(g)' = NXsect(g)
    BY <1>1 DEF Groups, program, NXsect
  <2> QED
    BY <1>1, <2>1 DEF StackOK
<1>2. CASE /\ phase' # "groups" \/ program' # "vk"
           /\ phase # "groups" \/ program # "vk"
  BY <1>2 DEF StackOK
<1> QED
  BY <1>1, <1>2

(* SortingDone finds every stack empty. *)
LEMMA SortingDoneStack ==
  ASSUME Inv, StackOK, SortingDone
  PROVE  StackOK'
<1>1. /\ phase = "groups" /\ program = "vk" /\ phase' = "mids" /\ stack' = stack
      /\ \A g \in Groups : stack[g] = <<>>
  BY DEF SortingDone, Go, sortVars
<1>2. DOMAIN stack = Groups
  BY <1>1 DEF Inv, ThreadsOK
<1>3. \A g \in DOMAIN stack : Len(stack[g]) <= 1
  BY <1>1, <1>2
<1> QED
  BY <1>1, <1>3 DEF StackOK

(* A step of the quicksort of group g changes nothing of the other groups. *)
LEMMA GroupStack ==
  ASSUME Inv, StackOK, phase = "groups", program = "vk", NEW g \in Groups, NEW c, NEW s,
         UNCHANGED <<input, phase, uniq, range>>,
         cur' = [cur EXCEPT ![g] = c], stack' = [stack EXCEPT ![g] = s],
         HasRoom(NXsect(g), c, s)
  PROVE  StackOK'
<1>1. /\ Groups' = Groups /\ program' = program /\ \A h \in Groups : NXsect(h)' = NXsect(h)
      /\ phase' = phase
  BY DEF Groups, program, NXsect
<1>2. DOMAIN cur = Groups /\ DOMAIN stack = Groups
  BY SortingGroup
<1>3. /\ cur'[g] = c /\ stack'[g] = s
      /\ \A h \in Groups : h # g => cur'[h] = cur[h] /\ stack'[h] = stack[h]
  BY <1>2
<1>4. ASSUME NEW h \in Groups PROVE HasRoom(NXsect(h), cur'[h], stack'[h])
  <2>1. CASE h = g
    BY <1>3, <2>1
  <2>2. CASE h # g
    <3>1. HasRoom(NXsect(h), cur[h], stack[h])
      BY DEF StackOK
    <3> QED
      BY <1>3, <2>2, <3>1
  <2> QED
    BY <2>1, <2>2
<1> QED
  BY <1>1, <1>4 DEF StackOK

(* Pop keeps what is known of the stacks. *)
LEMMA PopStack ==
  ASSUME Inv, StackOK, NEW g \in Groups, Pop(g)
  PROVE  StackOK'
<1>1. /\ phase = "groups" /\ program = "vk"
      /\ ~ (cur[g][1] < cur[g][2]) /\ stack[g] # <<>>
      /\ cur' = [cur EXCEPT ![g] = Last(stack[g])]
      /\ stack' = [stack EXCEPT ![g] = Front(stack[g])]
      /\ UNCHANGED <<input, phase, uniq, range>>
  BY DEF Pop, Busy
<1>2. PICK N, c, s : N = NXsect(g) /\ c = cur[g] /\ s = stack[g]
  OBVIOUS
<1>3. N \in Nat /\ c \in Int \X Int /\ s \in Seq(Int \X Int)
  BY <1>1, <1>2, SortingGroup
<1>4. HasRoom(N, c, s) /\ ~ (c[1] < c[2]) /\ s # <<>>
  BY <1>1, <1>2 DEF StackOK
<1>5. HasRoom(N, Last(s), Front(s))
  BY <1>3, <1>4, RoomPops
<1>6. HasRoom(NXsect(g), Last(stack[g]), Front(stack[g]))
  BY <1>2, <1>5
<1> QED
  BY <1>1, <1>6, GroupStack

(* PartitionRange parts the range of its group at a slot of it. *)
LEMMA PartsAt ==
  ASSUME Inv, NEW g \in Groups, PartitionRange(g)
  PROVE  \E c1 \in Int, c2 \in Int : \E p \in c1 .. c2 :
           /\ cur[g] = <<c1, c2>> /\ c1 < c2
           /\ cur' = [cur EXCEPT ![g] = Sides(c1, p, c2, stack[g]).c]
           /\ stack' = [stack EXCEPT ![g] = Sides(c1, p, c2, stack[g]).s]
<1>1. /\ phase = "groups" /\ program = "vk" /\ cur[g][1] < cur[g][2]
      /\ cur' = [cur EXCEPT ![g] =
           Sides(cur[g][1], Partitioned(xs, cur[g][1], cur[g][2]).p, cur[g][2], stack[g]).c]
      /\ stack' = [stack EXCEPT ![g] =
           Sides(cur[g][1], Partitioned(xs, cur[g][1], cur[g][2]).p, cur[g][2], stack[g]).s]
  BY DEF PartitionRange, Busy
<1>2. PICK m, N, l, lo, hi : Context(m, N, l, lo, hi)
  BY <1>1, InContext
<1>3. /\ g \in 0 .. N - 1 /\ m = im /\ lo = Lo /\ hi = Hi
      /\ Spots(input) = 0 .. l - 1 /\ l \in Nat /\ lo[g] \in 0 .. l /\ hi[g] \in 0 .. l
  BY <1>1, <1>2 DEF Context
<1>4. PICK x \in 0 .. l, y \in 0 .. l : x = lo[g] /\ y = hi[g]
  BY <1>3
<1>5. PICK s : s = stack[g]
  OBVIOUS
<1>6. Quick(input, m, xs, x, y, cur[g], s)
  <2>1. Quick(input, im, xs, Lo[g], Hi[g], cur[g], stack[g])
    BY <1>1 DEF Inv, ThreadsOK
  <2> QED
    BY <1>3, <1>4, <1>5, <2>1
<1>7. PICK c1 \in Int, c2 \in Int : cur[g] = <<c1, c2>>
  BY <1>6 DEF Quick
<1>8. c1 < c2 /\ x <= c1 /\ c2 < y
  <2>1. /\ s \in Seq(Int \X Int)
        /\ \A k \in 0 .. Len(s) : Left(cur[g], s, k) => Within(RangeAt(cur[g], s, k), x, y)
    BY <1>6, QuickMeans
  <2>2. 0 \in 0 .. Len(s) /\ Left(cur[g], s, 0) /\ RangeAt(cur[g], s, 0) = cur[g]
    BY <1>1, <2>1, LenProperties DEF Left, RangeAt
  <2>3. Within(cur[g], x, y)
    BY <2>1, <2>2
  <2> QED
    BY <1>7, <2>3 DEF Within
<1>9. PICK a : a = xs /\ a = [i \in 0 .. l - 1 |-> a[i]]
  BY <1>1, <1>3 DEF Inv, SortedOK
<1>10. PICK R : R = {a[i] : i \in 0 .. l - 1}
  OBVIOUS
<1>11. Partitioned(a, c1, c2).p \in c1 .. c2
  <2>1. c1 \in 0 .. l - 1 /\ c2 \in 0 .. l - 1
    BY <1>3, <1>4, <1>8
  <2>2. a \in [0 .. l - 1 -> R]
    BY <1>9, <1>10
  <2>3. PartitionOf(R, 0 .. l - 1, a, c1, c2, Partitioned(a, c1, c2).a, Partitioned(a, c1, c2).p)
    BY <1>3, <1>8, <2>1, <2>2, PartitionParts
  <2> QED
    BY <2>3 DEF PartitionOf, Parted
<1>12. PICK p : p = Partitioned(xs, c1, c2).p
  OBVIOUS
<1>13. p \in c1 .. c2
  BY <1>9, <1>11, <1>12
<1>14. cur[g][1] = c1 /\ cur[g][2] = c2
  BY <1>7
<1> QED
  BY <1>1, <1>7, <1>8, <1>12, <1>13, <1>14

(* PartitionRange keeps it too. *)
LEMMA PartitionRangeStack ==
  ASSUME Inv, StackOK, NEW g \in Groups, PartitionRange(g)
  PROVE  StackOK'
<1>1. phase = "groups" /\ program = "vk" /\ UNCHANGED <<input, phase, uniq, range>>
  BY DEF PartitionRange
<1>2. PICK c1 \in Int, c2 \in Int : \E p \in c1 .. c2 :
           /\ cur[g] = <<c1, c2>> /\ c1 < c2
           /\ cur' = [cur EXCEPT ![g] = Sides(c1, p, c2, stack[g]).c]
           /\ stack' = [stack EXCEPT ![g] = Sides(c1, p, c2, stack[g]).s]
  BY PartsAt
<1>3. PICK p \in c1 .. c2 :
           /\ cur[g] = <<c1, c2>> /\ c1 < c2
           /\ cur' = [cur EXCEPT ![g] = Sides(c1, p, c2, stack[g]).c]
           /\ stack' = [stack EXCEPT ![g] = Sides(c1, p, c2, stack[g]).s]
  BY <1>2
<1>4. PICK N, s : N = NXsect(g) /\ s = stack[g]
  OBVIOUS
<1>5. N \in Nat /\ s \in Seq(Int \X Int) /\ HasRoom(N, <<c1, c2>>, s)
  BY <1>1, <1>3, <1>4, SortingGroup DEF StackOK
<1>6. PICK c, t : c = Sides(c1, p, c2, s).c /\ t = Sides(c1, p, c2, s).s
  OBVIOUS
<1>7. HasRoom(N, c, t)
  BY <1>3, <1>5, <1>6, RoomParted
<1>8. cur' = [cur EXCEPT ![g] = c] /\ stack' = [stack EXCEPT ![g] = t] /\ HasRoom(NXsect(g), c, t)
  BY <1>3, <1>4, <1>6, <1>7
<1> QED
  BY <1>1, <1>8, GroupStack

(* Every step keeps what is known of the stacks. *)
LEMMA NextStack ==
  ASSUME Inv, StackOK, [Next]_vars
  PROVE  StackOK'
<1>1. CASE SortByEdge
  <2>1. UNCHANGED <<input, stack>> /\ phase = "sort" /\ phase' = "unique"
    BY <1>1 DEF SortByEdge, Go, sortVars
  <2> QED
    BY <2>1, OthersStack
<1>2. CASE Dedup
  <2>1. UNCHANGED <<input, stack>> /\ phase = "unique" /\ phase' = IF program = "grid" THEN "groups" ELSE "index"
    BY <1>2 DEF Dedup, Go, sortVars
  <2>2. phase' # "groups" \/ program' # "vk"
    BY <2>1 DEF program
  <2> QED
    BY <2>1, <2>2, OthersStack
<1>3. CASE BuildIndex
  BY <1>3, BuildIndexStacks
<1>4. CASE SortingDone
  BY <1>4, SortingDoneStack
<1>5. CASE QueryMids
  <2>1. UNCHANGED <<input, stack>> /\ phase' = "assign" /\ (phase # "groups" \/ program # "vk")
    BY <1>5 DEF QueryMids, Go, sortVars
  <2> QED
    BY <2>1, OthersStack
<1>6. CASE FinishMap
  <2>1. UNCHANGED <<input, stack>> /\ phase' = "sort" /\ (phase # "groups" \/ program # "vk")
    BY <1>6 DEF FinishMap, Go, sortVars
  <2> QED
    BY <2>1, OthersStack
<1>7. ASSUME NEW g \in Groups, Thread(g) PROVE StackOK'
  <2>1. CASE FindRange(g)
    <3>1. UNCHANGED <<input, phase, stack>> /\ program = "grid"
      BY <2>1 DEF FindRange, sortVars
    <3>2. program # "vk" /\ program' # "vk"
      BY <3>1 DEF program
    <3> QED
      BY <3>1, <3>2, OthersStack
  <2>2. CASE SortAndStore(g) \/ SortAndLocate(g) \/ StoreMids(g) \/ Assign(g)
    <3>1. UNCHANGED <<input, phase, stack, cur, range, uniq>>
      BY <2>2 DEF SortAndStore, SortAndLocate, StoreMids, Assign, sortVars
    <3> QED
      BY <3>1, OthersStack
  <2>3. CASE Pop(g)
    BY <2>3, PopStack
  <2>4. CASE PartitionRange(g)
    BY <2>4, PartitionRangeStack
  <2> QED
    BY <1>7, <2>1, <2>2, <2>3, <2>4 DEF Thread
<1>8. CASE UNCHANGED vars
  <2>1. UNCHANGED <<input, phase, stack, cur, range, uniq>>
    BY <1>8 DEF vars, sortVars
  <2> QED
    BY <2>1, OthersStack
<1> QED
  BY <1>1, <1>2, <1>3, <1>4, <1>5, <1>6, <1>7, <1>8 DEF Next, Step, Done

(* The stack of 64 ranges of algo_midpoint_group_quicksort: a thread that has k
   ranges put off sorts at least 2^(k+1) - 1 crossings, whatever their number
   and their order. *)
THEOREM StackIsBounded == Spec => []StackBounded
<1>1. Init => Inv /\ StackOK
  <2>1. ASSUME Init PROVE StackOK
    <3>1. phase = "sort" /\ stack = <<>>
      BY <2>1 DEF Init
    <3>2. DOMAIN stack = {}
      BY <3>1
    <3> QED
      BY <3>1, <3>2 DEF StackOK
  <2> QED
    BY <2>1, InitInv
<1>2. Inv /\ StackOK /\ [Next]_vars => (Inv /\ StackOK)'
  BY NextKeeps, NextStack
<1>3. ASSUME Inv, StackOK PROVE StackBounded
  <2>1. CASE phase = "groups" /\ program = "vk"
    <3>1. ASSUME NEW g \in Groups, Len(stack[g]) > 1
          PROVE  Pow2[Len(stack[g]) + 1] <= NXsect(g) + 1
      <4>1. PICK N, c, s : N = NXsect(g) /\ c = cur[g] /\ s = stack[g]
        OBVIOUS
      <4>2. N \in Nat /\ s \in Seq(Int \X Int) /\ HasRoom(N, c, s) /\ Len(s) > 1
        BY <1>3, <2>1, <3>1, <4>1, SortingGroup DEF StackOK
      <4>3. Pow2[Len(s) + 1] <= N + 1
        BY <4>2, RoomDoubles
      <4> QED
        BY <4>1, <4>3
    <3>2. DOMAIN stack = Groups
      BY <1>3, <2>1 DEF Inv, ThreadsOK
    <3> QED
      BY <3>1, <3>2 DEF StackBounded
  <2>2. CASE ~ (phase = "groups" /\ program = "vk")
    <3>1. \A g \in DOMAIN stack : Len(stack[g]) <= 1
      BY <1>3, <2>2 DEF StackOK
    <3> QED
      BY <3>1 DEF StackBounded
  <2> QED
    BY <2>1, <2>2
<1> QED
  BY <1>1, <1>2, <1>3, PTL DEF Spec
=============================================================================
