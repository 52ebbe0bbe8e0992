------------------------- MODULE BlockGroupingProofs -------------------------
(***************************************************************************)
(* Proofs about BlockGrouping, for every number of edges, block size and   *)
(* round limit.                                                            *)
(***************************************************************************)
EXTENDS BlockGrouping, SharedLemmas

(* An interval that maps one-to-one into another is not longer. *)
LEMMA IntervalInjection ==
  ASSUME NEW m \in Nat, NEW n \in Nat, NEW f \in Injection(0 .. m - 1, 0 .. n - 1)
  PROVE  m <= n
<1>1. /\ IsFiniteSet(0 .. n - 1)
      /\ Cardinality(0 .. n - 1) = n
      /\ Cardinality(0 .. m - 1) = m
  BY FS_Interval
<1>2. Cardinality(0 .. m - 1) <= Cardinality(0 .. n - 1)
  BY <1>1, FS_Injection
<1> QED
  BY <1>1, <1>2

(* Every block has at least one edge and at most as many as it has threads. *)
LEMMA BlockRange ==
  ASSUME NEW b \in Blocks
  PROVE  /\ b \in Nat
         /\ EidBegin(b) \in Nat
         /\ EidEnd(b) \in Nat
         /\ EidBegin(b) = b * BlockSize
         /\ EidBegin(b) < EidEnd(b)
         /\ EidEnd(b) <= NE
         /\ EidEnd(b) <= b * BlockSize + BlockSize
<1> USE NEAssumption, BlockSizeAssumption
<1> DEFINE q == (NE + BlockSize - 1) \div BlockSize
<1>1. q \in Nat /\ q * BlockSize <= NE + BlockSize - 1
  OBVIOUS
<1>2. b \in Nat /\ b + 1 <= q
  BY <1>1 DEF Blocks
<1>3. (b + 1) * BlockSize <= q * BlockSize
  <2> HIDE DEF q
  <2> QED
    BY <1>1, <1>2, Multiples
<1>4. /\ (b + 1) * BlockSize = b * BlockSize + BlockSize
      /\ b * BlockSize \in Nat
  BY <1>2
<1>5. b * BlockSize < NE
  <2> HIDE DEF q
  <2>1. q * BlockSize \in Nat
    BY <1>1
  <2> QED
    BY <1>1, <1>3, <1>4, <2>1
<1> QED
  BY <1>2, <1>4, <1>5 DEF EidBegin, EidEnd, Smaller

(* Blocks hold different edges. *)
LEMMA BlocksApart ==
  ASSUME NEW b \in Blocks, NEW c \in Blocks, b < c
  PROVE  EidEnd(b) <= EidBegin(c)
<1> USE NEAssumption, BlockSizeAssumption
<1>1. /\ b \in Nat /\ c \in Nat
      /\ EidBegin(c) = c * BlockSize
      /\ EidEnd(b) <= b * BlockSize + BlockSize
      /\ EidEnd(b) \in Nat
  BY BlockRange
<1>2. (b + 1) * BlockSize <= c * BlockSize
  BY <1>1, Multiples
<1>3. (b + 1) * BlockSize = b * BlockSize + BlockSize /\ b * BlockSize \in Nat /\ c * BlockSize \in Nat
  BY <1>1
<1> QED
  BY <1>1, <1>2, <1>3

(* Every edge is in a block. *)
LEMMA BlockOf ==
  ASSUME NEW e \in Edges
  PROVE  \E b \in Blocks : EidBegin(b) <= e /\ e < EidEnd(b)
<1> USE NEAssumption, BlockSizeAssumption
<1> DEFINE q == (NE + BlockSize - 1) \div BlockSize
<1> DEFINE b == e \div BlockSize
<1>1. e \in Nat /\ e < NE
  BY DEF Edges
<1>2. b \in Nat /\ b * BlockSize <= e /\ e < b * BlockSize + BlockSize
  BY <1>1
<1>3. q \in Nat /\ NE + BlockSize - 1 < q * BlockSize + BlockSize
  OBVIOUS
<1>4. b < q
  <2> HIDE DEF b, q
  <2> SUFFICES ASSUME q <= b PROVE FALSE
    BY <1>2, <1>3
  <2>1. q * BlockSize <= b * BlockSize
    BY <1>2, <1>3, Multiples
  <2>2. q * BlockSize \in Nat /\ b * BlockSize \in Nat
    BY <1>2, <1>3
  <2> QED
    BY <1>1, <1>2, <1>3, <2>1, <2>2
<1>5. b \in Blocks
  BY <1>2, <1>3, <1>4 DEF Blocks
<1>6. (b + 1) * BlockSize = b * BlockSize + BlockSize
  BY <1>2
<1> QED
  <2> HIDE DEF b
  <2> QED
    BY <1>1, <1>2, <1>5, <1>6 DEF EidBegin, EidEnd, Smaller

-----------------------------------------------------------------------------
(* The first n primitives of f are behind every edge from lo to hi - 1, each
   behind exactly one, and their boxes enclose them. *)
Partition(f, n, lo, hi) ==
  /\ \A i \in 0 .. n - 1 :
       lo <= f[i].lo /\ f[i].lo < f[i].hi /\ f[i].hi <= hi /\ EdgesOf(f[i]) \subseteq f[i].box
  /\ \A i, j \in 0 .. n - 1 : i # j => f[i].hi <= f[j].lo \/ f[j].hi <= f[i].lo
  /\ \A e \in lo .. hi - 1 : \E i \in 0 .. n - 1 : f[i].lo <= e /\ e < f[i].hi

InOrder(f, n) == \A i, j \in 0 .. n - 1 : i < j => f[i].lo <= f[j].lo

(* The intervals the threads of A drew tile 0 .. k - 1, and none is longer
   than what its thread has to store. *)
DrawsFit(A, bs, c, n, k) ==
  /\ \A t \in A : /\ Busy(t, n)
                  /\ c[t] \in {1, 2}
                  /\ c[t] = 2 => Paired(t, n)
                  /\ bs[t] + c[t] <= k
  /\ \A t, u \in A : t # u => bs[t] + c[t] <= bs[u] \/ bs[u] + c[u] <= bs[t]
  /\ \A s \in 0 .. k - 1 : \E t \in A : bs[t] <= s /\ s < bs[t] + c[t]

Started(b) == {t \in Threads : arrived[b][t] # "no"}

Stored(b) ==
  \A t \in Threads : arrived[b][t] = "yes" =>
    \A s \in Drawn(b, t) : out[b][s] = Result(b, t, s - base[b][t])

(* What holds of one block whatever the others do. *)
BlockInv(b) ==
  /\ phase[b] \in {"load", "reserve"} => \A t \in Threads : arrived[b][t] = "no"
  /\ phase[b] = "load" => iter[b] = 0 /\ tailOut[b] = 0
  /\ phase[b] # "load" => Partition(in[b], tailIn[b], EidBegin(b), EidEnd(b))
  /\ phase[b] = "merge" =>
       /\ iter[b] < MaxIter
       /\ InOrder(in[b], tailIn[b])
       /\ DrawsFit(Started(b), base[b], cnt[b], tailIn[b], tailOut[b])
       /\ Stored(b)

Writing == {b \in Blocks : phase[b] = "write"}

(* The blocks that write share the global array without a gap. *)
GlobalInv ==
  /\ \A b \in Writing : tailOut[b] + tailIn[b] <= gTail
  /\ \A b, c \in Writing : b # c =>
       tailOut[b] + tailIn[b] <= tailOut[c] \/ tailOut[c] + tailIn[c] <= tailOut[b]
  /\ \A g \in 0 .. gTail - 1 : \E b \in Writing :
       tailOut[b] <= g /\ g < tailOut[b] + tailIn[b]
  /\ \A b \in Writing : \A t \in Threads :
       arrived[b][t] = "yes" => t < tailIn[b] /\ gPrims[tailOut[b] + t] = in[b][t]
  /\ nPrims > 0 => nPrims = gTail /\ \A b \in Blocks : BlockDone(b)

Inv == TypeOK /\ (\A b \in Blocks : BlockInv(b)) /\ GlobalInv
-----------------------------------------------------------------------------
(* Ranges in order that partition an interval touch one another. *)
LEMMA Adjacent ==
  ASSUME NEW f \in [Slots -> Prim], NEW n \in 0 .. BlockSize, NEW lo \in Nat, NEW hi \in Nat,
         Partition(f, n, lo, hi), InOrder(f, n),
         NEW i \in 0 .. n - 1, i + 1 < n
  PROVE  f[i].hi = f[i + 1].lo
<1> USE NEAssumption, BlockSizeAssumption
<1>1. \A k \in 0 .. n - 1 : f[k].lo \in Nat /\ f[k].hi \in Nat
  BY DEF Slots, Prim
<1>2. /\ i + 1 \in 0 .. n - 1
      /\ f[i].lo <= f[i + 1].lo
      /\ f[i].lo < f[i].hi /\ f[i + 1].lo < f[i + 1].hi /\ f[i + 1].hi <= hi /\ lo <= f[i].lo
  BY DEF Partition, InOrder
<1>3. f[i].hi <= f[i + 1].lo
  BY <1>1, <1>2 DEF Partition
<1>4. ASSUME f[i].hi < f[i + 1].lo PROVE FALSE
  <2>1. f[i].hi \in lo .. hi - 1
    BY <1>1, <1>2, <1>4
  <2>2. PICK k \in 0 .. n - 1 : f[k].lo <= f[i].hi /\ f[i].hi < f[k].hi
    BY <2>1 DEF Partition
  <2>3. CASE k > i
    <3>1. f[i + 1].lo <= f[k].lo
      <4>1. CASE k = i + 1
        BY <4>1, <1>1
      <4>2. CASE i + 1 < k
        BY <4>2, <1>2 DEF InOrder
      <4> QED
        BY <2>3, <4>1, <4>2
    <3> QED
      BY <3>1, <2>2, <1>1, <1>2, <1>4
  <2>4. CASE k = i
    BY <2>4, <2>2, <1>1
  <2>5. CASE k < i
    <3>1. f[k].lo <= f[i].lo
      BY <2>5 DEF InOrder
    <3>2. f[k].hi <= f[i].lo \/ f[i].hi <= f[k].lo
      BY <2>5 DEF Partition
    <3> QED
      BY <3>1, <3>2, <2>2, <1>1, <1>2
  <2> QED
    BY <2>3, <2>4, <2>5
<1> QED
  BY <1>1, <1>2, <1>3, <1>4

(* The slots drawn in a round are not more than the inputs of the round. *)
LEMMA DrawBound ==
  ASSUME NEW A \in SUBSET Threads, NEW bs \in [Threads -> Nat], NEW c \in [Threads -> 0 .. 2],
         NEW n \in 0 .. BlockSize, NEW k \in Nat, DrawsFit(A, bs, c, n, k)
  PROVE  k <= n
<1> USE BlockSizeAssumption
<1> DEFINE owner == [s \in 0 .. k - 1 |-> CHOOSE t \in A : bs[t] <= s /\ s < bs[t] + c[t]]
<1> DEFINE input == [s \in 0 .. k - 1 |-> 2 * owner[s] + (s - bs[owner[s]])]
<1>1. \A s \in 0 .. k - 1 : /\ owner[s] \in A
                            /\ bs[owner[s]] <= s
                            /\ s < bs[owner[s]] + c[owner[s]]
  BY DEF DrawsFit
<1>2. ASSUME NEW s \in 0 .. k - 1
      PROVE  /\ input[s] \in 0 .. n - 1
             /\ owner[s] \in Nat
             /\ s - bs[owner[s]] \in {0, 1}
             /\ input[s] = 2 * owner[s] + (s - bs[owner[s]])
  <2> DEFINE t == owner[s]
  <2>1. t \in A /\ bs[t] <= s /\ s < bs[t] + c[t]
    BY <1>1
  <2>2. input[s] = 2 * t + (s - bs[t])
    OBVIOUS
  <2> HIDE DEF t, input, owner
  <2>3. t \in Nat /\ bs[t] \in Nat
    BY <2>1 DEF Threads
  <2>4. c[t] \in {1, 2} /\ 2 * t < n /\ (c[t] = 2 => 2 * t + 1 < n)
    BY <2>1, <2>3 DEF DrawsFit, Busy, Paired
  <2>5. s - bs[t] \in {0, 1} /\ 2 * t + (s - bs[t]) \in 0 .. n - 1
    BY <2>1, <2>3, <2>4
  <2> QED
    BY <2>2, <2>3, <2>5 DEF t
<1>3. input \in Injection(0 .. k - 1, 0 .. n - 1)
  <2>1. input \in [0 .. k - 1 -> 0 .. n - 1]
    BY <1>2
  <2>2. ASSUME NEW r \in 0 .. k - 1, NEW s \in 0 .. k - 1, input[r] = input[s]
        PROVE  r = s
    <3> HIDE DEF input, owner
    <3>1. owner[r] = owner[s] /\ r - bs[owner[r]] = s - bs[owner[s]]
      BY SMTT(30), <2>2, <1>2
    <3>2. bs[owner[r]] \in Nat
      BY <1>1
    <3> QED
      BY <3>1, <3>2
  <2> QED
    BY <2>1, <2>2 DEF Injection, IsInjective
<1> QED
  <2> HIDE DEF input, owner
  <2> QED
    BY <1>3, IntervalInjection

(* The slots the blocks reserved are not more than the edges of the map. *)
LEMMA ReserveBound ==
  ASSUME NEW W \in SUBSET Blocks, NEW bs \in [Blocks -> Nat], NEW n \in [Blocks -> 0 .. BlockSize],
         NEW f \in [Blocks -> [Slots -> Prim]], NEW g \in Nat,
         \A b \in W : Partition(f[b], n[b], EidBegin(b), EidEnd(b)),
         \A s \in 0 .. g - 1 : \E b \in W : bs[b] <= s /\ s < bs[b] + n[b]
  PROVE  g <= NE
<1> USE NEAssumption, BlockSizeAssumption
<1> DEFINE owner == [s \in 0 .. g - 1 |-> CHOOSE b \in W : bs[b] <= s /\ s < bs[b] + n[b]]
<1> DEFINE first == [s \in 0 .. g - 1 |-> f[owner[s]][s - bs[owner[s]]].lo]
<1>1. \A s \in 0 .. g - 1 : /\ owner[s] \in W
                            /\ bs[owner[s]] <= s
                            /\ s < bs[owner[s]] + n[owner[s]]
  OBVIOUS
<1>2. \A s \in 0 .. g - 1 : first[s] = f[owner[s]][s - bs[owner[s]]].lo
  OBVIOUS
<1> HIDE DEF owner
<1>3. ASSUME NEW s \in 0 .. g - 1
      PROVE  LET b == owner[s]
                 i == s - bs[owner[s]]
             IN  /\ b \in W /\ b \in Blocks /\ b \in Nat
                 /\ i \in 0 .. n[b] - 1
                 /\ first[s] \in Nat
                 /\ EidBegin(b) <= first[s] /\ first[s] < EidEnd(b)
                 /\ first[s] < f[b][i].hi
                 /\ f[b][i].hi \in Nat
                 /\ first[s] = f[b][i].lo
  <2> HIDE DEF first
  <2> DEFINE b == owner[s]
  <2> DEFINE i == s - bs[b]
  <2>1. b \in W /\ b \in Blocks /\ bs[b] \in Nat /\ n[b] \in 0 .. BlockSize /\ i \in 0 .. n[b] - 1
    BY <1>1
  <2>2. b \in Nat /\ EidEnd(b) \in Nat /\ EidBegin(b) \in Nat
    BY <2>1, BlockRange
  <2> HIDE DEF b, i
  <2>3. i \in Slots /\ f[b] \in [Slots -> Prim]
    BY <2>1 DEF Slots
  <2>4. f[b][i].lo \in Nat /\ f[b][i].hi \in Nat
    BY <2>3 DEF Prim
  <2>5. EidBegin(b) <= f[b][i].lo /\ f[b][i].lo < f[b][i].hi /\ f[b][i].hi <= EidEnd(b)
    BY <2>1 DEF Partition
  <2>6. first[s] = f[b][i].lo
    BY <1>2 DEF b, i
  <2>7. /\ b \in W /\ b \in Blocks /\ b \in Nat
        /\ i \in 0 .. n[b] - 1
        /\ first[s] \in Nat
        /\ EidBegin(b) <= first[s] /\ first[s] < EidEnd(b)
        /\ first[s] < f[b][i].hi
        /\ f[b][i].hi \in Nat
        /\ first[s] = f[b][i].lo
    BY <2>1, <2>2, <2>4, <2>5, <2>6
  <2> QED
    BY <2>7 DEF b, i
<1>4. first \in Injection(0 .. g - 1, 0 .. NE - 1)
  <2>1. first \in [0 .. g - 1 -> 0 .. NE - 1]
    <3>1. ASSUME NEW s \in 0 .. g - 1 PROVE first[s] \in 0 .. NE - 1
      <4> HIDE DEF first
      <4>1. owner[s] \in Blocks /\ first[s] \in Nat /\ first[s] < EidEnd(owner[s])
        BY <1>3
      <4>2. EidEnd(owner[s]) <= NE /\ EidEnd(owner[s]) \in Nat
        BY <4>1, BlockRange
      <4> QED
        BY <4>1, <4>2
    <3> QED
      BY <3>1
  <2> HIDE DEF first
  <2>2. ASSUME NEW r \in 0 .. g - 1, NEW s \in 0 .. g - 1, first[r] = first[s]
        PROVE  r = s
    <3>1. /\ owner[r] \in Blocks /\ owner[s] \in Blocks /\ owner[r] \in Nat /\ owner[s] \in Nat
          /\ first[s] \in Nat
          /\ EidBegin(owner[r]) <= first[r] /\ first[r] < EidEnd(owner[r])
          /\ EidBegin(owner[s]) <= first[s] /\ first[s] < EidEnd(owner[s])
      BY <1>3
    <3>2. /\ EidBegin(owner[r]) \in Nat /\ EidEnd(owner[r]) \in Nat
          /\ EidBegin(owner[s]) \in Nat /\ EidEnd(owner[s]) \in Nat
      BY <3>1, BlockRange
    <3>3. ~(owner[r] < owner[s]) /\ ~(owner[s] < owner[r])
      BY <3>1, <3>2, <2>2, BlocksApart
    <3>4. owner[r] = owner[s]
      <4>1. \A x, y \in Nat : ~(x < y) /\ ~(y < x) => x = y
        OBVIOUS
      <4> QED
        BY <3>1, <3>3, <4>1
    <3> DEFINE b == owner[r]
    <3> DEFINE i == r - bs[b]
    <3> DEFINE j == s - bs[b]
    <3>5. /\ b \in W /\ bs[b] \in Nat
          /\ i \in 0 .. n[b] - 1 /\ j \in 0 .. n[b] - 1
          /\ f[b][i].lo = f[b][j].lo
          /\ f[b][i].lo \in Nat /\ f[b][i].hi \in Nat /\ f[b][j].hi \in Nat
          /\ f[b][i].lo < f[b][i].hi /\ f[b][j].lo < f[b][j].hi
      BY <3>4, <1>3, <2>2
    <3>6. i = j
      <4> HIDE DEF i, j, b
      <4>1. i # j => f[b][i].hi <= f[b][j].lo \/ f[b][j].hi <= f[b][i].lo
        BY <3>5 DEF Partition
      <4> QED
        BY <4>1, <3>5
    <3> QED
      BY <3>5, <3>6
  <2> QED
    BY <2>1, <2>2 DEF Injection, IsInjective
<1> QED
  <2> HIDE DEF first
  <2> QED
    BY <1>4, IntervalInjection

(* Sorting the primitives keeps the partition. *)
LEMMA SortedPartition ==
  ASSUME NEW f \in [Slots -> Prim], NEW n \in 0 .. BlockSize, NEW lo \in Nat, NEW hi \in Nat,
         Partition(f, n, lo, hi), NEW s \in Sorted(f, n)
  PROVE  /\ s \in [Slots -> Prim]
         /\ Partition(s, n, lo, hi)
         /\ InOrder(s, n)
<1> USE BlockSizeAssumption
<1>1. PICK p \in Bijection(0 .. n - 1, 0 .. n - 1) :
        s = [i \in Slots |-> IF i < n THEN f[p[i]] ELSE f[i]]
  BY DEF Sorted
<1>2. InOrder(s, n)
  BY DEF Sorted, InOrder
<1>3. /\ p \in [0 .. n - 1 -> 0 .. n - 1]
      /\ \A i, j \in 0 .. n - 1 : p[i] = p[j] => i = j
      /\ \A k \in 0 .. n - 1 : \E i \in 0 .. n - 1 : p[i] = k
  BY DEF Bijection, Injection, Surjection, IsInjective
<1>4. s \in [Slots -> Prim]
  <2>1. ASSUME NEW i \in Slots PROVE (IF i < n THEN f[p[i]] ELSE f[i]) \in Prim
    <3>1. CASE i < n
      <4>1. i \in 0 .. n - 1
        BY <3>1 DEF Slots
      <4>2. p[i] \in 0 .. n - 1
        BY <4>1, <1>3
      <4>3. p[i] \in Slots
        BY <4>2 DEF Slots
      <4> QED
        BY <3>1, <4>3
    <3>2. CASE ~(i < n)
      BY <3>2
    <3> QED
      BY <3>1, <3>2
  <2> QED
    BY <1>1, <2>1
<1>5. \A i \in 0 .. n - 1 : p[i] \in 0 .. n - 1 /\ s[i] = f[p[i]]
  <2>1. \A i \in 0 .. n - 1 : i \in Slots /\ i < n
    BY DEF Slots
  <2> QED
    BY <1>1, <1>3, <2>1
<1>6. \A i \in 0 .. n - 1 :
        lo <= s[i].lo /\ s[i].lo < s[i].hi /\ s[i].hi <= hi /\ EdgesOf(s[i]) \subseteq s[i].box
  BY <1>5 DEF Partition
<1>7. \A i, j \in 0 .. n - 1 : i # j => s[i].hi <= s[j].lo \/ s[j].hi <= s[i].lo
  <2> SUFFICES ASSUME NEW i \in 0 .. n - 1, NEW j \in 0 .. n - 1, i # j
               PROVE  s[i].hi <= s[j].lo \/ s[j].hi <= s[i].lo
    OBVIOUS
  <2>1. /\ p[i] \in 0 .. n - 1 /\ p[j] \in 0 .. n - 1 /\ p[i] # p[j]
        /\ s[i] = f[p[i]] /\ s[j] = f[p[j]]
    BY <1>3, <1>5
  <2>2. f[p[i]].hi <= f[p[j]].lo \/ f[p[j]].hi <= f[p[i]].lo
    BY <2>1 DEF Partition
  <2> QED
    BY <2>1, <2>2
<1>8. \A e \in lo .. hi - 1 : \E i \in 0 .. n - 1 : s[i].lo <= e /\ e < s[i].hi
  <2> TAKE e \in lo .. hi - 1
  <2>1. PICK k \in 0 .. n - 1 : f[k].lo <= e /\ e < f[k].hi
    BY DEF Partition
  <2>2. PICK i \in 0 .. n - 1 : p[i] = k
    BY <1>3
  <2> QED
    BY <2>1, <2>2, <1>5
<1> QED
  BY <1>2, <1>4, <1>6, <1>7, <1>8 DEF Partition

(* What a thread stored: one of its inputs, or both of them merged. *)
LEMMA StoredRange ==
  ASSUME TypeOK, NEW b \in Blocks, BlockInv(b), phase[b] = "merge",
         NEW t \in Threads, arrived[b][t] = "yes",
         NEW s \in Nat, base[b][t] <= s, s < base[b][t] + cnt[b][t]
  PROVE  LET i == 2 * t + (s - base[b][t])
             j == IF cnt[b][t] = 1 /\ Paired(t, tailIn[b]) THEN i + 1 ELSE i
         IN  /\ i \in 0 .. tailIn[b] - 1
             /\ j \in 0 .. tailIn[b] - 1
             /\ i = 2 * t \/ cnt[b][t] = 2
             /\ out[b][s].lo = in[b][i].lo
             /\ out[b][s].hi = in[b][j].hi
             /\ out[b][s].box = in[b][i].box \cup in[b][j].box
             /\ j = i + 1 => i = 2 * t /\ in[b][i].hi = in[b][j].lo
<1> USE BlockSizeAssumption
<1> DEFINE i == 2 * t + (s - base[b][t])
<1> DEFINE j == IF cnt[b][t] = 1 /\ Paired(t, tailIn[b]) THEN i + 1 ELSE i
<1>1. /\ in[b] \in [Slots -> Prim] /\ tailIn[b] \in 0 .. BlockSize
      /\ base[b][t] \in Nat
      /\ t \in Nat
  BY SMTT(30) DEF TypeOK, Threads, Slots
<1>2. /\ cnt[b][t] \in {1, 2}
      /\ Busy(t, tailIn[b])
      /\ cnt[b][t] = 2 => Paired(t, tailIn[b])
  BY DEF BlockInv, DrawsFit, Started
<1>3. out[b][s] = Result(b, t, s - base[b][t])
  <2>1. s \in Drawn(b, t)
    BY <1>1, <1>2 DEF Drawn
  <2> QED
    BY <2>1 DEF BlockInv, Stored
<1>4. 2 * t < tailIn[b]
  BY <1>1, <1>2 DEF Busy
<1>5. CASE cnt[b][t] = 1 /\ Paired(t, tailIn[b])
  <2>1. i = 2 * t /\ j = i + 1 /\ s - base[b][t] = 0
    BY <1>1, <1>5
  <2>2. i \in 0 .. tailIn[b] - 1 /\ i + 1 < tailIn[b] /\ j \in 0 .. tailIn[b] - 1
    BY <2>1, <1>1, <1>5 DEF Paired
  <2>3. out[b][s] = Merge(in[b][i], in[b][j])
    <3> HIDE DEF i, j
    <3>1. out[b][s] = Merge(in[b][2 * t], in[b][2 * t + 1])
      BY <1>3, <1>5 DEF Result
    <3> QED
      BY <3>1, <2>1
  <2>4. in[b][i].hi = in[b][i + 1].lo
    <3> HIDE DEF i, j
    <3>1. /\ EidBegin(b) \in Nat /\ EidEnd(b) \in Nat
          /\ Partition(in[b], tailIn[b], EidBegin(b), EidEnd(b))
          /\ InOrder(in[b], tailIn[b])
      BY BlockRange DEF BlockInv
    <3> QED
      BY <3>1, <2>2, <1>1, Adjacent
  <2> QED
    <3> HIDE DEF i, j
    <3>1. /\ i \in 0 .. tailIn[b] - 1
          /\ j \in 0 .. tailIn[b] - 1
          /\ i = 2 * t \/ cnt[b][t] = 2
          /\ out[b][s].lo = in[b][i].lo
          /\ out[b][s].hi = in[b][j].hi
          /\ out[b][s].box = in[b][i].box \cup in[b][j].box
          /\ j = i + 1 => i = 2 * t /\ in[b][i].hi = in[b][j].lo
      BY <2>1, <2>2, <2>3, <2>4 DEF Merge
    <3> QED
      BY <3>1 DEF i, j
<1>6. CASE ~(cnt[b][t] = 1 /\ Paired(t, tailIn[b]))
  <2>1. j = i /\ i \in 0 .. tailIn[b] - 1 /\ (i = 2 * t \/ cnt[b][t] = 2)
    BY <1>1, <1>2, <1>4, <1>6 DEF Paired
  <2>2. out[b][s] = in[b][i]
    BY <1>3, <1>6 DEF Result
  <2> QED
    <3> HIDE DEF i, j
    <3>1. j # i + 1
      BY <2>1
    <3>2. /\ i \in 0 .. tailIn[b] - 1
          /\ j \in 0 .. tailIn[b] - 1
          /\ i = 2 * t \/ cnt[b][t] = 2
          /\ out[b][s].lo = in[b][i].lo
          /\ out[b][s].hi = in[b][j].hi
          /\ out[b][s].box = in[b][i].box \cup in[b][j].box
          /\ j = i + 1 => i = 2 * t /\ in[b][i].hi = in[b][j].lo
      BY <2>1, <2>2, <3>1
    <3> QED
      BY <3>2 DEF i, j
<1> QED
  BY <1>5, <1>6

(* Of two ranges in order, the first ends before the second begins. *)
LEMMA OrderedApart ==
  ASSUME NEW f \in [Slots -> Prim], NEW n \in 0 .. BlockSize, NEW lo, NEW hi,
         Partition(f, n, lo, hi), InOrder(f, n),
         NEW x \in 0 .. n - 1, NEW y \in 0 .. n - 1, x < y
  PROVE  f[x].hi <= f[y].lo
<1> USE BlockSizeAssumption
<1>1. /\ f[x].lo \in Nat /\ f[x].hi \in Nat
      /\ f[y].lo \in Nat /\ f[y].hi \in Nat
  BY DEF Slots, Prim
<1>2. f[x].lo <= f[y].lo /\ f[y].lo < f[y].hi
  BY DEF Partition, InOrder
<1>3. f[x].hi <= f[y].lo \/ f[y].hi <= f[x].lo
  BY DEF Partition
<1> QED
  BY <1>1, <1>2, <1>3

(* Slot s holds what thread t made of its inputs i to j. *)
Made(b, s, t, i, j) ==
  /\ base[b][t] <= s /\ s < base[b][t] + cnt[b][t]
  /\ i \in 0 .. tailIn[b] - 1
  /\ j \in 0 .. tailIn[b] - 1
  /\ i = 2 * t + (s - base[b][t])
  /\ j = IF cnt[b][t] = 1 /\ Paired(t, tailIn[b]) THEN i + 1 ELSE i
  /\ i = 2 * t \/ cnt[b][t] = 2
  /\ out[b][s].lo = in[b][i].lo
  /\ out[b][s].hi = in[b][j].hi
  /\ out[b][s].box = in[b][i].box \cup in[b][j].box
  /\ j = i + 1 => i = 2 * t /\ in[b][i].hi = in[b][j].lo

(* Where the inputs of an output come from. *)
LEMMA MadeFrom ==
  ASSUME NEW b, NEW t \in Nat, NEW s \in Nat, NEW i, NEW j, Made(b, s, t, i, j),
         base[b][t] \in Nat, cnt[b][t] \in {1, 2}
  PROVE  /\ 2 * t <= i /\ j <= 2 * t + 1
         /\ cnt[b][t] = 2 => j = i /\ i = 2 * t + (s - base[b][t])
         /\ cnt[b][t] = 1 => i = 2 * t
<1>1. PICK p \in Nat, c \in {1, 2}, q \in BOOLEAN :
        p = base[b][t] /\ c = cnt[b][t] /\ (q <=> Paired(t, tailIn[b]))
  OBVIOUS
<1>2. /\ p <= s /\ s < p + c
      /\ i = 2 * t + (s - p)
      /\ j = IF c = 1 /\ q THEN i + 1 ELSE i
      /\ i = 2 * t \/ c = 2
  BY <1>1 DEF Made
<1>3. 2 * t <= i /\ j <= 2 * t + 1
  BY <1>2
<1>4. (c = 2 => j = i) /\ (c = 1 => i = 2 * t)
  BY <1>2
<1> QED
  BY <1>1, <1>2, <1>3, <1>4

(* At the end of a round every output slot was made by a thread that started. *)
LEMMA EverySlotMade ==
  ASSUME TypeOK, NEW b \in Blocks, BlockInv(b), phase[b] = "merge", AllArrived(b)
  PROVE  /\ \A t \in Started(b) : arrived[b][t] = "yes" /\ t \in Threads
         /\ \A s \in 0 .. tailOut[b] - 1 : \E t \in Started(b) :
              \E i, j \in 0 .. tailIn[b] - 1 : Made(b, s, t, i, j)
         /\ \A t \in Started(b) : \A s \in Nat :
              base[b][t] <= s /\ s < base[b][t] + cnt[b][t] =>
                 s < tailOut[b] /\ \E i, j \in 0 .. tailIn[b] - 1 : Made(b, s, t, i, j)
<1> USE BlockSizeAssumption
<1>1. DrawsFit(Started(b), base[b], cnt[b], tailIn[b], tailOut[b])
  BY DEF BlockInv
<1>2. \A t \in Started(b) : arrived[b][t] = "yes" /\ t \in Threads
  BY <1>1 DEF DrawsFit, AllArrived, Started
<1>3. ASSUME NEW t \in Started(b), NEW s \in Nat, base[b][t] <= s, s < base[b][t] + cnt[b][t]
      PROVE  s < tailOut[b] /\ \E i, j \in 0 .. tailIn[b] - 1 : Made(b, s, t, i, j)
  <2> DEFINE i == 2 * t + (s - base[b][t])
  <2> DEFINE j == IF cnt[b][t] = 1 /\ Paired(t, tailIn[b]) THEN i + 1 ELSE i
  <2>1. t \in Threads /\ arrived[b][t] = "yes"
    BY <1>2
  <2>2. /\ i \in 0 .. tailIn[b] - 1
        /\ j \in 0 .. tailIn[b] - 1
        /\ i = 2 * t \/ cnt[b][t] = 2
        /\ out[b][s].lo = in[b][i].lo
        /\ out[b][s].hi = in[b][j].hi
        /\ out[b][s].box = in[b][i].box \cup in[b][j].box
        /\ j = i + 1 => i = 2 * t /\ in[b][i].hi = in[b][j].lo
    BY ZenonT(60), <1>3, <2>1, StoredRange
  <2>3. Made(b, s, t, i, j)
    BY <1>3, <2>2 DEF Made
  <2>4. s < tailOut[b]
    <3>1. base[b][t] \in Nat /\ tailOut[b] \in Nat
      BY <2>1 DEF TypeOK, Slots
    <3>2. cnt[b][t] \in {1, 2} /\ base[b][t] + cnt[b][t] <= tailOut[b]
      BY <1>1 DEF DrawsFit
    <3> QED
      BY <3>1, <3>2, <1>3
  <2> HIDE DEF i, j
  <2> QED
    BY <2>2, <2>3, <2>4
<1>4. ASSUME NEW s \in 0 .. tailOut[b] - 1
      PROVE  \E t \in Started(b) : \E i, j \in 0 .. tailIn[b] - 1 : Made(b, s, t, i, j)
  <2>1. PICK t \in Started(b) : base[b][t] <= s /\ s < base[b][t] + cnt[b][t]
    BY <1>1 DEF DrawsFit
  <2>2. s \in Nat
    BY DEF TypeOK
  <2> QED
    BY <2>1, <2>2, <1>3
<1> QED
  BY <1>2, <1>3, <1>4

(* A merge round turns a partition into a partition of no more primitives. *)
LEMMA RoundPartition ==
  ASSUME TypeOK, NEW b \in Blocks, BlockInv(b), phase[b] = "merge", AllArrived(b)
  PROVE  /\ tailOut[b] \in 0 .. tailIn[b]
         /\ Partition(out[b], tailOut[b], EidBegin(b), EidEnd(b))
<1> USE BlockSizeAssumption
<1> DEFINE n == tailIn[b]
<1> DEFINE k == tailOut[b]
<1> DEFINE f == in[b]
<1> DEFINE g == out[b]
<1> DEFINE lo == EidBegin(b)
<1> DEFINE hi == EidEnd(b)
<1>1. /\ n \in 0 .. BlockSize /\ k \in Nat
      /\ f \in [Slots -> Prim]
      /\ base[b] \in [Threads -> Nat] /\ cnt[b] \in [Threads -> 0 .. 2]
  BY DEF TypeOK, Slots
<1>2. lo \in Nat /\ hi \in Nat
  BY BlockRange
<1>3. DrawsFit(Started(b), base[b], cnt[b], n, k) /\ Partition(f, n, lo, hi) /\ InOrder(f, n)
  BY DEF BlockInv
<1>4. k <= n
  BY <1>1, <1>3, DrawBound DEF Started
<1>5. \A x \in 0 .. n - 1 :
        /\ f[x].lo \in Nat /\ f[x].hi \in Nat
        /\ lo <= f[x].lo /\ f[x].lo < f[x].hi /\ f[x].hi <= hi
        /\ EdgesOf(f[x]) \subseteq f[x].box
  <2>1. \A x \in 0 .. n - 1 : f[x] \in Prim
    BY <1>1 DEF Slots
  <2>2. \A x \in 0 .. n - 1 : f[x].lo \in Nat /\ f[x].hi \in Nat
    BY <2>1 DEF Prim
  <2> QED
    BY <2>2, <1>3 DEF Partition
<1>6. \A s \in 0 .. k - 1 : \E t \in Started(b) : \E i, j \in 0 .. n - 1 : Made(b, s, t, i, j)
  BY EverySlotMade
<1>7. \A t \in Started(b) : t \in Threads /\ t \in Nat /\ base[b][t] \in Nat /\ cnt[b][t] \in {1, 2}
  BY <1>1, <1>3 DEF Started, Threads, DrawsFit
<1>8. ASSUME NEW s \in 0 .. k - 1
      PROVE  lo <= g[s].lo /\ g[s].lo < g[s].hi /\ g[s].hi <= hi /\ EdgesOf(g[s]) \subseteq g[s].box
  <2>1. PICK t \in Started(b), i \in 0 .. n - 1, j \in 0 .. n - 1 : Made(b, s, t, i, j)
    BY <1>6
  <2>2. /\ g[s].lo = f[i].lo /\ g[s].hi = f[j].hi /\ g[s].box = f[i].box \cup f[j].box
        /\ j = i \/ (j = i + 1 /\ f[i].hi = f[j].lo)
    BY <2>1 DEF Made
  <2> HIDE DEF f, g, n, k
  <2>3. /\ f[i].lo \in Nat /\ f[i].hi \in Nat /\ f[j].lo \in Nat /\ f[j].hi \in Nat
        /\ lo <= f[i].lo /\ f[i].lo < f[i].hi /\ f[j].lo < f[j].hi /\ f[j].hi <= hi
        /\ EdgesOf(f[i]) \subseteq f[i].box /\ EdgesOf(f[j]) \subseteq f[j].box
    BY <1>5
  <2>4. g[s].lo < g[s].hi
    BY <2>2, <2>3
  <2>5. EdgesOf(g[s]) \subseteq EdgesOf(f[i]) \cup EdgesOf(f[j])
    BY <2>2, <2>3 DEF EdgesOf
  <2> QED
    BY <2>2, <2>3, <2>4, <2>5
<1>9. ASSUME NEW r \in 0 .. k - 1, NEW s \in 0 .. k - 1, r # s
      PROVE  g[r].hi <= g[s].lo \/ g[s].hi <= g[r].lo
  <2>1. PICK t \in Started(b), i \in 0 .. n - 1, j \in 0 .. n - 1 : Made(b, r, t, i, j)
    BY <1>6
  <2>2. PICK u \in Started(b), x \in 0 .. n - 1, y \in 0 .. n - 1 : Made(b, s, u, x, y)
    BY <1>6
  <2>3. /\ g[r].lo = f[i].lo /\ g[r].hi = f[j].hi
        /\ g[s].lo = f[x].lo /\ g[s].hi = f[y].hi
    BY <2>1, <2>2 DEF Made
  <2>4. j < x \/ y < i
    <3>1. CASE t = u
      <4>1. cnt[b][t] = 2
        <5>1. /\ base[b][t] <= r /\ r < base[b][t] + cnt[b][t]
              /\ base[b][t] <= s /\ s < base[b][t] + cnt[b][t]
          BY <3>1, <2>1, <2>2 DEF Made
        <5> QED
          BY <5>1, <1>7, <1>9
      <4>2. /\ j = i /\ y = x
            /\ i = 2 * t + (r - base[b][t]) /\ x = 2 * t + (s - base[b][t])
        <5>1. j = i /\ i = 2 * t + (r - base[b][t])
          BY <4>1, <2>1 DEF Made
        <5>2. y = x /\ x = 2 * u + (s - base[b][u])
          BY <4>1, <3>1, <2>2, <1>1, <1>7, MadeFrom
        <5> QED
          BY <5>1, <5>2, <3>1
      <4>3. base[b][t] \in Nat /\ t \in Nat /\ r \in Nat /\ s \in Nat
        BY <1>1, <1>7
      <4> QED
        BY <4>2, <4>3, <1>9
    <3>2. CASE t # u
      <4>1. 2 * t <= i /\ j <= 2 * t + 1
        BY <2>1, <1>1, <1>7, MadeFrom
      <4>2. 2 * u <= x /\ y <= 2 * u + 1
        BY <2>2, <1>1, <1>7, MadeFrom
      <4>3. t \in Nat /\ u \in Nat
        BY <1>7
      <4> QED
        BY <4>1, <4>2, <4>3, <3>2
    <3> QED
      BY <3>1, <3>2
  <2> HIDE DEF f, g, n, k
  <2>5. CASE j < x
    BY <2>3, <2>5, <1>1, <1>3, OrderedApart
  <2>6. CASE y < i
    BY <2>3, <2>6, <1>1, <1>3, OrderedApart
  <2> QED
    BY <2>4, <2>5, <2>6
<1>10. ASSUME NEW e \in lo .. hi - 1
       PROVE  \E s \in 0 .. k - 1 : g[s].lo <= e /\ e < g[s].hi
  <2>1. PICK m \in 0 .. n - 1 : f[m].lo <= e /\ e < f[m].hi
    BY <1>3 DEF Partition
  <2> DEFINE t == m \div 2
  <2>2. t \in Nat /\ (m = 2 * t \/ m = 2 * t + 1)
    OBVIOUS
  <2> HIDE DEF t
  <2>3. t \in Threads /\ Busy(t, n)
    BY SMTT(30), <2>2, <1>1 DEF Threads, Busy
  <2>4. t \in Started(b)
    BY <2>3 DEF AllArrived, Started
  <2> DEFINE s == IF cnt[b][t] = 2 THEN base[b][t] + (m - 2 * t) ELSE base[b][t]
  <2>5. s \in Nat /\ base[b][t] <= s /\ s < base[b][t] + cnt[b][t]
    BY <2>2, <2>4, <1>7
  <2> HIDE DEF s
  <2>6. s \in 0 .. k - 1 /\ \E i, j \in 0 .. n - 1 : Made(b, s, t, i, j)
    <3>1. s < k /\ \E i, j \in 0 .. n - 1 : Made(b, s, t, i, j)
      BY <2>4, <2>5, EverySlotMade
    <3> QED
      BY <3>1, <2>5, <1>1
  <2>7. PICK i \in 0 .. n - 1, j \in 0 .. n - 1 : Made(b, s, t, i, j)
    BY <2>6
  <2>8. m = i \/ m = j
    <3>1. CASE cnt[b][t] = 2
      <4>1. i = 2 * t + (s - base[b][t])
        BY <2>7 DEF Made
      <4>2. s = base[b][t] + (m - 2 * t)
        BY <3>1 DEF s
      <4> QED
        BY <4>1, <4>2, <1>7, <2>2, <2>4
    <3>2. CASE cnt[b][t] = 1
      <4>1. s = base[b][t] /\ base[b][t] \in Nat
        BY <3>2, <2>4, <1>7 DEF s
      <4>2. i = 2 * t
        BY <3>2, <2>4, <2>5, <2>7, <1>7, MadeFrom
      <4>3. CASE Paired(t, n)
        BY <4>2, <4>3, <3>2, <2>2, <2>7 DEF Made
      <4>4. CASE ~Paired(t, n)
        BY <4>2, <4>4, <2>2, <1>1 DEF Paired
      <4> QED
        BY <4>3, <4>4
    <3> QED
      BY <3>1, <3>2, <2>4, <1>7
  <2>9. /\ g[s].lo = f[i].lo /\ g[s].hi = f[j].hi
        /\ j = i \/ (j = i + 1 /\ f[i].hi = f[j].lo)
    BY <2>7 DEF Made
  <2> HIDE DEF f, g, n, k
  <2>10. /\ f[i].lo \in Nat /\ f[i].hi \in Nat /\ f[j].lo \in Nat /\ f[j].hi \in Nat
         /\ f[i].lo < f[i].hi /\ f[j].lo < f[j].hi
    BY <1>5
  <2>11. e \in Nat
    BY <1>2
  <2>12. g[s].lo <= e /\ e < g[s].hi
    BY <2>1, <2>8, <2>9, <2>10, <2>11
  <2> QED
    BY <2>6, <2>12
<1> QED
  <2>1. Partition(g, k, lo, hi)
    <3> HIDE DEF f, g, n, k, lo, hi
    <3> QED
      BY <1>8, <1>9, <1>10 DEF Partition
  <2> QED
    BY <2>1, <1>1, <1>4

-----------------------------------------------------------------------------
(* Drawing one or two more slots keeps the slots drawn without gap or overlap. *)
LEMMA DrawMore ==
  ASSUME NEW A \in SUBSET Threads, NEW bs \in [Threads -> Nat], NEW c \in [Threads -> 0 .. 2],
         NEW n \in Nat, NEW k \in Nat, DrawsFit(A, bs, c, n, k),
         NEW t \in Threads, t \notin A, Busy(t, n),
         NEW m \in {1, 2}, m = 2 => Paired(t, n)
  PROVE  DrawsFit(A \cup {t}, [bs EXCEPT ![t] = k], [c EXCEPT ![t] = m], n, k + m)
<1> DEFINE B == A \cup {t}
<1> DEFINE bb == [bs EXCEPT ![t] = k]
<1> DEFINE cc == [c EXCEPT ![t] = m]
<1>1. /\ bb[t] = k /\ cc[t] = m
      /\ \A u \in A : u # t /\ bb[u] = bs[u] /\ cc[u] = c[u]
  OBVIOUS
<1>2. \A u \in A : /\ Busy(u, n)
                   /\ c[u] \in {1, 2}
                   /\ c[u] = 2 => Paired(u, n)
                   /\ bs[u] + c[u] <= k
                   /\ bs[u] \in Nat
  BY DEF DrawsFit
<1> HIDE DEF bb, cc
<1>3. \A u \in B : /\ Busy(u, n)
                   /\ cc[u] \in {1, 2}
                   /\ cc[u] = 2 => Paired(u, n)
                   /\ bb[u] + cc[u] <= k + m
  <2> TAKE u \in B
  <2>1. CASE u = t
    BY <2>1, <1>1
  <2>2. CASE u \in A
    BY <2>2, <1>1, <1>2
  <2> QED
    BY <2>1, <2>2
<1>4. \A u, v \in B : u # v => bb[u] + cc[u] <= bb[v] \/ bb[v] + cc[v] <= bb[u]
  <2> SUFFICES ASSUME NEW u \in B, NEW v \in B, u # v
               PROVE  bb[u] + cc[u] <= bb[v] \/ bb[v] + cc[v] <= bb[u]
    OBVIOUS
  <2>1. CASE u = t
    BY <2>1, <1>1, <1>2
  <2>2. CASE v = t
    BY <2>2, <1>1, <1>2
  <2>3. CASE u \in A /\ v \in A
    BY <2>3, <1>1 DEF DrawsFit
  <2> QED
    BY <2>1, <2>2, <2>3
<1>5. \A s \in 0 .. k + m - 1 : \E u \in B : bb[u] <= s /\ s < bb[u] + cc[u]
  <2> TAKE s \in 0 .. k + m - 1
  <2>1. CASE s < k
    <3>1. s \in 0 .. k - 1
      BY <2>1
    <3>2. PICK u \in A : bs[u] <= s /\ s < bs[u] + c[u]
      BY <3>1 DEF DrawsFit
    <3> QED
      BY <3>2, <1>1
  <2>2. CASE k <= s
    BY <2>2, <1>1
  <2> QED
    BY <2>1, <2>2
<1> QED
  <2> HIDE DEF B
  <2>1. DrawsFit(B, bb, cc, n, k + m)
    BY <1>3, <1>4, <1>5 DEF DrawsFit
  <2> QED
    BY <2>1 DEF B, bb, cc

(* What a step of another block leaves alone. *)
SameBlock(c) ==
  /\ phase'[c] = phase[c]
  /\ arrived'[c] = arrived[c]
  /\ iter'[c] = iter[c]
  /\ in'[c] = in[c]
  /\ out'[c] = out[c]
  /\ tailIn'[c] = tailIn[c]
  /\ tailOut'[c] = tailOut[c]
  /\ base'[c] = base[c]
  /\ cnt'[c] = cnt[c]

(* The invariant of a block depends on nothing but the block. *)
LEMMA OtherBlock ==
  ASSUME NEW c \in Blocks, BlockInv(c), SameBlock(c)
  PROVE  BlockInv(c)'
<1>1. Started(c)' = Started(c)
  BY DEF SameBlock, Started
<1>2. Stored(c)' = Stored(c)
  BY DEF SameBlock, Stored, Drawn, Result, Paired, Merge
<1>3. EidBegin(c)' = EidBegin(c) /\ EidEnd(c)' = EidEnd(c)
  BY DEF EidBegin, EidEnd, Smaller
<1> QED
  BY <1>1, <1>2, <1>3 DEF BlockInv, SameBlock, Partition, InOrder, DrawsFit, EdgesOf, Busy, Paired

(* A step inside a block that does not write leaves the global array as it was. *)
LEMMA LocalStep ==
  ASSUME Inv, NEW b \in Blocks, TypeOK', BlockInv(b)',
         phase[b] # "write", phase'[b] # "write",
         \A c \in Blocks : c # b => SameBlock(c),
         UNCHANGED <<gTail, gPrims, nPrims>>
  PROVE  Inv'
<1>1. \A c \in Blocks : BlockInv(c)'
  <2> TAKE c \in Blocks
  <2>1. CASE c = b
    BY <2>1
  <2>2. CASE c # b
    BY <2>2, OtherBlock DEF Inv
  <2> QED
    BY <2>1, <2>2
<1>2. Writing' = Writing /\ \A c \in Writing : c \in Blocks /\ SameBlock(c)
  BY DEF Writing, SameBlock
<1>3. ~(nPrims > 0)
  BY DEF Inv, GlobalInv, BlockDone
<1>4. GlobalInv'
  <2>1. \A c \in Writing' : tailOut'[c] + tailIn'[c] <= gTail'
    BY <1>2 DEF Inv, GlobalInv, SameBlock
  <2>2. \A c, d \in Writing' : c # d =>
          tailOut'[c] + tailIn'[c] <= tailOut'[d] \/ tailOut'[d] + tailIn'[d] <= tailOut'[c]
    BY <1>2 DEF Inv, GlobalInv, SameBlock
  <2>3. \A g \in 0 .. gTail' - 1 : \E c \in Writing' :
          tailOut'[c] <= g /\ g < tailOut'[c] + tailIn'[c]
    BY <1>2 DEF Inv, GlobalInv, SameBlock
  <2>4. \A c \in Writing' : \A t \in Threads :
          arrived'[c][t] = "yes" => t < tailIn'[c] /\ gPrims'[tailOut'[c] + t] = in'[c][t]
    BY <1>2 DEF Inv, GlobalInv, SameBlock
  <2>5. ~(nPrims' > 0)
    BY <1>3
  <2> QED
    BY <2>1, <2>2, <2>3, <2>4, <2>5 DEF GlobalInv
<1> QED
  BY <1>1, <1>4 DEF Inv

-----------------------------------------------------------------------------
(* Before the kernel starts the invariant holds. *)
LEMMA InitInv == Init => Inv
<1> SUFFICES ASSUME Init PROVE Inv
  OBVIOUS
<1> USE NEAssumption, BlockSizeAssumption, MaxIterAssumption DEF Init
<1>1. Blank \in Prim
  BY DEF Blank, Prim
<1>2. TypeOK
  <2>1. 0 \in Slots /\ 0 \in 0 .. NE /\ 0 \in 0 .. MaxIter /\ 0 \in 0 .. BlockSize
    BY DEF Slots
  <2> QED
    BY <1>1, <2>1 DEF TypeOK
<1>3. \A b \in Blocks : BlockInv(b)
  BY DEF BlockInv
<1>4. GlobalInv
  BY DEF GlobalInv, Writing
<1> QED
  BY <1>2, <1>3, <1>4 DEF Inv

(* A block that loads its edges starts from singletons in order. *)
LEMMA LoadStep ==
  ASSUME Inv, NEW b \in Blocks, Load(b)
  PROVE  Inv'
<1> USE NEAssumption, BlockSizeAssumption, MaxIterAssumption
<1> DEFINE lo == EidBegin(b)
<1> DEFINE hi == EidEnd(b)
<1> DEFINE f == [s \in Slots |-> IF lo + s < hi THEN Single(lo + s) ELSE Blank]
<1>1. /\ lo \in Nat /\ hi \in Nat /\ lo < hi /\ hi <= NE
      /\ hi - lo \in 0 .. BlockSize
  BY BlockRange
<1>2. TypeOK /\ BlockInv(b) /\ phase[b] = "load"
  BY DEF Inv, Load
<1> HIDE DEF lo, hi
<1>3. f \in [Slots -> Prim]
  <2>1. ASSUME NEW s \in Slots
        PROVE  (IF lo + s < hi THEN Single(lo + s) ELSE Blank) \in Prim
    <3>1. CASE lo + s < hi
      <4>1. lo + s \in Edges /\ lo + s \in 0 .. NE /\ lo + s + 1 \in 0 .. NE
        BY <3>1, <1>1 DEF Slots, Edges
      <4> QED
        BY <3>1, <4>1 DEF Single, Prim
    <3>2. CASE ~(lo + s < hi)
      BY <3>2 DEF Blank, Prim
    <3> QED
      BY <3>1, <3>2
  <2> QED
    BY <2>1
<1>4. \A i \in 0 .. hi - lo - 1 : f[i] = Single(lo + i)
  <2>1. \A i \in 0 .. hi - lo - 1 : i \in Slots /\ lo + i < hi
    BY <1>1 DEF Slots
  <2> QED
    BY <2>1
<1> HIDE DEF f
<1>5. \A i \in 0 .. hi - lo - 1 : f[i].lo = lo + i /\ f[i].hi = lo + i + 1 /\ f[i].box = {lo + i}
  <2>1. \A e : Single(e).lo = e /\ Single(e).hi = e + 1 /\ Single(e).box = {e}
    BY DEF Single
  <2> QED
    BY <1>4, <2>1
<1>6. Partition(f, hi - lo, lo, hi)
  <2>1. \A i \in 0 .. hi - lo - 1 :
          lo <= f[i].lo /\ f[i].lo < f[i].hi /\ f[i].hi <= hi /\ EdgesOf(f[i]) \subseteq f[i].box
    <3> TAKE i \in 0 .. hi - lo - 1
    <3>1. EdgesOf(f[i]) \subseteq f[i].box
      BY <1>1, <1>5 DEF EdgesOf
    <3> QED
      BY <3>1, <1>1, <1>5
  <2>2. \A i, j \in 0 .. hi - lo - 1 : i # j => f[i].hi <= f[j].lo \/ f[j].hi <= f[i].lo
    BY <1>1, <1>5
  <2>3. \A e \in lo .. hi - 1 : \E i \in 0 .. hi - lo - 1 : f[i].lo <= e /\ e < f[i].hi
    <3> TAKE e \in lo .. hi - 1
    <3>1. e - lo \in 0 .. hi - lo - 1 /\ f[e - lo].lo <= e /\ e < f[e - lo].hi
      BY <1>1, <1>5
    <3> QED
      BY <3>1
  <2> QED
    BY <2>1, <2>2, <2>3 DEF Partition
<1>7. InOrder(f, hi - lo)
  BY <1>1, <1>5 DEF InOrder
<1>8. /\ in' = [in EXCEPT ![b] = f]
      /\ tailIn' = [tailIn EXCEPT ![b] = hi - lo]
      /\ phase' = [phase EXCEPT ![b] = IF MaxIter = 0 THEN "reserve" ELSE "merge"]
      /\ UNCHANGED <<arrived, iter, out, tailOut, base, cnt, gTail, gPrims, nPrims>>
  BY DEF Load, f, lo, hi
<1>9. TypeOK'
  BY <1>1, <1>2, <1>3, <1>8 DEF TypeOK
<1>10. /\ in'[b] = f /\ tailIn'[b] = hi - lo
       /\ phase'[b] = IF MaxIter = 0 THEN "reserve" ELSE "merge"
       /\ arrived'[b] = arrived[b] /\ iter'[b] = 0 /\ tailOut'[b] = 0
       /\ \A t \in Threads : arrived'[b][t] = "no"
  BY <1>2, <1>8 DEF TypeOK, BlockInv
<1>11. BlockInv(b)'
  <2>1. Started(b)' = {}
    BY <1>10 DEF Started
  <2>2. Stored(b)'
    BY <1>10 DEF Stored
  <2>3. DrawsFit({}, base'[b], cnt'[b], tailIn'[b], 0)
    BY DEF DrawsFit
  <2>4. Partition(in'[b], tailIn'[b], EidBegin(b), EidEnd(b))
    BY <1>6, <1>10 DEF lo, hi
  <2>5. phase'[b] = "merge" => iter'[b] < MaxIter
    BY <1>10
  <2>6. phase'[b] # "load"
    BY <1>10
  <2>7. InOrder(in'[b], tailIn'[b])
    BY <1>7, <1>10
  <2>8. DrawsFit(Started(b)', base'[b], cnt'[b], tailIn'[b], tailOut'[b])
    BY <2>1, <2>3, <1>10
  <2> QED
    BY <1>10, <2>2, <2>4, <2>5, <2>6, <2>7, <2>8 DEF BlockInv
<1>12. \A c \in Blocks : c # b => SameBlock(c)
  BY <1>2, <1>8 DEF TypeOK, SameBlock
<1> QED
  BY <1>2, <1>8, <1>9, <1>10, <1>11, <1>12, LocalStep

(* Drawing slots keeps the invariant: the slots drawn never exceed the inputs. *)
LEMMA DrawStep ==
  ASSUME Inv, NEW b \in Blocks, NEW t \in Threads, Draw(b, t)
  PROVE  Inv'
<1> USE NEAssumption, BlockSizeAssumption, MaxIterAssumption
<1>1. /\ TypeOK /\ BlockInv(b)
      /\ phase[b] = "merge" /\ arrived[b][t] = "no" /\ Busy(t, tailIn[b])
  BY DEF Inv, Draw
<1>2. PICK m \in IF Paired(t, tailIn[b]) THEN {1, 2} ELSE {1} :
        /\ cnt' = [cnt EXCEPT ![b][t] = m]
        /\ tailOut' = [tailOut EXCEPT ![b] = @ + m]
  BY DEF Draw
<1>3. m \in {1, 2} /\ (m = 2 => Paired(t, tailIn[b]))
  BY <1>2
<1>4. /\ base' = [base EXCEPT ![b][t] = tailOut[b]]
      /\ arrived' = [arrived EXCEPT ![b][t] = "drawn"]
      /\ UNCHANGED <<phase, iter, in, out, tailIn, gTail, gPrims, nPrims>>
  BY DEF Draw
<1>5. /\ base[b] \in [Threads -> Slots] /\ base[b] \in [Threads -> Nat]
      /\ cnt[b] \in [Threads -> 0 .. 2]
      /\ arrived[b] \in [Threads -> {"no", "drawn", "yes"}]
      /\ tailIn[b] \in 0 .. BlockSize /\ tailOut[b] \in Nat
  BY <1>1 DEF TypeOK, Slots
<1>6. /\ base'[b] = [base[b] EXCEPT ![t] = tailOut[b]]
      /\ cnt'[b] = [cnt[b] EXCEPT ![t] = m]
      /\ arrived'[b] = [arrived[b] EXCEPT ![t] = "drawn"]
      /\ tailOut'[b] = tailOut[b] + m
  BY <1>1, <1>2, <1>4 DEF TypeOK
<1>7. Started(b)' = Started(b) \cup {t}
  BY <1>5, <1>6 DEF Started
<1>8. DrawsFit(Started(b)', base'[b], cnt'[b], tailIn[b], tailOut'[b])
  <2>1. DrawsFit(Started(b), base[b], cnt[b], tailIn[b], tailOut[b])
    BY <1>1 DEF BlockInv
  <2>2. Started(b) \in SUBSET Threads /\ t \notin Started(b)
    BY <1>1 DEF Started
  <2>3. DrawsFit(Started(b) \cup {t}, [base[b] EXCEPT ![t] = tailOut[b]], [cnt[b] EXCEPT ![t] = m],
                 tailIn[b], tailOut[b] + m)
    <3> DEFINE A == Started(b)
    <3> DEFINE bs == base[b]
    <3> DEFINE c == cnt[b]
    <3> DEFINE n == tailIn[b]
    <3> DEFINE k == tailOut[b]
    <3>1. /\ A \in SUBSET Threads /\ bs \in [Threads -> Nat] /\ c \in [Threads -> 0 .. 2]
          /\ n \in Nat /\ k \in Nat /\ DrawsFit(A, bs, c, n, k)
          /\ t \in Threads /\ t \notin A /\ Busy(t, n)
          /\ m \in {1, 2} /\ (m = 2 => Paired(t, n))
      BY <1>1, <1>3, <1>5, <2>1, <2>2
    <3> HIDE DEF A, bs, c, n, k
    <3>2. DrawsFit(A \cup {t}, [bs EXCEPT ![t] = k], [c EXCEPT ![t] = m], n, k + m)
      BY <3>1, DrawMore
    <3> QED
      BY <3>2 DEF A, bs, c, n, k
  <2> QED
    BY <1>6, <1>7, <2>3
<1>9. tailOut[b] \in Slots
  <2>1. /\ Started(b)' \in SUBSET Threads
        /\ base'[b] \in [Threads -> Nat]
        /\ cnt'[b] \in [Threads -> 0 .. 2]
        /\ tailOut'[b] \in Nat
    BY <1>3, <1>5, <1>6, <1>7 DEF Started
  <2>2. tailOut'[b] <= tailIn[b]
    BY <1>5, <1>8, <2>1, DrawBound
  <2> QED
    BY <1>3, <1>5, <1>6, <2>2 DEF Slots
<1>10. TypeOK'
  <2>1. base' \in [Blocks -> [Threads -> Slots]]
    BY <1>1, <1>4, <1>9 DEF TypeOK
  <2>2. cnt' \in [Blocks -> [Threads -> 0 .. 2]]
    BY <1>1, <1>2, <1>3 DEF TypeOK
  <2>3. tailOut' \in [Blocks -> Nat]
    BY <1>1, <1>2, <1>3 DEF TypeOK
  <2>4. arrived' \in [Blocks -> [Threads -> {"no", "drawn", "yes"}]]
    BY <1>1, <1>4 DEF TypeOK
  <2> QED
    BY <1>1, <1>4, <2>1, <2>2, <2>3, <2>4 DEF TypeOK
<1>11. Stored(b)'
  <2> SUFFICES ASSUME NEW u \in Threads, arrived'[b][u] = "yes", NEW s \in Drawn(b, u)'
               PROVE  out'[b][s] = Result(b, u, s - base[b][u])'
    BY DEF Stored
  <2>1. u # t /\ arrived[b][u] = "yes" /\ base'[b][u] = base[b][u] /\ cnt'[b][u] = cnt[b][u]
    BY <1>5, <1>6
  <2>2. s \in Drawn(b, u)
    BY <2>1 DEF Drawn
  <2>3. out[b][s] = Result(b, u, s - base[b][u])
    BY <1>1, <2>1, <2>2 DEF BlockInv, Stored
  <2> QED
    BY <1>4, <2>1, <2>3 DEF Result, Paired, Merge
<1>12. BlockInv(b)'
  <2>1. Partition(in'[b], tailIn'[b], EidBegin(b), EidEnd(b)) /\ InOrder(in'[b], tailIn'[b])
    BY <1>1, <1>4 DEF BlockInv
  <2>2. phase'[b] = "merge" /\ iter'[b] < MaxIter
    BY <1>1, <1>4 DEF BlockInv
  <2>3. DrawsFit(Started(b)', base'[b], cnt'[b], tailIn'[b], tailOut'[b])
    BY <1>4, <1>8
  <2> QED
    BY <1>11, <2>1, <2>2, <2>3 DEF BlockInv
<1>13. \A c \in Blocks : c # b => SameBlock(c)
  BY <1>1, <1>2, <1>4 DEF TypeOK, SameBlock
<1> QED
  BY <1>1, <1>4, <1>10, <1>12, <1>13, LocalStep

(* Storing keeps the invariant: no thread stores to a slot of another. *)
LEMMA StoreStep ==
  ASSUME Inv, NEW b \in Blocks, NEW t \in Threads, Store(b, t)
  PROVE  Inv'
<1> USE NEAssumption, BlockSizeAssumption, MaxIterAssumption
<1>1. TypeOK /\ BlockInv(b) /\ phase[b] = "merge" /\ arrived[b][t] = "drawn"
  BY DEF Inv, Store
<1>2. /\ out' = [out EXCEPT ![b] =
                   [s \in Slots |-> IF s \in Drawn(b, t)
                                    THEN Result(b, t, s - base[b][t]) ELSE @[s]]]
      /\ arrived' = [arrived EXCEPT ![b][t] = "yes"]
      /\ UNCHANGED <<phase, iter, in, tailIn, tailOut, base, cnt, gTail, gPrims, nPrims>>
  BY DEF Store
<1>3. /\ base[b] \in [Threads -> Slots] /\ base[b] \in [Threads -> Nat]
      /\ cnt[b] \in [Threads -> 0 .. 2]
      /\ arrived[b] \in [Threads -> {"no", "drawn", "yes"}]
      /\ tailIn[b] \in 0 .. BlockSize /\ tailOut[b] \in Nat
      /\ in[b] \in [Slots -> Prim] /\ out[b] \in [Slots -> Prim]
      /\ t \in Nat
  BY SMTT(30), <1>1 DEF TypeOK, Slots, Threads
<1>4. /\ out'[b] = [s \in Slots |-> IF s \in Drawn(b, t)
                                    THEN Result(b, t, s - base[b][t]) ELSE out[b][s]]
      /\ arrived'[b] = [arrived[b] EXCEPT ![t] = "yes"]
  BY <1>1, <1>2 DEF TypeOK
<1>5. DrawsFit(Started(b), base[b], cnt[b], tailIn[b], tailOut[b])
  BY <1>1 DEF BlockInv
<1>6. tailOut[b] <= BlockSize
  <2>1. tailOut[b] <= tailIn[b]
    BY <1>3, <1>5, DrawBound DEF Started
  <2> QED
    BY <1>3, <2>1
<1>7. Started(b)' = Started(b)
  BY <1>1, <1>3, <1>4 DEF Started
<1>8. ASSUME NEW u \in Started(b), NEW s \in Drawn(b, u)
      PROVE  s \in Slots /\ base[b][u] <= s /\ s < base[b][u] + cnt[b][u]
  <2>1. /\ u \in Threads /\ base[b][u] \in Nat /\ cnt[b][u] \in {1, 2}
        /\ base[b][u] + cnt[b][u] <= tailOut[b]
    BY <1>3, <1>5 DEF DrawsFit, Started
  <2> QED
    BY <2>1, <1>3, <1>6 DEF Drawn, Slots
<1>9. t \in Started(b)
  BY <1>1 DEF Started
<1>10. ASSUME NEW s \in Drawn(b, t)
       PROVE  Result(b, t, s - base[b][t]) \in Prim
  <2>1. /\ Busy(t, tailIn[b]) /\ cnt[b][t] \in {1, 2}
        /\ cnt[b][t] = 2 => Paired(t, tailIn[b])
        /\ base[b][t] \in Nat
    BY <1>3, <1>5, <1>9 DEF DrawsFit
  <2>2. 2 * t < tailIn[b]
    BY <1>3, <2>1 DEF Busy
  <2>3. s - base[b][t] \in {0, 1} /\ (s - base[b][t] = 1 => cnt[b][t] = 2)
    BY <2>1 DEF Drawn
  <2>4. CASE cnt[b][t] = 1 /\ Paired(t, tailIn[b])
    <3>1. 2 * t \in Slots /\ 2 * t + 1 \in Slots
      BY <1>3, <2>4 DEF Paired, Slots
    <3>2. in[b][2 * t] \in Prim /\ in[b][2 * t + 1] \in Prim
      BY <1>3, <3>1
    <3>3. Merge(in[b][2 * t], in[b][2 * t + 1]) \in Prim
      BY <3>2 DEF Merge, Prim
    <3> QED
      BY <2>4, <3>3 DEF Result
  <2>5. CASE ~(cnt[b][t] = 1 /\ Paired(t, tailIn[b]))
    <3>1. 2 * t + (s - base[b][t]) \in Slots
      BY <1>3, <2>1, <2>2, <2>3 DEF Paired, Slots
    <3>2. in[b][2 * t + (s - base[b][t])] \in Prim
      BY <1>3, <3>1
    <3> QED
      BY <2>5, <3>2 DEF Result
  <2> QED
    BY <2>4, <2>5
<1>11. out'[b] \in [Slots -> Prim]
  <2>1. \A s \in Slots : (IF s \in Drawn(b, t)
                          THEN Result(b, t, s - base[b][t]) ELSE out[b][s]) \in Prim
    BY <1>3, <1>10
  <2> QED
    BY <1>4, <2>1
<1>12. TypeOK'
  <2>1. out' \in [Blocks -> [Slots -> Prim]]
    BY <1>1, <1>2, <1>4, <1>11 DEF TypeOK
  <2>2. arrived' \in [Blocks -> [Threads -> {"no", "drawn", "yes"}]]
    BY <1>1, <1>2 DEF TypeOK
  <2> QED
    BY <1>1, <1>2, <2>1, <2>2 DEF TypeOK
<1>13. Stored(b)'
  <2> SUFFICES ASSUME NEW u \in Threads, arrived'[b][u] = "yes", NEW s \in Drawn(b, u)'
               PROVE  out'[b][s] = Result(b, u, s - base[b][u])'
    BY DEF Stored
  <2>1. s \in Drawn(b, u) /\ Result(b, u, s - base[b][u])' = Result(b, u, s - base[b][u])
    BY <1>2 DEF Drawn, Result, Paired, Merge
  <2>2. CASE u = t
    <3>1. s \in Slots /\ s \in Drawn(b, t)
      BY <1>8, <1>9, <2>1, <2>2
    <3> QED
      BY <1>4, <2>1, <2>2, <3>1
  <2>3. CASE u # t
    <3>1. arrived[b][u] = "yes" /\ u \in Started(b)
      BY <1>3, <1>4, <2>3 DEF Started
    <3>2. s \in Slots
      BY <1>8, <2>1, <3>1
    <3>3. s \notin Drawn(b, t)
      <4> SUFFICES ASSUME s \in Drawn(b, t) PROVE FALSE
        OBVIOUS
      <4>1. base[b][u] <= s /\ s < base[b][u] + cnt[b][u]
        BY <1>8, <2>1, <3>1
      <4>2. base[b][t] <= s /\ s < base[b][t] + cnt[b][t]
        BY <1>8, <1>9
      <4>3. \/ base[b][u] + cnt[b][u] <= base[b][t]
            \/ base[b][t] + cnt[b][t] <= base[b][u]
        BY <1>5, <1>9, <2>3, <3>1 DEF DrawsFit
      <4>4. /\ base[b][u] \in Nat /\ base[b][t] \in Nat /\ s \in Nat
            /\ cnt[b][u] \in Nat /\ cnt[b][t] \in Nat
        <5>1. cnt[b][u] \in 0 .. 2 /\ cnt[b][t] \in 0 .. 2
          BY <1>3
        <5> QED
          BY <1>3, <3>2, <5>1 DEF Slots
      <4> QED
        BY <4>1, <4>2, <4>3, <4>4
    <3>4. out'[b][s] = out[b][s]
      BY <1>4, <3>2, <3>3
    <3>5. out[b][s] = Result(b, u, s - base[b][u])
      BY <1>1, <2>1, <3>1 DEF BlockInv, Stored
    <3> QED
      BY <2>1, <3>4, <3>5
  <2> QED
    BY <2>2, <2>3
<1>14. BlockInv(b)'
  <2>1. Partition(in'[b], tailIn'[b], EidBegin(b), EidEnd(b)) /\ InOrder(in'[b], tailIn'[b])
    BY <1>1, <1>2 DEF BlockInv
  <2>2. phase'[b] = "merge" /\ iter'[b] < MaxIter
    BY <1>1, <1>2 DEF BlockInv
  <2>3. DrawsFit(Started(b)', base'[b], cnt'[b], tailIn'[b], tailOut'[b])
    BY <1>2, <1>5, <1>7
  <2> QED
    BY <1>13, <2>1, <2>2, <2>3 DEF BlockInv
<1>15. \A c \in Blocks : c # b => SameBlock(c)
  BY <1>1, <1>2 DEF TypeOK, SameBlock
<1> QED
  BY <1>1, <1>2, <1>12, <1>14, <1>15, LocalStep

(* The end of a round keeps the invariant: what the swap and the sort leave
   in the input buffer is again a partition of the block's edges, in order. *)
LEMMA EndRoundStep ==
  ASSUME Inv, NEW b \in Blocks, EndRound(b)
  PROVE  Inv'
<1> USE NEAssumption, BlockSizeAssumption, MaxIterAssumption
<1>1. /\ TypeOK /\ BlockInv(b) /\ phase[b] = "merge" /\ AllArrived(b)
      /\ iter[b] < MaxIter
  BY DEF Inv, EndRound, BlockInv
<1>2. /\ tailIn' = [tailIn EXCEPT ![b] = tailOut[b]]
      /\ out' = [out EXCEPT ![b] = in[b]]
      /\ arrived' = [arrived EXCEPT ![b] = [t \in Threads |-> "no"]]
      /\ UNCHANGED <<base, cnt, gTail, gPrims, nPrims>>
  BY DEF EndRound
<1>3. /\ tailOut[b] \in 0 .. tailIn[b]
      /\ Partition(out[b], tailOut[b], EidBegin(b), EidEnd(b))
  BY <1>1, RoundPartition
<1>4. /\ tailOut[b] \in 0 .. BlockSize
      /\ in[b] \in [Slots -> Prim] /\ out[b] \in [Slots -> Prim]
      /\ iter[b] \in 0 .. MaxIter
      /\ tailIn[b] \in 0 .. BlockSize
  BY <1>1, <1>3 DEF TypeOK
<1>5. EidBegin(b) \in Nat /\ EidEnd(b) \in Nat
  BY BlockRange
<1>6. /\ tailIn'[b] = tailOut[b]
      /\ \A t \in Threads : arrived'[b][t] = "no"
  BY <1>1, <1>2 DEF TypeOK
<1>7. /\ tailIn' \in [Blocks -> 0 .. BlockSize]
      /\ out' \in [Blocks -> [Slots -> Prim]]
      /\ arrived' \in [Blocks -> [Threads -> {"no", "drawn", "yes"}]]
      /\ base' \in [Blocks -> [Threads -> Slots]]
      /\ cnt' \in [Blocks -> [Threads -> 0 .. 2]]
      /\ gTail' \in 0 .. NE
      /\ gPrims' \in [Edges -> Prim]
      /\ nPrims' \in 0 .. NE
  BY <1>1, <1>2, <1>4 DEF TypeOK
<1>8. /\ TypeOK' /\ BlockInv(b)' /\ phase'[b] # "write"
      /\ \A c \in Blocks : c # b => SameBlock(c)
  <2>1. CASE tailOut[b] = tailIn[b]
    <3>1. /\ in' = [in EXCEPT ![b] = out[b]]
          /\ tailOut' = [tailOut EXCEPT ![b] = tailIn[b]]
          /\ phase' = [phase EXCEPT ![b] = "reserve"]
          /\ iter' = iter
      BY <2>1 DEF EndRound
    <3>2. in'[b] = out[b] /\ phase'[b] = "reserve"
      BY <1>1, <3>1 DEF TypeOK
    <3>3. /\ in' \in [Blocks -> [Slots -> Prim]]
          /\ tailOut' \in [Blocks -> Nat]
          /\ phase' \in [Blocks -> {"load", "merge", "reserve", "write"}]
          /\ iter' \in [Blocks -> 0 .. MaxIter]
      BY <1>1, <1>4, <3>1 DEF TypeOK
    <3>4. TypeOK'
      BY <1>7, <3>3 DEF TypeOK
    <3>5. BlockInv(b)'
      <4>1. Partition(in'[b], tailIn'[b], EidBegin(b), EidEnd(b))
        BY <1>3, <1>6, <3>2
      <4> QED
        BY <1>6, <3>2, <4>1 DEF BlockInv
    <3>6. \A c \in Blocks : c # b => SameBlock(c)
      BY <1>1, <1>2, <3>1 DEF TypeOK, SameBlock
    <3> QED
      BY <3>2, <3>4, <3>5, <3>6
  <2>2. CASE tailOut[b] # tailIn[b]
    <3>1. PICK s \in Sorted(out[b], tailOut[b]) : in' = [in EXCEPT ![b] = s]
      BY <2>2 DEF EndRound
    <3>2. /\ tailOut' = [tailOut EXCEPT ![b] = 0]
          /\ iter' = [iter EXCEPT ![b] = @ + 1]
          /\ phase' = [phase EXCEPT ![b] =
                         IF iter[b] + 1 = MaxIter THEN "reserve" ELSE "merge"]
      BY <2>2 DEF EndRound
    <3>3. /\ s \in [Slots -> Prim]
          /\ Partition(s, tailOut[b], EidBegin(b), EidEnd(b))
          /\ InOrder(s, tailOut[b])
      BY <1>3, <1>4, <1>5, SortedPartition
    <3>4. /\ in'[b] = s /\ tailOut'[b] = 0 /\ iter'[b] = iter[b] + 1
          /\ phase'[b] = IF iter[b] + 1 = MaxIter THEN "reserve" ELSE "merge"
      BY <1>1, <3>1, <3>2 DEF TypeOK
    <3>5. /\ in' \in [Blocks -> [Slots -> Prim]]
          /\ tailOut' \in [Blocks -> Nat]
          /\ phase' \in [Blocks -> {"load", "merge", "reserve", "write"}]
          /\ iter' \in [Blocks -> 0 .. MaxIter]
      <4>1. iter[b] + 1 \in 0 .. MaxIter
        BY <1>1, <1>4
      <4> QED
        BY <1>1, <3>1, <3>2, <3>3, <4>1 DEF TypeOK
    <3>6. TypeOK'
      BY <1>7, <3>5 DEF TypeOK
    <3>7. BlockInv(b)'
      <4>1. Partition(in'[b], tailIn'[b], EidBegin(b), EidEnd(b)) /\ InOrder(in'[b], tailIn'[b])
        BY <1>6, <3>3, <3>4
      <4>2. Started(b)' = {} /\ Stored(b)'
        BY <1>6 DEF Started, Stored
      <4>3. DrawsFit({}, base'[b], cnt'[b], tailIn'[b], 0)
        BY DEF DrawsFit
      <4>4. DrawsFit(Started(b)', base'[b], cnt'[b], tailIn'[b], tailOut'[b])
        BY <3>4, <4>2, <4>3
      <4>5. phase'[b] = "merge" => iter'[b] < MaxIter
        BY <1>1, <1>4, <3>4
      <4>6. phase'[b] # "load"
        BY <3>4
      <4> QED
        BY <1>6, <4>1, <4>2, <4>4, <4>5, <4>6 DEF BlockInv
    <3>8. \A c \in Blocks : c # b => SameBlock(c)
      BY <1>1, <1>2, <3>1, <3>2 DEF TypeOK, SameBlock
    <3> QED
      BY <3>4, <3>6, <3>7, <3>8
  <2> QED
    BY <2>1, <2>2
<1> QED
  BY <1>1, <1>2, <1>8, LocalStep

(* Reserving global slots keeps the invariant: they follow those of the other
   blocks, and all blocks together have no more primitives than the map edges. *)
LEMMA ReserveStep ==
  ASSUME Inv, NEW b \in Blocks, Reserve(b)
  PROVE  Inv'
<1> USE NEAssumption, BlockSizeAssumption, MaxIterAssumption
<1>1. TypeOK /\ BlockInv(b) /\ GlobalInv /\ phase[b] = "reserve"
  BY DEF Inv, Reserve
<1>2. /\ tailOut' = [tailOut EXCEPT ![b] = gTail]
      /\ gTail' = gTail + tailIn[b]
      /\ phase' = [phase EXCEPT ![b] = "write"]
      /\ UNCHANGED <<arrived, iter, in, out, tailIn, base, cnt, gPrims, nPrims>>
  BY DEF Reserve
<1>3. /\ tailIn \in [Blocks -> 0 .. BlockSize] /\ tailIn[b] \in Nat
      /\ tailOut \in [Blocks -> Nat]
      /\ gTail \in Nat
      /\ in \in [Blocks -> [Slots -> Prim]]
  BY <1>1 DEF TypeOK
<1>4. /\ tailOut'[b] = gTail /\ phase'[b] = "write"
      /\ \A c \in Blocks : c # b => tailOut'[c] = tailOut[c] /\ phase'[c] = phase[c]
      /\ tailOut' \in [Blocks -> Nat]
      /\ gTail' \in Nat
  BY <1>1, <1>2, <1>3 DEF TypeOK
<1>5. /\ Writing' = Writing \cup {b}
      /\ b \notin Writing
      /\ \A c \in Writing : c \in Blocks /\ c # b /\ tailOut'[c] = tailOut[c]
  BY <1>1, <1>4 DEF Writing
<1>6. \A c \in Blocks : c # b => SameBlock(c)
  BY <1>1, <1>2, <1>4 DEF SameBlock
<1>7. \A c \in Blocks : BlockInv(c)'
  <2> TAKE c \in Blocks
  <2>1. CASE c # b
    BY <1>6, <2>1, OtherBlock DEF Inv
  <2>2. CASE c = b
    <3>1. Partition(in'[b], tailIn'[b], EidBegin(b), EidEnd(b))
      BY <1>1, <1>2 DEF BlockInv
    <3> QED
      BY <1>4, <2>2, <3>1 DEF BlockInv
  <2> QED
    BY <2>1, <2>2
<1>8. \A g \in 0 .. gTail' - 1 : \E c \in Writing' :
        tailOut'[c] <= g /\ g < tailOut'[c] + tailIn'[c]
  <2> TAKE g \in 0 .. gTail' - 1
  <2>1. CASE g < gTail
    <3>1. g \in 0 .. gTail - 1
      BY <1>3, <2>1
    <3>2. PICK c \in Writing : tailOut[c] <= g /\ g < tailOut[c] + tailIn[c]
      BY <1>1, <3>1 DEF GlobalInv
    <3> QED
      BY <1>2, <1>5, <3>2
  <2>2. CASE gTail <= g
    BY <1>2, <1>3, <1>4, <1>5, <2>2
  <2> QED
    BY <1>3, <2>1, <2>2
<1>9. gTail' <= NE
  <2>1. \A c \in Writing' : Partition(in[c], tailIn[c], EidBegin(c), EidEnd(c))
    <3>1. \A c \in Writing' : c \in Blocks /\ phase[c] # "load"
      BY <1>1, <1>5 DEF Writing
    <3> QED
      BY <3>1 DEF Inv, BlockInv
  <2>2. Writing' \in SUBSET Blocks
    BY DEF Writing
  <2>3. \A g \in 0 .. gTail' - 1 : \E c \in Writing' :
          tailOut'[c] <= g /\ g < tailOut'[c] + tailIn[c]
    BY <1>2, <1>8
  <2> DEFINE W == Writing'
  <2> DEFINE bs == tailOut'
  <2> DEFINE g == gTail'
  <2>4. /\ W \in SUBSET Blocks /\ bs \in [Blocks -> Nat] /\ g \in Nat
        /\ \A c \in W : Partition(in[c], tailIn[c], EidBegin(c), EidEnd(c))
        /\ \A s \in 0 .. g - 1 : \E c \in W : bs[c] <= s /\ s < bs[c] + tailIn[c]
    BY <1>4, <2>1, <2>2, <2>3
  <2> HIDE DEF W, bs, g
  <2>5. g <= NE
    BY <1>3, <2>4, ReserveBound
  <2> QED
    BY <2>5 DEF g
<1>10. TypeOK'
  <2>1. gTail' \in 0 .. NE
    BY <1>4, <1>9
  <2> QED
    BY <1>1, <1>2, <1>4, <2>1 DEF TypeOK
<1>11. GlobalInv'
  <2>1. \A c \in Writing : tailOut[c] \in Nat /\ tailIn[c] \in Nat /\ tailOut[c] + tailIn[c] <= gTail
    BY <1>1, <1>3, <1>5 DEF GlobalInv
  <2>2. \A c \in Writing' : tailOut'[c] + tailIn'[c] <= gTail'
    <3> TAKE c \in Writing'
    <3>1. CASE c = b
      BY <1>2, <1>4, <3>1
    <3>2. CASE c \in Writing
      BY <1>2, <1>3, <1>5, <2>1, <3>2
    <3> QED
      BY <1>5, <3>1, <3>2
  <2>3. \A c, d \in Writing' : c # d =>
          tailOut'[c] + tailIn'[c] <= tailOut'[d] \/ tailOut'[d] + tailIn'[d] <= tailOut'[c]
    <3> SUFFICES ASSUME NEW c \in Writing', NEW d \in Writing', c # d
                 PROVE  \/ tailOut'[c] + tailIn'[c] <= tailOut'[d]
                        \/ tailOut'[d] + tailIn'[d] <= tailOut'[c]
      OBVIOUS
    <3>1. CASE c = b
      BY <1>2, <1>4, <1>5, <2>1, <3>1
    <3>2. CASE d = b
      BY <1>2, <1>4, <1>5, <2>1, <3>2
    <3>3. CASE c \in Writing /\ d \in Writing
      BY <1>1, <1>2, <1>5, <3>3 DEF GlobalInv
    <3> QED
      BY <1>5, <3>1, <3>2, <3>3
  <2>4. \A c \in Writing' : \A t \in Threads :
          arrived'[c][t] = "yes" => t < tailIn'[c] /\ gPrims'[tailOut'[c] + t] = in'[c][t]
    <3> TAKE c \in Writing'
    <3>1. CASE c = b
      BY <1>1, <1>2, <3>1 DEF BlockInv
    <3>2. CASE c \in Writing
      BY <1>1, <1>2, <1>5, <3>2 DEF GlobalInv
    <3> QED
      BY <1>5, <3>1, <3>2
  <2>5. ~(nPrims' > 0)
    BY <1>1, <1>2 DEF GlobalInv, BlockDone
  <2> QED
    BY <1>8, <2>2, <2>3, <2>4, <2>5 DEF GlobalInv
<1> QED
  BY <1>7, <1>10, <1>11 DEF Inv

(* A write keeps the invariant: it is inside the global array and hits no
   slot that another thread wrote. *)
LEMMA WriteStep ==
  ASSUME Inv, NEW b \in Blocks, NEW t \in Threads, Write(b, t)
  PROVE  Inv'
<1> USE NEAssumption, BlockSizeAssumption, MaxIterAssumption
<1>1. /\ TypeOK /\ BlockInv(b) /\ GlobalInv
      /\ phase[b] = "write" /\ t < tailIn[b] /\ arrived[b][t] = "no"
  BY DEF Inv, Write
<1>2. /\ gPrims' = [gPrims EXCEPT ![tailOut[b] + t] = in[b][t]]
      /\ arrived' = [arrived EXCEPT ![b][t] = "yes"]
      /\ UNCHANGED <<phase, iter, in, out, tailIn, tailOut, base, cnt, gTail, nPrims>>
  BY DEF Write
<1>3. /\ tailOut \in [Blocks -> Nat] /\ tailIn \in [Blocks -> 0 .. BlockSize]
      /\ gTail \in 0 .. NE /\ gPrims \in [Edges -> Prim]
      /\ t \in Nat /\ t \in Slots
      /\ in[b][t] \in Prim
  <2>1. t \in Nat /\ t \in Slots
    BY DEF Threads, Slots
  <2> QED
    BY <1>1, <2>1 DEF TypeOK
<1>4. b \in Writing /\ Writing' = Writing
  BY <1>1, <1>2 DEF Writing
<1>5. tailOut[b] + t \in Edges
  <2>1. tailOut[b] + tailIn[b] <= gTail
    BY <1>1, <1>4 DEF GlobalInv
  <2> QED
    BY <1>1, <1>3, <2>1 DEF Edges
<1>6. /\ arrived' \in [Blocks -> [Threads -> {"no", "drawn", "yes"}]]
      /\ arrived'[b][t] = "yes"
      /\ \A c \in Blocks : \A u \in Threads : (c # b \/ u # t) => arrived'[c][u] = arrived[c][u]
      /\ \A c \in Blocks : c # b => arrived'[c] = arrived[c]
  BY <1>1, <1>2 DEF TypeOK
<1>7. TypeOK'
  <2>1. gPrims' \in [Edges -> Prim]
    BY <1>2, <1>3
  <2> QED
    BY <1>1, <1>2, <1>6, <2>1 DEF TypeOK
<1>8. \A c \in Blocks : BlockInv(c)'
  <2> TAKE c \in Blocks
  <2>1. CASE c # b
    <3>1. SameBlock(c)
      BY <1>2, <1>6, <2>1 DEF SameBlock
    <3> QED
      BY <3>1, OtherBlock DEF Inv
  <2>2. CASE c = b
    <3>1. Partition(in'[b], tailIn'[b], EidBegin(b), EidEnd(b)) /\ phase'[b] = "write"
      BY <1>1, <1>2 DEF BlockInv
    <3> QED
      BY <2>2, <3>1 DEF BlockInv
  <2> QED
    BY <2>1, <2>2
<1>9. \A c \in Writing : \A u \in Threads :
        arrived'[c][u] = "yes" => u < tailIn[c] /\ gPrims'[tailOut[c] + u] = in[c][u]
  <2> SUFFICES ASSUME NEW c \in Writing, NEW u \in Threads, arrived'[c][u] = "yes"
               PROVE  u < tailIn[c] /\ gPrims'[tailOut[c] + u] = in[c][u]
    OBVIOUS
  <2>1. CASE c = b /\ u = t
    BY <1>1, <1>2, <1>3, <1>5, <2>1
  <2>2. CASE ~(c = b /\ u = t)
    <3>1. c \in Blocks /\ arrived[c][u] = "yes"
      BY <1>6, <2>2 DEF Writing
    <3>2. u < tailIn[c] /\ gPrims[tailOut[c] + u] = in[c][u]
      BY <1>1, <3>1 DEF GlobalInv
    <3>3. u \in Nat /\ tailOut[c] \in Nat /\ tailIn[c] \in Nat /\ tailOut[b] \in Nat /\ tailIn[b] \in Nat
      BY <1>3, <3>1 DEF Threads
    <3>4. tailOut[c] + u # tailOut[b] + t
      <4>1. CASE c = b
        BY <1>3, <2>2, <3>3, <4>1
      <4>2. CASE c # b
        <5>1. \/ tailOut[b] + tailIn[b] <= tailOut[c]
              \/ tailOut[c] + tailIn[c] <= tailOut[b]
          BY <1>1, <1>4, <4>2 DEF GlobalInv
        <5> QED
          BY <1>1, <1>3, <3>2, <3>3, <5>1
      <4> QED
        BY <4>1, <4>2
    <3>5. tailOut[c] + u \in Edges
      <4>1. tailOut[c] + tailIn[c] <= gTail
        BY <1>1 DEF GlobalInv
      <4> QED
        BY <1>3, <3>2, <3>3, <4>1 DEF Edges
    <3>6. gPrims'[tailOut[c] + u] = gPrims[tailOut[c] + u]
      BY <1>2, <1>3, <3>4, <3>5
    <3> QED
      BY <3>2, <3>6
  <2> QED
    BY <2>1, <2>2
<1>10. ~(nPrims' > 0)
  BY <1>1, <1>2 DEF GlobalInv, BlockDone
<1>11. GlobalInv'
  <2>1. /\ \A c \in Writing : tailOut[c] + tailIn[c] <= gTail
        /\ \A c, d \in Writing : c # d =>
             tailOut[c] + tailIn[c] <= tailOut[d] \/ tailOut[d] + tailIn[d] <= tailOut[c]
        /\ \A g \in 0 .. gTail - 1 : \E c \in Writing :
             tailOut[c] <= g /\ g < tailOut[c] + tailIn[c]
    BY <1>1 DEF GlobalInv
  <2> QED
    BY <1>2, <1>4, <1>9, <1>10, <2>1 DEF GlobalInv
<1> QED
  BY <1>7, <1>8, <1>11 DEF Inv

(* Steps that leave the blocks and the global array alone keep what is said of them. *)
LEMMA BlocksUnchanged ==
  ASSUME Inv, UNCHANGED <<blockVars, gTail, gPrims>>
  PROVE  /\ \A b \in Blocks : BlockInv(b)'
         /\ Writing' = Writing
         /\ \A b \in Blocks : BlockDone(b)' = BlockDone(b)
<1>1. \A b \in Blocks : SameBlock(b)
  BY DEF blockVars, SameBlock
<1> QED
  BY <1>1, OtherBlock DEF Inv, SameBlock, Writing, BlockDone

(* The host takes as many primitives as the blocks reserved slots for. *)
LEMMA CollectStep ==
  ASSUME Inv, Collect
  PROVE  Inv'
<1>1. /\ UNCHANGED <<blockVars, gTail, gPrims>> /\ nPrims' = gTail
      /\ \A b \in Blocks : BlockDone(b)
  BY DEF Collect
<1>2. /\ \A b \in Blocks : BlockInv(b)'
      /\ Writing' = Writing
      /\ \A b \in Blocks : BlockDone(b)'
  BY <1>1, BlocksUnchanged
<1>3. TypeOK'
  BY <1>1 DEF Inv, TypeOK, blockVars
<1>4. GlobalInv'
  <2>1. /\ \A b \in Writing : tailOut[b] + tailIn[b] <= gTail
        /\ \A b, c \in Writing : b # c =>
             tailOut[b] + tailIn[b] <= tailOut[c] \/ tailOut[c] + tailIn[c] <= tailOut[b]
        /\ \A g \in 0 .. gTail - 1 : \E b \in Writing :
             tailOut[b] <= g /\ g < tailOut[b] + tailIn[b]
        /\ \A b \in Writing : \A t \in Threads :
             arrived[b][t] = "yes" => t < tailIn[b] /\ gPrims[tailOut[b] + t] = in[b][t]
    BY DEF Inv, GlobalInv
  <2>2. UNCHANGED <<tailOut, tailIn, arrived, in, gTail, gPrims>>
    BY <1>1 DEF blockVars
  <2> QED
    BY <1>1, <1>2, <2>1, <2>2 DEF GlobalInv
<1> QED
  BY <1>2, <1>3, <1>4 DEF Inv

(* Nothing changes, and nothing of the invariant. *)
LEMMA StutterStep ==
  ASSUME Inv, UNCHANGED vars
  PROVE  Inv'
<1>1. UNCHANGED <<blockVars, gTail, gPrims>> /\ nPrims' = nPrims
  BY DEF vars, blockVars
<1>2. /\ \A b \in Blocks : BlockInv(b)'
      /\ Writing' = Writing
      /\ \A b \in Blocks : BlockDone(b)' = BlockDone(b)
  BY <1>1, BlocksUnchanged
<1>3. TypeOK'
  BY DEF Inv, TypeOK, vars
<1>4. GlobalInv'
  BY <1>2 DEF Inv, GlobalInv, vars
<1> QED
  BY <1>2, <1>3, <1>4 DEF Inv
-----------------------------------------------------------------------------
(* The invariant holds in every state of every execution, whatever the map,
   the block size, the number of rounds and the order the threads run in. *)
THEOREM Invariance == Spec => []Inv
<1>1. Inv /\ [Next]_vars => Inv'
  <2> SUFFICES ASSUME Inv, [Next]_vars PROVE Inv'
    OBVIOUS
  <2>1. ASSUME NEW b \in Blocks, BlockStep(b) PROVE Inv'
    <3>1. CASE Load(b)
      BY <3>1, LoadStep
    <3>2. ASSUME NEW t \in Threads, Draw(b, t) PROVE Inv'
      BY <3>2, DrawStep
    <3>3. ASSUME NEW t \in Threads, Store(b, t) PROVE Inv'
      BY <3>3, StoreStep
    <3>4. ASSUME NEW t \in Threads, Write(b, t) PROVE Inv'
      BY <3>4, WriteStep
    <3>5. CASE EndRound(b)
      BY <3>5, EndRoundStep
    <3>6. CASE Reserve(b)
      BY <3>6, ReserveStep
    <3> QED
      BY <2>1, <3>1, <3>2, <3>3, <3>4, <3>5, <3>6 DEF BlockStep
  <2>2. CASE Collect
    BY <2>2, CollectStep
  <2>3. CASE Idle
    BY <2>3, StutterStep DEF Idle
  <2>4. CASE UNCHANGED vars
    BY <2>4, StutterStep
  <2> QED
    BY <2>1, <2>2, <2>3, <2>4 DEF Next
<1> QED
  BY <1>1, InitInv, PTL DEF Spec

(* Every variable stays in its range; in particular no atomic tail passes the
   end of the array it indexes. *)
THEOREM TypeCorrect == Spec => []TypeOK
<1>1. Inv => TypeOK
  BY DEF Inv
<1> QED
  BY <1>1, Invariance, PTL

(* The slots that threads draw from a block's tail, and the slots that blocks
   reserve from the global tail, are inside their arrays and never shared. *)
THEOREM SlotsNeverShared == Spec => []SlotsDisjoint
<1>1. Inv => SlotsDisjoint
  <2> SUFFICES ASSUME Inv, NEW b \in Blocks
               PROVE  /\ phase[b] = "merge" =>
                           /\ tailOut[b] <= BlockSize
                           /\ \A t, u \in Threads :
                                (t # u /\ arrived[b][t] # "no" /\ arrived[b][u] # "no")
                                   => Drawn(b, t) \cap Drawn(b, u) = {}
                      /\ phase[b] = "write" =>
                           /\ tailOut[b] + tailIn[b] <= gTail
                           /\ \A c \in Blocks : (c # b /\ phase[c] = "write")
                                   => Reserved(b) \cap Reserved(c) = {}
    BY DEF SlotsDisjoint
  <2>1. /\ base[b] \in [Threads -> Nat] /\ cnt[b] \in [Threads -> 0 .. 2]
        /\ tailIn[b] \in 0 .. BlockSize /\ tailOut[b] \in Nat
    BY BlockSizeAssumption DEF Inv, TypeOK, Slots
  <2>2. ASSUME phase[b] = "merge" PROVE tailOut[b] <= BlockSize
    <3>1. DrawsFit(Started(b), base[b], cnt[b], tailIn[b], tailOut[b])
      BY <2>2 DEF Inv, BlockInv
    <3>2. tailOut[b] <= tailIn[b]
      BY <2>1, <3>1, DrawBound DEF Started
    <3> QED
      BY <2>1, <3>2, BlockSizeAssumption
  <2>3. ASSUME phase[b] = "merge", NEW t \in Threads, NEW u \in Threads,
               t # u, arrived[b][t] # "no", arrived[b][u] # "no"
        PROVE  Drawn(b, t) \cap Drawn(b, u) = {}
    <3>1. \/ base[b][t] + cnt[b][t] <= base[b][u]
          \/ base[b][u] + cnt[b][u] <= base[b][t]
      BY <2>3 DEF Inv, BlockInv, DrawsFit, Started
    <3>2. base[b][t] \in Nat /\ base[b][u] \in Nat /\ cnt[b][t] \in 0 .. 2 /\ cnt[b][u] \in 0 .. 2
      BY <2>1
    <3> QED
      BY <3>1, <3>2 DEF Drawn
  <2>4. ASSUME phase[b] = "write" PROVE tailOut[b] + tailIn[b] <= gTail
    BY <2>4 DEF Inv, GlobalInv, Writing
  <2>5. ASSUME phase[b] = "write", NEW c \in Blocks, c # b, phase[c] = "write"
        PROVE  Reserved(b) \cap Reserved(c) = {}
    <3>1. \/ tailOut[b] + tailIn[b] <= tailOut[c]
          \/ tailOut[c] + tailIn[c] <= tailOut[b]
      BY <2>5 DEF Inv, GlobalInv, Writing
    <3>2. tailOut[c] \in Nat /\ tailIn[c] \in 0 .. BlockSize
      BY DEF Inv, TypeOK
    <3> QED
      BY <2>1, <3>1, <3>2, BlockSizeAssumption DEF Reserved
  <2> QED
    BY <2>2, <2>3, <2>4, <2>5
<1> QED
  BY <1>1, Invariance, PTL

(* The assertion range1.y == range2.x of the kernel never fails. *)
THEOREM PairsTouch == Spec => []PairsAdjacent
<1>1. Inv => PairsAdjacent
  <2> SUFFICES ASSUME Inv, NEW b \in Blocks, phase[b] = "merge",
                      NEW t \in Threads, Paired(t, tailIn[b])
               PROVE  in[b][2 * t].hi = in[b][2 * t + 1].lo
    BY DEF PairsAdjacent
  <2>1. /\ in[b] \in [Slots -> Prim] /\ tailIn[b] \in 0 .. BlockSize
        /\ EidBegin(b) \in Nat /\ EidEnd(b) \in Nat
    BY BlockRange DEF Inv, TypeOK
  <2>2. Partition(in[b], tailIn[b], EidBegin(b), EidEnd(b)) /\ InOrder(in[b], tailIn[b])
    BY DEF Inv, BlockInv
  <2>3. 2 * t \in 0 .. tailIn[b] - 1 /\ 2 * t + 1 < tailIn[b]
    BY <2>1, BlockSizeAssumption DEF Paired, Threads
  <2> QED
    BY <2>1, <2>2, <2>3, Adjacent
<1> QED
  BY <1>1, Invariance, PTL

(* What the host hands to the queries after the kernel has every edge of the
   map in exactly one primitive, and in that primitive's box. *)
THEOREM CoverIsExact == Spec => []CoverExact
<1>1. Inv => CoverExact
  <2> USE BlockSizeAssumption
  <2> SUFFICES ASSUME Inv, Collected, NEW e \in Edges
               PROVE  \E i \in 0 .. nPrims - 1 :
                        /\ e \in EdgesOf(gPrims[i]) \cap gPrims[i].box
                        /\ \A j \in 0 .. nPrims - 1 : e \in EdgesOf(gPrims[j]) => j = i
    BY DEF CoverExact
  <2>1. nPrims = gTail /\ \A b \in Blocks : BlockDone(b)
    BY DEF Inv, GlobalInv, Collected
  <2>2. Writing = Blocks
    BY <2>1 DEF BlockDone, Writing
  <2>3. \A b \in Blocks :
          /\ tailOut[b] \in Nat /\ tailIn[b] \in 0 .. BlockSize /\ gTail \in Nat
          /\ in[b] \in [Slots -> Prim]
          /\ Partition(in[b], tailIn[b], EidBegin(b), EidEnd(b))
    BY <2>1 DEF Inv, TypeOK, BlockInv, BlockDone
  <2>4. \A b \in Blocks : \A s \in 0 .. tailIn[b] - 1 :
          /\ tailOut[b] + s \in 0 .. gTail - 1
          /\ gPrims[tailOut[b] + s] = in[b][s]
    <3> SUFFICES ASSUME NEW b \in Blocks, NEW s \in 0 .. tailIn[b] - 1
                 PROVE  /\ tailOut[b] + s \in 0 .. gTail - 1
                        /\ gPrims[tailOut[b] + s] = in[b][s]
      OBVIOUS
    <3>1. s \in Threads /\ s < tailIn[b]
      BY <2>3 DEF Threads
    <3>2. arrived[b][s] = "yes"
      BY <2>1, <3>1 DEF BlockDone
    <3>3. tailOut[b] + tailIn[b] <= gTail
      BY <2>2 DEF Inv, GlobalInv
    <3>4. gPrims[tailOut[b] + s] = in[b][s]
      BY <2>2, <3>1, <3>2 DEF Inv, GlobalInv
    <3> QED
      BY <2>3, <3>3, <3>4
  <2>5. \A b \in Blocks : \A s \in 0 .. tailIn[b] - 1 :
          /\ in[b][s].lo \in Nat /\ in[b][s].hi \in Nat
          /\ EidBegin(b) <= in[b][s].lo /\ in[b][s].hi <= EidEnd(b)
          /\ EidBegin(b) \in Nat /\ EidEnd(b) \in Nat
    <3> SUFFICES ASSUME NEW b \in Blocks, NEW s \in 0 .. tailIn[b] - 1
                 PROVE  /\ in[b][s].lo \in Nat /\ in[b][s].hi \in Nat
                        /\ EidBegin(b) <= in[b][s].lo /\ in[b][s].hi <= EidEnd(b)
                        /\ EidBegin(b) \in Nat /\ EidEnd(b) \in Nat
      OBVIOUS
    <3>1. EidBegin(b) \in Nat /\ EidEnd(b) \in Nat
      BY BlockRange
    <3>2. s \in Slots
      BY <2>3 DEF Slots
    <3>3. in[b][s].lo \in Nat /\ in[b][s].hi \in Nat
      BY <2>3, <3>2 DEF Prim
    <3> QED
      BY <2>3, <3>1, <3>3 DEF Partition
  <2>6. PICK b \in Blocks : EidBegin(b) <= e /\ e < EidEnd(b)
    BY BlockOf
  <2>7. e \in Nat /\ EidBegin(b) \in Nat /\ EidEnd(b) \in Nat
    BY BlockRange DEF Edges
  <2>8. PICK s \in 0 .. tailIn[b] - 1 : in[b][s].lo <= e /\ e < in[b][s].hi
    <3>1. e \in EidBegin(b) .. EidEnd(b) - 1
      BY <2>6, <2>7
    <3> QED
      BY <2>3, <3>1 DEF Partition
  <2> DEFINE i == tailOut[b] + s
  <2>9. i \in 0 .. nPrims - 1 /\ gPrims[i] = in[b][s]
    BY <2>1, <2>4
  <2>10. e \in EdgesOf(gPrims[i]) \cap gPrims[i].box
    <3>1. e \in EdgesOf(in[b][s])
      BY <2>5, <2>7, <2>8 DEF EdgesOf
    <3>2. EdgesOf(in[b][s]) \subseteq in[b][s].box
      BY <2>3 DEF Partition
    <3> QED
      BY <2>9, <3>1, <3>2
  <2>11. ASSUME NEW j \in 0 .. nPrims - 1, e \in EdgesOf(gPrims[j])
         PROVE  j = i
    <3>1. PICK c \in Blocks : tailOut[c] <= j /\ j < tailOut[c] + tailIn[c]
      BY <2>1, <2>2 DEF Inv, GlobalInv
    <3> DEFINE r == j - tailOut[c]
    <3>2. r \in 0 .. tailIn[c] - 1 /\ j = tailOut[c] + r
      BY <2>3, <3>1
    <3> HIDE DEF i, r
    <3>3. gPrims[j] = in[c][r]
      BY <2>4, <3>2
    <3>4. in[c][r].lo <= e /\ e < in[c][r].hi
      <4>1. in[c][r].lo \in Nat /\ in[c][r].hi \in Nat
        BY <2>5, <3>2
      <4>2. e \in in[c][r].lo .. in[c][r].hi - 1
        BY <2>11, <3>3 DEF EdgesOf
      <4> QED
        BY <4>1, <4>2
    <3>5. /\ EidBegin(c) <= e /\ e < EidEnd(c)
          /\ EidBegin(c) \in Nat /\ EidEnd(c) \in Nat
      BY <2>5, <2>7, <3>2, <3>4
    <3>6. ~(b < c) /\ ~(c < b)
      BY <2>6, <2>7, <3>5, BlocksApart
    <3>7. b = c
      <4>1. b \in Nat /\ c \in Nat
        BY BlockRange
      <4> QED
        BY <3>6, <4>1
    <3>8. s = r
      <4>1. /\ in[b][s].lo \in Nat /\ in[b][s].hi \in Nat
            /\ in[b][r].lo \in Nat /\ in[b][r].hi \in Nat
        BY <2>5, <3>2, <3>7
      <4>2. s # r => in[b][s].hi <= in[b][r].lo \/ in[b][r].hi <= in[b][s].lo
        BY <2>3, <3>2, <3>7 DEF Partition
      <4> QED
        BY <2>7, <2>8, <3>4, <3>7, <4>1, <4>2
    <3> QED
      BY <3>2, <3>7, <3>8 DEF i
  <2> QED
    BY <2>9, <2>10, <2>11
<1> QED
  BY <1>1, Invariance, PTL
-----------------------------------------------------------------------------
(* A global slot that holds a primitive was written by a thread of a block
   that reserved it. *)
Unwritten ==
  \A i \in Edges : gPrims[i] = Blank \/
    \E b \in Writing, t \in Threads : arrived[b][t] = "yes" /\ i = tailOut[b] + t

(* The range of a primitive, as EdgeCover has it. *)
RangeOf(p) == [lo |-> p.lo, hi |-> p.hi]

(* The ranges in the global array: the mapping's prims. *)
Published == {RangeOf(p) : p \in {gPrims[i] : i \in Edges} \ {Blank}}

(* A primitive a block that writes has, and the global slot it goes to. *)
LEMMA OwnPrimitive ==
  ASSUME Inv, NEW b \in Writing, NEW s \in 0 .. tailIn[b] - 1
  PROVE  /\ b \in Blocks /\ s \in Threads /\ s < tailIn[b] /\ tailOut[b] \in Nat
         /\ tailOut[b] + s \in Edges /\ tailOut[b] + s < gTail
         /\ in[b][s].lo \in Nat /\ in[b][s].hi \in Nat
         /\ EidBegin(b) <= in[b][s].lo
         /\ in[b][s].lo < in[b][s].hi
         /\ in[b][s].hi <= EidEnd(b)
         /\ in[b][s] # Blank
<1> USE NEAssumption, BlockSizeAssumption
<1>1. /\ b \in Blocks /\ tailIn[b] \in 0 .. BlockSize /\ tailOut[b] \in Nat
      /\ gTail \in 0 .. NE /\ in[b] \in [Slots -> Prim]
      /\ tailOut[b] + tailIn[b] <= gTail
  BY DEF Inv, TypeOK, GlobalInv, Writing
<1>2. s \in Threads /\ s \in Slots /\ s < tailIn[b]
  BY <1>1 DEF Threads, Slots
<1>3. tailOut[b] + s \in Edges /\ tailOut[b] + s < gTail
  BY <1>1, <1>2 DEF Edges
<1>4. in[b][s].lo \in Nat /\ in[b][s].hi \in Nat
  BY <1>1, <1>2 DEF Prim
<1>5. Partition(in[b], tailIn[b], EidBegin(b), EidEnd(b))
  BY <1>1 DEF Inv, BlockInv, Writing
<1>6. EidBegin(b) <= in[b][s].lo /\ in[b][s].lo < in[b][s].hi /\ in[b][s].hi <= EidEnd(b)
  BY <1>5 DEF Partition
<1>7. in[b][s] # Blank
  BY <1>4, <1>6 DEF Blank
<1> QED
  BY <1>1, <1>2, <1>3, <1>4, <1>6, <1>7

(* Different primitives of the blocks that write have different edges. *)
LEMMA PrimitivesApart ==
  ASSUME Inv, NEW b \in Writing, NEW c \in Writing,
         NEW s \in 0 .. tailIn[b] - 1, NEW u \in 0 .. tailIn[c] - 1, b # c \/ s # u
  PROVE  in[b][s].hi <= in[c][u].lo \/ in[c][u].hi <= in[b][s].lo
<1>1. /\ b \in Blocks /\ c \in Blocks
      /\ in[b][s].lo \in Nat /\ in[b][s].hi \in Nat
      /\ in[c][u].lo \in Nat /\ in[c][u].hi \in Nat
      /\ EidBegin(b) <= in[b][s].lo /\ in[b][s].hi <= EidEnd(b)
      /\ EidBegin(c) <= in[c][u].lo /\ in[c][u].hi <= EidEnd(c)
  BY OwnPrimitive
<1>2. /\ b \in Nat /\ c \in Nat
      /\ EidBegin(b) \in Nat /\ EidEnd(b) \in Nat
      /\ EidBegin(c) \in Nat /\ EidEnd(c) \in Nat
  BY <1>1, BlockRange
<1>3. CASE b < c
  <2>1. EidEnd(b) <= EidBegin(c)
    BY <1>1, <1>3, BlocksApart
  <2> QED
    BY <1>1, <1>2, <2>1
<1>4. CASE c < b
  <2>1. EidEnd(c) <= EidBegin(b)
    BY <1>1, <1>4, BlocksApart
  <2> QED
    BY <1>1, <1>2, <2>1
<1>5. CASE b = c
  <2>1. Partition(in[b], tailIn[b], EidBegin(b), EidEnd(b))
    BY <1>1 DEF Inv, BlockInv, Writing
  <2> QED
    BY <1>5, <2>1 DEF Partition
<1> QED
  BY <1>2, <1>3, <1>4, <1>5

(* What is published belongs to a block that reserved its slot. *)
LEMMA PublishedBy ==
  ASSUME Inv, Unwritten, NEW r \in Published
  PROVE  \E c \in Writing : \E u \in 0 .. tailIn[c] - 1 :
           arrived[c][u] = "yes" /\ r = RangeOf(in[c][u])
<1>1. PICK i \in Edges : gPrims[i] # Blank /\ r = RangeOf(gPrims[i])
  BY DEF Published
<1>2. PICK c \in Writing, u \in Threads : arrived[c][u] = "yes" /\ i = tailOut[c] + u
  BY <1>1 DEF Unwritten
<1>3. u < tailIn[c] /\ gPrims[tailOut[c] + u] = in[c][u]
  BY <1>2 DEF Inv, GlobalInv
<1>4. tailIn[c] \in Nat /\ u \in 0 .. tailIn[c] - 1
  BY <1>2, <1>3, BlockSizeAssumption DEF Inv, TypeOK, Writing, Threads
<1> QED
  BY <1>1, <1>2, <1>3, <1>4

(* A step that leaves the global array and the blocks that write alone. *)
LEMMA UnwrittenKept ==
  ASSUME Unwritten, gPrims' = gPrims, Writing \subseteq Writing',
         \A c \in Writing : tailOut'[c] = tailOut[c] /\ arrived'[c] = arrived[c]
  PROVE  Unwritten'
<1> SUFFICES ASSUME NEW i \in Edges, gPrims[i] # Blank
             PROVE  \E b \in Writing', t \in Threads :
                      arrived'[b][t] = "yes" /\ i = tailOut'[b] + t
  BY DEF Unwritten
<1>1. PICK b \in Writing, t \in Threads : arrived[b][t] = "yes" /\ i = tailOut[b] + t
  BY DEF Unwritten
<1> QED
  BY <1>1

(* A store to global memory publishes one range, apart from all before. *)
LEMMA WritePublishes ==
  ASSUME Inv, Unwritten, NEW b \in Blocks, NEW t \in Threads, Write(b, t)
  PROVE  /\ Unwritten'
         /\ nPrims' = nPrims /\ nPrims = 0
         /\ RangeOf(in[b][t]) \in Cover!EdgeRanges
         /\ \A r \in Published : Cover!EdgesOf(r) \cap Cover!EdgesOf(RangeOf(in[b][t])) = {}
         /\ Published' = Published \cup {RangeOf(in[b][t])}
<1> USE NEAssumption, BlockSizeAssumption
<1> DEFINE k == tailOut[b] + t
<1>1. /\ b \in Writing /\ t < tailIn[b] /\ arrived[b][t] = "no"
      /\ gPrims' = [gPrims EXCEPT ![k] = in[b][t]]
      /\ arrived' = [arrived EXCEPT ![b][t] = "yes"]
      /\ Writing' = Writing /\ tailOut' = tailOut /\ nPrims' = nPrims
  BY DEF Write, Writing
<1>2. t \in 0 .. tailIn[b] - 1
  BY <1>1 DEF Threads, Inv, TypeOK
<1>3. /\ k \in Edges /\ in[b][t] # Blank
      /\ in[b][t].lo \in Nat /\ in[b][t].hi \in Nat
      /\ EidBegin(b) <= in[b][t].lo
      /\ in[b][t].lo < in[b][t].hi
      /\ in[b][t].hi <= EidEnd(b)
      /\ tailOut[b] \in Nat
  BY <1>1, <1>2, OwnPrimitive
<1>4. gPrims[k] = Blank
  <2> SUFFICES ASSUME gPrims[k] # Blank PROVE FALSE
    OBVIOUS
  <2>1. PICK c \in Writing, u \in Threads : arrived[c][u] = "yes" /\ k = tailOut[c] + u
    BY <1>3 DEF Unwritten
  <2>2. c \in Blocks /\ tailOut[c] \in Nat /\ tailIn[c] \in Nat /\ tailIn[b] \in Nat /\ u < tailIn[c]
    BY <2>1 DEF Inv, TypeOK, GlobalInv, Writing
  <2>3. c = b
    <3>1. c # b => \/ tailOut[b] + tailIn[b] <= tailOut[c]
                   \/ tailOut[c] + tailIn[c] <= tailOut[b]
      BY <1>1 DEF Inv, GlobalInv
    <3> QED
      BY <1>1, <1>3, <2>1, <2>2, <3>1 DEF Threads
  <2>4. u = t
    BY <1>3, <2>1, <2>3 DEF Threads
  <2> QED
    BY <1>1, <2>1, <2>3, <2>4
<1>5. nPrims = 0
  <2>1. nPrims > 0 => BlockDone(b)
    BY DEF Inv, GlobalInv
  <2>2. nPrims \in Nat
    BY DEF Inv, TypeOK
  <2> QED
    BY <1>1, <2>1, <2>2 DEF BlockDone
<1>6. RangeOf(in[b][t]) \in Cover!EdgeRanges
  <2>1. EidBegin(b) \in Nat /\ EidEnd(b) \in Nat /\ EidEnd(b) <= NE
    BY BlockRange
  <2>2. in[b][t].lo \in 0 .. NE - 1 /\ in[b][t].hi \in 1 .. NE
    BY <1>3, <2>1
  <2> QED
    BY <1>3, <2>2 DEF RangeOf, Cover!EdgeRanges, Cover!Edges
<1>7. ASSUME NEW r \in Published
      PROVE  Cover!EdgesOf(r) \cap Cover!EdgesOf(RangeOf(in[b][t])) = {}
  <2>1. PICK c \in Writing : \E v \in 0 .. tailIn[c] - 1 :
          arrived[c][v] = "yes" /\ r = RangeOf(in[c][v])
    BY PublishedBy
  <2>2. PICK u \in 0 .. tailIn[c] - 1 : arrived[c][u] = "yes" /\ r = RangeOf(in[c][u])
    BY <2>1
  <2>3. c # b \/ u # t
    BY <1>1, <2>2
  <2>4. in[b][t].hi <= in[c][u].lo \/ in[c][u].hi <= in[b][t].lo
    BY <1>1, <1>2, <2>3, PrimitivesApart
  <2>5. in[c][u].lo \in Nat /\ in[c][u].hi \in Nat
    BY OwnPrimitive
  <2> QED
    BY <1>3, <2>2, <2>4, <2>5 DEF Cover!EdgesOf, RangeOf
<1>8. gPrims \in [Edges -> Prim]
  BY DEF Inv, TypeOK
<1> HIDE DEF k
<1>9. gPrims'[k] = in[b][t] /\ \A i \in Edges : i # k => gPrims'[i] = gPrims[i]
  BY <1>1, <1>3, <1>8
<1>10. Published' = Published \cup {RangeOf(in[b][t])}
  <2>1. ASSUME NEW r \in Published'
        PROVE  r \in Published \cup {RangeOf(in[b][t])}
    <3>1. PICK i \in Edges : gPrims'[i] # Blank /\ r = RangeOf(gPrims'[i])
      BY DEF Published, RangeOf
    <3>2. CASE i = k
      BY <1>9, <3>1, <3>2
    <3>3. CASE i # k
      BY <1>9, <3>1, <3>3 DEF Published
    <3> QED
      BY <3>2, <3>3
  <2>2. ASSUME NEW r \in Published
        PROVE  r \in Published'
    <3>1. PICK i \in Edges : gPrims[i] # Blank /\ r = RangeOf(gPrims[i])
      BY DEF Published
    <3>2. i # k
      BY <1>4, <3>1 DEF k
    <3>3. gPrims'[i] # Blank /\ r = RangeOf(gPrims'[i])
      BY <1>9, <3>1, <3>2
    <3> QED
      BY <3>3 DEF Published, RangeOf
  <2>3. RangeOf(in[b][t]) \in Published'
    BY <1>3, <1>9 DEF Published, RangeOf, k
  <2> QED
    BY <2>1, <2>2, <2>3
<1>11. Unwritten'
  <2> SUFFICES ASSUME NEW i \in Edges, gPrims'[i] # Blank
               PROVE  \E c \in Writing, u \in Threads : arrived'[c][u] = "yes" /\ i = tailOut[c] + u
    BY <1>1 DEF Unwritten
  <2>1. arrived \in [Blocks -> [Threads -> {"no", "drawn", "yes"}]]
    BY DEF Inv, TypeOK
  <2>2. CASE i = k
    BY <1>1, <2>1, <2>2 DEF k
  <2>3. CASE i # k
    <3>1. PICK c \in Writing, u \in Threads : arrived[c][u] = "yes" /\ i = tailOut[c] + u
      BY <1>9, <2>3 DEF Unwritten
    <3>2. arrived'[c][u] = "yes"
      BY <1>1, <2>1, <3>1 DEF Writing
    <3> QED
      BY <3>1, <3>2
  <2> QED
    BY <2>2, <2>3
<1> QED
  BY <1>1, <1>5, <1>6, <1>7, <1>10, <1>11

(* When all blocks are done every edge is in a published range, and there is
   one at all. *)
LEMMA AllPublished ==
  ASSUME Inv, \A b \in Blocks : BlockDone(b)
  PROVE  /\ gTail > 0
         /\ \A e \in Edges : \E r \in Published : e \in Cover!EdgesOf(r)
<1> USE NEAssumption, BlockSizeAssumption
<1>1. ASSUME NEW e \in Edges
      PROVE  \E b \in Writing : \E s \in 0 .. tailIn[b] - 1 :
               in[b][s].lo <= e /\ e < in[b][s].hi
  <2>1. PICK b \in Blocks : EidBegin(b) <= e /\ e < EidEnd(b)
    BY BlockOf
  <2>2. b \in Writing
    BY DEF BlockDone, Writing
  <2>3. e \in EidBegin(b) .. EidEnd(b) - 1
    BY <2>1, BlockRange DEF Edges
  <2>4. Partition(in[b], tailIn[b], EidBegin(b), EidEnd(b))
    BY <2>2 DEF Inv, BlockInv, Writing
  <2> QED
    BY <2>2, <2>3, <2>4 DEF Partition
<1>2. ASSUME NEW e \in Edges
      PROVE  gTail > 0 /\ \E r \in Published : e \in Cover!EdgesOf(r)
  <2>1. PICK b \in Writing : \E s \in 0 .. tailIn[b] - 1 : in[b][s].lo <= e /\ e < in[b][s].hi
    BY <1>1
  <2>2. PICK s \in 0 .. tailIn[b] - 1 : in[b][s].lo <= e /\ e < in[b][s].hi
    BY <2>1
  <2>3. /\ b \in Blocks /\ s \in Threads /\ s < tailIn[b] /\ tailOut[b] \in Nat
        /\ tailOut[b] + s \in Edges /\ tailOut[b] + s < gTail
        /\ in[b][s].lo \in Nat /\ in[b][s].hi \in Nat /\ in[b][s] # Blank
    BY OwnPrimitive
  <2>4. arrived[b][s] = "yes"
    BY <2>3 DEF BlockDone
  <2>5. gPrims[tailOut[b] + s] = in[b][s]
    BY <2>3, <2>4 DEF Inv, GlobalInv
  <2>6. RangeOf(in[b][s]) \in Published
    BY <2>3, <2>5 DEF Published
  <2>7. e \in Cover!EdgesOf(RangeOf(in[b][s]))
    BY <2>2, <2>3 DEF Cover!EdgesOf, RangeOf, Edges
  <2>8. gTail > 0
    BY <2>3 DEF Inv, TypeOK, Threads
  <2> QED
    BY <2>6, <2>7, <2>8
<1>3. 0 \in Edges
  BY DEF Edges
<1> QED
  BY <1>2, <1>3 DEF Cover!Edges, Edges

(* The kernel and the host together implement EdgeCover: a store to global
   memory publishes a range no edge of which was published before, the host
   takes the array only when every edge is in it, and no other step changes
   what is published. *)
THEOREM Refinement == Spec => CoverSpec
<1>1. Init => Unwritten /\ Published = {} /\ Collected = FALSE
  <2> SUFFICES ASSUME Init PROVE Unwritten /\ Published = {} /\ Collected = FALSE
    OBVIOUS
  <2>1. \A i \in Edges : gPrims[i] = Blank
    BY DEF Init
  <2>2. nPrims = 0
    BY DEF Init
  <2> QED
    BY <2>1, <2>2 DEF Unwritten, Published, Collected
<1>2. ASSUME Inv, Unwritten, [Next]_vars
      PROVE  Unwritten' /\ [Cover!Next]_<<Published, Collected>>
  <2>1. ASSUME gPrims' = gPrims, nPrims' = nPrims, Writing \subseteq Writing',
               \A c \in Writing : tailOut'[c] = tailOut[c] /\ arrived'[c] = arrived[c]
        PROVE  Unwritten' /\ [Cover!Next]_<<Published, Collected>>
    <3>1. Published' = Published /\ Collected' = Collected
      BY <2>1 DEF Published, Collected, RangeOf
    <3> QED
      BY <1>2, <2>1, <3>1, UnwrittenKept
  <2>2. ASSUME NEW b \in Blocks, NEW t \in Threads, Write(b, t)
        PROVE  Unwritten' /\ [Cover!Next]_<<Published, Collected>>
    <3>1. PICK r : r = RangeOf(in[b][t])
      OBVIOUS
    <3>2. /\ Unwritten' /\ nPrims' = nPrims /\ nPrims = 0
          /\ r \in Cover!EdgeRanges
          /\ \A q \in Published : Cover!EdgesOf(q) \cap Cover!EdgesOf(r) = {}
          /\ Published' = Published \cup {r}
      BY <1>2, <2>2, <3>1, WritePublishes
    <3>3. ~ Collected /\ Collected' = Collected
      BY <3>2 DEF Collected
    <3>4. Cover!Publish(r)
      BY <3>2, <3>3 DEF Cover!Publish, Published, RangeOf
    <3>5. Cover!Next
      BY <3>2, <3>4 DEF Cover!Next
    <3> QED
      BY <3>2, <3>5
  <2>3. CASE Collect
    <3>1. /\ nPrims = 0 /\ nPrims' = gTail
          /\ UNCHANGED <<blockVars, gPrims>>
          /\ gTail > 0
          /\ \A e \in Cover!Edges : \E r \in Published : e \in Cover!EdgesOf(r)
      BY <1>2, <2>3, AllPublished DEF Collect, Edges, Cover!Edges
    <3>2. Unwritten'
      BY <1>2, <3>1, UnwrittenKept DEF blockVars, Writing
    <3>3. Published' = Published /\ ~ Collected /\ Collected'
      BY <3>1 DEF Published, RangeOf, Collected
    <3>4. Cover!Seal
      BY <3>1, <3>3 DEF Cover!Seal, Published, RangeOf
    <3>5. Cover!Next
      BY <3>4 DEF Cover!Next
    <3> QED
      BY <3>2, <3>5
  <2>4. CASE UNCHANGED vars
    BY <2>1, <2>4 DEF vars, Writing
  <2>5. ASSUME NEW b \in Blocks, Load(b) \/ EndRound(b) \/ Reserve(b)
        PROVE  Unwritten' /\ [Cover!Next]_<<Published, Collected>>
    <3>1. gPrims' = gPrims /\ nPrims' = nPrims /\ b \notin Writing
      BY <2>5 DEF Load, EndRound, Reserve, Writing
    <3>2. Writing \subseteq Writing'
      BY <1>2, <2>5, <3>1 DEF Inv, TypeOK, Load, EndRound, Reserve, Writing
    <3>3. \A c \in Writing : tailOut'[c] = tailOut[c] /\ arrived'[c] = arrived[c]
      BY <1>2, <2>5, <3>1 DEF Inv, TypeOK, Load, EndRound, Reserve, Writing
    <3> QED
      BY <2>1, <3>1, <3>2, <3>3
  <2>6. ASSUME NEW b \in Blocks, NEW t \in Threads, Draw(b, t) \/ Store(b, t)
        PROVE  Unwritten' /\ [Cover!Next]_<<Published, Collected>>
    <3>1. /\ gPrims' = gPrims /\ nPrims' = nPrims /\ b \notin Writing
          /\ Writing' = Writing
      BY <2>6 DEF Draw, Store, Writing
    <3>2. \A c \in Writing : tailOut'[c] = tailOut[c] /\ arrived'[c] = arrived[c]
      BY <1>2, <2>6, <3>1 DEF Inv, TypeOK, Draw, Store, Writing
    <3> QED
      BY <2>1, <3>1, <3>2
  <2> QED
    BY <1>2, <2>2, <2>3, <2>4, <2>5, <2>6 DEF Next, Idle, BlockStep
<1>3. Spec => []Unwritten
  BY <1>1, <1>2, Invariance, PTL DEF Spec
<1>4. Init => Cover!Init
  BY <1>1 DEF Cover!Init, Published, RangeOf
<1>5. Inv /\ Unwritten /\ [Next]_vars => [Cover!Next]_(Cover!coverVars)
  BY <1>2 DEF Cover!coverVars, Published, RangeOf
<1> QED
  BY <1>3, <1>4, <1>5, Invariance, PTL DEF Spec, CoverSpec, Cover!Spec
=============================================================================
