------------------------- MODULE CrossingQueueProofs -------------------------
(***************************************************************************)
(* Proofs about CrossingQueue, for every number of edges, every relation   *)
(* of crossings, every grouping, capacity and back end.                    *)
(***************************************************************************)
EXTENDS CrossingQueue, SharedLemmas

(* The pair is still to be stored: its ray has not met the edge, or has
   drawn a slot for it that it has not stored to. *)
Waiting(p) == p[2] \in left[p[1]] \/ \E q \in todo[p[1]] : p[2] \in q

(* The pair whose ray has drawn a slot for it and not stored yet. *)
Held(p) == slot[p[1]] # NoSlot /\ p[2] = Current(p[1])

(* The pairs a slot has been drawn for since the last launch. *)
Drawn == {p \in crosses : Waiting(p) => Held(p)}

(* A launch has taken place, and the counter is still the one it left. *)
Launched == host \in {"wait", "finalize", "done"} \/ (host = "clear" /\ round > 0)

(* Whether the stored records have their point. *)
Computed == host \in {"clear", "done"} \/ mode # "rt"

(* Every edge of the base map is behind exactly one primitive. *)
Partition ==
  /\ prims \subseteq SUBSET BaseEdges
  /\ \A e \in BaseEdges : \E p \in prims : e \in p
  /\ \A p, q \in prims : p # q => p \cap q = {}

InputsOK ==
  /\ mode \in Modes
  /\ qmap \in {0, 1}
  /\ crosses \subseteq Pairs
  /\ Partition
  /\ fresh \in 0 .. MaxFresh
  /\ mode # "vk" => fresh = 0

HostOK ==
  /\ host \in {"clear", "launch", "wait", "finalize", "done"}
  /\ round \in 0 .. Rounds
  /\ host # "done" => round < Rounds
  /\ host = "clear" => mode # "vk"
  /\ (host = "launch" \/ (host = "clear" /\ round = 0)) => counter = fresh
  /\ host # "wait" => RaysDone
  /\ size \in 0 .. MaxFresh + NQ * NB
  /\ (host \in {"finalize", "done"} \/ (host = "clear" /\ round > 0)) => size = counter

RaysOK ==
  /\ todo \in [Rays -> SUBSET prims]
  /\ left \in [Rays -> SUBSET BaseEdges]
  /\ slot \in [Rays -> Int]
  /\ \A r \in Rays :
       /\ left[r] \subseteq Crossed(r)
       /\ \A p \in todo[r] : p \cap left[r] = {}
       /\ slot[r] # NoSlot => left[r] # {}

MemOK ==
  /\ counter \in Nat
  /\ fresh <= counter
  /\ mem \in [Slots -> Xsect]
  /\ InBounds

(* pos numbers the drawn pairs from what the counter was at the launch to
   what it is now; a ray that has not stored yet holds its pair's number, and
   the other numbers have their pairs. *)
Numbers(pos) ==
  /\ \A r \in Rays : slot[r] # NoSlot => slot[r] = pos[<<r, Current(r)>>]
  /\ \A p \in crosses : (~ Waiting(p) /\ Stores(pos[p])) =>
       mem[pos[p]] = Record(p[1], p[2], Computed)

Numbered == \E pos \in Bijection(Drawn, fresh .. counter - 1) : Numbers(pos)

(* The inductive invariant. *)
Inv ==
  /\ InputsOK
  /\ HostOK
  /\ RaysOK
  /\ MemOK
  /\ Launched => Numbered
-----------------------------------------------------------------------------
(* A ray that has an edge to append appends one of them. *)
LEMMA CurrentIsLeft ==
  ASSUME RaysOK, NEW r \in Rays, left[r] # {}
  PROVE  Current(r) \in left[r]
<1>1. left[r] \in SUBSET Nat
  BY NBAssumption DEF RaysOK, BaseEdges
<1>2. \E e \in left[r] : \A f \in left[r] : e <= f
  BY <1>1, LeastElement
<1> QED
  BY <1>2 DEF Current

(* The pairs are finitely many. *)
LEMMA PairsFinite ==
  /\ IsFiniteSet(Pairs)
  /\ Cardinality(Pairs) = NQ * NB
<1>1. /\ IsFiniteSet(Rays) /\ Cardinality(Rays) = NQ
      /\ IsFiniteSet(BaseEdges) /\ Cardinality(BaseEdges) = NB
  BY NQAssumption, NBAssumption, FS_Interval DEF Rays, BaseEdges
<1> QED
  BY <1>1, FS_Product DEF Pairs

(* The counter advanced by the number of pairs drawn: with the pairs there
   can be, it and every drawn number are within bounds. *)
LEMMA Counted ==
  ASSUME Inv, Launched
  PROVE  /\ IsFiniteSet(crosses)
         /\ Cardinality(crosses) \in Nat
         /\ counter = fresh + Cardinality(Drawn)
         /\ counter <= fresh + Cardinality(crosses)
         /\ Cardinality(crosses) <= NQ * NB
         /\ counter \in fresh .. MaxFresh + NQ * NB
         /\ fresh .. counter - 1 \subseteq Slots
<1>1. PICK pos \in Bijection(Drawn, fresh .. counter - 1) : TRUE
  BY DEF Inv, Numbered
<1>2. fresh \in Nat /\ counter \in Nat /\ fresh <= counter /\ fresh <= MaxFresh
  BY MaxFreshAssumption DEF Inv, InputsOK, MemOK
<1>3. /\ IsFiniteSet(crosses)
      /\ Cardinality(crosses) <= NQ * NB
  BY PairsFinite, FS_Subset DEF Inv, InputsOK
<1>4. /\ IsFiniteSet(Drawn)
      /\ Cardinality(Drawn) <= Cardinality(crosses)
  <2>1. Drawn \in SUBSET crosses
    BY DEF Drawn
  <2> QED
    BY <1>3, <2>1, FS_Subset
<1>5. Cardinality(fresh .. counter - 1) = counter - fresh
  <2>1. Cardinality(fresh .. counter - 1)
          = IF fresh > counter - 1 THEN 0 ELSE (counter - 1) - fresh + 1
    BY <1>2, FS_Interval
  <2> QED
    BY <1>2, <2>1
<1>6. Cardinality(fresh .. counter - 1) = Cardinality(Drawn)
  <2>1. ExistsBijection(Drawn, fresh .. counter - 1)
    BY <1>1 DEF ExistsBijection
  <2> QED
    BY <1>4, <2>1, FS_Bijection
<1>7. Cardinality(crosses) \in Nat /\ Cardinality(Drawn) \in Nat
  BY <1>3, <1>4, FS_CardinalityType
<1>8. NQ * NB \in Nat
  BY NQAssumption, NBAssumption
<1>9. /\ counter = fresh + Cardinality(Drawn)
      /\ counter <= fresh + Cardinality(crosses)
      /\ counter <= MaxFresh + NQ * NB
  BY <1>2, <1>3, <1>4, <1>5, <1>6, <1>7, <1>8, MaxFreshAssumption
<1> DEFINE top == MaxFresh + NQ * NB
<1>10. top \in Nat /\ counter <= top
  BY <1>8, <1>9, MaxFreshAssumption
<1>11. /\ fresh .. counter - 1 \subseteq 0 .. top - 1
       /\ counter \in fresh .. top
  <2> HIDE DEF top
  <2> QED
    BY <1>2, <1>10
<1>12. Slots = 0 .. top - 1
  BY <1>8, MaxFreshAssumption DEF Slots
<1> QED
  BY <1>3, <1>7, <1>9, <1>11, <1>12

-----------------------------------------------------------------------------
(* Adjacent ranges that together are the base map are a partition of it. *)
LEMMA RangesPartition ==
  ASSUME NEW C \in Cuts, prims = Ranges(C)
  PROVE  Partition
<1> DEFINE Range0(lo) == {e \in BaseEdges : lo <= e /\ \A c \in C : (c > lo) => e < c}
<1> DEFINE Starts == C \cup {0}
<1>1. prims = {Range0(lo) : lo \in Starts}
  BY DEF Ranges
<1>2. BaseEdges \subseteq Nat /\ Starts \subseteq Nat
  BY NBAssumption DEF BaseEdges, Cuts
<1>3. \A lo \in Starts : \A e : e \in Range0(lo) <=>
        e \in BaseEdges /\ lo <= e /\ \A c \in C : (c > lo) => e < c
  OBVIOUS
<1> HIDE DEF Range0
<1>4. prims \subseteq SUBSET BaseEdges
  BY <1>1, <1>3
<1>5. ASSUME NEW e \in BaseEdges
      PROVE  \E p \in prims : e \in p
  <2> DEFINE Back == {n \in Nat : \E lo \in Starts : lo + n = e}
  <2>1. e \in Nat
    BY <1>2
  <2>2. e \in Back /\ Back \in SUBSET Nat
    <3>1. 0 \in Starts /\ 0 + e = e
      BY <2>1
    <3> QED
      BY <2>1, <3>1
  <2>3. PICK n \in Back : \A k \in Back : n <= k
    <3> HIDE DEF Back
    <3> QED
      BY <2>2, LeastElement
  <2>4. PICK lo \in Starts : lo + n = e
    BY <2>3
  <2>5. lo \in Nat /\ n \in Nat /\ lo <= e
    BY <1>2, <2>1, <2>3, <2>4
  <2>6. ASSUME NEW c \in C, c > lo
        PROVE  e < c
    <3>1. c \in Nat /\ c \in Starts
      BY <1>2
    <3>2. CASE c <= e
      <4>1. e - c \in Nat /\ c + (e - c) = e
        BY <2>1, <3>1, <3>2
      <4>2. e - c \in Back
        BY <3>1, <4>1
      <4>3. n <= e - c
        BY <2>3, <4>2
      <4> QED
        BY <2>1, <2>4, <2>5, <2>6, <3>1, <4>3
    <3> QED
      BY <2>1, <3>1, <3>2
  <2>7. e \in Range0(lo)
    BY <1>3, <2>5, <2>6
  <2> QED
    BY <1>1, <2>7
<1>6. ASSUME NEW p \in prims, NEW q \in prims, NEW e \in p, e \in q
      PROVE  p = q
  <2>1. PICK lo \in Starts : p = Range0(lo)
    BY <1>1
  <2>2. PICK hi \in Starts : q = Range0(hi)
    BY <1>1
  <2>3. lo \in Nat /\ hi \in Nat /\ e \in Nat
    BY <1>2, <1>3, <2>1
  <2>4. lo <= e /\ hi <= e
    BY <1>3, <1>6, <2>1, <2>2
  <2>5. ~ (lo < hi)
    <3>1. lo < hi => hi \in C
      BY <2>3
    <3> QED
      BY <1>3, <1>6, <2>1, <2>3, <2>4, <3>1
  <2>6. ~ (hi < lo)
    <3>1. hi < lo => lo \in C
      BY <2>3
    <3> QED
      BY <1>3, <1>6, <2>2, <2>3, <2>4, <3>1
  <2> QED
    BY <2>1, <2>2, <2>3, <2>5, <2>6
<1> QED
  BY <1>4, <1>5, <1>6 DEF Partition

(* The invariant holds when the program starts. *)
LEMMA InitHolds == ASSUME Init PROVE Inv
<1>1. PICK C \in Cuts : prims = Ranges(C)
  BY DEF Init
<1>2. Partition
  BY <1>1, RangesPartition
<1>3. InputsOK
  <2>1. fresh \in 0 .. MaxFresh /\ (mode # "vk" => fresh = 0)
    BY MaxFreshAssumption DEF Init
  <2> QED
    BY <1>2, <2>1 DEF Init, InputsOK
<1>4. HostOK
  <2>1. 0 \in 0 .. MaxFresh + NQ * NB
    <3>1. NQ * NB \in Nat
      BY NQAssumption, NBAssumption
    <3>2. MaxFresh + NQ * NB \in Nat
      BY <3>1, MaxFreshAssumption
    <3> QED
      BY <3>2
  <2>2. 0 \in 0 .. Rounds /\ 0 < Rounds
    BY RoundsAssumption
  <2>3. RaysDone
    BY DEF Init, RaysDone
  <2> QED
    BY <2>1, <2>2, <2>3 DEF Init, HostOK
<1>5. RaysOK
  BY DEF Init, RaysOK, NoSlot
<1>6. MemOK
  <2>1. Garbage \in Xsect
    BY NQAssumption, NBAssumption DEF Garbage, Xsect
  <2>2. mem \in [Slots -> Xsect] /\ InBounds
    BY <2>1 DEF Init, InBounds
  <2>3. fresh \in Nat /\ counter = fresh
    BY MaxFreshAssumption DEF Init
  <2> QED
    BY <2>2, <2>3 DEF MemOK
<1>7. ~ Launched
  BY DEF Init, Launched
<1> QED
  BY <1>3, <1>4, <1>5, <1>6, <1>7 DEF Inv

(* A step that leaves the inputs alone keeps what is known of them. *)
LEMMA InputsKept == ASSUME InputsOK, UNCHANGED inputs PROVE InputsOK'
BY DEF InputsOK, inputs, Partition

(* The current edge depends only on what is left. *)
LEMMA CurrentKept ==
  ASSUME NEW r, left'[r] = left[r]
  PROVE  Current(r)' = Current(r)
BY DEF Current

(* The host clears the counter before a CUDA query. *)
LEMMA ClearStep == ASSUME Inv, Clear PROVE Inv'
<1>1. InputsOK'
  BY InputsKept DEF Inv, Clear
<1>2. HostOK'
  BY DEF Inv, HostOK, InputsOK, Clear, inputs, RaysDone
<1>3. RaysOK'
  BY DEF Inv, RaysOK, Clear, inputs, Crossed
<1>4. MemOK'
  <2>1. fresh' = 0 /\ counter' = 0
    BY DEF Inv, InputsOK, HostOK, Clear, inputs
  <2> QED
    BY <2>1 DEF Inv, MemOK, InBounds, Fits, Clear, inputs
<1>5. ~ Launched'
  BY DEF Clear, Launched
<1> QED
  BY <1>1, <1>2, <1>3, <1>4, <1>5 DEF Inv

(* The launch: no pair is drawn, and every pair that crosses is waiting. *)
LEMMA LaunchStep == ASSUME Inv, Launch PROVE Inv'
<1>1. InputsOK'
  BY InputsKept DEF Inv, Launch
<1>2. RaysDone /\ counter = fresh
  BY DEF Inv, HostOK, Launch
<1>3. HostOK'
  BY DEF Inv, HostOK, Launch
<1>4. RaysOK'
  <2>1. todo' \in [Rays -> SUBSET prims]
    BY DEF Launch
  <2>2. \A r \in Rays : left'[r] = {} /\ slot'[r] = NoSlot
    BY <1>2 DEF RaysDone, Launch
  <2> QED
    BY <2>1, <2>2 DEF Inv, RaysOK, Launch, inputs
<1>5. MemOK'
  BY DEF Inv, MemOK, InBounds, Fits, Launch, inputs
<1>6. \A p \in crosses' : Waiting(p)' /\ ~ Held(p)'
  <2> SUFFICES ASSUME NEW p \in crosses
               PROVE  Waiting(p)' /\ ~ Held(p)'
    BY DEF Launch, inputs
  <2>1. p[1] \in Rays /\ p[2] \in BaseEdges /\ p = <<p[1], p[2]>>
    BY DEF Inv, InputsOK, Pairs
  <2>2. PICK q \in prims : p[2] \in q
    BY <2>1 DEF Inv, InputsOK, Partition
  <2>3. p[2] \in Crossed(p[1])
    BY <2>1 DEF Crossed
  <2>4. q \in todo'[p[1]]
    BY <2>1, <2>2, <2>3 DEF Launch
  <2>5. slot'[p[1]] = NoSlot
    BY <1>2, <2>1 DEF RaysDone, Launch
  <2> QED
    BY <2>2, <2>4, <2>5 DEF Waiting, Held
<1>7. Drawn' = {}
  BY <1>6 DEF Drawn
<1>8. fresh' .. counter' - 1 = {}
  <2>1. fresh' = counter' /\ counter' \in Nat
    BY <1>2, <1>5 DEF Launch, inputs, MemOK
  <2>2. \A n \in Nat : n .. n - 1 = {}
    OBVIOUS
  <2> QED
    BY <2>1, <2>2
<1>9. Numbered'
  <2> DEFINE pos == [p \in {} |-> 0]
  <2>1. pos \in Bijection({}, {})
    BY DEF Bijection, Injection, Surjection, IsInjective
  <2>2. \A r \in Rays : slot'[r] = NoSlot
    BY <1>2 DEF RaysDone, Launch
  <2> HIDE DEF pos
  <2>3. Numbers(pos)'
    BY <1>6, <2>2 DEF Numbers
  <2> QED
    BY <1>7, <1>8, <2>1, <2>3 DEF Numbered
<1> QED
  BY <1>1, <1>3, <1>4, <1>5, <1>9 DEF Inv

(* A ray enters a box: its crossing edges go from todo to left. *)
LEMMA EnterStep == ASSUME Inv, NEW r \in Rays, Enter(r) PROVE Inv'
<1>1. InputsOK'
  BY InputsKept DEF Inv, Enter
<1>2. PICK p \in todo[r] : /\ todo' = [todo EXCEPT ![r] = @ \ {p}]
                           /\ left' = [left EXCEPT ![r] = p \cap Crossed(r)]
  BY DEF Enter
<1>3. /\ UNCHANGED <<inputs, host, round, slot, counter, mem, size>>
      /\ slot[r] = NoSlot /\ left[r] = {}
  BY DEF Enter
<1>4. todo \in [Rays -> SUBSET prims] /\ left \in [Rays -> SUBSET BaseEdges]
  BY DEF Inv, RaysOK
<1>5. host = "wait"
  BY DEF Inv, HostOK, RaysDone, Enter
<1>6. HostOK'
  BY <1>3, <1>5 DEF Inv, HostOK, inputs
<1>7. \A s \in Rays : s # r => todo'[s] = todo[s] /\ left'[s] = left[s]
  BY <1>2, <1>4
<1>8. todo'[r] = todo[r] \ {p} /\ left'[r] = p \cap Crossed(r)
  BY <1>2, <1>4
<1>9. RaysOK'
  <2>1. p \in prims /\ p \subseteq BaseEdges
    BY <1>4 DEF Inv, InputsOK, Partition
  <2>2. todo' \in [Rays -> SUBSET prims] /\ left' \in [Rays -> SUBSET BaseEdges]
    BY <1>2, <1>4, <2>1
  <2>3. \A q \in todo[r] \ {p} : q \cap p = {}
    BY <1>4, <2>1 DEF Inv, InputsOK, Partition
  <2>4. \A s \in Rays : Crossed(s)' = Crossed(s)
    BY <1>3 DEF Crossed, inputs
  <2>5. ASSUME NEW s \in Rays
        PROVE  /\ left'[s] \subseteq Crossed(s)'
               /\ \A q \in todo'[s] : q \cap left'[s] = {}
               /\ slot'[s] # NoSlot => left'[s] # {}
    <3>1. CASE s = r
      BY <1>3, <1>8, <2>3, <2>4, <3>1
    <3>2. CASE s # r
      BY <1>3, <1>7, <2>4, <3>2 DEF Inv, RaysOK
    <3> QED
      BY <3>1, <3>2
  <2>6. slot' \in [Rays -> Int] /\ prims' = prims
    BY <1>3 DEF Inv, RaysOK, inputs
  <2> QED
    BY <2>2, <2>5, <2>6 DEF RaysOK
<1>10. MemOK'
  BY <1>3 DEF Inv, MemOK, InBounds, Fits, inputs
<1>11. \A x \in crosses : (Waiting(x)' <=> Waiting(x)) /\ (Held(x)' <=> Held(x))
  <2> SUFFICES ASSUME NEW x \in crosses
               PROVE  (Waiting(x)' <=> Waiting(x)) /\ (Held(x)' <=> Held(x))
    OBVIOUS
  <2>1. x[1] \in Rays /\ x[2] \in BaseEdges /\ x = <<x[1], x[2]>>
    BY DEF Inv, InputsOK, Pairs
  <2>2. x[2] \in Crossed(x[1])
    BY <2>1 DEF Crossed
  <2>3. CASE x[1] = r
    <3>1. Waiting(x)' <=> Waiting(x)
      BY <1>3, <1>8, <2>2, <2>3 DEF Waiting
    <3>2. ~ Held(x)' /\ ~ Held(x)
      BY <1>3, <2>3 DEF Held
    <3> QED
      BY <3>1, <3>2
  <2>4. CASE x[1] # r
    <3>1. todo'[x[1]] = todo[x[1]] /\ left'[x[1]] = left[x[1]]
      BY <1>7, <2>1, <2>4
    <3>2. Current(x[1])' = Current(x[1])
      BY <3>1, CurrentKept
    <3> QED
      BY <1>3, <3>1, <3>2 DEF Waiting, Held
  <2> QED
    BY <2>3, <2>4
<1>12. Drawn' = Drawn
  BY <1>3, <1>11 DEF Drawn, inputs
<1>13. PICK pos \in Bijection(Drawn, fresh .. counter - 1) : Numbers(pos)
  BY <1>5 DEF Inv, Launched, Numbered
<1>14. Numbers(pos)'
  <2>1. ASSUME NEW s \in Rays, slot'[s] # NoSlot
        PROVE  slot'[s] = pos[<<s, Current(s)'>>]
    <3>1. s # r /\ slot[s] # NoSlot
      BY <1>3, <2>1
    <3>2. Current(s)' = Current(s)
      BY <1>7, <3>1, CurrentKept
    <3> QED
      BY <1>3, <1>13, <3>1, <3>2 DEF Numbers
  <2>2. ASSUME NEW x \in crosses, ~ Waiting(x)', Stores(pos[x])'
        PROVE  mem'[pos[x]] = Record(x[1], x[2], Computed)'
    <3>1. ~ Waiting(x) /\ Stores(pos[x])
      BY <1>3, <1>11, <2>2 DEF Stores, inputs
    <3>2. mem[pos[x]] = Record(x[1], x[2], Computed)
      BY <1>13, <3>1 DEF Numbers
    <3> QED
      BY <1>3, <3>2 DEF Record, Computed, inputs
  <2>3. crosses' = crosses
    BY <1>3 DEF inputs
  <2> QED
    BY <2>1, <2>2, <2>3 DEF Numbers
<1>15. Numbered'
  <2>1. fresh' .. counter' - 1 = fresh .. counter - 1
    BY <1>3 DEF inputs
  <2> QED
    BY <1>12, <1>13, <1>14, <2>1 DEF Numbered
<1> QED
  BY <1>1, <1>6, <1>9, <1>10, <1>15 DEF Inv

(* Rays that append together draw the numbers that follow the counter. *)
LEMMA DrawStep == ASSUME Inv, NEW G \in Groups, Draw(G) PROVE Inv'
<1> DEFINE n == Cardinality(G)
<1>1. PICK rank \in Bijection(G, 0 .. n - 1) :
        slot' = [r \in Rays |-> IF r \in G THEN counter + rank[r] ELSE slot[r]]
  BY DEF Draw
<1>2. /\ UNCHANGED <<inputs, host, round, todo, left, mem, size>>
      /\ counter' = counter + n
      /\ \A r \in G : slot[r] = NoSlot /\ left[r] # {}
  BY DEF Draw, Appending
<1>3. G \subseteq Rays /\ G # {}
  BY DEF Groups
<1>4. n \in Nat
  <2>1. IsFiniteSet(Rays)
    BY NQAssumption, FS_Interval DEF Rays
  <2>2. IsFiniteSet(G)
    BY <1>3, <2>1, FS_Subset
  <2> QED
    BY <2>2, FS_CardinalityType
<1> HIDE DEF n
<1>5. /\ rank \in [G -> 0 .. n - 1]
      /\ \A a, b \in G : rank[a] = rank[b] => a = b
      /\ \A k \in 0 .. n - 1 : \E a \in G : rank[a] = k
  BY <1>1 DEF Bijection, Injection, Surjection, IsInjective
<1>6. host = "wait"
  BY <1>2, <1>3 DEF Inv, HostOK, RaysDone
<1>7. InputsOK'
  BY <1>2, InputsKept DEF Inv
<1>8. HostOK'
  BY <1>2, <1>6 DEF Inv, HostOK, inputs
<1>9. /\ counter \in Nat /\ counter' \in Nat
      /\ fresh \in Nat /\ fresh <= counter /\ counter <= counter'
  BY <1>2, <1>4, MaxFreshAssumption DEF Inv, InputsOK, MemOK
<1>10. /\ \A r \in G : slot'[r] = counter + rank[r] /\ rank[r] \in 0 .. n - 1
       /\ \A r \in Rays : r \notin G => slot'[r] = slot[r]
  BY <1>1, <1>3, <1>5
<1>11. RaysOK'
  <2>1. slot' \in [Rays -> Int]
    <3>1. \A r \in Rays : (IF r \in G THEN counter + rank[r] ELSE slot[r]) \in Int
      BY <1>4, <1>5, <1>9 DEF Inv, RaysOK
    <3> QED
      BY <1>1, <3>1
  <2>2. \A r \in Rays : slot'[r] # NoSlot => left[r] # {}
    BY <1>2, <1>10 DEF Inv, RaysOK
  <2> QED
    BY <1>2, <2>1, <2>2 DEF Inv, RaysOK, inputs, Crossed
<1>12. MemOK'
  BY <1>2, <1>9 DEF Inv, MemOK, InBounds, Fits, inputs
<1>13. \A s : Current(s)' = Current(s)
  BY <1>2, CurrentKept
<1> DEFINE New == {<<r, Current(r)>> : r \in G}
<1>14. \A x \in crosses : x[1] \in Rays /\ x = <<x[1], x[2]>>
  BY DEF Inv, InputsOK, Pairs
<1>15. ASSUME NEW r \in G
       PROVE  /\ <<r, Current(r)>> \in crosses
              /\ <<r, Current(r)>> \notin Drawn
  <2>1. r \in Rays /\ left[r] # {} /\ slot[r] = NoSlot
    BY <1>2, <1>3
  <2>2. Current(r) \in left[r]
    BY <2>1, CurrentIsLeft DEF Inv
  <2>3. Current(r) \in Crossed(r)
    BY <2>1, <2>2 DEF Inv, RaysOK
  <2>4. Waiting(<<r, Current(r)>>) /\ ~ Held(<<r, Current(r)>>)
    BY <2>1, <2>2 DEF Waiting, Held
  <2> QED
    BY <2>3, <2>4 DEF Crossed, Drawn
<1>16. \A x \in crosses : Waiting(x)' <=> Waiting(x)
  BY <1>2 DEF Waiting
<1>17. \A x \in crosses : Held(x)' <=> (Held(x) \/ x \in New)
  <2> SUFFICES ASSUME NEW x \in crosses
               PROVE  Held(x)' <=> (Held(x) \/ x \in New)
    OBVIOUS
  <2>1. x \in New <=> x[1] \in G /\ x[2] = Current(x[1])
    BY <1>14
  <2>2. CASE x[1] \in G
    <3>1. slot'[x[1]] # NoSlot /\ slot[x[1]] = NoSlot
      BY <1>2, <1>9, <1>10, <2>2 DEF NoSlot
    <3> QED
      BY <1>13, <2>1, <2>2, <3>1 DEF Held
  <2>3. CASE x[1] \notin G
    BY <1>10, <1>13, <1>14, <2>1, <2>3 DEF Held
  <2> QED
    BY <2>2, <2>3
<1>18. Drawn' = Drawn \cup New
  <2>1. crosses' = crosses /\ New \subseteq crosses
    BY <1>2, <1>15 DEF inputs
  <2>2. \A x \in New : Waiting(x)
    BY <1>15 DEF Drawn
  <2> HIDE DEF New
  <2>3. Drawn' = {x \in crosses : Waiting(x)' => Held(x)'}
    BY <2>1 DEF Drawn
  <2> QED
    BY <1>16, <1>17, <2>1, <2>2, <2>3 DEF Drawn
<1>19. PICK pos \in Bijection(Drawn, fresh .. counter - 1) : Numbers(pos)
  BY <1>6 DEF Inv, Launched, Numbered
<1>20. /\ pos \in [Drawn -> fresh .. counter - 1]
       /\ \A a, b \in Drawn : pos[a] = pos[b] => a = b
       /\ \A k \in fresh .. counter - 1 : \E a \in Drawn : pos[a] = k
  BY <1>19 DEF Bijection, Injection, Surjection, IsInjective
<1>21. PICK pos2 :
          pos2 = [x \in Drawn' |-> IF x \in Drawn THEN pos[x] ELSE counter + rank[x[1]]]
  OBVIOUS
<1>22. /\ \A x \in Drawn : pos2[x] = pos[x] /\ x \in Drawn'
       /\ \A r \in G : /\ <<r, Current(r)>> \in Drawn'
                        /\ pos2[<<r, Current(r)>>] = counter + rank[r]
       /\ DOMAIN pos2 = Drawn'
       /\ pos2 = [x \in Drawn' |-> pos2[x]]
  BY <1>15, <1>18, <1>21
<1>23. \A x \in Drawn' : x \in Drawn \/ \E r \in G : x = <<r, Current(r)>>
  BY <1>18
<1> HIDE DEF New
<1>24. /\ \A x \in Drawn : pos2[x] \in Int /\ fresh <= pos2[x] /\ pos2[x] < counter
       /\ \A r \in G : /\ rank[r] \in Int /\ 0 <= rank[r] /\ rank[r] < n
                        /\ pos2[<<r, Current(r)>>] = counter + rank[r]
  <2>1. ASSUME NEW x \in Drawn
        PROVE  pos2[x] \in Int /\ fresh <= pos2[x] /\ pos2[x] < counter
    <3>1. pos2[x] = pos[x] /\ pos[x] \in fresh .. counter - 1
      BY <1>20, <1>22
    <3> QED
      BY <1>9, <3>1
  <2>2. ASSUME NEW r \in G
        PROVE  rank[r] \in Int /\ 0 <= rank[r] /\ rank[r] < n
    <3>1. rank[r] \in 0 .. n - 1
      BY <1>5
    <3> QED
      BY <1>4, <3>1
  <2> QED
    BY <1>22, <2>1, <2>2
<1>25. pos2 \in [Drawn' -> fresh .. counter' - 1]
  <2> SUFFICES ASSUME NEW x \in Drawn'
               PROVE  pos2[x] \in fresh .. counter' - 1
    BY <1>22
  <2> QED
    BY SMTT(30), <1>2, <1>4, <1>9, <1>23, <1>24
<1>26. ASSUME NEW x \in Drawn', NEW y \in Drawn', pos2[x] = pos2[y]
       PROVE  x = y
  <2>1. CASE x \in Drawn /\ y \in Drawn
    BY <1>20, <1>22, <1>26, <2>1
  <2>2. ASSUME NEW r \in G, NEW s \in G,
               x = <<r, Current(r)>>, y = <<s, Current(s)>>
        PROVE  x = y
    <3>1. counter + rank[r] = counter + rank[s]
      BY <1>24, <1>26, <2>2
    <3>2. rank[r] = rank[s]
      <4>1. rank[r] \in Int /\ rank[s] \in Int
        BY <1>24
      <4> QED
        BY <1>9, <3>1, <4>1
    <3> QED
      BY <1>5, <2>2, <3>2
  <2>3. ASSUME NEW a \in Drawn, NEW r \in G, pos2[a] = pos2[<<r, Current(r)>>]
        PROVE  FALSE
    BY <1>9, <1>24, <2>3
  <2> QED
    BY <1>23, <1>26, <2>1, <2>2, <2>3
<1>27. ASSUME NEW k \in fresh .. counter' - 1
       PROVE  \E x \in Drawn' : pos2[x] = k
  <2>1. CASE k < counter
    <3>1. k \in fresh .. counter - 1
      BY <1>9, <2>1
    <3> QED
      BY <1>20, <1>22, <3>1
  <2>2. CASE k >= counter
    <3>1. k - counter \in 0 .. n - 1 /\ counter + (k - counter) = k
      BY <1>2, <1>4, <1>9, <2>2
    <3>2. PICK r \in G : rank[r] = k - counter
      BY <1>5, <3>1
    <3> QED
      BY <1>22, <3>1, <3>2
  <2> QED
    BY <1>9, <2>1, <2>2
<1>28. pos2 \in Bijection(Drawn', fresh' .. counter' - 1)
  <2>1. fresh' = fresh
    BY <1>2 DEF inputs
  <2> QED
    BY <1>25, <1>26, <1>27, <2>1 DEF Bijection, Injection, Surjection, IsInjective
<1>29. Numbers(pos2)'
  <2>1. ASSUME NEW s \in Rays, slot'[s] # NoSlot
        PROVE  slot'[s] = pos2[<<s, Current(s)'>>]
    <3>1. CASE s \in G
      BY <1>10, <1>13, <1>22, <3>1
    <3>2. CASE s \notin G
      <4>1. slot'[s] = slot[s] /\ slot[s] = pos[<<s, Current(s)>>]
        BY <1>10, <1>19, <2>1, <3>2 DEF Numbers
      <4>2. left[s] # {} /\ Current(s) \in left[s] /\ Current(s) \in Crossed(s)
        BY <2>1, <4>1, CurrentIsLeft DEF Inv, RaysOK
      <4>3. <<s, Current(s)>> \in Drawn
        BY <2>1, <4>1, <4>2 DEF Drawn, Held, Crossed
      <4> QED
        BY <1>13, <1>22, <4>1, <4>3
    <3> QED
      BY <3>1, <3>2
  <2>2. ASSUME NEW x \in crosses, ~ Waiting(x)', Stores(pos2[x])'
        PROVE  mem'[pos2[x]] = Record(x[1], x[2], Computed)'
    <3>1. ~ Waiting(x) /\ x \in Drawn
      BY <1>16, <2>2 DEF Drawn
    <3>2. pos2[x] = pos[x] /\ Stores(pos[x])
      BY <1>2, <1>22, <2>2, <3>1 DEF Stores, inputs
    <3>3. mem[pos[x]] = Record(x[1], x[2], Computed)
      BY <1>19, <3>1, <3>2 DEF Numbers
    <3> QED
      BY <1>2, <3>2, <3>3 DEF Record, Computed, inputs
  <2>3. crosses' = crosses
    BY <1>2 DEF inputs
  <2> QED
    BY <2>1, <2>2, <2>3 DEF Numbers
<1> QED
  BY <1>7, <1>8, <1>11, <1>12, <1>28, <1>29 DEF Inv, Numbered

(* When the crossings fit, or the shader tests the capacity, what is stored
   to a drawn slot stays within the array. *)
LEMMA StoresWithin ==
  ASSUME Inv, Launched, NEW i \in fresh .. counter - 1, Stores(i), Fits \/ mode = "vk"
  PROVE  i < Capacity
<1>1. CASE mode = "vk"
  BY <1>1 DEF Stores
<1>2. CASE mode # "vk"
  <2>1. fresh = 0 /\ Cardinality(crosses) <= Capacity
    BY <1>2 DEF Inv, InputsOK, Fits
  <2>2. counter <= fresh + Cardinality(crosses) /\ Cardinality(crosses) \in Nat
    BY Counted
  <2>3. counter \in Nat
    BY DEF Inv, MemOK
  <2> QED
    BY <2>1, <2>2, <2>3, CapacityAssumption
<1> QED
  BY <1>1, <1>2

(* A ray stores its pair to the slot it drew. *)
LEMMA StoreStep == ASSUME Inv, NEW r \in Rays, Store(r) PROVE Inv'
<1> DEFINE e == Current(r)
<1> DEFINE i == slot[r]
<1>1. /\ i # NoSlot
      /\ mem' = IF Stores(i) THEN [mem EXCEPT ![i] = Record(r, e, mode # "rt")] ELSE mem
      /\ slot' = [slot EXCEPT ![r] = NoSlot]
      /\ left' = [left EXCEPT ![r] = @ \ {e}]
      /\ UNCHANGED <<inputs, host, round, todo, counter, size>>
  BY DEF Store
<1> HIDE DEF i
<1>2. host = "wait" /\ Launched
  BY <1>1 DEF Inv, HostOK, RaysDone, Launched, i
<1>3. e \in left[r] /\ e \in Crossed(r)
  BY <1>1, CurrentIsLeft DEF Inv, RaysOK, i
<1>4. e \in BaseEdges /\ <<r, e>> \in crosses /\ <<r, e>> \in Drawn
  BY <1>1, <1>3 DEF Crossed, Drawn, Held, i
<1> HIDE DEF e
<1>5. PICK pos \in Bijection(Drawn, fresh .. counter - 1) : Numbers(pos)
  BY <1>2 DEF Inv, Numbered
<1>6. /\ pos \in [Drawn -> fresh .. counter - 1]
      /\ \A a, b \in Drawn : pos[a] = pos[b] => a = b
  BY <1>5 DEF Bijection, Injection, IsInjective
<1>7. i = pos[<<r, e>>] /\ i \in fresh .. counter - 1 /\ i \in Slots
  <2>1. i = pos[<<r, e>>]
    BY <1>1, <1>5 DEF Numbers, e, i
  <2> QED
    BY <1>2, <1>4, <1>6, <2>1, Counted
<1>8. InputsOK'
  BY <1>1, InputsKept DEF Inv
<1>9. HostOK'
  BY <1>1, <1>2 DEF Inv, HostOK, inputs
<1>10. /\ left'[r] = left[r] \ {e} /\ slot'[r] = NoSlot
       /\ \A s \in Rays : s # r => left'[s] = left[s] /\ slot'[s] = slot[s]
       /\ left' \in [Rays -> SUBSET BaseEdges] /\ slot' \in [Rays -> Int]
  BY <1>1 DEF Inv, RaysOK, NoSlot
<1>11. RaysOK'
  BY <1>1, <1>10 DEF Inv, RaysOK, inputs, Crossed
<1>12. MemOK'
  <2>1. Record(r, e, mode # "rt") \in Xsect
    <3>1. r \in Nat /\ e \in Nat
      BY <1>4, NQAssumption, NBAssumption DEF Rays, BaseEdges
    <3> QED
      BY <3>1 DEF Record, Xsect
  <2>2. mem' \in [Slots -> Xsect]
    BY <1>1, <2>1 DEF Inv, MemOK
  <2>3. InBounds'
    <3> SUFFICES ASSUME Fits \/ mode = "vk", NEW j \in Slots, j >= Capacity
                 PROVE  mem'[j] = Garbage
      BY <1>1 DEF InBounds, Fits, inputs
    <3>1. mem[j] = Garbage
      BY DEF Inv, MemOK, InBounds
    <3>2. Stores(i) => i # j
      <4>1. Stores(i) => i < Capacity
        BY <1>2, <1>7, StoresWithin
      <4>2. i \in Int /\ j \in Int
        BY <1>7 DEF Slots
      <4> QED
        BY <4>1, <4>2, CapacityAssumption
    <3> QED
      BY <1>1, <3>1, <3>2 DEF Inv, MemOK
  <2> QED
    BY <1>1, <2>2, <2>3 DEF Inv, MemOK, inputs
<1>13. \A x \in crosses : x[1] \in Rays /\ x = <<x[1], x[2]>>
  BY DEF Inv, InputsOK, Pairs
<1>14. ASSUME NEW x \in crosses
       PROVE  /\ ~ Waiting(x)' <=> (~ Waiting(x) \/ x = <<r, e>>)
              /\ x # <<r, e>> => (Held(x)' <=> Held(x))
  <2>1. CASE x[1] # r
    <3>1. /\ left'[x[1]] = left[x[1]] /\ slot'[x[1]] = slot[x[1]]
          /\ todo'[x[1]] = todo[x[1]]
      BY <1>1, <1>10, <1>13, <2>1
    <3>2. Current(x[1])' = Current(x[1])
      BY <3>1, CurrentKept
    <3>3. x # <<r, e>>
      BY <2>1
    <3> QED
      BY <3>1, <3>2, <3>3 DEF Waiting, Held
  <2>2. CASE x[1] = r /\ x[2] # e
    <3>1. x # <<r, e>>
      BY <2>2
    <3>2. Waiting(x)' <=> Waiting(x)
      BY <1>1, <1>10, <2>2 DEF Waiting
    <3>3. ~ Held(x)' /\ ~ Held(x)
      BY <1>10, <2>2 DEF Held, e
    <3> QED
      BY <3>1, <3>2, <3>3
  <2>3. CASE x = <<r, e>>
    <3>1. x[1] = r /\ x[2] = e
      BY <2>3
    <3>2. \A q \in todo[r] : e \notin q
      BY <1>3 DEF Inv, RaysOK
    <3>3. e \notin left'[r] /\ todo'[r] = todo[r]
      BY <1>1, <1>10
    <3>4. ~ Waiting(x)'
      BY <3>1, <3>2, <3>3 DEF Waiting
    <3> QED
      BY <2>3, <3>4
  <2> QED
    BY <1>13, <2>1, <2>2, <2>3
<1>15. Drawn' = Drawn
  <2>1. Drawn' = {x \in crosses : Waiting(x)' => Held(x)'}
    BY <1>1 DEF Drawn, inputs
  <2>2. \A x \in crosses : (Waiting(x)' => Held(x)') <=> x \in Drawn
    BY <1>4, <1>14 DEF Drawn
  <2> QED
    BY <2>1, <2>2 DEF Drawn
<1>16. Numbers(pos)'
  <2>1. ASSUME NEW s \in Rays, slot'[s] # NoSlot
        PROVE  slot'[s] = pos[<<s, Current(s)'>>]
    <3>1. s # r /\ slot'[s] = slot[s] /\ left'[s] = left[s]
      BY <1>10, <2>1
    <3>2. Current(s)' = Current(s)
      BY <3>1, CurrentKept
    <3> QED
      BY <1>5, <2>1, <3>1, <3>2 DEF Numbers
  <2>2. ASSUME NEW x \in crosses, ~ Waiting(x)', Stores(pos[x])'
        PROVE  mem'[pos[x]] = Record(x[1], x[2], Computed)'
    <3>1. Stores(pos[x])
      BY <1>1, <2>2 DEF Stores, inputs
    <3>2. Computed = (mode # "rt") /\ Computed' = (mode # "rt")
      BY <1>1, <1>2 DEF Computed, inputs
    <3>3. CASE x = <<r, e>>
      <4>1. pos[x] = i /\ x[1] = r /\ x[2] = e
        BY <1>7, <3>3
      <4>2. mem'[i] = Record(r, e, mode # "rt")
        BY <1>1, <1>7, <3>1, <4>1 DEF Inv, MemOK
      <4> QED
        BY <1>1, <3>2, <4>1, <4>2 DEF Record, inputs
    <3>4. CASE x # <<r, e>>
      <4>1. ~ Waiting(x) /\ x \in Drawn
        BY <1>14, <2>2, <3>4 DEF Drawn
      <4>2. pos[x] # i
        BY <1>4, <1>6, <1>7, <3>4, <4>1
      <4>3. mem[pos[x]] = Record(x[1], x[2], Computed)
        BY <1>5, <3>1, <4>1 DEF Numbers
      <4>4. mem'[pos[x]] = mem[pos[x]]
        BY <1>1, <4>2 DEF Inv, MemOK
      <4> QED
        BY <1>1, <3>2, <4>3, <4>4 DEF Record, inputs
    <3> QED
      BY <3>3, <3>4
  <2>3. crosses' = crosses
    BY <1>1 DEF inputs
  <2> QED
    BY <2>1, <2>2, <2>3 DEF Numbers
<1>17. Numbered'
  <2>1. fresh' .. counter' - 1 = fresh .. counter - 1
    BY <1>1 DEF inputs
  <2> QED
    BY <1>5, <1>15, <1>16, <2>1 DEF Numbered
<1> QED
  BY <1>8, <1>9, <1>11, <1>12, <1>17 DEF Inv

(* A step that changes neither the inputs, the rays nor the counter draws
   and stores nothing. *)
LEMMA PairsKept ==
  ASSUME UNCHANGED <<inputs, todo, left, slot, counter>>
  PROVE  /\ Drawn' = Drawn
         /\ \A p : Waiting(p)' <=> Waiting(p)
         /\ \A r : Current(r)' = Current(r)
         /\ RaysOK => RaysOK'
<1>1. \A r : Current(r)' = Current(r)
  BY CurrentKept
<1>2. \A p : (Waiting(p)' <=> Waiting(p)) /\ (Held(p)' <=> Held(p))
  BY <1>1 DEF Waiting, Held
<1>3. RaysOK => RaysOK'
  BY DEF RaysOK, inputs, Crossed
<1>4. Drawn' = Drawn
  BY <1>2 DEF Drawn, inputs
<1> QED
  BY <1>1, <1>2, <1>3, <1>4

(* The host reads the counter once the rays are done. *)
LEMMA ReadSizeStep == ASSUME Inv, ReadSize PROVE Inv'
<1>1. Launched /\ UNCHANGED <<inputs, round, todo, left, slot, counter, mem>>
  BY DEF ReadSize, Launched
<1>2. /\ Drawn' = Drawn /\ RaysOK'
      /\ \A p : Waiting(p)' <=> Waiting(p)
      /\ \A r : Current(r)' = Current(r)
  BY <1>1, PairsKept DEF Inv
<1>3. InputsOK'
  BY <1>1, InputsKept DEF Inv
<1>4. HostOK'
  <2>1. size' = counter /\ counter \in 0 .. MaxFresh + NQ * NB
    <3>1. counter \in fresh .. MaxFresh + NQ * NB /\ fresh \in 0 .. MaxFresh
      BY <1>1, Counted DEF Inv, InputsOK
    <3>2. NQ * NB \in Nat
      BY NQAssumption, NBAssumption
    <3> QED
      BY <3>1, <3>2, MaxFreshAssumption DEF ReadSize
  <2> QED
    BY <1>1, <2>1 DEF Inv, HostOK, ReadSize, RaysDone
<1>5. MemOK'
  BY <1>1 DEF Inv, MemOK, InBounds, Fits, inputs
<1>6. PICK pos \in Bijection(Drawn, fresh .. counter - 1) : Numbers(pos)
  BY <1>1 DEF Inv, Numbered
<1>7. Numbers(pos)'
  <2>1. Computed' = Computed
    BY <1>1 DEF ReadSize, Computed, inputs
  <2> QED
    BY <1>1, <1>2, <1>6, <2>1 DEF Numbers, Stores, Record, inputs
<1>8. Numbered'
  BY <1>1, <1>2, <1>6, <1>7 DEF Numbered, inputs
<1> QED
  BY <1>2, <1>3, <1>4, <1>5, <1>8 DEF Inv

(* The second kernel adds the points, in place. *)
LEMMA FinalizeStep == ASSUME Inv, Finalize PROVE Inv'
<1>1. /\ Launched /\ UNCHANGED <<inputs, todo, left, slot, counter, size>>
      /\ size = counter /\ RaysDone /\ round < Rounds
      /\ host' \in {"done", "clear"}
  BY DEF Inv, HostOK, Finalize, Launched
<1>2. /\ Drawn' = Drawn /\ RaysOK'
      /\ \A p : Waiting(p)' <=> Waiting(p)
      /\ \A r : Current(r)' = Current(r)
  BY <1>1, PairsKept DEF Inv
<1>3. InputsOK'
  BY <1>1, InputsKept DEF Inv
<1>4. HostOK'
  <2>1. round \in 0 .. Rounds /\ round' = round + 1
    BY DEF Inv, HostOK, Finalize
  <2>2. round' \in 0 .. Rounds /\ round' # 0 /\ (host' # "done" => round' < Rounds)
    BY <1>1, <2>1, RoundsAssumption DEF Finalize
  <2>3. RaysDone'
    BY <1>1 DEF RaysDone
  <2>4. host' = "clear" => mode' # "vk"
    BY DEF Finalize, inputs
  <2>5. size' \in 0 .. MaxFresh + NQ * NB /\ size' = counter'
    BY <1>1 DEF Inv, HostOK
  <2> QED
    BY <1>1, <2>2, <2>3, <2>4, <2>5 DEF HostOK
<1>5. mem' = [j \in Slots |-> IF j < size /\ Stores(j) THEN [mem[j] EXCEPT !.point = TRUE]
                                                      ELSE mem[j]]
  BY DEF Finalize
<1>6. fresh \in Nat /\ counter \in Nat /\ fresh <= counter
  BY MaxFreshAssumption DEF Inv, InputsOK, MemOK
<1>7. MemOK'
  <2>1. \A x \in Xsect : [x EXCEPT !.point = TRUE] \in Xsect
    BY DEF Xsect
  <2>2. mem' \in [Slots -> Xsect]
    BY <1>5, <2>1 DEF Inv, MemOK
  <2>3. InBounds'
    <3> SUFFICES ASSUME Fits \/ mode = "vk", NEW j \in Slots, j >= Capacity
                 PROVE  mem'[j] = Garbage
      BY <1>1 DEF InBounds, Fits, inputs
    <3>1. mem[j] = Garbage
      BY DEF Inv, MemOK, InBounds
    <3>2. ~ (j < size /\ Stores(j))
      <4>1. SUFFICES ASSUME j < size, Stores(j) PROVE FALSE
        OBVIOUS
      <4>2. j \in Int /\ 0 <= j
        BY DEF Slots
      <4>3. CASE fresh <= j
        <5>1. j \in fresh .. counter - 1
          BY <1>1, <1>6, <4>1, <4>2, <4>3
        <5> QED
          BY <1>1, <4>1, <4>2, <5>1, StoresWithin, CapacityAssumption
      <4>4. CASE j < fresh
        <5>1. mode = "vk"
          BY <4>2, <4>4 DEF Inv, InputsOK
        <5> QED
          BY <4>1, <4>2, <5>1, CapacityAssumption DEF Stores
      <4> QED
        BY <1>6, <4>2, <4>3, <4>4
    <3> QED
      BY <1>5, <3>1, <3>2
  <2> QED
    BY <1>1, <2>2, <2>3 DEF Inv, MemOK, inputs
<1>8. PICK pos \in Bijection(Drawn, fresh .. counter - 1) : Numbers(pos)
  BY <1>1 DEF Inv, Numbered
<1>9. pos \in [Drawn -> fresh .. counter - 1]
  BY <1>8 DEF Bijection, Injection
<1>10. Numbers(pos)'
  <2>1. ASSUME NEW x \in crosses, ~ Waiting(x), Stores(pos[x])
        PROVE  mem'[pos[x]] = Record(x[1], x[2], TRUE)
    <3>1. x \in Drawn
      BY <2>1 DEF Drawn
    <3>2. pos[x] \in fresh .. counter - 1 /\ pos[x] \in Slots
      BY <1>1, <1>9, <3>1, Counted
    <3>3. pos[x] < size
      BY <1>1, <1>6, <3>2
    <3>4. mem[pos[x]] = Record(x[1], x[2], Computed)
      BY <1>8, <2>1 DEF Numbers
    <3>5. mem'[pos[x]] = [mem[pos[x]] EXCEPT !.point = TRUE]
      BY <1>5, <2>1, <3>2, <3>3
    <3>6. \A f, c, b : [[eid |-> f, point |-> c] EXCEPT !.point = b] = [eid |-> f, point |-> b]
      OBVIOUS
    <3>7. [Record(x[1], x[2], Computed) EXCEPT !.point = TRUE] = Record(x[1], x[2], TRUE)
      BY <3>6 DEF Record
    <3> QED
      BY <3>4, <3>5, <3>7
  <2>2. Computed' = TRUE
    BY <1>1 DEF Computed
  <2>3. ASSUME NEW x \in crosses, ~ Waiting(x)', Stores(pos[x])'
        PROVE  mem'[pos[x]] = Record(x[1], x[2], Computed)'
    <3>1. ~ Waiting(x) /\ Stores(pos[x])
      BY <1>1, <1>2, <2>3 DEF Stores, inputs
    <3>2. mem'[pos[x]] = Record(x[1], x[2], TRUE)
      BY <2>1, <3>1
    <3> QED
      BY <1>1, <2>2, <3>2 DEF Record, inputs
  <2>4. \A r \in Rays : slot'[r] = NoSlot
    BY <1>1 DEF RaysDone
  <2>5. crosses' = crosses
    BY <1>1 DEF inputs
  <2> QED
    BY <2>3, <2>4, <2>5 DEF Numbers
<1>11. Numbered'
  BY <1>1, <1>2, <1>8, <1>10 DEF Numbered, inputs
<1> QED
  BY <1>2, <1>3, <1>4, <1>7, <1>11 DEF Inv

(* Nothing the program has changes. *)
LEMMA StutterStep == ASSUME Inv, UNCHANGED vars PROVE Inv'
<1>1. /\ UNCHANGED <<inputs, host, round, todo, left, slot, counter, mem, size>>
      /\ UNCHANGED <<inputs, todo, left, slot, counter>>
  BY DEF vars
<1>2. /\ Drawn' = Drawn /\ RaysOK'
      /\ \A p : Waiting(p)' <=> Waiting(p)
      /\ \A r : Current(r)' = Current(r)
  BY <1>1, PairsKept DEF Inv
<1>3. InputsOK'
  BY <1>1, InputsKept DEF Inv
<1>4. HostOK'
  BY <1>1 DEF Inv, HostOK, inputs, RaysDone
<1>5. MemOK'
  BY <1>1 DEF Inv, MemOK, InBounds, Fits, inputs
<1>6. Launched' => Numbered'
  <2> SUFFICES ASSUME Launched PROVE Numbered'
    BY <1>1 DEF Launched
  <2>1. PICK pos \in Bijection(Drawn, fresh .. counter - 1) : Numbers(pos)
    BY DEF Inv, Numbered
  <2>2. Numbers(pos)'
    BY <1>1, <1>2, <2>1 DEF Numbers, Computed, Stores, Record, inputs
  <2> QED
    BY <1>1, <1>2, <2>1, <2>2 DEF Numbered, inputs
<1> QED
  BY <1>2, <1>3, <1>4, <1>5, <1>6 DEF Inv
-----------------------------------------------------------------------------
(* Every reachable state of the query satisfies the inductive invariant. *)
THEOREM Invariance == Spec => []Inv
<1>1. Init => Inv
  BY InitHolds
<1>2. Inv /\ [Next]_vars => Inv'
  <2> SUFFICES ASSUME Inv, [Next]_vars PROVE Inv'
    OBVIOUS
  <2>1. CASE Clear
    BY <2>1, ClearStep
  <2>2. CASE Launch
    BY <2>2, LaunchStep
  <2>3. CASE ReadSize
    BY <2>3, ReadSizeStep
  <2>4. CASE Finalize
    BY <2>4, FinalizeStep
  <2>5. ASSUME NEW r \in Rays, Enter(r) PROVE Inv'
    BY <2>5, EnterStep
  <2>6. ASSUME NEW r \in Rays, Store(r) PROVE Inv'
    BY <2>6, StoreStep
  <2>7. ASSUME NEW G \in Groups, Draw(G) PROVE Inv'
    BY <2>7, DrawStep
  <2>8. CASE UNCHANGED vars
    BY <2>8, StutterStep
  <2> QED
    BY <2>1, <2>2, <2>3, <2>4, <2>5, <2>6, <2>7, <2>8 DEF Next, HostStep, RayStep, Idle
<1> QED
  BY <1>1, <1>2, PTL DEF Spec

(* A slot a ray holds is the number of the pair the ray is at. *)
LEMMA SlotHeld ==
  ASSUME Inv, NEW r \in Rays, slot[r] # NoSlot
  PROVE  /\ Launched
         /\ <<r, Current(r)>> \in Drawn
         /\ slot[r] \in fresh .. counter - 1
<1>1. Launched
  BY DEF Inv, HostOK, RaysDone, Launched
<1>2. Current(r) \in left[r] /\ Current(r) \in Crossed(r)
  BY CurrentIsLeft DEF Inv, RaysOK
<1>3. <<r, Current(r)>> \in Drawn
  BY <1>2 DEF Drawn, Held, Crossed
<1>4. PICK pos \in Bijection(Drawn, fresh .. counter - 1) : Numbers(pos)
  BY <1>1 DEF Inv, Numbered
<1>5. pos \in [Drawn -> fresh .. counter - 1] /\ slot[r] = pos[<<r, Current(r)>>]
  BY <1>4 DEF Bijection, Injection, Numbers
<1> QED
  BY <1>1, <1>3, <1>5

(* The counter and the drawn slots stay within the pairs there can be, and
   the host only moves through its phases. *)
THEOREM TypeCorrect == Spec => []TypeOK
<1>1. Inv => TypeOK
  <2> SUFFICES ASSUME Inv PROVE TypeOK
    OBVIOUS
  <2>1. counter \in 0 .. MaxFresh + NQ * NB
    <3>1. NQ * NB \in Nat /\ fresh \in 0 .. MaxFresh
      BY NQAssumption, NBAssumption DEF Inv, InputsOK
    <3>2. CASE Launched
      BY <3>1, <3>2, Counted, MaxFreshAssumption
    <3>3. CASE ~ Launched
      <4>1. counter = fresh
        BY <3>3 DEF Inv, HostOK, Launched
      <4> QED
        BY <3>1, <4>1, MaxFreshAssumption
    <3> QED
      BY <3>2, <3>3
  <2>2. slot \in [Rays -> {NoSlot} \cup Slots]
    <3> SUFFICES ASSUME NEW r \in Rays, slot[r] # NoSlot
                 PROVE  slot[r] \in Slots
      BY DEF Inv, RaysOK
    <3> QED
      BY SlotHeld, Counted
  <2> QED
    BY <2>1, <2>2 DEF TypeOK, Inv, InputsOK, HostOK, RaysOK, MemOK, Partition
<1> QED
  BY <1>1, Invariance, PTL

(* No two rays hold one slot, and none holds a slot that can be drawn again. *)
THEOREM SlotsNeverShared == Spec => []SlotsPrivate
<1>1. Inv => SlotsPrivate
  <2> SUFFICES ASSUME Inv, NEW r \in Rays, NEW s \in Rays, slot[r] # NoSlot
               PROVE  slot[r] < counter /\ (r # s => slot[r] # slot[s])
    BY DEF SlotsPrivate
  <2>1. PICK pos \in Bijection(Drawn, fresh .. counter - 1) : Numbers(pos)
    BY SlotHeld DEF Inv, Numbered
  <2>2. \A a, b \in Drawn : pos[a] = pos[b] => a = b
    BY <2>1 DEF Bijection, Injection, IsInjective
  <2>3. slot[r] < counter
    <3>1. slot[r] \in fresh .. counter - 1
      BY SlotHeld
    <3> QED
      BY <3>1 DEF Inv, MemOK, InputsOK
  <2>4. ASSUME r # s, slot[r] = slot[s]
        PROVE  FALSE
    <3>1. /\ <<r, Current(r)>> \in Drawn /\ slot[r] = pos[<<r, Current(r)>>]
          /\ <<s, Current(s)>> \in Drawn /\ slot[s] = pos[<<s, Current(s)>>]
      BY <2>1, <2>4, SlotHeld DEF Numbers
    <3> QED
      BY <2>2, <2>4, <3>1
  <2> QED
    BY <2>3, <2>4
<1> QED
  BY <1>1, Invariance, PTL

(* Without rays under way every pair that crosses has been stored. *)
LEMMA AllDrawn == ASSUME Inv, RaysDone PROVE Drawn = crosses /\ \A p \in crosses : ~ Waiting(p)
<1>1. \A p \in crosses : p[1] \in Rays
  BY DEF Inv, InputsOK, Pairs
<1>2. \A p \in crosses : ~ Waiting(p)
  BY <1>1 DEF RaysDone, Waiting
<1> QED
  BY <1>2 DEF Drawn

(* At the limit of the queue and beyond it, nothing is stored outside the
   array that fits or that the shader guards, and the host is told how many
   crossings there are. *)
THEOREM LimitIsKept == Spec => []LimitKept
<1>1. Inv => LimitKept
  <2> SUFFICES ASSUME Inv, host = "finalize", FromZero
               PROVE  size = Cardinality(crosses)
    BY DEF LimitKept, LossVisible, Inv, MemOK
  <2>1. Launched /\ RaysDone /\ size = counter /\ fresh = 0
    BY DEF Inv, HostOK, Launched, FromZero
  <2> QED
    BY <2>1, AllDrawn, Counted
<1> QED
  BY <1>1, Invariance, PTL

(* What the host has after a query: every crossing in one record of the first
   size, and nothing else there. *)
THEOREM ResultIsExact == Spec => []ResultExact
<1>1. Inv => ResultExact
  <2> SUFFICES ASSUME Inv, host \in {"done", "clear"}, round > 0, Fits, FromZero
               PROVE  /\ size = Cardinality(crosses)
                      /\ {mem[i] : i \in 0 .. size - 1}
                           = {Record(p[1], p[2], TRUE) : p \in crosses}
    BY DEF ResultExact
  <2>1. Launched /\ RaysDone /\ size = counter /\ fresh = 0 /\ Computed = TRUE
    BY DEF Inv, HostOK, Launched, FromZero, Computed
  <2>2. Drawn = crosses /\ \A p \in crosses : ~ Waiting(p)
    BY <2>1, AllDrawn
  <2>3. /\ size = Cardinality(crosses)
        /\ size \in Nat /\ size <= Capacity
    BY <2>1, <2>2, Counted DEF Fits
  <2>4. PICK pos \in Bijection(crosses, 0 .. size - 1) : Numbers(pos)
    BY <2>1, <2>2 DEF Inv, Numbered
  <2>5. /\ pos \in [crosses -> 0 .. size - 1]
        /\ \A i \in 0 .. size - 1 : \E p \in crosses : pos[p] = i
    BY <2>4 DEF Bijection, Injection, Surjection
  <2>6. \A i \in 0 .. size - 1 : Stores(i)
    BY <2>3, CapacityAssumption DEF Stores
  <2>7. \A p \in crosses : mem[pos[p]] = Record(p[1], p[2], TRUE)
    BY <2>1, <2>2, <2>4, <2>5, <2>6 DEF Numbers
  <2>8. ASSUME NEW i \in 0 .. size - 1
        PROVE  mem[i] \in {Record(p[1], p[2], TRUE) : p \in crosses}
    <3>1. PICK p \in crosses : pos[p] = i
      BY <2>5
    <3> QED
      BY <2>7, <3>1
  <2>9. ASSUME NEW p \in crosses
        PROVE  Record(p[1], p[2], TRUE) \in {mem[i] : i \in 0 .. size - 1}
    BY <2>5, <2>7
  <2> QED
    BY <2>3, <2>8, <2>9
<1> QED
  BY <1>1, Invariance, PTL
=============================================================================
