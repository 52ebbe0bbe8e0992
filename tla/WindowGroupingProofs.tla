------------------------ MODULE WindowGroupingProofs ------------------------
(***************************************************************************)
(* Proofs about WindowGrouping, for every size of the maps and windows,    *)
(* every program, every choice of the edges that start a group and every   *)
(* size of a block of the device scan.  Inv is inductive as long as the    *)
(* scan returns prefix sums; Scanned, which shows that it does, follows    *)
(* the cells of each block up and down its tree and the calls in and out.  *)
(***************************************************************************)
EXTENDS WindowGrouping, SharedLemmas, SequenceTheorems

(* Edges that start a group, and how many of them are before edge x: the
   number of the group that starts at x. *)
Starts(m) == IF ag = 2 THEN {e \in Edges(m) : e % WinSize = 0 \/ e \in cuts[m]} ELSE Edges(m)
Rank(m, x) == Cardinality({e \in Starts(m) : e < x})

(* The edges from s to h - 1 are a group. *)
IsGroup(m, s, h) ==
  /\ h \in s + 1 .. NE[m]
  /\ h \in Starts(m) \/ h = NE[m]
  /\ \A e \in s + 1 .. h - 1 : e \notin Starts(m)

NGroups(m) == Rank(m, NE[m])
GroupsOf(w) == Rank(im, EidEnd(w)) - Rank(im, EidBegin(w))

InputsOK ==
  /\ program \in {"overlay", "query", "vk"}
  /\ fau \in BOOLEAN /\ (fau => program = "overlay")
  /\ ag \in {0, 1, 2} /\ (ag = 1 => program = "vk")
  /\ cuts \in [Maps -> SUBSET (Edges(0) \cup Edges(1))]
  /\ \A m \in Maps : cuts[m] \subseteq (IF ag = 2 THEN Inner(m) ELSE {})

PhaseOK ==
  /\ done \subseteq Nat
  /\ todo # <<>> /\ phase = "each" => ag = 0
  /\ phase \in {"count", "scan", "finalize", "emit"} => ag = 2
  /\ phase \in {"each", "count", "scan", "finalize", "emit"} => todo # <<>>
  /\ phase = "scan" => program = "vk"
  /\ phase # "accel"
  /\ phase # "scan" => calls = <<>>

(* Nothing was stored for map m. *)
Untouched(m) ==
  /\ accel[m] = Empty
  /\ DOMAIN ranges[m] = IF program = "vk" THEN Edges(m) ELSE {}
  /\ \A i \in DOMAIN ranges[m] : ranges[m][i] = NoRange

(* The structure of map m and the ranges of its boxes agree. *)
Complete(m) ==
  /\ DOMAIN accel[m] \subseteq DOMAIN ranges[m]
  /\ \A i \in DOMAIN accel[m] : EdgesOf(ranges[m][i]) \subseteq accel[m][i]
  /\ \A e \in Edges(m) : \E i \in DOMAIN accel[m] :
       /\ e \in EdgesOf(ranges[m][i])
       /\ \A j \in DOMAIN accel[m] : e \in EdgesOf(ranges[m][j]) => j = i

Pending(m) == todo = <<0, 1>> \/ todo = <<m>>
Filling(m) == todo # <<>> /\ m = im /\ phase \in {"each", "emit"}

MapsOK ==
  /\ DOMAIN ranges = Maps /\ DOMAIN accel = Maps
  /\ program = "vk" => DOMAIN aabbs = Edges(0) \cup Edges(1)
  /\ \A m \in Maps :
       /\ Pending(m) => ~ Built(m)
       /\ Built(m) => Complete(m)
       /\ ~ Built(m) /\ ~ Filling(m) => Untouched(m)

Counting ==
  phase = "count" =>
    /\ done \subseteq Windows
    /\ nGrp \in [Windows -> Nat]
    /\ \A w \in done : nGrp[w] = GroupsOf(w)

Counted ==
  phase \in {"scan", "finalize", "emit"} =>
    /\ nGrp \in [Windows -> Nat]
    /\ \A w \in Windows : nGrp[w] = GroupsOf(w)

IsCall(c) ==
  /\ DOMAIN c = {"n", "in", "out", "sums"}
  /\ DOMAIN c.out = 0 .. c.n - 1

ScanOK ==
  phase = "scan" =>
    /\ calls \in Seq(Range(calls))
    /\ \A i \in 1 .. Len(calls) : IsCall(calls[i])
    /\ calls # <<>> => calls[1].n = NWins(im)
    /\ calls = <<>> => DOMAIN offsets = Windows

PsumOK ==
  phase \in {"count", "scan", "finalize", "emit"} =>
    /\ DOMAIN psum = 0 .. NWins(im)
    /\ psum[0] = 0

Finalizing ==
  phase = "finalize" =>
    IF program = "vk"
    THEN /\ done \subseteq Windows
         /\ DOMAIN offsets = Windows
         /\ \A w \in done : psum[w + 1] = Rank(im, EidEnd(w))
    ELSE \A w \in Windows : psum[w + 1] = Rank(im, EidEnd(w))

Emitting ==
  phase = "emit" =>
    /\ \A w \in 0 .. NWins(im) : psum[w] = Rank(im, EidBegin(w))
    /\ at \in [Windows -> Nat] /\ k \in [Windows -> Nat]
    /\ \A w \in Windows :
         /\ at[w] \in EidBegin(w) .. EidEnd(w)
         /\ at[w] \in Starts(im) \/ at[w] = EidEnd(w)
         /\ k[w] = Rank(im, at[w]) - Rank(im, EidBegin(w))

(* The groups that are stored, each under its number, and nothing else. *)
Emitted == IF phase = "each" THEN done
           ELSE {s \in Starts(im) : s < at[s \div WinSize]}

Stored ==
  todo # <<>> /\ phase \in {"each", "emit"} =>
    /\ Emitted \subseteq Starts(im)
    /\ 0 .. NGroups(im) - 1 \subseteq DOMAIN aabbs
    /\ 0 .. NGroups(im) - 1 \subseteq DOMAIN ranges[im]
    /\ program # "vk" => DOMAIN aabbs = 0 .. NGroups(im) - 1
    /\ \A s \in Emitted : \E h \in 1 .. NE[im] :
         /\ IsGroup(im, s, h)
         /\ ranges[im][Rank(im, s)] = EdgeRange(s, h)
         /\ aabbs[Rank(im, s)] = s .. h - 1
    /\ \A i \in DOMAIN ranges[im] :
         (\A s \in Emitted : i # Rank(im, s)) => ranges[im][i] = NoRange

(* The inductive invariant. *)
Inv ==
  /\ TypeOK
  /\ InputsOK
  /\ PhaseOK
  /\ MapsOK
  /\ Counting
  /\ Counted
  /\ ScanOK
  /\ PsumOK
  /\ Finalizing
  /\ Emitting
  /\ Stored
-----------------------------------------------------------------------------
(* The edges of a map, and those that start a group. *)
LEMMA MapsAre ==
  ASSUME NEW m \in Maps
  PROVE  /\ NE[m] \in Nat \ {0}
         /\ Edges(m) = 0 .. NE[m] - 1
         /\ Starts(m) \subseteq Edges(m)
  BY NEAssumption DEF Maps, Edges, Starts

(* The number of a group grows by one at each start. *)
LEMMA RankStep ==
  ASSUME NEW m \in Maps, NEW x \in Nat
  PROVE  /\ Rank(m, x) \in Nat
         /\ Rank(m, 0) = 0
         /\ Rank(m, x + 1) = Rank(m, x) + (IF x \in Starts(m) THEN 1 ELSE 0)
<1>1. /\ Starts(m) \subseteq 0 .. NE[m] - 1
      /\ NE[m] \in Nat
  BY MapsAre
<1>2. IsFiniteSet(Starts(m))
  <2>1. IsFiniteSet(0 .. NE[m] - 1)
    BY <1>1, FS_Interval
  <2> QED
    BY <1>1, <2>1, FS_Subset
<1>3. PICK A \in SUBSET Starts(m) : A = {e \in Starts(m) : e < x}
  OBVIOUS
<1>4. PICK B \in SUBSET Starts(m) : B = {e \in Starts(m) : e < x + 1}
  OBVIOUS
<1>5. IsFiniteSet(A) /\ Cardinality(A) \in Nat
  BY <1>2, FS_Subset, FS_CardinalityType
<1>6. Rank(m, x) = Cardinality(A) /\ Rank(m, x + 1) = Cardinality(B)
  BY <1>3, <1>4 DEF Rank
<1>7. Rank(m, 0) = 0
  <2>1. {e \in Starts(m) : e < 0} = {}
    BY <1>1
  <2> QED
    BY <2>1, FS_EmptySet DEF Rank
<1>8. CASE x \in Starts(m)
  <2>1. B = A \cup {x} /\ x \notin A
    BY <1>1, <1>3, <1>4, <1>8
  <2> QED
    BY <1>5, <1>6, <1>7, <1>8, <2>1, FS_AddElement
<1>9. CASE x \notin Starts(m)
  <2>1. B = A
    BY <1>1, <1>3, <1>4, <1>9
  <2> QED
    BY <1>5, <1>6, <1>7, <1>9, <2>1
<1> QED
  BY <1>8, <1>9

(* Later edges have no smaller numbers, and smaller ones before a start. *)
LEMMA RankGrows ==
  ASSUME NEW m \in Maps, NEW x \in Nat, NEW y \in Nat, x <= y
  PROVE  /\ Rank(m, x) <= Rank(m, y)
         /\ Rank(m, y) <= Rank(m, x) + (y - x)
         /\ x \in Starts(m) /\ x < y => Rank(m, x) < Rank(m, y)
<1> DEFINE R(d) == /\ Rank(m, x) <= Rank(m, x + d)
                   /\ Rank(m, x + d) <= Rank(m, x) + d
                   /\ x \in Starts(m) /\ 0 < d => Rank(m, x) < Rank(m, x + d)
<1> DEFINE S == {d \in Nat : R(d)}
<1>1. 0 \in S
  <2>1. Rank(m, x) \in Nat /\ x + 0 = x
    BY RankStep
  <2> QED
    BY <2>1
<1>2. ASSUME NEW d \in Nat, d \in S PROVE d + 1 \in S
  <2>1. x + d \in Nat /\ x + (d + 1) = (x + d) + 1
    OBVIOUS
  <2>2. PICK a \in Nat, b \in Nat, c \in Nat :
          a = Rank(m, x) /\ b = Rank(m, x + d) /\ c = Rank(m, x + (d + 1))
    <3>1. x + (d + 1) \in Nat
      OBVIOUS
    <3>2. Rank(m, x) \in Nat /\ Rank(m, x + d) \in Nat /\ Rank(m, x + (d + 1)) \in Nat
      BY <2>1, <3>1, RankStep
    <3> QED
      BY <3>2
  <2>3. c = b + (IF x + d \in Starts(m) THEN 1 ELSE 0)
    BY <2>1, <2>2, RankStep
  <2>4. a <= b /\ b <= a + d /\ (x \in Starts(m) /\ 0 < d => a < b)
    BY <1>2, <2>2
  <2>5. x \in Starts(m) => a < c
    <3>1. CASE d = 0
      BY <2>3, <2>4, <3>1
    <3>2. CASE d # 0
      BY <2>3, <2>4, <3>2
    <3> QED
      BY <3>1, <3>2
  <2>6. a <= c /\ c <= a + (d + 1)
    BY <2>3, <2>4
  <2> QED
    BY <2>2, <2>5, <2>6
<1>3. PICK d \in Nat : y = x + d /\ y - x = d
  <2>1. y - x \in Nat /\ y = x + (y - x)
    OBVIOUS
  <2> QED
    BY <2>1
<1>4. \A i \in 0 .. d : i \in S
  <2>1. \A i \in 0 .. d - 1 : i \in S => i + 1 \in S
    BY <1>2
  <2> HIDE DEF S
  <2> QED
    BY <1>1, <2>1, UpTo
<1>5. d \in S
  <2> HIDE DEF S
  <2> QED
    BY <1>4
<1> QED
  BY <1>3, <1>5

(* Two starts have two numbers. *)
LEMMA RankOneToOne ==
  ASSUME NEW m \in Maps, NEW s \in Starts(m), NEW t \in Starts(m), Rank(m, s) = Rank(m, t)
  PROVE  s = t
<1>1. s \in Nat /\ t \in Nat
  BY MapsAre
<1>2. PICK a \in Nat, b \in Nat : a = Rank(m, s) /\ b = Rank(m, t)
  BY <1>1, RankStep
<1>3. s < t => a < b
  BY <1>1, <1>2, RankGrows
<1>4. t < s => b < a
  BY <1>1, <1>2, RankGrows
<1>5. s = t \/ s < t \/ t < s
  BY <1>1
<1> QED
  BY <1>2, <1>3, <1>4, <1>5

(* The number of a group is below the number of groups. *)
LEMMA RankBelow ==
  ASSUME NEW m \in Maps, NEW s \in Starts(m)
  PROVE  /\ Rank(m, s) \in 0 .. NGroups(m) - 1
         /\ NGroups(m) \in Nat /\ NGroups(m) <= NE[m]
<1>1. s \in Nat /\ NE[m] \in Nat /\ s < NE[m]
  BY MapsAre
<1>2. PICK a \in Nat, b \in Nat : a = Rank(m, s) /\ b = Rank(m, NE[m])
  BY <1>1, RankStep
<1>3. a < b
  BY <1>1, <1>2, RankGrows
<1>4. PICK n \in Nat : n = NE[m]
  BY <1>1
<1>5. Rank(m, 0) = 0
  BY <1>1, RankStep
<1>6. b <= Rank(m, 0) + (n - 0)
  <2>1. 0 \in Nat /\ 0 <= n
    OBVIOUS
  <2> QED
    BY <1>2, <1>4, <2>1, RankGrows
<1>7. b <= n
  BY <1>5, <1>6
<1> QED
  BY <1>2, <1>3, <1>4, <1>7 DEF NGroups

(* The group behind a group has the next number. *)
LEMMA RankBehind ==
  ASSUME NEW m \in Maps, NEW s \in Starts(m), NEW h, IsGroup(m, s, h)
  PROVE  Rank(m, h) = Rank(m, s) + 1
<1>1. s \in Nat /\ NE[m] \in Nat /\ h \in s + 1 .. NE[m]
  BY MapsAre DEF IsGroup
<1> DEFINE S == {d \in Nat : s + 1 + d <= h => Rank(m, s + 1 + d) = Rank(m, s) + 1}
<1>2. 0 \in S
  <2>1. s + 1 + 0 = s + 1 /\ Rank(m, s + 1) = Rank(m, s) + 1
    BY <1>1, RankStep
  <2> QED
    BY <2>1
<1>3. ASSUME NEW d \in Nat, d \in S PROVE d + 1 \in S
  <2>1. SUFFICES ASSUME s + 1 + (d + 1) <= h PROVE Rank(m, s + 1 + (d + 1)) = Rank(m, s) + 1
    OBVIOUS
  <2>2. /\ s + 1 + d <= h /\ s + 1 + d \in Nat /\ s + 1 + d \in s + 1 .. h - 1
        /\ s + 1 + (d + 1) = (s + 1 + d) + 1
    BY <1>1, <2>1
  <2>3. s + 1 + d \notin Starts(m)
    BY <2>2 DEF IsGroup
  <2>4. Rank(m, s + 1 + d) = Rank(m, s) + 1 /\ Rank(m, s + 1 + d) \in Nat
    BY <1>3, <2>2, RankStep
  <2>5. Rank(m, (s + 1 + d) + 1) = Rank(m, s + 1 + d) + 0
    BY <2>2, <2>3, RankStep
  <2> QED
    BY <2>2, <2>4, <2>5
<1>4. PICK d \in Nat : h = s + 1 + d
  <2>1. h - (s + 1) \in Nat /\ h = s + 1 + (h - (s + 1))
    BY <1>1
  <2> QED
    BY <2>1
<1>5. \A i \in 0 .. d : i \in S
  <2>1. \A i \in 0 .. d - 1 : i \in S => i + 1 \in S
    BY <1>3
  <2> HIDE DEF S
  <2> QED
    BY <1>2, <2>1, UpTo
<1>6. d \in S
  <2> HIDE DEF S
  <2> QED
    BY <1>5
<1> QED
  BY <1>1, <1>4, <1>6

(* Every number below the number of groups is that of a start. *)
LEMMA RankOnto ==
  ASSUME NEW m \in Maps, NEW i \in 0 .. NGroups(m) - 1
  PROVE  \E s \in Starts(m) : Rank(m, s) = i
<1>1. NE[m] \in Nat /\ i \in Nat /\ Rank(m, NE[m]) \in Nat /\ i < Rank(m, NE[m])
  <2>1. NE[m] \in Nat
    BY MapsAre
  <2>2. PICK n \in Nat : n = Rank(m, NE[m])
    BY <2>1, RankStep
  <2> QED
    BY <2>1, <2>2 DEF NGroups
<1> DEFINE S == {x \in Nat : i < Rank(m, x)}
<1>2. PICK x \in S : \A y \in S : x <= y
  <2>1. S \in SUBSET Nat /\ S # {}
    BY <1>1
  <2> HIDE DEF S
  <2> QED
    BY <2>1, LeastElement
<1>3. x \in Nat /\ i < Rank(m, x)
  OBVIOUS
<1>4. x # 0
  BY <1>1, <1>3, RankStep
<1>5. PICK s \in Nat : x = s + 1
  <2>1. x - 1 \in Nat /\ x = (x - 1) + 1
    BY <1>3, <1>4
  <2> QED
    BY <2>1
<1>6. ~ (i < Rank(m, s))
  BY <1>2, <1>5
<1>7. Rank(m, s) \in Nat /\ Rank(m, s + 1) = Rank(m, s) + (IF s \in Starts(m) THEN 1 ELSE 0)
  BY RankStep
<1> QED
  BY <1>1, <1>3, <1>5, <1>6, <1>7

(* Without windows the number of an edge's group is the edge. *)
LEMMA RankOfEach ==
  ASSUME NEW m \in Maps, ag # 2
  PROVE  /\ Starts(m) = Edges(m)
         /\ \A e \in 0 .. NE[m] : Rank(m, e) = e
         /\ NGroups(m) = NE[m]
<1>1. NE[m] \in Nat /\ Starts(m) = Edges(m) /\ Edges(m) = 0 .. NE[m] - 1
  BY MapsAre DEF Starts
<1>2. ASSUME NEW e \in 0 .. NE[m] PROVE Rank(m, e) = e
  <2>1. {d \in Starts(m) : d < e} = 0 .. e - 1
    BY <1>1
  <2>2. Cardinality(0 .. e - 1) = e
    BY <1>1, FS_Interval
  <2> QED
    BY <2>1, <2>2 DEF Rank
<1>3. NE[m] \in 0 .. NE[m]
  BY <1>1
<1> QED
  BY <1>1, <1>2, <1>3 DEF NGroups
-----------------------------------------------------------------------------
(* Division leaves less than the divisor. *)
LEMMA Quotient ==
  ASSUME NEW n \in Nat, NEW b \in Nat \ {0}
  PROVE  /\ n \div b \in Nat
         /\ (n \div b) * b \in Nat
         /\ (n \div b) * b <= n
         /\ n < (n \div b) * b + b
         /\ (n % b = 0) = (n = (n \div b) * b)
<1>1. PICK q \in Nat, r \in 0 .. b - 1 : q = n \div b /\ r = n % b /\ n = q * b + r
  <2>1. /\ n \div b \in Nat /\ n % b \in 0 .. b - 1
        /\ n = (n \div b) * b + (n % b)
    OBVIOUS
  <2> QED
    BY <2>1
<1>2. q * b \in Nat
  OBVIOUS
<1> QED
  BY <1>1, <1>2

(* The number of windows. *)
LEMMA WindowsAre ==
  ASSUME im \in Maps
  PROVE  /\ NWins(im) \in Nat \ {0}
         /\ Windows = 0 .. NWins(im) - 1
         /\ \A w \in Nat : w < NWins(im) <=> w * WinSize < NE[im]
<1>1. PICK n \in Nat \ {0} : n = NE[im]
  BY MapsAre
<1>2. PICK W \in Nat \ {0} : W = WinSize
  BY WinSizeAssumption
<1>3. n + W - 1 \in Nat
  OBVIOUS
<1>4. PICK q \in Nat : /\ q = (n + W - 1) \div W
                       /\ q * W \in Nat
                       /\ q * W <= n + W - 1
                       /\ n + W - 1 < q * W + W
  BY <1>3, Quotient
<1>5. NWins(im) = q
  BY <1>1, <1>2, <1>4 DEF NWins
<1>6. ASSUME NEW w \in Nat, w < q PROVE w * W < n
  <2>1. (w + 1) * W <= q * W
    BY <1>6, Multiples
  <2>2. (w + 1) * W = w * W + W /\ w * W \in Nat
    OBVIOUS
  <2> QED
    BY <1>4, <2>1, <2>2
<1>7. ASSUME NEW w \in Nat, w * W < n PROVE w < q
  <2>1. SUFFICES ASSUME q <= w PROVE FALSE
    OBVIOUS
  <2>2. q * W <= w * W
    BY <2>1, Multiples
  <2>3. w * W \in Nat
    OBVIOUS
  <2> QED
    BY <1>4, <1>7, <2>2, <2>3
<1>8. q # 0
  <2>1. 0 * W = 0
    OBVIOUS
  <2> QED
    BY <1>7, <2>1
<1>9. \A w \in Nat : w < q <=> w * W < n
  BY <1>6, <1>7
<1> QED
  BY <1>1, <1>2, <1>5, <1>8, <1>9 DEF Windows

(* The edges of a window; it ends where the next one begins. *)
LEMMA WindowIs ==
  ASSUME im \in Maps, NEW w \in Windows
  PROVE  /\ w \in Nat
         /\ EidBegin(w) \in Nat /\ EidEnd(w) \in Nat
         /\ EidBegin(w) = w * WinSize
         /\ EidBegin(w) < EidEnd(w)
         /\ EidEnd(w) <= EidBegin(w) + WinSize
         /\ EidEnd(w) <= NE[im]
         /\ EidEnd(w) = EidBegin(w) + WinSize \/ EidEnd(w) = NE[im]
         /\ EidEnd(w) = EidBegin(w + 1)
<1>1. PICK n \in Nat \ {0} : n = NE[im]
  BY MapsAre
<1>2. PICK W \in Nat \ {0} : W = WinSize
  BY WinSizeAssumption
<1>3. w \in Nat /\ w < NWins(im)
  BY WindowsAre
<1>4. w * W < n
  BY <1>1, <1>2, <1>3, WindowsAre
<1>5. PICK x \in Nat : x = w * W
  BY <1>3
<1>6. (w + 1) * W = x + W
  BY <1>3, <1>5
<1>7. EidBegin(w) = x
  BY <1>1, <1>2, <1>4, <1>5 DEF EidBegin, Smaller
<1>8. EidEnd(w) = IF x + W < n THEN x + W ELSE n
  BY <1>1, <1>2, <1>6 DEF EidEnd, Smaller
<1>9. EidEnd(w) = EidBegin(w + 1)
  BY DEF EidBegin, EidEnd
<1> QED
  BY <1>1, <1>2, <1>3, <1>4, <1>5, <1>7, <1>8, <1>9

(* The windows cover the edges from the first to the last. *)
LEMMA WindowEnds ==
  ASSUME im \in Maps
  PROVE  EidBegin(0) = 0 /\ EidBegin(NWins(im)) = NE[im]
<1>1. PICK n \in Nat \ {0} : n = NE[im]
  BY MapsAre
<1>2. PICK W \in Nat \ {0} : W = WinSize
  BY WinSizeAssumption
<1>3. PICK q \in Nat : q = NWins(im)
  BY WindowsAre
<1>4. ~ (q * W < n) /\ q * W \in Nat
  <2>1. ~ (q < NWins(im))
    BY <1>3
  <2> QED
    BY <1>1, <1>2, <2>1, WindowsAre
<1>5. 0 * W = 0
  OBVIOUS
<1> QED
  BY <1>1, <1>2, <1>3, <1>4, <1>5 DEF EidBegin, Smaller

(* An edge is in one window, of which it may be the first. *)
LEMMA WindowOf ==
  ASSUME im \in Maps, NEW e \in Edges(im)
  PROVE  /\ e \div WinSize \in Windows
         /\ EidBegin(e \div WinSize) <= e
         /\ e < EidEnd(e \div WinSize)
         /\ (e % WinSize = 0) = (e = EidBegin(e \div WinSize))
<1>1. PICK n \in Nat \ {0} : n = NE[im]
  BY MapsAre
<1>2. PICK W \in Nat \ {0} : W = WinSize
  BY WinSizeAssumption
<1>3. e \in Nat /\ e < n
  BY <1>1, MapsAre
<1>4. PICK q \in Nat : /\ q = e \div W
                       /\ q * W \in Nat
                       /\ q * W <= e
                       /\ e < q * W + W
                       /\ (e % W = 0) = (e = q * W)
  BY <1>3, Quotient
<1>5. q * W < n
  BY <1>3, <1>4
<1>6. q \in Windows
  BY <1>1, <1>2, <1>5, WindowsAre
<1>7. EidBegin(q) = q * W /\ (EidEnd(q) = q * W + W \/ EidEnd(q) = n)
  BY <1>1, <1>2, <1>6, WindowIs
<1> QED
  BY <1>2, <1>3, <1>4, <1>6, <1>7

(* And in no other. *)
LEMMA InWindow ==
  ASSUME im \in Maps, NEW w \in Windows, NEW e \in EidBegin(w) .. EidEnd(w) - 1
  PROVE  e \in Edges(im) /\ e \div WinSize = w
<1>1. PICK W \in Nat \ {0} : W = WinSize
  BY WinSizeAssumption
<1>2. /\ w \in Nat /\ EidBegin(w) = w * W
      /\ EidEnd(w) \in Nat /\ EidEnd(w) <= w * W + W /\ EidEnd(w) <= NE[im]
  BY <1>1, WindowIs
<1>3. w * W \in Nat
  BY <1>2
<1>4. e \in Nat /\ w * W <= e /\ e < w * W + W /\ e < NE[im]
  <2>1. PICK n \in Nat : n = NE[im]
    BY MapsAre
  <2>2. PICK x \in Nat : x = w * W
    BY <1>3
  <2> QED
    BY <1>2, <2>1, <2>2
<1>5. PICK q \in Nat : q = e \div W /\ q * W \in Nat /\ q * W <= e /\ e < q * W + W
  BY <1>4, Quotient
<1>6. ~ (q < w)
  <2>1. SUFFICES ASSUME q < w PROVE FALSE
    OBVIOUS
  <2>2. (q + 1) * W <= w * W
    BY <1>2, <2>1, Multiples
  <2>3. (q + 1) * W = q * W + W
    OBVIOUS
  <2> QED
    BY <1>3, <1>4, <1>5, <2>2, <2>3
<1>7. ~ (w < q)
  <2>1. SUFFICES ASSUME w < q PROVE FALSE
    OBVIOUS
  <2>2. (w + 1) * W <= q * W
    BY <1>2, <2>1, Multiples
  <2>3. (w + 1) * W = w * W + W
    BY <1>2
  <2> QED
    BY <1>3, <1>4, <1>5, <2>2, <2>3
<1>8. q = w
  BY <1>2, <1>5, <1>6, <1>7
<1>9. e \in Edges(im)
  BY <1>4, MapsAre
<1> QED
  BY <1>1, <1>5, <1>8, <1>9

(* With windows, an edge starts a group if it is the first of its window or
   does not fit. *)
LEMMA StartsAre ==
  ASSUME InputsOK, ag = 2, im \in Maps, NEW w \in Windows, NEW e \in EidBegin(w) .. EidEnd(w) - 1
  PROVE  e \in Starts(im) <=> e = EidBegin(w) \/ e \in cuts[im]
<1>1. e \in Edges(im) /\ e \div WinSize = w
  BY InWindow
<1>2. (e % WinSize = 0) = (e = EidBegin(w))
  BY <1>1, WindowOf
<1> QED
  BY <1>1, <1>2 DEF Starts

(* The first pass counts the groups that start in a window. *)
LEMMA CountIs ==
  ASSUME InputsOK, ag = 2, im \in Maps, NEW w \in Windows
  PROVE  /\ 1 + Cardinality(cuts[im] \cap (EidBegin(w) + 1 .. EidEnd(w) - 1)) = GroupsOf(w)
         /\ GroupsOf(w) \in 0 .. WinSize
<1>1. PICK lo \in Nat, hi \in Nat, W \in Nat \ {0} :
        /\ lo = EidBegin(w) /\ hi = EidEnd(w) /\ W = WinSize
        /\ lo < hi /\ hi <= lo + W /\ hi <= NE[im]
  BY WindowIs, WinSizeAssumption
<1>2. PICK A \in SUBSET Starts(im) : A = {e \in Starts(im) : e < lo}
  OBVIOUS
<1>3. PICK C : C = cuts[im] \cap (lo + 1 .. hi - 1)
  OBVIOUS
<1>4. Starts(im) \subseteq Nat /\ IsFiniteSet(Starts(im))
  <2>1. Edges(im) = 0 .. NE[im] - 1 /\ NE[im] \in Nat /\ Starts(im) \subseteq Edges(im)
    BY MapsAre
  <2>2. IsFiniteSet(Edges(im))
    BY <2>1, FS_Interval
  <2> QED
    BY <2>1, <2>2, FS_Subset
<1>5. \A e \in lo .. hi - 1 : e \in Starts(im) <=> e = lo \/ e \in cuts[im]
  BY <1>1, StartsAre
<1>6. {e \in Starts(im) : e < hi} = (A \cup C) \cup {lo}
  <2>1. ASSUME NEW e \in Starts(im), e < hi PROVE e \in (A \cup C) \cup {lo}
    <3>1. e \in Nat
      BY <1>4
    <3>2. CASE e < lo
      BY <1>2, <3>2
    <3>3. CASE ~ (e < lo)
      <4>1. e \in lo .. hi - 1
        BY <2>1, <3>1, <3>3
      <4>2. e = lo \/ e \in cuts[im]
        BY <1>5, <4>1
      <4>3. e # lo => e \in lo + 1 .. hi - 1
        BY <4>1
      <4> QED
        BY <1>3, <4>2, <4>3
    <3> QED
      BY <3>2, <3>3
  <2>2. ASSUME NEW e \in A PROVE e \in Starts(im) /\ e < hi
    BY <1>1, <1>2, <1>4
  <2>3. ASSUME NEW e \in C PROVE e \in Starts(im) /\ e < hi
    <3>1. e \in lo .. hi - 1 /\ e \in cuts[im] /\ e < hi
      BY <1>3
    <3> QED
      BY <1>5, <3>1
  <2>4. lo \in Starts(im) /\ lo < hi
    <3>1. lo \in lo .. hi - 1
      BY <1>1
    <3> QED
      BY <1>1, <1>5, <3>1
  <2> QED
    BY <2>1, <2>2, <2>3, <2>4
<1>7. IsFiniteSet(A) /\ IsFiniteSet(C) /\ Cardinality(A) \in Nat /\ Cardinality(C) \in Nat
  <2>1. IsFiniteSet(A)
    BY <1>4, FS_Subset
  <2>2. IsFiniteSet(lo + 1 .. hi - 1)
    BY FS_Interval
  <2>3. IsFiniteSet(C)
    BY <1>3, <2>2, FS_Subset
  <2> QED
    BY <2>1, <2>3, FS_CardinalityType
<1>8. Cardinality(A \cup C) = Cardinality(A) + Cardinality(C) /\ IsFiniteSet(A \cup C)
  <2>1. A \cap C = {}
    BY <1>2, <1>3
  <2>2. Cardinality(A \cap C) = 0
    BY <2>1, FS_EmptySet
  <2> QED
    BY <1>7, <2>2, FS_Union
<1>9. lo \notin A \cup C
  BY <1>2, <1>3
<1>10. Cardinality({e \in Starts(im) : e < hi}) = Cardinality(A) + Cardinality(C) + 1
  BY <1>6, <1>8, <1>9, FS_AddElement
<1>11. Rank(im, lo) = Cardinality(A) /\ Rank(im, hi) = Cardinality(A) + Cardinality(C) + 1
  BY <1>2, <1>10 DEF Rank
<1>12. PICK a \in Nat, c \in Nat : a = Cardinality(A) /\ c = Cardinality(C)
  BY <1>7
<1>13. GroupsOf(w) = c + 1
  BY <1>1, <1>11, <1>12 DEF GroupsOf
<1>14. a + c + 1 <= a + (hi - lo)
  <2>1. Rank(im, hi) <= Rank(im, lo) + (hi - lo)
    BY <1>1, RankGrows
  <2> QED
    BY <1>11, <1>12, <2>1
<1>15. c + 1 \in 0 .. W
  BY <1>1, <1>12, <1>14
<1> QED
  BY <1>1, <1>3, <1>12, <1>13, <1>15

(* The sum of the counts is the number of the first group of a window. *)
LEMMA SumIsRank ==
  ASSUME im \in Maps, nGrp \in [Windows -> Nat], \A w \in Windows : nGrp[w] = GroupsOf(w)
  PROVE  \A w \in 0 .. NWins(im) :
           SumBefore(nGrp, w) = Rank(im, EidBegin(w)) /\ Rank(im, EidBegin(w)) \in Nat
<1>1. PICK q \in Nat : q = NWins(im) /\ Windows = 0 .. q - 1
  BY WindowsAre
<1>2. nGrp \in [0 .. q - 1 -> Int]
  BY <1>1
<1> DEFINE S == {w \in 0 .. q : SumBefore(nGrp, w) = Rank(im, EidBegin(w))
                                /\ Rank(im, EidBegin(w)) \in Nat}
<1>3. 0 \in S
  <2>1. SumBefore(nGrp, 0) = 0
    BY <1>2, SumOfFirst DEF SumBefore
  <2>2. EidBegin(0) = 0 /\ Rank(im, 0) = 0
    BY WindowEnds, RankStep
  <2> QED
    BY <2>1, <2>2
<1>4. ASSUME NEW w \in 0 .. q - 1, w \in S PROVE w + 1 \in S
  <2>1. SumBefore(nGrp, w + 1) = SumBefore(nGrp, w) + nGrp[w]
    BY <1>2, SumOfFirst DEF SumBefore
  <2>2. nGrp[w] = Rank(im, EidEnd(w)) - Rank(im, EidBegin(w))
    BY <1>1 DEF GroupsOf
  <2>3. EidEnd(w) = EidBegin(w + 1) /\ EidEnd(w) \in Nat
    BY <1>1, WindowIs
  <2>4. PICK a \in Nat, b \in Nat : a = Rank(im, EidBegin(w)) /\ b = Rank(im, EidBegin(w + 1))
    BY <1>4, <2>3, RankStep
  <2>5. SumBefore(nGrp, w + 1) = b
    BY <1>4, <2>1, <2>2, <2>3, <2>4
  <2>6. w + 1 \in 0 .. q
    BY <1>1
  <2> QED
    BY <2>4, <2>5, <2>6
<1>5. \A w \in 0 .. q : w \in S
  <2>1. \A w \in 0 .. q - 1 : w \in S => w + 1 \in S
    BY <1>4
  <2> HIDE DEF S
  <2> QED
    BY <1>3, <2>1, UpTo
<1> QED
  BY <1>1, <1>5

(* The group that starts at edge s of window w. *)
LEMMA GroupEndIs ==
  ASSUME InputsOK, ag = 2, im \in Maps, NEW w \in Windows,
         NEW s \in EidBegin(w) .. EidEnd(w) - 1
  PROVE  /\ GroupEnd(w, s) \in s + 1 .. EidEnd(w)
         /\ IsGroup(im, s, GroupEnd(w, s))
         /\ GroupEnd(w, s) \in Starts(im) \/ GroupEnd(w, s) = EidEnd(w)
<1>1. PICK lo \in Nat, hi \in Nat :
        lo = EidBegin(w) /\ hi = EidEnd(w) /\ lo < hi /\ hi <= NE[im]
  BY WindowIs
<1>2. s \in Nat /\ lo <= s /\ s < hi
  BY <1>1
<1> DEFINE Here(h) == /\ h \in cuts[im] \/ h = EidEnd(w)
                      /\ \A e \in s + 1 .. h - 1 : e \notin cuts[im]
<1>3. \E h \in s + 1 .. EidEnd(w) : Here(h)
  <2> DEFINE S == {h \in s + 1 .. hi : h \in cuts[im] \/ h = hi}
  <2>1. PICK h \in S : \A g \in S : h <= g
    <3>1. S \in SUBSET Nat /\ hi \in S
      BY <1>2
    <3> HIDE DEF S
    <3> QED
      BY <3>1, LeastElement
  <2>2. ASSUME NEW e \in s + 1 .. h - 1, e \in cuts[im] PROVE FALSE
    <3>1. h \in s + 1 .. hi
      OBVIOUS
    <3>2. e \in s + 1 .. hi /\ ~ (h <= e)
      BY <1>2, <3>1
    <3>3. e \in S
      BY <2>2, <3>2
    <3> QED
      BY <2>1, <3>2, <3>3
  <2> QED
    BY <1>1, <2>2
<1>4. PICK h \in s + 1 .. EidEnd(w) : h = GroupEnd(w, s) /\ Here(h)
  BY <1>3 DEF GroupEnd
<1>5. \A e \in s + 1 .. h - 1 : e \notin Starts(im)
  <2>1. ASSUME NEW e \in s + 1 .. h - 1 PROVE e \notin Starts(im)
    <3>1. e \in EidBegin(w) .. EidEnd(w) - 1 /\ e # EidBegin(w)
      BY <1>1, <1>2, <1>4
    <3>2. e \notin cuts[im]
      BY <1>4
    <3> QED
      BY <3>1, <3>2, StartsAre
  <2> QED
    BY <2>1
<1>6. h \in Starts(im) \/ h = EidEnd(w)
  <2>1. CASE h \in cuts[im] /\ h # EidEnd(w)
    <3>1. h \in EidBegin(w) .. EidEnd(w) - 1
      BY <1>1, <1>2, <1>4, <2>1
    <3> QED
      BY <2>1, <3>1, StartsAre
  <2>2. CASE h = EidEnd(w)
    BY <2>2
  <2> QED
    BY <1>4, <2>1, <2>2
<1>7. h = EidEnd(w) => h \in Starts(im) \/ h = NE[im]
  <2>1. SUFFICES ASSUME EidEnd(w) # NE[im] PROVE EidEnd(w) \in Starts(im)
    OBVIOUS
  <2>2. w \in Nat /\ EidEnd(w) = EidBegin(w + 1)
    BY WindowIs
  <2>3. w + 1 \in Windows
    <3>1. w + 1 # NWins(im)
      BY <2>1, <2>2, WindowEnds
    <3>2. NWins(im) \in Nat /\ Windows = 0 .. NWins(im) - 1
      BY WindowsAre
    <3> QED
      BY <2>2, <3>1, <3>2
  <2>4. EidBegin(w + 1) \in EidBegin(w + 1) .. EidEnd(w + 1) - 1
    BY <2>3, WindowIs
  <2> QED
    BY <2>2, <2>3, <2>4, StartsAre
<1>8. h \in s + 1 .. NE[im]
  <2>1. PICK n \in Nat : n = NE[im]
    BY MapsAre
  <2> QED
    BY <1>1, <1>2, <1>4, <2>1
<1> QED
  BY <1>4, <1>5, <1>6, <1>7, <1>8 DEF IsGroup
-----------------------------------------------------------------------------
(* The invariant holds at first. *)
LEMMA InitHolds == Init => Inv
<1> SUFFICES ASSUME Init PROVE Inv
  OBVIOUS
<1>1. phase = "start" /\ todo # <<>> /\ todo \in {<<0, 1>>, <<0>>, <<1>>}
  <2>1. phase = "start" /\ todo \in {<<0, 1>>, <<0>>, <<1>>}
    BY DEF Init
  <2>2. \A s \in {<<0, 1>>, <<0>>, <<1>>} : s # <<>>
    OBVIOUS
  <2> QED
    BY <2>1, <2>2
<1>2. \A m \in Maps : Edges(m) = 0 .. NE[m] - 1 /\ NE[m] \in Nat
  BY MapsAre
<1>3. EdgesOf(NoRange) = {}
  BY DEF EdgesOf, NoRange, EdgeRange
<1>4. /\ DOMAIN accel = Maps /\ DOMAIN ranges = Maps
      /\ \A m \in Maps : accel[m] = Empty
      /\ \A m \in Maps : \A i \in DOMAIN ranges[m] : ranges[m][i] = NoRange
      /\ \A m \in Maps : DOMAIN ranges[m] = IF program = "vk" THEN Edges(m) ELSE {}
      /\ program = "vk" => DOMAIN aabbs = Edges(0) \cup Edges(1)
      /\ \A i \in DOMAIN aabbs : aabbs[i] = {}
  BY DEF Init, Empty, Maps
<1>5. DOMAIN Empty = {} /\ nGrp = Empty /\ psum = Empty
  BY DEF Init, Empty
<1>6. TypeOK
  BY <1>1, <1>3, <1>4, <1>5 DEF TypeOK
<1>7. InputsOK
  <2>1. cuts \in [Maps -> SUBSET (Inner(0) \cup Inner(1))]
    BY DEF Init
  <2>2. Inner(0) \subseteq Edges(0) /\ Inner(1) \subseteq Edges(1)
    BY DEF Inner
  <2>3. cuts \in [Maps -> SUBSET (Edges(0) \cup Edges(1))]
    BY <2>1, <2>2
  <2>4. program \in {"overlay", "query", "vk"} /\ fau \in BOOLEAN /\ (fau => program = "overlay")
    BY DEF Init
  <2>5. ag \in {0, 1, 2} /\ (ag = 1 => program = "vk")
    BY DEF Init
  <2>6. \A m \in Maps : cuts[m] \subseteq (IF ag = 2 THEN Inner(m) ELSE {})
    BY DEF Init
  <2> QED
    BY <2>3, <2>4, <2>5, <2>6 DEF InputsOK
<1>8. PhaseOK
  BY <1>1 DEF PhaseOK, Init, ScanInit
<1>9. MapsOK
  BY <1>1, <1>4 DEF MapsOK, Built, Untouched
<1> QED
  BY <1>1, <1>6, <1>7, <1>8, <1>9 DEF Inv, Counting, Counted, ScanOK, PsumOK, Finalizing, Emitting, Stored

(* The first of the maps still to be built. *)
LEMMA CurrentIs ==
  ASSUME TypeOK, todo # <<>>
  PROVE  /\ im \in Maps
         /\ Pending(im)
         /\ todo = <<0, 1>> \/ todo = <<im>>
         /\ Tail(todo) \in {<<1>>, <<>>}
         /\ \A m \in Maps : Tail(todo) = <<m>> => Pending(m) /\ m # im
<1>1. todo = <<0, 1>> \/ todo = <<0>> \/ todo = <<1>>
  BY DEF TypeOK
<1>2. CASE todo = <<0, 1>>
  <2>1. im = 0 /\ Tail(todo) = <<1>>
    BY <1>2 DEF im
  <2>2. \A m \in Maps : <<1>> = <<m>> => m = 1
    OBVIOUS
  <2> QED
    BY <1>2, <2>1, <2>2 DEF Pending, Maps
<1>3. CASE todo = <<0>>
  <2>1. im = 0 /\ Tail(todo) = <<>>
    BY <1>3 DEF im
  <2>2. \A m \in Maps : <<>> # <<m>>
    OBVIOUS
  <2> QED
    BY <1>3, <2>1, <2>2 DEF Pending, Maps
<1>4. CASE todo = <<1>>
  <2>1. im = 1 /\ Tail(todo) = <<>>
    BY <1>4 DEF im
  <2>2. \A m \in Maps : <<>> # <<m>>
    OBVIOUS
  <2> QED
    BY <1>4, <2>1, <2>2 DEF Pending, Maps
<1> QED
  BY <1>1, <1>2, <1>3, <1>4

(* What depends on the inputs and the current map only. *)
LEMMA Kept ==
  ASSUME UNCHANGED <<inputVars, todo>>
  PROVE  /\ im' = im
         /\ \A m : Starts(m)' = Starts(m)
         /\ \A m, x : Rank(m, x)' = Rank(m, x)
         /\ \A m : NGroups(m)' = NGroups(m)
         /\ \A m, s, h : IsGroup(m, s, h)' <=> IsGroup(m, s, h)
         /\ NWins(im)' = NWins(im) /\ Windows' = Windows
         /\ \A w : EidBegin(w)' = EidBegin(w)
         /\ \A w : EidEnd(w)' = EidEnd(w)
         /\ \A w : GroupsOf(w)' = GroupsOf(w)
         /\ \A m : Pending(m)' <=> Pending(m)
         /\ InputsOK => InputsOK'
<1>1. im' = im
  BY DEF im
<1>2. \A m : Starts(m)' = Starts(m)
  BY DEF Starts, inputVars
<1>3. \A m, x : Rank(m, x)' = Rank(m, x)
  BY <1>2 DEF Rank
<1>4. \A m : NGroups(m)' = NGroups(m)
  BY <1>3 DEF NGroups
<1>5. \A m, s, h : IsGroup(m, s, h)' <=> IsGroup(m, s, h)
  BY <1>2 DEF IsGroup
<1>6. NWins(im)' = NWins(im) /\ Windows' = Windows
  BY <1>1 DEF NWins, Windows
<1>7. \A w : EidBegin(w)' = EidBegin(w) /\ EidEnd(w)' = EidEnd(w)
  BY <1>1 DEF EidBegin, EidEnd
<1>8. \A w : GroupsOf(w)' = GroupsOf(w)
  BY <1>1, <1>2, <1>7 DEF GroupsOf, Rank
<1>9. \A m : Pending(m)' <=> Pending(m)
  BY DEF Pending
<1>10. InputsOK => InputsOK'
  BY DEF InputsOK, inputVars
<1> QED
  BY <1>1, <1>2, <1>3, <1>4, <1>5, <1>6, <1>7, <1>8, <1>9, <1>10

(* A step before or between the kernels that fill. *)
LEMMA MapsKept ==
  ASSUME Inv, UNCHANGED <<inputVars, todo, aabbs, ranges, accel>>,
         phase \notin {"each", "emit"}, phase' \notin {"each", "emit"}
  PROVE  MapsOK'
<1>1. \A m : Pending(m)' <=> Pending(m)
  BY Kept
<1>2. \A m : ~ Filling(m) /\ ~ Filling(m)'
  BY DEF Filling
<1>3. \A m : Built(m)' <=> Built(m)
  BY DEF Built
<1>4. \A m : Complete(m)' <=> Complete(m)
  BY DEF Complete
<1>5. \A m : Untouched(m)' <=> Untouched(m)
  BY DEF Untouched, inputVars
<1> QED
  BY <1>1, <1>2, <1>3, <1>4, <1>5 DEF Inv, MapsOK, inputVars

(* Every map has groups, and not more than edges. *)
LEMMA NGroupsIs ==
  ASSUME NEW m \in Maps
  PROVE  NGroups(m) \in Nat \ {0} /\ NGroups(m) <= NE[m]
<1>1. NE[m] \in Nat \ {0} /\ Edges(m) = 0 .. NE[m] - 1
  BY MapsAre
<1>2. 0 \in Edges(m) /\ 0 % WinSize = 0
  BY <1>1, WinSizeAssumption
<1>3. 0 \in Starts(m)
  BY <1>2 DEF Starts
<1>4. Rank(m, 0) \in 0 .. NGroups(m) - 1 /\ NGroups(m) \in Nat /\ NGroups(m) <= NE[m]
  BY <1>3, RankBelow
<1>5. NGroups(m) # 0
  BY <1>4
<1> QED
  BY <1>4, <1>5

(* The arrays have room for the groups before they are stored. *)
LEMMA RoomMade ==
  ASSUME Inv, todo # <<>>, phase \notin {"each", "emit"}, MakeRoom(NGroups(im)),
         UNCHANGED <<inputVars, todo, accel>>, phase' \in {"each", "emit"}, Emitted' = {}
  PROVE  /\ Stored'
         /\ MapsOK'
         /\ \A i \in DOMAIN aabbs' : aabbs'[i] \subseteq Edges(0) \cup Edges(1)
         /\ \A m \in Maps : \A i \in DOMAIN ranges'[m] : EdgesOf(ranges'[m][i]) \subseteq Edges(m)
<1>1. /\ im \in Maps /\ Pending(im) /\ ~ Filling(im)
      /\ \A m \in Maps : ~ Filling(m)
  BY CurrentIs DEF Inv, Filling
<1>2. Untouched(im) /\ ~ Built(im)
  BY <1>1 DEF Inv, MapsOK
<1>3. PICK n \in Nat : n = NGroups(im) /\ n <= NE[im]
  BY <1>1, NGroupsIs
<1>4. EdgesOf(NoRange) = {}
  BY DEF EdgesOf, NoRange, EdgeRange
<1>5. /\ 0 .. n - 1 \subseteq DOMAIN aabbs'
      /\ 0 .. n - 1 \subseteq DOMAIN ranges'[im]
      /\ program # "vk" => DOMAIN aabbs' = 0 .. n - 1
      /\ program = "vk" => UNCHANGED <<aabbs, ranges>>
      /\ DOMAIN ranges' = Maps
      /\ \A m \in Maps : m # im => ranges'[m] = ranges[m]
      /\ \A i \in DOMAIN ranges'[im] : ranges'[im][i] = NoRange
      /\ \A i \in DOMAIN aabbs' : aabbs'[i] \subseteq Edges(0) \cup Edges(1)
  <2>1. CASE program = "vk"
    <3>1. UNCHANGED <<aabbs, ranges>>
      BY <2>1 DEF MakeRoom
    <3>2. DOMAIN aabbs = Edges(0) \cup Edges(1) /\ DOMAIN ranges[im] = Edges(im) /\ DOMAIN ranges = Maps
      BY <1>2, <2>1 DEF Inv, MapsOK, Untouched
    <3>3. 0 .. n - 1 \subseteq Edges(im)
      BY <1>1, <1>3, MapsAre
    <3>4. Edges(im) \subseteq Edges(0) \cup Edges(1)
      BY <1>1 DEF Maps
    <3>5. \A i \in DOMAIN aabbs : aabbs[i] \subseteq Edges(0) \cup Edges(1)
      BY DEF Inv, TypeOK
    <3> QED
      BY <1>2, <2>1, <3>1, <3>2, <3>3, <3>4, <3>5 DEF Untouched
  <2>2. CASE program # "vk"
    <3>1. aabbs' = [i \in 0 .. n - 1 |-> IF i \in DOMAIN aabbs THEN aabbs[i] ELSE {}]
      BY <1>3, <2>2 DEF MakeRoom, Resize
    <3>2. DOMAIN ranges = Maps /\ DOMAIN ranges[im] = {}
      BY <1>2, <2>2 DEF Inv, MapsOK, Untouched
    <3>3. ranges' = [ranges EXCEPT ![im] = [i \in 0 .. n - 1 |->
                       IF i \in DOMAIN ranges[im] THEN ranges[im][i] ELSE NoRange]]
      BY <1>3, <2>2 DEF MakeRoom, Resize
    <3>4. ranges'[im] = [i \in 0 .. n - 1 |-> NoRange]
      BY <1>1, <3>2, <3>3
    <3>5. \A i \in DOMAIN aabbs : aabbs[i] \subseteq Edges(0) \cup Edges(1)
      BY DEF Inv, TypeOK
    <3>6. \A i \in DOMAIN aabbs' : aabbs'[i] \subseteq Edges(0) \cup Edges(1)
      BY <3>1, <3>5
    <3> QED
      BY <1>1, <2>2, <3>1, <3>2, <3>3, <3>4, <3>6
  <2> QED
    BY <2>1, <2>2
<1>6. im' = im /\ NGroups(im)' = n /\ program' = program
  BY <1>3, Kept DEF inputVars
<1>7. Stored'
  <2>1. /\ (Emitted \subseteq Starts(im))'
        /\ (\A s \in Emitted : \E h \in 1 .. NE[im] :
              /\ IsGroup(im, s, h)
              /\ ranges[im][Rank(im, s)] = EdgeRange(s, h)
              /\ aabbs[Rank(im, s)] = s .. h - 1)'
    OBVIOUS
  <2>2. (\A i \in DOMAIN ranges[im] : (\A s \in Emitted : i # Rank(im, s)) => ranges[im][i] = NoRange)'
    BY <1>5, <1>6
  <2> QED
    BY <1>5, <1>6, <2>1, <2>2 DEF Stored
<1>8. ASSUME NEW m \in Maps PROVE /\ (Pending(m) => ~ Built(m))'
                                  /\ (Built(m) => Complete(m))'
                                  /\ (~ Built(m) /\ ~ Filling(m) => Untouched(m))'
  <2>1. (Pending(m)' <=> Pending(m)) /\ (Built(m)' <=> Built(m))
    BY Kept DEF Built
  <2>2. CASE m = im
    <3>1. Filling(m)' /\ ~ Built(m)'
      BY <1>2, <1>6, <2>1, <2>2 DEF Filling
    <3> QED
      BY <3>1
  <2>3. CASE m # im
    <3>1. ranges'[m] = ranges[m] /\ accel'[m] = accel[m]
      BY <1>5, <2>3
    <3>2. Complete(m)' <=> Complete(m)
      BY <3>1 DEF Complete
    <3>3. Untouched(m)' <=> Untouched(m)
      BY <3>1, <1>6 DEF Untouched
    <3> QED
      BY <1>1, <2>1, <3>2, <3>3 DEF Inv, MapsOK
  <2> QED
    BY <2>2, <2>3
<1>9. MapsOK'
  <2>1. program = "vk" => DOMAIN aabbs' = Edges(0) \cup Edges(1)
    BY <1>5 DEF Inv, MapsOK
  <2> QED
    BY <1>5, <1>6, <1>8, <2>1 DEF Inv, MapsOK
<1>10. \A m \in Maps : \A i \in DOMAIN ranges'[m] : EdgesOf(ranges'[m][i]) \subseteq Edges(m)
  BY <1>4, <1>5 DEF Inv, TypeOK
<1> QED
  BY <1>5, <1>7, <1>9, <1>10

(* StartEach keeps the invariant. *)
LEMMA StartEachStep == ASSUME Inv, StartEach PROVE Inv'
<1>1. /\ todo # <<>> /\ phase = "start" /\ ag = 0 /\ MakeRoom(NE[im])
      /\ phase' = "each" /\ done' = {}
      /\ UNCHANGED <<inputVars, todo, memVars, accel, scanVars>>
  BY DEF StartEach, Go
<1>2. im \in Maps
  BY <1>1, CurrentIs DEF Inv
<1>3. NGroups(im) = NE[im]
  BY <1>1, <1>2, RankOfEach
<1>4. Emitted' = {}
  BY <1>1 DEF Emitted
<1>5. /\ Stored' /\ MapsOK'
      /\ \A i \in DOMAIN aabbs' : aabbs'[i] \subseteq Edges(0) \cup Edges(1)
      /\ \A m \in Maps : \A i \in DOMAIN ranges'[m] : EdgesOf(ranges'[m][i]) \subseteq Edges(m)
  BY <1>1, <1>3, <1>4, RoomMade
<1>6. TypeOK'
  BY <1>1, <1>5 DEF Inv, TypeOK, memVars
<1>7. InputsOK'
  BY <1>1, Kept DEF Inv
<1>8. PhaseOK'
  BY <1>1 DEF Inv, PhaseOK, inputVars, scanVars
<1> QED
  BY <1>1, <1>5, <1>6, <1>7, <1>8 DEF Inv, Counting, Counted, ScanOK, PsumOK, Finalizing, Emitting

(* StartCount keeps the invariant. *)
LEMMA StartCountStep == ASSUME Inv, StartCount PROVE Inv'
<1>1. /\ todo # <<>> /\ phase = "start" /\ ag = 2
      /\ nGrp' = [w \in Windows |-> 0]
      /\ psum' = [w \in 0 .. NWins(im) |-> 0]
      /\ phase' = "count" /\ done' = {}
      /\ UNCHANGED <<inputVars, todo, at, k, aabbs, ranges, accel, scanVars>>
  BY DEF StartCount, Go
<1>2. im \in Maps /\ NWins(im) \in Nat
  BY <1>1, CurrentIs, WindowsAre DEF Inv
<1>3. TypeOK'
  <2>1. \A w \in DOMAIN nGrp' : nGrp'[w] \in 0 .. WinSize
    BY <1>1, WinSizeAssumption
  <2>2. \A w \in DOMAIN psum' : psum'[w] \in Nat
    BY <1>1
  <2> QED
    BY <1>1, <2>1, <2>2 DEF Inv, TypeOK
<1>4. InputsOK' /\ im' = im /\ Windows' = Windows /\ NWins(im)' = NWins(im)
  BY <1>1, Kept DEF Inv
<1>5. PhaseOK'
  BY <1>1 DEF Inv, PhaseOK, inputVars, scanVars
<1>6. MapsOK'
  BY <1>1, MapsKept
<1>7. Counting'
  BY <1>1, <1>4 DEF Counting
<1>8. PsumOK'
  BY <1>1, <1>2, <1>4 DEF PsumOK
<1> QED
  BY <1>1, <1>3, <1>4, <1>5, <1>6, <1>7, <1>8
  DEF Inv, Counted, ScanOK, Finalizing, Emitting, Stored

(* Throw keeps the invariant. *)
LEMMA ThrowStep == ASSUME Inv, Throw PROVE Inv'
<1>1. /\ todo # <<>> /\ phase = "start" /\ ag = 1
      /\ phase' = "thrown" /\ done' = {}
      /\ UNCHANGED <<inputVars, todo, memVars, aabbs, ranges, accel, scanVars>>
  BY DEF Throw, Go
<1>2. TypeOK'
  BY <1>1 DEF Inv, TypeOK, memVars
<1>3. InputsOK'
  BY <1>1, Kept DEF Inv
<1>4. PhaseOK'
  BY <1>1 DEF Inv, PhaseOK, inputVars, scanVars
<1>5. MapsOK'
  BY <1>1, MapsKept
<1> QED
  BY <1>1, <1>2, <1>3, <1>4, <1>5
  DEF Inv, Counting, Counted, ScanOK, PsumOK, Finalizing, Emitting, Stored

(* CountWindow keeps the invariant. *)
LEMMA CountStep == ASSUME Inv, todo # <<>>, NEW w \in Windows, CountWindow(w) PROVE Inv'
<1>1. /\ phase = "count" /\ w \notin done
      /\ nGrp' = [nGrp EXCEPT ![w] =
           1 + Cardinality(cuts[im] \cap (EidBegin(w) + 1 .. EidEnd(w) - 1))]
      /\ done' = done \cup {w}
      /\ UNCHANGED <<inputVars, todo, phase, psum, at, k, aabbs, ranges, accel, scanVars>>
  BY DEF CountWindow
<1>2. im \in Maps /\ ag = 2 /\ InputsOK
  BY <1>1, CurrentIs DEF Inv, PhaseOK
<1>3. w \in Nat
  BY <1>2, WindowIs
<1>4. nGrp' = [nGrp EXCEPT ![w] = GroupsOf(w)] /\ GroupsOf(w) \in 0 .. WinSize /\ GroupsOf(w) \in Nat
  <2>1. /\ 1 + Cardinality(cuts[im] \cap (EidBegin(w) + 1 .. EidEnd(w) - 1)) = GroupsOf(w)
        /\ GroupsOf(w) \in 0 .. WinSize
    BY <1>2, CountIs
  <2>2. GroupsOf(w) \in Nat
    BY <2>1, WinSizeAssumption
  <2> QED
    BY <1>1, <2>1, <2>2
<1>5. nGrp \in [Windows -> Nat] /\ done \subseteq Windows /\ \A v \in done : nGrp[v] = GroupsOf(v)
  BY <1>1 DEF Inv, Counting
<1>6. TypeOK'
  <2>1. \A v \in DOMAIN nGrp' : nGrp'[v] \in 0 .. WinSize
    BY <1>4 DEF Inv, TypeOK
  <2> QED
    BY <1>1, <2>1 DEF Inv, TypeOK
<1>7. /\ InputsOK' /\ im' = im /\ Windows' = Windows /\ NWins(im)' = NWins(im)
      /\ \A v : GroupsOf(v)' = GroupsOf(v)
  BY <1>1, Kept DEF Inv
<1>8. PhaseOK'
  BY <1>1, <1>3 DEF Inv, PhaseOK, inputVars, scanVars
<1>9. MapsOK'
  BY <1>1, MapsKept
<1>10. Counting'
  <2>1. nGrp' \in [Windows -> Nat]
    BY <1>4, <1>5
  <2>2. \A v \in done' : nGrp'[v] = GroupsOf(v)
    BY <1>1, <1>4, <1>5
  <2>3. done' \subseteq Windows
    BY <1>1, <1>5
  <2> QED
    BY <1>7, <2>1, <2>2, <2>3 DEF Counting
<1>11. PsumOK'
  BY <1>1, <1>7 DEF Inv, PsumOK
<1> QED
  BY <1>1, <1>6, <1>7, <1>8, <1>9, <1>10, <1>11
  DEF Inv, Counted, ScanOK, Finalizing, Emitting, Stored

(* InclusiveScan keeps the invariant. *)
LEMMA InclusiveScanStep == ASSUME Inv, todo # <<>>, InclusiveScan PROVE Inv'
<1>1. /\ phase = "count" /\ program # "vk" /\ done = Windows
      /\ psum' = [w \in DOMAIN psum |-> SumBefore(nGrp, w)]
      /\ phase' = "finalize" /\ done' = {}
      /\ UNCHANGED <<inputVars, todo, nGrp, at, k, aabbs, ranges, accel, scanVars>>
  BY DEF InclusiveScan, Go
<1>2. im \in Maps /\ NWins(im) \in Nat /\ Windows = 0 .. NWins(im) - 1
  BY CurrentIs, WindowsAre DEF Inv
<1>3. /\ nGrp \in [Windows -> Nat] /\ \A w \in Windows : nGrp[w] = GroupsOf(w)
      /\ DOMAIN psum = 0 .. NWins(im)
  BY <1>1 DEF Inv, Counting, PsumOK
<1>4. \A w \in 0 .. NWins(im) : psum'[w] = Rank(im, EidBegin(w)) /\ psum'[w] \in Nat
  BY <1>1, <1>2, <1>3, SumIsRank
<1>5. TypeOK'
  BY <1>1, <1>3, <1>4 DEF Inv, TypeOK
<1>6. /\ InputsOK' /\ im' = im /\ Windows' = Windows /\ NWins(im)' = NWins(im)
      /\ \A w : GroupsOf(w)' = GroupsOf(w)
      /\ \A w : EidEnd(w)' = EidEnd(w)
      /\ \A m, x : Rank(m, x)' = Rank(m, x)
  BY <1>1, Kept DEF Inv
<1>7. PhaseOK'
  BY <1>1 DEF Inv, PhaseOK, inputVars, scanVars
<1>8. MapsOK'
  BY <1>1, MapsKept
<1>9. PsumOK'
  <2>1. EidBegin(0) = 0 /\ Rank(im, 0) = 0 /\ 0 \in 0 .. NWins(im)
    BY <1>2, WindowEnds, RankStep
  <2>2. psum'[0] = 0
    BY <1>4, <2>1
  <2> QED
    BY <1>1, <1>3, <1>6, <2>2 DEF PsumOK
<1>10. Finalizing'
  <2>1. ASSUME NEW w \in Windows PROVE psum'[w + 1] = Rank(im, EidEnd(w))
    <3>1. w + 1 \in 0 .. NWins(im) /\ EidEnd(w) = EidBegin(w + 1)
      BY <1>2, WindowIs
    <3> QED
      BY <1>4, <3>1
  <2>2. program' # "vk"
    BY <1>1 DEF inputVars
  <2>3. (\A w \in Windows : psum[w + 1] = Rank(im, EidEnd(w)))'
    BY <1>6, <2>1
  <2> QED
    BY <2>2, <2>3 DEF Finalizing
<1>11. Counted'
  BY <1>1, <1>3, <1>6 DEF Counted
<1> QED
  BY <1>1, <1>5, <1>6, <1>7, <1>8, <1>9, <1>10, <1>11
  DEF Inv, Counting, ScanOK, Emitting, Stored

-----------------------------------------------------------------------------
(* A sequence is one of what is in it. *)
LEMMA RangeOf ==
  ASSUME NEW S, NEW s \in Seq(S)
  PROVE  s \in Seq(Range(s))
<1>1. s \in [1 .. Len(s) -> S] /\ Len(s) \in Nat
  OBVIOUS
<1>2. s \in [1 .. Len(s) -> Range(s)]
  BY <1>1 DEF Range
<1> QED
  BY <1>1, <1>2, SeqDef

(* BeginScan keeps the invariant. *)
LEMMA BeginScanStep == ASSUME Inv, todo # <<>>, BeginScan PROVE Inv'
<1>1. /\ phase = "count" /\ program = "vk" /\ done = Windows
      /\ CallScan(nGrp, NWins(im))
      /\ phase' = "scan" /\ done' = {}
      /\ UNCHANGED <<inputVars, todo, memVars, aabbs, ranges, accel>>
  BY DEF BeginScan, Go
<1>2. TypeOK'
  BY <1>1 DEF Inv, TypeOK, memVars
<1>3. /\ InputsOK' /\ im' = im /\ Windows' = Windows /\ NWins(im)' = NWins(im)
      /\ \A w : GroupsOf(w)' = GroupsOf(w)
  BY <1>1, Kept DEF Inv
<1>4. PhaseOK'
  BY <1>1 DEF Inv, PhaseOK, inputVars
<1>5. MapsOK'
  BY <1>1, MapsKept
<1>6. PsumOK' /\ Counted'
  BY <1>1, <1>3 DEF Inv, PsumOK, Counting, Counted, memVars
<1>7. ScanOK'
  <2>1. PICK c : c = NewCall(nGrp, NWins(im))
    OBVIOUS
  <2>2. IsCall(c) /\ c.n = NWins(im)
    BY <2>1 DEF NewCall, IsCall
  <2>3. calls' = Append(<<>>, c)
    BY <1>1, <2>1 DEF CallScan, Inv, PhaseOK
  <2>4. calls' \in Seq({c}) /\ Len(calls') = 1 /\ calls'[1] = c /\ calls' # <<>>
    BY <2>3
  <2>5. calls' \in Seq(Range(calls'))
    <3>1. PICK d : d = calls'
      OBVIOUS
    <3>2. d \in Seq(Range(d))
      BY <2>4, <3>1, RangeOf
    <3> QED
      BY <3>1, <3>2
  <2>6. \A i \in 1 .. Len(calls') : IsCall(calls'[i])
    BY <2>2, <2>4
  <2> QED
    BY <1>3, <2>2, <2>4, <2>5, <2>6 DEF ScanOK, IsCall
<1> QED
  BY <1>1, <1>2, <1>3, <1>4, <1>5, <1>6, <1>7
  DEF Inv, Counting, Finalizing, Emitting, Stored

(* A kernel may change the call it runs for, in an array. *)
LEMMA CallKept ==
  ASSUME ScanOK, phase = "scan", calls # <<>>,
         NEW c, IsCall(c), c.n = calls[Len(calls)].n,
         calls' = [calls EXCEPT ![Len(calls)] = c],
         UNCHANGED <<inputVars, todo, phase, offsets>>
  PROVE  ScanOK'
<1>1. PICK S : S = Range(calls) /\ calls \in Seq(S)
  BY DEF ScanOK
<1>2. PICK n \in Nat \ {0} : n = Len(calls) /\ calls \in [1 .. n -> S]
  BY <1>1
<1>5. IsCall(c) /\ c.n = calls[n].n
  BY <1>2
<1>6. calls' = [calls EXCEPT ![n] = c]
  BY <1>2
<1>7. calls' \in [1 .. n -> S \cup {c}]
  BY <1>2, <1>6
<1>8. calls' \in Seq(S \cup {c}) /\ Len(calls') = n
  <2>1. calls' \in Seq(S \cup {c})
    <3>1. PICK d, T : d = calls' /\ T = S \cup {c}
      OBVIOUS
    <3>2. d \in [1 .. n -> T]
      BY <1>7, <3>1
    <3>3. d \in Seq(T)
      BY <3>2, SeqDef
    <3> QED
      BY <3>1, <3>3
  <2> QED
    BY <1>7, <2>1, LenProperties
<1>9. calls' \in Seq(Range(calls'))
  <2>1. PICK d : d = calls'
    OBVIOUS
  <2>2. d \in Seq(Range(d))
    BY <1>8, <2>1, RangeOf
  <2> QED
    BY <2>1, <2>2
<1>10. \A i \in 1 .. n : IsCall(calls'[i]) /\ calls'[i].n = calls[i].n
  BY <1>2, <1>5, <1>6 DEF ScanOK
<1>11. calls' # <<>>
  BY <1>8
<1>12. calls'[1].n = NWins(im)
  BY <1>2, <1>10 DEF ScanOK
<1>13. NWins(im)' = NWins(im)
  BY Kept
<1> QED
  BY <1>8, <1>9, <1>10, <1>11, <1>12, <1>13 DEF ScanOK, IsCall

(* A call is made from within another one. *)
LEMMA CallMade ==
  ASSUME ScanOK, phase = "scan", calls # <<>>, NEW a, NEW n, CallScan(a, n),
         UNCHANGED <<inputVars, todo, phase>>
  PROVE  ScanOK'
<1>1. PICK S : S = Range(calls) /\ calls \in Seq(S)
  BY DEF ScanOK
<1>2. PICK c : c = NewCall(a, n)
  OBVIOUS
<1>3. IsCall(c)
  BY <1>2 DEF NewCall, IsCall
<1>4. PICK l \in Nat \ {0} : l = Len(calls) /\ calls \in [1 .. l -> S]
  BY <1>1
<1>5. PICK d : d = Append(calls, c) /\ d = calls'
  BY <1>2 DEF CallScan
<1>6. /\ d \in Seq(S \cup {c}) /\ Len(d) = l + 1
      /\ \A i \in 1 .. l : d[i] = calls[i]
      /\ d[l + 1] = c
  <2>1. PICK T : T = S \cup {c}
    OBVIOUS
  <2>2. calls \in Seq(T)
    <3>1. calls \in [1 .. l -> T]
      BY <1>4, <2>1
    <3> QED
      BY <3>1, SeqDef
  <2>3. PICK r : r = calls /\ r \in Seq(T)
    BY <2>2
  <2>4. c \in T /\ Len(r) = l /\ d = Append(r, c)
    BY <1>4, <1>5, <2>1, <2>3
  <2>5. d \in Seq(T) /\ Len(d) = l + 1 /\ (\A i \in 1 .. l : d[i] = r[i]) /\ d[l + 1] = c
    BY <2>3, <2>4, AppendProperties
  <2> QED
    BY <2>1, <2>3, <2>5
<1>7. d \in Seq(Range(d))
  BY <1>6, RangeOf
<1>8. \A i \in 1 .. Len(d) : IsCall(d[i])
  <2>1. ASSUME NEW i \in 1 .. Len(d) PROVE IsCall(d[i])
    <3>1. CASE i \in 1 .. l
      <4>1. IsCall(calls[i])
        BY <1>4, <3>1 DEF ScanOK
      <4> QED
        BY <1>6, <3>1, <4>1
    <3>2. CASE i = l + 1
      BY <1>3, <1>6, <3>2
    <3> QED
      BY <1>6, <3>1, <3>2
  <2> QED
    BY <2>1
<1>9. d # <<>> /\ d[1].n = NWins(im)
  BY <1>4, <1>6 DEF ScanOK
<1>10. NWins(im)' = NWins(im)
  BY Kept
<1>11. /\ calls' \in Seq(Range(calls')) /\ calls' # <<>> /\ calls'[1].n = NWins(im)'
       /\ \A i \in 1 .. Len(calls') : IsCall(calls'[i])
  BY <1>5, <1>7, <1>8, <1>9, <1>10
<1> QED
  BY <1>11 DEF ScanOK, IsCall

(* The innermost call returns. *)
LEMMA CallReturned ==
  ASSUME ScanOK, phase = "scan", calls # <<>>, im \in Maps,
         offsets' = Top.out, calls' = SubSeq(calls, 1, Len(calls) - 1),
         UNCHANGED <<inputVars, todo, phase>>
  PROVE  ScanOK'
<1>1. PICK S : S = Range(calls) /\ calls \in Seq(S)
  BY DEF ScanOK
<1>2. PICK l \in Nat \ {0} : l = Len(calls) /\ calls \in [1 .. l -> S]
  BY <1>1
<1>3. PICK d : d = SubSeq(calls, 1, l - 1) /\ d = calls'
  BY <1>2
<1>4. /\ d \in Seq(S) /\ Len(d) = l - 1
      /\ \A i \in 1 .. l - 1 : d[i] = calls[i]
  BY <1>1, <1>2, <1>3, SubSeqProperties
<1>5. d \in Seq(Range(d))
  BY <1>4, RangeOf
<1>6. \A i \in 1 .. l : IsCall(calls[i])
  BY <1>2 DEF ScanOK
<1>7. \A i \in 1 .. Len(d) : IsCall(d[i])
  BY <1>4, <1>6
<1>8. NWins(im)' = NWins(im) /\ Windows' = Windows
  BY Kept
<1>9. d # <<>> => d[1].n = NWins(im)
  <2>1. SUFFICES ASSUME d # <<>> PROVE d[1].n = NWins(im)
    OBVIOUS
  <2>2. 1 \in 1 .. l - 1
    BY <1>2, <1>4, <2>1
  <2> QED
    BY <1>4, <2>2 DEF ScanOK
<1>10. d = <<>> => DOMAIN offsets' = Windows
  <2>1. SUFFICES ASSUME d = <<>> PROVE DOMAIN Top.out = Windows
    OBVIOUS
  <2>2. l = 1
    BY <1>2, <1>4, <2>1
  <2>3. Top = calls[1] /\ calls[1].n = NWins(im)
    BY <1>2, <2>2 DEF Top, ScanOK
  <2>4. DOMAIN Top.out = 0 .. NWins(im) - 1
    BY <1>6, <2>2, <2>3 DEF IsCall
  <2> QED
    BY <2>4 DEF Windows
<1>11. /\ calls' \in Seq(Range(calls'))
       /\ \A i \in 1 .. Len(calls') : IsCall(calls'[i])
       /\ calls' # <<>> => calls'[1].n = NWins(im)'
       /\ calls' = <<>> => DOMAIN offsets' = Windows'
  BY <1>3, <1>5, <1>7, <1>8, <1>9, <1>10
<1> QED
  BY <1>11 DEF ScanOK, IsCall

(* A step within the scan keeps it. *)
LEMMA ScanningStep == ASSUME Inv, todo # <<>>, Scanning PROVE Inv'
<1>1. /\ phase = "scan" /\ calls # <<>> /\ ScanStep
      /\ UNCHANGED <<inputVars, todo, phase, done, memVars, aabbs, ranges, accel>>
  BY DEF Scanning
<1>2. im \in Maps /\ ScanOK
  BY CurrentIs DEF Inv
<1>3. ASSUME UNCHANGED <<calls, offsets>> PROVE ScanOK'
  <2>1. NWins(im)' = NWins(im) /\ Windows' = Windows
    BY <1>1, Kept
  <2> QED
    BY <1>1, <1>2, <1>3, <2>1 DEF ScanOK, IsCall
<1>4. ASSUME NEW b PROVE LoadCells(b) \/ Barrier(b) => ScanOK'
  BY <1>3 DEF LoadCells, Barrier
<1>5. ASSUME NEW b, NEW t PROVE SweepThread(b, t) => ScanOK'
  BY <1>3 DEF SweepThread
<1>6. PICK c : c = calls[Len(calls)] /\ IsCall(c)
  <2>1. Len(calls) \in 1 .. Len(calls)
    <3>1. PICK S : calls \in Seq(S)
      BY <1>1, <1>2 DEF ScanOK
    <3> QED
      BY <1>1, <3>1
  <2> QED
    BY <1>1, <1>2, <2>1 DEF ScanOK
<1>7. ASSUME NEW b, SaveTotal(b) PROVE ScanOK'
  <2>1. PICK v : v = [c.sums EXCEPT ![b] = blk[b].s[ScanBlock - 1]]
    OBVIOUS
  <2>2. PICK d : d = [c EXCEPT !["sums"] = v]
    OBVIOUS
  <2>3. calls' = [calls EXCEPT ![Len(calls)] = d] /\ offsets' = offsets
    BY <1>6, <1>7, <2>1, <2>2 DEF SaveTotal
  <2>4. IsCall(d) /\ d.n = c.n
    BY <1>6, <2>2 DEF IsCall
  <2> QED
    BY <1>1, <1>2, <1>6, <2>3, <2>4, CallKept
<1>8. ASSUME NEW b, StoreCells(b) PROVE ScanOK'
  <2>1. PICK v : v = [i \in DOMAIN c.out |->
                        IF i \in OwnCells(b) THEN blk[b].s[i % ScanBlock] ELSE c.out[i]]
    OBVIOUS
  <2>2. PICK d : d = [c EXCEPT !["out"] = v]
    OBVIOUS
  <2>3. calls' = [calls EXCEPT ![Len(calls)] = d] /\ offsets' = offsets
    BY <1>6, <1>8, <2>1, <2>2 DEF StoreCells
  <2>4. IsCall(d) /\ d.n = c.n
    BY <1>6, <2>1, <2>2 DEF IsCall
  <2> QED
    BY <1>1, <1>2, <1>6, <2>3, <2>4, CallKept
<1>9. ASSUME NEW b, AddOffsets(b) PROVE ScanOK'
  <2>1. PICK v : v = [i \in DOMAIN c.out |->
                        IF i \in OwnCells(b) THEN c.out[i] + offsets[b] ELSE c.out[i]]
    OBVIOUS
  <2>2. PICK d : d = [c EXCEPT !["out"] = v]
    OBVIOUS
  <2>3. calls' = [calls EXCEPT ![Len(calls)] = d] /\ offsets' = offsets
    BY <1>6, <1>9, <2>1, <2>2 DEF AddOffsets
  <2>4. IsCall(d) /\ d.n = c.n
    BY <1>6, <2>1, <2>2 DEF IsCall
  <2> QED
    BY <1>1, <1>2, <1>6, <2>3, <2>4, CallKept
<1>10. Recurse => ScanOK'
  BY <1>1, <1>2, CallMade DEF Recurse
<1>11. LaunchAdd => ScanOK'
  BY <1>3 DEF LaunchAdd
<1>12. ReturnScan => ScanOK'
  BY <1>1, <1>2, CallReturned DEF ReturnScan
<1>13. ScanOK'
  BY <1>1, <1>4, <1>5, <1>7, <1>8, <1>9, <1>10, <1>11, <1>12 DEF ScanStep
<1>14. TypeOK'
  BY <1>1 DEF Inv, TypeOK, memVars
<1>15. /\ InputsOK' /\ im' = im /\ Windows' = Windows /\ NWins(im)' = NWins(im)
       /\ \A w : GroupsOf(w)' = GroupsOf(w)
  BY <1>1, Kept DEF Inv
<1>16. PhaseOK'
  BY <1>1 DEF Inv, PhaseOK, inputVars
<1>17. MapsOK'
  BY <1>1, MapsKept
<1>18. PsumOK' /\ Counted'
  BY <1>1, <1>15 DEF Inv, PsumOK, Counted, memVars
<1> QED
  BY <1>1, <1>13, <1>14, <1>15, <1>16, <1>17, <1>18
  DEF Inv, Counting, Finalizing, Emitting, Stored

(* The return of the scan keeps it. *)
LEMMA EndScanStep == ASSUME Inv, todo # <<>>, EndScan PROVE Inv'
<1>1. /\ phase = "scan" /\ calls = <<>> /\ phase' = "finalize" /\ done' = {}
      /\ UNCHANGED <<inputVars, todo, memVars, aabbs, ranges, accel, scanVars>>
  BY DEF EndScan, Go
<1>2. program = "vk" /\ DOMAIN offsets = Windows
  BY <1>1 DEF Inv, PhaseOK, ScanOK
<1>3. TypeOK'
  BY <1>1 DEF Inv, TypeOK, memVars
<1>4. /\ InputsOK' /\ im' = im /\ Windows' = Windows /\ NWins(im)' = NWins(im)
      /\ \A w : GroupsOf(w)' = GroupsOf(w)
  BY <1>1, Kept DEF Inv
<1>5. PhaseOK'
  BY <1>1 DEF Inv, PhaseOK, inputVars, scanVars
<1>6. MapsOK'
  BY <1>1, MapsKept
<1>7. PsumOK' /\ Counted'
  BY <1>1, <1>4 DEF Inv, PsumOK, Counted, memVars
<1>8. Finalizing'
  BY <1>1, <1>2, <1>4 DEF Finalizing, inputVars, scanVars
<1> QED
  BY <1>1, <1>3, <1>4, <1>5, <1>6, <1>7, <1>8
  DEF Inv, Counting, ScanOK, Emitting, Stored

(* FinalizeWindow keeps the invariant. *)
LEMMA FinalizeStep == ASSUME Inv, ScanExact, todo # <<>>, NEW w \in Windows, FinalizeWindow(w) PROVE Inv'
<1>1. /\ phase = "finalize" /\ program = "vk" /\ w \notin done
      /\ psum' = [psum EXCEPT ![w + 1] = offsets[w] + nGrp[w], ![0] = IF w = 0 THEN 0 ELSE @]
      /\ done' = done \cup {w}
      /\ UNCHANGED <<inputVars, todo, phase, nGrp, at, k, aabbs, ranges, accel, scanVars>>
  BY DEF FinalizeWindow
<1>2. PICK q \in Nat : im \in Maps /\ q = NWins(im) /\ Windows = 0 .. q - 1
  BY CurrentIs, WindowsAre DEF Inv
<1>3. /\ nGrp \in [Windows -> Nat] /\ \A v \in Windows : nGrp[v] = GroupsOf(v)
      /\ DOMAIN psum = 0 .. q /\ psum[0] = 0
      /\ done \subseteq Windows /\ DOMAIN offsets = Windows
      /\ \A v \in done : psum[v + 1] = Rank(im, EidEnd(v))
  BY <1>1, <1>2 DEF Inv, Counted, PsumOK, Finalizing
<1>4. offsets[w] + nGrp[w] = Rank(im, EidEnd(w)) /\ Rank(im, EidEnd(w)) \in Nat
  <2>1. offsets[w] = SumBefore(nGrp, w)
    BY <1>1, <1>3 DEF ScanExact, IsExclusiveScan
  <2>2. w \in 0 .. NWins(im)
    BY <1>2
  <2>3. SumBefore(nGrp, w) = Rank(im, EidBegin(w))
    BY <1>2, <1>3, <2>2, SumIsRank
  <2>4. EidBegin(w) \in Nat /\ EidEnd(w) \in Nat
    BY <1>2, WindowIs
  <2>5. PICK a \in Nat, b \in Nat : a = Rank(im, EidBegin(w)) /\ b = Rank(im, EidEnd(w))
    BY <1>2, <2>4, RankStep
  <2>6. nGrp[w] = b - a
    BY <1>3, <2>5 DEF GroupsOf
  <2> QED
    BY <2>1, <2>3, <2>5, <2>6
<1>5. /\ DOMAIN psum' = 0 .. q /\ psum'[0] = 0 /\ psum'[w + 1] = Rank(im, EidEnd(w))
      /\ \A v \in 0 .. q : v # w + 1 => psum'[v] = psum[v]
  <2>1. w \in Nat /\ w + 1 \in 0 .. q /\ w + 1 # 0
    BY <1>2
  <2> QED
    BY <1>1, <1>3, <1>4, <2>1
<1>6. TypeOK'
  <2>1. \A v \in DOMAIN psum' : psum'[v] \in Nat
    BY <1>3, <1>4, <1>5 DEF Inv, TypeOK
  <2> QED
    BY <1>1, <2>1 DEF Inv, TypeOK
<1>7. /\ InputsOK' /\ im' = im /\ Windows' = Windows /\ NWins(im)' = NWins(im)
      /\ \A v : GroupsOf(v)' = GroupsOf(v)
      /\ \A v : EidEnd(v)' = EidEnd(v)
      /\ \A m, x : Rank(m, x)' = Rank(m, x)
  BY <1>1, Kept DEF Inv
<1>8. PhaseOK'
  <2>1. done' \subseteq Nat
    BY <1>1, <1>2 DEF Inv, PhaseOK
  <2> QED
    BY <1>1, <2>1 DEF Inv, PhaseOK, inputVars, scanVars
<1>9. MapsOK'
  BY <1>1, MapsKept
<1>10. PsumOK' /\ Counted'
  BY <1>1, <1>2, <1>3, <1>5, <1>7 DEF PsumOK, Counted
<1>11. Finalizing'
  <2>1. ASSUME NEW v \in done' PROVE psum'[v + 1] = Rank(im, EidEnd(v))
    <3>1. v \in 0 .. q - 1 /\ w \in 0 .. q - 1
      BY <1>1, <1>2, <1>3
    <3>2. CASE v = w
      BY <1>5, <3>2
    <3>3. CASE v # w
      <4>1. v + 1 \in 0 .. q /\ v + 1 # w + 1
        BY <3>1, <3>3
      <4>2. v \in done
        BY <1>1, <3>3
      <4> QED
        BY <1>3, <1>5, <4>1, <4>2
    <3> QED
      BY <3>2, <3>3
  <2>2. (\A v \in done : psum[v + 1] = Rank(im, EidEnd(v)))'
    BY <1>7, <2>1
  <2>3. done' \subseteq Windows' /\ DOMAIN offsets' = Windows' /\ program' = "vk"
    BY <1>1, <1>3, <1>7 DEF inputVars, scanVars
  <2> QED
    BY <2>2, <2>3 DEF Finalizing
<1> QED
  BY <1>1, <1>6, <1>7, <1>8, <1>9, <1>10, <1>11
  DEF Inv, Counting, ScanOK, Emitting, Stored

(* Before the second pass no group is stored. *)
LEMMA NoneEmitted ==
  ASSUME im \in Maps, at' = [w \in Windows |-> EidBegin(w)], phase' = "emit",
         UNCHANGED <<inputVars, todo>>
  PROVE  Emitted' = {}
<1>1. ASSUME NEW s \in Starts(im) PROVE ~ (s < at'[s \div WinSize])
  <2>1. s \in Edges(im) /\ s \in Nat
    BY MapsAre
  <2>2. PICK v \in Windows : v = s \div WinSize /\ EidBegin(v) <= s
    BY <2>1, WindowOf
  <2>3. EidBegin(v) \in Nat /\ at'[v] = EidBegin(v)
    BY WindowIs
  <2> QED
    BY <2>1, <2>2, <2>3
<1>2. Emitted' = {s \in Starts(im)' : s < at'[s \div WinSize]}
  BY DEF Emitted
<1>3. Starts(im)' = Starts(im)
  BY DEF Starts, im, inputVars
<1> QED
  BY <1>1, <1>2, <1>3

(* StartEmit keeps the invariant. *)
LEMMA StartEmitStep == ASSUME Inv, todo # <<>>, StartEmit PROVE Inv'
<1>1. /\ phase = "finalize" /\ (program = "vk" => done = Windows)
      /\ MakeRoom(NGrps)
      /\ at' = [w \in Windows |-> EidBegin(w)]
      /\ k' = [w \in Windows |-> 0]
      /\ phase' = "emit" /\ done' = {}
      /\ UNCHANGED <<inputVars, todo, nGrp, psum, accel, scanVars>>
  BY DEF StartEmit, Go
<1>2. PICK q \in Nat \ {0} : /\ im \in Maps /\ q = NWins(im) /\ Windows = 0 .. q - 1
                             /\ InputsOK /\ ag = 2
  BY <1>1, CurrentIs, WindowsAre DEF Inv, PhaseOK
<1>3. /\ nGrp \in [Windows -> Nat] /\ \A w \in Windows : nGrp[w] = GroupsOf(w)
      /\ DOMAIN psum = 0 .. q /\ psum[0] = 0
      /\ \A w \in Windows : psum[w + 1] = Rank(im, EidEnd(w))
  BY <1>1, <1>2 DEF Inv, Counted, PsumOK, Finalizing
<1>4. \A w \in 0 .. q : psum[w] = Rank(im, EidBegin(w))
  <2>1. ASSUME NEW w \in 0 .. q PROVE psum[w] = Rank(im, EidBegin(w))
    <3>1. CASE w = 0
      <4>1. EidBegin(0) = 0 /\ Rank(im, 0) = 0
        BY <1>2, WindowEnds, RankStep
      <4> QED
        BY <1>3, <3>1, <4>1
    <3>2. CASE w # 0
      <4>1. PICK v \in Windows : w = v + 1
        <5>1. w - 1 \in 0 .. q - 1 /\ w = (w - 1) + 1
          BY <3>2
        <5> QED
          BY <1>2, <5>1
      <4>2. EidEnd(v) = EidBegin(v + 1)
        BY <1>2, WindowIs
      <4> QED
        BY <1>3, <4>1, <4>2
    <3> QED
      BY <3>1, <3>2
  <2> QED
    BY <2>1
<1>5. MakeRoom(NGroups(im))
  <2>1. NGrps = NGroups(im)
    <3>1. psum[q] = Rank(im, EidBegin(q))
      BY <1>4
    <3>2. EidBegin(q) = NE[im]
      BY <1>2, WindowEnds
    <3> QED
      BY <1>2, <3>1, <3>2 DEF NGrps, NGroups
  <2> QED
    BY <1>1, <2>1 DEF MakeRoom
<1>6. /\ InputsOK' /\ im' = im /\ Windows' = Windows /\ NWins(im)' = NWins(im)
      /\ \A w : GroupsOf(w)' = GroupsOf(w)
      /\ \A w : EidBegin(w)' = EidBegin(w)
      /\ \A w : EidEnd(w)' = EidEnd(w)
      /\ \A m : Starts(m)' = Starts(m)
      /\ \A m, x : Rank(m, x)' = Rank(m, x)
  BY <1>1, <1>2, Kept
<1>7. Emitted' = {}
  BY <1>1, <1>2, NoneEmitted
<1>8. /\ Stored' /\ MapsOK'
      /\ \A i \in DOMAIN aabbs' : aabbs'[i] \subseteq Edges(0) \cup Edges(1)
      /\ \A m \in Maps : \A i \in DOMAIN ranges'[m] : EdgesOf(ranges'[m][i]) \subseteq Edges(m)
  BY <1>1, <1>5, <1>7, RoomMade
<1>9. TypeOK'
  BY <1>1, <1>8 DEF Inv, TypeOK
<1>10. PhaseOK'
  BY <1>1 DEF Inv, PhaseOK, inputVars, scanVars
<1>11. PsumOK' /\ Counted'
  BY <1>1, <1>2, <1>3, <1>6 DEF PsumOK, Counted
<1>12. Emitting'
  <2>1. \A w \in Windows : EidBegin(w) \in Nat /\ EidBegin(w) \in EidBegin(w) .. EidEnd(w)
    BY <1>2, WindowIs
  <2>2. at' \in [Windows -> Nat] /\ k' \in [Windows -> Nat]
    BY <1>1, <2>1
  <2>3. \A w \in 0 .. NWins(im) : psum'[w] = Rank(im, EidBegin(w))
    BY <1>1, <1>2, <1>4
  <2>4. ASSUME NEW w \in Windows
        PROVE  /\ at'[w] \in EidBegin(w) .. EidEnd(w)
               /\ at'[w] \in Starts(im)
               /\ k'[w] = Rank(im, at'[w]) - Rank(im, EidBegin(w))
    <3>1. at'[w] = EidBegin(w) /\ k'[w] = 0
      BY <1>1
    <3>2. EidBegin(w) \in EidBegin(w) .. EidEnd(w) - 1
      BY <1>2, WindowIs
    <3>3. EidBegin(w) \in Starts(im)
      BY <1>2, <3>2, StartsAre
    <3>4. PICK a \in Nat : a = Rank(im, EidBegin(w))
      BY <1>2, <2>1, RankStep
    <3> QED
      BY <2>1, <3>1, <3>3, <3>4
  <2>5. (\A w \in 0 .. NWins(im) : psum[w] = Rank(im, EidBegin(w)))'
    BY <1>6, <2>3
  <2>6. Starts(im)' = Starts(im)
    BY <1>1 DEF Starts, im, inputVars
  <2>7. (\A w \in Windows :
         /\ at[w] \in EidBegin(w) .. EidEnd(w)
         /\ at[w] \in Starts(im) \/ at[w] = EidEnd(w)
         /\ k[w] = Rank(im, at[w]) - Rank(im, EidBegin(w)))'
    BY <1>6, <2>4, <2>6
  <2> QED
    BY <1>6, <2>2, <2>5, <2>7 DEF Emitting
<1> QED
  BY <1>1, <1>6, <1>8, <1>9, <1>10, <1>11, <1>12
  DEF Inv, Counting, ScanOK, Finalizing
-----------------------------------------------------------------------------
(* The thread that has group s stores its box and range under its number. *)
LEMMA GroupStored ==
  ASSUME Inv, todo # <<>>, phase \in {"each", "emit"},
         NEW s \in Starts(im), NEW h, IsGroup(im, s, h),
         aabbs' = [aabbs EXCEPT ![Rank(im, s)] = s .. h - 1],
         ranges' = [ranges EXCEPT ![im][Rank(im, s)] = EdgeRange(s, h)],
         Emitted' = Emitted \cup {s},
         UNCHANGED <<inputVars, todo, phase, accel>>
  PROVE  /\ Stored'
         /\ MapsOK'
         /\ \A i \in DOMAIN aabbs' : aabbs'[i] \subseteq Edges(0) \cup Edges(1)
         /\ \A m \in Maps : \A i \in DOMAIN ranges'[m] : EdgesOf(ranges'[m][i]) \subseteq Edges(m)
<1>1. im \in Maps /\ Pending(im) /\ Filling(im)
  BY CurrentIs DEF Inv, Filling
<1>2. PICK r : r = Rank(im, s) /\ r \in 0 .. NGroups(im) - 1
  BY <1>1, RankBelow
<1>3. PICK x : x = im
  OBVIOUS
<1>4. /\ x \in Maps /\ r \in DOMAIN aabbs /\ r \in DOMAIN ranges[x] /\ DOMAIN ranges = Maps
      /\ aabbs' = [aabbs EXCEPT ![r] = s .. h - 1]
      /\ ranges' = [ranges EXCEPT ![x] = [ranges[x] EXCEPT ![r] = EdgeRange(s, h)]]
  BY <1>1, <1>2, <1>3 DEF Inv, Stored, MapsOK
<1>5. /\ DOMAIN aabbs' = DOMAIN aabbs /\ aabbs'[r] = s .. h - 1
      /\ \A i \in DOMAIN aabbs : i # r => aabbs'[i] = aabbs[i]
      /\ DOMAIN ranges' = Maps
      /\ DOMAIN ranges'[x] = DOMAIN ranges[x] /\ ranges'[x][r] = EdgeRange(s, h)
      /\ \A i \in DOMAIN ranges[x] : i # r => ranges'[x][i] = ranges[x][i]
      /\ \A m \in Maps : m # x => ranges'[m] = ranges[m]
  BY <1>4
<1>6. s .. h - 1 \subseteq Edges(x)
  <2>1. Starts(x) \subseteq Edges(x) /\ Edges(x) = 0 .. NE[x] - 1 /\ NE[x] \in Nat
    BY <1>4, MapsAre
  <2>2. h \in s + 1 .. NE[x] /\ s \in Edges(x)
    BY <1>3, <2>1 DEF IsGroup
  <2> QED
    BY <2>1, <2>2
<1>7. /\ im' = im /\ program' = program
      /\ Starts(im)' = Starts(im) /\ NGroups(im)' = NGroups(im)
      /\ \A m, t : Rank(m, t)' = Rank(m, t)
      /\ \A m, t, g : IsGroup(m, t, g)' <=> IsGroup(m, t, g)
  <2>1. im' = im /\ program' = program
    BY Kept DEF inputVars
  <2>2. Starts(im)' = Starts(im) /\ NGroups(im)' = NGroups(im)
    BY <2>1, Kept
  <2> QED
    BY <2>1, <2>2, Kept
<1>8. Stored'
  <2>1. /\ Emitted \subseteq Starts(im)
        /\ 0 .. NGroups(im) - 1 \subseteq DOMAIN aabbs
        /\ 0 .. NGroups(im) - 1 \subseteq DOMAIN ranges[im]
        /\ program # "vk" => DOMAIN aabbs = 0 .. NGroups(im) - 1
        /\ \A t \in Emitted : \E g \in 1 .. NE[im] :
             /\ IsGroup(im, t, g)
             /\ ranges[im][Rank(im, t)] = EdgeRange(t, g)
             /\ aabbs[Rank(im, t)] = t .. g - 1
        /\ \A i \in DOMAIN ranges[im] :
             (\A t \in Emitted : i # Rank(im, t)) => ranges[im][i] = NoRange
    BY DEF Inv, Stored
  <2>2. ASSUME NEW t \in Emitted'
        PROVE  \E g \in 1 .. NE[im] :
                 /\ IsGroup(im, t, g)
                 /\ ranges'[im][Rank(im, t)] = EdgeRange(t, g)
                 /\ aabbs'[Rank(im, t)] = t .. g - 1
    <3>1. CASE t = s
      <4>1. h \in 1 .. NE[im]
        <5>1. s \in Nat /\ NE[im] \in Nat
          BY <1>1, MapsAre
        <5>2. h \in s + 1 .. NE[im]
          BY DEF IsGroup
        <5> QED
          BY <5>1, <5>2
      <4> QED
        BY <1>2, <1>3, <1>5, <3>1, <4>1
    <3>2. CASE t # s
      <4>1. t \in Emitted /\ t \in Starts(im)
        BY <2>1, <3>2
      <4>2. PICK g \in 1 .. NE[im] : /\ IsGroup(im, t, g)
                                     /\ ranges[im][Rank(im, t)] = EdgeRange(t, g)
                                     /\ aabbs[Rank(im, t)] = t .. g - 1
        BY <2>1, <4>1
      <4>3. Rank(im, t) # r /\ Rank(im, t) \in 0 .. NGroups(im) - 1
        BY <1>1, <1>2, <3>2, <4>1, RankOneToOne, RankBelow
      <4>4. Rank(im, t) \in DOMAIN aabbs /\ Rank(im, t) \in DOMAIN ranges[x]
        BY <1>3, <2>1, <4>3
      <4> QED
        BY <1>3, <1>5, <4>2, <4>3, <4>4
    <3> QED
      BY <3>1, <3>2
  <2>3. ASSUME NEW i \in DOMAIN ranges'[im], \A t \in Emitted' : i # Rank(im, t)
        PROVE  ranges'[im][i] = NoRange
    <3>1. i # r /\ i \in DOMAIN ranges[im] /\ \A t \in Emitted : i # Rank(im, t)
      BY <1>2, <1>3, <1>5, <2>3
    <3> QED
      BY <1>3, <1>5, <2>1, <3>1
  <2>4. Emitted' \subseteq Starts(im)
    BY <2>1
  <2>5. /\ (Emitted \subseteq Starts(im))'
        /\ (0 .. NGroups(im) - 1 \subseteq DOMAIN aabbs)'
        /\ (0 .. NGroups(im) - 1 \subseteq DOMAIN ranges[im])'
        /\ (program # "vk" => DOMAIN aabbs = 0 .. NGroups(im) - 1)'
    BY <1>3, <1>5, <1>7, <2>1, <2>4
  <2>6. (\A t \in Emitted : \E g \in 1 .. NE[im] :
             /\ IsGroup(im, t, g)
             /\ ranges[im][Rank(im, t)] = EdgeRange(t, g)
             /\ aabbs[Rank(im, t)] = t .. g - 1)'
    BY <1>7, <2>2
  <2>7. (\A i \in DOMAIN ranges[im] :
             (\A t \in Emitted : i # Rank(im, t)) => ranges[im][i] = NoRange)'
    BY <1>7, <2>3
  <2> QED
    BY <2>5, <2>6, <2>7 DEF Stored
<1>9. ASSUME NEW m \in Maps PROVE /\ (Pending(m) => ~ Built(m))'
                                  /\ (Built(m) => Complete(m))'
                                  /\ (~ Built(m) /\ ~ Filling(m) => Untouched(m))'
  <2>1. /\ Pending(m)' <=> Pending(m)
        /\ Built(m)' <=> Built(m)
        /\ Filling(m)' <=> Filling(m)
    BY <1>7, Kept DEF Built, Filling
  <2>2. CASE m = im
    BY <1>1, <2>1, <2>2 DEF Inv, MapsOK
  <2>3. CASE m # im
    <3>1. ranges'[m] = ranges[m] /\ accel'[m] = accel[m]
      BY <1>3, <1>5, <2>3
    <3>2. Complete(m)' <=> Complete(m)
      BY <3>1 DEF Complete
    <3>3. Untouched(m)' <=> Untouched(m)
      BY <3>1, <1>7 DEF Untouched
    <3> QED
      BY <2>1, <3>2, <3>3 DEF Inv, MapsOK
  <2> QED
    BY <2>2, <2>3
<1>10. MapsOK'
  <2>1. program = "vk" => DOMAIN aabbs' = Edges(0) \cup Edges(1)
    BY <1>5 DEF Inv, MapsOK
  <2>2. DOMAIN accel' = Maps
    BY DEF Inv, MapsOK
  <2> QED
    BY <1>5, <1>7, <1>9, <2>1, <2>2 DEF MapsOK
<1>11. \A i \in DOMAIN aabbs' : aabbs'[i] \subseteq Edges(0) \cup Edges(1)
  <2>1. Edges(x) \subseteq Edges(0) \cup Edges(1)
    BY <1>4 DEF Maps
  <2>2. \A i \in DOMAIN aabbs : aabbs[i] \subseteq Edges(0) \cup Edges(1)
    BY DEF Inv, TypeOK
  <2> QED
    BY <1>5, <1>6, <2>1, <2>2
<1>12. ASSUME NEW m \in Maps, NEW i \in DOMAIN ranges'[m] PROVE EdgesOf(ranges'[m][i]) \subseteq Edges(m)
  <2>1. \A j \in DOMAIN ranges[m] : EdgesOf(ranges[m][j]) \subseteq Edges(m)
    BY DEF Inv, TypeOK
  <2>2. EdgesOf(EdgeRange(s, h)) = s .. h - 1
    BY DEF EdgesOf, EdgeRange
  <2>3. CASE m = x /\ i = r
    BY <1>5, <1>6, <2>2, <2>3
  <2>4. CASE m = x /\ i # r
    BY <1>5, <2>1, <2>4
  <2>5. CASE m # x
    BY <1>5, <2>1, <2>5
  <2> QED
    BY <2>3, <2>4, <2>5
<1> QED
  BY <1>8, <1>10, <1>11, <1>12

(* FillEdge keeps the invariant. *)
LEMMA FillEdgeStep == ASSUME Inv, todo # <<>>, NEW e \in Edges(im), FillEdge(e) PROVE Inv'
<1>1. /\ phase = "each" /\ e \notin done
      /\ aabbs' = [aabbs EXCEPT ![e] = {e}]
      /\ ranges' = [ranges EXCEPT ![im][e] = EdgeRange(e, e + 1)]
      /\ done' = done \cup {e}
      /\ UNCHANGED <<inputVars, todo, phase, memVars, accel, scanVars>>
  BY DEF FillEdge
<1>2. im \in Maps /\ ag = 0
  BY <1>1, CurrentIs DEF Inv, PhaseOK
<1>3. /\ e \in Nat /\ NE[im] \in Nat /\ e < NE[im]
      /\ Starts(im) = Edges(im) /\ Edges(im) = 0 .. NE[im] - 1
  BY <1>2, RankOfEach, MapsAre
<1>4. e \in Starts(im) /\ Rank(im, e) = e
  BY <1>2, <1>3, RankOfEach
<1>5. IsGroup(im, e, e + 1)
  BY <1>3 DEF IsGroup
<1>6. {e} = e .. (e + 1) - 1
  BY <1>3
<1>7. Emitted' = Emitted \cup {e}
  BY <1>1 DEF Emitted
<1>8. /\ Stored' /\ MapsOK'
      /\ \A i \in DOMAIN aabbs' : aabbs'[i] \subseteq Edges(0) \cup Edges(1)
      /\ \A m \in Maps : \A i \in DOMAIN ranges'[m] : EdgesOf(ranges'[m][i]) \subseteq Edges(m)
  <2>1. /\ aabbs' = [aabbs EXCEPT ![Rank(im, e)] = e .. (e + 1) - 1]
        /\ ranges' = [ranges EXCEPT ![im][Rank(im, e)] = EdgeRange(e, e + 1)]
    BY <1>1, <1>4, <1>6
  <2> QED
    BY <1>1, <1>4, <1>5, <1>7, <2>1, GroupStored
<1>9. TypeOK'
  BY <1>1, <1>8 DEF Inv, TypeOK, memVars
<1>10. InputsOK'
  BY <1>1, Kept DEF Inv
<1>11. PhaseOK'
  <2>1. done' \subseteq Nat
    BY <1>1, <1>3 DEF Inv, PhaseOK
  <2> QED
    BY <1>1, <2>1 DEF Inv, PhaseOK, inputVars, scanVars
<1> QED
  BY <1>1, <1>8, <1>9, <1>10, <1>11
  DEF Inv, Counting, Counted, ScanOK, PsumOK, Finalizing, Emitting

(* The group that is stored joins those that are. *)
LEMMA EmittedGrows ==
  ASSUME Inv, todo # <<>>, phase = "emit", NEW w \in Windows, at[w] < EidEnd(w),
         NEW h, IsGroup(im, at[w], h), h \in at[w] + 1 .. EidEnd(w),
         at' = [at EXCEPT ![w] = h], UNCHANGED <<inputVars, todo, phase>>
  PROVE  Emitted' = Emitted \cup {at[w]}
<1>1. im \in Maps /\ InputsOK /\ ag = 2
  BY CurrentIs DEF Inv, PhaseOK
<1>2. /\ at \in [Windows -> Nat] /\ at[w] \in EidBegin(w) .. EidEnd(w) - 1
      /\ at[w] \in Starts(im)
  <2>1. /\ at \in [Windows -> Nat] /\ at[w] \in EidBegin(w) .. EidEnd(w)
        /\ at[w] \in Starts(im) \/ at[w] = EidEnd(w)
    BY DEF Inv, Emitting
  <2>2. EidBegin(w) \in Nat /\ EidEnd(w) \in Nat
    BY <1>1, WindowIs
  <2> QED
    BY <2>1, <2>2
<1>3. at[w] \div WinSize = w
  BY <1>1, <1>2, InWindow
<1>4. PICK x \in Nat : x = at[w] /\ EidEnd(w) \in Nat /\ h \in x + 1 .. EidEnd(w)
  BY <1>1, <1>2, WindowIs
<1>5. ASSUME NEW s \in Starts(im)
      PROVE  s < at'[s \div WinSize] <=> s < at[s \div WinSize] \/ s = x
  <2>1. s \in Edges(im) /\ s \in Nat
    BY <1>1, MapsAre
  <2>2. PICK v \in Windows : v = s \div WinSize
    BY <1>1, <2>1, WindowOf
  <2>3. CASE v = w
    <3>1. at'[v] = h /\ at[v] = x
      BY <1>2, <1>4, <2>3
    <3>2. s \notin x + 1 .. h - 1
      BY <1>4 DEF IsGroup
    <3>3. s < h <=> s < x \/ s = x
      BY <1>4, <2>1, <3>2
    <3> QED
      BY <2>2, <3>1, <3>3
  <2>4. CASE v # w
    <3>1. at'[v] = at[v] /\ s # x
      BY <1>2, <1>3, <1>4, <2>2, <2>4
    <3> QED
      BY <2>2, <3>1
  <2> QED
    BY <2>3, <2>4
<1>6. Starts(im)' = Starts(im) /\ phase' = "emit"
  BY DEF Starts, im, inputVars
<1>7. Emitted' = {s \in Starts(im) : s < at'[s \div WinSize]}
  BY <1>6 DEF Emitted
<1>8. Emitted = {s \in Starts(im) : s < at[s \div WinSize]}
  BY DEF Emitted
<1> QED
  BY <1>2, <1>4, <1>5, <1>7, <1>8

(* The thread of window w stores a group, under the number of the group. *)
LEMMA EmitsGroup ==
  ASSUME Inv, todo # <<>>, phase = "emit", NEW w \in Windows, at[w] < EidEnd(w)
  PROVE  /\ im \in Maps /\ InputsOK /\ ag = 2
         /\ at[w] \in Nat /\ at[w] \in EidBegin(w) .. EidEnd(w) - 1 /\ at[w] \in Starts(im)
         /\ IsGroup(im, at[w], GroupEnd(w, at[w]))
         /\ GroupEnd(w, at[w]) \in at[w] + 1 .. EidEnd(w)
         /\ GroupEnd(w, at[w]) \in Starts(im) \/ GroupEnd(w, at[w]) = EidEnd(w)
         /\ Slot(w) = Rank(im, at[w])
<1>1. PICK q \in Nat : /\ im \in Maps /\ InputsOK /\ ag = 2
                       /\ q = NWins(im) /\ Windows = 0 .. q - 1
  BY CurrentIs, WindowsAre DEF Inv, PhaseOK
<1>2. EidBegin(w) \in Nat /\ EidEnd(w) \in Nat
  BY <1>1, WindowIs
<1>3. /\ \A v \in 0 .. q : psum[v] = Rank(im, EidBegin(v))
      /\ at \in [Windows -> Nat] /\ k \in [Windows -> Nat]
      /\ \A v \in Windows :
           /\ at[v] \in EidBegin(v) .. EidEnd(v)
           /\ at[v] \in Starts(im) \/ at[v] = EidEnd(v)
           /\ k[v] = Rank(im, at[v]) - Rank(im, EidBegin(v))
  BY <1>1 DEF Inv, Emitting
<1>4. PICK x \in Nat : x = at[w] /\ x \in EidBegin(w) .. EidEnd(w) - 1 /\ x \in Starts(im)
  BY <1>2, <1>3
<1>5. /\ GroupEnd(w, x) \in x + 1 .. EidEnd(w) /\ IsGroup(im, x, GroupEnd(w, x))
      /\ GroupEnd(w, x) \in Starts(im) \/ GroupEnd(w, x) = EidEnd(w)
  BY <1>1, <1>4, GroupEndIs
<1>6. PICK a \in Nat, b \in Nat : a = Rank(im, EidBegin(w)) /\ b = Rank(im, x)
  BY <1>1, <1>2, <1>4, RankStep
<1>7. Slot(w) = Rank(im, x)
  <2>1. psum[w] = a /\ k[w] = b - a
    BY <1>1, <1>3, <1>4, <1>6
  <2> QED
    BY <1>6, <2>1 DEF Slot
<1> QED
  BY <1>1, <1>4, <1>5, <1>7

(* EmitGroup keeps the invariant. *)
LEMMA EmitStep == ASSUME Inv, todo # <<>>, NEW w \in Windows, EmitGroup(w) PROVE Inv'
<1>1. PICK h : h = GroupEnd(w, at[w])
  OBVIOUS
<1>2. /\ phase = "emit" /\ at[w] < EidEnd(w)
      /\ aabbs' = [aabbs EXCEPT ![Slot(w)] = at[w] .. h - 1]
      /\ ranges' = [ranges EXCEPT ![im][Slot(w)] = EdgeRange(at[w], h)]
      /\ at' = [at EXCEPT ![w] = h]
      /\ k' = [k EXCEPT ![w] = @ + 1]
      /\ UNCHANGED <<inputVars, todo, phase, done, nGrp, psum, accel, scanVars>>
  BY <1>1 DEF EmitGroup
<1>3. /\ im \in Maps /\ InputsOK /\ ag = 2
      /\ EidBegin(w) \in Nat /\ EidEnd(w) \in Nat
  BY <1>2, EmitsGroup, WindowIs
<1>4. /\ \A v \in 0 .. NWins(im) : psum[v] = Rank(im, EidBegin(v))
      /\ at \in [Windows -> Nat] /\ k \in [Windows -> Nat]
      /\ \A v \in Windows :
           /\ at[v] \in EidBegin(v) .. EidEnd(v)
           /\ at[v] \in Starts(im) \/ at[v] = EidEnd(v)
           /\ k[v] = Rank(im, at[v]) - Rank(im, EidBegin(v))
  BY <1>2 DEF Inv, Emitting
<1>5. PICK x \in Nat : x = at[w]
  BY <1>4
<1>6. x \in EidBegin(w) .. EidEnd(w) - 1 /\ x \in Starts(im)
  BY <1>2, <1>5, EmitsGroup
<1>7. /\ h \in x + 1 .. EidEnd(w) /\ IsGroup(im, x, h)
      /\ h \in Starts(im) \/ h = EidEnd(w)
  BY <1>1, <1>2, <1>5, EmitsGroup
<1>8. PICK a \in Nat, b \in Nat : a = Rank(im, EidBegin(w)) /\ b = Rank(im, x)
  BY <1>3, <1>5, RankStep
<1>9. Slot(w) = Rank(im, x)
  BY <1>2, <1>5, EmitsGroup
<1>10. Emitted' = Emitted \cup {x}
  BY <1>2, <1>5, <1>6, <1>7, EmittedGrows
<1>11. /\ Stored' /\ MapsOK'
       /\ \A i \in DOMAIN aabbs' : aabbs'[i] \subseteq Edges(0) \cup Edges(1)
       /\ \A m \in Maps : \A i \in DOMAIN ranges'[m] : EdgesOf(ranges'[m][i]) \subseteq Edges(m)
  <2>1. /\ aabbs' = [aabbs EXCEPT ![Rank(im, x)] = x .. h - 1]
        /\ ranges' = [ranges EXCEPT ![im][Rank(im, x)] = EdgeRange(x, h)]
    BY <1>2, <1>5, <1>9
  <2> QED
    BY <1>2, <1>6, <1>7, <1>10, <2>1, GroupStored
<1>12. TypeOK'
  BY <1>2, <1>11 DEF Inv, TypeOK
<1>13. /\ InputsOK' /\ im' = im /\ Windows' = Windows /\ NWins(im)' = NWins(im)
       /\ \A v : GroupsOf(v)' = GroupsOf(v)
       /\ \A v : EidBegin(v)' = EidBegin(v)
       /\ \A v : EidEnd(v)' = EidEnd(v)
       /\ \A m, y : Rank(m, y)' = Rank(m, y)
  BY <1>2, <1>3, Kept
<1>14. PhaseOK'
  BY <1>2 DEF Inv, PhaseOK, inputVars, scanVars
<1>15. PsumOK' /\ Counted'
  BY <1>2, <1>13 DEF Inv, PsumOK, Counted
<1>16. Emitting'
  <2>1. h \in Nat /\ h \in EidBegin(w) .. EidEnd(w)
    BY <1>3, <1>6, <1>7
  <2>2. at' \in [Windows -> Nat] /\ k' \in [Windows -> Nat]
    BY <1>2, <1>4, <2>1
  <2>3. ASSUME NEW v \in Windows
        PROVE  /\ at'[v] \in EidBegin(v) .. EidEnd(v)
               /\ at'[v] \in Starts(im) \/ at'[v] = EidEnd(v)
               /\ k'[v] = Rank(im, at'[v]) - Rank(im, EidBegin(v))
    <3>1. CASE v = w
      <4>1. at'[v] = h /\ k'[v] = k[w] + 1
        BY <1>2, <1>4, <3>1
      <4>2. Rank(im, h) = b + 1
        BY <1>3, <1>6, <1>7, <1>8, RankBehind
      <4>3. k[w] = b - a
        BY <1>4, <1>5, <1>8
      <4> QED
        BY <1>7, <1>8, <2>1, <3>1, <4>1, <4>2, <4>3
    <3>2. CASE v # w
      BY <1>2, <1>4, <3>2
    <3> QED
      BY <3>1, <3>2
  <2>4. Starts(im)' = Starts(im)
    BY <1>2 DEF Starts, im, inputVars
  <2>5. (\A v \in Windows :
           /\ at[v] \in EidBegin(v) .. EidEnd(v)
           /\ at[v] \in Starts(im) \/ at[v] = EidEnd(v)
           /\ k[v] = Rank(im, at[v]) - Rank(im, EidBegin(v)))'
    BY <1>13, <2>3, <2>4
  <2>6. (\A v \in 0 .. NWins(im) : psum[v] = Rank(im, EidBegin(v)))'
    BY <1>2, <1>4, <1>13
  <2> QED
    BY <1>13, <2>2, <2>5, <2>6 DEF Emitting
<1> QED
  BY <1>2, <1>11, <1>12, <1>13, <1>14, <1>15, <1>16
  DEF Inv, Counting, ScanOK, Finalizing
-----------------------------------------------------------------------------
(* An edge is in the group with the last number given up to it. *)
LEMMA GroupHas ==
  ASSUME NEW m \in Maps, NEW s \in Starts(m), NEW h, IsGroup(m, s, h), NEW e \in Edges(m)
  PROVE  e \in s .. h - 1 <=> Rank(m, e + 1) = Rank(m, s) + 1
<1>1. PICK n \in Nat : /\ n = NE[m] /\ s \in Nat /\ e \in Nat /\ e < n
                       /\ h \in Nat /\ s < h /\ h <= n
                       /\ h \in Starts(m) \/ h = n
  <2>1. NE[m] \in Nat /\ Starts(m) \subseteq Edges(m) /\ Edges(m) = 0 .. NE[m] - 1
    BY MapsAre
  <2>2. h \in s + 1 .. NE[m] /\ (h \in Starts(m) \/ h = NE[m])
    BY DEF IsGroup
  <2> QED
    BY <2>1, <2>2
<1>2. PICK a \in Nat, b \in Nat, c \in Nat :
        a = Rank(m, s) /\ b = Rank(m, e + 1) /\ c = Rank(m, h)
  <2>1. e + 1 \in Nat
    BY <1>1
  <2> QED
    BY <1>1, <2>1, RankStep
<1>3. c = a + 1
  BY <1>2, RankBehind
<1>4. ASSUME s <= e, e < h PROVE b = a + 1
  <2>1. a < b
    <3>1. s < e + 1 /\ s <= e + 1 /\ e + 1 \in Nat
      BY <1>1, <1>4
    <3> QED
      BY <1>1, <1>2, <3>1, RankGrows
  <2>2. b <= c
    <3>1. e + 1 <= h /\ e + 1 \in Nat
      BY <1>1, <1>4
    <3> QED
      BY <1>1, <1>2, <3>1, RankGrows
  <2> QED
    BY <1>3, <2>1, <2>2
<1>5. ASSUME e < s PROVE b # a + 1
  <2>1. e + 1 <= s /\ e + 1 \in Nat
    BY <1>1, <1>5
  <2>2. b <= a
    BY <1>1, <1>2, <2>1, RankGrows
  <2> QED
    BY <2>2
<1>6. ASSUME h <= e PROVE b # a + 1
  <2>1. h < e + 1 /\ h <= e + 1 /\ e + 1 \in Nat /\ h \in Starts(m)
    BY <1>1, <1>6
  <2>2. c < b
    BY <1>1, <1>2, <2>1, RankGrows
  <2> QED
    BY <1>3, <2>2
<1> QED
  BY <1>1, <1>2, <1>4, <1>5, <1>6

(* There is such a group. *)
LEMMA GroupThere ==
  ASSUME NEW m \in Maps, NEW e \in Edges(m)
  PROVE  \E s \in Starts(m) : Rank(m, e + 1) = Rank(m, s) + 1
<1>1. /\ NE[m] \in Nat \ {0} /\ Edges(m) = 0 .. NE[m] - 1
      /\ e \in Nat /\ e + 1 \in Nat /\ 0 < e + 1 /\ e + 1 <= NE[m]
  BY MapsAre
<1>2. 0 \in Starts(m)
  <2>1. 0 \in Edges(m) /\ 0 % WinSize = 0
    BY <1>1, WinSizeAssumption
  <2> QED
    BY <2>1 DEF Starts
<1>3. Rank(m, 0) = 0
  BY <1>1, RankStep
<1>4. PICK b \in Nat, n \in Nat : b = Rank(m, e + 1) /\ n = NGroups(m)
  BY <1>1, RankStep, NGroupsIs
<1>5. 0 < b
  <2>1. Rank(m, 0) < Rank(m, e + 1)
    BY <1>1, <1>2, RankGrows
  <2> QED
    BY <1>3, <1>4, <2>1
<1>6. b <= n
  BY <1>1, <1>4, RankGrows DEF NGroups
<1>7. b - 1 \in 0 .. NGroups(m) - 1
  BY <1>4, <1>5, <1>6
<1>8. PICK s \in Starts(m) : Rank(m, s) = b - 1
  BY <1>7, RankOnto
<1> QED
  BY <1>4, <1>8

(* A structure built from all groups of a map agrees with its ranges. *)
LEMMA AllStored ==
  ASSUME Inv, todo # <<>>, phase \in {"each", "emit"}, Emitted = Starts(im),
         accel' = [accel EXCEPT ![im] = [i \in 0 .. NGroups(im) - 1 |-> aabbs[i]]],
         UNCHANGED ranges
  PROVE  /\ DOMAIN accel'[im] = 0 .. NGroups(im) - 1
         /\ \A m \in Maps : m = im => Complete(m)'
<1>1. PICK x \in Maps : x = im
  BY CurrentIs DEF Inv
<1>2. PICK n \in Nat \ {0} : n = NGroups(x)
  BY <1>1, NGroupsIs
<1>3. PICK a : a = accel'[x]
  OBVIOUS
<1>4. a = [i \in 0 .. n - 1 |-> aabbs[i]]
  BY <1>1, <1>2, <1>3 DEF Inv, MapsOK
<1>5. PICK r : r = ranges[x]
  OBVIOUS
<1>6. /\ 0 .. n - 1 \subseteq DOMAIN r
      /\ \A s \in Starts(x) : \E h \in 1 .. NE[x] :
           IsGroup(x, s, h) /\ r[Rank(x, s)] = EdgeRange(s, h) /\ aabbs[Rank(x, s)] = s .. h - 1
  BY <1>1, <1>2, <1>5 DEF Inv, Stored
<1>7. ASSUME NEW i \in 0 .. n - 1
      PROVE  \E s \in Starts(x), h \in 1 .. NE[x] :
               /\ IsGroup(x, s, h) /\ Rank(x, s) = i
               /\ EdgesOf(r[i]) = s .. h - 1 /\ a[i] = s .. h - 1
  <2>1. PICK s \in Starts(x) : Rank(x, s) = i
    BY <1>2, RankOnto
  <2>2. PICK h \in 1 .. NE[x] : IsGroup(x, s, h) /\ r[i] = EdgeRange(s, h) /\ aabbs[i] = s .. h - 1
    BY <1>6, <2>1
  <2>3. EdgesOf(EdgeRange(s, h)) = s .. h - 1
    BY DEF EdgesOf, EdgeRange
  <2> QED
    BY <1>4, <2>1, <2>2, <2>3
<1>8. ASSUME NEW e \in Edges(x), NEW i \in 0 .. n - 1
      PROVE  e \in EdgesOf(r[i]) <=> Rank(x, e + 1) = i + 1
  <2>1. PICK s \in Starts(x), h \in 1 .. NE[x] :
          IsGroup(x, s, h) /\ Rank(x, s) = i /\ EdgesOf(r[i]) = s .. h - 1
    BY <1>7
  <2> QED
    BY <2>1, GroupHas
<1>9. ASSUME NEW e \in Edges(x)
      PROVE  \E i \in 0 .. n - 1 : /\ e \in EdgesOf(r[i])
                                   /\ \A j \in 0 .. n - 1 : e \in EdgesOf(r[j]) => j = i
  <2>1. PICK s \in Starts(x) : Rank(x, e + 1) = Rank(x, s) + 1
    BY GroupThere
  <2>2. PICK i \in 0 .. n - 1 : i = Rank(x, s)
    BY <1>2, RankBelow
  <2>3. Rank(x, e + 1) = i + 1
    BY <2>1, <2>2
  <2>4. e \in EdgesOf(r[i])
    BY <1>8, <2>3
  <2>5. ASSUME NEW j \in 0 .. n - 1, e \in EdgesOf(r[j]) PROVE j = i
    <3>1. Rank(x, e + 1) = j + 1
      BY <1>8, <2>5
    <3> QED
      BY <2>3, <3>1
  <2> QED
    BY <2>4, <2>5
<1>10. DOMAIN a = 0 .. n - 1
  BY <1>4
<1>11. \A i \in DOMAIN a : EdgesOf(r[i]) \subseteq a[i]
  BY <1>7, <1>10
<1>12. /\ DOMAIN a \subseteq DOMAIN r
       /\ \A i \in DOMAIN a : EdgesOf(r[i]) \subseteq a[i]
       /\ \A e \in Edges(x) : \E i \in DOMAIN a :
            /\ e \in EdgesOf(r[i])
            /\ \A j \in DOMAIN a : e \in EdgesOf(r[j]) => j = i
  BY <1>6, <1>9, <1>10, <1>11
<1>13. ranges'[x] = r /\ accel'[x] = a
  BY <1>3, <1>5
<1>14. Complete(x)'
  BY <1>12, <1>13 DEF Complete
<1> QED
  BY <1>1, <1>2, <1>3, <1>10, <1>14

(* When the structure is built every group is stored. *)
LEMMA FilledIs ==
  ASSUME Inv, todo # <<>>, Filled
  PROVE  /\ phase \in {"each", "emit"}
         /\ Emitted = Starts(im)
         /\ NPrims = NGroups(im)
<1>1. im \in Maps /\ phase \in {"each", "emit"}
  BY CurrentIs DEF Inv, Filled
<1>2. Emitted \subseteq Starts(im) /\ (program # "vk" => DOMAIN aabbs = 0 .. NGroups(im) - 1)
  BY <1>1 DEF Inv, Stored
<1>3. PICK n \in Nat : n = NGroups(im)
  BY <1>1, NGroupsIs
<1>4. program # "vk" => NPrims = n
  <2>1. Cardinality(0 .. n - 1) = n
    BY FS_Interval
  <2> QED
    BY <1>2, <1>3, <2>1 DEF NPrims
<1>5. CASE phase = "each"
  <2>1. ag = 0 /\ done = Edges(im)
    BY <1>5 DEF Inv, PhaseOK, Filled
  <2>2. Starts(im) = Edges(im) /\ NGroups(im) = NE[im]
    BY <1>1, <2>1, RankOfEach
  <2>3. Emitted = Starts(im)
    BY <1>5, <2>1, <2>2 DEF Emitted
  <2>4. program = "vk" => NPrims = n
    BY <1>3, <2>1, <2>2 DEF NPrims
  <2> QED
    BY <1>1, <1>3, <1>4, <2>3, <2>4
<1>6. CASE phase = "emit"
  <2>1. ag = 2 /\ \A w \in Windows : at[w] >= EidEnd(w)
    BY <1>6 DEF Inv, PhaseOK, Filled
  <2>2. ASSUME NEW s \in Starts(im) PROVE s \in Emitted
    <3>1. s \in Edges(im) /\ s \in Nat
      BY <1>1, MapsAre
    <3>2. PICK v \in Windows : v = s \div WinSize /\ s < EidEnd(v)
      BY <1>1, <3>1, WindowOf
    <3>3. at[v] \in Nat /\ EidEnd(v) \in Nat
      BY <1>1, <1>6, WindowIs DEF Inv, Emitting
    <3>4. s < at[v]
      BY <2>1, <3>1, <3>2, <3>3
    <3> QED
      BY <1>6, <3>2, <3>4 DEF Emitted
  <2>3. program = "vk" => NPrims = n
    <3>1. PICK q \in Nat : q = NWins(im)
      BY <1>1, WindowsAre
    <3>2. psum[q] = Rank(im, EidBegin(q))
      BY <1>6, <3>1 DEF Inv, Emitting
    <3>3. EidBegin(q) = NE[im]
      BY <1>1, <3>1, WindowEnds
    <3> QED
      BY <1>3, <2>1, <3>1, <3>2, <3>3 DEF NPrims, NGrps, NGroups
  <2> QED
    BY <1>1, <1>2, <1>3, <1>4, <2>2, <2>3
<1> QED
  BY <1>1, <1>5, <1>6

(* BuildAccel keeps the invariant. *)
LEMMA BuildAccelStep == ASSUME Inv, BuildAccel PROVE Inv'
<1>1. /\ todo # <<>> /\ Filled
      /\ accel' = [accel EXCEPT ![im] = [i \in 0 .. NPrims - 1 |-> aabbs[i]]]
      /\ aabbs' = IF fau THEN Empty ELSE aabbs
      /\ todo' = Tail(todo)
      /\ phase' = "start" /\ done' = {}
      /\ UNCHANGED <<inputVars, memVars, ranges, scanVars>>
  BY DEF BuildAccel, Go
<1>2. phase \in {"each", "emit"} /\ Emitted = Starts(im) /\ NPrims = NGroups(im)
  BY <1>1, FilledIs
<1>3. PICK x \in Maps : x = im
  BY <1>1, CurrentIs DEF Inv
<1>4. PICK n \in Nat \ {0} : n = NGroups(x) /\ n <= NE[x]
  BY <1>3, NGroupsIs
<1>5. DOMAIN accel'[x] = 0 .. n - 1 /\ Complete(x)'
  <2>1. accel' = [accel EXCEPT ![im] = [i \in 0 .. NGroups(im) - 1 |-> aabbs[i]]]
    BY <1>1, <1>2
  <2>2. UNCHANGED ranges
    BY <1>1
  <2> QED
    BY <1>1, <1>2, <1>3, <1>4, <2>1, <2>2, AllStored
<1>6. /\ DOMAIN accel' = Maps
      /\ \A m \in Maps : m # x => accel'[m] = accel[m]
  BY <1>1, <1>3 DEF Inv, MapsOK
<1>7. Tail(todo) \in {<<1>>, <<>>} /\ \A m \in Maps : Tail(todo) = <<m>> => Pending(m) /\ m # x
  BY <1>1, <1>3, CurrentIs DEF Inv
<1>8. \A i \in DOMAIN aabbs' : aabbs'[i] \subseteq Edges(0) \cup Edges(1)
  <2>1. CASE fau
    BY <1>1, <2>1 DEF Empty
  <2>2. CASE ~ fau
    BY <1>1, <2>2 DEF Inv, TypeOK
  <2> QED
    BY <2>1, <2>2
<1>9. TypeOK'
  <2>1. ASSUME NEW m \in Maps PROVE DOMAIN accel'[m] \subseteq Edges(m)
    <3>1. CASE m = x
      BY <1>4, <1>5, <3>1, MapsAre
    <3>2. CASE m # x
      BY <1>6, <3>2 DEF Inv, TypeOK
    <3> QED
      BY <3>1, <3>2
  <2>2. todo' \in {<<0, 1>>, <<0>>, <<1>>, <<>>}
    BY <1>1, <1>7
  <2> QED
    BY <1>1, <1>8, <2>1, <2>2 DEF Inv, TypeOK, memVars
<1>10. InputsOK'
  BY <1>1 DEF Inv, InputsOK, inputVars
<1>11. PhaseOK'
  BY <1>1, <1>2 DEF Inv, PhaseOK, inputVars, scanVars
<1>12. ASSUME NEW m \in Maps PROVE /\ (Pending(m) => ~ Built(m))'
                                   /\ (Built(m) => Complete(m))'
                                   /\ (~ Built(m) /\ ~ Filling(m) => Untouched(m))'
  <2>1. Pending(m)' => Pending(m) /\ m # x
    <3>1. <<0, 1>> \notin {<<1>>, <<>>}
      OBVIOUS
    <3> QED
      BY <1>1, <1>7, <3>1 DEF Pending
  <2>2. CASE m = x
    <3>1. Built(x)'
      <4>1. DOMAIN accel'[x] # {}
        BY <1>5
      <4> QED
        BY <4>1 DEF Built, Empty
    <3> QED
      BY <1>5, <2>1, <2>2, <3>1
  <2>3. CASE m # x
    <3>1. ranges'[m] = ranges[m] /\ accel'[m] = accel[m] /\ program' = program
      BY <1>1, <1>6, <2>3 DEF inputVars
    <3>2. Complete(m)' <=> Complete(m)
      BY <3>1 DEF Complete
    <3>3. Untouched(m)' <=> Untouched(m)
      BY <3>1 DEF Untouched
    <3>4. Built(m)' <=> Built(m)
      BY <3>1 DEF Built
    <3>5. ~ Filling(m)
      BY <1>3, <2>3 DEF Filling
    <3> QED
      BY <2>1, <3>2, <3>3, <3>4, <3>5 DEF Inv, MapsOK
  <2> QED
    BY <2>2, <2>3
<1>13. MapsOK'
  <2>1. program' = "vk" => DOMAIN aabbs' = Edges(0) \cup Edges(1)
    <3>1. program = "vk" => ~ fau
      BY DEF Inv, InputsOK
    <3> QED
      BY <1>1, <3>1 DEF Inv, MapsOK, inputVars
  <2>2. DOMAIN ranges' = Maps
    BY <1>1 DEF Inv, MapsOK
  <2> QED
    BY <1>6, <1>12, <2>1, <2>2 DEF MapsOK
<1> QED
  BY <1>1, <1>9, <1>10, <1>11, <1>13
  DEF Inv, Counting, Counted, ScanOK, PsumOK, Finalizing, Emitting, Stored

(* A step that changes nothing keeps it. *)
LEMMA StutterStep == ASSUME Inv, UNCHANGED vars PROVE Inv'
<1>1. /\ UNCHANGED <<inputVars, todo, memVars, aabbs, ranges, accel, scanVars>>
      /\ UNCHANGED <<phase, done>>
  BY DEF vars, inputVars, memVars, scanVars
<1>2. /\ InputsOK' /\ im' = im /\ Windows' = Windows /\ NWins(im)' = NWins(im)
      /\ \A m : Pending(m)' <=> Pending(m)
      /\ \A w : GroupsOf(w)' = GroupsOf(w)
      /\ \A w : EidBegin(w)' = EidBegin(w)
      /\ \A w : EidEnd(w)' = EidEnd(w)
      /\ \A m : Starts(m)' = Starts(m)
      /\ \A m : NGroups(m)' = NGroups(m)
      /\ \A m, x : Rank(m, x)' = Rank(m, x)
      /\ \A m, x, h : IsGroup(m, x, h)' <=> IsGroup(m, x, h)
  BY <1>1, Kept DEF Inv
<1>3. TypeOK'
  BY <1>1 DEF Inv, TypeOK, memVars
<1>4. PhaseOK'
  BY <1>1 DEF Inv, PhaseOK, inputVars, scanVars
<1>5. MapsOK'
  BY <1>1, <1>2 DEF Inv, MapsOK, Built, Complete, Filling, Untouched, inputVars
<1>6. Counting' /\ Counted'
  BY <1>1, <1>2 DEF Inv, Counting, Counted, memVars
<1>7. ScanOK'
  BY <1>1, <1>2 DEF Inv, ScanOK, IsCall, scanVars
<1>8. PsumOK'
  BY <1>1, <1>2 DEF Inv, PsumOK, memVars
<1>9. Finalizing'
  BY <1>1, <1>2 DEF Inv, Finalizing, memVars, inputVars, scanVars
<1>10. Emitting'
  <2>1. Starts(im)' = Starts(im)
    BY <1>1 DEF Starts, im, inputVars
  <2>2. psum' = psum /\ at' = at /\ k' = k /\ phase' = phase
    BY <1>1 DEF memVars
  <2> QED
    BY <1>2, <2>1, <2>2 DEF Inv, Emitting
<1>11. Stored'
  <2>1. Starts(im)' = Starts(im) /\ NGroups(im)' = NGroups(im)
    BY <1>1, <1>2 DEF Starts, im, inputVars, NGroups
  <2>2. Emitted' = Emitted
    BY <1>1, <2>1 DEF Emitted, memVars
  <2>3. program' = program /\ todo' = todo /\ phase' = phase /\ ranges' = ranges /\ aabbs' = aabbs
    BY <1>1 DEF inputVars
  <2> QED
    BY <1>2, <2>1, <2>2, <2>3 DEF Inv, Stored
<1> QED
  BY <1>2, <1>3, <1>4, <1>5, <1>6, <1>7, <1>8, <1>9, <1>10, <1>11 DEF Inv

(* Every step keeps the invariant, if the scan returns prefix sums. *)
LEMMA NextHolds == ASSUME Inv, ScanExact, [Next]_vars PROVE Inv'
<1>1. CASE UNCHANGED vars
  BY <1>1, StutterStep
<1>2. CASE Stopped
  BY <1>2, StutterStep DEF Stopped
<1>3. CASE StartEach \/ StartCount \/ Throw \/ StartEmit \/ BuildAccel
  <2>1. StartEmit => todo # <<>>
    BY DEF StartEmit, Inv, PhaseOK
  <2> QED
    BY <1>3, <2>1, StartEachStep, StartCountStep, ThrowStep, StartEmitStep, BuildAccelStep
<1>4. CASE InclusiveScan \/ BeginScan \/ Scanning \/ EndScan
  <2>1. todo # <<>>
    BY <1>4 DEF InclusiveScan, BeginScan, Scanning, EndScan, Inv, PhaseOK
  <2> QED
    BY <1>4, <2>1, InclusiveScanStep, BeginScanStep, ScanningStep, EndScanStep
<1>5. CASE todo # <<>> /\ \E w \in Windows : WindowStep(w)
  BY <1>5, CountStep, FinalizeStep, EmitStep DEF WindowStep
<1>6. CASE todo # <<>> /\ \E e \in Edges(im) : FillEdge(e)
  BY <1>6, FillEdgeStep
<1> QED
  BY <1>1, <1>2, <1>3, <1>4, <1>5, <1>6 DEF Next, Step

-----------------------------------------------------------------------------
(* The tree of a block of the device scan: which sums its cells hold on the
   way up and on the way down, as the threads of a level come and go. *)

(* Node u at height j of a block's tree is over the cells from u * 2^j on, as
   many as 2^j; what is known of it is in the last one. *)
NodeCell(u, j) == (u + 1) * Pow2[j] - 1
InBlock(u, j)  == (u + 1) * Pow2[j] <= ScanBlock

(* With f[i] for the sum of what is before cell i: the sum of the cells under
   a node, and of those of the block before it. *)
NodeSum(f, u, j)   == f[(u + 1) * Pow2[j]] - f[u * Pow2[j]]
NodeStart(f, u, j) == f[u * Pow2[j]] - f[0]

(* The left children at height j have their sums. *)
LeftSums(s, f, j) ==
  \A u \in Nat : InBlock(u, j + 1) => s[NodeCell(2 * u, j)] = NodeSum(f, 2 * u, j)

(* On the way up to height e, where the threads of d have added. *)
Rising(s, f, e, d) ==
  /\ \A j \in 0 .. e - 1 : LeftSums(s, f, j)
  /\ \A u \in Nat : InBlock(u, e) =>
       s[NodeCell(u, e)] = IF u \in d THEN NodeSum(f, u, e) ELSE NodeSum(f, 2 * u + 1, e - 1)

(* The root has the sum of the block. *)
Reduced(s, f) ==
  /\ \A j \in 0 .. LogBlock - 1 : LeftSums(s, f, j)
  /\ s[ScanBlock - 1] = f[ScanBlock] - f[0]

(* On the way down from height e, where the threads of d have exchanged. *)
Falling(s, f, e, d) ==
  /\ \A j \in 0 .. e - 2 : LeftSums(s, f, j)
  /\ \A u \in Nat : InBlock(u, e) =>
       IF u \in d
       THEN /\ s[NodeCell(2 * u, e - 1)] = NodeStart(f, 2 * u, e - 1)
            /\ s[NodeCell(u, e)] = NodeStart(f, 2 * u + 1, e - 1)
       ELSE /\ s[NodeCell(2 * u, e - 1)] = NodeSum(f, 2 * u, e - 1)
            /\ s[NodeCell(u, e)] = NodeStart(f, u, e)

(* The cells of a block. *)
LEMMA BlockIs ==
  /\ LogBlock \in Nat \ {0}
  /\ ScanBlock \in Nat \ {0}
  /\ Cells = 0 .. ScanBlock - 1
BY LogBlockAssumption, Powers DEF ScanBlock, Cells

(* The bounds of a node and of its children: it is over both. *)
NodeBounds(u, j) ==
  \E p \in Nat \ {0}, q \in Nat :
    /\ Pow2[j] = p /\ Pow2[j + 1] = 2 * p
    /\ u * Pow2[j + 1] = q /\ (2 * u) * Pow2[j] = q
    /\ (2 * u + 1) * Pow2[j] = q + p
    /\ (u + 1) * Pow2[j + 1] = q + p + p /\ (2 * u + 1 + 1) * Pow2[j] = q + p + p

(* Multiplied out. *)
LEMMA ChildrenOf ==
  ASSUME NEW u \in Nat, NEW j \in Nat
  PROVE  NodeBounds(u, j)
<1>1. PICK p \in Nat \ {0} : p = Pow2[j] /\ Pow2[j + 1] = 2 * p
  BY Powers
<1>2. PICK q \in Nat : q = u * (2 * p)
  OBVIOUS
<1>3. (2 * u) * p = q
  BY <1>2
<1>4. (2 * u + 1) * p = q + p
  BY <1>2
<1>5. (u + 1) * (2 * p) = q + p + p
  BY <1>2
<1>6. (2 * u + 1 + 1) * p = q + p + p
  BY <1>2
<1> QED
  BY <1>1, <1>2, <1>3, <1>4, <1>5, <1>6 DEF NodeBounds

(* The cell of a node is that of its right child; both children are in the
   block if the node is. *)
LEMMA NodeIs ==
  ASSUME NEW u \in Nat, NEW j \in Nat
  PROVE  /\ NodeCell(u, j + 1) = NodeCell(2 * u + 1, j)
         /\ NodeCell(u, j + 1) - Pow2[j] = NodeCell(2 * u, j)
         /\ InBlock(u, j + 1) <=> InBlock(2 * u + 1, j)
         /\ InBlock(u, j + 1) => InBlock(2 * u, j)
<1>1. PICK p \in Nat \ {0}, q \in Nat :
        /\ Pow2[j] = p /\ Pow2[j + 1] = 2 * p
        /\ u * Pow2[j + 1] = q /\ (2 * u) * Pow2[j] = q
        /\ (2 * u + 1) * Pow2[j] = q + p
        /\ (u + 1) * Pow2[j + 1] = q + p + p /\ (2 * u + 1 + 1) * Pow2[j] = q + p + p
  BY ChildrenOf DEF NodeBounds
<1>2. ScanBlock \in Nat
  BY BlockIs
<1>3. /\ NodeCell(2 * u, j) = q + p - 1 /\ NodeCell(2 * u + 1, j) = q + p + p - 1
      /\ NodeCell(u, j + 1) = q + p + p - 1
  BY <1>1 DEF NodeCell
<1>4. InBlock(u, j + 1) <=> q + p + p <= ScanBlock
  BY <1>1 DEF InBlock
<1>5. InBlock(2 * u, j) <=> q + p <= ScanBlock
  BY <1>1 DEF InBlock
<1>6. InBlock(2 * u + 1, j) <=> q + p + p <= ScanBlock
  BY <1>1 DEF InBlock
<1> QED
  BY <1>1, <1>2, <1>3, <1>4, <1>5, <1>6

(* A node of the block has its cell in it, and a thread. *)
LEMMA NodeThere ==
  ASSUME NEW u \in Nat, NEW j \in Nat, InBlock(u, j)
  PROVE  /\ NodeCell(u, j) \in Cells
         /\ u \in Cells
<1>1. PICK p \in Nat \ {0}, n \in Nat : p = Pow2[j] /\ n = ScanBlock /\ Cells = 0 .. n - 1
  BY Powers, BlockIs
<1>2. PICK q \in Nat : q = u * p
  OBVIOUS
<1>3. (u + 1) * p = q + p /\ u <= q
  <2>1. (u + 1) * p = u * p + p
    OBVIOUS
  <2>2. 1 * u <= p * u
    <3>1. 1 \in Nat /\ 1 <= p
      OBVIOUS
    <3> QED
      BY <3>1, Multiples
  <2>3. p * u = u * p /\ 1 * u = u
    OBVIOUS
  <2> QED
    BY <1>2, <2>1, <2>2, <2>3
<1>4. (u + 1) * Pow2[j] = q + p
  BY <1>1, <1>3
<1>5. q + p <= n
  BY <1>1, <1>4 DEF InBlock
<1>6. NodeCell(u, j) = q + p - 1
  BY <1>4 DEF NodeCell
<1>7. q + p - 1 \in 0 .. n - 1 /\ u \in 0 .. n - 1
  BY <1>3, <1>5
<1> QED
  BY <1>1, <1>6, <1>7

(* The sum of a node is that of its children. *)
LEMMA SumOfChildren ==
  ASSUME NEW f \in [0 .. ScanBlock -> Int], NEW u \in Nat, NEW j \in Nat, InBlock(u, j + 1)
  PROVE  /\ NodeSum(f, 2 * u, j) \in Int /\ NodeSum(f, 2 * u + 1, j) \in Int
         /\ NodeStart(f, u, j + 1) \in Int
         /\ NodeSum(f, u, j + 1) = NodeSum(f, 2 * u, j) + NodeSum(f, 2 * u + 1, j)
         /\ NodeStart(f, 2 * u, j) = NodeStart(f, u, j + 1)
         /\ NodeStart(f, 2 * u + 1, j) = NodeStart(f, u, j + 1) + NodeSum(f, 2 * u, j)
<1>1. PICK p \in Nat \ {0}, q \in Nat :
        /\ Pow2[j] = p /\ Pow2[j + 1] = 2 * p
        /\ u * Pow2[j + 1] = q /\ (2 * u) * Pow2[j] = q
        /\ (2 * u + 1) * Pow2[j] = q + p
        /\ (u + 1) * Pow2[j + 1] = q + p + p /\ (2 * u + 1 + 1) * Pow2[j] = q + p + p
  BY ChildrenOf DEF NodeBounds
<1>2. ScanBlock \in Nat /\ q + p + p <= ScanBlock
  BY <1>1, BlockIs DEF InBlock
<1>3. q \in 0 .. ScanBlock /\ q + p \in 0 .. ScanBlock /\ q + p + p \in 0 .. ScanBlock /\ 0 \in 0 .. ScanBlock
  BY <1>2
<1>4. PICK a \in Int, b \in Int, c \in Int, d \in Int :
        a = f[q] /\ b = f[q + p] /\ c = f[q + p + p] /\ d = f[0]
  BY <1>3
<1>5. /\ NodeSum(f, 2 * u, j) = b - a /\ NodeSum(f, 2 * u + 1, j) = c - b
      /\ NodeStart(f, 2 * u, j) = a - d /\ NodeStart(f, 2 * u + 1, j) = b - d
  BY <1>1, <1>4 DEF NodeSum, NodeStart
<1>6. NodeSum(f, u, j + 1) = c - a /\ NodeStart(f, u, j + 1) = a - d
  BY <1>1, <1>4 DEF NodeSum, NodeStart
<1> QED
  BY <1>5, <1>6
(* A higher power is an even multiple of a lower one. *)
LEMMA EvenMultiple ==
  ASSUME NEW i \in Nat, NEW j \in Nat, i < j
  PROVE  \E m \in Nat : Pow2[j] = (2 * m) * Pow2[i]
<1> DEFINE S == {d \in Nat : \E m \in Nat : Pow2[i + 1 + d] = (2 * m) * Pow2[i]}
<1>1. 0 \in S
  <2>1. Pow2[i] \in Nat /\ Pow2[i + 1 + 0] = (2 * 1) * Pow2[i]
    BY Powers
  <2> QED
    BY <2>1
<1>2. ASSUME NEW d \in Nat, d \in S PROVE d + 1 \in S
  <2>1. PICK m \in Nat : Pow2[i + 1 + d] = (2 * m) * Pow2[i]
    BY <1>2
  <2>2. PICK p \in Nat : p = Pow2[i]
    BY Powers
  <2>3. i + 1 + d \in Nat /\ i + 1 + (d + 1) = (i + 1 + d) + 1
    OBVIOUS
  <2>4. Pow2[i + 1 + (d + 1)] = 2 * Pow2[i + 1 + d]
    BY <2>3, Powers
  <2>5. 2 * ((2 * m) * p) = (2 * (2 * m)) * p
    OBVIOUS
  <2>6. 2 * m \in Nat /\ Pow2[i + 1 + (d + 1)] = (2 * (2 * m)) * Pow2[i]
    BY <2>1, <2>2, <2>4, <2>5
  <2> QED
    BY <2>6
<1>3. PICK d \in Nat : j = i + 1 + d
  <2>1. j - (i + 1) \in Nat /\ j = i + 1 + (j - (i + 1))
    OBVIOUS
  <2> QED
    BY <2>1
<1>4. \A e \in 0 .. d : e \in S
  <2>1. \A e \in 0 .. d - 1 : e \in S => e + 1 \in S
    BY <1>2
  <2> HIDE DEF S
  <2> QED
    BY <1>1, <2>1, UpTo
<1>5. d \in S
  <2> HIDE DEF S
  <2> QED
    BY <1>4
<1> QED
  BY <1>3, <1>5

(* Equal multiples of one power are the same multiple. *)
LEMMA SameMultiple ==
  ASSUME NEW a \in Nat, NEW b \in Nat, NEW p \in Nat \ {0}, a * p = b * p
  PROVE  a = b
<1>1. ASSUME NEW x \in Nat, NEW y \in Nat, x < y PROVE x * p < y * p
  <2>1. (x + 1) * p <= y * p
    BY <1>1, Multiples
  <2>2. (x + 1) * p = x * p + p /\ x * p \in Nat /\ y * p \in Nat
    OBVIOUS
  <2> QED
    BY <2>1, <2>2
<1>2. a * p \in Nat /\ b * p \in Nat
  OBVIOUS
<1>3. ~ (a < b) /\ ~ (b < a)
  BY <1>1, <1>2
<1> QED
  BY <1>3

(* A left child has its cell for itself, among the nodes that are not below it. *)
LEMMA LeftCellAlone ==
  ASSUME NEW u \in Nat, NEW j \in Nat, NEW v \in Nat, NEW i \in Nat,
         j < i \/ (j = i /\ v # 2 * u)
  PROVE  NodeCell(2 * u, j) # NodeCell(v, i)
<1>1. SUFFICES ASSUME NodeCell(2 * u, j) = NodeCell(v, i) PROVE FALSE
  OBVIOUS
<1>2. PICK p \in Nat \ {0} : p = Pow2[j]
  BY Powers
<1>3. PICK q \in Nat \ {0} : q = Pow2[i]
  BY Powers
<1>4. (2 * u + 1) * p = (v + 1) * q
  <2>1. PICK x \in Nat, y \in Nat : x = (2 * u + 1) * p /\ y = (v + 1) * q
    OBVIOUS
  <2>2. x - 1 = y - 1
    BY <1>1, <1>2, <1>3, <2>1 DEF NodeCell
  <2> QED
    BY <2>1, <2>2
<1>5. CASE j < i
  <2>1. PICK m \in Nat : q = (2 * m) * p
    BY <1>2, <1>3, <1>5, EvenMultiple
  <2>2. PICK k0 \in Nat : k0 = (v + 1) * m
    OBVIOUS
  <2>3. (v + 1) * ((2 * m) * p) = (2 * k0) * p
    BY <2>2
  <2>4. (2 * u + 1) * p = (2 * k0) * p
    BY <1>4, <2>1, <2>3
  <2>5. 2 * u + 1 = 2 * k0
    BY <2>4, SameMultiple
  <2> QED
    BY <2>5
<1>6. CASE j = i /\ v # 2 * u
  <2>1. p = q
    BY <1>2, <1>3, <1>6
  <2>2. 2 * u + 1 = v + 1
    BY <1>4, <2>1, SameMultiple
  <2> QED
    BY <1>6, <2>2
<1> QED
  BY <1>5, <1>6
(* The pair of thread t on the way to height e. *)
LEMMA PairOf ==
  ASSUME NEW e \in Nat \ {0}, NEW t \in Nat
  PROVE  /\ RightCell(t, Pow2[e - 1]) = NodeCell(t, e)
         /\ RightCell(t, Pow2[e - 1]) - Pow2[e - 1] = NodeCell(2 * t, e - 1)
         /\ HasPair(t, Pow2[e - 1]) <=> InBlock(t, e)
<1>1. PICK j \in Nat : j = e - 1 /\ e = j + 1
  <2>1. e - 1 \in Nat /\ e = (e - 1) + 1
    OBVIOUS
  <2> QED
    BY <2>1
<1>2. PICK p \in Nat \ {0}, q \in Nat :
        /\ Pow2[j] = p /\ Pow2[j + 1] = 2 * p
        /\ t * Pow2[j + 1] = q /\ (2 * t) * Pow2[j] = q
        /\ (2 * t + 1) * Pow2[j] = q + p
        /\ (t + 1) * Pow2[j + 1] = q + p + p /\ (2 * t + 1 + 1) * Pow2[j] = q + p + p
  BY ChildrenOf DEF NodeBounds
<1>3. (t + 1) * p * 2 = (t + 1) * (2 * p)
  OBVIOUS
<1>4. RightCell(t, p) = q + p + p - 1
  BY <1>2, <1>3 DEF RightCell
<1>5. NodeCell(t, j + 1) = q + p + p - 1 /\ NodeCell(2 * t, j) = q + p - 1
  BY <1>2 DEF NodeCell
<1>6. InBlock(t, j + 1) <=> q + p + p <= ScanBlock
  BY <1>2 DEF InBlock
<1>7. ScanBlock \in Nat
  BY BlockIs
<1>8. HasPair(t, p) <=> InBlock(t, j + 1)
  BY <1>4, <1>6, <1>7 DEF HasPair
<1> QED
  BY <1>1, <1>2, <1>4, <1>5, <1>8

(* Two nodes of one height have two cells. *)
LEMMA NodeCellAlone ==
  ASSUME NEW u \in Nat, NEW v \in Nat, NEW j \in Nat, u # v
  PROVE  NodeCell(u, j) # NodeCell(v, j)
<1>1. SUFFICES ASSUME NodeCell(u, j) = NodeCell(v, j) PROVE FALSE
  OBVIOUS
<1>2. PICK p \in Nat \ {0} : p = Pow2[j]
  BY Powers
<1>3. PICK x \in Nat, y \in Nat : x = (u + 1) * p /\ y = (v + 1) * p
  OBVIOUS
<1>4. x - 1 = y - 1
  BY <1>1, <1>2, <1>3 DEF NodeCell
<1>5. (u + 1) * p = (v + 1) * p
  BY <1>3, <1>4
<1>6. u + 1 = v + 1
  BY <1>5, SameMultiple
<1> QED
  BY <1>6

(* Only cells of nodes above height j have changed. *)
ChangedAbove(s, r, j) ==
  \A c \in Cells : r[c] = s[c] \/ \E v \in Nat : \E i \in Nat : j < i /\ c = NodeCell(v, i)

(* That leaves the left sums of height j alone. *)
LEMMA LeftSumsKept ==
  ASSUME NEW s, NEW f, NEW j \in Nat, NEW r, LeftSums(s, f, j), ChangedAbove(s, r, j)
  PROVE  LeftSums(r, f, j)
<1>1. ASSUME NEW u \in Nat, InBlock(u, j + 1)
      PROVE  r[NodeCell(2 * u, j)] = NodeSum(f, 2 * u, j)
  <2>1. PICK c : c = NodeCell(2 * u, j)
    OBVIOUS
  <2>2. 2 * u \in Nat /\ InBlock(2 * u, j)
    BY <1>1, NodeIs
  <2>3. c \in Cells
    BY <2>1, <2>2, NodeThere
  <2>4. \A v \in Nat : \A i \in Nat : j < i => c # NodeCell(v, i)
    BY <2>1, LeftCellAlone
  <2>5. r[c] = s[c]
    BY <2>3, <2>4 DEF ChangedAbove
  <2> QED
    BY <1>1, <2>1, <2>5 DEF LeftSums
<1> QED
  BY <1>1 DEF LeftSums

(* The cells as they are loaded are the leaves. *)
LEMMA LoadedIs ==
  ASSUME NEW s \in [Cells -> Int], NEW f \in [0 .. ScanBlock -> Int],
         \A c \in Cells : s[c] = f[c + 1] - f[c]
  PROVE  Rising(s, f, 1, {})
<1>1. Pow2[0] = 1
  BY Powers
<1>2. ASSUME NEW u \in Nat, InBlock(u, 0) PROVE s[NodeCell(u, 0)] = NodeSum(f, u, 0)
  <2>1. NodeCell(u, 0) = u /\ u \in Cells
    BY <1>1, <1>2, NodeThere DEF NodeCell
  <2>2. NodeSum(f, u, 0) = f[u + 1] - f[u]
    BY <1>1 DEF NodeSum
  <2> QED
    BY <2>1, <2>2
<1>3. ASSUME NEW u \in Nat, InBlock(u, 0 + 1)
      PROVE  /\ s[NodeCell(2 * u, 0)] = NodeSum(f, 2 * u, 0)
             /\ s[NodeCell(u, 0 + 1)] = NodeSum(f, 2 * u + 1, 0)
  <2>1. 2 * u \in Nat /\ 2 * u + 1 \in Nat
    OBVIOUS
  <2>2. InBlock(2 * u, 0) /\ InBlock(2 * u + 1, 0) /\ NodeCell(u, 0 + 1) = NodeCell(2 * u + 1, 0)
    BY <1>3, NodeIs
  <2> QED
    BY <1>2, <2>1, <2>2
<1>4. LeftSums(s, f, 0)
  BY <1>3 DEF LeftSums
<1>5. \A j \in 0 .. 1 - 1 : LeftSums(s, f, j)
  BY <1>4
<1> QED
  BY <1>3, <1>5 DEF Rising

(* A thread adds: it finds the sums of both children, and leaves that of the
   node. *)
LEMMA UpKeeps ==
  ASSUME NEW s \in [Cells -> Int], NEW f \in [0 .. ScanBlock -> Int], NEW e \in Nat \ {0},
         NEW d, NEW t \in Nat, t \notin d, HasPair(t, Pow2[e - 1]), Rising(s, f, e, d)
  PROVE  /\ UpSweep(s, t, Pow2[e - 1]) \in [Cells -> Int]
         /\ Rising(UpSweep(s, t, Pow2[e - 1]), f, e, d \cup {t})
<1>1. PICK j \in Nat : j = e - 1 /\ e = j + 1
  <2>1. e - 1 \in Nat /\ e = (e - 1) + 1
    OBVIOUS
  <2> QED
    BY <2>1
<1>2. InBlock(t, e)
  BY PairOf
<1>3. PICK x \in Cells, y \in Cells : x = NodeCell(t, e) /\ y = NodeCell(2 * t, j)
  <2>1. 2 * t \in Nat /\ InBlock(2 * t, j)
    BY <1>1, <1>2, NodeIs
  <2> QED
    BY <1>1, <1>2, <2>1, NodeThere
<1>4. PICK r : r = UpSweep(s, t, Pow2[e - 1]) /\ r = [s EXCEPT ![x] = s[x] + s[y]]
  BY <1>1, <1>3, PairOf DEF UpSweep
<1>5. r \in [Cells -> Int] /\ r[x] = s[x] + s[y] /\ \A c \in Cells : c # x => r[c] = s[c]
  BY <1>4
<1>6. s[x] = NodeSum(f, 2 * t + 1, j) /\ s[y] = NodeSum(f, 2 * t, j)
  <2>1. s[x] = NodeSum(f, 2 * t + 1, j)
    BY <1>1, <1>2, <1>3 DEF Rising
  <2>2. LeftSums(s, f, j)
    BY <1>1 DEF Rising
  <2> QED
    BY <1>1, <1>2, <1>3, <2>1, <2>2 DEF LeftSums
<1>7. r[x] = NodeSum(f, t, e)
  <2>1. /\ NodeSum(f, 2 * t, j) \in Int /\ NodeSum(f, 2 * t + 1, j) \in Int
        /\ NodeSum(f, t, e) = NodeSum(f, 2 * t, j) + NodeSum(f, 2 * t + 1, j)
    BY <1>1, <1>2, SumOfChildren
  <2> QED
    BY <1>5, <1>6, <2>1
<1>8. ASSUME NEW h \in 0 .. e - 1 PROVE LeftSums(r, f, h)
  <2>1. h \in Nat /\ h < e /\ LeftSums(s, f, h)
    BY DEF Rising
  <2>2. ChangedAbove(s, r, h)
    BY <1>3, <1>5, <2>1 DEF ChangedAbove
  <2> QED
    BY <2>1, <2>2, LeftSumsKept
<1>9. ASSUME NEW u \in Nat, InBlock(u, e)
      PROVE  r[NodeCell(u, e)] = IF u \in d \cup {t} THEN NodeSum(f, u, e) ELSE NodeSum(f, 2 * u + 1, e - 1)
  <2>1. CASE u = t
    BY <1>3, <1>7, <2>1
  <2>2. CASE u # t
    <3>1. NodeCell(u, e) # x /\ NodeCell(u, e) \in Cells
      BY <1>3, <1>9, <2>2, NodeCellAlone, NodeThere
    <3>2. r[NodeCell(u, e)] = s[NodeCell(u, e)]
      BY <1>5, <3>1
    <3> QED
      BY <1>9, <2>2, <3>2 DEF Rising
  <2> QED
    BY <2>1, <2>2
<1> QED
  BY <1>4, <1>5, <1>8, <1>9 DEF Rising

(* All have added: the next height, or the root. *)
LEMMA UpNext ==
  ASSUME NEW s, NEW f, NEW e \in 1 .. LogBlock, NEW d,
         \A u \in Nat : InBlock(u, e) => u \in d, Rising(s, f, e, d)
  PROVE  /\ e < LogBlock => Rising(s, f, e + 1, {})
         /\ e = LogBlock => Reduced(s, f)
<1>1. e \in Nat /\ LogBlock \in Nat
  BY BlockIs
<1>2. \A u \in Nat : InBlock(u, e) => s[NodeCell(u, e)] = NodeSum(f, u, e)
  BY DEF Rising
<1>3. ASSUME e < LogBlock PROVE Rising(s, f, e + 1, {})
  <2>1. ASSUME NEW u \in Nat, InBlock(u, e + 1)
        PROVE  /\ s[NodeCell(2 * u, e)] = NodeSum(f, 2 * u, e)
               /\ s[NodeCell(u, e + 1)] = NodeSum(f, 2 * u + 1, e)
    <3>1. 2 * u \in Nat /\ 2 * u + 1 \in Nat
      OBVIOUS
    <3>2. InBlock(2 * u, e) /\ InBlock(2 * u + 1, e) /\ NodeCell(u, e + 1) = NodeCell(2 * u + 1, e)
      BY <1>1, <2>1, NodeIs
    <3> QED
      BY <1>2, <3>1, <3>2
  <2>2. LeftSums(s, f, e)
    BY <2>1 DEF LeftSums
  <2>3. \A j \in 0 .. (e + 1) - 1 : LeftSums(s, f, j)
    <3>1. \A j \in 0 .. (e + 1) - 1 : j = e \/ j \in 0 .. e - 1
      OBVIOUS
    <3> QED
      BY <2>2, <3>1 DEF Rising
  <2>4. (e + 1) - 1 = e
    OBVIOUS
  <2> QED
    BY <2>1, <2>3, <2>4 DEF Rising
<1>4. ASSUME e = LogBlock PROVE Reduced(s, f)
  <2>1. PICK n \in Nat : n = ScanBlock /\ n = Pow2[e]
    BY <1>4, BlockIs DEF ScanBlock
  <2>2. NodeCell(0, e) = n - 1 /\ InBlock(0, e) /\ NodeSum(f, 0, e) = f[n] - f[0]
    BY <2>1 DEF NodeCell, InBlock, NodeSum
  <2>3. s[n - 1] = f[n] - f[0]
    BY <1>2, <2>2
  <2>4. \A j \in 0 .. LogBlock - 1 : LeftSums(s, f, j)
    BY <1>4 DEF Rising
  <2> QED
    BY <2>1, <2>3, <2>4 DEF Reduced
<1> QED
  BY <1>3, <1>4

(* The root is cleared: no cell is before the block's first. *)
LEMMA RootCleared ==
  ASSUME NEW s \in [Cells -> Int], NEW f \in [0 .. ScanBlock -> Int], Reduced(s, f)
  PROVE  /\ [s EXCEPT ![ScanBlock - 1] = 0] \in [Cells -> Int]
         /\ Falling([s EXCEPT ![ScanBlock - 1] = 0], f, LogBlock, {})
<1>1. PICK n \in Nat \ {0} : n = ScanBlock /\ n = Pow2[LogBlock] /\ Cells = 0 .. n - 1
  BY BlockIs DEF ScanBlock
<1>2. PICK r : r = [s EXCEPT ![ScanBlock - 1] = 0]
  OBVIOUS
<1>3. r \in [Cells -> Int] /\ r[n - 1] = 0 /\ \A c \in Cells : c # n - 1 => r[c] = s[c]
  <2>1. n - 1 \in Cells
    BY <1>1
  <2>2. r = [s EXCEPT ![n - 1] = 0]
    BY <1>1, <1>2
  <2> HIDE <1>2
  <2> QED
    BY <2>1, <2>2
<1>4. PICK j \in Nat : LogBlock = j + 1 /\ j = LogBlock - 1
  <2>1. LogBlock - 1 \in Nat /\ LogBlock = (LogBlock - 1) + 1
    BY BlockIs
  <2> QED
    BY <2>1
<1>5. n - 1 = NodeCell(0, LogBlock) /\ 0 \in Nat /\ LogBlock \in Nat
  BY <1>1, <1>4 DEF NodeCell
<1>6. ASSUME NEW h \in 0 .. LogBlock - 1 PROVE LeftSums(r, f, h)
  <2>1. h \in Nat /\ h < LogBlock /\ LeftSums(s, f, h)
    BY <1>4 DEF Reduced
  <2>2. ChangedAbove(s, r, h)
    BY <1>3, <1>5, <2>1 DEF ChangedAbove
  <2> QED
    BY <2>1, <2>2, LeftSumsKept
<1>7. ASSUME NEW u \in Nat, InBlock(u, LogBlock)
      PROVE  /\ r[NodeCell(2 * u, LogBlock - 1)] = NodeSum(f, 2 * u, LogBlock - 1)
             /\ r[NodeCell(u, LogBlock)] = NodeStart(f, u, LogBlock)
  <2>1. LeftSums(r, f, j)
    BY <1>4, <1>6
  <2>2. r[NodeCell(2 * u, j)] = NodeSum(f, 2 * u, j)
    BY <1>4, <1>7, <2>1 DEF LeftSums
  <2>3. u = 0
    <3>1. (u + 1) * n <= n
      BY <1>1, <1>7 DEF InBlock
    <3>2. u # 0 => 2 * n <= (u + 1) * n
      BY 2 \in Nat, u + 1 \in Nat, u # 0 => 2 <= u + 1, Multiples
    <3>3. (u + 1) * n \in Nat /\ 2 * n = n + n
      OBVIOUS
    <3> QED
      BY <3>1, <3>2, <3>3
  <2>4. NodeStart(f, 0, LogBlock) = 0
    <3>1. 0 * Pow2[LogBlock] = 0 /\ f[0] \in Int
      <4>1. 0 \in 0 .. ScanBlock
        BY <1>1
      <4> QED
        BY <1>1, <4>1
    <3> QED
      BY <3>1 DEF NodeStart
  <2> QED
    BY <1>3, <1>4, <1>5, <2>2, <2>3, <2>4
<1>8. \A h \in 0 .. LogBlock - 2 : LeftSums(r, f, h)
  BY <1>4, <1>6
<1> QED
  BY <1>2, <1>3, <1>7, <1>8 DEF Falling
(* A thread exchanges: the left child begins where the node does, the right
   one behind the left. *)
LEMMA DownKeeps ==
  ASSUME NEW s \in [Cells -> Int], NEW f \in [0 .. ScanBlock -> Int], NEW e \in Nat \ {0},
         NEW d, NEW t \in Nat, t \notin d, HasPair(t, Pow2[e - 1]), Falling(s, f, e, d)
  PROVE  /\ DownSweep(s, t, Pow2[e - 1]) \in [Cells -> Int]
         /\ Falling(DownSweep(s, t, Pow2[e - 1]), f, e, d \cup {t})
<1>1. PICK j \in Nat : j = e - 1 /\ e = j + 1
  <2>1. e - 1 \in Nat /\ e = (e - 1) + 1
    OBVIOUS
  <2> QED
    BY <2>1
<1>2. InBlock(t, e)
  BY PairOf
<1>3. PICK x \in Cells, y \in Cells : x = NodeCell(t, e) /\ y = NodeCell(2 * t, j)
  <2>1. 2 * t \in Nat /\ InBlock(2 * t, j)
    BY <1>1, <1>2, NodeIs
  <2> QED
    BY <1>1, <1>2, <2>1, NodeThere
<1>4. PICK r : r = DownSweep(s, t, Pow2[e - 1]) /\ r = [s EXCEPT ![y] = s[x], ![x] = s[x] + s[y]]
  <2>1. x # y
    BY <1>1, <1>3, LeftCellAlone
  <2>2. RightCell(t, Pow2[e - 1]) = x /\ x - Pow2[e - 1] = y
    BY <1>1, <1>3, PairOf
  <2>3. DownSweep(s, t, Pow2[e - 1]) = [s EXCEPT ![y] = s[x], ![x] = @ + s[y]]
    BY <2>2 DEF DownSweep
  <2>4. [s EXCEPT ![y] = s[x], ![x] = @ + s[y]] = [s EXCEPT ![y] = s[x], ![x] = s[x] + s[y]]
    BY <2>1
  <2> QED
    BY <2>3, <2>4
<1>5. /\ r \in [Cells -> Int] /\ r[x] = s[x] + s[y] /\ r[y] = s[x]
      /\ \A c \in Cells : c # x /\ c # y => r[c] = s[c]
  <2>1. x # y
    BY <1>1, <1>3, LeftCellAlone
  <2> QED
    BY <1>4, <2>1
<1>6. s[x] = NodeStart(f, t, e) /\ s[y] = NodeSum(f, 2 * t, j)
  BY <1>1, <1>2, <1>3 DEF Falling
<1>7. r[x] = NodeStart(f, 2 * t + 1, j) /\ r[y] = NodeStart(f, 2 * t, j)
  <2>1. /\ NodeSum(f, 2 * t, j) \in Int /\ NodeStart(f, t, e) \in Int
        /\ NodeStart(f, 2 * t, j) = NodeStart(f, t, e)
        /\ NodeStart(f, 2 * t + 1, j) = NodeStart(f, t, e) + NodeSum(f, 2 * t, j)
    BY <1>1, <1>2, SumOfChildren
  <2> QED
    BY <1>5, <1>6, <2>1
<1>8. ASSUME NEW h \in 0 .. e - 2 PROVE LeftSums(r, f, h)
  <2>1. h \in Nat /\ h < e /\ h < j /\ LeftSums(s, f, h)
    BY <1>1 DEF Falling
  <2>2. ChangedAbove(s, r, h)
    <3>1. 2 * t \in Nat
      OBVIOUS
    <3>2. ASSUME NEW c \in Cells, r[c] # s[c]
          PROVE  \E v \in Nat : \E i \in Nat : h < i /\ c = NodeCell(v, i)
      <4>1. c = x \/ c = y
        BY <1>5, <3>2
      <4> QED
        BY <1>3, <2>1, <3>1, <4>1
    <3> QED
      BY <3>2 DEF ChangedAbove
  <2> QED
    BY <2>1, <2>2, LeftSumsKept
<1>9. ASSUME NEW u \in Nat, InBlock(u, e)
      PROVE  IF u \in d \cup {t}
             THEN /\ r[NodeCell(2 * u, e - 1)] = NodeStart(f, 2 * u, e - 1)
                  /\ r[NodeCell(u, e)] = NodeStart(f, 2 * u + 1, e - 1)
             ELSE /\ r[NodeCell(2 * u, e - 1)] = NodeSum(f, 2 * u, e - 1)
                  /\ r[NodeCell(u, e)] = NodeStart(f, u, e)
  <2>1. CASE u = t
    BY <1>1, <1>3, <1>7, <2>1
  <2>2. CASE u # t
    <3>1. InBlock(2 * u, j) /\ InBlock(2 * u + 1, j) /\ NodeCell(u, e) = NodeCell(2 * u + 1, j)
      BY <1>1, <1>9, NodeIs
    <3>2. NodeCell(t, e) = NodeCell(2 * t + 1, j)
      BY <1>1, NodeIs
    <3>3. /\ 2 * u \in Nat /\ 2 * t \in Nat /\ 2 * u + 1 \in Nat /\ 2 * t + 1 \in Nat
          /\ 2 * u # 2 * t /\ 2 * u # 2 * t + 1 /\ 2 * u + 1 # 2 * t /\ 2 * u + 1 # 2 * t + 1
      BY <2>2
    <3>4. NodeCell(2 * u, j) # x /\ NodeCell(2 * u, j) # y
      BY <1>3, <3>2, <3>3, NodeCellAlone
    <3>5. NodeCell(u, e) # x /\ NodeCell(u, e) # y
      BY <1>3, <3>1, <3>2, <3>3, NodeCellAlone
    <3>6. NodeCell(2 * u, j) \in Cells /\ NodeCell(u, e) \in Cells
      BY <1>1, <1>9, <3>1, <3>3, NodeThere
    <3>7. r[NodeCell(2 * u, j)] = s[NodeCell(2 * u, j)] /\ r[NodeCell(u, e)] = s[NodeCell(u, e)]
      BY <1>5, <3>4, <3>5, <3>6
    <3> QED
      BY <1>1, <1>9, <2>2, <3>7 DEF Falling
  <2> QED
    BY <2>1, <2>2
<1> QED
  BY <1>4, <1>5, <1>8, <1>9 DEF Falling

(* The block is a whole number of nodes of each height up to the root's. *)
LEMMA NodeWhole ==
  ASSUME NEW u \in Nat, NEW v \in Nat, NEW j \in Nat, NEW l \in Nat, LogBlock = (j + 1) + l,
         v = 2 * u \/ v = 2 * u + 1, InBlock(v, j)
  PROVE  InBlock(u, j + 1)
<1>1. PICK p \in Nat \ {0}, q \in Nat :
        /\ Pow2[j] = p /\ Pow2[j + 1] = 2 * p
        /\ u * Pow2[j + 1] = q /\ (2 * u) * Pow2[j] = q
        /\ (2 * u + 1) * Pow2[j] = q + p
        /\ (u + 1) * Pow2[j + 1] = q + p + p /\ (2 * u + 1 + 1) * Pow2[j] = q + p + p
  BY ChildrenOf DEF NodeBounds
<1>2. PICK n \in Nat : n = ScanBlock
  BY BlockIs
<1>3. q + p <= n
  <2>1. CASE v = 2 * u
    BY <1>1, <1>2, <2>1 DEF InBlock
  <2>2. CASE v = 2 * u + 1
    BY <1>1, <1>2, <2>2 DEF InBlock
  <2> QED
    BY <2>1, <2>2
<1>4. PICK m \in Nat : n = m * (2 * p)
  <2>1. CASE l = 0
    <3>1. n = 2 * p
      BY <1>1, <1>2, <2>1 DEF ScanBlock
    <3>2. n = 1 * (2 * p)
      BY <3>1
    <3> QED
      BY <3>2
  <2>2. CASE l # 0
    <3>1. j + 1 \in Nat /\ LogBlock \in Nat /\ j + 1 < LogBlock
      BY <2>2, BlockIs
    <3>2. PICK m \in Nat : Pow2[LogBlock] = (2 * m) * Pow2[j + 1]
      BY <3>1, EvenMultiple
    <3>3. n = (2 * m) * (2 * p)
      BY <1>1, <1>2, <3>2 DEF ScanBlock
    <3> QED
      BY <3>3
  <2> QED
    BY <2>1, <2>2
<1>5. u * (2 * p) = q /\ (u + 1) * (2 * p) = q + p + p
  BY <1>1
<1>6. u < m
  <2>1. SUFFICES ASSUME m <= u PROVE FALSE
    OBVIOUS
  <2>2. 2 * p \in Nat
    OBVIOUS
  <2>3. m * (2 * p) <= u * (2 * p)
    BY <2>1, <2>2, Multiples
  <2> QED
    BY <1>3, <1>4, <1>5, <2>3
<1>7. (u + 1) * (2 * p) <= m * (2 * p)
  BY <1>6, u + 1 \in Nat, u + 1 <= m, 2 * p \in Nat, Multiples
<1>8. q + p + p <= n
  BY <1>4, <1>5, <1>7
<1> QED
  BY <1>1, <1>2, <1>8 DEF InBlock

(* All have exchanged: the next height, or every cell has what is before it. *)
LEMMA DownNext ==
  ASSUME NEW s, NEW f, NEW e \in 1 .. LogBlock, NEW d,
         \A u \in Nat : InBlock(u, e) => u \in d, Falling(s, f, e, d)
  PROVE  /\ e # 1 => Falling(s, f, e - 1, {})
         /\ e = 1 => \A c \in Cells : s[c] = f[c] - f[0]
<1>1. PICK j \in Nat : j = e - 1 /\ e = j + 1 /\ LogBlock \in Nat
  <2>1. LogBlock \in Nat
    BY BlockIs
  <2>2. e - 1 \in Nat /\ e = (e - 1) + 1
    BY <2>1
  <2> QED
    BY <2>1, <2>2
<1>2. PICK l \in Nat : l = LogBlock - e /\ LogBlock = e + l
  <2>1. LogBlock - e \in Nat /\ LogBlock = e + (LogBlock - e)
    BY <1>1
  <2> QED
    BY <2>1
<1>3. ASSUME NEW v \in Nat, InBlock(v, j) PROVE s[NodeCell(v, j)] = NodeStart(f, v, j)
  <2>1. PICK u \in Nat : v = 2 * u \/ v = 2 * u + 1
    <3>1. v \div 2 \in Nat /\ (v = 2 * (v \div 2) \/ v = 2 * (v \div 2) + 1)
      OBVIOUS
    <3> QED
      BY <3>1
  <2>2. InBlock(u, e)
    BY <1>1, <1>2, <1>3, <2>1, NodeWhole
  <2>3. u \in d
    BY <2>2
  <2>4. /\ s[NodeCell(2 * u, j)] = NodeStart(f, 2 * u, j)
        /\ s[NodeCell(u, e)] = NodeStart(f, 2 * u + 1, j)
    BY <1>1, <2>2, <2>3 DEF Falling
  <2>5. NodeCell(u, e) = NodeCell(2 * u + 1, j)
    BY <1>1, NodeIs
  <2> QED
    BY <2>1, <2>4, <2>5
<1>4. ASSUME e # 1 PROVE Falling(s, f, e - 1, {})
  <2>1. PICK i \in Nat : j = i + 1 /\ i = j - 1 /\ i = e - 2
    <3>1. j - 1 \in Nat /\ j = (j - 1) + 1 /\ j - 1 = e - 2
      BY <1>1, <1>4
    <3> QED
      BY <3>1
  <2>2. LeftSums(s, f, i)
    BY <2>1 DEF Falling
  <2>3. \A h \in 0 .. j - 2 : LeftSums(s, f, h)
    BY <1>1, <2>1 DEF Falling
  <2>4. \A u \in Nat : InBlock(u, j) =>
          /\ s[NodeCell(2 * u, j - 1)] = NodeSum(f, 2 * u, j - 1)
          /\ s[NodeCell(u, j)] = NodeStart(f, u, j)
    BY <1>3, <2>1, <2>2 DEF LeftSums
  <2>5. Falling(s, f, j, {})
    BY <2>3, <2>4 DEF Falling
  <2> QED
    BY <1>1, <2>5
<1>5. ASSUME e = 1, NEW c \in Cells PROVE s[c] = f[c] - f[0]
  <2>1. Pow2[0] = 1 /\ j = 0
    BY <1>1, <1>5, Powers
  <2>2. PICK n \in Nat : n = ScanBlock /\ Cells = 0 .. n - 1
    BY BlockIs
  <2>3. c \in Nat /\ c < n
    BY <2>2
  <2>4. InBlock(c, 0) /\ NodeCell(c, 0) = c /\ NodeStart(f, c, 0) = f[c] - f[0]
    BY <2>1, <2>2, <2>3 DEF InBlock, NodeCell, NodeStart
  <2> QED
    BY <1>3, <2>1, <2>3, <2>4
<1> QED
  BY <1>4, <1>5

-----------------------------------------------------------------------------
(* What blocks and calls are known to have done, and what their arrays are. *)

(* What is before a cell of the array of call c, and past its end all of it. *)
Before(c, i) == SumBefore(c.in, IF i < c.n THEN i ELSE c.n)

(* The same for the cells of block b, and the one behind them. *)
BlockBefore(c, b) == [i \in 0 .. ScanBlock |-> Before(c, b * ScanBlock + i)]

CallOK(c) ==
  /\ c = [n |-> c.n, in |-> c.in, out |-> c.out, sums |-> c.sums]
  /\ c.n \in Nat \ {0}
  /\ c.in \in [0 .. c.n - 1 -> Int]
  /\ c.out \in [0 .. c.n - 1 -> Int]
  /\ c.sums \in [0 .. NumBlocks(c.n) - 1 -> Int]

(* What block b of call c leaves behind: its sum, and in its cells what is
   before them in the block; then what is before them in the array. *)
TotalSaved(c, b) == c.sums[b] = BlockBefore(c, b)[ScanBlock] - BlockBefore(c, b)[0]
CellsStored(c, b) ==
  \A i \in 0 .. c.n - 1 : i \div ScanBlock = b =>
    c.out[i] = BlockBefore(c, b)[i % ScanBlock] - BlockBefore(c, b)[0]
CellsAdded(c, b) == \A i \in 0 .. c.n - 1 : i \div ScanBlock = b => c.out[i] = Before(c, i)

CallDone(c) == \A b \in 0 .. NumBlocks(c.n) - 1 : TotalSaved(c, b) /\ CellsStored(c, b)

(* The place of a block of the first kernel, and what its memory is there. *)
IsBlock(k0) ==
  /\ k0 = [s |-> k0.s, step |-> k0.step, done |-> k0.done]
  /\ k0.step \in 0 .. LastStep + 1
  /\ k0.s \in [Cells -> Int]
  /\ k0.step \in {0, Clear} => k0.done = {}

TreeOK(k0, f) ==
  /\ Up(k0.step) => Rising(k0.s, f, k0.step, k0.done)
  /\ k0.step = Clear => Reduced(k0.s, f)
  /\ Down(k0.step) => Falling(k0.s, f, LastStep - k0.step, k0.done)
  /\ k0.step = LastStep => \A x \in Cells : k0.s[x] = f[x] - f[0]

BlockOK(k0, c, b) ==
  /\ IsBlock(k0)
  /\ TreeOK(k0, BlockBefore(c, b))
  /\ k0.step > Clear => TotalSaved(c, b)
  /\ k0.step > LastStep => CellsStored(c, b)

(* The second kernel adds once per block. *)
AddOK(k0, c, b) ==
  /\ k0 = [s |-> k0.s, step |-> k0.step, done |-> k0.done]
  /\ k0.step \in {0, LastStep + 1}
  /\ k0.step = 0 => CellsStored(c, b)
  /\ k0.step > LastStep => CellsAdded(c, b)

OffsetsOK(c, o) ==
  /\ DOMAIN o = 0 .. NumBlocks(c.n) - 1
  /\ IsExclusiveScan(c.sums, o)

(* The kernel kn with blocks bk runs for call c; the call within it left o. *)
KernelOK(kn, bk, c, o) ==
  /\ kn \in {"none", "scan", "add"}
  /\ kn # "none" => DOMAIN bk = 0 .. NumBlocks(c.n) - 1
  /\ kn = "scan" => \A b \in DOMAIN bk : BlockOK(bk[b], c, b)
  /\ kn = "none" => CallDone(c)
  /\ kn = "add" => \A b \in DOMAIN bk : TotalSaved(c, b) /\ AddOK(bk[b], c, b)
  /\ kn # "scan" => OffsetsOK(c, o)

(* The calls: each but the innermost has its block sums and scans them. *)
CallsOK(cs, a, n) ==
  /\ \A i \in 1 .. Len(cs) : CallOK(cs[i])
  /\ cs[1].in = a /\ cs[1].n = n
  /\ \A i \in 1 .. Len(cs) - 1 :
       CallDone(cs[i]) /\ cs[i + 1].in = cs[i].sums /\ cs[i + 1].n = NumBlocks(cs[i].n)

ScanInv ==
  /\ phase = "scan" /\ calls # <<>> =>
       /\ CallsOK(calls, nGrp, NWins(im))
       /\ KernelOK(kernel, blk, calls[Len(calls)], offsets)
  /\ phase = "scan" /\ calls = <<>> => IsExclusiveScan(nGrp, offsets)
  /\ ScanExact
-----------------------------------------------------------------------------
(* Sums of an integer array, cell by cell, and constant past its end. *)
LEMMA BeforeIs ==
  ASSUME NEW c, CallOK(c)
  PROVE  /\ \A i \in Nat : Before(c, i) \in Int
         /\ Before(c, 0) = 0
         /\ \A i \in Nat : Before(c, i + 1) = Before(c, i) + (IF i < c.n THEN c.in[i] ELSE 0)
         /\ \A i \in 0 .. c.n : Before(c, i) = SumBefore(c.in, i)
<1>1. PICK n \in Nat \ {0} : n = c.n /\ c.in \in [0 .. n - 1 -> Int]
  BY DEF CallOK
<1> PICK a \in [0 .. n - 1 -> Int] : a = c.in
  BY <1>1
<1>2. /\ SumBefore(a, 0) = 0
      /\ \A i \in 0 .. n : SumBefore(a, i) \in Int
      /\ \A i \in 0 .. n - 1 : SumBefore(a, i + 1) = SumBefore(a, i) + a[i]
  BY SumOfFirst DEF SumBefore
<1>3. \A i : Before(c, i) = SumBefore(a, IF i < n THEN i ELSE n)
  BY <1>1 DEF Before
<1>4. ASSUME NEW i \in Nat
      PROVE  /\ Before(c, i) \in Int
             /\ Before(c, i + 1) = Before(c, i) + (IF i < n THEN a[i] ELSE 0)
  <2>1. CASE i < n
    <3>1. i \in 0 .. n - 1 /\ i \in 0 .. n /\ Before(c, i) = SumBefore(a, i)
      BY <1>3, <2>1
    <3>2. Before(c, i + 1) = SumBefore(a, i + 1)
      <4>1. CASE i + 1 < n
        BY <1>3, <4>1
      <4>2. CASE i + 1 = n
        <5>1. ~ (i + 1 < n)
          BY <4>2
        <5> QED
          BY <1>3, <4>2, <5>1
      <4> QED
        BY <2>1, <4>1, <4>2
    <3> QED
      BY <1>2, <2>1, <3>1, <3>2
  <2>2. CASE ~ (i < n)
    <3>1. ~ (i + 1 < n) /\ n \in 0 .. n
      BY <2>2
    <3>2. Before(c, i) = SumBefore(a, n) /\ Before(c, i + 1) = SumBefore(a, n)
      BY <1>3, <2>2, <3>1
    <3> QED
      BY <1>2, <2>2, <3>1, <3>2
  <2> QED
    BY <2>1, <2>2
<1>5. ASSUME NEW i \in 0 .. n PROVE Before(c, i) = SumBefore(a, i)
  <2>1. CASE i < n
    BY <1>3, <2>1
  <2>2. CASE i = n
    <3>1. ~ (i < n)
      BY <2>2
    <3> QED
      BY <1>3, <2>2, <3>1
  <2> QED
    BY <2>1, <2>2
<1>6. Before(c, 0) = 0
  <2>1. 0 \in 0 .. n
    OBVIOUS
  <2> QED
    BY <1>2, <1>5, <2>1
<1> QED
  BY <1>1, <1>4, <1>5, <1>6

(* The sums before the cells of a block. *)
LEMMA BlockBeforeIs ==
  ASSUME NEW c, CallOK(c), NEW b \in Nat
  PROVE  /\ BlockBefore(c, b) \in [0 .. ScanBlock -> Int]
         /\ \A i \in 0 .. ScanBlock : BlockBefore(c, b)[i] = Before(c, b * ScanBlock + i)
         /\ BlockBefore(c, b)[0] = Before(c, b * ScanBlock)
         /\ BlockBefore(c, b)[ScanBlock] = Before(c, (b + 1) * ScanBlock)
<1>1. PICK n \in Nat \ {0} : n = ScanBlock
  BY BlockIs
<1>2. PICK q \in Nat : q = b * n
  OBVIOUS
<1>3. (b + 1) * n = q + n /\ q + 0 = q
  BY <1>2
<1>4. BlockBefore(c, b) = [i \in 0 .. n |-> Before(c, q + i)]
  BY <1>1, <1>2 DEF BlockBefore
<1>5. \A i \in 0 .. n : q + i \in Nat
  OBVIOUS
<1>6. BlockBefore(c, b) \in [0 .. n -> Int]
  BY <1>4, <1>5, BeforeIs
<1>7. 0 \in 0 .. n /\ n \in 0 .. n
  OBVIOUS
<1>8. /\ BlockBefore(c, b)[0] = Before(c, q)
      /\ BlockBefore(c, b)[n] = Before(c, q + n)
  BY <1>3, <1>4, <1>7
<1>9. \A i \in 0 .. n : BlockBefore(c, b)[i] = Before(c, q + i)
  BY <1>4
<1> QED
  BY <1>1, <1>2, <1>3, <1>6, <1>8, <1>9

(* Blocks are enough, and none of them is beyond the array. *)
LEMMA BlocksCover ==
  ASSUME NEW n \in Nat \ {0}
  PROVE  /\ NumBlocks(n) \in Nat \ {0}
         /\ \A i \in 0 .. n - 1 :
              /\ i \div ScanBlock \in 0 .. NumBlocks(n) - 1
              /\ i % ScanBlock \in Cells
              /\ i = (i \div ScanBlock) * ScanBlock + (i % ScanBlock)
<1>1. PICK w \in Nat \ {0} : w = ScanBlock /\ Cells = 0 .. w - 1
  BY BlockIs
<1>2. n + w - 1 \in Nat
  OBVIOUS
<1>3. PICK q \in Nat : /\ q = (n + w - 1) \div w
                       /\ q * w \in Nat
                       /\ n + w - 1 < q * w + w
  BY <1>2, Quotient
<1>4. NumBlocks(n) = q
  BY <1>1, <1>3 DEF NumBlocks
<1>5. ASSUME NEW i \in 0 .. n - 1
      PROVE  i \div w \in 0 .. q - 1 /\ i % w \in 0 .. w - 1 /\ i = (i \div w) * w + (i % w)
  <2>1. i \in Nat
    OBVIOUS
  <2>2. i \div w \in Nat /\ i % w \in 0 .. w - 1 /\ i = (i \div w) * w + (i % w)
    BY <2>1
  <2> PICK h \in Nat, r \in 0 .. w - 1 : h = i \div w /\ r = i % w
    BY <2>2
  <2>5. i = h * w + r
    BY <2>2
  <2>3. h < q
    <3>1. SUFFICES ASSUME q <= h PROVE FALSE
      OBVIOUS
    <3>2. q * w <= h * w
      BY <3>1, Multiples
    <3>3. h * w \in Nat /\ i < n
      OBVIOUS
    <3> QED
      BY <1>3, <2>5, <3>2, <3>3
  <2>4. h \in 0 .. q - 1
    BY <2>3
  <2>6. i \div w \in 0 .. q - 1
    BY <2>4
  <2> QED
    BY <2>2, <2>6
<1>6. q # 0
  <2>1. 0 \in 0 .. n - 1
    OBVIOUS
  <2> QED
    BY <1>5, <2>1
<1> QED
  BY <1>1, <1>3, <1>4, <1>5, <1>6

(* The sums of the blocks add up to what is before each block. *)
LEMMA SumsOfBlocks ==
  ASSUME NEW c, CallOK(c), \A b \in 0 .. NumBlocks(c.n) - 1 : TotalSaved(c, b)
  PROVE  \A b \in 0 .. NumBlocks(c.n) - 1 : SumBefore(c.sums, b) = Before(c, b * ScanBlock)
<1>1. PICK n \in Nat \ {0} : n = NumBlocks(c.n) /\ c.sums \in [0 .. n - 1 -> Int]
  BY BlocksCover DEF CallOK
<1>2. PICK a \in [0 .. n - 1 -> Int] : a = c.sums
  BY <1>1
<1>3. /\ SumBefore(a, 0) = 0
      /\ \A i \in 0 .. n - 1 : SumBefore(a, i + 1) = SumBefore(a, i) + a[i]
  BY SumOfFirst DEF SumBefore
<1>4. PICK w \in Nat : w = ScanBlock
  BY BlockIs
<1> DEFINE S == {b \in Nat : SumBefore(a, b) = Before(c, b * w)}
<1>5. 0 \in S
  <2>1. 0 * w = 0
    OBVIOUS
  <2> QED
    BY <1>3, <2>1, BeforeIs
<1>6. ASSUME NEW b \in 0 .. n - 1, b \in S PROVE b + 1 \in S
  <2>1. b \in Nat /\ b * w \in Nat /\ (b + 1) * w \in Nat
    OBVIOUS
  <2>2. a[b] = Before(c, (b + 1) * w) - Before(c, b * w)
    <3>1. TotalSaved(c, b)
      BY <1>1
    <3> QED
      BY <1>2, <1>4, <2>1, <3>1, BlockBeforeIs DEF TotalSaved
  <2>3. Before(c, (b + 1) * w) \in Int /\ Before(c, b * w) \in Int
    BY <2>1, BeforeIs
  <2>4. SumBefore(a, b + 1) = SumBefore(a, b) + a[b] /\ SumBefore(a, b) = Before(c, b * w)
    BY <1>3, <1>6
  <2>5. SumBefore(a, b + 1) = Before(c, (b + 1) * w)
    BY <2>2, <2>3, <2>4
  <2> QED
    BY <2>1, <2>5
<1>7. \A b \in 0 .. n : b \in S
  <2>1. n \in Nat /\ \A b \in 0 .. n - 1 : b \in S => b + 1 \in S
    BY <1>6
  <2> HIDE DEF S
  <2> QED
    BY <1>5, <2>1, UpTo
<1>8. \A b \in 0 .. n - 1 : b \in S
  <2> HIDE DEF S
  <2> QED
    BY <1>7
<1> QED
  BY <1>1, <1>2, <1>4, <1>8

-----------------------------------------------------------------------------
(* What a block does keeps what is known of it and of the others. *)

(* A block's shared memory, place and threads as a record. *)
Block(s, st, d) == [s |-> s, step |-> st, done |-> d]

(* The places of a block, in numbers. *)
LEMMA StepsAre ==
  /\ LogBlock \in Nat \ {0}
  /\ Clear = LogBlock + 1 /\ LastStep = 2 * LogBlock + 2
  /\ \A st \in Nat : Up(st) <=> st \in 1 .. LogBlock
  /\ \A st \in Nat : Down(st) <=> st \in LogBlock + 2 .. 2 * LogBlock + 1
BY LogBlockAssumption DEF Clear, LastStep, Up, Down

(* The height a block climbs or descends, from the distance of its pairs. *)
LEMMA OffsetIs ==
  ASSUME NEW st \in Nat
  PROVE  /\ Up(st) => Offset(st) = Pow2[st - 1]
         /\ Down(st) => /\ LastStep - st \in 1 .. LogBlock
                        /\ Offset(st) = Pow2[(LastStep - st) - 1]
<1>1. PICK l \in Nat \ {0} : l = LogBlock /\ LastStep = 2 * l + 2
  BY StepsAre
<1>2. ASSUME Down(st) PROVE /\ ~ Up(st) /\ LastStep - st \in 1 .. l
                            /\ (LastStep - st) - 1 = LastStep - 1 - st
  <2>1. st \in l + 2 .. 2 * l + 1
    BY <1>1, <1>2, StepsAre
  <2>2. ~ Up(st)
    BY <1>1, <2>1, StepsAre
  <2> QED
    BY <1>1, <2>1, <2>2
<1> QED
  BY <1>1, <1>2 DEF Offset

(* The cells as loaded, zero past the end of the array. *)
Loaded(c, b) == [x \in Cells |-> LET i == b * ScanBlock + x IN IF i < c.n THEN c.in[i] ELSE 0]

(* The cells are loaded. *)
LEMMA LoadKeeps ==
  ASSUME NEW c, CallOK(c), NEW b \in Nat, NEW k0, BlockOK(k0, c, b), k0.step = 0
  PROVE  BlockOK(Block(Loaded(c, b), 1, k0.done), c, b)
<1>1. PICK r : r = Block(Loaded(c, b), 1, k0.done)
  OBVIOUS
<1>2. r = [s |-> Loaded(c, b), step |-> 1, done |-> {}]
  BY <1>1 DEF BlockOK, IsBlock, Block
<1>3. PICK s : s = Loaded(c, b)
  OBVIOUS
<1>4. PICK f \in [0 .. ScanBlock -> Int] : f = BlockBefore(c, b)
  BY BlockBeforeIs
<1>5. ASSUME NEW x \in Cells PROVE s[x] \in Int /\ s[x] = f[x + 1] - f[x]
  <2>1. x \in 0 .. ScanBlock /\ x + 1 \in 0 .. ScanBlock /\ x \in Nat
    BY BlockIs
  <2>2. PICK i \in Nat : i = b * ScanBlock + x /\ i + 1 = b * ScanBlock + (x + 1)
    <3>1. b * ScanBlock \in Nat
      BY BlockIs
    <3>2. b * ScanBlock + x \in Nat /\ (b * ScanBlock + x) + 1 = b * ScanBlock + (x + 1)
      BY <2>1, <3>1
    <3> QED
      BY <3>2
  <2>3. f[x] = Before(c, i) /\ f[x + 1] = Before(c, i + 1)
    <3>1. \A y \in 0 .. ScanBlock : f[y] = Before(c, b * ScanBlock + y)
      <4>1. \A y \in 0 .. ScanBlock : BlockBefore(c, b)[y] = Before(c, b * ScanBlock + y)
        BY BlockBeforeIs
      <4> QED
        BY <1>4, <4>1
    <3>2. f[x] = Before(c, b * ScanBlock + x)
      BY <2>1, <3>1
    <3>3. f[x + 1] = Before(c, b * ScanBlock + (x + 1))
      BY <2>1, <3>1
    <3> QED
      BY <2>2, <3>2, <3>3
  <2>4. s[x] = IF i < c.n THEN c.in[i] ELSE 0
    BY <1>3, <2>2 DEF Loaded
  <2>5. s[x] \in Int
    <3>1. i < c.n => i \in 0 .. c.n - 1
      BY <2>2 DEF CallOK
    <3> QED
      BY <2>4, <3>1 DEF CallOK
  <2>6. /\ Before(c, i) \in Int /\ Before(c, i + 1) \in Int
        /\ Before(c, i + 1) = Before(c, i) + s[x]
    BY <2>2, <2>4, BeforeIs
  <2> QED
    BY <2>3, <2>5, <2>6
<1>6. s \in [Cells -> Int]
  <2>1. s = [x \in Cells |-> s[x]]
    BY <1>3 DEF Loaded
  <2> QED
    BY <1>5, <2>1
<1>7. Rising(s, f, 1, {})
  BY <1>5, <1>6, LoadedIs
<1>8. PICK l \in Nat \ {0} : l = LogBlock /\ Clear = l + 1 /\ LastStep = 2 * l + 2
  BY StepsAre
<1>9. ~ Down(1) /\ 1 # Clear /\ 1 # LastStep /\ ~ (1 > Clear) /\ ~ (1 > LastStep)
      /\ 1 \in 0 .. LastStep + 1
  BY <1>8, StepsAre
<1>10. IsBlock(r)
  BY <1>2, <1>3, <1>6, <1>9 DEF IsBlock
<1>11. TreeOK(r, f)
  BY <1>2, <1>3, <1>7, <1>9 DEF TreeOK
<1> QED
  BY <1>1, <1>2, <1>4, <1>9, <1>10, <1>11 DEF BlockOK

(* A thread's part of a level. *)
Swept(k0, t) ==
  Block(IF Up(k0.step) THEN UpSweep(k0.s, t, Offset(k0.step)) ELSE DownSweep(k0.s, t, Offset(k0.step)),
        k0.step, k0.done \cup {t})

(* A thread adds on the way up, or exchanges on the way down. *)
LEMMA SweepKeeps ==
  ASSUME NEW c, CallOK(c), NEW b \in Nat, NEW k0, BlockOK(k0, c, b), Up(k0.step) \/ Down(k0.step),
         NEW t \in Cells, t \notin k0.done, HasPair(t, Offset(k0.step))
  PROVE  BlockOK(Swept(k0, t), c, b)
<1>1. PICK f \in [0 .. ScanBlock -> Int] : f = BlockBefore(c, b)
  BY BlockBeforeIs
<1> PICK d : d = k0.done
  OBVIOUS
<1>2. PICK s \in [Cells -> Int] : s = k0.s /\ d = k0.done
  BY DEF BlockOK, IsBlock
<1>3. PICK st \in Nat : st = k0.step /\ st \in 0 .. LastStep + 1
  BY StepsAre DEF BlockOK, IsBlock
<1>4. t \in Nat
  BY BlockIs
<1>5. PICK l \in Nat \ {0} : l = LogBlock /\ Clear = l + 1 /\ LastStep = 2 * l + 2
  BY StepsAre
<1> PICK r : r = Swept(k0, t)
  OBVIOUS
<1>6. /\ r = Swept(k0, t) /\ r = [s |-> r.s, step |-> r.step, done |-> r.done]
      /\ r.step = st /\ r.done = d \cup {t}
  BY <1>2, <1>3 DEF Swept, Block
<1>7. CASE Up(st)
  <2>1. st \in 1 .. l /\ ~ Down(st) /\ Offset(st) = Pow2[st - 1] /\ st \in Nat \ {0}
    <3>1. st \in 1 .. l
      BY <1>5, <1>7, StepsAre
    <3>2. ~ Down(st)
      BY <1>5, <3>1, StepsAre
    <3>3. Offset(st) = Pow2[st - 1]
      BY <1>7, OffsetIs
    <3> QED
      BY <3>1, <3>2, <3>3
  <2>2. Rising(s, f, st, d)
    BY <1>1, <1>2, <1>3, <1>7 DEF BlockOK, TreeOK
  <2>3. r.s = UpSweep(s, t, Pow2[st - 1])
    BY <1>2, <1>3, <1>6, <1>7, <2>1 DEF Swept, Block
  <2>4. t \notin d /\ HasPair(t, Pow2[st - 1])
    BY <1>2, <1>3, <2>1
  <2>5. r.s \in [Cells -> Int] /\ Rising(r.s, f, st, d \cup {t})
    <3>1. /\ UpSweep(s, t, Pow2[st - 1]) \in [Cells -> Int]
          /\ Rising(UpSweep(s, t, Pow2[st - 1]), f, st, d \cup {t})
      BY <1>4, <2>1, <2>2, <2>4, UpKeeps
    <3> QED
      BY <2>3, <3>1
  <2>6. st # 0 /\ st # Clear /\ st # LastStep /\ ~ (st > Clear) /\ ~ (st > LastStep)
    BY <1>5, <2>1
  <2>7. IsBlock(r)
    BY <1>3, <1>6, <2>5, <2>6 DEF IsBlock
  <2>8. TreeOK(r, f)
    BY <1>6, <2>1, <2>5, <2>6 DEF TreeOK
  <2> QED
    BY <1>1, <1>6, <2>6, <2>7, <2>8 DEF BlockOK
<1>8. CASE Down(st)
  <2>1. PICK e \in Nat \ {0} : e = LastStep - st /\ Offset(st) = Pow2[e - 1]
    <3>1. LastStep - st \in 1 .. l /\ Offset(st) = Pow2[(LastStep - st) - 1]
      BY <1>5, <1>8, OffsetIs
    <3> QED
      BY <3>1
  <2>2. st \in l + 2 .. 2 * l + 1 /\ ~ Up(st)
    BY <1>5, <1>8, StepsAre
  <2>3. Falling(s, f, e, d)
    BY <1>1, <1>2, <1>3, <1>8, <2>1 DEF BlockOK, TreeOK
  <2>4. r.s = DownSweep(s, t, Pow2[e - 1])
    BY <1>2, <1>3, <1>6, <2>1, <2>2 DEF Swept, Block
  <2>5. t \notin d /\ HasPair(t, Pow2[e - 1])
    BY <1>2, <1>3, <2>1
  <2>6. r.s \in [Cells -> Int] /\ Falling(r.s, f, e, d \cup {t})
    <3>1. /\ DownSweep(s, t, Pow2[e - 1]) \in [Cells -> Int]
          /\ Falling(DownSweep(s, t, Pow2[e - 1]), f, e, d \cup {t})
      BY <1>4, <2>3, <2>5, DownKeeps
    <3> QED
      BY <2>4, <3>1
  <2>7. st # 0 /\ st # Clear /\ st # LastStep /\ st > Clear /\ ~ (st > LastStep)
    BY <1>5, <2>2
  <2>8. IsBlock(r)
    BY <1>3, <1>6, <2>6, <2>7 DEF IsBlock
  <2>9. TreeOK(r, f)
    BY <1>6, <2>1, <2>2, <2>6, <2>7 DEF TreeOK
  <2>10. TotalSaved(c, b)
    BY <1>3, <2>7 DEF BlockOK
  <2> QED
    BY <1>1, <1>6, <2>7, <2>8, <2>9, <2>10 DEF BlockOK
<1> QED
  BY <1>3, <1>6, <1>7, <1>8

(* The barrier of a level, with every thread that has a pair there. *)
LEMMA BarrierKeeps ==
  ASSUME NEW c, CallOK(c), NEW b \in Nat, NEW k0, BlockOK(k0, c, b), Up(k0.step) \/ Down(k0.step),
         \A t \in Cells : HasPair(t, Offset(k0.step)) => t \in k0.done
  PROVE  BlockOK(Block(k0.s, k0.step + 1, {}), c, b)
<1>1. PICK f \in [0 .. ScanBlock -> Int] : f = BlockBefore(c, b)
  BY BlockBeforeIs
<1> PICK d : d = k0.done
  OBVIOUS
<1>2. PICK s \in [Cells -> Int] : s = k0.s /\ d = k0.done
  BY DEF BlockOK, IsBlock
<1>3. PICK st \in Nat : st = k0.step /\ st \in 0 .. LastStep + 1
  BY StepsAre DEF BlockOK, IsBlock
<1>4. PICK l \in Nat \ {0} : l = LogBlock /\ Clear = l + 1 /\ LastStep = 2 * l + 2
  BY StepsAre
<1> PICK r : r = Block(k0.s, k0.step + 1, {})
  OBVIOUS
<1>5. /\ r = Block(k0.s, k0.step + 1, {}) /\ r = [s |-> r.s, step |-> r.step, done |-> r.done]
      /\ r.s = s /\ r.step = st + 1 /\ r.done = {}
  BY <1>2, <1>3 DEF Block
<1>6. st + 1 \in Nat
  OBVIOUS
<1>7. CASE Up(st)
  <2>1. st \in 1 .. l /\ Offset(st) = Pow2[st - 1] /\ st \in Nat \ {0}
    BY <1>4, <1>7, StepsAre, OffsetIs
  <2>2. Rising(s, f, st, d)
    BY <1>1, <1>2, <1>3, <1>7 DEF BlockOK, TreeOK
  <2>3. ASSUME NEW u \in Nat, InBlock(u, st) PROVE u \in d
    <3>1. u \in Cells /\ HasPair(u, Offset(st))
      BY <2>1, <2>3, NodeThere, PairOf
    <3> QED
      BY <1>2, <1>3, <3>1
  <2>4. st < l => Rising(s, f, st + 1, {})
    BY <1>4, <2>1, <2>2, <2>3, UpNext
  <2>5. st = l => Reduced(s, f)
    BY <1>4, <2>1, <2>2, <2>3, UpNext
  <2>6. /\ Up(st + 1) <=> st < l
        /\ ~ Down(st + 1)
        /\ st + 1 = Clear <=> st = l
        /\ st + 1 # LastStep /\ ~ (st + 1 > Clear) /\ ~ (st + 1 > LastStep)
        /\ st + 1 \in 0 .. LastStep + 1
    BY <1>4, <1>6, <2>1, StepsAre
  <2>7. IsBlock(r)
    BY <1>5, <2>6 DEF IsBlock
  <2>8. TreeOK(r, f)
    BY <1>5, <2>1, <2>4, <2>5, <2>6 DEF TreeOK
  <2> QED
    BY <1>1, <1>5, <2>6, <2>7, <2>8 DEF BlockOK
<1>8. CASE Down(st)
  <2>1. PICK e \in 1 .. l : e = LastStep - st /\ Offset(st) = Pow2[e - 1]
    <3>1. LastStep - st \in 1 .. l /\ Offset(st) = Pow2[(LastStep - st) - 1]
      BY <1>4, <1>8, OffsetIs
    <3> QED
      BY <3>1
  <2>2. st \in l + 2 .. 2 * l + 1 /\ e \in Nat \ {0}
    BY <1>4, <1>8, StepsAre
  <2>3. Falling(s, f, e, d)
    BY <1>1, <1>2, <1>3, <1>8, <2>1 DEF BlockOK, TreeOK
  <2>4. ASSUME NEW u \in Nat, InBlock(u, e) PROVE u \in d
    <3>1. u \in Cells /\ HasPair(u, Offset(st))
      <4>1. u \in Cells
        BY <2>2, <2>4, NodeThere
      <4>2. HasPair(u, Pow2[e - 1])
        BY <2>2, <2>4, PairOf
      <4> QED
        BY <2>1, <4>1, <4>2
    <3> QED
      BY <1>2, <1>3, <3>1
  <2>5. e # 1 => Falling(s, f, e - 1, {})
    BY <1>4, <2>3, <2>4, DownNext
  <2>6. e = 1 => \A x \in Cells : s[x] = f[x] - f[0]
    BY <1>4, <2>3, <2>4, DownNext
  <2>7. /\ Down(st + 1) <=> e # 1
        /\ ~ Up(st + 1)
        /\ st + 1 = LastStep <=> e = 1
        /\ LastStep - (st + 1) = e - 1
        /\ st + 1 # Clear /\ st > Clear /\ ~ (st + 1 > LastStep)
        /\ st + 1 \in 0 .. LastStep + 1
    BY <1>4, <1>6, <2>1, <2>2, StepsAre
  <2>8. IsBlock(r)
    BY <1>5, <2>7 DEF IsBlock
  <2>9. TreeOK(r, f)
    BY <1>5, <2>5, <2>6, <2>7 DEF TreeOK
  <2>10. TotalSaved(c, b)
    BY <1>3, <2>7 DEF BlockOK
  <2> QED
    BY <1>1, <1>5, <2>7, <2>8, <2>9, <2>10 DEF BlockOK
<1> QED
  BY <1>3, <1>7, <1>8
(* A call that differs in what it has computed. *)
SameArray(c, d) == d.n = c.n /\ d.in = c.in

(* What is before a cell is a matter of the array alone. *)
LEMMA SameBefore ==
  ASSUME NEW c, NEW d, SameArray(c, d)
  PROVE  /\ \A i : Before(d, i) = Before(c, i)
         /\ \A b : BlockBefore(d, b) = BlockBefore(c, b)
BY DEF SameArray, Before, BlockBefore

(* The other blocks do not notice what a block stores. *)
Undisturbed(c, d, b) ==
  /\ d.sums[b] = c.sums[b]
  /\ \A i \in 0 .. c.n - 1 : i \div ScanBlock = b => d.out[i] = c.out[i]

(* What is known of a block that nobody disturbs stays. *)
LEMMA OtherBlocks ==
  ASSUME NEW c, NEW d, SameArray(c, d), NEW b, Undisturbed(c, d, b), NEW k0
  PROVE  /\ BlockOK(k0, c, b) => BlockOK(k0, d, b)
         /\ AddOK(k0, c, b) => AddOK(k0, d, b)
         /\ TotalSaved(c, b) => TotalSaved(d, b)
<1>1. /\ BlockBefore(d, b) = BlockBefore(c, b)
      /\ \A i : Before(d, i) = Before(c, i)
      /\ d.n = c.n
  BY SameBefore DEF SameArray
<1>2. TotalSaved(c, b) => TotalSaved(d, b)
  BY <1>1 DEF TotalSaved, Undisturbed
<1>3. CellsStored(c, b) => CellsStored(d, b)
  BY <1>1 DEF CellsStored, Undisturbed
<1>4. CellsAdded(c, b) => CellsAdded(d, b)
  BY <1>1 DEF CellsAdded, Undisturbed
<1> QED
  BY <1>1, <1>2, <1>3, <1>4 DEF BlockOK, AddOK

(* The total is saved and the root cleared. *)
LEMMA SaveKeeps ==
  ASSUME NEW c, CallOK(c), NEW b \in Nat, NEW k0, BlockOK(k0, c, b), k0.step = Clear,
         NEW d, SameArray(c, d), d.sums[b] = k0.s[ScanBlock - 1]
  PROVE  /\ BlockOK(Block([k0.s EXCEPT ![ScanBlock - 1] = 0], Clear + 1, k0.done), d, b)
         /\ k0.s[ScanBlock - 1] \in Int
<1>1. PICK f \in [0 .. ScanBlock -> Int] : f = BlockBefore(c, b) /\ f = BlockBefore(d, b)
  BY BlockBeforeIs, SameBefore
<1>2. PICK s \in [Cells -> Int] : s = k0.s /\ k0.done = {}
  BY DEF BlockOK, IsBlock
<1>3. Reduced(s, f)
  BY <1>1, <1>2 DEF BlockOK, TreeOK
<1> PICK v : v = [s EXCEPT ![ScanBlock - 1] = 0]
  OBVIOUS
<1>4. v \in [Cells -> Int] /\ Falling(v, f, LogBlock, {})
  BY <1>3, RootCleared
<1> PICK r : r = Block([k0.s EXCEPT ![ScanBlock - 1] = 0], Clear + 1, k0.done)
  OBVIOUS
<1>5. /\ r = [s |-> r.s, step |-> r.step, done |-> r.done]
      /\ r.s = v /\ r.step = Clear + 1 /\ r.done = {}
  BY <1>2 DEF Block
<1>6. PICK l \in Nat \ {0} : l = LogBlock /\ Clear = l + 1 /\ LastStep = 2 * l + 2
  BY StepsAre
<1>7. Clear + 1 \in Nat /\ Clear + 1 = l + 2
  BY <1>6
<1>8. /\ ~ Up(Clear + 1) /\ Clear + 1 # LastStep /\ LastStep - (Clear + 1) = l
      /\ ~ (Clear + 1 > LastStep) /\ Clear + 1 # Clear
      /\ Clear + 1 # 0 /\ Clear + 1 \in 0 .. LastStep + 1
  BY <1>6, <1>7, StepsAre
<1>9. IsBlock(r)
  BY <1>4, <1>5, <1>8 DEF IsBlock
<1>10. TreeOK(r, f)
  BY <1>4, <1>5, <1>6, <1>8 DEF TreeOK
<1>11. TotalSaved(d, b)
  BY <1>1, <1>2, <1>3 DEF Reduced, TotalSaved
<1>12. k0.s[ScanBlock - 1] \in Int
  <2>1. ScanBlock - 1 \in Cells
    BY BlockIs
  <2> QED
    BY <1>2, <2>1
<1> QED
  BY <1>1, <1>5, <1>8, <1>9, <1>10, <1>11, <1>12 DEF BlockOK

(* The cells are stored. *)
LEMMA StoreKeeps ==
  ASSUME NEW c, CallOK(c), NEW b \in Nat, NEW k0, BlockOK(k0, c, b), k0.step = LastStep,
         NEW d, SameArray(c, d), d.sums = c.sums,
         \A i \in 0 .. c.n - 1 : i \div ScanBlock = b => d.out[i] = k0.s[i % ScanBlock]
  PROVE  /\ BlockOK(Block(k0.s, LastStep + 1, k0.done), d, b)
         /\ \A i \in 0 .. c.n - 1 : k0.s[i % ScanBlock] \in Int
<1>1. PICK f \in [0 .. ScanBlock -> Int] : f = BlockBefore(c, b) /\ f = BlockBefore(d, b)
  BY BlockBeforeIs, SameBefore
<1>2. PICK s \in [Cells -> Int] : s = k0.s
  BY DEF BlockOK, IsBlock
<1>3. \A x \in Cells : s[x] = f[x] - f[0]
  BY <1>1, <1>2 DEF BlockOK, TreeOK
<1>4. \A i \in 0 .. c.n - 1 : i % ScanBlock \in Cells
  BY BlocksCover DEF CallOK
<1> PICK r : r = Block(k0.s, LastStep + 1, k0.done)
  OBVIOUS
<1>5. r = [s |-> r.s, step |-> r.step, done |-> r.done] /\ r.s = s /\ r.step = LastStep + 1
  BY <1>2 DEF Block
<1>6. PICK l \in Nat \ {0} : l = LogBlock /\ Clear = l + 1 /\ LastStep = 2 * l + 2
  BY StepsAre
<1>7. LastStep + 1 \in Nat /\ LastStep > Clear
  BY <1>6
<1>8. /\ ~ Up(LastStep + 1) /\ ~ Down(LastStep + 1) /\ LastStep + 1 # Clear
      /\ LastStep + 1 # LastStep /\ LastStep + 1 # 0 /\ LastStep + 1 \in 0 .. LastStep + 1
  BY <1>6, <1>7, StepsAre
<1>9. IsBlock(r)
  BY <1>5, <1>8 DEF IsBlock
<1>10. TreeOK(r, f)
  BY <1>5, <1>8 DEF TreeOK
<1>11. TotalSaved(d, b)
  <2>1. TotalSaved(c, b)
    BY <1>7 DEF BlockOK
  <2> QED
    BY <1>1, <2>1 DEF TotalSaved
<1>12. CellsStored(d, b)
  BY <1>1, <1>2, <1>3, <1>4 DEF CellsStored, SameArray
<1> QED
  BY <1>1, <1>2, <1>4, <1>5, <1>9, <1>10, <1>11, <1>12 DEF BlockOK

(* The second kernel adds what is before the block to its cells. *)
LEMMA AddKeeps ==
  ASSUME NEW c, CallOK(c), NEW b \in 0 .. NumBlocks(c.n) - 1, NEW k0, AddOK(k0, c, b), k0.step = 0,
         NEW o, OffsetsOK(c, o), \A x \in 0 .. NumBlocks(c.n) - 1 : TotalSaved(c, x),
         NEW d, SameArray(c, d),
         \A i \in 0 .. c.n - 1 : i \div ScanBlock = b => d.out[i] = c.out[i] + o[b]
  PROVE  AddOK(Block(k0.s, LastStep + 1, k0.done), d, b) /\ o[b] \in Int
<1>1. b \in Nat /\ b * ScanBlock \in Nat /\ c.n \in Nat \ {0}
  BY BlocksCover, BlockIs DEF CallOK
<1>2. PICK q \in Int : q = Before(c, b * ScanBlock) /\ o[b] = q
  <2>1. o[b] = SumBefore(c.sums, b)
    BY DEF OffsetsOK, IsExclusiveScan
  <2> QED
    BY <1>1, <2>1, SumsOfBlocks, BeforeIs
<1>3. ASSUME NEW i \in 0 .. c.n - 1, i \div ScanBlock = b PROVE d.out[i] = Before(d, i)
  <2>1. c.out[i] = BlockBefore(c, b)[i % ScanBlock] - BlockBefore(c, b)[0]
    BY <1>3 DEF AddOK, CellsStored
  <2>2. i % ScanBlock \in 0 .. ScanBlock /\ i = b * ScanBlock + (i % ScanBlock)
    <3>1. i % ScanBlock \in Cells /\ i = b * ScanBlock + (i % ScanBlock)
      BY <1>1, <1>3, BlocksCover
    <3> QED
      BY <3>1, BlockIs
  <2>3. \A y \in 0 .. ScanBlock : BlockBefore(c, b)[y] = Before(c, b * ScanBlock + y)
    BY <1>1, BlockBeforeIs
  <2>4. BlockBefore(c, b)[i % ScanBlock] = Before(c, i)
    BY <2>2, <2>3
  <2>5. BlockBefore(c, b)[0] = q
    <3>1. BlockBefore(c, b)[0] = Before(c, b * ScanBlock)
      BY <1>1, BlockBeforeIs
    <3> QED
      BY <1>2, <3>1
  <2>6. Before(c, i) \in Int
    BY <1>1, BeforeIs
  <2> QED
    <3>1. d.out[i] = c.out[i] + o[b]
      BY <1>3
    <3>2. Before(d, i) = Before(c, i)
      BY SameBefore
    <3> QED
      BY <1>2, <2>1, <2>4, <2>5, <2>6, <3>1, <3>2
<1>4. CellsAdded(d, b)
  BY <1>3 DEF CellsAdded, SameArray
<1> PICK r : r = Block(k0.s, LastStep + 1, k0.done)
  OBVIOUS
<1>5. r = [s |-> r.s, step |-> r.step, done |-> r.done] /\ r.step = LastStep + 1
  BY DEF Block
<1>6. LastStep + 1 # 0
  BY StepsAre
<1> QED
  BY <1>2, <1>4, <1>5, <1>6 DEF AddOK

-----------------------------------------------------------------------------
(* The calls within each other. *)

(* A sequence with another last element. *)
LEMMA LastChanged ==
  ASSUME NEW S, NEW cs \in Seq(S), NEW l \in Nat \ {0}, l = Len(cs), NEW d,
         NEW ds, ds = [cs EXCEPT ![l] = d]
  PROVE  /\ Len(ds) = l /\ ds[l] = d /\ ds # <<>>
         /\ \A i \in 1 .. l : i # l => ds[i] = cs[i]
<1>1. cs \in [1 .. l -> S]
  OBVIOUS
<1>2. ds \in [1 .. l -> S \cup {d}] /\ ds[l] = d /\ \A i \in 1 .. l : i # l => ds[i] = cs[i]
  BY <1>1
<1>3. PICK T : T = S \cup {d} /\ ds \in [1 .. l -> T]
  BY <1>2
<1>4. ds \in Seq(T)
  BY <1>3, SeqDef
<1>5. Len(ds) = l
  BY <1>3, <1>4, LenProperties
<1>6. ds # <<>>
  BY <1>5
<1> QED
  BY <1>2, <1>5, <1>6

(* The innermost of the calls cs is c, the l-th. *)
Innermost(cs, S, l, c, a, n) == cs \in Seq(S) /\ l = Len(cs) /\ c = cs[l] /\ CallsOK(cs, a, n)
IsInnermost(ds, l, d, a, n)  == CallsOK(ds, a, n) /\ Len(ds) = l /\ ds[l] = d /\ ds # <<>>

(* A kernel stores for it. *)
LEMMA InnermostChanged ==
  ASSUME NEW S, NEW cs, NEW l \in Nat \ {0}, NEW c, NEW a, NEW n, Innermost(cs, S, l, c, a, n),
         NEW d, CallOK(d), SameArray(c, d)
  PROVE  IsInnermost([cs EXCEPT ![l] = d], l, d, a, n)
<1>1. cs \in Seq(S) /\ l = Len(cs) /\ CallsOK(cs, a, n) /\ SameArray(cs[l], d)
  BY DEF Innermost
<1>2. PICK ds : ds = [cs EXCEPT ![l] = d]
  OBVIOUS
<1>3. /\ Len(ds) = l /\ ds[l] = d /\ ds # <<>>
      /\ \A i \in 1 .. l : i # l => ds[i] = cs[i]
  BY <1>1, <1>2, LastChanged
<1>4. \A i \in 1 .. l : CallOK(ds[i])
  BY <1>1, <1>3 DEF CallsOK
<1>5. \A i \in 1 .. l : ds[i].n = cs[i].n /\ ds[i].in = cs[i].in
  BY <1>1, <1>3 DEF SameArray
<1>6. ds[1].in = a /\ ds[1].n = n
  BY <1>1, <1>5 DEF CallsOK
<1>7. ASSUME NEW i \in 1 .. l - 1
      PROVE  CallDone(ds[i]) /\ ds[i + 1].in = ds[i].sums /\ ds[i + 1].n = NumBlocks(ds[i].n)
  <2>1. i \in 1 .. l /\ i # l /\ i + 1 \in 1 .. l
    OBVIOUS
  <2>2. CallDone(cs[i]) /\ cs[i + 1].in = cs[i].sums /\ cs[i + 1].n = NumBlocks(cs[i].n)
    BY <1>1 DEF CallsOK
  <2>3. ds[i] = cs[i]
    BY <1>3, <2>1
  <2> QED
    BY <1>5, <2>1, <2>2, <2>3
<1> QED
  BY <1>2, <1>3, <1>4, <1>6, <1>7 DEF CallsOK, IsInnermost

(* A call with its block sums scans them. *)
LEMMA InnermostPushed ==
  ASSUME NEW S, NEW cs, NEW l \in Nat \ {0}, NEW c, NEW a, NEW n, Innermost(cs, S, l, c, a, n),
         CallDone(c), NEW d, CallOK(d), d.in = c.sums, d.n = NumBlocks(c.n)
  PROVE  IsInnermost(Append(cs, d), l + 1, d, a, n)
<1>1. cs \in Seq(S) /\ l = Len(cs) /\ CallsOK(cs, a, n) /\ c = cs[l]
  BY DEF Innermost
<1>2. PICK ds : ds = Append(cs, d)
  OBVIOUS
<1>3. PICK T : T = S \cup {d} /\ d \in T
  OBVIOUS
<1>4. cs \in Seq(T)
  <2>1. cs \in [1 .. l -> T]
    BY <1>1, <1>3
  <2> QED
    BY <2>1, SeqDef
<1>5. Len(ds) = l + 1 /\ (\A i \in 1 .. l : ds[i] = cs[i]) /\ ds[l + 1] = d
  BY <1>1, <1>2, <1>3, <1>4, AppendProperties
<1>6. \A i \in 1 .. l + 1 : CallOK(ds[i])
  <2>1. \A i \in 1 .. l : CallOK(ds[i])
    BY <1>1, <1>5 DEF CallsOK
  <2> QED
    BY <1>5, <2>1
<1>7. ds[1].in = a /\ ds[1].n = n
  BY <1>1, <1>5 DEF CallsOK
<1>8. ASSUME NEW i \in 1 .. l
      PROVE  CallDone(ds[i]) /\ ds[i + 1].in = ds[i].sums /\ ds[i + 1].n = NumBlocks(ds[i].n)
  <2>1. CASE i = l
    BY <1>1, <1>5, <2>1
  <2>2. CASE i # l
    <3>1. i \in 1 .. Len(cs) - 1 /\ i + 1 \in 1 .. l
      BY <1>1, <2>2
    <3>2. CallDone(cs[i]) /\ cs[i + 1].in = cs[i].sums /\ cs[i + 1].n = NumBlocks(cs[i].n)
      BY <1>1, <3>1 DEF CallsOK
    <3>3. ds[i] = cs[i] /\ ds[i + 1] = cs[i + 1]
      BY <1>5, <3>1
    <3> QED
      BY <3>2, <3>3
  <2> QED
    BY <2>1, <2>2
<1>9. (l + 1) - 1 = l
  OBVIOUS
<1> QED
  <2>1. CallsOK(ds, a, n)
    BY <1>5, <1>6, <1>7, <1>8, <1>9 DEF CallsOK
  <2>2. ds # <<>>
    BY <1>5
  <2> QED
    BY <1>2, <1>5, <2>1, <2>2 DEF IsInnermost

(* The innermost call returns to the one that scans its block sums. *)
Popped(ds, c, a, n) ==
  /\ ds = <<>> => c.in = a /\ c.n = n
  /\ ds # <<>> => /\ CallsOK(ds, a, n) /\ CallDone(ds[Len(ds)]) /\ CallOK(ds[Len(ds)])
                  /\ c.in = ds[Len(ds)].sums /\ c.n = NumBlocks(ds[Len(ds)].n)

(* What is left of the calls, and what the one that returns has scanned. *)
LEMMA InnermostPopped ==
  ASSUME NEW S, NEW cs, NEW l \in Nat \ {0}, NEW c, NEW a, NEW n, Innermost(cs, S, l, c, a, n)
  PROVE  Popped(SubSeq(cs, 1, l - 1), c, a, n)
<1>1. cs \in Seq(S) /\ l = Len(cs) /\ CallsOK(cs, a, n) /\ c = cs[l]
  BY DEF Innermost
<1>2. PICK ds : ds = SubSeq(cs, 1, l - 1)
  OBVIOUS
<1>3. /\ Len(ds) = l - 1 /\ \A i \in 1 .. l - 1 : ds[i] = cs[i]
      /\ ds \in Seq(S)
  <2>1. PICK m \in Nat : m = l - 1
    OBVIOUS
  <2>2. \A i \in 1 .. m : cs[i] \in S
    BY <1>1, <2>1
  <2>3. ds = SubSeq(cs, 1, m) /\ 1 \in Int /\ m \in Int
    BY <1>2, <2>1
  <2>4. /\ ds \in Seq(S) /\ Len(ds) = IF 1 <= m THEN m - 1 + 1 ELSE 0
        /\ \A i \in 1 .. m - 1 + 1 : ds[i] = cs[1 + i - 1]
    BY <2>2, <2>3, SubSeqProperties
  <2>5. Len(ds) = m
    BY <2>4
  <2>6. m - 1 + 1 = m /\ \A i \in 1 .. m : 1 + i - 1 = i
    OBVIOUS
  <2>7. \A i \in 1 .. m : ds[i] = cs[i]
    BY <2>4, <2>6
  <2> QED
    BY <2>1, <2>4, <2>5, <2>7
<1>4. ASSUME ds = <<>> PROVE cs[l].in = a /\ cs[l].n = n
  <2>1. l = 1
    <3>1. PICK h \in Int : h = l - 1 /\ l = h + 1
      OBVIOUS
    <3>2. Len(ds) = h /\ Len(ds) = 0
      BY <1>3, <1>4, <3>1
    <3> QED
      BY <3>1, <3>2
  <2> QED
    BY <1>1, <2>1 DEF CallsOK
<1>5. ASSUME ds # <<>>
      PROVE  /\ CallsOK(ds, a, n) /\ CallDone(ds[Len(ds)]) /\ CallOK(ds[Len(ds)])
             /\ cs[l].in = ds[Len(ds)].sums /\ cs[l].n = NumBlocks(ds[Len(ds)].n)
  <2>1. PICK h \in Nat \ {0} : h = l - 1 /\ l = h + 1
    <3>1. l # 1
      <4>1. SUFFICES ASSUME l = 1 PROVE FALSE
        OBVIOUS
      <4>2. ds \in Seq(S) /\ Len(ds) = 0
        BY <1>3, <4>1
      <4> QED
        BY <1>5, <4>2, EmptySeq
    <3>2. l - 1 \in Nat \ {0} /\ l = (l - 1) + 1
      BY <3>1
    <3> QED
      BY <3>2
  <2>2. \A i \in 1 .. h : ds[i] = cs[i] /\ CallOK(ds[i])
    BY <1>1, <1>3, <2>1 DEF CallsOK
  <2>3. CallDone(ds[h]) /\ cs[l].in = ds[h].sums /\ cs[l].n = NumBlocks(ds[h].n)
    <3>1. h \in 1 .. Len(cs) - 1 /\ h \in 1 .. h
      BY <1>1, <2>1
    <3> QED
      BY <1>1, <2>1, <2>2, <3>1 DEF CallsOK
  <2>4. ds[1].in = a /\ ds[1].n = n
    BY <1>1, <2>1, <2>2 DEF CallsOK
  <2>5. ASSUME NEW i \in 1 .. h - 1
        PROVE  CallDone(ds[i]) /\ ds[i + 1].in = ds[i].sums /\ ds[i + 1].n = NumBlocks(ds[i].n)
    <3>1. i \in 1 .. h /\ i + 1 \in 1 .. h /\ i \in 1 .. Len(cs) - 1
      BY <1>1, <2>1
    <3>2. CallDone(cs[i]) /\ cs[i + 1].in = cs[i].sums /\ cs[i + 1].n = NumBlocks(cs[i].n)
      BY <1>1, <3>1 DEF CallsOK
    <3>3. ds[i] = cs[i] /\ ds[i + 1] = cs[i + 1]
      BY <2>2, <3>1
    <3> QED
      BY <3>2, <3>3
  <2>6. CallsOK(ds, a, n)
    BY <1>3, <2>1, <2>2, <2>4, <2>5 DEF CallsOK
  <2>7. Len(ds) = h /\ CallOK(ds[h])
    BY <1>3, <2>1, <2>2
  <2> QED
    BY <2>3, <2>6, <2>7
<1> QED
  BY <1>1, <1>2, <1>4, <1>5 DEF Popped

(* A block of the first kernel goes on, and the others do not notice. *)
LEMMA BlockMoves ==
  ASSUME NEW c, NEW bk, NEW o, KernelOK("scan", bk, c, o), NEW d, SameArray(c, d),
         NEW b \in DOMAIN bk, NEW r, BlockOK(r, d, b),
         NEW bk2, DOMAIN bk2 = DOMAIN bk, bk2[b] = r,
         \A x \in DOMAIN bk : x # b => bk2[x] = bk[x] /\ Undisturbed(c, d, x)
  PROVE  KernelOK("scan", bk2, d, o)
<1>1. \A x \in DOMAIN bk : BlockOK(bk[x], c, x)
  BY DEF KernelOK
<1>2. ASSUME NEW x \in DOMAIN bk PROVE BlockOK(bk2[x], d, x)
  <2>1. CASE x = b
    BY <2>1
  <2>2. CASE x # b
    BY <1>1, <2>2, OtherBlocks
  <2> QED
    BY <2>1, <2>2
<1>3. DOMAIN bk2 = 0 .. NumBlocks(d.n) - 1
  BY DEF KernelOK, SameArray
<1> QED
  BY <1>2, <1>3 DEF KernelOK

(* The same for the second kernel. *)
LEMMA AddMoves ==
  ASSUME NEW c, NEW bk, NEW o, KernelOK("add", bk, c, o), NEW d, SameArray(c, d), d.sums = c.sums,
         NEW b \in DOMAIN bk, NEW r, AddOK(r, d, b),
         NEW bk2, DOMAIN bk2 = DOMAIN bk, bk2[b] = r,
         \A x \in DOMAIN bk : x # b => bk2[x] = bk[x] /\ Undisturbed(c, d, x)
  PROVE  KernelOK("add", bk2, d, o)
<1>1. \A x \in DOMAIN bk : TotalSaved(c, x) /\ AddOK(bk[x], c, x)
  BY DEF KernelOK
<1>2. ASSUME NEW x \in DOMAIN bk PROVE TotalSaved(d, x) /\ AddOK(bk2[x], d, x)
  <2>1. TotalSaved(d, x)
    BY <1>1, SameBefore DEF TotalSaved
  <2>2. CASE x = b
    BY <2>1, <2>2
  <2>3. CASE x # b
    BY <1>1, <2>1, <2>3, OtherBlocks
  <2> QED
    BY <2>2, <2>3
<1>3. DOMAIN bk2 = 0 .. NumBlocks(d.n) - 1 /\ OffsetsOK(d, o)
  BY DEF KernelOK, SameArray, OffsetsOK
<1> QED
  BY <1>2, <1>3 DEF KernelOK

-----------------------------------------------------------------------------
(* The steps of the scan of an array of any length, one by one: those within
   the memory of a block, those that store for the call, those of the host. *)

(* What the scan of a, which has n cells, has done: the state of its calls and
   of the kernel that runs, or what the outermost call has returned. *)
ScanState(cs, kn, bk, o, a, n) ==
  IF cs # <<>> THEN CallsOK(cs, a, n) /\ KernelOK(kn, bk, cs[Len(cs)], o)
               ELSE IsExclusiveScan(a, o)

Midway(a, n) ==
  /\ calls # <<>>
  /\ calls \in Seq(Range(calls))
  /\ ScanState(calls, kernel, blk, offsets, a, n)

AfterStep(a, n) == ScanState(calls', kernel', blk', offsets', a, n)

(* The innermost call. *)
LEMMA TopIs ==
  ASSUME NEW a, NEW n, Midway(a, n)
  PROVE  \E l \in Nat \ {0} :
           /\ l = Len(calls) /\ calls \in [1 .. l -> Range(calls)]
           /\ Top = calls[l] /\ CallOK(Top)
           /\ CallsOK(calls, a, n) /\ KernelOK(kernel, blk, Top, offsets)
<1>1. PICK S : S = Range(calls) /\ calls \in Seq(S)
  BY DEF Midway
<1>2. PICK l \in Nat \ {0} : l = Len(calls) /\ calls \in [1 .. l -> S]
  BY <1>1 DEF Midway
<1>3. CallsOK(calls, a, n) /\ KernelOK(kernel, blk, Top, offsets)
  BY DEF Midway, ScanState, Top
<1>4. CallOK(Top)
  BY <1>2, <1>3 DEF CallsOK, Top
<1> QED
  BY <1>1, <1>2, <1>3, <1>4 DEF Top

(* A step of a block of the first kernel within its own memory. *)
LEMMA BlockSteps ==
  ASSUME NEW a, NEW n, Midway(a, n), kernel = "scan", NEW b \in DOMAIN blk,
         NEW r, BlockOK(r, Top, b), UNCHANGED <<calls, kernel, offsets>>,
         DOMAIN blk' = DOMAIN blk, blk'[b] = r, \A x \in DOMAIN blk : x # b => blk'[x] = blk[x]
  PROVE  AfterStep(a, n)
<1>1. PICK c, bk, bk2, o : c = Top /\ bk = blk /\ bk2 = blk' /\ o = offsets
  OBVIOUS
<1>2. CallsOK(calls, a, n) /\ KernelOK("scan", bk, c, o)
  BY <1>1, TopIs
<1>3. SameArray(c, c) /\ \A x : Undisturbed(c, c, x)
  BY DEF SameArray, Undisturbed
<1>4. /\ b \in DOMAIN bk /\ BlockOK(r, c, b) /\ DOMAIN bk2 = DOMAIN bk /\ bk2[b] = r
      /\ \A x \in DOMAIN bk : x # b => bk2[x] = bk[x] /\ Undisturbed(c, c, x)
  BY <1>1, <1>3
<1>5. KernelOK("scan", bk2, c, o)
  BY <1>2, <1>3, <1>4, BlockMoves
<1> QED
  BY <1>1, <1>2, <1>5 DEF AfterStep, ScanState, Midway, Top

(* What is known of a block of the first kernel. *)
LEMMA BlockHas ==
  ASSUME NEW a, NEW n, Midway(a, n), kernel = "scan", NEW b \in DOMAIN blk
  PROVE  /\ b \in Nat /\ CallOK(Top) /\ BlockOK(blk[b], Top, b)
         /\ blk[b] = Block(blk[b].s, blk[b].step, blk[b].done)
<1>1. CallOK(Top) /\ KernelOK("scan", blk, Top, offsets)
  BY TopIs
<1>2. BlockOK(blk[b], Top, b) /\ b \in 0 .. NumBlocks(Top.n) - 1
  BY <1>1 DEF KernelOK
<1>3. NumBlocks(Top.n) \in Nat
  BY <1>1, BlocksCover DEF CallOK
<1>4. b \in Nat
  BY <1>2, <1>3
<1> QED
  BY <1>1, <1>2, <1>4 DEF BlockOK, IsBlock, Block

(* Two fields of a block are new, and nothing else. *)
Replaced(bk2, bk, b, r) ==
  DOMAIN bk2 = DOMAIN bk /\ bk2[b] = r /\ \A x \in DOMAIN bk : x # b => bk2[x] = bk[x]

(* The fields that LoadCells, SweepThread, Barrier and the others set. *)
LEMMA BlockChanged ==
  ASSUME NEW bk, NEW b \in DOMAIN bk, bk[b] = Block(bk[b].s, bk[b].step, bk[b].done),
         NEW v, NEW w, NEW q
  PROVE  /\ Replaced([bk EXCEPT ![b].step = w, ![b].s = v], bk, b, Block(v, w, bk[b].done))
         /\ Replaced([bk EXCEPT ![b].done = q, ![b].s = v], bk, b, Block(v, bk[b].step, q))
         /\ Replaced([bk EXCEPT ![b].step = w, ![b].done = q], bk, b, Block(bk[b].s, w, q))
         /\ Replaced([bk EXCEPT ![b].step = w], bk, b, Block(bk[b].s, w, bk[b].done))
<1>1. PICK k0 : k0 = bk[b] /\ k0 = [s |-> k0.s, step |-> k0.step, done |-> k0.done]
  BY DEF Block
<1>2. Replaced([bk EXCEPT ![b].step = w, ![b].s = v], bk, b, Block(v, w, k0.done))
  BY <1>1 DEF Block, Replaced
<1>3. Replaced([bk EXCEPT ![b].done = q, ![b].s = v], bk, b, Block(v, k0.step, q))
  BY <1>1 DEF Block, Replaced
<1>4. Replaced([bk EXCEPT ![b].step = w, ![b].done = q], bk, b, Block(k0.s, w, q))
  BY <1>1 DEF Block, Replaced
<1>5. Replaced([bk EXCEPT ![b].step = w], bk, b, Block(k0.s, w, k0.done))
  BY <1>1 DEF Block, Replaced
<1> QED
  BY <1>1, <1>2, <1>3, <1>4, <1>5

(* LoadCells keeps it. *)
LEMMA LoadStep ==
  ASSUME NEW a, NEW n, Midway(a, n), NEW b \in DOMAIN blk, LoadCells(b)
  PROVE  AfterStep(a, n)
<1>1. /\ kernel = "scan" /\ blk[b].step = 0 /\ UNCHANGED <<calls, kernel, offsets>>
      /\ blk' = [blk EXCEPT ![b].step = 1, ![b].s = Loaded(Top, b)]
  BY DEF LoadCells, Loaded
<1>2. PICK k0, bk, f : k0 = blk[b] /\ bk = blk /\ f = Loaded(Top, b)
  OBVIOUS
<1>3. k0 = [s |-> k0.s, step |-> k0.step, done |-> k0.done]
  BY <1>1, <1>2, BlockHas DEF Block
<1>4. PICK r : r = Block(f, 1, k0.done)
  OBVIOUS
<1>5. Replaced(blk', bk, b, r)
  <2>1. k0 = Block(k0.s, k0.step, k0.done)
    BY <1>3 DEF Block
  <2>2. Replaced([bk EXCEPT ![b].step = 1, ![b].s = f], bk, b, r)
    BY <1>2, <1>4, <2>1, BlockChanged
  <2> QED
    BY <1>1, <1>2, <2>2
<1>6. BlockOK(r, Top, b)
  <2>1. PICK c : c = Top
    OBVIOUS
  <2>2. CallOK(c) /\ b \in Nat /\ BlockOK(k0, c, b) /\ k0.step = 0
    BY <1>1, <1>2, <2>1, BlockHas
  <2>3. BlockOK(Block(Loaded(c, b), 1, k0.done), c, b)
    BY <2>2, LoadKeeps
  <2> QED
    BY <1>2, <1>4, <2>1, <2>3
<1>7. DOMAIN blk' = DOMAIN blk /\ blk'[b] = r /\ \A x \in DOMAIN blk : x # b => blk'[x] = blk[x]
  BY <1>2, <1>5 DEF Replaced
<1> QED
  BY <1>1, <1>6, <1>7, BlockSteps

(* SweepThread keeps it. *)
LEMMA SweepStep ==
  ASSUME NEW a, NEW n, Midway(a, n), NEW b \in DOMAIN blk, NEW t \in Cells, SweepThread(b, t)
  PROVE  AfterStep(a, n)
<1>1. PICK k0, bk : k0 = blk[b] /\ bk = blk
  OBVIOUS
<1>2. /\ kernel = "scan" /\ UNCHANGED <<calls, kernel, offsets>>
      /\ Up(k0.step) \/ Down(k0.step)
      /\ HasPair(t, Offset(k0.step)) /\ t \notin k0.done
  BY <1>1 DEF SweepThread
<1>3. k0 = [s |-> k0.s, step |-> k0.step, done |-> k0.done]
  BY <1>2, <1>1, BlockHas DEF Block
<1>4. PICK r : r = Swept(k0, t)
  OBVIOUS
<1>5. Replaced(blk', bk, b, r)
  <2>1. PICK v : v = IF Up(k0.step) THEN UpSweep(k0.s, t, Offset(k0.step))
                                    ELSE DownSweep(k0.s, t, Offset(k0.step))
    OBVIOUS
  <2>2. blk' = [bk EXCEPT ![b].done = k0.done \cup {t}, ![b].s = v]
    BY <1>1, <1>3, <2>1 DEF SweepThread
  <2>3. r = Block(v, k0.step, k0.done \cup {t}) /\ k0 = Block(k0.s, k0.step, k0.done)
    BY <1>3, <1>4, <2>1 DEF Swept, Block
  <2>4. PICK q : q = k0.done \cup {t}
    OBVIOUS
  <2>5. Replaced([bk EXCEPT ![b].done = q, ![b].s = v], bk, b, Block(v, k0.step, q))
    BY <1>1, <2>3, BlockChanged
  <2> QED
    BY <1>1, <2>2, <2>3, <2>4, <2>5
<1>6. BlockOK(r, Top, b)
  <2>1. PICK c : c = Top
    OBVIOUS
  <2>2. CallOK(c) /\ b \in Nat /\ BlockOK(k0, c, b)
    BY <1>2, <1>1, <2>1, BlockHas
  <2>3. BlockOK(Swept(k0, t), c, b)
    BY <1>2, <2>2, SweepKeeps
  <2> QED
    BY <1>4, <2>1, <2>3
<1>7. DOMAIN blk' = DOMAIN blk /\ blk'[b] = r /\ \A x \in DOMAIN blk : x # b => blk'[x] = blk[x]
  BY <1>1, <1>5 DEF Replaced
<1> QED
  BY <1>2, <1>6, <1>7, BlockSteps

(* Barrier keeps it. *)
LEMMA BarrierStep ==
  ASSUME NEW a, NEW n, Midway(a, n), NEW b \in DOMAIN blk, Barrier(b)
  PROVE  AfterStep(a, n)
<1>1. PICK k0, bk : k0 = blk[b] /\ bk = blk
  OBVIOUS
<1>2. /\ kernel = "scan" /\ UNCHANGED <<calls, kernel, offsets>>
      /\ Up(k0.step) \/ Down(k0.step)
      /\ \A t \in Cells : HasPair(t, Offset(k0.step)) => t \in k0.done
      /\ blk' = [bk EXCEPT ![b].step = @ + 1, ![b].done = {}]
  BY <1>1 DEF Barrier, AllThere
<1>3. k0 = [s |-> k0.s, step |-> k0.step, done |-> k0.done]
  BY <1>2, <1>1, BlockHas DEF Block
<1>4. PICK r : r = Block(k0.s, k0.step + 1, {})
  OBVIOUS
<1>5. Replaced(blk', bk, b, r)
  <2>1. k0 = Block(k0.s, k0.step, k0.done)
    BY <1>3 DEF Block
  <2>2. PICK w : w = k0.step + 1
    OBVIOUS
  <2>3. Replaced([bk EXCEPT ![b].step = w, ![b].done = {}], bk, b, Block(k0.s, w, {}))
    BY <1>1, <2>1, BlockChanged
  <2>4. blk' = [bk EXCEPT ![b].step = w, ![b].done = {}]
    BY <1>2, <1>1, <2>2
  <2> QED
    BY <1>4, <2>2, <2>3, <2>4
<1>6. BlockOK(r, Top, b)
  <2>1. PICK c : c = Top
    OBVIOUS
  <2>2. CallOK(c) /\ b \in Nat /\ BlockOK(k0, c, b)
    BY <1>2, <1>1, <2>1, BlockHas
  <2>3. BlockOK(Block(k0.s, k0.step + 1, {}), c, b)
    BY <1>2, <2>2, BarrierKeeps
  <2> QED
    BY <1>4, <2>1, <2>3
<1>7. DOMAIN blk' = DOMAIN blk /\ blk'[b] = r /\ \A x \in DOMAIN blk : x # b => blk'[x] = blk[x]
  BY <1>1, <1>5 DEF Replaced
<1> QED
  BY <1>2, <1>6, <1>7, BlockSteps

(* What a block may change in the innermost call. *)
StoresFor(c, d, b) ==
  /\ CallOK(d)
  /\ SameArray(c, d)
  /\ \A x \in 0 .. NumBlocks(c.n) - 1 : x # b => Undisturbed(c, d, x)

(* A step of a block of the first kernel that stores for the call. *)
LEMMA CallSteps ==
  ASSUME NEW a, NEW n, Midway(a, n), kernel = "scan", NEW b \in DOMAIN blk,
         NEW r, NEW d, StoresFor(Top, d, b), BlockOK(r, d, b), UNCHANGED <<kernel, offsets>>,
         calls' = [calls EXCEPT ![Len(calls)] = d], Replaced(blk', blk, b, r)
  PROVE  AfterStep(a, n)
<1>1. PICK c, bk, bk2, o : c = Top /\ bk = blk /\ bk2 = blk' /\ o = offsets
  OBVIOUS
<1>2. PICK S, cs, ds : S = Range(calls) /\ cs = calls /\ ds = calls' /\ cs \in Seq(S)
  BY DEF Midway
<1>3. PICK l \in Nat \ {0} : l = Len(cs) /\ c = cs[l]
  BY <1>1, <1>2, TopIs
<1>4. CallsOK(cs, a, n) /\ KernelOK("scan", bk, c, o)
  BY <1>1, <1>2, TopIs
<1>5. CallOK(d) /\ SameArray(c, d) /\ ds = [cs EXCEPT ![l] = d]
  BY <1>1, <1>2, <1>3 DEF StoresFor
<1>6. CallsOK(ds, a, n) /\ Len(ds) = l /\ ds[l] = d /\ ds # <<>>
  <2>1. Innermost(cs, S, l, c, a, n)
    BY <1>2, <1>3, <1>4 DEF Innermost
  <2>2. CallOK(d) /\ SameArray(c, d)
    BY <1>5
  <2>3. IsInnermost([cs EXCEPT ![l] = d], l, d, a, n)
    BY <2>1, <2>2, InnermostChanged
  <2> QED
    BY <1>5, <2>3 DEF IsInnermost
<1>7. DOMAIN bk = 0 .. NumBlocks(c.n) - 1
  BY <1>4 DEF KernelOK
<1>8. /\ b \in DOMAIN bk /\ BlockOK(r, d, b) /\ DOMAIN bk2 = DOMAIN bk /\ bk2[b] = r
      /\ \A x \in DOMAIN bk : x # b => bk2[x] = bk[x] /\ Undisturbed(c, d, x)
  BY <1>1, <1>7 DEF Replaced, StoresFor
<1>9. KernelOK("scan", bk2, d, o)
  BY <1>4, <1>5, <1>8, BlockMoves
<1> QED
  BY <1>1, <1>2, <1>6, <1>9 DEF AfterStep, ScanState

(* The same for the second kernel. *)
LEMMA AddCallSteps ==
  ASSUME NEW a, NEW n, Midway(a, n), kernel = "add", NEW b \in DOMAIN blk,
         NEW r, NEW d, StoresFor(Top, d, b), d.sums = Top.sums, AddOK(r, d, b),
         UNCHANGED <<kernel, offsets>>,
         calls' = [calls EXCEPT ![Len(calls)] = d], Replaced(blk', blk, b, r)
  PROVE  AfterStep(a, n)
<1>1. PICK c, bk, bk2, o : c = Top /\ bk = blk /\ bk2 = blk' /\ o = offsets
  OBVIOUS
<1>2. PICK S, cs, ds : S = Range(calls) /\ cs = calls /\ ds = calls' /\ cs \in Seq(S)
  BY DEF Midway
<1>3. PICK l \in Nat \ {0} : l = Len(cs) /\ c = cs[l]
  BY <1>1, <1>2, TopIs
<1>4. CallsOK(cs, a, n) /\ KernelOK("add", bk, c, o)
  BY <1>1, <1>2, TopIs
<1>5. CallOK(d) /\ SameArray(c, d) /\ ds = [cs EXCEPT ![l] = d] /\ d.sums = c.sums
  BY <1>1, <1>2, <1>3 DEF StoresFor
<1>6. CallsOK(ds, a, n) /\ Len(ds) = l /\ ds[l] = d /\ ds # <<>>
  <2>1. Innermost(cs, S, l, c, a, n)
    BY <1>2, <1>3, <1>4 DEF Innermost
  <2>2. CallOK(d) /\ SameArray(c, d)
    BY <1>5
  <2>3. IsInnermost([cs EXCEPT ![l] = d], l, d, a, n)
    BY <2>1, <2>2, InnermostChanged
  <2> QED
    BY <1>5, <2>3 DEF IsInnermost
<1>7. DOMAIN bk = 0 .. NumBlocks(c.n) - 1
  BY <1>4 DEF KernelOK
<1>8. /\ b \in DOMAIN bk /\ AddOK(r, d, b) /\ DOMAIN bk2 = DOMAIN bk /\ bk2[b] = r
      /\ \A x \in DOMAIN bk : x # b => bk2[x] = bk[x] /\ Undisturbed(c, d, x)
  BY <1>1, <1>7 DEF Replaced, StoresFor
<1>9. KernelOK("add", bk2, d, o)
  BY <1>4, <1>5, <1>8, AddMoves
<1> QED
  BY <1>1, <1>2, <1>6, <1>9 DEF AfterStep, ScanState

(* The block sums of a call with another value for block b. *)
LEMMA SumStored ==
  ASSUME NEW c, CallOK(c), NEW b \in 0 .. NumBlocks(c.n) - 1, NEW v \in Int,
         NEW d, d = [c EXCEPT !.sums = [c.sums EXCEPT ![b] = v]]
  PROVE  StoresFor(c, d, b) /\ d.sums[b] = v
<1>1. PICK e : e = [c.sums EXCEPT ![b] = v] /\ d = [c EXCEPT !.sums = e]
  OBVIOUS
<1>2. /\ e \in [0 .. NumBlocks(c.n) - 1 -> Int] /\ e[b] = v
      /\ \A x \in 0 .. NumBlocks(c.n) - 1 : x # b => e[x] = c.sums[x]
  BY <1>1 DEF CallOK
<1>3. d = [n |-> c.n, in |-> c.in, out |-> c.out, sums |-> e]
  BY <1>1 DEF CallOK
<1>4. d.n = c.n /\ d.in = c.in /\ d.out = c.out /\ d.sums = e
  BY <1>3
<1>5. CallOK(d)
  <2>1. d = [n |-> d.n, in |-> d.in, out |-> d.out, sums |-> d.sums]
    BY <1>3, <1>4
  <2> QED
    BY <1>2, <1>4, <2>1 DEF CallOK
<1> QED
  BY <1>2, <1>4, <1>5 DEF StoresFor, SameArray, Undisturbed

(* The call d differs from c in the cells of block b. *)
CellsNew(c, d, b, e) ==
  /\ e \in [0 .. c.n - 1 -> Int]
  /\ \A i \in 0 .. c.n - 1 : i \div ScanBlock # b => e[i] = c.out[i]
  /\ d = [n |-> c.n, in |-> c.in, out |-> e, sums |-> c.sums]

(* Nothing but its own cells is stored for the block. *)
LEMMA CellsStoredIs ==
  ASSUME NEW c, CallOK(c), NEW d, NEW b, NEW e, CellsNew(c, d, b, e)
  PROVE  StoresFor(c, d, b) /\ d.sums = c.sums /\ d.out = e
<1>1. d = [n |-> c.n, in |-> c.in, out |-> e, sums |-> c.sums]
  BY DEF CellsNew
<1>2. d.n = c.n /\ d.in = c.in /\ d.out = e /\ d.sums = c.sums
  BY <1>1
<1>3. CallOK(d)
  <2>1. d = [n |-> d.n, in |-> d.in, out |-> d.out, sums |-> d.sums]
    BY <1>1, <1>2
  <2> QED
    BY <1>2, <2>1 DEF CallOK, CellsNew
<1>4. \A x : x # b => Undisturbed(c, d, x)
  BY <1>2 DEF Undisturbed, CellsNew
<1> QED
  BY <1>2, <1>3, <1>4 DEF StoresFor, SameArray

(* Thread 0 of a block saves the total. *)
LEMMA SaveStep ==
  ASSUME NEW a, NEW n, Midway(a, n), NEW b \in DOMAIN blk, SaveTotal(b)
  PROVE  AfterStep(a, n)
<1>1. PICK k0, bk, c, p : k0 = blk[b] /\ bk = blk /\ c = Top /\ p = ScanBlock - 1
  OBVIOUS
<1>2. /\ kernel = "scan" /\ k0.step = Clear /\ UNCHANGED <<kernel, offsets>>
      /\ calls' = [calls EXCEPT ![Len(calls)].sums[b] = k0.s[p]]
      /\ blk' = [bk EXCEPT ![b].step = @ + 1, ![b].s[p] = 0]
  BY <1>1 DEF SaveTotal
<1>3. /\ b \in Nat /\ CallOK(c) /\ BlockOK(k0, c, b)
      /\ k0 = Block(k0.s, k0.step, k0.done)
  BY <1>1, <1>2, BlockHas
<1>4. b \in 0 .. NumBlocks(c.n) - 1
  BY <1>1, <1>2, TopIs DEF KernelOK
<1>5. PICK v \in Int : v = k0.s[p]
  <2>1. p \in Cells
    BY <1>1, BlockIs
  <2> QED
    BY <1>3, <2>1 DEF BlockOK, IsBlock
<1>6. PICK d : d = [c EXCEPT !.sums = [c.sums EXCEPT ![b] = v]]
  OBVIOUS
<1>7. StoresFor(c, d, b) /\ d.sums[b] = v
  BY <1>3, <1>4, <1>6, SumStored
<1>8. calls' = [calls EXCEPT ![Len(calls)] = d]
  BY <1>1, <1>2, <1>5, <1>6 DEF Top
<1>9. PICK e, r : e = [k0.s EXCEPT ![p] = 0] /\ r = Block(e, Clear + 1, k0.done)
  OBVIOUS
<1>10. Replaced(blk', bk, b, r)
  <2>1. PICK w : w = Clear + 1
    OBVIOUS
  <2>2. Replaced([bk EXCEPT ![b].step = w, ![b].s = e], bk, b, Block(e, w, k0.done))
    BY <1>1, <1>3, BlockChanged
  <2>3. blk' = [bk EXCEPT ![b].step = w, ![b].s = e]
    BY <1>1, <1>2, <1>3, <1>9, <2>1
  <2> QED
    BY <1>9, <2>1, <2>2, <2>3
<1>11. BlockOK(r, d, b)
  <2>1. SameArray(c, d) /\ d.sums[b] = k0.s[ScanBlock - 1]
    BY <1>1, <1>5, <1>7 DEF StoresFor
  <2>2. BlockOK(Block([k0.s EXCEPT ![ScanBlock - 1] = 0], Clear + 1, k0.done), d, b)
    BY <1>2, <1>3, <2>1, SaveKeeps
  <2> QED
    BY <1>1, <1>9, <2>2
<1> QED
  BY <1>1, <1>2, <1>7, <1>8, <1>10, <1>11, CallSteps

(* Each thread of a block stores its cell. *)
LEMMA StoreStep ==
  ASSUME NEW a, NEW n, Midway(a, n), NEW b \in DOMAIN blk, StoreCells(b)
  PROVE  AfterStep(a, n)
<1>1. PICK k0, bk, c : k0 = blk[b] /\ bk = blk /\ c = Top
  OBVIOUS
<1>2. PICK e : e = [i \in DOMAIN c.out |->
                      IF i \in OwnCells(b) THEN k0.s[i % ScanBlock] ELSE c.out[i]]
  OBVIOUS
<1>3. PICK d : d = [c EXCEPT !.out = e]
  OBVIOUS
<1>4. /\ kernel = "scan" /\ k0.step = LastStep /\ UNCHANGED <<kernel, offsets>>
      /\ calls' = [calls EXCEPT ![Len(calls)] = d]
      /\ blk' = [bk EXCEPT ![b].step = @ + 1]
  BY <1>1, <1>2, <1>3 DEF StoreCells, Top
<1>5. /\ b \in Nat /\ CallOK(c) /\ BlockOK(k0, c, b)
      /\ k0 = Block(k0.s, k0.step, k0.done)
  BY <1>1, <1>4, BlockHas
<1>6. DOMAIN c.out = 0 .. c.n - 1 /\ c.n \in Nat \ {0} /\ c.out \in [0 .. c.n - 1 -> Int]
  BY <1>5 DEF CallOK
<1>7. \A i \in 0 .. c.n - 1 :
        e[i] = IF i \div ScanBlock = b THEN k0.s[i % ScanBlock] ELSE c.out[i]
  BY <1>1, <1>2, <1>6 DEF OwnCells
<1>8. e \in [0 .. c.n - 1 -> Int]
  <2>1. \A i \in 0 .. c.n - 1 : e[i] \in Int
    <3>1. \A i \in 0 .. c.n - 1 : i % ScanBlock \in Cells
      BY <1>6, BlocksCover
    <3>2. k0.s \in [Cells -> Int]
      BY <1>5 DEF BlockOK, IsBlock
    <3> QED
      BY <1>6, <1>7, <3>1, <3>2
  <2>2. e = [i \in 0 .. c.n - 1 |-> e[i]]
    BY <1>2, <1>6
  <2> QED
    BY <2>1, <2>2
<1>9. StoresFor(c, d, b) /\ d.sums = c.sums /\ d.out = e
  <2>1. d = [n |-> c.n, in |-> c.in, out |-> e, sums |-> c.sums]
    BY <1>3, <1>5 DEF CallOK
  <2>2. CellsNew(c, d, b, e)
    BY <1>7, <1>8, <2>1 DEF CellsNew
  <2> QED
    BY <1>5, <2>2, CellsStoredIs
<1>10. PICK r : r = Block(k0.s, LastStep + 1, k0.done)
  OBVIOUS
<1>11. Replaced(blk', bk, b, r)
  <2>1. PICK w : w = LastStep + 1
    OBVIOUS
  <2>2. Replaced([bk EXCEPT ![b].step = w], bk, b, Block(k0.s, w, k0.done))
    BY <1>1, <1>5, BlockChanged
  <2>3. blk' = [bk EXCEPT ![b].step = w]
    BY <1>1, <1>4, <2>1
  <2> QED
    BY <1>10, <2>1, <2>2, <2>3
<1>12. BlockOK(r, d, b)
  <2>1. SameArray(c, d) /\ \A i \in 0 .. c.n - 1 : i \div ScanBlock = b => d.out[i] = k0.s[i % ScanBlock]
    BY <1>7, <1>9 DEF StoresFor
  <2>2. BlockOK(Block(k0.s, LastStep + 1, k0.done), d, b)
    BY <1>4, <1>5, <1>9, <2>1, StoreKeeps
  <2> QED
    BY <1>10, <2>2
<1> QED
  BY <1>1, <1>4, <1>9, <1>11, <1>12, CallSteps

(* The threads of a block of the second kernel add its offset. *)
LEMMA AddStep ==
  ASSUME NEW a, NEW n, Midway(a, n), NEW b \in DOMAIN blk, AddOffsets(b)
  PROVE  AfterStep(a, n)
<1>1. PICK k0, bk, c, o : k0 = blk[b] /\ bk = blk /\ c = Top /\ o = offsets
  OBVIOUS
<1>2. PICK e : e = [i \in DOMAIN c.out |->
                      IF i \in OwnCells(b) THEN c.out[i] + o[b] ELSE c.out[i]]
  OBVIOUS
<1>3. PICK d : d = [c EXCEPT !.out = e]
  OBVIOUS
<1>4. /\ kernel = "add" /\ k0.step = 0 /\ UNCHANGED <<kernel, offsets>>
      /\ calls' = [calls EXCEPT ![Len(calls)] = d]
      /\ blk' = [bk EXCEPT ![b].step = LastStep + 1]
  BY <1>1, <1>2, <1>3 DEF AddOffsets, Top
<1>5. CallOK(c) /\ KernelOK("add", bk, c, o)
  BY <1>1, <1>4, TopIs
<1>6. DOMAIN c.out = 0 .. c.n - 1 /\ c.n \in Nat \ {0} /\ c.out \in [0 .. c.n - 1 -> Int]
  BY <1>5 DEF CallOK
<1>7. \A i \in 0 .. c.n - 1 :
        e[i] = IF i \div ScanBlock = b THEN c.out[i] + o[b] ELSE c.out[i]
  BY <1>1, <1>2, <1>6 DEF OwnCells
<1>8. d = [n |-> c.n, in |-> c.in, out |-> e, sums |-> c.sums]
  BY <1>3, <1>5 DEF CallOK
<1>9. SameArray(c, d) /\ d.out = e
  BY <1>8 DEF SameArray
<1>10. PICK r : r = Block(k0.s, LastStep + 1, k0.done)
  OBVIOUS
<1>11. /\ b \in 0 .. NumBlocks(c.n) - 1 /\ AddOK(k0, c, b) /\ OffsetsOK(c, o)
       /\ \A x \in 0 .. NumBlocks(c.n) - 1 : TotalSaved(c, x)
  BY <1>1, <1>5 DEF KernelOK
<1>12. AddOK(r, d, b) /\ o[b] \in Int
  <2>1. \A i \in 0 .. c.n - 1 : i \div ScanBlock = b => d.out[i] = c.out[i] + o[b]
    BY <1>7, <1>9
  <2>2. AddOK(Block(k0.s, LastStep + 1, k0.done), d, b) /\ o[b] \in Int
    BY <1>4, <1>5, <1>9, <1>11, <2>1, AddKeeps
  <2> QED
    BY <1>10, <2>2
<1>13. e \in [0 .. c.n - 1 -> Int]
  <2>1. ASSUME NEW i \in 0 .. c.n - 1 PROVE e[i] \in Int
    <3>1. PICK x \in Int, y \in Int : x = c.out[i] /\ y = o[b]
      BY <1>6, <1>12
    <3>2. e[i] = IF i \div ScanBlock = b THEN x + y ELSE x
      BY <1>7, <3>1
    <3> QED
      BY <3>2
  <2>2. e = [i \in 0 .. c.n - 1 |-> e[i]]
    BY <1>2, <1>6
  <2> QED
    BY <2>1, <2>2
<1>14. StoresFor(c, d, b) /\ d.sums = c.sums
  <2>1. CellsNew(c, d, b, e)
    BY <1>7, <1>8, <1>13 DEF CellsNew
  <2> QED
    BY <1>5, <2>1, CellsStoredIs
<1>15. k0 = Block(k0.s, k0.step, k0.done)
  BY <1>11 DEF AddOK, Block
<1>16. Replaced(blk', bk, b, r)
  <2>1. PICK w : w = LastStep + 1
    OBVIOUS
  <2>2. Replaced([bk EXCEPT ![b].step = w], bk, b, Block(k0.s, w, k0.done))
    BY <1>1, <1>15, BlockChanged
  <2> QED
    BY <1>4, <1>10, <2>1, <2>2
<1> QED
  BY <1>1, <1>4, <1>12, <1>14, <1>16, AddCallSteps

FreshBlocks(n) == [b \in 0 .. NumBlocks(n) - 1 |-> FreshBlock]

(* A kernel starts with fresh blocks. *)
LEMMA FreshIs ==
  ASSUME NEW c, NEW b
  PROVE  /\ BlockOK(FreshBlock, c, b)
         /\ CellsStored(c, b) => AddOK(FreshBlock, c, b)
<1>1. PICK k0 : k0 = FreshBlock
  OBVIOUS
<1>2. /\ k0 = [s |-> k0.s, step |-> k0.step, done |-> k0.done]
      /\ k0.step = 0 /\ k0.done = {} /\ k0.s \in [Cells -> Int]
  BY <1>1 DEF FreshBlock
<1>3. PICK l \in Nat \ {0} : l = LogBlock /\ Clear = l + 1 /\ LastStep = 2 * l + 2
  BY StepsAre
<1>4. /\ ~ Up(0) /\ ~ Down(0) /\ 0 # Clear /\ 0 # LastStep
      /\ ~ (0 > Clear) /\ ~ (0 > LastStep) /\ 0 \in 0 .. LastStep + 1
  BY <1>3, StepsAre
<1>5. BlockOK(k0, c, b)
  BY <1>2, <1>4 DEF BlockOK, IsBlock, TreeOK
<1>6. CellsStored(c, b) => AddOK(k0, c, b)
  BY <1>2, <1>4 DEF AddOK
<1> QED
  BY <1>1, <1>5, <1>6

(* A new call, and the kernel that starts for it. *)
LEMMA NewCallIs ==
  ASSUME NEW n \in Nat \ {0}, NEW a \in [0 .. n - 1 -> Int]
  PROVE  /\ CallOK(NewCall(a, n)) /\ NewCall(a, n).in = a /\ NewCall(a, n).n = n
         /\ \A o : KernelOK("scan", FreshBlocks(n), NewCall(a, n), o)
<1>1. PICK c : c = NewCall(a, n)
  OBVIOUS
<1>2. c = [n |-> n, in |-> a, out |-> [i \in 0 .. n - 1 |-> 0],
           sums |-> [b \in 0 .. NumBlocks(n) - 1 |-> 0]]
  BY <1>1 DEF NewCall
<1>3. /\ c.n = n /\ c.in = a /\ c.out = [i \in 0 .. n - 1 |-> 0]
      /\ c.sums = [b \in 0 .. NumBlocks(n) - 1 |-> 0]
  BY <1>2
<1>4. CallOK(c)
  <2>1. c = [n |-> c.n, in |-> c.in, out |-> c.out, sums |-> c.sums]
    BY <1>2, <1>3
  <2>2. c.out \in [0 .. n - 1 -> Int] /\ c.sums \in [0 .. NumBlocks(n) - 1 -> Int]
    BY <1>3
  <2> QED
    BY <1>3, <2>1, <2>2 DEF CallOK
<1>5. PICK bk : bk = FreshBlocks(n)
  OBVIOUS
<1>6. /\ DOMAIN bk = 0 .. NumBlocks(c.n) - 1
      /\ \A b \in DOMAIN bk : BlockOK(bk[b], c, b)
  BY <1>3, <1>5, FreshIs DEF FreshBlocks
<1>7. \A o : KernelOK("scan", bk, c, o)
  BY <1>6 DEF KernelOK
<1> QED
  BY <1>1, <1>3, <1>4, <1>5, <1>7

(* What a call whose first kernel has ended has. *)
LEMMA FirstKernelDone ==
  ASSUME NEW a, NEW n, Midway(a, n), kernel = "scan", KernelDone
  PROVE  CallDone(Top)
<1>1. PICK c, bk : c = Top /\ bk = blk
  OBVIOUS
<1>2. KernelOK("scan", bk, c, offsets)
  BY <1>1, TopIs
<1>3. LastStep + 1 > Clear /\ LastStep + 1 > LastStep
  BY StepsAre
<1>4. ASSUME NEW b \in 0 .. NumBlocks(c.n) - 1 PROVE TotalSaved(c, b) /\ CellsStored(c, b)
  <2>1. b \in DOMAIN bk /\ BlockOK(bk[b], c, b)
    BY <1>2 DEF KernelOK
  <2>2. bk[b].step = LastStep + 1
    BY <1>1, <2>1 DEF KernelDone
  <2> QED
    BY <1>3, <2>1, <2>2 DEF BlockOK
<1> QED
  BY <1>1, <1>4 DEF CallDone

(* The host calls itself for the block sums. *)
LEMMA RecurseStep ==
  ASSUME NEW a, NEW n, Midway(a, n), Recurse
  PROVE  AfterStep(a, n)
<1>1. PICK c, m : c = Top /\ m = NumBlocks(c.n)
  OBVIOUS
<1>2. /\ kernel = "scan" /\ CallDone(c)
      /\ calls' = Append(calls, NewCall(c.sums, m))
      /\ kernel' = "scan" /\ blk' = FreshBlocks(m) /\ offsets' = offsets
  BY <1>1, FirstKernelDone DEF Recurse, CallScan, FreshBlocks
<1> PICK S, cs : S = Range(calls) /\ cs = calls
  OBVIOUS
<1>3. PICK l \in Nat \ {0} :
        /\ S = Range(calls) /\ cs = calls
        /\ Innermost(cs, S, l, c, a, n) /\ CallOK(c)
  BY <1>1, TopIs DEF Innermost, Midway
<1>4. m \in Nat \ {0} /\ c.sums \in [0 .. m - 1 -> Int]
  BY <1>1, <1>3, BlocksCover DEF CallOK
<1>5. PICK d : d = NewCall(c.sums, m)
  OBVIOUS
<1>6. /\ CallOK(d) /\ d.in = c.sums /\ d.n = m
      /\ \A o : KernelOK("scan", FreshBlocks(m), d, o)
  BY <1>4, <1>5, NewCallIs
<1>7. IsInnermost(Append(cs, d), l + 1, d, a, n)
  BY <1>1, <1>2, <1>3, <1>6, InnermostPushed
<1>8. PICK ds, bk, o : ds = calls' /\ bk = blk' /\ o = offsets'
  OBVIOUS
<1>9. /\ ds # <<>> /\ CallsOK(ds, a, n) /\ ds[Len(ds)] = d
      /\ KernelOK("scan", bk, d, o)
  BY <1>2, <1>3, <1>5, <1>6, <1>7, <1>8 DEF IsInnermost
<1> QED
  BY <1>2, <1>8, <1>9 DEF AfterStep, ScanState

(* The offsets of the blocks are there: the second kernel starts. *)
LEMMA LaunchStep ==
  ASSUME NEW a, NEW n, Midway(a, n), LaunchAdd
  PROVE  AfterStep(a, n)
<1>1. PICK c, o, bk : c = Top /\ o = offsets /\ bk = FreshBlocks(c.n)
  OBVIOUS
<1>2. /\ kernel = "none" /\ kernel' = "add" /\ blk' = bk /\ UNCHANGED <<calls, offsets>>
  BY <1>1 DEF LaunchAdd, FreshBlocks
<1>3. CallsOK(calls, a, n) /\ KernelOK("none", blk, c, o)
  BY <1>1, <1>2, TopIs
<1>4. CallDone(c) /\ OffsetsOK(c, o)
  BY <1>3 DEF KernelOK
<1>5. DOMAIN bk = 0 .. NumBlocks(c.n) - 1
  BY <1>1 DEF FreshBlocks
<1>6. \A b \in DOMAIN bk : TotalSaved(c, b) /\ AddOK(bk[b], c, b)
  BY <1>1, <1>4, <1>5, FreshIs DEF CallDone, FreshBlocks
<1>7. KernelOK("add", bk, c, o)
  BY <1>4, <1>5, <1>6 DEF KernelOK
<1> QED
  BY <1>1, <1>2, <1>3, <1>7 DEF AfterStep, ScanState, Midway, Top

(* A call that returns has scanned its array. *)
LEMMA CallScanned ==
  ASSUME NEW a, NEW n, Midway(a, n), KernelDone,
         (kernel = "scan" /\ NumBlocks(Top.n) = 1) \/ kernel = "add"
  PROVE  IsExclusiveScan(Top.in, Top.out)
<1>1. PICK c, bk : c = Top /\ bk = blk
  OBVIOUS
<1>2. CallOK(c) /\ KernelOK(kernel, bk, c, offsets)
  BY <1>1, TopIs
<1>3. PICK m \in Nat \ {0} : m = c.n /\ DOMAIN c.out = 0 .. m - 1
  BY <1>2 DEF CallOK
<1>4. ASSUME NEW i \in 0 .. m - 1 PROVE c.out[i] = Before(c, i)
  <2>1. PICK b : b = i \div ScanBlock
    OBVIOUS
  <2>2. /\ b \in 0 .. NumBlocks(m) - 1 /\ i % ScanBlock \in Cells
        /\ i = b * ScanBlock + (i % ScanBlock)
    BY <2>1, BlocksCover
  <2>3. CASE kernel = "add"
    <3>1. b \in DOMAIN bk /\ AddOK(bk[b], c, b)
      BY <1>2, <1>3, <2>2, <2>3 DEF KernelOK
    <3>2. bk[b].step = LastStep + 1
      BY <1>1, <3>1 DEF KernelDone
    <3>3. LastStep + 1 > LastStep
      BY StepsAre
    <3>4. CellsAdded(c, b)
      BY <3>1, <3>2, <3>3 DEF AddOK
    <3> QED
      BY <1>3, <2>1, <3>4 DEF CellsAdded
  <2>4. CASE kernel = "scan" /\ NumBlocks(c.n) = 1
    <3>1. b = 0
      BY <1>3, <2>2, <2>4
    <3>2. CellsStored(c, b)
      BY <1>1, <1>3, <2>2, <2>4, FirstKernelDone DEF CallDone
    <3>3. c.out[i] = BlockBefore(c, 0)[i % ScanBlock] - BlockBefore(c, 0)[0]
      BY <1>3, <2>1, <3>1, <3>2 DEF CellsStored
    <3>4. PICK x \in 0 .. ScanBlock : x = i % ScanBlock
      BY <2>2, BlockIs
    <3>5. 0 * ScanBlock = 0 /\ 0 \in 0 .. ScanBlock /\ 0 * ScanBlock + x = x /\ x = i
      BY <2>2, <3>1, <3>4, BlockIs
    <3>6. \A y \in 0 .. ScanBlock : BlockBefore(c, 0)[y] = Before(c, 0 * ScanBlock + y)
      BY <1>2, BlockBeforeIs
    <3>7. BlockBefore(c, 0)[x] = Before(c, x)
      BY <3>5, <3>6
    <3>8. BlockBefore(c, 0)[0] = 0
      <4>1. BlockBefore(c, 0)[0] = Before(c, 0 * ScanBlock)
        BY <1>2, BlockBeforeIs
      <4>2. Before(c, 0) = 0
        BY <1>2, BeforeIs
      <4> QED
        BY <3>5, <4>1, <4>2
    <3>9. Before(c, x) \in Int
      <4>1. x \in Nat
        BY <3>5
      <4> QED
        BY <1>2, <4>1, BeforeIs
    <3> QED
      BY <3>3, <3>4, <3>5, <3>7, <3>8, <3>9
  <2> QED
    BY <1>1, <2>3, <2>4
<1>5. \A i \in 0 .. m - 1 : Before(c, i) = SumBefore(c.in, i)
  <2>1. \A i \in 0 .. m - 1 : i \in 0 .. m
    OBVIOUS
  <2> QED
    BY <1>2, <1>3, <2>1, BeforeIs
<1>6. IsExclusiveScan(c.in, c.out)
  BY <1>3, <1>4, <1>5 DEF IsExclusiveScan
<1> QED
  BY <1>1, <1>6

(* The innermost call returns what its caller needs, or the scan. *)
LEMMA ReturnStep ==
  ASSUME NEW a, NEW n, Midway(a, n), ReturnScan
  PROVE  AfterStep(a, n)
<1>1. PICK c, o : c = Top /\ o = c.out
  OBVIOUS
<1> PICK S, cs : S = Range(calls) /\ cs = calls
  OBVIOUS
<1>2. PICK l \in Nat \ {0} :
        /\ S = Range(calls) /\ cs = calls
        /\ Innermost(cs, S, l, c, a, n) /\ CallOK(c)
  BY <1>1, TopIs DEF Innermost, Midway
<1>3. IsExclusiveScan(c.in, o)
  BY <1>1, CallScanned DEF ReturnScan
<1>4. PICK ds, bk : ds = SubSeq(cs, 1, l - 1) /\ bk = blk'
  OBVIOUS
<1>5. l = Len(cs)
  BY <1>2 DEF Innermost
<1>6. calls' = ds /\ kernel' = "none" /\ blk' = bk /\ offsets' = o
  BY <1>1, <1>2, <1>4, <1>5 DEF ReturnScan
<1>7. Popped(ds, c, a, n)
  BY <1>2, <1>4, InnermostPopped
<1>8. CASE ds = <<>>
  <2>1. IsExclusiveScan(a, o)
    BY <1>3, <1>7, <1>8 DEF Popped
  <2> QED
    BY <1>6, <1>8, <2>1 DEF AfterStep, ScanState
<1>9. CASE ds # <<>>
  <2>1. PICK t : t = ds[Len(ds)]
    OBVIOUS
  <2>2. CallsOK(ds, a, n) /\ CallDone(t) /\ c.in = t.sums /\ c.n = NumBlocks(t.n)
    BY <1>7, <1>9, <2>1 DEF Popped
  <2>3. OffsetsOK(t, o)
    <3>1. DOMAIN o = 0 .. c.n - 1
      BY <1>1, <1>2 DEF CallOK
    <3> QED
      BY <1>3, <2>2, <3>1 DEF OffsetsOK
  <2>4. KernelOK("none", bk, t, o)
    BY <2>2, <2>3 DEF KernelOK
  <2> QED
    BY <1>6, <1>9, <2>1, <2>2, <2>4 DEF AfterStep, ScanState
<1> QED
  BY <1>8, <1>9

(* Each step of the scan keeps what is known of it. *)
LEMMA ScanStepKeeps ==
  ASSUME NEW a, NEW n, Midway(a, n), ScanStep
  PROVE  AfterStep(a, n)
<1>1. ASSUME NEW b \in DOMAIN blk,
             LoadCells(b) \/ Barrier(b) \/ SaveTotal(b) \/ StoreCells(b) \/ AddOffsets(b)
      PROVE  AfterStep(a, n)
  BY <1>1, LoadStep, BarrierStep, SaveStep, StoreStep, AddStep
<1>2. ASSUME NEW b \in DOMAIN blk, NEW t \in Cells, SweepThread(b, t) PROVE AfterStep(a, n)
  BY <1>2, SweepStep
<1>3. Recurse \/ LaunchAdd \/ ReturnScan => AfterStep(a, n)
  BY RecurseStep, LaunchStep, ReturnStep
<1> QED
  BY <1>1, <1>2, <1>3 DEF ScanStep

-----------------------------------------------------------------------------
(* The scan within the program. *)

(* While the Vulkan program scans, and afterwards. *)
Scanned ==
  /\ phase = "scan" => ScanState(calls, kernel, blk, offsets, nGrp, NWins(im))
  /\ ScanExact

(* Nothing is scanned yet. *)
LEMMA ScannedInit == Init => Scanned
BY DEF Init, Scanned, ScanExact

(* The outermost call. *)
LEMMA BeginKeepsScan == ASSUME Inv, todo # <<>>, BeginScan PROVE Scanned'
<1>1. /\ phase = "count" /\ phase' = "scan" /\ CallScan(nGrp, NWins(im))
      /\ UNCHANGED <<inputVars, todo, memVars>>
  BY DEF BeginScan, Go
<1>2. im \in Maps /\ calls = <<>> /\ NWins(im)' = NWins(im) /\ nGrp' = nGrp
  BY <1>1, CurrentIs, Kept DEF Inv, PhaseOK, memVars
<1> PICK g : g = nGrp
  OBVIOUS
<1>3. PICK n \in Nat \ {0} : n = NWins(im) /\ g = nGrp /\ g \in [0 .. n - 1 -> Nat]
  BY <1>1, <1>2, WindowsAre DEF Inv, Counting
<1>4. g \in [0 .. n - 1 -> Int]
  BY <1>3
<1>5. PICK c, ds, bk, o : c = NewCall(g, n) /\ ds = calls' /\ bk = blk' /\ o = offsets'
  OBVIOUS
<1>6. ds = Append(<<>>, c) /\ bk = FreshBlocks(n) /\ kernel' = "scan"
  BY <1>1, <1>2, <1>3, <1>5 DEF CallScan, FreshBlocks
<1>7. ds # <<>> /\ Len(ds) = 1 /\ ds[1] = c
  BY <1>6
<1>8. CallOK(c) /\ c.in = g /\ c.n = n /\ KernelOK("scan", bk, c, o)
  BY <1>4, <1>5, <1>6, NewCallIs
<1>9. CallsOK(ds, g, n)
  BY <1>7, <1>8 DEF CallsOK
<1>10. ScanState(ds, "scan", bk, o, g, n)
  BY <1>7, <1>8, <1>9 DEF ScanState
<1>11. ScanState(calls', kernel', blk', offsets', nGrp', NWins(im)')
  BY <1>2, <1>3, <1>5, <1>6, <1>10
<1> QED
  BY <1>1, <1>11 DEF Scanned, ScanExact

(* A step of the scan. *)
LEMMA ScanningKeepsScan == ASSUME Inv, Scanned, todo # <<>>, Scanning PROVE Scanned'
<1>1. /\ phase = "scan" /\ phase' = phase /\ calls # <<>> /\ ScanStep
      /\ UNCHANGED <<inputVars, todo, memVars>>
  BY DEF Scanning
<1>2. PICK g, n : g = nGrp /\ n = NWins(im)
  OBVIOUS
<1>3. Midway(g, n)
  BY <1>1, <1>2 DEF Inv, ScanOK, Scanned, Midway
<1>4. AfterStep(g, n)
  BY <1>1, <1>3, ScanStepKeeps
<1>5. nGrp' = g /\ NWins(im)' = n
  BY <1>1, <1>2, Kept DEF memVars
<1>6. ScanState(calls', kernel', blk', offsets', nGrp', NWins(im)')
  BY <1>4, <1>5 DEF AfterStep
<1> QED
  BY <1>1, <1>6 DEF Scanned, ScanExact

(* The return of the outermost call, and the finalize kernel. *)
LEMMA EndKeepsScan == ASSUME Inv, Scanned, EndScan PROVE Scanned'
<1>1. /\ phase = "scan" /\ phase' = "finalize" /\ calls = <<>>
      /\ nGrp' = nGrp /\ offsets' = offsets
  BY DEF EndScan, Go, memVars, scanVars
<1>2. IsExclusiveScan(nGrp, offsets)
  BY <1>1 DEF Scanned, ScanState
<1> QED
  BY <1>1, <1>2 DEF Scanned, ScanExact, IsExclusiveScan

(* What else happens does not touch it. *)
LEMMA OthersKeepScan ==
  ASSUME Inv, Scanned,
         \/ UNCHANGED vars
         \/ StartEach \/ StartCount \/ Throw \/ InclusiveScan \/ StartEmit \/ BuildAccel
         \/ \E w \in Windows : WindowStep(w)
         \/ \E e \in Edges(im) : FillEdge(e)
  PROVE  Scanned'
<1>1. CASE UNCHANGED vars
  <2>1. NWins(im)' = NWins(im)
    BY <1>1, Kept DEF vars, inputVars
  <2> QED
    BY <1>1, <2>1 DEF Scanned, ScanExact, IsExclusiveScan, ScanState, vars
<1>2. CASE StartEach \/ StartCount \/ Throw \/ StartEmit \/ BuildAccel
  BY <1>2 DEF StartEach, StartCount, Throw, StartEmit, BuildAccel, Go, Scanned, ScanExact
<1>3. CASE InclusiveScan
  BY <1>3 DEF InclusiveScan, Go, Scanned, ScanExact, inputVars
<1>4. ASSUME NEW w \in Windows, CountWindow(w) \/ EmitGroup(w) PROVE Scanned'
  BY <1>4 DEF CountWindow, EmitGroup, Scanned, ScanExact
<1>5. ASSUME NEW w \in Windows, FinalizeWindow(w) PROVE Scanned'
  <2>1. /\ phase = "finalize" /\ program = "vk" /\ phase' = "finalize"
        /\ nGrp' = nGrp /\ offsets' = offsets
    BY <1>5 DEF FinalizeWindow, scanVars
  <2>2. IsExclusiveScan(nGrp, offsets)
    BY <2>1 DEF Scanned, ScanExact
  <2> QED
    BY <2>1, <2>2 DEF Scanned, ScanExact, IsExclusiveScan
<1>6. ASSUME NEW e \in Edges(im), FillEdge(e) PROVE Scanned'
  BY <1>6 DEF FillEdge, Scanned, ScanExact
<1> QED
  BY <1>1, <1>2, <1>3, <1>4, <1>5, <1>6 DEF WindowStep

(* Every step keeps what is known of the scan. *)
LEMMA NextKeepsScan == ASSUME Inv, Scanned, [Next]_vars PROVE Scanned'
<1>1. CASE UNCHANGED vars
  BY <1>1, OthersKeepScan
<1>2. CASE Stopped
  BY <1>2, OthersKeepScan DEF Stopped
<1>3. CASE BeginScan \/ Scanning
  <2>1. todo # <<>>
    BY <1>3 DEF BeginScan, Scanning, Inv, PhaseOK
  <2> QED
    BY <1>3, <2>1, BeginKeepsScan, ScanningKeepsScan
<1>4. CASE EndScan
  BY <1>4, EndKeepsScan
<1>5. CASE \/ StartEach \/ StartCount \/ Throw \/ InclusiveScan \/ StartEmit \/ BuildAccel
           \/ \E w \in Windows : WindowStep(w)
           \/ \E e \in Edges(im) : FillEdge(e)
  BY <1>5, OthersKeepScan
<1> QED
  BY <1>1, <1>2, <1>3, <1>4, <1>5 DEF Next, Step

-----------------------------------------------------------------------------
(* The inductive invariant holds, and what the device scan has done so far is
   right, for every size of the maps, of the windows and of a scanned block. *)
THEOREM Invariance == Spec => [](Inv /\ Scanned)
<1>1. Init => Inv /\ Scanned
  BY InitHolds, ScannedInit
<1>2. Inv /\ Scanned /\ [Next]_vars => (Inv /\ Scanned)'
  <2>1. Scanned => ScanExact
    BY DEF Scanned
  <2> QED
    BY <2>1, NextHolds, NextKeepsScan
<1> QED
  BY <1>1, <1>2, PTL DEF Spec

(* ExclusiveScanUInt32 returns the sums of the groups of the windows before
   each, however its blocks and their threads take turns, and however deep the
   scans of block sums nest. *)
THEOREM ScanIsExact == Spec => []ScanExact
<1>1. Inv /\ Scanned => ScanExact
  BY DEF Scanned
<1> QED
  BY <1>1, Invariance, PTL

(* The numbers of groups, the boxes, the ranges and the structures have their
   types: no range and no box reaches past the edges of its map. *)
THEOREM TypeCorrect == Spec => []TypeOK
<1>1. Inv /\ Scanned => TypeOK
  BY DEF Inv
<1> QED
  BY <1>1, Invariance, PTL

(* Structures that are built are complete. *)
LEMMA Exact == Inv => IndexExact
BY DEF Inv, MapsOK, Complete, IndexExact

(* What the intersection programs rely on when they index eid_range with the
   number of a box, for both maps, whatever was built after them. *)
THEOREM IndexIsExact == Spec => []IndexExact
BY Exact, Invariance, PTL
-----------------------------------------------------------------------------
(* The ranges stored for map m. *)
Stores(m) == {ranges[m][i] : i \in DOMAIN ranges[m]} \ {NoRange}

CoverStep(m) == Cover(m)!Next \/ UNCHANGED Cover(m)!coverVars

(* The stores of a map, and whether it is built, do not change. *)
LEMMA CoverKept ==
  ASSUME NEW m \in Maps, Stores(m)' = Stores(m), accel'[m] = accel[m]
  PROVE  CoverStep(m)
<1>1. Built(m)' <=> Built(m)
  BY DEF Built
<1> QED
  BY <1>1 DEF CoverStep, Cover!coverVars, Stores, Built

(* A step that does not store or build. *)
LEMMA NoCoverStep ==
  ASSUME UNCHANGED <<ranges, accel>>
  PROVE  \A m \in Maps : CoverStep(m)
<1>1. ASSUME NEW m \in Maps PROVE CoverStep(m)
  <2>1. Stores(m)' = Stores(m) /\ accel'[m] = accel[m]
    BY DEF Stores
  <2> QED
    BY <2>1, CoverKept
<1> QED
  BY <1>1

(* Making room stores nothing. *)
LEMMA RoomCoverStep ==
  ASSUME Inv, Inv', todo # <<>>, phase \notin {"each", "emit"}, NEW n, MakeRoom(n),
         UNCHANGED <<inputVars, todo, accel>>, phase' \in {"each", "emit"}, Emitted' = {}
  PROVE  \A m \in Maps : CoverStep(m)
<1>1. PICK x \in Maps : x = im /\ im' = x
  BY CurrentIs, Kept DEF Inv
<1>2. \A i \in DOMAIN ranges[x] : ranges[x][i] = NoRange
  <2>1. ~ Built(x) /\ ~ Filling(x)
    BY <1>1, CurrentIs DEF Inv, MapsOK, Filling
  <2> QED
    BY <2>1 DEF Inv, MapsOK, Untouched
<1>3. \A i \in DOMAIN ranges'[x] : ranges'[x][i] = NoRange
  <2>1. todo' # <<>>
    OBVIOUS
  <2>2. \A i \in DOMAIN ranges'[im'] : ranges'[im'][i] = NoRange
    BY <2>1 DEF Inv, Stored
  <2> QED
    BY <1>1, <2>2
<1>4. \A m \in Maps : m # x => ranges'[m] = ranges[m]
  BY <1>1 DEF MakeRoom, Inv, MapsOK
<1>5. ASSUME NEW m \in Maps PROVE CoverStep(m)
  <2>1. Stores(m)' = Stores(m)
    <3>1. CASE m = x
      BY <1>2, <1>3, <3>1 DEF Stores
    <3>2. CASE m # x
      BY <1>4, <3>2 DEF Stores
    <3> QED
      BY <3>1, <3>2
  <2>2. accel'[m] = accel[m]
    OBVIOUS
  <2> QED
    BY <2>1, <2>2, CoverKept
<1> QED
  BY <1>5

(* Storing a group publishes its edges, which nobody has published before. *)
LEMMA GroupCoverStep ==
  ASSUME Inv, todo # <<>>, phase \in {"each", "emit"},
         NEW s \in Starts(im), NEW h, IsGroup(im, s, h), s \notin Emitted,
         ranges' = [ranges EXCEPT ![im][Rank(im, s)] = EdgeRange(s, h)],
         UNCHANGED <<inputVars, todo, phase, accel>>
  PROVE  \A m \in Maps : CoverStep(m)
<1>1. PICK x \in Maps : x = im /\ ~ Built(x)
  BY CurrentIs DEF Inv, MapsOK
<1>2. PICK r : r = Rank(x, s) /\ r \in 0 .. NGroups(x) - 1
  BY <1>1, RankBelow
<1>3. /\ Emitted \subseteq Starts(x)
      /\ r \in DOMAIN ranges[x] /\ DOMAIN ranges = Maps
      /\ \A t \in Emitted : \E g \in 1 .. NE[x] :
           IsGroup(x, t, g) /\ ranges[x][Rank(x, t)] = EdgeRange(t, g)
      /\ \A i \in DOMAIN ranges[x] :
           (\A t \in Emitted : i # Rank(x, t)) => ranges[x][i] = NoRange
  BY <1>1, <1>2 DEF Inv, Stored, MapsOK
<1>4. /\ DOMAIN ranges'[x] = DOMAIN ranges[x] /\ ranges'[x][r] = EdgeRange(s, h)
      /\ \A i \in DOMAIN ranges[x] : i # r => ranges'[x][i] = ranges[x][i]
      /\ \A m \in Maps : m # x => ranges'[m] = ranges[m]
  BY <1>1, <1>2, <1>3
<1>5. ranges[x][r] = NoRange
  <2>1. \A t \in Emitted : r # Rank(x, t)
    BY <1>1, <1>2, <1>3, RankOneToOne
  <2> QED
    BY <1>3, <2>1
<1>6. /\ NE[x] \in Nat /\ s \in Edges(x) /\ s \in 0 .. NE[x] - 1 /\ h \in s + 1 .. NE[x]
      /\ Edges(x) = 0 .. NE[x] - 1
  BY <1>1, MapsAre DEF IsGroup
<1>7. EdgeRange(s, h) # NoRange
  BY <1>6 DEF EdgeRange, NoRange
<1>8. Stores(x)' = Stores(x) \cup {EdgeRange(s, h)}
  <2>1. ASSUME NEW q \in Stores(x)' PROVE q \in Stores(x) \cup {EdgeRange(s, h)}
    <3>1. PICK i \in DOMAIN ranges[x] : q = ranges'[x][i] /\ q # NoRange
      BY <1>4 DEF Stores
    <3> QED
      BY <1>4, <3>1 DEF Stores
  <2>2. ASSUME NEW q \in Stores(x) PROVE q \in Stores(x)'
    <3>1. PICK i \in DOMAIN ranges[x] : q = ranges[x][i] /\ q # NoRange
      BY DEF Stores
    <3>2. i # r
      BY <1>5, <3>1
    <3> QED
      BY <1>4, <3>1, <3>2 DEF Stores
  <2>3. EdgeRange(s, h) \in Stores(x)'
    BY <1>3, <1>4, <1>7 DEF Stores
  <2> QED
    BY <2>1, <2>2, <2>3
<1>9. ASSUME NEW q \in Stores(x) PROVE EdgesOf(q) \cap EdgesOf(EdgeRange(s, h)) = {}
  <2>1. PICK i \in DOMAIN ranges[x] : q = ranges[x][i] /\ q # NoRange
    BY DEF Stores
  <2>2. PICK t \in Emitted : i = Rank(x, t)
    BY <1>3, <2>1
  <2>3. PICK g \in 1 .. NE[x] : IsGroup(x, t, g) /\ q = EdgeRange(t, g)
    BY <1>3, <2>1, <2>2
  <2>4. EdgesOf(q) = t .. g - 1 /\ EdgesOf(EdgeRange(s, h)) = s .. h - 1
    BY <2>3 DEF EdgesOf, EdgeRange
  <2>5. ASSUME NEW e, e \in t .. g - 1, e \in s .. h - 1 PROVE FALSE
    <3>1. e \in Edges(x)
      BY <1>6, <2>5
    <3>2. s \in Starts(x) /\ t \in Starts(x) /\ IsGroup(x, s, h)
      BY <1>1, <1>3
    <3>3. Rank(x, e + 1) = Rank(x, s) + 1 /\ Rank(x, e + 1) = Rank(x, t) + 1
      BY <2>3, <2>5, <3>1, <3>2, GroupHas
    <3>4. PICK a \in Nat, b \in Nat : a = Rank(x, s) /\ b = Rank(x, t)
      BY <3>2, RankBelow
    <3>5. Rank(x, s) = Rank(x, t)
      BY <3>3, <3>4
    <3>6. s = t
      BY <3>2, <3>5, RankOneToOne
    <3> QED
      BY <3>6
  <2> QED
    BY <2>4, <2>5
<1>10. Cover(x)!Publish(EdgeRange(s, h))
  <2>1. Built(x)' = Built(x)
    BY DEF Built
  <2>2. \A q \in Stores(x) : Cover(x)!EdgesOf(q) \cap Cover(x)!EdgesOf(EdgeRange(s, h)) = {}
    BY <1>9 DEF Cover!EdgesOf, EdgesOf
  <2> QED
    BY <1>1, <1>8, <2>1, <2>2 DEF Cover!Publish, Stores
<1>11. EdgeRange(s, h) \in Cover(x)!EdgeRanges
  BY <1>6 DEF EdgeRange, Cover!EdgeRanges, Cover!Edges
<1>12. CoverStep(x)
  BY <1>10, <1>11 DEF CoverStep, Cover!Next
<1>13. ASSUME NEW m \in Maps, m # x PROVE CoverStep(m)
  <2>1. Stores(m)' = Stores(m) /\ accel'[m] = accel[m]
    BY <1>4, <1>13 DEF Stores
  <2> QED
    BY <2>1, CoverKept
<1> QED
  BY <1>12, <1>13

(* A structure is built when every edge is published. *)
LEMMA SealCoverStep ==
  ASSUME Inv, BuildAccel
  PROVE  \A m \in Maps : CoverStep(m)
<1>1. /\ todo # <<>> /\ Filled
      /\ accel' = [accel EXCEPT ![im] = [i \in 0 .. NPrims - 1 |-> aabbs[i]]]
      /\ ranges' = ranges
  BY DEF BuildAccel
<1>2. PICK x \in Maps : x = im /\ ~ Built(x)
  BY <1>1, CurrentIs DEF Inv, MapsOK
<1>3. phase \in {"each", "emit"} /\ Emitted = Starts(x) /\ NPrims = NGroups(x)
  BY <1>1, <1>2, FilledIs
<1>4. Built(x)'
  <2>1. NGroups(x) \in Nat \ {0}
    BY NGroupsIs
  <2>2. accel'[x] = [i \in 0 .. NGroups(x) - 1 |-> aabbs[i]]
    BY <1>1, <1>2, <1>3 DEF Inv, MapsOK
  <2>3. DOMAIN accel'[x] # {}
    BY <2>1, <2>2
  <2> QED
    BY <2>3 DEF Built, Empty
<1>5. /\ \A s \in Starts(x) : \E h \in 1 .. NE[x] :
           IsGroup(x, s, h) /\ ranges[x][Rank(x, s)] = EdgeRange(s, h)
      /\ 0 .. NGroups(x) - 1 \subseteq DOMAIN ranges[x]
  BY <1>1, <1>2, <1>3 DEF Inv, Stored
<1>6. ASSUME NEW e \in Edges(x) PROVE \E q \in Stores(x) : e \in EdgesOf(q)
  <2>1. PICK s \in Starts(x) : Rank(x, e + 1) = Rank(x, s) + 1
    BY GroupThere
  <2>2. PICK h \in 1 .. NE[x] : IsGroup(x, s, h) /\ ranges[x][Rank(x, s)] = EdgeRange(s, h)
    BY <1>5
  <2>3. e \in s .. h - 1
    BY <2>1, <2>2, GroupHas
  <2>4. e \in EdgesOf(EdgeRange(s, h)) /\ EdgesOf(NoRange) = {}
    BY <2>3 DEF EdgesOf, EdgeRange, NoRange
  <2>5. Rank(x, s) \in DOMAIN ranges[x]
    BY <1>5, RankBelow
  <2>6. EdgeRange(s, h) \in Stores(x)
    BY <2>2, <2>4, <2>5 DEF Stores
  <2> QED
    BY <2>4, <2>6
<1>7. Cover(x)!Seal
  <2>1. \A e \in Cover(x)!Edges : \E q \in Stores(x) : e \in Cover(x)!EdgesOf(q)
    BY <1>6 DEF Cover!Edges, Cover!EdgesOf, Edges, EdgesOf
  <2>2. Stores(x)' = Stores(x) /\ Built(x)' = TRUE
    BY <1>1, <1>4 DEF Stores, Built
  <2> QED
    BY <1>2, <2>1, <2>2 DEF Cover!Seal, Stores
<1>8. ASSUME NEW m \in Maps PROVE CoverStep(m)
  <2>1. CASE m = x
    BY <1>7, <2>1 DEF CoverStep, Cover!Next
  <2>2. CASE m # x
    <3>1. Stores(m)' = Stores(m) /\ accel'[m] = accel[m]
      BY <1>1, <1>2, <2>2 DEF Stores
    <3> QED
      BY <3>1, CoverKept
  <2> QED
    BY <2>1, <2>2
<1> QED
  BY <1>8

(* The kernels and the host implement EdgeCover for each map: a thread that
   stores a group publishes edges that nobody has published before, with and
   without windows; the host builds the structure when all of them are; and
   what follows, for this map or the other, leaves both alone. *)
THEOREM Refinement == Spec => CoverSpec
<1>1. ASSUME Init, NEW m \in Maps PROVE Cover(m)!Init
  <2>1. \A i \in DOMAIN ranges[m] : ranges[m][i] = NoRange
    BY <1>1 DEF Init, Empty
  <2>2. ~ Built(m)
    BY <1>1 DEF Init, Built
  <2> QED
    BY <2>1, <2>2 DEF Cover!Init
<1>2. ASSUME Inv, Inv', [Next]_vars PROVE \A m \in Maps : CoverStep(m)
  <2>1. CASE UNCHANGED vars
    BY <2>1, NoCoverStep DEF vars
  <2>2. CASE Stopped
    BY <2>2, NoCoverStep DEF Stopped, vars
  <2>3. CASE Throw \/ StartCount \/ InclusiveScan \/ BeginScan \/ Scanning \/ EndScan
    <3>1. UNCHANGED <<ranges, accel>>
      BY <2>3 DEF Throw, StartCount, InclusiveScan, BeginScan, Scanning, EndScan
    <3> QED
      BY <3>1, NoCoverStep
  <2>4. CASE StartEach
    <3>1. /\ todo # <<>> /\ phase = "start" /\ MakeRoom(NE[im])
          /\ phase' = "each" /\ done' = {}
          /\ UNCHANGED <<inputVars, todo, accel>>
      BY <2>4 DEF StartEach, Go
    <3>2. Emitted' = {}
      BY <3>1 DEF Emitted
    <3> QED
      BY <1>2, <3>1, <3>2, RoomCoverStep
  <2>5. CASE StartEmit
    <3>1. /\ phase = "finalize" /\ MakeRoom(NGrps)
          /\ at' = [w \in Windows |-> EidBegin(w)]
          /\ phase' = "emit"
          /\ UNCHANGED <<inputVars, todo, accel>>
      BY <2>5 DEF StartEmit, Go
    <3>2. todo # <<>> /\ im \in Maps
      BY <1>2, <3>1, CurrentIs DEF Inv, PhaseOK
    <3>3. Emitted' = {}
      BY <3>1, <3>2, NoneEmitted
    <3> QED
      BY <1>2, <3>1, <3>2, <3>3, RoomCoverStep
  <2>6. CASE BuildAccel
    BY <1>2, <2>6, SealCoverStep
  <2>7. ASSUME todo # <<>>, NEW w \in Windows, CountWindow(w) \/ FinalizeWindow(w)
        PROVE  \A m \in Maps : CoverStep(m)
    <3>1. UNCHANGED <<ranges, accel>>
      BY <2>7 DEF CountWindow, FinalizeWindow
    <3> QED
      BY <3>1, NoCoverStep
  <2>8. ASSUME todo # <<>>, NEW w \in Windows, EmitGroup(w) PROVE \A m \in Maps : CoverStep(m)
    <3>1. PICK h : h = GroupEnd(w, at[w])
      OBVIOUS
    <3>2. /\ phase = "emit" /\ at[w] < EidEnd(w)
          /\ ranges' = [ranges EXCEPT ![im][Slot(w)] = EdgeRange(at[w], h)]
          /\ UNCHANGED <<inputVars, todo, phase, accel>>
      BY <2>8, <3>1 DEF EmitGroup
    <3>3. PICK x \in Nat : /\ x = at[w] /\ x \in EidBegin(w) .. EidEnd(w) - 1
                           /\ x \in Starts(im) /\ IsGroup(im, x, h) /\ Slot(w) = Rank(im, x)
                           /\ im \in Maps
      BY <1>2, <2>8, <3>1, <3>2, EmitsGroup
    <3>4. x \div WinSize = w
      BY <3>3, InWindow
    <3>5. x \notin Emitted
      BY <3>2, <3>3, <3>4 DEF Emitted
    <3>6. ranges' = [ranges EXCEPT ![im][Rank(im, x)] = EdgeRange(x, h)]
      BY <3>2, <3>3
    <3> QED
      BY <1>2, <2>8, <3>2, <3>3, <3>5, <3>6, GroupCoverStep
  <2>9. ASSUME todo # <<>>, NEW e \in Edges(im), FillEdge(e) PROVE \A m \in Maps : CoverStep(m)
    <3>1. /\ phase = "each" /\ e \notin done
          /\ ranges' = [ranges EXCEPT ![im][e] = EdgeRange(e, e + 1)]
          /\ UNCHANGED <<inputVars, todo, phase, accel>>
      BY <2>9 DEF FillEdge
    <3>2. im \in Maps /\ ag = 0
      BY <1>2, <2>9, <3>1, CurrentIs DEF Inv, PhaseOK
    <3>3. /\ e \in Nat /\ NE[im] \in Nat /\ e < NE[im]
          /\ Starts(im) = Edges(im) /\ Edges(im) = 0 .. NE[im] - 1
      BY <2>9, <3>2, RankOfEach, MapsAre
    <3>4. e \in Starts(im) /\ Rank(im, e) = e
      BY <2>9, <3>2, <3>3, RankOfEach
    <3>5. IsGroup(im, e, e + 1)
      BY <3>3 DEF IsGroup
    <3>6. e \notin Emitted
      BY <3>1 DEF Emitted
    <3>7. ranges' = [ranges EXCEPT ![im][Rank(im, e)] = EdgeRange(e, e + 1)]
      BY <3>1, <3>4
    <3> QED
      BY <1>2, <2>9, <3>1, <3>4, <3>5, <3>6, <3>7, GroupCoverStep
  <2> QED
    BY <1>2, <2>1, <2>2, <2>3, <2>4, <2>5, <2>6, <2>7, <2>8, <2>9 DEF Next, Step, WindowStep
<1>3. Init => \A m \in Maps : Cover(m)!Init
  BY <1>1
<1>4. Inv /\ Inv' /\ [Next]_vars => \A m \in Maps : Cover(m)!Next \/ UNCHANGED Cover(m)!coverVars
  BY <1>2 DEF CoverStep
<1> QED
  BY <1>3, <1>4, Invariance, PTL DEF Spec, CoverSpec
=============================================================================
