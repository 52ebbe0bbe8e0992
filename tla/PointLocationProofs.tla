------------------------- MODULE PointLocationProofs -------------------------
(***************************************************************************)
(* Proofs about PointLocation, for every map, point, grouping and order of *)
(* the boxes.                                                              *)
(*                                                                         *)
(* A result covers an edge that it is below, or level with and not after   *)
(* by the rule for ties.  What was shown to the intersection program is    *)
(* covered by what it found, whatever the order; what was never shown is   *)
(* behind boxes above the reported hit.  In a planar map the height at the *)
(* point and then the slope order the edges over it as they are ordered    *)
(* over the moved point, so the edge that covers all is the closest.       *)
(***************************************************************************)
EXTENDS PointLocation, SharedLemmas

(* A fraction of a whole multiple is whole. *)
LEMMA ExactDivision ==
  ASSUME NEW n \in Int, NEW b \in Nat \ {0}
  PROVE  (b * n) \div b = n
<1>1. PICK m \in Int : m = b * n
  OBVIOUS
<1>2. m <= b * n /\ b * n <= m
  BY <1>1
<1>3. m \div b \in Int /\ m \div b <= n /\ n <= m \div b
  BY <1>2, DivBounds
<1> QED
  BY <1>1, <1>3

(* The points of an edge are whole, and nothing in it is wider than Reach. *)
LEMMA SegmentIs ==
  ASSUME NEW s \in Segments
  PROVE  /\ Corner(s) /\ XMin(s) \in Int /\ XMax(s) \in Int
         /\ XMax(s) - XMin(s) <= Reach /\ YMax(s) - YMin(s) <= Reach
BY SegmentsAssumption, ReachAssumption DEF Corner, XMin, XMax

(* So heights at the point, and slopes, are whole multiples of 1 / Width: no
   division rounds. *)
LEMMA HeightsAreExact ==
  ASSUME NEW s \in Segments, XMin(s) < XMax(s), NEW a \in Int, NEW b \in Nat \ {0}, NEW c \in Int,
         Equation(s).a = a, Equation(s).b = b, Equation(s).c = c, NEW h \in Int, Rise(s, PX) = h
  PROVE  /\ XsectY(s) \in Int /\ XsectY(s) * b = Width * h
         /\ Slope(s) \in Int /\ Slope(s) * b = Width * a
<1>1. PICK w \in Nat \ {0} : w = Width /\ w % b = 0
  <2>1. s.x1 # s.x2
    BY SegmentsAssumption DEF XMin, XMax
  <2> QED
    BY <2>1, WidthAssumption
<1>2. PICK k \in Int : w = b * k
  BY <1>1
<1>3. PICK m \in Int, n \in Int : m = k * h /\ n = k * a
  OBVIOUS
<1>4. w * h = b * m /\ w * a = b * n
  BY <1>2, <1>3
<1>5. (w * h) \div b = m /\ (w * a) \div b = n
  BY <1>4, ExactDivision
<1>6. XsectY(s) = m /\ Slope(s) = n
  BY <1>1, <1>5 DEF XsectY, Slope, Rise
<1> QED
  BY <1>1, <1>4, <1>6

(* An edge crosses the ray within its own box. *)
LEMMA HeightBounds ==
  ASSUME NEW s \in Segments, XMin(s) <= PX, PX <= XMax(s), XMin(s) < XMax(s)
  PROVE  /\ XsectY(s) \in Int /\ YMin(s) \in Int /\ YMax(s) \in Int
         /\ Width * YMin(s) <= XsectY(s) /\ XsectY(s) <= Width * YMax(s)
<1>1. PICK xl \in Int, yl \in Int, xr \in Int, yr \in Int, a \in Int, b \in Int, c \in Int :
        FromLeft(s, xl, yl, xr, yr, a, b, c)
  BY SegmentIs, LeftToRight
<1>2. /\ XMin(s) = xl /\ XMax(s) = xr /\ b \in Nat \ {0}
      /\ Equation(s).a = a /\ Equation(s).b = b /\ Equation(s).c = c
  BY <1>1 DEF FromLeft
<1>3. PICK lo \in Int, hi \in Int : lo = YMin(s) /\ hi = YMax(s)
  BY <1>1 DEF FromLeft
<1>4. PICK n \in Int : n = -(a * PX) - c /\ n = -a * PX - c
  <2>1. PICK m \in Int : m = a * PX
    BY PointAssumption
  <2>2. -m - c \in Int
    OBVIOUS
  <2> QED
    BY <2>1, <2>2
<1>5. b * lo <= n /\ n <= b * hi
  <2>1. lo * b <= n /\ n <= hi * b
    BY <1>1, <1>2, <1>3, <1>4, HeightInBox, PointAssumption
  <2> QED
    BY <2>1
<1>6. PICK w \in Nat \ {0} : w = Width
  BY WidthAssumption
<1>7. b * (w * lo) <= w * n /\ w * n <= b * (w * hi)
  <2>1. w * (b * lo) <= w * n /\ w * n <= w * (b * hi)
    BY <1>5, SMT
  <2>2. w * (b * lo) = b * (w * lo) /\ w * (b * hi) = b * (w * hi)
    BY SMT
  <2> QED
    BY <2>1, <2>2
<1>8. w * n \in Int /\ w * lo \in Int /\ w * hi \in Int
  OBVIOUS
<1>9. (w * n) \div b \in Int /\ w * lo <= (w * n) \div b /\ (w * n) \div b <= w * hi
  <2>1. PICK u \in Int, l \in Int, k \in Int : u = w * n /\ l = w * lo /\ k = w * hi
    BY <1>8
  <2>2. b * l <= u /\ u <= b * k
    BY <1>7, <2>1
  <2>3. u \div b \in Int /\ l <= u \div b /\ u \div b <= k
    BY <1>2, <2>2, DivBounds
  <2> QED
    BY <2>1, <2>3
<1>10. XsectY(s) = (w * n) \div b
  BY <1>2, <1>4, <1>6 DEF XsectY
<1> QED
  BY <1>3, <1>6, <1>9, <1>10
-----------------------------------------------------------------------------
(* Finitely many integers have a lower bound: the least number of them that
   had none would not be the least. *)
LEMMA LowerBound ==
  ASSUME NEW n \in Nat, NEW f \in [0 .. n - 1 -> Int]
  PROVE  \E l \in Int : \A e \in 0 .. n - 1 : l <= f[e]
<1> DEFINE Bounded(k) == \E l \in Int : \A e \in 0 .. k - 1 : l <= f[e]
<1> DEFINE S == {k \in 0 .. n : ~ Bounded(k)}
<1>1. SUFFICES ASSUME S # {} PROVE FALSE
  <2>1. n \in 0 .. n
    OBVIOUS
  <2>2. n \notin S
    BY <1>1
  <2> HIDE DEF Bounded
  <2>3. Bounded(n)
    BY <2>1, <2>2
  <2> QED
    BY <2>3 DEF Bounded
<1>2. PICK k \in S : \A j \in S : k <= j
  <2>1. S \in SUBSET Nat
    OBVIOUS
  <2> HIDE DEF S
  <2> QED
    BY <1>1, <2>1, LeastElement
<1>3. k \in 0 .. n /\ ~ Bounded(k)
  OBVIOUS
<1>4. k # 0
  BY <1>3
<1>5. Bounded(k - 1)
  <2>1. k - 1 \in 0 .. n /\ ~ (k <= k - 1)
    BY <1>3, <1>4
  <2>2. k - 1 \notin S
    BY <1>2, <2>1
  <2> HIDE DEF Bounded
  <2> QED
    BY <2>1, <2>2
<1>6. PICK l \in Int : \A e \in 0 .. (k - 1) - 1 : l <= f[e]
  BY <1>5
<1>7. k - 1 \in 0 .. n - 1
  BY <1>3, <1>4
<1>8. PICK y \in Int : y = f[k - 1]
  BY <1>7
<1>9. PICK m \in Int : m <= l /\ m <= y
  <2>1. (l <= y \/ y <= l) /\ l <= l /\ y <= y
    OBVIOUS
  <2> QED
    BY <2>1
<1>10. ASSUME NEW e \in 0 .. k - 1 PROVE m <= f[e]
  <2>1. CASE e = k - 1
    BY <1>8, <1>9, <2>1
  <2>2. CASE e # k - 1
    <3>1. e \in 0 .. (k - 1) - 1 /\ e \in 0 .. n - 1
      BY <1>3, <1>4, <2>2
    <3>2. PICK z \in Int : z = f[e]
      BY <3>1
    <3>3. l <= z
      BY <1>6, <3>1, <3>2
    <3> QED
      BY <1>9, <3>2, <3>3
  <2> QED
    BY <2>1, <2>2
<1> QED
  BY <1>3, <1>10

(* The bottom of a box is below the edges in it. *)
LEMMA LowestIs ==
  ASSUME edges \in [Eids -> Segments], NEW p \in SUBSET Eids, p # {}
  PROVE  Lowest(p) \in Int /\ \A e \in p : Lowest(p) <= YMin(edges[e])
<1>1. \A e \in Eids : YMin(edges[e]) \in Int
  BY SegmentsAssumption DEF YMin
<1>2. PICK f \in [0 .. NE - 1 -> Int] : \A e \in Eids : f[e] = YMin(edges[e])
  <2>1. [e \in Eids |-> YMin(edges[e])] \in [0 .. NE - 1 -> Int]
    BY <1>1 DEF Eids
  <2> QED
    BY <2>1
<1>3. PICK l \in Int : \A e \in 0 .. NE - 1 : l <= f[e]
  BY NEAssumption, LowerBound
<1> DEFINE D == {f[e] - l : e \in p}
<1>4. D \in SUBSET Nat /\ D # {}
  <2>1. \A e \in p : f[e] - l \in Nat
    BY <1>3 DEF Eids
  <2> QED
    BY <2>1
<1>5. PICK m \in D : \A d \in D : m <= d
  <2> HIDE DEF D
  <2> QED
    BY <1>4, LeastElement
<1>6. PICK e \in p : m = f[e] - l
  OBVIOUS
<1>7. \A d \in p : f[e] <= f[d]
  <2>1. \A d \in p : f[e] - l <= f[d] - l
    BY <1>5, <1>6
  <2>2. \A d \in p : f[d] \in Int
    BY DEF Eids
  <2> QED
    BY <2>1, <2>2
<1>8. \E y \in {YMin(edges[d]) : d \in p} : \A d \in p : y <= YMin(edges[d])
  BY <1>2, <1>7
<1>9. /\ Lowest(p) \in {YMin(edges[d]) : d \in p}
      /\ \A d \in p : Lowest(p) <= YMin(edges[d])
  BY <1>8 DEF Lowest
<1> QED
  BY <1>1, <1>9

(* Whatever the cuts, an edge is behind some box. *)
LEMMA RangesCover ==
  ASSUME NEW C \in SUBSET (1 .. NE - 1)
  PROVE  /\ Ranges(C) \subseteq SUBSET Eids
         /\ \A e \in Eids : \E p \in Ranges(C) : e \in p
<1>1. Ranges(C) \subseteq SUBSET Eids
  BY DEF Ranges
<1>2. ASSUME NEW e \in Eids PROVE \E p \in Ranges(C) : e \in p
  <2> DEFINE D == {e - lo : lo \in {c \in C \cup {0} : c <= e}}
  <2>1. e \in Nat /\ C \subseteq Nat
    BY NEAssumption DEF Eids
  <2>2. D \in SUBSET Nat /\ D # {}
    BY <2>1
  <2>3. PICK m \in D : \A d \in D : m <= d
    <3> HIDE DEF D
    <3> QED
      BY <2>2, LeastElement
  <2>4. PICK lo \in C \cup {0} : lo <= e /\ m = e - lo
    OBVIOUS
  <2>5. ASSUME NEW c \in C, c > lo PROVE e < c
    <3>1. SUFFICES ASSUME c <= e PROVE FALSE
      BY <2>1
    <3>2. e - c \in D
      BY <3>1
    <3>3. e - lo <= e - c
      BY <2>3, <2>4, <3>2
    <3> QED
      BY <2>1, <2>4, <2>5, <3>3
  <2>6. e \in {d \in Eids : lo <= d /\ \A c \in C : (c > lo) => d < c}
    BY <2>4, <2>5
  <2> QED
    BY <2>6 DEF Ranges
<1> QED
  BY <1>1, <1>2
-----------------------------------------------------------------------------
Y(e) == XsectY(edges[e])

(* A result that is one is a candidate and its height. *)
IsHit(r) == r.eid # NoEdge => Candidate(r.eid) /\ r.y = Y(r.eid)

(* The two programs that decide ties by the id. *)
ById == mode \in {"native", "vk"}

(* Edge d may be the result where it and e cross the ray at one height. *)
SlopeOf(e) == Slope(edges[e])
NotAfter(d, e) ==
  IF ById THEN d <= e ELSE IF qmap = 0 THEN SlopeOf(d) <= SlopeOf(e) ELSE SlopeOf(d) >= SlopeOf(e)

(* With result r, edge e need not be looked at any more. *)
Covers(r, e) ==
  /\ r.eid # NoEdge
  /\ r.y < Y(e) \/ (r.y = Y(e) /\ NotAfter(r.eid, e))

Behind == \A e \in Eids : \E p \in prims : e \in p

PlanarMap == \A d, e \in Eids : d < e => Planar(edges[d], edges[e])

Results ==
  /\ IsHit(local) /\ IsHit(best) /\ IsHit(tmax)
  /\ (mode # "vk" /\ local.eid # NoEdge) => best.eid # NoEdge /\ best.y <= local.y
  /\ tmax.eid # NoEdge => best.eid # NoEdge /\ best.y <= tmax.y

(* What was called for and is not left to test in this call is covered. *)
Tested ==
  \A p \in prims : calls[p] > 0 =>
    \A e \in p : Candidate(e) =>
      Covers(best, e) \/ e \in range \/ (inside /\ mode = "vk" /\ Covers(local, e))

Ended == done => ~inside /\ \A p \in prims : Meets(p) => calls[p] > 0

(* The inductive invariant. *)
Inv ==
  /\ TypeOK
  /\ PlanarMap
  /\ Behind
  /\ range # {} => inside
  /\ Results
  /\ Tested
  /\ Ended

(* A candidate crosses the ray at a height within its box, not below the
   point. *)
LEMMA CandidateIs ==
  ASSUME TypeOK, NEW e \in Eids, Candidate(e)
  PROVE  /\ Y(e) \in Int /\ XMin(edges[e]) <= PX /\ PX <= XMax(edges[e])
         /\ XMin(edges[e]) < XMax(edges[e])
         /\ Width * YMin(edges[e]) <= Y(e) /\ PY <= YMax(edges[e])
<1>1. PICK s \in Segments : s = edges[e]
  BY DEF TypeOK
<1>2. XMin(s) \in Int /\ XMax(s) \in Int /\ PX \in Int /\ PY \in Int
  BY SegmentsAssumption, PointAssumption DEF XMin, XMax
<1>3. ~ Beside(s) /\ ~ Above(s)
  BY <1>1 DEF Candidate
<1>4. XMin(s) <= PX /\ PX <= XMax(s)
  BY <1>2, <1>3 DEF Beside
<1>5. XMin(s) < XMax(s)
  BY <1>2, <1>3, <1>4 DEF Beside, TypeOK
<1>6. /\ XsectY(s) \in Int /\ YMin(s) \in Int /\ YMax(s) \in Int
      /\ Width * YMin(s) <= XsectY(s) /\ XsectY(s) <= Width * YMax(s)
  BY <1>4, <1>5, HeightBounds
<1>7. PICK w \in Nat \ {0}, y \in Int, h \in Int : w = Width /\ y = XsectY(s) /\ h = YMax(s)
  BY <1>6, WidthAssumption
<1>8. ~ (w * PY - y > 0)
  BY <1>3, <1>7 DEF Above
<1>9. PY <= h
  <2>1. SUFFICES ASSUME h + 1 <= PY PROVE FALSE
    BY <1>2
  <2>2. w * (h + 1) <= w * PY
    BY <1>2, <2>1, SMT
  <2>3. w * (h + 1) = w * h + w /\ w * h \in Int /\ w * PY \in Int
    BY <1>2
  <2>4. w * PY <= y /\ y <= w * h
    BY <1>2, <1>6, <1>7, <1>8, <2>3
  <2> QED
    BY <2>2, <2>3, <2>4
<1> QED
  BY <1>1, <1>4, <1>5, <1>6, <1>7, <1>9 DEF Y

(* A candidate has an equation and a slope. *)
LEMMA CandidateHas ==
  ASSUME TypeOK, NEW e \in Eids, Candidate(e)
  PROVE  /\ \E a, b, c \in Int : Small(edges[e], PX, Reach, a, b, c)
         /\ SlopeOf(e) \in Int
<1>1. PICK s \in Segments : s = edges[e]
  BY DEF TypeOK
<1>2. XMin(s) <= PX /\ PX <= XMax(s) /\ XMin(s) < XMax(s)
  BY <1>1, CandidateIs
<1>3. PICK a \in Int, b \in Int, c \in Int : Small(s, PX, Reach, a, b, c)
  BY <1>2, SegmentIs, SmallEquation, PointAssumption, ReachAssumption
<1>4. Equation(s).a = a /\ Equation(s).b = b /\ Equation(s).c = c /\ b \in Nat \ {0}
  BY <1>3 DEF Small
<1>5. PICK h \in Int : h = Rise(s, PX)
  BY <1>4, WholeRise, PointAssumption
<1>6. Slope(s) \in Int
  BY <1>2, <1>4, <1>5, HeightsAreExact
<1> QED
  BY <1>1, <1>3, <1>6 DEF SlopeOf

(* The rule of each back end for ties. *)
LEMMA TieBreakIs ==
  ASSUME TypeOK, NEW d \in Eids, NEW e \in Eids, SlopeOf(d) \in Int, SlopeOf(e) \in Int
  PROVE  /\ TieBreak(e, d) => NotAfter(e, d)
         /\ ~ TieBreak(e, d) => NotAfter(d, e)
         /\ NotAfter(e, e)
<1>1. d \in Int /\ e \in Int
  BY NEAssumption DEF Eids
<1>2. mode \in {"rt", "lbvh", "native", "vk"} /\ qmap \in {0, 1}
  BY ModesAssumption DEF TypeOK
<1>3. PICK i \in Int, j \in Int : i = SlopeOf(d) /\ j = SlopeOf(e)
  OBVIOUS
<1>4. TieBreak(e, d) <=>
        CASE mode = "rt" -> IF j # i THEN (qmap = 0) # (j > i) ELSE e < d
          [] mode = "lbvh" -> (qmap = 0) # (j > i)
          [] OTHER -> e < d
  BY <1>3 DEF TieBreak, SlopeOf
<1>5. /\ NotAfter(e, d) <=> IF ById THEN e <= d ELSE IF qmap = 0 THEN j <= i ELSE j >= i
      /\ NotAfter(d, e) <=> IF ById THEN d <= e ELSE IF qmap = 0 THEN i <= j ELSE i >= j
      /\ NotAfter(e, e) <=> IF ById THEN e <= e ELSE IF qmap = 0 THEN j <= j ELSE j >= j
  BY <1>3 DEF NotAfter
<1>6. CASE mode = "rt"
  BY <1>1, <1>2, <1>4, <1>5, <1>6 DEF ById
<1>7. CASE mode = "lbvh"
  BY <1>1, <1>2, <1>4, <1>5, <1>7 DEF ById
<1>8. CASE mode \in {"native", "vk"}
  BY <1>1, <1>2, <1>4, <1>5, <1>8 DEF ById
<1> QED
  BY <1>2, <1>6, <1>7, <1>8

(* Edges at one height are in an order. *)
LEMMA NotAfterOf ==
  ASSUME NEW c \in Eids, NEW d \in Eids, NEW e \in Eids,
         SlopeOf(c) \in Int, SlopeOf(d) \in Int, SlopeOf(e) \in Int, NotAfter(c, d), NotAfter(d, e)
  PROVE  NotAfter(c, e)
<1>1. c \in Int /\ d \in Int /\ e \in Int
  BY NEAssumption DEF Eids
<1> QED
  BY <1>1 DEF NotAfter

(* The comparison of the back ends: the better result covers what the other
   one did, and is not above it. *)
LEMMA BetterIs ==
  ASSUME TypeOK, NEW r \in Found, IsHit(r), NEW e \in Eids, Candidate(e),
         NEW h, h = [eid |-> e, y |-> Y(e)]
  PROVE  /\ h \in Found /\ IsHit(h) /\ Covers(h, e) /\ h.eid # NoEdge
         /\ Better(e, r) =>
              /\ \A d \in Eids : (Candidate(d) /\ Covers(r, d)) => Covers(h, d)
              /\ r.eid # NoEdge => h.y <= r.y
         /\ ~ Better(e, r) => Covers(r, e)
<1>1. Y(e) \in Int /\ e # NoEdge /\ SlopeOf(e) \in Int
  BY CandidateIs, CandidateHas, NEAssumption DEF Eids, NoEdge
<1>2. h.eid = e /\ h.y = Y(e) /\ h \in Found
  BY <1>1 DEF Found
<1>3. r.y \in Int /\ (r.eid # NoEdge => r.eid \in Eids /\ SlopeOf(r.eid) \in Int)
  <2>1. r.y \in Int /\ (r.eid # NoEdge => r.eid \in Eids)
    BY DEF Found
  <2> QED
    BY <2>1, CandidateHas DEF IsHit
<1>4. Better(e, r) <=> Closer(Y(e), r) \/ (Level(Y(e), r) /\ TieBreak(e, r.eid))
  BY DEF Better, Y
<1>5. r.eid # NoEdge =>
        /\ TieBreak(e, r.eid) => NotAfter(e, r.eid)
        /\ ~ TieBreak(e, r.eid) => NotAfter(r.eid, e)
  BY <1>1, <1>3, TieBreakIs
<1>6. ASSUME NEW d \in Eids, Candidate(d), Covers(r, d), Better(e, r) PROVE Covers(h, d)
  <2>1. Y(d) \in Int /\ SlopeOf(d) \in Int
    BY <1>6, CandidateIs, CandidateHas
  <2>2. r.eid # NoEdge /\ (r.y < Y(d) \/ (r.y = Y(d) /\ NotAfter(r.eid, d)))
    BY <1>6 DEF Covers
  <2>3. Y(e) < r.y \/ (Y(e) = r.y /\ NotAfter(e, r.eid))
    BY <1>4, <1>5, <1>6, <2>2 DEF Closer, Level
  <2>4. NotAfter(e, r.eid) /\ NotAfter(r.eid, d) => NotAfter(e, d)
    BY <1>1, <1>3, <2>1, <2>2, NotAfterOf
  <2>5. Y(e) < Y(d) \/ (Y(e) = Y(d) /\ NotAfter(e, d))
    BY <1>1, <1>3, <2>1, <2>2, <2>3, <2>4
  <2> QED
    BY <1>1, <1>2, <2>5 DEF Covers
<1>7. Better(e, r) /\ r.eid # NoEdge => h.y <= r.y
  BY <1>1, <1>2, <1>3, <1>4 DEF Closer, Level
<1>8. ~ Better(e, r) => Covers(r, e)
  <2>1. SUFFICES ASSUME ~ Better(e, r) PROVE Covers(r, e)
    OBVIOUS
  <2>2. r.eid # NoEdge /\ r.y <= Y(e)
    BY <1>1, <1>3, <1>4, <2>1 DEF Closer
  <2>3. Y(e) = r.y => NotAfter(r.eid, e)
    BY <1>4, <1>5, <2>1, <2>2 DEF Level
  <2> QED
    BY <1>1, <1>3, <2>2, <2>3 DEF Covers
<1>9. IsHit(h) /\ Covers(h, e)
  <2>1. NotAfter(e, e)
    BY <1>1, TieBreakIs
  <2> QED
    BY <1>1, <1>2, <2>1 DEF IsHit, Covers
<1> QED
  BY <1>1, <1>2, <1>6, <1>7, <1>8, <1>9

(* No step changes the map, so what is said of the results after a step is
   said of their new values. *)
LEMMA InputsKept ==
  ASSUME UNCHANGED inputs, NEW l, l = local', NEW b, b = best', NEW m, m = tmax'
  PROVE  /\ mode' = mode /\ prims' = prims /\ edges' = edges /\ qmap' = qmap
         /\ \A d : Candidate(d)' <=> Candidate(d)
         /\ IsHit(local)' <=> IsHit(l)
         /\ IsHit(best)' <=> IsHit(b)
         /\ IsHit(tmax)' <=> IsHit(m)
         /\ \A d : Covers(local, d)' <=> Covers(l, d)
         /\ \A d : Covers(best, d)' <=> Covers(b, d)
         /\ (Behind /\ PlanarMap)' <=> Behind /\ PlanarMap
<1>1. mode' = mode /\ prims' = prims /\ edges' = edges /\ qmap' = qmap
  BY DEF inputs
<1>2. \A d : Candidate(d)' <=> Candidate(d)
  BY <1>1 DEF Candidate, Beside, Above
<1>3. /\ IsHit(local)' <=> IsHit(l)
      /\ IsHit(best)' <=> IsHit(b)
      /\ IsHit(tmax)' <=> IsHit(m)
  BY <1>1 DEF IsHit, Candidate, Beside, Above, Y
<1>4. /\ \A d : Covers(local, d)' <=> Covers(l, d)
      /\ \A d : Covers(best, d)' <=> Covers(b, d)
  BY <1>1 DEF Covers, NotAfter, SlopeOf, ById, Y
<1>5. (Behind /\ PlanarMap)' <=> Behind /\ PlanarMap
  BY <1>1 DEF Behind, PlanarMap
<1> QED
  BY <1>1, <1>2, <1>3, <1>4, <1>5

(* No result is one at first. *)
LEMMA InfiniteIs ==
  /\ Infinite \in Found /\ Infinite.eid = NoEdge
  /\ \A e \in Eids : e # NoEdge
  /\ IsHit(Infinite)
BY NEAssumption DEF Infinite, Found, IsHit, Eids, NoEdge

(* The invariant holds before the ray starts. *)
LEMMA InitHolds == Init => Inv
<1> SUFFICES ASSUME Init PROVE Inv
  OBVIOUS
<1>1. /\ mode \in Modes /\ qmap \in {0, 1} /\ edges \in [Eids -> Segments]
      /\ calls = [p \in prims |-> 0] /\ range = {} /\ inside = FALSE /\ done = FALSE
      /\ local = Infinite /\ best = Infinite /\ tmax = Infinite
  BY DEF Init
<1>2. prims \subseteq SUBSET Eids /\ Behind /\ PlanarMap
  <2>1. PICK C \in SUBSET (1 .. NE - 1) : prims = Ranges(C)
    BY DEF Init
  <2> QED
    BY <2>1, RangesCover DEF Init, Behind, PlanarMap
<1>3. calls \in [prims -> 0 .. MaxCalls]
  BY <1>1, CallsAssumption
<1>4. TypeOK
  BY <1>1, <1>2, <1>3, InfiniteIs DEF TypeOK
<1>5. Results
  BY <1>1, InfiniteIs DEF Results
<1>6. Tested
  BY <1>1 DEF Tested
<1>7. Ended
  BY <1>1 DEF Ended
<1> QED
  BY <1>1, <1>2, <1>4, <1>5, <1>6, <1>7 DEF Inv

(* A call starts with all edges behind the box to test. *)
LEMMA EnterStep ==
  ASSUME Inv, NEW p \in prims, Enter(p) PROVE Inv'
<1>1. /\ TypeOK /\ Behind /\ PlanarMap /\ Results /\ Tested
      /\ ~ inside /\ ~ done /\ range = {}
      /\ calls[p] < IF mode = "lbvh" THEN 1 ELSE MaxCalls
      /\ calls' = [calls EXCEPT ![p] = calls[p] + 1]
      /\ range' = p /\ inside' = TRUE /\ local' = Infinite
      /\ UNCHANGED inputs /\ UNCHANGED <<best, tmax, done>>
  BY DEF Inv, Enter
<1>2. PICK l, b, m : l = local' /\ b = best' /\ m = tmax'
  OBVIOUS
<1>3. /\ mode' = mode /\ prims' = prims /\ edges' = edges /\ qmap' = qmap
      /\ \A d : Candidate(d)' <=> Candidate(d)
      /\ IsHit(local)' <=> IsHit(l)
      /\ IsHit(best)' <=> IsHit(b)
      /\ IsHit(tmax)' <=> IsHit(m)
      /\ \A d : Covers(best, d)' <=> Covers(b, d)
      /\ Behind' /\ PlanarMap'
  BY <1>1, <1>2, InputsKept
<1>4. calls[p] \in 0 .. MaxCalls /\ calls[p] + 1 \in 0 .. MaxCalls
  BY <1>1, CallsAssumption DEF TypeOK
<1>5. calls' \in [prims -> 0 .. MaxCalls] /\ \A q \in prims : q # p => calls'[q] = calls[q]
  BY <1>1, <1>4 DEF TypeOK
<1>6. p \subseteq Eids
  BY <1>1 DEF TypeOK
<1>7. TypeOK'
  BY <1>1, <1>3, <1>5, <1>6, InfiniteIs DEF TypeOK
<1>8. Results'
  BY <1>1, <1>2, <1>3, InfiniteIs DEF Results
<1>9. Tested'
  <2>1. SUFFICES ASSUME NEW q \in prims, calls'[q] > 0, NEW e \in q, Candidate(e)
                 PROVE  Covers(best, e)' \/ e \in range'
    BY <1>3 DEF Tested
  <2>2. CASE q = p
    BY <1>1, <2>1, <2>2
  <2>3. CASE q # p
    <3>1. calls[q] > 0
      BY <1>5, <2>1, <2>3
    <3>2. Covers(best, e)
      BY <1>1, <2>1, <3>1 DEF Tested
    <3> QED
      BY <1>1, <1>2, <1>3, <3>2
  <2> QED
    BY <2>2, <2>3
<1>10. Ended'
  BY <1>1 DEF Ended
<1> QED
  BY <1>1, <1>3, <1>7, <1>8, <1>9, <1>10 DEF Inv

(* The loop tests the least edge that is left. *)
LEMMA CurrentIsLeft ==
  ASSUME range \subseteq Eids, range # {}
  PROVE  Current \in range
<1>1. range \in SUBSET Nat
  BY NEAssumption DEF Eids
<1>2. \E e \in range : \A d \in range : e <= d
  BY <1>1, LeastElement
<1> QED
  BY <1>2 DEF Current

(* An edge that is tested becomes the result or is covered by it, and what the
   result covered stays covered. *)
LEMMA TestStep ==
  ASSUME Inv, Test PROVE Inv'
<1>1. PICK e : e = Current
  OBVIOUS
<1>2. PICK h : h = [eid |-> e, y |-> Y(e)]
  OBVIOUS
<1>3. PICK r : r = IF mode = "vk" THEN local ELSE best
  OBVIOUS
<1>4. /\ TypeOK /\ Behind /\ PlanarMap /\ Results /\ Tested /\ Ended /\ range # {} /\ inside
      /\ range' = range \ {e}
      /\ IF Candidate(e) /\ Better(e, r)
         THEN local' = h /\ best' = (IF mode = "vk" THEN best ELSE h)
         ELSE local' = local /\ best' = best
      /\ UNCHANGED inputs /\ UNCHANGED <<calls, inside, tmax, done>>
  BY <1>1, <1>2, <1>3 DEF Inv, Test, Y
<1>5. e \in range /\ e \in Eids
  BY <1>1, <1>4, CurrentIsLeft DEF TypeOK
<1>6. PICK l, b, m : l = local' /\ b = best' /\ m = tmax'
  OBVIOUS
<1>7. /\ mode' = mode /\ prims' = prims /\ edges' = edges /\ qmap' = qmap
      /\ \A d : Candidate(d)' <=> Candidate(d)
      /\ IsHit(local)' <=> IsHit(l)
      /\ IsHit(best)' <=> IsHit(b)
      /\ IsHit(tmax)' <=> IsHit(m)
      /\ \A d : Covers(local, d)' <=> Covers(l, d)
      /\ \A d : Covers(best, d)' <=> Covers(b, d)
      /\ Behind' /\ PlanarMap'
  BY <1>4, <1>6, InputsKept
<1>8. r \in Found /\ local \in Found /\ best \in Found /\ tmax \in Found
  BY <1>3, <1>4 DEF TypeOK
<1>9. \A s \in Found : s.y \in Int
  BY DEF Found
<1>10. Candidate(e) =>
         /\ h \in Found /\ IsHit(h) /\ Covers(h, e) /\ h.eid # NoEdge
         /\ Better(e, r) =>
              /\ \A d \in Eids : (Candidate(d) /\ Covers(r, d)) => Covers(h, d)
              /\ r.eid # NoEdge => h.y <= r.y
         /\ ~ Better(e, r) => Covers(r, e)
  BY <1>2, <1>3, <1>4, <1>5, <1>8, BetterIs DEF Results
<1>11. /\ l \in Found /\ b \in Found /\ IsHit(l) /\ IsHit(b)
       /\ mode = "vk" => b = best
  BY <1>4, <1>6, <1>8, <1>10 DEF Results
<1>12. TypeOK'
  BY <1>4, <1>6, <1>7, <1>11 DEF TypeOK
<1>13. Results'
  <2>1. (mode # "vk" /\ l.eid # NoEdge) => b.eid # NoEdge /\ b.y <= l.y
    BY <1>3, <1>4, <1>6, <1>9, <1>10, <1>11 DEF Results
  <2>2. tmax.eid # NoEdge => b.eid # NoEdge /\ b.y <= tmax.y
    <3>1. SUFFICES ASSUME tmax.eid # NoEdge PROVE b.eid # NoEdge /\ b.y <= tmax.y
      OBVIOUS
    <3>2. best.eid # NoEdge /\ best.y <= tmax.y
      BY <1>4, <3>1 DEF Results
    <3>3. b = best \/ (b = h /\ h.eid # NoEdge /\ h.y <= best.y)
      BY <1>3, <1>4, <1>6, <1>10, <3>2
    <3> QED
      BY <1>8, <1>9, <1>11, <3>2, <3>3
  <2> QED
    BY <1>4, <1>6, <1>7, <1>11, <2>1, <2>2 DEF Results
<1>14. Tested'
  <2>1. SUFFICES ASSUME NEW p \in prims, calls[p] > 0, NEW d \in p, Candidate(d)
                 PROVE  Covers(b, d) \/ d \in range' \/ (mode = "vk" /\ Covers(l, d))
    BY <1>4, <1>7 DEF Tested
  <2>2. Covers(best, d) \/ d \in range \/ (mode = "vk" /\ Covers(local, d))
    BY <1>4, <2>1 DEF Tested
  <2>3. d \in Eids
    BY <1>4, <2>1 DEF TypeOK
  <2>4. CASE Covers(best, d)
    BY <1>3, <1>4, <1>6, <1>10, <1>11, <2>1, <2>3, <2>4
  <2>5. CASE d \in range /\ d # e
    BY <1>4, <2>5
  <2>6. CASE d = e
    BY <1>3, <1>4, <1>6, <1>10, <2>1, <2>6
  <2>7. CASE mode = "vk" /\ Covers(local, d)
    BY <1>3, <1>4, <1>6, <1>10, <2>1, <2>3, <2>7
  <2> QED
    BY <2>2, <2>4, <2>5, <2>6, <2>7
<1>15. Ended'
  BY <1>4 DEF Ended
<1> QED
  BY <1>4, <1>7, <1>12, <1>13, <1>14, <1>15 DEF Inv

(* The call ends: what it found is merged, and what is reported never lies
   below the result. *)
LEMMA LeaveStep ==
  ASSUME Inv, Leave PROVE Inv'
<1>1. /\ TypeOK /\ Behind /\ PlanarMap /\ Results /\ Tested /\ Ended /\ inside /\ range = {}
      /\ inside' = FALSE /\ best' = Merge /\ tmax' = Report
      /\ UNCHANGED inputs /\ UNCHANGED <<calls, range, local, done>>
  BY DEF Inv, Leave
<1>2. PICK l, b, m : l = local' /\ b = best' /\ m = tmax'
  OBVIOUS
<1>3. /\ mode' = mode /\ prims' = prims /\ edges' = edges /\ qmap' = qmap
      /\ \A d : Candidate(d)' <=> Candidate(d)
      /\ IsHit(local)' <=> IsHit(l)
      /\ IsHit(best)' <=> IsHit(b)
      /\ IsHit(tmax)' <=> IsHit(m)
      /\ \A d : Covers(best, d)' <=> Covers(b, d)
      /\ Behind' /\ PlanarMap'
  BY <1>1, <1>2, InputsKept
<1>4. /\ local \in Found /\ best \in Found /\ tmax \in Found
      /\ \A s \in Found : s.y \in Int /\ (s.eid # NoEdge => s.eid \in Eids)
      /\ \A s \in Found : s = [eid |-> s.eid, y |-> s.y]
  BY <1>1 DEF TypeOK, Found
<1>5. b = (IF mode = "vk" /\ local.eid # NoEdge /\ Better(local.eid, best) THEN local ELSE best)
  BY <1>1, <1>2 DEF Merge
<1>6. (m = local /\ local.eid # NoEdge /\ Closer(local.y, tmax)) \/ m = tmax
  BY <1>1, <1>2 DEF Report
<1>7. local.eid # NoEdge =>
        /\ Covers(local, local.eid)
        /\ Better(local.eid, best) =>
             /\ \A d \in Eids : (Candidate(d) /\ Covers(best, d)) => Covers(local, d)
             /\ best.eid # NoEdge => local.y <= best.y
        /\ ~ Better(local.eid, best) => Covers(best, local.eid)
  <2>1. SUFFICES ASSUME local.eid # NoEdge
                 PROVE  /\ Covers(local, local.eid)
                        /\ Better(local.eid, best) =>
                             /\ \A d \in Eids : (Candidate(d) /\ Covers(best, d)) => Covers(local, d)
                             /\ best.eid # NoEdge => local.y <= best.y
                        /\ ~ Better(local.eid, best) => Covers(best, local.eid)
    OBVIOUS
  <2>2. PICK e \in Eids : e = local.eid
    BY <1>4, <2>1
  <2>3. Candidate(e) /\ local = [eid |-> e, y |-> Y(e)]
    BY <1>1, <1>4, <2>1, <2>2 DEF Results, IsHit
  <2> QED
    BY <1>1, <1>4, <2>2, <2>3, BetterIs DEF Results
<1>8. /\ b \in Found /\ IsHit(b) /\ m \in Found /\ IsHit(m)
  BY <1>1, <1>4, <1>5, <1>6 DEF Results
<1>9. local.eid # NoEdge => b.eid # NoEdge /\ b.y <= local.y
  <2>1. SUFFICES ASSUME local.eid # NoEdge PROVE b.eid # NoEdge /\ b.y <= local.y
    OBVIOUS
  <2>2. CASE mode # "vk"
    BY <1>1, <1>5, <2>1, <2>2 DEF Results
  <2>3. CASE mode = "vk" /\ Better(local.eid, best)
    BY <1>4, <1>5, <2>1, <2>3
  <2>4. CASE mode = "vk" /\ ~ Better(local.eid, best)
    <3>1. b = best /\ Covers(best, local.eid)
      BY <1>5, <1>7, <2>1, <2>4
    <3>2. Y(local.eid) = local.y
      BY <1>1, <2>1 DEF Results, IsHit
    <3> QED
      BY <1>4, <3>1, <3>2 DEF Covers
  <2> QED
    BY <2>2, <2>3, <2>4
<1>10. best.eid # NoEdge => b.eid # NoEdge /\ b.y <= best.y
  BY <1>4, <1>5, <1>7
<1>11. TypeOK'
  BY <1>1, <1>2, <1>3, <1>8 DEF TypeOK
<1>12. Results'
  <2>1. m.eid # NoEdge => b.eid # NoEdge /\ b.y <= m.y
    <3>1. CASE m = local
      BY <1>9, <3>1
    <3>2. CASE m = tmax
      BY <1>1, <1>4, <1>8, <1>10, <3>2 DEF Results
    <3> QED
      BY <1>6, <3>1, <3>2
  <2>2. l = local /\ IsHit(l)
    BY <1>1, <1>2 DEF Results
  <2> QED
    BY <1>2, <1>3, <1>8, <1>9, <2>1, <2>2 DEF Results
<1>13. Tested'
  <2>1. SUFFICES ASSUME NEW p \in prims, calls[p] > 0, NEW d \in p, Candidate(d)
                 PROVE  Covers(b, d)
    BY <1>1, <1>3 DEF Tested
  <2>2. d \in Eids /\ (Covers(best, d) \/ (mode = "vk" /\ Covers(local, d)))
    BY <1>1, <2>1 DEF Tested, TypeOK
  <2>3. CASE Covers(best, d)
    BY <1>5, <1>7, <2>1, <2>2, <2>3
  <2>4. CASE mode = "vk" /\ Covers(local, d)
    <3>1. local.eid # NoEdge
      BY <2>4 DEF Covers
    <3>2. CASE Better(local.eid, best)
      BY <1>5, <2>4, <3>1, <3>2
    <3>3. CASE ~ Better(local.eid, best)
      <4>1. b = best /\ Covers(best, local.eid)
        BY <1>5, <1>7, <3>1, <3>3
      <4>2. Y(local.eid) = local.y /\ local.y \in Int /\ best.y \in Int /\ Y(d) \in Int
        BY <1>1, <1>4, <2>1, <2>2, <3>1, CandidateIs DEF Results, IsHit
      <4>3. local.eid \in Int /\ d \in Int /\ best.eid \in Int
        BY <1>4, <2>2, <3>1, <4>1, NEAssumption DEF Eids, Covers
      <4> QED
        BY <2>4, <4>1, <4>2, <4>3 DEF Covers, NotAfter, ById
    <3> QED
      BY <3>2, <3>3
  <2> QED
    BY <2>2, <2>3, <2>4
<1>14. Ended'
  BY <1>1 DEF Ended
<1> QED
  BY <1>1, <1>3, <1>11, <1>12, <1>13, <1>14 DEF Inv

(* The ray ends; nothing else changes. *)
LEMMA FinishStep ==
  ASSUME Inv, Finish PROVE Inv'
<1>1. /\ TypeOK /\ Behind /\ PlanarMap /\ Results /\ Tested /\ (range # {} => inside) /\ ~ inside
      /\ \A p \in prims : Meets(p) => calls[p] > 0
      /\ done' = TRUE
      /\ UNCHANGED inputs /\ UNCHANGED <<calls, range, inside, local, best, tmax>>
  BY DEF Inv, Finish
<1>2. mode' = mode /\ prims' = prims /\ edges' = edges /\ qmap' = qmap
  BY <1>1 DEF inputs
<1>3. TypeOK' /\ Behind' /\ PlanarMap' /\ (range' # {} => inside')
  BY <1>1, <1>2 DEF TypeOK, Behind, PlanarMap
<1>4. Results'
  BY <1>1, <1>2 DEF Results, IsHit, Candidate, Beside, Above, Y
<1>5. Tested'
  BY <1>1, <1>2 DEF Tested, Covers, NotAfter, SlopeOf, ById, Candidate, Beside, Above, Y
<1>6. Ended'
  <2>1. \A p \in prims : Meets(p)' <=> Meets(p)
    BY <1>1, <1>2 DEF Meets, Lowest
  <2> QED
    BY <1>1, <1>2, <2>1 DEF Ended
<1> QED
  BY <1>3, <1>4, <1>5, <1>6 DEF Inv

(* A step that changes nothing keeps the invariant. *)
LEMMA StutterStep ==
  ASSUME Inv, UNCHANGED vars PROVE Inv'
<1>1. /\ mode' = mode /\ prims' = prims /\ edges' = edges /\ qmap' = qmap
      /\ UNCHANGED <<calls, range, inside, local, best, tmax, done>>
  BY DEF vars, inputs
<1>2. TypeOK' /\ Behind' /\ PlanarMap' /\ (range' # {} => inside')
  BY <1>1 DEF Inv, TypeOK, Behind, PlanarMap
<1>3. Results'
  BY <1>1 DEF Inv, Results, IsHit, Candidate, Beside, Above, Y
<1>4. Tested'
  BY <1>1 DEF Inv, Tested, Covers, NotAfter, SlopeOf, ById, Candidate, Beside, Above, Y
<1>5. Ended'
  <2>1. \A p \in prims : Meets(p)' <=> Meets(p)
    BY <1>1 DEF Meets, Lowest
  <2> QED
    BY <1>1, <2>1 DEF Inv, Ended
<1> QED
  BY <1>2, <1>3, <1>4, <1>5 DEF Inv
-----------------------------------------------------------------------------
(* Whatever box the traversal calls for, and however often, each candidate it
   has shown to the intersection program is covered by what was found. *)
THEOREM Invariance == Spec => []Inv
<1>1. Inv /\ [Next]_vars => Inv'
  <2> SUFFICES ASSUME Inv, [Next]_vars PROVE Inv'
    OBVIOUS
  <2>1. ASSUME NEW p \in prims, Enter(p) PROVE Inv'
    BY <2>1, EnterStep
  <2> QED
    BY <2>1, TestStep, LeaveStep, FinishStep, StutterStep DEF Next, Idle
<1> QED
  BY InitHolds, <1>1, PTL DEF Spec

(* Every variable keeps its type: in particular no height is computed for a
   vertical edge, by whose width it would be divided. *)
THEOREM TypeCorrect == Spec => []TypeOK
<1>1. Inv => TypeOK
  BY DEF Inv
<1> QED
  BY Invariance, <1>1, PTL

(* When the ray has ended every candidate is covered, also those behind boxes
   it never met: these cross the ray above the hit that was reported. *)
LEMMA AllCovered ==
  ASSUME Inv, done, NEW e \in Eids, Candidate(e)
  PROVE  Covers(best, e)
<1>1. PICK p \in prims : e \in p
  BY DEF Inv, Behind
<1>2. TypeOK /\ Results /\ Tested /\ ~ inside /\ range = {} /\ p \in SUBSET Eids
      /\ \A q \in prims : Meets(q) => calls[q] > 0
  BY DEF Inv, Ended, TypeOK
<1>3. CASE calls[p] > 0
  BY <1>1, <1>2, <1>3 DEF Tested
<1>4. CASE ~ (calls[p] > 0)
  <2>1. ~ Meets(p)
    BY <1>2, <1>4
  <2>2. /\ Y(e) \in Int /\ XMin(edges[e]) <= PX /\ PX <= XMax(edges[e])
        /\ Width * YMin(edges[e]) <= Y(e) /\ PY <= YMax(edges[e])
    BY <1>2, CandidateIs
  <2>3. tmax.eid # NoEdge /\ ~ (Width * Lowest(p) <= tmax.y)
    BY <1>1, <2>1, <2>2 DEF Meets
  <2>4. PICK lo \in Int, y \in Int : lo = Lowest(p) /\ y = YMin(edges[e]) /\ lo <= y
    <3>1. Lowest(p) \in Int /\ \A d \in p : Lowest(p) <= YMin(edges[d])
      BY <1>1, <1>2, LowestIs DEF TypeOK
    <3>2. YMin(edges[e]) \in Int
      BY <1>2, SegmentsAssumption DEF YMin, TypeOK
    <3> QED
      BY <1>1, <3>1, <3>2
  <2>5. PICK w \in Nat \ {0} : w = Width
    BY WidthAssumption
  <2>6. w * lo <= w * y /\ w * lo \in Int /\ w * y \in Int
    BY <2>4, SMT
  <2>7. best.eid # NoEdge /\ best.y <= tmax.y /\ best.y \in Int /\ tmax.y \in Int
    BY <1>2, <2>3 DEF Results, TypeOK, Found
  <2>8. best.y < Y(e)
    BY <2>2, <2>3, <2>4, <2>5, <2>6, <2>7
  <2> QED
    BY <2>7, <2>8 DEF Covers
<1> QED
  BY <1>3, <1>4

(* In all four back ends the edge that is returned crosses the ray at the
   lowest height at which any edge does, and if none is returned none does. *)
Lowermost ==
  done =>
    \/ best.eid = NoEdge /\ \A e \in Eids : ~ Candidate(e)
    \/ /\ best.eid \in Eids /\ Candidate(best.eid)
       /\ \A e \in Eids : Candidate(e) => XsectY(edges[best.eid]) <= XsectY(edges[e])

(* Whatever boxes the traversal calls for: what is returned is above the point
   and nothing lower is. *)
THEOREM ReturnsLowest == Spec => []Lowermost
<1>1. Inv => Lowermost
  <2> SUFFICES ASSUME Inv, done
               PROVE \/ best.eid = NoEdge /\ \A e \in Eids : ~ Candidate(e)
                     \/ /\ best.eid \in Eids /\ Candidate(best.eid)
                        /\ \A e \in Eids : Candidate(e) => XsectY(edges[best.eid]) <= XsectY(edges[e])
    BY DEF Lowermost
  <2>1. \A e \in Eids : Candidate(e) => Covers(best, e)
    BY AllCovered
  <2>2. TypeOK /\ IsHit(best) /\ best.y \in Int /\ (best.eid # NoEdge => best.eid \in Eids)
    BY DEF Inv, Results, TypeOK, Found
  <2>3. CASE best.eid = NoEdge
    BY <2>1, <2>3 DEF Covers
  <2>4. CASE best.eid # NoEdge
    <3>1. best.eid \in Eids /\ Candidate(best.eid) /\ best.y = XsectY(edges[best.eid])
      BY <2>2, <2>4 DEF IsHit, Y
    <3>2. ASSUME NEW e \in Eids, Candidate(e) PROVE best.y <= XsectY(edges[e])
      BY <2>1, <2>2, <3>2, CandidateIs DEF Covers, Y
    <3> QED
      BY <3>1, <3>2
  <2> QED
    BY <2>3, <2>4
<1> QED
  BY Invariance, <1>1, PTL

(* The native OptiX and the Vulkan program return the same edge: of those that
   cross the ray lowest the one with the smallest id. *)
THEOREM ReturnsLowestId == Spec => []LowestId
<1>1. Inv => LowestId
  <2> SUFFICES ASSUME Inv, done, mode \in {"native", "vk"}
               PROVE \/ best.eid = NoEdge /\ \A e \in Eids : ~ Candidate(e)
                     \/ /\ best.eid \in Eids /\ Candidate(best.eid)
                        /\ \A e \in Eids : Candidate(e) =>
                             \/ XsectY(edges[e]) > XsectY(edges[best.eid])
                             \/ XsectY(edges[e]) = XsectY(edges[best.eid]) /\ best.eid <= e
    BY DEF LowestId
  <2>1. \A e \in Eids : Candidate(e) => Covers(best, e)
    BY AllCovered
  <2>2. TypeOK /\ IsHit(best) /\ best.y \in Int /\ (best.eid # NoEdge => best.eid \in Eids)
    BY DEF Inv, Results, TypeOK, Found
  <2>3. CASE best.eid = NoEdge
    BY <2>1, <2>3 DEF Covers
  <2>4. CASE best.eid # NoEdge
    <3>1. best.eid \in Eids /\ Candidate(best.eid) /\ best.y = XsectY(edges[best.eid])
      BY <2>2, <2>4 DEF IsHit, Y
    <3>2. ASSUME NEW e \in Eids, Candidate(e)
          PROVE  \/ XsectY(edges[e]) > best.y
                 \/ XsectY(edges[e]) = best.y /\ best.eid <= e
      BY <2>1, <2>2, <3>2, CandidateIs DEF Covers, NotAfter, Y, ById
    <3> QED
      BY <3>1, <3>2
  <2> QED
    BY <2>3, <2>4
<1> QED
  BY Invariance, <1>1, PTL
-----------------------------------------------------------------------------
(* What the tests compare is what the moved point would see. *)

(* Numbers in a fixed positive ratio compare to zero alike. *)
LEMMA SignOfRatio ==
  ASSUME NEW p \in Nat \ {0}, NEW q \in Nat \ {0}, NEW u \in Int, NEW v \in Int, u * p = q * v
  PROVE  SameSign(u, v)
<1>1. (u > 0 => u * p > 0) /\ (u < 0 => u * p < 0) /\ (u = 0 => u * p = 0)
  <2>1. u > 0 => u * p > 0
    OBVIOUS
  <2>2. u < 0 => u * p < 0
    OBVIOUS
  <2> QED
    BY <2>1, <2>2
<1>2. (v > 0 => q * v > 0) /\ (v < 0 => q * v < 0) /\ (v = 0 => q * v = 0)
  <2>1. v > 0 => q * v > 0
    OBVIOUS
  <2>2. v < 0 => q * v < 0
    OBVIOUS
  <2> QED
    BY <2>1, <2>2
<1>3. PICK n \in Int : n = u * p /\ n = q * v
  OBVIOUS
<1> QED
  BY <1>1, <1>2, <1>3 DEF SameSign

(* Fine is more than any coefficient, and any product of two, comes to. *)
LEMMA FineIsFine == Fine \in Nat \ {0} /\ Fine > 1 /\ IsFine(Fine, Reach)
<1> USE ReachAssumption
<1>1. PICK n \in Nat : n = Reach * Reach
  OBVIOUS
<1>2. Reach <= n
  BY <1>1
<1>3. 2 * Reach * Reach = 2 * n
  BY <1>1
<1> QED
  BY <1>1, <1>2, <1>3 DEF Fine, IsFine

(* Which way the point is moved. *)
LEMMA ShiftIsOne ==
  ASSUME qmap \in {0, 1}
  PROVE  Shift \in {1, -1} /\ (Shift = 1 <=> qmap = 1) /\ (Shift = -1 <=> qmap = 0)
BY DEF Shift

(* The test on x. *)
LEMMA NotBeside ==
  ASSUME NEW s \in Segments, qmap \in {0, 1}
  PROVE  /\ ~ Beside(s) <=> /\ Fine * XMin(s) < Fine * PX + Shift
                            /\ Fine * PX + Shift < Fine * XMax(s)
         /\ ~ Beside(s) => XMin(s) < XMax(s) /\ XMin(s) <= PX /\ PX <= XMax(s)
<1>1. PICK l \in Int, r \in Int, x \in Int : l = XMin(s) /\ r = XMax(s) /\ x = PX
  BY SegmentIs, PointAssumption
<1>2. PICK f \in Nat : f = Fine /\ f > 1
  BY FineIsFine
<1>3. PICK g \in {1, -1} : g = Shift /\ (g = 1 <=> qmap = 1) /\ (g = -1 <=> qmap = 0)
  BY ShiftIsOne
<1>4. /\ f * l < f * x + g <=> l < x \/ (l = x /\ g = 1)
      /\ f * x + g < f * r <=> x < r \/ (r = x /\ g = -1)
  BY <1>2, ShiftedOrder
<1>5. Beside(s) <=> x < l \/ x > r \/ x = (IF qmap = 0 THEN l ELSE r)
  BY <1>1 DEF Beside
<1>6. ~ Beside(s) <=> /\ l < x \/ (l = x /\ g = 1)
                      /\ x < r \/ (r = x /\ g = -1)
  BY <1>3, <1>5
<1>7. ~ Beside(s) => l < r /\ l <= x /\ x <= r
  BY <1>3, <1>6
<1> QED
  BY <1>1, <1>2, <1>3, <1>4, <1>6, <1>7

(* The test on y, which at a tie looks at the sign of a and then of b. *)
LEMMA NotAbove ==
  ASSUME NEW s \in Segments, qmap \in {0, 1}, XMin(s) < XMax(s),
         NEW a \in Int, NEW b \in Int, NEW c \in Int, Small(s, PX, Reach, a, b, c)
  PROVE  ~ Above(s) <=> HeightMoved(s, PX, Fine, Shift) > (Fine * Fine * PY + Shift) * Equation(s).b
<1>1. /\ Equation(s).a = a /\ Equation(s).b = b /\ Equation(s).c = c /\ b \in Nat \ {0}
  BY DEF Small
<1>2. PICK f \in Nat : f = Fine /\ IsFine(f, Reach)
  BY FineIsFine
<1>3. PICK g \in {1, -1} : g = Shift /\ (g = 1 <=> qmap = 1) /\ (g = -1 <=> qmap = 0)
  BY ShiftIsOne
<1>4. PICK x \in Int, y \in Int, w \in Nat \ {0}, R \in Nat : x = PX /\ y = PY /\ w = Width /\ R = Reach
  BY PointAssumption, WidthAssumption, ReachAssumption
<1>5. PICK v \in Int : ValueAt(v, a, b, c, x, y)
  BY DEF ValueAt
<1>6. PICK h \in Int : h = Rise(s, x) /\ v = y * b - h
  <2>1. PICK m \in Int, n \in Int : m = a * x /\ n = y * b
    OBVIOUS
  <2>2. Rise(s, x) = -m - c
    BY <1>1, <2>1 DEF Rise
  <2>3. x * a = m
    BY <2>1
  <2>4. v = n - (-m - c) /\ -m - c \in Int
    BY <1>5, <2>1, <2>3 DEF ValueAt
  <2> QED
    BY <2>1, <2>2, <2>4
<1>7. PICK t \in Int : t = XsectY(s) /\ t * b = w * h
  BY <1>1, <1>4, <1>6, HeightsAreExact
<1>8. PICK d \in Int : d = w * y - t
  OBVIOUS
<1>9. SameSign(d, v)
  <2>1. d * b = w * (y * b) - t * b
    BY <1>8
  <2>2. w * v = w * (y * b) - w * h
    BY <1>6
  <2>3. d * b = w * v
    BY <1>7, <2>1, <2>2
  <2> QED
    BY <1>1, <2>3, SignOfRatio
<1>10. Above(s) <=> d > 0 \/ (d = 0 /\ IF a = 0 THEN qmap = 1 ELSE (IF qmap = 0 THEN -a > 0 ELSE a > 0))
  BY <1>1, <1>4, <1>7, <1>8 DEF Above
<1>11. Above(s) <=> Decided(v, a, b, g) > 0
  <2>1. (d > 0 <=> v > 0) /\ (d = 0 <=> v = 0)
    BY <1>9 DEF SameSign
  <2>2. CASE g = 1
    BY <1>1, <1>3, <1>10, <2>1, <2>2 DEF Decided
  <2>3. CASE g = -1
    BY <1>1, <1>3, <1>10, <2>1, <2>3 DEF Decided
  <2> QED
    BY <2>2, <2>3
<1>12. HeightMoved(s, x, f, g) > (f * f * y + g) * Equation(s).b <=> ~ (Decided(v, a, b, g) > 0)
  <2>1. Small(s, x, R, a, b, c) /\ IsFine(f, R)
    BY <1>2, <1>4
  <2> QED
    BY <1>5, <2>1, HeightDecides
<1> QED
  BY <1>2, <1>3, <1>4, <1>11, <1>12

(* The edges that pass both are those over the moved point. *)
LEMMA CandidatesAreOver ==
  ASSUME TypeOK
  PROVE  \A e \in Eids : e \in OverPoint <=> Candidate(e)
<1> TAKE e \in Eids
<1>1. PICK s \in Segments : s = edges[e]
  BY DEF TypeOK
<1>2. qmap \in {0, 1}
  BY DEF TypeOK
<1>3. e \in OverPoint <=> OverMoved(s, PX, PY, Fine, Shift)
  BY <1>1 DEF OverPoint
<1>4. Candidate(e) <=> ~ Beside(s) /\ ~ Above(s)
  BY <1>1 DEF Candidate
<1>5. CASE Beside(s)
  BY <1>2, <1>3, <1>4, <1>5, NotBeside DEF OverMoved
<1>6. CASE ~ Beside(s)
  <2>1. XMin(s) < XMax(s) /\ XMin(s) <= PX /\ PX <= XMax(s)
    BY <1>2, <1>6, NotBeside
  <2>2. PICK a \in Int, b \in Int, c \in Int : Small(s, PX, Reach, a, b, c)
    BY <2>1, SegmentIs, SmallEquation, PointAssumption, ReachAssumption
  <2>3. ~ Above(s) <=> HeightMoved(s, PX, Fine, Shift) > (Fine * Fine * PY + Shift) * Equation(s).b
    BY <1>2, <2>1, <2>2, NotAbove
  <2> QED
    BY <1>2, <1>3, <1>4, <1>6, <2>3, NotBeside DEF OverMoved
<1> QED
  BY <1>5, <1>6

(* Heights and slopes at the point, of which none is rounded, compare as the
   fractions they stand for. *)
LEMMA ComparedExactly ==
  ASSUME NEW s \in Segments, XMin(s) < XMax(s), NEW r \in Segments, XMin(r) < XMax(r),
         NEW a \in Int, NEW b \in Int, NEW c \in Int, Small(s, PX, Reach, a, b, c),
         NEW i \in Int, NEW j \in Int, NEW k \in Int, Small(r, PX, Reach, i, j, k)
  PROVE  /\ SameSign(XsectY(s) - XsectY(r), Drop(s, r, PX))
         /\ SameSign(Slope(s) - Slope(r), Gap(s, r))
<1>1. /\ Equation(s).a = a /\ Equation(s).b = b /\ Equation(s).c = c /\ b \in Nat \ {0}
      /\ Equation(r).a = i /\ Equation(r).b = j /\ Equation(r).c = k /\ j \in Nat \ {0}
  BY DEF Small
<1>2. PICK h \in Int, u \in Int : h = Rise(s, PX) /\ u = Rise(r, PX)
  BY <1>1, WholeRise, PointAssumption
<1>3. PICK w \in Nat \ {0} : w = Width
  BY WidthAssumption
<1>4. PICK y \in Int, m \in Int : y = XsectY(s) /\ y * b = w * h /\ m = Slope(s) /\ m * b = w * a
  BY <1>1, <1>2, <1>3, HeightsAreExact
<1>5. PICK z \in Int, n \in Int : z = XsectY(r) /\ z * j = w * u /\ n = Slope(r) /\ n * j = w * i
  BY <1>1, <1>2, <1>3, HeightsAreExact
<1>6. PICK p \in Nat \ {0} : p = b * j
  <2>1. b * j \in Nat \ {0}
    BY <1>1
  <2> QED
    BY <2>1
<1>7. PICK d \in Int, g \in Int : d = h * j - u * b /\ g = a * j - i * b
  BY <1>1
<1>8. Drop(s, r, PX) = d /\ Gap(s, r) = g
  BY <1>1, <1>2, <1>7 DEF Drop, Gap
<1>9. (y - z) * p = w * d
  <2>1. (y - z) * p = (y * b) * j - (z * j) * b
    BY <1>1, <1>6
  <2>2. w * d = (w * h) * j - (w * u) * b
    BY <1>1, <1>7
  <2> QED
    BY <1>4, <1>5, <2>1, <2>2
<1>10. (m - n) * p = w * g
  <2>1. (m - n) * p = (m * b) * j - (n * j) * b
    BY <1>1, <1>6
  <2>2. w * g = (w * a) * j - (w * i) * b
    BY <1>1, <1>7
  <2> QED
    BY <1>4, <1>5, <2>1, <2>2
<1>11. PICK t \in Int, o \in Int : t = y - z /\ o = m - n
  OBVIOUS
<1>12. SameSign(t, d) /\ SameSign(o, g)
  <2>1. t * p = w * d /\ o * p = w * g
    BY <1>9, <1>10, <1>11
  <2> QED
    BY <2>1, SignOfRatio
<1> QED
  BY <1>4, <1>5, <1>8, <1>11, <1>12

(* In the two programs that compare slopes, an edge that need not be looked at
   any more is higher over the moved point. *)
LEMMA CoveredIsHigher ==
  ASSUME TypeOK, PlanarMap, mode \in {"rt", "lbvh"},
         NEW d \in Eids, Candidate(d), NEW e \in Eids, Candidate(e), d # e,
         Y(d) < Y(e) \/ (Y(d) = Y(e) /\ NotAfter(d, e))
  PROVE  LowerMoved(edges[d], edges[e], PX, Fine, Shift)
<1>1. PICK s \in Segments, r \in Segments : s = edges[d] /\ r = edges[e]
  BY DEF TypeOK
<1>2. XMin(s) < XMax(s) /\ XMin(r) < XMax(r)
  BY <1>1, CandidateIs
<1>3. PICK a \in Int, b \in Int, c \in Int : Small(s, PX, Reach, a, b, c)
  BY <1>1, CandidateHas
<1>4. PICK i \in Int, j \in Int, k \in Int : Small(r, PX, Reach, i, j, k)
  BY <1>1, CandidateHas
<1>5. PICK x \in Int, R \in Nat : x = PX /\ R = Reach
  BY PointAssumption, ReachAssumption
<1>6. PICK f \in Nat : f = Fine /\ f > 1 /\ IsFine(f, R)
  BY <1>5, FineIsFine
<1>7. PICK g \in {1, -1} : g = Shift /\ (g = 1 <=> qmap = 1) /\ (g = -1 <=> qmap = 0)
  BY ShiftIsOne DEF TypeOK
<1>8. Small(s, x, R, a, b, c) /\ Small(r, x, R, i, j, k)
  BY <1>3, <1>4, <1>5
<1>9. PICK u \in Int, v \in Int : u = Drop(s, r, x) /\ v = Gap(s, r)
  BY <1>6, <1>8, LowerIsUnder
<1>10. /\ LowerMoved(s, r, x, f, g) <=> Under(u, v, g)
       /\ Drop(r, s, x) = -u /\ Gap(r, s) = -v
  BY <1>6, <1>8, <1>9, LowerIsUnder
<1>11. ~ (u = 0 /\ v = 0)
  <2>1. XMin(s) < XMax(r) /\ XMin(r) < XMax(s)
    <3>1. PICK l \in Int, h \in Int, m \in Int, n \in Int :
            l = XMin(s) /\ h = XMax(s) /\ m = XMin(r) /\ n = XMax(r)
      BY SegmentIs
    <3>2. d \in OverPoint /\ e \in OverPoint
      BY CandidatesAreOver
    <3>3. f * l < f * x + g /\ f * x + g < f * n /\ f * m < f * x + g /\ f * x + g < f * h
      BY <1>1, <1>5, <1>6, <1>7, <3>1, <3>2 DEF OverPoint, OverMoved
    <3>4. f * l < f * n /\ f * m < f * h
      BY <3>3
    <3>5. l < n /\ m < h
      BY <1>6, <3>4
    <3> QED
      BY <3>1, <3>5
  <2>2. Planar(s, r) \/ Planar(r, s)
    <3>1. d < e \/ e < d
      BY NEAssumption DEF Eids
    <3> QED
      BY <1>1, <3>1 DEF PlanarMap
  <2>3. CASE Planar(s, r)
    BY <1>8, <1>9, <2>1, <2>3, NotLevel
  <2>4. CASE Planar(r, s)
    <3>1. ~ (Drop(r, s, x) = 0 /\ Gap(r, s) = 0)
      BY <1>8, <2>1, <2>4, NotLevel
    <3> QED
      BY <1>10, <3>1
  <2> QED
    BY <2>2, <2>3, <2>4
<1>12. PICK y \in Int, z \in Int, m \in Int, n \in Int :
         y = Y(d) /\ z = Y(e) /\ m = SlopeOf(d) /\ n = SlopeOf(e)
  BY CandidateIs, CandidateHas
<1>13. SameSign(y - z, u) /\ SameSign(m - n, v)
  <2>1. SameSign(XsectY(s) - XsectY(r), Drop(s, r, PX)) /\ SameSign(Slope(s) - Slope(r), Gap(s, r))
    BY <1>2, <1>3, <1>4, ComparedExactly
  <2> QED
    BY <1>1, <1>5, <1>9, <1>12, <2>1 DEF Y, SlopeOf
<1>14. y < z \/ (y = z /\ IF qmap = 0 THEN m <= n ELSE m >= n)
  BY <1>12 DEF NotAfter, ById
<1>15. Under(u, v, g)
  <2>1. CASE y < z
    BY <1>13, <2>1 DEF SameSign, Under
  <2>2. CASE y = z
    <3>1. u = 0 /\ v # 0
      BY <1>11, <1>13, <2>2 DEF SameSign
    <3>2. CASE g = 1
      BY <1>7, <1>13, <1>14, <2>2, <3>1, <3>2 DEF SameSign, Under
    <3>3. CASE g = -1
      BY <1>7, <1>13, <1>14, <2>2, <3>1, <3>3 DEF SameSign, Under
    <3> QED
      BY <3>2, <3>3
  <2> QED
    BY <1>14, <2>1, <2>2
<1> QED
  BY <1>1, <1>5, <1>6, <1>7, <1>10, <1>15

(* The OptiX and the LBVH program return the first edge over the point moved by
   (epsilon, epsilon^2): their slopes decide every tie as the move would. *)
THEOREM ReturnsClosest == Spec => []ClosestExact
<1>1. Inv => ClosestExact
  <2> SUFFICES ASSUME Inv, done, mode \in {"rt", "lbvh"} PROVE IsReference(best.eid)
    BY DEF ClosestExact
  <2>1. \A e \in Eids : Candidate(e) => Covers(best, e)
    BY AllCovered
  <2>2. /\ TypeOK /\ PlanarMap /\ IsHit(best)
        /\ best.eid # NoEdge => best.eid \in Eids
    BY DEF Inv, Results, TypeOK, Found
  <2>3. \A e \in Eids : e \in OverPoint <=> Candidate(e)
    BY <2>2, CandidatesAreOver
  <2>4. OverPoint \subseteq Eids
    BY DEF OverPoint
  <2>5. CASE best.eid = NoEdge
    <3>1. OverPoint = {}
      BY <2>1, <2>3, <2>4, <2>5 DEF Covers
    <3> QED
      BY <2>5, <3>1 DEF IsReference
  <2>6. CASE best.eid # NoEdge
    <3>1. PICK b \in Eids : b = best.eid
      BY <2>2, <2>6
    <3>2. Candidate(b) /\ best.y = Y(b) /\ b \in OverPoint
      BY <2>2, <2>3, <2>6, <3>1 DEF IsHit
    <3>3. ASSUME NEW e \in OverPoint \ {b} PROVE LowerMoved(edges[b], edges[e], PX, Fine, Shift)
      <4>1. e \in Eids /\ Candidate(e) /\ b # e
        BY <2>3, <2>4
      <4>2. Y(b) < Y(e) \/ (Y(b) = Y(e) /\ NotAfter(b, e))
        BY <2>1, <3>1, <3>2, <4>1 DEF Covers
      <4> QED
        BY <2>2, <3>2, <4>1, <4>2, CoveredIsHigher
    <3> QED
      BY <3>1, <3>2, <3>3 DEF IsReference
  <2> QED
    BY <2>5, <2>6
<1> QED
  BY Invariance, <1>1, PTL
=============================================================================
