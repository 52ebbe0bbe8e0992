----------------------------- MODULE UniformGrid -----------------------------
(***************************************************************************)
(* The grid back end.  Two kernels over the edges fill the grid: the first *)
(* counts, in every cell the box of an edge meets, the edges of each map,  *)
(* the second stores their ids, in one part of an array per cell, map 0    *)
(* before map 1.  A kernel has one thread per edge, which walks its cells  *)
(* and draws a slot in each with an atomic add; the next kernel starts     *)
(* when all threads have ended.                                            *)
(*                                                                         *)
(* Two queries read the grid.  The crossing query tests, in each cell, the *)
(* edges of map 0 against those of map 1; the point query walks up from    *)
(* the cell of the point until a cell answers.  Their threads change       *)
(* nothing they read, so a query is one step; how crossings are appended   *)
(* is in CrossingQueue.                                                    *)
(***************************************************************************)
EXTENDS EdgeGeometry, FiniteSets

CONSTANTS
  Inputs,   \* maps: the edges of map 0 and of map 1; built: those in the grid
  GSize,    \* cells per row and per column
  Span      \* internal_range: coordinates are 0 .. Span

Maps == {0, 1}
EidsOf(in, m) == DOMAIN in.maps[m]

ASSUME SizesAssumption == GSize \in Nat \ {0} /\ Span \in Nat \ {0}
ASSUME InputsAssumption ==
  \A in \in Inputs :
    /\ in.built \in {{0}, Maps}
    /\ \A m \in Maps :
         /\ IsFiniteSet(EidsOf(in, m))
         /\ EidsOf(in, m) = 0 .. Cardinality(EidsOf(in, m)) - 1
         /\ \A e \in EidsOf(in, m) : Ends(in.maps[m][e]) \subseteq (0 .. Span) \X (0 .. Span)
         /\ \A d, e \in EidsOf(in, m) : d # e => Planar(in.maps[m][d], in.maps[m][e])

VARIABLES
  input,     \* one of Inputs
  phase,     \* the kernel that runs: "count" or "fill", or "query"
  im,        \* the map it runs for
  at,        \* per edge of that map: the cells its thread has been to
  ne,        \* cells_: per cell and map the number of edges,
  begin,     \* and the next slot, later the first one
  rowIndex,  \* row_index_: edges in the cells before
  eids,      \* eids_: what is stored in each slot
  found,     \* per pair of edges: records of it the crossing query appended
  closest    \* per query map: the answer for each of its points

vars == <<input, phase, im, at, ne, begin, rowIndex, eids, found, closest>>

edges == input.maps
Eids(m) == EidsOf(input, m)
Cells == 0 .. GSize * GSize - 1
Column(c) == c % GSize
Row(c) == c \div GSize
Blank == -1           \* a slot nobody has stored to
NoEdge == -1          \* DONTKNOW
Unset == <<>>         \* a query that was not started

(* calculate_cell for the coordinate n / d; the factor 0.999 keeps the
   largest one inside the grid. *)
CellOf(n, d) == (n * GSize * 999) \div (d * Span * 1000)
Place(x, y) == CellOf(y, 1) * GSize + CellOf(x, 1)

(* iterate_cell: the sub-grid between the cells of the end points, column by
   column; the k-th cell, and how many there are. *)
CellThere(s, k) ==
  LET height == CellOf(YMax(s), 1) - CellOf(YMin(s), 1) + 1
  IN (CellOf(YMin(s), 1) + (k % height)) * GSize + CellOf(XMin(s), 1) + (k \div height)
CellsAcross(s) ==
  (CellOf(XMax(s), 1) - CellOf(XMin(s), 1) + 1) * (CellOf(YMax(s), 1) - CellOf(YMin(s), 1) + 1)

Total == rowIndex[GSize * GSize]

TypeOK ==
  /\ input \in Inputs
  /\ phase \in {"count", "fill", "query"}
  /\ im \in Maps
  /\ \A e \in DOMAIN at : at[e] \in 0 .. CellsAcross(edges[im][e])
  /\ ne \in [Cells -> [Maps -> Nat]]
  /\ begin \in [Cells -> 0 .. Total]
  /\ rowIndex \in [0 .. GSize * GSize -> Nat]
  /\ eids \in [0 .. Total - 1 -> {Blank} \cup Eids(0) \cup Eids(1)]
  /\ found = Unset \/ found \in [Eids(0) \X Eids(1) -> Nat]
  /\ \A q \in Maps : closest[q] = Unset \/ \A p \in DOMAIN closest[q] :
                       closest[q][p] \in Eids(1 - q) \cup {NoEdge}

Threads(in, m) == [e \in EidsOf(in, m) |-> 0]

(* The arrays are allocated and the cells set to zero. *)
Init ==
  /\ input \in Inputs
  /\ phase = "count"
  /\ im = 0
  /\ at = Threads(input, 0)
  /\ ne = [c \in Cells |-> [m \in Maps |-> 0]]
  /\ begin = [c \in Cells |-> 0]
  /\ rowIndex = [i \in 0 .. GSize * GSize |-> 0]
  /\ eids = <<>>
  /\ found = Unset
  /\ closest = [q \in Maps |-> Unset]

HasCell(e) == e \in Eids(im) /\ at[e] < CellsAcross(edges[im][e])
Ended == \A e \in Eids(im) : ~HasCell(e)

(* Fault: one counter for both maps. *)
CountEdgeInOne(e) ==
  /\ phase = "count" /\ HasCell(e)
  /\ at' = [at EXCEPT ![e] = @ + 1]
  /\ ne' = [ne EXCEPT ![CellThere(edges[im][e], at[e])][0] = @ + 1]
  /\ UNCHANGED <<input, phase, im, begin, rowIndex, eids, found, closest>>

(* atomicAdd(&cell.ne[im], 1) by the thread of edge e. *)
CountEdge(e) ==
  /\ phase = "count" /\ HasCell(e)
  /\ at' = [at EXCEPT ![e] = @ + 1]
  /\ ne' = [ne EXCEPT ![CellThere(edges[im][e], at[e])][im] = @ + 1]
  /\ UNCHANGED <<input, phase, im, begin, rowIndex, eids, found, closest>>

(* The kernel for map 0 has ended and that for map 1 starts. *)
NextMap ==
  /\ phase \in {"count", "fill"} /\ Ended
  /\ im + 1 \in input.built
  /\ im' = im + 1
  /\ at' = Threads(input, im + 1)
  /\ UNCHANGED <<input, phase, ne, begin, rowIndex, eids, found, closest>>

(* Fault: the scan is over the edges of map 0. *)
RunningFirst ==
  LET sum[c \in 0 .. GSize * GSize] == IF c = 0 THEN 0 ELSE sum[c - 1] + ne[c - 1][0]
  IN sum

(* thrust::inclusive_scan over ne[0] + ne[1], stored from row_index[1] on. *)
Running ==
  LET sum[c \in 0 .. GSize * GSize] ==
        IF c = 0 THEN 0 ELSE sum[c - 1] + ne[c - 1][0] + ne[c - 1][1]
  IN sum

Scan ==
  /\ phase = "count" /\ Ended
  /\ im + 1 \notin input.built
  /\ rowIndex' = Running
  /\ eids' = [i \in 0 .. Running[GSize * GSize] - 1 |-> Blank]
  /\ phase' = "fill"
  /\ im' = 0
  /\ at' = Threads(input, 0)
  /\ UNCHANGED <<input, ne, begin, found, closest>>

(* The thread of edge e draws the next slot of a cell and stores e there. *)
FillEdge(e) ==
  /\ phase = "fill" /\ HasCell(e)
  /\ LET c == CellThere(edges[im][e], at[e])
         slot == rowIndex[c] + begin[c]
     IN /\ eids' = [i \in DOMAIN eids \cup {slot} |-> IF i = slot THEN e ELSE eids[i]]
        /\ begin' = [begin EXCEPT ![c] = @ + 1]
  /\ at' = [at EXCEPT ![e] = @ + 1]
  /\ UNCHANGED <<input, phase, im, ne, rowIndex, found, closest>>

(* "restore begin": cell.begin becomes the first slot of the cell. *)
Restore ==
  /\ phase = "fill" /\ Ended
  /\ im + 1 \notin input.built
  /\ begin' = [c \in Cells |-> rowIndex[c]]
  /\ phase' = "query"
  /\ UNCHANGED <<input, im, at, ne, rowIndex, eids, found, closest>>
-----------------------------------------------------------------------------
(* intersect_test.  A point on the line of the other edge is moved off it:
   map 0 by (-epsilon, -epsilon^2), map 1 by (epsilon, epsilon^2). *)
Side(x, y, q, sign) ==
  LET v == x * q.a + y * q.b + q.c
  IN IF v # 0 THEN v ELSE IF q.a # 0 THEN sign * q.a ELSE sign * q.b
Apart(s, q, sign) == Side(s.x1, s.y1, q, sign) * Side(s.x2, s.y2, q, sign) < 0
Crosses(d, e) ==
  /\ Apart(d, Equation(e), -1)
  /\ Apart(e, Equation(d), 1)
  /\ Ends(d) # Ends(e)

(* The point where they cross, as n / d, not outside the box of both. *)
Clamp(n, d, lo, hi) ==
  CASE n < lo * d -> <<lo, 1>>
    [] n > hi * d -> <<hi, 1>>
    [] OTHER -> <<n, d>>
Rational(n, d, lo, hi) == IF d < 0 THEN Clamp(-n, -d, lo, hi) ELSE Clamp(n, d, lo, hi)
Least(i, j) == IF i < j THEN i ELSE j
Greatest(i, j) == IF i < j THEN j ELSE i
CrossingCell(d, e) ==
  LET p == Equation(d)
      q == Equation(e)
      denom == p.a * q.b - q.a * p.b
      x == Rational(q.c * p.b - p.c * q.b, denom,
                    Least(XMin(d), XMin(e)), Greatest(XMax(d), XMax(e)))
      y == Rational(q.a * p.c - p.a * q.c, denom,
                    Least(YMin(d), YMin(e)), Greatest(YMax(d), YMax(e)))
  IN CellOf(y[1], y[2]) * GSize + CellOf(x[1], x[2])

(* The edge of map m in the i-th of its slots of cell c. *)
EidIn(c, m, i) == eids[begin[c] + m * ne[c][0] + i]

(* Fault: every cell reports the crossings of its edges. *)
ReportsAll(c, i, j) == Crosses(edges[0][EidIn(c, 0, i)], edges[1][EidIn(c, 1, j)])

(* A crossing is reported by the cell it is in. *)
Reports(c, i, j) ==
  LET d == edges[0][EidIn(c, 0, i)]
      e == edges[1][EidIn(c, 1, j)]
  IN Crosses(d, e) /\ CrossingCell(d, e) = c

(* LSIGrid::Query, with map 0 and map 1 whatever query_map_id is. *)
IntersectEdge ==
  /\ phase = "query"
  /\ input.built = Maps /\ found = Unset
  /\ LET records == UNION {{<<c, i, j>> : i \in 0 .. ne[c][0] - 1, j \in 0 .. ne[c][1] - 1}
                             : c \in Cells}
         hits == {r \in records : Reports(r[1], r[2], r[3])}
     IN found' = [p \in Eids(0) \X Eids(1) |->
                    Cardinality({r \in hits : p = <<EidIn(r[1], 0, r[2]), EidIn(r[1], 1, r[3])>>})]
  /\ UNCHANGED <<input, phase, im, at, ne, begin, rowIndex, eids, closest>>

(* The ray up from (x, y) crosses edge e at YNum / b. *)
YNum(e, x) == -Equation(e).a * x - Equation(e).c
Beside(q, x, e) ==
  x < XMin(e) \/ x > XMax(e) \/ x = (IF q = 0 THEN XMin(e) ELSE XMax(e))
Above(q, x, y, e) ==
  LET p == Equation(e)
      diff == y * p.b - YNum(e, x)
      sos == IF p.a # 0 THEN p.a ELSE p.b
  IN (IF diff # 0 THEN diff ELSE IF q = 0 THEN -sos ELSE sos) > 0

(* At a tie: the smaller a / b when map 0 is the query map, else the larger. *)
Steeper(d, e) == Equation(d).a * Equation(e).b > Equation(e).a * Equation(d).b
Replaces(q, x, d, e) ==
  LET here == YNum(d, x) * Equation(e).b
      best == YNum(e, x) * Equation(d).b
  IN here < best \/ (here = best /\ (Steeper(d, e) = (q = 1)))

(* The loop of test_against_edges_of_this_cell over the base map's slots. *)
BestOf(q, x, y, c) ==
  LET base == 1 - q
      best[k \in 0 .. ne[c][base]] ==
        IF k = 0 THEN NoEdge
        ELSE LET e == EidIn(c, base, k - 1)
                 s == edges[base][e]
             IN IF /\ ~Beside(q, x, s) /\ ~Above(q, x, y, s)
                   /\ best[k - 1] = NoEdge \/ Replaces(q, x, s, edges[base][best[k - 1]])
                THEN e ELSE best[k - 1]
  IN best[ne[c][base]]

(* Fault: the best edge of a cell is taken wherever the ray crosses it. *)
AnswerFirst(q, x, y, c) == BestOf(q, x, y, c)

(* The best edge counts only if the ray crosses it in the cell or below. *)
Answer(q, x, y, c) ==
  LET e == BestOf(q, x, y, c)
      s == edges[1 - q][e]
  IN IF \/ e = NoEdge
        \/ CellOf(YMax(s), 1) = Row(c)
        \/ CellOf(YNum(s, x), Equation(s).b) <= Row(c)
     THEN e ELSE NoEdge

(* PIPGrid::Query: up the column, to the first cell that has an answer. *)
Walk(q, x, y) ==
  LET answer(r) == Answer(q, x, y, r * GSize + CellOf(x, 1))
      rows == {r \in CellOf(y, 1) .. GSize - 1 : answer(r) # NoEdge}
  IN IF rows = {} THEN NoEdge ELSE answer(CHOOSE r \in rows : \A t \in rows : r <= t)

Points(q) == UNION {Ends(edges[q][e]) : e \in Eids(q)}

LocateVertices(q) ==
  /\ phase = "query"
  /\ 1 - q \in input.built /\ closest[q] = Unset
  /\ closest' = [closest EXCEPT ![q] = [p \in Points(q) |-> Walk(q, p[1], p[2])]]
  /\ UNCHANGED <<input, phase, im, at, ne, begin, rowIndex, eids, found>>

Idle ==
  /\ phase = "query"
  /\ input.built = Maps => found # Unset
  /\ \A m \in input.built : closest[1 - m] # Unset
  /\ UNCHANGED vars

Next ==
  \/ \E e \in Eids(im) : CountEdge(e) \/ FillEdge(e)
  \/ NextMap \/ Scan \/ Restore
  \/ IntersectEdge
  \/ \E q \in Maps : LocateVertices(q)
  \/ Idle

Spec == Init /\ [][Next]_vars
-----------------------------------------------------------------------------
(* After the fill each cell has a part of the array of its own, and in it,
   first for map 0 and then for map 1, every edge with a point of its box in
   the cell exactly once: the cells a thread counted are those it filled,
   whatever the order of the atomic adds. *)
BoxMeets(s, c) ==
  \E x \in XMin(s) .. XMax(s), y \in YMin(s) .. YMax(s) : Place(x, y) = c
Listed(m, c) == {e \in Eids(m) : m \in input.built /\ BoxMeets(edges[m][e], c)}
LayoutExact ==
  phase = "query" =>
    /\ \A c \in Cells, m \in Maps :
         /\ ne[c][m] = Cardinality(Listed(m, c))
         /\ {EidIn(c, m, i) : i \in 0 .. ne[c][m] - 1} = Listed(m, c)
    /\ \A c \in Cells : begin[c] + ne[c][0] + ne[c][1] = rowIndex[c + 1]

(* Two edges are tested in every cell both are in, and their crossing is in
   the queue once.  The reference moves map 1 by (1/Fine, 1/Fine^2), less than
   what separates two things of this size, and asks for a proper crossing. *)
Fine == 2 * Span * Span + 1
Unit == Fine * Fine
Moved(s) == [x1 |-> Unit * s.x1 + Fine, y1 |-> Unit * s.y1 + 1,
             x2 |-> Unit * s.x2 + Fine, y2 |-> Unit * s.y2 + 1]
Scaled(s) == [x1 |-> Unit * s.x1, y1 |-> Unit * s.y1, x2 |-> Unit * s.x2, y2 |-> Unit * s.y2]
TurnSign(s, x, y) ==
  LET t == Turn(s.x1, s.y1, s.x2, s.y2, x, y) IN IF t > 0 THEN 1 ELSE IF t < 0 THEN -1 ELSE 0
Opposite(s, r) == TurnSign(s, r.x1, r.y1) * TurnSign(s, r.x2, r.y2) = -1
ProperCrossing(s, r) == Opposite(s, r) /\ Opposite(r, s)
CrossingsOnce ==
  found # Unset =>
    \A d \in Eids(0), e \in Eids(1) :
      found[<<d, e>>] = IF ProperCrossing(Scaled(edges[0][d]), Moved(edges[1][e])) THEN 1 ELSE 0

(* The walk ends with the first edge above the point, after the query map is
   moved by (1/Fine, 1/Fine^2), to the other side for map 0: also when that
   edge begins in a lower cell, or an edge of a lower cell passes over it. *)
Shift(q) == IF q = 0 THEN -1 ELSE 1
OverPoint(q, x, y) == {e \in Eids(1 - q) : OverMoved(edges[1 - q][e], x, y, Fine, Shift(q))}
Lower(q, x, s, r) == LowerMoved(s, r, x, Fine, Shift(q))
IsClosest(q, x, y, e) ==
  \/ e = NoEdge /\ OverPoint(q, x, y) = {}
  \/ /\ e \in OverPoint(q, x, y)
     /\ \A d \in OverPoint(q, x, y) \ {e} : Lower(q, x, edges[1 - q][e], edges[1 - q][d])
ClosestFound ==
  \A q \in Maps : closest[q] # Unset =>
    \A p \in DOMAIN closest[q] : IsClosest(q, p[1], p[2], closest[q][p])
=============================================================================
