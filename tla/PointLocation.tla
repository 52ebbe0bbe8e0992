---------------------------- MODULE PointLocation ----------------------------
(***************************************************************************)
(* The point-in-polygon query for one point of the query map: a ray goes   *)
(* up from the point, and for every box it meets the intersection program  *)
(* tests the edges behind the box and keeps the closest one above.  Ties,  *)
(* at a vertex or on an edge, are decided by simulation of simplicity: the *)
(* query map is shifted by (epsilon, epsilon^2) against the base map.      *)
(*                                                                         *)
(* Four back ends: "rt" (rt_pip_custom.cu) and "lbvh" (core/pip_lbvh.h)    *)
(* compare slopes at a tie; "native" (rt_pip_custom_native.cu) and "vk"    *)
(* (pip_rt_ns.slang) take the smaller edge id.  Boxes are visited in any   *)
(* order, perhaps twice, and a box that begins above the reported hit may  *)
(* never be.  The ray is one thread, so an iteration of its loop is one    *)
(* step.  Coordinates are small integers and the arithmetic is exact.      *)
(***************************************************************************)
EXTENDS EdgeGeometry, FiniteSets

CONSTANTS
  NE,         \* edges of the base map
  Segments,   \* what an edge may be: records of its end points
  PX, PY,     \* the query point
  Reach,      \* no segment is wider or higher
  Width,      \* a common multiple of the widths of the segments
  MaxCalls,   \* how often the traversal calls for the same box at most
  Modes       \* which of "rt", "lbvh", "native", "vk" to consider

ASSUME NEAssumption == NE \in Nat \ {0}
ASSUME SegmentsAssumption ==
  Segments \subseteq [x1 : Int, y1 : Int, x2 : Int, y2 : Int]
ASSUME PointAssumption == PX \in Int /\ PY \in Int
ASSUME ReachAssumption ==
  /\ Reach \in Nat \ {0}
  /\ \A s \in Segments : XMax(s) - XMin(s) <= Reach /\ YMax(s) - YMin(s) <= Reach
ASSUME WidthAssumption ==
  /\ Width \in Nat \ {0}
  /\ \A s \in Segments : s.x1 # s.x2 => Width % Equation(s).b = 0
ASSUME CallsAssumption == MaxCalls \in Nat \ {0}
ASSUME ModesAssumption == Modes \subseteq {"rt", "lbvh", "native", "vk"}

VARIABLES
  mode,     \* the back end
  qmap,     \* query_map_id
  edges,    \* the segment of each edge of the base map
  prims,    \* eid_range: the edges behind each box
  calls,    \* per box: calls of the intersection program
  range,    \* edges the current call has still to test
  inside,   \* the intersection program is running
  local,    \* what this call found: report_xsect and t, or local_best_*
  best,     \* best_e_eid, best_y: the payload, or gClosestEids and gBestYs
  tmax,     \* height up to which the traversal still looks
  done      \* the ray has ended

inputs == <<mode, qmap, edges, prims>>
vars == <<inputs, calls, range, inside, local, best, tmax, done>>

Eids == 0 .. NE - 1
NoEdge == NE          \* DONTKNOW, above every edge id
Infinite == [eid |-> NoEdge, y |-> 0]

(* Heights, like slopes, are counted in units of 1 / Width. *)
XsectY(s) == (Width * (-Equation(s).a * PX - Equation(s).c)) \div Equation(s).b
Slope(s) == (Width * Equation(s).a) \div Equation(s).b

(* Fault: the ranges include their ends. *)
RangesClosed(C) == {{e \in 0 .. NE : /\ lo <= e
                                     /\ \A c \in C \cup {NE} : (c > lo) => e <= c}
                      : lo \in C \cup {0}}

(* Adjacent ranges that together are the base map: see EdgeCover. *)
Ranges(C) == {{e \in Eids : lo <= e /\ \A c \in C : (c > lo) => e < c} : lo \in C \cup {0}}

Found == [eid : Eids \cup {NoEdge}, y : Int]

TypeOK ==
  /\ mode \in Modes /\ qmap \in {0, 1}
  /\ edges \in [Eids -> Segments]
  /\ prims \subseteq SUBSET Eids
  /\ calls \in [prims -> 0 .. MaxCalls]
  /\ range \subseteq Eids
  /\ inside \in BOOLEAN /\ done \in BOOLEAN
  /\ local \in Found /\ best \in Found /\ tmax \in Found

Init ==
  /\ mode \in Modes
  /\ qmap \in {0, 1}
  /\ edges \in [Eids -> Segments]
  /\ \A d, e \in Eids : d < e => Planar(edges[d], edges[e])
  /\ \E C \in SUBSET (1 .. NE - 1) :
       /\ mode = "lbvh" => C = 1 .. NE - 1
       /\ prims = Ranges(C)
  /\ calls = [p \in prims |-> 0]
  /\ range = {}
  /\ inside = FALSE
  /\ local = Infinite
  /\ best = Infinite
  /\ tmax = Infinite
  /\ done = FALSE

(* The test on x: the shifted point is not under this edge.  It leaves out
   every vertical edge, whose b is zero. *)
Beside(s) ==
  \/ PX < XMin(s)
  \/ PX > XMax(s)
  \/ PX = IF qmap = 0 THEN XMin(s) ELSE XMax(s)

(* diff_y > 0: the point is above the edge; on it, the sign of a decides,
   then that of b, which is positive. *)
Above(s) ==
  LET a == Equation(s).a
      diff == Width * PY - XsectY(s)
  IN \/ diff > 0
     \/ diff = 0 /\ IF a = 0 THEN qmap = 1 ELSE (IF qmap = 0 THEN -a > 0 ELSE a > 0)

Candidate(e) == ~Beside(edges[e]) /\ ~Above(edges[e])

Closer(y, r) == r.eid = NoEdge \/ y < r.y
Level(y, r) == r.eid # NoEdge /\ y = r.y

(* Fault: the tie is decided the same way for both maps. *)
TieBreakOneMap(e, d) ==
  CASE mode = "rt" -> IF Slope(edges[e]) # Slope(edges[d])
                      THEN Slope(edges[e]) < Slope(edges[d])
                      ELSE e < d
    [] mode = "lbvh" -> Slope(edges[e]) <= Slope(edges[d])
    [] OTHER -> e < d

(* Whether e replaces d where both cross the ray at the same height; the
   slopes the code compares are a / b, the negated rise of the edge. *)
TieBreak(e, d) ==
  LET steeper == Slope(edges[e]) > Slope(edges[d]) IN
  CASE mode = "rt" -> IF Slope(edges[e]) # Slope(edges[d])
                      THEN (qmap = 0) # steeper
                      ELSE e < d
    [] mode = "lbvh" -> (qmap = 0) # steeper
    [] OTHER -> e < d

(* betterCandidate, and the comparisons with best_y of the other programs. *)
Better(e, r) ==
  LET y == XsectY(edges[e]) IN
  Closer(y, r) \/ (Level(y, r) /\ TieBreak(e, r.eid))

(* The ray meets a box while it goes up from the point to tmax. *)
Lowest(p) == CHOOSE y \in {YMin(edges[e]) : e \in p} : \A e \in p : y <= YMin(edges[e])
Meets(p) ==
  /\ \E e \in p : XMin(edges[e]) <= PX
  /\ \E e \in p : PX <= XMax(edges[e])
  /\ \E e \in p : PY <= YMax(edges[e])
  /\ tmax.eid # NoEdge => Width * Lowest(p) <= tmax.y

(* The traversal calls the intersection program for box p.  It may call for
   a box it could have left out, and for one it has already called for; the
   software traversal of "lbvh" calls once. *)
Enter(p) ==
  /\ ~inside /\ ~done
  /\ calls[p] < IF mode = "lbvh" THEN 1 ELSE MaxCalls
  /\ calls' = [calls EXCEPT ![p] = @ + 1]
  /\ range' = p
  /\ inside' = TRUE
  /\ local' = Infinite
  /\ UNCHANGED <<inputs, best, tmax, done>>

(* The loop over the range runs upwards. *)
Current == CHOOSE e \in range : \A d \in range : e <= d

(* One iteration.  "vk" compares with the best of this call, the others with
   the best of the ray, which they replace at once. *)
Test ==
  /\ range # {}
  /\ range' = range \ {Current}
  /\ LET hit == [eid |-> Current, y |-> XsectY(edges[Current])]
         to  == IF mode = "vk" THEN local ELSE best
     IN IF Candidate(Current) /\ Better(Current, to)
        THEN /\ local' = hit
             /\ best' = IF mode = "vk" THEN best ELSE hit
        ELSE UNCHANGED <<local, best>>
  /\ UNCHANGED <<inputs, calls, inside, tmax, done>>

(* Fault: the best of the call replaces the best of the ray. *)
MergeLast == IF mode = "vk" /\ local.eid # NoEdge THEN local ELSE best

(* "vk" merges what the call found into the global buffers. *)
Merge ==
  IF mode = "vk" /\ local.eid # NoEdge /\ Better(local.eid, best) THEN local ELSE best

(* optixReportIntersection, ReportHit: a hit beyond tmax is rejected.  There
   is none to report to in "lbvh". *)
Report ==
  IF mode # "lbvh" /\ local.eid # NoEdge /\ Closer(local.y, tmax) THEN local ELSE tmax

(* The intersection program returns. *)
Leave ==
  /\ inside
  /\ range = {}
  /\ inside' = FALSE
  /\ best' = Merge
  /\ tmax' = Report
  /\ UNCHANGED <<inputs, calls, range, local, done>>

(* Every box the ray still meets has been called for. *)
Finish ==
  /\ ~inside /\ ~done
  /\ \A p \in prims : Meets(p) => calls[p] > 0
  /\ done' = TRUE
  /\ UNCHANGED <<inputs, calls, range, inside, local, best, tmax>>

(* closest_eids and best_ys have been written. *)
Idle == done /\ UNCHANGED vars

Next == (\E p \in prims : Enter(p)) \/ Test \/ Leave \/ Finish \/ Idle

Spec == Init /\ [][Next]_vars
-----------------------------------------------------------------------------
(* The reference: shift the point by 1/Fine and 1/Fine^2, less than the
   distance of any two things it is compared with. *)
Fine == 2 * Reach * Reach + 1
Shift == IF qmap = 0 THEN -1 ELSE 1
OverPoint == {e \in Eids : OverMoved(edges[e], PX, PY, Fine, Shift)}
IsReference(e) ==
  \/ e = NoEdge /\ OverPoint = {}
  \/ e \in OverPoint /\ \A d \in OverPoint \ {e} : LowerMoved(edges[e], edges[d], PX, Fine, Shift)

(* The edge the query returns is the first one above the shifted point, for
   every order of the boxes, every grouping and every tie: where edges meet
   at a vertex the slopes decide as the shift would. *)
ClosestExact == (done /\ mode \in {"rt", "lbvh"}) => IsReference(best.eid)

(* What the comparison of the native OptiX program with the Vulkan program
   relies on: both return the same edge, of those that cross the ray lowest
   the one with the smallest id. *)
LowestId ==
  (done /\ mode \in {"native", "vk"}) =>
    \/ best.eid = NoEdge /\ \A e \in Eids : ~Candidate(e)
    \/ /\ best.eid \in Eids /\ Candidate(best.eid)
       /\ \A e \in Eids : Candidate(e) =>
            \/ XsectY(edges[e]) > XsectY(edges[best.eid])
            \/ XsectY(edges[e]) = XsectY(edges[best.eid]) /\ best.eid <= e

=============================================================================
