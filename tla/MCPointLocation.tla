--------------------------- MODULE MCPointLocation ---------------------------
(* PointLocation for the point (1, 1): edges that end or begin at it, at the
   vertex above it, or pass over, through and under it. *)
EXTENDS PointLocation

Segment(x1, y1, x2, y2) == [x1 |-> x1, y1 |-> y1, x2 |-> x2, y2 |-> y2]

MCSegments ==
  {Segment(0, y, 1, 1) : y \in 0 .. 2} \cup {Segment(1, 1, 2, y) : y \in 0 .. 2}
    \cup {Segment(0, y, 1, 2) : y \in 1 .. 2} \cup {Segment(2, y, 1, 2) : y \in 1 .. 2}
    \cup {Segment(0, 1, 2, 1), Segment(2, 2, 0, 1), Segment(0, 0, 2, 1), Segment(1, 1, 1, 2)}
=============================================================================
