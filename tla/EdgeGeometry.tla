---------------------------- MODULE EdgeGeometry ----------------------------
(***************************************************************************)
(* Edges of a map: segments between scaled points, which are integers,     *)
(* with the line equation that the kernels read instead of the points.     *)
(* The arithmetic is exact.                                                *)
(***************************************************************************)
EXTENDS Integers

XMin(s) == IF s.x1 < s.x2 THEN s.x1 ELSE s.x2
XMax(s) == IF s.x1 < s.x2 THEN s.x2 ELSE s.x1
YMin(s) == IF s.y1 < s.y2 THEN s.y1 ELSE s.y2
YMax(s) == IF s.y1 < s.y2 THEN s.y2 ELSE s.y1

(* The edge equation a x + b y + c = 0 with b >= 0. *)
Equation(s) ==
  LET a == s.y1 - s.y2
      b == s.x2 - s.x1
      c == -s.x1 * a - s.y1 * b
  IN IF b < 0 THEN [a |-> -a, b |-> -b, c |-> -c] ELSE [a |-> a, b |-> b, c |-> c]

(* The source map is planar: two edges meet in common end points only. *)
Turn(x1, y1, x2, y2, x, y) == (x2 - x1) * (y - y1) - (y2 - y1) * (x - x1)
Ends(s) == {<<s.x1, s.y1>>, <<s.x2, s.y2>>}
Touches(s, p) ==
  /\ Turn(s.x1, s.y1, s.x2, s.y2, p[1], p[2]) = 0
  /\ p[1] \in XMin(s) .. XMax(s) /\ p[2] \in YMin(s) .. YMax(s)
  /\ p \notin Ends(s)
Separates(s, r) == Turn(s.x1, s.y1, s.x2, s.y2, r.x1, r.y1)
                     * Turn(s.x1, s.y1, s.x2, s.y2, r.x2, r.y2) < 0
Planar(s, r) ==
  /\ Ends(s) # Ends(r)
  /\ ~(Separates(s, r) /\ Separates(r, s))
  /\ \A p \in Ends(s) : ~Touches(r, p)
  /\ \A p \in Ends(r) : ~Touches(s, p)

(* References for the point queries: what is over the point (x, y) after it is
   moved by (g/f, g/f^2).  Heights are fractions of b and count 1/f^2. *)
HeightMoved(s, x, f, g) == f * (-Equation(s).a * (f * x + g) - f * Equation(s).c)
OverMoved(s, x, y, f, g) ==
  /\ f * XMin(s) < f * x + g /\ f * x + g < f * XMax(s)
  /\ HeightMoved(s, x, f, g) > (f * f * y + g) * Equation(s).b
LowerMoved(s, r, x, f, g) ==
  HeightMoved(s, x, f, g) * Equation(r).b < HeightMoved(r, x, f, g) * Equation(s).b
=============================================================================
