---------------------------- MODULE MCUniformGrid ----------------------------
(* UniformGrid with 3 x 3 cells, of the coordinates 0 .. 2, 3 .. 4, 5 .. 6. *)
EXTENDS UniformGrid, TLC

Segment(x1, y1, x2, y2) == [x1 |-> x1, y1 |-> y1, x2 |-> x2, y2 |-> y2]
Two(s, r) == (0 :> s) @@ (1 :> r)
Three(s, r, t) == Two(s, r) @@ (2 :> t)

(* One edge rises through the cells of a column and passes over another. *)
Steep == Two(Segment(0, 2, 3, 6), Segment(4, 3, 1, 3))
(* Three edges meet at (2, 4). *)
Fan == Three(Segment(0, 3, 2, 4), Segment(2, 4, 0, 5), Segment(2, 4, 5, 4))
(* A diagonal, and an upright edge under it. *)
Diagonal == Two(Segment(6, 6, 0, 0), Segment(3, 0, 3, 2))
(* Edges on one of Fan and with an end at its vertex, uprights that end on an
   edge of Steep, the diagonal the other way round, and some that fall. *)
Loose ==
  {Segment(0, 3, 2, 4), Segment(2, 4, 2, 1), Segment(2, 0, 2, 3), Segment(0, 0, 6, 6),
   Segment(2, 4, 0, 6), Segment(6, 1, 2, 3), Segment(3, 2, 5, 0), Segment(5, 4, 1, 4)}
Pairs == {Two(s, r) : s, r \in Loose}

Sources == {Steep, Fan, Diagonal}
Others == {m \in Pairs : Planar(m[0], m[1])}
MCInputs ==
  {[maps |-> (0 :> s) @@ (1 :> r), built |-> Maps] : s \in Sources, r \in Others}
    \cup {[maps |-> (0 :> r) @@ (1 :> s), built |-> {0}] : s \in Sources, r \in Others}
=============================================================================
