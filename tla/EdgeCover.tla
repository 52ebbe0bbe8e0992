------------------------------ MODULE EdgeCover ------------------------------
(***************************************************************************)
(* What building primitives promises the ray-tracing queries: the ranges   *)
(* of edge ids behind the boxes of the acceleration structure partition    *)
(* the edges of the base map.  The intersection programs loop over the     *)
(* range of the box they were called for, so an edge in no range is never  *)
(* tested and an edge in two ranges is reported twice.                     *)
(***************************************************************************)
EXTENDS Integers

CONSTANT NE   \* number of edges of the map

VARIABLES
  prims,      \* edge ranges published so far
  ready       \* the host has collected them

coverVars == <<prims, ready>>

Edges == 0 .. NE - 1

(* A half-open, nonempty range lo .. hi-1 of edge ids. *)
EdgeRanges == {r \in [lo : Edges, hi : 1 .. NE] : r.lo < r.hi}

EdgesOf(r) == r.lo .. r.hi - 1

Init == prims = {} /\ ready = FALSE

(* A range may only be published if none of its edges was before. *)
Publish(r) ==
  /\ ~ready
  /\ \A q \in prims : EdgesOf(q) \cap EdgesOf(r) = {}
  /\ prims' = prims \cup {r}
  /\ UNCHANGED ready

(* The host may only take the primitives once every edge is in one. *)
Seal ==
  /\ ~ready
  /\ \A e \in Edges : \E r \in prims : e \in EdgesOf(r)
  /\ ready' = TRUE
  /\ UNCHANGED prims

Next == Seal \/ \E r \in EdgeRanges : Publish(r)

Spec == Init /\ [][Next]_coverVars

(* Every edge is behind exactly one box when the queries may start. *)
ExactCover ==
  ready => \A e \in Edges : \E r \in prims :
             /\ e \in EdgesOf(r)
             /\ \A q \in prims : e \in EdgesOf(q) => q = r
=============================================================================
