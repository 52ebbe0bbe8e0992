---------------------------- MODULE OutputChain ----------------------------
(***************************************************************************)
(* WriteOutputChain, WriteOutputChainNative and WriteResult of the Vulkan  *)
(* overlay: the last phase of every overlay program.  It walks along the   *)
(* chains of both maps, cuts each chain at its crossings into fragments,   *)
(* drops those outside of the other map, and then numbers faces and        *)
(* points.                                                                 *)
(*                                                                         *)
(* A chain of the input is given as what it is on the ground: a walk along *)
(* points and crossings, and the polygon of the other map for each stretch *)
(* between two crossings.  The arrays that the code reads (points, row     *)
(* index, crossings sorted along each edge, polygons of points and of      *)
(* midpoints) are computed from that; coordinates are values that can only *)
(* be compared.                                                            *)
(***************************************************************************)
EXTENDS Integers, Sequences, FiniteSets

CONSTANT
  Inputs    \* per map the chains: left, right: the polygons beside the chain;
            \* walk: items (at: coordinates, x: whether it is a crossing);
            \* face: the polygon of the other map for each stretch

Maps == {0, 1}

Crossings(c) == {i \in DOMAIN c.walk : c.walk[i].x}
Vertices(c) == DOMAIN c.walk \ Crossings(c)

(* A chain has an edge, its ends are points of it, and it has one stretch  *)
(* more than crossings.                                                    *)
ASSUME InputsAssumption ==
  \A in \in Inputs : \A m \in Maps : \A k \in DOMAIN in[m] :
    LET c == in[m][k]
    IN  /\ {c.left, c.right} \subseteq Nat
        /\ \A i \in DOMAIN c.face : c.face[i] \in Nat
        /\ Len(c.walk) > 1 /\ {1, Len(c.walk)} \subseteq Vertices(c)
        /\ Len(c.face) = Cardinality(Crossings(c)) + 1

VARIABLES
  input,       \* one of Inputs
  im, ic, pid, \* map, chain and point of the walk
  cur,         \* output_chain: the fragment that is being collected
  out,         \* output_chains
  k,           \* the output chain that is numbered next
  faceIds,     \* face_ids
  pointIds     \* the distinct points, in the order of their numbers

vars == <<input, im, ic, pid, cur, out, k, faceIds, pointIds>>

-----------------------------------------------------------------------------
(* The arrays the code reads.                                              *)

Chains(m) == input[m]

(* p_graph.row_index: the first point of each chain, and one behind.       *)
RowIndex(m, c) ==
  LET Row[i \in 0 .. Len(Chains(m))] ==
        IF i = 0 THEN 0 ELSE Row[i - 1] + Cardinality(Vertices(Chains(m)[i]))
  IN  Row[c]

ChainOf(m, p) == CHOOSE c \in 0 .. Len(Chains(m)) - 1 : RowIndex(m, c) <= p /\ p < RowIndex(m, c + 1)

(* The place on the walk of point p of map m.                              *)
PlaceOf(m, p) ==
  LET c == Chains(m)[ChainOf(m, p) + 1]
  IN  CHOOSE i \in Vertices(c) : Cardinality({j \in Vertices(c) : j < i}) = p - RowIndex(m, ChainOf(m, p))

(* The number of the stretch that begins before or at place i.             *)
StretchAt(c, i) == 1 + Cardinality({j \in Crossings(c) : j < i})

PointAt(m, p) == Chains(m)[ChainOf(m, p) + 1].walk[PlaceOf(m, p)].at
PointInPolygon(m, p) ==
  LET c == Chains(m)[ChainOf(m, p) + 1] IN c.face[StretchAt(c, PlaceOf(m, p))]

(* xsect_edges_sorted[m]: edge e of chain c follows its point e + c; a     *)
(* crossing carries the polygon of the midpoint to the next one, or -1.    *)
XsectsOf(m, e) ==
  LET edges == {d \in 0 .. Len(Chains(m)) - 1 : RowIndex(m, d) - d <= e /\ e < RowIndex(m, d + 1) - d - 1}
      c     == Chains(m)[(CHOOSE d \in edges : TRUE) + 1]
      first == PlaceOf(m, e + CHOOSE d \in edges : TRUE)
      n     == CHOOSE l \in 0 .. Len(c.walk) : first + l + 1 \in Vertices(c)
                                             /\ \A j \in 1 .. l : first + j \in Crossings(c)
  IN  IF edges = {} THEN <<>>
      ELSE [j \in 1 .. n |-> [at  |-> c.walk[first + j].at,
                              mid |-> IF j = n THEN -1 ELSE c.face[StretchAt(c, first + j + 1)]]]

-----------------------------------------------------------------------------
(* std::unique: of equal neighbours the first is kept.                     *)
Unique(s) ==
  LET U[i \in 0 .. Len(s)] == IF i = 0 THEN <<>>
                              ELSE IF i > 1 /\ s[i] = s[i - 1] THEN U[i - 1]
                              ELSE Append(U[i - 1], s[i])
  IN  U[Len(s)]

(* Some side of the fragment is in a polygon of both maps.                 *)
Inside(c) == c.left * c.other # 0 \/ c.right * c.other # 0

(* Flush one fragment, then empty it.                                      *)
Flushed(c) == IF c.points # <<>> /\ Inside(c)
              THEN <<[c EXCEPT !.points = Unique(@)]>>
              ELSE <<>>

AddPoint(c, p) == [c EXCEPT !.points = Append(@, p)]

FlushedAll(cs) ==
  LET F[i \in 0 .. Len(cs)] == IF i = 0 THEN <<>> ELSE F[i - 1] \o Flushed(cs[i]) IN F[Len(cs)]

(* The fragments that end on an edge with crossings xs: the one that has   *)
(* come so far, and one between each crossing and the next.                *)
EndedBy(c, xs) ==
  [j \in DOMAIN xs |-> IF j = 1 THEN AddPoint(c, xs[1].at)
                       ELSE [c EXCEPT !.other = xs[j - 1].mid, !.points = <<xs[j - 1].at, xs[j].at>>]]

(* The fragment that is begun at the last crossing.                        *)
BegunBy(c, xs) ==
  LET n == Len(xs)
  IN  [c EXCEPT !.other = IF n = 1 THEN @ ELSE xs[n - 1].mid, !.points = <<xs[n].at>>]

NewChain(m, c) ==
  [left |-> Chains(m)[c + 1].left, right |-> Chains(m)[c + 1].right, other |-> -1,
   points |-> <<>>, first |-> -1, last |-> -1]

Init ==
  /\ input \in Inputs
  /\ im = 0 /\ ic = 0 /\ pid = 0
  /\ cur = IF Chains(0) = <<>> THEN [left |-> 0] ELSE NewChain(0, 0)
  /\ out = <<>>
  /\ k = 1 /\ faceIds = <<>> /\ pointIds = <<>>

Walking == im \in Maps /\ ic < Len(Chains(im)) /\ pid < RowIndex(im, ic + 1)

(* The last point of a chain begins no edge.                               *)
IsLastPoint == pid = RowIndex(im, ic + 1) - 1
(* Fault: edges numbered like points. *)
PointAsEid(p, c) == p
EidOf(p, c) == p - c
XsectsHere == IF IsLastPoint THEN <<>> ELSE XsectsOf(im, EidOf(pid, ic))

(* One point of the chain and the crossings on the edge behind it.         *)
WalkPoint ==
  /\ Walking
  /\ LET c  == AddPoint([cur EXCEPT !.other = PointInPolygon(im, pid)], PointAt(im, pid))
         xs == XsectsHere
     IN  IF xs = <<>> THEN cur' = c /\ out' = out
         ELSE /\ out' = out \o FlushedAll(EndedBy(c, xs))
              /\ cur' = BegunBy(c, xs)
  /\ pid' = pid + 1
  /\ UNCHANGED <<input, im, ic, k, faceIds, pointIds>>

(* The end of a chain; the next one begins, perhaps in the other map.      *)
EndChain ==
  /\ im \in Maps /\ ic < Len(Chains(im)) /\ ~Walking
  /\ out' = out \o Flushed(cur)
  /\ ic' = ic + 1
  /\ cur' = IF ic + 1 < Len(Chains(im)) THEN NewChain(im, ic + 1) ELSE cur
  /\ UNCHANGED <<input, im, pid, k, faceIds, pointIds>>

EndMap ==
  /\ im \in Maps /\ ic = Len(Chains(im))
  /\ im' = im + 1 /\ ic' = 0 /\ pid' = 0
  /\ cur' = IF im = 0 /\ Chains(1) # <<>> THEN NewChain(1, 0) ELSE cur
  /\ UNCHANGED <<input, out, k, faceIds, pointIds>>

-----------------------------------------------------------------------------
(* Faults: an id that leaves a gap; an id for each side. *)
CreateBeyond(table, p, q) ==
  LET next == Cardinality(DOMAIN table) + 2
  IN  CASE p = 0 \/ q = 0 -> [table |-> table, id |-> 0]
      [] <<p, q>> \in DOMAIN table -> [table |-> table, id |-> table[<<p, q>>]]
      [] OTHER -> [table |-> [d \in DOMAIN table \cup {<<p, q>>} |-> IF d = <<p, q>> THEN next ELSE table[d]],
                   id |-> next]
CreateAlways(table, p, q) ==
  LET next == Cardinality(DOMAIN table) + 1
  IN  IF p = 0 \/ q = 0 THEN [table |-> table, id |-> 0]
      ELSE [table |-> [d \in DOMAIN table \cup {<<p, q>>} |-> IF d = <<p, q>> THEN next ELSE table[d]],
            id |-> next]

(* create_polygon: the id of a pair, and the table with it.                *)
CreatePolygon(table, p, q) ==
  LET next == Cardinality(DOMAIN table) + 1
  IN  CASE p = 0 \/ q = 0 -> [table |-> table, id |-> 0]
      [] <<p, q>> \in DOMAIN table -> [table |-> table, id |-> table[<<p, q>>]]
      [] OTHER -> [table |-> [d \in DOMAIN table \cup {<<p, q>>} |-> IF d = <<p, q>> THEN next ELSE table[d]],
                   id |-> next]

(* The smaller id comes first in a pair.                                   *)
FaceOf(table, side, other) ==
  IF side < other THEN CreatePolygon(table, side, other) ELSE CreatePolygon(table, other, side)

(* Both sides are numbered, and then once more with their new numbers.     *)
NumberSides(table, c) ==
  LET l1 == FaceOf(table, c.left, c.other)
      r1 == FaceOf(l1.table, c.right, c.other)
      l2 == FaceOf(r1.table, l1.id, c.other)
      r2 == FaceOf(l2.table, r1.id, c.other)
  IN  [table |-> r2.table, left |-> l2.id, right |-> r2.id]

(* point_ids: a point that is new gets the next number.                    *)
NumberPoints(known, ps) ==
  LET N[i \in 0 .. Len(ps)] == IF i = 0 THEN known
                               ELSE IF \E j \in DOMAIN N[i - 1] : N[i - 1][j] = ps[i] THEN N[i - 1]
                               ELSE Append(N[i - 1], ps[i])
  IN  N[Len(ps)]
IdIn(ids, p) == (CHOOSE j \in DOMAIN ids : ids[j] = p) - 1

Number ==
  /\ im = 2 /\ k <= Len(out)
  /\ LET f  == NumberSides(faceIds, out[k])
         ps == out[k].points
     IN  /\ faceIds' = f.table
         /\ pointIds' = NumberPoints(pointIds, ps)
         /\ out' = [out EXCEPT ![k].left = f.left, ![k].right = f.right,
                               ![k].first = IdIn(pointIds', ps[1]),
                               ![k].last = IdIn(pointIds', ps[Len(ps)])]
  /\ k' = k + 1
  /\ UNCHANGED <<input, im, ic, pid, cur>>

Written == im = 2 /\ k = Len(out) + 1 /\ UNCHANGED vars

Next == WalkPoint \/ EndChain \/ EndMap \/ Number \/ Written

Spec == Init /\ [][Next]_vars

-----------------------------------------------------------------------------
(* The indices, the tables and the fragments stay what the code declares.  *)
TypeOK ==
  /\ input \in Inputs
  /\ im \in 0 .. 2 /\ ic \in Nat /\ pid \in Nat
  /\ (im \in Maps => ic \in 0 .. Len(Chains(im)) /\ pid \in 0 .. RowIndex(im, Len(Chains(im))))
  /\ k \in 1 .. Len(out) + 1
  /\ \A i \in DOMAIN out : out[i].points # <<>> /\ out[i].other \in Nat
  /\ \A d \in DOMAIN faceIds : faceIds[d] \in 1 .. Cardinality(DOMAIN faceIds)
  /\ \A i, j \in DOMAIN pointIds : pointIds[i] = pointIds[j] => i = j

(* The stretches of a chain: where each begins and ends, and its polygon.  *)
Cuts(c) == {1, Len(c.walk)} \cup Crossings(c)
StretchOf(c, s) ==
  LET from == CHOOSE i \in Cuts(c) : StretchAt(c, i) = s - (IF s = 1 THEN 0 ELSE 1) /\ (s = 1 => i = 1)
                                     /\ (s > 1 => i \in Crossings(c))
      to   == IF s = Len(c.face) THEN Len(c.walk)
              ELSE CHOOSE i \in Crossings(c) : StretchAt(c, i) = s
  IN  [left |-> c.left, right |-> c.right, other |-> c.face[s],
       points |-> Unique([i \in 1 .. to - from + 1 |-> c.walk[from + i - 1].at]), first |-> -1, last |-> -1]

StretchesOf(cs) ==
  LET C[i \in 0 .. Len(cs)] ==
        IF i = 0 THEN <<>>
        ELSE C[i - 1] \o SelectSeq([s \in DOMAIN cs[i].face |-> StretchOf(cs[i], s)], Inside)
  IN  C[Len(cs)]

Expected == StretchesOf(Chains(0)) \o StretchesOf(Chains(1))

(* The fragments are the stretches of the chains that are inside of the    *)
(* other map: each once, in order, from crossing to crossing, with the     *)
(* polygon it is in, whether that came from a point or from a midpoint.    *)
FragmentsExact ==
  im = 2 =>
    /\ Len(out) = Len(Expected)
    /\ \A i \in DOMAIN out :
         /\ out[i].points = Expected[i].points /\ out[i].other = Expected[i].other
         /\ i >= k => out[i] = Expected[i]

(* The source polygon and the face id of a side of fragment i.             *)
Sides == {"left", "right"}
SourceOf(i, s) == IF s = "left" THEN Expected[i].left ELSE Expected[i].right
IdOf(i, s) == IF s = "left" THEN out[i].left ELSE out[i].right

(* A side gets face 0 exactly if it is outside of one of the maps, and two *)
(* sides of one map that are in the same polygons get the same face,       *)
(* however the table has grown between them.                               *)
FacesStable ==
  im = 2 =>
    \A i, j \in 1 .. k - 1 : \A s, t \in Sides :
      /\ IdOf(i, s) = 0 <=> SourceOf(i, s) = 0 \/ Expected[i].other = 0
      /\ SourceOf(i, s) = SourceOf(j, t) /\ Expected[i].other = Expected[j].other => IdOf(i, s) = IdOf(j, t)

(* Fragments that begin or end at one place have the same point id there,  *)
(* those at different places do not; ids are below the number of points.   *)
EndsJoin ==
  im = 2 =>
    \A i, j \in 1 .. k - 1 :
      LET End(n) == {<<out[n].first, out[n].points[1]>>, <<out[n].last, out[n].points[Len(out[n].points)]>>}
      IN  \A e \in End(i), f \in End(j) :
            e[1] \in 0 .. Len(pointIds) - 1 /\ (e[1] = f[1] <=> e[2] = f[2])

(* The numbering of faces and of points, over both maps. *)
NumbersStable == FacesStable /\ EndsJoin

(* The comment of face_ids: a face id stands for a pair of polygons, one   *)
(* of each map.  This is what it would mean for the fragments of both maps.*)
MapOf(i) == IF i <= Len(StretchesOf(Chains(0))) THEN 0 ELSE 1
PairOf(i, s) == IF MapOf(i) = 0 THEN <<SourceOf(i, s), Expected[i].other>> ELSE <<Expected[i].other, SourceOf(i, s)>>
FacesByPair ==
  im = 2 =>
    \A i, j \in 1 .. k - 1 : \A s, t \in Sides :
      0 \notin {IdOf(i, s), IdOf(j, t)} => (IdOf(i, s) = IdOf(j, t) <=> PairOf(i, s) = PairOf(j, t))
=============================================================================
