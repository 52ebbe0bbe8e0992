--------------------------- MODULE MCOutputChain ---------------------------
(* One map has a chain of up to five items with every place for crossings,  *)
(* also at a point or at each other, against a fixed chain; or both maps   *)
(* have chains with one crossing and every choice of polygons beside and   *)
(* below them.                                                             *)
EXTENDS OutputChain

MaxItems == 5
MaxPolygon == 3

Item(at, x) == [at |-> at, x |-> x]
Chain(l, r, w, f) == [left |-> l, right |-> r, walk |-> w, face |-> f]

(* Where the items are, one step on or at the place of the one before.     *)
Steps(s, i) == Cardinality({j \in 2 .. i : s[j] = 1})
Shapes(n) == {x \in [1 .. n -> BOOLEAN] : ~x[1] /\ ~x[n]}
Walks ==
  UNION {{[i \in 1 .. n |-> Item(Steps(s, i), x[i])] : x \in Shapes(n),
          s \in {f \in [1 .. n -> {0, 1}] : f[1] = 0 /\ Cardinality({i \in 2 .. n : f[i] = 0}) < 2}}
         : n \in 2 .. MaxItems}

(* Polygons of the stretches: 0 is outside.                                *)
Faces(w) == LET n == Cardinality({i \in DOMAIN w : w[i].x}) + 1
            IN  {f \in [1 .. n -> 0 .. 2] : \A i \in 2 .. n : f[i] # f[i - 1]}

Across == Chain(1, 0, <<Item(7, FALSE), Item(1, TRUE), Item(8, FALSE)>>, <<0, 1>>)

Cutting == UNION {{[m \in Maps |-> IF m = 0 THEN <<Across, Chain(l, 2, w, f)>> ELSE <<Across>>] :
                     l \in {0, 1}, f \in Faces(w)} : w \in Walks}

Plain(a) == <<Item(a, FALSE), Item(a + 1, FALSE)>>
Numbering == {[m \in Maps |-> IF m = 0 THEN <<Chain(p, q, Plain(1), <<f>>), Chain(q, r, Plain(2), <<g>>)>>
                              ELSE <<Chain(f, g, Plain(1), <<h>>), Chain(g, 0, Plain(4), <<p>>)>>] :
                p, f \in 0 .. MaxPolygon, q, r, g, h \in 0 .. 2}

MCInputs == Cutting \cup Numbering
=============================================================================
