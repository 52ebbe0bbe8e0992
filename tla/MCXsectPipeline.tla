-------------------------- MODULE MCXsectPipeline --------------------------
(* Four crossings of two edges and three, found in any order; five and      *)
(* seven of one edge, in orders that make the quicksort put off as many     *)
(* ranges as it can; one crossing; none.                                    *)
EXTENDS XsectPipeline

Four == {<<0, 0>>, <<0, 1>>, <<0, 2>>, <<1, 1>>}
Five == <<1, 2, 4, 5, 3>>
Seven == <<1, 2, 3, 5, 6, 7, 4>>
OnOneEdge(others) == [i \in DOMAIN others |-> <<0, others[i]>>]


(* Along the edges: by the other edge, against it, or all at one place. *)
Along(m) == [x \in (0 .. 1) \X (0 .. 7) |-> x[2 - m]]
Against(m) == [x \in (0 .. 1) \X (0 .. 7) |-> 7 - x[2 - m]]
AtOnePlace(m) == [x \in (0 .. 1) \X (0 .. 7) |-> 0]

Ranks == {[m \in Maps |-> Along(m)], [m \in Maps |-> Against(m)], [m \in Maps |-> AtOnePlace(m)]}

MCInputs ==
  [program : {"rt", "lbvh", "grid", "vk"}, queue : SetToSeqs(Four) \cup {<<>>, <<<<0, 1>>>>}, rank : Ranks]
  \cup [program : {"vk"}, queue : {OnOneEdge(Five), OnOneEdge(Seven)}, rank : Ranks]
=============================================================================
