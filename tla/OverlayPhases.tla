--------------------------- MODULE OverlayPhases ---------------------------
(***************************************************************************)
(* What every overlay promises, whatever engine it runs on: its products   *)
(* come into being once and stay, and none before the products that it is  *)
(* computed from.  This is the order the comments of the drivers           *)
(* (core/run_overlay.cu) go through phase by phase; how a phase is made of *)
(* operations, and when the device does them, is left open.                *)
(***************************************************************************)
EXTENDS Integers

VARIABLE made

Both(kind) == {<<kind, 0>>, <<kind, 1>>}
Products == Both("map") \cup Both("index") \cup Both("located") \cup Both("pieces")
              \cup {<<"xsects">>, <<"result">>, <<"answers">>}

(* The edges of map 0 are traced through the structure of map 1; points of *)
(* a map, and midpoints on its edges, through that of the other; the query *)
(* program has one structure, that of map 0.                               *)
MadeFrom(p) ==
  CASE p[1] = "map"     -> {}
    [] p[1] = "index"   -> {<<"map", p[2]>>}
    [] p[1] = "xsects"  -> {<<"index", 1>>, <<"map", 0>>}
    [] p[1] = "located" -> {<<"index", 1 - p[2]>>, <<"map", p[2]>>}
    [] p[1] = "pieces"  -> {<<"index", 1 - p[2]>>, <<"xsects">>, <<"map", p[2]>>}
    [] p[1] = "result"  -> {<<"located", 0>>, <<"located", 1>>, <<"pieces", 0>>, <<"pieces", 1>>}
    [] p[1] = "answers" -> {<<"index", 0>>}

Init == made = {}

(* The grid has one structure for both maps, so two products come at once. *)
Next ==
  /\ made # made' /\ made \subseteq made' /\ made' \in SUBSET Products
  /\ \A p \in made' \ made : MadeFrom(p) \subseteq made

Spec == Init /\ [][Next]_made
=============================================================================
