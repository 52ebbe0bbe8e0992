--------------------------- MODULE MCBlockGrouping ---------------------------
(* BlockGrouping on one full block and a partial one. *)
EXTENDS BlockGrouping
=============================================================================
