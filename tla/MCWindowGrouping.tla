-------------------------- MODULE MCWindowGrouping --------------------------
(* Windows of two edges: five windows in map 0, so that the prefix sum needs
   two levels, and two, the second one partial, in map 1. *)
EXTENDS WindowGrouping

MCNE == [m \in {0, 1} |-> IF m = 0 THEN 9 ELSE 3]
=============================================================================
