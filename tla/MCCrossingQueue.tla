--------------------------- MODULE MCCrossingQueue ---------------------------
(* CrossingQueue with every relation of crossings and every grouping. *)
EXTENDS CrossingQueue
=============================================================================
