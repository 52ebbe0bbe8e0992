---------------------------- MODULE MCGraphCache ----------------------------
(* GraphCache with two processes of either kind, one of which may be killed, *)
(* and a map that is replaced once.                                         *)
EXTENDS GraphCache
=============================================================================
