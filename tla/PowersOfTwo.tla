----------------------------- MODULE PowersOfTwo -----------------------------
(***************************************************************************)
(* The powers of two by which the device's loops double and halve (offset  *)
(* <<= 1 and >>= 1 in the scan).  A function of the exponent and not the   *)
(* operator ^, so that one can reason about it.                            *)
(***************************************************************************)
EXTENDS Integers

Pow2[n \in Nat] == IF n = 0 THEN 1 ELSE 2 * Pow2[n - 1]
=============================================================================
