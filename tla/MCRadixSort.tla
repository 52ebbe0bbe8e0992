---------------------------- MODULE MCRadixSort ----------------------------
(* Two digits of eight values, two waves of four lanes, two items a thread:
   the smallest sizes with which every level of the scan has more than one
   cell.  A partition has 16 keys; 19 keys make a second one with padding,
   and 63 is also the key that stands for padding. *)
EXTENDS RadixSort

Keys(n0, a, b) == [i \in 0 .. n0 - 1 |-> (a * i * i + b * i) % 64]

MCInputs ==
  {<<>>, Keys(1, 5, 27), Keys(16, 9, 0), Keys(19, 5, 27),
   [i \in 0 .. 18 |-> IF i % 2 = 0 THEN 63 ELSE 60 - i]}
=============================================================================
