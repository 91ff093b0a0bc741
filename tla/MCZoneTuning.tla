---------------------------- MODULE MCZoneTuning ----------------------------
(* Small instances of ZoneTuning.                                           *)
EXTENDS ZoneTuning, TLC

\* Two nodes with DMA and normal memory, one with normal memory only.
ThreeNodes == [n \in 0 .. 2 |-> [z \in 0 .. 1 |-> IF z = 1 THEN 16 ELSE IF n = 0 THEN 8 ELSE 0]]
Distances == [n \in 0 .. 2 |-> [m \in 0 .. 2 |-> IF n = m THEN 10 ELSE IF n + m = 1 THEN 20 ELSE 40]]
Late == {<<2, 0>>}
Symmetry == Permutations(Writers)
=============================================================================
