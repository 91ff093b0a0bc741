---------------------------- MODULE MCBuddyZone ----------------------------
(* Small instances of BuddyZone.                                            *)
EXTENDS BuddyZone, TLC

PowersOfTwo == [o \in 0 .. MAX_ORDER |-> 2 ^ o]
Symmetry == Permutations(CPUs)
=============================================================================
