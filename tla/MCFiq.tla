-------------------------------- MODULE MCFiq --------------------------------
(* Small instances of Fiq.                                                   *)
EXTENDS Fiq, TLC
=============================================================================
