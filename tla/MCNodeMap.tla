----------------------------- MODULE MCNodeMap -----------------------------
(* Small instances of NodeMap.                                              *)
EXTENDS NodeMap

DmaAndNormal == <<2, 7>>
=============================================================================
