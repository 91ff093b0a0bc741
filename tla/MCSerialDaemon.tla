--------------------------- MODULE MCSerialDaemon ---------------------------
(* Small instances of SerialDaemon.                                         *)
EXTENDS SerialDaemon
=============================================================================
