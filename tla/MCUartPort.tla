----------------------------- MODULE MCUartPort -----------------------------
(* Small instances of UartPort.                                             *)
EXTENDS UartPort, TLC
=============================================================================
