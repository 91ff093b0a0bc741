----------------------------- MODULE MCUartXmit -----------------------------
(* Small instances of UartXmit.                                            *)
EXTENDS UartXmit
=============================================================================
