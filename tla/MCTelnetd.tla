----------------------------- MODULE MCTelnetd -----------------------------
(* Small instances of Telnetd.                                              *)
EXTENDS Telnetd
=============================================================================
