----------------------------- MODULE MCTcpRelay -----------------------------
(***************************************************************************)
(* Model values for TcpRelay.                                              *)
(***************************************************************************)
EXTENDS TcpRelay

CONSTANTS d1

OneDevice == [o \in Opens |-> d1]
=============================================================================
