-------------------------- MODULE MCDeviceSession --------------------------
(***************************************************************************)
(* Model values for DeviceSession.                                         *)
(***************************************************************************)
EXTENDS DeviceSession, TLC

Symmetry == Permutations(Procs)
=============================================================================
