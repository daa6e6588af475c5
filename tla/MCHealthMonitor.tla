--------------------------- MODULE MCHealthMonitor ---------------------------
(***************************************************************************)
(* Model values for HealthMonitor: the thresholds are the defaults of      *)
(* config.py, and everything that may go wrong does.                       *)
(***************************************************************************)
EXTENDS HealthMonitor

MCFaults == AllFaults
=============================================================================
