------------------------- MODULE MCConnectorAccess -------------------------
(***************************************************************************)
(* Model values for ConnectorAccess.                                       *)
(***************************************************************************)
EXTENDS ConnectorAccess

CONSTANTS d1

OneDevice == [s \in Sessions |-> d1]
=============================================================================
