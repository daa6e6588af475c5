-------------------------- MODULE MCPeerLifecycle --------------------------
(***************************************************************************)
(* Model values for PeerLifecycle.                                         *)
(***************************************************************************)
EXTENDS PeerLifecycle, TLC

CONSTANTS co1

OneCompany == [c \in Codes |-> co1]

Symmetry ==
    Permutations(Reqs) \cup Permutations(Admins)
        \cup Permutations(Keys) \cup Permutations(Codes)
=============================================================================
