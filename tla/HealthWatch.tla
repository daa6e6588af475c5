----------------------------- MODULE HealthWatch -----------------------------
(***************************************************************************)
(* What the health checks of a Hub with any number of processes promise:   *)
(* the firewalls are watched as if one process probed some of them at once *)
(* and recorded one step of the automaton for each.                        *)
(***************************************************************************)
EXTENDS HealthAutomaton

CONSTANTS Devices, Unwatched

VARIABLE health  \* per firewall its health, or Unwatched

Init == health = [d \in Devices |-> NewHealth]

Watched == {d \in Devices : health[d] # Unwatched}

Round(D, healthy) ==
    health' = [d \in Devices |->
                  IF d \in D THEN NextHealth(health[d], healthy[d]) ELSE health[d]]

\* Revoked or deleted.
Leave(d) == health' = [health EXCEPT ![d] = Unwatched]

Next ==
    \/ \E D \in SUBSET Watched : \E healthy \in [D -> BOOLEAN] : Round(D, healthy)
    \/ \E d \in Watched : Leave(d)

Spec == Init /\ [][Next]_health
=============================================================================
