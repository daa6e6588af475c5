---------------------------- MODULE FirewallFleet ----------------------------
(***************************************************************************)
(* What enrollment, revocation and deletion promise: the fleet of enrolled *)
(* firewalls and the enrollment codes change together, in one step.  A     *)
(* code enrolls a firewall while it is open and its company exists, with a *)
(* key and an address that no firewall of the fleet has.                   *)
(***************************************************************************)
CONSTANTS Keys, Codes, Companies, CodeCompany,
          Addresses       \* tunnel addresses a firewall may be given

VARIABLES companies,      \* companies that exist
          codeState,      \* per code: "none" | "open" | "used" | "gone"
          fleet           \* the firewalls, each with its code, key, address

vars == <<companies, codeState, fleet>>

Init ==
    /\ companies = Companies
    /\ codeState = [c \in Codes |-> "none"]
    /\ fleet = {}

Issue(c) ==
    /\ codeState[c] = "none" /\ CodeCompany[c] \in companies
    /\ codeState' = [codeState EXCEPT ![c] = "open"]
    /\ UNCHANGED <<companies, fleet>>

Enroll(c, k, ip) ==
    /\ codeState[c] = "open" /\ CodeCompany[c] \in companies
    /\ \A f \in fleet : f.key # k /\ f.ip # ip
    /\ codeState' = [codeState EXCEPT ![c] = "used"]
    /\ fleet' = fleet \cup {[code |-> c, key |-> k, ip |-> ip, state |-> "active"]}
    /\ UNCHANGED companies

\* The enrollment failed after all: its firewall, unless it is gone already,
\* leaves the fleet, and its code can be used again.
Undo(c) ==
    /\ codeState[c] = "used"
    /\ codeState' = [codeState EXCEPT ![c] = "open"]
    /\ fleet' = {f \in fleet : f.code # c}
    /\ UNCHANGED companies

Revoke(f) ==
    /\ fleet' = (fleet \ {f}) \cup {[f EXCEPT !.state = "revoked"]}
    /\ UNCHANGED <<companies, codeState>>

Delete(f) ==
    /\ f.state = "revoked"
    /\ fleet' = fleet \ {f}
    /\ UNCHANGED <<companies, codeState>>

DeleteCompany(co) ==
    /\ companies' = companies \ {co}
    /\ codeState' = [c \in Codes |-> IF CodeCompany[c] = co THEN "gone" ELSE codeState[c]]
    /\ fleet' = {f \in fleet : CodeCompany[f.code] # co}

Next ==
    \/ \E c \in Codes : Issue(c) \/ Undo(c)
    \/ \E c \in Codes, k \in Keys, ip \in Addresses : Enroll(c, k, ip)
    \/ \E f \in fleet : Revoke(f) \/ Delete(f)
    \/ \E co \in companies : DeleteCompany(co)

Spec == Init /\ [][Next]_vars
=============================================================================
