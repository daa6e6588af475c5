------------------------ MODULE PeerLifecycle_proofs ------------------------
(***************************************************************************)
(* Proofs about PeerLifecycle, for every number of requests, keys, codes,  *)
(* companies and addresses.                                                *)
(***************************************************************************)
EXTENDS PeerLifecycle, TLAPS

\* The sidecar's operations keep the peer table a peer table.
LEMMA ExecuteType ==
    ASSUME NEW c \in Calls, NEW t \in [Keys -> {NoPeer, NoRoute} \cup Hosts]
    PROVE  Execute(c, t) \in [Keys -> {NoPeer, NoRoute} \cup Hosts]
  BY DEF Execute, Calls, WgAdd, WgRemove, Hosts, NoPeer, NoRoute

\* So does the synchronisation of any set of active rows.
LEMMA SyncType ==
    ASSUME NEW S \in SUBSET ActiveRows, TypeOK
    PROVE  SyncPeers(S, peer) \in [Keys -> {NoPeer, NoRoute} \cup Hosts]
<1> SUFFICES ASSUME NEW k \in Keys
             PROVE  SyncPeers(S, peer)[k] \in {NoPeer, NoRoute} \cup Hosts
  BY DEF SyncPeers
<1>1. CASE \E r \in S : reqKey[r] = k
  <2>1. (CHOOSE r \in S : reqKey[r] = k) \in Reqs
    BY <1>1 DEF ActiveRows
  <2> QED BY <1>1, <2>1 DEF SyncPeers, TypeOK
<1>2. CASE ~\E r \in S : reqKey[r] = k
  BY <1>2 DEF SyncPeers, TypeOK
<1> QED BY <1>1, <1>2

\* A handler's outstanding call is a call on a key.
LEMMA CallType ==
    ASSUME TypeOK, NEW p \in Procs, call[p] # "none"
    PROVE  CallOf(p) \in Calls
<1>1. CASE p \in Reqs
  BY <1>1 DEF TypeOK, CallOf, Calls
<1>2. CASE p \in Admins
  <2>1. p \notin Reqs
    BY <1>2, ParamAssumption
  <2>2. reqKey[acur[p]] \in Keys
    BY <1>2 DEF TypeOK, Past, Procs
  <2> QED BY <2>1, <2>2 DEF CallOf, Calls
<1> QED BY <1>1, <1>2 DEF Procs

\* The first state is well typed.
LEMMA InitType == Init => TypeOK
  BY ParamAssumption DEF Init, TypeOK, Procs, Hosts, Rows, Holds, Past, NoPeer

(***************************************************************************)
(* Type correctness.                                                       *)
(***************************************************************************)
\* A given-up call is a call, and its key one of the firewalls' keys.
LEMMA AbandonType ==
    ASSUME TypeOK, NEW P \in SUBSET Procs, Abandon(P)
    PROVE  /\ zombies' \subseteq Calls
           /\ stray' \subseteq Keys
           /\ call' = [p \in Procs |-> IF p \in P THEN "none" ELSE call[p]]
<1> DEFINE lost == {CallOf(p) : p \in {q \in P : call[q] = "pending"}}
<1>1. lost \subseteq Calls
  BY CallType
<1>2. {c.key : c \in lost} \subseteq Keys
  BY <1>1 DEF Calls
<1>3. /\ zombies' = zombies \cup lost
      /\ stray' = stray \cup {c.key : c \in lost}
      /\ call' = [p \in Procs |-> IF p \in P THEN "none" ELSE call[p]]
  BY DEF Abandon
<1> QED BY <1>1, <1>2, <1>3 DEF TypeOK

\* Every step of the system keeps the type invariant.
LEMMA NextType == TypeOK /\ [Next]_vars => TypeOK'
<1> SUFFICES ASSUME TypeOK, [Next]_vars PROVE TypeOK'
  OBVIOUS
<1> USE ParamAssumption DEF TypeOK, Rows, Holds, Past, Procs, dbVars, reqVars, admVars, agentVars
<1>1. ASSUME NEW c \in Codes, CreateCode(c) \/ ExpireCode(c) PROVE TypeOK'
  BY <1>1 DEF CreateCode, ExpireCode
<1>2. ASSUME NEW r \in Reqs, EnrollClaimLost(r) \/ EnrollAbort(r) \/ EnrollConflict(r)
      PROVE  TypeOK'
  <2>1. pc[r] \in {"matched", "claimed"} /\ Rollback(r)
    BY <1>2 DEF EnrollClaimLost, EnrollAbort, EnrollConflict
  <2> QED BY <2>1 DEF Rollback, Released, Hosts
<1>3. ASSUME NEW r \in Reqs, NEW c \in Codes, NEW k \in Keys, EnrollMatch(r, c, k) PROVE TypeOK'
  BY <1>3 DEF EnrollMatch, Valid
<1>4. ASSUME NEW r \in Reqs, EnrollClaim(r) PROVE TypeOK'
  BY <1>4 DEF EnrollClaim, LowestFree, FreeIps
<1>5. ASSUME NEW r \in Reqs, EnrollCommit(r) PROVE TypeOK'
  BY <1>5 DEF EnrollCommit, Released
<1>6. ASSUME NEW r \in Reqs, AddPeerOk(r) PROVE TypeOK'
  BY <1>6 DEF AddPeerOk
<1>7. ASSUME NEW r \in Reqs, AddPeerError(r) PROVE TypeOK'
  BY <1>7 DEF AddPeerError
<1>8. ASSUME NEW a \in Admins, NEW r \in Reqs, RevokeStart(a, r) PROVE TypeOK'
  BY <1>8 DEF RevokeStart, Overlap
<1>9. ASSUME NEW a \in Admins, RevokeCommit(a) PROVE TypeOK'
  BY <1>9 DEF RevokeCommit, EndAdmin
<1>10. ASSUME NEW r \in Reqs, DeleteRevoked(r) PROVE TypeOK'
  BY <1>10 DEF DeleteRevoked
<1>11. ASSUME NEW a \in Admins, NEW co \in Companies, DeleteCompanyStart(a, co) PROVE TypeOK'
  BY SMTT(20), <1>11 DEF DeleteCompanyStart, RowsOf, ActiveRows
<1>12. ASSUME NEW a \in Admins, NEW r \in Reqs, DeleteCompanyCall(a, r) PROVE TypeOK'
  BY <1>12 DEF DeleteCompanyCall, Overlap
<1>13. ASSUME NEW a \in Admins, DeleteCompanyCommit(a) PROVE TypeOK'
  <2>1. {reqKey[r] : r \in (RowsOf(aco[a]) \cap ActiveRows) \ aread[a]} \subseteq Keys
    BY DEF RowsOf
  <2>2. stray' \subseteq Keys
    BY <1>13, <2>1 DEF DeleteCompanyCommit
  <2>3. rowState' \in [Reqs -> {"none", "active", "revoked"}]
    BY <1>13 DEF DeleteCompanyCommit
  <2>4. \A r \in Rows' : Holds(r)'
    BY <1>13 DEF DeleteCompanyCommit
  <2> QED BY <1>13, <2>2, <2>3, <2>4 DEF DeleteCompanyCommit, EndAdmin
<1>14. ASSUME NEW p \in Procs, AgentExec(p) \/ AgentFail(p) PROVE TypeOK'
  BY <1>14, ExecuteType, CallType DEF AgentExec, AgentFail
<1>15. ASSUME NEW z \in zombies, ZombieExec(z) PROVE TypeOK'
  BY <1>15, ExecuteType DEF ZombieExec
<1>16. ASSUME AgentRestart PROVE TypeOK'
  BY <1>16 DEF AgentRestart
<1>17. ASSUME Bootstrap PROVE TypeOK'
  BY <1>17, SyncType DEF Bootstrap
<1>18. ASSUME NEW S \in SUBSET ActiveRows, BootstrapFail(S) PROVE TypeOK'
  BY <1>18, SyncType DEF BootstrapFail
<1>19. ASSUME NEW r \in Reqs, AddPeerTimeout(r) PROVE TypeOK'
  <2>1. /\ zombies' \subseteq Calls
        /\ stray' \subseteq Keys
        /\ call' = [p \in Procs |-> IF p \in {r} THEN "none" ELSE call[p]]
    BY <1>19, AbandonType DEF AddPeerTimeout
  <2> QED BY <1>19, <2>1 DEF AddPeerTimeout
<1>20. ASSUME NEW a \in Admins, RemoveFails(a) PROVE TypeOK'
  <2>1. /\ zombies' \subseteq Calls
        /\ stray' \subseteq Keys
        /\ call' = [p \in Procs |-> IF p \in {a} THEN "none" ELSE call[p]]
    BY <1>20, AbandonType DEF RemoveFails
  <2> QED BY <1>20, <2>1 DEF RemoveFails, EndAdmin
<1>21. ASSUME Crash PROVE TypeOK'
  <2>1. /\ zombies' \subseteq Calls
        /\ stray' \subseteq Keys
        /\ call' = [p \in Procs |-> IF p \in Procs THEN "none" ELSE call[p]]
    BY <1>21, AbandonType DEF Crash
  <2>2. /\ pc' \in [Reqs -> {"idle", "matched", "claimed", "adding",
                              "done", "failed", "died", "undone"}]
        /\ \A r \in Reqs : Holds(r) => Holds(r)'
        /\ \A r \in Reqs : pc'[r] # "idle" => reqCode'[r] \in Codes /\ reqKey'[r] \in Keys
        /\ reqCode' \in [Reqs -> Codes \cup {None}]
        /\ reqKey' \in [Reqs -> Keys \cup {None}]
        /\ reqIp' \in [Reqs -> Hosts]
    BY <1>21 DEF Crash, Hosts
  <2>3. /\ rowState' = rowState
        /\ \A p \in Procs : call'[p] = "none"
        /\ \A a \in Admins : aread'[a] = {} /\ atodo'[a] = {}
    BY <1>21, <2>1 DEF Crash
  <2>4. /\ apc' \in [Admins -> {"idle", "revoking", "clearing"}]
        /\ acur' \in [Admins -> Reqs \cup {None}]
        /\ aco' \in [Admins -> Companies \cup {None}]
        /\ atodo' \in [Admins -> SUBSET Reqs]
        /\ aread' \in [Admins -> SUBSET Reqs]
        /\ lock' \in [Codes -> Reqs \cup {None}]
        /\ call' \in [Procs -> {"none", "pending", "ok", "err"}]
    BY <1>21, <2>1 DEF Crash
  <2>5. /\ \A r \in Rows' : Holds(r)'
        /\ \A r \in Reqs : call'[r] = "none"
        /\ \A a \in Admins : call'[a] = "none"
    BY <2>2, <2>3
  <2>6. UNCHANGED <<companies, codeState, expired, rowState, peer>> /\ hubUp' = FALSE
    BY <1>21 DEF Crash
  <2>7. /\ companies' \subseteq Companies
        /\ codeState' \in [Codes -> {"none", "open", "used", "gone"}]
        /\ expired' \subseteq Codes
        /\ rowState' \in [Reqs -> {"none", "active", "revoked"}]
        /\ peer' \in [Keys -> {NoPeer, NoRoute} \cup Hosts]
        /\ hubUp' \in BOOLEAN
    BY <2>6
  <2>8. \A a \in Admins : /\ atodo'[a] \subseteq aread'[a]
                          /\ \A r \in aread'[a] : Past(r)'
    BY <2>3
  <2> HIDE DEF Rows, Holds, Past, Procs
  <2> QED BY <2>1, <2>2, <2>4, <2>5, <2>7, <2>8
<1>22. ASSUME UNCHANGED vars PROVE TypeOK'
  BY <1>22 DEF vars
<1> HIDE DEF TypeOK, Rows, Holds, Past, Procs, dbVars, reqVars, admVars, agentVars
<1> QED
  BY <1>1, <1>2, <1>3, <1>4, <1>5, <1>6, <1>7, <1>8, <1>9, <1>10, <1>11, <1>12,
     <1>13, <1>14, <1>15, <1>16, <1>17, <1>18, <1>19, <1>20, <1>21, <1>22
  DEF Next, Enroll, Admin

\* Type correctness of the peer lifecycle: no interleaving of enrollments,
\* administrators, sidecar failures and crashes leaves a row without the
\* committed request that inserted it.
THEOREM TypeCorrect == Spec => []TypeOK
<1>1. Init => TypeOK
  BY InitType
<1> QED BY <1>1, NextType, PTL DEF Spec

(***************************************************************************)
(* One firewall per OTP.                                                   *)
(***************************************************************************)
\* The row lock of the claim carries the code from "open" to "used".
LEMMA NextOtp == OtpInv /\ [Next]_vars => OtpInv'
<1> SUFFICES ASSUME OtpInv, [Next]_vars PROVE CodeInv' /\ OtpSingleUse'
  BY NextType DEF OtpInv
<1> DEFINE Goal == CodeInv' /\ OtpSingleUse'
<1> USE ParamAssumption DEF OtpInv, TypeOK, CodeInv, OtpSingleUse, Holds,
        dbVars, reqVars, admVars, agentVars
<1>1. ASSUME NEW c \in Codes, CreateCode(c) \/ ExpireCode(c) PROVE Goal
  BY <1>1 DEF CreateCode, ExpireCode
<1>2. ASSUME NEW r \in Reqs, EnrollClaimLost(r) \/ EnrollAbort(r) \/ EnrollConflict(r)
      PROVE  Goal
  <2>1. Rollback(r)
    BY <1>2 DEF EnrollClaimLost, EnrollAbort, EnrollConflict
  <2> QED BY <2>1 DEF Rollback, Released
<1>3. ASSUME NEW r \in Reqs, NEW c \in Codes, NEW k \in Keys, EnrollMatch(r, c, k) PROVE Goal
  BY <1>3 DEF EnrollMatch, Valid
<1>4. ASSUME NEW r \in Reqs, EnrollClaim(r) PROVE Goal
  BY <1>4 DEF EnrollClaim
<1>5. ASSUME NEW r \in Reqs, EnrollCommit(r) PROVE Goal
  BY <1>5 DEF EnrollCommit, Released
<1>6. ASSUME NEW r \in Reqs, AddPeerOk(r) PROVE Goal
  BY <1>6 DEF AddPeerOk
<1>7. ASSUME NEW r \in Reqs, AddPeerError(r) PROVE Goal
  BY <1>7 DEF AddPeerError
<1>8. ASSUME NEW r \in Reqs, AddPeerTimeout(r) PROVE Goal
  BY <1>8 DEF AddPeerTimeout
<1>9. ASSUME NEW a \in Admins, Admin(a), ~DeleteCompanyCommit(a) PROVE Goal
  BY <1>9 DEF Admin, RevokeStart, RevokeCommit, RemoveFails, DeleteCompanyStart, DeleteCompanyCall
<1>10. ASSUME NEW a \in Admins, DeleteCompanyCommit(a) PROVE Goal
  BY <1>10 DEF DeleteCompanyCommit
<1>11. ASSUME NEW r \in Reqs, DeleteRevoked(r) PROVE Goal
  BY <1>11 DEF DeleteRevoked
<1>12. ASSUME NEW p \in Procs, AgentExec(p) \/ AgentFail(p) PROVE Goal
  BY <1>12 DEF AgentExec, AgentFail
<1>13. ASSUME NEW z \in zombies, ZombieExec(z) PROVE Goal
  BY <1>13 DEF ZombieExec
<1>14. ASSUME AgentRestart PROVE Goal
  BY <1>14 DEF AgentRestart
<1>15. ASSUME Crash PROVE Goal
  BY <1>15 DEF Crash
<1>16. ASSUME Bootstrap PROVE Goal
  BY <1>16 DEF Bootstrap
<1>17. ASSUME NEW S \in SUBSET ActiveRows, BootstrapFail(S) PROVE Goal
  BY <1>17 DEF BootstrapFail
<1>18. ASSUME UNCHANGED vars PROVE Goal
  BY <1>18 DEF vars
<1> HIDE DEF OtpInv, TypeOK, CodeInv, OtpSingleUse, Holds, dbVars, reqVars, admVars, agentVars
<1> QED
  BY <1>1, <1>2, <1>3, <1>4, <1>5, <1>6, <1>7, <1>8, <1>9, <1>10, <1>11, <1>12,
     <1>13, <1>14, <1>15, <1>16, <1>17, <1>18
  DEF Next, Enroll

\* An enrollment code enrolls one firewall, whatever the number of requests
\* presenting it at the same time, with or without SELECT ... FOR UPDATE.
THEOREM OtpUsedOnce == Spec => []OtpSingleUse
<1>1. Init => OtpInv
  BY InitType DEF Init, OtpInv, CodeInv, OtpSingleUse, Holds
<1>2. OtpInv => OtpSingleUse
  BY DEF OtpInv
<1> QED BY <1>1, <1>2, NextOtp, PTL DEF Spec

(***************************************************************************)
(* The runtime peer table.                                                 *)
(***************************************************************************)
\* A given-up call marks its key.
LEMMA AbandonStray ==
    ASSUME TypeOK, ZombiesStray, NEW P \in SUBSET Procs, Abandon(P)
    PROVE  /\ ZombiesStray'
           /\ stray \subseteq stray'
           /\ call' = [p \in Procs |-> IF p \in P THEN "none" ELSE call[p]]
  BY DEF Abandon, ZombiesStray

\* The Hub starts with no rows and no peers.
LEMMA InitPeer == Init => PeerInv
  BY InitType DEF Init, PeerInv, RowsUnique, AddLive, ZombiesStray, AdminShape, IssuedStray,
     ClearedGone, PeerTableSound, Issued, Cleared, Rows, Procs

\* The peer table follows the database through every step.
LEMMA NextPeer == PeerInv /\ [Next]_vars => PeerInv'
<1> SUFFICES ASSUME PeerInv, [Next]_vars
             PROVE  /\ RowsUnique' /\ AddLive' /\ ZombiesStray' /\ AdminShape'
                    /\ IssuedStray' /\ ClearedGone' /\ PeerTableSound'
  BY NextType DEF PeerInv
<1> DEFINE Goal == /\ RowsUnique' /\ AddLive' /\ ZombiesStray' /\ AdminShape'
                   /\ IssuedStray' /\ ClearedGone' /\ PeerTableSound'
<1> USE ParamAssumption DEF PeerInv, TypeOK, RowsUnique, AddLive, ZombiesStray, AdminShape,
        IssuedStray, ClearedGone, PeerTableSound, Issued, Cleared, Rows, ActiveRows,
        Holds, Past, Procs, NoPeer, NoRoute, Hosts, dbVars, reqVars, admVars, agentVars
<1>1. ASSUME NEW c \in Codes, CreateCode(c) \/ ExpireCode(c) PROVE Goal
  BY <1>1 DEF CreateCode, ExpireCode
<1>2. ASSUME NEW r \in Reqs, EnrollClaimLost(r) \/ EnrollAbort(r) \/ EnrollConflict(r) PROVE Goal
  <2>1. pc[r] \in {"matched", "claimed"} /\ Rollback(r)
    BY <1>2 DEF EnrollClaimLost, EnrollAbort, EnrollConflict
  <2>2. RowsUnique' /\ AddLive'
    BY <2>1 DEF Rollback
  <2>3. ZombiesStray' /\ AdminShape' /\ IssuedStray' /\ ClearedGone'
    BY <2>1 DEF Rollback
  <2>4. PeerTableSound'
    BY SMTT(20), <2>1 DEF Rollback
  <2> QED BY <2>2, <2>3, <2>4
<1>3. ASSUME NEW r \in Reqs, NEW c \in Codes, NEW k \in Keys, EnrollMatch(r, c, k) PROVE Goal
  <2>1. RowsUnique' /\ AddLive'
    BY SMTT(20), <1>3 DEF EnrollMatch
  <2>2. ZombiesStray' /\ AdminShape'
    BY <1>3 DEF EnrollMatch
  <2>3. IssuedStray' /\ ClearedGone'
    BY <1>3 DEF EnrollMatch
  <2>4. PeerTableSound'
    BY <1>3 DEF EnrollMatch
  <2> QED BY <2>1, <2>2, <2>3, <2>4
<1>4. ASSUME NEW r \in Reqs, EnrollClaim(r) PROVE Goal
  <2>1. RowsUnique' /\ AddLive'
    BY <1>4 DEF EnrollClaim
  <2>2. ZombiesStray' /\ AdminShape'
    BY <1>4 DEF EnrollClaim
  <2>3. IssuedStray' /\ ClearedGone'
    BY <1>4 DEF EnrollClaim
  <2>4. PeerTableSound'
    BY SMTT(20), <1>4 DEF EnrollClaim
  <2> QED BY <2>1, <2>2, <2>3, <2>4
<1>5. ASSUME NEW r \in Reqs, EnrollCommit(r) PROVE Goal
  <2>1. RowsUnique' /\ AddLive'
    BY <1>5 DEF EnrollCommit, RowConflict
  <2>2. ZombiesStray' /\ AdminShape'
    BY <1>5 DEF EnrollCommit, RowConflict
  <2>3. IssuedStray' /\ ClearedGone'
    BY <1>5 DEF EnrollCommit, RowConflict
  <2>4. PeerTableSound'
    BY <1>5 DEF EnrollCommit, RowConflict
  <2> QED BY <2>1, <2>2, <2>3, <2>4
<1>6. ASSUME NEW r \in Reqs, AddPeerOk(r) PROVE Goal
  <2>1. RowsUnique' /\ AddLive'
    BY <1>6 DEF AddPeerOk
  <2>2. ZombiesStray' /\ AdminShape'
    BY <1>6 DEF AddPeerOk
  <2>3. IssuedStray' /\ ClearedGone'
    BY <1>6 DEF AddPeerOk
  <2>4. PeerTableSound'
    BY <1>6 DEF AddPeerOk
  <2> QED BY <2>1, <2>2, <2>3, <2>4
<1>7. ASSUME NEW r \in Reqs, AddPeerError(r) PROVE Goal
  <2>1. RowsUnique' /\ AddLive'
    BY <1>7 DEF AddPeerError
  <2>2. ZombiesStray' /\ AdminShape'
    BY <1>7 DEF AddPeerError
  <2>3. IssuedStray' /\ ClearedGone'
    BY <1>7 DEF AddPeerError
  <2>4. PeerTableSound'
    BY <1>7 DEF AddPeerError
  <2> QED BY <2>1, <2>2, <2>3, <2>4
<1>8. ASSUME NEW r \in Reqs, AddPeerTimeout(r) PROVE Goal
  <2>1. /\ ZombiesStray'
        /\ stray \subseteq stray'
        /\ call' = [p \in Procs |-> IF p \in {r} THEN "none" ELSE call[p]]
    BY <1>8, AbandonStray DEF AddPeerTimeout
  <2> QED BY <1>8, <2>1 DEF AddPeerTimeout
<1>9. ASSUME NEW a \in Admins, NEW r \in Reqs, RevokeStart(a, r) PROVE Goal
  <2>1. RowsUnique' /\ AddLive'
    BY <1>9 DEF RevokeStart, Overlap
  <2>2. ZombiesStray' /\ AdminShape'
    BY <1>9 DEF RevokeStart, Overlap
  <2>3. IssuedStray' /\ ClearedGone'
    BY <1>9 DEF RevokeStart, Overlap
  <2>4. PeerTableSound'
    BY <1>9 DEF RevokeStart, Overlap
  <2> QED BY <2>1, <2>2, <2>3, <2>4
<1>10. ASSUME NEW a \in Admins, NEW r \in Reqs, DeleteCompanyCall(a, r) PROVE Goal
  <2>1. RowsUnique' /\ AddLive'
    BY <1>10 DEF DeleteCompanyCall, Overlap
  <2>2. ZombiesStray' /\ AdminShape'
    BY <1>10 DEF DeleteCompanyCall, Overlap
  <2>3. IssuedStray' /\ ClearedGone'
    BY <1>10 DEF DeleteCompanyCall, Overlap
  <2>4. PeerTableSound'
    BY <1>10 DEF DeleteCompanyCall, Overlap
  <2> QED BY <2>1, <2>2, <2>3, <2>4
<1>11. ASSUME NEW a \in Admins, RevokeCommit(a) PROVE Goal
  <2>1. RowsUnique' /\ AddLive'
    BY <1>11 DEF RevokeCommit, EndAdmin
  <2>2. ZombiesStray' /\ AdminShape'
    BY <1>11 DEF RevokeCommit, EndAdmin
  <2>3. IssuedStray' /\ ClearedGone'
    BY <1>11 DEF RevokeCommit, EndAdmin
  <2>4. PeerTableSound'
    BY <1>11 DEF RevokeCommit, EndAdmin
  <2> QED BY <2>1, <2>2, <2>3, <2>4
<1>12. ASSUME NEW a \in Admins, RemoveFails(a) PROVE Goal
  <2>1. /\ ZombiesStray'
        /\ stray \subseteq stray'
        /\ call' = [p \in Procs |-> IF p \in {a} THEN "none" ELSE call[p]]
    BY <1>12, AbandonStray DEF RemoveFails
  <2> QED BY <1>12, <2>1 DEF RemoveFails, EndAdmin
<1>13. ASSUME NEW a \in Admins, NEW co \in Companies, DeleteCompanyStart(a, co) PROVE Goal
  <2>1. RowsUnique' /\ AddLive'
    BY <1>13 DEF DeleteCompanyStart, RowsOf
  <2>2. ZombiesStray' /\ AdminShape'
    BY <1>13 DEF DeleteCompanyStart, RowsOf
  <2>3. IssuedStray' /\ ClearedGone'
    BY <1>13 DEF DeleteCompanyStart, RowsOf
  <2>4. PeerTableSound'
    BY <1>13 DEF DeleteCompanyStart, RowsOf
  <2> QED BY <2>1, <2>2, <2>3, <2>4
<1>14. ASSUME NEW a \in Admins, DeleteCompanyCommit(a) PROVE Goal
  <2>1. \A r \in RowsOf(aco[a]) : rowState[r] = "active" /\ r \notin aread[a] => reqKey[r] \in stray'
    BY <1>14 DEF DeleteCompanyCommit, RowsOf
  <2>2. stray \subseteq stray' /\ UNCHANGED <<pc, reqKey, reqIp, zombies, peer, hubUp>>
    BY <1>14 DEF DeleteCompanyCommit
  <2>3. \A r \in Reqs : rowState'[r] = IF r \in RowsOf(aco[a]) THEN "none" ELSE rowState[r]
    BY <1>14 DEF DeleteCompanyCommit
  <2>4. Cleared(a) = aread[a] /\ Issued(a) = aread[a]
    BY <1>14 DEF DeleteCompanyCommit
  <2>5. AdminShape'
    BY <1>14 DEF DeleteCompanyCommit, EndAdmin
  <2>6. IssuedStray' /\ ClearedGone'
    BY <1>14, <2>2, <2>3 DEF DeleteCompanyCommit, EndAdmin
  <2>7. AddLive'
    BY <2>1, <2>2, <2>3, <2>4
  <2>8. PeerTableSound'
    BY <2>1, <2>2, <2>3, <2>4
  <2> QED BY <2>2, <2>3, <2>5, <2>6, <2>7, <2>8
<1>15. ASSUME NEW r \in Reqs, DeleteRevoked(r) PROVE Goal
  <2>1. RowsUnique' /\ AddLive'
    BY <1>15 DEF DeleteRevoked
  <2>2. ZombiesStray' /\ AdminShape'
    BY <1>15 DEF DeleteRevoked
  <2>3. IssuedStray' /\ ClearedGone'
    BY <1>15 DEF DeleteRevoked
  <2>4. PeerTableSound'
    BY <1>15 DEF DeleteRevoked
  <2> QED BY <2>1, <2>2, <2>3, <2>4
<1>16. ASSUME NEW p \in Procs, AgentExec(p) \/ AgentFail(p) PROVE Goal
  <2>1. UNCHANGED <<dbVars, reqVars, admVars, zombies, hubUp, stray>>
    BY <1>16 DEF AgentExec, AgentFail
  <2>2. call[p] = "pending" /\ call' \in {[call EXCEPT ![p] = "ok"], [call EXCEPT ![p] = "err"]}
    BY <1>16 DEF AgentExec, AgentFail
  <2>3. RowsUnique' /\ AddLive' /\ ZombiesStray' /\ AdminShape' /\ IssuedStray'
    BY <2>1, <2>2
  <2>4. CASE peer' = peer /\ call' = [call EXCEPT ![p] = "err"]
    BY <2>1, <2>2, <2>3, <2>4
  <2>5. CASE p \in Reqs /\ peer' = Execute(CallOf(p), peer)
    <3>1. peer' = WgAdd(peer, reqKey[p], reqIp[p]) /\ pc[p] = "adding"
      BY <2>2, <2>5 DEF Execute, CallOf
    <3>2. ClearedGone'
      BY <2>1, <2>2, <2>5, <3>1 DEF WgAdd
    <3>3. PeerTableSound'
      BY <2>1, <3>1, <2>5 DEF WgAdd
    <3> QED BY <2>3, <3>2, <3>3
  <2>6. CASE p \in Admins /\ peer' = Execute(CallOf(p), peer)
    <3>1. peer' = WgRemove(peer, reqKey[acur[p]]) /\ acur[p] \in Reqs /\ reqKey[acur[p]] \in Keys
      BY <2>2, <2>6 DEF Execute, CallOf
    <3>2. ClearedGone'
      BY SMTT(20), <2>1, <2>2, <2>6, <3>1 DEF WgRemove
    <3>3. PeerTableSound'
      BY <2>1, <3>1 DEF WgRemove
    <3> QED BY <2>3, <3>2, <3>3
  <2> QED BY <1>16, <2>4, <2>5, <2>6 DEF AgentExec, AgentFail
<1>17. ASSUME NEW z \in zombies, ZombieExec(z) PROVE Goal
  <2>1. RowsUnique' /\ AddLive'
    BY <1>17 DEF ZombieExec, Execute, WgAdd, WgRemove, Calls
  <2>2. ZombiesStray' /\ AdminShape'
    BY <1>17 DEF ZombieExec, Execute, WgAdd, WgRemove, Calls
  <2>3. IssuedStray' /\ ClearedGone'
    BY <1>17 DEF ZombieExec, Execute, WgAdd, WgRemove, Calls
  <2>4. PeerTableSound'
    BY <1>17 DEF ZombieExec, Execute, WgAdd, WgRemove, Calls
  <2> QED BY <2>1, <2>2, <2>3, <2>4
<1>18. ASSUME AgentRestart PROVE Goal
  <2>1. RowsUnique' /\ AddLive'
    BY <1>18 DEF AgentRestart
  <2>2. ZombiesStray' /\ AdminShape'
    BY <1>18 DEF AgentRestart
  <2>3. IssuedStray' /\ ClearedGone'
    BY <1>18 DEF AgentRestart
  <2>4. PeerTableSound'
    BY <1>18 DEF AgentRestart
  <2> QED BY <2>1, <2>2, <2>3, <2>4
<1>19. ASSUME Crash PROVE Goal
  <2>1. /\ ZombiesStray'
        /\ stray \subseteq stray'
        /\ call' = [p \in Procs |-> IF p \in Procs THEN "none" ELSE call[p]]
    BY SMTT(20), <1>19, AbandonStray DEF Crash
  <2>2. /\ \A r \in Rows : reqKey'[r] = reqKey[r] /\ reqIp'[r] = reqIp[r]
        /\ \A r \in Reqs : pc'[r] # "adding"
        /\ UNCHANGED <<rowState, peer>>
    BY <1>19 DEF Crash
  <2>3. \A a \in Admins : /\ apc'[a] = "idle" /\ acur'[a] = None
                          /\ aread'[a] = {} /\ atodo'[a] = {} /\ call'[a] = "none"
    BY <1>19, <2>1 DEF Crash
  <2>4. RowsUnique' /\ AddLive'
    BY <2>2
  <2>5. AdminShape' /\ IssuedStray' /\ ClearedGone'
    BY <2>3
  <2>6. PeerTableSound'
    BY SMTT(20), <2>1, <2>2
  <2> QED BY <2>1, <2>4, <2>5, <2>6
<1>20. ASSUME Bootstrap PROVE Goal
  BY <1>20 DEF Bootstrap, SyncPeers
<1>21. ASSUME NEW S \in SUBSET ActiveRows, BootstrapFail(S) PROVE Goal
  BY <1>21 DEF BootstrapFail, SyncPeers
<1>22. ASSUME UNCHANGED vars PROVE Goal
  BY <1>22 DEF vars
<1> HIDE DEF PeerInv, TypeOK, RowsUnique, AddLive, ZombiesStray, AdminShape,
        IssuedStray, ClearedGone, PeerTableSound, Issued, Cleared, Rows, ActiveRows,
        Holds, Past, Procs, NoPeer, NoRoute, Hosts, dbVars, reqVars, admVars, agentVars
<1> QED
  BY <1>1, <1>2, <1>3, <1>4, <1>5, <1>6, <1>7, <1>8, <1>9, <1>10, <1>11, <1>12, <1>13, <1>14, <1>15, <1>16, <1>17, <1>18, <1>19, <1>20, <1>21, <1>22
  DEF Next, Enroll, Admin

\* Unless a sidecar call was abandoned, overlapped a removal or failed after
\* taking effect, every installed WireGuard peer is that of an unrevoked
\* firewall: revoking, deleting and deleting a company leave none behind.
THEOREM PeersFollowDatabase == Spec => []PeerTableSound
<1>1. PeerInv => PeerTableSound
  BY DEF PeerInv
<1> QED BY <1>1, InitPeer, NextPeer, PTL DEF Spec

\* The tunnel address through which the Hub reaches a firewall's WebGUI is not
\* routed to another firewall.
THEOREM AddressNotShared == Spec => []AddressOwned
<1>1. PeerInv => AddressOwned
  BY ParamAssumption DEF PeerInv, AddressOwned, PeerTableSound, RowsUnique, ActiveRows, Rows,
     TypeOK, Hosts, NoPeer, NoRoute
<1> QED BY <1>1, InitPeer, NextPeer, PTL DEF Spec

(***************************************************************************)
(* The database implements the fleet.                                      *)
(***************************************************************************)
\* Nothing is inserted for a company that is gone, and no request is given the
\* Hub's address.
LEMMA NextCompany ==
    FleetInv /\ [Next]_vars => CompanyInv' /\ HubAddressFree'
<1> SUFFICES ASSUME FleetInv, [Next]_vars PROVE CompanyInv' /\ HubAddressFree'
  OBVIOUS
<1> DEFINE Goal == CompanyInv' /\ HubAddressFree'
<1> USE ParamAssumption DEF FleetInv, OtpInv, TypeOK, CodeInv, CompanyInv, HubAddressFree, Rows, Holds,
        dbVars, reqVars, admVars, agentVars
<1>1. ASSUME NEW c \in Codes, CreateCode(c) \/ ExpireCode(c) PROVE Goal
  BY <1>1 DEF CreateCode, ExpireCode
<1>2. ASSUME NEW r \in Reqs, EnrollClaimLost(r) \/ EnrollAbort(r) \/ EnrollConflict(r)
      PROVE  Goal
  <2>1. pc[r] \in {"matched", "claimed"} /\ Rollback(r)
    BY <1>2 DEF EnrollClaimLost, EnrollAbort, EnrollConflict
  <2> QED BY <2>1 DEF Rollback
<1>3. ASSUME NEW r \in Reqs, NEW c \in Codes, NEW k \in Keys, EnrollMatch(r, c, k) PROVE Goal
  BY <1>3 DEF EnrollMatch
<1>4. ASSUME NEW r \in Reqs, EnrollClaim(r) PROVE Goal
  BY <1>4 DEF EnrollClaim, LowestFree, FreeIps
<1>5. ASSUME NEW r \in Reqs, EnrollCommit(r) PROVE Goal
  BY <1>5 DEF EnrollCommit, RowConflict
<1>6. ASSUME NEW r \in Reqs, AddPeerOk(r) \/ AddPeerTimeout(r) PROVE Goal
  BY <1>6 DEF AddPeerOk, AddPeerTimeout
<1>7. ASSUME NEW r \in Reqs, AddPeerError(r) PROVE Goal
  BY <1>7 DEF AddPeerError
<1>8. ASSUME NEW a \in Admins, Admin(a), ~DeleteCompanyCommit(a) PROVE Goal
  BY <1>8 DEF Admin, RevokeStart, RevokeCommit, RemoveFails, DeleteCompanyStart, DeleteCompanyCall
<1>9. ASSUME NEW a \in Admins, DeleteCompanyCommit(a) PROVE Goal
  BY <1>9 DEF DeleteCompanyCommit, RowsOf
<1>10. ASSUME NEW r \in Reqs, DeleteRevoked(r) PROVE Goal
  BY <1>10 DEF DeleteRevoked
<1>11. ASSUME \/ \E p \in Procs : AgentExec(p) \/ AgentFail(p)
              \/ \E z \in zombies : ZombieExec(z)
              \/ AgentRestart \/ Bootstrap
              \/ \E S \in SUBSET ActiveRows : BootstrapFail(S)
       PROVE  Goal
  BY <1>11 DEF AgentExec, AgentFail, ZombieExec, AgentRestart, Bootstrap, BootstrapFail
<1>12. ASSUME Crash PROVE Goal
  BY <1>12 DEF Crash
<1>13. ASSUME UNCHANGED vars PROVE Goal
  BY <1>13 DEF vars
<1> HIDE DEF FleetInv, OtpInv, TypeOK, CodeInv, CompanyInv, HubAddressFree, Rows, Holds,
        dbVars, reqVars, admVars, agentVars
<1> QED
  BY <1>1, <1>2, <1>3, <1>4, <1>5, <1>6, <1>7, <1>8, <1>9, <1>10, <1>11, <1>12, <1>13
  DEF Next, Enroll

\* All that the refinement rests on holds throughout.
LEMMA FleetInvariance == Spec => []FleetInv
<1>1. Init => FleetInv
  <2>1. Init => OtpInv
    BY InitType DEF Init, OtpInv, CodeInv, OtpSingleUse, Holds
  <2>2. Init => CompanyInv /\ HubAddressFree
    BY ParamAssumption DEF Init, CompanyInv, HubAddressFree, Rows
  <2> QED BY <2>1, <2>2, InitPeer DEF FleetInv
<1>2. FleetInv /\ [Next]_vars => FleetInv'
  BY NextOtp, NextPeer, NextCompany DEF FleetInv
<1> QED BY <1>1, <1>2, PTL DEF Spec

\* The fleet changes only with the rows of the devices table.
LEMMA SameFleet ==
    ASSUME \A r \in Reqs : rowState'[r] = rowState[r],
           \A r \in Rows : reqCode'[r] = reqCode[r] /\ reqKey'[r] = reqKey[r] /\ reqIp'[r] = reqIp[r]
    PROVE  {Firewall(r) : r \in Rows}' = {Firewall(r) : r \in Rows}
<1>1. Rows' = Rows
  BY DEF Rows
<1>2. \A r \in Rows : Firewall(r)' = Firewall(r)
  BY DEF Firewall, Rows
<1> QED BY <1>1, <1>2

\* enroll()'s commit is an enrollment of the fleet.
LEMMA CommitEnrolls ==
    ASSUME FleetInv, NEW r \in Reqs, EnrollCommit(r)
    PROVE  Fleet!Enroll(reqCode[r], reqKey[r], reqIp[r])
<1>1. /\ pc[r] = "claimed" /\ r \notin Rows
      /\ codeState[reqCode[r]] = "open" /\ CodeCompany[reqCode[r]] \in companies
  BY DEF EnrollCommit, RowConflict, FleetInv, OtpInv, CodeInv, TypeOK, Holds
<1>2. \A q \in Rows : reqKey[q] # reqKey[r] /\ reqIp[q] # reqIp[r]
  BY DEF EnrollCommit, RowConflict
<1>3. /\ rowState' = [rowState EXCEPT ![r] = "active"]
      /\ codeState' = [codeState EXCEPT ![reqCode[r]] = "used"]
      /\ UNCHANGED <<companies, reqCode, reqKey, reqIp>>
  BY DEF EnrollCommit
<1>4. Rows' = Rows \cup {r}
  BY <1>3 DEF Rows, FleetInv, OtpInv, TypeOK
<1>5. /\ \A q \in Rows : Firewall(q)' = Firewall(q)
      /\ Firewall(r)' = [code |-> reqCode[r], key |-> reqKey[r], ip |-> reqIp[r], state |-> "active"]
  <2>1. \A q \in Rows : rowState'[q] = rowState[q]
    BY <1>1, <1>3 DEF Rows, FleetInv, OtpInv, TypeOK
  <2>2. rowState'[r] = "active"
    BY <1>3 DEF FleetInv, OtpInv, TypeOK
  <2> QED BY <1>3, <2>1, <2>2 DEF Firewall
<1>6. \A q \in Rows : Firewall(q).key = reqKey[q] /\ Firewall(q).ip = reqIp[q]
  BY DEF Firewall
<1>7. {Firewall(q) : q \in Rows}' = {Firewall(q) : q \in Rows} \cup {Firewall(r)'}
  BY <1>4, <1>5
<1>8. \A f \in {Firewall(q) : q \in Rows} : f.key # reqKey[r] /\ f.ip # reqIp[r]
  BY <1>2, <1>6
<1> HIDE DEF Rows
<1> QED BY <1>1, <1>3, <1>5, <1>7, <1>8 DEF Fleet!Enroll

\* The compensation of a failed enrollment takes its firewall, if it is still
\* there, out of the fleet again; after the company's deletion it does nothing.
LEMMA ErrorUndoes ==
    ASSUME FleetInv, NEW r \in Reqs, AddPeerError(r)
    PROVE  \/ Fleet!Undo(reqCode[r])
           \/ UNCHANGED <<companies, codeState, {Firewall(q) : q \in Rows}>>
<1> DEFINE F == {Firewall(q) : q \in Rows}
           c == reqCode[r]
<1>1. /\ rowState' = [rowState EXCEPT ![r] = "none"]
      /\ codeState' = [codeState EXCEPT ![c] = IF @ = "used" THEN "open" ELSE @]
      /\ UNCHANGED <<companies, reqCode, reqKey, reqIp>>
      /\ pc[r] = "adding"
  BY DEF AddPeerError
<1>2. c \in Codes /\ codeState[c] \in {"used", "gone"}
  BY <1>1 DEF FleetInv, OtpInv, TypeOK, CodeInv, Holds
<1>3. Rows' = Rows \ {r}
  BY <1>1 DEF Rows, FleetInv, OtpInv, TypeOK
<1>4. \A q \in Rows' : Firewall(q)' = Firewall(q)
  BY <1>1, <1>3 DEF Firewall, Rows, FleetInv, OtpInv, TypeOK
<1>5. F' = {Firewall(q) : q \in Rows \ {r}}
  BY <1>3, <1>4
<1>6. CASE codeState[c] = "used"
  <2>1. \A q \in Rows : q # r <=> Firewall(q).code # c
    BY <1>1 DEF Firewall, Rows, FleetInv, OtpInv, OtpSingleUse, TypeOK, Holds
  <2>2. {f \in F : f.code # c} = {Firewall(q) : q \in Rows \ {r}}
    BY <2>1
  <2>3. codeState' = [codeState EXCEPT ![c] = "open"]
    BY <1>1, <1>2, <1>6 DEF FleetInv, OtpInv, TypeOK
  <2> HIDE DEF F
  <2>4. /\ codeState[c] = "used" /\ UNCHANGED companies
        /\ F' = {f \in F : f.code # c}
    BY <1>1, <1>5, <1>6, <2>2
  <2> QED BY <2>3, <2>4 DEF Fleet!Undo, F
<1>7. CASE codeState[c] = "gone"
  <2>1. r \notin Rows
    BY <1>2, <1>7 DEF FleetInv, CompanyInv
  <2>2. F' = F
    BY <1>5, <2>1
  <2>3. codeState' = codeState
    BY <1>1, <1>2, <1>7 DEF FleetInv, OtpInv, TypeOK
  <2> QED BY <1>1, <2>2, <2>3
<1> QED BY <1>2, <1>6, <1>7

\* Two rows never stand for the same firewall.
LEMMA FirewallsDiffer ==
    ASSUME FleetInv, NEW r \in Rows, NEW q \in Rows, q # r
    PROVE  Firewall(q) # Firewall(r)
<1>1. reqKey[q] # reqKey[r]
  BY DEF FleetInv, PeerInv, RowsUnique
<1>2. Firewall(q).key = reqKey[q] /\ Firewall(r).key = reqKey[r]
  BY DEF Firewall
<1> QED BY <1>1, <1>2

\* A removal that returned revokes a firewall, unless it is revoked or gone.
LEMMA CommitRevokes ==
    ASSUME FleetInv, NEW a \in Admins, RevokeCommit(a)
    PROVE  \/ \E f \in {Firewall(q) : q \in Rows} : Fleet!Revoke(f)
           \/ UNCHANGED <<companies, codeState, {Firewall(q) : q \in Rows}>>
<1> DEFINE F == {Firewall(q) : q \in Rows}
<1> PICK r \in Reqs : r = acur[a]
  BY DEF RevokeCommit, FleetInv, OtpInv, TypeOK
<1>1. /\ rowState' = [rowState EXCEPT ![r] = IF @ = "none" THEN @ ELSE "revoked"]
      /\ UNCHANGED <<companies, codeState, reqCode, reqKey, reqIp>>
  BY DEF RevokeCommit, reqVars
<1>2. Rows' = Rows
  BY <1>1 DEF Rows, FleetInv, OtpInv, TypeOK
<1>3. CASE r \in Rows
  <2>1. \A q \in Rows \ {r} : Firewall(q)' = Firewall(q)
    BY <1>1 DEF Firewall, Rows, FleetInv, OtpInv, TypeOK
  <2>2. Firewall(r)' = [Firewall(r) EXCEPT !.state = "revoked"]
    <3>1. rowState'[r] = "revoked"
      BY <1>1, <1>3 DEF Rows, FleetInv, OtpInv, TypeOK
    <3> QED BY <1>1, <3>1 DEF Firewall
  <2>3. F' = {Firewall(q)' : q \in Rows}
    BY <1>2
  <2>4. F' = {Firewall(q) : q \in Rows \ {r}} \cup {Firewall(r)'}
    BY <1>3, <2>1, <2>3
  <2>5. F \ {Firewall(r)} = {Firewall(q) : q \in Rows \ {r}}
    BY <1>3, FirewallsDiffer
  <2> HIDE DEF F
  <2>6. Firewall(r) \in F
    BY <1>3 DEF F
  <2>7. F' = (F \ {Firewall(r)}) \cup {[Firewall(r) EXCEPT !.state = "revoked"]}
    BY <2>2, <2>4, <2>5
  <2> QED BY <1>1, <2>6, <2>7 DEF Fleet!Revoke, F
<1>4. CASE r \notin Rows
  <2>1. rowState'[r] = rowState[r]
    BY <1>1, <1>4 DEF Rows, FleetInv, OtpInv, TypeOK
  <2>2. \A q \in Reqs : rowState'[q] = rowState[q]
    BY <1>1, <2>1 DEF FleetInv, OtpInv, TypeOK
  <2> QED BY <1>1, <2>2, SameFleet DEF Rows
<1> QED BY <1>3, <1>4

\* Deleting a revoked row takes its firewall out of the fleet.
LEMMA DeleteDeletes ==
    ASSUME FleetInv, NEW r \in Reqs, DeleteRevoked(r)
    PROVE  \E f \in {Firewall(q) : q \in Rows} : Fleet!Delete(f)
<1> DEFINE F == {Firewall(q) : q \in Rows}
<1>1. /\ rowState' = [rowState EXCEPT ![r] = "none"]
      /\ UNCHANGED <<companies, codeState, reqCode, reqKey, reqIp>>
      /\ r \in Rows /\ Firewall(r).state = "revoked"
  BY DEF DeleteRevoked, reqVars, Firewall, Rows
<1>2. Rows' = Rows \ {r}
  BY <1>1 DEF Rows, FleetInv, OtpInv, TypeOK
<1>3. \A q \in Rows' : Firewall(q)' = Firewall(q)
  BY <1>1, <1>2 DEF Firewall, Rows, FleetInv, OtpInv, TypeOK
<1>4. F' = {Firewall(q) : q \in Rows \ {r}}
  BY <1>2, <1>3
<1>5. F \ {Firewall(r)} = {Firewall(q) : q \in Rows \ {r}}
  BY <1>1, FirewallsDiffer
<1>6. Firewall(r) \in F
  BY <1>1
<1> HIDE DEF F
<1>7. Fleet!Delete(Firewall(r))
  BY <1>1, <1>4, <1>5 DEF Fleet!Delete, F
<1> QED BY <1>6, <1>7 DEF F

\* Deleting a company empties its part of the fleet and withdraws its codes; a
\* company that another administrator deleted meanwhile has neither.
LEMMA CompanyLeaves ==
    ASSUME FleetInv, NEW a \in Admins, DeleteCompanyCommit(a)
    PROVE  \/ \E co \in companies : Fleet!DeleteCompany(co)
           \/ UNCHANGED <<companies, codeState, {Firewall(q) : q \in Rows}>>
<1> DEFINE F == {Firewall(q) : q \in Rows}
           co == aco[a]
<1>1. /\ companies' = companies \ {co}
      /\ codeState' = [c \in Codes |-> IF CodeCompany[c] = co THEN "gone" ELSE codeState[c]]
      /\ rowState' = [r \in Reqs |-> IF r \in RowsOf(co) THEN "none" ELSE rowState[r]]
      /\ UNCHANGED <<reqCode, reqKey, reqIp>>
  BY DEF DeleteCompanyCommit, reqVars
<1>2. Rows' = {r \in Rows : CodeCompany[reqCode[r]] # co}
  BY <1>1 DEF Rows, RowsOf
<1>3. \A q \in Rows' : Firewall(q)' = Firewall(q)
  BY <1>1, <1>2 DEF Firewall, RowsOf, Rows
<1>4. \A q \in Rows : Firewall(q).code = reqCode[q]
  BY DEF Firewall
<1>5. F' = {f \in F : CodeCompany[f.code] # co}
  BY <1>2, <1>3, <1>4
<1>6. CASE co \in companies
  <2> HIDE DEF F
  <2>1. Fleet!DeleteCompany(co)
    BY <1>1, <1>5 DEF Fleet!DeleteCompany, F
  <2> QED BY <1>6, <2>1
<1>7. CASE co \notin companies
  <2>1. \A r \in Rows : CodeCompany[reqCode[r]] # co
    BY <1>7 DEF FleetInv, CompanyInv
  <2>2. F' = F
    BY <1>4, <1>5, <2>1
  <2>3. \A c \in Codes : CodeCompany[c] = co => codeState[c] = "gone"
    BY <1>7 DEF FleetInv, CompanyInv
  <2>4. codeState' = codeState
    BY <1>1, <2>3 DEF FleetInv, OtpInv, TypeOK
  <2> QED BY <1>1, <1>7, <2>2, <2>4
<1> QED BY <1>6, <1>7

\* Every step of the peer lifecycle is a step of the fleet or none.
LEMMA FleetStep ==
    ASSUME FleetInv, [Next]_vars
    PROVE  \/ Fleet!Next
           \/ UNCHANGED <<companies, codeState, {Firewall(q) : q \in Rows}>>
<1> DEFINE F == {Firewall(q) : q \in Rows}
           Goal == Fleet!Next \/ UNCHANGED <<companies, codeState, F>>
           Quiet == /\ UNCHANGED <<companies, codeState>>
                    /\ \A q \in Reqs : rowState'[q] = rowState[q]
                    /\ \A q \in Rows : /\ reqCode'[q] = reqCode[q]
                                       /\ reqKey'[q] = reqKey[q] /\ reqIp'[q] = reqIp[q]
<1>1. Quiet => Goal
  BY SameFleet
<1> USE DEF dbVars, reqVars, admVars, agentVars
<1>2. ASSUME NEW c \in Codes, CreateCode(c) PROVE Goal
  <2>1. F' = F
    BY <1>2, SameFleet DEF CreateCode
  <2>2. Fleet!Issue(c)
    BY <1>2, <2>1 DEF CreateCode, Fleet!Issue
  <2> QED BY <2>2 DEF Fleet!Next
<1>3. ASSUME NEW c \in Codes, ExpireCode(c) PROVE Goal
  BY <1>1, <1>3 DEF ExpireCode
<1>4. ASSUME NEW r \in Reqs, Enroll(r), ~EnrollCommit(r), ~AddPeerError(r) PROVE Quiet
  <2>1. CASE \/ EnrollClaimLost(r) \/ EnrollAbort(r) \/ EnrollConflict(r)
             \/ EnrollClaim(r)
             \/ \E c \in Codes, k \in Keys : EnrollMatch(r, c, k)
    <3>1. r \notin Rows
      BY <2>1 DEF EnrollClaimLost, EnrollAbort, EnrollConflict, EnrollClaim, EnrollMatch,
                  FleetInv, OtpInv, TypeOK, Holds
    <3>2. UNCHANGED <<companies, codeState, rowState>>
      BY <2>1 DEF EnrollClaimLost, EnrollAbort, EnrollConflict, EnrollClaim, EnrollMatch, Rollback
    <3>3. \A q \in Reqs \ {r} : /\ reqCode'[q] = reqCode[q]
                                /\ reqKey'[q] = reqKey[q] /\ reqIp'[q] = reqIp[q]
      BY <2>1 DEF EnrollClaimLost, EnrollAbort, EnrollConflict, EnrollClaim, EnrollMatch, Rollback,
                  FleetInv, OtpInv, TypeOK
    <3> QED BY <3>1, <3>2, <3>3 DEF Rows
  <2>2. CASE AddPeerOk(r) \/ AddPeerTimeout(r)
    BY <2>2 DEF AddPeerOk, AddPeerTimeout
  <2> QED BY <1>4, <2>1, <2>2 DEF Enroll
<1>5. ASSUME NEW r \in Reqs, EnrollCommit(r) PROVE Goal
  <2>1. reqCode[r] \in Codes /\ reqKey[r] \in Keys /\ reqIp[r] \in Hosts \ {HubIP}
    BY <1>5 DEF EnrollCommit, FleetInv, OtpInv, TypeOK, HubAddressFree
  <2> QED BY <1>5, <2>1, CommitEnrolls DEF Fleet!Next
<1>6. ASSUME NEW r \in Reqs, AddPeerError(r) PROVE Goal
  <2>1. reqCode[r] \in Codes
    BY <1>6 DEF AddPeerError, FleetInv, OtpInv, TypeOK
  <2> QED BY <1>6, <2>1, ErrorUndoes DEF Fleet!Next
<1>7. ASSUME NEW a \in Admins, RevokeCommit(a) PROVE Goal
  BY <1>7, CommitRevokes DEF Fleet!Next
<1>8. ASSUME NEW r \in Reqs, DeleteRevoked(r) PROVE Goal
  BY <1>8, DeleteDeletes DEF Fleet!Next
<1>9. ASSUME NEW a \in Admins, DeleteCompanyCommit(a) PROVE Goal
  BY <1>9, CompanyLeaves DEF Fleet!Next
<1>10. ASSUME NEW a \in Admins, Admin(a), ~RevokeCommit(a), ~DeleteCompanyCommit(a) PROVE Quiet
  BY <1>10 DEF Admin, RevokeStart, RemoveFails, DeleteCompanyStart, DeleteCompanyCall
<1>11. ASSUME \/ \E p \in Procs : AgentExec(p) \/ AgentFail(p)
              \/ \E z \in zombies : ZombieExec(z)
              \/ AgentRestart \/ Bootstrap
              \/ \E S \in SUBSET ActiveRows : BootstrapFail(S)
              \/ UNCHANGED vars
       PROVE  Quiet
  BY <1>11 DEF AgentExec, AgentFail, ZombieExec, AgentRestart, Bootstrap, BootstrapFail, vars
<1>12. ASSUME Crash PROVE Quiet
  BY <1>12 DEF Crash, Rows, Holds, FleetInv, OtpInv, TypeOK
<1> HIDE DEF Goal, Quiet
<1> QED
  <2>1. Goal
    BY <1>1, <1>2, <1>3, <1>4, <1>5, <1>6, <1>7, <1>8, <1>9, <1>10, <1>11, <1>12 DEF Next
  <2> QED BY <2>1 DEF Goal

\* Enrollment, its compensation, revocation and deletion, interleaved in any
\* way and with crashes and sidecar failures in between, change the database
\* as FirewallFleet does in one step: a code, a key and an address belong to
\* one firewall from the moment it is enrolled until it is out of the fleet.
THEOREM FleetImplemented == Spec => EnrolledAtomically
<1>1. Init => Fleet!Init
  BY DEF Init, Fleet!Init, Rows
<1>2. FleetInv /\ [Next]_vars => [Fleet!Next]_(Fleet!vars)
  BY FleetStep DEF Fleet!vars
<1> QED BY <1>1, <1>2, FleetInvariance, PTL DEF Spec, EnrolledAtomically, Fleet!Spec
=============================================================================
