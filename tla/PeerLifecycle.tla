--------------------------- MODULE PeerLifecycle ---------------------------
(***************************************************************************)
(* The life of a firewall's WireGuard peer: the enrollment handler, the    *)
(* administrator's revoke / delete / delete-company handlers, the Hub's    *)
(* crash and startup bootstrap, and the sidecar that owns the WireGuard    *)
(* interface.                                                              *)
(*                                                                         *)
(* Two stores must agree and cannot be changed together: the database rows *)
(* (devices, enrollment codes, companies) and the runtime peer table of    *)
(* the sidecar.  Handlers run concurrently (FastAPI thread pool, several   *)
(* workers), so each handler is split at its transaction boundary and at   *)
(* every call to the sidecar.  A sidecar call may fail before or after it  *)
(* took effect, and its caller may give up on it (15 s) while it is still  *)
(* being executed.                                                         *)
(*                                                                         *)
(* A device row is named by the enrollment request that inserted it (row   *)
(* identifiers are fresh UUIDs).  Requests refused before anything is      *)
(* written (missing fields, malformed key, no matching code) only add an   *)
(* audit line and are stuttering steps here.                               *)
(***************************************************************************)
EXTENDS Integers, FiniteSets

CONSTANTS
    Reqs,        \* enrollment requests (and the device rows they insert)
    Admins,      \* administrator requests running at the same time
    Keys,        \* WireGuard public keys of the firewalls
    Codes,       \* enrollment codes (OTPs)
    Companies,
    CodeCompany, \* the company each code is issued for
    NumHosts,    \* usable host addresses of HUB_WG_CIDR are 1..NumHosts
    HubIP,       \* HUB_WG_ADDRESS
    ForUpdate,   \* the database honours SELECT ... FOR UPDATE (PostgreSQL)
    None         \* null

ASSUME ParamAssumption ==
    /\ CodeCompany \in [Codes -> Companies]
    /\ NumHosts \in Nat
    /\ HubIP \in 1..NumHosts
    /\ ForUpdate \in BOOLEAN
    /\ None \notin Reqs \cup Keys \cup Codes \cup Companies
    /\ Reqs \cap Admins = {}

VARIABLES
    \* database
    companies,   \* companies that exist
    codeState,   \* per code: "none" | "open" | "used" | "gone"
    expired,     \* codes past expires_at
    rowState,    \* per device row: "none" | "active" | "revoked"
    lock,        \* per code: the transaction holding its row lock
    \* enrollment handlers
    pc,          \* idle, matched, claimed, adding, then done | undone (error,
                 \* compensated) | failed (other exception) | died (crash)
    reqCode, reqKey, reqIp,
    \* administrator handlers
    apc,         \* idle, revoking, clearing
    acur,        \* the row whose peer the handler is removing
    aco,         \* the company being deleted
    atodo,       \* rows of that company whose peer is still to be removed
    aread,       \* rows of that company the handler has loaded
    \* sidecar
    call,        \* per handler, its sidecar call: none | pending | ok | err
    zombies,     \* calls whose caller has given up, not yet executed
    peer,        \* runtime peer table: NoPeer | NoRoute | tunnel address
    hubUp,
    \* history
    stray        \* keys whose peer was touched by a call that the database
                 \* has stopped accounting for (see Abandon and Overlap)

dbVars    == <<companies, codeState, expired, rowState, lock>>
reqVars   == <<pc, reqCode, reqKey, reqIp>>
admVars   == <<apc, acur, aco, atodo, aread>>
agentVars == <<call, zombies, peer>>
vars      == <<dbVars, reqVars, admVars, agentVars, hubUp, stray>>

Hosts   == 1..NumHosts
NoPeer  == -1
NoRoute == 0    \* a peer whose only allowed address moved to another peer
Procs   == Reqs \cup Admins

Calls == [kind : {"add"}, key : Keys, ip : Hosts]
         \cup [kind : {"remove"}, key : Keys]

----------------------------------------------------------------------------
(* WireGuard's peer table and the sidecar's operations on it.              *)

\* `wg set <if> peer k allowed-ips ip/32`: an allowed address belongs to one
\* peer, so the kernel takes it away from whoever had it.
WgAdd(table, k, ip) ==
    [x \in Keys |-> IF x = k THEN ip
                    ELSE IF table[x] = ip THEN NoRoute ELSE table[x]]

\* `wg set <if> peer k remove`: succeeds for an unknown peer too.
WgRemove(table, k) == [table EXCEPT ![k] = NoPeer]

Execute(c, table) ==
    IF c.kind = "add" THEN WgAdd(table, c.key, c.ip)
                      ELSE WgRemove(table, c.key)

\* The sidecar call a handler makes: add_peer for an enrollment, remove_peer
\* for an administrator.
CallOf(p) ==
    IF p \in Reqs THEN [kind |-> "add", key |-> reqKey[p], ip |-> reqIp[p]]
                  ELSE [kind |-> "remove", key |-> reqKey[acur[p]]]

ActiveRows == {r \in Reqs : rowState[r] = "active"}

\* bootstrap_wireguard / _sync_peer_payloads_local for the rows S: each is
\* (re)added; peers without a row are left as they are.
SyncPeers(S, table) ==
    [k \in Keys |->
        IF \E r \in S : reqKey[r] = k
        THEN reqIp[CHOOSE r \in S : reqKey[r] = k]
        ELSE IF \E r \in S : reqIp[r] = table[k] THEN NoRoute ELSE table[k]]

\* next_tunnel_ip: the first host address that neither the Hub nor any row,
\* revoked or not, holds (LowestFree is empty when the network is full).
Rows       == {r \in Reqs : rowState[r] # "none"}
FreeIps    == Hosts \ ({HubIP} \cup {reqIp[r] : r \in Rows})
LowestFree == {i \in FreeIps : \A j \in FreeIps : i <= j}

----------------------------------------------------------------------------
Init ==
    /\ companies = Companies
    /\ codeState = [c \in Codes |-> "none"]
    /\ expired = {}
    /\ rowState = [r \in Reqs |-> "none"]
    /\ lock = [c \in Codes |-> None]
    /\ pc = [r \in Reqs |-> "idle"]
    /\ reqCode = [r \in Reqs |-> None]
    /\ reqKey = [r \in Reqs |-> None]
    /\ reqIp = [r \in Reqs |-> HubIP]
    /\ apc = [a \in Admins |-> "idle"]
    /\ acur = [a \in Admins |-> None]
    /\ aco = [a \in Admins |-> None]
    /\ atodo = [a \in Admins |-> {}]
    /\ aread = [a \in Admins |-> {}]
    /\ call = [p \in Procs |-> "none"]
    /\ zombies = {}
    /\ peer = [k \in Keys |-> NoPeer]
    /\ hubUp = TRUE
    /\ stray = {}

----------------------------------------------------------------------------
(* Enrollment codes.                                                       *)

CreateCode(c) ==
    /\ hubUp
    /\ codeState[c] = "none"
    /\ CodeCompany[c] \in companies
    /\ codeState' = [codeState EXCEPT ![c] = "open"]
    /\ UNCHANGED <<companies, expired, rowState, lock, reqVars, admVars,
                   agentVars, hubUp, stray>>

ExpireCode(c) ==
    /\ codeState[c] = "open"
    /\ c \notin expired
    /\ expired' = expired \cup {c}
    /\ UNCHANGED <<companies, codeState, rowState, lock, reqVars, admVars,
                   agentVars, hubUp, stray>>

----------------------------------------------------------------------------
(* POST /api/v1/enroll.                                                    *)

Valid == {c \in Codes : codeState[c] = "open" /\ c \notin expired}

Released(r) == [c \in Codes |-> IF lock[c] = r THEN None ELSE lock[c]]

\* A transaction that ends without writing: the request is over, and being
\* refused it has left nothing behind.
Rollback(r) ==
    /\ lock' = Released(r)
    /\ pc' = [pc EXCEPT ![r] = "idle"]
    /\ reqCode' = [reqCode EXCEPT ![r] = None]
    /\ reqKey' = [reqKey EXCEPT ![r] = None]
    /\ reqIp' = [reqIp EXCEPT ![r] = HubIP]
    /\ UNCHANGED <<companies, codeState, expired, rowState, admVars,
                   agentVars, hubUp, stray>>

\* SELECT ... WHERE used_at IS NULL AND expires_at > now FOR UPDATE, and the
\* presented OTP is the one of code c.
EnrollMatch(r, c, k) ==
    /\ hubUp
    /\ pc[r] = "idle"
    /\ c \in Valid
    /\ ForUpdate => \A d \in Valid : lock[d] = None
    /\ lock' = [d \in Codes |-> IF ForUpdate /\ d \in Valid THEN r ELSE lock[d]]
    /\ pc' = [pc EXCEPT ![r] = "matched"]
    /\ reqCode' = [reqCode EXCEPT ![r] = c]
    /\ reqKey' = [reqKey EXCEPT ![r] = k]
    /\ UNCHANGED <<companies, codeState, expired, rowState, reqIp, admVars,
                   agentVars, hubUp, stray>>

\* Faulty variant: the claim's UPDATE does not require used_at IS NULL.
EnrollClaimAnyState(r) ==
    /\ pc[r] = "matched"
    /\ lock[reqCode[r]] \in {None, r}
    /\ lock' = [lock EXCEPT ![reqCode[r]] = r]
    /\ \E ip \in LowestFree : reqIp' = [reqIp EXCEPT ![r] = ip]
    /\ pc' = [pc EXCEPT ![r] = "claimed"]
    /\ UNCHANGED <<companies, codeState, expired, rowState, reqCode, reqKey,
                   admVars, agentVars, hubUp, stray>>

\* _claim_enrollment_code, then next_tunnel_ip on the rows it can see.  The
\* UPDATE waits for the code's row lock and holds it until the commit.
EnrollClaim(r) ==
    /\ pc[r] = "matched"
    /\ lock[reqCode[r]] \in {None, r}
    /\ codeState[reqCode[r]] = "open"
    /\ lock' = [lock EXCEPT ![reqCode[r]] = r]
    /\ \E ip \in LowestFree : reqIp' = [reqIp EXCEPT ![r] = ip]
    /\ pc' = [pc EXCEPT ![r] = "claimed"]
    /\ UNCHANGED <<companies, codeState, expired, rowState, reqCode, reqKey,
                   admVars, agentVars, hubUp, stray>>

\* The claim changed no row: "enrollment code has already been used".
EnrollClaimLost(r) ==
    /\ pc[r] = "matched"
    /\ lock[reqCode[r]] \in {None, r}
    /\ codeState[reqCode[r]] # "open"
    /\ Rollback(r)

\* The server key cannot be fetched, or no tunnel address is free: the
\* WireGuardError reaches the framework and the session is closed.
EnrollAbort(r) ==
    /\ pc[r] = "matched"
    /\ Rollback(r)

\* The unique indexes on wg_public_key and wg_tunnel_ip, and the company
\* foreign key, as the flush of the new row meets them.
RowConflict(r) ==
    \/ \E q \in Rows : reqKey[q] = reqKey[r] \/ reqIp[q] = reqIp[r]
    \/ CodeCompany[reqCode[r]] \notin companies

EnrollConflict(r) ==
    /\ pc[r] = "claimed"
    /\ RowConflict(r)
    /\ Rollback(r)

\* Faulty variant: the code is not marked used.
EnrollCommitKeepsCode(r) ==
    /\ pc[r] = "claimed"
    /\ ~RowConflict(r)
    /\ rowState' = [rowState EXCEPT ![r] = "active"]
    /\ lock' = Released(r)
    /\ pc' = [pc EXCEPT ![r] = "adding"]
    /\ call' = [call EXCEPT ![r] = "pending"]
    /\ UNCHANGED <<companies, codeState, expired, reqCode, reqKey, reqIp,
                   admVars, zombies, peer, hubUp, stray>>

\* db.commit(): row, event, audit line and used code become visible at once;
\* then add_peer is called.
EnrollCommit(r) ==
    /\ pc[r] = "claimed"
    /\ ~RowConflict(r)
    /\ rowState' = [rowState EXCEPT ![r] = "active"]
    /\ codeState' = [codeState EXCEPT ![reqCode[r]] = "used"]
    /\ lock' = Released(r)
    /\ pc' = [pc EXCEPT ![r] = "adding"]
    /\ call' = [call EXCEPT ![r] = "pending"]
    /\ UNCHANGED <<companies, expired, reqCode, reqKey, reqIp, admVars,
                   zombies, peer, hubUp, stray>>

AddPeerOk(r) ==
    /\ pc[r] = "adding"
    /\ call[r] = "ok"
    /\ pc' = [pc EXCEPT ![r] = "done"]
    /\ call' = [call EXCEPT ![r] = "none"]
    /\ UNCHANGED <<dbVars, reqCode, reqKey, reqIp, admVars, zombies, peer,
                   hubUp, stray>>

\* Faulty variant: the compensation reopens the code and leaves the row.
AddPeerErrorKeepsRow(r) ==
    /\ pc[r] = "adding"
    /\ call[r] = "err"
    /\ codeState' = [codeState EXCEPT ![reqCode[r]] = "open"]
    /\ pc' = [pc EXCEPT ![r] = "undone"]
    /\ call' = [call EXCEPT ![r] = "none"]
    /\ UNCHANGED <<companies, expired, rowState, lock, reqCode, reqKey, reqIp,
                   admVars, zombies, peer, hubUp, stray>>

\* WireGuardError: _compensate_failed_peer_add deletes the row and reopens
\* the code, whatever happened to either in between.  If the sidecar failed
\* after it had added the peer, the peer stays.
AddPeerError(r) ==
    /\ pc[r] = "adding"
    /\ call[r] = "err"
    /\ rowState' = [rowState EXCEPT ![r] = "none"]
    /\ codeState' = [codeState EXCEPT
                       ![reqCode[r]] = IF @ = "used" THEN "open" ELSE @]
    /\ pc' = [pc EXCEPT ![r] = "undone"]
    /\ call' = [call EXCEPT ![r] = "none"]
    /\ stray' = IF peer[reqKey[r]] = NoPeer THEN stray ELSE stray \cup {reqKey[r]}
    /\ UNCHANGED <<companies, expired, lock, reqCode, reqKey, reqIp, admVars,
                   zombies, peer, hubUp>>

\* The handlers P give up on their calls: one that is still outstanding will
\* be executed, or not, with nobody to act on the outcome.
Abandon(P) ==
    LET lost == {CallOf(p) : p \in {q \in P : call[q] = "pending"}}
    IN  /\ zombies' = zombies \cup lost
        /\ stray' = stray \cup {c.key : c \in lost}
        /\ call' = [p \in Procs |-> IF p \in P THEN "none" ELSE call[p]]

\* The 15 s socket timeout is a TimeoutError, which is not a WireGuardError:
\* no compensation, the row and the used code stay.
AddPeerTimeout(r) ==
    /\ pc[r] = "adding"
    /\ Abandon({r})
    /\ pc' = [pc EXCEPT ![r] = "failed"]
    /\ UNCHANGED <<dbVars, reqCode, reqKey, reqIp, admVars, peer, hubUp>>

----------------------------------------------------------------------------
(* POST /api/v1/devices/{id}/revoke and /delete.                           *)

\* Removing the peer of a row whose enrollment is still waiting for add_peer:
\* the sidecar may execute the two calls in either order.
Overlap(r) == IF pc[r] = "adding" THEN {reqKey[r]} ELSE {}

EndAdmin(a) ==
    /\ apc' = [apc EXCEPT ![a] = "idle"]
    /\ acur' = [acur EXCEPT ![a] = None]
    /\ aco' = [aco EXCEPT ![a] = None]
    /\ atodo' = [atodo EXCEPT ![a] = {}]
    /\ aread' = [aread EXCEPT ![a] = {}]

RevokeStart(a, r) ==
    /\ hubUp
    /\ apc[a] = "idle"
    /\ rowState[r] = "active"
    /\ apc' = [apc EXCEPT ![a] = "revoking"]
    /\ acur' = [acur EXCEPT ![a] = r]
    /\ call' = [call EXCEPT ![a] = "pending"]
    /\ stray' = stray \cup Overlap(r)
    /\ UNCHANGED <<dbVars, reqVars, aco, atodo, aread, zombies, peer, hubUp>>

\* Faulty variant: the row is revoked without waiting for remove_peer.
RevokeCommitEarly(a) ==
    /\ apc[a] = "revoking"
    /\ rowState' = [rowState EXCEPT
                      ![acur[a]] = IF @ = "none" THEN @ ELSE "revoked"]
    /\ EndAdmin(a)
    /\ call' = [call EXCEPT ![a] = "none"]
    /\ UNCHANGED <<companies, codeState, expired, lock, reqVars, zombies, peer,
                   hubUp, stray>>

\* The row may have been deleted since it was loaded: the UPDATE then matches
\* no row and the commit fails.
RevokeCommit(a) ==
    /\ apc[a] = "revoking"
    /\ call[a] = "ok"
    /\ rowState' = [rowState EXCEPT
                      ![acur[a]] = IF @ = "none" THEN @ ELSE "revoked"]
    /\ EndAdmin(a)
    /\ call' = [call EXCEPT ![a] = "none"]
    /\ UNCHANGED <<companies, codeState, expired, lock, reqVars, zombies, peer,
                   hubUp, stray>>

\* remove_peer raised, or its caller timed out: nothing is written.
RemoveFails(a) ==
    /\ apc[a] \in {"revoking", "clearing"}
    /\ call[a] # "none"
    /\ Abandon({a})
    /\ EndAdmin(a)
    /\ UNCHANGED <<dbVars, reqVars, peer, hubUp>>

\* Faulty variant: a firewall that is not revoked can be removed.
DeleteUnrevoked(r) ==
    /\ hubUp
    /\ rowState[r] # "none"
    /\ rowState' = [rowState EXCEPT ![r] = "none"]
    /\ UNCHANGED <<companies, codeState, expired, lock, reqVars, admVars,
                   agentVars, hubUp, stray>>

DeleteRevoked(r) ==
    /\ hubUp
    /\ rowState[r] = "revoked"
    /\ rowState' = [rowState EXCEPT ![r] = "none"]
    /\ UNCHANGED <<companies, codeState, expired, lock, reqVars, admVars,
                   agentVars, hubUp, stray>>

----------------------------------------------------------------------------
(* POST /settings/companies/{id}/delete: the peers of the company's        *)
(* unrevoked firewalls are removed one by one, then one transaction        *)
(* deletes everything the company owns by then.                            *)

RowsOf(co) == {r \in Rows : CodeCompany[reqCode[r]] = co}

DeleteCompanyStart(a, co) ==
    /\ hubUp
    /\ apc[a] = "idle"
    /\ co \in companies
    /\ apc' = [apc EXCEPT ![a] = "clearing"]
    /\ aco' = [aco EXCEPT ![a] = co]
    /\ aread' = [aread EXCEPT ![a] = RowsOf(co)]
    /\ atodo' = [atodo EXCEPT ![a] = RowsOf(co) \cap ActiveRows]
    /\ UNCHANGED <<dbVars, reqVars, acur, agentVars, hubUp, stray>>

DeleteCompanyCall(a, r) ==
    /\ apc[a] = "clearing"
    /\ call[a] \in {"none", "ok"}
    /\ r \in atodo[a]
    /\ acur' = [acur EXCEPT ![a] = r]
    /\ atodo' = [atodo EXCEPT ![a] = @ \ {r}]
    /\ call' = [call EXCEPT ![a] = "pending"]
    /\ stray' = stray \cup Overlap(r)
    /\ UNCHANGED <<dbVars, reqVars, apc, aco, aread, zombies, peer, hubUp>>

\* DELETE waits for the row locks of enrollments that are about to commit.  A
\* firewall enrolled since the rows were loaded is deleted with the others,
\* but no call has removed its peer.
DeleteCompanyCommit(a) ==
    /\ apc[a] = "clearing"
    /\ call[a] \in {"none", "ok"}
    /\ atodo[a] = {}
    /\ \A c \in Codes : CodeCompany[c] = aco[a] => lock[c] = None
    /\ companies' = companies \ {aco[a]}
    /\ codeState' = [c \in Codes |->
                        IF CodeCompany[c] = aco[a] THEN "gone" ELSE codeState[c]]
    /\ rowState' = [r \in Reqs |->
                       IF r \in RowsOf(aco[a]) THEN "none" ELSE rowState[r]]
    /\ stray' = stray \cup
                  {reqKey[r] : r \in (RowsOf(aco[a]) \cap ActiveRows) \ aread[a]}
    /\ EndAdmin(a)
    /\ call' = [call EXCEPT ![a] = "none"]
    /\ UNCHANGED <<expired, lock, reqVars, zombies, peer, hubUp>>

----------------------------------------------------------------------------
(* The sidecar.                                                            *)

AgentExec(p) ==
    /\ call[p] = "pending"
    /\ peer' = Execute(CallOf(p), peer)
    /\ call' = [call EXCEPT ![p] = "ok"]
    /\ UNCHANGED <<dbVars, reqVars, admVars, zombies, hubUp, stray>>

\* The caller sees an error: the call may have taken effect all the same.
AgentFail(p) ==
    /\ call[p] = "pending"
    /\ peer' \in {peer, Execute(CallOf(p), peer)}
    /\ call' = [call EXCEPT ![p] = "err"]
    /\ UNCHANGED <<dbVars, reqVars, admVars, zombies, hubUp, stray>>

ZombieExec(z) ==
    /\ z \in zombies
    /\ zombies' = zombies \ {z}
    /\ peer' = Execute(z, peer)
    /\ UNCHANGED <<dbVars, reqVars, admVars, call, hubUp, stray>>

\* The interface lives in the sidecar's network namespace and its
\* configuration file lists no peers.
AgentRestart ==
    /\ peer' = [k \in Keys |-> NoPeer]
    /\ zombies' = {}
    /\ UNCHANGED <<dbVars, reqVars, admVars, call, hubUp, stray>>

----------------------------------------------------------------------------
(* The Hub process.                                                        *)

Crash ==
    /\ hubUp
    /\ hubUp' = FALSE
    /\ LET open(r) == pc[r] \in {"matched", "claimed"}
       IN  /\ pc' = [r \in Reqs |-> CASE open(r) -> "idle"
                                       [] pc[r] = "adding" -> "died"
                                       [] OTHER -> pc[r]]
           /\ reqCode' = [r \in Reqs |-> IF open(r) THEN None ELSE reqCode[r]]
           /\ reqKey' = [r \in Reqs |-> IF open(r) THEN None ELSE reqKey[r]]
           /\ reqIp' = [r \in Reqs |-> IF open(r) THEN HubIP ELSE reqIp[r]]
    /\ lock' = [c \in Codes |-> None]
    /\ apc' = [a \in Admins |-> "idle"]
    /\ acur' = [a \in Admins |-> None]
    /\ aco' = [a \in Admins |-> None]
    /\ atodo' = [a \in Admins |-> {}]
    /\ aread' = [a \in Admins |-> {}]
    /\ Abandon(Procs)
    /\ UNCHANGED <<companies, codeState, expired, rowState, peer>>

\* Startup: requests are served only after bootstrap_wireguard returned.
Bootstrap ==
    /\ ~hubUp
    /\ peer' = SyncPeers(ActiveRows, peer)
    /\ hubUp' = TRUE
    /\ UNCHANGED <<dbVars, reqVars, admVars, call, zombies, stray>>

\* The sidecar fails part of the way through: startup fails.
BootstrapFail(S) ==
    /\ ~hubUp
    /\ peer' = SyncPeers(S, peer)
    /\ UNCHANGED <<dbVars, reqVars, admVars, call, zombies, hubUp, stray>>

----------------------------------------------------------------------------
Enroll(r) ==
    \/ \E c \in Codes, k \in Keys : EnrollMatch(r, c, k)
    \/ EnrollClaim(r)
    \/ EnrollClaimLost(r)
    \/ EnrollAbort(r)
    \/ EnrollConflict(r)
    \/ EnrollCommit(r)
    \/ AddPeerOk(r)
    \/ AddPeerError(r)
    \/ AddPeerTimeout(r)

Admin(a) ==
    \/ \E r \in Reqs : RevokeStart(a, r) \/ DeleteCompanyCall(a, r)
    \/ RevokeCommit(a)
    \/ RemoveFails(a)
    \/ \E co \in Companies : DeleteCompanyStart(a, co)
    \/ DeleteCompanyCommit(a)

Next ==
    \/ \E c \in Codes : CreateCode(c) \/ ExpireCode(c)
    \/ \E r \in Reqs : Enroll(r)
    \/ \E a \in Admins : Admin(a)
    \/ \E r \in Reqs : DeleteRevoked(r)
    \/ \E p \in Procs : AgentExec(p) \/ AgentFail(p)
    \/ \E z \in zombies : ZombieExec(z)
    \/ AgentRestart
    \/ Crash
    \/ Bootstrap
    \/ \E S \in SUBSET ActiveRows : BootstrapFail(S)

Spec == Init /\ [][Next]_vars

----------------------------------------------------------------------------
(* Properties.                                                             *)

\* A request owns its row and its code from the commit on, unless it was
\* compensated.
Holds(r) == pc[r] \in {"adding", "done", "failed", "died"}

\* ... and before it nothing of it is visible to others.
Past(r) == pc[r] \notin {"idle", "matched", "claimed"}

\* Every variable stays in its range (the request fields are meaningful once
\* enroll() has matched a code, acur once a handler has called remove_peer).
TypeOK ==
    /\ companies \subseteq Companies
    /\ codeState \in [Codes -> {"none", "open", "used", "gone"}]
    /\ expired \subseteq Codes
    /\ rowState \in [Reqs -> {"none", "active", "revoked"}]
    /\ lock \in [Codes -> Reqs \cup {None}]
    /\ pc \in [Reqs -> {"idle", "matched", "claimed", "adding",
                        "done", "failed", "died", "undone"}]
    /\ reqCode \in [Reqs -> Codes \cup {None}]
    /\ reqKey \in [Reqs -> Keys \cup {None}]
    /\ reqIp \in [Reqs -> Hosts]
    /\ \A r \in Reqs : pc[r] # "idle" => reqCode[r] \in Codes /\ reqKey[r] \in Keys
    /\ \A r \in Rows : Holds(r)
    /\ apc \in [Admins -> {"idle", "revoking", "clearing"}]
    /\ acur \in [Admins -> Reqs \cup {None}]
    /\ aco \in [Admins -> Companies \cup {None}]
    /\ atodo \in [Admins -> SUBSET Reqs]
    /\ aread \in [Admins -> SUBSET Reqs]
    /\ \A a \in Admins :
          /\ atodo[a] \subseteq aread[a]
          /\ \A r \in aread[a] : Past(r)
    /\ call \in [Procs -> {"none", "pending", "ok", "err"}]
    /\ \A r \in Reqs : call[r] # "none" => pc[r] = "adding"
    /\ \A a \in Admins : call[a] # "none" =>
          /\ apc[a] # "idle"
          /\ acur[a] \in Reqs
          /\ Past(acur[a])
    /\ zombies \subseteq Calls
    /\ peer \in [Keys -> {NoPeer, NoRoute} \cup Hosts]
    /\ hubUp \in BOOLEAN
    /\ stray \subseteq Keys

\* An OTP enrolls one firewall: no two requests that reached the commit of
\* enroll() (and were not compensated) presented the same code.
OtpSingleUse ==
    \A r, q \in Reqs : Holds(r) /\ Holds(q) /\ reqCode[r] = reqCode[q] => r = q

\* Every runtime peer is the peer of an unrevoked firewall and routes no other
\* address than that firewall's, unless one of its calls was abandoned, ran
\* into a removal, or failed after taking effect: revoking, deleting and
\* deleting a company leave no peer behind, across crashes and restarts.
PeerTableSound ==
    \A k \in Keys : peer[k] # NoPeer /\ k \notin stray =>
        \E r \in ActiveRows : reqKey[r] = k /\ peer[k] \in {NoRoute, reqIp[r]}

\* The tunnel address of an enrolled firewall is routed to no other peer
\* (the WebGUI proxy reaches firewalls by that address alone).
AddressOwned ==
    \A r \in ActiveRows, k \in Keys :
        peer[k] = reqIp[r] /\ k # reqKey[r] => k \in stray
----------------------------------------------------------------------------
(* The strengthenings that make OtpSingleUse and PeerTableSound inductive. *)

\* From its claim to its commit a request has the code's row lock; a code that
\* enrolled a firewall is not open.
CodeInv ==
    \A r \in Reqs :
        /\ pc[r] = "claimed" =>
              lock[reqCode[r]] = r /\ codeState[reqCode[r]] = "open"
        /\ Holds(r) => codeState[reqCode[r]] \in {"used", "gone"}

OtpInv == TypeOK /\ CodeInv /\ OtpSingleUse

\* The unique indexes of the devices table.
RowsUnique ==
    \A r, q \in Rows : reqKey[r] = reqKey[q] \/ reqIp[r] = reqIp[q] => r = q

\* An enrollment waiting for add_peer still has its row.
AddLive ==
    \A r \in Reqs : pc[r] = "adding" /\ reqKey[r] \notin stray => r \in ActiveRows

ZombiesStray == \A z \in zombies : z.key \in stray

AdminShape ==
    \A a \in Admins :
        /\ apc[a] = "idle" => call[a] = "none" /\ aread[a] = {} /\ atodo[a] = {}
        /\ apc[a] = "revoking" => call[a] # "none"
        /\ call[a] = "none" => acur[a] = None
        /\ ~hubUp => apc[a] = "idle"

\* The rows a handler has called remove_peer for (a company's revoked rows
\* need no call), and those for which the call has returned.
Issued(a) ==
    IF apc[a] = "revoking" THEN {acur[a]} ELSE aread[a] \ atodo[a]
Cleared(a) == IF call[a] = "ok" THEN Issued(a) ELSE Issued(a) \ {acur[a]}

IssuedStray ==
    \A a \in Admins : \A r \in Issued(a) : pc[r] = "adding" => reqKey[r] \in stray

\* A removed peer stays removed while its row is waiting to be revoked.
ClearedGone ==
    \A a \in Admins : \A r \in Cleared(a) :
        rowState[r] = "active" /\ reqKey[r] \notin stray => peer[reqKey[r]] = NoPeer

PeerInv ==
    /\ TypeOK
    /\ RowsUnique
    /\ AddLive
    /\ ZombiesStray
    /\ AdminShape
    /\ IssuedStray
    /\ ClearedGone
    /\ PeerTableSound

----------------------------------------------------------------------------
(* The fleet.                                                              *)

\* Foreign keys: of a company that was deleted nothing is left.
CompanyInv ==
    /\ \A c \in Codes : codeState[c] = "gone" <=> CodeCompany[c] \notin companies
    /\ \A r \in Rows : CodeCompany[reqCode[r]] \in companies

\* No request is given the Hub's own address.
HubAddressFree == \A r \in Reqs : pc[r] \notin {"idle", "matched"} => reqIp[r] # HubIP

FleetInv == OtpInv /\ PeerInv /\ CompanyInv /\ HubAddressFree

\* The firewall a row of the devices table stands for.
Firewall(r) == [code |-> reqCode[r], key |-> reqKey[r], ip |-> reqIp[r],
                state |-> rowState[r]]

Fleet == INSTANCE FirewallFleet WITH
    Addresses <- Hosts \ {HubIP},
    fleet <- {Firewall(r) : r \in Rows}

\* The database is the fleet FirewallFleet promises: enroll(), which claims the
\* code, chooses the address and inserts the row under no lock but the code's,
\* and its compensation take effect at once or not at all, whatever the other
\* requests, the administrators, the sidecar and crashes do in between.
EnrolledAtomically == Fleet!Spec

----------------------------------------------------------------------------
(* Statements of the documentation that the code does not keep.            *)

\* docs/security.md and docs/test-plan.md: a failed peer add leaves no active
\* device row and releases the OTP.  An add_peer that ends in any exception
\* other than WireGuardError (the socket timeout) does neither.
FailedPeerAddReleasesOtp ==
    \A r \in Reqs : pc[r] = "failed" =>
        rowState[r] # "active" /\ codeState[reqCode[r]] # "used"
=============================================================================
