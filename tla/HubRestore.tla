----------------------------- MODULE HubRestore -----------------------------
(***************************************************************************)
(* Export and restore of a whole Hub (services/backup_service.py and the   *)
(* backup routes of routers/settings.py) while the Hub goes on working:    *)
(* firewalls enroll and are revoked, users log in, the sidecar refuses     *)
(* calls, and the Hub process dies at any point.                           *)
(*                                                                         *)
(* A restore replaces every table in one transaction (PostgreSQL, READ     *)
(* COMMITTED: rows it deleted stay visible to others, and whoever needs to *)
(* lock or reference them waits), then the files, then the WireGuard       *)
(* peers.  A firewall is its public key; one company and one administrator *)
(* stand for all; addresses are in PeerLifecycle.                          *)
(***************************************************************************)
EXTENDS Naturals, FiniteSets

CONSTANTS
    Keys, \* public keys of firewalls
    Sessions, \* dashboard sessions
    MaxRestores, \* bound: restores that commit
    None

ASSUME ParamAssumption == MaxRestores \in Nat

VARIABLES
    rows, \* devices, committed: "none", "active" or "revoked" per key
    sess, \* sessions: whether inserted or committed, and when
    files, \* which restore the live logo and WireGuard key come from
    peers, \* the peers of the WireGuard interface
    archive, \* the archive the administrator holds
    export, \* an export that is reading the tables
    rest, \* the restore request
    enr, \* per key, its enrollment
    rev, \* per key, its revocation
    era, \* history: number of restores committed
    undone, \* history: the last restore's follow-up did not finish
    raced     \* history: keys that were enrolling or being revoked meanwhile

vars == <<rows, sess, files, peers, archive, export, rest, enr, rev,
          era, undone, raced>>

(* An archive: the devices rows, the devices that events and audit rows    *)
(* name, and whether it has a WireGuard key.                               *)
Archives == [dev : [Keys -> {"none", "active", "revoked"}], named : SUBSET Keys,
             key : BOOLEAN]

Listed(dev) == {k \in Keys : dev[k] # "none"}
Active(dev) == {k \in Keys : dev[k] = "active"}

NoDevices == [k \in Keys |-> "none"]
NoRestore == [at |-> "idle", arch |-> None, expected |-> {}, todo |-> {}]
NoSession == [is |-> "none", era |-> 0]

Init ==
    /\ rows = [k \in Keys |-> "none"]
    /\ sess = [s \in Sessions |-> NoSession]
    /\ files = [logo |-> 0, key |-> 0]
    /\ peers = {}
    /\ archive \in {a \in Archives : a.named = Listed(a.dev)} \cup {None}
    /\ export = None
    /\ rest = NoRestore
    /\ enr = [k \in Keys |-> "idle"]
    /\ rev = [k \in Keys |-> "idle"]
    /\ era = 0
    /\ undone = FALSE
    /\ raced = {}

hubVars == <<enr, rev, sess, export>>
history == <<era, undone, raced>>

(* What the restore's open transaction has deleted: whoever needs to lock  *)
(* or to reference such a row waits for it.                                *)
HoldsDevices == rest.at \in {"codes", "users", "commit"}
HoldsCodes == rest.at \in {"users", "commit"}
HoldsUsers == rest.at = "commit"

FollowUp == {"applyLogo", "applyKey", "bootstrap", "expect", "runtime", "remove", "add"}

\* Keys with an enrollment or a revocation under way; those that start during
\* the follow-up of a restore are noted.
InFlight == {k \in Keys : enr[k] # "idle" \/ rev[k] # "idle"}
Note(k) == raced' = IF rest.at \in FollowUp THEN raced \cup {k} ELSE raced
-----------------------------------------------------------------------------
(* Export.                                                                 *)

\* export_backup_bundle() reads one table after the other; each SELECT sees
\* what is committed by then.  (Bound: an archive is exported or brought along
\* from another Hub, and used once.)
ExportDevices ==
    /\ export = None /\ archive = None /\ era < MaxRestores
    /\ export' = rows
    /\ UNCHANGED <<rows, sess, files, peers, archive, rest, enr, rev, history>>

ExportRest ==
    /\ export # None
    /\ export' = None
    /\ archive' = [dev |-> export, named |-> Listed(rows), key |-> TRUE]
    /\ UNCHANGED <<rows, sess, files, peers, rest, enr, rev, history>>
-----------------------------------------------------------------------------
(* Restore: up to the commit.                                              *)

Step(at) == rest' = [rest EXCEPT !.at = at]
EndRestore == rest' = NoRestore

\* require_admin, the rate limit, the phrase, then the file (and its damages).
Upload ==
    /\ rest.at = "idle" /\ archive # None /\ era < MaxRestores
    /\ rest' = [NoRestore EXCEPT !.at = "parse", !.arch = archive]
    /\ archive' = None
    /\ UNCHANGED <<rows, sess, files, peers, hubVars, history>>

\* Every device an event, a backup or an audit row names is in the archive.
RefersToRows(a) == a.named \subseteq Listed(a.dev)

\* parse_backup_bundle() refuses the archive, for its references, its format,
\* its passphrase or the shape of a row: nothing was touched.
RestoreRefused ==
    /\ rest.at = "parse"
    /\ EndRestore
    /\ UNCHANGED <<rows, sess, files, peers, archive, hubVars, history>>

Parse ==
    /\ rest.at = "parse"
    /\ RefersToRows(rest.arch)
    /\ Step("stage")
    /\ UNCHANGED <<rows, sess, files, peers, archive, hubVars, history>>

\* stage_restore_files(): temporary files next to the live ones, which stay.
Stage ==
    /\ rest.at = "stage"
    /\ Step("devices")
    /\ UNCHANGED <<rows, sess, files, peers, archive, hubVars, history>>

\* DELETE of sessions, events, backups and devices, as committed by now.
DeleteDevices ==
    /\ rest.at = "devices"
    /\ sess' = [s \in Sessions |-> IF sess[s].is = "active" THEN NoSession ELSE sess[s]]
    /\ Step("codes")
    /\ UNCHANGED <<rows, files, peers, archive, enr, rev, export, history>>

\* ... of enrollment codes and companies: it waits for enrollments that have
\* claimed a code; the devices they committed go with their company.
DeleteCompanies ==
    /\ rest.at = "codes"
    /\ \A k \in Keys : enr[k] # "inserted"
    /\ Step("users")
    /\ UNCHANGED <<rows, sess, files, peers, archive, hubVars, history>>

\* Faulty variant: a session that is being inserted is not waited for.
DeleteUsersAtOnce ==
    /\ rest.at = "users"
    /\ sess' = [s \in Sessions |-> IF sess[s].is = "active" THEN NoSession ELSE sess[s]]
    /\ Step("commit")
    /\ UNCHANGED <<rows, files, peers, archive, enr, rev, export, history>>

\* ... of users: it waits for uncommitted sessions, and takes all others along.
DeleteUsers ==
    /\ rest.at = "users"
    /\ \A s \in Sessions : sess[s].is # "inserted"
    /\ sess' = [s \in Sessions |-> NoSession]
    /\ Step("commit")
    /\ UNCHANGED <<rows, files, peers, archive, enr, rev, export, history>>

\* Everything is inserted from the archive and committed; only its files are
\* still needed.
RestoreCommit ==
    /\ rest.at = "commit"
    /\ rows' = rest.arch.dev
    /\ era' = era + 1
    /\ undone' = TRUE
    /\ raced' = InFlight
    /\ rest' = [rest EXCEPT !.at = "applyLogo", !.arch = [@ EXCEPT !.dev = NoDevices, !.named = {}]]
    /\ UNCHANGED <<sess, files, peers, archive, hubVars>>

\* A file cannot be staged, the database fails or picks this transaction as a
\* deadlock's victim: everything is rolled back.
RestoreRolledBack ==
    /\ rest.at \in {"stage", "devices", "codes", "users", "commit"}
    /\ EndRestore
    /\ UNCHANGED <<rows, sess, files, peers, archive, hubVars, history>>
-----------------------------------------------------------------------------
(* Restore: the follow-up.                                                 *)

\* Faulty variant: the logo is replaced as soon as it is staged.
ApplyLogoEarly ==
    /\ rest.at \in {"devices", "applyLogo"}
    /\ files' = [files EXCEPT !.logo = era + (IF rest.at = "devices" THEN 1 ELSE 0)]
    /\ IF rest.at = "devices" THEN UNCHANGED rest ELSE Step("applyKey")
    /\ UNCHANGED <<rows, sess, peers, archive, hubVars, history>>

\* The archive's logo replaces the live one, or the live one is removed.
ApplyLogo ==
    /\ rest.at = "applyLogo"
    /\ files' = [files EXCEPT !.logo = era]
    /\ Step("applyKey")
    /\ UNCHANGED <<rows, sess, peers, archive, hubVars, history>>

\* The key file is replaced if the archive has one, and kept otherwise.
ApplyKey ==
    /\ rest.at = "applyKey"
    /\ files' = IF rest.arch.key THEN [files EXCEPT !.key = era] ELSE files
    /\ Step("bootstrap")
    /\ UNCHANGED <<rows, sess, peers, archive, hubVars, history>>

\* bootstrap_wireguard(): the sidecar gets every active row's peer; peers are
\* only ever added.
Bootstrap ==
    /\ rest.at = "bootstrap"
    /\ peers' = peers \cup Active(rows)
    /\ Step("expect")
    /\ UNCHANGED <<rows, sess, files, archive, hubVars, history>>

ReadExpected ==
    /\ rest.at = "expect"
    /\ rest' = [rest EXCEPT !.at = "runtime", !.expected = Active(rows)]
    /\ UNCHANGED <<rows, sess, files, peers, archive, hubVars, history>>

\* Faulty variant: the peers that are not expected are left alone.
ReadRuntimeIgnored ==
    /\ rest.at = "runtime"
    /\ rest' = [rest EXCEPT !.at = "remove", !.todo = {}]
    /\ UNCHANGED <<rows, sess, files, peers, archive, hubVars, history>>

ReadRuntime ==
    /\ rest.at = "runtime"
    /\ rest' = [rest EXCEPT !.at = "remove", !.todo = peers \ rest.expected]
    /\ UNCHANGED <<rows, sess, files, peers, archive, hubVars, history>>

RemoveUnexpected ==
    /\ rest.at = "remove"
    /\ IF rest.todo = {}
         THEN /\ rest' = [rest EXCEPT !.at = "add", !.todo = rest.expected]
              /\ UNCHANGED peers
         ELSE \E k \in rest.todo :
                /\ peers' = peers \ {k}
                /\ rest' = [rest EXCEPT !.todo = @ \ {k}]
    /\ UNCHANGED <<rows, sess, files, archive, hubVars, history>>

AddExpected ==
    /\ rest.at = "add" /\ rest.todo # {}
    /\ \E k \in rest.todo :
          /\ peers' = peers \cup {k}
          /\ rest' = [rest EXCEPT !.todo = @ \ {k}]
    /\ UNCHANGED <<rows, sess, files, archive, hubVars, history>>

RestoreDone ==
    /\ rest.at = "add" /\ rest.todo = {}
    /\ EndRestore
    /\ undone' = FALSE
    /\ UNCHANGED <<rows, sess, files, peers, archive, hubVars, era, raced>>

\* A file or the sidecar refuses: the administrator is told, nothing is retried.
FollowUpFails ==
    /\ rest.at \in FollowUp
    /\ EndRestore
    /\ UNCHANGED <<rows, sess, files, peers, archive, hubVars, history>>
-----------------------------------------------------------------------------
(* The rest of the Hub.                                                    *)

\* Faulty variant: the code's row is claimed although it was deleted.
EnrollInsertUnlocked(k) ==
    /\ enr[k] = "idle" /\ rows[k] = "none"
    /\ enr' = [enr EXCEPT ![k] = "inserted"]
    /\ Note(k)
    /\ UNCHANGED <<rows, sess, files, peers, archive, export, rest, rev, era, undone>>

\* enroll() claims its code and inserts the device; not yet committed.
EnrollInsert(k) ==
    /\ enr[k] = "idle" /\ rows[k] = "none"
    /\ ~HoldsCodes
    /\ enr' = [enr EXCEPT ![k] = "inserted"]
    /\ Note(k)
    /\ UNCHANGED <<rows, sess, files, peers, archive, export, rest, rev, era, undone>>

EnrollCommit(k) ==
    /\ enr[k] = "inserted"
    /\ enr' = [enr EXCEPT ![k] = "adding"]
    /\ rows' = [rows EXCEPT ![k] = "active"]
    /\ UNCHANGED <<sess, files, peers, archive, export, rest, rev, history>>

\* add_peer() for the address it was given, whatever became of the row.
EnrollAddPeer(k) ==
    /\ enr[k] = "adding"
    /\ peers' = peers \cup {k}
    /\ enr' = [enr EXCEPT ![k] = "idle"]
    /\ UNCHANGED <<rows, sess, files, archive, export, rest, rev, history>>

\* The sidecar refuses: the device row of this enrollment is deleted; a row
\* restored meanwhile is another one, unless it was exported from this one.
EnrollCompensate(k) ==
    /\ enr[k] = "adding" /\ ~HoldsDevices
    /\ rows' \in {[rows EXCEPT ![k] = "none"]} \cup IF k \in raced THEN {rows} ELSE {}
    /\ enr' = [enr EXCEPT ![k] = "idle"]
    /\ UNCHANGED <<sess, files, peers, archive, export, rest, rev, history>>

\* revoke_device() read an active row; the sidecar removes the peer.
RevokeRemovePeer(k) ==
    /\ rev[k] = "idle" /\ rows[k] = "active" /\ enr[k] = "idle"
    /\ peers' = peers \ {k}
    /\ rev' = [rev EXCEPT ![k] = "removed"]
    /\ Note(k)
    /\ UNCHANGED <<rows, sess, files, archive, export, rest, enr, era, undone>>

RevokeCommit(k) ==
    /\ rev[k] = "removed"
    /\ rows[k] # "none" /\ ~HoldsDevices
    /\ rows' = [rows EXCEPT ![k] = "revoked"]
    /\ rev' = [rev EXCEPT ![k] = "idle"]
    /\ UNCHANGED <<sess, files, peers, archive, export, rest, enr, history>>

\* The row was replaced under the UPDATE: it matches nothing.
RevokeLost(k) ==
    /\ rev[k] = "removed"
    /\ k \in raced
    /\ rev' = [rev EXCEPT ![k] = "idle"]
    /\ UNCHANGED <<rows, sess, files, peers, archive, export, rest, enr, history>>

\* delete_revoked_device().
DeleteRevoked(k) ==
    /\ rows[k] = "revoked" /\ rev[k] = "idle" /\ ~HoldsDevices
    /\ rows' = [rows EXCEPT ![k] = "none"]
    /\ UNCHANGED <<sess, files, peers, archive, export, rest, enr, rev, history>>

\* A login inserts its session, which references the user, and commits it.
LoginInsert(s) ==
    /\ sess[s] = NoSession
    /\ ~HoldsUsers
    /\ sess' = [sess EXCEPT ![s] = [is |-> "inserted", era |-> era]]
    /\ UNCHANGED <<rows, files, peers, archive, export, rest, enr, rev, history>>

LoginCommit(s) ==
    /\ sess[s].is = "inserted"
    /\ sess' = [sess EXCEPT ![s].is = "active"]
    /\ UNCHANGED <<rows, files, peers, archive, export, rest, enr, rev, history>>

\* The Hub process dies and starts again; the sidecar keeps its peers, and
\* bootstrap_wireguard() adds those of the active rows.
CrashAndStart ==
    /\ rest' = NoRestore
    /\ enr' = [k \in Keys |-> "idle"]
    /\ rev' = [k \in Keys |-> "idle"]
    /\ export' = None
    /\ sess' = [s \in Sessions |-> IF sess[s].is = "inserted" THEN NoSession ELSE sess[s]]
    /\ raced' = IF undone THEN raced \cup InFlight ELSE raced
    /\ peers' = peers \cup Active(rows)
    /\ UNCHANGED <<rows, files, archive, era, undone>>
-----------------------------------------------------------------------------
Restore ==
    \/ RestoreRefused \/ Parse \/ Stage
    \/ DeleteDevices \/ DeleteCompanies \/ DeleteUsers
    \/ RestoreCommit \/ RestoreRolledBack
    \/ ApplyLogo \/ ApplyKey \/ Bootstrap \/ ReadExpected \/ ReadRuntime
    \/ RemoveUnexpected \/ AddExpected \/ RestoreDone \/ FollowUpFails

Work(k) ==
    \/ EnrollCommit(k) \/ EnrollAddPeer(k) \/ EnrollCompensate(k)
    \/ RevokeCommit(k) \/ RevokeLost(k)

Next ==
    \/ ExportDevices \/ ExportRest
    \/ Upload \/ Restore
    \/ \E k \in Keys : \/ EnrollInsert(k) \/ RevokeRemovePeer(k) \/ DeleteRevoked(k)
                       \/ Work(k)
    \/ \E s \in Sessions : LoginInsert(s) \/ LoginCommit(s)
    \/ CrashAndStart

Spec == Init /\ [][Next]_vars
-----------------------------------------------------------------------------
(* Properties.                                                             *)

BeforeCommit == {"parse", "stage", "devices", "codes", "users", "commit"}
Requests == [at : {"idle"} \cup BeforeCommit \cup FollowUp, arch : Archives \cup {None},
             expected : SUBSET Keys, todo : SUBSET Keys]

\* Every variable stays in its range.
TypeOK ==
    /\ rows \in [Keys -> {"none", "active", "revoked"}]
    /\ sess \in [Sessions -> [is : {"none", "inserted", "active"}, era : 0..MaxRestores]]
    /\ files \in [logo : 0..MaxRestores, key : 0..MaxRestores]
    /\ peers \subseteq Keys
    /\ archive \in Archives \cup {None}
    /\ export = None \/ export \in [Keys -> {"none", "active", "revoked"}]
    /\ rest \in Requests
    /\ enr \in [Keys -> {"idle", "inserted", "adding"}]
    /\ rev \in [Keys -> {"idle", "removed"}]
    /\ era \in 0..MaxRestores
    /\ undone \in BOOLEAN
    /\ raced \subseteq Keys
    /\ \A k \in Keys : HoldsCodes => enr[k] # "inserted"

\* Files are never ahead of the database: the logo and the key of an archive
\* are live only after its rows are committed (docs/security.md), whatever
\* fails, and they are once the restore ended well.
FilesFollowRows ==
    /\ files.logo <= era /\ files.key <= era
    /\ rest.at = "idle" /\ ~undone => files.logo = era

\* A restore signs everybody out: a session outlives no restore, also one that
\* a login was inserting while the tables were being deleted.
SessionsAreOfThisEra ==
    \A s \in Sessions : sess[s].is # "none" /\ rest.at \notin {"devices", "codes", "users", "commit"}
                           => sess[s].era = era

\* Once the follow-up ended well, the interface has exactly the peers of the
\* active rows, except for keys that were enrolled or revoked meanwhile.
PeersFollowRows ==
    rest.at = "idle" /\ ~undone =>
        \A k \in Keys \ (raced \cup InFlight) : k \in peers <=> rows[k] = "active"
=============================================================================
