--------------------------- MODULE Backups_proofs ---------------------------
(***************************************************************************)
(* Proofs about what the Hub backs up: itself (HubRestore) and the         *)
(* configurations of its firewalls (DeviceBackups).                        *)
(*                                                                         *)
(* For any firewalls, sessions and number of restores, files are never     *)
(* ahead of the rows, no session outlives a restore, and a follow-up that  *)
(* ended well leaves the interface with the peers of the active rows.      *)
(*                                                                         *)
(* For any heartbeat processes, retention counts, requests and faults, a   *)
(* request that was confirmed is answered by a configuration read after    *)
(* it, unless an upload was under way or an older request is committed     *)
(* over it, and what an upload deletes is older than what it keeps.        *)
(***************************************************************************)
EXTENDS HubRestore, DeviceBackups, FiniteSetTheorems, TLAPS

\* A restore has an archive, and room below the bound until it commits.
Started ==
    /\ rest.at # "idle" => rest.arch \in Archives
    /\ rest.at \in BeforeCommit => era < MaxRestores

RestoreInv == TypeOK /\ Started

\* The fields of a restore that is not there.
LEMMA NoRestoreFields ==
    /\ NoRestore.at = "idle" /\ NoRestore.arch = None /\ NoRestore.expected = {} /\ NoRestore.todo = {}
    /\ NoRestore \in Requests
  BY DEF NoRestore, Requests

\* A request that goes on to another step.
LEMMA Moved ==
    ASSUME NEW x \in Requests, NEW at \in {"idle"} \cup BeforeCommit \cup FollowUp,
           NEW expected \in SUBSET Keys, NEW todo \in SUBSET Keys, NEW y,
           \/ y = [x EXCEPT !.at = at]
           \/ y = [x EXCEPT !.at = at, !.expected = expected]
           \/ y = [x EXCEPT !.at = at, !.todo = todo]
           \/ y = [x EXCEPT !.todo = todo]
    PROVE  y \in Requests /\ y.arch = x.arch /\ y.at \in {at, x.at}
  BY DEF Requests

LEMMA RestoreInit == Init => RestoreInv
<1> SUFFICES ASSUME Init PROVE RestoreInv
  OBVIOUS
<1>1. rest \in Requests
  BY NoRestoreFields DEF Init
<1>2. rest.at = "idle"
  BY NoRestoreFields DEF Init
<1>3. sess \in [Sessions -> [is : {"none", "inserted", "active"}, era : 0..MaxRestores]]
  BY ParamAssumption DEF Init, NoSession
<1>4. files \in [logo : 0..MaxRestores, key : 0..MaxRestores] /\ era \in 0..MaxRestores
  BY ParamAssumption DEF Init
<1>5. /\ rows \in [Keys -> {"none", "active", "revoked"}] /\ peers \subseteq Keys
      /\ enr \in [Keys -> {"idle", "inserted", "adding"}] /\ rev \in [Keys -> {"idle", "removed"}]
  BY DEF Init
<1>6. /\ archive \in Archives \cup {None} /\ export = None /\ undone \in BOOLEAN /\ raced \subseteq Keys
  BY DEF Init
<1>7. TypeOK
  BY <1>1, <1>2, <1>3, <1>4, <1>5, <1>6 DEF TypeOK, HoldsCodes
<1> QED BY <1>2, <1>7 DEF RestoreInv, Started, BeforeCommit

\* The export.
LEMMA ExportTyped == ASSUME RestoreInv, ExportDevices \/ ExportRest PROVE RestoreInv'
<1> USE DEF RestoreInv
<1>1. /\ UNCHANGED <<rows, sess, files, peers, rest, enr, rev, era, undone, raced>>
      /\ export' = None \/ export' = rows
      /\ archive' = archive \/ (export # None /\ archive' = [dev |-> export, named |-> Listed(rows), key |-> TRUE])
  BY DEF ExportDevices, ExportRest, history
<1>2. export' = None \/ export' \in [Keys -> {"none", "active", "revoked"}]
  BY <1>1 DEF TypeOK
<1>3. archive' \in Archives \cup {None}
  <2>1. \A dev \in [Keys -> {"none", "active", "revoked"}], named \in SUBSET Keys :
           [dev |-> dev, named |-> named, key |-> TRUE] \in Archives
    BY DEF Archives
  <2>2. Listed(rows) \in SUBSET Keys
    BY DEF Listed
  <2> QED BY <1>1, <2>1, <2>2 DEF TypeOK
<1>4. TypeOK'
  BY <1>1, <1>2, <1>3 DEF TypeOK, HoldsCodes
<1> QED BY <1>1, <1>4 DEF Started

\* The steps of a restore move it on, or end it; its archive stays what it was
\* until the commit drops the rows.
LEMMA RestoreMoves ==
    ASSUME RestoreInv, Upload \/ Restore
    PROVE  /\ UNCHANGED <<enr, rev, export>>
           /\ \/ rest' = NoRestore /\ era' = era /\ archive' = archive
              \/ /\ rest.at = "idle" /\ rest' = [NoRestore EXCEPT !.at = "parse", !.arch = archive]
                 /\ archive # None /\ archive' = None /\ era' = era /\ era < MaxRestores
              \/ /\ rest.at = "commit" /\ archive' = archive /\ era' = era + 1
                 /\ rest' = [rest EXCEPT !.at = "applyLogo",
                                        !.arch = [@ EXCEPT !.dev = NoDevices, !.named = {}]]
              \/ /\ rest.at # "idle" /\ archive' = archive /\ era' = era
                 /\ rest'.arch = rest.arch /\ rest'.at # "idle"
                 /\ rest'.at \in BeforeCommit => rest.at \in BeforeCommit
                 /\ rest'.at \in {"users", "commit"} => rest.at \in {"users", "commit"} \/ DeleteCompanies
                 /\ rest' \in Requests
<1> DEFINE Goes ==
      /\ rest.at # "idle" /\ archive' = archive /\ era' = era
      /\ rest'.arch = rest.arch /\ rest'.at # "idle"
      /\ rest'.at \in BeforeCommit => rest.at \in BeforeCommit
      /\ rest'.at \in {"users", "commit"} => rest.at \in {"users", "commit"} \/ DeleteCompanies
      /\ rest' \in Requests
<1> USE DEF RestoreInv, hubVars, history, BeforeCommit, FollowUp
<1>1. CASE Upload
  BY <1>1 DEF Upload
<1>2. CASE RestoreRefused \/ RestoreRolledBack \/ RestoreDone \/ FollowUpFails
  BY <1>2 DEF RestoreRefused, RestoreRolledBack, RestoreDone, FollowUpFails, EndRestore
<1>3. CASE RestoreCommit
  BY <1>3 DEF RestoreCommit
<1>4. rest \in Requests /\ Active(rows) \in SUBSET Keys /\ rest.todo \in SUBSET Keys /\ rest.expected \in SUBSET Keys
      /\ peers \in SUBSET Keys
  BY DEF TypeOK, Requests, Active
<1>5. ASSUME rest.at # "idle", archive' = archive, era' = era, UNCHANGED <<enr, rev, export>>,
             NEW at \in BeforeCommit \cup FollowUp, at \in BeforeCommit => rest.at \in BeforeCommit,
             at \in {"users", "commit"} => rest.at \in {"users", "commit"} \/ DeleteCompanies,
             NEW expected \in SUBSET Keys, NEW todo \in SUBSET Keys,
             \/ rest' = [rest EXCEPT !.at = at]
             \/ rest' = [rest EXCEPT !.at = at, !.expected = expected]
             \/ rest' = [rest EXCEPT !.at = at, !.todo = todo]
             \/ rest' = [rest EXCEPT !.todo = todo]
      PROVE  Goes
  <2>1. rest' \in Requests /\ rest'.arch = rest.arch /\ rest'.at \in {at, rest.at}
    BY <1>4, <1>5, Moved
  <2> QED BY <1>5, <2>1
<1>6. CASE Parse \/ Stage \/ DeleteDevices \/ DeleteCompanies \/ DeleteUsers
  <2>1. PICK at \in BeforeCommit :
           /\ Step(at) /\ rest.at \in BeforeCommit
           /\ at \in {"users", "commit"} => rest.at \in {"users", "commit"} \/ DeleteCompanies
    BY <1>6 DEF Parse, Stage, DeleteDevices, DeleteCompanies, DeleteUsers
  <2>2. rest.at # "idle" /\ archive' = archive /\ era' = era /\ UNCHANGED <<enr, rev, export>>
    BY <1>6 DEF Parse, Stage, DeleteDevices, DeleteCompanies, DeleteUsers
  <2> QED BY <1>4, <1>5, <2>1, <2>2 DEF Step
<1>7. CASE ApplyLogo \/ ApplyKey \/ Bootstrap
  <2>1. PICK at \in FollowUp : Step(at)
    BY <1>7 DEF ApplyLogo, ApplyKey, Bootstrap
  <2>2. rest.at # "idle" /\ archive' = archive /\ era' = era /\ UNCHANGED <<enr, rev, export>>
    BY <1>7 DEF ApplyLogo, ApplyKey, Bootstrap
  <2> QED BY <1>4, <1>5, <2>1, <2>2 DEF Step
<1>8. CASE ReadExpected
  BY <1>4, <1>5, <1>8 DEF ReadExpected
<1>9. CASE ReadRuntime
  <2>1. peers \ rest.expected \in SUBSET Keys
    BY <1>4
  <2> QED BY <1>4, <1>5, <1>9, <2>1 DEF ReadRuntime
<1>10. CASE RemoveUnexpected
  <2>1. rest.at # "idle" /\ archive' = archive /\ era' = era /\ UNCHANGED <<enr, rev, export>>
    BY <1>10 DEF RemoveUnexpected
  <2>2. PICK at \in FollowUp, todo \in SUBSET Keys :
           rest' = [rest EXCEPT !.at = at, !.todo = todo] \/ rest' = [rest EXCEPT !.todo = todo]
    BY <1>4, <1>10 DEF RemoveUnexpected
  <2> QED BY <1>4, <1>5, <2>1, <2>2
<1>11. CASE AddExpected
  <2>1. rest.at # "idle" /\ archive' = archive /\ era' = era /\ UNCHANGED <<enr, rev, export>>
    BY <1>11 DEF AddExpected
  <2>2. PICK todo \in SUBSET Keys : rest' = [rest EXCEPT !.todo = todo]
    BY <1>4, <1>11 DEF AddExpected
  <2>3. PICK at \in FollowUp : at = "add"
    OBVIOUS
  <2> QED BY <1>4, <1>5, <2>1, <2>2, <2>3
<1> QED BY <1>1, <1>2, <1>3, <1>6, <1>7, <1>8, <1>9, <1>10, <1>11 DEF Restore

\* What a restore writes on its way is in range.
LEMMA RestoreWrites ==
    ASSUME RestoreInv, Upload \/ Restore
    PROVE  /\ rows' \in [Keys -> {"none", "active", "revoked"}]
           /\ sess' \in [Sessions -> [is : {"none", "inserted", "active"}, era : 0..MaxRestores]]
           /\ files' \in [logo : 0..MaxRestores, key : 0..MaxRestores]
           /\ peers' \subseteq Keys /\ undone' \in BOOLEAN /\ raced' \subseteq Keys
<1> USE DEF RestoreInv, hubVars, history
<1>1. /\ rows \in [Keys -> {"none", "active", "revoked"}]
      /\ sess \in [Sessions -> [is : {"none", "inserted", "active"}, era : 0..MaxRestores]]
      /\ files \in [logo : 0..MaxRestores, key : 0..MaxRestores] /\ era \in 0..MaxRestores
      /\ peers \subseteq Keys /\ undone \in BOOLEAN /\ raced \subseteq Keys
  BY DEF TypeOK
<1>2. CASE \/ Upload \/ RestoreRefused \/ RestoreRolledBack \/ FollowUpFails \/ Parse \/ Stage \/ DeleteCompanies
           \/ ReadExpected \/ ReadRuntime \/ RestoreDone
  BY <1>1, <1>2 DEF Upload, RestoreRefused, RestoreRolledBack, FollowUpFails, Parse, Stage, DeleteCompanies,
     ReadExpected, ReadRuntime, RestoreDone
<1>3. CASE DeleteDevices \/ DeleteUsers
  <2>1. NoSession \in [is : {"none", "inserted", "active"}, era : 0..MaxRestores]
    BY ParamAssumption DEF NoSession
  <2>2. sess' \in [Sessions -> [is : {"none", "inserted", "active"}, era : 0..MaxRestores]]
    BY <1>1, <1>3, <2>1 DEF DeleteDevices, DeleteUsers
  <2> QED BY <1>1, <1>3, <2>2 DEF DeleteDevices, DeleteUsers
<1>4. CASE RestoreCommit
  <2>1. rest.arch \in Archives
    BY <1>4 DEF RestoreCommit, Started
  <2>2. rows' \in [Keys -> {"none", "active", "revoked"}]
    BY <1>4, <2>1 DEF RestoreCommit, Archives
  <2> QED BY <1>1, <1>4, <2>2 DEF RestoreCommit, InFlight
<1>5. CASE ApplyLogo \/ ApplyKey
  BY <1>1, <1>5 DEF ApplyLogo, ApplyKey
<1>6. CASE Bootstrap \/ RemoveUnexpected \/ AddExpected
  <2>1. rest.todo \subseteq Keys /\ Active(rows) \subseteq Keys
    BY DEF TypeOK, Requests, Active
  <2>2. peers' \subseteq Keys
    BY <1>1, <1>6, <2>1 DEF Bootstrap, RemoveUnexpected, AddExpected
  <2> QED BY <1>1, <1>6, <2>2 DEF Bootstrap, RemoveUnexpected, AddExpected
<1> QED BY <1>2, <1>3, <1>4, <1>5, <1>6 DEF Restore

LEMMA RestoreTyped == ASSUME RestoreInv, Upload \/ Restore PROVE RestoreInv'
<1> USE DEF RestoreInv
<1>1. /\ enr' = enr /\ rev' = rev /\ export' = export
      /\ era \in 0..MaxRestores
  BY RestoreMoves DEF TypeOK
<1>2. ASSUME rest' \in Requests, era' \in 0..MaxRestores, archive' \in Archives \cup {None},
             rest'.at \in {"users", "commit"} => \A k \in Keys : enr[k] # "inserted"
      PROVE  TypeOK'
  BY <1>1, <1>2, RestoreWrites DEF TypeOK, HoldsCodes
<1>3. CASE rest' = NoRestore /\ era' = era /\ archive' = archive
  <2>1. rest' \in Requests /\ rest'.at = "idle"
    BY <1>3, NoRestoreFields
  <2> QED BY <1>1, <1>2, <1>3, <2>1 DEF TypeOK, Started, BeforeCommit
<1>4. CASE /\ rest.at = "idle" /\ rest' = [NoRestore EXCEPT !.at = "parse", !.arch = archive]
           /\ archive # None /\ archive' = None /\ era' = era /\ era < MaxRestores
  <2>1. archive \in Archives
    BY <1>4 DEF TypeOK
  <2>2. rest' \in Requests /\ rest'.at = "parse" /\ rest'.arch = archive
    BY <1>4, <2>1, NoRestoreFields DEF Requests, BeforeCommit
  <2> QED BY <1>1, <1>2, <1>4, <2>1, <2>2 DEF Started
<1>5. CASE /\ rest.at = "commit" /\ archive' = archive /\ era' = era + 1
           /\ rest' = [rest EXCEPT !.at = "applyLogo",
                                  !.arch = [rest.arch EXCEPT !.dev = NoDevices, !.named = {}]]
  <2> DEFINE left == [rest.arch EXCEPT !.dev = NoDevices, !.named = {}]
  <2>1. rest.arch \in Archives /\ era < MaxRestores
    BY <1>5 DEF Started, BeforeCommit
  <2>2. left \in Archives
    BY <2>1 DEF Archives, NoDevices
  <2>3. rest' = [rest EXCEPT !.at = "applyLogo", !.arch = left]
    BY <1>5
  <2> HIDE DEF left
  <2>4. rest \in Requests
    BY DEF TypeOK
  <2>5. rest' \in Requests /\ rest'.at = "applyLogo" /\ rest'.arch = left
    BY <2>2, <2>3, <2>4 DEF Requests, FollowUp
  <2>6. era' \in 0..MaxRestores /\ archive' \in Archives \cup {None}
    BY <1>1, <1>5, <2>1, ParamAssumption DEF TypeOK
  <2>7. TypeOK'
    BY <1>2, <2>5, <2>6
  <2> QED BY <2>2, <2>5, <2>7 DEF Started, BeforeCommit
<1>6. CASE /\ rest.at # "idle" /\ archive' = archive /\ era' = era
           /\ rest'.arch = rest.arch /\ rest'.at # "idle"
           /\ rest'.at \in BeforeCommit => rest.at \in BeforeCommit
           /\ rest'.at \in {"users", "commit"} => rest.at \in {"users", "commit"} \/ DeleteCompanies
           /\ rest' \in Requests
  <2>1. rest'.at \in {"users", "commit"} => \A k \in Keys : enr[k] # "inserted"
    BY <1>6 DEF TypeOK, HoldsCodes, DeleteCompanies
  <2> QED BY <1>1, <1>2, <1>6, <2>1 DEF TypeOK, Started
<1> QED BY RestoreMoves, <1>3, <1>4, <1>5, <1>6

(***************************************************************************)
(* The rest of the Hub.                                                    *)
(***************************************************************************)
\* The steps of enrollments, revocations and logins.
HubStep ==
    \/ \E k \in Keys : \/ EnrollInsert(k) \/ RevokeRemovePeer(k) \/ DeleteRevoked(k)
                       \/ Work(k)
    \/ \E s \in Sessions : LoginInsert(s) \/ LoginCommit(s)

LEMMA HubTyped == ASSUME RestoreInv, HubStep PROVE RestoreInv'
<1> USE DEF RestoreInv, history
<1>1. /\ rows \in [Keys -> {"none", "active", "revoked"}]
      /\ sess \in [Sessions -> [is : {"none", "inserted", "active"}, era : 0..MaxRestores]]
      /\ peers \subseteq Keys /\ raced \subseteq Keys /\ era \in 0..MaxRestores
      /\ enr \in [Keys -> {"idle", "inserted", "adding"}] /\ rev \in [Keys -> {"idle", "removed"}]
      /\ HoldsCodes => \A k \in Keys : enr[k] # "inserted"
  BY DEF TypeOK
<1>2. ASSUME UNCHANGED <<files, archive, export, rest, era, undone>>,
             rows' \in [Keys -> {"none", "active", "revoked"}],
             sess' \in [Sessions -> [is : {"none", "inserted", "active"}, era : 0..MaxRestores]],
             peers' \subseteq Keys, raced' \subseteq Keys,
             enr' \in [Keys -> {"idle", "inserted", "adding"}], rev' \in [Keys -> {"idle", "removed"}],
             HoldsCodes => \A k \in Keys : enr'[k] # "inserted"
      PROVE  RestoreInv'
  <2>1. TypeOK'
    BY <1>2 DEF TypeOK, HoldsCodes
  <2> QED BY <1>2, <2>1 DEF Started
<1>3. ASSUME NEW k \in Keys, EnrollInsert(k) PROVE RestoreInv'
  BY <1>1, <1>2, <1>3 DEF EnrollInsert, Note
<1>4. ASSUME NEW k \in Keys, EnrollCommit(k) PROVE RestoreInv'
  BY <1>1, <1>2, <1>4 DEF EnrollCommit
<1>5. ASSUME NEW k \in Keys, EnrollAddPeer(k) PROVE RestoreInv'
  BY <1>1, <1>2, <1>5 DEF EnrollAddPeer
<1>6. ASSUME NEW k \in Keys, EnrollCompensate(k) PROVE RestoreInv'
  <2>1. rows' = rows \/ rows' = [rows EXCEPT ![k] = "none"]
    BY <1>6 DEF EnrollCompensate
  <2> QED BY <1>1, <1>2, <1>6, <2>1 DEF EnrollCompensate
<1>7. ASSUME NEW k \in Keys, RevokeRemovePeer(k) PROVE RestoreInv'
  BY <1>1, <1>2, <1>7 DEF RevokeRemovePeer, Note
<1>8. ASSUME NEW k \in Keys, RevokeCommit(k) \/ RevokeLost(k) \/ DeleteRevoked(k) PROVE RestoreInv'
  BY <1>1, <1>2, <1>8 DEF RevokeCommit, RevokeLost, DeleteRevoked
<1>9. ASSUME NEW s \in Sessions, LoginInsert(s) PROVE RestoreInv'
  BY <1>1, <1>2, <1>9 DEF LoginInsert
<1>10. ASSUME NEW s \in Sessions, LoginCommit(s) PROVE RestoreInv'
  BY <1>1, <1>2, <1>10 DEF LoginCommit
<1> QED BY <1>3, <1>4, <1>5, <1>6, <1>7, <1>8, <1>9, <1>10 DEF HubStep, Work

LEMMA CrashTyped == ASSUME RestoreInv, CrashAndStart PROVE RestoreInv'
<1> USE DEF RestoreInv
<1>1. /\ rest' = NoRestore /\ rest'.at = "idle" /\ rest' \in Requests
      /\ UNCHANGED <<rows, files, archive, era, undone>> /\ export' = None
  BY NoRestoreFields DEF CrashAndStart
<1>2. sess' \in [Sessions -> [is : {"none", "inserted", "active"}, era : 0..MaxRestores]]
  BY ParamAssumption DEF CrashAndStart, TypeOK, NoSession
<1>3. /\ peers' \subseteq Keys /\ raced' \subseteq Keys
      /\ enr' \in [Keys -> {"idle", "inserted", "adding"}] /\ rev' \in [Keys -> {"idle", "removed"}]
  BY DEF CrashAndStart, TypeOK, InFlight, Active
<1>4. TypeOK'
  BY <1>1, <1>2, <1>3 DEF TypeOK, HoldsCodes
<1> QED BY <1>1, <1>4 DEF Started, BeforeCommit

LEMMA NextCases ==
    ASSUME [Next]_vars
    PROVE  ExportDevices \/ ExportRest \/ Upload \/ Restore \/ HubStep \/ CrashAndStart \/ UNCHANGED vars
  BY DEF Next, HubStep

LEMMA RestoreNext == RestoreInv /\ [Next]_vars => RestoreInv'
<1> SUFFICES ASSUME RestoreInv, [Next]_vars PROVE RestoreInv'
  OBVIOUS
<1>1. CASE UNCHANGED vars
  BY <1>1 DEF vars, RestoreInv, TypeOK, Started, HoldsCodes
<1> QED BY <1>1, NextCases, ExportTyped, RestoreTyped, HubTyped, CrashTyped

\* Every variable stays in its range, and no enrollment has claimed a code that
\* the restore has deleted (enroll, restore_backup_bundle).
THEOREM TypeCorrect == Spec => []TypeOK
<1>1. RestoreInv => TypeOK
  BY DEF RestoreInv
<1> QED BY <1>1, RestoreInit, RestoreNext, PTL DEF Spec

(***************************************************************************)
(* Where a restore goes.                                                   *)
(***************************************************************************)
LEMMA StepAt ==
    ASSUME RestoreInv, NEW at, Step(at)
    PROVE  rest'.at = at /\ rest'.expected = rest.expected /\ rest'.todo = rest.todo
  BY DEF Step, RestoreInv, TypeOK, Requests

\* Up to the commit.
LEMMA EarlyAt ==
    ASSUME RestoreInv, Upload \/ Parse \/ Stage \/ DeleteDevices \/ DeleteCompanies \/ DeleteUsers
    PROVE  /\ UNCHANGED <<rows, files, peers, enr, rev, era, undone, raced>>
           /\ rest'.at \in BeforeCommit /\ (rest'.at = "commit" => DeleteUsers)
<1>1. CASE Upload
  <2>1. rest' = [NoRestore EXCEPT !.at = "parse", !.arch = archive]
    BY <1>1 DEF Upload
  <2>2. rest'.at = "parse"
    BY <2>1, NoRestoreFields DEF Requests
  <2> QED BY <1>1, <2>2 DEF Upload, BeforeCommit, hubVars, history
<1>2. CASE Parse \/ Stage \/ DeleteDevices \/ DeleteCompanies \/ DeleteUsers
  <2>1. PICK at \in BeforeCommit : Step(at) /\ (at = "commit" => DeleteUsers)
    BY <1>2 DEF Parse, Stage, DeleteDevices, DeleteCompanies, DeleteUsers, BeforeCommit
  <2> QED BY <1>2, <2>1, StepAt DEF Parse, Stage, DeleteDevices, DeleteCompanies, DeleteUsers, hubVars, history
<1> QED BY <1>1, <1>2

\* The commit.
LEMMA CommitAt == ASSUME RestoreInv, RestoreCommit PROVE rest.at = "commit" /\ rest'.at = "applyLogo"
  BY DEF RestoreCommit, RestoreInv, TypeOK, Requests

\* The follow-up, without its end.
LEMMA FollowUpAt ==
    ASSUME RestoreInv,
           ApplyLogo \/ ApplyKey \/ Bootstrap \/ ReadExpected \/ ReadRuntime \/ RemoveUnexpected \/ AddExpected
    PROVE  /\ UNCHANGED <<rows, sess, enr, rev, era, undone, raced>>
           /\ rest.at \in FollowUp /\ rest'.at \in FollowUp \ {"applyLogo"}
           /\ ApplyLogo \/ rest.at # "applyLogo"
           /\ ApplyLogo \/ ApplyKey \/ files' = files
<1> USE DEF hubVars, history, FollowUp
<1>1. CASE ApplyLogo \/ ApplyKey \/ Bootstrap
  <2>1. PICK at \in FollowUp \ {"applyLogo"} : Step(at)
    BY <1>1 DEF ApplyLogo, ApplyKey, Bootstrap
  <2> QED BY <1>1, <2>1, StepAt DEF ApplyLogo, ApplyKey, Bootstrap
<1>2. CASE ReadExpected \/ ReadRuntime
  BY <1>2 DEF ReadExpected, ReadRuntime, RestoreInv, TypeOK, Requests
<1>3. CASE RemoveUnexpected \/ AddExpected
  BY <1>3 DEF RemoveUnexpected, AddExpected, RestoreInv, TypeOK, Requests
<1> QED BY <1>1, <1>2, <1>3

\* The ends of a restore.
LEMMA EndAt ==
    ASSUME RestoreRefused \/ RestoreRolledBack \/ RestoreDone \/ FollowUpFails
    PROVE  /\ UNCHANGED <<rows, sess, files, peers, enr, rev, era, raced>>
           /\ rest'.at = "idle"
           /\ undone' = undone \/ (RestoreDone /\ ~undone' /\ rest.at = "add" /\ rest.todo = {})
  BY NoRestoreFields DEF RestoreRefused, RestoreRolledBack, RestoreDone, FollowUpFails, EndRestore, hubVars, history

(***************************************************************************)
(* Files and rows.                                                         *)
(***************************************************************************)
\* The follow-up is undone from the commit to its end, and past its first step
\* the logo is the archive's.
FilesInv ==
    /\ files.logo <= era /\ files.key <= era
    /\ rest.at \in FollowUp => undone
    /\ ~undone \/ rest.at \in FollowUp \ {"applyLogo"} => files.logo = era

LEMMA FilesInit == Init => FilesInv
  BY NoRestoreFields DEF Init, FilesInv, FollowUp

LEMMA FilesNext == RestoreInv /\ FilesInv /\ [Next]_vars => FilesInv'
<1> SUFFICES ASSUME RestoreInv, FilesInv, [Next]_vars PROVE FilesInv'
  OBVIOUS
<1>1. files \in [logo : 0..MaxRestores, key : 0..MaxRestores] /\ era \in 0..MaxRestores
  BY DEF RestoreInv, TypeOK
<1>2. ASSUME UNCHANGED <<files, era, undone>>,
             rest'.at \notin FollowUp \/ (rest'.at = rest.at)
      PROVE  FilesInv'
  BY <1>2 DEF FilesInv
<1>3. CASE Upload \/ Parse \/ Stage \/ DeleteDevices \/ DeleteCompanies \/ DeleteUsers
  BY <1>2, <1>3, EarlyAt DEF BeforeCommit, FollowUp
<1>4. CASE RestoreCommit
  BY <1>1, <1>4, CommitAt DEF RestoreCommit, FilesInv
<1>5. CASE ApplyLogo
  <2>1. /\ files' = [files EXCEPT !.logo = era]
        /\ UNCHANGED <<era, undone>> /\ rest.at \in FollowUp
    BY <1>5, FollowUpAt DEF ApplyLogo
  <2>2. files'.logo = era /\ files'.key = files.key
    BY <1>1, <2>1
  <2> QED BY <1>1, <2>1, <2>2 DEF FilesInv
<1>6. CASE ApplyKey
  <2>1. /\ files' = files \/ files' = [files EXCEPT !.key = era]
        /\ UNCHANGED <<era, undone>> /\ rest.at \in FollowUp \ {"applyLogo"}
    BY <1>6, FollowUpAt DEF ApplyKey, FollowUp
  <2>2. files'.logo = files.logo /\ files'.key \in {files.key, era}
    BY <1>1, <2>1
  <2> QED BY <1>1, <2>1, <2>2 DEF FilesInv
<1>7. CASE Bootstrap \/ ReadExpected \/ ReadRuntime \/ RemoveUnexpected \/ AddExpected
  <2>1. UNCHANGED <<files, era, undone>> /\ rest.at \in FollowUp \ {"applyLogo"}
    BY <1>7, FollowUpAt DEF Bootstrap, ReadExpected, ReadRuntime, RemoveUnexpected, AddExpected, hubVars, history,
       FollowUp
  <2> QED BY <2>1 DEF FilesInv
<1>8. CASE RestoreRefused \/ RestoreRolledBack \/ RestoreDone \/ FollowUpFails
  BY <1>8, EndAt DEF FilesInv, FollowUp
<1>9. CASE ExportDevices \/ ExportRest \/ HubStep \/ UNCHANGED vars
  <2>1. UNCHANGED <<files, era, undone, rest>>
    BY <1>9 DEF ExportDevices, ExportRest, HubStep, EnrollInsert, RevokeRemovePeer, DeleteRevoked, Work, EnrollCommit,
       EnrollAddPeer, EnrollCompensate, RevokeCommit, RevokeLost, LoginInsert, LoginCommit, history, vars
  <2> QED BY <1>2, <2>1
<1>10. CASE CrashAndStart
  BY <1>2, <1>10, NoRestoreFields DEF CrashAndStart, FollowUp
<1> QED BY <1>3, <1>4, <1>5, <1>6, <1>7, <1>8, <1>9, <1>10, NextCases DEF Restore

\* The archive's files are live only after its rows are committed, and are when
\* the restore ended well (apply_staged_restore_files, docs/security.md).
THEOREM FilesAreBehind == Spec => []FilesFollowRows
<1>1. FilesInv => FilesFollowRows
  BY DEF FilesInv, FilesFollowRows
<1> QED BY <1>1, RestoreInit, RestoreNext, FilesInit, FilesNext, PTL DEF Spec

(***************************************************************************)
(* Sessions.                                                               *)
(***************************************************************************)
\* Sessions are of this era all the time, because at the commit there are none.
SessionsInv ==
    \A s \in Sessions :
        /\ sess[s].is = "none" => sess[s] = NoSession
        /\ sess[s].is # "none" => sess[s].era = era
        /\ rest.at = "commit" => sess[s] = NoSession

LEMMA SessionsInit == Init => SessionsInv
  BY NoRestoreFields DEF Init, SessionsInv, NoSession

LEMMA SessionsNext == RestoreInv /\ SessionsInv /\ [Next]_vars => SessionsInv'
<1> SUFFICES ASSUME RestoreInv, SessionsInv, [Next]_vars PROVE SessionsInv'
  OBVIOUS
<1>1. sess \in [Sessions -> [is : {"none", "inserted", "active"}, era : 0..MaxRestores]]
  BY DEF RestoreInv, TypeOK
<1>2. NoSession.is = "none"
  BY DEF NoSession
<1>3. ASSUME UNCHANGED <<sess, era>>, rest'.at = "commit" => rest.at = "commit" PROVE SessionsInv'
  BY <1>3 DEF SessionsInv
<1>4. CASE Upload \/ Parse \/ Stage \/ DeleteCompanies
  <2>1. sess' = sess /\ ~DeleteUsers
    BY <1>4 DEF Upload, Parse, Stage, DeleteCompanies, DeleteUsers, hubVars
  <2> QED BY <1>3, <1>4, <2>1, EarlyAt
<1>5. CASE DeleteDevices
  <2>1. era' = era /\ rest'.at = "codes"
    BY <1>5, EarlyAt, StepAt DEF DeleteDevices
  <2>2. \A s \in Sessions : sess'[s] \in {sess[s], NoSession}
    BY <1>5 DEF DeleteDevices
  <2> QED BY <1>2, <2>1, <2>2 DEF SessionsInv
<1>6. CASE DeleteUsers
  BY <1>2, <1>6, EarlyAt DEF DeleteUsers, SessionsInv
<1>7. CASE RestoreCommit
  <2>1. sess' = sess /\ rest.at = "commit" /\ rest'.at # "commit"
    BY <1>7, CommitAt DEF RestoreCommit
  <2> QED BY <1>2, <2>1 DEF SessionsInv
<1>8. CASE ApplyLogo \/ ApplyKey \/ Bootstrap \/ ReadExpected \/ ReadRuntime \/ RemoveUnexpected \/ AddExpected
  BY <1>3, <1>8, FollowUpAt DEF FollowUp
<1>9. CASE RestoreRefused \/ RestoreRolledBack \/ RestoreDone \/ FollowUpFails
  BY <1>3, <1>9, EndAt
<1>10. ASSUME NEW s \in Sessions, LoginInsert(s) PROVE SessionsInv'
  <2>1. /\ rest' = rest /\ era' = era /\ rest.at # "commit"
        /\ sess' = [sess EXCEPT ![s] = [is |-> "inserted", era |-> era]]
    BY <1>10 DEF LoginInsert, HoldsUsers, history
  <2>2. /\ sess'[s].is = "inserted" /\ sess'[s].era = era
        /\ \A q \in Sessions \ {s} : sess'[q] = sess[q]
    BY <1>1, <2>1
  <2> QED BY <2>1, <2>2 DEF SessionsInv
<1>11. ASSUME NEW s \in Sessions, LoginCommit(s) PROVE SessionsInv'
  <2>1. /\ rest' = rest /\ era' = era /\ sess[s].is = "inserted"
        /\ sess' = [sess EXCEPT ![s].is = "active"]
    BY <1>11 DEF LoginCommit, history
  <2>2. /\ sess'[s].is = "active" /\ sess'[s].era = sess[s].era
        /\ \A q \in Sessions \ {s} : sess'[q] = sess[q]
    BY <1>1, <2>1
  <2> QED BY <1>2, <2>1, <2>2 DEF SessionsInv
<1>12. CASE \/ ExportDevices \/ ExportRest \/ UNCHANGED vars
            \/ \E k \in Keys : EnrollInsert(k) \/ RevokeRemovePeer(k) \/ DeleteRevoked(k) \/ Work(k)
  <2>1. UNCHANGED <<sess, era, rest>>
    BY <1>12 DEF ExportDevices, ExportRest, EnrollInsert, RevokeRemovePeer, DeleteRevoked, Work, EnrollCommit,
       EnrollAddPeer, EnrollCompensate, RevokeCommit, RevokeLost, history, vars
  <2> QED BY <1>3, <2>1
<1>13. CASE CrashAndStart
  <2>1. era' = era /\ rest'.at = "idle" /\ \A s \in Sessions : sess'[s] \in {sess[s], NoSession}
    BY <1>13, NoRestoreFields DEF CrashAndStart
  <2> QED BY <1>2, <2>1 DEF SessionsInv
<1> QED BY <1>4, <1>5, <1>6, <1>7, <1>8, <1>9, <1>10, <1>11, <1>12, <1>13, NextCases DEF Restore, HubStep

\* No session outlives a restore, also not one that a login was inserting while
\* the tables were being deleted (restore_backup_bundle, the foreign key of sessions).
THEOREM SessionsAreNew == Spec => []SessionsAreOfThisEra
<1>1. SessionsInv => SessionsAreOfThisEra
  BY DEF SessionsInv, SessionsAreOfThisEra
<1> QED BY <1>1, RestoreInit, RestoreNext, SessionsInit, SessionsNext, PTL DEF Spec

(***************************************************************************)
(* Peers.                                                                  *)
(***************************************************************************)
\* A key in the time between restores: its peer is there with the active row,
\* but for the moments in which an enrollment or a revocation has done one of
\* the two.
Settled(k) ==
    \/ enr[k] = "idle" /\ rev[k] = "idle" /\ (k \in peers <=> rows[k] = "active")
    \/ enr[k] = "inserted" /\ rev[k] = "idle" /\ k \notin peers /\ rows[k] = "none"
    \/ enr[k] = "adding" /\ rev[k] = "idle" /\ k \notin peers /\ rows[k] = "active"
    \/ enr[k] = "idle" /\ rev[k] = "removed" /\ k \notin peers /\ rows[k] = "active"

\* A key during the follow-up, which nothing else is about: what the step at
\* hand may rely on.
Following(k) ==
    /\ enr[k] = "idle" /\ rev[k] = "idle"
    /\ rest.at \in {"expect", "runtime", "remove", "add"} /\ rows[k] = "active" => k \in peers
    /\ rest.at \in {"runtime", "remove"} => (k \in rest.expected <=> rows[k] = "active")
    /\ rest.at = "remove" => /\ k \in rest.todo => rows[k] # "active"
                             /\ k \in peers /\ rows[k] # "active" => k \in rest.todo
    /\ rest.at = "add" => /\ k \in rest.todo => rows[k] = "active"
                          /\ k \in peers => rows[k] = "active"

PeersInv ==
    \A k \in Keys \ raced : /\ ~undone => Settled(k)
                            /\ rest.at \in FollowUp => Following(k)

LEMMA PeersInit == Init => PeersInv
<1> SUFFICES ASSUME Init, NEW k \in Keys PROVE Settled(k) /\ rest.at \notin FollowUp
  BY DEF PeersInv
<1> QED BY NoRestoreFields DEF Init, Settled, FollowUp

\* Before the commit, and when a restore was refused or rolled back.
LEMMA PeersEarly ==
    ASSUME RestoreInv, FilesInv, PeersInv,
           UNCHANGED <<rows, peers, enr, rev, undone, raced>>, rest'.at \notin FollowUp
    PROVE  PeersInv'
<1>1. \A k \in Keys : Settled(k) => Settled(k)'
  BY DEF Settled
<1> QED BY <1>1 DEF PeersInv

\* With the commit the follow-up begins for every key but those under way.
LEMMA PeersCommit == ASSUME RestoreInv, RestoreCommit PROVE PeersInv'
<1>1. undone' /\ rest'.at = "applyLogo" /\ raced' = InFlight /\ enr' = enr /\ rev' = rev
  BY CommitAt DEF RestoreCommit, hubVars
<1>2. ASSUME NEW k \in Keys \ raced' PROVE Following(k)'
  <2>1. enr[k] = "idle" /\ rev[k] = "idle"
    BY <1>1, <1>2 DEF InFlight
  <2> QED BY <1>1, <2>1 DEF Following
<1> QED BY <1>1, <1>2 DEF PeersInv

\* A step of the follow-up hands on to the next one what that one relies on.
LEMMA PeersFollowUp ==
    ASSUME RestoreInv, FilesInv, PeersInv,
           ApplyLogo \/ ApplyKey \/ Bootstrap \/ ReadExpected \/ ReadRuntime \/ RemoveUnexpected \/ AddExpected
    PROVE  PeersInv'
<1>1. /\ UNCHANGED <<rows, enr, rev, undone, raced>>
      /\ rest.at \in FollowUp /\ undone
  BY FollowUpAt DEF FilesInv
<1>2. rest \in Requests /\ peers \subseteq Keys /\ rest.todo \subseteq Keys /\ rest.expected \subseteq Keys
  BY DEF RestoreInv, TypeOK, Requests
<1>3. SUFFICES ASSUME NEW k \in Keys, Following(k) PROVE Following(k)'
  BY <1>1 DEF PeersInv
<1>4. k \in Active(rows) <=> rows[k] = "active"
  BY DEF Active
<1>5. CASE ApplyLogo \/ ApplyKey
  <2>1. PICK at \in {"applyKey", "bootstrap"} : Step(at)
    BY <1>5 DEF ApplyLogo, ApplyKey
  <2> QED BY <1>1, <1>3, <2>1, StepAt DEF Following
<1>6. CASE Bootstrap
  <2>1. rest'.at = "expect" /\ peers' = peers \cup Active(rows)
    BY <1>6, StepAt DEF Bootstrap
  <2> QED BY <1>1, <1>3, <1>4, <2>1 DEF Following
<1>7. CASE ReadExpected
  <2>1. rest'.at = "runtime" /\ rest'.expected = Active(rows) /\ peers' = peers /\ rest.at = "expect"
    BY <1>2, <1>7 DEF ReadExpected, Requests
  <2> QED BY <1>1, <1>3, <1>4, <2>1 DEF Following
<1>8. CASE ReadRuntime
  <2>1. /\ rest'.at = "remove" /\ rest'.expected = rest.expected /\ rest'.todo = peers \ rest.expected
        /\ peers' = peers /\ rest.at = "runtime"
    BY <1>2, <1>8 DEF ReadRuntime, Requests
  <2> QED BY <1>1, <1>3, <2>1 DEF Following
<1>9. CASE RemoveUnexpected /\ rest.todo = {}
  <2>1. /\ rest'.at = "add" /\ rest'.expected = rest.expected /\ rest'.todo = rest.expected
        /\ peers' = peers /\ rest.at = "remove"
    BY <1>2, <1>9 DEF RemoveUnexpected, Requests
  <2> QED BY <1>1, <1>3, <1>9, <2>1 DEF Following
<1>10. CASE RemoveUnexpected /\ rest.todo # {}
  <2>1. PICK q \in rest.todo : peers' = peers \ {q} /\ rest' = [rest EXCEPT !.todo = rest.todo \ {q}]
    BY <1>10 DEF RemoveUnexpected
  <2>2. /\ rest'.at = "remove" /\ rest.at = "remove" /\ rest'.expected = rest.expected
        /\ rest'.todo = rest.todo \ {q}
    BY <1>2, <1>10, <2>1 DEF RemoveUnexpected, Requests
  <2> QED BY <1>1, <1>3, <2>1, <2>2 DEF Following
<1>11. CASE AddExpected
  <2>1. PICK q \in rest.todo : peers' = peers \cup {q} /\ rest' = [rest EXCEPT !.todo = rest.todo \ {q}]
    BY <1>11 DEF AddExpected
  <2>2. /\ rest'.at = "add" /\ rest.at = "add" /\ rest'.expected = rest.expected
        /\ rest'.todo = rest.todo \ {q}
    BY <1>2, <1>11, <2>1 DEF AddExpected, Requests
  <2> QED BY <1>1, <1>3, <2>1, <2>2 DEF Following
<1> QED BY <1>5, <1>6, <1>7, <1>8, <1>9, <1>10, <1>11

\* A follow-up that ends well has settled every key it was alone with.
LEMMA PeersDone == ASSUME RestoreInv, FilesInv, PeersInv, RestoreDone PROVE PeersInv'
<1>1. /\ UNCHANGED <<rows, peers, enr, rev, raced>>
      /\ rest.at = "add" /\ rest.todo = {} /\ rest'.at = "idle"
  BY EndAt, NoRestoreFields DEF RestoreDone, EndRestore, hubVars
<1>2. ASSUME NEW k \in Keys \ raced PROVE Settled(k)'
  <2>1. Following(k)
    BY <1>1 DEF PeersInv, FollowUp
  <2> QED BY <1>1, <2>1 DEF Following, Settled
<1> QED BY <1>1, <1>2 DEF PeersInv, FollowUp

\* A key that a step does not touch.
LEMMA OtherKey ==
    ASSUME NEW k \in Keys, rest' = rest, enr'[k] = enr[k], rev'[k] = rev[k], rows'[k] = rows[k],
           k \in peers' <=> k \in peers
    PROVE  (Settled(k) => Settled(k)') /\ (Following(k) => Following(k)')
  BY DEF Settled, Following

\* Enrollments and revocations: between restores each moves its key from one
\* settled situation to another; during a follow-up its key is noted, or was.
LEMMA PeersHub ==
    ASSUME RestoreInv, FilesInv, PeersInv, NEW k \in Keys,
           EnrollInsert(k) \/ RevokeRemovePeer(k) \/ DeleteRevoked(k) \/ Work(k)
    PROVE  PeersInv'
<1>1. /\ rows \in [Keys -> {"none", "active", "revoked"}]
      /\ enr \in [Keys -> {"idle", "inserted", "adding"}] /\ rev \in [Keys -> {"idle", "removed"}]
  BY DEF RestoreInv, TypeOK
<1>2. /\ rest' = rest /\ undone' = undone
      /\ raced' = raced \/ (raced' = raced \cup {k})
  BY DEF EnrollInsert, RevokeRemovePeer, DeleteRevoked, Work, EnrollCommit, EnrollAddPeer, EnrollCompensate,
     RevokeCommit, RevokeLost, Note, history
<1>3. ASSUME NEW q \in Keys, q # k
      PROVE  enr'[q] = enr[q] /\ rev'[q] = rev[q] /\ rows'[q] = rows[q] /\ (q \in peers' <=> q \in peers)
  BY <1>1, <1>3 DEF EnrollInsert, RevokeRemovePeer, DeleteRevoked, Work, EnrollCommit, EnrollAddPeer,
     EnrollCompensate, RevokeCommit, RevokeLost
<1>4. ASSUME k \notin raced', ~undone, Settled(k) PROVE Settled(k)'
  <2>1. CASE EnrollInsert(k)
    BY <1>1, <1>4, <2>1 DEF EnrollInsert, Settled
  <2>2. CASE RevokeRemovePeer(k)
    BY <1>1, <1>4, <2>2 DEF RevokeRemovePeer, Settled
  <2>3. CASE DeleteRevoked(k)
    BY <1>1, <1>4, <2>3 DEF DeleteRevoked, Settled
  <2>4. CASE EnrollCommit(k)
    BY <1>1, <1>4, <2>4 DEF EnrollCommit, Settled
  <2>5. CASE EnrollAddPeer(k)
    BY <1>1, <1>4, <2>5 DEF EnrollAddPeer, Settled
  <2>6. CASE EnrollCompensate(k)
    <3>1. k \notin raced
      BY <1>2, <1>4
    <3>2. rows' = [rows EXCEPT ![k] = "none"]
      BY <2>6, <3>1 DEF EnrollCompensate
    <3> QED BY <1>1, <1>4, <2>6, <3>2 DEF EnrollCompensate, Settled
  <2>7. CASE RevokeCommit(k)
    BY <1>1, <1>4, <2>7 DEF RevokeCommit, Settled
  <2>8. CASE RevokeLost(k)
    BY <1>2, <1>4, <2>8 DEF RevokeLost
  <2> QED BY <2>1, <2>2, <2>3, <2>4, <2>5, <2>6, <2>7, <2>8 DEF Work
<1>5. ASSUME k \notin raced', rest.at \in FollowUp, Following(k) PROVE Following(k)'
  <2>1. ~EnrollInsert(k) /\ ~RevokeRemovePeer(k)
    BY <1>5 DEF EnrollInsert, RevokeRemovePeer, Note
  <2>2. ~Work(k)
    BY <1>5 DEF Following, Work, EnrollCommit, EnrollAddPeer, EnrollCompensate, RevokeCommit, RevokeLost
  <2>3. DeleteRevoked(k)
    BY <2>1, <2>2
  <2>4. UNCHANGED <<peers, enr, rev>> /\ rows[k] = "revoked" /\ rows'[k] = "none"
    BY <1>1, <2>3 DEF DeleteRevoked
  <2> QED BY <1>2, <1>5, <2>4 DEF Following
<1>6. ASSUME NEW q \in Keys \ raced'
      PROVE  (~undone' => Settled(q)') /\ (rest'.at \in FollowUp => Following(q)')
  <2>1. q \notin raced
    BY <1>2, <1>6
  <2>2. (~undone => Settled(q)) /\ (rest.at \in FollowUp => Following(q))
    BY <2>1 DEF PeersInv
  <2>3. CASE q = k
    BY <1>2, <1>4, <1>5, <1>6, <2>2, <2>3
  <2>4. CASE q # k
    BY <1>2, <1>3, <2>2, <2>4, OtherKey
  <2> QED BY <2>3, <2>4
<1> QED BY <1>6 DEF PeersInv

\* The start of the Hub adds the peers of the active rows, which ends whatever
\* enrollment or revocation had done only half of its work.
LEMMA PeersCrash == ASSUME RestoreInv, PeersInv, CrashAndStart PROVE PeersInv'
<1>1. /\ rest'.at = "idle" /\ undone' = undone /\ rows' = rows
      /\ peers' = peers \cup Active(rows) /\ raced \subseteq raced'
      /\ \A k \in Keys : enr'[k] = "idle" /\ rev'[k] = "idle"
  BY NoRestoreFields DEF CrashAndStart
<1>2. ASSUME NEW k \in Keys, Settled(k) PROVE Settled(k)'
  BY <1>1, <1>2 DEF Settled, Active
<1> QED BY <1>1, <1>2 DEF PeersInv, FollowUp

LEMMA PeersNext == RestoreInv /\ FilesInv /\ PeersInv /\ [Next]_vars => PeersInv'
<1> SUFFICES ASSUME RestoreInv, FilesInv, PeersInv, [Next]_vars PROVE PeersInv'
  OBVIOUS
<1>1. CASE Upload \/ Parse \/ Stage \/ DeleteDevices \/ DeleteCompanies \/ DeleteUsers
  BY <1>1, EarlyAt, PeersEarly DEF BeforeCommit, FollowUp
<1>2. CASE (RestoreRefused \/ RestoreRolledBack \/ FollowUpFails) /\ ~RestoreDone
  BY <1>2, EndAt, PeersEarly DEF FollowUp
<1>3. ASSUME UNCHANGED <<rows, peers, enr, rev, undone, raced, rest>> PROVE PeersInv'
  <2>1. \A k \in Keys : (Settled(k) => Settled(k)') /\ (Following(k) => Following(k)')
    BY <1>3, OtherKey
  <2> QED BY <1>3, <2>1 DEF PeersInv
<1>4. CASE \/ ExportDevices \/ ExportRest \/ UNCHANGED vars
           \/ \E s \in Sessions : LoginInsert(s) \/ LoginCommit(s)
  BY <1>3, <1>4 DEF ExportDevices, ExportRest, LoginInsert, LoginCommit, history, vars
<1> QED BY <1>1, <1>2, <1>4, PeersCommit, PeersFollowUp, PeersDone, PeersHub, PeersCrash, NextCases
        DEF Restore, HubStep

\* After a follow-up that ended well, and until the next restore, the interface has
\* exactly the peers of the active rows, but for keys that were being enrolled or
\* revoked during the follow-up (reconcile_wireguard_after_restore).
THEOREM PeersAreOfRows == Spec => []PeersFollowRows
<1>1. PeersInv => PeersFollowRows
  BY DEF PeersInv, PeersFollowRows, Settled, InFlight
<1> QED BY <1>1, RestoreInit, RestoreNext, FilesInit, FilesNext, PeersInit, PeersNext, PTL DEF Spec

(***************************************************************************)
(* Finite sets of times.                                                   *)
(***************************************************************************)
\* A finite set of times that is not empty has a latest and an earliest one.
LEMMA LatestExists ==
    ASSUME NEW S \in SUBSET Int, IsFiniteSet(S), S # {}
    PROVE  /\ \E t \in S : \A u \in S : u <= t
           /\ \E t \in S : \A u \in S : t <= u
<1> DEFINE Above(t) == {u \in S : u > t}
           Below(t) == {u \in S : u < t}
           Aboves == {Above(t) : t \in S}
           Belows == {Below(t) : t \in S}
           R == StrictSubsetOrdering(S)
<1>1. IsWellFoundedOn(R, FiniteSubsetsOf(S))
  BY FS_StrictSubsetOrderingWellFounded
<1>2. IsWellFoundedOn(R, SUBSET S) /\ S \subseteq Int
  BY <1>1, FS_FiniteSubsetsOfFinite
<1>3. Aboves \subseteq SUBSET S /\ Aboves # {} /\ Belows \subseteq SUBSET S /\ Belows # {}
  OBVIOUS
<1>4. \A X, Y \in SUBSET S : X # Y /\ X \subseteq Y => <<X, Y>> \in R
  BY DEF StrictSubsetOrdering
<1> HIDE DEF R, Aboves, Belows
<1>5. PICK top \in Aboves : \A B \in Aboves : <<B, top>> \notin R
  BY Zenon, <1>2, <1>3, WFMin
<1>6. PICK low \in Belows : \A B \in Belows : <<B, low>> \notin R
  BY Zenon, <1>2, <1>3, WFMin
<1>7. \E t \in S : \A u \in S : u <= t
  <2>1. PICK t \in S : Above(t) \in Aboves /\ \A B \in Aboves : <<B, Above(t)>> \notin R
    BY <1>5 DEF Aboves
  <2>2. ASSUME NEW u \in S, u > t PROVE Above(u) \subseteq Above(t) /\ Above(u) # Above(t)
    <3>1. \A v \in S : v \in Int
      BY <1>2
    <3>2. u \in Above(t) /\ u \notin Above(u)
      BY <2>2, <3>1
    <3>3. \A v \in Above(u) : v \in Above(t)
      BY <2>2, <3>1
    <3> QED BY <3>2, <3>3
  <2>3. \A u \in S : Above(u) \in Aboves /\ Above(u) \in SUBSET S
    BY DEF Aboves
  <2>4. \A u \in S : ~(u > t)
    BY <1>4, <2>1, <2>2, <2>3
  <2> QED BY <2>4
<1>8. \E t \in S : \A u \in S : t <= u
  <2>1. PICK t \in S : Below(t) \in Belows /\ \A B \in Belows : <<B, Below(t)>> \notin R
    BY <1>6 DEF Belows
  <2>2. ASSUME NEW u \in S, u < t PROVE Below(u) \subseteq Below(t) /\ Below(u) # Below(t)
    <3>1. \A v \in S : v \in Int
      BY <1>2
    <3>2. u \in Below(t) /\ u \notin Below(u)
      BY <2>2, <3>1
    <3>3. \A v \in Below(u) : v \in Below(t)
      BY <2>2, <3>1
    <3> QED BY <3>2, <3>3
  <2>3. \A u \in S : Below(u) \in Belows /\ Below(u) \in SUBSET S
    BY DEF Belows
  <2>4. \A u \in S : ~(u < t)
    BY <1>4, <2>1, <2>2, <2>3
  <2> QED BY <2>4
<1> QED BY <1>7, <1>8

\* Newest(S, n) holds at most n times, and they are later than all the others.
LEMMA NewestBounded ==
    ASSUME NEW S \in SUBSET Int, IsFiniteSet(S), NEW n \in Nat
    PROVE  /\ IsFiniteSet(Newest(S, n)) /\ Cardinality(Newest(S, n)) <= n
           /\ \A b \in S \ Newest(S, n), c \in Newest(S, n) : b < c
<1> DEFINE N == Newest(S, n)
           Above(t) == {u \in S : u > t}
<1>1. /\ N \subseteq S /\ \A t \in S : t \in Int
      /\ \A t \in S : t \in N <=> Cardinality(Above(t)) < n
  BY DEF Newest
<1> HIDE DEF N
<1>2. \A t \in S : IsFiniteSet(Above(t)) /\ Cardinality(Above(t)) \in Nat
  BY FS_Subset, FS_CardinalityType
<1>3. IsFiniteSet(N) /\ Cardinality(N) \in Nat
  BY <1>1, FS_Subset, FS_CardinalityType
<1>4. Cardinality(N) <= n
  <2>1. CASE N = {}
    <3>1. Cardinality(N) = 0
      BY <2>1, FS_EmptySet
    <3> QED BY <3>1
  <2>2. CASE N # {}
    <3>1. PICK t \in N : \A u \in N : t <= u
      BY <1>1, <1>3, <2>2, LatestExists
    <3>2. \A u \in N \ {t} : u \in Above(t)
      BY <1>1, <3>1
    <3>3. Cardinality(N \ {t}) = Cardinality(N) - 1
      BY <1>3, <3>1, FS_RemoveElement
    <3>4. Cardinality(N \ {t}) <= Cardinality(Above(t))
      BY <1>1, <1>2, <3>1, <3>2, FS_Subset
    <3>5. Cardinality(Above(t)) < n
      BY <1>1, <3>1
    <3>6. t \in S
      BY <1>1, <3>1
    <3> HIDE DEF N, Above
    <3> QED BY <1>2, <1>3, <3>3, <3>4, <3>5, <3>6
  <2> QED BY <2>1, <2>2
<1>5. ASSUME NEW b \in S \ N, NEW c \in N, ~(b < c) PROVE FALSE
  <2>1. \A u \in Above(b) : u \in Above(c)
    BY <1>1, <1>5
  <2>2. Cardinality(Above(b)) <= Cardinality(Above(c))
    BY <1>1, <1>2, <2>1, FS_Subset
  <2>3. ~(Cardinality(Above(b)) < n) /\ Cardinality(Above(c)) < n
    BY <1>1
  <2> QED BY <1>1, <1>2, <2>2, <2>3
<1> QED BY <1>3, <1>4, <1>5 DEF N

(***************************************************************************)
(* Type correctness.                                                       *)
(***************************************************************************)
ProcStates == [at : {"idle", "beat", "asked", "writeKey", "upload", "sent"}, fresh : BOOLEAN]
HubStates == [at : {"idle", "beat", "wanted", "unwanted", "body", "received", "flushed"},
              mine : Copies, keep : Retentions \cup {0}, fresh : BOOLEAN, t : Nat, set : BOOLEAN,
              stale : SUBSET Nat]
AdminStates == [at : {"idle", "now", "settings", "form"}, mine : Copies, keep : Retentions \cup {0},
                t : Nat, set : BOOLEAN]

\* The type invariant and what it rests on: the handlers' records are records,
\* the backups are finitely many, an upload has its time of receipt, and a
\* heartbeat or "back up now" that writes the request column has a time for it.
Shape ==
    /\ events \in 0..MaxEvents
    /\ row \in Rows
    /\ lock \in Procs \cup {Nobody}
    /\ stored \subseteq Nat \ {0} /\ IsFiniteSet(stored)
    /\ key \in {"none", "torn", "whole"}
    /\ proc \in [Procs -> ProcStates]
    /\ hub \in [Procs -> HubStates]
    /\ \A p \in Procs :
          /\ hub[p].at = "flushed" <=> lock = p
          /\ hub[p].at \in {"received", "flushed"} => hub[p].t # 0
          /\ hub[p].at \in {"wanted", "unwanted"} /\ hub[p].set => hub[p].t # 0
    /\ adm \in AdminStates /\ (adm.at = "now" => adm.set)
    /\ owed \in BOOLEAN /\ crossed \in BOOLEAN /\ served \in BOOLEAN /\ backdated \in BOOLEAN

\* The shape is more than the types.
LEMMA ShapeTypes == Shape => BackupTypeOK
  BY DEF Shape, BackupTypeOK, ProcStates, HubStates, AdminStates

\* Images of a finite set are finite.
LEMMA ImageFinite ==
    ASSUME NEW S, IsFiniteSet(S), NEW f, f \in [S -> Nat]
    PROVE  IsFiniteSet({f[s] : s \in S})
<1> DEFINE T == {f[s] : s \in S}
<1>1. f \in Surjection(S, T)
  BY DEF Surjection
<1> QED BY <1>1, FS_Surjection

\* So is a set of three.
LEMMA ThreeFinite == ASSUME NEW a, NEW b, NEW c PROVE IsFiniteSet({a, b, c})
<1>1. IsFiniteSet({a} \cup {b})
  BY FS_Singleton, FS_AddElement
<1>2. IsFiniteSet(({a} \cup {b}) \cup {c})
  BY <1>1, FS_AddElement
<1>3. {a, b, c} = ({a} \cup {b}) \cup {c}
  OBVIOUS
<1> QED BY <1>2, <1>3

\* A new time is later than every time held somewhere.
LEMMA NowIsLater ==
    ASSUME Shape
    PROVE  Now \in Nat \ {0} /\ \A u \in Stamps : u < Now
<1> DEFINE A == {hub[p].t : p \in Procs}
           D == {row.req, row.up, adm.t}
<1> USE DEF Shape, HubStates, AdminStates, Rows
<1>1. IsFiniteSet(A) /\ A \subseteq Nat
  <2> DEFINE f == [p \in Procs |-> hub[p].t]
  <2>1. f \in [Procs -> Nat]
    OBVIOUS
  <2>2. A = {f[p] : p \in Procs} /\ A \subseteq Nat
    OBVIOUS
  <2>3. IsFiniteSet(Procs)
    BY BackupAssumption
  <2> HIDE DEF f, A, Shape
  <2> QED BY <2>1, <2>2, <2>3, ImageFinite
<1>2. IsFiniteSet(D) /\ D \subseteq Nat
  BY ThreeFinite
<1>3. Stamps = (stored \cup D) \cup A
  BY DEF Stamps
<1> HIDE DEF A
<1>4. Stamps \subseteq Nat /\ Stamps # {}
  BY <1>1, <1>2, <1>3
<1> HIDE DEF D
<1>5. IsFiniteSet(Stamps)
  BY <1>1, <1>2, <1>3, FS_Union
<1>6. \E t \in Stamps : \A u \in Stamps : u <= t
  BY <1>4, <1>5, LatestExists
<1>7. PICK t \in Stamps : Now = 1 + t /\ \A u \in Stamps : u <= t
  BY Zenon, <1>6 DEF Now
<1> HIDE DEF Shape, HubStates, AdminStates, Rows
<1> QED BY <1>4, <1>7

\* The records without a process or request.
LEMMA NothingTypes ==
    NoRow \in Rows /\ NoHub \in HubStates /\ NoProc \in ProcStates /\ NoAdmin \in AdminStates
<1>1. NoCopy \in Copies
  BY DEF NoCopy, Copies
<1>2. NoRow \in Rows /\ NoProc \in ProcStates
  BY DEF NoRow, NoProc, Rows, ProcStates
<1>3. NoHub \in HubStates
  BY <1>1 DEF NoHub, HubStates
<1>4. NoAdmin \in AdminStates
  BY <1>1 DEF NoAdmin, AdminStates
<1> QED BY <1>2, <1>3, <1>4

\* A handler's copy of the row.
LEMMA CopyFields ==
    ASSUME row \in Rows
    PROVE  Copy(row) \in Copies /\ \A on \in BOOLEAN : [Copy(row) EXCEPT !.on = on] \in Copies
  BY DEF Copy, Copies, Rows, Pending

\* A process that goes on has no configuration read.
LEMMA GoToFields ==
    ASSUME proc \in [Procs -> ProcStates], NEW p \in Procs,
           NEW at \in {"idle", "beat", "asked", "writeKey", "upload", "sent"}, GoTo(p, at)
    PROVE  /\ proc' \in [Procs -> ProcStates]
           /\ proc'[p].at = at
           /\ \A q \in Procs \ {p} : proc'[q] = proc[q]
<1> DEFINE new == [NoProc EXCEPT !.at = at]
<1>1. new \in ProcStates /\ new.at = at
  BY NothingTypes DEF ProcStates
<1> HIDE DEF new
<1> QED BY <1>1 DEF GoTo, new

\* A handler that is through leaves no trace of itself but what it stored.
LEMMA ReplyFields ==
    ASSUME Shape, NEW p \in Procs, Reply(p)
    PROVE  /\ hub' = [hub EXCEPT ![p] = NoHub]
           /\ hub' \in [Procs -> HubStates]
           /\ proc' \in [Procs -> ProcStates]
           /\ proc'[p].at = "upload" => proc'[p] = proc[p]
           /\ \A q \in Procs \ {p} : proc'[q] = proc[q]
<1>1. CASE proc[p].at \in {"beat", "sent"}
  BY <1>1, NothingTypes, GoToFields DEF Reply, Shape, ProcStates
<1>2. CASE proc[p].at \notin {"beat", "sent"}
  BY <1>2, NothingTypes DEF Reply, Shape, ProcStates
<1> QED BY <1>1, <1>2

\* Requests, deletions and faults stay within their bound.
LEMMA BoundsKept ==
    ASSUME Shape, Bounded \/ UNCHANGED events
    PROVE  events' \in 0..MaxEvents
  BY BackupAssumption DEF Shape, Bounded

\* A request column written to the row leaves it a row.
LEMMA WriteFields ==
    ASSUME row \in Rows, NEW mine, mine.set \in BOOLEAN, mine.t \in Nat
    PROVE  /\ Write(mine) \in Rows
           /\ Write(mine).up = row.up
           /\ Write(mine).req = IF mine.set THEN mine.t ELSE row.req
  BY DEF Write, Rows

\* The handler of a heartbeat that has read the row.
LEMMA BeatFields ==
    ASSUME NEW mine \in Copies, NEW h, h = [NoHub EXCEPT !.at = "beat", !.mine = mine]
    PROVE  h \in HubStates /\ h.at = "beat"
  BY NothingTypes DEF HubStates

\* A heartbeat marks its copy, and nothing else.
LEMMA MarkFields ==
    ASSUME Shape, NEW p \in Procs, HeartbeatMark(p)
    PROVE  /\ hub[p].at = "beat"
           /\ UNCHANGED <<row, lock, stored, firewall, adm, remembered>>
           /\ hub' \in [Procs -> HubStates]
           /\ \A q \in Procs \ {p} : hub'[q] = hub[q]
           /\ hub'[p].at \in {"wanted", "unwanted"}
           /\ hub'[p].set => hub'[p].t # 0
<1>1. PICK wanted \in BOOLEAN, time \in Nat : Marked(p, wanted, time)
  <2>1. CASE NotDue(hub[p].mine) /\ Marked(p, hub[p].mine.pending, 0)
    BY <2>1 DEF Shape, HubStates, Copies
  <2>2. CASE Due(hub[p].mine) /\ Marked(p, TRUE, Now)
    BY <2>2, NowIsLater
  <2> QED BY <2>1, <2>2 DEF HeartbeatMark
<1>2. PICK at \in {"wanted", "unwanted"}, set \in BOOLEAN :
          /\ set = (time # 0)
          /\ hub' = [hub EXCEPT ![p] = [NoHub EXCEPT !.at = at, !.t = time, !.set = set]]
  BY <1>1 DEF Marked
<1> DEFINE new == [NoHub EXCEPT !.at = at, !.t = time, !.set = set]
<1>3. new \in HubStates /\ new.at = at /\ new.t = time /\ new.set = set
  BY NothingTypes DEF HubStates
<1>4. hub' = [hub EXCEPT ![p] = new]
  BY <1>2
<1> HIDE DEF new
<1>5. hub[p].at = "beat" /\ UNCHANGED <<row, lock, stored, firewall, adm, remembered>>
  BY DEF HeartbeatMark
<1> QED BY <1>2, <1>3, <1>4, <1>5 DEF Shape

\* A form is filled in with the administrator's values.
LEMMA FormFields ==
    ASSUME Shape, SettingsMark
    PROVE  adm' \in AdminStates /\ adm'.at = "form"
<1>1. PICK time \in Nat, set \in BOOLEAN : Filled(time, set)
  <2>1. CASE adm.mine.on /\ NotDue(adm.mine) /\ Filled(0, FALSE)
    BY <2>1
  <2>2. CASE Due(adm.mine) /\ Filled(Now, TRUE)
    BY <2>2, NowIsLater
  <2>3. CASE ~adm.mine.on /\ Filled(0, adm.mine.asked)
    BY <2>3 DEF Shape, AdminStates, Copies
  <2> QED BY <2>1, <2>2, <2>3 DEF SettingsMark
<1>2. adm.mine.on \in BOOLEAN /\ adm.keep \in Retentions \cup {0}
  BY DEF Shape, AdminStates, Copies
<1>3. [NoAdmin.mine EXCEPT !.on = adm.mine.on] \in Copies
  BY <1>2, NothingTypes DEF AdminStates, Copies
<1>4. adm' = [NoAdmin EXCEPT !.at = "form", !.t = time, !.set = set,
                             !.mine.on = adm.mine.on, !.keep = adm.keep]
  BY <1>1 DEF Filled
<1> QED BY <1>2, <1>3, <1>4, NothingTypes DEF AdminStates

\* The firewall's steps.
LEMMA FirewallShape ==
    ASSUME Shape, NEW p \in Procs,
           \/ Heartbeat(p) \/ Encrypt(p) \/ KeyRefused(p) \/ CreateKey(p)
           \/ WriteKey(p) \/ KeyFails(p) \/ ProcessFails(p) \/ UploadBackup(p)
    PROVE  Shape'
<1>1. CASE Heartbeat(p)
  <2> DEFINE new == [NoHub EXCEPT !.at = "beat", !.mine = Copy(row)]
  <2>1. Copy(row) \in Copies
    BY CopyFields DEF Shape
  <2>2. new \in HubStates /\ new.at = "beat"
    BY <2>1, BeatFields
  <2>3. GoTo(p, "beat") /\ hub' = [hub EXCEPT ![p] = new] /\ hub[p].at = "idle"
    BY <1>1 DEF Heartbeat
  <2> HIDE DEF new
  <2> QED BY <1>1, <2>2, <2>3, GoToFields DEF Heartbeat, Shape, remembered
<1>2. CASE Encrypt(p) \/ WriteKey(p)
  <2>1. [at |-> "upload", fresh |-> TRUE] \in ProcStates
    BY DEF ProcStates
  <2>2. proc' \in [Procs -> ProcStates]
    BY <1>2, <2>1 DEF Encrypt, WriteKey, Captured, Shape
  <2>3. key' \in {"none", "torn", "whole"}
    BY <1>2 DEF Encrypt, WriteKey, Shape
  <2>4. UNCHANGED <<events, row, lock, stored, hub, adm, owed, crossed, served, backdated>>
    BY <1>2 DEF Encrypt, WriteKey, remembered
  <2> QED BY <2>2, <2>3, <2>4 DEF Shape
<1>3. CASE KeyRefused(p) \/ CreateKey(p)
  <2>1. /\ GoTo(p, "idle") \/ GoTo(p, "writeKey")
        /\ key' \in {"none", "torn", "whole"}
        /\ UNCHANGED <<events, row, lock, stored, hub, adm, remembered>>
    BY <1>3 DEF KeyRefused, CreateKey, Shape
  <2>2. proc' \in [Procs -> ProcStates]
    BY <2>1, GoToFields DEF Shape
  <2> QED BY <2>1, <2>2 DEF Shape, remembered
<1>4. CASE KeyFails(p) \/ ProcessFails(p)
  BY <1>4, GoToFields, BoundsKept DEF KeyFails, ProcessFails, Shape, remembered
<1>5. CASE UploadBackup(p)
  <2> DEFINE new == [NoHub EXCEPT !.at = "body", !.keep = row.keep, !.fresh = proc[p].fresh]
  <2>1. CASE GoTo(p, "sent") /\ hub' = [hub EXCEPT ![p] = new]
    <3>2. row.keep \in Retentions \cup {0} /\ proc[p].fresh \in BOOLEAN
      BY DEF Shape, ProcStates, Rows
    <3>1. new \in HubStates /\ new.at = "body"
      BY <3>2, NothingTypes DEF HubStates
    <3> HIDE DEF new
    <3> QED BY <1>5, <2>1, <3>1, GoToFields DEF UploadBackup, Shape, remembered
  <2>2. CASE GoTo(p, "idle") /\ UNCHANGED hub
    BY <1>5, <2>2, GoToFields DEF UploadBackup, Shape, remembered
  <2> QED BY <1>5, <2>1, <2>2 DEF UploadBackup
<1> QED BY <1>1, <1>2, <1>3, <1>4, <1>5

\* The Hub's handlers' steps.
LEMMA HubShape ==
    ASSUME Shape, NEW p \in Procs,
           \/ HeartbeatMark(p) \/ HeartbeatCommit(p) \/ BodyRead(p) \/ Flush(p) \/ Store(p)
           \/ HandlerFails(p) \/ RowGone(p)
    PROVE  Shape'
<1>1. CASE HeartbeatCommit(p)
  <2>1. /\ hub' = [hub EXCEPT ![p] = NoHub] /\ hub[p].at \in {"wanted", "unwanted"}
        /\ row' = Write(hub[p])
        /\ UNCHANGED <<events, lock, stored, key, adm, owed, crossed, served>>
    BY <1>1 DEF HeartbeatCommit
  <2>2. hub[p].set \in BOOLEAN /\ hub[p].t \in Nat
    BY DEF Shape, HubStates
  <2>4. row' \in Rows
    BY <2>1, <2>2, WriteFields DEF Shape
  <2>5. backdated' \in BOOLEAN
    BY <1>1 DEF HeartbeatCommit
  <2>6. proc' \in [Procs -> ProcStates]
    BY <1>1, GoToFields DEF HeartbeatCommit, Shape
  <2>7. NoHub \in HubStates /\ NoHub.at = "idle"
    BY NothingTypes DEF NoHub
  <2> QED BY <2>1, <2>4, <2>5, <2>6, <2>7 DEF Shape
<1>2. CASE BodyRead(p)
  <2> DEFINE new == [hub[p] EXCEPT !.at = "received", !.t = Now]
  <2>3. Now \in Nat \ {0} /\ hub[p] \in HubStates
    BY NowIsLater DEF Shape
  <2>1. new \in HubStates /\ new.at = "received" /\ new.t # 0
    BY <2>3 DEF HubStates
  <2>2. hub' = [hub EXCEPT ![p] = new] /\ hub[p].at = "body"
    BY <1>2 DEF BodyRead, Shape
  <2> HIDE DEF new
  <2>4. UNCHANGED <<events, row, lock, stored, key, proc, adm, owed, crossed, served, backdated>>
    BY <1>2 DEF BodyRead, firewall, remembered
  <2>5. hub' \in [Procs -> HubStates]
    BY <2>1, <2>2 DEF Shape
  <2>6. \A q \in Procs : hub'[q] = IF q = p THEN new ELSE hub[q]
    BY <2>2 DEF Shape
  <2> QED BY <2>1, <2>2, <2>4, <2>5, <2>6 DEF Shape
<1>3. CASE Flush(p)
  <2> DEFINE all == stored \cup {hub[p].t}
             stale == all \ Newest(all, hub[p].keep)
             new == [hub[p] EXCEPT !.at = "flushed", !.stale = stale]
  <2>1. stale \in SUBSET Nat
    BY DEF Shape, HubStates
  <2> HIDE DEF stale
  <2>7. hub[p] \in HubStates
    BY DEF Shape
  <2>2. new \in HubStates /\ new.at = "flushed" /\ new.t = hub[p].t
    BY <2>1, <2>7 DEF HubStates
  <2>3. hub' = [hub EXCEPT ![p] = new] /\ hub[p].at = "received" /\ lock = Nobody /\ lock' = p
    BY <1>3 DEF Flush, Shape, RowFree, stale
  <2> HIDE DEF new
  <2>4. UNCHANGED <<events, row, stored, firewall, adm, remembered>>
    BY <1>3 DEF Flush
  <2>5. hub' \in [Procs -> HubStates]
    BY <2>2, <2>3 DEF Shape
  <2>6. \A q \in Procs : (hub'[q].at = "flushed" <=> lock' = q)
                         /\ (hub'[q].at \in {"received", "flushed"} => hub'[q].t # 0)
                         /\ (hub'[q].at \in {"wanted", "unwanted"} /\ hub'[q].set => hub'[q].t # 0)
    BY <2>2, <2>3, BackupAssumption DEF Shape
  <2> QED BY <2>3, <2>4, <2>5, <2>6 DEF Shape, firewall, remembered
<1>4. CASE Store(p)
  <2>1. /\ hub[p].at = "flushed" /\ Reply(p) /\ lock' = Nobody
        /\ stored' = (stored \cup {hub[p].t}) \ hub[p].stale
        /\ row' = [row EXCEPT !.up = hub[p].t, !.req = 0]
        /\ served' = (served \/ hub[p].fresh)
        /\ UNCHANGED <<events, key, adm, owed, crossed, backdated>>
    BY <1>4 DEF Store
  <2>2. row' \in Rows
    BY <2>1 DEF Shape, HubStates, Rows
  <2>3. IsFiniteSet(stored \cup {hub[p].t})
    BY FS_AddElement DEF Shape
  <2>4. IsFiniteSet(stored')
    BY <2>1, <2>3, FS_Subset
  <2>5. stored' \subseteq Nat \ {0}
    BY <2>1 DEF Shape, HubStates
  <2>6. served' \in BOOLEAN
    BY <2>1
  <2>7. NoHub.at = "idle"
    BY DEF NoHub
  <2>8. \A q \in Procs : (hub'[q].at = "flushed" <=> lock' = q)
                         /\ (hub'[q].at \in {"received", "flushed"} => hub'[q].t # 0)
                         /\ (hub'[q].at \in {"wanted", "unwanted"} /\ hub'[q].set => hub'[q].t # 0)
    BY <2>1, <2>7, ReplyFields, BackupAssumption DEF Shape
  <2> QED BY <2>1, <2>2, <2>4, <2>5, <2>6, <2>8, ReplyFields DEF Shape
<1>5. CASE HandlerFails(p) \/ RowGone(p)
  <2>1. /\ Reply(p) /\ lock' = IF lock = p THEN Nobody ELSE lock
        /\ UNCHANGED <<row, stored, key, adm, remembered>>
    BY <1>5 DEF HandlerFails, RowGone, Shape
  <2>2. events' \in 0..MaxEvents
    BY <1>5, BoundsKept DEF HandlerFails, RowGone
  <2>3. NoHub.at = "idle"
    BY DEF NoHub
  <2> QED BY <2>1, <2>2, <2>3, ReplyFields, BackupAssumption DEF Shape, remembered
<1>6. CASE HeartbeatMark(p)
  <2>1. events' \in 0..MaxEvents
    BY <1>6, BoundsKept DEF HeartbeatMark, NotDue, Due
  <2>2. hub[p].at = "beat" /\ UNCHANGED <<row, lock, stored, firewall, adm, remembered>>
    BY <1>6, MarkFields
  <2>3. /\ hub' \in [Procs -> HubStates]
        /\ \A q \in Procs \ {p} : hub'[q] = hub[q]
        /\ hub'[p].at \in {"wanted", "unwanted"}
        /\ hub'[p].set => hub'[p].t # 0
    BY <1>6, MarkFields
  <2> QED BY <2>1, <2>2, <2>3 DEF Shape, firewall, remembered
<1> QED BY <1>1, <1>2, <1>3, <1>4, <1>5, <1>6

\* The administrator's steps.
LEMMA AdminShape ==
    ASSUME Shape,
           \/ BackupNow \/ BackupNowCommit
           \/ \E on \in BOOLEAN, keep \in Retentions : Settings(on, keep)
           \/ SettingsMark \/ SettingsCommit \/ DeleteBackup \/ DeleteDevice \/ AdminFails
    PROVE  Shape'
<1>1. CASE BackupNow
  <2>1. adm' \in AdminStates /\ adm'.set
    BY <1>1, NothingTypes, NowIsLater DEF BackupNow, AdminStates
  <2>2. \A p \in Procs : /\ [proc[p] EXCEPT !.fresh = FALSE] \in ProcStates
                         /\ [hub[p] EXCEPT !.fresh = FALSE] \in HubStates
                         /\ [hub[p] EXCEPT !.fresh = FALSE].at = hub[p].at
                         /\ [hub[p] EXCEPT !.fresh = FALSE].t = hub[p].t
                         /\ [hub[p] EXCEPT !.fresh = FALSE].set = hub[p].set
    <3>1. ASSUME NEW q \in ProcStates PROVE [q EXCEPT !.fresh = FALSE] \in ProcStates
      BY DEF ProcStates
    <3>2. ASSUME NEW h \in HubStates
          PROVE  /\ [h EXCEPT !.fresh = FALSE] \in HubStates
                 /\ [h EXCEPT !.fresh = FALSE].at = h.at
                 /\ [h EXCEPT !.fresh = FALSE].t = h.t
                 /\ [h EXCEPT !.fresh = FALSE].set = h.set
      BY DEF HubStates
    <3> QED BY <3>1, <3>2 DEF Shape
  <2>3. owed' \in BOOLEAN /\ crossed' \in BOOLEAN /\ served' \in BOOLEAN
    BY <1>1 DEF BackupNow, UnderWay
  <2>4. /\ hub' = [p \in Procs |-> [hub[p] EXCEPT !.fresh = FALSE]]
        /\ proc' = [p \in Procs |-> [proc[p] EXCEPT !.fresh = FALSE]]
        /\ UNCHANGED <<row, lock, stored, key, backdated>>
    BY <1>1 DEF BackupNow
  <2>5. events' \in 0..MaxEvents
    BY <1>1, BoundsKept DEF BackupNow
  <2> QED BY <2>1, <2>2, <2>3, <2>4, <2>5 DEF Shape
<1>2. CASE BackupNowCommit
  <2>1. row' \in Rows
    BY <1>2, WriteFields DEF BackupNowCommit, Shape, AdminStates
  <2>2. NoAdmin.at = "idle"
    BY DEF NoAdmin
  <2>3. /\ owed' \in BOOLEAN /\ backdated' \in BOOLEAN /\ adm' = NoAdmin
        /\ UNCHANGED <<events, lock, stored, firewall, hub, crossed, served>>
    BY <1>2 DEF BackupNowCommit
  <2> QED BY <2>1, <2>2, <2>3, NothingTypes DEF Shape, firewall
<1>3. ASSUME NEW on \in BOOLEAN, NEW keep \in Retentions, Settings(on, keep) PROVE Shape'
  <2> DEFINE copy == [Copy(row) EXCEPT !.on = on]
  <2>1. copy \in Copies
    BY CopyFields DEF Shape
  <2>2. adm' = [NoAdmin EXCEPT !.at = "settings", !.mine = copy, !.keep = keep]
    BY <1>3 DEF Settings
  <2> HIDE DEF copy
  <2>3. adm' \in AdminStates /\ adm'.at = "settings"
    BY <2>1, <2>2, NothingTypes DEF AdminStates
  <2> QED BY <1>3, <2>3 DEF Settings, Shape, firewall, remembered
<1>4. CASE SettingsCommit
  <2>1. /\ row' = [Write(adm) EXCEPT !.on = adm.mine.on, !.keep = adm.keep]
        /\ UNCHANGED <<events, lock, stored, firewall, hub, crossed, served>>
    BY <1>4 DEF SettingsCommit
  <2>5. adm' = NoAdmin /\ owed' \in BOOLEAN /\ backdated' \in BOOLEAN
    BY <1>4 DEF SettingsCommit, Shape
  <2>2. Write(adm) \in Rows
    BY WriteFields DEF Shape, AdminStates
  <2>3. adm.mine.on \in BOOLEAN /\ adm.keep \in Retentions \cup {0}
    BY DEF Shape, AdminStates, Copies
  <2>4. row' \in Rows
    BY <2>1, <2>2, <2>3 DEF Rows
  <2>6. NoAdmin.at = "idle"
    BY DEF NoAdmin
  <2> QED BY <2>1, <2>4, <2>5, <2>6, NothingTypes DEF Shape, firewall
<1>5. CASE DeleteBackup
  <2>1. IsFiniteSet(stored') /\ stored' \subseteq stored
    BY <1>5, FS_RemoveElement DEF DeleteBackup, Shape
  <2>2. events' \in 0..MaxEvents
    BY <1>5, BoundsKept DEF DeleteBackup
  <2> QED BY <1>5, <2>1, <2>2 DEF DeleteBackup, Shape, firewall, remembered
<1>6. CASE DeleteDevice
  BY <1>6, NothingTypes, FS_EmptySet DEF DeleteDevice, Shape, firewall
<1>7. CASE AdminFails
  <2>1. NoAdmin.at = "idle"
    BY DEF NoAdmin
  <2> QED BY <1>7, <2>1, NothingTypes DEF AdminFails, Shape, firewall, remembered
<1>8. CASE SettingsMark
  <2>1. events' \in 0..MaxEvents
    BY <1>8, BoundsKept DEF SettingsMark, NotDue, Due
  <2>2. UNCHANGED <<row, lock, stored, firewall, hub, remembered>>
    BY <1>8 DEF SettingsMark
  <2> QED BY <1>8, <2>1, <2>2, FormFields DEF Shape, firewall, remembered
<1> QED BY <1>1, <1>2, <1>3, <1>4, <1>5, <1>6, <1>7, <1>8

\* Every step keeps the shape.
LEMMA NextShape ==
    ASSUME Shape, [BackupNext]_backupVars
    PROVE  Shape'
<1>1. CASE UNCHANGED backupVars
  BY <1>1 DEF backupVars, firewall, remembered, Shape
<1> QED BY <1>1, FirewallShape, HubShape, AdminShape DEF BackupNext, GoesOn

\* The first state.
LEMMA InitShape == BackupInit => Shape
<1> SUFFICES ASSUME BackupInit PROVE Shape
  OBVIOUS
<1>1. row \in Rows
  <2>1. 0 \in Nat /\ 1 \in Nat
    OBVIOUS
  <2>2. [there : {TRUE}, on : {FALSE}, keep : Retentions, req : {0}, up : {0}] \subseteq Rows
    BY Zenon, <2>1 DEF Rows
  <2>3. [there : {TRUE}, on : {TRUE}, keep : Retentions, req : {1}, up : {0}] \subseteq Rows
    BY Zenon, <2>1 DEF Rows
  <2> QED BY Zenon, <2>2, <2>3 DEF BackupInit
<1>2. NoHub.at = "idle" /\ NoAdmin.at = "idle"
  BY DEF NoHub, NoAdmin
<1>3. owed \in BOOLEAN /\ crossed \in BOOLEAN /\ served \in BOOLEAN /\ backdated \in BOOLEAN
  BY DEF BackupInit
<1>4. proc \in [Procs -> ProcStates] /\ hub \in [Procs -> HubStates] /\ adm \in AdminStates /\ adm.at = "idle"
  BY <1>2, NothingTypes DEF BackupInit
<1>5. \A p \in Procs : hub[p].at = "idle" /\ lock # p
  BY <1>2, BackupAssumption DEF BackupInit
<1>6. IsFiniteSet(stored) /\ stored \subseteq Nat \ {0}
  BY FS_EmptySet DEF BackupInit
<1>7. events \in 0..MaxEvents
  BY BackupAssumption DEF BackupInit
<1>8. lock \in Procs \cup {Nobody} /\ key \in {"none", "torn", "whole"}
  BY DEF BackupInit
<1> QED BY <1>1, <1>3, <1>4, <1>5, <1>6, <1>7, <1>8 DEF Shape

\* Type correctness of the backup requests, uploads and retention: the columns
\* that heartbeat(), upload and administrator write, and their copies of them.
THEOREM BackupTypeCorrect == BackupSpec => []BackupTypeOK
<1>1. BackupInit => Shape
  BY InitShape
<1>2. Shape /\ [BackupNext]_backupVars => Shape'
  BY NextShape
<1> QED BY <1>1, <1>2, ShapeTypes, PTL DEF BackupSpec

(***************************************************************************)
(* Requests.                                                               *)
(***************************************************************************)
RequestInv == OldIsCrossed /\ StampIsNew /\ RequestKept

\* The firewall's steps: what it reads after a request is new.
LEMMA FirewallRequest ==
    ASSUME Shape, RequestInv, NEW p \in Procs,
           \/ Heartbeat(p) \/ Encrypt(p) \/ KeyRefused(p) \/ CreateKey(p)
           \/ WriteKey(p) \/ KeyFails(p) \/ ProcessFails(p) \/ UploadBackup(p)
    PROVE  RequestInv'
<1>1. UNCHANGED <<row, stored, adm, remembered>>
  BY DEF Heartbeat, Encrypt, KeyRefused, CreateKey, WriteKey, KeyFails, ProcessFails, UploadBackup
<1>2. StampIsNew' /\ RequestKept'
  BY <1>1 DEF RequestInv, StampIsNew, RequestKept, Pending, remembered
<1>3. /\ \A q \in Procs \ {p} : proc'[q] = proc[q] /\ hub'[q] = hub[q]
      /\ proc'[p].at = "upload" => proc'[p].fresh
  <2>1. CASE \E at \in {"idle", "beat", "asked", "writeKey", "sent"} : GoTo(p, at)
    BY <2>1, GoToFields
       DEF Shape, Heartbeat, Encrypt, KeyRefused, CreateKey, WriteKey, KeyFails, ProcessFails, UploadBackup
  <2>2. CASE Encrypt(p) \/ WriteKey(p)
    BY <2>2 DEF Encrypt, WriteKey, Captured, Shape
  <2> QED BY <2>1, <2>2 DEF Heartbeat, KeyRefused, CreateKey, KeyFails, ProcessFails, UploadBackup
<1>4. \/ hub'[p] = hub[p]
      \/ hub'[p].at = "beat"
      \/ proc[p].at = "upload" /\ hub'[p].fresh = proc[p].fresh
  <2> DEFINE new == [NoHub EXCEPT !.at = "beat", !.mine = Copy(row)]
             body == [NoHub EXCEPT !.at = "body", !.keep = row.keep, !.fresh = proc[p].fresh]
  <2>4. row.keep \in Retentions \cup {0} /\ proc[p].fresh \in BOOLEAN /\ Copy(row) \in Copies
    BY CopyFields DEF Shape, ProcStates, Rows
  <2>1. new.at = "beat" /\ body.fresh = proc[p].fresh
    BY <2>4, NothingTypes DEF HubStates
  <2>2. CASE Heartbeat(p)
    <3>1. hub'[p] = new
      BY <2>2 DEF Heartbeat, Shape
    <3> QED BY <2>1, <3>1
  <2>3. CASE UploadBackup(p)
    <3>1. proc[p].at = "upload" /\ (hub'[p] = body \/ hub'[p] = hub[p])
      BY <2>3 DEF UploadBackup, Shape
    <3> QED BY <2>1, <3>1
  <2> QED BY <2>2, <2>3 DEF Encrypt, KeyRefused, CreateKey, WriteKey, KeyFails, ProcessFails
<1>5. OldIsCrossed'
  BY <1>1, <1>3, <1>4 DEF RequestInv, OldIsCrossed, remembered
<1> QED BY <1>2, <1>5 DEF RequestInv

\* The Hub's handlers: only a stored upload answers a request, and a request
\* that is committed is later than the last upload or is remembered as older.
LEMMA HubRequest ==
    ASSUME Shape, RequestInv, NEW p \in Procs,
           \/ HeartbeatMark(p) \/ HeartbeatCommit(p) \/ BodyRead(p) \/ Flush(p) \/ Store(p)
           \/ HandlerFails(p) \/ RowGone(p)
    PROVE  RequestInv'
<1>1. CASE HeartbeatCommit(p)
  <2>1. /\ hub' = [hub EXCEPT ![p] = NoHub] /\ UNCHANGED <<adm, owed, crossed, served>>
        /\ row' = Write(hub[p]) /\ hub[p].at \in {"wanted", "unwanted"}
        /\ backdated' = (backdated \/ Backdated(hub[p]))
        /\ \/ UNCHANGED proc
           \/ \E at \in {"asked", "idle"} : GoTo(p, at)
    BY <1>1 DEF HeartbeatCommit
  <2>2. /\ row \in Rows /\ hub[p].t \in Nat /\ hub[p].set \in BOOLEAN
        /\ hub[p].set => hub[p].t # 0
    BY <2>1 DEF Shape, HubStates
  <2>3. row'.up = row.up /\ row'.req = IF hub[p].set THEN hub[p].t ELSE row.req
    BY <2>1, <2>2, WriteFields
  <2>4. /\ proc'[p].at = "upload" => proc'[p] = proc[p]
        /\ \A q \in Procs \ {p} : proc'[q] = proc[q]
    BY <2>1, GoToFields DEF Shape
  <2>5. NoHub.at = "idle"
    BY DEF NoHub
  <2>6. OldIsCrossed'
    BY <2>1, <2>4, <2>5 DEF RequestInv, OldIsCrossed, Shape
  <2>7. StampIsNew'
    BY <2>1, <2>3 DEF RequestInv, StampIsNew
  <2>8. RequestKept'
    <3>1. row.up \in Nat
      BY <2>2 DEF Rows
    <3>2. CASE hub[p].set /\ hub[p].t \in 1..row.up
      BY <2>1, <3>2 DEF RequestKept, Backdated
    <3>3. CASE hub[p].set /\ hub[p].t \notin 1..row.up
      BY <2>2, <2>3, <3>1, <3>3 DEF RequestKept, Pending
    <3>4. CASE ~hub[p].set
      BY <2>1, <2>3, <3>4 DEF RequestInv, RequestKept, Pending
    <3> QED BY <3>2, <3>3, <3>4
  <2> QED BY <2>6, <2>7, <2>8 DEF RequestInv
<1>2. CASE BodyRead(p) \/ Flush(p)
  <2>1. UNCHANGED <<row, proc, adm, remembered>>
    BY <1>2 DEF BodyRead, Flush, firewall
  <2>2. /\ hub'[p].fresh = hub[p].fresh /\ hub[p].at \in {"body", "received"}
        /\ \A q \in Procs \ {p} : hub'[q] = hub[q]
    BY <1>2 DEF BodyRead, Flush, Shape, HubStates
  <2>3. OldIsCrossed'
    BY <2>1, <2>2 DEF RequestInv, OldIsCrossed, remembered
  <2> QED BY <2>1, <2>3 DEF RequestInv, StampIsNew, RequestKept, Pending, remembered
<1>3. ASSUME Reply(p) PROVE /\ \A q \in Procs : proc'[q].at = "upload" => proc'[q] = proc[q]
                            /\ \A q \in Procs : hub'[q].at # "idle" => hub'[q] = hub[q]
  <2>1. NoHub.at = "idle"
    BY DEF NoHub
  <2> QED BY <1>3, <2>1, ReplyFields DEF Shape
<1>4. CASE Store(p)
  <2>1. /\ hub[p].at = "flushed" /\ Reply(p)
        /\ served' = (served \/ hub[p].fresh)
        /\ UNCHANGED <<adm, owed, crossed, backdated>>
    BY <1>4 DEF Store
  <2>2. served' \/ crossed'
    BY <2>1 DEF RequestInv, OldIsCrossed, Shape
  <2>3. OldIsCrossed'
    BY <1>3, <2>1 DEF RequestInv, OldIsCrossed
  <2> QED BY <2>2, <2>3 DEF RequestInv, StampIsNew, RequestKept
<1>5. CASE HandlerFails(p) \/ RowGone(p)
  <2>1. Reply(p) /\ UNCHANGED <<row, adm, remembered>>
    BY <1>5 DEF HandlerFails, RowGone
  <2>2. OldIsCrossed'
    BY <1>3, <2>1 DEF RequestInv, OldIsCrossed, remembered
  <2> QED BY <2>1, <2>2 DEF RequestInv, StampIsNew, RequestKept, Pending, remembered
<1>6. CASE HeartbeatMark(p)
  <2>1. UNCHANGED <<row, firewall, adm, remembered>> /\ hub[p].at = "beat"
    BY <1>6, MarkFields
  <2>2. /\ hub'[p].at \in {"wanted", "unwanted"}
        /\ \A q \in Procs \ {p} : hub'[q] = hub[q]
    BY <1>6, MarkFields DEF Shape
  <2>3. OldIsCrossed'
    BY <2>1, <2>2 DEF RequestInv, OldIsCrossed, firewall, remembered
  <2> QED BY <2>1, <2>3 DEF RequestInv, StampIsNew, RequestKept, Pending, remembered
<1> QED BY <1>1, <1>2, <1>4, <1>5, <1>6

\* The administrator: a stamp is later than the last upload, and withdrawing a
\* request is the administrator's own decision.
LEMMA AdminRequest ==
    ASSUME Shape, RequestInv,
           \/ BackupNow \/ BackupNowCommit
           \/ \E on \in BOOLEAN, keep \in Retentions : Settings(on, keep)
           \/ SettingsMark \/ SettingsCommit \/ DeleteBackup \/ DeleteDevice \/ AdminFails
    PROVE  RequestInv'
<1>1. CASE BackupNow
  <2>1. /\ owed' = (owed /\ ~served /\ ~crossed) /\ crossed' = UnderWay
        /\ UNCHANGED <<row, backdated>>
        /\ adm' = [NoAdmin EXCEPT !.at = "now", !.t = Now, !.set = TRUE]
        /\ hub' = [p \in Procs |-> [hub[p] EXCEPT !.fresh = FALSE]]
        /\ proc' = [p \in Procs |-> [proc[p] EXCEPT !.fresh = FALSE]]
    BY <1>1 DEF BackupNow
  <2>2. adm'.t = Now /\ row.up < Now
    BY <2>1, NothingTypes, NowIsLater DEF AdminStates, Stamps
  <2>3. \A p \in Procs : proc'[p].at = proc[p].at /\ hub'[p].at = hub[p].at
    BY <2>1 DEF Shape, ProcStates, HubStates
  <2>4. OldIsCrossed'
    BY <2>1, <2>3 DEF OldIsCrossed, UnderWay
  <2>5. StampIsNew'
    BY <2>1, <2>2 DEF StampIsNew
  <2>6. RequestKept'
    BY <2>1 DEF RequestInv, RequestKept, Pending
  <2> QED BY <2>4, <2>5, <2>6 DEF RequestInv
<1>2. CASE BackupNowCommit
  <2>1. /\ row' = Write(adm) /\ adm' = NoAdmin /\ adm.at = "now"
        /\ UNCHANGED <<firewall, hub, crossed, served>>
    BY <1>2 DEF BackupNowCommit
  <2>6. adm.set = TRUE /\ adm.t \in Nat /\ row \in Rows /\ row.up \in Nat
    BY <2>1 DEF Shape, AdminStates, Rows
  <2>7. Write(adm).req = adm.t /\ Write(adm).up = row.up
    BY <2>6 DEF Write, Rows
  <2>2. row'.req = adm.t /\ row'.up = row.up
    BY <2>1, <2>7
  <2>3. NoAdmin.at = "idle"
    BY DEF NoAdmin
  <2>4. OldIsCrossed' /\ StampIsNew'
    BY <2>1, <2>3 DEF RequestInv, OldIsCrossed, StampIsNew, firewall
  <2>5. RequestKept'
    BY <2>1, <2>2, <2>6 DEF RequestInv, StampIsNew, RequestKept, Pending
  <2> QED BY <2>4, <2>5 DEF RequestInv
<1>3. ASSUME NEW on \in BOOLEAN, NEW keep \in Retentions, Settings(on, keep) PROVE RequestInv'
  <2> DEFINE copy == [Copy(row) EXCEPT !.on = on]
  <2>2. adm' = [NoAdmin EXCEPT !.at = "settings", !.mine = copy, !.keep = keep]
    BY <1>3 DEF Settings
  <2> HIDE DEF copy
  <2>1. adm'.at = "settings" /\ UNCHANGED <<row, firewall, hub, remembered>>
    BY <1>3, <2>2, NothingTypes DEF Settings, AdminStates
  <2> QED BY <2>1 DEF RequestInv, OldIsCrossed, StampIsNew, RequestKept, Pending, firewall, remembered
<1>4. CASE SettingsCommit
  <2>1. /\ row' = [Write(adm) EXCEPT !.on = adm.mine.on, !.keep = adm.keep]
        /\ owed' = (owed /\ (adm.set => adm.t # 0))
        /\ backdated' = (backdated \/ Backdated(adm))
        /\ adm' = NoAdmin /\ UNCHANGED <<firewall, hub, crossed, served>>
    BY <1>4 DEF SettingsCommit
  <2>2. /\ row \in Rows /\ row.up \in Nat /\ adm.set \in BOOLEAN /\ adm.t \in Nat
    BY DEF Shape, AdminStates, Rows
  <2>3. Write(adm) \in Rows
    BY <2>2, WriteFields
  <2>4. row'.up = Write(adm).up /\ row'.req = Write(adm).req
    BY <2>1, <2>3 DEF Rows
  <2>5. row'.up = row.up /\ row'.req = IF adm.set THEN adm.t ELSE row.req
    BY <2>2, <2>4, WriteFields
  <2>6. NoAdmin.at = "idle"
    BY DEF NoAdmin
  <2>7. OldIsCrossed' /\ StampIsNew'
    BY <2>1, <2>6 DEF RequestInv, OldIsCrossed, StampIsNew, firewall
  <2>8. RequestKept'
    <3>1. CASE adm.set /\ adm.t = 0
      BY <2>1, <3>1 DEF RequestKept
    <3>2. CASE adm.set /\ adm.t \in 1..row.up
      BY <2>1, <3>2 DEF RequestKept, Backdated
    <3>3. CASE adm.set /\ adm.t # 0 /\ adm.t \notin 1..row.up
      BY <2>2, <2>5, <3>3 DEF RequestKept, Pending
    <3>4. CASE ~adm.set
      BY <2>1, <2>5, <3>4 DEF RequestInv, RequestKept, Pending
    <3> QED BY <2>2, <3>1, <3>2, <3>3, <3>4
  <2> QED BY <2>7, <2>8 DEF RequestInv
<1>5. CASE DeleteBackup
  BY <1>5 DEF DeleteBackup, RequestInv, OldIsCrossed, StampIsNew, RequestKept, Pending, firewall, remembered
<1>6. CASE DeleteDevice
  <2>1. NoRow.up = 0 /\ row' = NoRow /\ owed' = FALSE
        /\ UNCHANGED <<firewall, hub, adm, crossed, served, backdated>>
    BY <1>6 DEF NoRow, DeleteDevice
  <2>2. row.up \in Nat
    BY DEF Shape, Rows
  <2>3. adm.t \in Nat
    BY DEF Shape, AdminStates
  <2> QED BY <2>1, <2>2, <2>3 DEF RequestInv, OldIsCrossed, StampIsNew, RequestKept, firewall
<1>7. CASE AdminFails
  <2>1. NoAdmin.at = "idle"
    BY DEF NoAdmin
  <2> QED BY <1>7, <2>1 DEF AdminFails, RequestInv, OldIsCrossed, StampIsNew, RequestKept, Pending, firewall, remembered
<1>8. CASE SettingsMark
  <2>1. adm'.at = "form" /\ UNCHANGED <<row, firewall, hub, remembered>>
    BY <1>8, FormFields DEF SettingsMark
  <2> QED BY <2>1 DEF RequestInv, OldIsCrossed, StampIsNew, RequestKept, Pending, firewall, remembered
<1> QED BY <1>1, <1>2, <1>3, <1>4, <1>5, <1>6, <1>7, <1>8

\* A backup that the administrator asked for stays pending
\* (backup_request_pending()) until a configuration read after the request is
\* stored, whatever other handlers of the same row commit in between.  There
\* are two ways out: an upload that was already under way when it was asked
\* for, and a heartbeat or a form that took the time of a request of its own
\* (mark_device_backup_requested()) before the last upload and commits after.
THEOREM RequestsAreKept == BackupSpec => []RequestKept
<1> DEFINE Inv == Shape /\ RequestInv
<1>1. BackupInit => Inv
  <2>1. BackupInit => RequestInv
    BY DEF BackupInit, RequestInv, OldIsCrossed, StampIsNew, RequestKept, NoProc, NoHub, NoAdmin
  <2> QED BY <2>1, InitShape
<1>2. Inv /\ [BackupNext]_backupVars => Inv'
  <2> SUFFICES ASSUME Inv, [BackupNext]_backupVars PROVE RequestInv'
    BY NextShape
  <2>1. CASE UNCHANGED backupVars
    BY <2>1 DEF backupVars, RequestInv, OldIsCrossed, StampIsNew, RequestKept, Pending, firewall, remembered
  <2> QED BY <2>1, FirewallRequest, HubRequest, AdminRequest DEF BackupNext, GoesOn
<1>3. Inv => RequestKept
  BY DEF RequestInv
<1> QED BY <1>1, <1>2, <1>3, PTL DEF BackupSpec

(***************************************************************************)
(* Retention.                                                              *)
(***************************************************************************)
\* While the upload holds the lock, backups are only taken away.
LEMMA StaleStays ==
    ASSUME StaleChosen, stored' \subseteq stored,
           \A p \in Procs : hub'[p].at = "flushed" =>
               /\ hub[p].at = "flushed"
               /\ hub'[p].t = hub[p].t /\ hub'[p].keep = hub[p].keep /\ hub'[p].stale = hub[p].stale
    PROVE  StaleChosen'
<1> SUFFICES ASSUME NEW p \in Procs, hub'[p].at = "flushed"
             PROVE  \E all \in SUBSET Nat :
                       /\ IsFiniteSet(all)
                       /\ stored' \cup {hub'[p].t} \subseteq all
                       /\ hub'[p].stale = all \ Newest(all, hub'[p].keep)
  BY DEF StaleChosen
<1>1. PICK all \in SUBSET Nat : /\ IsFiniteSet(all)
                                /\ stored \cup {hub[p].t} \subseteq all
                                /\ hub[p].stale = all \ Newest(all, hub[p].keep)
  BY DEF StaleChosen
<1>2. hub'[p].stale = all \ Newest(all, hub'[p].keep) /\ stored' \cup {hub'[p].t} \subseteq all
  BY <1>1
<1> QED BY <1>1, <1>2

\* The choice of the upload that holds the lock stands until it commits.
LEMMA NextStale ==
    ASSUME Shape, StaleChosen, [BackupNext]_backupVars
    PROVE  StaleChosen'
<1> DEFINE Same(h, g) == g.at = "flushed" => /\ h.at = "flushed"
                                             /\ g.t = h.t /\ g.keep = h.keep /\ g.stale = h.stale
<1>1. ASSUME NEW p \in Procs, Heartbeat(p) \/ UploadBackup(p) PROVE StaleChosen'
  <2> DEFINE new == [NoHub EXCEPT !.at = "beat", !.mine = Copy(row)]
             body == [NoHub EXCEPT !.at = "body", !.keep = row.keep, !.fresh = proc[p].fresh]
  <2>4. row.keep \in Retentions \cup {0} /\ proc[p].fresh \in BOOLEAN /\ Copy(row) \in Copies
    BY CopyFields DEF Shape, ProcStates, Rows
  <2>1. new.at = "beat" /\ body.at = "body"
    BY <2>4, NothingTypes DEF HubStates
  <2>2. hub' \in {hub, [hub EXCEPT ![p] = new], [hub EXCEPT ![p] = body]} /\ stored' = stored
    BY <1>1 DEF Heartbeat, UploadBackup
  <2> HIDE DEF new, body
  <2>3. \A q \in Procs : Same(hub[q], hub'[q])
    BY <2>1, <2>2 DEF Shape
  <2> QED BY <2>2, <2>3, StaleStays
<1>2. ASSUME NEW p \in Procs,
             \/ Encrypt(p) \/ KeyRefused(p) \/ CreateKey(p) \/ WriteKey(p)
             \/ KeyFails(p) \/ ProcessFails(p)
      PROVE  StaleChosen'
  BY <1>2, StaleStays DEF Encrypt, KeyRefused, CreateKey, WriteKey, KeyFails, ProcessFails
<1>3. ASSUME NEW p \in Procs, HeartbeatCommit(p) \/ HandlerFails(p) \/ RowGone(p) PROVE StaleChosen'
  <2>1. hub' = [hub EXCEPT ![p] = NoHub] /\ stored' = stored
    BY <1>3 DEF HeartbeatCommit, HandlerFails, RowGone, Reply
  <2>2. \A q \in Procs : Same(hub[q], hub'[q])
    BY <2>1 DEF Shape, NoHub
  <2> QED BY <2>1, <2>2, StaleStays
<1>4. ASSUME NEW p \in Procs, BodyRead(p) PROVE StaleChosen'
  <2>1. stored' = stored /\ \A q \in Procs : Same(hub[q], hub'[q])
    BY <1>4 DEF BodyRead, Shape, HubStates
  <2> QED BY <2>1, StaleStays
<1>5. ASSUME NEW p \in Procs, Flush(p) PROVE StaleChosen'
  <2> DEFINE all == stored \cup {hub[p].t}
             stale == all \ Newest(all, hub[p].keep)
  <2>5. IsFiniteSet(stored) /\ stored \subseteq Nat /\ hub[p].t \in Nat
    BY DEF Shape, HubStates
  <2>1. IsFiniteSet(all) /\ all \in SUBSET Nat
    BY <2>5, FS_AddElement
  <2> HIDE DEF stale
  <2>2. /\ hub'[p].t = hub[p].t /\ hub'[p].keep = hub[p].keep /\ hub'[p].stale = stale
        /\ \A q \in Procs \ {p} : hub'[q].at # "flushed"
        /\ stored' = stored
    BY <1>5, BackupAssumption DEF Flush, RowFree, Shape, HubStates, stale
  <2>3. hub'[p].stale = all \ Newest(all, hub'[p].keep) /\ stored' \cup {hub'[p].t} \subseteq all
    BY <2>2 DEF stale
  <2> HIDE DEF all
  <2>4. \A q \in Procs : hub'[q].at = "flushed" => q = p
    BY <2>2
  <2> QED BY <2>1, <2>3, <2>4 DEF StaleChosen
<1>6. ASSUME NEW p \in Procs, Store(p) PROVE StaleChosen'
  <2>1. \A q \in Procs : hub'[q].at # "flushed"
    BY <1>6 DEF Store, Reply, Shape, NoHub
  <2> QED BY <2>1 DEF StaleChosen
<1>9. ASSUME NEW p \in Procs, HeartbeatMark(p) PROVE StaleChosen'
  <2>1. stored' = stored /\ \A q \in Procs : Same(hub[q], hub'[q])
    BY <1>9, MarkFields DEF Shape
  <2> QED BY <2>1, StaleStays
<1>7. ASSUME BackupNow PROVE StaleChosen'
  <2>1. stored' = stored /\ hub' = [p \in Procs |-> [hub[p] EXCEPT !.fresh = FALSE]]
    BY <1>7 DEF BackupNow
  <2>2. ASSUME NEW h \in HubStates PROVE Same(h, [h EXCEPT !.fresh = FALSE])
    BY DEF HubStates
  <2>3. \A q \in Procs : Same(hub[q], hub'[q])
    BY <2>1, <2>2 DEF Shape
  <2> QED BY <2>1, <2>3, StaleStays
<1>8. ASSUME \/ BackupNowCommit \/ SettingsMark \/ SettingsCommit \/ DeleteBackup \/ DeleteDevice \/ AdminFails
             \/ \E on \in BOOLEAN, keep \in Retentions : Settings(on, keep)
             \/ UNCHANGED backupVars
      PROVE  StaleChosen'
  <2>1. hub' = hub /\ stored' \subseteq stored
    BY <1>8 DEF BackupNowCommit, SettingsMark, SettingsCommit, DeleteBackup, DeleteDevice, AdminFails, Settings, backupVars
  <2> QED BY <2>1, StaleStays
<1> QED BY <1>1, <1>2, <1>3, <1>4, <1>5, <1>6, <1>7, <1>8, <1>9 DEF BackupNext, GoesOn

\* Only the commit of the upload that holds the lock moves the row's time of
\* the last upload while the lock is held.
LEMMA OnlyStore ==
    ASSUME Shape, [BackupNext]_backupVars,
           NEW p \in Procs, hub[p].at = "flushed", row'.up # row.up
    PROVE  Store(p)
<1>1. lock = p /\ lock # Nobody /\ \A q \in Procs : hub[q].at = "flushed" => q = p
  BY BackupAssumption DEF Shape
<1>2. ~RowFree /\ row' # row
  BY <1>1 DEF RowFree
<1>3. ~UNCHANGED backupVars
  BY <1>2 DEF backupVars
<1>4. \A q \in Procs : /\ ~Heartbeat(q) /\ ~Encrypt(q) /\ ~KeyRefused(q) /\ ~CreateKey(q)
                       /\ ~WriteKey(q) /\ ~KeyFails(q) /\ ~ProcessFails(q) /\ ~UploadBackup(q)
                       /\ ~HeartbeatMark(q) /\ ~HeartbeatCommit(q) /\ ~BodyRead(q) /\ ~Flush(q)
                       /\ ~HandlerFails(q) /\ ~RowGone(q)
  BY <1>2 DEF Heartbeat, Encrypt, KeyRefused, CreateKey, WriteKey, KeyFails, ProcessFails, UploadBackup,
              HeartbeatMark, HeartbeatCommit, BodyRead, Flush, HandlerFails, RowGone
<1>5. /\ ~BackupNow /\ ~BackupNowCommit /\ ~SettingsMark /\ ~SettingsCommit /\ ~DeleteBackup /\ ~DeleteDevice
      /\ ~AdminFails /\ \A on \in BOOLEAN, keep \in Retentions : ~Settings(on, keep)
  BY <1>2 DEF BackupNow, BackupNowCommit, SettingsMark, SettingsCommit, DeleteBackup, DeleteDevice, AdminFails, Settings
<1>6. PICK q \in Procs : Store(q)
  BY <1>3, <1>4, <1>5 DEF BackupNext, GoesOn
<1>7. q = p
  BY <1>1, <1>6 DEF Store
<1> QED BY <1>6, <1>7

\* What an upload commits is bounded by the retention count, and what it
\* deletes was received before all that it keeps.
LEMMA StoreRetains ==
    ASSUME Shape, StaleChosen, NEW p \in Procs, Store(p)
    PROVE  /\ Cardinality(stored') <= hub[p].keep
           /\ \A b \in stored \ stored', c \in stored' : b < c
<1> DEFINE n == hub[p].keep
<1>1. /\ hub[p].at = "flushed"
      /\ stored' = (stored \cup {hub[p].t}) \ hub[p].stale
  BY DEF Store
<1>2. PICK all \in SUBSET Nat : /\ IsFiniteSet(all)
                                /\ stored \cup {hub[p].t} \subseteq all
                                /\ hub[p].stale = all \ Newest(all, n)
  BY <1>1 DEF StaleChosen
<1>3. n \in Nat
  <2>1. hub[p].keep \in Retentions \cup {0}
    BY DEF Shape, HubStates, Rows
  <2>2. Retentions \cup {0} \subseteq Nat
    BY BackupAssumption
  <2> QED BY <2>1, <2>2
<1>4. /\ IsFiniteSet(Newest(all, n)) /\ Cardinality(Newest(all, n)) <= n
      /\ \A b \in all \ Newest(all, n), c \in Newest(all, n) : b < c
  BY <1>2, <1>3, NewestBounded
<1>5. stored' \subseteq Newest(all, n) /\ stored \ stored' \subseteq all \ Newest(all, n)
  BY <1>1, <1>2
<1>6. Cardinality(stored') <= Cardinality(Newest(all, n)) /\ IsFiniteSet(stored')
  BY <1>4, <1>5, FS_Subset
<1>7. Cardinality(stored') \in Nat /\ Cardinality(Newest(all, n)) \in Nat
  BY <1>4, <1>6, FS_CardinalityType
<1>8. Cardinality(stored') <= n
  BY <1>3, <1>4, <1>6, <1>7
<1> QED BY <1>4, <1>5, <1>8

\* An upload that commits leaves at most the number of backups it was
\* authorized to keep, and deletes only those received before all it keeps.
THEOREM RetentionHolds == BackupSpec => RetentionKept
<1> DEFINE Inv == Shape /\ StaleChosen
<1>1. BackupInit => Inv
  <2>1. BackupInit => StaleChosen
    BY DEF BackupInit, StaleChosen, NoHub
  <2> QED BY <2>1, InitShape
<1>2. Inv /\ [BackupNext]_backupVars => Inv'
  BY NextShape, NextStale
<1>3. Inv /\ [BackupNext]_backupVars => [RetentionStep]_backupVars
  BY OnlyStore, StoreRetains DEF RetentionStep
<1> QED BY <1>1, <1>2, <1>3, PTL DEF BackupSpec, RetentionKept
=============================================================================
