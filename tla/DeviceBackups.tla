---------------------------- MODULE DeviceBackups ----------------------------
(***************************************************************************)
(* Configuration backups of one firewall: the Hub marks a request in the   *)
(* device row, the firewall learns of it from its heartbeat, encrypts its  *)
(* configuration with a key of its own and uploads it, the Hub stores it   *)
(* and keeps the newest backup_retention_count.                            *)
(*                                                                         *)
(* Each request works in a transaction of its own (PostgreSQL, READ        *)
(* COMMITTED) on the copy of the row it read, and writes back the columns  *)
(* it changed.  cron starts a heartbeat every minute whether or not the    *)
(* last one has ended.  Tokens, revocation and torn state files are in     *)
(* DeviceSession.  Names begin with Backup where HubRestore has the same,  *)
(* so that one module of proofs extends both.                              *)
(***************************************************************************)
EXTENDS Integers, FiniteSets

CONSTANTS
    Procs,        \* heartbeat processes of the firewall
    Retentions,   \* values of backup_retention_count
    MaxEvents,    \* bound: backup requests stamped, backups deleted by hand,
                  \* failures, time-outs and power failures, together
    Nobody

ASSUME BackupAssumption ==
    /\ MaxEvents \in Nat
    /\ Retentions \subseteq Nat
    /\ IsFiniteSet(Procs)
    /\ Nobody \notin Procs

VARIABLES
    events,       \* how many of these happened
    row,          \* the devices row (backup columns)
    lock,         \* the upload that holds the row's lock
    stored,       \* device_backups, committed: their times of receipt
    key,          \* backup_master.key: none, torn (created, not written) or whole
    proc,         \* the heartbeat processes
    hub,          \* the Hub's handler for each process's request
    adm,          \* the administrator's request
    owed,         \* history: "back up now" was confirmed and not withdrawn
    crossed,      \* history: an upload was under way when it was stamped
    served,       \* history: a configuration read after it was stored
    backdated     \* history: since it was confirmed a request was committed that
                  \* had been stamped before the last upload

remembered == <<owed, crossed, served, backdated>>
firewall == <<key, proc>>
backupVars == <<events, row, lock, stored, firewall, hub, adm, remembered>>

NoRow == [there |-> FALSE, on |-> FALSE, keep |-> 0, req |-> 0, up |-> 0]
NoCopy == [on |-> FALSE, asked |-> FALSE, pending |-> FALSE, uploaded |-> FALSE]

\* A handler: mine and keep are its copy of the row, t a time it took, set that
\* t is to be written into the request column.
NoHub == [at |-> "idle", mine |-> NoCopy, keep |-> 0, fresh |-> FALSE,
          t |-> 0, set |-> FALSE, stale |-> {}]
NoProc == [at |-> "idle", fresh |-> FALSE]
NoAdmin == [at |-> "idle", mine |-> NoCopy, keep |-> 0, t |-> 0, set |-> FALSE]

\* Enrolled just now, or its backups were switched on for the first time, which
\* requests one at once.
BackupInit ==
    /\ events = 0
    /\ row \in [there : {TRUE}, on : {FALSE}, keep : Retentions, req : {0}, up : {0}]
            \cup [there : {TRUE}, on : {TRUE}, keep : Retentions, req : {1}, up : {0}]
    /\ stored = {} /\ key = "none"
    /\ lock = Nobody
    /\ proc = [p \in Procs |-> NoProc]
    /\ hub = [p \in Procs |-> NoHub]
    /\ adm = NoAdmin
    /\ owed = FALSE /\ crossed = FALSE /\ served = FALSE /\ backdated = FALSE

\* utc_now(): later than every time that is still held somewhere.
Stamps == stored \cup {row.req, row.up, adm.t} \cup {hub[p].t : p \in Procs}

Now == 1 + CHOOSE t \in Stamps : \A u \in Stamps : u <= t

Bounded == events < MaxEvents /\ events' = events + 1

\* backup_request_pending(): asked for, and nothing uploaded since.
Pending(r) == r.req # 0 /\ r.up < r.req

\* What a handler looks at of the row it read: whether backups are switched on,
\* the request column is set, one is pending, and one was ever uploaded.
Copy(r) == [on |-> r.on, asked |-> r.req # 0, pending |-> Pending(r), uploaded |-> r.up # 0]

\* An UPDATE or DELETE of the row waits for the upload that updated it.
RowFree == lock = Nobody

\* The row after the commit of a handler that wants the request column to be
\* mine.t: a column that was not changed is not written.
Write(mine) == IF mine.set THEN [row EXCEPT !.req = mine.t] ELSE row

\* What is committed is a request older than the last upload.
Backdated(mine) == mine.set /\ mine.t \in 1..row.up

\* mark_device_backup_requested() on a copy: no request is made, or one is, at
\* this time.  Whether the interval has elapsed since the last upload is left
\* open.
NotDue(mine) == (mine.pending \/ ~mine.on \/ mine.uploaded) /\ UNCHANGED events
Due(mine) == ~mine.pending /\ mine.on /\ Bounded
-----------------------------------------------------------------------------
(* The firewall's heartbeat process.                                       *)

GoTo(p, at) == proc' = [proc EXCEPT ![p] = [NoProc EXCEPT !.at = at]]

\* main() sends the heartbeat; device_from_token() reads the row.
Heartbeat(p) ==
    /\ proc[p].at = "idle" /\ hub[p].at = "idle"
    /\ row.there
    /\ GoTo(p, "beat")
    /\ hub' = [hub EXCEPT ![p] = [NoHub EXCEPT !.at = "beat", !.mine = Copy(row)]]
    /\ UNCHANGED <<events, row, lock, stored, key, adm, remembered>>

Marked(p, wanted, t) ==
    hub' = [hub EXCEPT ![p] = [NoHub EXCEPT !.at = IF wanted THEN "wanted" ELSE "unwanted",
                                            !.t = t, !.set = t # 0]]

\* Faulty variant: a heartbeat that wants no backup resets the request column.
HeartbeatMarkResets(p) ==
    LET mine == hub[p].mine
    IN  /\ hub[p].at = "beat"
        /\ \/ /\ NotDue(mine)
              /\ hub' = [hub EXCEPT ![p] = [NoHub EXCEPT !.at = IF mine.pending THEN "wanted"
                                                               ELSE "unwanted",
                                                         !.set = ~mine.pending]]
           \/ Due(mine) /\ Marked(p, TRUE, Now)
        /\ UNCHANGED <<row, lock, stored, firewall, adm, remembered>>

\* heartbeat(): a backup that is due is marked as requested on the copy ...
HeartbeatMark(p) ==
    LET mine == hub[p].mine
    IN  /\ hub[p].at = "beat"
        /\ \/ NotDue(mine) /\ Marked(p, mine.pending, 0)
           \/ Due(mine) /\ Marked(p, TRUE, Now)
        /\ UNCHANGED <<row, lock, stored, firewall, adm, remembered>>

\* ... and committed, whatever happened to the row meanwhile; the answer says
\* whether one is wanted.
HeartbeatCommit(p) ==
    /\ hub[p].at \in {"wanted", "unwanted"}
    /\ row.there /\ RowFree
    /\ row' = Write(hub[p])
    /\ backdated' = (backdated \/ Backdated(hub[p]))
    /\ IF proc[p].at = "beat"
         THEN GoTo(p, IF hub[p].at = "wanted" THEN "asked" ELSE "idle")
         ELSE UNCHANGED proc
    /\ hub' = [hub EXCEPT ![p] = NoHub]
    /\ UNCHANGED <<events, lock, stored, key, adm, owed, crossed, served>>

\* The configuration is read and encrypted.
Captured(p) == proc' = [proc EXCEPT ![p] = [at |-> "upload", fresh |-> TRUE]]

\* backup_upload_payload() with a master key that exists.
Encrypt(p) ==
    /\ proc[p].at = "asked" /\ key = "whole"
    /\ Captured(p)
    /\ UNCHANGED <<events, row, lock, stored, key, hub, adm, remembered>>

\* load_backup_key(): a key of another length is refused.
KeyRefused(p) ==
    /\ proc[p].at = "asked" /\ key = "torn"
    /\ GoTo(p, "idle")
    /\ UNCHANGED <<events, row, lock, stored, key, hub, adm, remembered>>

\* ensure_backup_key(): without a key, a file is created exclusively ...
CreateKey(p) ==
    /\ proc[p].at = "asked" /\ key = "none"
    /\ key' = "torn"
    /\ GoTo(p, "writeKey")
    /\ UNCHANGED <<events, row, lock, stored, hub, adm, remembered>>

\* ... and then written.
WriteKey(p) ==
    /\ proc[p].at = "writeKey"
    /\ key' = "whole"
    /\ Captured(p)
    /\ UNCHANGED <<events, row, lock, stored, hub, adm, remembered>>

\* The disk is full while the key is written: the file is removed.
KeyFails(p) ==
    /\ Bounded
    /\ proc[p].at = "writeKey"
    /\ key' = "none"
    /\ GoTo(p, "idle")
    /\ UNCHANGED <<row, lock, stored, hub, adm, remembered>>

\* The process ends early: an error answer, no answer within 30 seconds (the
\* handler goes on), OpenSSL fails, or the power does - also while the key is
\* written, and the torn file stays.
ProcessFails(p) ==
    /\ Bounded
    /\ proc[p].at # "idle"
    /\ GoTo(p, "idle")
    /\ UNCHANGED <<row, lock, stored, key, hub, adm, remembered>>

\* upload_backup() posts; _authorize_device_backup_upload() reads the row.
UploadBackup(p) ==
    /\ proc[p].at = "upload" /\ hub[p].at = "idle"
    /\ \/ /\ row.there /\ Pending(row)
          /\ GoTo(p, "sent")
          /\ hub' = [hub EXCEPT ![p] = [NoHub EXCEPT !.at = "body", !.keep = row.keep,
                                                    !.fresh = proc[p].fresh]]
       \/ /\ ~(row.there /\ Pending(row))
          /\ GoTo(p, "idle")
          /\ UNCHANGED hub
    /\ UNCHANGED <<events, row, lock, stored, key, adm, remembered>>

-----------------------------------------------------------------------------
(* The Hub's upload handler.                                               *)

\* The handler is through; its answer, whatever it is, ends a process that
\* still waits for it.
Reply(p) ==
    /\ hub' = [hub EXCEPT ![p] = NoHub]
    /\ IF proc[p].at \in {"beat", "sent"} THEN GoTo(p, "idle") ELSE UNCHANGED proc

\* _read_device_backup_request() got the whole body, the envelope is valid,
\* and the time of receipt is taken.
BodyRead(p) ==
    /\ hub[p].at = "body"
    /\ hub' = [hub EXCEPT ![p].at = "received", ![p].t = Now]
    /\ UNCHANGED <<events, row, lock, stored, firewall, adm, remembered>>

\* The n backups received last.
Newest(S, n) == {b \in S : Cardinality({c \in S : c > b}) < n}

\* Faulty variant: the backups are selected before the row is updated.
FlushUnlocked(p) ==
    /\ hub[p].at = "received"
    /\ row.there
    /\ LET all == stored \cup {hub[p].t}
       IN  hub' = [hub EXCEPT ![p].at = "flushed", ![p].stale = all \ Newest(all, hub[p].keep)]
    /\ UNCHANGED <<events, row, lock, stored, firewall, adm, remembered>>

\* flush(): the UPDATE of the row (both stamps), then the INSERT; the SELECT
\* after it finds the backups beyond the retention count.
Flush(p) ==
    /\ hub[p].at = "received"
    /\ row.there /\ RowFree
    /\ lock' = p
    /\ LET all == stored \cup {hub[p].t}
       IN  hub' = [hub EXCEPT ![p].at = "flushed",
                              ![p].stale = all \ Newest(all, hub[p].keep)]
    /\ UNCHANGED <<events, row, stored, firewall, adm, remembered>>

\* commit(): the backup is there, those beyond the count are not, and the
\* request is answered.
Store(p) ==
    LET mine == hub[p]
    IN  /\ mine.at = "flushed"
        /\ stored' = (stored \cup {mine.t}) \ mine.stale
        /\ row' = [row EXCEPT !.up = mine.t, !.req = 0]
        /\ lock' = Nobody
        /\ Reply(p)
        /\ served' = (served \/ mine.fresh)
        /\ UNCHANGED <<events, key, adm, owed, crossed, backdated>>

\* Faulty variant: the session of a handler that failed is not closed.
HandlerFailsOpen(p) ==
    /\ Bounded
    /\ hub[p].at # "idle"
    /\ Reply(p)
    /\ UNCHANGED <<row, lock, stored, key, adm, remembered>>

\* The body or the envelope is refused or the database fails: nothing is stored.
HandlerFails(p) ==
    /\ Bounded
    /\ hub[p].at # "idle"
    /\ Reply(p)
    /\ lock' = IF lock = p THEN Nobody ELSE lock
    /\ UNCHANGED <<row, stored, key, adm, remembered>>

\* Its row was deleted meanwhile: the UPDATE matches nothing, and that is an
\* error.
RowGone(p) ==
    /\ hub[p].at \in {"wanted", "unwanted", "received"} /\ ~row.there
    /\ Reply(p)
    /\ UNCHANGED <<events, row, lock, stored, key, adm, remembered>>
-----------------------------------------------------------------------------
(* The administrator.                                                      *)

\* A configuration was read, and is not stored yet.
UnderWay == \/ \E p \in Procs : proc[p].at = "upload"
            \/ \E p \in Procs : hub[p].at \in {"body", "received", "flushed"}

\* request_device_backup_now(): the request is stamped ...
BackupNow ==
    /\ adm.at = "idle" /\ row.there
    /\ Bounded
    /\ adm' = [NoAdmin EXCEPT !.at = "now", !.t = Now, !.set = TRUE]
    /\ crossed' = UnderWay
    /\ owed' = (owed /\ ~served /\ ~crossed)
    /\ served' = FALSE
    /\ proc' = [p \in Procs |-> [proc[p] EXCEPT !.fresh = FALSE]]
    /\ hub' = [p \in Procs |-> [hub[p] EXCEPT !.fresh = FALSE]]
    /\ UNCHANGED <<row, lock, stored, key, backdated>>

\* ... and committed.
BackupNowCommit ==
    /\ adm.at = "now"
    /\ row.there /\ RowFree
    /\ row' = Write(adm)
    /\ owed' = TRUE /\ backdated' = FALSE
    /\ adm' = NoAdmin
    /\ UNCHANGED <<events, lock, stored, firewall, hub, crossed, served>>

\* update_device_backup_settings() reads the row and applies the form.
Settings(on, keep) ==
    /\ adm.at = "idle" /\ row.there
    /\ row.on # on \/ row.keep # keep
    /\ adm' = [NoAdmin EXCEPT !.at = "settings", !.mine = [Copy(row) EXCEPT !.on = on], !.keep = keep]
    /\ UNCHANGED <<events, row, lock, stored, firewall, hub, remembered>>

Filled(t, set) ==
    adm' = [NoAdmin EXCEPT !.at = "form", !.t = t, !.set = set,
                           !.mine.on = adm.mine.on, !.keep = adm.keep]

\* Switched on, a backup may be due at once; switched off, the request is
\* withdrawn ...
SettingsMark ==
    LET mine == adm.mine
    IN  /\ adm.at = "settings"
        /\ \/ mine.on /\ NotDue(mine) /\ Filled(0, FALSE)
           \/ Due(mine) /\ Filled(Now, TRUE)
           \/ ~mine.on /\ Filled(0, mine.asked) /\ UNCHANGED events
        /\ UNCHANGED <<row, lock, stored, firewall, hub, remembered>>

\* ... by the commit.
SettingsCommit ==
    /\ adm.at = "form"
    /\ row.there /\ RowFree
    /\ row' = [Write(adm) EXCEPT !.on = adm.mine.on, !.keep = adm.keep]
    /\ owed' = (owed /\ (adm.set => adm.t # 0))
    /\ backdated' = (backdated \/ Backdated(adm))
    /\ adm' = NoAdmin
    /\ UNCHANGED <<events, lock, stored, firewall, hub, crossed, served>>

\* delete_device_backup(); one deleted meanwhile is no error.
DeleteBackup ==
    \E b \in stored :
        /\ Bounded
        /\ stored' = stored \ {b}
        /\ UNCHANGED <<row, lock, firewall, hub, adm, remembered>>

\* The firewall is revoked and its row deleted; its backups go with it.
DeleteDevice ==
    /\ row.there /\ RowFree
    /\ row' = NoRow
    /\ stored' = {}
    /\ owed' = FALSE
    /\ UNCHANGED <<events, lock, firewall, hub, adm, crossed, served, backdated>>

\* The request of the administrator fails: the row is gone.
AdminFails ==
    /\ adm.at # "idle" /\ ~row.there
    /\ adm' = NoAdmin
    /\ UNCHANGED <<events, row, lock, stored, firewall, hub, remembered>>
-----------------------------------------------------------------------------
GoesOn(p) ==
    \/ HeartbeatMark(p) \/ HeartbeatCommit(p)
    \/ Encrypt(p) \/ KeyRefused(p) \/ CreateKey(p) \/ WriteKey(p)
    \/ UploadBackup(p)
    \/ BodyRead(p) \/ Flush(p) \/ Store(p) \/ RowGone(p)

BackupNext ==
    \/ \E p \in Procs : Heartbeat(p) \/ GoesOn(p)
    \/ \E p \in Procs : KeyFails(p) \/ ProcessFails(p) \/ HandlerFails(p)
    \/ BackupNow \/ BackupNowCommit
    \/ \E on \in BOOLEAN, keep \in Retentions : Settings(on, keep)
    \/ SettingsMark \/ SettingsCommit \/ DeleteBackup \/ DeleteDevice \/ AdminFails

BackupSpec == BackupInit /\ [][BackupNext]_backupVars

\* cron starts heartbeats for ever, and every handler goes on.
BackupFairSpec ==
    /\ BackupSpec
    /\ \A p \in Procs : WF_backupVars(Heartbeat(p) \/ GoesOn(p))
    /\ WF_backupVars(BackupNowCommit \/ SettingsMark \/ SettingsCommit)
-----------------------------------------------------------------------------
(* Properties.                                                             *)

Copies == [on : BOOLEAN, asked : BOOLEAN, pending : BOOLEAN, uploaded : BOOLEAN]

Rows == [there : BOOLEAN, on : BOOLEAN, keep : Retentions \cup {0}, req : Nat, up : Nat]

\* Every variable stays in its range, and the row is locked by the upload that
\* updated it and by no other.
BackupTypeOK ==
    /\ events \in 0..MaxEvents
    /\ row \in Rows
    /\ lock \in Procs \cup {Nobody}
    /\ \A b \in stored : b \in Nat \ {0}
    /\ key \in {"none", "torn", "whole"}
    /\ proc \in [Procs -> [at : {"idle", "beat", "asked", "writeKey", "upload", "sent"}, fresh : BOOLEAN]]
    /\ \A p \in Procs : /\ hub[p].at \in {"idle", "beat", "wanted", "unwanted", "body", "received", "flushed"}
                        /\ hub[p].mine \in Copies /\ hub[p].keep \in Retentions \cup {0}
                        /\ hub[p].fresh \in BOOLEAN /\ hub[p].t \in Nat /\ hub[p].set \in BOOLEAN
                        /\ hub[p].at = "flushed" <=> lock = p
    /\ adm \in [at : {"idle", "now", "settings", "form"}, mine : Copies,
                keep : Retentions \cup {0}, t : Nat, set : BOOLEAN]
    /\ owed \in BOOLEAN /\ crossed \in BOOLEAN /\ served \in BOOLEAN /\ backdated \in BOOLEAN

\* An upload leaves at most the retention count it was authorized with, also
\* when two are stored at once, and what it deletes was received before all
\* that it keeps (README: retention ordering uses Hub receipt time).
RetentionStep ==
    \A p \in Procs : hub[p].at = "flushed" /\ row'.up # row.up =>
        /\ Cardinality(stored') <= hub[p].keep
        /\ \A b \in stored \ stored', c \in stored' : b < c

RetentionKept == [][RetentionStep]_backupVars

\* "Back up now" is answered: once confirmed it stays pending until a
\* configuration read after it is stored, unless it was made while an upload
\* was under way, or a handler that had stamped a request of its own before the
\* last upload commits it later.
RequestKept == owed => Pending(row) \/ served \/ crossed \/ backdated

\* What makes RequestKept inductive: a configuration that was read before the
\* last request is on its way only if the request was made meanwhile, and
\* until it is stored nothing was stored since the request's stamp.
OldIsCrossed ==
    \A p \in Procs :
        /\ proc[p].at = "upload" /\ ~proc[p].fresh => crossed
        /\ hub[p].at \in {"body", "received", "flushed"} /\ ~hub[p].fresh => crossed

StampIsNew == adm.at = "now" => row.up < adm.t \/ served \/ crossed

\* What makes RetentionStep an invariant of the steps: the upload that holds
\* the lock has chosen among all that can be stored when it commits.
StaleChosen ==
    \A p \in Procs : hub[p].at = "flushed" =>
        \E all \in SUBSET Nat :
            /\ IsFiniteSet(all)
            /\ stored \cup {hub[p].t} \subseteq all
            /\ hub[p].stale = all \ Newest(all, hub[p].keep)

\* A request ends, unless a power failure tore the firewall's master key: then
\* its administrator is needed.
BackupsArrive ==
    Pending(row) ~> ~Pending(row) \/ (key = "torn" /\ \A p \in Procs : proc[p].at # "writeKey")
=============================================================================
