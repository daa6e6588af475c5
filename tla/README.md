# OPNsense Hub: a TLA+ model, its checks and its proofs

OPNsense Hub manages OPNsense firewalls from one web application. A firewall
enrolls with a one-time password (OTP), gets a WireGuard tunnel to the Hub,
sends a heartbeat every minute, and administrators reach its web GUI through the
Hub. The program is Python: a FastAPI process (the *Hub*), a privileged
WireGuard *sidecar* it calls over HTTP, PostgreSQL, the *plugin* on every
firewall, and a *connector* on the administrator's computer.

Almost everything that is hard about it comes from state that lives in two
places (a row and a kernel peer, a token hash and a state file, a revoked row and
an open socket) and can only be changed in one of them at a time. That is what
the modules are about.

Contents: 1 inventory, 2 the modules, 3 runs and bounds, 4 properties and the
hazards they answer, 5 where the code and its documentation differ, 6 proofs,
7 limits and what is not modelled, 8 plan.

## 1. Inventory

| Part | Source (under `src/`) | State | Operations | Hard behaviour | Module |
|---|---|---|---|---|---|
| Enrollment and peer lifecycle | `dashboard/app/routers/enrollment.py`, `companies.py`, `devices.py`, `settings.py`, `wireguard.py`, `wireguard_agent.py`, `services/db_migrations.py` | rows of codes, devices, companies; row locks; the sidecar's peer table | create a code, enroll, compensate, revoke, delete, delete a company, start-up synchronisation | concurrent claims, calls that time out, overtaking calls, crashes between commit and call | `PeerLifecycle`, `FirewallFleet` |
| Connector streams | `dashboard/app/routers/proxy.py`, `services/proxy_auth.py`, `wireguard_agent.py` | per-session counts, task and socket tables, the session rows, the sidecar's connections | issue a token, open a WSS stream, re-check, monitor, close on revocation and at shutdown | every check is stale after the next `await`; cancellation anywhere; a far end in another process | `ConnectorAccess` |
| Raw public TCP relays | `dashboard/app/services/tcp_relay.py`, `routers/proxy.py` | port table, timers, client tasks, locks | open, replace, expire, close, serve a client | two locks, timers against closes, clients of a closing listener | `TcpRelay` |
| Device session | `routers/devices.py`, `routers/dashboard.py`, `deps.py`, `services/device_tokens.py`, `services/firmware_scheduler.py`, plugin `heartbeat.py`, `firmware_status.py`, `remove.py`, `connect.py`, `disconnect.py` | token hash and expiry, `revoked_at`, pending firmware check; `state.json`, the crontab | heartbeat, rotation, firmware check and report, revocation, removal, reconnect, disconnect | lost answers, overlapping processes, torn files | `DeviceSession` |
| Configuration backups | `backups.py`, `routers/devices.py`, `services/device_backup_crypto.py`, plugin `heartbeat.py`, `backup_crypto.py` | requested and uploaded times, settings, stored backups; the firewall's master key | mark as due, "back up now", settings, capture, upload, retention | authorization long before the store; handlers that read the row before another's commit; a torn key | `DeviceBackups` |
| Health rounds, notifications, firmware scheduling | `services/firmware_scheduler.py`, `health.py`, `services/notification_service.py` | status and counters per device, times of the last e-mails | probe round, threshold automaton, e-mail | rows loaded before many awaits and written after | `HealthMonitor`, `HealthAutomaton`, `HealthWatch` |
| Scheduler leadership | `services/scheduler_locks.py`, `main.py` | advisory locks, tasks | acquire, poll, release, shut down | take-over, lost connections, swallowed cancellation | `HealthMonitor` |
| Dashboard login and MFA | `routers/auth.py`, `routers/settings.py`, `services/auth_service.py`, `services/mfa_service.py`, `services/microsoft_auth.py`, `services/local_ad_auth.py` | users, sessions, pending logins, row locks | sign-in by password or provider, second factor, MFA changes, logout, expiry, deletion | concurrent attempts on one pending login; changes on stale copies; lock cycles | `LoginSessions` |
| Hub backup and restore | `services/backup_service.py`, `routers/settings.py` | all tables, logo and key files, stage, peers | export, restore, reconcile peers | failure in the middle; requests that go on meanwhile | `HubRestore` |
| Plugin integration | plugin `connect.py`, `remove.py`, `disconnect.py` | `config.xml` and its lock, key, state, interface, crontab | connect, disconnect, remove | partial failure, kills, two scripts at once | `FirewallPlugin` |
| Rate limiter | `security/rate_limit.py` | windows per key | hit, expire | expiry set apart from the count | not modelled (section 7) |
| Proxy grants | `services/proxy_auth.py` | grant rows | issue, exchange once | none: no caller | not modelled (section 7) |
| Log retention, audit | `services/log_retention.py`, `audit.py` | log rows | batched deletion | interrupted batches | not modelled (section 7) |
| Local connector | `connector/opnsense_hub_connector.py` | local sockets | one stream per connection | half-close | not modelled (section 7) |
| RBAC, pages, branding, CSRF, hardening, diagnostics, migrations | see `PROJECT.json` | none of their own | read or validate | none | not modelled |

How they interact: the enrollment handler commits a row and then calls the
sidecar; revocation calls the sidecar, commits, and then closes the device's
relay and streams (`close_device_access`); the streams and relays read the rows
again at each check; heartbeats authenticate against the same rows, and carry
what the Hub wants of a firewall (a new token, a firmware check, a backup) in
their answers; start-up pushes all unrevoked rows to the sidecar; a restore
replaces all rows under everybody's feet and pushes them afterwards.

## 2. The modules

All modules share one convention. Database reads and commits, HTTP calls and
`await`s are the places where other actors run, so a handler is one action per
stretch between two such places, named after the handler. Names of variables and
operators follow the source where TLA+ allows it. Operators that begin with
"Faulty variant" in their comment are not part of the specification: each is a
plausible bug in the operator below it.

### PeerLifecycle, FirewallFleet

State: `companies`, `codeState`, `expired`, `rowState`, `lock` (database);
`pc`, `reqCode`, `reqKey`, `reqIp` (one enrollment request each, and the row it
inserts); `apc`, `acur`, `aco`, `atodo`, `aread` (one administrator request
each); `call`, `zombies`, `peer` (sidecar); `hubUp`; and the history `stray`.

| Code | Actions |
|---|---|
| `enroll` up to the SELECT of valid codes | `EnrollMatch` |
| `_claim_enrollment_code`, `next_tunnel_ip` | `EnrollClaim`, `EnrollClaimLost`, `EnrollAbort` |
| INSERT and commit, unique-index conflict | `EnrollCommit`, `EnrollConflict` |
| `add_peer`, `_compensate_failed_peer_add` | `AddPeerOk`, `AddPeerError`, `AddPeerTimeout` |
| `revoke_device`, `delete_revoked_device` | `RevokeStart`, `RevokeCommit`, `RemoveFails`, `DeleteRevoked` |
| `delete_company` | `DeleteCompanyStart`, `DeleteCompanyCall`, `DeleteCompanyCommit` |
| sidecar handlers, `_run`, restart | `AgentExec`, `AgentFail`, `AgentRestart` |
| Hub crash, `bootstrap`, `sync_existing_peers` | `Crash`, `Bootstrap`, `BootstrapFail` |

Keys, codes and companies are model values; addresses are numbers, because the
allocation of the lowest free one is part of the behaviour. The WireGuard table
is external: `wg set ... allowed-ips` moves an address away from another peer
that had it. `SELECT ... FOR UPDATE` is modelled as waiting until no row of the
selection is locked, then taking them; PostgreSQL locks one row at a time, and
may abort one of two requests that wait for each other, which is an
`EnrollAbort`.

`stray` collects the keys of calls the database no longer accounts for: a call
given up before it was executed, an `add_peer` in progress when a removal of its
row is issued, a call that took effect and then reported failure. The peer table
can disagree with the rows for such keys only.

`FirewallFleet` is what the database is to its readers: the codes, and a set of
firewalls, each with the code, key, address and state it was given. A firewall
joins and its code is used in one step (`Enroll`), and both are taken back in one
step (`Undo`). `EnrolledAtomically` is its specification with the committed rows as
the firewalls: the claim under the code's lock, the choice of the address, the
sidecar's calls and everything rolled back are stutters.

### ConnectorAccess

One asyncio task per stream (`pc`, `sess`, `answer`, `cancelled`), the
process-wide tables (`count`, and `tracked`, in which a task registers once it has
its slot), the rows (`token`, `valid`,
`devState`), one `close_device_access` per device (`closer`, `waitFor`,
`swept`), the sidecar's task of a stream (`far`, if `viaAgent`) and `stopping`.
`OpenConnector` and `HandOver` are `open_device_connector`, which flushes the
token's row before it renders it and commits after.
`connector_device_tunnel` is `Validate`, `Reserve`, `Track`, then for each
re-check a `ThreadReads` (the database is read in a worker thread) and later a
`...Passed` or `...Refused` (the task acts on the answer), `Connected`,
`Accepted`, `MonitorEnds`, `StreamCloses`, `TimedOut`, and the `finally` clause
(`Ended`, `Release`). A cancelled task only takes `CancelDelivered`. With
`WG_AGENT_URL` the firewall's connection belongs to `connect_to_wireguard_peer`
in the sidecar (`FarOpens`, `FarRefuses`, `FirewallCloses`, `FarEnds`), which may
still be connecting when the Hub has given up. `CloseAll` is `close_all_access`
in the lifespan, `Restarts` the end of the process, after that or by a kill.

### TcpRelay

Requests (`opc`), revocations (`rpc`), the router's per-device lock and the
manager's lock, the port table (`relays`), `state.closing`, relays detached but
not shut down yet (`unshut`), expiry tasks, and client tasks with their counter
(`active`). Detaching under the lock and shutting down after it are separate
steps because the code awaits between them.

### DeviceSession

The row (`dev`, `hash`, `age`, `issued`, `fwReq`), requests and answers under way
(`sent`, `reply`), the firewall's `state.json` and crontab line (`file`, `cron`)
and the plugin's processes (`proc`). `Authorize`/`Refuse` is
`device_from_token` on the row as it is then, `CommitHeartbeat` and
`CommitRotation` the later commits of the two handlers. A process loads the
state file once, works on its copy and saves the whole copy: `SaveState` is the
truncation, `Write` the write that ends it, `WriteLost` the write to a file
unlinked meanwhile. `RemoveCron`, `Unconfigure`, `Unlink` are
`remove_local_artifacts`; `Connect`, `EnsureCron`, `Disconnect`,
`Disconnected` the other two scripts.

Tokens are numbers in the order of their issue. Their age (`fresh`, inside the
rotation window, expired) only moves forward. Rate-limit refusals and proxy
errors behave like a lost answer (`GiveUp`), so they have no action of their
own. Whether a backup is due is chosen nondeterministically; an upload only
matters here because it saves the state file. A firmware check is asked for by
the schedule (`ScheduleFirmwareCheck`) or by hand (`RequestFirmwareCheckNow`) and
withdrawn by the report (`ReportClears`). Enrolling again with a new OTP
makes a new row and is `PeerLifecycle`'s business.

### HealthMonitor, HealthAutomaton, HealthWatch

`HealthAutomaton` is `next_health_state` as an operator, with the counters
saturated at the largest threshold. `HealthWatch` is the abstract specification:
firewalls are watched as if one process probed some of them and recorded the
results in a single step. `HealthMonitor` is what the code does.

| Code | Actions |
|---|---|
| `run_cluster_singleton_loop`, `postgres_advisory_lock` | `Try`, `Poll` |
| `lifespan` at shutdown and start, deaths | `CancelLeader`, `CancelPolling`, `Killed`, `Restart` |
| `run_device_health_checks_once` | `StartRound`, `Probe`, `Commit`, `RoundFails` |
| `revoke_device`, `delete_revoked_device`, settings, later reports | `Revoke`, `DeleteRow`, `SwitchQuiet`, `Renewed` |

State: the rows (`row`), who holds the advisory lock (`holder`), where the loop of
each process is (`hub`), and what its session read and holds (`work`). The round
works on the rows as it read them, and its commit writes only the columns it
changed (`Updated`), as SQLAlchemy does; so a revocation made meanwhile survives
it, and a row deleted meanwhile makes the whole commit fail. Mails are sent when
a probe returns, long before. `quiet` stands for a maintenance window, switched
off notifications or a missing recipient. The rows are enrolled at the start: a
firewall that enrolls during a round is not in it.

The three announcements of `maybe_send_phase2_device_notifications` follow two
rules. An overdue backup is announced once while it lasts. An expiring license and
a firmware update are announced whenever the time of the last announcement is
before `license_expires_at` or `firmware_checked_at`. So a license is mailed again
in every round until it has ended, as the end lies ahead until then, and firmware
again after each later check. `noted` are the rules whose `..._notified_at` is set,
`newer` those of them whose time is before the one it is compared with, and
`Recorded` the rest, which are not announced again. Whether a condition holds
(`due`) is an input of `Probe`, and whether a new announcement is before the end of
the license or the latest check one of `Commit`; `Renewed` is a report of a later
check or a later end. The times a firewall reports are taken not to go back. Every
mail may fail or be switched off by itself, and is then not recorded.

`WatchedAtomically` is the refinement: `HealthWatch` with `health` mapped to the
status and counters of the active rows.

### LoginSessions

One account, the requests that work for and on it (`req`: the step, the copy of
the users row it read, what it wants), `pending_mfa_logins` rows (`pend`) and the
locks on them (`lock`), `sessions` rows (`sess`), the lock of a deletion
(`rowLock`).

| Code | Actions |
|---|---|
| `login` | `LoginRead`, `LoginSession`, `LoginPending`, `LoginRefused` |
| `complete_mfa_login`, `pending_mfa_state_from_request` | `MfaRead`, `MfaExpired`, `MfaUser`, `MfaUserRefused`, `MfaLimited`, `MfaWrong`, `MfaRight` |
| Microsoft and Local AD sign-in, `upsert_external_user` | `MicrosoftCallback`, `MicrosoftLogin`, `LocalAdLogin`, `ExternalKnown`, `ExternalNew`, `ExternalRefused` |
| `enable_account_mfa`, `disable_account_mfa`, `apply_manage_user_mfa`, `disable_manage_user_mfa` | `EnableMfa`, `DisableMfa`, `AdminApplyMfa`, `AdminDisableMfa`, `ChangeMfa`, `ChangeMfaFails` |
| `create_user`, `delete_user`, logout, revocation, expiry | `CreateUser`, `DeleteUser`, `DeleteCommit`, `EndSession`, `PendingExpires` |

A request reads in one step and commits in another, and writes only the columns
it changed in its copy, which is what SQLAlchemy does. Foreign keys make a
request wait for the deletion of the row it refers to (`RowFree`); the second
step and the deletion may wait for each other, and PostgreSQL aborts one
(`DeadlockVictim`). The history variables count refused codes (`wrong`) and
created sessions (`used`) per pending login, collect proven secrets (`confirmed`)
and note MFA changes that were committed over a newer row (`stale`).

### HubRestore

The `devices` rows by public key (`rows`), sessions with the restore they were
created after (`sess`), which restore the live files come from (`files`), the
runtime peers, the archive an administrator holds, an export and a restore under
way (`export`, `rest`), enrollments and revocations (`enr`, `rev`).

| Code | Actions |
|---|---|
| `export_backup_bundle` | `ExportDevices`, `ExportRest` |
| `restore_settings_backup`, `parse_backup_bundle`, `stage_restore_files` | `Upload`, `Parse`, `RestoreRefused`, `Stage` |
| `restore_backup_bundle` | `DeleteDevices`, `DeleteCompanies`, `DeleteUsers`, `RestoreCommit`, `RestoreRolledBack` |
| `apply_staged_restore_files` | `ApplyLogo`, `ApplyKey` |
| `reconcile_wireguard_after_restore` | `Bootstrap`, `ReadExpected`, `ReadRuntime`, `RemoveUnexpected`, `AddExpected`, `RestoreDone`, `FollowUpFails` |
| enroll, revoke, delete, login, process death | `EnrollInsert` ..., `RevokeRemovePeer` ..., `DeleteRevoked`, `LoginInsert`, `LoginCommit`, `CrashAndStart` |

The restore deletes table by table in one transaction. What it has deleted stays
visible to others, but whoever must lock or refer to it waits (`HoldsDevices`,
`HoldsCodes`, `HoldsUsers`), and it waits in turn for rows that are locked or
being referred to. `raced` collects the keys that were enrolling or being revoked
while the follow-up ran, `undone` says that the last follow-up did not finish.

### DeviceBackups

The backup columns of one row (`row`), its lock, the stored backups by time of
receipt, the firewall's master key (`none`, `torn`, `whole`), its heartbeat
processes (`proc`) and the Hub's handlers for them (`hub`), and one administrator's
request (`adm`).

| Code | Actions |
|---|---|
| `heartbeat`, `backup_due`, `mark_device_backup_requested` | `Heartbeat`, `HeartbeatMark`, `HeartbeatCommit` (with `NotDue`, `Due`, `Write`) |
| `ensure_backup_key`, `backup_upload_payload` | `CreateKey`, `WriteKey`, `Encrypt`, `KeyRefused`, `KeyFails` |
| `upload_backup`, `_authorize_device_backup_upload` | `UploadBackup` |
| `_read_device_backup_request`, `_store_device_backup_payload` | `BodyRead`, `Flush`, `Store`, `RowGone`, `HandlerFails` |
| `request_device_backup_now` | `BackupNow`, `BackupNowCommit` |
| `update_device_backup_settings` | `Settings`, `SettingsMark`, `SettingsCommit` |
| deletions, a row that is gone | `DeleteBackup`, `DeleteDevice`, `AdminFails` |

Times are numbers of which only the order counts (`Now` is later than every time
still held). The three handlers that make or withdraw a request read the row, take the
time, and write it in their commit, which waits for the row's lock: three steps, two
for "back up now", which decides nothing by the row. What they looked at of the row
is a few facts about it (`Copy`), decided on at the time of the read; what they write
is the time they took (`t`, if `set`), over whatever was committed meanwhile.

Four history variables serve `RequestKept`: `owed`, a confirmed "back up now" that
was not withdrawn; `served`, a configuration read after it was stored, by `fresh`,
which marks one read after the last "back up now"; `crossed`, an upload was under way
when it was made; and `backdated`, a heartbeat or a settings form has since committed
a request whose time it had taken before the last upload was received.

### FirewallPlugin

What the plugin leaves on a firewall: `conf` (config.xml: settings, and one flag
for interface, rules and listen address), its `lock`, `state`, `key`, `tunnel`,
`cron`; the Hub's view of each code (`hub`); and the running scripts (`proc`). Each
script is one action per thing it reads, writes or calls: `EnsureKey`, `WriteKey`,
`LoadState`, `Enroll`, `SaveState`, `StartTunnel`, `SetTunnel`, `LockConfig`,
`EditConfig`, `EnsureCron` for `connect.py`; `Destroy`, `RemoveCron`, `LockConfig`,
`EditConfig`, `ReadForClear`, `ClearSettings`, `UnlinkKey`, `UnlinkState` for
`remove.py`; the first two and `SaveState` for `disconnect.py`. Faults are
`CommandFails` and `Fail` (`fail()` ends the process by `SystemExit`), `EnrollLost`,
`ClearFails`, `Kill` (what was being written is torn) and `Reboot`.

## 3. Runs and bounds

| Run | Instance | Distinct states | Shows |
|---|---|---|---|
| `PeerLifecycle` | 2 requests, 1 administrator, 2 keys, 2 codes, 3 addresses (one the Hub's), no row locks | 564 064 | the invariants and the abstract fleet, with the conditional UPDATE alone keeping an OTP single-use |
| `ConnectorAccess` | 2 streams of 1 session, limit 1, with and without sidecar, fair | 127 520 | limit and sweep, with one stream over the limit; unauthorized streams end, in both processes |
| `TcpRelay` | 2 requests, 1 device, 2 ports, 2 clients, limit 1, fair | 1 203 113 | replacement, revocation, expiry and clients at every await; every relay ends |
| `DeviceSession` | 2 processes, all faults, `connect` by the user, 2 tokens | 5 322 273 | an active firewall stays configured |
| `DeviceSessionAlone` | 1 process, lost heartbeats, every user operation, 3 tokens, fair | 63 622 | the firewall holds the Hub's token; a revoked firewall cleans up |
| `HealthMonitor` | 2 processes, 1 firewall, thresholds 3, 5, 1, 2, all faults | 252 951 | one leader, news only, the abstract watch |
| `LoginSessions` | 2 requests, 1 pending login, 2 sessions, 2 accounts in turn, 2 attempts, fair | 429 046 | the second factor, provider accounts, MFA changes; every request ends |
| `HubRestore` | 1 restore, 2 firewalls, 1 session | 2 528 581 | rows, files, sessions and peers agree after a restore that ended well |
| `DeviceBackups` | 2 heartbeats, a first request and 2 events (requests, faults, deletions), retention 1, fair | 1 160 322 | requests, retention, arrival |
| `FirewallPlugin` | 2 scripts, 2 codes, 2 keys, 2 faults, fair | 1 452 650 | key and device belong together; edits under the lock; Connect connects |
| `PeerAddTimeout` | as `PeerLifecycle`, with row locks | violated | section 5 |
| `ConnectorSlotLeak` | 3 streams, limit 2 | violated | section 5 |

Why these bounds are enough: every property relates at most two requests, rows,
keys or streams of one kind, so two give every pair, and the one more (request,
stream) is the one a limit or a conflict turns away. Two free addresses are the
fewest for which two firewalls can collide and a third address run out. `PeerLifecycle`
runs without `FOR UPDATE`, as on a database that ignores it, which allows more
interleavings; the proofs cover both. For `HealthMonitor` two
processes give every hand-over, the thresholds are the defaults of `config.py`,
and firewalls meet only in the commit of a round, which `RoundFails` can fail for
one of them as well; the theorems of section 6 hold for any number.
In `LoginSessions` one pending login is shared by all its requests, and nothing
relates two. In `HubRestore` a restore depends on an earlier one only through the
rows it finds, which the firewalls and the archives of `Init` provide.

Counters cut off, each named in the guards that use it:

| Bound | Cuts off | Enough because |
|---|---|---|
| `MaxTokens` | tokens issued (`CommitRotation`, `TokenAges`) | two are one rotation, three a rotation of a rotated token |
| `MaxLate` | requests the Hub handles although nobody waits (`Abandon`) | one is a late answer |
| `MaxUid` | accounts created one after the other (`InsertUser`) | a stale copy refers to the one before |
| `MfaAttempts` | the setting itself: 2 | the last attempt and one before it |
| `MaxRestores` | restores that commit (`Upload`) | see above |
| `MaxEvents`, `Retentions` | requests stamped, deletions by hand and faults of `DeviceBackups`, together, after the first request of `BackupInit`; the setting itself | the first request served, a stamp taken, "back up now" confirmed before it is committed; a failure of a request and a new one; two uploads against one kept |
| `MaxFaults` | faults of `FirewallPlugin` | one at every step, and a second while the first is being repaired |
| `MaxOverlapFaults` | faults of `FirewallPlugin` once two scripts have overlapped: 0 | the properties about faults are stated for one script at a time |
| `MaxOtps`, `MaxKeys` | enrollments, keys generated | the second follows a removal |

Symmetry is declared
over interchangeable model values in the safety runs, never with a temporal
property. Deadlock is checked except in the runs of `TcpRelay` (its requests are
one-shot), of `DeviceSession` (a removed firewall does nothing more), of
`DeviceBackups` (nor does a deleted one) and of `FirewallPlugin` (once its codes
and keys are used up).

Fairness, where a run uses it:

* `ConnectorAccess`: weak fairness of what the two event loops, worker threads and
  `asyncio.sleep` do by themselves, and of connecting and accepting, which are
  limited in time. Clients and firewalls may stay silent.
* `TcpRelay`: weak fairness of lock grants, timers and the manager's steps.
  Clients and new requests are not fair.
* `DeviceSessionAlone`: cron starts a heartbeat every minute and not all answers
  are lost (strong fairness of starting, of a request that reaches the Hub and of
  an answer that arrives, each of which a loss may disable again and again);
  processes and handlers run.
* `LoginSessions`: strong fairness of a request's next step, because PostgreSQL
  grants a row lock to waiters in turn, and weak fairness of its deadlock
  detection. Nobody is obliged to sign in or to type a code, but a request that
  was begun runs to its end.
* `DeviceBackups`: cron starts heartbeats, and processes, their handlers and the
  handler of the administrator's request go on; faults and deletions are finitely
  many, and not fair.
* `FirewallPlugin`: a script that runs goes on (commands have time limits), and the
  administrator presses Connect again as long as it can be pressed; `ConnectCompletes`
  is about what that achieves.

## 4. Properties

| Property | What it says | The hazard |
|---|---|---|
| `OtpSingleUse` | two requests past the commit never presented the same OTP, unless one was compensated | claims that read the code before another's commit |
| `PeerTableSound` | every runtime peer belongs to an unrevoked row and routes at most its address, `stray` keys excepted | crash, compensation, revocation or deletion between row and peer |
| `AddressOwned` | no other peer routes the address of an enrolled firewall | address reuse after deletion, stale `next_tunnel_ip`, a late `add_peer` |
| `EnrolledAtomically` | `PeerLifecycle` implements `FirewallFleet` | an enrollment half done or half undone, a code used without a firewall, a shared address |
| `LimitEnforced` | a session never holds more slots than allowed | interleaved reservation, release, cancellation |
| `RevokedIsClosed` | after the sweep no stream to the device relays or is about to, unless its cancellation is pending | a stream between two checks |
| `UnauthorizedStreamsEnd` | an open stream without authorization does not stay open, nor does the sidecar's connection | logout or RBAC change that cancels nothing; a killed Hub |
| `OneRelayPerDevice` | one registered relay per device | two opens and a revocation in line for one lock |
| `RevokedHasNoRelay` | after the revocation's close only a relay whose own request will undo it | revocation during `create_relay` |
| `ClosedRelayIsSilent` | a relay that was shut down connects nowhere | clients accepted before the close and started after it |
| `RelaysEnd` | every relay ends | the expiry task against closes |
| `ActiveStaysConfigured` | no fault or race makes an active firewall give up its crontab line and state | a 401, a proxy error or a torn file read as a revocation |
| `FirewallHoldsToken` | the token the Hub accepts is in the state file, in a process that will save it, or on its way | rotation against everything else |
| `RevokedCleansUp` | a revoked firewall removes its state, unless its row is deleted first | the order of the checks in `device_from_token` |
| `OneLeader` | at most one process is in the loop of the job | hand-overs, deaths, shutdowns |
| `MailsAreNews` | no mail about an active firewall tells the status its row has, an overdue backup that was announced, a license after its end, or firmware of a check that was announced | a round repeated or run twice |
| `StatusExplained` | the status of an active firewall agrees with its counters | two counters that reset each other |
| `WatchedAtomically` | `HealthMonitor` implements `HealthWatch` | half a round, a lost update, a revived revoked row |
| `PendingSingleUse` | a pending login leads to one session at most | the same cookie and code sent twice at once |
| `AttemptsBounded` | at most `MfaAttempts` wrong codes, and no right one after the last | attempts counted on copies |
| `SignedInAsLinked` | whoever signed in through a provider is that provider's account | an account created, deleted or linked between read and commit |
| `MfaUsable` | MFA is enabled only with a secret its user proved to have, unless two changes collided | partial writes of a stale copy |
| `RequestsEnd` | every request ends | row locks kept, or waited for in a circle |
| `FilesFollowRows` | live files never run ahead of the rows, and match them when a restore ended well | a failure between staging, commit and application |
| `SessionsAreOfThisEra` | no session outlives a restore | a login inserted during the deletes |
| `PeersFollowRows` | after a restore that ended well the peers are those of the active rows | peers of the old rows, reconciliation in steps |
| `RequestKept` | a confirmed "back up now" stays pending until a configuration read after it is stored, unless an upload was under way (`crossed`) or a handler commits a request it had stamped before the last upload (`backdated`) | handlers that write their view of the row |
| `RetentionKept` | a store leaves at most the retention count, and deletes only older backups | two uploads selecting at once |
| `BackupsArrive` | a request ends, unless the master key was torn | failures and time-outs of either side |
| `KeyIsRegistered` | the key file holds the key the Hub registered for the device in the state | failures, kills, lost answers and removals in any order |
| `LockedEditsKept` | an edit under the lock is made on what the last edit under the lock left | two scripts editing one file |
| `ConnectCompletes` | pressing Connect brings an enrolled firewall's tunnel, rules and heartbeat back | whatever failed half way before |

Each module has one `TypeOK`, which includes who may hold which lock. Every
property of a passing run has a faulty
variant of a modelled operator under which TLC finds it violated
(`PROJECT.json`, "mutants"). All hazards, also those no property covers, are
listed there with their lines.

## 5. Where the code and its documentation differ

Two of these are runs in which TLC reaches a state the documentation excludes.

* `PeerAddTimeout`: `add_peer` timing out in the response read raises a bare
  `TimeoutError`, which `enroll` does not compensate: the row stays active and
  the OTP used, although `docs/security.md` and `docs/test-plan.md` promise the
  opposite of a failed peer installation.
* `ConnectorSlotLeak`: the `finally` clause of `connector_device_tunnel` reads a
  variable that is unbound when the first re-check refuses or is cancelled, and
  the slot stays counted for the life of the session.

The others are reachable in the modules, whose properties except them by name:

* A revocation executed by the sidecar before the enrollment's `add_peer` leaves
  the revoked firewall's peer installed until the next start (`stray` in
  `PeerLifecycle`; README.md: "Firewall revoke flow invalidates device token and
  removes WireGuard peer").
* Two heartbeats on one `state.json` lose the token: a process reads the file
  another has just truncated, or records its 401 over the rotated token
  (`FirewallHoldsToken` is checked for one process; docs/security.md says ordinary
  failures "are recorded as errors without destructive cleanup").
* `clear_plugin_settings` edits config.xml without the lock (`ReadForClear`,
  `ClearSettings`; docs/architecture.md says the edits hold it).
* The code is still in the plugin's settings after the enrollment (`conf.otp` in
  `FirewallPlugin`; docs/architecture.md: "Enrollment code is cleared after
  successful enrollment").
* A second upload that was authorized while a request was pending is stored when
  none is any more (`Flush` in `DeviceBackups`; README.md and docs/security.md:
  "only while a backup request is pending").
* A confirmed "back up now" can be lost: a heartbeat or a settings form that read the
  row while nothing was pending takes the time of a request of its own, waits while an
  upload is stored and "back up now" is committed, and then writes its older time,
  which is before the upload, so that nothing is pending (`backdated` in
  `DeviceBackups`; without this exception TLC refutes `RequestKept`. README.md:
  "manual backup requests ... are processed automatically").

## 6. Proofs

`PeerLifecycle_proofs` proves, for every finite or infinite set of requests,
administrators, keys, codes and companies and every number of addresses:

| Theorem | Statement |
|---|---|
| `TypeCorrect` | `Spec => []TypeOK` |
| `OtpUsedOnce` | `Spec => []OtpSingleUse` |
| `PeersFollowDatabase` | `Spec => []PeerTableSound` |
| `AddressNotShared` | `Spec => []AddressOwned` |
| `FleetImplemented` | `Spec => EnrolledAtomically` |

They use `ParamAssumption` only. `TypeOK` is inductive with two facts about
which handler may have a call under way. `OtpSingleUse` needs `CodeInv`: between
its claim and its commit a request holds the row lock of its code and the code is
still open, and the code of a committed request is no longer open; so a second
request cannot claim it. `PeerTableSound` needs `PeerInv`, whose parts are: the
unique indexes (`RowsUnique`); an enrollment waiting for `add_peer` still has its
row unless its key is stray (`AddLive`); calls nobody waits for have stray keys
(`ZombiesStray`); a removal issued while the row's `add_peer` is under way makes
its key stray (`IssuedStray`); and a peer whose removal has returned stays
removed until the row is revoked (`ClearedGone`). `AddressOwned` follows from
`PeerInv` without another induction.

The refinement needs `FleetInv`: to the invariants of codes and rows it adds that
the codes of a deleted company are gone and all others are not (`CompanyInv`), and
that no row and no request has the Hub's own address (`HubAddressFree`).
`EnrollCommit` is `Enroll`: its code is still open, because its request holds the
claim, and no row has its key or address, because the unique indexes would have
refused it (`CommitEnrolls`). The compensation is `Undo`, whether or not the row was
deleted meanwhile: the firewalls of one code are that row only (`ErrorUndoes`,
`FirewallsDiffer`). Revocation and the deletions are `Revoke`, `Delete` and
`DeleteCompany`; every other step leaves the fleet (`SameFleet`), and `FleetStep`
puts them together.

`ConnectorAccess_proofs` proves, for every finite set of streams, any sessions and
devices and every limit:

| Theorem | Statement |
|---|---|
| `TypeCorrect` | `Spec => []TypeOK` |
| `RevokedStaysClosed` | `Spec => []RevokedIsClosed` |
| `LimitKept` | `Spec => []LimitEnforced` |

They use `ParamAssumption` only; `TypeOK` is inductive. `RevokedIsClosed` needs
`SweepInv`: a swept device is not active (`SweptGone`); from its registration to
its end a task is in the table or being cancelled (`Registered`); a task that was
told "yes" about a swept device was told so before the sweep, and is being
cancelled (`Overtaken`); and no task is asked about before it is registered
(`Unasked`). This is why `connector_device_tunnel` must register before it checks.
`LimitEnforced` needs `LimitInv`, by which the count of a session is within the
limit and no smaller than the number of its streams: leaked slots only make the
count larger.

`DeviceSession_proofs` proves, for every number of overlapping processes, every
set of faults and every bound:

| Theorem | Statement |
|---|---|
| `TypeCorrect` | `Spec => []TypeOK` |
| `StaysConfigured` | with no user operation but `connect`: `Spec => []ActiveStaysConfigured` |
| `TokenIsHeld` | for one process at a time that is not killed, and without lost answers to rotations: `Spec => []FirewallHoldsToken` |

`TypeOK` is not inductive: that a process which took its answer has no request
left needs `CallsOK`, by which a waiting process has one request or one answer
under way and never both, and that every request carries a token needs
`Authentic`. The lemmas `Ends` and `Move` state once what all process steps do to
`CallsOK`. The inductive invariant `StayInv` adds `Quiet`, which follows the 410
backwards: while the row is
active no answer under way has code 410, hence no process is in the removal or
will be when its save ends, and so nobody unlinks the file or edits the crontab.
`TokenIsHeld` needs `HoldInv`, which says where the token the Hub accepts is at
each step (`Held`: about to be written over a truncated file, on its way in the
answer to a rotation, or in the file and in the copy of the process), that a
removal takes the heartbeats away first (`Removed`), and that no rotation is left
to the Hub by a process that has stopped waiting (`Owned`). Failing commands and
any number of late heartbeats are allowed; the hypotheses exclude exactly what
loses a token (section 7). `NoneAssumption` says that `None` is neither a process
nor an answer.

`HealthMonitor_proofs` proves, for every number of processes and firewalls, every
set of faults and all thresholds:

| Theorem | Statement |
|---|---|
| `TypeCorrect` | `Spec => []TypeOK` (not in a run) |
| `LeaderUnique` | `Spec => []OneLeader` |
| `RoundsReadFresh` | `Spec => []ReadsAreFresh` (what a round read of an active firewall, its health and its announcements, is current until it is overwritten, except that a later report may renew an announcement; not in a run, `WatchedAtomically` and `MailsAreNews` rest on it) |
| `NewsOnly` | `Spec => []MailsAreNews` |
| `StatusesExplained` | `Spec => []StatusExplained` |
| `WatchImplemented` | `Spec => WatchedAtomically` |

The inductive invariant `IInv` adds to `TypeOK` that the process in the loop is
the holder of the lock (`LeaderInv`), and what a session holds of a row
(`Tracks`): while the firewall is active the health and the announcements read are
those on record, what was read as renewed still is, the new health is one step of the
automaton from the one read, and the mails sent are none of its status or of what was
recorded. A report during the round can only renew an announcement, so what was news
when it was mailed is news on record. `OneSession` turns the
first into the fact that nobody else has rows loaded when a round commits, which
is why the commit invalidates no other read. `WatchImplemented` maps a commit to
`Round` of the loaded firewalls that are still active (`CommitIsRound`), a
revocation or deletion to `Leave` (`RequestIsLeave`) and every other step to a
stutter. It rests on the assumption built into the model that a lock session
lives as long as its process.

`TcpRelay_proofs` proves, for any sets of requests, devices and ports, every finite
set of clients and every limit:

| Theorem | Statement |
|---|---|
| `TypeCorrect` | `Spec => []TypeOK` |
| `OneRelay` | `Spec => []OneRelayPerDevice` |
| `RevokedRelayIsUndone` | `Spec => []RevokedHasNoRelay` |
| `ClosedIsSilent` | `Spec => []ClosedRelayIsSilent` |

They use `ParamAssumption` only. `TypeOK` is not inductive; `PlaceInv` adds where a
relay may be registered (`Placed`), that only connections which began are
cancelled (`Begun`), that the manager's lock is held exactly while a relay is
created (`Creating`), and that the counter of a relay is no smaller than the
number of connections it serves and never above the limit (`Counted`). `OneInv`
adds the device lock: who closes or creates holds it (`Locked`), and once the old
relay is shut down no relay of the device is registered (`Cleared`), so that the
next registration finds none (`Apart`). `RevokedInv` adds that a device whose
revocation got this far is revoked, and that a relay registered after the
revocation's close belongs to a request that is not yet done with it
(`Withdrawn`): the second look at the device after `create_relay` is what removes
it. `ClosedRelayIsSilent` is inductive with `PlaceInv`.

`LoginSessions_proofs` proves, for any sets of requests, pending logins, sessions,
secrets and providers and every limit of attempts:

| Theorem | Statement |
|---|---|
| `TypeCorrect` | `Spec => []TypeOK` |
| `PendingUsedOnce` | `Spec => []PendingSingleUse` |
| `CodesAreBounded` | `Spec => []AttemptsBounded` |
| `SignInsAreLinked` | `Spec => []SignedInAsLinked` |
| `MfaStaysUsable` | `Spec => []MfaUsable` |

`ParamAssumption` says that at least one attempt is allowed (with a limit of 0 the
code refuses every second step before it looks at the code), and that the names
used for different things differ. `LoginInv` adds to
the ranges who holds which row lock (`Locks`), what a request at each step carries
(`Args`), that the holder of a pending row's lock has its current count of failures
(`Held`), and how that count relates to the codes tried (`Codes`): the second and
third of the theorems follow from it, and they would not without the `FOR UPDATE`
behind `Locks`. `SignedInAsLinked` needs `LinkInv`: identifiers of accounts are
never used again (`Account`), and whatever still refers to the account that exists
now, a session (`SessionLinks`), a copy in a request (`RequestLinks`) or a pending
login (`PendingLinks`), agrees with its provider. `MfaUsable` is inductive with
`LoginInv`.

`Backups_proofs` extends both modules about backups, `HubRestore` and
`DeviceBackups` (which is why names of the latter begin with `Backup` where the
former has the same). About `HubRestore` it proves, for any sets of keys and sessions
and any number of restores:

| Theorem | Statement |
|---|---|
| `TypeCorrect` | `Spec => []TypeOK` |
| `FilesAreBehind` | `Spec => []FilesFollowRows` |
| `SessionsAreNew` | `Spec => []SessionsAreOfThisEra` |
| `PeersAreOfRows` | `Spec => []PeersFollowRows` |

`RestoreInv` adds to `TypeOK` that a restore under way has an archive and may still
commit (`Started`). `FilesInv` adds that a follow-up is marked as undone until it
ends, and that after its first step the logo is the one of the rows; `SessionsInv`
that no session is left when the restore commits. `PeersInv` goes through the
reconciliation: outside of a follow-up a firewall that did not race with one is
either settled or in the middle of its own enrollment or revocation
(`Settled`); during the follow-up it is in neither, and each of its steps
establishes a part of the agreement between rows and peers which the next one
builds on (`Following`): the expected keys, the peers to remove, the peers to add.

About `DeviceBackups` it proves, for every finite set of heartbeat processes, any set
of retention counts and any number of requests, deletions and faults (`MaxEvents`):

| Theorem | Statement |
|---|---|
| `BackupTypeCorrect` | `BackupSpec => []BackupTypeOK` |
| `RequestsAreKept` | `BackupSpec => []RequestKept` |
| `RetentionHolds` | `BackupSpec => RetentionKept` |

They use `BackupAssumption` only. `Shape` adds to `BackupTypeOK` that the stored backups
are finitely many, that the handler with the lock is the one that has flushed, that a
received upload has a time, and that a heartbeat or "back up now" that writes the
request column has one to write: only a form withdraws a request. What everything
rests on is that the next request or receipt is later than every time still held
(`NowIsLater`), hence that a finite set of times has a latest one (`LatestExists`: an
element with the fewest above it, by the well-foundedness of strict inclusion, since
induction is out of reach).

`RequestKept` needs that a configuration older than the last request is under way only
if an upload was under way when the request was made (`OldIsCrossed`), and that nothing
was received after the stamp of a "back up now" still to be committed, unless it is
answered or excepted (`StampIsNew`). A heartbeat or a form may write any time it took
earlier. If that time is later than the last upload, the request is pending still, by
the new time; if it is not, the commit is what `Backdated` says, and the exception is
exactly that. `BackupNow` renews what is owed: with three requests, one made while an
upload was under way, and already answered by it, would otherwise be taken for a
request still owed when the next one is stamped.

`RetentionKept` needs that the backups an upload deletes are still those beyond its
retention count when it commits (`StaleChosen`): others only delete while it has the
lock; and that what is beyond the newest `n` is older than all of them, of which there
are at most `n` (`NewestBounded`).

`FirewallPlugin_proofs` proves, for any set of scripts and any number of codes,
keys and faults:

| Theorem | Statement |
|---|---|
| `TypeCorrect` | `Spec => []TypeOK` |
| `EditsAreKept` | `Spec => LockedEditsKept` |
| `KeysAreRegistered` | `Spec => []KeyIsRegistered` |

They use `ParamAssumption` only. `Base` is `TypeOK` and that no script holds a stale
copy under the lock: an edit could make one stale only for another script that
edits, and there is none. The action property follows from it. The lemmas `Moves`,
`EditMoves` and `Scripts` say once where each action takes its script and what the
script then carries, and everything else is proved from them. `KeyIsRegistered`
needs `PluginInv`: every device in the state or carried by a script was enrolled,
and a script that enrolls has a code and a key (`Genuine`); while scripts do not
overlap all but one are idle (`Solo`); and the key file has the key of the device
in the state and of the device a script carries, is absent while `wg genkey` runs,
and has the key about to be registered (`Kept`). The order of the two unlinks
matters in one place only: between them the state names a device whose key is gone.

## 7. Limits and what is not modelled

Checked by TLC only: all liveness properties (TLAPS has no ENABLED here); every
invariant, action property and refinement of the runs is proved.
`FirewallHoldsToken` is proved and checked only for a single process that is not
killed, and while no answer to a rotation is lost: the Hub forgets the old token before the firewall has the new one, and with
`rotationLost` in `Faults` one lost answer locks the firewall out.

`HealthMonitor` assumes that PostgreSQL keeps the session of the advisory lock
while its process lives; a leader that loses it goes on without noticing, so
`OneLeader` would not survive that. In `DeviceSession` a rotation authorized
before a revocation may commit after it and store the hash of a live token in the
revoked row; no property forbids it, because `revoked_at` is looked at first.
`PeersFollowRows` says nothing of a firewall revoked during the follow-up of a
restore: its peer may be added again by the last loop of the reconciliation.
`KeyIsRegistered` and `ConnectCompletes` are about one script at a time: two
Connects on a firewall without a key generate one each.

Not modelled, and why:

* The rate limiter: every hit is one operation on a window of its own. What others
  see of it is a refusal, which the modules have. The Redis variant sets the
  expiry in a second call, which is listed as a hazard.
* Proxy grants: their functions have no caller. The Hub proxy forwards requests
  and keeps no state of its own.
* Log retention and audit: deletes by age, repeatable, with no reader that
  decides anything by what is deleted.
* The local connector: independent streams; the Hub's side is in `ConnectorAccess`.
* RBAC, pages, branding, CSRF, hardening, diagnostics, migrations: no state of
  their own, or none that changes while the program runs.
* The two variants of `wireguard.py` without a sidecar (dry run, local interface),
  byte streams, cryptography, parsing and rendering.

Durations do not exist: a timeout may happen whenever its wait goes on.

## 8. Plan

1. The lock session lost while its process lives (two leaders against
   `docs/architecture.md`).
2. The company's deletion against a backup under way, and two administrators in
   `HubRestore`.
3. An abstract relay table (one relay per device, opened, replaced and closed in
   one step each) implemented by `TcpRelay`.
