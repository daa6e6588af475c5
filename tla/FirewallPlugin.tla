--------------------------- MODULE FirewallPlugin ---------------------------
(***************************************************************************)
(* The plugin on one firewall: connect.py (enrollment with a one-time      *)
(* code, WireGuard key and tunnel, the edit of config.xml, the crontab     *)
(* entry), disconnect.py and remove.py, also when a heartbeat learned of   *)
(* the revocation.                                                         *)
(*                                                                         *)
(* What they leave on the firewall is changed one piece at a time, by      *)
(* processes configd runs side by side: state.json, the key file, the      *)
(* tunnel interface, config.xml and the crontab.  Commands fail or time    *)
(* out, answers get lost, processes are killed, the power fails.  The      *)
(* tokens and the heartbeats are in DeviceSession, the Hub's side of the   *)
(* enrollment in PeerLifecycle.                                            *)
(***************************************************************************)
EXTENDS Integers, FiniteSets

CONSTANTS
    Procs,      \* processes of the plugin running at the same time
    MaxOtps,    \* bound: one-time codes issued (each names its device row)
    MaxKeys,    \* bound: WireGuard keys generated
    MaxFaults,  \* bound: failures, lost answers, kills
    MaxOverlapFaults, \* bound: the same, where processes overlap
    None

ASSUME ParamAssumption ==
    /\ MaxOtps \in Nat /\ MaxKeys \in Nat /\ MaxFaults \in Nat
    /\ MaxOverlapFaults \in 0..MaxFaults
    /\ None \notin Procs

VARIABLES
    conf,       \* config.xml: the plugin's settings, and whether its interface,
                \* its two rules and its listen address are there (one edit)
    lock,       \* the holder of the lock on CONFIG_LOCK
    state,      \* state.json: absent, torn, error (no device) or a device
    key,        \* wg_private.key
    tunnel,     \* the WireGuard interface: none, bare (created) or up
    cron,       \* the crontab has the heartbeat
    made,       \* keys generated
    faults,     \* faults that happened
    hub,        \* the Hub's view of each code: none, open, active, revoked, deleted
    proc,       \* the plugin's processes
    alone,      \* history: no two processes overlapped
    half        \* history: a removal was cut off between two unlinks

firewall == <<conf, lock, state, key, tunnel, cron>>
history == <<alone, half>>
vars == <<firewall, made, faults, hub, proc, history>>

Otps == 1..MaxOtps
NoFile == [is |-> "absent", id |-> 0]
NoConf == [set |-> FALSE, otp |-> 0, wired |-> FALSE]
Idle == [at |-> "idle", op |-> "none", otp |-> 0, key |-> 0, dev |-> 0,
         copy |-> NoConf, stale |-> FALSE]

Init ==
    /\ conf = NoConf
    /\ lock = None
    /\ state = NoFile /\ key = NoFile
    /\ tunnel = [is |-> "none", id |-> 0]
    /\ cron = FALSE
    /\ made = 0 /\ faults = 0
    /\ hub = [o \in Otps |-> [is |-> "none", key |-> 0]]
    /\ proc = [p \in Procs |-> Idle]
    /\ alone = TRUE /\ half = FALSE

GoTo(p, at) ==
    proc' = [proc EXCEPT ![p] = CASE at = "idle" -> Idle
                                  [] at = "failing" -> [Idle EXCEPT !.at = at]
                                  [] OTHER -> [@ EXCEPT !.at = at]]

Device(d) == [is |-> "device", id |-> d]

\* load_state(): a file that is absent or torn is an empty state.
Loaded == IF state.is = "device" THEN state.id ELSE 0

\* save_state() of a state with or without a device.
Saved(d) == IF d # 0 THEN Device(d) ELSE [is |-> "error", id |-> 0]

Fault == faults < (IF alone THEN MaxFaults ELSE MaxOverlapFaults) /\ faults' = faults + 1
-----------------------------------------------------------------------------
(* connect.py                                                              *)

\* configd starts a script whenever a button is pressed (which of the idle
\* processes it is makes no difference).
Start(p, op, at) ==
    /\ proc[p].at = "idle"
    /\ p = CHOOSE q \in Procs : proc[q].at = "idle"
    /\ proc' = [proc EXCEPT ![p] = [Idle EXCEPT !.at = at, !.op = op,
                                      !.dev = IF op = "disconnect" THEN Loaded ELSE 0]]
    /\ alone' = (alone /\ \A q \in Procs : proc[q].at = "idle")
    /\ alone' \/ faults <= MaxOverlapFaults
    /\ UNCHANGED <<firewall, made, faults, hub, half>>

\* Faulty variant: every connection gets a key of its own.
EnsureKeyAfresh(p) ==
    /\ proc[p].at = "key"
    /\ proc' = [proc EXCEPT ![p].at = IF conf.set THEN "genkey" ELSE "failing", ![p].otp = conf.otp]
    /\ UNCHANGED <<firewall, made, faults, hub, history>>

\* load_settings() and validate_hub_url(), then ensure_private_key(): an existing
\* file is read, a torn one as empty ...
EnsureKey(p) ==
    /\ proc[p].at = "key"
    /\ \/ /\ ~conf.set
          /\ GoTo(p, "failing")
       \/ /\ conf.set /\ key.is = "absent"
          /\ proc' = [proc EXCEPT ![p].at = "genkey", ![p].otp = conf.otp]
       \/ /\ conf.set /\ key.is # "absent"
          /\ proc' = [proc EXCEPT ![p].at = "state", ![p].otp = conf.otp, ![p].key = key.id]
    /\ UNCHANGED <<firewall, made, faults, hub, history>>

\* ... otherwise wg genkey makes one, and it is written.
WriteKey(p) ==
    /\ proc[p].at = "genkey"
    /\ made < MaxKeys
    /\ made' = made + 1
    /\ key' = [is |-> "key", id |-> made']
    /\ proc' = [proc EXCEPT ![p].at = "state", ![p].key = made']
    /\ UNCHANGED <<conf, lock, state, tunnel, cron, faults, hub, history>>

\* Faulty variant: a firewall that has a device enrolls again.
LoadStateIgnored(p) ==
    /\ proc[p].at = "state"
    /\ proc' = [proc EXCEPT ![p].dev = Loaded, ![p].at = IF proc[p].otp # 0 THEN "enroll" ELSE "failing"]
    /\ UNCHANGED <<firewall, made, faults, hub, history>>

\* A firewall that has a device rebuilds its tunnel.  Any other enrolls, which
\* needs a code and a public key.
LoadState(p) ==
    /\ proc[p].at = "state"
    /\ \/ /\ Loaded # 0
          /\ proc' = [proc EXCEPT ![p] = [Idle EXCEPT !.at = "tunnel", !.op = "connect", !.dev = Loaded]]
       \/ /\ Loaded = 0
          /\ GoTo(p, IF proc[p].otp # 0 /\ proc[p].key # 0 THEN "enroll" ELSE "failing")
    /\ UNCHANGED <<firewall, made, faults, hub, history>>

\* The Hub takes an open code and a public key that no row has.
Accepts(o, k) ==
    /\ hub[o].is = "open"
    /\ \A q \in Otps : hub[q].is \in {"active", "revoked"} => hub[q].key # k

Enrolled(o, k) == hub' = [hub EXCEPT ![o] = [is |-> "active", key |-> k]]

\* post_json() to /api/v1/enroll.
Enroll(p) ==
    LET mine == proc[p]
    IN  /\ mine.at = "enroll"
        /\ \/ /\ Accepts(mine.otp, mine.key)
              /\ Enrolled(mine.otp, mine.key)
              /\ proc' = [proc EXCEPT ![p] = [Idle EXCEPT !.at = "save", !.op = "connect", !.dev = mine.otp]]
           \/ /\ ~Accepts(mine.otp, mine.key)
              /\ GoTo(p, "failing")
              /\ UNCHANGED hub
        /\ UNCHANGED <<firewall, made, faults, history>>

\* The firewall is enrolled, and the answer is lost, or its payload is refused by
\* validate_wireguard_payload().
EnrollLost(p) ==
    /\ Fault
    /\ proc[p].at = "enroll" /\ Accepts(proc[p].otp, proc[p].key)
    /\ Enrolled(proc[p].otp, proc[p].key)
    /\ GoTo(p, "failing")
    /\ UNCHANGED <<firewall, made, history>>

\* save_state(): after the enrollment, when connected, and when disconnected.
SaveState(p) ==
    /\ proc[p].at \in {"save", "saveConnected", "saveDisconnected"}
    /\ state' = Saved(proc[p].dev)
    /\ GoTo(p, CASE proc[p].at = "save" -> "tunnel"
                 [] proc[p].at = "saveConnected" -> "cron"
                 [] OTHER -> "idle")
    /\ UNCHANGED <<conf, lock, key, tunnel, cron, made, faults, hub, history>>

\* start_tunnel() destroys the interface and creates it ...
StartTunnel(p) ==
    /\ proc[p].at = "tunnel"
    /\ tunnel' = [is |-> "bare", id |-> 0]
    /\ GoTo(p, "wgset")
    /\ UNCHANGED <<conf, lock, state, key, cron, made, faults, hub, history>>

\* ... and wg set reads the key file.
SetTunnel(p) ==
    /\ proc[p].at = "wgset"
    /\ \/ /\ key.is = "key" /\ tunnel.is # "none"
          /\ tunnel' = [is |-> "up", id |-> key.id]
          /\ GoTo(p, "lock")
       \/ /\ ~(key.is = "key" /\ tunnel.is # "none")
          /\ GoTo(p, "failing")
          /\ UNCHANGED tunnel
    /\ UNCHANGED <<conf, lock, state, key, cron, made, faults, hub, history>>

\* Faulty variant: the lock is taken when the file is written.
LockConfigLate(p) ==
    /\ proc[p].at = "lock"
    /\ lock' = p
    /\ proc' = [proc EXCEPT ![p].at = "edit", ![p].copy = conf, ![p].stale = FALSE]
    /\ UNCHANGED <<conf, state, key, tunnel, cron, made, faults, hub, history>>

\* locked_config_root(): config.xml is parsed under the lock.
LockConfig(p) ==
    /\ proc[p].at = "lock"
    /\ lock = None
    /\ lock' = p
    /\ proc' = [proc EXCEPT ![p].at = "edit", ![p].copy = conf, ![p].stale = FALSE]
    /\ UNCHANGED <<conf, state, key, tunnel, cron, made, faults, hub, history>>

\* ensure_opnsense_integration(): interface, rules and listen address are made or
\* brought up to date.
Ensured(c) == [c EXCEPT !.wired = TRUE]

\* cleanup_opnsense_integration(): they are taken out.
CleanedUp(c) == [c EXCEPT !.wired = FALSE]

\* write_config_root() replaces config.xml, unless it is already as wanted, and
\* the lock is released.
EditConfig(p) ==
    LET mine == proc[p]
        edited == IF mine.op = "connect" THEN Ensured(mine.copy) ELSE CleanedUp(mine.copy)
        next == IF mine.op = "connect" THEN "saveConnected" ELSE "clear"
    IN  /\ mine.at = "edit"
        /\ lock' = None
        /\ IF mine.copy = edited
             THEN /\ proc' = [proc EXCEPT ![p] = [Idle EXCEPT !.at = next, !.op = mine.op, !.dev = mine.dev]]
                  /\ UNCHANGED conf
             ELSE /\ conf' = edited
                  /\ proc' = [q \in Procs |->
                                IF q = p THEN [Idle EXCEPT !.at = next, !.op = mine.op, !.dev = mine.dev]
                                ELSE [proc[q] EXCEPT !.stale = proc[q].at = "edit"]]
        /\ UNCHANGED <<state, key, tunnel, cron, made, faults, hub, history>>

EnsureCron(p) ==
    /\ proc[p].at = "cron"
    /\ cron' = TRUE
    /\ GoTo(p, "idle")
    /\ UNCHANGED <<conf, lock, state, key, tunnel, made, faults, hub, history>>
-----------------------------------------------------------------------------
(* remove.py and disconnect.py                                             *)

Destroy(p) ==
    /\ proc[p].at = "destroy"
    /\ tunnel' = [is |-> "none", id |-> 0]
    /\ GoTo(p, "uncron")
    /\ UNCHANGED <<conf, lock, state, key, cron, made, faults, hub, history>>

RemoveCron(p) ==
    /\ proc[p].at = "uncron"
    /\ cron' = FALSE
    /\ GoTo(p, IF proc[p].op = "remove" THEN "lock" ELSE "saveDisconnected")
    /\ UNCHANGED <<conf, lock, state, key, tunnel, made, faults, hub, history>>

\* clear_plugin_settings() parses config.xml again, without the lock ...
ReadForClear(p) ==
    /\ proc[p].at = "clear"
    /\ proc' = [proc EXCEPT ![p].at = "cleared", ![p].copy = conf]
    /\ UNCHANGED <<firewall, made, faults, hub, history>>

\* ... and replaces it, unless they are clear already.
ClearSettings(p) ==
    /\ proc[p].at = "cleared"
    /\ conf' = IF proc[p].copy.set \/ proc[p].copy.otp # 0
                 THEN [proc[p].copy EXCEPT !.set = FALSE, !.otp = 0] ELSE conf
    /\ proc' = [proc EXCEPT ![p] = [Idle EXCEPT !.at = "unlinkKey", !.op = "remove"]]
    /\ UNCHANGED <<lock, state, key, tunnel, cron, made, faults, hub, history>>

\* A failure there is passed over.
ClearFails(p) ==
    /\ Fault
    /\ proc[p].at = "cleared"
    /\ proc' = [proc EXCEPT ![p] = [Idle EXCEPT !.at = "unlinkKey", !.op = "remove"]]
    /\ UNCHANGED <<firewall, made, hub, history>>

UnlinkKey(p) ==
    /\ proc[p].at = "unlinkKey"
    /\ key' = NoFile
    /\ GoTo(p, "unlinkState")
    /\ UNCHANGED <<conf, lock, state, tunnel, cron, made, faults, hub, history>>

UnlinkState(p) ==
    /\ proc[p].at = "unlinkState"
    /\ state' = NoFile
    /\ GoTo(p, "idle")
    /\ UNCHANGED <<conf, lock, key, tunnel, cron, made, faults, hub, history>>
-----------------------------------------------------------------------------
(* Failures.                                                               *)

Release(p) == lock' = IF lock = p THEN None ELSE lock

\* Faulty variant: the lock is released only after a write.
CommandFailsLocked(p) ==
    /\ Fault
    /\ proc[p].at \in {"genkey", "tunnel", "wgset", "edit", "saveConnected", "clear", "cron", "uncron"}
    /\ GoTo(p, "failing")
    /\ UNCHANGED <<conf, lock, state, key, tunnel, cron, made, hub, history>>

\* A command is missing, fails or times out, or config.xml cannot be read or
\* written.  fail() exits by SystemExit, so that the handler of start_tunnel()
\* (except Exception) does not destroy the interface.
CommandFails(p) ==
    /\ Fault
    /\ proc[p].at \in {"genkey", "tunnel", "wgset", "edit", "saveConnected", "clear", "cron", "uncron"}
    /\ Release(p)
    /\ GoTo(p, "failing")
    /\ UNCHANGED <<conf, state, key, tunnel, cron, made, hub, history>>

\* fail() records the error in the state it finds.
Fail(p) ==
    /\ proc[p].at = "failing"
    /\ state' = Saved(Loaded)
    /\ GoTo(p, "idle")
    /\ UNCHANGED <<conf, lock, key, tunnel, cron, made, faults, hub, history>>

Torn == [is |-> "torn", id |-> 0]

\* A process dies: what it was writing is torn, its lock is released.
Kill(p) ==
    /\ Fault
    /\ proc[p].at # "idle"
    /\ state' = IF proc[p].at \in {"save", "saveConnected", "saveDisconnected", "failing"}
                  THEN Torn ELSE state
    /\ key' = IF proc[p].at = "genkey" THEN Torn ELSE key
    /\ half' = (half \/ proc[p].at = "unlinkState")
    /\ Release(p)
    /\ GoTo(p, "idle")
    /\ UNCHANGED <<conf, tunnel, cron, made, hub, alone>>

\* The firewall restarts: the interface is gone, and nothing makes it again.
Reboot ==
    /\ Fault
    /\ \A p \in Procs : proc[p].at = "idle"
    /\ tunnel' = [is |-> "none", id |-> 0]
    /\ UNCHANGED <<conf, lock, state, key, cron, made, hub, proc, history>>
-----------------------------------------------------------------------------
(* The administrators of the Hub and of the firewall.                      *)

\* A code is issued, and saved in the plugin's form (OPNsense writes config.xml
\* under a lock of its own).
NewOtp(o) ==
    /\ hub[o].is = "none" /\ \A q \in Otps : q < o => hub[q].is # "none"
    /\ hub' = [hub EXCEPT ![o].is = "open"]
    /\ conf' = [conf EXCEPT !.set = TRUE, !.otp = o]
    /\ UNCHANGED <<lock, state, key, tunnel, cron, made, faults, proc, history>>

Revoke(o) ==
    /\ hub[o].is = "active"
    /\ hub' = [hub EXCEPT ![o].is = "revoked"]
    /\ UNCHANGED <<firewall, made, faults, proc, history>>

\* delete_revoked_device(): its public key may be enrolled again.
DeleteRow(o) ==
    /\ hub[o].is = "revoked"
    /\ hub' = [hub EXCEPT ![o] = [is |-> "deleted", key |-> 0]]
    /\ UNCHANGED <<firewall, made, faults, proc, history>>

\* A heartbeat is answered with 410: remove_local_artifacts().
Revoked(p) ==
    /\ cron /\ state.is = "device" /\ hub[state.id].is = "revoked"
    /\ Start(p, "remove", "destroy")

Step(p) ==
    \/ EnsureKey(p) \/ WriteKey(p) \/ LoadState(p) \/ Enroll(p)
    \/ SaveState(p) \/ StartTunnel(p) \/ SetTunnel(p)
    \/ LockConfig(p) \/ EditConfig(p) \/ EnsureCron(p)
    \/ Destroy(p) \/ RemoveCron(p) \/ ReadForClear(p) \/ ClearSettings(p)
    \/ UnlinkKey(p) \/ UnlinkState(p) \/ Fail(p)

Connect(p) == Start(p, "connect", "key")
Disconnect(p) == Start(p, "disconnect", "destroy")
Remove(p) == Start(p, "remove", "destroy")

Next ==
    \/ \E p \in Procs :
          \/ Step(p)
          \/ Connect(p) \/ Disconnect(p) \/ Remove(p) \/ Revoked(p)
          \/ EnrollLost(p) \/ ClearFails(p) \/ CommandFails(p) \/ Kill(p)
    \/ Reboot
    \/ \E o \in Otps : NewOtp(o) \/ Revoke(o) \/ DeleteRow(o)

Spec == Init /\ [][Next]_vars

\* Processes run, and the administrator tries again as long as it is not yet
\* connected.
FairSpec == Spec /\ \A p \in Procs : WF_vars(Step(p)) /\ SF_vars(Connect(p))
-----------------------------------------------------------------------------
(* Properties.                                                             *)

Steps == {"idle", "key", "genkey", "state", "enroll", "save", "tunnel", "wgset",
          "lock", "edit", "saveConnected", "cron", "destroy", "uncron", "saveDisconnected",
          "clear", "cleared", "unlinkKey", "unlinkState", "failing"}

Confs == [set : BOOLEAN, otp : 0..MaxOtps, wired : BOOLEAN]
Processes == [at : Steps, op : {"none", "connect", "disconnect", "remove"},
              otp : 0..MaxOtps, key : 0..MaxKeys, dev : 0..MaxOtps, copy : Confs, stale : BOOLEAN]

\* Every variable stays in its range, and the lock on config.xml is held by the
\* process that edits it and by no other, whatever fails meanwhile.
TypeOK ==
    /\ conf \in Confs
    /\ lock \in Procs \cup {None}
    /\ state \in [is : {"absent", "torn", "error", "device"}, id : 0..MaxOtps]
    /\ key \in [is : {"absent", "torn", "key"}, id : 0..MaxKeys]
    /\ tunnel \in [is : {"none", "bare", "up"}, id : 0..MaxKeys]
    /\ cron \in BOOLEAN
    /\ made \in 0..MaxKeys /\ faults \in 0..MaxFaults
    /\ hub \in [Otps -> [is : {"none", "open", "active", "revoked", "deleted"}, key : 0..MaxKeys]]
    /\ proc \in [Procs -> Processes]
    /\ alone \in BOOLEAN /\ half \in BOOLEAN
    /\ \A p \in Procs : lock = p <=> proc[p].at = "edit"

\* The key file holds the key that the Hub registered for the device in the
\* state, so that the tunnel can be built: through failures, kills, lost answers
\* and removals followed by another enrollment, as long as the administrator
\* does one thing at a time and no removal is cut off between its two unlinks.
KeyIsRegistered ==
    /\ alone /\ ~half
    /\ state.is = "device" /\ hub[state.id].is \in {"active", "revoked"}
    /\ \A p \in Procs : proc[p].at # "unlinkState"
    => key = [is |-> "key", id |-> hub[state.id].key]

\* An edit made under the lock is made on config.xml as the last edit under the
\* lock left it: connect.py and remove.py never undo each other there
\* (docs/architecture.md: "hold a platform lock across read/modify/write").
\* clear_plugin_settings(), which takes no lock, is outside of it.
LockedEditsKept ==
    [][\A p \in Procs : proc[p].at = "edit" /\ conf' # conf /\ proc'[p].at # "edit" => ~proc[p].stale]_vars

Ready == state.is = "device" /\ hub[state.id].is = "active" /\ conf.set

\* Whatever failed before, a firewall that has its device is connected again by
\* pressing Connect: tunnel, rules and heartbeat are there together (under the
\* same provisos as KeyIsRegistered: a removal that was cut off leaves a device
\* whose key is gone).
ConnectCompletes ==
    Ready ~> \/ tunnel.is = "up" /\ conf.wired /\ cron
             \/ ~Ready
             \/ ~alone \/ half
=============================================================================
