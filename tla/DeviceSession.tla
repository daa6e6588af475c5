--------------------------- MODULE DeviceSession ---------------------------
(***************************************************************************)
(* One enrolled firewall talking to the Hub: the heartbeat with its token  *)
(* rotation and firmware report, revocation, and the clean-up it causes on *)
(* the firewall.                                                           *)
(*                                                                         *)
(* The Hub keeps one row (routers/devices.py, deps.py, device_tokens.py);  *)
(* its handlers run in threads, so a request is authorized from one read   *)
(* of the row and commits later.  The plugin keeps state.json; every       *)
(* heartbeat process (cron starts one a minute, whether or not the last    *)
(* one ended) loads it once, works on its copy and writes the whole copy   *)
(* back, by truncating the file first.  The files next to it (the keys,    *)
(* the tunnel configuration) and config.xml are not modelled.              *)
(***************************************************************************)
EXTENDS Naturals, FiniteSets

CONSTANTS
    Procs,      \* plugin processes that may run at the same time
    MaxTokens,  \* bound: tokens the Hub issues
    MaxLate,    \* bound: requests the Hub has yet to handle for nobody
    Faults,     \* what may go wrong, a subset of AllFaults
    UserOps,    \* what the firewall's administrator does, a subset of AllUserOps
    None

AllFaults == {"heartbeatLost", "rotationLost", "killed", "commandFails"}
AllUserOps == {"connect", "disconnect", "remove"}

ASSUME ConstantsAssumption ==
    /\ MaxTokens \in Nat \ {0}
    /\ MaxLate \in Nat
    /\ Faults \subseteq AllFaults
    /\ UserOps \subseteq AllUserOps

VARIABLES
    dev,     \* the Device row: "active", "revoked" (revoked_at set), "deleted"
    hash,    \* the token whose hash the row stores
    age,     \* ... and where device_token_expires_at stands
    issued,  \* number of tokens issued so far
    fwReq,   \* firmware_check_requested_at is set
    sent,    \* requests the Hub has not answered
    reply,   \* per process, the answer on its way
    file,    \* state.json
    cron,    \* the heartbeat line is in the crontab
    proc     \* per process: its next step (at), the token in its copy of the
             \* state (st), the heartbeat answer it acts on (body), and where
             \* it goes on once the state is saved (next)

hubVars == <<dev, hash, age, issued, fwReq>>
vars == <<dev, hash, age, issued, fwReq, sent, reply, file, cron, proc>>

Tokens == 1..MaxTokens
NoToken == 0  \* also what revocation stores: the hash of a secret nobody has

Absent == [is |-> "absent", tok |-> NoToken]
Torn == [is |-> "torn", tok |-> NoToken]  \* truncated or garbled
State(t) == [is |-> "state", tok |-> t]

NoBody == [rotate |-> FALSE, firmware |-> FALSE, backup |-> FALSE]

Idle == [at |-> "idle", st |-> NoToken, body |-> NoBody, next |-> "idle"]

\* load_state(): a file that is missing or does not parse is an empty state.
LoadState == file.tok

Init ==
    /\ dev = "active"
    /\ hash = 1
    /\ age = "fresh"
    /\ issued = 1
    /\ fwReq = FALSE
    /\ sent = {}
    /\ reply = [p \in Procs |-> None]
    /\ file = State(1)
    /\ cron = TRUE
    /\ proc = [p \in Procs |-> Idle]
-----------------------------------------------------------------------------
(* The Hub.                                                                *)

\* Faulty variant: the token is verified before the revocation is looked at.
StatusTokenFirst(r) ==
    CASE dev = "deleted" \/ r.tok # hash \/ age = "expired" -> 401
      [] dev = "revoked" /\ r.tok = hash /\ age # "expired" -> 410
      [] OTHER -> 200

\* device_from_token() on the row as it is now.
StatusFor(r) ==
    CASE dev = "deleted" -> 401
      [] dev = "revoked" -> 410
      [] dev = "active" /\ (r.tok # hash \/ age = "expired") -> 401
      [] OTHER -> 200

Answer(r, a) ==
    /\ sent' = sent \ {r}
    /\ reply' = IF r.by = None THEN reply ELSE [reply EXCEPT ![r.by] = a]

Refusal(code) == [code |-> code, tok |-> NoToken, body |-> NoBody]

\* The handler reads the row; whether a firmware check is pending is taken
\* from that read, after the report the request itself carries.
Authorize(r) ==
    /\ r.phase = "sent"
    /\ StatusFor(r) = 200
    /\ sent' = (sent \ {r}) \cup {[r EXCEPT !.phase = "authorized", !.pending = fwReq]}
    /\ UNCHANGED <<hubVars, reply, file, cron, proc>>

Refuse(r) ==
    /\ r.phase = "sent"
    /\ StatusFor(r) # 200
    /\ Answer(r, Refusal(StatusFor(r)))
    /\ UNCHANGED <<hubVars, file, cron, proc>>

\* The row disappeared under the handler: its UPDATE matches nothing (500).
CommitFails(r) ==
    /\ r.phase = "authorized"
    /\ dev = "deleted"
    /\ Answer(r, Refusal(500))
    /\ UNCHANGED <<hubVars, file, cron, proc>>

\* apply_device_firmware_payload(): whatever the firewall reports, an error or
\* an invalid report as well, is recorded and answers the request.  The column
\* is written only if it was set when the row was read.
ReportClears(r) == r.firmware /\ r.pending

\* heartbeat() commits and answers from the refreshed row.  A report clears
\* the pending request it was read with.  Whether a backup is due is chosen.
CommitHeartbeat(r) ==
    /\ r.phase = "authorized" /\ r.kind = "heartbeat"
    /\ dev # "deleted"
    /\ fwReq' = (fwReq /\ ~ReportClears(r))
    /\ \E backup \in BOOLEAN :
          Answer(r, [code |-> 200, tok |-> NoToken,
                     body |-> [rotate |-> age # "fresh",
                               firmware |-> r.pending /\ ~r.firmware,
                               backup |-> backup]])
    /\ UNCHANGED <<dev, hash, age, issued, file, cron, proc>>

\* rotate_device_token() commits a new hash: only the token columns are
\* written, whatever became of the row since it was read.
CommitRotation(r) ==
    /\ r.phase = "authorized" /\ r.kind = "rotation"
    /\ dev # "deleted"
    /\ issued < MaxTokens
    /\ issued' = issued + 1
    /\ hash' = issued'
    /\ age' = "fresh"
    /\ Answer(r, [code |-> 200, tok |-> issued', body |-> NoBody])
    /\ UNCHANGED <<dev, fwReq, file, cron, proc>>

\* Time passes: the rotation window opens, then the token expires.
TokenAges ==
    /\ age' = CASE age = "fresh" -> "due" [] OTHER -> "expired"
    /\ age # "expired"
    /\ issued < MaxTokens
    /\ UNCHANGED <<dev, hash, issued, fwReq, sent, reply, file, cron, proc>>

\* A firewall that is not revoked is marked; once marked, it stays so.
MarkForFirmwareCheck ==
    /\ dev = "active" /\ ~fwReq
    /\ fwReq' = TRUE
    /\ UNCHANGED <<dev, hash, age, issued, sent, reply, file, cron, proc>>

\* firmware_check_schedule_loop() between 23:00 and midnight, if the day has had
\* no report: which days have one is left open.
ScheduleFirmwareCheck == MarkForFirmwareCheck

\* bulk_device_action() of an administrator, at any time.
RequestFirmwareCheckNow == MarkForFirmwareCheck

\* revoke_device() commits.
Revoke ==
    /\ dev = "active"
    /\ dev' = "revoked"
    /\ hash' = NoToken
    /\ UNCHANGED <<age, issued, fwReq, sent, reply, file, cron, proc>>

\* delete_revoked_device(), or the cascade of delete_company().
DeleteRow ==
    /\ dev # "deleted"
    /\ dev' = "deleted"
    /\ UNCHANGED <<hash, age, issued, fwReq, sent, reply, file, cron, proc>>

Hub ==
    \/ \E r \in sent : \/ Authorize(r)
                       \/ Refuse(r)
                       \/ CommitFails(r)
                       \/ CommitHeartbeat(r)
                       \/ CommitRotation(r)
    \/ TokenAges
    \/ ScheduleFirmwareCheck \/ RequestFirmwareCheckNow
    \/ Revoke
    \/ DeleteRow
-----------------------------------------------------------------------------
(* The plugin: state.json.                                                 *)

GoTo(p, step) ==
    proc' = [proc EXCEPT ![p] = IF step \in {"idle", "done"} THEN Idle
                                ELSE [@ EXCEPT !.at = step]]

\* save_state(t): the file is truncated now and written by a later step,
\* after which the process goes on at `step`.
SaveState(p, t, step) ==
    /\ file' = Torn
    /\ proc' = [proc EXCEPT ![p] =
                   [@ EXCEPT !.at = "writing", !.st = t, !.next = step]]

\* A process that saves as its last act, or to record an error, ends there.
Continue(p) == GoTo(p, proc[p].next)

\* Over what another process wrote in between the result may be garbled.
Write(p) ==
    /\ proc[p].at = "writing"
    /\ file' \in {State(proc[p].st)} \cup IF file = Torn THEN {} ELSE {Torn}
    /\ Continue(p)
    /\ UNCHANGED <<hubVars, sent, reply, cron>>

\* The file was unlinked after it was opened: the write is lost, and chmod
\* fails unless another process made a new file.  The failure is recorded by
\* saving again (a new file), except when it is an error that is being saved.
WriteLost(p) ==
    /\ proc[p].at = "unlinked"
    /\ CASE file # Absent -> Continue(p) /\ UNCHANGED file
         [] file = Absent /\ proc[p].next \in {"idle", "cleanup"} ->
              GoTo(p, "idle") /\ UNCHANGED file
         [] file = Absent /\ proc[p].next = "ensureCron" ->
              GoTo(p, "failing") /\ UNCHANGED file
         [] OTHER -> SaveState(p, proc[p].st, "idle")
    /\ UNCHANGED <<hubVars, sent, reply, cron>>

\* Faulty variant: the request still counts as the process's own.
AbandonKeepsOwner(p) ==
    /\ UNCHANGED sent
    /\ Cardinality({r \in sent' : r.by = None}) <= MaxLate

\* The process stops waiting; the Hub may still handle its request.
Abandon(p) ==
    /\ sent' = {[r EXCEPT !.by = IF @ = p THEN None ELSE @] : r \in sent}
    /\ Cardinality({r \in sent' : r.by = None}) <= MaxLate

\* The process is killed, or the firewall loses power.
Kill(p) ==
    /\ "killed" \in Faults
    /\ proc[p].at # "idle"
    /\ GoTo(p, "idle")
    /\ Abandon(p)
    /\ reply' = [reply EXCEPT ![p] = None]
    /\ UNCHANGED <<hubVars, file, cron>>
-----------------------------------------------------------------------------
(* The plugin: heartbeat.py.                                               *)

StartHeartbeat(p) ==
    /\ proc[p].at = "idle"
    /\ cron
    /\ file # Absent
    /\ GoTo(p, "starting")
    /\ UNCHANGED <<hubVars, sent, reply, file, cron>>

Load(p) ==
    /\ proc[p].at = "starting"
    /\ proc' = [proc EXCEPT ![p] = [Idle EXCEPT !.at = "beat", !.st = LoadState]]
    /\ UNCHANGED <<hubVars, sent, reply, file, cron>>

Request(p, kind, firmware) ==
    sent' = sent \cup {[by |-> p, kind |-> kind, tok |-> proc[p].st, phase |-> "sent",
                        firmware |-> firmware, pending |-> FALSE]}

\* send_heartbeat().  A state without hub_url and device_id raises, and main()
\* saves that state with the error.
Beat(p) ==
    /\ proc[p].at = "beat"
    /\ IF proc[p].st = NoToken
         THEN /\ SaveState(p, NoToken, "idle")
              /\ UNCHANGED sent
         ELSE /\ Request(p, "heartbeat", proc[p].body.firmware)
              /\ GoTo(p, "beating")
              /\ UNCHANGED file
    /\ UNCHANGED <<hubVars, reply, cron>>

AfterRotation(b) ==
    CASE b.firmware -> "collect"
      [] ~b.firmware /\ b.backup -> "upload"
      [] OTHER -> "done"

AfterHeartbeat(b) == IF b.rotate THEN "rotate" ELSE AfterRotation(b)

Consume(p) == reply' = [reply EXCEPT ![p] = None]

Beaten(p) ==
    /\ proc[p].at = "beating" /\ reply[p] # None /\ reply[p].code = 200
    /\ file' = Torn
    /\ proc' = [proc EXCEPT ![p] =
                   [@ EXCEPT !.at = "writing", !.body = reply[p].body,
                             !.next = AfterHeartbeat(reply[p].body)]]
    /\ Consume(p)
    /\ UNCHANGED <<hubVars, sent, cron>>

\* Faulty variant: a rejected token is taken for a revocation.
BeatUnauthorized(p) ==
    /\ proc[p].at = "beating" /\ reply[p] # None /\ reply[p].code \in {401, 410}
    /\ SaveState(p, proc[p].st, "cleanup")
    /\ Consume(p)
    /\ UNCHANGED <<hubVars, sent, cron>>

\* 410 from the heartbeat endpoint: HeartbeatRevoked.
BeatRevoked(p) ==
    /\ proc[p].at = "beating" /\ reply[p] # None /\ reply[p].code = 410
    /\ SaveState(p, proc[p].st, "cleanup")
    /\ Consume(p)
    /\ UNCHANGED <<hubVars, sent, cron>>

\* Every other refusal is recorded as last_error; on the rotation also 410.
Refused(p) ==
    /\ reply[p] # None
    /\ \/ proc[p].at = "beating" /\ reply[p].code \notin {200, 410}
       \/ proc[p].at = "rotating" /\ reply[p].code # 200
    /\ SaveState(p, proc[p].st, "idle")
    /\ Consume(p)
    /\ UNCHANGED <<hubVars, sent, cron>>

\* No answer within 20 seconds.
GiveUp(p) ==
    /\ \/ proc[p].at = "beating" /\ "heartbeatLost" \in Faults
       \/ proc[p].at = "rotating" /\ "rotationLost" \in Faults
    /\ SaveState(p, proc[p].st, "idle")
    /\ Abandon(p)
    /\ Consume(p)
    /\ UNCHANGED <<hubVars, cron>>

Rotate(p) ==
    /\ proc[p].at = "rotate"
    /\ Request(p, "rotation", FALSE)
    /\ GoTo(p, "rotating")
    /\ UNCHANGED <<hubVars, reply, file, cron>>

\* Faulty variant: the new token is not saved at once.
RotatedInMemory(p) ==
    /\ proc[p].at = "rotating" /\ reply[p] # None /\ reply[p].code = 200
    /\ GoTo(p, AfterRotation(proc[p].body))
    /\ Consume(p)
    /\ UNCHANGED <<hubVars, sent, file, cron>>

Rotated(p) ==
    /\ proc[p].at = "rotating" /\ reply[p] # None /\ reply[p].code = 200
    /\ SaveState(p, reply[p].tok, AfterRotation(proc[p].body))
    /\ Consume(p)
    /\ UNCHANGED <<hubVars, sent, cron>>

\* collect_firmware_status() takes up to minutes and returns a report whatever
\* configctl does; it is saved, and goes with the second heartbeat.
Collect(p) ==
    /\ proc[p].at = "collect"
    /\ SaveState(p, proc[p].st, "beat")
    /\ UNCHANGED <<hubVars, sent, reply, cron>>

\* upload_backup() saves the state whether it succeeds or fails.
Upload(p) ==
    /\ proc[p].at = "upload"
    /\ SaveState(p, proc[p].st, "done")
    /\ UNCHANGED <<hubVars, sent, reply, cron>>
-----------------------------------------------------------------------------
(* The plugin: remove_local_artifacts(), connect.py and disconnect.py.     *)

RemoveCron(p) ==
    /\ proc[p].at = "cleanup"
    /\ cron' = FALSE
    /\ GoTo(p, "unconfigure")
    /\ UNCHANGED <<hubVars, sent, reply, file>>

Unconfigure(p) ==
    /\ proc[p].at = "unconfigure"
    /\ GoTo(p, "unlink")
    /\ UNCHANGED <<hubVars, sent, reply, file, cron>>

\* delete_path(STATE_FILE); processes that hold it open write to nowhere.
Unlink(p) ==
    /\ proc[p].at = "unlink"
    /\ file' = Absent
    /\ proc' = [q \in Procs |->
                   IF q = p THEN Idle
                   ELSE IF proc[q].at = "writing"
                        THEN [proc[q] EXCEPT !.at = "unlinked"] ELSE proc[q]]
    /\ UNCHANGED <<hubVars, sent, reply, cron>>

\* A command of crontab, configctl or the tunnel fails or times out: fail()
\* records it in a state it loads afresh, and exits.
CommandFails(p) ==
    /\ "commandFails" \in Faults
    /\ proc[p].at \in {"cleanup", "unconfigure", "connecting", "disconnecting"}
    /\ GoTo(p, "failing")
    /\ UNCHANGED <<hubVars, sent, reply, file, cron>>

Fail(p) ==
    /\ proc[p].at = "failing"
    /\ SaveState(p, LoadState, "idle")
    /\ UNCHANGED <<hubVars, sent, reply, cron>>

UserStarts(p, op, step) ==
    /\ op \in UserOps
    /\ proc[p].at = "idle"
    /\ proc' = [proc EXCEPT ![p] = [Idle EXCEPT !.at = step, !.st = LoadState]]
    /\ UNCHANGED <<hubVars, sent, reply, file, cron>>

\* connect.py on an enrolled firewall rebuilds the tunnel from its state; with
\* an empty state it would need a new OTP (the used one is refused).
Connect(p) ==
    /\ proc[p].at = "connecting"
    /\ IF proc[p].st = NoToken
         THEN GoTo(p, "failing") /\ UNCHANGED file
         ELSE SaveState(p, proc[p].st, "ensureCron")
    /\ UNCHANGED <<hubVars, sent, reply, cron>>

EnsureCron(p) ==
    /\ proc[p].at = "ensureCron"
    /\ cron' = TRUE
    /\ GoTo(p, "idle")
    /\ UNCHANGED <<hubVars, sent, reply, file>>

Disconnect(p) ==
    /\ proc[p].at = "disconnecting"
    /\ cron' = FALSE
    /\ GoTo(p, "disconnected")
    /\ UNCHANGED <<hubVars, sent, reply, file>>

Disconnected(p) ==
    /\ proc[p].at = "disconnected"
    /\ SaveState(p, proc[p].st, "idle")
    /\ UNCHANGED <<hubVars, sent, reply, cron>>

\* What a running process does by itself.
Step(p) ==
    \/ Write(p) \/ WriteLost(p)
    \/ Load(p) \/ Beat(p) \/ Beaten(p) \/ BeatRevoked(p) \/ Refused(p)
    \/ Rotate(p) \/ Rotated(p) \/ Collect(p) \/ Upload(p)
    \/ RemoveCron(p) \/ Unconfigure(p) \/ Unlink(p) \/ Fail(p)
    \/ Connect(p) \/ EnsureCron(p) \/ Disconnect(p) \/ Disconnected(p)

Next ==
    \/ Hub
    \/ \E p \in Procs :
          \/ Step(p)
          \/ StartHeartbeat(p)
          \/ UserStarts(p, "connect", "connecting")
          \/ UserStarts(p, "disconnect", "disconnecting")
          \/ UserStarts(p, "remove", "cleanup")
          \/ Kill(p) \/ GiveUp(p) \/ CommandFails(p)

Spec == Init /\ [][Next]_vars

\* cron starts a heartbeat every minute, also between what the administrator
\* does; processes run, and the Hub answers.  Requests may be lost, but not
\* every answer to a heartbeat is.
FairSpec ==
    /\ Spec
    /\ \A p \in Procs :
          /\ WF_vars(Step(p)) /\ SF_vars(StartHeartbeat(p))
          /\ SF_vars(Beaten(p) \/ BeatRevoked(p) \/ Refused(p))
    /\ SF_vars(\E r \in sent : r.by # None /\ (Authorize(r) \/ Refuse(r)))
    /\ WF_vars(\E r \in sent : \/ Authorize(r) \/ Refuse(r) \/ CommitFails(r)
                               \/ CommitHeartbeat(r) \/ CommitRotation(r))
-----------------------------------------------------------------------------
(* Properties.                                                             *)

Steps == {"idle", "starting", "beat", "beating", "rotate", "rotating", "collect",
          "upload", "writing", "unlinked", "cleanup", "unconfigure", "unlink",
          "failing", "connecting", "ensureCron", "disconnecting", "disconnected"}

Bodies == [rotate : BOOLEAN, firmware : BOOLEAN, backup : BOOLEAN]

Requests == [by : Procs \cup {None}, kind : {"heartbeat", "rotation"}, tok : Tokens,
             phase : {"sent", "authorized"}, firmware : BOOLEAN, pending : BOOLEAN]

Replies == [code : {200, 401, 410, 500}, tok : Tokens \cup {NoToken}, body : Bodies]

ASSUME NoneAssumption == None \notin Procs /\ None \notin Replies

\* Every variable stays in its range, and only a process that waits for an
\* answer has a request or an answer under way.
TypeOK ==
    /\ dev \in {"active", "revoked", "deleted"}
    /\ hash \in Tokens \cup {NoToken}
    /\ age \in {"fresh", "due", "expired"}
    /\ issued \in Tokens
    /\ fwReq \in BOOLEAN
    /\ sent \subseteq Requests
    /\ reply \in [Procs -> Replies \cup {None}]
    /\ file \in [is : {"absent", "torn", "state"}, tok : Tokens \cup {NoToken}]
    /\ file.is # "state" => file.tok = NoToken
    /\ cron \in BOOLEAN
    /\ proc \in [Procs -> [at : Steps, st : Tokens \cup {NoToken}, body : Bodies,
                           next : Steps \cup {"done"}]]
    /\ \A p \in Procs : reply[p] # None => proc[p].at \in {"beating", "rotating"}
    /\ \A r \in sent : r.by # None =>
          proc[r.by].at = IF r.kind = "heartbeat" THEN "beating" ELSE "rotating"

\* The plugin gives up its tunnel, its crontab entry and its state only after
\* the Hub answered a heartbeat with 410: no other refusal, lost answer, race
\* or torn file makes an active firewall dismantle itself.
ActiveStaysConfigured == dev = "active" => cron /\ file # Absent

\* The token the Hub accepts is always in the firewall's state file, in the
\* copy of a process that will save it, or in an answer under way: a firewall
\* can always authenticate again, until its administrator removes the plugin's
\* state (which also takes the heartbeats off the crontab).
FirewallHoldsToken ==
    dev = "active" =>
        \/ file = State(hash)
        \/ \E p \in Procs :
              \/ proc[p].at # "idle" /\ proc[p].st = hash
              \/ reply[p] # None /\ reply[p].tok = hash
        \/ "remove" \in UserOps /\ ~cron /\ file.tok = NoToken

\* A revoked firewall that still sends heartbeats removes its state, although
\* requests and answers get lost, unless its row is deleted or its
\* administrator disconnects it first.
RevokedCleansUp ==
    dev = "revoked" /\ cron ~>
        \/ file = Absent
        \/ dev = "deleted"
        \/ \E p \in Procs : proc[p].at = "disconnecting"
=============================================================================
