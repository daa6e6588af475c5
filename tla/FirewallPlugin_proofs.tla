------------------------ MODULE FirewallPlugin_proofs ------------------------
(***************************************************************************)
(* Proofs about FirewallPlugin: for any number of processes, codes, keys   *)
(* and faults, edits of config.xml under the lock do not undo each other,  *)
(* and the key file keeps the key that the Hub registered for the device.  *)
(***************************************************************************)
EXTENDS FirewallPlugin, TLAPS

\* No process edits a copy of config.xml that another edit has made old.
NoneStale == \A p \in Procs : ~proc[p].stale

Base == TypeOK /\ NoneStale

(***************************************************************************)
(* What becomes of a process.                                              *)
(***************************************************************************)
LEMMA IdleFields ==
    /\ Idle \in Processes
    /\ Idle.at = "idle" /\ Idle.otp = 0 /\ Idle.key = 0 /\ Idle.dev = 0 /\ ~Idle.stale
  BY ParamAssumption DEF Idle, Processes, Steps, Confs, NoConf

\* The process p goes to a step with what it carries; the others stay.
Becomes(p, at, otp, k, dev) ==
    /\ proc' \in [Procs -> Processes]
    /\ proc'[p].at = at /\ proc'[p].otp = otp /\ proc'[p].key = k /\ proc'[p].dev = dev /\ ~proc'[p].stale
    /\ \A q \in Procs \ {p} : proc'[q] = proc[q]

\* A process whose record is replaced.
LEMMA Replaced ==
    ASSUME Base, NEW p \in Procs, NEW new \in Processes, ~new.stale, proc' = [proc EXCEPT ![p] = new]
    PROVE  Becomes(p, new.at, new.otp, new.key, new.dev)
  BY DEF Base, TypeOK, Becomes

LEMMA Goes ==
    ASSUME Base, NEW p \in Procs, NEW at \in Steps, GoTo(p, at)
    PROVE  /\ at \in {"idle", "failing"} => Becomes(p, at, 0, 0, 0)
           /\ at \notin {"idle", "failing"} => Becomes(p, at, proc[p].otp, proc[p].key, proc[p].dev)
<1>1. proc[p] \in Processes /\ ~proc[p].stale
  BY DEF Base, TypeOK, NoneStale
<1>2. CASE at = "idle"
  <2>1. proc' = [proc EXCEPT ![p] = Idle]
    BY <1>2 DEF GoTo
  <2> QED BY <1>2, <2>1, IdleFields, Replaced
<1>3. CASE at = "failing"
  <2> DEFINE new == [Idle EXCEPT !.at = at]
  <2>1. proc' = [proc EXCEPT ![p] = new]
    BY <1>3 DEF GoTo
  <2>2. new \in Processes /\ new.at = at /\ new.otp = 0 /\ new.key = 0 /\ new.dev = 0 /\ ~new.stale
    BY IdleFields DEF Processes
  <2> HIDE DEF new
  <2>3. Becomes(p, new.at, new.otp, new.key, new.dev)
    BY <2>1, <2>2, Replaced
  <2> QED BY <1>3, <2>2, <2>3
<1>4. CASE at \notin {"idle", "failing"}
  <2> DEFINE new == [proc[p] EXCEPT !.at = at]
  <2>1. proc' = [proc EXCEPT ![p] = new]
    BY <1>4 DEF GoTo
  <2>2. /\ new \in Processes /\ new.at = at /\ new.otp = proc[p].otp /\ new.key = proc[p].key
        /\ new.dev = proc[p].dev /\ ~new.stale
    BY <1>1 DEF Processes
  <2> HIDE DEF new
  <2>3. Becomes(p, new.at, new.otp, new.key, new.dev)
    BY <2>1, <2>2, Replaced
  <2> QED BY <1>4, <2>2, <2>3
<1> QED BY <1>2, <1>3, <1>4

\* A process that begins, or goes on, with no more than a device.
LEMMA Begins ==
    ASSUME Base, NEW p \in Procs, NEW at \in Steps, NEW op \in {"connect", "disconnect", "remove"},
           NEW dev \in 0..MaxOtps,
           \/ proc' = [proc EXCEPT ![p] = [Idle EXCEPT !.at = at, !.op = op, !.dev = dev]]
           \/ dev = 0 /\ proc' = [proc EXCEPT ![p] = [Idle EXCEPT !.at = at, !.op = op]]
    PROVE  Becomes(p, at, 0, 0, dev)
<1>1. CASE proc' = [proc EXCEPT ![p] = [Idle EXCEPT !.at = at, !.op = op, !.dev = dev]]
  <2> DEFINE new == [Idle EXCEPT !.at = at, !.op = op, !.dev = dev]
  <2>1. new \in Processes /\ new.at = at /\ new.otp = 0 /\ new.key = 0 /\ new.dev = dev /\ ~new.stale
    BY IdleFields DEF Processes
  <2>2. proc' = [proc EXCEPT ![p] = new]
    BY <1>1
  <2> HIDE DEF new
  <2>3. Becomes(p, new.at, new.otp, new.key, new.dev)
    BY <2>1, <2>2, Replaced
  <2> QED BY <2>1, <2>3
<1>2. CASE dev = 0 /\ proc' = [proc EXCEPT ![p] = [Idle EXCEPT !.at = at, !.op = op]]
  <2> DEFINE new == [Idle EXCEPT !.at = at, !.op = op]
  <2>1. new \in Processes /\ new.at = at /\ new.otp = 0 /\ new.key = 0 /\ new.dev = dev /\ ~new.stale
    BY <1>2, IdleFields DEF Processes
  <2>2. proc' = [proc EXCEPT ![p] = new]
    BY <1>2
  <2> HIDE DEF new
  <2>3. Becomes(p, new.at, new.otp, new.key, new.dev)
    BY <2>1, <2>2, Replaced
  <2> QED BY <2>1, <2>3
<1> QED BY <1>1, <1>2

\* A process that is at a step with other things to carry.
LEMMA Carries ==
    ASSUME Base, NEW p \in Procs, NEW at \in Steps, NEW otp \in 0..MaxOtps, NEW k \in 0..MaxKeys,
           NEW copy \in Confs,
           \/ proc' = [proc EXCEPT ![p].at = at, ![p].otp = otp] /\ k = proc[p].key
           \/ proc' = [proc EXCEPT ![p].at = at, ![p].otp = otp, ![p].key = k]
           \/ proc' = [proc EXCEPT ![p].at = at, ![p].key = k] /\ otp = proc[p].otp
           \/ proc' = [proc EXCEPT ![p].at = at, ![p].copy = copy] /\ otp = proc[p].otp /\ k = proc[p].key
           \/ /\ proc' = [proc EXCEPT ![p].at = at, ![p].copy = copy, ![p].stale = FALSE]
              /\ otp = proc[p].otp /\ k = proc[p].key
    PROVE  Becomes(p, at, otp, k, proc[p].dev)
<1>1. proc \in [Procs -> Processes] /\ proc[p] \in Processes /\ ~proc[p].stale
  BY DEF Base, TypeOK, NoneStale
<1>2. PICK new \in {[proc[p] EXCEPT !.at = at, !.otp = otp], [proc[p] EXCEPT !.at = at, !.otp = otp, !.key = k],
                    [proc[p] EXCEPT !.at = at, !.key = k], [proc[p] EXCEPT !.at = at, !.copy = copy],
                    [proc[p] EXCEPT !.at = at, !.copy = copy, !.stale = FALSE]} :
         /\ proc' = [proc EXCEPT ![p] = new]
         /\ new.otp = otp /\ new.key = k
  BY <1>1 DEF Processes
<1>3. new \in Processes /\ new.at = at /\ new.dev = proc[p].dev /\ ~new.stale
  BY <1>1 DEF Processes
<1>4. Becomes(p, new.at, new.otp, new.key, new.dev)
  BY <1>2, <1>3, Replaced
<1> QED BY <1>2, <1>3, <1>4

\* Where each step takes its process, with what it carries.
Onward(p, at) == Becomes(p, at, proc[p].otp, proc[p].key, proc[p].dev)

LEMMA Moves ==
    ASSUME Base, NEW p \in Procs
    PROVE  /\ EnsureKey(p) => \/ Becomes(p, "failing", 0, 0, 0)
                              \/ key.is = "absent" /\ Becomes(p, "genkey", conf.otp, proc[p].key, proc[p].dev)
                              \/ key.is # "absent" /\ Becomes(p, "state", conf.otp, key.id, proc[p].dev)
           /\ WriteKey(p) => Becomes(p, "state", proc[p].otp, made', proc[p].dev)
           /\ LoadState(p) => \/ Loaded # 0 /\ Becomes(p, "tunnel", 0, 0, Loaded)
                              \/ Becomes(p, "failing", 0, 0, 0)
                              \/ Loaded = 0 /\ proc[p].otp # 0 /\ proc[p].key # 0 /\ Onward(p, "enroll")
           /\ Enroll(p) => \/ /\ Accepts(proc[p].otp, proc[p].key) /\ Enrolled(proc[p].otp, proc[p].key)
                              /\ Becomes(p, "save", 0, 0, proc[p].otp)
                           \/ hub' = hub /\ Becomes(p, "failing", 0, 0, 0)
           /\ SaveState(p) => Onward(p, "tunnel") \/ Onward(p, "cron") \/ Becomes(p, "idle", 0, 0, 0)
           /\ StartTunnel(p) => Onward(p, "wgset")
           /\ SetTunnel(p) => Onward(p, "lock") \/ Becomes(p, "failing", 0, 0, 0)
           /\ LockConfig(p) => Onward(p, "edit")
           /\ EnsureCron(p) => Becomes(p, "idle", 0, 0, 0)
           /\ Destroy(p) => Onward(p, "uncron")
           /\ RemoveCron(p) => Onward(p, "lock") \/ Onward(p, "saveDisconnected")
           /\ ReadForClear(p) => Onward(p, "cleared")
           /\ ClearSettings(p) \/ ClearFails(p) => Becomes(p, "unlinkKey", 0, 0, 0)
           /\ UnlinkKey(p) => Onward(p, "unlinkState")
           /\ UnlinkState(p) \/ Fail(p) \/ Kill(p) => Becomes(p, "idle", 0, 0, 0)
           /\ EnrollLost(p) \/ CommandFails(p) => Becomes(p, "failing", 0, 0, 0)
<1> USE DEF Onward
<1>1. /\ proc[p].otp \in 0..MaxOtps /\ proc[p].dev \in 0..MaxOtps /\ proc[p].copy \in Confs
      /\ proc[p].key \in 0..MaxKeys
      /\ conf \in Confs /\ conf.otp \in 0..MaxOtps /\ key.id \in 0..MaxKeys /\ made \in 0..MaxKeys
      /\ Loaded \in 0..MaxOtps
  BY ParamAssumption DEF Base, TypeOK, Processes, Confs, Loaded
<1>2. ASSUME NEW at \in Steps \ {"idle", "failing"}, GoTo(p, at) PROVE Onward(p, at)
  BY <1>2, Goes
<1>3. ASSUME NEW at \in {"idle", "failing"}, GoTo(p, at) PROVE Becomes(p, at, 0, 0, 0)
  BY <1>3, Goes DEF Steps
<1>4. EnsureKey(p) => \/ Becomes(p, "failing", 0, 0, 0)
                      \/ key.is = "absent" /\ Becomes(p, "genkey", conf.otp, proc[p].key, proc[p].dev)
                      \/ key.is # "absent" /\ Becomes(p, "state", conf.otp, key.id, proc[p].dev)
  BY <1>1, <1>3, Carries DEF EnsureKey, Steps
<1>5. WriteKey(p) => Becomes(p, "state", proc[p].otp, made', proc[p].dev)
  <2> SUFFICES ASSUME WriteKey(p) PROVE Becomes(p, "state", proc[p].otp, made', proc[p].dev)
    OBVIOUS
  <2>1. made' \in 0..MaxKeys
    BY <1>1, ParamAssumption DEF WriteKey
  <2>2. proc' = [proc EXCEPT ![p].at = "state", ![p].key = made']
    BY DEF WriteKey
  <2> QED BY <1>1, <2>1, <2>2, Carries DEF Steps
<1>6. LoadState(p) => \/ Loaded # 0 /\ Becomes(p, "tunnel", 0, 0, Loaded)
                      \/ Becomes(p, "failing", 0, 0, 0)
                      \/ Loaded = 0 /\ proc[p].otp # 0 /\ proc[p].key # 0 /\ Onward(p, "enroll")
  <2>1. CASE Loaded # 0
    BY <1>1, <2>1, Begins DEF LoadState, Steps
  <2>2. CASE Loaded = 0 /\ proc[p].otp # 0 /\ proc[p].key # 0
    BY <1>2, <2>2 DEF LoadState, Steps
  <2>3. CASE Loaded = 0 /\ ~(proc[p].otp # 0 /\ proc[p].key # 0)
    BY <1>3, <2>3 DEF LoadState
  <2> QED BY <2>1, <2>2, <2>3
<1>7. Enroll(p) => \/ /\ Accepts(proc[p].otp, proc[p].key) /\ Enrolled(proc[p].otp, proc[p].key)
                      /\ Becomes(p, "save", 0, 0, proc[p].otp)
                   \/ hub' = hub /\ Becomes(p, "failing", 0, 0, 0)
  BY <1>1, <1>3, Begins DEF Enroll, Steps
<1>8. SaveState(p) => Onward(p, "tunnel") \/ Onward(p, "cron") \/ Becomes(p, "idle", 0, 0, 0)
  BY <1>2, <1>3 DEF SaveState, Steps
<1>9. /\ StartTunnel(p) => Onward(p, "wgset")
      /\ Destroy(p) => Onward(p, "uncron")
      /\ UnlinkKey(p) => Onward(p, "unlinkState")
  BY <1>2 DEF StartTunnel, Destroy, UnlinkKey, Steps
<1>10. SetTunnel(p) => Onward(p, "lock") \/ Becomes(p, "failing", 0, 0, 0)
  BY <1>2, <1>3 DEF SetTunnel, Steps
<1>11. LockConfig(p) => Onward(p, "edit")
  BY <1>1, Carries DEF LockConfig, Steps
<1>12. RemoveCron(p) => Onward(p, "lock") \/ Onward(p, "saveDisconnected")
  BY <1>2 DEF RemoveCron, Steps
<1>13. ReadForClear(p) => Onward(p, "cleared")
  BY <1>1, Carries DEF ReadForClear, Steps
<1>14. ClearSettings(p) \/ ClearFails(p) => Becomes(p, "unlinkKey", 0, 0, 0)
  <2> SUFFICES ASSUME ClearSettings(p) \/ ClearFails(p) PROVE Becomes(p, "unlinkKey", 0, 0, 0)
    OBVIOUS
  <2>1. proc' = [proc EXCEPT ![p] = [Idle EXCEPT !.at = "unlinkKey", !.op = "remove"]]
    BY DEF ClearSettings, ClearFails
  <2>2. 0 \in 0..MaxOtps
    BY ParamAssumption
  <2> QED BY <2>1, <2>2, Begins DEF Steps
<1>15. EnsureCron(p) \/ UnlinkState(p) \/ Fail(p) \/ Kill(p) => Becomes(p, "idle", 0, 0, 0)
  BY <1>3 DEF EnsureCron, UnlinkState, Fail, Kill
<1>16. EnrollLost(p) \/ CommandFails(p) => Becomes(p, "failing", 0, 0, 0)
  BY <1>3 DEF EnrollLost, CommandFails
<1> QED BY <1>4, <1>5, <1>6, <1>7, <1>8, <1>9, <1>10, <1>11, <1>12, <1>13, <1>14, <1>15, <1>16

\* An edit ends at the next step; nobody else is editing, so that nobody else's
\* copy becomes old.
LEMMA EditMoves ==
    ASSUME Base, NEW p \in Procs, EditConfig(p)
    PROVE  Becomes(p, "saveConnected", 0, 0, proc[p].dev) \/ Becomes(p, "clear", 0, 0, proc[p].dev)
<1> DEFINE next == IF proc[p].op = "connect" THEN "saveConnected" ELSE "clear"
           new == [Idle EXCEPT !.at = next, !.op = proc[p].op, !.dev = proc[p].dev]
<1>1. /\ proc \in [Procs -> Processes] /\ proc[p] \in Processes /\ proc[p].at = "edit"
      /\ \A q \in Procs \ {p} : proc[q].at # "edit"
  BY DEF EditConfig, Base, TypeOK
<1>2. /\ new \in Processes /\ new.at = next /\ new.otp = 0 /\ new.key = 0 /\ new.dev = proc[p].dev
      /\ ~new.stale
  BY <1>1, IdleFields DEF Processes, Steps
<1>3. \A q \in Procs \ {p} : [proc[q] EXCEPT !.stale = proc[q].at = "edit"] = proc[q]
  <2> TAKE q \in Procs \ {p}
  <2>1. proc[q] \in Processes /\ proc[q].stale = FALSE /\ (proc[q].at = "edit") = FALSE
    BY <1>1 DEF Base, NoneStale, Processes
  <2> QED BY <2>1 DEF Processes
<1>4. \/ proc' = [proc EXCEPT ![p] = new]
      \/ proc' = [q \in Procs |-> IF q = p THEN new ELSE [proc[q] EXCEPT !.stale = proc[q].at = "edit"]]
  BY DEF EditConfig
<1> HIDE DEF new
<1>5. proc' = [proc EXCEPT ![p] = new]
  BY <1>1, <1>3, <1>4
<1>6. Becomes(p, new.at, new.otp, new.key, new.dev)
  BY <1>2, <1>5, Replaced
<1> QED BY <1>2, <1>6

(***************************************************************************)
(* Ranges and the lock.                                                    *)
(***************************************************************************)
\* The variables but the lock and the processes.
FilesTyped ==
    /\ conf \in Confs
    /\ state \in [is : {"absent", "torn", "error", "device"}, id : 0..MaxOtps]
    /\ key \in [is : {"absent", "torn", "key"}, id : 0..MaxKeys]
    /\ tunnel \in [is : {"none", "bare", "up"}, id : 0..MaxKeys]
    /\ cron \in BOOLEAN
    /\ made \in 0..MaxKeys /\ faults \in 0..MaxFaults
    /\ hub \in [Otps -> [is : {"none", "open", "active", "revoked", "deleted"}, key : 0..MaxKeys]]
    /\ alone \in BOOLEAN /\ half \in BOOLEAN

\* The lock is held by the process that edits.
LEMMA LockKept ==
    ASSUME Base, NEW p \in Procs, NEW at, NEW otp, NEW k, NEW dev, Becomes(p, at, otp, k, dev), FilesTyped',
           \/ lock' = lock /\ at # "edit" /\ proc[p].at # "edit"
           \/ lock' = (IF lock = p THEN None ELSE lock) /\ at # "edit"
           \/ lock = None /\ lock' = p /\ at = "edit"
    PROVE  Base'
<1>1. \A q \in Procs : lock = q <=> proc[q].at = "edit"
  BY DEF Base, TypeOK
<1>2. /\ proc' \in [Procs -> Processes] /\ proc'[p].at = at
      /\ \A q \in Procs \ {p} : proc'[q] = proc[q]
  BY DEF Becomes
<1>3. \A q \in Procs : lock' = q <=> proc'[q].at = "edit"
  BY <1>1, <1>2, ParamAssumption
<1>4. lock' \in Procs \cup {None}
  BY DEF Base, TypeOK
<1>5. NoneStale'
  BY DEF Base, NoneStale, Becomes
<1> QED BY <1>2, <1>3, <1>4, <1>5 DEF Base, TypeOK, FilesTyped

\* A fault is within its bound.
LEMMA FaultTyped == ASSUME Base, Fault PROVE faults' \in 0..MaxFaults
  BY ParamAssumption DEF Fault, Base, TypeOK

\* What a step of the plugin leaves on the firewall is in range.
LEMMA StepTyped == ASSUME Base, NEW p \in Procs, Step(p) PROVE FilesTyped'
<1>1. FilesTyped
  BY DEF Base, TypeOK, FilesTyped
<1>2. /\ proc[p].dev \in 0..MaxOtps /\ proc[p].key \in 0..MaxKeys /\ proc[p].copy \in Confs
      /\ 0 \in 0..MaxOtps /\ 0 \in 0..MaxKeys
  BY ParamAssumption DEF Base, TypeOK, Processes
<1> USE DEF firewall, history
<1>3. CASE EnsureKey(p) \/ LoadState(p) \/ LockConfig(p) \/ ReadForClear(p)
  BY <1>1, <1>3 DEF EnsureKey, LoadState, LockConfig, ReadForClear, FilesTyped
<1>4. CASE WriteKey(p)
  <2>1. made' \in 0..MaxKeys /\ key' = [is |-> "key", id |-> made']
    BY <1>1, <1>4, ParamAssumption DEF WriteKey, FilesTyped
  <2> QED BY <1>1, <1>4, <2>1 DEF WriteKey, FilesTyped
<1>5. CASE Enroll(p)
  <2>1. hub' = hub \/ hub' = [hub EXCEPT ![proc[p].otp] = [is |-> "active", key |-> proc[p].key]]
    BY <1>5 DEF Enroll, Enrolled
  <2>2. hub' \in [Otps -> [is : {"none", "open", "active", "revoked", "deleted"}, key : 0..MaxKeys]]
    BY <1>1, <1>2, <2>1 DEF FilesTyped
  <2> QED BY <1>1, <1>5, <2>2 DEF Enroll, FilesTyped
<1>6. CASE SaveState(p) \/ Fail(p) \/ UnlinkState(p)
  <2>1. \A d \in 0..MaxOtps : Saved(d) \in [is : {"absent", "torn", "error", "device"}, id : 0..MaxOtps]
    BY <1>2 DEF Saved, Device
  <2>2. Loaded \in 0..MaxOtps /\ NoFile \in [is : {"absent", "torn", "error", "device"}, id : 0..MaxOtps]
    BY <1>1, <1>2 DEF FilesTyped, Loaded, NoFile
  <2>3. state' \in [is : {"absent", "torn", "error", "device"}, id : 0..MaxOtps]
    BY <1>2, <1>6, <2>1, <2>2 DEF SaveState, Fail, UnlinkState
  <2> QED BY <1>1, <1>6, <2>3 DEF SaveState, Fail, UnlinkState, FilesTyped
<1>7. CASE StartTunnel(p) \/ SetTunnel(p) \/ Destroy(p)
  <2>1. tunnel' \in [is : {"none", "bare", "up"}, id : 0..MaxKeys]
    BY <1>1, <1>2, <1>7 DEF StartTunnel, SetTunnel, Destroy, FilesTyped
  <2> QED BY <1>1, <1>7, <2>1 DEF StartTunnel, SetTunnel, Destroy, FilesTyped
<1>8. CASE EditConfig(p)
  <2>1. conf' = conf \/ conf' = Ensured(proc[p].copy) \/ conf' = CleanedUp(proc[p].copy)
    BY <1>8 DEF EditConfig
  <2>2. conf' \in Confs
    BY <1>1, <1>2, <2>1 DEF Ensured, CleanedUp, Confs, FilesTyped
  <2> QED BY <1>1, <1>8, <2>2 DEF EditConfig, FilesTyped
<1>9. CASE EnsureCron(p) \/ RemoveCron(p)
  BY <1>1, <1>9 DEF EnsureCron, RemoveCron, FilesTyped
<1>10. CASE ClearSettings(p)
  <2>1. conf' = conf \/ conf' = [proc[p].copy EXCEPT !.set = FALSE, !.otp = 0]
    BY <1>10 DEF ClearSettings
  <2>2. conf' \in Confs
    BY <1>1, <1>2, <2>1 DEF Confs, FilesTyped
  <2> QED BY <1>1, <1>10, <2>2 DEF ClearSettings, FilesTyped
<1>11. CASE UnlinkKey(p)
  <2>1. key' \in [is : {"absent", "torn", "key"}, id : 0..MaxKeys]
    BY <1>2, <1>11 DEF UnlinkKey, NoFile
  <2> QED BY <1>1, <1>11, <2>1 DEF UnlinkKey, FilesTyped
<1> QED BY <1>3, <1>4, <1>5, <1>6, <1>7, <1>8, <1>9, <1>10, <1>11 DEF Step

\* A step of the plugin keeps the ranges and the lock.
LEMMA StepBase == ASSUME Base, NEW p \in Procs, Step(p) PROVE Base'
<1> USE DEF firewall, history, Onward
<1>1. FilesTyped'
  BY StepTyped
<1>2. ASSUME NEW at, NEW otp, NEW k, NEW dev, Becomes(p, at, otp, k, dev), at # "edit",
             lock' = lock, proc[p].at # "edit"
      PROVE  Base'
  BY <1>1, <1>2, LockKept
<1>3. CASE \/ EnsureKey(p) \/ WriteKey(p) \/ LoadState(p) \/ Enroll(p)
           \/ SaveState(p) \/ StartTunnel(p) \/ SetTunnel(p)
  <2>1. lock' = lock /\ proc[p].at # "edit"
    BY <1>3 DEF EnsureKey, WriteKey, LoadState, Enroll, SaveState, StartTunnel, SetTunnel
  <2>2. \E at, otp, k, dev : Becomes(p, at, otp, k, dev) /\ at # "edit"
    BY <1>3, Moves
  <2> QED BY <1>2, <2>1, <2>2
<1>4. CASE \/ EnsureCron(p) \/ Destroy(p) \/ RemoveCron(p) \/ ReadForClear(p) \/ ClearSettings(p)
           \/ UnlinkKey(p) \/ UnlinkState(p) \/ Fail(p)
  <2>1. lock' = lock /\ proc[p].at # "edit"
    BY <1>4 DEF EnsureCron, Destroy, RemoveCron, ReadForClear, ClearSettings, UnlinkKey, UnlinkState, Fail
  <2>2. \E at, otp, k, dev : Becomes(p, at, otp, k, dev) /\ at # "edit"
    BY <1>4, Moves
  <2> QED BY <1>2, <2>1, <2>2
<1>5. CASE LockConfig(p)
  <2>1. lock = None /\ lock' = p
    BY <1>5 DEF LockConfig
  <2> QED BY <1>1, <1>5, <2>1, LockKept, Moves
<1>6. CASE EditConfig(p)
  <2>1. lock = p /\ lock' = None
    BY <1>6 DEF EditConfig, Base, TypeOK
  <2>2. PICK at, dev : Becomes(p, at, 0, 0, dev) /\ at # "edit"
    BY <1>6, EditMoves
  <2> QED BY <1>1, <2>1, <2>2, LockKept
<1> QED BY <1>3, <1>4, <1>5, <1>6 DEF Step

\* A script begins, for the device that disconnect.py reads, or for none.
StartsAs(p, op, at) ==
    /\ proc[p].at = "idle"
    /\ Becomes(p, at, 0, 0, IF op = "disconnect" THEN Loaded ELSE 0)
    /\ alone' = (alone /\ \A q \in Procs : proc[q].at = "idle")
    /\ UNCHANGED <<conf, lock, state, key, tunnel, cron, made, faults, hub, half>>

LEMMA Starts ==
    ASSUME Base, NEW p \in Procs, NEW op \in {"connect", "disconnect", "remove"}, NEW at \in Steps,
           Start(p, op, at)
    PROVE  StartsAs(p, op, at)
<1> DEFINE dev == IF op = "disconnect" THEN Loaded ELSE 0
<1>1. dev \in 0..MaxOtps
  BY ParamAssumption DEF Base, TypeOK, Loaded
<1>2. proc' = [proc EXCEPT ![p] = [Idle EXCEPT !.at = at, !.op = op, !.dev = dev]]
  BY DEF Start
<1> HIDE DEF dev
<1>3. Becomes(p, at, 0, 0, dev)
  BY <1>1, <1>2, Begins
<1> QED BY <1>3 DEF Start, StartsAs, firewall, dev

LEMMA Scripts ==
    ASSUME Base, NEW p \in Procs, Connect(p) \/ Disconnect(p) \/ Remove(p) \/ Revoked(p)
    PROVE  \E op \in {"connect", "disconnect", "remove"}, at \in {"key", "destroy"} : StartsAs(p, op, at)
<1>1. \E op \in {"connect", "disconnect", "remove"}, at \in {"key", "destroy"} : Start(p, op, at)
  BY DEF Connect, Disconnect, Remove, Revoked
<1> QED BY <1>1, Starts DEF Steps

LEMMA StartBase ==
    ASSUME Base, NEW p \in Procs, NEW op \in {"connect", "disconnect", "remove"}, NEW at \in {"key", "destroy"},
           StartsAs(p, op, at)
    PROVE  Base'
<1>1. FilesTyped'
  BY DEF StartsAs, FilesTyped, Base, TypeOK
<1> QED BY <1>1, LockKept DEF StartsAs

LEMMA FaultBase ==
    ASSUME Base, NEW p \in Procs, EnrollLost(p) \/ ClearFails(p) \/ CommandFails(p) \/ Kill(p)
    PROVE  Base'
<1> USE DEF firewall, history
<1>1. FilesTyped /\ faults' \in 0..MaxFaults
  BY FaultTyped DEF Base, TypeOK, FilesTyped, EnrollLost, ClearFails, CommandFails, Kill
<1>2. proc[p].key \in 0..MaxKeys /\ 0 \in 0..MaxOtps /\ 0 \in 0..MaxKeys
  BY ParamAssumption DEF Base, TypeOK, Processes
<1>3. FilesTyped'
  <2>1. CASE EnrollLost(p)
    <3>1. hub' = [hub EXCEPT ![proc[p].otp] = [is |-> "active", key |-> proc[p].key]]
      BY <2>1 DEF EnrollLost, Enrolled
    <3>2. hub' \in [Otps -> [is : {"none", "open", "active", "revoked", "deleted"}, key : 0..MaxKeys]]
      BY <1>1, <1>2, <3>1 DEF FilesTyped
    <3> QED BY <1>1, <2>1, <3>2 DEF EnrollLost, FilesTyped
  <2>2. CASE ClearFails(p) \/ CommandFails(p)
    BY <1>1, <2>2 DEF ClearFails, CommandFails, FilesTyped
  <2>3. CASE Kill(p)
    <3>1. /\ state' \in [is : {"absent", "torn", "error", "device"}, id : 0..MaxOtps]
          /\ key' \in [is : {"absent", "torn", "key"}, id : 0..MaxKeys]
      BY <1>1, <1>2, <2>3 DEF Kill, Torn, FilesTyped
    <3> QED BY <1>1, <2>3, <3>1 DEF Kill, FilesTyped
  <2> QED BY <2>1, <2>2, <2>3
<1>4. \E at \in {"idle", "failing", "unlinkKey"} : Becomes(p, at, 0, 0, 0)
  BY Moves
<1>5. lock' = (IF lock = p THEN None ELSE lock) \/ (lock' = lock /\ proc[p].at # "edit")
  BY DEF EnrollLost, ClearFails, CommandFails, Kill, Release
<1> QED BY <1>3, <1>4, <1>5, LockKept

\* A restart of the firewall, and the work of the administrators.
LEMMA OutsideBase ==
    ASSUME Base, Reboot \/ \E o \in Otps : NewOtp(o) \/ Revoke(o) \/ DeleteRow(o)
    PROVE  Base'
<1> USE DEF firewall, history
<1>1. FilesTyped /\ 0 \in 0..MaxKeys
  BY ParamAssumption DEF Base, TypeOK, FilesTyped
<1>2. FilesTyped' /\ proc' = proc /\ lock' = lock
  <2>1. CASE Reboot
    BY <1>1, <2>1, FaultTyped DEF Reboot, FilesTyped
  <2>2. ASSUME NEW o \in Otps, NewOtp(o) \/ Revoke(o) \/ DeleteRow(o)
        PROVE  FilesTyped' /\ proc' = proc /\ lock' = lock
    <3>1. PICK row \in [is : {"none", "open", "active", "revoked", "deleted"}, key : 0..MaxKeys] :
            hub' = [hub EXCEPT ![o] = row]
      <4>1. hub[o] \in [is : {"none", "open", "active", "revoked", "deleted"}, key : 0..MaxKeys]
        BY <1>1 DEF FilesTyped
      <4>2. \/ hub' = [hub EXCEPT ![o] = [hub[o] EXCEPT !.is = "open"]]
            \/ hub' = [hub EXCEPT ![o] = [hub[o] EXCEPT !.is = "revoked"]]
            \/ hub' = [hub EXCEPT ![o] = [is |-> "deleted", key |-> 0]]
        BY <2>2 DEF NewOtp, Revoke, DeleteRow
      <4> QED BY <1>1, <4>1, <4>2
    <3>2. hub' \in [Otps -> [is : {"none", "open", "active", "revoked", "deleted"}, key : 0..MaxKeys]]
      BY <1>1, <3>1 DEF FilesTyped
    <3>3. conf' \in Confs
      <4>1. o \in 0..MaxOtps
        BY ParamAssumption DEF Otps
      <4>2. conf' = conf \/ conf' = [conf EXCEPT !.set = TRUE, !.otp = o]
        BY <2>2 DEF NewOtp, Revoke, DeleteRow
      <4> QED BY <1>1, <4>1, <4>2 DEF FilesTyped, Confs
    <3> QED BY <1>1, <2>2, <3>2, <3>3 DEF NewOtp, Revoke, DeleteRow, FilesTyped
  <2> QED BY <2>1, <2>2
<1> QED BY <1>2 DEF Base, TypeOK, FilesTyped, NoneStale

LEMMA BaseInit == Init => Base
<1> SUFFICES ASSUME Init PROVE Base
  OBVIOUS
<1>1. proc \in [Procs -> Processes] /\ \A p \in Procs : proc[p].at = "idle" /\ ~proc[p].stale
  BY IdleFields DEF Init
<1>2. FilesTyped
  <2>1. 0 \in 0..MaxOtps /\ 0 \in 0..MaxKeys /\ 0 \in 0..MaxFaults
    BY ParamAssumption
  <2>2. conf \in Confs
    BY <2>1 DEF Init, NoConf, Confs
  <2>3. /\ state \in [is : {"absent", "torn", "error", "device"}, id : 0..MaxOtps]
        /\ key \in [is : {"absent", "torn", "key"}, id : 0..MaxKeys]
        /\ tunnel \in [is : {"none", "bare", "up"}, id : 0..MaxKeys]
    BY <2>1 DEF Init, NoFile
  <2>4. hub \in [Otps -> [is : {"none", "open", "active", "revoked", "deleted"}, key : 0..MaxKeys]]
    BY <2>1 DEF Init
  <2>5. cron \in BOOLEAN /\ made \in 0..MaxKeys /\ faults \in 0..MaxFaults /\ alone \in BOOLEAN /\ half \in BOOLEAN
    BY <2>1 DEF Init
  <2> QED BY <2>2, <2>3, <2>4, <2>5 DEF FilesTyped
<1>3. lock = None
  BY DEF Init
<1> QED BY <1>1, <1>2, <1>3, ParamAssumption DEF Base, TypeOK, FilesTyped, NoneStale

\* What happens in a step.
LEMMA NextCases ==
    ASSUME [Next]_vars
    PROVE  \/ \E p \in Procs :
                \/ Step(p)
                \/ Connect(p) \/ Disconnect(p) \/ Remove(p) \/ Revoked(p)
                \/ EnrollLost(p) \/ ClearFails(p) \/ CommandFails(p) \/ Kill(p)
           \/ Reboot \/ \E o \in Otps : NewOtp(o) \/ Revoke(o) \/ DeleteRow(o)
           \/ UNCHANGED vars
  BY DEF Next

LEMMA BaseNext == Base /\ [Next]_vars => Base'
<1> SUFFICES ASSUME Base, [Next]_vars PROVE Base'
  OBVIOUS
<1>1. CASE UNCHANGED vars
  BY <1>1 DEF vars, firewall, history, Base, TypeOK, NoneStale
<1>2. ASSUME NEW p \in Procs, Connect(p) \/ Disconnect(p) \/ Remove(p) \/ Revoked(p) PROVE Base'
  BY <1>2, Scripts, StartBase
<1> QED BY <1>1, <1>2, NextCases, StepBase, FaultBase, OutsideBase

LEMMA BaseAlways == Spec => []Base
  BY BaseInit, BaseNext, PTL DEF Spec

\* Every variable stays in its range, and config.xml is edited by the holder of
\* the lock and nobody else, whatever fails or is killed (locked_config_root).
THEOREM TypeCorrect == Spec => []TypeOK
<1>1. Base => TypeOK
  BY DEF Base
<1> QED BY <1>1, BaseAlways, PTL

\* No edit under the lock is made on a config.xml that another edit under the
\* lock has replaced since it was read (locked_config_root, write_config_root).
THEOREM EditsAreKept == Spec => LockedEditsKept
<1>1. Base =>
        [\A p \in Procs : proc[p].at = "edit" /\ conf' # conf /\ proc'[p].at # "edit" => ~proc[p].stale]_vars
  BY DEF Base, NoneStale
<1> QED BY <1>1, BaseAlways, PTL DEF LockedEditsKept

(***************************************************************************)
(* Devices and keys.                                                       *)
(***************************************************************************)
WasEnrolled == {"active", "revoked", "deleted"}

\* The steps at which a process has no device.
Bare == {"idle", "key", "genkey", "state", "enroll", "failing", "unlinkKey", "unlinkState"}

\* Whatever is in a file, or carried by a process, came from the Hub or from
\* wg genkey.
Genuine ==
    /\ state.is = "device" => state.id # 0 /\ hub[state.id].is \in WasEnrolled
    /\ key.is = "key" <=> key.id # 0
    /\ \A p \in Procs :
          /\ proc[p].dev # 0 => hub[proc[p].dev].is \in WasEnrolled
          /\ proc[p].at \in Bare => proc[p].dev = 0
          /\ proc[p].at = "enroll" => proc[p].otp # 0 /\ proc[p].key # 0

\* One thing at a time.
Solo == alone => \A p, q \in Procs : p # q => proc[p].at = "idle" \/ proc[q].at = "idle"

\* The key file f has the key of the device d, as the Hub's table h has it.
Registered(h, f, d) ==
    d # 0 /\ h[d].is \in {"active", "revoked"} => f = [is |-> "key", id |-> h[d].key]

\* So it has for the device of the state, unless the key was just removed, and
\* of every process; before an enrollment it has the key that is registered next.
Kept ==
    alone /\ ~half =>
        /\ state.is = "device" /\ (\A p \in Procs : proc[p].at # "unlinkState")
              => Registered(hub, key, state.id)
        /\ \A p \in Procs :
              /\ Registered(hub, key, proc[p].dev)
              /\ proc[p].at = "genkey" => key.is = "absent"
              /\ proc[p].at \in {"state", "enroll"} /\ proc[p].key # 0
                    => key = [is |-> "key", id |-> proc[p].key]

PluginInv == Base /\ Genuine /\ Solo /\ Kept

LEMMA PluginInit == Init => PluginInv
<1> SUFFICES ASSUME Init PROVE PluginInv
  OBVIOUS
<1>1. \A p \in Procs : proc[p].at = "idle" /\ proc[p].dev = 0
  BY IdleFields DEF Init
<1>2. state.is = "absent" /\ key.is = "absent" /\ key.id = 0
  BY DEF Init, NoFile
<1>3. Genuine /\ Solo
  BY <1>1, <1>2 DEF Genuine, Solo
<1>4. Kept
  BY <1>1, <1>2 DEF Kept, Registered
<1> QED BY <1>3, <1>4, BaseInit DEF PluginInv

\* What a step must leave behind, whichever process takes it.
Sound ==
    /\ \A o \in Otps : hub[o].is \in WasEnrolled => hub'[o].is \in WasEnrolled
    /\ state'.is = "device" => state'.id # 0 /\ hub'[state'.id].is \in WasEnrolled
    /\ key'.is = "key" <=> key'.id # 0

\* What it must leave to the process that takes it.
Fits(at, otp, k, dev) ==
    /\ dev # 0 => hub'[dev].is \in WasEnrolled
    /\ at \in Bare => dev = 0
    /\ at = "enroll" => otp # 0 /\ k # 0

\* The keys, when nothing else goes on.
Keys(at, k, dev) ==
    /\ state'.is = "device" /\ at # "unlinkState" => Registered(hub', key', state'.id)
    /\ Registered(hub', key', dev)
    /\ at = "genkey" => key'.is = "absent"
    /\ at \in {"state", "enroll"} /\ k # 0 => key' = [is |-> "key", id |-> k]

LEMMA ProcessGenuine ==
    ASSUME Base, Genuine, Sound, NEW p \in Procs, NEW at, NEW otp, NEW k, NEW dev,
           Becomes(p, at, otp, k, dev), Fits(at, otp, k, dev)
    PROVE  Genuine'
<1>1. ASSUME NEW q \in Procs
      PROVE  /\ proc'[q].dev # 0 => hub'[proc'[q].dev].is \in WasEnrolled
             /\ proc'[q].at \in Bare => proc'[q].dev = 0
             /\ proc'[q].at = "enroll" => proc'[q].otp # 0 /\ proc'[q].key # 0
  <2>1. CASE q = p
    BY <2>1 DEF Becomes, Fits
  <2>2. CASE q # p
    <3>1. proc'[q] = proc[q]
      BY <2>2 DEF Becomes
    <3>2. proc[q].dev # 0 => proc[q].dev \in Otps
      BY ParamAssumption DEF Base, TypeOK, Processes, Otps
    <3> QED BY <3>1, <3>2 DEF Genuine, Sound
  <2> QED BY <2>1, <2>2
<1> QED BY <1>1 DEF Genuine, Sound

\* While one process is at work, the others do nothing and have nothing.
LEMMA OthersIdle ==
    ASSUME PluginInv, alone, NEW p \in Procs, proc[p].at # "idle", NEW q \in Procs, q # p
    PROVE  proc[q].at = "idle" /\ proc[q].dev = 0
  BY DEF PluginInv, Solo, Genuine, Bare

LEMMA Follows ==
    ASSUME PluginInv, Base', Sound, NEW p \in Procs, NEW at, NEW otp, NEW k, NEW dev,
           Becomes(p, at, otp, k, dev), Fits(at, otp, k, dev), proc[p].at # "idle",
           alone' = alone, alone /\ ~half' => Keys(at, k, dev)
    PROVE  PluginInv'
<1>1. Genuine'
  BY ProcessGenuine DEF PluginInv
<1>2. /\ proc'[p].at = at /\ proc'[p].key = k /\ proc'[p].dev = dev
      /\ \A q \in Procs \ {p} : proc'[q] = proc[q]
  BY DEF Becomes
<1>3. alone => \A q \in Procs \ {p} : proc'[q].at = "idle" /\ proc'[q].dev = 0
  BY <1>2, OthersIdle
<1>4. Solo'
  BY <1>3 DEF Solo
<1>5. Kept'
  <2> SUFFICES ASSUME alone', ~half'
               PROVE  /\ state'.is = "device" /\ (\A q \in Procs : proc'[q].at # "unlinkState")
                            => Registered(hub', key', state'.id)
                      /\ \A q \in Procs :
                            /\ Registered(hub', key', proc'[q].dev)
                            /\ proc'[q].at = "genkey" => key'.is = "absent"
                            /\ proc'[q].at \in {"state", "enroll"} /\ proc'[q].key # 0
                                  => key' = [is |-> "key", id |-> proc'[q].key]
    BY DEF Kept, Registered
  <2>1. Keys(at, k, dev)
    OBVIOUS
  <2>2. state'.is = "device" /\ (\A q \in Procs : proc'[q].at # "unlinkState") => Registered(hub', key', state'.id)
    BY <1>2, <2>1 DEF Keys
  <2>3. ASSUME NEW q \in Procs
        PROVE  /\ Registered(hub', key', proc'[q].dev)
               /\ proc'[q].at = "genkey" => key'.is = "absent"
               /\ proc'[q].at \in {"state", "enroll"} /\ proc'[q].key # 0
                     => key' = [is |-> "key", id |-> proc'[q].key]
    <3>1. CASE q = p
      BY <1>2, <2>1, <3>1 DEF Keys
    <3>2. CASE q # p
      <4>1. proc'[q].at = "idle" /\ proc'[q].dev = 0
        BY <1>3, <3>2
      <4> QED BY <4>1 DEF Registered
    <3> QED BY <3>1, <3>2
  <2> QED BY <2>2, <2>3
<1> QED BY <1>1, <1>4, <1>5 DEF PluginInv

\* A device that a process finds in the state or carries was enrolled, and the
\* key file has its key.
LEMMA DeviceKept ==
    ASSUME PluginInv, NEW p \in Procs, NEW dev \in {0, proc[p].dev, Loaded}
    PROVE  /\ dev # 0 => hub[dev].is \in WasEnrolled
           /\ alone /\ ~half /\ proc[p].at \notin {"idle", "unlinkState"} => Registered(hub, key, dev)
<1>1. CASE dev = 0
  BY <1>1 DEF Registered
<1>2. CASE dev = proc[p].dev
  BY <1>2 DEF PluginInv, Genuine, Kept
<1>3. CASE dev = Loaded /\ dev # 0
  <2>1. state.is = "device" /\ dev = state.id
    BY <1>3 DEF Loaded
  <2>2. alone /\ proc[p].at \notin {"idle", "unlinkState"} => \A q \in Procs : proc[q].at # "unlinkState"
    BY OthersIdle
  <2> QED BY <2>1, <2>2 DEF PluginInv, Genuine, Kept
<1> QED BY <1>1, <1>2, <1>3

\* A step that changes neither the files nor what the Hub has.
LEMMA Quiet ==
    ASSUME PluginInv, Base', NEW p \in Procs, NEW at, NEW otp, NEW k, NEW dev \in {0, proc[p].dev, Loaded},
           Becomes(p, at, otp, k, dev), proc[p].at \notin {"idle", "unlinkState"}, at # "unlinkState",
           UNCHANGED <<hub, key, state, alone, half>>,
           at \in Bare => dev = 0,
           at = "enroll" => otp # 0 /\ k # 0,
           at = "genkey" => key.is = "absent",
           alone /\ ~half /\ at \in {"state", "enroll"} /\ k # 0 => key = [is |-> "key", id |-> k]
    PROVE  PluginInv'
<1>1. Sound
  BY DEF Sound, PluginInv, Genuine
<1>2. Fits(at, otp, k, dev)
  BY DeviceKept DEF Fits
<1>3. alone /\ ~half => Keys(at, k, dev)
  <2> SUFFICES ASSUME alone, ~half PROVE Keys(at, k, dev)
    OBVIOUS
  <2>1. Registered(hub, key, dev)
    BY DeviceKept
  <2>2. state.is = "device" => Registered(hub, key, state.id)
    <3>1. \A q \in Procs : proc[q].at # "unlinkState"
      BY OthersIdle
    <3> QED BY <3>1 DEF PluginInv, Kept
  <2> QED BY <2>1, <2>2 DEF Keys
<1> QED BY <1>1, <1>2, <1>3, Follows

LEMMA QuietSteps ==
    ASSUME PluginInv, Base', NEW p \in Procs,
           \/ EnsureKey(p) \/ LoadState(p) \/ StartTunnel(p) \/ SetTunnel(p) \/ LockConfig(p) \/ EditConfig(p)
           \/ EnsureCron(p) \/ Destroy(p) \/ RemoveCron(p) \/ ReadForClear(p) \/ ClearSettings(p)
           \/ ClearFails(p) \/ CommandFails(p)
    PROVE  PluginInv'
<1> USE DEF firewall, history, Onward
<1>1. /\ UNCHANGED <<hub, key, state, alone, half>>
      /\ proc[p].at \notin {"idle", "unlinkState"}
  BY DEF EnsureKey, LoadState, StartTunnel, SetTunnel, LockConfig, EditConfig, EnsureCron, Destroy,
         RemoveCron, ReadForClear, ClearSettings, ClearFails, CommandFails
<1>2. Base /\ Genuine
  BY DEF PluginInv
<1>3. ASSUME NEW at \in Bare \ {"unlinkState", "enroll", "genkey", "state"}, Becomes(p, at, 0, 0, 0)
      PROVE  PluginInv'
  BY <1>1, <1>3, Quiet
<1>4. ASSUME NEW at, at \notin Bare, NEW otp, NEW k, NEW dev \in {proc[p].dev, Loaded}, Becomes(p, at, otp, k, dev)
      PROVE  PluginInv'
  BY <1>1, <1>4, Quiet DEF Bare
<1>5. CASE EnsureKey(p)
  <2>1. proc[p].dev = 0
    BY <1>2, <1>5 DEF EnsureKey, Genuine, Bare
  <2>2. CASE Becomes(p, "failing", 0, 0, 0)
    BY <1>3, <2>2 DEF Bare
  <2>3. CASE key.is = "absent" /\ Becomes(p, "genkey", conf.otp, proc[p].key, proc[p].dev)
    BY <1>1, <2>1, <2>3, Quiet
  <2>4. CASE key.is # "absent" /\ Becomes(p, "state", conf.otp, key.id, proc[p].dev)
    <3>1. key.id # 0 => key = [is |-> "key", id |-> key.id]
      BY <1>2 DEF Genuine, Base, TypeOK
    <3> QED BY <1>1, <2>1, <2>4, <3>1, Quiet
  <2> QED BY <1>2, <1>5, <2>2, <2>3, <2>4, Moves
<1>6. CASE LoadState(p)
  <2>1. CASE Becomes(p, "failing", 0, 0, 0)
    BY <1>3, <2>1 DEF Bare
  <2>2. CASE Loaded # 0 /\ Becomes(p, "tunnel", 0, 0, Loaded)
    BY <1>4, <2>2 DEF Bare
  <2>3. CASE proc[p].otp # 0 /\ proc[p].key # 0 /\ Becomes(p, "enroll", proc[p].otp, proc[p].key, proc[p].dev)
    <3>1. proc[p].at = "state" /\ proc[p].dev = 0
      BY <1>2, <1>6 DEF LoadState, Genuine, Bare
    <3>2. alone /\ ~half => key = [is |-> "key", id |-> proc[p].key]
      BY <2>3, <3>1 DEF PluginInv, Kept
    <3> QED BY <1>1, <2>3, <3>1, <3>2, Quiet
  <2> QED BY <1>2, <1>6, <2>1, <2>2, <2>3, Moves
<1>7. CASE StartTunnel(p) \/ SetTunnel(p) \/ LockConfig(p) \/ Destroy(p) \/ RemoveCron(p) \/ ReadForClear(p)
  <2>1. \/ Becomes(p, "failing", 0, 0, 0)
        \/ \E at \in {"wgset", "lock", "edit", "uncron", "saveDisconnected", "cleared"} :
              Becomes(p, at, proc[p].otp, proc[p].key, proc[p].dev)
    BY <1>2, <1>7, Moves
  <2> QED BY <1>3, <1>4, <2>1 DEF Bare
<1>8. CASE EditConfig(p)
  <2>1. \E at \in {"saveConnected", "clear"} : Becomes(p, at, 0, 0, proc[p].dev)
    BY <1>2, <1>8, EditMoves
  <2> QED BY <1>4, <2>1 DEF Bare
<1>9. CASE EnsureCron(p) \/ ClearSettings(p) \/ ClearFails(p) \/ CommandFails(p)
  <2>1. \E at \in {"idle", "unlinkKey", "failing"} : Becomes(p, at, 0, 0, 0)
    BY <1>2, <1>9, Moves
  <2> QED BY <1>3, <2>1 DEF Bare
<1> QED BY <1>5, <1>6, <1>7, <1>8, <1>9

\* A new key: no device has the key that the missing file does not have.
LEMMA WriteKeyKeeps == ASSUME PluginInv, Base', NEW p \in Procs, WriteKey(p) PROVE PluginInv'
<1> USE DEF history
<1>1. Base /\ Genuine
  BY DEF PluginInv
<1>2. /\ UNCHANGED <<hub, state, alone, half>> /\ proc[p].at = "genkey" /\ proc[p].dev = 0
      /\ key' = [is |-> "key", id |-> made'] /\ made' # 0
  BY <1>1 DEF WriteKey, Genuine, Bare, Base, TypeOK
<1>3. Becomes(p, "state", proc[p].otp, made', 0)
  BY <1>1, <1>2, Moves
<1>4. Sound /\ Fits("state", proc[p].otp, made', 0)
  BY <1>1, <1>2 DEF Sound, Fits, Genuine
<1>5. alone /\ ~half => Keys("state", made', 0)
  <2> SUFFICES ASSUME alone, ~half PROVE Keys("state", made', 0)
    OBVIOUS
  <2>1. key.is = "absent" /\ \A q \in Procs : proc[q].at # "unlinkState"
    BY <1>2, OthersIdle DEF PluginInv, Kept
  <2>2. state.is = "device" => hub[state.id].is \notin {"active", "revoked"}
    BY <1>1, <2>1 DEF PluginInv, Kept, Registered, Genuine
  <2> QED BY <1>2, <2>2 DEF Keys, Registered
<1> QED BY <1>2, <1>3, <1>4, <1>5, Follows

\* The Hub takes an open code, so that no device that was enrolled changes.
LEMMA EnrollKeeps ==
    ASSUME PluginInv, Base', NEW p \in Procs, NEW at \in {"save", "failing"},
           NEW dev \in {0, proc[p].otp}, at = "failing" => dev = 0,
           proc[p].at = "enroll", Accepts(proc[p].otp, proc[p].key), Enrolled(proc[p].otp, proc[p].key),
           Becomes(p, at, 0, 0, dev), UNCHANGED <<state, key, alone, half>>
    PROVE  PluginInv'
<1>1. Base /\ Genuine
  BY DEF PluginInv
<1>2. proc[p].otp \in Otps /\ proc[p].key # 0
  BY <1>1, ParamAssumption DEF Genuine, Base, TypeOK, Processes, Otps
<1>3. hub[proc[p].otp].is = "open"
  BY DEF Accepts
<1>4. /\ hub'[proc[p].otp] = [is |-> "active", key |-> proc[p].key]
      /\ \A o \in Otps \ {proc[p].otp} : hub'[o] = hub[o]
  BY <1>1, <1>2 DEF Enrolled, Base, TypeOK
<1>5. state.is = "device" => state.id \in Otps \ {proc[p].otp} /\ hub'[state.id] = hub[state.id]
  <2> SUFFICES ASSUME state.is = "device" PROVE state.id \in Otps \ {proc[p].otp}
    BY <1>4
  <2>1. state.id \in Otps /\ hub[state.id].is # "open"
    BY <1>1, ParamAssumption DEF Genuine, WasEnrolled, Base, TypeOK, Otps
  <2> QED BY <1>3, <2>1
<1>6. Sound
  <2>1. \A o \in Otps : hub[o].is \in WasEnrolled => hub'[o].is \in WasEnrolled
    BY <1>4 DEF WasEnrolled
  <2> QED BY <1>1, <1>5, <2>1 DEF Sound, Genuine
<1>7. Fits(at, 0, 0, dev)
  BY <1>4 DEF Fits, Bare, WasEnrolled
<1>8. alone /\ ~half => Keys(at, 0, dev)
  <2> SUFFICES ASSUME alone, ~half PROVE Keys(at, 0, dev)
    OBVIOUS
  <2>1. key = [is |-> "key", id |-> proc[p].key]
    BY <1>2 DEF PluginInv, Kept
  <2>2. \A q \in Procs : proc[q].at # "unlinkState"
    BY OthersIdle
  <2>3. state.is = "device" => Registered(hub, key, state.id)
    BY <2>2 DEF PluginInv, Kept
  <2>4. Registered(hub', key', dev)
    BY <1>4, <2>1 DEF Registered
  <2> QED BY <1>5, <2>3, <2>4 DEF Keys, Registered
<1> QED BY <1>6, <1>7, <1>8, Follows

\* The state gets the device of the process, or keeps its own.
LEMMA StateKeeps ==
    ASSUME PluginInv, Base', NEW p \in Procs, SaveState(p) \/ Fail(p)
    PROVE  PluginInv'
<1> USE DEF history
<1>1. Base /\ Genuine
  BY DEF PluginInv
<1>2. /\ UNCHANGED <<hub, key, alone, half>>
      /\ proc[p].at \notin {"idle", "unlinkState"}
  BY DEF SaveState, Fail
<1>3. PICK d \in {0, proc[p].dev, Loaded} : state' = Saved(d)
  BY DEF SaveState, Fail
<1>4. state'.is = "device" => state'.id = d /\ d # 0
  BY <1>3 DEF Saved, Device
<1>5. d # 0 => hub[d].is \in WasEnrolled
  BY DeviceKept
<1>6. Sound
  BY <1>1, <1>2, <1>4, <1>5 DEF Sound, Genuine
<1>7. ASSUME NEW at \in {"tunnel", "cron", "idle"}, NEW otp, NEW k, NEW dev \in {0, proc[p].dev},
             Becomes(p, at, otp, k, dev), at = "idle" => dev = 0
      PROVE  PluginInv'
  <2>1. dev # 0 => hub[dev].is \in WasEnrolled
    BY DeviceKept
  <2>2. Fits(at, otp, k, dev)
    BY <1>2, <1>7, <2>1 DEF Fits, Bare
  <2>3. alone /\ ~half => Registered(hub, key, d) /\ Registered(hub, key, dev)
    BY <1>2, DeviceKept
  <2>4. alone /\ ~half => Keys(at, k, dev)
    BY <1>2, <1>4, <2>3 DEF Keys
  <2> QED BY <1>2, <1>6, <1>7, <2>2, <2>4, Follows
<1>8. CASE SaveState(p)
  <2>1. Onward(p, "tunnel") \/ Onward(p, "cron") \/ Becomes(p, "idle", 0, 0, 0)
    BY <1>1, <1>8, Moves
  <2> QED BY <1>7, <2>1 DEF Onward
<1>9. CASE Fail(p)
  BY <1>1, <1>7, <1>9, Moves
<1> QED BY <1>8, <1>9

\* The key goes first, then the state: in between, and after a kill in between,
\* nothing is promised.
LEMMA UnlinkKeeps ==
    ASSUME PluginInv, Base', NEW p \in Procs, UnlinkKey(p) \/ UnlinkState(p)
    PROVE  PluginInv'
<1> USE DEF history
<1>1. Base /\ Genuine
  BY DEF PluginInv
<1>2. UNCHANGED <<hub, alone, half>> /\ proc[p].at # "idle"
  BY DEF UnlinkKey, UnlinkState
<1>3. CASE UnlinkKey(p)
  <2>1. proc[p].dev = 0 /\ state' = state /\ key' = NoFile
    BY <1>1, <1>3 DEF UnlinkKey, Genuine, Bare
  <2>2. Becomes(p, "unlinkState", proc[p].otp, proc[p].key, 0)
    BY <1>1, <1>3, <2>1, Moves DEF Onward
  <2>3. Sound /\ Fits("unlinkState", proc[p].otp, proc[p].key, 0)
    BY <1>1, <1>2, <2>1 DEF Sound, Fits, Genuine, NoFile
  <2>4. Keys("unlinkState", proc[p].key, 0)
    BY DEF Keys, Registered
  <2> QED BY <1>2, <2>2, <2>3, <2>4, Follows
<1>4. CASE UnlinkState(p)
  <2>1. state'.is = "absent" /\ key' = key
    BY <1>4 DEF UnlinkState, NoFile
  <2>2. Becomes(p, "idle", 0, 0, 0)
    BY <1>1, <1>4, Moves
  <2>3. Sound /\ Fits("idle", 0, 0, 0)
    BY <1>1, <1>2, <2>1 DEF Sound, Fits, Genuine
  <2>4. Keys("idle", 0, 0)
    BY <2>1 DEF Keys, Registered
  <2> QED BY <1>2, <2>2, <2>3, <2>4, Follows
<1> QED BY <1>3, <1>4

\* A process that is killed leaves a torn state, which has no device, or a torn
\* key where there was none.
LEMMA KillKeeps == ASSUME PluginInv, Base', NEW p \in Procs, Kill(p) PROVE PluginInv'
<1>1. Base /\ Genuine
  BY DEF PluginInv
<1>2. UNCHANGED <<hub, alone>> /\ proc[p].at # "idle"
  BY DEF Kill
<1>3. /\ state' = state \/ state'.is = "torn"
      /\ key' = key \/ (proc[p].at = "genkey" /\ key'.is = "torn" /\ key'.id = 0)
      /\ half' = (half \/ proc[p].at = "unlinkState")
  BY DEF Kill, Torn
<1>4. Becomes(p, "idle", 0, 0, 0)
  BY <1>1, Moves
<1>5. Sound /\ Fits("idle", 0, 0, 0)
  <2>1. state'.is = "device" => state'.id # 0 /\ hub'[state'.id].is \in WasEnrolled
    BY <1>1, <1>2, <1>3 DEF Genuine
  <2>2. key'.is = "key" <=> key'.id # 0
    BY <1>1, <1>3 DEF Genuine
  <2> QED BY <1>2, <2>1, <2>2 DEF Sound, Fits
<1>6. alone /\ ~half' => Keys("idle", 0, 0)
  <2> SUFFICES ASSUME alone, ~half' PROVE Keys("idle", 0, 0)
    OBVIOUS
  <2>1. \A q \in Procs : proc[q].at # "unlinkState"
    BY <1>2, <1>3, OthersIdle
  <2>2. state'.is = "device" => state' = state /\ Registered(hub, key, state.id)
    BY <1>3, <2>1 DEF PluginInv, Kept
  <2>3. proc[p].at = "genkey" => key.is = "absent"
    BY <1>3 DEF PluginInv, Kept
  <2>4. state'.is = "device" => Registered(hub', key', state'.id)
    BY <1>2, <1>3, <2>2, <2>3 DEF Registered
  <2> QED BY <2>4 DEF Keys, Registered
<1> QED BY <1>2, <1>4, <1>5, <1>6, Follows

\* A script that starts is alone when every other process is idle.
LEMMA StartKeeps ==
    ASSUME PluginInv, Base', NEW p \in Procs, NEW op \in {"connect", "disconnect", "remove"},
           NEW at \in {"key", "destroy"}, StartsAs(p, op, at), at = "key" => op # "disconnect"
    PROVE  PluginInv'
<1> DEFINE dev == IF op = "disconnect" THEN Loaded ELSE 0
<1>1. /\ Becomes(p, at, 0, 0, dev) /\ UNCHANGED <<hub, key, state, half>>
      /\ alone' = (alone /\ \A q \in Procs : proc[q].at = "idle")
  BY DEF StartsAs
<1>2. dev \in {0, proc[p].dev, Loaded} /\ (at = "key" => dev = 0)
  OBVIOUS
<1> HIDE DEF dev
<1>3. Sound /\ Fits(at, 0, 0, dev)
  <2>1. dev # 0 => hub[dev].is \in WasEnrolled
    BY <1>2, DeviceKept
  <2> QED BY <1>1, <1>2, <2>1 DEF Sound, Fits, PluginInv, Genuine, Bare
<1>4. Genuine'
  BY <1>1, <1>3, ProcessGenuine DEF PluginInv
<1>5. /\ proc'[p].at = at /\ proc'[p].dev = dev
      /\ \A q \in Procs \ {p} : proc'[q] = proc[q]
  BY <1>1 DEF Becomes
<1>6. Solo'
  BY <1>1, <1>5 DEF Solo
<1>7. Kept'
  <2> SUFFICES ASSUME alone', ~half' PROVE Kept'
    BY DEF Kept
  <2>1. alone /\ ~half /\ \A q \in Procs : proc[q].at = "idle" /\ proc[q].dev = 0
    BY <1>1 DEF PluginInv, Genuine, Bare
  <2>2. state.is = "device" => Registered(hub, key, state.id)
    BY <2>1 DEF PluginInv, Kept
  <2>3. Registered(hub, key, dev)
    <3>1. dev = 0 \/ (state.is = "device" /\ dev = state.id)
      BY <1>2, <2>1 DEF Loaded
    <3> QED BY <2>2, <3>1 DEF Registered
  <2>4. ASSUME NEW q \in Procs
        PROVE  /\ Registered(hub, key, proc'[q].dev)
               /\ proc'[q].at \notin {"genkey", "state", "enroll"}
    <3>1. CASE q = p
      BY <1>5, <2>3, <3>1
    <3>2. CASE q # p
      BY <1>5, <2>1, <3>2 DEF Registered
    <3> QED BY <3>1, <3>2
  <2> QED BY <1>1, <2>2, <2>4 DEF Kept
<1> QED BY <1>4, <1>6, <1>7 DEF PluginInv

\* The processes and the files stay: what the administrators do takes keys off
\* the Hub's table and never changes one.
LEMMA OutsideKeeps ==
    ASSUME PluginInv, Base', Reboot \/ \E o \in Otps : NewOtp(o) \/ Revoke(o) \/ DeleteRow(o)
    PROVE  PluginInv'
<1> USE DEF firewall, history
<1>1. UNCHANGED <<state, key, proc, alone, half>>
  BY DEF Reboot, NewOtp, Revoke, DeleteRow
<1>2. \A d \in Otps :
         /\ hub[d].is \in WasEnrolled => hub'[d].is \in WasEnrolled
         /\ hub'[d].is \in {"active", "revoked"}
               => hub[d].is \in {"active", "revoked"} /\ hub'[d].key = hub[d].key
  <2>1. hub \in [Otps -> [is : {"none", "open", "active", "revoked", "deleted"}, key : 0..MaxKeys]]
    BY DEF PluginInv, Base, TypeOK
  <2>2. CASE Reboot
    BY <2>2 DEF Reboot
  <2>3. ASSUME NEW o \in Otps, NewOtp(o) \/ Revoke(o) \/ DeleteRow(o), NEW d \in Otps
        PROVE  /\ hub[d].is \in WasEnrolled => hub'[d].is \in WasEnrolled
               /\ hub'[d].is \in {"active", "revoked"}
                     => hub[d].is \in {"active", "revoked"} /\ hub'[d].key = hub[d].key
    <3>1. CASE NewOtp(o)
      BY <2>1, <3>1 DEF NewOtp, WasEnrolled
    <3>2. CASE Revoke(o)
      BY <2>1, <3>2 DEF Revoke, WasEnrolled
    <3>3. CASE DeleteRow(o)
      BY <2>1, <3>3 DEF DeleteRow, WasEnrolled
    <3> QED BY <2>3, <3>1, <3>2, <3>3
  <2> QED BY <2>2, <2>3
<1>3. /\ state.is = "device" => state.id \in Otps
      /\ \A p \in Procs : proc[p].dev # 0 => proc[p].dev \in Otps
  <2>1. Base /\ Genuine
    BY DEF PluginInv
  <2>2. \A d \in 0..MaxOtps : d # 0 => d \in Otps
    BY ParamAssumption DEF Otps
  <2>3. \A p \in Procs : proc[p].dev \in 0..MaxOtps
    BY <2>1 DEF Base, TypeOK, Processes
  <2>4. state.is = "device" => state.id \in 0..MaxOtps /\ state.id # 0
    BY <2>1 DEF Base, TypeOK, Genuine
  <2> QED BY <2>2, <2>3, <2>4
<1>4. Genuine' /\ Solo'
  BY <1>1, <1>2, <1>3 DEF PluginInv, Genuine, Solo
<1>5. \A d \in Otps : Registered(hub, key, d) => Registered(hub', key', d)
  BY <1>1, <1>2 DEF Registered
<1>6. Kept'
  <2> SUFFICES ASSUME alone, ~half PROVE Kept'
    BY <1>1 DEF Kept
  <2>1. state.is = "device" /\ (\A p \in Procs : proc[p].at # "unlinkState")
            => Registered(hub', key', state.id)
    BY <1>3, <1>5 DEF PluginInv, Kept
  <2>2. \A p \in Procs : Registered(hub', key', proc[p].dev)
    BY <1>3, <1>5 DEF PluginInv, Kept, Registered
  <2> QED BY <1>1, <2>1, <2>2 DEF PluginInv, Kept
<1> QED BY <1>4, <1>6 DEF PluginInv

LEMMA PluginNext == PluginInv /\ [Next]_vars => PluginInv'
<1> SUFFICES ASSUME PluginInv, [Next]_vars PROVE PluginInv'
  OBVIOUS
<1>1. Base /\ Base'
  BY BaseNext DEF PluginInv
<1>2. CASE UNCHANGED vars
  BY <1>1, <1>2 DEF vars, firewall, history, PluginInv, Genuine, Solo, Kept
<1>3. ASSUME NEW p \in Procs, Step(p) PROVE PluginInv'
  <2>1. CASE \/ EnsureKey(p) \/ LoadState(p) \/ StartTunnel(p) \/ SetTunnel(p) \/ LockConfig(p) \/ EditConfig(p)
             \/ EnsureCron(p) \/ Destroy(p) \/ RemoveCron(p) \/ ReadForClear(p) \/ ClearSettings(p)
    BY <1>1, <2>1, QuietSteps
  <2>2. CASE WriteKey(p) \/ SaveState(p) \/ Fail(p) \/ UnlinkKey(p) \/ UnlinkState(p)
    BY <1>1, <2>2, WriteKeyKeeps, StateKeeps, UnlinkKeeps
  <2>3. CASE Enroll(p)
    <3>1. proc[p].at = "enroll" /\ UNCHANGED <<state, key, alone, half>>
      BY <2>3 DEF Enroll, firewall, history
    <3>2. CASE /\ Accepts(proc[p].otp, proc[p].key) /\ Enrolled(proc[p].otp, proc[p].key)
               /\ Becomes(p, "save", 0, 0, proc[p].otp)
      BY <1>1, <3>1, <3>2, EnrollKeeps
    <3>3. CASE hub' = hub /\ Becomes(p, "failing", 0, 0, 0)
      BY <1>1, <3>1, <3>3, Quiet
    <3> QED BY <1>1, <2>3, <3>2, <3>3, Moves
  <2> QED BY <1>3, <2>1, <2>2, <2>3 DEF Step
<1>4. ASSUME NEW p \in Procs, Connect(p) \/ Disconnect(p) \/ Remove(p) \/ Revoked(p) PROVE PluginInv'
  <2>1. \E op \in {"connect", "disconnect", "remove"}, at \in {"key", "destroy"} :
           StartsAs(p, op, at) /\ (at = "key" => op # "disconnect")
    BY <1>1, <1>4, Starts DEF Connect, Disconnect, Remove, Revoked, Steps
  <2> QED BY <1>1, <2>1, StartKeeps
<1>5. ASSUME NEW p \in Procs, EnrollLost(p) \/ ClearFails(p) \/ CommandFails(p) \/ Kill(p) PROVE PluginInv'
  <2>1. CASE EnrollLost(p)
    <3>1. /\ proc[p].at = "enroll" /\ UNCHANGED <<state, key, alone, half>>
          /\ Accepts(proc[p].otp, proc[p].key) /\ Enrolled(proc[p].otp, proc[p].key)
      BY <2>1 DEF EnrollLost, firewall, history
    <3>2. Becomes(p, "failing", 0, 0, 0)
      BY <1>1, <2>1, Moves
    <3> QED BY <1>1, <3>1, <3>2, EnrollKeeps
  <2>2. CASE ClearFails(p) \/ CommandFails(p)
    BY <1>1, <2>2, QuietSteps
  <2>3. CASE Kill(p)
    BY <1>1, <2>3, KillKeeps
  <2> QED BY <1>5, <2>1, <2>2, <2>3
<1>6. CASE Reboot \/ \E o \in Otps : NewOtp(o) \/ Revoke(o) \/ DeleteRow(o)
  BY <1>1, <1>6, OutsideKeeps
<1> QED BY <1>2, <1>3, <1>4, <1>5, <1>6, NextCases

\* The key file has the key that the Hub registered for the device in the state
\* (ensure_private_key reuses the file, remove_local_artifacts takes it out
\* before the state), through failures, lost answers, kills and removals, as
\* long as scripts do not overlap and no removal was cut between its unlinks.
THEOREM KeysAreRegistered == Spec => []KeyIsRegistered
<1>1. PluginInv => KeyIsRegistered
  BY DEF PluginInv, Genuine, Kept, Registered, KeyIsRegistered
<1>2. Spec => []PluginInv
  BY PluginInit, PluginNext, PTL DEF Spec
<1> QED BY <1>1, <1>2, PTL
=============================================================================
