---------------------------- MODULE HealthMonitor ----------------------------
(***************************************************************************)
(* The health checks of the Hub: run_cluster_singleton_loop() elects one   *)
(* of several application processes by an advisory lock of PostgreSQL, and *)
(* the leader repeats run_device_health_checks_once(): load the rows, wait *)
(* for one probe after the other, send e-mails, and commit at the end.     *)
(* Requests change the same rows meanwhile, and processes end.             *)
(***************************************************************************)
EXTENDS HealthAutomaton, FiniteSets

CONSTANTS
    Hubs,     \* application processes
    Devices,  \* enrolled firewalls
    Faults,   \* what may go wrong, a subset of AllFaults
    None

AllFaults == {"lockFails", "roundFails", "shutdown", "killed"}

ASSUME FaultsAssumption == Faults \subseteq AllFaults

ASSUME NoneAssumption == None \notin Hubs /\ None \notin Health

VARIABLES
    row,     \* the Device rows
    holder,  \* the process whose database session holds the lock, or None; the
             \* session is taken to live as long as the process waits in it
    hub,     \* per process, where its loop is
    work     \* per process and firewall: the row as the round read it (read),
             \* as its session holds it now (new), whether it was probed, and
             \* the e-mails sent

vars == <<row, holder, hub, work>>

HealthOf(r) == [st |-> r.st, missed |-> r.missed, success |-> r.success]

\* What a round announces besides the status.  An announcement of a Renewable
\* one is kept with its time, and compared with license_expires_at or
\* firmware_checked_at.
Rules == {"overdue", "license", "firmware"}
Renewable == {"license", "firmware"}

\* quiet: in a maintenance window, or notifications disabled; noted: the rules
\* whose ..._notified_at is set; newer: those of them where it is before
\* license_expires_at or firmware_checked_at.
NewRow == [st |-> "online", missed |-> 0, success |-> 0, life |-> "active",
           quiet |-> FALSE, noted |-> {}, newer |-> {}]

\* The rules that hold no news while their condition lasts.
Recorded(r) == r.noted \ r.newer

DeletedRow == [NewRow EXCEPT !.life = "deleted"]

NoWork == [d \in Devices |-> None]

Loaded(h) == {d \in Devices : work[h][d] # None}

Active == {d \in Devices : row[d].life = "active"}

Init ==
    /\ row = [d \in Devices |-> NewRow]
    /\ holder = None
    /\ hub = [h \in Hubs |-> "trying"]
    /\ work = [h \in Hubs |-> NoWork]
-----------------------------------------------------------------------------
(* scheduler_locks.py and the lifespan of main.py.                         *)

\* Faulty variant: the result of pg_try_advisory_lock is not looked at.
TryIgnored(h) ==
    /\ hub[h] = "trying"
    /\ hub' = [hub EXCEPT ![h] = "leading"]
    /\ holder' = IF holder = None THEN h ELSE holder
    /\ UNCHANGED <<row, work>>

\* pg_try_advisory_lock; an error is logged and counts as a refusal.
Try(h) ==
    /\ hub[h] = "trying"
    /\ \/ holder = None /\ holder' = h /\ hub' = [hub EXCEPT ![h] = "leading"]
       \/ /\ holder # None \/ "lockFails" \in Faults
          /\ hub' = [hub EXCEPT ![h] = "polling"]
          /\ UNCHANGED holder
    /\ UNCHANGED <<row, work>>

\* The sleep between two attempts ends.
Poll(h) ==
    /\ hub[h] = "polling"
    /\ hub' = [hub EXCEPT ![h] = "trying"]
    /\ UNCHANGED <<row, holder, work>>

Ends(h, step) ==
    /\ hub' = [hub EXCEPT ![h] = step]
    /\ holder' = IF holder = h THEN None ELSE holder
    /\ work' = [work EXCEPT ![h] = NoWork]
    /\ UNCHANGED row

\* The lifespan cancels the task once: a leader unlocks and ends.
CancelLeader(h) ==
    /\ "shutdown" \in Faults
    /\ hub[h] \in {"leading", "round"}
    /\ Ends(h, "ended")

\* In the sleep between two attempts the cancellation is suppressed.
CancelPolling(h) ==
    /\ "shutdown" \in Faults
    /\ hub[h] = "polling"
    /\ hub' = [hub EXCEPT ![h] = "trying"]
    /\ UNCHANGED <<row, holder, work>>

\* The process dies, and its database sessions with it.
Killed(h) ==
    /\ "killed" \in Faults
    /\ hub[h] # "ended"
    /\ Ends(h, "ended")

\* A process is started in the place of one that ended.
Restart(h) ==
    /\ hub[h] = "ended"
    /\ hub' = [hub EXCEPT ![h] = "trying"]
    /\ UNCHANGED <<row, holder, work>>
-----------------------------------------------------------------------------
(* run_device_health_checks_once().                                        *)

StartRound(h) ==
    /\ hub[h] = "leading"
    /\ Active # {}
    /\ hub' = [hub EXCEPT ![h] = "round"]
    /\ work' = [work EXCEPT ![h] =
                   [d \in Devices |->
                       IF d \in Active
                         THEN [read |-> row[d], new |-> row[d], probed |-> FALSE, mails |-> {}]
                         ELSE None]]
    /\ UNCHANGED <<row, holder>>

\* maybe_send_health_notification(): an alert for a new status that is a
\* problem, unless it is switched off or the mail fails; it is not retried.
Alerts(r, st) == IF st = r.st \/ st = "online" \/ r.quiet THEN {{}} ELSE {{}, {st}}

\* maybe_send_phase2_device_notifications() with the rules whose condition
\* holds: an overdue backup is announced once, an expiring license in every
\* round until the announcement is as late as the end of the license, and
\* firmware again after a later check.  Each is sent by itself, unless it is
\* switched off or the mail fails.
Announcements(r, due) == IF r.quiet THEN {{}} ELSE SUBSET (due \ Recorded(r))

\* What is set then: the announcements made, and those kept as their condition
\* lasts.
Noted(r, due, sent) == IF r.quiet THEN r.noted ELSE (r.noted \cap due) \cup sent

\* One probe returns: the WebGUI was reachable (healthy) or not.  The
\* firewall's row in the session is updated; due are the rules whose condition
\* holds of it.
Probe(h, d, healthy, due) ==
    /\ hub[h] = "round"
    /\ d \in Loaded(h)
    /\ ~work[h][d].probed
    /\ LET r == work[h][d].read
           n == NextHealth(HealthOf(r), healthy)
       IN  \E a \in Alerts(r, n.st), b \in Announcements(r, due) :
              work' = [work EXCEPT ![h][d] =
                         [read |-> r, probed |-> TRUE, mails |-> a \cup b,
                          new |-> [r EXCEPT !.st = n.st, !.missed = n.missed,
                                            !.success = n.success, !.noted = Noted(r, due, b)]]]
    /\ UNCHANGED <<row, holder, hub>>

\* What the UPDATE makes of a row, for what the session holds of it: the
\* columns that changed are written.  later: the announcements that are still
\* before the end of the license, or before a check the row has by now.
Updated(now, w, later) ==
    LET noted == (now.noted \ (w.read.noted \ w.new.noted)) \cup (w.mails \cap Rules)
    IN  [now EXCEPT !.st = IF w.new.st = w.read.st THEN @ ELSE w.new.st,
                    !.missed = IF w.new.missed = w.read.missed THEN @ ELSE w.new.missed,
                    !.success = IF w.new.success = w.read.success THEN @ ELSE w.new.success,
                    !.noted = noted,
                    !.newer = noted \cap ((@ \ w.mails) \cup (later \cap w.mails))]

\* The session of the round is closed.
EndRound(h) ==
    /\ hub' = [hub EXCEPT ![h] = "leading"]
    /\ work' = [work EXCEPT ![h] = NoWork]

\* Faulty variant: every column of the rows that still exist is written.
CommitWholeRow(h) ==
    /\ hub[h] = "round"
    /\ \A d \in Loaded(h) : work[h][d].probed
    /\ row' = [d \in Devices |->
                  IF d \in Loaded(h) /\ row[d].life # "deleted" THEN work[h][d].new ELSE row[d]]
    /\ EndRound(h)
    /\ UNCHANGED holder

\* The commit at the end of the round.
Commit(h) ==
    /\ hub[h] = "round"
    /\ \A d \in Loaded(h) : work[h][d].probed /\ row[d].life # "deleted"
    /\ \E later \in [Devices -> SUBSET Renewable] :
          row' = [d \in Devices |->
                     IF d \in Loaded(h) THEN Updated(row[d], work[h][d], later[d]) ELSE row[d]]
    /\ EndRound(h)
    /\ UNCHANGED holder

\* An UPDATE that matches no row (StaleDataError) or another error: nothing
\* of the round is recorded, whatever was mailed.
RoundFails(h) ==
    /\ hub[h] = "round"
    /\ \/ "roundFails" \in Faults
       \/ /\ \A d \in Loaded(h) : work[h][d].probed
          /\ \E d \in Loaded(h) : row[d].life = "deleted"
    /\ EndRound(h)
    /\ UNCHANGED <<row, holder>>
-----------------------------------------------------------------------------
(* Requests, and time.                                                     *)

\* revoke_device().
Revoke(d) ==
    /\ row[d].life = "active"
    /\ row' = [row EXCEPT ![d].life = "revoked", ![d].st = "revoked"]
    /\ UNCHANGED <<holder, hub, work>>

\* delete_revoked_device(), or the cascade of delete_company().
DeleteRow(d) ==
    /\ row[d].life # "deleted"
    /\ row' = [row EXCEPT ![d] = DeletedRow]
    /\ UNCHANGED <<holder, hub, work>>

\* A maintenance window begins or ends, notifications are switched.
SwitchQuiet(d) ==
    /\ row[d].life = "active"
    /\ row' = [row EXCEPT ![d].quiet = ~@]
    /\ UNCHANGED <<holder, hub, work>>

\* A heartbeat reports a later firmware check or a license that ends later;
\* the times a firewall reports do not go back.
Renewed(d) ==
    /\ row[d].life = "active"
    /\ \E k \in row[d].noted \cap Renewable : row' = [row EXCEPT ![d].newer = @ \cup {k}]
    /\ UNCHANGED <<holder, hub, work>>

\* What a process does by itself.
Loop(h) ==
    \/ Try(h) \/ Poll(h) \/ StartRound(h) \/ Commit(h) \/ RoundFails(h)
    \/ \E d \in Devices, healthy \in BOOLEAN, due \in SUBSET Rules : Probe(h, d, healthy, due)

Next ==
    \/ \E h \in Hubs : \/ Loop(h)
                       \/ CancelLeader(h) \/ CancelPolling(h) \/ Killed(h) \/ Restart(h)
    \/ \E d \in Devices : \/ Revoke(d) \/ DeleteRow(d)
                          \/ SwitchQuiet(d) \/ Renewed(d)

Spec == Init /\ [][Next]_vars
-----------------------------------------------------------------------------
(* Properties.                                                             *)

Rows == [st : {"online", "warning", "offline", "revoked"}, missed : 0..MissedCap,
         success : 0..SuccessCap, life : {"active", "revoked", "deleted"},
         quiet : BOOLEAN, noted : SUBSET Rules, newer : SUBSET Renewable]

Works == [read : Rows, new : Rows, probed : BOOLEAN,
          mails : SUBSET ({"warning", "offline"} \cup Rules)]

\* Every variable stays in its range, and rows are loaded in a round only.
TypeOK ==
    /\ row \in [Devices -> Rows]
    /\ holder \in Hubs \cup {None}
    /\ hub \in [Hubs -> {"trying", "polling", "leading", "round", "ended"}]
    /\ work \in [Hubs -> [Devices -> Works \cup {None}]]
    /\ \A h \in Hubs : hub[h] # "round" => Loaded(h) = {}

\* "Only one application process performs each scheduled job at a time"
\* (docs/architecture.md): at most one process is in the job's loop.
OneLeader ==
    \A g, h \in Hubs :
        hub[g] \in {"leading", "round"} /\ hub[h] \in {"leading", "round"} => g = h

\* What a round read of the health of a firewall that is still active is what
\* the row still holds when the round overwrites it.
ReadsAreFresh ==
    \A h \in Hubs : \A d \in Loaded(h) \cap Active :
        /\ HealthOf(work[h][d].read) = HealthOf(row[d])
        /\ work[h][d].read.noted = row[d].noted /\ work[h][d].read.newer \subseteq row[d].newer

\* No e-mail about an active firewall announces the status its row has, or
\* what was announced and not renewed: an overdue backup a second time, a
\* license after its end, firmware of the check that was announced.
MailsAreNews ==
    \A h \in Hubs : \A d \in Loaded(h) \cap Active :
        /\ row[d].st \notin work[h][d].mails
        /\ Recorded(row[d]) \cap work[h][d].mails = {}

\* The rows are watched as HealthWatch promises: rounds are atomic, and each
\* firewall makes one step of the automaton in a round, whatever requests,
\* deaths and hand-overs come in between.
Watch == INSTANCE HealthWatch WITH
    Unwatched <- None,
    health <- [d \in Devices |->
                  IF row[d].life = "active" THEN HealthOf(row[d]) ELSE None]

WatchedAtomically == Watch!Spec

\* The status of an active firewall agrees with its counters.
StatusExplained == \A d \in Active : Explained(HealthOf(row[d]))
=============================================================================
