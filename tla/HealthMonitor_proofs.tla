------------------------ MODULE HealthMonitor_proofs ------------------------
(***************************************************************************)
(* Proofs about HealthMonitor, for every number of processes and firewalls,*)
(* every set of faults and all thresholds.                                 *)
(***************************************************************************)
EXTENDS HealthMonitor, TLAPS

\* The process in the job's loop is the one that holds the lock.
LeaderInv == \A h \in Hubs : hub[h] \in {"leading", "round"} <=> holder = h

\* Only the status of a firewall that left is "revoked".
ActiveInv == \A d \in Devices :
    row[d].life = "active" => HealthOf(row[d]) \in Health

\* What the leader's session holds of a row d, as w.
Tracks(d, w) ==
    /\ HealthOf(w.read) \in Health
    /\ row[d].life = "active" =>
          /\ HealthOf(w.read) = HealthOf(row[d])
          /\ w.read.noted = row[d].noted /\ w.read.newer \subseteq row[d].newer
    /\ w.probed => \E healthy \in BOOLEAN :
          HealthOf(w.new) = NextHealth(HealthOf(w.read), healthy)
    /\ w.read.st \notin w.mails
    /\ Recorded(w.read) \cap w.mails = {}

RoundInv == \A h \in Hubs : \A d \in Loaded(h) : Tracks(d, work[h][d])

IInv == TypeOK /\ LeaderInv /\ ActiveInv /\ RoundInv
-----------------------------------------------------------------------------
(* The automaton.                                                          *)

\* The caps reach the thresholds.
LEMMA Caps ==
    /\ MissedCap \in Nat /\ MissedCap >= WarningMisses /\ MissedCap >= CriticalMisses
    /\ SuccessCap \in Nat /\ SuccessCap >= WarningRecovery /\ SuccessCap >= CriticalRecovery
BY ThresholdAssumption DEF MissedCap, SuccessCap, Larger

\* A probe takes a health to a health.
LEMMA NextHealthType ==
    ASSUME NEW s \in Health, NEW healthy \in BOOLEAN
    PROVE  NextHealth(s, healthy) \in Health
<1>1. Missed(s) \in Health
    BY Caps, ThresholdAssumption DEF Missed, Health, Up
<1>2. Answered(s) \in Health
    BY Caps, ThresholdAssumption DEF Answered, Health, Up, Required
<1>. QED  BY <1>1, <1>2 DEF NextHealth

\* A probe keeps status and counters in agreement.
LEMMA NextHealthExplained ==
    ASSUME NEW s \in Health, NEW healthy \in BOOLEAN, Explained(s)
    PROVE  Explained(NextHealth(s, healthy))
<1>1. Explained(Missed(s))
    BY Caps, ThresholdAssumption DEF Explained, Missed, Health, Up, Required
<1>2. Explained(Answered(s))
    BY Caps, ThresholdAssumption DEF Explained, Answered, Health, Up, Required
<1>. QED  BY <1>1, <1>2 DEF NextHealth
-----------------------------------------------------------------------------
(* The invariant.                                                          *)

\* A row that exists is a row.
LEMMA NewRowType == NewRow \in Rows /\ DeletedRow \in Rows
<1>1. NewRow \in Rows
    BY Caps DEF NewRow, Rows
<1>. QED  BY <1>1 DEF DeletedRow, Rows

\* The Hub starts in the invariant.
LEMMA InitInv == Init => IInv
<1> SUFFICES ASSUME Init PROVE IInv
    OBVIOUS
<1>1. \A h \in Hubs : Loaded(h) = {}
    BY DEF Init, Loaded, NoWork
<1>2. TypeOK
    BY <1>1, NewRowType DEF Init, TypeOK, NoWork
<1>3. LeaderInv
    BY NoneAssumption DEF Init, LeaderInv
<1>4. ActiveInv
    BY Caps DEF Init, ActiveInv, NewRow, HealthOf, Health
<1>5. RoundInv
    BY <1>1 DEF RoundInv
<1>. QED  BY <1>2, <1>3, <1>4, <1>5 DEF IInv

\* A step of process h that drops what its session holds and changes no row.
LEMMA Drops ==
    ASSUME IInv, NEW h \in Hubs, work' = [work EXCEPT ![h] = NoWork], UNCHANGED row,
           hub' \in [Hubs -> {"trying", "polling", "leading", "round", "ended"}],
           \A g \in Hubs \ {h} : hub'[g] = hub[g],
           holder' \in Hubs \cup {None}, LeaderInv'
    PROVE  IInv'
<1>1. Loaded(h)' = {} /\ \A g \in Hubs \ {h} : Loaded(g)' = Loaded(g)
    BY DEF Loaded, NoWork, IInv, TypeOK
<1>2. TypeOK'
    BY <1>1 DEF IInv, TypeOK, NoWork
<1>3. ActiveInv'
    BY DEF IInv, ActiveInv
<1>4. RoundInv'
    <2> SUFFICES ASSUME NEW g \in Hubs, NEW d \in Loaded(g)' PROVE Tracks(d, work[g][d])'
        BY DEF RoundInv
    <2>1. g # h /\ d \in Loaded(g) /\ work'[g] = work[g]
        BY <1>1 DEF IInv, TypeOK
    <2>. QED  BY <2>1 DEF IInv, RoundInv, Tracks
<1>. QED  BY <1>2, <1>3, <1>4 DEF IInv

\* A step of the processes that touches neither rows nor sessions.
LEMMA Hands ==
    ASSUME IInv, UNCHANGED <<row, work>>, holder' \in Hubs \cup {None},
           hub' \in [Hubs -> {"trying", "polling", "leading", "round", "ended"}],
           \A h \in Hubs : hub[h] = "round" => hub'[h] = "round", LeaderInv'
    PROVE  IInv'
<1>1. \A h \in Hubs : Loaded(h)' = Loaded(h)
    BY DEF Loaded
<1>2. TypeOK'
    BY <1>1 DEF IInv, TypeOK
<1>3. ActiveInv' /\ RoundInv'
    BY <1>1 DEF IInv, ActiveInv, RoundInv, Tracks
<1>. QED  BY <1>2, <1>3 DEF IInv

\* A request changes one row, and leaves the health of an active one and what
\* was announced of it alone; what was announced may be renewed.
LEMMA Requests ==
    ASSUME IInv, NEW d \in Devices, row' \in [Devices -> Rows],
           \A e \in Devices \ {d} : row'[e] = row[e],
           row'[d].life = "active" =>
               /\ row[d].life = "active"
               /\ HealthOf(row'[d]) = HealthOf(row[d])
               /\ row'[d].noted = row[d].noted
               /\ row[d].newer \subseteq row'[d].newer,
           UNCHANGED <<holder, hub, work>>
    PROVE  IInv'
<1>1. \A h \in Hubs : Loaded(h)' = Loaded(h)
    BY DEF Loaded
<1>2. TypeOK'
    BY <1>1 DEF IInv, TypeOK
<1>3. LeaderInv'
    BY DEF IInv, LeaderInv
<1>4. ActiveInv'
    BY DEF IInv, ActiveInv
<1>5. RoundInv'
    <2> SUFFICES ASSUME NEW h \in Hubs, NEW e \in Loaded(h) PROVE Tracks(e, work[h][e])'
        BY <1>1 DEF RoundInv
    <2>1. e \in Devices /\ Tracks(e, work[h][e])
        BY DEF IInv, RoundInv, Loaded
    <2>2. CASE e = d
        BY <2>1, <2>2 DEF Tracks
    <2>3. CASE e # d
        BY <2>1, <2>3 DEF Tracks
    <2>. QED  BY <2>2, <2>3
<1>. QED  BY <1>2, <1>3, <1>4, <1>5 DEF IInv

\* The round reads the active rows.
LEMMA StartRoundInv ==
    ASSUME IInv, NEW h \in Hubs, StartRound(h)
    PROVE  IInv'
<1>1. /\ Loaded(h)' \subseteq Active
      /\ \A g \in Hubs \ {h} : Loaded(g)' = Loaded(g) /\ work'[g] = work[g]
    BY DEF StartRound, Loaded, IInv, TypeOK
<1>2. \A d \in Loaded(h)' :
         work'[h][d] = [read |-> row[d], new |-> row[d], probed |-> FALSE, mails |-> {}]
    BY <1>1 DEF StartRound, Loaded, IInv, TypeOK
<1>3. TypeOK'
    <2>1. work' \in [Hubs -> [Devices -> Works \cup {None}]]
        BY DEF IInv, TypeOK, StartRound, Works
    <2>2. \A g \in Hubs : hub'[g] # "round" => Loaded(g)' = {}
        BY <1>1 DEF IInv, TypeOK, StartRound
    <2>. QED  BY <2>1, <2>2 DEF IInv, TypeOK, StartRound
<1>4. LeaderInv'
    BY DEF IInv, TypeOK, LeaderInv, StartRound
<1>5. ActiveInv'
    BY DEF IInv, ActiveInv, StartRound
<1>6. RoundInv'
    <2> SUFFICES ASSUME NEW g \in Hubs, NEW d \in Loaded(g)' PROVE Tracks(d, work[g][d])'
        BY DEF RoundInv
    <2>1. CASE g = h
        <3>1. d \in Devices /\ row[d].life = "active" /\ row' = row
            BY <1>1, <2>1 DEF Active, StartRound
        <3>2. HealthOf(row[d]) \in Health
            BY <3>1 DEF IInv, ActiveInv
        <3>3. /\ work'[g][d].read = row[d] /\ work'[g][d].mails = {}
              /\ work'[g][d].probed = FALSE
            <4>1. d \in Loaded(h)' /\ work'[g][d] = work'[h][d]
                BY <2>1
            <4>2. work'[h][d] = [read |-> row[d], new |-> row[d], probed |-> FALSE, mails |-> {}]
                BY <1>2, <4>1
            <4>. QED  BY <4>1, <4>2
        <3>. QED  BY <3>1, <3>2, <3>3 DEF Tracks
    <2>2. CASE g # h
        BY <1>1, <2>2 DEF IInv, RoundInv, Tracks, StartRound
    <2>. QED  BY <2>1, <2>2
<1>. QED  BY <1>3, <1>4, <1>5, <1>6 DEF IInv

\* The mails of a probe announce what the row read does not hold.
LEMMA MailsNew ==
    ASSUME NEW r \in Rows, NEW st \in {"online", "warning", "offline"}, NEW due \in SUBSET Rules,
           NEW a \in Alerts(r, st), NEW b \in Announcements(r, due)
    PROVE  /\ a \cup b \in SUBSET ({"warning", "offline"} \cup Rules)
           /\ r.st \notin a \cup b
           /\ Recorded(r) \cap (a \cup b) = {}
<1>1. a \subseteq {"warning", "offline"} /\ r.st \notin a
    BY DEF Alerts
<1>2. b \subseteq Rules /\ Recorded(r) \cap b = {}
    BY DEF Announcements
<1>3. r.st \notin Rules /\ Recorded(r) \subseteq Rules
    BY DEF Rows, Rules, Recorded
<1>4. Recorded(r) \cap a = {}
    BY <1>1, <1>3 DEF Rules
<1>. QED  BY <1>1, <1>2, <1>3, <1>4

\* A probe updates one row in the session by one step of the automaton.
LEMMA ProbeInv ==
    ASSUME IInv, NEW h \in Hubs, NEW d \in Devices, NEW healthy \in BOOLEAN,
           NEW due \in SUBSET Rules, Probe(h, d, healthy, due)
    PROVE  IInv'
<1> DEFINE r == work[h][d].read
           n == NextHealth(HealthOf(r), healthy)
<1>1. d \in Loaded(h) /\ work[h][d] \in Works /\ Tracks(d, work[h][d])
    BY DEF Probe, IInv, TypeOK, RoundInv, Loaded
<1>2. r \in Rows /\ HealthOf(r) \in Health
    BY <1>1 DEF Works, Tracks
<1>3. n \in Health
    BY <1>2, NextHealthType
<1>4. PICK a \in Alerts(r, n.st), b \in Announcements(r, due) :
         work' = [work EXCEPT ![h][d] =
                    [read |-> r, probed |-> TRUE, mails |-> a \cup b,
                     new |-> [r EXCEPT !.st = n.st, !.missed = n.missed,
                                       !.success = n.success, !.noted = Noted(r, due, b)]]]
    BY DEF Probe
<1> DEFINE new == [r EXCEPT !.st = n.st, !.missed = n.missed,
                            !.success = n.success, !.noted = Noted(r, due, b)]
           w == [read |-> r, probed |-> TRUE, mails |-> a \cup b, new |-> new]
<1>5. Noted(r, due, b) \in SUBSET Rules
    BY <1>2, <1>4 DEF Noted, Rows, Announcements
<1>6. new \in Rows
    BY <1>2, <1>3, <1>5 DEF Rows, Health
<1>7. HealthOf(new) = n
    BY <1>2, <1>3 DEF HealthOf, Rows, Health
<1>8. /\ a \cup b \in SUBSET ({"warning", "offline"} \cup Rules)
      /\ r.st \notin a \cup b
      /\ Recorded(r) \cap (a \cup b) = {}
    <2>1. n.st \in {"online", "warning", "offline"}
        BY <1>3 DEF Health
    <2>. QED  BY <1>2, <1>4, <2>1, MailsNew
<1>9. w \in Works
    BY <1>2, <1>6, <1>8 DEF Works
<1>10. Tracks(d, w)
    <2>1. w.read = r /\ w.new = new /\ w.mails = a \cup b
        OBVIOUS
    <2>2. \E up \in BOOLEAN : HealthOf(new) = NextHealth(HealthOf(r), up)
        BY <1>7
    <2>. QED  BY <1>1, <1>2, <1>8, <2>1, <2>2 DEF Tracks
<1>11. /\ work' \in [Hubs -> [Devices -> Works \cup {None}]]
       /\ work'[h][d] = w
       /\ \A g \in Hubs, e \in Devices : g # h \/ e # d => work'[g][e] = work[g][e]
    <2> HIDE DEF w, r, n
    <2>1. work' = [work EXCEPT ![h][d] = w]
        BY <1>4 DEF w, new
    <2>. QED  BY <1>9, <2>1 DEF IInv, TypeOK
<1>12. UNCHANGED <<row, holder, hub>>
    BY DEF Probe
<1>13. TypeOK'
    <2>1. \A g \in Hubs : hub[g] # "round" => g # h
        BY DEF Probe
    <2>2. \A g \in Hubs : hub[g] # "round" => Loaded(g)' = {}
        BY <1>11, <2>1 DEF IInv, TypeOK, Loaded
    <2>. QED  BY <1>11, <1>12, <2>2 DEF IInv, TypeOK
<1>14. LeaderInv' /\ ActiveInv'
    BY <1>12 DEF IInv, LeaderInv, ActiveInv
<1>15. RoundInv'
    <2> HIDE DEF w, r, n
    <2> SUFFICES ASSUME NEW g \in Hubs, NEW e \in Loaded(g)' PROVE Tracks(e, work[g][e])'
        BY DEF RoundInv
    <2>1. CASE g = h /\ e = d
        BY <1>10, <1>11, <1>12, <2>1 DEF Tracks
    <2>2. CASE g # h \/ e # d
        <3>1. work'[g][e] = work[g][e] /\ e \in Loaded(g)
            BY <1>11, <2>2 DEF Loaded
        <3>. QED  BY <1>12, <3>1 DEF IInv, RoundInv, Tracks
    <2>. QED  BY <2>1, <2>2
<1>. QED  BY <1>13, <1>14, <1>15 DEF IInv

\* What the UPDATE makes of a row keeps everything but the columns of the
\* round, and gives an active firewall the health the session holds.
LEMMA UpdatedRow ==
    ASSUME NEW now \in Rows, NEW w \in Works, NEW later \in SUBSET Renewable
    PROVE  /\ Updated(now, w, later) \in Rows
           /\ Updated(now, w, later).life = now.life
           /\ HealthOf(w.read) = HealthOf(now)
                 => HealthOf(Updated(now, w, later)) = HealthOf(w.new)
<1> DEFINE u == Updated(now, w, later)
           noted == (now.noted \ (w.read.noted \ w.new.noted)) \cup (w.mails \cap Rules)
           newer == noted \cap ((now.newer \ w.mails) \cup (later \cap w.mails))
<1>1. w.read \in Rows /\ w.new \in Rows
    BY DEF Works
<1>2. noted \in SUBSET Rules /\ newer \in SUBSET Renewable
    BY <1>1 DEF Rows
<1>3. u = [now EXCEPT !.st = IF w.new.st = w.read.st THEN @ ELSE w.new.st,
                      !.missed = IF w.new.missed = w.read.missed THEN @ ELSE w.new.missed,
                      !.success = IF w.new.success = w.read.success THEN @ ELSE w.new.success,
                      !.noted = noted, !.newer = newer]
    BY DEF Updated
<1>4. /\ u \in Rows /\ u.life = now.life
      /\ u.st = IF w.new.st = w.read.st THEN now.st ELSE w.new.st
      /\ u.missed = IF w.new.missed = w.read.missed THEN now.missed ELSE w.new.missed
      /\ u.success = IF w.new.success = w.read.success THEN now.success ELSE w.new.success
    <2> HIDE DEF u, noted, newer
    <2>. QED  BY <1>1, <1>2, <1>3 DEF Rows
<1>. QED  BY <1>4 DEF HealthOf

\* In a round of h nobody else holds rows, and each row it holds is a row.
LEMMA OneSession ==
    ASSUME IInv, NEW h \in Hubs, hub[h] = "round"
    PROVE  /\ \A g \in Hubs \ {h} : Loaded(g) = {}
           /\ \A d \in Loaded(h) : /\ d \in Devices /\ work[h][d] \in Works
                                   /\ Tracks(d, work[h][d])
<1>1. \A g \in Hubs \ {h} : hub[g] # "round"
    BY DEF IInv, LeaderInv
<1>. QED  BY <1>1 DEF IInv, TypeOK, RoundInv, Loaded

\* A commit gives each active firewall of the round one step of the automaton.
LEMMA CommitRows ==
    ASSUME IInv, NEW h \in Hubs, Commit(h), NEW d \in Devices
    PROVE  /\ row'[d] \in Rows
           /\ row'[d].life = row[d].life
           /\ d \notin Loaded(h) => row'[d] = row[d]
           /\ d \in Loaded(h) /\ row[d].life = "active" =>
                 \E healthy \in BOOLEAN :
                    HealthOf(row'[d]) = NextHealth(HealthOf(row[d]), healthy)
<1>1. row[d] \in Rows
    BY DEF IInv, TypeOK
<1>2. CASE d \notin Loaded(h)
    BY <1>1, <1>2 DEF Commit
<1>3. CASE d \in Loaded(h)
    <2> DEFINE w == work[h][d]
    <2>1. hub[h] = "round" /\ w.probed
        BY <1>3 DEF Commit
    <2>2. w \in Works /\ Tracks(d, w)
        BY <1>3, <2>1, OneSession
    <2>3. PICK later \in SUBSET Renewable : row'[d] = Updated(row[d], w, later)
        BY <1>3 DEF Commit
    <2>4. /\ row'[d] \in Rows /\ row'[d].life = row[d].life
          /\ HealthOf(w.read) = HealthOf(row[d]) => HealthOf(row'[d]) = HealthOf(w.new)
        BY <1>1, <2>2, <2>3, UpdatedRow
    <2>. QED  BY <1>3, <2>1, <2>2, <2>4 DEF Tracks
<1>. QED  BY <1>2, <1>3

\* A request leaves the health of the firewalls that stay active alone.
LEMMA RequestKeeps ==
    ASSUME IInv, NEW e \in Devices, NEW d \in Devices, row'[d].life = "active",
           Revoke(e) \/ DeleteRow(e) \/ SwitchQuiet(e) \/ Renewed(e)
    PROVE  row[d].life = "active" /\ HealthOf(row'[d]) = HealthOf(row[d])
<1>1. row \in [Devices -> Rows] /\ row[d] \in Rows /\ row[e] \in Rows
    BY DEF IInv, TypeOK
<1>2. CASE Revoke(e)
    BY <1>1, <1>2 DEF Revoke, Rows
<1>3. CASE DeleteRow(e)
    <2>1. DeletedRow.life = "deleted"
        BY NewRowType DEF DeletedRow, Rows
    <2>. QED  BY <1>1, <1>3, <2>1 DEF DeleteRow
<1>4. CASE SwitchQuiet(e)
    BY <1>1, <1>4 DEF SwitchQuiet, Rows, HealthOf
<1>5. CASE Renewed(e)
    BY <1>1, <1>5 DEF Renewed, Rows, HealthOf
<1>. QED  BY <1>2, <1>3, <1>4, <1>5

\* The commit of a round.
LEMMA CommitInv ==
    ASSUME IInv, NEW h \in Hubs, Commit(h)
    PROVE  IInv'
<1>1. hub[h] = "round" /\ EndRound(h) /\ UNCHANGED holder
    BY DEF Commit
<1>2. \A g \in Hubs : Loaded(g)' = {}
    BY <1>1, OneSession DEF EndRound, NoWork, Loaded, IInv, TypeOK
<1>3. TypeOK'
    <2>1. row' \in [Devices -> Rows]
        BY CommitRows DEF Commit
    <2>. QED  BY <1>1, <1>2, <2>1 DEF IInv, TypeOK, EndRound, NoWork
<1>4. LeaderInv'
    BY <1>1 DEF IInv, TypeOK, LeaderInv, EndRound
<1>5. ActiveInv'
    <2> SUFFICES ASSUME NEW d \in Devices, row'[d].life = "active"
                 PROVE  HealthOf(row'[d]) \in Health
        BY DEF ActiveInv
    <2>1. row[d].life = "active" /\ HealthOf(row[d]) \in Health
        BY CommitRows DEF IInv, ActiveInv
    <2>. QED  BY <2>1, CommitRows, NextHealthType
<1>6. RoundInv'
    BY <1>2 DEF RoundInv
<1>. QED  BY <1>3, <1>4, <1>5, <1>6 DEF IInv

\* Every step keeps the invariant.
LEMMA StepInv == IInv /\ [Next]_vars => IInv'
<1> SUFFICES ASSUME IInv, [Next]_vars PROVE IInv'
    OBVIOUS
<1> USE DEF LeaderInv
<1>1. ASSUME NEW h \in Hubs, Try(h) PROVE IInv'
    BY <1>1, Hands, NoneAssumption DEF Try, IInv, TypeOK
<1>2. ASSUME NEW h \in Hubs, Poll(h) \/ CancelPolling(h) \/ Restart(h) PROVE IInv'
    BY <1>2, Hands DEF Poll, CancelPolling, Restart, IInv, TypeOK
<1>3. ASSUME NEW h \in Hubs, CancelLeader(h) \/ Killed(h) PROVE IInv'
    <2>1. Ends(h, "ended")
        BY <1>3 DEF CancelLeader, Killed
    <2>2. LeaderInv'
        BY <2>1, NoneAssumption DEF Ends, IInv, TypeOK
    <2>. QED  BY <2>1, <2>2, Drops DEF Ends, IInv, TypeOK
<1>4. ASSUME NEW h \in Hubs, RoundFails(h) PROVE IInv'
    BY <1>4, Drops DEF RoundFails, EndRound, IInv, TypeOK
<1>5. ASSUME NEW d \in Devices, Revoke(d) \/ DeleteRow(d) PROVE IInv'
    <2> DEFINE revoked == [row[d] EXCEPT !.life = "revoked", !.st = "revoked"]
    <2>a. row \in [Devices -> Rows] /\ row[d] \in Rows
        BY DEF IInv, TypeOK
    <2>b. revoked \in Rows /\ revoked.life = "revoked"
        BY <2>a DEF Rows
    <2>c. DeletedRow \in Rows /\ DeletedRow.life = "deleted"
        BY NewRowType DEF DeletedRow, Rows
    <2>d. row' = [row EXCEPT ![d] = revoked] \/ row' = [row EXCEPT ![d] = DeletedRow]
        BY <1>5, <2>a DEF Revoke, DeleteRow
    <2> HIDE DEF revoked
    <2>1. row' \in [Devices -> Rows] /\ row'[d].life # "active"
        BY <2>a, <2>b, <2>c, <2>d
    <2>2. \A e \in Devices \ {d} : row'[e] = row[e]
        BY <2>a, <2>d
    <2>3. UNCHANGED <<holder, hub, work>>
        BY <1>5 DEF Revoke, DeleteRow
    <2>. QED  BY <2>1, <2>2, <2>3, Requests
<1>6. ASSUME NEW d \in Devices, SwitchQuiet(d) \/ Renewed(d) PROVE IInv'
    <2>a. row \in [Devices -> Rows] /\ row[d] \in Rows
        BY DEF IInv, TypeOK
    <2>b. PICK r \in Rows : /\ row' = [row EXCEPT ![d] = r] /\ r.noted = row[d].noted
                            /\ row[d].newer \subseteq r.newer
                            /\ HealthOf(r) = HealthOf(row[d])
        <3>1. CASE SwitchQuiet(d)
            BY <2>a, <3>1, [row[d] EXCEPT !.quiet = ~@] \in Rows DEF SwitchQuiet, Rows, HealthOf
        <3>2. CASE Renewed(d)
            <4>1. PICK k \in Renewable : row' = [row EXCEPT ![d].newer = @ \cup {k}]
                BY <3>2 DEF Renewed
            <4>2. [row[d] EXCEPT !.newer = @ \cup {k}] \in Rows
                BY <2>a DEF Rows
            <4>. QED  BY <2>a, <4>1, <4>2 DEF Rows, HealthOf
        <3>. QED  BY <1>6, <3>1, <3>2
    <2>1. row' \in [Devices -> Rows] /\ \A e \in Devices \ {d} : row'[e] = row[e]
        BY <2>a, <2>b
    <2>2. /\ row[d].life = "active" /\ HealthOf(row'[d]) = HealthOf(row[d])
          /\ row'[d].noted = row[d].noted /\ row[d].newer \subseteq row'[d].newer
        BY <1>6, <2>a, <2>b DEF SwitchQuiet, Renewed
    <2>3. UNCHANGED <<holder, hub, work>>
        BY <1>6 DEF SwitchQuiet, Renewed
    <2>. QED  BY <2>1, <2>2, <2>3, Requests
<1>7. CASE UNCHANGED vars
    BY <1>7 DEF vars, IInv, TypeOK, ActiveInv, RoundInv, Tracks, Loaded
<1>. QED  BY <1>1, <1>2, <1>3, <1>4, <1>5, <1>6, <1>7, StartRoundInv, ProbeInv, CommitInv
          DEF Next, Loop
-----------------------------------------------------------------------------
(* The theorems.                                                           *)

\* The invariant holds throughout.
LEMMA Invariance == Spec => []IInv
BY InitInv, StepInv, PTL DEF Spec

\* Every reachable state is well typed, and a process holds rows in a round
\* only (the sessions of run_device_health_checks_once).
THEOREM TypeCorrect == Spec => []TypeOK
<1>1. IInv => TypeOK
    BY DEF IInv
<1>. QED  BY <1>1, Invariance, PTL

\* At most one process at a time runs the job (run_cluster_singleton_loop),
\* whichever of them die, restart or are shut down.
THEOREM LeaderUnique == Spec => []OneLeader
<1>1. IInv => OneLeader
    BY DEF IInv, LeaderInv, OneLeader
<1>. QED  BY <1>1, Invariance, PTL

\* What a round of probes read of an active firewall's health is current when
\* the round's commit overwrites it.
THEOREM RoundsReadFresh == Spec => []ReadsAreFresh
<1>1. IInv => ReadsAreFresh
    BY DEF IInv, RoundInv, Tracks, ReadsAreFresh, Active
<1>. QED  BY <1>1, Invariance, PTL

\* No e-mail announces the status on record, or what was announced and not
\* renewed since (maybe_send_health_notification,
\* maybe_send_phase2_device_notifications).
THEOREM NewsOnly == Spec => []MailsAreNews
<1>1. IInv => MailsAreNews
    <2> SUFFICES ASSUME IInv, NEW h \in Hubs, NEW d \in Loaded(h) \cap Active
                 PROVE  /\ row[d].st \notin work[h][d].mails
                        /\ Recorded(row[d]) \cap work[h][d].mails = {}
        BY DEF MailsAreNews
    <2>1. Tracks(d, work[h][d]) /\ row[d].life = "active"
        BY DEF IInv, RoundInv, Active
    <2>2. work[h][d].read.st = row[d].st
        BY <2>1 DEF Tracks, HealthOf
    <2>3. Recorded(row[d]) \subseteq Recorded(work[h][d].read)
        BY <2>1 DEF Tracks, Recorded
    <2>. QED  BY <2>1, <2>2, <2>3 DEF Tracks
<1>. QED  BY <1>1, Invariance, PTL

\* The status of an active firewall agrees with its counters
\* (next_health_state), whatever the thresholds.
THEOREM StatusesExplained == Spec => []StatusExplained
<1>1. Init => StatusExplained
    BY ThresholdAssumption, Caps
    DEF Init, StatusExplained, Active, Explained, HealthOf, NewRow, Required
<1>2. IInv /\ IInv' /\ StatusExplained /\ [Next]_vars => StatusExplained'
    <2> SUFFICES ASSUME IInv, StatusExplained, [Next]_vars, NEW d \in Devices,
                        row'[d].life = "active"
                 PROVE  Explained(HealthOf(row'[d]))
        BY DEF StatusExplained, Active
    <2>1. ASSUME NEW h \in Hubs, Commit(h) PROVE Explained(HealthOf(row'[d]))
        <3>1. row[d].life = "active" /\ HealthOf(row[d]) \in Health /\ Explained(HealthOf(row[d]))
            BY <2>1, CommitRows DEF IInv, ActiveInv, StatusExplained, Active
        <3>. QED  BY <2>1, <3>1, CommitRows, NextHealthExplained
    <2>2. ASSUME NEW e \in Devices, Revoke(e) \/ DeleteRow(e) \/ SwitchQuiet(e) \/ Renewed(e)
          PROVE  Explained(HealthOf(row'[d]))
        <3>1. row[d].life = "active" /\ HealthOf(row'[d]) = HealthOf(row[d])
            BY <2>2, RequestKeeps
        <3>. QED  BY <3>1 DEF StatusExplained, Active
    <2>3. CASE UNCHANGED row
        BY <2>3 DEF StatusExplained, Active
    <2>. QED  BY <2>1, <2>2, <2>3
              DEF Next, Loop, vars, Try, Poll, StartRound, RoundFails, Probe, CancelLeader,
                  CancelPolling, Killed, Ends, Restart
<1>. QED  BY <1>1, <1>2, Invariance, PTL DEF Spec

\* The health HealthWatch sees.
Seen == [d \in Devices |-> IF row[d].life = "active" THEN HealthOf(row[d]) ELSE None]

\* The watched firewalls are the active ones.
LEMMA WatchedAreActive ==
    ASSUME IInv
    PROVE  Watch!Watched = Active
BY NoneAssumption DEF Watch!Watched, Active, IInv, ActiveInv

\* The automaton of HealthWatch is the automaton of HealthMonitor.
LEMMA SameAutomaton ==
    /\ Watch!NewHealth = NewHealth
    /\ \A s, healthy : Watch!NextHealth(s, healthy) = NextHealth(s, healthy)
<1>1. Watch!MissedCap = MissedCap /\ Watch!SuccessCap = SuccessCap
    BY DEF Watch!MissedCap, MissedCap, Watch!SuccessCap, SuccessCap, Watch!Larger, Larger
<1>2. \A s : Watch!Missed(s) = Missed(s)
    BY <1>1 DEF Watch!Missed, Missed, Watch!Up, Up
<1>3. \A s : Watch!Answered(s) = Answered(s)
    BY <1>1 DEF Watch!Answered, Answered, Watch!Up, Up, Watch!Required, Required
<1>4. \A s, healthy : Watch!NextHealth(s, healthy) = NextHealth(s, healthy)
    BY <1>2, <1>3 DEF Watch!NextHealth, NextHealth
<1>. QED  BY <1>4 DEF Watch!NewHealth, NewHealth

\* A commit is a round of HealthWatch for the active firewalls it loaded.
LEMMA CommitIsRound ==
    ASSUME IInv, NEW h \in Hubs, Commit(h)
    PROVE  Watch!Next
<1> DEFINE D == Loaded(h) \cap Active
           healthy == [d \in D |-> CHOOSE b \in BOOLEAN :
                          HealthOf(row'[d]) = NextHealth(HealthOf(row[d]), b)]
<1>1. D \in SUBSET Watch!Watched
    BY WatchedAreActive
<1>2. healthy \in [D -> BOOLEAN]
      /\ \A d \in D : HealthOf(row'[d]) = NextHealth(HealthOf(row[d]), healthy[d])
    <2>1. \A d \in D : \E b \in BOOLEAN :
             HealthOf(row'[d]) = NextHealth(HealthOf(row[d]), b)
        BY CommitRows DEF Active
    <2>. QED  BY <2>1
<1>3. \A d \in Devices : Seen'[d] =
         IF d \in D THEN NextHealth(Seen[d], healthy[d]) ELSE Seen[d]
    <2> HIDE DEF healthy
    <2> SUFFICES ASSUME NEW d \in Devices
                 PROVE  Seen'[d] = IF d \in D THEN NextHealth(Seen[d], healthy[d]) ELSE Seen[d]
        OBVIOUS
    <2>1. row'[d].life = row[d].life /\ (d \notin Loaded(h) => row'[d] = row[d])
        BY CommitRows
    <2>. QED  BY <1>2, <2>1 DEF Seen, Active
<1>4. \E f \in [D -> BOOLEAN] : \A d \in Devices :
         Seen'[d] = IF d \in D THEN NextHealth(Seen[d], f[d]) ELSE Seen[d]
    <2>1. healthy \in [D -> BOOLEAN]
        BY <1>2
    <2> HIDE DEF healthy, D
    <2>. QED  BY <1>3, <2>1
<1> HIDE DEF D
<1>5. PICK f \in [D -> BOOLEAN] : \A d \in Devices :
         Seen'[d] = IF d \in D THEN NextHealth(Seen[d], f[d]) ELSE Seen[d]
    BY <1>4
<1>6. Watch!Round(D, f)
    BY <1>5, SameAutomaton DEF Watch!Round, Seen
<1>. QED  BY <1>1, <1>6 DEF Watch!Next

\* A request is one firewall leaving, or nothing.
LEMMA RequestIsLeave ==
    ASSUME IInv, NEW e \in Devices,
           Revoke(e) \/ DeleteRow(e) \/ SwitchQuiet(e) \/ Renewed(e)
    PROVE  Watch!Next \/ Seen' = Seen
<1>1. \A d \in Devices \ {e} : Seen'[d] = Seen[d]
    BY DEF Seen, Revoke, DeleteRow, SwitchQuiet, Renewed, IInv, TypeOK
<1>2. CASE row'[e].life = "active"
    BY <1>1, <1>2, RequestKeeps DEF Seen
<1>3. CASE row'[e].life # "active" /\ row[e].life # "active"
    BY <1>1, <1>3 DEF Seen
<1>4. CASE row'[e].life # "active" /\ row[e].life = "active"
    <2>1. Seen' = [Seen EXCEPT ![e] = None]
        BY <1>1, <1>4 DEF Seen
    <2>2. e \in Watch!Watched
        BY <1>4, WatchedAreActive DEF Active
    <2>3. Watch!Leave(e)
        BY <2>1 DEF Watch!Leave, Seen
    <2>. QED  BY <2>2, <2>3 DEF Watch!Next
<1>. QED  BY <1>2, <1>3, <1>4

\* The Hub's processes together watch the firewalls as one would
\* (run_device_health_checks_once): a round takes effect at once or not at
\* all, and moves each active firewall it loaded by one step of the automaton.
THEOREM WatchImplemented == Spec => WatchedAtomically
<1>1. Init => Watch!Init
    BY SameAutomaton DEF Init, Watch!Init, NewRow, HealthOf, NewHealth
<1>2. IInv /\ [Next]_vars => [Watch!Next]_Seen
    <2> SUFFICES ASSUME IInv, [Next]_vars PROVE Watch!Next \/ Seen' = Seen
        OBVIOUS
    <2>1. CASE UNCHANGED row
        BY <2>1 DEF Seen
    <2>. QED  BY <2>1, CommitIsRound, RequestIsLeave
              DEF Next, Loop, vars, Try, Poll, StartRound, RoundFails, Probe, CancelLeader,
                  CancelPolling, Killed, Ends, Restart
<1>. QED  BY <1>1, <1>2, Invariance, PTL DEF Spec, WatchedAtomically, Watch!Spec, Seen
=============================================================================
