------------------------ MODULE ConnectorAccess_proofs ------------------------
(***************************************************************************)
(* Proofs about ConnectorAccess: for any number of streams, sessions and   *)
(* devices and any limit, its variables stay in their ranges, no session   *)
(* has more streams than its limit, and no stream outlives the sweep of    *)
(* close_device_access.                                                    *)
(***************************************************************************)
EXTENDS ConnectorAccess, FiniteSetTheorems, TLAPS

(***************************************************************************)
(* Types.                                                                  *)
(***************************************************************************)
\* The tables of a process that has just started are empty.
LEMMA InitType == Init => TypeOK
<1> SUFFICES ASSUME Init PROVE TypeOK
  OBVIOUS
<1>1. valid \in [Sessions -> SUBSET Conditions]
  BY DEF Init
<1>2. count \in [Sessions -> Nat] /\ sess \in [Streams -> Sessions \cup {None}]
  BY DEF Init
<1>3. \A d \in Devices : tracked[d] = {} /\ waitFor[d] = {}
  BY DEF Init
<1>4. tracked \in [Devices -> SUBSET Streams] /\ waitFor \in [Devices -> SUBSET Streams]
  BY DEF Init
<1> QED BY <1>1, <1>2, <1>3, <1>4 DEF Init, TypeOK, Stages

\* Every step of the stream's task keeps the ranges.
LEMMA TunnelType == ASSUME TypeOK, NEW h \in Streams, Tunnel(h) PROVE TypeOK'
<1> USE ParamAssumption DEF TypeOK, Stages, Step, Heard, dbVars, closeVars
<1>1. ASSUME NEW s \in Sessions, Validate(h, s) PROVE TypeOK'
  BY <1>1 DEF Validate
<1>2. CASE Reserve(h) \/ ReserveRefused(h)
  BY <1>2 DEF Reserve, ReserveRefused
<1>3. CASE Track(h)
  BY <1>3 DEF Track, Dev
<1>4. CASE ThreadReads(h)
  BY <1>4 DEF ThreadReads
<1>5. CASE RecheckPassed(h)
  BY <1>5 DEF RecheckPassed, AskSidecar
<1>6. CASE RecheckRefused(h) \/ ConfirmPassed(h) \/ ConfirmRefused(h)
  BY <1>6 DEF RecheckRefused, ConfirmPassed, ConfirmRefused
<1>7. CASE Connected(h) \/ ConnectFails(h) \/ Accepted(h) \/ AcceptedTooLate(h) \/ AcceptFails(h)
  BY <1>7 DEF Connected, ConnectFails, Accepted, AcceptedTooLate, AcceptFails
<1>8. CASE MonitorEnds(h) \/ MonitorGoesOn(h)
  BY <1>8 DEF MonitorEnds, MonitorGoesOn
<1>9. CASE StreamCloses(h) \/ AgentStreamCloses(h) \/ TimedOut(h) \/ Ended(h)
  BY <1>9 DEF StreamCloses, AgentStreamCloses, TimedOut, Ended
<1>10. CASE Release(h)
  <2>1. count' \in [Sessions -> Nat]
    BY <1>10 DEF Release
  <2>2. tracked' \in [Devices -> SUBSET Streams] /\ \A d \in Devices : tracked'[d] \subseteq tracked[d]
    BY <1>10 DEF Release, Dev
  <2> QED BY <1>10, <2>1, <2>2 DEF Release
<1>11. CASE CancelDelivered(h)
  BY <1>11 DEF CancelDelivered
<1> QED BY <1>1, <1>2, <1>3, <1>4, <1>5, <1>6, <1>7, <1>8, <1>9, <1>10, <1>11 DEF Tunnel, Progress

\* So do the rest of the Hub, the database and the sidecar.
LEMMA NextType == TypeOK /\ [Next]_vars => TypeOK'
<1> SUFFICES ASSUME TypeOK, [Next]_vars PROVE TypeOK'
  OBVIOUS
<1>1. ASSUME NEW h \in Streams, Tunnel(h) PROVE TypeOK'
  BY <1>1, TunnelType
<1> USE ParamAssumption DEF TypeOK, Stages, dbVars, closeVars
<1>2. ASSUME NEW h \in Streams, FarRefuses(h) \/ FarOpens(h) \/ FirewallCloses(h) \/ FarEnds(h) PROVE TypeOK'
  BY <1>2 DEF FarRefuses, FarOpens, FirewallCloses, FarEnds, FarStep
<1>3. ASSUME NEW d \in Devices, Revoke(d) \/ CompanyDeleted(d) PROVE TypeOK'
  BY <1>3 DEF Revoke, CompanyDeleted
<1>4. ASSUME NEW d \in Devices, CancelTasks(d) PROVE TypeOK'
  BY <1>4 DEF CancelTasks
<1>5. ASSUME NEW d \in Devices, CloseReturns(d) PROVE TypeOK'
  BY <1>5 DEF CloseReturns
<1>6. CASE CloseAll
  BY <1>6 DEF CloseAll
<1>7. CASE Restarts
  BY <1>7 DEF Restarts
<1>8. ASSUME NEW s \in Sessions, OpenConnector(s) \/ HandOver(s) PROVE TypeOK'
  BY <1>8 DEF OpenConnector, HandOver
<1>9. ASSUME NEW s \in Sessions, ChangeAccess(s) PROVE TypeOK'
  BY <1>9 DEF ChangeAccess, Conditions
<1>10. ASSUME NEW s \in Sessions, NEW what \in Conditions, Lapse(s, what) PROVE TypeOK'
  BY <1>10 DEF Lapse, Conditions
<1>11. CASE UNCHANGED vars
  BY <1>11 DEF vars
<1> QED BY <1>1, <1>2, <1>3, <1>4, <1>5, <1>6, <1>7, <1>8, <1>9, <1>10, <1>11 DEF Next, Close

\* Every variable stays in its range and only registered tasks are cancelled,
\* whatever connector_device_tunnel, revocations, the sidecar, shutdowns and
\* restarts do.
THEOREM TypeCorrect == Spec => []TypeOK
  BY InitType, NextType, PTL DEF Spec

(***************************************************************************)
(* The sweep.                                                              *)
(***************************************************************************)
\* close_device_access runs after the commit that took the device away.
SweptGone ==
    \A d \in Devices : closer[d] # "idle" \/ d \in swept => devState[d] # "active"

\* From its registration until it ends, a task is in the table of its device or
\* is being cancelled.
Registered ==
    \A h \in Streams :
        pc[h] \in {"recheck", "connecting", "confirm", "accepting", "open"}
        => h \in tracked[Dev(h)] \/ h \in cancelled

\* A task that has been told yes, or went on from there, was told before the
\* sweep: it is being cancelled.
Overtaken ==
    \A h \in Streams :
        /\ \/ pc[h] \in {"connecting", "confirm", "accepting", "open"}
           \/ pc[h] = "recheck" /\ answer[h] = "yes"
        /\ Dev(h) \in swept
        => h \in cancelled

\* No task is asked about before its registration.
Unasked ==
    \A h \in Streams : pc[h] \in {"idle", "validated", "reserved"} => answer[h] = "none"

SweepInv == TypeOK /\ SweptGone /\ Registered /\ Overtaken /\ Unasked

\* Nothing is registered or swept at the start.
LEMMA InitSweep == Init => SweepInv
  BY InitType DEF Init, SweepInv, SweptGone, Registered, Overtaken, Unasked

\* A step of a task that stays registered, or ends.
LEMMA TunnelSweep == ASSUME SweepInv, NEW h \in Streams, Tunnel(h)
                     PROVE  SweptGone' /\ Registered' /\ Overtaken' /\ Unasked'
<1> USE ParamAssumption DEF SweepInv, TypeOK, SweptGone, Registered, Overtaken, Unasked, Dev,
          Step, Heard, dbVars, closeVars
<1>0. UNCHANGED <<dbVars, closer, swept>>
  BY DEF Tunnel, Progress, Validate, Reserve, ReserveRefused, Track, ThreadReads, RecheckPassed,
     RecheckRefused, ConfirmPassed, ConfirmRefused, Connected, ConnectFails, Accepted,
     AcceptedTooLate, AcceptFails, MonitorEnds, MonitorGoesOn, StreamCloses, AgentStreamCloses,
     TimedOut, Ended, Release, CancelDelivered
<1>1. SweptGone'
  BY <1>0
<1>2. ASSUME NEW s \in Sessions, Validate(h, s) PROVE Registered' /\ Overtaken' /\ Unasked'
  BY <1>2 DEF Validate
<1>3. CASE Reserve(h) \/ ReserveRefused(h)
  BY <1>3 DEF Reserve, ReserveRefused
<1>4. CASE Track(h)
  <2>1. SessionDevice[sess[h]] \in Devices
    BY <1>4 DEF Track
  <2>2. /\ tracked' = [tracked EXCEPT ![Dev(h)] = @ \cup {h}]
        /\ answer[h] = "none"
    BY <1>4 DEF Track
  <2> QED BY <1>4, <2>1, <2>2 DEF Track
<1>5. CASE ThreadReads(h)
  BY <1>5 DEF ThreadReads, Authorized
<1>6. CASE RecheckPassed(h)
  BY <1>6 DEF RecheckPassed
<1>7. CASE RecheckRefused(h) \/ ConfirmPassed(h) \/ ConfirmRefused(h)
  BY <1>7 DEF RecheckRefused, ConfirmPassed, ConfirmRefused
<1>8. CASE Connected(h) \/ ConnectFails(h) \/ Accepted(h) \/ AcceptedTooLate(h) \/ AcceptFails(h)
  BY <1>8 DEF Connected, ConnectFails, Accepted, AcceptedTooLate, AcceptFails
<1>9. CASE MonitorEnds(h) \/ MonitorGoesOn(h)
  BY <1>9 DEF MonitorEnds, MonitorGoesOn
<1>10. CASE StreamCloses(h) \/ AgentStreamCloses(h) \/ TimedOut(h) \/ Ended(h)
  BY <1>10 DEF StreamCloses, AgentStreamCloses, TimedOut, Ended
<1>11. CASE Release(h)
  BY <1>11 DEF Release
<1>12. CASE CancelDelivered(h)
  BY <1>12 DEF CancelDelivered
<1> QED BY <1>1, <1>2, <1>3, <1>4, <1>5, <1>6, <1>7, <1>8, <1>9, <1>10, <1>11, <1>12 DEF Tunnel, Progress

\* The sweep takes every registered task of its device; all other steps leave
\* the tasks alone or end them.
LEMMA NextSweep == SweepInv /\ [Next]_vars => SweepInv'
<1> SUFFICES ASSUME SweepInv, [Next]_vars
             PROVE  SweptGone' /\ Registered' /\ Overtaken' /\ Unasked'
  BY NextType DEF SweepInv
<1> DEFINE Goal == SweptGone' /\ Registered' /\ Overtaken' /\ Unasked'
<1>1. ASSUME NEW h \in Streams, Tunnel(h) PROVE Goal
  BY <1>1, TunnelSweep
<1> USE ParamAssumption DEF SweepInv, TypeOK, SweptGone, Registered, Overtaken, Unasked, Dev, dbVars, closeVars
<1>2. ASSUME NEW h \in Streams, FarRefuses(h) \/ FarOpens(h) \/ FirewallCloses(h) \/ FarEnds(h) PROVE Goal
  BY <1>2 DEF FarRefuses, FarOpens, FirewallCloses, FarEnds, FarStep
<1>3. ASSUME NEW d \in Devices, Revoke(d) \/ CompanyDeleted(d) PROVE Goal
  BY <1>3 DEF Revoke, CompanyDeleted
<1>4. ASSUME NEW d \in Devices, CancelTasks(d) PROVE Goal
  <2>1. SweptGone' /\ Unasked'
    BY <1>4 DEF CancelTasks
  <2>2. \A h \in tracked[d] : pc[h] # "done" => h \in cancelled'
    BY <1>4 DEF CancelTasks
  <2>3. /\ UNCHANGED <<pc, sess, answer>>
        /\ cancelled \subseteq cancelled'
        /\ swept' = swept \cup {d}
        /\ \A e \in Devices : e # d => tracked'[e] = tracked[e]
    BY <1>4 DEF CancelTasks
  <2>4. Registered' /\ Overtaken'
    BY <2>2, <2>3
  <2> QED BY <2>1, <2>4
<1>5. ASSUME NEW d \in Devices, CloseReturns(d) PROVE Goal
  BY <1>5 DEF CloseReturns
<1>6. CASE CloseAll
  <2>1. \A h \in Streams : pc[h] # "idle" => Dev(h) \in Devices
    OBVIOUS
  <2> QED BY <1>6, <2>1 DEF CloseAll
<1>7. CASE Restarts
  BY <1>7 DEF Restarts
<1>8. ASSUME NEW s \in Sessions, OpenConnector(s) \/ HandOver(s) \/ ChangeAccess(s) PROVE Goal
  BY <1>8 DEF OpenConnector, HandOver, ChangeAccess
<1>9. ASSUME NEW s \in Sessions, NEW what \in Conditions, Lapse(s, what) PROVE Goal
  BY <1>9 DEF Lapse
<1>10. CASE UNCHANGED vars
  BY <1>10 DEF vars
<1> QED BY <1>1, <1>2, <1>3, <1>4, <1>5, <1>6, <1>7, <1>8, <1>9, <1>10 DEF Next, Close

\* Once close_device_access has cancelled a device's tasks, no stream to the
\* device connects, is accepted or relays unless its cancellation is pending:
\* registration comes before the check it has to pass.
THEOREM RevokedStaysClosed == Spec => []RevokedIsClosed
<1>1. SweepInv => RevokedIsClosed
  BY DEF SweepInv, Overtaken, RevokedIsClosed
<1> QED BY <1>1, InitSweep, NextSweep, PTL DEF Spec

(***************************************************************************)
(* The limit.                                                              *)
(***************************************************************************)
\* The count of a session is within the limit, and no smaller than the number
\* of its streams (slots that leak make it larger).
LimitInv ==
    /\ TypeOK
    /\ \A s \in Sessions : count[s] <= MaxConnections /\ Cardinality(Holders(s)) <= count[s]

\* A session's streams are finitely many.
LEMMA HoldersFinite == ASSUME NEW s \in Sessions
                       PROVE  IsFiniteSet(Holders(s)) /\ Cardinality(Holders(s)) \in Nat
  BY ParamAssumption, FS_Subset, FS_CardinalityType DEF Holders

LEMMA HoldersFiniteNext == ASSUME NEW s \in Sessions
                           PROVE  IsFiniteSet(Holders(s)') /\ Cardinality(Holders(s)') \in Nat
  BY ParamAssumption, FS_Subset, FS_CardinalityType DEF Holders

\* A step after which a session has no more streams and the same count.
LEMMA FewerHolders ==
    ASSUME LimitInv, UNCHANGED count, \A s \in Sessions : Holders(s)' \subseteq Holders(s)
    PROVE  \A s \in Sessions : count'[s] <= MaxConnections /\ Cardinality(Holders(s)') <= count'[s]
<1> TAKE s \in Sessions
<1>1. Cardinality(Holders(s)') <= Cardinality(Holders(s))
  BY HoldersFinite, FS_Subset
<1> QED BY <1>1, HoldersFinite, HoldersFiniteNext DEF LimitInv, TypeOK

\* No task holds anything at the start.
LEMMA InitLimit == Init => LimitInv
<1> SUFFICES ASSUME Init PROVE LimitInv
  OBVIOUS
<1>1. \A s \in Sessions : Holders(s) = {}
  BY DEF Init, Holders
<1>2. \A s \in Sessions : count[s] = 0 /\ Cardinality(Holders(s)) = 0
  BY <1>1, FS_EmptySet DEF Init
<1> QED BY <1>2, InitType, ParamAssumption DEF LimitInv

\* A reservation below the limit adds one stream and one to the count, a release
\* takes a stream away and one from the count; no other step of a task adds a
\* stream or changes a count.
LEMMA TunnelLimit == ASSUME LimitInv, TypeOK', NEW h \in Streams, Tunnel(h)
                     PROVE  LimitInv'
<1> DEFINE Goal == \A s \in Sessions :
                       count'[s] <= MaxConnections /\ Cardinality(Holders(s)') <= count'[s]
<1> SUFFICES Goal
  BY DEF LimitInv
<1>1. CASE Reserve(h)
  <2>1. /\ pc[h] = "validated" /\ sess[h] \in Sessions /\ sess' = sess
        /\ count[sess[h]] < MaxConnections
        /\ count' = [count EXCEPT ![sess[h]] = @ + 1]
        /\ pc' = [pc EXCEPT ![h] = "reserved"]
    BY <1>1 DEF Reserve, Step, LimitInv, TypeOK
  <2> SUFFICES ASSUME NEW s \in Sessions
               PROVE  count'[s] <= MaxConnections /\ Cardinality(Holders(s)') <= count'[s]
    OBVIOUS
  <2>2. CASE s = sess[h]
    <3>1. Holders(s)' = Holders(s) \cup {h}
      BY <2>1, <2>2 DEF Holders, LimitInv, TypeOK
    <3>2. Cardinality(Holders(s)') <= Cardinality(Holders(s)) + 1
      BY <3>1, HoldersFinite, FS_AddElement
    <3>3. count'[s] = count[s] + 1
      BY <2>1, <2>2 DEF LimitInv, TypeOK
    <3> QED BY <2>1, <2>2, <3>2, <3>3, HoldersFinite, HoldersFiniteNext, ParamAssumption DEF LimitInv, TypeOK
  <2>3. CASE s # sess[h]
    <3>1. Holders(s)' = Holders(s)
      BY <2>1, <2>3 DEF Holders, LimitInv, TypeOK
    <3> QED BY <2>1, <2>3, <3>1 DEF LimitInv, TypeOK
  <2> QED BY <2>2, <2>3
<1>2. CASE Release(h)
  <2>1. /\ pc[h] = "cleanup" /\ sess[h] \in Sessions /\ sess' = sess
        /\ count' = [count EXCEPT ![sess[h]] = IF @ <= 1 THEN 0 ELSE @ - 1]
        /\ pc' = [pc EXCEPT ![h] = "done"]
    BY <1>2 DEF Release, Step, LimitInv, TypeOK
  <2> SUFFICES ASSUME NEW s \in Sessions
               PROVE  count'[s] <= MaxConnections /\ Cardinality(Holders(s)') <= count'[s]
    OBVIOUS
  <2>2. CASE s = sess[h]
    <3>1. Holders(s)' = Holders(s) \ {h} /\ h \in Holders(s)
      BY <2>1, <2>2 DEF Holders, LimitInv, TypeOK
    <3>2. Cardinality(Holders(s)') = Cardinality(Holders(s)) - 1
      BY <3>1, HoldersFinite, FS_RemoveElement
    <3>3. count'[s] = IF count[s] <= 1 THEN 0 ELSE count[s] - 1
      BY <2>1, <2>2 DEF LimitInv, TypeOK
    <3> QED BY <3>2, <3>3, HoldersFinite, HoldersFiniteNext, ParamAssumption DEF LimitInv, TypeOK
  <2>3. CASE s # sess[h]
    <3>1. Holders(s)' = Holders(s)
      BY <2>1, <2>3 DEF Holders, LimitInv, TypeOK
    <3> QED BY <2>1, <2>3, <3>1 DEF LimitInv, TypeOK
  <2> QED BY <2>2, <2>3
<1>3. CASE ~Reserve(h) /\ ~Release(h)
  <2>1. UNCHANGED count
    BY <1>3 DEF Tunnel, Progress, Validate, ReserveRefused, Track, ThreadReads, RecheckPassed,
       RecheckRefused, ConfirmPassed, ConfirmRefused, Connected, ConnectFails, Accepted,
       AcceptedTooLate, AcceptFails, MonitorEnds, MonitorGoesOn, StreamCloses,
       AgentStreamCloses, TimedOut, Ended, CancelDelivered
  <2>2. \A g \in Streams : g # h => pc'[g] = pc[g] /\ sess'[g] = sess[g]
    BY <1>3 DEF Tunnel, Progress, Validate, ReserveRefused, Track, ThreadReads, RecheckPassed,
       RecheckRefused, ConfirmPassed, ConfirmRefused, Connected, ConnectFails, Accepted,
       AcceptedTooLate, AcceptFails, MonitorEnds, MonitorGoesOn, StreamCloses,
       AgentStreamCloses, TimedOut, Ended, CancelDelivered, Step, LimitInv, TypeOK
  <2>3. \/ pc'[h] \in {"validated", "done"}
        \/ pc[h] \notin {"idle", "validated", "done"} /\ sess'[h] = sess[h]
    BY <1>3 DEF Tunnel, Progress, Validate, ReserveRefused, Track, ThreadReads, RecheckPassed,
       RecheckRefused, ConfirmPassed, ConfirmRefused, Connected, ConnectFails, Accepted,
       AcceptedTooLate, AcceptFails, MonitorEnds, MonitorGoesOn, StreamCloses,
       AgentStreamCloses, TimedOut, Ended, CancelDelivered, Step, LimitInv, TypeOK
  <2>4. \A s \in Sessions : Holders(s)' \subseteq Holders(s)
    BY <2>2, <2>3 DEF Holders
  <2> QED BY <2>1, <2>4, FewerHolders
<1> QED BY <1>1, <1>2, <1>3

\* The counts of a new process are zero, and the tasks of the old one are gone.
LEMMA NextLimit == LimitInv /\ [Next]_vars => LimitInv'
<1> SUFFICES ASSUME LimitInv, [Next]_vars PROVE LimitInv'
  OBVIOUS
<1>0. TypeOK'
  BY NextType DEF LimitInv
<1>1. ASSUME NEW h \in Streams, Tunnel(h) PROVE LimitInv'
  BY <1>0, <1>1, TunnelLimit
<1>2. CASE Restarts
  <2>1. \A s \in Sessions : Holders(s)' = {}
    BY <1>2 DEF Restarts, Holders
  <2>2. \A s \in Sessions : count'[s] = 0
    BY <1>2 DEF Restarts
  <2>3. \A s \in Sessions : Cardinality(Holders(s)') = 0
    BY <2>1, FS_EmptySet
  <2> QED BY <1>0, <2>2, <2>3, ParamAssumption DEF LimitInv
<1>3. CASE ~Restarts /\ \A h \in Streams : ~Tunnel(h)
  <2>1. UNCHANGED <<pc, sess, count>>
    BY <1>3 DEF Next, Close, vars, dbVars, closeVars, FarRefuses, FarOpens, FirewallCloses, FarEnds,
       FarStep, Revoke, CompanyDeleted, CancelTasks, CloseReturns, CloseAll, OpenConnector,
       HandOver, ChangeAccess, Lapse
  <2>2. \A s \in Sessions : Holders(s)' = Holders(s)
    BY <2>1 DEF Holders
  <2> QED BY <1>0, <2>1, <2>2 DEF LimitInv
<1> QED BY <1>1, <1>2, <1>3

\* CONNECTOR_MAX_CONNECTIONS: no session has more streams than it may, however
\* reservations, releases, cancellations and restarts interleave.
THEOREM LimitKept == Spec => []LimitEnforced
<1>1. LimitInv => LimitEnforced
  <2> SUFFICES ASSUME LimitInv, NEW s \in Sessions PROVE Cardinality(Holders(s)) <= MaxConnections
    BY DEF LimitEnforced
  <2> QED BY HoldersFinite, ParamAssumption DEF LimitInv, TypeOK
<1> QED BY <1>1, InitLimit, NextLimit, PTL DEF Spec
=============================================================================
