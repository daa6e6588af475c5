------------------------ MODULE DeviceSession_proofs ------------------------
(***************************************************************************)
(* Proofs about DeviceSession, for every number of plugin processes, every *)
(* set of faults and every bound.                                          *)
(***************************************************************************)
EXTENDS DeviceSession, TLAPS

Waiting == {"beating", "rotating"}

ProcStates == [at : Steps, st : Tokens \cup {NoToken}, body : Bodies,
               next : Steps \cup {"done"}]

\* A process that sends its token, or is about to rotate it, has one.
Authentic(q) ==
    q.at \in {"beating", "rotate"} \/ q.next = "rotate" => q.st # NoToken

\* The rows, and the files.
StoresOK ==
    /\ dev \in {"active", "revoked", "deleted"}
    /\ hash \in Tokens \cup {NoToken}
    /\ age \in {"fresh", "due", "expired"}
    /\ issued \in Tokens
    /\ fwReq \in BOOLEAN
    /\ file \in [is : {"absent", "torn", "state"}, tok : Tokens \cup {NoToken}]
    /\ file.is # "state" => file.tok = NoToken
    /\ cron \in BOOLEAN

\* The processes and their requests: a process that waits has either one
\* request or an answer under way, never two of them; the others have none.
CallsOK ==
    /\ sent \subseteq Requests
    /\ reply \in [Procs -> Replies \cup {None}]
    /\ proc \in [Procs -> ProcStates]
    /\ \A p \in Procs : Authentic(proc[p]) /\ proc[p].next \notin Waiting
    /\ \A p \in Procs : reply[p] # None => proc[p].at \in Waiting
    /\ \A r \in sent : r.by # None =>
          /\ proc[r.by].at = IF r.kind = "heartbeat" THEN "beating" ELSE "rotating"
          /\ reply[r.by] = None
    /\ \A r, s \in sent : r.by # None /\ r.by = s.by => r = s

LEMMA PartsType == StoresOK /\ CallsOK => TypeOK
  BY DEF StoresOK, CallsOK, TypeOK, ProcStates, Waiting

\* After the step p waits for nothing: it has no answer, and no request that
\* the Hub still holds is its own.
Ends(p) ==
    /\ reply' = [reply EXCEPT ![p] = None]
    /\ \A r \in sent' : r \in Requests /\ (r.by # None => r \in sent /\ r.by # p)

\* A process that waited for nothing and sends nothing.
LEMMA LocalEnds ==
    ASSUME CallsOK, NEW p \in Procs, proc[p].at \notin Waiting, UNCHANGED <<sent, reply>>
    PROVE  Ends(p)
  BY DEF CallsOK, Ends, Waiting

\* A process that takes its answer.
LEMMA ReplyEnds ==
    ASSUME CallsOK, NEW p \in Procs, reply[p] # None, Consume(p), UNCHANGED sent
    PROVE  Ends(p)
  BY DEF CallsOK, Ends, Consume

\* A process that gives up, or dies.
LEMMA AbandonEnds ==
    ASSUME CallsOK, NEW p \in Procs, Abandon(p), Consume(p)
    PROVE  Ends(p)
<1> SUFFICES ASSUME NEW r \in sent'
             PROVE  r \in Requests /\ (r.by # None => r \in sent /\ r.by # p)
  BY DEF Ends, Consume
<1>1. PICK s \in sent : r = [s EXCEPT !.by = IF @ = p THEN None ELSE @]
  BY DEF Abandon
<1>2. s \in Requests
  BY DEF CallsOK
<1>3. CASE s.by = p
  BY <1>1, <1>2, <1>3 DEF Requests
<1>4. CASE s.by # p
  <2>1. r = s
    BY <1>1, <1>2, <1>4 DEF Requests
  <2> QED BY <2>1, <1>2, <1>4
<1> QED BY <1>3, <1>4

\* A process moves to a state in which it waits for nothing.
LEMMA Move ==
    ASSUME CallsOK, NEW p \in Procs, NEW q \in ProcStates,
           Authentic(q), q.at \notin Waiting, q.next \notin Waiting,
           Ends(p), proc' = [proc EXCEPT ![p] = q]
    PROVE  CallsOK'
  BY DEF CallsOK, Ends

LEMMA GoToCalls ==
    ASSUME CallsOK, NEW p \in Procs, NEW step \in (Steps \cup {"done"}) \ Waiting,
           step = "rotate" => proc[p].st # NoToken,
           Ends(p), GoTo(p, step)
    PROVE  CallsOK'
<1> DEFINE q == IF step \in {"idle", "done"} THEN Idle ELSE [proc[p] EXCEPT !.at = step]
<1>1. /\ Idle \in ProcStates /\ Authentic(Idle)
      /\ Idle.at \notin Waiting /\ Idle.next \notin Waiting
  BY DEF Idle, ProcStates, Waiting, Steps, Bodies, NoBody, Authentic
<1>2. q \in ProcStates /\ Authentic(q) /\ q.at \notin Waiting /\ q.next \notin Waiting
  BY <1>1 DEF CallsOK, ProcStates, Authentic, Waiting
<1>3. proc' = [proc EXCEPT ![p] = q]
  BY DEF GoTo
<1> HIDE DEF q
<1> QED BY <1>2, <1>3, Move

LEMMA SaveCalls ==
    ASSUME CallsOK, NEW p \in Procs, NEW step \in (Steps \cup {"done"}) \ Waiting,
           NEW t \in Tokens \cup {NoToken}, step = "rotate" => t # NoToken,
           Ends(p), SaveState(p, t, step)
    PROVE  CallsOK'
<1> DEFINE q == [proc[p] EXCEPT !.at = "writing", !.st = t, !.next = step]
<1>1. q \in ProcStates /\ Authentic(q) /\ q.at \notin Waiting /\ q.next \notin Waiting
  BY DEF CallsOK, ProcStates, Steps, Waiting, Authentic
<1>2. proc' = [proc EXCEPT ![p] = q]
  BY DEF SaveState
<1> HIDE DEF q
<1> QED BY <1>1, <1>2, Move

\* A process sends a request and waits for its answer.
LEMMA RequestCalls ==
    ASSUME CallsOK, NEW p \in Procs, proc[p].at \notin Waiting, proc[p].st # NoToken,
           NEW kind \in {"heartbeat", "rotation"}, NEW firmware \in BOOLEAN,
           NEW step, step = IF kind = "heartbeat" THEN "beating" ELSE "rotating",
           Request(p, kind, firmware), GoTo(p, step), UNCHANGED reply
    PROVE  CallsOK'
<1> DEFINE new == [by |-> p, kind |-> kind, tok |-> proc[p].st, phase |-> "sent",
                   firmware |-> firmware, pending |-> FALSE]
           q == [proc[p] EXCEPT !.at = step]
<1>1. new \in Requests /\ new.by = p /\ new.kind = kind
  BY DEF Requests, CallsOK, ProcStates
<1>2. q \in ProcStates /\ Authentic(q) /\ q.at = step /\ q.next \notin Waiting
  BY DEF CallsOK, ProcStates, Steps, Authentic
<1>3. sent' = sent \cup {new} /\ proc' = [proc EXCEPT ![p] = q]
  BY DEF Request, GoTo
<1>4. reply[p] = None /\ \A r \in sent : r.by # None => r.by # p
  BY DEF CallsOK, Waiting
<1> HIDE DEF new, q
<1> QED BY <1>1, <1>2, <1>3, <1>4 DEF CallsOK, Waiting

\* The Hub answers one request.
LEMMA AnswerCalls ==
    ASSUME CallsOK, NEW r \in sent, NEW a \in Replies, Answer(r, a), UNCHANGED proc
    PROVE  CallsOK'
<1>1. r \in Requests /\ (r.by # None => r.by \in Procs)
  BY DEF CallsOK, Requests
<1> QED BY <1>1 DEF CallsOK, Answer, Waiting

\* Every state of the body leads to a step that sends nothing yet.
LEMMA NextStep ==
    ASSUME NEW b \in Bodies
    PROVE  /\ AfterRotation(b) \in {"collect", "upload", "done"}
           /\ AfterHeartbeat(b) \in {"rotate", "collect", "upload", "done"}
  BY DEF Bodies, AfterRotation, AfterHeartbeat

\* The first state.
LEMMA InitParts == Init => StoresOK /\ CallsOK
<1> SUFFICES ASSUME Init PROVE StoresOK /\ CallsOK
  OBVIOUS
<1>1. 1 \in Tokens
  BY ConstantsAssumption DEF Tokens
<1>2. StoresOK
  BY <1>1 DEF Init, StoresOK, State
<1>3. Idle \in ProcStates /\ Authentic(Idle) /\ Idle.next \notin Waiting
  BY DEF Idle, ProcStates, Steps, Bodies, NoBody, Waiting, Authentic
<1>4. CallsOK
  BY <1>3 DEF Init, CallsOK
<1> QED BY <1>2, <1>4

\* The steps of the Hub.
LEMMA HubParts == StoresOK /\ CallsOK /\ Hub => StoresOK' /\ CallsOK'
<1> SUFFICES ASSUME StoresOK, CallsOK, Hub PROVE StoresOK' /\ CallsOK'
  OBVIOUS
<1>1. \A code \in {401, 410, 500} : Refusal(code) \in Replies
  BY DEF Refusal, Replies, NoBody, Bodies
<1>2. sent \subseteq Requests
  BY DEF CallsOK
<1>3. ASSUME NEW r \in sent, Authorize(r) PROVE StoresOK' /\ CallsOK'
  <2> DEFINE s == [r EXCEPT !.phase = "authorized", !.pending = fwReq]
  <2>1. s \in Requests /\ s.by = r.by /\ s.kind = r.kind
    BY <1>2 DEF Requests, StoresOK
  <2>2. sent' = (sent \ {r}) \cup {s} /\ UNCHANGED <<hubVars, reply, file, cron, proc>>
    BY <1>3 DEF Authorize
  <2> HIDE DEF s
  <2> QED BY <2>1, <2>2 DEF CallsOK, StoresOK, hubVars
<1>4. ASSUME NEW r \in sent, Refuse(r) PROVE StoresOK' /\ CallsOK'
  <2>1. StatusFor(r) \in {401, 410}
    BY <1>4 DEF Refuse, StatusFor, StoresOK
  <2>2. CallsOK'
    BY <1>1, <1>4, <2>1, AnswerCalls DEF Refuse
  <2> QED BY <1>4, <2>2 DEF Refuse, StoresOK, hubVars
<1>5. ASSUME NEW r \in sent, CommitFails(r) PROVE StoresOK' /\ CallsOK'
  BY <1>1, <1>5, AnswerCalls DEF CommitFails, StoresOK, hubVars
<1>6. ASSUME NEW r \in sent, CommitHeartbeat(r) PROVE StoresOK' /\ CallsOK'
  <2>1. r.pending \in BOOLEAN /\ r.firmware \in BOOLEAN
    BY <1>2 DEF Requests
  <2>2. PICK backup \in BOOLEAN :
          Answer(r, [code |-> 200, tok |-> NoToken,
                     body |-> [rotate |-> age # "fresh",
                               firmware |-> r.pending /\ ~r.firmware,
                               backup |-> backup]])
    BY <1>6 DEF CommitHeartbeat
  <2>3. [code |-> 200, tok |-> NoToken,
         body |-> [rotate |-> age # "fresh", firmware |-> r.pending /\ ~r.firmware,
                   backup |-> backup]] \in Replies
    BY <2>1 DEF Replies, Bodies
  <2>4. CallsOK'
    BY <1>6, <2>2, <2>3, AnswerCalls DEF CommitHeartbeat
  <2>5. fwReq' \in BOOLEAN
    BY <1>6 DEF CommitHeartbeat
  <2> QED BY <1>6, <2>4, <2>5 DEF CommitHeartbeat, StoresOK
<1>7. ASSUME NEW r \in sent, CommitRotation(r) PROVE StoresOK' /\ CallsOK'
  <2>1. issued' \in Tokens
    BY <1>7, ConstantsAssumption DEF CommitRotation, StoresOK, Tokens
  <2>2. [code |-> 200, tok |-> issued', body |-> NoBody] \in Replies
    BY <2>1 DEF Replies, Bodies, NoBody
  <2>3. CallsOK'
    BY <1>7, <2>2, AnswerCalls DEF CommitRotation
  <2> QED BY <1>7, <2>1, <2>3 DEF CommitRotation, StoresOK
<1>8. ASSUME TokenAges \/ ScheduleFirmwareCheck \/ RequestFirmwareCheckNow \/ Revoke \/ DeleteRow
      PROVE  StoresOK' /\ CallsOK'
  BY <1>8 DEF TokenAges, ScheduleFirmwareCheck, RequestFirmwareCheckNow,
              MarkForFirmwareCheck, Revoke, DeleteRow, StoresOK, CallsOK
<1> QED BY <1>3, <1>4, <1>5, <1>6, <1>7, <1>8 DEF Hub

\* The steps of one process.
LEMMA ProcParts ==
    ASSUME StoresOK, CallsOK, NEW p \in Procs,
           \/ Step(p) \/ StartHeartbeat(p) \/ Kill(p) \/ GiveUp(p) \/ CommandFails(p)
           \/ UserStarts(p, "connect", "connecting")
           \/ UserStarts(p, "disconnect", "disconnecting")
           \/ UserStarts(p, "remove", "cleanup")
    PROVE  StoresOK' /\ CallsOK'
<1> USE DEF hubVars
<1>1. /\ proc[p].at \in Steps /\ proc[p].st \in Tokens \cup {NoToken} /\ proc[p].body \in Bodies
      /\ proc[p].at = "rotate" \/ proc[p].next = "rotate" => proc[p].st # NoToken
      /\ proc[p].next \in (Steps \cup {"done"}) \ Waiting
  BY DEF CallsOK, ProcStates, Authentic
<1>2. Torn \in [is : {"absent", "torn", "state"}, tok : Tokens \cup {NoToken}]
      /\ Absent \in [is : {"absent", "torn", "state"}, tok : Tokens \cup {NoToken}]
      /\ Torn.tok = NoToken /\ Absent.tok = NoToken
  BY DEF Torn, Absent
<1>3. LoadState \in Tokens \cup {NoToken}
  BY DEF LoadState, StoresOK
<1>a. {"starting", "beat", "rotate", "collect", "upload", "writing", "unlinked", "idle", "done",
       "cleanup", "unconfigure", "unlink", "failing", "connecting", "ensureCron",
       "disconnecting", "disconnected"} \subseteq (Steps \cup {"done"}) \ Waiting
  BY DEF Steps, Waiting
<1>4. CASE Write(p)
  <2>1. CallsOK'
    BY <1>1, <1>4, LocalEnds, GoToCalls DEF Write, Continue, Waiting
  <2>2. StoresOK'
    BY <1>1, <1>2, <1>4 DEF Write, StoresOK, State
  <2> QED BY <2>1, <2>2
<1>5. CASE WriteLost(p)
  <2>1. Ends(p)
    BY <1>5, LocalEnds DEF WriteLost, Waiting
  <2>2. \/ Continue(p) /\ UNCHANGED file
        \/ GoTo(p, "idle") /\ UNCHANGED file
        \/ GoTo(p, "failing") /\ UNCHANGED file
        \/ SaveState(p, proc[p].st, "idle")
    BY <1>5 DEF WriteLost
  <2>3. CallsOK'
    BY <1>1, <1>a, <2>1, <2>2, GoToCalls, SaveCalls DEF Continue
  <2>4. file' = file \/ file' = Torn
    BY <2>2 DEF SaveState
  <2> QED BY <1>2, <1>5, <2>3, <2>4 DEF WriteLost, StoresOK
<1>6. CASE Load(p) \/ \E op, s : s \in Steps \ {"beating", "rotating", "rotate"}
                             /\ UserStarts(p, op, s)
  <2>1. PICK s \in Steps \ {"beating", "rotating", "rotate"} :
          proc' = [proc EXCEPT ![p] = [Idle EXCEPT !.at = s, !.st = LoadState]]
    BY <1>6 DEF Load, UserStarts, Steps
  <2> DEFINE q == [Idle EXCEPT !.at = s, !.st = LoadState]
  <2>2. q \in ProcStates /\ Authentic(q) /\ q.at \notin Waiting /\ q.next \notin Waiting
    BY <1>3 DEF Authentic, Idle, ProcStates, Steps, Bodies, NoBody, Waiting
  <2>3. Ends(p)
    BY <1>6, LocalEnds DEF Load, UserStarts, Waiting
  <2>4. proc' = [proc EXCEPT ![p] = q]
    BY <2>1
  <2> HIDE DEF q
  <2> QED BY <1>6, <2>2, <2>3, <2>4, Move DEF Load, UserStarts, StoresOK
<1>7. CASE Beat(p)
  <2>1. CASE proc[p].st = NoToken
    BY <1>2, <1>7, <1>a, <2>1, LocalEnds, SaveCalls DEF Beat, SaveState, StoresOK, Waiting
  <2>2. CASE proc[p].st # NoToken
    <3>1. proc[p].body.firmware \in BOOLEAN
      BY <1>1 DEF Bodies
    <3>2. CallsOK'
      BY <1>7, <2>2, <3>1, RequestCalls DEF Beat, Waiting
    <3> QED BY <1>7, <2>2, <3>2 DEF Beat, StoresOK
  <2> QED BY <2>1, <2>2
<1>8. CASE Beaten(p)
  <2>1. reply[p] \in Replies
    BY <1>8 DEF Beaten, CallsOK
  <2>2. AfterHeartbeat(reply[p].body) \in {"rotate", "collect", "upload", "done"}
        /\ reply[p].body \in Bodies
    BY <2>1, NextStep DEF Replies
  <2> DEFINE q == [proc[p] EXCEPT !.at = "writing", !.body = reply[p].body,
                                  !.next = AfterHeartbeat(reply[p].body)]
  <2>3. q \in ProcStates /\ Authentic(q) /\ q.at \notin Waiting /\ q.next \notin Waiting
    <3>1. proc[p] \in ProcStates /\ proc[p].st # NoToken
      BY <1>8 DEF Beaten, CallsOK, Authentic
    <3> QED BY <2>2, <3>1 DEF ProcStates, Steps, Waiting, Authentic
  <2>4. proc' = [proc EXCEPT ![p] = q] /\ file' = Torn /\ Ends(p)
    BY <1>8, ReplyEnds DEF Beaten
  <2> HIDE DEF q
  <2> QED BY ZenonT(30), <1>2, <1>8, <2>3, <2>4, Move DEF Beaten, StoresOK
<1>9. CASE BeatRevoked(p) \/ Refused(p)
  <2>1. Ends(p)
    BY <1>9, ReplyEnds DEF BeatRevoked, Refused
  <2>2. CallsOK'
    BY <1>1, <1>9, <1>a, <2>1, SaveCalls DEF BeatRevoked, Refused
  <2> QED BY <1>2, <1>9, <2>2 DEF BeatRevoked, Refused, SaveState, StoresOK
<1>10. CASE Rotated(p)
  <2>1. reply[p] \in Replies
    BY <1>10 DEF Rotated, CallsOK
  <2>2. reply[p].tok \in Tokens \cup {NoToken}
        /\ AfterRotation(proc[p].body) \in {"collect", "upload", "done"}
    BY <1>1, <2>1, NextStep DEF Replies
  <2>3. Ends(p)
    BY <1>10, ReplyEnds DEF Rotated
  <2>4. CallsOK'
    BY <1>10, <1>a, <2>2, <2>3, SaveCalls DEF Rotated
  <2> QED BY <1>2, <1>10, <2>4 DEF Rotated, SaveState, StoresOK
<1>11. CASE Rotate(p)
  <2>1. CallsOK'
    BY <1>1, <1>11, RequestCalls DEF Rotate, Waiting
  <2> QED BY <1>11, <2>1 DEF Rotate, StoresOK
<1>12. CASE Collect(p) \/ Upload(p) \/ Fail(p) \/ Disconnected(p)
  <2>1. Ends(p)
    BY <1>12, LocalEnds DEF Collect, Upload, Fail, Disconnected, Waiting
  <2>2. CallsOK'
    BY <1>1, <1>3, <1>12, <1>a, <2>1, SaveCalls DEF Collect, Upload, Fail, Disconnected
  <2> QED BY <1>2, <1>12, <2>2 DEF Collect, Upload, Fail, Disconnected, SaveState, StoresOK
<1>13. CASE \/ RemoveCron(p) \/ Unconfigure(p) \/ EnsureCron(p) \/ Disconnect(p)
            \/ StartHeartbeat(p) \/ CommandFails(p)
  <2>1. Ends(p)
    BY <1>13, LocalEnds DEF RemoveCron, Unconfigure, EnsureCron, Disconnect, StartHeartbeat,
                            CommandFails, Waiting
  <2>2. PICK s \in {"unconfigure", "unlink", "idle", "disconnected", "starting", "failing"} :
            GoTo(p, s)
    BY <1>13 DEF RemoveCron, Unconfigure, EnsureCron, Disconnect, StartHeartbeat, CommandFails
  <2>3. CallsOK'
    BY <1>a, <2>1, <2>2, GoToCalls
  <2> QED BY <1>13, <2>3 DEF RemoveCron, Unconfigure, EnsureCron, Disconnect, StartHeartbeat,
                             CommandFails, StoresOK
<1>14. CASE Unlink(p)
  <2>1. /\ UNCHANGED <<sent, reply>> /\ reply[p] = None
        /\ \A r \in sent : r.by # None => r.by # p
    BY <1>14 DEF Unlink, CallsOK, Waiting
  <2>2. ASSUME NEW q \in Procs
        PROVE  /\ proc'[q] \in ProcStates /\ Authentic(proc'[q]) /\ proc'[q].next \notin Waiting
               /\ q # p => proc'[q].at \in Waiting <=> proc[q].at \in Waiting
               /\ q # p /\ proc[q].at \in Waiting => proc'[q].at = proc[q].at
    BY <1>14, <2>2 DEF Unlink, CallsOK, ProcStates, Authentic, Idle, Steps, Waiting, Bodies, NoBody
  <2>3. proc' \in [Procs -> ProcStates]
    BY <1>14, <2>2 DEF Unlink
  <2>4. \A r \in sent : r.by # None => r.by \in Procs
    BY DEF CallsOK, Requests
  <2>5. CallsOK'
    BY <2>1, <2>2, <2>3, <2>4 DEF CallsOK, Waiting
  <2> QED BY <1>2, <1>14, <2>5 DEF Unlink, StoresOK
<1>15. CASE Connect(p)
  <2>1. Ends(p)
    BY <1>15, LocalEnds DEF Connect, Waiting
  <2>2. CallsOK'
    BY <1>1, <1>15, <1>a, <2>1, GoToCalls, SaveCalls DEF Connect
  <2> QED BY <1>2, <1>15, <2>2 DEF Connect, SaveState, StoresOK
<1>16. CASE Kill(p)
  <2>1. Ends(p)
    BY <1>16, AbandonEnds DEF Kill, Consume
  <2>2. CallsOK'
    BY <1>16, <1>a, <2>1, GoToCalls DEF Kill
  <2> QED BY <1>16, <2>2 DEF Kill, StoresOK
<1>17. CASE GiveUp(p)
  <2>1. Ends(p)
    BY <1>17, AbandonEnds DEF GiveUp
  <2>2. CallsOK'
    BY <1>1, <1>17, <1>a, <2>1, SaveCalls DEF GiveUp
  <2> QED BY <1>2, <1>17, <2>2 DEF GiveUp, SaveState, StoresOK
<1> QED BY <1>4, <1>5, <1>6, <1>7, <1>8, <1>9, <1>10, <1>11, <1>12, <1>13, <1>14, <1>15, <1>16, <1>17
        DEF Step, Steps

LEMMA NextParts == StoresOK /\ CallsOK /\ [Next]_vars => StoresOK' /\ CallsOK'
<1> SUFFICES ASSUME StoresOK, CallsOK, [Next]_vars PROVE StoresOK' /\ CallsOK'
  OBVIOUS
<1>1. CASE UNCHANGED vars
  BY <1>1 DEF vars, StoresOK, CallsOK
<1>2. CASE Next
  BY <1>2, HubParts, ProcParts DEF Next
<1> QED BY <1>1, <1>2

\* Every variable stays in its range, and only a process that waits for an
\* answer has a request or an answer under way.
THEOREM TypeCorrect == Spec => []TypeOK
<1>1. Init => StoresOK /\ CallsOK
  BY InitParts
<1>2. StoresOK /\ CallsOK /\ [Next]_vars => (StoresOK /\ CallsOK)'
  BY NextParts
<1>3. StoresOK /\ CallsOK => TypeOK
  BY PartsType
<1> QED BY <1>1, <1>2, <1>3, PTL DEF Spec
-----------------------------------------------------------------------------
(***************************************************************************)
(* An active firewall stays configured.                                    *)
(***************************************************************************)
Removing == {"cleanup", "unconfigure", "unlink", "unlinked",
             "disconnecting", "disconnected"}

\* While the row is active no heartbeat was answered with 410, so that no
\* process removes the local artifacts, now or after it saved the state.
Quiet ==
    /\ cron /\ file # Absent
    /\ \A p \in Procs : proc[p].at \notin Removing /\ proc[p].next \notin Removing
    /\ \A p \in Procs : reply[p] # None => reply[p].code # 410

StayInv == StoresOK /\ CallsOK /\ (dev = "active" => Quiet)

\* No step of the Hub disturbs a quiet firewall.
LEMMA HubQuiet == StoresOK /\ CallsOK /\ Quiet /\ Hub /\ dev' = "active" => Quiet'
<1> SUFFICES ASSUME StoresOK, CallsOK, Quiet, Hub, dev' = "active" PROVE Quiet'
  OBVIOUS
<1>1. dev = "active"
  BY DEF Hub, Authorize, Refuse, CommitFails, CommitHeartbeat, CommitRotation, TokenAges,
         ScheduleFirmwareCheck, RequestFirmwareCheckNow, MarkForFirmwareCheck, Revoke, DeleteRow, hubVars
<1>2. UNCHANGED <<file, cron, proc>>
  BY DEF Hub, Authorize, Refuse, CommitFails, CommitHeartbeat, CommitRotation, TokenAges,
         ScheduleFirmwareCheck, RequestFirmwareCheckNow, MarkForFirmwareCheck, Revoke, DeleteRow
<1>3. CASE UNCHANGED reply
  BY <1>2, <1>3 DEF Quiet
<1>4. ASSUME NEW r \in sent, NEW a, Answer(r, a), a.code # 410 PROVE Quiet'
  BY <1>2, <1>4 DEF Quiet, Answer, CallsOK
<1>5. ASSUME NEW r \in sent, Refuse(r) PROVE Quiet'
  <2>1. StatusFor(r) = 401
    BY <1>1, <1>5 DEF StatusFor, Refuse
  <2> QED BY <1>4, <1>5, <2>1 DEF Refuse, Refusal
<1>6. ASSUME NEW r \in sent, CommitHeartbeat(r) \/ CommitRotation(r) \/ CommitFails(r) PROVE Quiet'
  <2>1. \E a : Answer(r, a) /\ a.code # 410
    <3>1. CASE CommitHeartbeat(r)
      <4>1. PICK b \in BOOLEAN :
              Answer(r, [code |-> 200, tok |-> NoToken,
                         body |-> [rotate |-> age # "fresh",
                                   firmware |-> r.pending /\ ~r.firmware,
                                   backup |-> b]])
        BY <3>1 DEF CommitHeartbeat
      <4> QED BY <4>1
    <3>2. CASE CommitRotation(r)
      BY <3>2 DEF CommitRotation
    <3>3. CASE CommitFails(r)
      BY <3>3 DEF CommitFails, Refusal
    <3> QED BY <1>6, <3>1, <3>2, <3>3
  <2> QED BY <1>4, <2>1
<1> QED BY <1>3, <1>5, <1>6
        DEF Hub, Authorize, TokenAges, ScheduleFirmwareCheck, RequestFirmwareCheckNow,
            MarkForFirmwareCheck, Revoke, DeleteRow

\* Neither does a step of a process, if nobody removes or disconnects it.
LEMMA ProcQuiet ==
    ASSUME StoresOK, CallsOK, Quiet, NEW p \in Procs,
           \/ Step(p) \/ StartHeartbeat(p) \/ Kill(p) \/ GiveUp(p) \/ CommandFails(p)
           \/ UserStarts(p, "connect", "connecting")
    PROVE  Quiet'
<1>1. /\ proc[p].at \notin Removing /\ proc[p].next \notin Removing
      /\ proc[p] \in ProcStates
  BY DEF Quiet, CallsOK
<1>2. Torn # Absent /\ \A t : State(t) # Absent
  BY DEF Torn, Absent, State
<1>3. /\ ~WriteLost(p) /\ ~RemoveCron(p) /\ ~Unconfigure(p) /\ ~Unlink(p)
      /\ ~Disconnect(p) /\ ~Disconnected(p) /\ ~BeatRevoked(p)
  BY <1>1 DEF WriteLost, RemoveCron, Unconfigure, Unlink, Disconnect, Disconnected,
              BeatRevoked, Quiet, Removing
<1>4. file' # Absent
  BY <1>2, <1>3 DEF Quiet, Step, StartHeartbeat, Kill, GiveUp, CommandFails, UserStarts, Write,
     Load, Beat, Beaten, Refused, Rotate, Rotated, Collect, Upload, Fail, Connect, EnsureCron,
     SaveState
<1>5. cron'
  BY <1>3 DEF Quiet, Step, StartHeartbeat, Kill, GiveUp, CommandFails, UserStarts, Write,
     Load, Beat, Beaten, Refused, Rotate, Rotated, Collect, Upload, Fail, Connect, EnsureCron
<1>6. reply' = reply \/ Consume(p)
  BY <1>3 DEF Step, StartHeartbeat, Kill, GiveUp, CommandFails, UserStarts, Write,
     Load, Beat, Beaten, Refused, Rotate, Rotated, Collect, Upload, Fail, Connect, EnsureCron,
     Consume
<1>7. \A q \in Procs : reply'[q] # None => reply'[q].code # 410
  BY <1>6 DEF Quiet, Consume, CallsOK
<1>8. \A q \in Procs : q # p => proc'[q] = proc[q]
  <2>1. \/ \E new : proc' = [proc EXCEPT ![p] = new]
        \/ \E step : GoTo(p, step)
        \/ \E t, step : SaveState(p, t, step)
    BY ZenonT(30), <1>3 DEF Step, StartHeartbeat, Kill, GiveUp, CommandFails, UserStarts, Write,
       Load, Beat, Beaten, Refused, Rotate, Rotated, Collect, Upload, Fail, Connect, EnsureCron,
       Continue
  <2>2. \E new : proc' = [proc EXCEPT ![p] = new]
    BY <2>1 DEF GoTo, SaveState
  <2> QED BY <2>2 DEF CallsOK
<1>9. proc'[p].at \notin Removing /\ proc'[p].next \notin Removing
  <2>1. ASSUME NEW step, step \notin Removing, GoTo(p, step)
        PROVE  proc'[p].at \notin Removing /\ proc'[p].next \notin Removing
    BY <1>1, <2>1 DEF GoTo, Idle, ProcStates, CallsOK, Removing
  <2>2. ASSUME NEW step, NEW t, step \notin Removing, SaveState(p, t, step)
        PROVE  proc'[p].at \notin Removing /\ proc'[p].next \notin Removing
    BY <1>1, <2>2 DEF SaveState, ProcStates, CallsOK, Removing
  <2>3. CASE Write(p)
    BY <1>1, <2>1, <2>3 DEF Write, Continue
  <2>4. CASE Load(p) \/ UserStarts(p, "connect", "connecting")
    BY ZenonT(30), <2>4 DEF Load, UserStarts, Idle, CallsOK, Removing
  <2>5. CASE Beaten(p)
    <3>1. reply[p].body \in Bodies
      BY <2>5 DEF Beaten, CallsOK, Replies
    <3>2. AfterHeartbeat(reply[p].body) \notin Removing
      BY <3>1, NextStep DEF Removing
    <3>3. proc'[p] = [proc[p] EXCEPT !.at = "writing", !.body = reply[p].body,
                                     !.next = AfterHeartbeat(reply[p].body)]
      BY <2>5 DEF Beaten, CallsOK
    <3> QED BY <1>1, <3>2, <3>3 DEF ProcStates, Removing
  <2>6. CASE Rotated(p)
    <3>1. AfterRotation(proc[p].body) \notin Removing
      BY <1>1, NextStep DEF ProcStates, Removing
    <3> QED BY <2>2, <2>6, <3>1 DEF Rotated
  <2>7. CASE Beat(p) \/ Refused(p) \/ GiveUp(p) \/ Rotate(p) \/ Collect(p) \/ Upload(p)
             \/ Fail(p) \/ Connect(p) \/ EnsureCron(p) \/ StartHeartbeat(p) \/ Kill(p)
             \/ CommandFails(p)
    <3>1. \/ \E step \in {"beating", "rotating", "failing", "idle", "starting"} : GoTo(p, step)
          \/ \E t : \E step \in {"idle", "beat", "done", "ensureCron"} : SaveState(p, t, step)
      BY <2>7 DEF Beat, Refused, GiveUp, Rotate, Collect, Upload, Fail, Connect, EnsureCron,
                  StartHeartbeat, Kill, CommandFails
    <3> QED BY <2>1, <2>2, <3>1 DEF Removing
  <2> QED BY <1>3, <2>3, <2>4, <2>5, <2>6, <2>7 DEF Step
<1> QED BY <1>4, <1>5, <1>7, <1>8, <1>9 DEF Quiet

\* The plugin gives up its tunnel, its crontab entry and its state only after
\* the Hub answered a heartbeat with 410: if the firewall's administrator only
\* reconnects, no refusal, lost answer, race, kill or torn file makes an active
\* firewall dismantle itself.
THEOREM StaysConfigured ==
    ASSUME UserOps \subseteq {"connect"}
    PROVE  Spec => []ActiveStaysConfigured
<1>1. Init => StayInv
  <2> SUFFICES ASSUME Init PROVE StayInv
    OBVIOUS
  <2>1. Quiet
    BY DEF Init, Quiet, Idle, State, Absent, Removing
  <2> QED BY <2>1, InitParts DEF StayInv
<1>2. StayInv /\ [Next]_vars => StayInv'
  <2> SUFFICES ASSUME StayInv, [Next]_vars, dev' = "active" PROVE Quiet'
    BY NextParts DEF StayInv
  <2>1. CASE UNCHANGED vars
    BY <2>1 DEF vars, StayInv, Quiet
  <2>2. CASE Hub
    <3>1. dev = "active"
      BY <2>2 DEF Hub, Authorize, Refuse, CommitFails, CommitHeartbeat, CommitRotation,
                  TokenAges, ScheduleFirmwareCheck, RequestFirmwareCheckNow,
                  MarkForFirmwareCheck, Revoke, DeleteRow, hubVars
    <3> QED BY <2>2, <3>1, HubQuiet DEF StayInv
  <2>3. ASSUME NEW p \in Procs,
               \/ Step(p) \/ StartHeartbeat(p) \/ Kill(p) \/ GiveUp(p) \/ CommandFails(p)
               \/ UserStarts(p, "connect", "connecting")
        PROVE  Quiet'
    <3>1. dev = "active"
      BY <2>3 DEF Step, StartHeartbeat, Kill, GiveUp, CommandFails, UserStarts, Write,
         WriteLost, Load, Beat, Beaten, BeatRevoked, Refused, Rotate, Rotated, Collect, Upload,
         RemoveCron, Unconfigure, Unlink, Fail, Connect, EnsureCron, Disconnect, Disconnected,
         hubVars
    <3> QED BY <2>3, <3>1, ProcQuiet DEF StayInv
  <2>4. ~\E p \in Procs : UserStarts(p, "disconnect", "disconnecting")
                          \/ UserStarts(p, "remove", "cleanup")
    BY DEF UserStarts
  <2> QED BY <2>1, <2>2, <2>3, <2>4 DEF Next
<1>3. StayInv => ActiveStaysConfigured
  BY DEF StayInv, Quiet, ActiveStaysConfigured
<1> QED BY <1>1, <1>2, <1>3, PTL DEF Spec
-----------------------------------------------------------------------------
(***************************************************************************)
(* A firewall whose processes do not overlap keeps the token that the Hub  *)
(* accepts.                                                                *)
(***************************************************************************)
\* Where a process that saved its state goes on, unless it was revoked.
Onwards == {"idle", "beat", "rotate", "collect", "upload", "done", "ensureCron"}

\* A new token is on its way to the process.
Granted(p) == proc[p].at = "rotating" /\ reply[p] # None /\ reply[p].code = 200

\* The token the Hub accepts is about to be written, or on its way, or in the file.
Held(p) ==
    \/ /\ proc[p].at = "writing" /\ file = Torn
       /\ proc[p].st = hash /\ proc[p].next \in Onwards
    \/ Granted(p) /\ reply[p].tok = hash
    \/ /\ proc[p].at \notin {"writing", "unlinked"} /\ ~Granted(p)
       /\ file = State(hash)
       /\ proc[p].at \notin {"idle", "starting"} => proc[p].st = hash
       /\ proc[p].at \in {"cleanup", "unconfigure", "unlink"} => "remove" \in UserOps
       /\ proc[p].at \in {"unconfigure", "unlink"} => ~cron

\* The administrator removed it; no heartbeat will be started.
Removed(p) ==
    /\ "remove" \in UserOps /\ ~cron /\ file.tok = NoToken
    /\ proc[p].st = NoToken
    /\ proc[p].at \in {"idle", "connecting", "disconnecting", "disconnected", "cleanup",
                       "unconfigure", "unlink", "failing", "writing"}
    /\ proc[p].at = "writing" => proc[p].next = "idle"

Keeps(p) == (Held(p) \/ Removed(p)) /\ (reply[p] # None => reply[p].code # 410)

\* No rotation is left to the Hub by a process that has stopped waiting for it.
Owned == \A r \in sent : r.kind = "rotation" => r.by # None

HoldInv(p) == StoresOK /\ CallsOK /\ Owned /\ (dev = "active" => Keeps(p))

\* Only a process that waits has an answer, and only a rotation grants a token.
LEMMA Answers ==
    ASSUME CallsOK, NEW p \in Procs
    PROVE  /\ proc[p].at \notin Waiting => reply[p] = None /\ ~Granted(p)
           /\ proc[p] \in ProcStates
  BY DEF CallsOK, Granted, Waiting

LEMMA GoToFields ==
    ASSUME CallsOK, NEW p \in Procs, NEW step, GoTo(p, step)
    PROVE  /\ step \in {"idle", "done"} => proc'[p].at = "idle" /\ proc'[p].st = NoToken
           /\ step \notin {"idle", "done"} => proc'[p].at = step /\ proc'[p].st = proc[p].st
  BY DEF CallsOK, ProcStates, GoTo, Idle

LEMMA SaveFields ==
    ASSUME CallsOK, NEW p \in Procs, NEW t, NEW step, SaveState(p, t, step)
    PROVE  file' = Torn /\ proc'[p].at = "writing" /\ proc'[p].st = t /\ proc'[p].next = step
  BY DEF CallsOK, ProcStates, SaveState

\* A state with the token is being saved, or one without after a removal.
LEMMA SaveKeeps ==
    ASSUME StoresOK, CallsOK, NEW p \in Procs, Keeps(p), NEW t, NEW step, SaveState(p, t, step),
           reply'[p] = None, UNCHANGED <<hash, cron>>,
           \/ t = hash /\ step \in Onwards
           \/ Removed(p) /\ t = NoToken /\ step = "idle"
    PROVE  Keeps(p)'
<1>1. file' = Torn /\ proc'[p].at = "writing" /\ proc'[p].st = t /\ proc'[p].next = step
  BY SaveFields
<1>2. Torn.tok = NoToken
  BY DEF Torn
<1>3. CASE t = hash /\ step \in Onwards
  BY <1>1, <1>3 DEF Keeps, Held
<1>4. CASE Removed(p) /\ t = NoToken /\ step = "idle"
  BY <1>1, <1>2, <1>4 DEF Keeps, Removed
<1> QED BY <1>3, <1>4

\* A process goes on with the token in the file and in its copy.
LEMMA HeldOn ==
    ASSUME NEW p \in Procs, file' = State(hash'), reply'[p] = None,
           proc'[p].at \notin {"writing", "unlinked"},
           proc'[p].at \notin {"idle", "starting"} => proc'[p].st = hash',
           proc'[p].at \in {"cleanup", "unconfigure", "unlink"} => "remove" \in UserOps,
           proc'[p].at \in {"unconfigure", "unlink"} => ~cron'
    PROVE  Keeps(p)'
  BY DEF Keeps, Held, Granted

\* ... or with neither.
LEMMA RemovedOn ==
    ASSUME NEW p \in Procs, "remove" \in UserOps, ~cron', file'.tok = NoToken, reply'[p] = None,
           proc'[p].st = NoToken,
           proc'[p].at \in {"idle", "connecting", "disconnecting", "disconnected", "cleanup",
                            "unconfigure", "unlink", "failing"}
    PROVE  Keeps(p)'
  BY DEF Keeps, Removed

\* The Hub answers, and grants no token with that.
LEMMA AnswerKeeps ==
    ASSUME StoresOK, CallsOK, NEW p \in Procs, Procs = {p}, Keeps(p), NEW r \in sent, NEW a, Answer(r, a),
           a.code # 410, a.code = 200 => r.kind = "heartbeat", UNCHANGED <<hash, file, cron, proc>>
    PROVE  Keeps(p)'
<1>1. CASE r.by = None
  BY <1>1 DEF Answer, Keeps, Held, Removed, Granted
<1>2. CASE r.by # None
  <2>1. r.by = p /\ r \in Requests
    BY <1>2 DEF CallsOK, Requests
  <2>2. /\ proc[p].at = IF r.kind = "heartbeat" THEN "beating" ELSE "rotating"
        /\ reply[p] = None /\ reply'[p] = a
    BY <1>2, <2>1 DEF CallsOK, Answer
  <2>3. ~Granted(p) /\ ~Granted(p)' /\ (reply'[p] # None => reply'[p].code # 410)
    BY <2>2 DEF Granted
  <2>4. CASE Held(p)
    BY <2>3, <2>4 DEF Keeps, Held
  <2>5. CASE Removed(p)
    BY <2>3, <2>5 DEF Keeps, Removed
  <2> QED BY <2>4, <2>5 DEF Keeps
<1> QED BY <1>1, <1>2

LEMMA HubKeeps ==
    ASSUME StoresOK, CallsOK, Owned, NEW p \in Procs, Procs = {p}, Keeps(p), Hub, dev' = "active"
    PROVE  Keeps(p)'
<1>1. dev = "active"
  BY DEF Hub, Authorize, Refuse, CommitFails, CommitHeartbeat, CommitRotation, TokenAges,
         ScheduleFirmwareCheck, RequestFirmwareCheckNow, MarkForFirmwareCheck, Revoke, DeleteRow, hubVars
<1>2. UNCHANGED <<file, cron, proc>>
  BY DEF Hub, Authorize, Refuse, CommitFails, CommitHeartbeat, CommitRotation, TokenAges,
         ScheduleFirmwareCheck, RequestFirmwareCheckNow, MarkForFirmwareCheck, Revoke, DeleteRow
<1>3. CASE UNCHANGED <<hash, reply>>
  BY <1>2, <1>3 DEF Keeps, Held, Removed, Granted
<1>4. ASSUME NEW r \in sent, Refuse(r) PROVE Keeps(p)'
  <2>1. StatusFor(r) = 401
    BY <1>1, <1>4 DEF StatusFor, Refuse
  <2>2. Answer(r, Refusal(401)) /\ hash' = hash
    BY <1>4, <2>1 DEF Refuse, hubVars
  <2>3. Refusal(401).code = 401
    BY DEF Refusal
  <2> QED BY <1>2, <2>2, <2>3, AnswerKeeps
<1>5. ASSUME NEW r \in sent, CommitHeartbeat(r) PROVE Keeps(p)'
  <2>1. \E a : Answer(r, a) /\ a.code = 200
    <3>1. PICK b \in BOOLEAN :
            Answer(r, [code |-> 200, tok |-> NoToken,
                       body |-> [rotate |-> age # "fresh",
                                 firmware |-> r.pending /\ ~r.firmware,
                                 backup |-> b]])
      BY <1>5 DEF CommitHeartbeat
    <3> QED BY <3>1
  <2>2. r.kind = "heartbeat" /\ hash' = hash
    BY <1>5 DEF CommitHeartbeat
  <2> QED BY <1>2, <2>1, <2>2, AnswerKeeps
<1>6. ASSUME NEW r \in sent, CommitRotation(r) PROVE Keeps(p)'
  <2>1. r.by # None /\ r.by = p /\ r.kind = "rotation"
    BY <1>6 DEF CommitRotation, Owned, CallsOK, Requests
  <2>2. proc[p].at = "rotating"
    BY <2>1 DEF CallsOK
  <2>3. reply'[p] = [code |-> 200, tok |-> issued', body |-> NoBody] /\ hash' = issued'
    BY <1>6, <2>1 DEF CommitRotation, Answer, CallsOK
  <2>4. reply'[p] # None
    <3>1. issued' \in Tokens
      BY <1>6, ConstantsAssumption DEF CommitRotation, StoresOK, Tokens
    <3>2. reply'[p] \in Replies
      BY <2>3, <3>1 DEF Replies, Bodies, NoBody
    <3> QED BY <3>2, NoneAssumption
  <2> QED BY <1>2, <2>2, <2>3, <2>4 DEF Keeps, Held, Granted
<1>7. ASSUME NEW r \in sent, CommitFails(r) PROVE FALSE
  BY <1>1, <1>7 DEF CommitFails
<1>8. ASSUME Revoke \/ DeleteRow PROVE FALSE
  BY <1>8 DEF Revoke, DeleteRow
<1> QED BY <1>3, <1>4, <1>5, <1>6, <1>7, <1>8
        DEF Hub, Authorize, TokenAges, ScheduleFirmwareCheck, RequestFirmwareCheckNow,
            MarkForFirmwareCheck, hubVars

\* Only rotations that are lost, or their processes killed, are without an owner.
LEMMA OwnedNext ==
    ASSUME CallsOK, Owned, "killed" \notin Faults, "rotationLost" \notin Faults, [Next]_vars
    PROVE  Owned'
<1>1. CASE UNCHANGED sent
  BY <1>1 DEF Owned
<1>2. CASE \E r \in sent : sent' = sent \ {r}
  BY <1>2 DEF Owned
<1>3. ASSUME NEW r \in sent, Authorize(r) PROVE Owned'
  <2> DEFINE s == [r EXCEPT !.phase = "authorized", !.pending = fwReq]
  <2>1. s.by = r.by /\ s.kind = r.kind
    BY DEF CallsOK, Requests
  <2>2. sent' = (sent \ {r}) \cup {s}
    BY <1>3 DEF Authorize
  <2> HIDE DEF s
  <2> QED BY <2>1, <2>2 DEF Owned
<1>4. CASE Hub
  <2>1. ASSUME NEW r \in sent, Refuse(r) \/ CommitFails(r) \/ CommitHeartbeat(r) \/ CommitRotation(r)
        PROVE  sent' = sent \ {r}
    BY <2>1 DEF Refuse, CommitFails, CommitHeartbeat, CommitRotation, Answer
  <2>2. CASE TokenAges \/ ScheduleFirmwareCheck \/ RequestFirmwareCheckNow \/ Revoke \/ DeleteRow
    BY <1>1, <2>2 DEF TokenAges, ScheduleFirmwareCheck, RequestFirmwareCheckNow, MarkForFirmwareCheck,
                      Revoke, DeleteRow
  <2> QED BY <1>2, <1>3, <1>4, <2>1, <2>2 DEF Hub
<1>5. ASSUME NEW p \in Procs, Beat(p) \/ Rotate(p) PROVE Owned'
  <2>1. \/ UNCHANGED sent
        \/ \E kind, firmware : Request(p, kind, firmware)
    BY <1>5 DEF Beat, Rotate
  <2> QED BY <1>1, <2>1, NoneAssumption DEF Request, Owned
<1>6. ASSUME NEW p \in Procs, GiveUp(p) PROVE Owned'
  <2>1. proc[p].at = "beating" /\ Abandon(p)
    BY <1>6 DEF GiveUp
  <2> SUFFICES ASSUME NEW s \in sent', s.kind = "rotation" PROVE s.by # None
    BY DEF Owned
  <2>2. PICK r \in sent : s = [r EXCEPT !.by = IF @ = p THEN None ELSE @]
    BY <2>1 DEF Abandon
  <2>3. r \in Requests
    BY DEF CallsOK
  <2>4. r.kind = "rotation" /\ s.by = IF r.by = p THEN None ELSE r.by
    BY <2>2, <2>3 DEF Requests
  <2>5. r.by # None /\ r.by # p
    BY <2>1, <2>4 DEF Owned, CallsOK
  <2> QED BY <2>4, <2>5
<1>7. ASSUME NEW p \in Procs, Kill(p) PROVE FALSE
  BY <1>7 DEF Kill
<1>8. ASSUME NEW p \in Procs,
             \/ Step(p) /\ ~Beat(p) /\ ~Rotate(p)
             \/ StartHeartbeat(p) \/ CommandFails(p)
             \/ UserStarts(p, "connect", "connecting") \/ UserStarts(p, "disconnect", "disconnecting")
             \/ UserStarts(p, "remove", "cleanup")
      PROVE  Owned'
  <2>1. UNCHANGED sent
    BY <1>8 DEF Step, StartHeartbeat, CommandFails, UserStarts, Write, WriteLost, Load, Beaten, BeatRevoked,
       Refused, Rotated, Collect, Upload, RemoveCron, Unconfigure, Unlink, Fail, Connect, EnsureCron,
       Disconnect, Disconnected
  <2> QED BY <1>1, <2>1
<1>9. CASE UNCHANGED vars
  BY <1>1, <1>9 DEF vars
<1> QED BY <1>4, <1>5, <1>6, <1>7, <1>8, <1>9 DEF Next, Step

\* What a process does by itself, and what its administrator starts.
LEMMA ProcKeeps ==
    ASSUME StoresOK, CallsOK, NEW p \in Procs, Procs = {p}, Keeps(p), "rotationLost" \notin Faults,
           \/ Step(p) \/ StartHeartbeat(p) \/ GiveUp(p) \/ CommandFails(p)
           \/ UserStarts(p, "connect", "connecting")
           \/ UserStarts(p, "disconnect", "disconnecting")
           \/ UserStarts(p, "remove", "cleanup")
    PROVE  Keeps(p)'
<1> USE DEF hubVars
<1>1. /\ proc \in [Procs -> ProcStates] /\ proc[p] \in ProcStates
      /\ reply \in [Procs -> Replies \cup {None}]
      /\ (proc[p].at \notin Waiting => reply[p] = None /\ ~Granted(p))
  BY Answers DEF CallsOK
<1>2. proc[p].at \notin {"idle", "starting", "connecting", "disconnecting", "disconnected", "cleanup",
                         "unconfigure", "unlink", "failing", "writing"} => Held(p)
  BY DEF Keeps, Removed
<1>3. Held(p) /\ proc[p].at # "writing" /\ ~Granted(p) =>
         /\ file = State(hash)
         /\ proc[p].at \notin {"idle", "starting"} => proc[p].st = hash
         /\ proc[p].at \in {"cleanup", "unconfigure", "unlink"} => "remove" \in UserOps
         /\ proc[p].at \in {"unconfigure", "unlink"} => ~cron
  BY DEF Held
<1>4. \A h : State(h).tok = h
  BY DEF State
<1>5. CASE Write(p)
  <2>1. proc[p].at = "writing" /\ reply'[p] = None /\ UNCHANGED <<hash, cron>> /\ GoTo(p, proc[p].next)
    BY <1>1, <1>5 DEF Write, Continue, Waiting
  <2>2. CASE Held(p)
    <3>1. file = Torn /\ proc[p].st = hash /\ proc[p].next \in Onwards
      BY <2>1, <2>2 DEF Held, Granted
    <3>2. file' = State(hash')
      BY <1>5, <2>1, <3>1 DEF Write
    <3>3. \/ proc'[p].at = "idle"
          \/ proc'[p].at \in Onwards /\ proc'[p].st = hash'
      BY <2>1, <3>1, GoToFields
    <3> QED BY <2>1, <3>2, <3>3, HeldOn DEF Onwards
  <2>3. CASE Removed(p)
    <3>1. proc'[p].at = "idle" /\ proc'[p].st = NoToken
      BY <2>1, <2>3, GoToFields DEF Removed
    <3>2. file'.tok = NoToken
      BY <1>4, <1>5, <2>3 DEF Write, Removed, Torn
    <3> QED BY <2>1, <2>3, <3>1, <3>2, RemovedOn DEF Removed
  <2> QED BY <2>2, <2>3 DEF Keeps
<1>6. ASSUME WriteLost(p) PROVE FALSE
  BY <1>6 DEF WriteLost, Keeps, Held, Removed, Granted
<1>7. CASE Load(p)
  <2>1. Held(p) /\ proc[p].at = "starting" /\ reply'[p] = None /\ UNCHANGED <<file, hash>>
    BY <1>1, <1>7 DEF Load, Keeps, Removed, Waiting
  <2>2. file = State(hash)
    BY <1>1, <1>3, <2>1 DEF Waiting
  <2>3. proc'[p].at = "beat" /\ proc'[p].st = LoadState
    BY <1>1, <1>7 DEF Load, Idle
  <2>4. LoadState = hash
    BY <1>4, <2>2 DEF LoadState
  <2> QED BY <2>1, <2>2, <2>3, <2>4, HeldOn
<1>8. CASE UserStarts(p, "connect", "connecting") \/ UserStarts(p, "disconnect", "disconnecting")
           \/ UserStarts(p, "remove", "cleanup")
  <2>1. proc[p].at = "idle" /\ reply'[p] = None /\ UNCHANGED <<file, hash, cron>>
    BY <1>1, <1>8 DEF UserStarts, Waiting
  <2>2. PICK step \in {"connecting", "disconnecting", "cleanup"} :
          /\ proc' = [proc EXCEPT ![p] = [Idle EXCEPT !.at = step, !.st = LoadState]]
          /\ step = "cleanup" => "remove" \in UserOps
    BY <1>8 DEF UserStarts
  <2>3. proc'[p].at = step /\ proc'[p].st = LoadState
    BY <1>1, <2>2 DEF Idle
  <2>4. CASE Held(p)
    <3>1. file = State(hash)
      BY <1>1, <1>3, <2>1, <2>4 DEF Waiting
    <3>2. LoadState = hash
      BY <1>4, <3>1 DEF LoadState
    <3> QED BY <2>1, <2>2, <2>3, <3>1, <3>2, HeldOn
  <2>5. CASE Removed(p)
    BY <2>1, <2>2, <2>3, <2>5, RemovedOn DEF Removed, LoadState
  <2> QED BY <2>4, <2>5 DEF Keeps
<1>9. CASE Beat(p) \/ Rotate(p) \/ Collect(p) \/ Upload(p)
  <2>1. reply'[p] = None /\ UNCHANGED <<hash, cron>> /\ file = State(hash) /\ proc[p].st = hash
    BY <1>1, <1>2, <1>3, <1>9 DEF Beat, Rotate, Collect, Upload, Waiting
  <2>2. CASE \E step \in {"beating", "rotating"} : GoTo(p, step) /\ UNCHANGED file
    <3>1. proc'[p].at \in {"beating", "rotating"} /\ proc'[p].st = hash' /\ file' = State(hash')
      BY <2>1, <2>2, GoToFields
    <3> QED BY <2>1, <3>1, HeldOn
  <2>3. CASE \E step \in Onwards : SaveState(p, hash, step)
    BY <2>1, <2>3, SaveKeeps
  <2> QED BY <1>9, <2>1, <2>2, <2>3 DEF Beat, Rotate, Collect, Upload, Onwards
<1>10. CASE Beaten(p)
  <2>1. proc[p].at = "beating" /\ reply[p] \in Replies /\ reply'[p] = None /\ file' = Torn /\ hash' = hash
    BY <1>1, <1>10 DEF Beaten, Consume
  <2>2. AfterHeartbeat(reply[p].body) \in Onwards
    BY <2>1, NextStep DEF Replies, Onwards
  <2>3. proc[p].st = hash
    BY <1>2, <1>3, <2>1 DEF Granted
  <2>4. proc'[p].at = "writing" /\ proc'[p].st = hash' /\ proc'[p].next \in Onwards
    BY <1>1, <1>10, <2>1, <2>2, <2>3 DEF Beaten, ProcStates
  <2> QED BY <2>1, <2>4 DEF Keeps, Held
<1>11. ASSUME BeatRevoked(p) PROVE FALSE
  BY <1>11 DEF BeatRevoked, Keeps
<1>12. CASE Refused(p) \/ GiveUp(p)
  <2>1. proc[p].at \in {"beating", "rotating"} /\ ~Granted(p) /\ reply'[p] = None /\ UNCHANGED <<hash, cron>>
    BY <1>1, <1>12 DEF Refused, GiveUp, Consume, Granted
  <2>2. SaveState(p, hash, "idle")
    BY <1>2, <1>3, <1>12, <2>1 DEF Refused, GiveUp
  <2> QED BY <2>1, <2>2, SaveKeeps DEF Onwards
<1>13. CASE Rotated(p)
  <2>1. Granted(p) /\ Held(p) /\ reply'[p] = None /\ UNCHANGED <<hash, cron>>
    BY <1>1, <1>2, <1>13 DEF Rotated, Consume, Granted
  <2>2. reply[p].tok = hash
    BY <2>1 DEF Held, Granted
  <2>3. AfterRotation(proc[p].body) \in Onwards
    BY <1>1, NextStep DEF ProcStates, Onwards
  <2> QED BY <1>13, <2>1, <2>2, <2>3, SaveKeeps DEF Rotated
<1>14. CASE Fail(p) \/ Disconnected(p)
  <2>1. reply'[p] = None /\ UNCHANGED <<hash, cron>> /\ proc[p].at \in {"failing", "disconnected"}
    BY <1>1, <1>14 DEF Fail, Disconnected, Waiting
  <2>2. PICK t \in {LoadState, proc[p].st} : SaveState(p, t, "idle")
    BY <1>14 DEF Fail, Disconnected
  <2>3. Held(p) => t = hash
    BY <1>1, <1>3, <1>4, <2>1 DEF LoadState, Waiting
  <2>4. Removed(p) => t = NoToken
    BY DEF Removed, LoadState
  <2> QED BY <2>1, <2>2, <2>3, <2>4, SaveKeeps DEF Keeps, Onwards
<1>15. CASE Unlink(p)
  <2>1. /\ reply'[p] = None /\ UNCHANGED <<hash, cron>> /\ file'.tok = NoToken
        /\ proc'[p].at = "idle" /\ proc'[p].st = NoToken
    BY <1>1, <1>15 DEF Unlink, Absent, Idle, Waiting
  <2>2. "remove" \in UserOps /\ ~cron
    BY <1>1, <1>3, <1>15 DEF Unlink, Keeps, Removed, Waiting
  <2> QED BY <2>1, <2>2, RemovedOn
<1>16. CASE Connect(p)
  <2>1. reply'[p] = None /\ UNCHANGED <<hash, cron>> /\ proc[p].at = "connecting"
    BY <1>1, <1>16 DEF Connect, Waiting
  <2>2. CASE proc[p].st # NoToken
    <3>1. Held(p) /\ proc[p].st = hash
      BY <1>1, <1>3, <2>1, <2>2 DEF Keeps, Removed, Waiting
    <3> QED BY <1>16, <2>1, <2>2, <3>1, SaveKeeps DEF Connect, Onwards
  <2>3. CASE proc[p].st = NoToken
    <3>1. file' = file /\ proc'[p].at = "failing" /\ proc'[p].st = proc[p].st
      BY <1>16, <2>3, GoToFields DEF Connect
    <3>2. CASE Held(p)
      BY <1>1, <1>3, <2>1, <3>1, <3>2, HeldOn DEF Waiting
    <3>3. CASE Removed(p)
      BY <2>1, <3>1, <3>3, RemovedOn DEF Removed
    <3> QED BY <3>2, <3>3 DEF Keeps
  <2> QED BY <2>2, <2>3
<1>17. CASE \/ RemoveCron(p) \/ Unconfigure(p) \/ EnsureCron(p) \/ Disconnect(p)
            \/ StartHeartbeat(p) \/ CommandFails(p)
  <2>1. reply'[p] = None /\ UNCHANGED <<hash, file>> /\ ~Granted(p) /\ proc[p].at # "writing"
    BY <1>1, <1>17 DEF RemoveCron, Unconfigure, EnsureCron, Disconnect, StartHeartbeat, CommandFails, Waiting
  <2>2. CASE EnsureCron(p) \/ StartHeartbeat(p)
    <3>1. Held(p)
      BY <2>2 DEF Keeps, Removed, EnsureCron, StartHeartbeat
    <3>2. proc'[p].at \in {"idle", "starting"}
      BY <2>2, GoToFields DEF EnsureCron, StartHeartbeat
    <3> QED BY <1>3, <2>1, <3>1, <3>2, HeldOn
  <2>3. CASE RemoveCron(p) \/ Unconfigure(p) \/ Disconnect(p) \/ CommandFails(p)
    <3>1. PICK step \in {"unconfigure", "unlink", "disconnected", "failing"} :
            /\ GoTo(p, step)
            /\ step \in {"unconfigure", "unlink"} => proc[p].at \in {"cleanup", "unconfigure"} /\ ~cron'
            /\ ~cron => ~cron'
      <4>1. Unconfigure(p) => ~cron
        BY <1>3, <2>1 DEF Unconfigure, Keeps, Removed
      <4> QED BY <2>3, <4>1 DEF RemoveCron, Unconfigure, Disconnect, CommandFails
    <3>2. proc'[p].at = step /\ proc'[p].st = proc[p].st
      BY <3>1, GoToFields
    <3>3. proc[p].at \notin {"idle", "starting"}
      BY <2>3 DEF RemoveCron, Unconfigure, Disconnect, CommandFails
    <3>4. CASE Held(p)
      BY <1>3, <2>1, <3>1, <3>2, <3>3, <3>4, HeldOn
    <3>5. CASE Removed(p)
      BY <2>1, <3>1, <3>2, <3>5, RemovedOn DEF Removed
    <3> QED BY <3>4, <3>5 DEF Keeps
  <2> QED BY <1>17, <2>2, <2>3
<1> QED BY <1>5, <1>6, <1>7, <1>8, <1>9, <1>10, <1>11, <1>12, <1>13, <1>14, <1>15, <1>16, <1>17 DEF Step

\* The token the Hub accepts stays with the firewall (save_state after every
\* heartbeat and rotation), whatever its administrator does and however often
\* answers to heartbeats are lost or commands fail, if its processes do not
\* overlap, none is killed and no rotated token is lost on its way.
THEOREM TokenIsHeld ==
    ASSUME NEW p, Procs = {p}, Faults \subseteq {"heartbeatLost", "commandFails"}
    PROVE  Spec => []FirewallHoldsToken
<1>1. Init => HoldInv(p)
  <2> SUFFICES ASSUME Init PROVE Keeps(p) /\ Owned
    BY InitParts DEF HoldInv
  <2> QED BY DEF Init, Keeps, Held, Granted, Owned, Idle
<1>2. HoldInv(p) /\ [Next]_vars => HoldInv(p)'
  <2> SUFFICES ASSUME HoldInv(p), [Next]_vars PROVE HoldInv(p)'
    OBVIOUS
  <2>1. StoresOK' /\ CallsOK' /\ Owned'
    BY NextParts, OwnedNext DEF HoldInv
  <2> SUFFICES ASSUME dev' = "active" PROVE Keeps(p)'
    BY <2>1 DEF HoldInv
  <2>2. CASE UNCHANGED vars
    BY <2>2 DEF vars, HoldInv, Keeps, Held, Removed, Granted
  <2>3. CASE Hub
    <3>1. dev = "active"
      BY <2>3 DEF Hub, Authorize, Refuse, CommitFails, CommitHeartbeat, CommitRotation,
                  TokenAges, ScheduleFirmwareCheck, RequestFirmwareCheckNow,
                  MarkForFirmwareCheck, Revoke, DeleteRow, hubVars
    <3> QED BY <2>3, <3>1, HubKeeps DEF HoldInv
  <2>4. CASE \/ Step(p) \/ StartHeartbeat(p) \/ GiveUp(p) \/ CommandFails(p)
             \/ UserStarts(p, "connect", "connecting")
             \/ UserStarts(p, "disconnect", "disconnecting")
             \/ UserStarts(p, "remove", "cleanup")
    <3>1. dev = "active"
      BY <2>4 DEF Step, StartHeartbeat, GiveUp, CommandFails, UserStarts, Write,
         WriteLost, Load, Beat, Beaten, BeatRevoked, Refused, Rotate, Rotated, Collect, Upload,
         RemoveCron, Unconfigure, Unlink, Fail, Connect, EnsureCron, Disconnect, Disconnected,
         hubVars
    <3> QED BY <2>4, <3>1, ProcKeeps DEF HoldInv
  <2>5. ~Kill(p)
    BY DEF Kill
  <2> QED BY <2>2, <2>3, <2>4, <2>5 DEF Next
<1>3. HoldInv(p) => FirewallHoldsToken
  <2> SUFFICES ASSUME HoldInv(p), dev = "active" PROVE FirewallHoldsToken
    BY DEF FirewallHoldsToken
  <2>1. CASE Held(p)
    BY <2>1 DEF Held, Granted, FirewallHoldsToken
  <2>2. CASE Removed(p)
    BY <2>2 DEF Removed, FirewallHoldsToken
  <2> QED BY <2>1, <2>2 DEF HoldInv, Keeps
<1> QED BY <1>1, <1>2, <1>3, PTL DEF Spec
=============================================================================
