--------------------------- MODULE ConnectorAccess ---------------------------
(***************************************************************************)
(* Connector streams (routers/proxy.py) and the loss of their              *)
(* authorization.                                                          *)
(*                                                                         *)
(* A user opens a connector session in the dashboard, and its bearer token *)
(* lets the Local Connector start streams.                                 *)
(* connector_device_tunnel is one asyncio task per WSS stream.  It checks  *)
(* the connector token, reserves one of the session's slots, registers     *)
(* itself for its device, checks again, connects to the firewall, checks   *)
(* again, accepts, and relays bytes while a monitor re-reads the database. *)
(* Every await lets other tasks run, and every check after the first is    *)
(* made in a worker thread: the database is read at one moment and the     *)
(* task acts on the answer at a later one.  Meanwhile tokens expire,       *)
(* dashboard sessions and company access are revoked, and revoke/delete    *)
(* handlers call close_device_access, which cancels the registered tasks.  *)
(* With WG_AGENT_URL set it is the sidecar that connects to the firewall,  *)
(* in a task of its own at the far end of a WebSocket from the Hub.        *)
(*                                                                         *)
(* task.cancel() makes the task's next step raise CancelledError, so a     *)
(* task in `cancelled` takes no step but CancelDelivered; the `finally`    *)
(* clause is the code in state "cleanup".                                  *)
(***************************************************************************)
EXTENDS Integers, FiniteSets

CONSTANTS
    Streams,        \* WSS requests (each is one task)
    Sessions,       \* connector sessions (one bearer token each)
    Devices,
    SessionDevice,  \* the device a session is scoped to
    MaxConnections, \* CONNECTOR_MAX_CONNECTIONS
    None

ASSUME ParamAssumption ==
    /\ SessionDevice \in [Sessions -> Devices]
    /\ MaxConnections \in Nat \ {0}
    /\ None \notin Sessions
    /\ IsFiniteSet(Streams)

VARIABLES
    \* database
    token,      \* per session: "none" | "flushed" (not committed) | "issued"
    valid,      \* ... and what still holds: {"token", "login", "access"}
    devState,   \* per device: "active" | "revoked" | "gone"
    \* tasks
    pc, sess,
    answer,     \* per task: what the worker thread read ("none" | "yes" | "no")
    cancelled,  \* tasks with a pending CancelledError
    \* process-wide tables of proxy.py
    count,      \* _connector_connection_counts
    tracked,    \* _connector_tasks / _connector_websockets, per device
    \* close_device_access, per device
    closer,     \* "idle" | "closing" | "waiting"
    waitFor,    \* the tasks it waits for
    swept,      \* history: devices whose tasks it has cancelled
    \* the Hub's process, and the sidecar
    stopping,   \* the lifespan has called close_all_access
    viaAgent,   \* WG_AGENT_URL is set
    far         \* per stream, the sidecar's task: "none" | "connecting" |
                \* "open" (to the firewall) | "refused" | "ended"

dbVars    == <<token, valid, devState>>
closeVars == <<closer, waitFor, swept, stopping, viaAgent>>
vars == <<dbVars, pc, sess, answer, cancelled, count, tracked, closeVars, far>>

Conditions == {"token", "login", "access"}

Init ==
    /\ token = [s \in Sessions |-> "none"]
    /\ valid = [s \in Sessions |-> Conditions]
    /\ devState = [d \in Devices |-> "active"]
    /\ pc = [h \in Streams |-> "idle"]
    /\ sess = [h \in Streams |-> None]
    /\ answer = [h \in Streams |-> "none"]
    /\ cancelled = {}
    /\ count = [s \in Sessions |-> 0]
    /\ tracked = [d \in Devices |-> {}]
    /\ closer = [d \in Devices |-> "idle"]
    /\ waitFor = [d \in Devices |-> {}]
    /\ swept = {}
    /\ stopping = FALSE
    /\ viaAgent \in BOOLEAN
    /\ far = [h \in Streams |-> "none"]

----------------------------------------------------------------------------
(* The database's side of a session.                                       *)

\* _validate_connector_session_record and what it calls: the token has not
\* expired, the issuing dashboard session is active, the user still has access
\* to the device's company, and the device is not revoked or deleted.
Authorized(s) == valid[s] = Conditions /\ devState[SessionDevice[s]] = "active"

\* create_connector_session checks and flushes; open_device_connector ...
OpenConnector(s) ==
    /\ ~stopping
    /\ token[s] = "none" /\ Authorized(s)
    /\ token' = [token EXCEPT ![s] = "flushed"]
    /\ UNCHANGED <<valid, devState, pc, sess, answer, cancelled, count, tracked, closeVars, far>>

\* ... renders the page that hands the token over, and commits.
HandOver(s) ==
    /\ token[s] = "flushed"
    /\ token' = [token EXCEPT ![s] = "issued"]
    /\ UNCHANGED <<valid, devState, pc, sess, answer, cancelled, count, tracked, closeVars, far>>

\* The flushed row refers to the device's: a DELETE waits for the commit.
Deletable(d) == \A s \in Sessions : SessionDevice[s] = d => token[s] # "flushed"

\* The token passes expires_at, or the dashboard session is revoked: for good.
Lapse(s, what) ==
    /\ what \in {"token", "login"} \cap valid[s]
    /\ what = "token" => token[s] = "issued"
    /\ valid' = [valid EXCEPT ![s] = @ \ {what}]
    /\ UNCHANGED <<token, devState, pc, sess, answer, cancelled, count, tracked, closeVars, far>>

\* Company membership is removed or given back.
ChangeAccess(s) ==
    /\ valid' = [valid EXCEPT ![s] = IF "access" \in @ THEN @ \ {"access"}
                                                       ELSE @ \cup {"access"}]
    /\ UNCHANGED <<token, devState, pc, sess, answer, cancelled, count, tracked, closeVars, far>>

\* A company is deleted with its firewalls: no call to close_device_access.
CompanyDeleted(d) ==
    /\ devState[d] # "gone" /\ Deletable(d)
    /\ devState' = [devState EXCEPT ![d] = "gone"]
    /\ UNCHANGED <<token, valid, pc, sess, answer, cancelled, count, tracked, closeVars, far>>

----------------------------------------------------------------------------
(* connector_device_tunnel.                                                *)

Dev(h) == SessionDevice[sess[h]]

\* A step of the task itself, from one await to the next.
Step(h, from, to) ==
    /\ pc[h] = from
    /\ h \notin cancelled
    /\ pc' = [pc EXCEPT ![h] = to]

\* Faulty variant: the task registers itself before it has a slot, so that one
\* refused for the limit, which returns before the finally clause, stays
\* registered for ever.
RegisterBeforeReserve(h, s) ==
    /\ ~stopping
    /\ token[s] = "issued" /\ Authorized(s)
    /\ Step(h, "idle", "validated")
    /\ sess' = [sess EXCEPT ![h] = s]
    /\ tracked' = [tracked EXCEPT ![SessionDevice[s]] = @ \cup {h}]
    /\ UNCHANGED <<dbVars, answer, cancelled, count, closeVars, far>>

\* validate_connector_session, on the event loop.
Validate(h, s) ==
    /\ ~stopping
    /\ token[s] = "issued" /\ Authorized(s)
    /\ Step(h, "idle", "validated")
    /\ sess' = [sess EXCEPT ![h] = s]
    /\ UNCHANGED <<dbVars, answer, cancelled, count, tracked, closeVars, far>>

\* Faulty variant: the limit is compared with <=.
ReserveOneTooMany(h) ==
    /\ Step(h, "validated", "reserved")
    /\ count[sess[h]] <= MaxConnections
    /\ count' = [count EXCEPT ![sess[h]] = @ + 1]
    /\ UNCHANGED <<dbVars, sess, answer, cancelled, tracked, closeVars, far>>

\* _reserve_connector_connection.
Reserve(h) ==
    /\ Step(h, "validated", "reserved")
    /\ count[sess[h]] < MaxConnections
    /\ count' = [count EXCEPT ![sess[h]] = @ + 1]
    /\ UNCHANGED <<dbVars, sess, answer, cancelled, tracked, closeVars, far>>

ReserveRefused(h) ==
    /\ Step(h, "validated", "done")
    /\ count[sess[h]] >= MaxConnections
    /\ UNCHANGED <<dbVars, sess, answer, cancelled, count, tracked, closeVars, far>>

\* _track_connector_connection, then the first re-check is handed to a thread.
Track(h) ==
    /\ Step(h, "reserved", "recheck")
    /\ tracked' = [tracked EXCEPT ![Dev(h)] = @ \cup {h}]
    /\ UNCHANGED <<dbVars, sess, answer, cancelled, count, closeVars, far>>

\* The worker thread of a check reads the database: before connecting, before
\* accepting, and whenever the monitor of a stream wakes up.
ThreadReads(h) ==
    /\ pc[h] \in {"recheck", "confirm", "open"}
    /\ answer[h] = "none"
    /\ answer' = [answer EXCEPT ![h] = IF Authorized(sess[h]) THEN "yes" ELSE "no"]
    /\ UNCHANGED <<dbVars, pc, sess, cancelled, count, tracked, closeVars, far>>

\* The task resumes with the thread's answer.
Heard(h, a) ==
    /\ answer[h] = a
    /\ answer' = [answer EXCEPT ![h] = "none"]

\* The WebSocket to the sidecar's /connect is requested, if there is a sidecar.
AskSidecar(h) == far' = IF viaAgent THEN [far EXCEPT ![h] = "connecting"] ELSE far

\* Faulty variant: nothing is checked after the task has registered itself.
RecheckSkipped(h) ==
    /\ Step(h, "recheck", "connecting")
    /\ \E a \in {"yes", "no"} : Heard(h, a)
    /\ AskSidecar(h)
    /\ UNCHANGED <<dbVars, sess, cancelled, count, tracked, closeVars>>

RecheckPassed(h) ==
    /\ Step(h, "recheck", "connecting")
    /\ Heard(h, "yes")
    /\ AskSidecar(h)
    /\ UNCHANGED <<dbVars, sess, cancelled, count, tracked, closeVars>>

\* `return` before `agent` is assigned: the finally clause reads the unbound
\* local and raises before it reaches _release_connector_connection.
RecheckRefused(h) ==
    /\ Step(h, "recheck", "done")
    /\ Heard(h, "no")
    /\ UNCHANGED <<dbVars, sess, cancelled, count, tracked, closeVars, far>>

Connected(h) ==
    /\ viaAgent => far[h] \in {"open", "ended"}
    /\ Step(h, "connecting", "confirm")
    /\ UNCHANGED <<dbVars, sess, answer, cancelled, count, tracked, closeVars, far>>

\* Refused, or too late: the sidecar may still be connecting.
ConnectFails(h) ==
    /\ viaAgent => far[h] \in {"connecting", "refused"}
    /\ Step(h, "connecting", "ending")
    /\ UNCHANGED <<dbVars, sess, answer, cancelled, count, tracked, closeVars, far>>

ConfirmPassed(h) ==
    /\ Step(h, "confirm", "accepting")
    /\ Heard(h, "yes")
    /\ UNCHANGED <<dbVars, sess, cancelled, count, tracked, closeVars, far>>

ConfirmRefused(h) ==
    /\ Step(h, "confirm", "ending")
    /\ Heard(h, "no")
    /\ UNCHANGED <<dbVars, sess, cancelled, count, tracked, closeVars, far>>

\* websocket.accept() returned; the token's remaining time is positive.
Accepted(h) ==
    /\ Step(h, "accepting", "open")
    /\ "token" \in valid[sess[h]]
    /\ UNCHANGED <<dbVars, sess, answer, cancelled, count, tracked, closeVars, far>>

AcceptedTooLate(h) ==
    /\ Step(h, "accepting", "ending")
    /\ "token" \notin valid[sess[h]]
    /\ UNCHANGED <<dbVars, sess, answer, cancelled, count, tracked, closeVars, far>>

\* The client is gone: RuntimeError or WebSocketDisconnect.
AcceptFails(h) ==
    /\ Step(h, "accepting", "cleanup")
    /\ UNCHANGED <<dbVars, sess, answer, cancelled, count, tracked, closeVars, far>>

\* Faulty variant: the monitor goes on after a refusal.
MonitorEndsIgnored(h) ==
    /\ Step(h, "open", "open")
    /\ Heard(h, "no")
    /\ UNCHANGED <<dbVars, sess, cancelled, count, tracked, closeVars, far>>

\* _monitor_connector_authorization raises ConnectorAuthorizationEnded.
MonitorEnds(h) ==
    /\ Step(h, "open", "ending")
    /\ Heard(h, "no")
    /\ UNCHANGED <<dbVars, sess, cancelled, count, tracked, closeVars, far>>

MonitorGoesOn(h) ==
    /\ Step(h, "open", "open")
    /\ Heard(h, "yes")
    /\ UNCHANGED <<dbVars, sess, cancelled, count, tracked, closeVars, far>>

\* Either side closes the stream.  The pending answer of the monitor, if any,
\* is lost with the monitor task.
StreamCloses(h) ==
    /\ ~viaAgent
    /\ Step(h, "open", "cleanup")
    /\ answer' = [answer EXCEPT ![h] = "none"]
    /\ UNCHANGED <<dbVars, sess, cancelled, count, tracked, closeVars, far>>

\* The same in _relay_connector_stream_via_agent: the client closes, or the
\* sidecar has.
AgentStreamCloses(h) ==
    /\ viaAgent
    /\ Step(h, "open", "cleanup")
    /\ answer' = [answer EXCEPT ![h] = "none"]
    /\ UNCHANGED <<dbVars, sess, cancelled, count, tracked, closeVars, far>>

\* min(remaining, CONNECTOR_CONNECTION_MAX_SECONDS) has passed.
TimedOut(h) ==
    /\ Step(h, "open", "ending")
    /\ answer' = [answer EXCEPT ![h] = "none"]
    /\ UNCHANGED <<dbVars, sess, cancelled, count, tracked, closeVars, far>>

\* websocket.close() returned (or raised: both lead to the finally clause).
Ended(h) ==
    /\ Step(h, "ending", "cleanup")
    /\ UNCHANGED <<dbVars, sess, answer, cancelled, count, tracked, closeVars, far>>

\* The upstream is closed, then _release_connector_connection.
Release(h) ==
    /\ Step(h, "cleanup", "done")
    /\ count' = [count EXCEPT ![sess[h]] = IF @ <= 1 THEN 0 ELSE @ - 1]
    /\ tracked' = [tracked EXCEPT ![Dev(h)] = @ \ {h}]
    /\ UNCHANGED <<dbVars, sess, answer, cancelled, closeVars, far>>

\* CancelledError at the task's await.  In the first re-check `agent` is
\* unbound, and in the finally clause the release is still to come: either way
\* the slot is never released.  Elsewhere the finally clause runs.
CancelDelivered(h) ==
    /\ h \in cancelled
    /\ pc[h] # "done"
    /\ pc' = [pc EXCEPT ![h] =
                IF pc[h] \in {"recheck", "cleanup"} THEN "done" ELSE "cleanup"]
    /\ answer' = [answer EXCEPT ![h] = "none"]
    /\ cancelled' = cancelled \ {h}
    /\ UNCHANGED <<dbVars, sess, count, tracked, closeVars, far>>

----------------------------------------------------------------------------
(* The sidecar: connect_to_wireguard_peer.                                 *)

FarStep(h, from, to) ==
    /\ far[h] = from
    /\ far' = [far EXCEPT ![h] = to]
    /\ UNCHANGED <<dbVars, pc, sess, answer, cancelled, count, tracked, closeVars>>

\* The target is not one the sidecar connects to, or does not answer in time.
FarRefuses(h) == FarStep(h, "connecting", "refused")

\* Connected, and the WebSocket accepted, whether or not the Hub still waits.
FarOpens(h) == FarStep(h, "connecting", "open")

\* The Hub's end of the WebSocket is closed: receive() says so.
HubEndGone(h) == pc[h] = "done"

\* The firewall closes its connection: the other pipe ends.
FirewallCloses(h) == FarStep(h, "open", "ended")

\* One pipe ends with the Hub's end: the other is cancelled, the firewall's
\* connection is closed.
FarEnds(h) == HubEndGone(h) /\ FarStep(h, "open", "ended")

----------------------------------------------------------------------------
(* The end of revoke_device and delete_revoked_device: the commit, then    *)
(* close_device_access.                                                    *)

Revoke(d) ==
    /\ closer[d] = "idle" /\ ~stopping
    /\ \/ devState[d] = "active" /\ devState' = [devState EXCEPT ![d] = "revoked"]
       \/ /\ devState[d] = "revoked" /\ Deletable(d)
          /\ devState' = [devState EXCEPT ![d] = "gone"]
    /\ closer' = [closer EXCEPT ![d] = "closing"]
    /\ UNCHANGED <<token, valid, pc, sess, answer, cancelled, count, tracked, waitFor, swept,
                   stopping, viaAgent, far>>

\* The relay is closed; the device's tasks are taken out of the table and
\* cancelled, with no await in between.
CancelTasks(d) ==
    /\ closer[d] = "closing"
    /\ cancelled' = cancelled \cup {h \in tracked[d] : pc[h] # "done"}
    /\ waitFor' = [waitFor EXCEPT ![d] = tracked[d]]
    /\ tracked' = [tracked EXCEPT ![d] = {}]
    /\ closer' = [closer EXCEPT ![d] = "waiting"]
    /\ swept' = swept \cup {d}
    /\ UNCHANGED <<dbVars, pc, sess, answer, count, stopping, viaAgent, far>>

\* asyncio.wait_for(gather(...)) returns when all are done, or cancels those
\* that are not a second time after CONNECTOR_CLEANUP_TIMEOUT_SECONDS.
CloseReturns(d) ==
    /\ closer[d] = "waiting"
    /\ \/ /\ \A h \in waitFor[d] : pc[h] = "done"
          /\ UNCHANGED cancelled
       \/ cancelled' = cancelled \cup {h \in waitFor[d] : pc[h] # "done"}
    /\ closer' = [closer EXCEPT ![d] = "idle"]
    /\ waitFor' = [waitFor EXCEPT ![d] = {}]
    /\ UNCHANGED <<dbVars, pc, sess, answer, count, tracked, swept, stopping, viaAgent, far>>

----------------------------------------------------------------------------
(* The end of the Hub's process.                                           *)

\* The lifespan ends: close_all_access takes every task out of the tables and
\* cancels it.
CloseAll ==
    /\ ~stopping
    /\ stopping' = TRUE
    /\ LET all == UNION {tracked[d] : d \in Devices}
       IN  cancelled' = cancelled \cup {h \in all : pc[h] # "done"}
    /\ tracked' = [d \in Devices |-> {}]
    /\ UNCHANGED <<dbVars, pc, sess, answer, count, closer, waitFor, swept, viaAgent, far>>

\* The process ends after that, or is killed; its tasks and tables are gone, and
\* another starts.  A token that was not committed is lost with its page.
Restarts ==
    /\ stopping \/ \E h \in Streams : pc[h] \notin {"idle", "done"}
    /\ stopping' = FALSE
    /\ token' = [s \in Sessions |-> IF token[s] = "flushed" THEN "none" ELSE token[s]]
    /\ pc' = [h \in Streams |-> IF pc[h] = "idle" THEN "idle" ELSE "done"]
    /\ answer' = [h \in Streams |-> "none"]
    /\ cancelled' = {}
    /\ count' = [s \in Sessions |-> 0]
    /\ tracked' = [d \in Devices |-> {}]
    /\ closer' = [d \in Devices |-> "idle"]
    /\ waitFor' = [d \in Devices |-> {}]
    /\ UNCHANGED <<valid, devState, sess, swept, viaAgent, far>>

----------------------------------------------------------------------------
\* What a task does once it has been let in, as long as the loop runs it.
Progress(h) ==
    \/ ThreadReads(h)
    \/ RecheckPassed(h)
    \/ RecheckRefused(h)
    \/ ConfirmPassed(h)
    \/ ConfirmRefused(h)
    \/ MonitorEnds(h)
    \/ MonitorGoesOn(h)
    \/ Ended(h)
    \/ Release(h)
    \/ CancelDelivered(h)

Tunnel(h) ==
    \/ \E s \in Sessions : Validate(h, s)
    \/ Reserve(h)
    \/ ReserveRefused(h)
    \/ Track(h)
    \/ Connected(h)
    \/ ConnectFails(h)
    \/ Accepted(h)
    \/ AcceptedTooLate(h)
    \/ AcceptFails(h)
    \/ StreamCloses(h)
    \/ AgentStreamCloses(h)
    \/ TimedOut(h)
    \/ Progress(h)

Close(d) == Revoke(d) \/ CancelTasks(d) \/ CloseReturns(d)

Next ==
    \/ \E h \in Streams : Tunnel(h) \/ FarRefuses(h) \/ FarOpens(h) \/ FirewallCloses(h) \/ FarEnds(h)
    \/ \E d \in Devices : Close(d) \/ CompanyDeleted(d)
    \/ CloseAll \/ Restarts
    \/ \E s \in Sessions : OpenConnector(s) \/ HandOver(s)
    \/ \E s \in Sessions : ChangeAccess(s) \/ \E what \in Conditions : Lapse(s, what)

Spec == Init /\ [][Next]_vars

\* The event loops of Hub and sidecar run ready tasks, worker threads answer,
\* connecting and accepting are limited in time or local, and asyncio.sleep in
\* the monitor returns; clients and firewalls need not do anything.
FairSpec ==
    /\ Spec
    /\ \A h \in Streams :
          /\ WF_vars(Progress(h))
          /\ WF_vars(Connected(h) \/ ConnectFails(h))
          /\ WF_vars(Accepted(h) \/ AcceptedTooLate(h) \/ AcceptFails(h))
          /\ WF_vars(FarEnds(h))
    /\ \A d \in Devices : WF_vars(CancelTasks(d)) /\ WF_vars(CloseReturns(d))

----------------------------------------------------------------------------
(* Properties.                                                             *)

Stages == {"idle", "validated", "reserved", "recheck", "connecting", "confirm",
           "accepting", "open", "ending", "cleanup", "done"}

\* Every variable stays in its range; only a task that got a slot is registered,
\* and only a registered one is cancelled.
TypeOK ==
    /\ valid \in [Sessions -> SUBSET Conditions]
    /\ devState \in [Devices -> {"active", "revoked", "gone"}]
    /\ pc \in [Streams -> Stages]
    /\ sess \in [Streams -> Sessions \cup {None}]
    /\ \A h \in Streams : pc[h] # "idle" => sess[h] \in Sessions
    /\ answer \in [Streams -> {"none", "yes", "no"}]
    /\ cancelled \subseteq {h \in Streams : pc[h] \notin {"idle", "validated", "reserved", "done"}}
    /\ count \in [Sessions -> Nat]
    /\ tracked \in [Devices -> SUBSET Streams]
    /\ closer \in [Devices -> {"idle", "closing", "waiting"}]
    /\ waitFor \in [Devices -> SUBSET Streams]
    /\ \A d \in Devices : \A h \in tracked[d] \cup waitFor[d] :
          pc[h] \notin {"idle", "validated", "reserved"}
    /\ swept \subseteq Devices
    /\ token \in [Sessions -> {"none", "flushed", "issued"}]
    /\ stopping \in BOOLEAN /\ viaAgent \in BOOLEAN
    /\ far \in [Streams -> {"none", "connecting", "open", "refused", "ended"}]
    /\ \A h \in Streams : far[h] # "none" => viaAgent /\ sess[h] # None

\* Tasks holding a slot of session s.
Holders(s) ==
    {h \in Streams : sess[h] = s /\ pc[h] \notin {"idle", "validated", "done"}}

\* CONNECTOR_MAX_CONNECTIONS: no session has more streams than it may, however
\* their reservations, releases and cancellations interleave.
LimitEnforced == \A s \in Sessions : Cardinality(Holders(s)) <= MaxConnections

\* Once close_device_access has cancelled a device's tasks, no stream to the
\* device relays or is about to: one registered before was cancelled, one
\* registered after is refused by its first re-check (registration comes
\* before it, so none falls in between).
RevokedIsClosed ==
    \A h \in Streams :
        /\ pc[h] \in {"connecting", "confirm", "accepting", "open"}
        /\ Dev(h) \in swept
        => h \in cancelled

\* A stream that is no longer authorized does not stay open, and neither does the
\* sidecar's connection to the firewall: the monitor sees it, even where nothing
\* cancels the task (logout, RBAC, deleted company), and the sidecar sees the
\* end of the Hub's task, also of one that was killed.
UnauthorizedStreamsEnd ==
    \A h \in Streams :
        []<>(pc[h] = "open" \/ far[h] = "open" => sess[h] # None /\ Authorized(sess[h]))

----------------------------------------------------------------------------
(* A statement of the documentation that the code does not keep.           *)

\* README.md: CONNECTOR_MAX_CONNECTIONS is the number of concurrent streams a
\* session may have; so what is counted are streams.  The slot of a task that
\* ends in its first re-check, or is cancelled while cleaning up, stays taken.
CountedAreStreams == ~stopping => \A s \in Sessions : count[s] = Cardinality(Holders(s))
=============================================================================
