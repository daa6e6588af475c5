------------------------------ MODULE TcpRelay ------------------------------
(***************************************************************************)
(* The optional public TCP relay: TcpRelayManager (services/tcp_relay.py)  *)
(* and its callers in routers/proxy.py.                                    *)
(*                                                                         *)
(* Everything runs on one event loop.  _replace_device_relay and           *)
(* _close_device_relay hold the device's lock throughout; the manager's    *)
(* own lock is held across an await only by create_relay.  Relays are      *)
(* detached under the manager's lock and shut down after it was released,  *)
(* so other tasks run between the two.                                     *)
(*                                                                         *)
(* A relay is named by the request that opened it.                         *)
(***************************************************************************)
EXTENDS Integers, FiniteSets

CONSTANTS
    Opens,          \* POST .../relay/open requests
    Devices,
    OpenDevice,     \* the device of each request
    Ports,          \* PUBLIC_L4_RELAY_PORT_MIN..MAX
    Clients,        \* TCP connections to a relay
    MaxConnections, \* PUBLIC_L4_RELAY_MAX_CONNECTIONS
    None

ASSUME ParamAssumption ==
    /\ OpenDevice \in [Opens -> Devices]
    /\ MaxConnections \in Nat \ {0}
    /\ None \notin Opens \cup Ports \cup Devices
    /\ Opens \cap Devices = {}
    /\ IsFiniteSet(Clients)

VARIABLES
    revoked,     \* devices whose revocation is committed
    \* request tasks
    opc,         \* idle, locking, closing, shutting, creating, created, undo, then ok | refused
    rpc,         \* per device, its revoke handler: idle, locking, closing, shutting, done
    todo,        \* per request or device: the relays its close_device detached
    \* locks
    devLock,     \* per device: the holder of _relay_device_locks[device]
    mgrLock,     \* the create_relay holding TcpRelayManager._lock
    \* TcpRelayManager
    relays,      \* _relays: port -> relay
    port,        \* allocation.port of each relay
    closing,     \* relays with state.closing set
    unshut,      \* detached relays whose _shutdown_relay has still to run
    expiry,      \* per relay, its expiry task: none, sleeping, due, over
    \* connections
    cpc,         \* idle, starting, connecting, forwarding, cleanup, done
    crelay,
    active,      \* state.active_connections
    cancelled

reqVars    == <<revoked, opc, rpc, todo, devLock, mgrLock>>
relayVars  == <<relays, port, closing, unshut, expiry>>
clientVars == <<cpc, crelay, active, cancelled>>
vars       == <<reqVars, relayVars, clientVars>>

Init ==
    /\ revoked = {}
    /\ opc = [o \in Opens |-> "idle"]
    /\ rpc = [d \in Devices |-> "idle"]
    /\ todo = [x \in Opens \cup Devices |-> {}]
    /\ devLock = [d \in Devices |-> None]
    /\ mgrLock = None
    /\ relays = [p \in Ports |-> None]
    /\ port = [o \in Opens |-> None]
    /\ closing = {}
    /\ unshut = {}
    /\ expiry = [o \in Opens |-> "none"]
    /\ cpc = [c \in Clients |-> "idle"]
    /\ crelay = [c \in Clients |-> None]
    /\ active = [o \in Opens |-> 0]
    /\ cancelled = {}

----------------------------------------------------------------------------
(* TcpRelayManager.                                                        *)

Registered    == {o \in Opens : \E p \in Ports : relays[p] = o}
RelaysOf(d)   == {o \in Registered : OpenDevice[o] = d}

\* _detach_relay for every relay in S: no await, so one step.
Detach(S) ==
    /\ relays' = [p \in Ports |-> IF relays[p] \in S THEN None ELSE relays[p]]
    /\ closing' = closing \cup S
    /\ unshut' = unshut \cup S

\* Connection tasks that _handle_client has put in state.tasks.
Tasks(o) == {c \in Clients : crelay[c] = o /\ cpc[c] \notin {"idle", "starting", "done"}}

\* _shutdown_relay, up to its first await: the expiry task (unless it is the
\* one shutting down) and the connection tasks are cancelled.
Shutdown(o) ==
    /\ o \in unshut
    /\ unshut' = unshut \ {o}
    /\ cancelled' = cancelled \cup Tasks(o)
    /\ expiry' = [expiry EXCEPT ![o] = "over"]
    /\ UNCHANGED <<reqVars, relays, port, closing, cpc, crelay, active>>

----------------------------------------------------------------------------
(* open_public_l4_relay.                                                   *)

\* _require_dashboard_device, then the wait for the device's lock.
OpenStart(o) ==
    /\ opc[o] = "idle"
    /\ OpenDevice[o] \notin revoked
    /\ opc' = [opc EXCEPT ![o] = "locking"]
    /\ UNCHANGED <<revoked, rpc, todo, devLock, mgrLock, relayVars, clientVars>>

\* Faulty variant: the device's lock is not taken.
OpenUnlocked(o) ==
    /\ opc[o] = "locking"
    /\ opc' = [opc EXCEPT ![o] = "closing"]
    /\ UNCHANGED <<revoked, rpc, todo, devLock, mgrLock, relayVars, clientVars>>

OpenLocked(o) ==
    /\ opc[o] = "locking"
    /\ devLock[OpenDevice[o]] = None
    /\ devLock' = [devLock EXCEPT ![OpenDevice[o]] = o]
    /\ opc' = [opc EXCEPT ![o] = "closing"]
    /\ UNCHANGED <<revoked, rpc, todo, mgrLock, relayVars, clientVars>>

\* close_device: detach under the manager's lock.
OpenCloses(o) ==
    /\ opc[o] = "closing"
    /\ mgrLock = None
    /\ Detach(RelaysOf(OpenDevice[o]))
    /\ todo' = [todo EXCEPT ![o] = RelaysOf(OpenDevice[o])]
    /\ opc' = [opc EXCEPT ![o] = "shutting"]
    /\ UNCHANGED <<revoked, rpc, devLock, mgrLock, port, expiry, clientVars>>

\* The shutdowns have returned (their tasks ended, or 5 s went by); create_relay
\* takes the manager's lock and a port that no relay has.
CreateBegins(o, p) ==
    /\ opc[o] = "shutting"
    /\ todo[o] \cap unshut = {}
    /\ mgrLock = None
    /\ relays[p] = None
    /\ mgrLock' = o
    /\ port' = [port EXCEPT ![o] = p]
    /\ relays' = [relays EXCEPT ![p] = o]
    /\ opc' = [opc EXCEPT ![o] = "creating"]
    /\ UNCHANGED <<revoked, rpc, todo, devLock, closing, unshut, expiry, clientVars>>

\* No port can be bound: 503.
CreateFails(o) ==
    /\ opc[o] = "shutting"
    /\ todo[o] \cap unshut = {}
    /\ mgrLock = None
    /\ devLock' = [devLock EXCEPT ![OpenDevice[o]] = None]
    /\ opc' = [opc EXCEPT ![o] = "refused"]
    /\ UNCHANGED <<revoked, rpc, todo, mgrLock, relayVars, clientVars>>

\* start_serving() returned: expiry task started, both locks released.
CreateReturns(o) ==
    /\ opc[o] = "creating"
    /\ mgrLock' = None
    /\ devLock' = [devLock EXCEPT ![OpenDevice[o]] = None]
    /\ expiry' = [expiry EXCEPT ![o] = "sleeping"]
    /\ opc' = [opc EXCEPT ![o] = "created"]
    /\ UNCHANGED <<revoked, rpc, todo, relays, port, closing, unshut, clientVars>>

\* start_serving() raised: the relay is taken out of the table again.
CreateAborts(o) ==
    /\ opc[o] = "creating"
    /\ relays' = [relays EXCEPT ![port[o]] = None]
    /\ mgrLock' = None
    /\ devLock' = [devLock EXCEPT ![OpenDevice[o]] = None]
    /\ opc' = [opc EXCEPT ![o] = "refused"]
    /\ UNCHANGED <<revoked, rpc, todo, port, closing, unshut, expiry, clientVars>>

\* Faulty variant: the device is not looked up again.
NoRecheck(o) ==
    /\ opc[o] = "created"
    /\ opc' = [opc EXCEPT ![o] = "ok"]
    /\ UNCHANGED <<revoked, rpc, todo, devLock, mgrLock, relayVars, clientVars>>

\* db.expire_all() and _require_dashboard_device again.  Another failure of the
\* audit, the template or the commit also leads to close_allocation.
OpenRechecks(o) ==
    /\ opc[o] = "created"
    /\ \E next \in {"ok", "undo"} :
          /\ next = "ok" => OpenDevice[o] \notin revoked
          /\ opc' = [opc EXCEPT ![o] = next]
    /\ UNCHANGED <<revoked, rpc, todo, devLock, mgrLock, relayVars, clientVars>>

\* close_allocation: only if the port still has this very allocation.
OpenUndoes(o) ==
    /\ opc[o] = "undo"
    /\ mgrLock = None
    /\ Detach(IF relays[port[o]] = o THEN {o} ELSE {})
    /\ opc' = [opc EXCEPT ![o] = "refused"]
    /\ UNCHANGED <<revoked, rpc, todo, devLock, mgrLock, port, expiry, clientVars>>

----------------------------------------------------------------------------
(* revoke_device, from its commit: close_device_access begins with         *)
(* _close_device_relay.                                                    *)

Revoke(d) ==
    /\ rpc[d] = "idle"
    /\ revoked' = revoked \cup {d}
    /\ rpc' = [rpc EXCEPT ![d] = "locking"]
    /\ UNCHANGED <<opc, todo, devLock, mgrLock, relayVars, clientVars>>

RevokeLocked(d) ==
    /\ rpc[d] = "locking"
    /\ devLock[d] = None
    /\ devLock' = [devLock EXCEPT ![d] = d]
    /\ rpc' = [rpc EXCEPT ![d] = "closing"]
    /\ UNCHANGED <<revoked, opc, todo, mgrLock, relayVars, clientVars>>

RevokeCloses(d) ==
    /\ rpc[d] = "closing"
    /\ mgrLock = None
    /\ Detach(RelaysOf(d))
    /\ todo' = [todo EXCEPT ![d] = RelaysOf(d)]
    /\ rpc' = [rpc EXCEPT ![d] = "shutting"]
    /\ UNCHANGED <<revoked, opc, devLock, mgrLock, port, expiry, clientVars>>

RevokeReturns(d) ==
    /\ rpc[d] = "shutting"
    /\ todo[d] \cap unshut = {}
    /\ devLock' = [devLock EXCEPT ![d] = None]
    /\ rpc' = [rpc EXCEPT ![d] = "done"]
    /\ UNCHANGED <<revoked, opc, todo, mgrLock, relayVars, clientVars>>

----------------------------------------------------------------------------
(* _expire_relay.                                                          *)

\* asyncio.sleep(ttl) is over; the task asks for the manager's lock.
ExpiryDue(o) ==
    /\ expiry[o] = "sleeping"
    /\ expiry' = [expiry EXCEPT ![o] = "due"]
    /\ UNCHANGED <<reqVars, relays, port, closing, unshut, clientVars>>

\* Faulty variant: the relay stays registered.
ExpireKeeps(o) ==
    /\ expiry[o] = "due"
    /\ mgrLock = None
    /\ expiry' = [expiry EXCEPT ![o] = "over"]
    /\ UNCHANGED <<reqVars, relays, port, closing, unshut, clientVars>>

Expire(o) ==
    /\ expiry[o] = "due"
    /\ mgrLock = None
    /\ Detach(IF relays[port[o]] = o THEN {o} ELSE {})
    /\ expiry' = [expiry EXCEPT ![o] = "over"]
    /\ UNCHANGED <<reqVars, port, clientVars>>

----------------------------------------------------------------------------
(* _handle_client.                                                         *)

\* The listening socket accepts a connection; its task has not run yet.
ClientAccepted(c, o) ==
    /\ cpc[c] = "idle"
    /\ o \in Registered
    /\ opc[o] # "creating"
    /\ cpc' = [cpc EXCEPT ![c] = "starting"]
    /\ crelay' = [crelay EXCEPT ![c] = o]
    /\ UNCHANGED <<reqVars, relayVars, active, cancelled>>

\* Faulty variant: the task does not look at state.closing.
ClientIgnoresClosing(c) ==
    /\ cpc[c] = "starting"
    /\ active[crelay[c]] < MaxConnections
    /\ active' = [active EXCEPT ![crelay[c]] = @ + 1]
    /\ cpc' = [cpc EXCEPT ![c] = "connecting"]
    /\ UNCHANGED <<reqVars, relayVars, crelay, cancelled>>

\* Faulty variant: the connection is not counted.
ClientUncounted(c) ==
    /\ cpc[c] = "starting"
    /\ crelay[c] \notin closing
    /\ active[crelay[c]] < MaxConnections
    /\ cpc' = [cpc EXCEPT ![c] = "connecting"]
    /\ UNCHANGED <<reqVars, relayVars, crelay, active, cancelled>>

\* The source address is the allowed one and there is room.
ClientStarts(c) ==
    /\ cpc[c] = "starting"
    /\ crelay[c] \notin closing
    /\ active[crelay[c]] < MaxConnections
    /\ active' = [active EXCEPT ![crelay[c]] = @ + 1]
    /\ cpc' = [cpc EXCEPT ![c] = "connecting"]
    /\ UNCHANGED <<reqVars, relayVars, crelay, cancelled>>

\* The relay is closing or full, or the source address is another one.
ClientRefused(c) ==
    /\ cpc[c] = "starting"
    /\ cpc' = [cpc EXCEPT ![c] = "done"]
    /\ UNCHANGED <<reqVars, relayVars, crelay, active, cancelled>>

\* The upstream connection is open: a relay that began to close is left alone.
ClientConnected(c) ==
    /\ cpc[c] = "connecting"
    /\ c \notin cancelled
    /\ cpc' = [cpc EXCEPT ![c] =
                 IF crelay[c] \in closing THEN "cleanup" ELSE "forwarding"]
    /\ UNCHANGED <<reqVars, relayVars, crelay, active, cancelled>>

\* No upstream, a side closed, or the idle timeout.
ClientEnds(c) ==
    /\ cpc[c] \in {"connecting", "forwarding"}
    /\ c \notin cancelled
    /\ cpc' = [cpc EXCEPT ![c] = "cleanup"]
    /\ UNCHANGED <<reqVars, relayVars, crelay, active, cancelled>>

\* The finally clause: the writers are closed, then the slot is given back.
ClientReleases(c) ==
    /\ cpc[c] = "cleanup"
    /\ c \notin cancelled
    /\ active' = [active EXCEPT ![crelay[c]] = @ - 1]
    /\ cpc' = [cpc EXCEPT ![c] = "done"]
    /\ UNCHANGED <<reqVars, relayVars, crelay, cancelled>>

\* CancelledError; in the finally clause it skips the rest of the clause.
ClientCancelled(c) ==
    /\ c \in cancelled
    /\ cpc[c] # "done"
    /\ cancelled' = cancelled \ {c}
    /\ cpc' = [cpc EXCEPT ![c] = IF @ = "cleanup" THEN "done" ELSE "cleanup"]
    /\ UNCHANGED <<reqVars, relayVars, crelay, active>>

----------------------------------------------------------------------------
Open(o) ==
    \/ OpenStart(o)
    \/ OpenLocked(o)
    \/ OpenCloses(o)
    \/ \E p \in Ports : CreateBegins(o, p)
    \/ CreateFails(o)
    \/ CreateReturns(o)
    \/ CreateAborts(o)
    \/ OpenRechecks(o)
    \/ OpenUndoes(o)

Revocation(d) == Revoke(d) \/ RevokeLocked(d) \/ RevokeCloses(d) \/ RevokeReturns(d)

Relay(o) == Shutdown(o) \/ ExpiryDue(o) \/ Expire(o)

Client(c) ==
    \/ \E o \in Opens : ClientAccepted(c, o)
    \/ ClientStarts(c)
    \/ ClientRefused(c)
    \/ ClientConnected(c)
    \/ ClientEnds(c)
    \/ ClientReleases(c)
    \/ ClientCancelled(c)

Next ==
    \/ \E o \in Opens : Open(o) \/ Relay(o)
    \/ \E d \in Devices : Revocation(d)
    \/ \E c \in Clients : Client(c)

Spec == Init /\ [][Next]_vars

\* Timers fire and the loop runs ready tasks; asyncio.Lock is granted in order
\* of arrival, and there are finitely many requests to wait for.
FairSpec ==
    /\ Spec
    /\ \A o \in Opens :
          /\ WF_vars(OpenLocked(o) \/ OpenCloses(o) \/ CreateFails(o) \/ CreateReturns(o))
          /\ WF_vars(OpenRechecks(o) \/ OpenUndoes(o))
          /\ WF_vars(Relay(o))
    /\ \A d \in Devices : WF_vars(RevokeLocked(d) \/ RevokeCloses(d) \/ RevokeReturns(d))
    /\ \A c \in Clients : WF_vars(ClientCancelled(c))

----------------------------------------------------------------------------
(* Properties.                                                             *)

Ranges ==
    /\ revoked \subseteq Devices
    /\ opc \in [Opens -> {"idle", "locking", "closing", "shutting", "creating",
                          "created", "undo", "ok", "refused"}]
    /\ rpc \in [Devices -> {"idle", "locking", "closing", "shutting", "done"}]
    /\ todo \in [Opens \cup Devices -> SUBSET Opens]
    /\ devLock \in [Devices -> Opens \cup Devices \cup {None}]
    /\ mgrLock \in Opens \cup {None}
    /\ relays \in [Ports -> Opens \cup {None}]
    /\ port \in [Opens -> Ports \cup {None}]
    /\ closing \subseteq Opens
    /\ unshut \subseteq closing
    /\ expiry \in [Opens -> {"none", "sleeping", "due", "over"}]
    /\ cpc \in [Clients -> {"idle", "starting", "connecting", "forwarding", "cleanup", "done"}]
    /\ crelay \in [Clients -> Opens \cup {None}]
    /\ active \in [Opens -> Nat]
    /\ cancelled \subseteq Clients

\* The connections a relay serves.
Served(o) == {c \in Clients : crelay[c] = o /\ cpc[c] \in {"connecting", "forwarding", "cleanup"}}

\* Every variable stays in its range; a registered relay is not closing, and no
\* relay serves more than PUBLIC_L4_RELAY_MAX_CONNECTIONS.
TypeOK ==
    /\ Ranges
    /\ Registered \cap closing = {}
    /\ \A o \in Opens : Cardinality(Served(o)) <= MaxConnections

\* A device has one relay at a time: opening a second replaces the first, also
\* when two requests and a revocation wait for each other.
OneRelayPerDevice == \A d \in Devices : Cardinality(RelaysOf(d)) <= 1

\* After a revocation has closed the device's relay, a relay of that device can
\* only be one whose own request is about to look the device up again and
\* close it.
RevokedHasNoRelay ==
    \A d \in Devices : \A o \in RelaysOf(d) :
        rpc[d] \in {"shutting", "done"} => opc[o] \in {"creating", "created", "undo"}

\* A relay that was shut down opens no firewall connection and forwards
\* nothing: a connection accepted before, in whatever stage, was cancelled or
\* sees state.closing.
ClosedRelayIsSilent ==
    \A c \in Clients :
        cpc[c] \in {"connecting", "forwarding"} /\ crelay[c] \in closing \ unshut
            => c \in cancelled

\* Every relay comes to its end (at the latest when its TTL is over), and its
\* connections with it.
RelaysEnd ==
    \A o \in Opens : opc[o] = "creating" ~>
        /\ o \notin Registered
        /\ \A c \in Clients : crelay[c] = o => cpc[c] # "forwarding"
=============================================================================
