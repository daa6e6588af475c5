--------------------------- MODULE TcpRelay_proofs ---------------------------
(***************************************************************************)
(* Proofs about TcpRelay: for any number of requests, devices and ports,   *)
(* any finite set of clients and any limit, its variables stay in their    *)
(* ranges, a device has one relay at a time and none after its revocation, *)
(* and a relay that was shut down is silent.                               *)
(***************************************************************************)
EXTENDS TcpRelay, FiniteSetTheorems, TLAPS

(***************************************************************************)
(* Types, and which relay is where.                                        *)
(***************************************************************************)
\* A relay is registered under its own port only, and between create_relay and
\* its end only; one that was detached has been created.
Placed ==
    /\ \A p \in Ports : relays[p] # None =>
          /\ port[relays[p]] = p
          /\ opc[relays[p]] \in {"creating", "created", "undo", "ok"}
          /\ relays[p] \notin closing
    /\ \A o \in closing : opc[o] \in {"created", "undo", "ok", "refused"}
    /\ \A o \in Opens : expiry[o] # "none" \/ opc[o] \in {"creating", "created", "undo", "ok"}
                          => port[o] \in Ports
    /\ \A o \in Opens : opc[o] \in {"idle", "locking", "closing", "shutting", "creating"}
                          => expiry[o] = "none"
    /\ \A o \in unshut : port[o] \in Ports

\* Only connections that have begun are cancelled.
Begun == \A c \in cancelled : cpc[c] \notin {"idle", "starting"}

\* The manager's lock is held by the request in create_relay, across its await.
Creating == \A o \in Opens : opc[o] = "creating" <=> mgrLock = o

\* A connection that was accepted is one of a relay, which counts it.
Counted ==
    /\ \A c \in Clients : cpc[c] # "idle" => crelay[c] \in Opens
    /\ \A o \in Opens : active[o] <= MaxConnections /\ Cardinality(Served(o)) <= active[o]

PlaceInv == Ranges /\ Placed /\ Begun /\ Creating /\ Counted

\* A relay's connections are finitely many.
LEMMA ServedFinite == ASSUME NEW o \in Opens
                      PROVE  IsFiniteSet(Served(o)) /\ Cardinality(Served(o)) \in Nat
  BY ParamAssumption, FS_Subset, FS_CardinalityType DEF Served

LEMMA ServedFiniteNext == ASSUME NEW o \in Opens
                          PROVE  IsFiniteSet(Served(o)') /\ Cardinality(Served(o)') \in Nat
  BY ParamAssumption, FS_Subset, FS_CardinalityType DEF Served

\* A connection that is served is in its relay's count.
LEMMA ServedCounts == ASSUME Ranges, Counted, NEW c \in Clients,
                             cpc[c] \in {"connecting", "forwarding", "cleanup"}
                      PROVE  active[crelay[c]] >= 1
<1> DEFINE o == crelay[c]
<1>1. o \in Opens /\ c \in Served(o)
  BY DEF Counted, Served
<1>2. Cardinality(Served(o)) # 0
  BY <1>1, ServedFinite, FS_EmptySet
<1> QED BY <1>1, <1>2, ServedFinite DEF Counted, Ranges

\* At the start there is nothing.
LEMMA InitPlace == Init => PlaceInv
<1> SUFFICES ASSUME Init PROVE PlaceInv
  OBVIOUS
<1>1. Ranges /\ Placed /\ Begun /\ Creating
  BY ParamAssumption DEF Init, Ranges, Placed, Begun, Creating
<1>2. \A o \in Opens : Served(o) = {}
  BY DEF Init, Served
<1>3. \A o \in Opens : Cardinality(Served(o)) = 0
  BY <1>2, FS_EmptySet
<1>4. Counted
  BY <1>3, ParamAssumption DEF Init, Counted
<1> QED BY <1>1, <1>4 DEF PlaceInv

\* A step that touches no connection.
LEMMA SameClients == ASSUME PlaceInv, UNCHANGED <<cpc, crelay, active>> PROVE Counted'
<1>1. \A o \in Opens : Served(o)' = Served(o)
  BY DEF Served
<1> QED BY <1>1 DEF PlaceInv, Counted

\* A request's steps.  Relays are detached only while no create_relay holds the
\* manager's lock, so none is detached that is still being created.
LEMMA OpenPlace == ASSUME PlaceInv, NEW o \in Opens, Open(o)
                   PROVE  Ranges' /\ Placed' /\ Begun' /\ Creating'
<1> USE ParamAssumption DEF PlaceInv, Ranges, Placed, Begun, Creating, reqVars, relayVars, clientVars
<1>1. CASE OpenStart(o)
  BY <1>1 DEF OpenStart
<1>2. CASE OpenLocked(o)
  BY <1>2 DEF OpenLocked
<1>3. CASE OpenCloses(o)
  BY <1>3 DEF OpenCloses, Detach, RelaysOf, Registered
<1>4. ASSUME NEW p \in Ports, CreateBegins(o, p) PROVE Ranges' /\ Placed' /\ Begun' /\ Creating'
  BY <1>4 DEF CreateBegins
<1>5. CASE CreateFails(o)
  BY <1>5 DEF CreateFails
<1>6. CASE CreateReturns(o)
  BY <1>6 DEF CreateReturns
<1>7. CASE CreateAborts(o)
  BY <1>7 DEF CreateAborts
<1>8. CASE OpenRechecks(o)
  BY <1>8 DEF OpenRechecks
<1>9. CASE OpenUndoes(o)
  BY <1>9 DEF OpenUndoes, Detach
<1> QED BY <1>1, <1>3, <1>4, <1>5, <1>7, <1>8, <1>9, <1>2, <1>6 DEF Open

\* The other steps that register or detach: revocations, shutdowns, expiries.
LEMMA RelayPlace == ASSUME PlaceInv,
                           \/ \E d \in Devices : Revocation(d)
                           \/ \E o \in Opens : Relay(o)
                    PROVE  Ranges' /\ Placed' /\ Begun' /\ Creating'
<1> USE ParamAssumption DEF PlaceInv, Ranges, Placed, Begun, Creating, reqVars, relayVars, clientVars
<1> DEFINE Goal == Ranges' /\ Placed' /\ Begun' /\ Creating'
<1>1. ASSUME NEW d \in Devices, Revoke(d) \/ RevokeLocked(d) \/ RevokeReturns(d) PROVE Goal
  BY <1>1 DEF Revoke, RevokeLocked, RevokeReturns
<1>2. ASSUME NEW d \in Devices, RevokeCloses(d) PROVE Goal
  BY <1>2 DEF RevokeCloses, Detach, RelaysOf, Registered
<1>3. ASSUME NEW o \in Opens, Shutdown(o) PROVE Goal
  BY <1>3 DEF Shutdown, Tasks
<1>4. ASSUME NEW o \in Opens, ExpiryDue(o) PROVE Goal
  BY <1>4 DEF ExpiryDue
<1>5. ASSUME NEW o \in Opens, Expire(o) PROVE Goal
  BY <1>5 DEF Expire, Detach
<1> QED BY <1>1, <1>2, <1>3, <1>4, <1>5 DEF Revocation, Relay

\* What a connection's step changes.
LEMMA ClientMoves ==
    ASSUME PlaceInv, NEW c \in Clients, Client(c)
    PROVE  /\ UNCHANGED <<reqVars, relayVars>>
           /\ \A b \in Clients \ {c} : cpc'[b] = cpc[b] /\ crelay'[b] = crelay[b]
           /\ cpc' \in [Clients -> {"idle", "starting", "connecting", "forwarding", "cleanup", "done"}]
           /\ crelay' \in [Clients -> Opens \cup {None}]
           /\ cancelled' \subseteq Clients
           /\ cpc'[c] # "idle" => crelay'[c] \in Opens
           /\ \A b \in cancelled' : cpc'[b] \notin {"idle", "starting"}
<1> USE DEF PlaceInv, Ranges, Counted, Begun
<1>1. CASE \E o \in Opens : ClientAccepted(c, o)
  <2>1. PICK o \in Opens : ClientAccepted(c, o)
    BY <1>1
  <2>2. /\ cpc' = [cpc EXCEPT ![c] = "starting"] /\ crelay' = [crelay EXCEPT ![c] = o]
        /\ UNCHANGED <<reqVars, relayVars, cancelled>>
        /\ cpc[c] = "idle"
    BY <2>1 DEF ClientAccepted
  <2> QED BY <2>2
<1>2. CASE ~\E o \in Opens : ClientAccepted(c, o)
  <2>1. /\ UNCHANGED <<reqVars, relayVars, crelay>>
        /\ cpc[c] # "idle"
        /\ \E to \in {"connecting", "forwarding", "cleanup", "done"} : cpc' = [cpc EXCEPT ![c] = to]
        /\ cancelled' \subseteq cancelled
    BY <1>2 DEF Client, ClientStarts, ClientRefused, ClientConnected, ClientEnds,
       ClientReleases, ClientCancelled
  <2> QED BY <2>1
<1> QED BY <1>1, <1>2

\* The count follows the connections that are served, and is larger when a
\* cancellation cuts the finally clause short.
LEMMA ClientCounts ==
    ASSUME PlaceInv, NEW c \in Clients, Client(c), NEW o \in Opens
    PROVE  active'[o] \in Nat /\ active'[o] <= MaxConnections /\ Cardinality(Served(o)') <= active'[o]
<1>1. CASE ClientStarts(c) /\ crelay[c] = o
  <2>1. Served(o)' = Served(o) \cup {c}
    BY <1>1 DEF ClientStarts, Served, PlaceInv, Ranges
  <2>2. Cardinality(Served(o)') <= Cardinality(Served(o)) + 1
    BY <2>1, ServedFinite, FS_AddElement
  <2>3. active'[o] = active[o] + 1 /\ active[o] < MaxConnections
    BY <1>1 DEF ClientStarts, PlaceInv, Ranges
  <2> QED BY <2>2, <2>3, ServedFinite, ServedFiniteNext, ParamAssumption
       DEF PlaceInv, Ranges, Counted
<1>2. CASE ClientReleases(c) /\ crelay[c] = o
  <2>1. Served(o)' = Served(o) \ {c} /\ c \in Served(o)
    BY <1>2 DEF ClientReleases, Served, PlaceInv, Ranges
  <2>2. Cardinality(Served(o)') = Cardinality(Served(o)) - 1
    BY <2>1, ServedFinite, FS_RemoveElement
  <2>3. active'[o] = active[o] - 1 /\ active[o] >= 1
    BY <1>2, ServedCounts DEF ClientReleases, PlaceInv, Ranges
  <2> QED BY <2>2, <2>3, ServedFinite, ServedFiniteNext, ParamAssumption
       DEF PlaceInv, Ranges, Counted
<1>3. CASE ~(ClientStarts(c) /\ crelay[c] = o) /\ ~(ClientReleases(c) /\ crelay[c] = o)
  <2>1. active'[o] = active[o]
    BY <1>3 DEF Client, ClientAccepted, ClientStarts, ClientRefused, ClientConnected, ClientEnds,
       ClientReleases, ClientCancelled, PlaceInv, Ranges
  <2>2. Served(o)' \subseteq Served(o)
    <3>1. c \in Served(o)' => c \in Served(o)
      BY <1>3 DEF Served, PlaceInv, Ranges, Begun, Client, ClientAccepted, ClientStarts, ClientRefused, ClientConnected,
         ClientEnds, ClientReleases, ClientCancelled
    <3> QED BY <3>1, ClientMoves DEF Served
  <2>3. Cardinality(Served(o)') <= Cardinality(Served(o))
    BY <2>2, ServedFinite, FS_Subset
  <2> QED BY <2>1, <2>3, ServedFinite, ServedFiniteNext DEF PlaceInv, Ranges, Counted
<1> QED BY <1>1, <1>2, <1>3

LEMMA ClientPlace == ASSUME PlaceInv, NEW c \in Clients, Client(c) PROVE PlaceInv'
<1>1. Placed' /\ Begun' /\ Creating'
  BY ClientMoves DEF PlaceInv, Placed, Begun, Creating, reqVars, relayVars
<1>2. Counted'
  BY ClientMoves, ClientCounts DEF PlaceInv, Counted
<1>3. active' \in [Opens -> Nat]
  <2>1. active' = active \/ \E n : active' = [active EXCEPT ![crelay[c]] = n]
    BY DEF Client, ClientAccepted, ClientStarts, ClientRefused, ClientConnected, ClientEnds,
       ClientReleases, ClientCancelled
  <2>2. \A o \in Opens : active'[o] \in Nat
    BY ClientCounts
  <2> QED BY <2>1, <2>2 DEF PlaceInv, Ranges
<1>4. Ranges'
  BY <1>3, ClientMoves DEF PlaceInv, Ranges, reqVars, relayVars
<1> QED BY <1>1, <1>2, <1>4 DEF PlaceInv

LEMMA NextPlace == PlaceInv /\ [Next]_vars => PlaceInv'
<1> SUFFICES ASSUME PlaceInv, [Next]_vars PROVE PlaceInv'
  OBVIOUS
<1>1. ASSUME NEW c \in Clients, Client(c) PROVE PlaceInv'
  BY <1>1, ClientPlace
<1>2. ASSUME NEW o \in Opens, Open(o) PROVE PlaceInv'
  <2>1. UNCHANGED <<cpc, crelay, active>>
    BY <1>2 DEF Open, OpenStart, OpenLocked, OpenCloses, CreateBegins, CreateFails, CreateReturns,
       CreateAborts, OpenRechecks, OpenUndoes, clientVars
  <2> QED BY <1>2, <2>1, OpenPlace, SameClients DEF PlaceInv
<1>3. ASSUME \/ \E d \in Devices : Revocation(d)
             \/ \E o \in Opens : Relay(o)
      PROVE  PlaceInv'
  <2>1. UNCHANGED <<cpc, crelay, active>>
    BY <1>3 DEF Revocation, Relay, Revoke, RevokeLocked, RevokeCloses, RevokeReturns, Shutdown,
       ExpiryDue, Expire, clientVars
  <2> QED BY <1>3, <2>1, RelayPlace, SameClients DEF PlaceInv
<1>4. CASE UNCHANGED vars
  <2>1. UNCHANGED <<cpc, crelay, active>> /\ Ranges' /\ Placed' /\ Begun' /\ Creating'
    BY <1>4 DEF PlaceInv, Ranges, Placed, Begun, Creating, vars, reqVars, relayVars, clientVars
  <2> QED BY <2>1, SameClients DEF PlaceInv
<1> QED BY <1>1, <1>2, <1>3, <1>4 DEF Next

LEMMA Places == Spec => []PlaceInv
  BY InitPlace, NextPlace, PTL DEF Spec

\* Every variable stays in its range, no registered relay is closing, and no
\* relay serves more connections than PUBLIC_L4_RELAY_MAX_CONNECTIONS.
THEOREM TypeCorrect == Spec => []TypeOK
<1>1. PlaceInv => TypeOK
  <2> SUFFICES ASSUME PlaceInv PROVE TypeOK
    OBVIOUS
  <2>1. Registered \cap closing = {}
    BY ParamAssumption DEF PlaceInv, Placed, Registered
  <2>2. \A o \in Opens : Cardinality(Served(o)) <= MaxConnections
    BY ServedFinite, ParamAssumption DEF PlaceInv, Counted, Ranges
  <2> QED BY <2>1, <2>2 DEF TypeOK, PlaceInv
<1> QED BY <1>1, Places, PTL

(***************************************************************************)
(* One relay per device.                                                   *)
(***************************************************************************)
\* _relay_device_locks[d] is held by a request from _replace_device_relay to its
\* end, or by the revocation while it closes the relay.
Locked ==
    /\ \A o \in Opens : opc[o] \in {"closing", "shutting", "creating"} <=> devLock[OpenDevice[o]] = o
    /\ \A d \in Devices : rpc[d] \in {"closing", "shutting"} <=> devLock[d] = d

\* A request that has closed the device's relay finds none until it creates one.
Cleared ==
    \A o, q \in Opens : opc[o] = "shutting" /\ OpenDevice[q] = OpenDevice[o] => q \notin Registered

\* Two registered relays are relays of two devices.
Apart == \A o, q \in Registered : OpenDevice[o] = OpenDevice[q] => o = q

OneInv == PlaceInv /\ Locked /\ Cleared /\ Apart

LEMMA InitOne == Init => OneInv
  BY InitPlace, ParamAssumption DEF OneInv, Locked, Cleared, Apart, Registered, Init

\* A step that keeps or detaches relays.
LEMMA Detached ==
    ASSUME OneInv, relays' \in [Ports -> Opens \cup {None}],
           \A p \in Ports : relays'[p] \in {relays[p], None},
           \A o \in Opens : opc'[o] = "shutting" => \/ opc[o] = "shutting"
                                                    \/ RelaysOf(OpenDevice[o])' = {}
    PROVE  Cleared' /\ Apart'
<1>1. Registered' \subseteq Registered
  BY ParamAssumption DEF Registered
<1>2. Apart'
  BY <1>1 DEF OneInv, Apart
<1>3. Cleared'
  BY <1>1 DEF OneInv, Cleared, RelaysOf, Registered
<1> QED BY <1>2, <1>3

LEMMA OpenOne == ASSUME OneInv, NEW o \in Opens, Open(o) PROVE Locked' /\ Cleared' /\ Apart'
<1> USE ParamAssumption DEF OneInv, PlaceInv, Ranges, Locked, reqVars, relayVars, clientVars
<1>1. CASE OpenStart(o) \/ OpenLocked(o)
  <2>1. Locked' /\ relays' = relays /\ \A q \in Opens : opc'[q] = "shutting" => opc[q] = "shutting"
    BY <1>1 DEF OpenStart, OpenLocked
  <2> QED BY <2>1, Detached
<1>2. CASE OpenCloses(o)
  <2>1. Locked' /\ \A q \in Opens \ {o} : opc'[q] = opc[q]
    BY <1>2 DEF OpenCloses
  <2>2. \A p \in Ports : relays'[p] \in {relays[p], None}
    BY <1>2 DEF OpenCloses, Detach
  <2>3. relays' \in [Ports -> Opens \cup {None}]
    BY <1>2 DEF OpenCloses, Detach
  <2>4. RelaysOf(OpenDevice[o])' = {}
    BY <1>2 DEF OpenCloses, Detach, RelaysOf, Registered
  <2> QED BY <2>1, <2>2, <2>3, <2>4, Detached
<1>3. ASSUME NEW p \in Ports, CreateBegins(o, p) PROVE Locked' /\ Cleared' /\ Apart'
  <2>1. /\ Locked' /\ opc[o] = "shutting"
        /\ opc' = [opc EXCEPT ![o] = "creating"]
    BY <1>3 DEF CreateBegins
  <2>2. Registered' \subseteq Registered \cup {o}
    BY <1>3 DEF CreateBegins, Registered
  <2>3. \A q \in Registered : OpenDevice[q] # OpenDevice[o]
    BY <2>1 DEF Cleared, Registered
  <2>4. Apart'
    BY <2>2, <2>3 DEF Apart
  <2>5. \A q \in Opens : q # o /\ opc[q] = "shutting" => OpenDevice[q] # OpenDevice[o]
    BY <2>1
  <2>6. Cleared'
    BY <2>1, <2>2, <2>5 DEF Cleared
  <2> QED BY <2>1, <2>4, <2>6
<1>4. CASE CreateFails(o) \/ CreateReturns(o)
  <2>1. Locked' /\ relays' = relays /\ \A q \in Opens : opc'[q] = "shutting" => opc[q] = "shutting"
    BY <1>4 DEF CreateFails, CreateReturns
  <2> QED BY <2>1, Detached
<1>5. CASE CreateAborts(o)
  <2>1. /\ Locked' /\ \A q \in Opens : opc'[q] = "shutting" => opc[q] = "shutting"
        /\ \A p \in Ports : relays'[p] \in {relays[p], None}
    BY <1>5 DEF CreateAborts
  <2>2. relays' \in [Ports -> Opens \cup {None}]
    BY <1>5 DEF CreateAborts
  <2> QED BY <2>1, <2>2, Detached
<1>6. CASE OpenRechecks(o)
  <2>1. Locked' /\ relays' = relays /\ \A q \in Opens : opc'[q] = "shutting" => opc[q] = "shutting"
    BY <1>6 DEF OpenRechecks
  <2> QED BY <2>1, Detached
<1>7. CASE OpenUndoes(o)
  <2>1. /\ Locked' /\ \A q \in Opens : opc'[q] = "shutting" => opc[q] = "shutting"
        /\ \A p \in Ports : relays'[p] \in {relays[p], None}
    BY <1>7 DEF OpenUndoes, Detach
  <2>2. relays' \in [Ports -> Opens \cup {None}]
    BY <1>7 DEF OpenUndoes, Detach
  <2> QED BY <2>1, <2>2, Detached
<1> QED BY <1>1, <1>2, <1>3, <1>4, <1>5, <1>6, <1>7 DEF Open

LEMMA NextOne == OneInv /\ [Next]_vars => OneInv'
<1> SUFFICES ASSUME OneInv, [Next]_vars PROVE Locked' /\ Cleared' /\ Apart'
  BY NextPlace DEF OneInv
<1>1. ASSUME NEW o \in Opens, Open(o) PROVE Locked' /\ Cleared' /\ Apart'
  BY <1>1, OpenOne
<1> USE ParamAssumption DEF OneInv, PlaceInv, Ranges, Locked, reqVars, relayVars, clientVars
<1>2. ASSUME NEW d \in Devices, Revocation(d) PROVE Locked' /\ Cleared' /\ Apart'
  <2>1. Locked' /\ opc' = opc
    BY <1>2 DEF Revocation, Revoke, RevokeLocked, RevokeCloses, RevokeReturns
  <2>2. \A p \in Ports : relays'[p] \in {relays[p], None}
    BY <1>2 DEF Revocation, Revoke, RevokeLocked, RevokeCloses, RevokeReturns, Detach
  <2>3. relays' \in [Ports -> Opens \cup {None}]
    BY <1>2 DEF Revocation, Revoke, RevokeLocked, RevokeCloses, RevokeReturns, Detach
  <2> QED BY <2>1, <2>2, <2>3, Detached
<1>3. ASSUME NEW o \in Opens, Relay(o) PROVE Locked' /\ Cleared' /\ Apart'
  <2>1. Locked' /\ opc' = opc
    BY <1>3 DEF Relay, Shutdown, ExpiryDue, Expire
  <2>2. \A p \in Ports : relays'[p] \in {relays[p], None}
    BY <1>3 DEF Relay, Shutdown, ExpiryDue, Expire, Detach
  <2>3. relays' \in [Ports -> Opens \cup {None}]
    BY <1>3 DEF Relay, Shutdown, ExpiryDue, Expire, Detach
  <2> QED BY <2>1, <2>2, <2>3, Detached
<1>4. CASE UNCHANGED <<reqVars, relayVars>>
  <2>1. Locked' /\ relays' = relays /\ opc' = opc
    BY <1>4
  <2> QED BY <2>1, Detached
<1>5. ASSUME NEW c \in Clients, Client(c) PROVE UNCHANGED <<reqVars, relayVars>>
  BY <1>5, ClientMoves
<1> QED BY <1>1, <1>2, <1>3, <1>4, <1>5 DEF Next, vars

\* A device has one relay at a time: _replace_device_relay closes the old one
\* before it creates the new one, and nobody opens another in between.
THEOREM OneRelay == Spec => []OneRelayPerDevice
<1>1. OneInv => OneRelayPerDevice
  <2> SUFFICES ASSUME OneInv, NEW d \in Devices PROVE Cardinality(RelaysOf(d)) <= 1
    BY DEF OneRelayPerDevice
  <2>1. RelaysOf(d) = {} \/ \E o : RelaysOf(d) = {o}
    BY DEF OneInv, Apart, RelaysOf
  <2>2. CASE RelaysOf(d) = {}
    <3>1. Cardinality(RelaysOf(d)) = 0
      BY <2>2, FS_EmptySet
    <3> QED BY <3>1
  <2>3. ASSUME NEW o, RelaysOf(d) = {o} PROVE Cardinality(RelaysOf(d)) <= 1
    <3>1. Cardinality(RelaysOf(d)) = 1
      BY <2>3, FS_Singleton
    <3> QED BY <3>1
  <2> QED BY <2>1, <2>2, <2>3
<1> QED BY <1>1, InitOne, NextOne, PTL DEF Spec

(***************************************************************************)
(* After a revocation.                                                     *)
(***************************************************************************)
\* The handler runs after its commit; once it has closed the device's relay, no
\* request reports another one as open.
Withdrawn ==
    /\ \A d \in Devices : rpc[d] # "idle" => d \in revoked
    /\ \A o \in Registered : rpc[OpenDevice[o]] \in {"shutting", "done"} => opc[o] # "ok"

RevokedInv == PlaceInv /\ Withdrawn

LEMMA InitRevoked == Init => RevokedInv
  BY InitPlace DEF RevokedInv, Withdrawn, Registered, Init

LEMMA NextRevoked == RevokedInv /\ [Next]_vars => RevokedInv'
<1> SUFFICES ASSUME RevokedInv, [Next]_vars PROVE Withdrawn'
  BY NextPlace DEF RevokedInv
<1> USE ParamAssumption DEF RevokedInv, PlaceInv, Ranges, Withdrawn, Registered, reqVars, relayVars, clientVars
<1>1. ASSUME NEW o \in Opens, OpenStart(o) \/ OpenLocked(o) \/ CreateFails(o) \/ CreateReturns(o)
      PROVE  Withdrawn'
  BY <1>1 DEF OpenStart, OpenLocked, CreateFails, CreateReturns
<1>2. ASSUME NEW o \in Opens, OpenCloses(o) PROVE Withdrawn'
  BY <1>2 DEF OpenCloses, Detach
<1>3. ASSUME NEW o \in Opens, NEW p \in Ports, CreateBegins(o, p) PROVE Withdrawn'
  BY <1>3 DEF CreateBegins
<1>4. ASSUME NEW o \in Opens, CreateAborts(o) PROVE Withdrawn'
  BY <1>4 DEF CreateAborts
<1>5. ASSUME NEW o \in Opens, OpenRechecks(o) PROVE Withdrawn'
  BY <1>5 DEF OpenRechecks
<1>6. ASSUME NEW o \in Opens, OpenUndoes(o) PROVE Withdrawn'
  BY <1>6 DEF OpenUndoes, Detach
<1>7. ASSUME NEW d \in Devices, Revoke(d) \/ RevokeLocked(d) \/ RevokeReturns(d) PROVE Withdrawn'
  BY <1>7 DEF Revoke, RevokeLocked, RevokeReturns
<1>8. ASSUME NEW d \in Devices, RevokeCloses(d) PROVE Withdrawn'
  BY <1>8 DEF RevokeCloses, Detach, RelaysOf
<1>9. ASSUME NEW o \in Opens, Shutdown(o) \/ ExpiryDue(o) PROVE Withdrawn'
  BY <1>9 DEF Shutdown, ExpiryDue
<1>10. ASSUME NEW o \in Opens, Expire(o) PROVE Withdrawn'
  BY <1>10 DEF Expire, Detach
<1>11. CASE UNCHANGED <<reqVars, relayVars>>
  BY <1>11
<1>12. ASSUME NEW c \in Clients, Client(c) PROVE UNCHANGED <<reqVars, relayVars>>
  BY <1>12, ClientMoves
<1> QED BY <1>1, <1>2, <1>3, <1>4, <1>5, <1>6, <1>7, <1>8, <1>9, <1>10, <1>11, <1>12
        DEF Next, Open, Revocation, Relay, vars

\* After a revocation has closed the device's relay, a relay of that device is
\* one whose request has still to look the device up again, or to undo it.
THEOREM RevokedRelayIsUndone == Spec => []RevokedHasNoRelay
<1>1. RevokedInv => RevokedHasNoRelay
  BY ParamAssumption DEF RevokedInv, Withdrawn, PlaceInv, Placed, Ranges, RevokedHasNoRelay, RelaysOf, Registered
<1> QED BY <1>1, InitRevoked, NextRevoked, PTL DEF Spec

(***************************************************************************)
(* Closed relays.                                                          *)
(***************************************************************************)
SilentInv == PlaceInv /\ ClosedRelayIsSilent

LEMMA InitSilent == Init => SilentInv
  BY InitPlace DEF SilentInv, ClosedRelayIsSilent, Init

LEMMA NextSilent == SilentInv /\ [Next]_vars => SilentInv'
<1> SUFFICES ASSUME SilentInv, [Next]_vars PROVE ClosedRelayIsSilent'
  BY NextPlace DEF SilentInv
<1> USE ParamAssumption DEF SilentInv, PlaceInv, Ranges, ClosedRelayIsSilent, reqVars, relayVars, clientVars
<1>1. CASE /\ UNCHANGED clientVars
           /\ closing \subseteq closing' /\ unshut \subseteq unshut'
           /\ closing' \ closing \subseteq unshut'
  BY <1>1
<1>2. ASSUME NEW o \in Opens, Open(o)
      PROVE  /\ UNCHANGED clientVars
             /\ closing \subseteq closing' /\ unshut \subseteq unshut'
             /\ closing' \ closing \subseteq unshut'
  BY <1>2 DEF Open, OpenStart, OpenLocked, OpenCloses, CreateBegins, CreateFails, CreateReturns,
     CreateAborts, OpenRechecks, OpenUndoes, Detach
<1>3. ASSUME NEW d \in Devices, Revocation(d)
      PROVE  /\ UNCHANGED clientVars
             /\ closing \subseteq closing' /\ unshut \subseteq unshut'
             /\ closing' \ closing \subseteq unshut'
  BY <1>3 DEF Revocation, Revoke, RevokeLocked, RevokeCloses, RevokeReturns, Detach
<1>4. ASSUME NEW o \in Opens, ExpiryDue(o) \/ Expire(o)
      PROVE  /\ UNCHANGED clientVars
             /\ closing \subseteq closing' /\ unshut \subseteq unshut'
             /\ closing' \ closing \subseteq unshut'
  BY <1>4 DEF ExpiryDue, Expire, Detach
<1>5. ASSUME NEW o \in Opens, Shutdown(o) PROVE ClosedRelayIsSilent'
  BY <1>5 DEF Shutdown, Tasks
<1>6. ASSUME NEW c \in Clients, Client(c) PROVE ClosedRelayIsSilent'
  <2>1. CASE ClientStarts(c)
    BY <2>1 DEF ClientStarts
  <2>2. CASE ClientConnected(c)
    BY <2>2 DEF ClientConnected
  <2>3. CASE ClientCancelled(c)
    BY <2>3 DEF ClientCancelled
  <2>4. CASE ClientRefused(c) \/ ClientEnds(c) \/ ClientReleases(c)
    BY <2>4 DEF ClientRefused, ClientEnds, ClientReleases
  <2>5. ASSUME NEW o \in Opens, ClientAccepted(c, o) PROVE ClosedRelayIsSilent'
    BY <2>5 DEF ClientAccepted
  <2> QED BY <1>6, <2>1, <2>2, <2>3, <2>4, <2>5 DEF Client
<1>7. CASE UNCHANGED vars
  BY <1>1, <1>7 DEF vars
<1> QED BY <1>1, <1>2, <1>3, <1>4, <1>5, <1>6, <1>7 DEF Next, Relay

\* A relay that was shut down connects nowhere and forwards nothing: whatever
\* stage a connection was in, it was cancelled or sees state.closing.
THEOREM ClosedIsSilent == Spec => []ClosedRelayIsSilent
<1>1. SilentInv => ClosedRelayIsSilent
  BY DEF SilentInv
<1> QED BY <1>1, InitSilent, NextSilent, PTL DEF Spec
=============================================================================
