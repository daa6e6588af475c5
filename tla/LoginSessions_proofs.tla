------------------------- MODULE LoginSessions_proofs -------------------------
(***************************************************************************)
(* Proofs about LoginSessions: for any number of requests, pending logins, *)
(* sessions and secrets and any limit of attempts, a pending login is used *)
(* once and after a bounded number of wrong codes, a sign-in through a     *)
(* provider is of that provider's account, and MFA is enabled only with a  *)
(* proven secret.                                                          *)
(***************************************************************************)
EXTENDS LoginSessions, TLAPS

(***************************************************************************)
(* Records.                                                                *)
(***************************************************************************)
LEMMA NoUserFields ==
    /\ NoUser \in Users
    /\ NoUser.uid = 0 /\ NoUser.provider = None /\ ~NoUser.mfa /\ NoUser.secret = None
  BY ParamAssumption DEF NoUser, Users

LEMMA IdleFields ==
    /\ Idle \in Requests
    /\ Idle.at = "idle" /\ Idle.row = NoUser /\ Idle.arg = None /\ Idle.failed = 0
  BY NoUserFields, ParamAssumption DEF Idle, Requests, Steps

\* A request that goes to a step with what it read.
LEMMA Went ==
    ASSUME req \in [Reqs -> Requests], NEW r \in Reqs, NEW at \in Steps, NEW row \in Users,
           NEW arg \in Pendings \cup Providers \cup Secrets \cup {None}, GoTo(r, at, row, arg)
    PROVE  /\ req' \in [Reqs -> Requests]
           /\ req'[r].at = at /\ req'[r].row = row /\ req'[r].arg = arg /\ req'[r].failed = 0
           /\ \A q \in Reqs \ {r} : req'[q] = req[q]
<1> DEFINE new == [Idle EXCEPT !.at = at, !.row = row, !.arg = arg]
<1>1. new \in Requests /\ new.at = at /\ new.row = row /\ new.arg = arg /\ new.failed = 0
  BY IdleFields DEF Requests
<1>2. req' = [req EXCEPT ![r] = new]
  BY DEF GoTo
<1> HIDE DEF new
<1> QED BY <1>1, <1>2

\* A request that has ended.
LEMMA Finished ==
    ASSUME req \in [Reqs -> Requests], NEW r \in Reqs, Finish(r)
    PROVE  /\ req' \in [Reqs -> Requests]
           /\ req'[r] = Idle /\ req'[r].at = "idle" /\ req'[r].row = NoUser
           /\ \A q \in Reqs \ {r} : req'[q] = req[q]
  BY IdleFields DEF Finish

\* The start of a request at its second step.
LEMMA Presented ==
    ASSUME Ranges, NEW r \in Reqs, NEW p \in Pendings, MfaRead(r, p)
    PROVE  /\ req' \in [Reqs -> Requests]
           /\ req'[r].at = "mfaUser" /\ req'[r].row = NoUser /\ req'[r].arg = p
           /\ req'[r].failed = pend[p].failed
           /\ \A q \in Reqs \ {r} : req'[q] = req[q]
<1> DEFINE new == [Idle EXCEPT !.at = "mfaUser", !.arg = p, !.failed = pend[p].failed]
<1>1. pend[p].failed \in 0..MfaAttempts
  BY DEF Ranges
<1>2. new \in Requests /\ new.at = "mfaUser" /\ new.row = NoUser /\ new.arg = p /\ new.failed = pend[p].failed
  BY <1>1, IdleFields DEF Requests, Steps
<1>3. req' = [req EXCEPT ![r] = new]
  BY DEF MfaRead
<1> HIDE DEF new
<1> QED BY <1>2, <1>3 DEF Ranges

(***************************************************************************)
(* What the steps of a request have in common.                             *)
(***************************************************************************)
\* A request begins with what it read of the users row, or with a pending login
\* it has locked; nothing is written.
LEMMA Arrives ==
    ASSUME Ranges, NEW r \in Reqs, Arrive(r)
    PROVE  /\ UNCHANGED <<user, lastUid, pend, sess, wrong, used, confirmed, stale>>
           /\ req[r].at = "idle"
           /\ req' \in [Reqs -> Requests] /\ \A q \in Reqs \ {r} : req'[q] = req[q]
           /\ \/ \E p \in Pendings :
                    /\ pend[p].is = "open" /\ lock[p] = None
                    /\ lock' = [lock EXCEPT ![p] = r] /\ rowLock' = rowLock
                    /\ req'[r].at = "mfaUser" /\ req'[r].row = NoUser /\ req'[r].arg = p
                    /\ req'[r].failed = pend[p].failed
              \/ /\ lock' = lock /\ req'[r].row = user /\ req'[r].failed = 0
                 /\ \/ /\ req'[r].at = "login" /\ user.uid # 0 /\ user.provider = None
                       /\ rowLock' = rowLock
                    \/ /\ req'[r].at = "external" /\ req'[r].arg \in Providers
                       /\ rowLock' = rowLock
                    \/ /\ req'[r].at \in {"enable", "apply"} /\ req'[r].arg \in Secrets
                       /\ rowLock' = rowLock
                    \/ /\ req'[r].at \in {"disable", "adminDisable"} /\ req'[r].arg = None
                       /\ rowLock' = rowLock
                    \/ /\ req'[r].at = "delete" /\ user.uid # 0
                       /\ rowLock = None /\ rowLock' = r
<1> USE DEF Ranges, history
<1>1. ASSUME NEW p \in Pendings, MfaRead(r, p)
      PROVE  /\ UNCHANGED <<user, lastUid, pend, sess, wrong, used, confirmed, stale>>
             /\ req[r].at = "idle"
             /\ pend[p].is = "open" /\ lock[p] = None
             /\ lock' = [lock EXCEPT ![p] = r] /\ rowLock' = rowLock
  BY <1>1 DEF MfaRead
<1>2. ASSUME NEW at \in Steps, NEW arg \in Providers \cup Secrets \cup {None}, GoTo(r, at, user, arg)
      PROVE  /\ req' \in [Reqs -> Requests]
             /\ req'[r].at = at /\ req'[r].row = user /\ req'[r].arg = arg /\ req'[r].failed = 0
             /\ \A q \in Reqs \ {r} : req'[q] = req[q]
  BY <1>2, Went
<1>3. ASSUME ~\E p \in Pendings : MfaRead(r, p)
      PROVE  /\ UNCHANGED <<user, lastUid, pend, lock, sess, wrong, used, confirmed, stale>>
             /\ req[r].at = "idle"
             /\ \/ /\ GoTo(r, "login", user, None) /\ user.uid # 0 /\ user.provider = None
                   /\ rowLock' = rowLock
                \/ \E provider \in Providers : GoTo(r, "external", user, provider) /\ rowLock' = rowLock
                \/ \E x \in Secrets, at \in {"enable", "apply"} :
                      GoTo(r, at, user, x) /\ rowLock' = rowLock
                \/ \E at \in {"disable", "adminDisable"} :
                      GoTo(r, at, user, None) /\ rowLock' = rowLock
                \/ /\ GoTo(r, "delete", user, None) /\ user.uid # 0
                   /\ rowLock = None /\ rowLock' = r
  BY <1>3 DEF Arrive, LoginRead, MicrosoftCallback, MicrosoftLogin, LocalAdLogin, ExternalRead, Providers,
     EnableMfa, DisableMfa, AdminApplyMfa, AdminDisableMfa, DeleteUser, RowFree
<1>4. CASE \E p \in Pendings : MfaRead(r, p)
  BY <1>1, <1>4, Presented
<1>5. CASE ~\E p \in Pendings : MfaRead(r, p)
  BY <1>2, <1>3, <1>5 DEF Steps
<1> QED BY <1>4, <1>5

\* All its steps but the first two end a request.
LEMMA Ends == ASSUME NEW r \in Reqs, Serve(r), ~MfaUser(r) PROVE Finish(r)
  BY DEF Serve, LoginSession, LoginPending, LoginRefused, MfaUserRefused, MfaLimited, MfaWrong, MfaRight,
     ExternalKnown, ExternalNew, ExternalRefused, ChangeMfa, ChangeMfaFails, DeleteCommit

(***************************************************************************)
(* Locks and counted codes.  A request is at the second step exactly while *)
(* it holds a pending row, the row it was given; and what it read of that  *)
(* row stays true while it holds it, because every writer of the counter   *)
(* needs the lock and expiry and deletion leave the counter alone.         *)
(***************************************************************************)
SecondStep == {"mfaUser", "mfaCode"}

\* The holder of a lock is at a step that needs it, and the other way round.
Locks ==
    /\ \A r \in Reqs : req[r].at \in SecondStep => req[r].arg \in Pendings /\ lock[req[r].arg] = r
    /\ \A p \in Pendings : lock[p] # None => req[lock[p]].at \in SecondStep /\ req[lock[p]].arg = p
    /\ \A r \in Reqs : req[r].at = "delete" <=> rowLock = r

\* What a request carries.
Args ==
    \A r \in Reqs :
        /\ req[r].at \in {"enable", "apply"} => req[r].arg \in Secrets
        /\ req[r].at \in {"disable", "adminDisable"} => req[r].arg = None
        /\ req[r].at = "external" => req[r].arg \in Providers

\* The holder knows how many codes were refused.
Held ==
    \A p \in Pendings : lock[p] # None =>
        pend[p].is \in {"open", "expired"} /\ req[lock[p]].failed = pend[p].failed

\* The counter of a pending login that can still be used is below the limit.
Codes ==
    \A p \in Pendings :
        /\ pend[p].is = "free" => wrong[p] = 0 /\ used[p] = 0
        /\ pend[p].is \in {"open", "expired"} =>
              used[p] = 0 /\ wrong[p] = pend[p].failed /\ pend[p].failed < MfaAttempts
        /\ used[p] <= 1
        /\ wrong[p] <= MfaAttempts
        /\ wrong[p] = MfaAttempts => used[p] = 0

LoginInv == Ranges /\ Locks /\ Args /\ Held /\ Codes

(***************************************************************************)
(* Identities.  A uid is never given twice, so what was read of an account *)
(* is true of that account as long as it exists.                           *)
(***************************************************************************)
\* The account that is being deleted is there.
Account == user.uid <= lastUid /\ (rowLock # None => user.uid # 0)

\* Sessions, requests and pending logins know no account that is yet to come,
\* and agree with the row on its provider.
SessionLinks ==
    \A s \in Sessions : sess[s] # NoSession =>
        /\ sess[s].uid # 0 /\ sess[s].uid <= lastUid
        /\ sess[s].uid = user.uid =>
              \/ sess[s].via = user.provider
              \/ sess[s].via \notin Providers /\ user.provider = None

RequestLinks ==
    \A r \in Reqs :
        /\ req[r].row.uid <= lastUid
        /\ req[r].row.uid # 0 /\ req[r].row.uid = user.uid => req[r].row.provider = user.provider
        /\ req[r].at = "login" => req[r].row.uid # 0 /\ req[r].row.provider = None

PendingLinks ==
    \A p \in Pendings : pend[p].is # "free" =>
        /\ pend[p].uid # 0 /\ pend[p].uid <= lastUid
        /\ pend[p].uid = user.uid => user.provider = None

Links == Account /\ SessionLinks /\ RequestLinks /\ PendingLinks

LinkInv == LoginInv /\ Links

UsableInv == LoginInv /\ MfaUsable

\* A pending login whose status changes.
LEMMA Marked ==
    ASSUME Ranges, NEW p \in Pendings, NEW is \in {"free", "open", "expired", "consumed", "gone"},
           pend' = [pend EXCEPT ![p].is = is]
    PROVE  /\ pend' \in [Pendings -> [is : {"free", "open", "expired", "consumed", "gone"},
                                      uid : 0..MaxUid, failed : 0..MfaAttempts]]
           /\ \A q \in Pendings \ {p} : pend'[q] = pend[q]
           /\ pend'[p].is = is /\ pend'[p].uid = pend[p].uid /\ pend'[p].failed = pend[p].failed
<1> DEFINE Rows == [is : {"free", "open", "expired", "consumed", "gone"},
                    uid : 0..MaxUid, failed : 0..MfaAttempts]
           new == [pend[p] EXCEPT !.is = is]
<1>1. pend \in [Pendings -> Rows]
  BY DEF Ranges
<1>2. new \in Rows /\ new.is = is /\ new.uid = pend[p].uid /\ new.failed = pend[p].failed
  BY <1>1
<1>3. pend' = [pend EXCEPT ![p] = new]
  OBVIOUS
<1> HIDE DEF Rows, new
<1>4. pend' \in [Pendings -> Rows] /\ pend'[p] = new /\ \A q \in Pendings \ {p} : pend'[q] = pend[q]
  BY <1>1, <1>2, <1>3
<1> QED BY <1>2, <1>4 DEF Rows

(***************************************************************************)
(* The steps keep the locks.                                               *)
(***************************************************************************)
\* A new session.
LEMMA Created ==
    ASSUME Ranges, NEW uid \in 0..MaxUid, NEW via \in Pendings \cup Providers \cup {"password", None},
           CreateSession(uid, via)
    PROVE  /\ sess' \in [Sessions -> [uid : 0..MaxUid, via : Pendings \cup Providers \cup {"password", None}]]
           /\ \A s \in Sessions : sess'[s] = sess[s] \/ sess'[s] = [uid |-> uid, via |-> via]
  BY DEF Ranges, CreateSession

\* A new account gets a uid nobody has seen.
LEMMA Inserted ==
    ASSUME Ranges, NEW provider \in Providers \cup {None}, InsertUser(provider)
    PROVE  /\ user.uid = 0 /\ rowLock = None
           /\ lastUid' = lastUid + 1 /\ lastUid' \in 1..MaxUid
           /\ user' \in Users
           /\ user'.uid = lastUid' /\ user'.provider = provider /\ ~user'.mfa
<1>1. /\ user.uid = 0 /\ rowLock = None
      /\ lastUid' = lastUid + 1 /\ lastUid' \in 1..MaxUid /\ lastUid' \in 0..MaxUid
  BY ParamAssumption DEF InsertUser, RowFree, Ranges
<1>2. user' = [NoUser EXCEPT !.uid = lastUid', !.provider = provider]
  BY <1>1 DEF InsertUser
<1>3. \A uid \in 0..MaxUid, row \in Users :
         LET new == [row EXCEPT !.uid = uid, !.provider = provider]
         IN  /\ new \in Users
             /\ new.uid = uid /\ new.provider = provider /\ new.mfa = row.mfa
  BY DEF Users
<1> QED BY <1>1, <1>2, <1>3, NoUserFields

\* A request gives back what it holds when it ends.
LEMMA EndLocks ==
    ASSUME Ranges, Locks, Args, NEW r \in Reqs, Finish(r),
           Release(r) \/ (lock' = lock /\ req[r].at \notin SecondStep),
           rowLock' = (IF rowLock = r THEN None ELSE rowLock)
    PROVE  /\ Locks' /\ Args'
           /\ lock' \in [Pendings -> Reqs \cup {None}] /\ rowLock' \in Reqs \cup {None}
           /\ \A p \in Pendings : lock'[p] = (IF lock[p] = r THEN None ELSE lock[p])
<1>1. \A p \in Pendings : lock'[p] = (IF lock[p] = r THEN None ELSE lock[p])
  <2>1. CASE Release(r)
    BY <2>1 DEF Release
  <2>2. CASE lock' = lock /\ req[r].at \notin SecondStep
    BY <2>2, ParamAssumption DEF Locks
  <2> QED BY <2>1, <2>2
<1>2. lock' \in [Pendings -> Reqs \cup {None}]
  BY DEF Release, Ranges
<1>3. /\ req' \in [Reqs -> Requests] /\ req'[r].at = "idle"
      /\ \A q \in Reqs \ {r} : req'[q] = req[q]
  BY Finished DEF Ranges
<1>4. Args'
  BY <1>3 DEF Args
<1>5. rowLock' \in Reqs \cup {None} /\ \A q \in Reqs : req'[q].at = "delete" <=> rowLock' = q
  BY <1>3, ParamAssumption DEF Ranges, Locks
<1>6. \A q \in Reqs : req'[q].at \in SecondStep => req'[q].arg \in Pendings /\ lock'[req'[q].arg] = q
  BY <1>1, <1>3 DEF Locks, SecondStep
<1>7. \A p \in Pendings : lock'[p] # None => req'[lock'[p]].at \in SecondStep /\ req'[lock'[p]].arg = p
  BY <1>1, <1>3 DEF Locks, Ranges
<1>8. Locks'
  BY <1>5, <1>6, <1>7 DEF Locks
<1> QED BY <1>1, <1>2, <1>4, <1>5, <1>8

\* What the holder of a lock knows stays true when the rows that are still
\* locked were left alone.
LEMMA EndHeld ==
    ASSUME Ranges, Locks, Args, Held, NEW r \in Reqs, Finish(r),
           Release(r) \/ (lock' = lock /\ req[r].at \notin SecondStep),
           rowLock' = (IF rowLock = r THEN None ELSE rowLock),
           \A p \in Pendings : lock[p] # None /\ lock[p] # r => pend'[p] = pend[p]
    PROVE  Held'
<1>1. \A p \in Pendings : lock'[p] = (IF lock[p] = r THEN None ELSE lock[p])
  BY EndLocks
<1>2. \A q \in Reqs \ {r} : req'[q] = req[q]
  BY Finished DEF Ranges
<1> QED BY <1>1, <1>2 DEF Held, Ranges

\* A step that begins a request keeps the invariant.
LEMMA ArriveStep == ASSUME LoginInv, NEW r \in Reqs, Arrive(r) PROVE LoginInv'
<1> USE DEF LoginInv
<1>1. /\ UNCHANGED <<user, lastUid, pend, sess, wrong, used, confirmed, stale>>
      /\ req[r].at = "idle"
      /\ req' \in [Reqs -> Requests] /\ \A q \in Reqs \ {r} : req'[q] = req[q]
  BY Arrives
<1>2. Codes'
  BY <1>1 DEF Codes
<1>3. \A p \in Pendings : lock[p] # r
  BY <1>1, ParamAssumption DEF Locks, SecondStep, Ranges
<1>4. rowLock # r
  BY <1>1 DEF Locks
<1>5. ASSUME NEW p \in Pendings, pend[p].is = "open", lock[p] = None,
             lock' = [lock EXCEPT ![p] = r], rowLock' = rowLock,
             req'[r].at = "mfaUser", req'[r].arg = p, req'[r].failed = pend[p].failed
      PROVE  LoginInv'
  <2>1. Ranges'
    BY <1>1, <1>5 DEF Ranges
  <2>2. Locks'
    <3>1. \A q \in Reqs : req'[q].at \in SecondStep => req'[q].arg \in Pendings /\ lock'[req'[q].arg] = q
      BY <1>1, <1>5, ParamAssumption DEF Ranges, Locks, SecondStep
    <3>2. \A x \in Pendings : lock'[x] # None => req'[lock'[x]].at \in SecondStep /\ req'[lock'[x]].arg = x
      BY <1>1, <1>3, <1>5 DEF Ranges, Locks, SecondStep
    <3>3. \A q \in Reqs : req'[q].at = "delete" <=> rowLock' = q
      BY <1>1, <1>4, <1>5 DEF Locks
    <3> QED BY <3>1, <3>2, <3>3 DEF Locks
  <2>3. Args'
    BY <1>1, <1>5 DEF Args
  <2>4. Held'
    BY <1>1, <1>3, <1>5 DEF Held, Ranges
  <2> QED BY <1>2, <2>1, <2>2, <2>3, <2>4
<1>6. ASSUME lock' = lock, req'[r].at \notin SecondStep, rowLock' \in Reqs \cup {None},
             \A q \in Reqs : req'[q].at = "delete" <=> rowLock' = q,
             Args'
      PROVE  LoginInv'
  <2>1. Ranges'
    BY <1>1, <1>6 DEF Ranges
  <2>2. Locks'
    <3>1. \A q \in Reqs : req'[q].at \in SecondStep => req'[q].arg \in Pendings /\ lock'[req'[q].arg] = q
      BY <1>1, <1>6 DEF Locks
    <3>2. \A x \in Pendings : lock'[x] # None => req'[lock'[x]].at \in SecondStep /\ req'[lock'[x]].arg = x
      BY <1>1, <1>3, <1>6 DEF Ranges, Locks
    <3> QED BY <1>6, <3>1, <3>2 DEF Locks
  <2>3. Held'
    BY <1>1, <1>3, <1>6 DEF Held, Ranges
  <2> QED BY <1>2, <1>6, <2>1, <2>2, <2>3
<1>7. CASE /\ req'[r].at \in {"login", "external", "enable", "apply", "disable", "adminDisable"}
           /\ rowLock' = rowLock /\ lock' = lock
           /\ req'[r].at = "external" => req'[r].arg \in Providers
           /\ req'[r].at \in {"enable", "apply"} => req'[r].arg \in Secrets
           /\ req'[r].at \in {"disable", "adminDisable"} => req'[r].arg = None
  <2>1. Args'
    BY <1>1, <1>7 DEF Args
  <2>2. \A q \in Reqs : req'[q].at = "delete" <=> rowLock' = q
    BY <1>1, <1>4, <1>7 DEF Locks
  <2>3. req'[r].at \notin SecondStep
    BY <1>7 DEF SecondStep
  <2> QED BY <1>6, <1>7, <2>1, <2>2, <2>3 DEF Ranges
<1>8. CASE req'[r].at = "delete" /\ rowLock = None /\ rowLock' = r /\ lock' = lock
  <2>1. Args'
    BY <1>1, <1>8 DEF Args
  <2>2. \A q \in Reqs : req'[q].at = "delete" <=> rowLock' = q
    BY <1>1, <1>8, ParamAssumption DEF Locks
  <2>3. req'[r].at \notin SecondStep
    BY <1>8 DEF SecondStep
  <2> QED BY <1>6, <1>8, <2>1, <2>2, <2>3
<1>9. \/ \E p \in Pendings :
            /\ pend[p].is = "open" /\ lock[p] = None
            /\ lock' = [lock EXCEPT ![p] = r] /\ rowLock' = rowLock
            /\ req'[r].at = "mfaUser" /\ req'[r].arg = p /\ req'[r].failed = pend[p].failed
      \/ /\ req'[r].at \in {"login", "external", "enable", "apply", "disable", "adminDisable"}
         /\ rowLock' = rowLock /\ lock' = lock
         /\ req'[r].at = "external" => req'[r].arg \in Providers
         /\ req'[r].at \in {"enable", "apply"} => req'[r].arg \in Secrets
         /\ req'[r].at \in {"disable", "adminDisable"} => req'[r].arg = None
      \/ req'[r].at = "delete" /\ rowLock = None /\ rowLock' = r /\ lock' = lock
  BY Arrives
<1> QED BY <1>5, <1>7, <1>8, <1>9

\* The second statement of a request at its second step only reads.
LEMMA UserStep == ASSUME LoginInv, NEW r \in Reqs, MfaUser(r) PROVE LoginInv'
<1> USE DEF LoginInv
<1>1. /\ UNCHANGED <<user, lastUid, rowLock, pend, lock, sess, wrong, used, confirmed, stale>>
      /\ req[r].at = "mfaUser"
      /\ req' \in [Reqs -> Requests] /\ \A q \in Reqs \ {r} : req'[q] = req[q]
      /\ req'[r].at = "mfaCode" /\ req'[r].row = user
      /\ req'[r].arg = req[r].arg /\ req'[r].failed = req[r].failed
  BY DEF MfaUser, history, Ranges, Requests, Steps
<1>2. Ranges'
  BY <1>1 DEF Ranges
<1>3. Locks'
  <2>1. ASSUME NEW q \in Reqs
        PROVE  /\ (req'[q].at \in SecondStep) = (req[q].at \in SecondStep)
               /\ (req'[q].at = "delete") = (req[q].at = "delete")
               /\ req'[q].arg = req[q].arg
    <3>1. CASE q = r
      BY <1>1, <3>1 DEF SecondStep
    <3>2. CASE q # r
      BY <1>1, <3>2
    <3> QED BY <3>1, <3>2
  <2>2. \A p \in Pendings : lock[p] # None => lock[p] \in Reqs
    BY DEF Ranges
  <2>3. \A q \in Reqs : req'[q].at \in SecondStep => req'[q].arg \in Pendings /\ lock'[req'[q].arg] = q
    BY <1>1, <2>1 DEF Locks
  <2>4. \A p \in Pendings : lock'[p] # None => req'[lock'[p]].at \in SecondStep /\ req'[lock'[p]].arg = p
    BY <1>1, <2>1, <2>2 DEF Locks
  <2>5. \A q \in Reqs : req'[q].at = "delete" <=> rowLock' = q
    BY <1>1, <2>1 DEF Locks
  <2> QED BY <2>3, <2>4, <2>5 DEF Locks
<1>4. Args' /\ Codes'
  BY <1>1 DEF Args, Codes
<1>5. Held'
  BY <1>1 DEF Held, Ranges
<1> QED BY <1>2, <1>3, <1>4, <1>5

(***************************************************************************)
(* The requests that end.                                                  *)
(***************************************************************************)
\* They give back what they hold.
LEMMA EndsUnlock ==
    ASSUME LoginInv, NEW r \in Reqs, Serve(r), ~MfaUser(r)
    PROVE  /\ Finish(r)
           /\ Release(r) \/ (lock' = lock /\ req[r].at \notin SecondStep)
           /\ rowLock' = (IF rowLock = r THEN None ELSE rowLock)
<1>1. Finish(r)
  BY Ends
<1>2. req[r].at = "delete" <=> rowLock = r
  BY DEF LoginInv, Locks
<1>3. Release(r) \/ (lock' = lock /\ req[r].at \notin SecondStep)
  BY DEF Serve, LoginSession, LoginPending, LoginRefused, MfaUserRefused, MfaLimited, MfaWrong, MfaRight,
     ExternalKnown, ExternalNew, ExternalRefused, ChangeMfa, ChangeMfaFails, DeleteCommit, SecondStep
<1>4. CASE DeleteCommit(r)
  BY <1>1, <1>2, <1>3, <1>4 DEF DeleteCommit
<1>5. CASE ~DeleteCommit(r)
  <2>1. rowLock' = rowLock /\ req[r].at # "delete"
    BY <1>5 DEF Serve, LoginSession, LoginPending, LoginRefused, MfaUserRefused, MfaLimited, MfaWrong, MfaRight,
       ExternalKnown, ExternalNew, ExternalRefused, ChangeMfa, ChangeMfaFails
  <2> QED BY <1>1, <1>2, <1>3, <2>1
<1> QED BY <1>4, <1>5

\* The second step's outcomes leave every row alone but the one that was
\* locked, and a login that is consumed has no code left to try.
LEMMA CodeStep ==
    ASSUME LoginInv, NEW r \in Reqs, MfaWrong(r) \/ MfaRight(r)
    PROVE  /\ req[r].arg \in Pendings /\ lock[req[r].arg] = r
           /\ pend' \in [Pendings -> [is : {"free", "open", "expired", "consumed", "gone"},
                                      uid : 0..MaxUid, failed : 0..MfaAttempts]]
           /\ wrong' \in [Pendings -> Nat] /\ used' \in [Pendings -> Nat]
           /\ \A p \in Pendings : p # req[r].arg =>
                 pend'[p] = pend[p] /\ wrong'[p] = wrong[p] /\ used'[p] = used[p]
           /\ pend'[req[r].arg].uid = pend[req[r].arg].uid /\ pend[req[r].arg].is # "free"
           /\ Codes'
<1> USE DEF LoginInv
<1> DEFINE p == req[r].arg
<1>1. p \in Pendings /\ lock[p] = r
  BY DEF MfaWrong, MfaRight, Locks, SecondStep
<1>2. /\ pend[p].is \in {"open", "expired"} /\ req[r].failed = pend[p].failed
      /\ used[p] = 0 /\ wrong[p] = pend[p].failed /\ pend[p].failed < MfaAttempts
      /\ pend[p].failed \in Nat
  BY <1>1, ParamAssumption DEF Held, Codes, Ranges
<1>3. CASE MfaWrong(r)
  <2> DEFINE n == req[r].failed + 1
  <2>1. /\ pend' = [pend EXCEPT ![p].failed = n,
                                ![p].is = IF n >= MfaAttempts THEN "consumed" ELSE pend[p].is]
        /\ wrong' = [wrong EXCEPT ![p] = wrong[p] + 1] /\ used' = used
    BY <1>1, <1>3 DEF MfaWrong, Ranges
  <2>2. n \in 1..MfaAttempts
    BY <1>2, ParamAssumption
  <2> HIDE DEF n
  <2>3. /\ pend' \in [Pendings -> [is : {"free", "open", "expired", "consumed", "gone"},
                                   uid : 0..MaxUid, failed : 0..MfaAttempts]]
        /\ \A q \in Pendings \ {p} : pend'[q] = pend[q]
        /\ pend'[p].uid = pend[p].uid /\ pend'[p].failed = n
        /\ pend'[p].is = (IF n >= MfaAttempts THEN "consumed" ELSE pend[p].is)
    BY <1>1, <1>2, <2>1, <2>2, ParamAssumption DEF Ranges
  <2>4. /\ wrong' \in [Pendings -> Nat] /\ wrong'[p] = n
        /\ \A q \in Pendings \ {p} : wrong'[q] = wrong[q]
    BY <1>1, <1>2, <2>1 DEF Ranges, n
  <2>5. Codes'
    <3>1. ASSUME NEW q \in Pendings, q # p
          PROVE  pend'[q] = pend[q] /\ wrong'[q] = wrong[q] /\ used'[q] = used[q]
      BY <2>1, <2>3, <2>4, <3>1
    <3>2. /\ pend'[p].is # "free" /\ wrong'[p] = n /\ used'[p] = 0
          /\ pend'[p].is \in {"open", "expired"} => wrong'[p] = pend'[p].failed /\ n < MfaAttempts
      <4>1. wrong'[p] = n /\ pend'[p].failed = n /\ used'[p] = 0
        BY <1>2, <2>1, <2>3, <2>4
      <4>2. CASE n >= MfaAttempts
        BY <2>3, <4>1, <4>2
      <4>3. CASE ~(n >= MfaAttempts)
        <5>1. n < MfaAttempts
          BY <2>2, <4>3, ParamAssumption
        <5> QED BY <1>2, <2>3, <4>1, <4>3, <5>1
      <4> QED BY <4>2, <4>3
    <3> QED BY <2>2, <2>3, <3>1, <3>2, ParamAssumption DEF Codes
  <2> QED BY <1>1, <1>2, <2>1, <2>3, <2>4, <2>5 DEF Ranges
<1>4. CASE MfaRight(r)
  <2>1. /\ pend' = [pend EXCEPT ![p].is = "consumed"]
        /\ wrong' = wrong /\ used' = [used EXCEPT ![p] = used[p] + 1]
    BY <1>1, <1>4 DEF MfaRight, Ranges
  <2>2. /\ pend' \in [Pendings -> [is : {"free", "open", "expired", "consumed", "gone"},
                                   uid : 0..MaxUid, failed : 0..MfaAttempts]]
        /\ \A q \in Pendings \ {p} : pend'[q] = pend[q]
        /\ pend'[p].uid = pend[p].uid /\ pend'[p].is = "consumed"
    BY <1>1, <2>1, Marked
  <2>3. /\ used' \in [Pendings -> Nat] /\ used'[p] = 1
        /\ \A q \in Pendings \ {p} : used'[q] = used[q]
    BY <1>1, <1>2, <2>1 DEF Ranges
  <2>4. Codes'
    <3>1. wrong'[p] < MfaAttempts
      BY <1>2, <2>1
    <3>2. wrong'[p] \in Nat
      BY <1>2, <2>1
    <3> QED BY <1>1, <2>1, <2>2, <2>3, <3>1, <3>2, ParamAssumption DEF Codes
  <2> QED BY <1>1, <1>2, <2>1, <2>2, <2>3, <2>4 DEF Ranges
<1> QED BY <1>3, <1>4

\* The rows a request writes as it ends are in their ranges.
LEMMA EndRanges ==
    ASSUME LoginInv, NEW r \in Reqs, Serve(r), ~MfaUser(r)
    PROVE  /\ user' \in Users /\ lastUid' \in 1..MaxUid
           /\ sess' \in [Sessions -> [uid : 0..MaxUid, via : Pendings \cup Providers \cup {"password", None}]]
           /\ confirmed' \subseteq Secrets /\ stale' \in BOOLEAN
<1> USE DEF LoginInv
<1> DEFINE Good ==
      /\ user' \in Users /\ lastUid' \in 1..MaxUid
      /\ sess' \in [Sessions -> [uid : 0..MaxUid, via : Pendings \cup Providers \cup {"password", None}]]
      /\ confirmed' \subseteq Secrets /\ stale' \in BOOLEAN
<1>1. /\ user \in Users /\ lastUid \in 1..MaxUid /\ user.uid \in 0..MaxUid
      /\ confirmed \subseteq Secrets /\ stale \in BOOLEAN
      /\ sess \in [Sessions -> [uid : 0..MaxUid, via : Pendings \cup Providers \cup {"password", None}]]
  BY DEF Ranges, Users
<1>2. CASE LoginSession(r)
  BY <1>1, <1>2, Created DEF LoginSession, history
<1>3. CASE \/ LoginPending(r) \/ LoginRefused(r) \/ MfaUserRefused(r) \/ MfaLimited(r)
           \/ MfaWrong(r) \/ ExternalRefused(r) \/ ChangeMfaFails(r)
  BY <1>1, <1>3 DEF LoginPending, LoginRefused, MfaUserRefused, MfaLimited, MfaWrong, ExternalRefused,
     ChangeMfaFails, history
<1>4. CASE MfaRight(r)
  <2>1. req[r].arg \in Pendings /\ pend[req[r].arg].uid \in 0..MaxUid
    BY <1>4, CodeStep DEF Ranges
  <2> QED BY <1>1, <1>4, <2>1, Created DEF MfaRight
<1>5. CASE ExternalKnown(r)
  <2>1. req[r].arg \in Providers
    BY <1>5 DEF ExternalKnown, Args
  <2> QED BY <1>1, <1>5, <2>1, Created DEF ExternalKnown, history
<1>6. CASE ExternalNew(r)
  <2>1. req[r].arg \in Providers
    BY <1>6 DEF ExternalNew, Args
  <2>2. lastUid' \in 1..MaxUid /\ lastUid' \in 0..MaxUid /\ user' \in Users
    BY <1>6, <2>1, Inserted, ParamAssumption DEF ExternalNew
  <2>4. sess' = sess \/ CreateSession(lastUid', req[r].arg)
    BY <1>6 DEF ExternalNew
  <2>5. ASSUME NEW uid \in 0..MaxUid, NEW via \in Providers, CreateSession(uid, via)
        PROVE  sess' \in [Sessions -> [uid : 0..MaxUid, via : Pendings \cup Providers \cup {"password", None}]]
    BY <2>5, Created
  <2>6. sess' \in [Sessions -> [uid : 0..MaxUid, via : Pendings \cup Providers \cup {"password", None}]]
    BY <1>1, <2>1, <2>2, <2>4, <2>5
  <2> QED BY <1>1, <1>6, <2>2, <2>6 DEF ExternalNew, history
<1>7. CASE ChangeMfa(r)
  <2>1. Wanted(r).secret \in Secrets \cup {None} /\ Wanted(r).mfa \in BOOLEAN
    BY <1>7 DEF ChangeMfa, Wanted, Args, Ranges, Requests, Users
  <2>2. user' \in Users
    BY <1>1, <1>7, <2>1 DEF ChangeMfa, Users
  <2>3. confirmed' \subseteq Secrets
    BY <1>1, <1>7 DEF ChangeMfa, Args
  <2>4. lastUid' = lastUid /\ sess' = sess /\ stale' \in BOOLEAN
    BY <1>1, <1>7 DEF ChangeMfa
  <2> QED BY <1>1, <2>2, <2>3, <2>4
<1>8. CASE DeleteCommit(r)
  <2>1. NoSession \in [uid : 0..MaxUid, via : Pendings \cup Providers \cup {"password", None}]
    BY ParamAssumption DEF NoSession
  <2>2. sess' \in [Sessions -> [uid : 0..MaxUid, via : Pendings \cup Providers \cup {"password", None}]]
    BY <1>1, <1>8, <2>1 DEF DeleteCommit
  <2> QED BY <1>1, <1>8, <2>2, NoUserFields DEF DeleteCommit, history
<1> QED BY <1>2, <1>3, <1>4, <1>5, <1>6, <1>7, <1>8 DEF Serve

\* The pending logins and their history after a request has ended.
LEMMA EndPendings ==
    ASSUME LoginInv, NEW r \in Reqs, Serve(r), ~MfaUser(r)
    PROVE  /\ pend' \in [Pendings -> [is : {"free", "open", "expired", "consumed", "gone"},
                                      uid : 0..MaxUid, failed : 0..MfaAttempts]]
           /\ wrong' \in [Pendings -> Nat] /\ used' \in [Pendings -> Nat]
           /\ \A p \in Pendings : lock[p] # None /\ lock[p] # r => pend'[p] = pend[p]
           /\ Codes'
<1> USE DEF LoginInv
<1>1. CASE MfaWrong(r) \/ MfaRight(r)
  <2>1. /\ lock[req[r].arg] = r
        /\ \A p \in Pendings : p # req[r].arg => pend'[p] = pend[p]
    BY <1>1, CodeStep
  <2> QED BY <1>1, <2>1, CodeStep
<1>2. CASE LoginPending(r)
  <2>1. PICK p \in Pendings : /\ pend[p].is = "free"
                              /\ pend' = [pend EXCEPT ![p] = [is |-> "open", uid |-> user.uid, failed |-> 0]]
    BY <1>2 DEF LoginPending
  <2>2. lock[p] = None
    BY <2>1 DEF Held
  <2>3. /\ pend' \in [Pendings -> [is : {"free", "open", "expired", "consumed", "gone"},
                                   uid : 0..MaxUid, failed : 0..MfaAttempts]]
        /\ \A q \in Pendings \ {p} : pend'[q] = pend[q]
        /\ pend'[p].is = "open" /\ pend'[p].failed = 0
    BY <2>1, ParamAssumption DEF Ranges, Users
  <2>4. wrong' = wrong /\ used' = used
    BY <1>2 DEF LoginPending, history
  <2>5. Codes'
    BY <2>1, <2>3, <2>4, ParamAssumption DEF Codes
  <2> QED BY <2>2, <2>3, <2>4, <2>5 DEF Ranges
<1>3. CASE DeleteCommit(r)
  <2>1. ASSUME NEW p \in Pendings
        PROVE  /\ pend'[p] = (IF pend[p].uid = user.uid THEN [pend[p] EXCEPT !.is = "gone"] ELSE pend[p])
               /\ lock[p] # None => pend[p].uid # user.uid
    BY <1>3, <2>1 DEF DeleteCommit
  <2>2. pend' \in [Pendings -> [is : {"free", "open", "expired", "consumed", "gone"},
                               uid : 0..MaxUid, failed : 0..MfaAttempts]]
    BY <1>3 DEF DeleteCommit, Ranges
  <2>3. wrong' = wrong /\ used' = used
    BY <1>3 DEF DeleteCommit, history
  <2>4. ASSUME NEW p \in Pendings PROVE pend'[p] = pend[p] \/ pend'[p].is = "gone"
    <3>1. "is" \in DOMAIN pend[p]
      BY DEF Ranges
    <3> QED BY <2>1, <3>1
  <2>5. Codes'
    BY <2>3, <2>4 DEF Codes
  <2> QED BY <2>1, <2>2, <2>3, <2>5 DEF Ranges
<1>4. CASE ~(MfaWrong(r) \/ MfaRight(r) \/ LoginPending(r) \/ DeleteCommit(r))
  <2>1. pend' = pend /\ wrong' = wrong /\ used' = used
    BY <1>4 DEF Serve, LoginSession, LoginRefused, MfaUserRefused, MfaLimited, ExternalKnown, ExternalNew,
       ExternalRefused, ChangeMfa, ChangeMfaFails, history
  <2> QED BY <2>1 DEF Codes, Ranges
<1> QED BY <1>1, <1>2, <1>3, <1>4

\* A step that ends a request keeps the invariant.
LEMMA EndStep == ASSUME LoginInv, NEW r \in Reqs, Serve(r), ~MfaUser(r) PROVE LoginInv'
<1> USE DEF LoginInv
<1>1. Locks' /\ Args' /\ lock' \in [Pendings -> Reqs \cup {None}] /\ rowLock' \in Reqs \cup {None}
  BY EndsUnlock, EndLocks
<1>2. Held'
  BY EndsUnlock, EndPendings, EndHeld
<1>3. req' \in [Reqs -> Requests]
  BY EndsUnlock, Finished DEF Ranges
<1>4. Ranges'
  BY <1>1, <1>3, EndRanges, EndPendings DEF Ranges
<1> QED BY <1>1, <1>2, <1>4, EndPendings

\* The victim of a deadlock gives back what it holds and has changed nothing.
LEMMA VictimStep ==
    ASSUME LoginInv, NEW r \in Reqs, NEW v \in Reqs, DeadlockVictim(r, v)
    PROVE  LoginInv'
<1> USE DEF LoginInv
<1>1. /\ UNCHANGED <<user, lastUid, pend, sess, wrong, used, confirmed, stale>>
      /\ Release(v) /\ Finish(v)
      /\ rowLock' = (IF rowLock = v THEN None ELSE rowLock)
  BY DEF DeadlockVictim, history
<1>2. Locks' /\ Args' /\ lock' \in [Pendings -> Reqs \cup {None}] /\ rowLock' \in Reqs \cup {None}
  BY <1>1, EndLocks
<1>3. Held'
  BY <1>1, EndHeld
<1>4. req' \in [Reqs -> Requests]
  BY <1>1, Finished DEF Ranges
<1>5. Ranges'
  BY <1>1, <1>2, <1>4 DEF Ranges
<1>6. Codes'
  BY <1>1 DEF Codes
<1> QED BY <1>2, <1>3, <1>5, <1>6

\* Time, the end of a session and the creation of the account.
LEMMA OutsideStep ==
    ASSUME LoginInv,
           \/ \E p \in Pendings : PendingExpires(p) \/ MfaExpired(p)
           \/ \E s \in Sessions : EndSession(s)
           \/ CreateUser
    PROVE  LoginInv'
<1> USE DEF LoginInv
<1>1. ASSUME NEW p \in Pendings, PendingExpires(p) \/ MfaExpired(p) PROVE LoginInv'
  <2>1. /\ UNCHANGED <<user, lastUid, rowLock, lock, sess, req, wrong, used, confirmed, stale>>
        /\ \/ pend[p].is = "open" /\ pend' = [pend EXCEPT ![p].is = "expired"]
           \/ /\ pend[p].is = "expired" /\ lock[p] = None
              /\ pend' = [pend EXCEPT ![p].is = "consumed"]
    BY <1>1 DEF PendingExpires, MfaExpired, history
  <2>2. /\ pend' \in [Pendings -> [is : {"free", "open", "expired", "consumed", "gone"},
                                   uid : 0..MaxUid, failed : 0..MfaAttempts]]
        /\ \A q \in Pendings \ {p} : pend'[q] = pend[q]
        /\ pend'[p].failed = pend[p].failed
        /\ \/ pend[p].is = "open" /\ pend'[p].is = "expired"
           \/ pend[p].is = "expired" /\ pend'[p].is = "consumed" /\ lock[p] = None
    BY <2>1, Marked
  <2>3. Ranges' /\ Locks' /\ Args'
    BY <2>1, <2>2 DEF Ranges, Locks, Args
  <2>4. Held'
    BY <2>1, <2>2 DEF Held
  <2>5. Codes'
    BY <2>1, <2>2 DEF Codes
  <2> QED BY <2>3, <2>4, <2>5
<1>2. ASSUME NEW s \in Sessions, EndSession(s) PROVE LoginInv'
  <2>1. /\ UNCHANGED <<user, lastUid, rowLock, pend, lock, req, wrong, used, confirmed, stale>>
        /\ sess' = [sess EXCEPT ![s] = NoSession]
    BY <1>2 DEF EndSession, history
  <2>2. Ranges'
    BY <2>1, ParamAssumption DEF Ranges, NoSession
  <2>3. Locks' /\ Args' /\ Held' /\ Codes'
    BY <2>1 DEF Locks, Args, Held, Codes
  <2> QED BY <2>2, <2>3
<1>3. CASE CreateUser
  <2>1. UNCHANGED <<rowLock, pend, lock, sess, req, wrong, used, confirmed, stale>>
    BY <1>3 DEF CreateUser, history
  <2>2. Ranges'
    BY <1>3, <2>1, Inserted DEF CreateUser, Ranges
  <2>3. Locks' /\ Args' /\ Held' /\ Codes'
    BY <2>1 DEF Locks, Args, Held, Codes
  <2> QED BY <2>2, <2>3
<1> QED BY <1>1, <1>2, <1>3

LEMMA LoginInit == Init => LoginInv
<1> SUFFICES ASSUME Init PROVE LoginInv
  OBVIOUS
<1> USE ParamAssumption
<1>1. user \in Users
  BY NoUserFields DEF Init, Users
<1>2. req \in [Reqs -> Requests] /\ \A r \in Reqs : req[r].at = "idle"
  BY IdleFields DEF Init
<1>3. Ranges
  <2>1. /\ lastUid = 1 /\ rowLock = None /\ confirmed = {} /\ stale = FALSE
        /\ pend = [p \in Pendings |-> [is |-> "free", uid |-> 0, failed |-> 0]]
        /\ lock = [p \in Pendings |-> None]
        /\ sess = [s \in Sessions |-> NoSession]
        /\ wrong = [p \in Pendings |-> 0] /\ used = [p \in Pendings |-> 0]
    BY DEF Init
  <2>2. sess \in [Sessions -> [uid : 0..MaxUid, via : Pendings \cup Providers \cup {"password", None}]]
    BY <2>1 DEF NoSession
  <2>3. pend \in [Pendings -> [is : {"free", "open", "expired", "consumed", "gone"},
                              uid : 0..MaxUid, failed : 0..MfaAttempts]]
    BY <2>1
  <2>4. lastUid \in 1..MaxUid
    BY <2>1
  <2>6. rowLock \in Reqs \cup {None} /\ confirmed \subseteq Secrets /\ stale \in BOOLEAN
    BY <2>1
  <2>5. /\ lock \in [Pendings -> Reqs \cup {None}]
        /\ wrong \in [Pendings -> Nat] /\ used \in [Pendings -> Nat]
    BY <2>1
  <2> QED BY <1>1, <1>2, <2>2, <2>3, <2>4, <2>5, <2>6 DEF Ranges
<1>4. Locks /\ Args
  BY <1>2 DEF Init, Locks, Args, SecondStep
<1>5. Held /\ Codes
  BY DEF Init, Held, Codes
<1> QED BY <1>3, <1>4, <1>5 DEF LoginInv

LEMMA LoginNext == LoginInv /\ [Next]_vars => LoginInv'
<1> SUFFICES ASSUME LoginInv, [Next]_vars PROVE LoginInv'
  OBVIOUS
<1>1. ASSUME NEW r \in Reqs, Arrive(r) \/ Serve(r) \/ Deadlock(r) PROVE LoginInv'
  <2>1. CASE Arrive(r)
    BY <2>1, ArriveStep
  <2>2. CASE Serve(r) /\ MfaUser(r)
    BY <2>2, UserStep
  <2>3. CASE Serve(r) /\ ~MfaUser(r)
    BY <2>3, EndStep
  <2>4. CASE Deadlock(r)
    BY <2>4, VictimStep DEF Deadlock
  <2> QED BY <1>1, <2>1, <2>2, <2>3, <2>4
<1>2. CASE \/ \E p \in Pendings : PendingExpires(p) \/ MfaExpired(p)
           \/ \E s \in Sessions : EndSession(s)
           \/ CreateUser
  BY <1>2, OutsideStep
<1>3. CASE UNCHANGED vars
  BY <1>3 DEF vars, LoginInv, Ranges, Locks, Args, Held, Codes
<1> QED BY <1>1, <1>2, <1>3 DEF Next

LEMMA LoginAlways == Spec => []LoginInv
  BY LoginInit, LoginNext, PTL DEF Spec

\* Every variable stays in its range, and a request holds a lock exactly while
\* it is at a step that needs one (pending_mfa_state_from_request, delete_user).
THEOREM TypeCorrect == Spec => []TypeOK
<1>1. LoginInv => TypeOK
  <2> SUFFICES ASSUME LoginInv PROVE TypeOK
    OBVIOUS
  <2>1. ASSUME NEW r \in Reqs
        PROVE  req[r].at \in {"mfaUser", "mfaCode"} <=> \E p \in Pendings : lock[p] = r
    BY ParamAssumption DEF LoginInv, Locks, SecondStep
  <2> QED BY <2>1 DEF TypeOK, LoginInv, Locks
<1> QED BY <1>1, LoginAlways, PTL

\* However many requests present its cookie with the right code, a pending login
\* leads to one session at most (complete_mfa_login).
THEOREM PendingUsedOnce == Spec => []PendingSingleUse
<1>1. LoginInv => PendingSingleUse
  BY DEF LoginInv, Codes, PendingSingleUse
<1> QED BY <1>1, LoginAlways, PTL

\* At most MfaAttempts wrong codes are counted on a pending login, and it is of
\* no more use after the last of them (complete_mfa_login).
THEOREM CodesAreBounded == Spec => []AttemptsBounded
<1>1. LoginInv => AttemptsBounded
  BY DEF LoginInv, Codes, AttemptsBounded
<1> QED BY <1>1, LoginAlways, PTL

(***************************************************************************)
(* The steps keep the links.                                               *)
(***************************************************************************)
\* Requests go on with what they had read, read the row as it is, or end.
LEMMA RequestLinksKept ==
    ASSUME Ranges, Links, user'.uid = user.uid, user'.provider = user.provider, lastUid' = lastUid,
           \A r \in Reqs :
              \/ req'[r] = req[r]
              \/ /\ req'[r].row = user
                 /\ req'[r].at = "login" => user.uid # 0 /\ user.provider = None
              \/ req'[r].row = NoUser /\ req'[r].at # "login"
    PROVE  RequestLinks'
  BY NoUserFields DEF Links, Account, RequestLinks, Ranges

\* A new session is of an account that is there, and agrees with it.
LEMMA NewSession ==
    ASSUME Ranges, Links, user' = user, lastUid' = lastUid,
           NEW uid \in 0..MaxUid, NEW via \in Pendings \cup Providers \cup {"password", None},
           CreateSession(uid, via), uid # 0, uid <= lastUid,
           uid = user.uid => via = user.provider \/ (via \notin Providers /\ user.provider = None)
    PROVE  SessionLinks'
<1>1. ASSUME NEW s \in Sessions
      PROVE  sess'[s] = sess[s] \/ (sess'[s].uid = uid /\ sess'[s].via = via)
  <2>1. sess'[s] = sess[s] \/ sess'[s] = [uid |-> uid, via |-> via]
    BY Created
  <2> QED BY <2>1
<1> QED BY <1>1 DEF Links, SessionLinks

\* Nothing refers to an account that has just been created.
LEMMA NewAccount ==
    ASSUME Ranges, Links, NEW provider \in Providers \cup {None}, InsertUser(provider), rowLock' = rowLock
    PROVE  /\ Account'
           /\ \A uid \in 0..MaxUid : uid <= lastUid => uid <= lastUid' /\ uid # user'.uid
<1>1. lastUid' = lastUid + 1 /\ user'.uid = lastUid' /\ rowLock' = None /\ lastUid \in Nat
  BY Inserted DEF Ranges
<1> QED BY <1>1, ParamAssumption DEF Account

\* The steps that begin a request.
LEMMA ArriveLinks == ASSUME LinkInv, NEW r \in Reqs, Arrive(r) PROVE Links'
<1> USE DEF LinkInv, LoginInv
<1>1. /\ UNCHANGED <<user, lastUid, pend, sess>>
      /\ \A q \in Reqs \ {r} : req'[q] = req[q]
      /\ \/ req'[r].row = user /\ (req'[r].at = "login" => user.uid # 0 /\ user.provider = None)
         \/ req'[r].row = NoUser /\ req'[r].at = "mfaUser"
      /\ rowLock' = rowLock \/ user.uid # 0
  BY Arrives
<1>2. RequestLinks'
  BY <1>1, RequestLinksKept
<1>3. Account' /\ SessionLinks' /\ PendingLinks'
  BY <1>1 DEF Links, Account, SessionLinks, PendingLinks
<1> QED BY <1>2, <1>3 DEF Links

\* The steps of a request that write no account, session or pending login.
LEMMA QuietLinks ==
    ASSUME LinkInv, NEW r \in Reqs,
           \/ Deadlock(r) \/ MfaUser(r) \/ LoginRefused(r) \/ MfaUserRefused(r) \/ MfaLimited(r)
           \/ ExternalRefused(r) \/ ChangeMfaFails(r)
    PROVE  Links'
<1> USE DEF LinkInv, LoginInv
<1>1. UNCHANGED <<user, lastUid, pend, sess>> /\ rowLock' \in {rowLock, None}
  BY DEF Deadlock, DeadlockVictim, MfaUser, LoginRefused, MfaUserRefused, MfaLimited, ExternalRefused,
     ChangeMfaFails
<1>2. CASE MfaUser(r)
  <2>1. /\ req'[r].row = user /\ req'[r].at = "mfaCode"
        /\ \A q \in Reqs \ {r} : req'[q] = req[q]
    BY <1>2 DEF MfaUser, Ranges, Requests, Steps
  <2> QED BY <1>1, <2>1, RequestLinksKept DEF Links, Account, SessionLinks, PendingLinks
<1>3. ASSUME NEW v \in Reqs, Finish(v) PROVE Links'
  <2>1. /\ req'[v].row = NoUser /\ req'[v].at = "idle"
        /\ \A q \in Reqs \ {v} : req'[q] = req[q]
    BY <1>3, Finished DEF Ranges
  <2>2. RequestLinks'
    BY <1>1, <2>1, RequestLinksKept
  <2> QED BY <1>1, <2>2 DEF Links, Account, SessionLinks, PendingLinks
<1>4. CASE ~MfaUser(r)
  <2>1. \E v \in Reqs : Finish(v)
    BY <1>4 DEF Deadlock, DeadlockVictim, LoginRefused, MfaUserRefused, MfaLimited, ExternalRefused,
       ChangeMfaFails
  <2> QED BY <1>3, <2>1
<1> QED BY <1>2, <1>4

\* A primary sign-in that ends with a session or a pending login, and the right
\* code at the second step.
LEMMA SignInLinks ==
    ASSUME LinkInv, NEW r \in Reqs,
           LoginSession(r) \/ LoginPending(r) \/ MfaRight(r) \/ MfaWrong(r) \/ ExternalKnown(r)
    PROVE  Links'
<1> USE DEF LinkInv, LoginInv
<1>1. /\ user' = user /\ lastUid' = lastUid /\ rowLock' = rowLock
      /\ Finish(r)
  BY DEF LoginSession, LoginPending, MfaRight, MfaWrong, ExternalKnown
<1>2. Account'
  BY <1>1 DEF Links, Account
<1>3. RequestLinks'
  <2>1. \A q \in Reqs : req'[q] = req[q] \/ (req'[q].row = NoUser /\ req'[q].at # "login")
    BY <1>1, Finished DEF Ranges
  <2> QED BY <1>1, <2>1, RequestLinksKept
<1>4. user.uid \in 0..MaxUid
  BY DEF Ranges, Users
<1>5. CASE LoginSession(r)
  <2>1. user.uid # 0 /\ user.uid <= lastUid /\ user.provider = None
    BY <1>5 DEF LoginSession, Links, Account, RequestLinks
  <2>2. "password" \notin Providers
    BY DEF Providers
  <2>3. SessionLinks'
    BY <1>1, <1>4, <1>5, <2>1, <2>2, NewSession DEF LoginSession
  <2>4. PendingLinks'
    BY <1>1, <1>5 DEF LoginSession, Links, PendingLinks
  <2> QED BY <1>2, <1>3, <2>3, <2>4 DEF Links
<1>6. CASE LoginPending(r)
  <2>1. user.uid # 0 /\ user.uid <= lastUid /\ user.provider = None
    BY <1>6 DEF LoginPending, Links, Account, RequestLinks
  <2>2. PICK p \in Pendings : pend' = [pend EXCEPT ![p] = [is |-> "open", uid |-> user.uid, failed |-> 0]]
    BY <1>6 DEF LoginPending
  <2>3. pend'[p].uid = user.uid /\ \A q \in Pendings \ {p} : pend'[q] = pend[q]
    BY <2>2 DEF Ranges
  <2>4. PendingLinks'
    BY <1>1, <2>1, <2>3 DEF Links, PendingLinks
  <2>5. SessionLinks'
    BY <1>1, <1>6 DEF LoginPending, Links, SessionLinks
  <2> QED BY <1>2, <1>3, <2>4, <2>5 DEF Links
<1>7. CASE MfaRight(r) \/ MfaWrong(r)
  <2> DEFINE p == req[r].arg
  <2>1. /\ p \in Pendings /\ pend[p].is # "free" /\ pend'[p].uid = pend[p].uid
        /\ \A q \in Pendings \ {p} : pend'[q] = pend[q]
    BY <1>7, CodeStep
  <2>2. PendingLinks'
    BY <1>1, <2>1 DEF Links, PendingLinks
  <2>3. CASE MfaWrong(r)
    BY <1>1, <1>2, <1>3, <2>2, <2>3 DEF MfaWrong, Links, SessionLinks
  <2>4. CASE MfaRight(r)
    <3>1. /\ pend[p].uid \in 0..MaxUid /\ pend[p].uid # 0 /\ pend[p].uid <= lastUid
          /\ pend[p].uid = user.uid => user.provider = None
      BY <2>1 DEF Links, PendingLinks, Ranges
    <3>2. p \notin Providers
      BY <2>1, ParamAssumption
    <3>3. SessionLinks'
      BY <1>1, <2>1, <2>4, <3>1, <3>2, NewSession DEF MfaRight
    <3> QED BY <1>2, <1>3, <2>2, <3>3 DEF Links
  <2> QED BY <1>7, <2>3, <2>4
<1>8. CASE ExternalKnown(r)
  <2>1. user.uid # 0 /\ user.uid <= lastUid /\ user.provider = req[r].arg /\ req[r].arg \in Providers
    BY <1>8 DEF ExternalKnown, Linkable, Links, Account, RequestLinks, Args
  <2>2. SessionLinks'
    BY <1>1, <1>4, <1>8, <2>1, NewSession DEF ExternalKnown
  <2>3. PendingLinks'
    BY <1>1, <1>8 DEF ExternalKnown, Links, PendingLinks
  <2> QED BY <1>2, <1>3, <2>2, <2>3 DEF Links
<1> QED BY <1>5, <1>6, <1>7, <1>8

\* The creation of an account by its first sign-in or by an administrator.
LEMMA CreateLinks ==
    ASSUME LinkInv, CreateUser \/ \E r \in Reqs : ExternalNew(r)
    PROVE  Links'
<1> USE DEF LinkInv, LoginInv
<1>1. ASSUME NEW provider \in Providers \cup {None}, InsertUser(provider), pend' = pend, rowLock' = rowLock
      PROVE  Account' /\ PendingLinks'
  <2>1. \A p \in Pendings : pend[p].uid \in 0..MaxUid
    BY DEF Ranges
  <2> QED BY <1>1, <2>1, NewAccount DEF Links, PendingLinks
<1>2. ASSUME NEW provider \in Providers \cup {None}, InsertUser(provider), rowLock' = rowLock,
             \A q \in Reqs : req'[q] = req[q] \/ (req'[q].row = NoUser /\ req'[q].at # "login")
      PROVE  RequestLinks'
  <2>1. \A q \in Reqs : req[q].row.uid \in 0..MaxUid
    BY DEF Ranges, Requests, Users
  <2>2. lastUid' \in Nat
    BY <1>2, Inserted
  <2> QED BY <1>2, <2>1, <2>2, NewAccount, NoUserFields DEF Links, RequestLinks
<1>3. ASSUME NEW provider \in Providers \cup {None}, InsertUser(provider), rowLock' = rowLock, sess' = sess
      PROVE  SessionLinks'
  <2>1. \A s \in Sessions : sess[s].uid \in 0..MaxUid
    BY DEF Ranges
  <2> QED BY <1>3, <2>1, NewAccount DEF Links, SessionLinks
<1>4. CASE CreateUser
  BY <1>1, <1>2, <1>3, <1>4 DEF CreateUser, Links
<1>5. ASSUME NEW r \in Reqs, ExternalNew(r) PROVE Links'
  <2> DEFINE provider == req[r].arg
  <2>1. provider \in Providers /\ InsertUser(provider) /\ pend' = pend /\ rowLock' = rowLock
    BY <1>5 DEF ExternalNew, Args
  <2>2. \A q \in Reqs : req'[q] = req[q] \/ (req'[q].row = NoUser /\ req'[q].at # "login")
    BY <1>5, Finished DEF ExternalNew, Ranges
  <2>3. SessionLinks'
    <3>1. CASE sess' = sess
      BY <1>3, <2>1, <3>1
    <3>2. CASE CreateSession(lastUid', provider)
      <4>1. /\ lastUid' \in 1..MaxUid /\ lastUid' \in 0..MaxUid
            /\ user'.uid = lastUid' /\ user'.provider = provider
        BY <2>1, Inserted, ParamAssumption
      <4>2. ASSUME NEW uid \in 0..MaxUid, NEW via \in Providers, CreateSession(uid, via), NEW s \in Sessions
            PROVE  sess'[s] = sess[s] \/ (sess'[s].uid = uid /\ sess'[s].via = via)
        <5>1. sess'[s] = sess[s] \/ sess'[s] = [uid |-> uid, via |-> via]
          BY <4>2, Created
        <5> QED BY <5>1
      <4>3. ASSUME NEW s \in Sessions
            PROVE  sess'[s] = sess[s] \/ (sess'[s].uid = lastUid' /\ sess'[s].via = provider)
        BY <2>1, <3>2, <4>1, <4>2
      <4>4. \A s \in Sessions : sess[s].uid \in 0..MaxUid
        BY DEF Ranges
      <4>5. \A uid \in 0..MaxUid : uid <= lastUid => uid <= lastUid' /\ uid # user'.uid
        BY <2>1, NewAccount
      <4> QED BY <4>1, <4>3, <4>4, <4>5 DEF Links, SessionLinks
    <3> QED BY <1>5, <3>1, <3>2 DEF ExternalNew
  <2> QED BY <1>1, <1>2, <2>1, <2>2, <2>3 DEF Links
<1> QED BY <1>4, <1>5

\* The administration of the account: its MFA columns change, or it is deleted
\* with its sessions and pending logins.
LEMMA AdminLinks == ASSUME LinkInv, NEW r \in Reqs, ChangeMfa(r) \/ DeleteCommit(r) PROVE Links'
<1> USE DEF LinkInv, LoginInv
<1>1. /\ lastUid' = lastUid /\ lastUid \in Nat /\ lastUid \in 1..MaxUid
      /\ \A q \in Reqs : req'[q] = req[q] \/ (req'[q].row = NoUser /\ req'[q].at # "login")
  BY Finished, ParamAssumption DEF ChangeMfa, DeleteCommit, Ranges
<1>2. CASE ChangeMfa(r)
  <2>1. user'.uid = user.uid /\ user'.provider = user.provider
    BY <1>2 DEF ChangeMfa, Ranges, Users
  <2>2. RequestLinks'
    BY <1>1, <2>1, RequestLinksKept
  <2>3. Account' /\ SessionLinks' /\ PendingLinks'
    BY <1>1, <1>2, <2>1 DEF ChangeMfa, Links, Account, SessionLinks, PendingLinks
  <2> QED BY <2>2, <2>3 DEF Links
<1>3. CASE DeleteCommit(r)
  <2>1. user' = NoUser /\ user'.uid = 0 /\ rowLock' = None /\ user.uid # 0
    BY <1>3, NoUserFields, ParamAssumption DEF DeleteCommit, Locks, Links, Account
  <2>2. Account'
    BY <1>1, <2>1 DEF Account
  <2>3. RequestLinks'
    BY <1>1, <2>1, NoUserFields DEF Links, RequestLinks
  <2>4. SessionLinks'
    BY <1>1, <1>3, <2>1 DEF DeleteCommit, Links, SessionLinks
  <2>5. PendingLinks'
    <3>1. ASSUME NEW p \in Pendings
          PROVE  pend'[p].uid = pend[p].uid /\ (pend'[p] = pend[p] \/ pend[p].uid = user.uid)
      BY <1>3, <3>1 DEF DeleteCommit, Ranges
    <3> QED BY <1>1, <2>1, <3>1 DEF Links, Account, PendingLinks
  <2> QED BY <2>2, <2>3, <2>4, <2>5 DEF Links
<1> QED BY <1>2, <1>3

\* Time and the end of a session.
LEMMA OutsideLinks ==
    ASSUME LinkInv,
           \/ \E p \in Pendings : PendingExpires(p) \/ MfaExpired(p)
           \/ \E s \in Sessions : EndSession(s)
    PROVE  Links'
<1> USE DEF LinkInv, LoginInv
<1>1. UNCHANGED <<user, lastUid, rowLock, req>>
  BY DEF PendingExpires, MfaExpired, EndSession
<1>2. Account' /\ RequestLinks'
  BY <1>1 DEF Links, Account, RequestLinks
<1>3. ASSUME NEW p \in Pendings, PendingExpires(p) \/ MfaExpired(p) PROVE Links'
  <2>1. /\ pend[p].is # "free" /\ pend'[p].uid = pend[p].uid /\ sess' = sess
        /\ \A q \in Pendings \ {p} : pend'[q] = pend[q]
    BY <1>3 DEF PendingExpires, MfaExpired, Ranges
  <2> QED BY <1>1, <1>2, <2>1 DEF Links, SessionLinks, PendingLinks
<1>4. ASSUME NEW s \in Sessions, EndSession(s) PROVE Links'
  <2>1. /\ pend' = pend /\ sess'[s] = NoSession
        /\ \A q \in Sessions \ {s} : sess'[q] = sess[q]
    BY <1>4 DEF EndSession, Ranges
  <2> QED BY <1>1, <1>2, <2>1 DEF Links, SessionLinks, PendingLinks
<1> QED BY <1>3, <1>4

LEMMA LinkInit == Init => LinkInv
<1> SUFFICES ASSUME Init PROVE Links
  BY LoginInit DEF LinkInv
<1>1. /\ lastUid = 1 /\ rowLock = None /\ user = [NoUser EXCEPT !.uid = 1]
      /\ \A p \in Pendings : pend[p].is = "free"
      /\ \A s \in Sessions : sess[s] = NoSession
      /\ \A r \in Reqs : req[r] = Idle
  BY DEF Init
<1>2. user.uid = 1
  BY <1>1, NoUserFields DEF Users
<1> QED BY <1>1, <1>2, IdleFields, NoUserFields DEF Links, Account, SessionLinks, RequestLinks, PendingLinks

LEMMA LinkNext == LinkInv /\ [Next]_vars => LinkInv'
<1> SUFFICES ASSUME LinkInv, [Next]_vars PROVE Links'
  BY LoginNext DEF LinkInv
<1>1. ASSUME NEW r \in Reqs, Arrive(r) \/ Serve(r) \/ Deadlock(r) PROVE Links'
  BY <1>1, ArriveLinks, QuietLinks, SignInLinks, CreateLinks, AdminLinks DEF Serve
<1>2. CASE \/ \E p \in Pendings : PendingExpires(p) \/ MfaExpired(p)
           \/ \E s \in Sessions : EndSession(s)
  BY <1>2, OutsideLinks
<1>3. CASE CreateUser
  BY <1>3, CreateLinks
<1>4. CASE UNCHANGED vars
  BY <1>4 DEF vars, LinkInv, Links, Account, SessionLinks, RequestLinks, PendingLinks
<1> QED BY <1>1, <1>2, <1>3, <1>4 DEF Next

\* A session that a provider opened is of an account of that provider, and an
\* account of a provider has no other sessions (upsert_external_user, login).
THEOREM SignInsAreLinked == Spec => []SignedInAsLinked
<1>1. LinkInv => SignedInAsLinked
  BY DEF LinkInv, Links, SessionLinks, SignedInAsLinked
<1> QED BY <1>1, LinkInit, LinkNext, PTL DEF Spec

(***************************************************************************)
(* MFA.  Whoever switches it on carries a proven secret, and writes it     *)
(* together with the switch.                                               *)
(***************************************************************************)
LEMMA UsableInit == Init => UsableInv
<1> SUFFICES ASSUME Init PROVE MfaUsable
  BY LoginInit DEF UsableInv
<1> QED BY NoUserFields DEF Init, MfaUsable, Users

LEMMA ChangeUsable == ASSUME UsableInv, NEW r \in Reqs, ChangeMfa(r) PROVE MfaUsable'
<1> USE DEF UsableInv, LoginInv
<1>1. /\ user \in Users /\ req[r].row \in Users
      /\ stale' = (stale \/ user # req[r].row) /\ confirmed \subseteq confirmed'
  BY DEF ChangeMfa, Ranges, Requests
<1>2. /\ Wanted(r).secret = req[r].arg /\ Wanted(r).mfa = (req[r].at = "enable")
  BY <1>1 DEF Wanted, Users
<1>3. /\ user'.secret = (IF {req[r].arg, req[r].row.secret} # {None} THEN req[r].arg ELSE user.secret)
      /\ user'.mfa = (IF (req[r].at = "enable") # req[r].row.mfa THEN req[r].at = "enable" ELSE user.mfa)
  BY <1>1, <1>2 DEF ChangeMfa, Users
<1>4. CASE req[r].at = "enable"
  <2>1. req[r].arg \in Secrets /\ req[r].arg # None /\ req[r].arg \in confirmed'
    BY <1>4, ParamAssumption DEF ChangeMfa, Args
  <2> QED BY <1>3, <2>1 DEF MfaUsable
<1>5. CASE req[r].at # "enable"
  <2>1. user = req[r].row => ~user'.mfa
    BY <1>1, <1>3, <1>5 DEF Users
  <2> QED BY <1>1, <2>1 DEF MfaUsable
<1> QED BY <1>4, <1>5

LEMMA UsableNext == UsableInv /\ [Next]_vars => UsableInv'
<1> SUFFICES ASSUME UsableInv, [Next]_vars PROVE MfaUsable'
  BY LoginNext DEF UsableInv
<1> USE DEF UsableInv, LoginInv
<1>1. ASSUME UNCHANGED <<user, confirmed, stale>> PROVE MfaUsable'
  BY <1>1 DEF MfaUsable
<1>2. ASSUME NEW r \in Reqs, Arrive(r) \/ MfaUser(r) \/ Deadlock(r) PROVE MfaUsable'
  BY <1>1, <1>2, Arrives DEF MfaUser, Deadlock, DeadlockVictim, history
<1>3. ASSUME NEW r \in Reqs, Serve(r), ~MfaUser(r), ~ChangeMfa(r) PROVE MfaUsable'
  <2>1. CASE ExternalNew(r)
    <3>1. req[r].arg \in Providers /\ InsertUser(req[r].arg)
      BY <2>1 DEF ExternalNew, Args
    <3> QED BY <3>1, Inserted DEF MfaUsable
  <2>2. CASE DeleteCommit(r)
    BY <2>2, NoUserFields DEF DeleteCommit, MfaUsable
  <2>3. CASE ~ExternalNew(r) /\ ~DeleteCommit(r)
    BY <1>1, <1>3, <2>3 DEF Serve, LoginSession, LoginPending, LoginRefused, MfaUserRefused, MfaLimited,
       MfaWrong, MfaRight, ExternalKnown, ExternalRefused, ChangeMfaFails, history
  <2> QED BY <2>1, <2>2, <2>3
<1>4. CASE CreateUser
  BY <1>4, Inserted DEF CreateUser, MfaUsable
<1>5. CASE \/ \E p \in Pendings : PendingExpires(p) \/ MfaExpired(p)
           \/ \E s \in Sessions : EndSession(s)
           \/ UNCHANGED vars
  BY <1>1, <1>5 DEF PendingExpires, MfaExpired, EndSession, history, vars
<1> QED BY <1>2, <1>3, <1>4, <1>5, ChangeUsable DEF Next

\* As long as no MFA change was committed over another one, MFA that is on has a
\* secret its user has proven to have (enable_account_mfa, apply_manage_user_mfa).
THEOREM MfaStaysUsable == Spec => []MfaUsable
<1>1. UsableInv => MfaUsable
  BY DEF UsableInv
<1> QED BY <1>1, UsableInit, UsableNext, PTL DEF Spec
=============================================================================
