--------------------------- MODULE LoginSessions ---------------------------
(***************************************************************************)
(* Dashboard login: the primary sign-in (password, Microsoft Entra, Local  *)
(* AD), the second step with an authenticator code, dashboard sessions,    *)
(* and the administration of one account while all that goes on.           *)
(*                                                                         *)
(* Routes run in threads, each in a transaction of its own (PostgreSQL,    *)
(* READ COMMITTED): a request reads rows in one step and commits in a      *)
(* later one, and what it decides on is the copy it read.  SQLAlchemy      *)
(* writes back only the columns a request changed in its copy.  Refusals   *)
(* that leave the database as it was (a wrong password, a bad cookie, 429  *)
(* of the rate limiter before anything is read) are no steps.              *)
(***************************************************************************)
EXTENDS Naturals

CONSTANTS
    Reqs,         \* threads that serve a request
    Pendings,     \* ids of pending_mfa_logins rows
    Sessions,     \* ids of sessions rows
    Secrets,      \* TOTP secrets
    MaxUid,       \* bound: how often the account is created
    MfaAttempts,  \* RATE_LIMIT_MFA_ATTEMPTS
    None

Providers == {"microsoft", "local_ad"}

\* At least one code may be tried.
ASSUME ParamAssumption ==
    /\ MaxUid \in Nat \ {0}
    /\ MfaAttempts \in Nat \ {0}
    /\ None \notin Reqs \cup Secrets \cup Providers
    /\ Pendings \cap Providers = {}

VARIABLES
    user,       \* the users row of the account; uid 0 when there is none
    lastUid,    \* the newest users.id ever given
    rowLock,    \* the request that is deleting the users row
    pend,       \* pending_mfa_logins
    lock,       \* the request that holds a pending row FOR UPDATE
    sess,       \* sessions
    req,        \* the requests
    wrong,      \* history: codes refused per pending login
    used,       \* history: sessions created per pending login
    confirmed,  \* history: secrets the user proved to have
    stale       \* history: an MFA change was committed over a newer row

vars == <<user, lastUid, rowLock, pend, lock, sess, req, wrong, used, confirmed, stale>>
history == <<wrong, used, confirmed, stale>>

NoUser == [uid |-> 0, provider |-> None, mfa |-> FALSE, secret |-> None]
NoSession == [uid |-> 0, via |-> None]
Idle == [at |-> "idle", row |-> NoUser, arg |-> None, failed |-> 0]

Init ==
    /\ user = [NoUser EXCEPT !.uid = 1]
    /\ lastUid = 1
    /\ rowLock = None
    /\ pend = [p \in Pendings |-> [is |-> "free", uid |-> 0, failed |-> 0]]
    /\ lock = [p \in Pendings |-> None]
    /\ sess = [s \in Sessions |-> NoSession]
    /\ req = [r \in Reqs |-> Idle]
    /\ wrong = [p \in Pendings |-> 0]
    /\ used = [p \in Pendings |-> 0]
    /\ confirmed = {}
    /\ stale = FALSE

\* The foreign keys of sessions, pending logins and the audit log need the
\* users row: the request waits for one that is deleting it.
RowFree == rowLock = None

GoTo(r, at, row, arg) ==
    req' = [req EXCEPT ![r] = [Idle EXCEPT !.at = at, !.row = row, !.arg = arg]]

Finish(r) == req' = [req EXCEPT ![r] = Idle]

\* create_user_session(): a new row, checked against users by its foreign key.
CreateSession(uid, via) ==
    \E s \in Sessions :
        /\ sess[s] = NoSession
        /\ sess' = [sess EXCEPT ![s] = [uid |-> uid, via |-> via]]
-----------------------------------------------------------------------------
(* Primary sign-in with a password.                                        *)

\* login() finds the account and the password is right.  Nobody has the random
\* password that upsert_external_user() gives an account of a provider.
LoginRead(r) ==
    /\ req[r].at = "idle"
    /\ user.uid # 0 /\ user.provider = None
    /\ GoTo(r, "login", user, None)
    /\ UNCHANGED <<user, lastUid, rowLock, pend, lock, sess, history>>

\* Without MFA: the session is created.
LoginSession(r) ==
    /\ req[r].at = "login" /\ ~req[r].row.mfa
    /\ RowFree /\ user.uid = req[r].row.uid
    /\ CreateSession(user.uid, "password")
    /\ Finish(r)
    /\ UNCHANGED <<user, lastUid, rowLock, pend, lock, history>>

\* With MFA: set_pending_mfa_cookie() adds a pending login.
LoginPending(r) ==
    /\ req[r].at = "login" /\ req[r].row.mfa
    /\ req[r].row.secret # None
    /\ RowFree /\ user.uid = req[r].row.uid
    /\ \E p \in Pendings :
          /\ pend[p].is = "free"
          /\ pend' = [pend EXCEPT ![p] = [is |-> "open", uid |-> user.uid, failed |-> 0]]
    /\ Finish(r)
    /\ UNCHANGED <<user, lastUid, rowLock, lock, sess, history>>

\* The account is gone at the commit (foreign key), MFA is enabled without a
\* usable secret, or the administrator's address is not on the allowlist.
LoginRefused(r) ==
    /\ req[r].at = "login"
    /\ Finish(r)
    /\ UNCHANGED <<user, lastUid, rowLock, pend, lock, sess, history>>
-----------------------------------------------------------------------------
(* The second step: complete_mfa_login().                                  *)

\* Faulty variant: the pending row is read without FOR UPDATE.
MfaReadUnlocked(r, p) ==
    /\ req[r].at = "idle"
    /\ pend[p].is = "open"
    /\ lock' = [lock EXCEPT ![p] = r]
    /\ req' = [req EXCEPT ![r] = [Idle EXCEPT !.at = "mfaUser", !.arg = p,
                                              !.failed = pend[p].failed]]
    /\ UNCHANGED <<user, lastUid, rowLock, pend, sess, history>>

\* pending_mfa_state_from_request(): SELECT ... FOR UPDATE waits for the
\* request that holds the row, and reads what that one committed.
MfaRead(r, p) ==
    /\ req[r].at = "idle"
    /\ pend[p].is = "open" /\ lock[p] = None
    /\ lock' = [lock EXCEPT ![p] = r]
    /\ req' = [req EXCEPT ![r] = [Idle EXCEPT !.at = "mfaUser", !.arg = p,
                                              !.failed = pend[p].failed]]
    /\ UNCHANGED <<user, lastUid, rowLock, pend, sess, history>>

\* A row found expired is consumed and committed at once.
MfaExpired(p) ==
    /\ pend[p].is = "expired" /\ lock[p] = None
    /\ pend' = [pend EXCEPT ![p].is = "consumed"]
    /\ UNCHANGED <<user, lastUid, rowLock, lock, sess, req, history>>

Release(r) == lock' = [p \in Pendings |-> IF lock[p] = r THEN None ELSE lock[p]]

\* The users row is read by a statement of its own; it may have changed.
MfaUser(r) ==
    /\ req[r].at = "mfaUser"
    /\ user.uid = pend[req[r].arg].uid /\ user.provider = None /\ user.mfa
    /\ req' = [req EXCEPT ![r].at = "mfaCode", ![r].row = user]
    /\ UNCHANGED <<user, lastUid, rowLock, pend, lock, sess, history>>

MfaUserRefused(r) ==
    /\ req[r].at = "mfaUser"
    /\ \/ user.uid # pend[req[r].arg].uid
       \/ user.provider # None
       \/ ~user.mfa
    /\ Release(r)
    /\ Finish(r)
    /\ UNCHANGED <<user, lastUid, rowLock, pend, sess, history>>

\* 429: the rate limiter counts attempts of its own; nothing is recorded.
MfaLimited(r) ==
    /\ req[r].at = "mfaCode" /\ RowFree
    /\ Release(r)
    /\ Finish(r)
    /\ UNCHANGED <<user, lastUid, rowLock, pend, sess, history>>

\* Faulty variant: the request ends without giving the pending row back.
MfaWrongKeepsLock(r) ==
    LET p == req[r].arg
        failed == req[r].failed + 1
    IN  /\ req[r].at = "mfaCode" /\ RowFree
        /\ pend' = [pend EXCEPT ![p].failed = failed,
                                ![p].is = IF failed >= MfaAttempts THEN "consumed" ELSE @]
        /\ wrong' = [wrong EXCEPT ![p] = @ + 1]
        /\ UNCHANGED lock
        /\ Finish(r)
        /\ UNCHANGED <<user, lastUid, rowLock, sess, used, confirmed, stale>>

\* A wrong code: counted, and the login is consumed with the last attempt.
MfaWrong(r) ==
    LET p == req[r].arg
        failed == req[r].failed + 1
    IN  /\ req[r].at = "mfaCode" /\ RowFree
        /\ pend' = [pend EXCEPT ![p].failed = failed,
                                ![p].is = IF failed >= MfaAttempts THEN "consumed" ELSE @]
        /\ wrong' = [wrong EXCEPT ![p] = @ + 1]
        /\ Release(r)
        /\ Finish(r)
        /\ UNCHANGED <<user, lastUid, rowLock, sess, used, confirmed, stale>>

\* Faulty variant: the pending login can be used again.
MfaRightUnconsumed(r) ==
    /\ req[r].at = "mfaCode" /\ req[r].failed < MfaAttempts
    /\ RowFree
    /\ UNCHANGED pend
    /\ CreateSession(pend[req[r].arg].uid, req[r].arg)
    /\ used' = [used EXCEPT ![req[r].arg] = @ + 1]
    /\ Release(r)
    /\ Finish(r)
    /\ UNCHANGED <<user, lastUid, rowLock, wrong, confirmed, stale>>

\* A right code for the secret that was read; expiry is not looked at again.
MfaRight(r) ==
    /\ req[r].at = "mfaCode" /\ req[r].failed < MfaAttempts
    /\ RowFree
    /\ pend' = [pend EXCEPT ![req[r].arg].is = "consumed"]
    /\ CreateSession(pend[req[r].arg].uid, req[r].arg)
    /\ used' = [used EXCEPT ![req[r].arg] = @ + 1]
    /\ Release(r)
    /\ Finish(r)
    /\ UNCHANGED <<user, lastUid, rowLock, wrong, confirmed, stale>>
-----------------------------------------------------------------------------
(* Sign-in through an identity provider.                                   *)

\* The provider confirmed the identity and its groups are allowed.
ExternalRead(r, provider) ==
    /\ req[r].at = "idle"
    /\ GoTo(r, "external", user, provider)
    /\ UNCHANGED <<user, lastUid, rowLock, pend, lock, sess, history>>

MicrosoftCallback(r) == ExternalRead(r, "microsoft")
MicrosoftLogin(r) == ExternalRead(r, "microsoft")
LocalAdLogin(r) == ExternalRead(r, "local_ad")

\* Faulty variant: an existing local account is linked to the provider.
LinkableAny(row, provider) == row.uid # 0

\* upsert_external_user(): an account of another provider, or a local one, is
\* not linked.
Linkable(row, provider) == row.uid # 0 /\ row.provider = provider

\* An account already linked: its session is created, unless it is gone.
ExternalKnown(r) ==
    /\ req[r].at = "external" /\ Linkable(req[r].row, req[r].arg)
    /\ RowFree /\ user.uid = req[r].row.uid
    /\ CreateSession(user.uid, req[r].arg)
    /\ Finish(r)
    /\ UNCHANGED <<user, lastUid, rowLock, pend, lock, history>>

\* users.email is unique: an INSERT fails when the row has appeared meanwhile.
InsertUser(provider) ==
    /\ user.uid = 0 /\ RowFree
    /\ lastUid < MaxUid
    /\ lastUid' = lastUid + 1
    /\ user' = [NoUser EXCEPT !.uid = lastUid + 1, !.provider = provider]

\* A first sign-in creates the account with its session; an administrator
\* whose address is not allowed gets the account but no session.
ExternalNew(r) ==
    /\ req[r].at = "external" /\ req[r].row.uid = 0
    /\ InsertUser(req[r].arg)
    /\ \/ CreateSession(lastUid', req[r].arg)
       \/ UNCHANGED sess
    /\ Finish(r)
    /\ UNCHANGED <<rowLock, pend, lock, history>>

\* Not linkable, created by another request meanwhile, or deleted.
ExternalRefused(r) ==
    /\ req[r].at = "external"
    /\ Finish(r)
    /\ UNCHANGED <<user, lastUid, rowLock, pend, lock, sess, history>>
-----------------------------------------------------------------------------
(* Sessions and the account's administration.                              *)

\* logout(), revocation by the user or an administrator, or expiry.
EndSession(s) ==
    /\ sess[s] # NoSession
    /\ sess' = [sess EXCEPT ![s] = NoSession]
    /\ UNCHANGED <<user, lastUid, rowLock, pend, lock, req, history>>

\* otp_ttl_minutes pass.
PendingExpires(p) ==
    /\ pend[p].is = "open"
    /\ pend' = [pend EXCEPT ![p].is = "expired"]
    /\ UNCHANGED <<user, lastUid, rowLock, lock, sess, req, history>>

SignedIn == \E s \in Sessions : sess[s] # NoSession /\ sess[s].uid = user.uid

\* enable_account_mfa(): the user proved to have the secret x.
EnableMfa(r, x) ==
    /\ req[r].at = "idle"
    /\ SignedIn /\ user.provider = None /\ ~user.mfa
    /\ GoTo(r, "enable", user, x)
    /\ UNCHANGED <<user, lastUid, rowLock, pend, lock, sess, history>>

\* disable_account_mfa(): the user gave password and code.
DisableMfa(r) ==
    /\ req[r].at = "idle"
    /\ SignedIn /\ user.provider = None /\ user.mfa /\ user.secret # None
    /\ GoTo(r, "disable", user, None)
    /\ UNCHANGED <<user, lastUid, rowLock, pend, lock, sess, history>>

\* apply_manage_user_mfa(): an administrator prepares the secret x.
AdminApplyMfa(r, x) ==
    /\ req[r].at = "idle"
    /\ user.uid # 0 /\ user.provider = None
    /\ GoTo(r, "apply", user, x)
    /\ UNCHANGED <<user, lastUid, rowLock, pend, lock, sess, history>>

\* disable_manage_user_mfa().
AdminDisableMfa(r) ==
    /\ req[r].at = "idle"
    /\ user.uid # 0 /\ user.provider = None
    /\ GoTo(r, "adminDisable", user, None)
    /\ UNCHANGED <<user, lastUid, rowLock, pend, lock, sess, history>>

\* Faulty variant: MFA is switched on before the secret is proven.
WantedEnabled(r) == [req[r].row EXCEPT !.secret = req[r].arg,
                                       !.mfa = req[r].at \in {"enable", "apply"}]

\* The row as the request wants it: secret and switch are set together.
Wanted(r) == [req[r].row EXCEPT !.secret = req[r].arg, !.mfa = (req[r].at = "enable")]

\* The commit writes the columns that differ from what was read; encryption
\* makes every secret a new value.
ChangeMfa(r) ==
    /\ req[r].at \in {"enable", "disable", "apply", "adminDisable"}
    /\ RowFree /\ user.uid = req[r].row.uid
    /\ user' = [user EXCEPT
          !.secret = IF {Wanted(r).secret, req[r].row.secret} # {None} THEN Wanted(r).secret ELSE @,
          !.mfa = IF Wanted(r).mfa # req[r].row.mfa THEN Wanted(r).mfa ELSE @]
    /\ confirmed' = IF req[r].at = "enable" THEN confirmed \cup {req[r].arg} ELSE confirmed
    /\ stale' = (stale \/ user # req[r].row)
    /\ Finish(r)
    /\ UNCHANGED <<lastUid, rowLock, pend, lock, sess, wrong, used>>

\* The row is gone: the UPDATE matches nothing and the request fails.
ChangeMfaFails(r) ==
    /\ req[r].at \in {"enable", "disable", "apply", "adminDisable"}
    /\ RowFree /\ user.uid # req[r].row.uid
    /\ Finish(r)
    /\ UNCHANGED <<user, lastUid, rowLock, pend, lock, sess, history>>

\* create_user(): the administrator saw no account with this e-mail.
CreateUser ==
    /\ InsertUser(None)
    /\ UNCHANGED <<rowLock, pend, lock, sess, req, history>>

\* delete_user(): DELETE locks the row, then its cascade waits for pending
\* logins that are locked.
DeleteUser(r) ==
    /\ req[r].at = "idle"
    /\ RowFree /\ user.uid # 0
    /\ rowLock' = r
    /\ GoTo(r, "delete", user, None)
    /\ UNCHANGED <<user, lastUid, pend, lock, sess, history>>

DeleteCommit(r) ==
    /\ req[r].at = "delete"
    /\ \A p \in Pendings : pend[p].uid = user.uid => lock[p] = None
    /\ user' = NoUser
    /\ rowLock' = None
    /\ pend' = [p \in Pendings |->
                   IF pend[p].uid = user.uid THEN [pend[p] EXCEPT !.is = "gone"] ELSE pend[p]]
    /\ sess' = [s \in Sessions |->
                   IF sess[s].uid = user.uid THEN NoSession ELSE sess[s]]
    /\ Finish(r)
    /\ UNCHANGED <<lastUid, lock, history>>

\* The second step waits for the users row, whose deletion waits for the
\* pending row: PostgreSQL aborts one of the two.
DeadlockVictim(r, v) ==
    /\ req[r].at = "mfaCode" /\ rowLock # None
    /\ v \in {r, rowLock}
    /\ Release(v)
    /\ rowLock' = IF v = rowLock THEN None ELSE rowLock
    /\ Finish(v)
    /\ UNCHANGED <<user, lastUid, pend, sess, history>>
-----------------------------------------------------------------------------
\* What a request does by itself once it has begun.
Serve(r) ==
    \/ LoginSession(r) \/ LoginPending(r) \/ LoginRefused(r)
    \/ MfaUser(r) \/ MfaUserRefused(r) \/ MfaLimited(r) \/ MfaWrong(r) \/ MfaRight(r)
    \/ ExternalKnown(r) \/ ExternalNew(r) \/ ExternalRefused(r)
    \/ ChangeMfa(r) \/ ChangeMfaFails(r)
    \/ DeleteCommit(r)

Deadlock(r) == \E v \in Reqs : DeadlockVictim(r, v)

Arrive(r) ==
    \/ LoginRead(r)
    \/ \E p \in Pendings : MfaRead(r, p)
    \/ MicrosoftCallback(r) \/ MicrosoftLogin(r) \/ LocalAdLogin(r)
    \/ \E x \in Secrets : EnableMfa(r, x) \/ AdminApplyMfa(r, x)
    \/ DisableMfa(r) \/ AdminDisableMfa(r)
    \/ DeleteUser(r)

Next ==
    \/ \E r \in Reqs : Arrive(r) \/ Serve(r) \/ Deadlock(r)
    \/ \E p \in Pendings : PendingExpires(p) \/ MfaExpired(p)
    \/ \E s \in Sessions : EndSession(s)
    \/ CreateUser

Spec == Init /\ [][Next]_vars

\* A lock is granted in the order in which it was asked for: a request that
\* waits gets it when it is given back (strong fairness).
FairSpec == Spec /\ \A r \in Reqs : SF_vars(Serve(r)) /\ WF_vars(Deadlock(r))
-----------------------------------------------------------------------------
(* Properties.                                                             *)

Steps == {"idle", "login", "mfaUser", "mfaCode", "external", "enable", "disable",
          "apply", "adminDisable", "delete"}
Users == [uid : 0..MaxUid, provider : Providers \cup {None}, mfa : BOOLEAN,
          secret : Secrets \cup {None}]

Requests == [at : Steps, row : Users, failed : 0..MfaAttempts,
             arg : Pendings \cup Providers \cup Secrets \cup {None}]

Ranges ==
    /\ user \in Users
    /\ lastUid \in 1..MaxUid
    /\ rowLock \in Reqs \cup {None}
    /\ pend \in [Pendings -> [is : {"free", "open", "expired", "consumed", "gone"},
                              uid : 0..MaxUid, failed : 0..MfaAttempts]]
    /\ lock \in [Pendings -> Reqs \cup {None}]
    /\ sess \in [Sessions -> [uid : 0..MaxUid,
                              via : Pendings \cup Providers \cup {"password", None}]]
    /\ req \in [Reqs -> Requests]
    /\ wrong \in [Pendings -> Nat] /\ used \in [Pendings -> Nat]
    /\ confirmed \subseteq Secrets
    /\ stale \in BOOLEAN

\* Every variable stays in its range, and a pending row is locked exactly by
\* the request that is at its second step.
TypeOK ==
    /\ Ranges
    /\ \A r \in Reqs : /\ req[r].at \in {"mfaUser", "mfaCode"} <=> \E p \in Pendings : lock[p] = r
                       /\ req[r].at = "delete" <=> rowLock = r

\* A pending login leads to one session at most, however many requests
\* present its cookie with the right code at once (complete_mfa_login).
PendingSingleUse ==
    \A p \in Pendings : used[p] <= 1

\* No more than RATE_LIMIT_MFA_ATTEMPTS wrong codes are tried on a pending
\* login, and after the last of them no right one counts (docs/security.md).
AttemptsBounded ==
    \A p \in Pendings :
        /\ wrong[p] <= MfaAttempts
        /\ wrong[p] = MfaAttempts => used[p] = 0

\* Whoever signed in through a provider is the account of that provider: the
\* upsert never takes over a local account, also not one created meanwhile.
SignedInAsLinked ==
    \A s \in Sessions :
        /\ sess[s] # NoSession /\ sess[s].uid = user.uid
        /\ sess[s].via \in Providers \/ user.provider # None
        => sess[s].via = user.provider

\* While no MFA change was committed over another, MFA is enabled only with a
\* secret its user proved to have: enabling never locks the user out.
MfaUsable == user.mfa => stale \/ user.secret \in confirmed

\* Every request ends: the locks on pending and users rows are given back.
RequestsEnd == \A r \in Reqs : req[r].at # "idle" ~> req[r].at = "idle"
=============================================================================
