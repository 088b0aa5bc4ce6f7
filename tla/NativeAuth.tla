----------------------------- MODULE NativeAuth -----------------------------
(***************************************************************************)
(* Native authentication (auth/native): the endpoints of router.py and the *)
(* calls of NativeAuthProvider on one database.                            *)
(*                                                                         *)
(* A request is a sequence of SQL statements under READ COMMITTED; steps   *)
(* of other requests come between its statements, and a statement followed *)
(* at once by a commit is one step.  A request may fail before its commit, *)
(* which leaves nothing of its transaction.  Whoever was given a token may *)
(* present it at any time and as often as it likes.                        *)
(*                                                                         *)
(* A request names the rows and the token it makes: the session, its token *)
(* family, the refresh token it answers with, the reset token.             *)
(***************************************************************************)
CONSTANTS
    Users,     \* email addresses, hence users
    Requests,
    NoUser, NoRequest

ASSUME UserAssumption == NoUser \notin Users
ASSUME RequestAssumption == NoRequest \notin Requests

VARIABLES
    account,   \* tb_user: whether it exists and is_active
    password,  \* tb_user: whose password the hash is of
    session,   \* tb_session: open, revoked or not there
    used,      \* tb_used_refresh_token
    resets,    \* tb_password_reset: valid, used or not there
    expired,   \* refresh and reset tokens whose time is over
    pc, op, user, arg,
    saw,       \* is_active as a reset has read it
    writes,    \* sessions an open transaction has revoked
    family,    \* the family of the refresh token a request has answered with
    answer,
    before,    \* history: the resets and logouts that had returned when a request began
    stale      \* history: resets that had read an account as active when it was disabled

tables == <<account, password, session, used, resets>>
call == <<op, user, arg, before>>
work == <<saw, writes, stale>>
vars == <<tables, expired, pc, call, work, family, answer>>

Ops == {"register", "login", "create", "refresh", "provider", "logout", "revoke",
        "revoke_token", "forgot", "reset"}

TypeOK ==
    /\ account \in [Users -> {"none", "active", "disabled"}]
    /\ password \in [Users -> {"none", "old", "new"}]
    /\ session \in [Requests -> {"none", "open", "revoked"}]
    /\ used \subseteq Requests
    /\ resets \in [Requests -> {"none", "valid", "used"}]
    /\ expired \subseteq Requests
    /\ pc \in [Requests -> {"new", "checked", "saved", "reused", "read", "updated", "done"}]
    /\ op \in [Requests -> Ops \cup {"none"}]
    /\ user \in [Requests -> Users \cup {NoUser}]
    /\ arg \in [Requests -> Requests \cup {NoRequest}]
    /\ saw \in [Requests -> {"none", "active", "disabled"}]
    /\ writes \in [Requests -> SUBSET Requests]
    /\ family \in [Requests -> Requests \cup {NoRequest}]
    /\ answer \in [Requests -> {"none", "ok", "nothing", "refused", "reused", "error"}]
    /\ before \in [Requests -> SUBSET Requests]
    /\ stale \subseteq Requests

Init ==
    /\ account = [u \in Users |-> "none"]
    /\ password = [u \in Users |-> "none"]
    /\ session = [r \in Requests |-> "none"]
    /\ used = {}
    /\ resets = [r \in Requests |-> "none"]
    /\ expired = {}
    /\ pc = [r \in Requests |-> "new"]
    /\ op = [r \in Requests |-> "none"]
    /\ user = [r \in Requests |-> NoUser]
    /\ arg = [r \in Requests |-> NoRequest]
    /\ saw = [r \in Requests |-> "none"]
    /\ writes = [r \in Requests |-> {}]
    /\ family = [r \in Requests |-> NoRequest]
    /\ answer = [r \in Requests |-> "none"]
    /\ before = [r \in Requests |-> {}]
    /\ stale = {}

-----------------------------------------------------------------------------
(* Requests in general                                                     *)

Ok(r, O) == answer[r] = "ok" /\ op[r] \in O

\* The first statement of request r, which either goes on or is refused.
Begin(r, o, u, t, next) ==
    /\ pc[r] = "new"
    /\ op' = [op EXCEPT ![r] = o]
    /\ user' = [user EXCEPT ![r] = u]
    /\ arg' = [arg EXCEPT ![r] = t]
    /\ before' = [before EXCEPT ![r] = {q \in Requests : Ok(q, {"reset", "logout"})}]
    /\ pc' = [pc EXCEPT ![r] = next]
    /\ UNCHANGED <<tables, expired, work, family>>

Refuse(r, o, u, t) ==
    /\ Begin(r, o, u, t, "done")
    /\ answer' = [answer EXCEPT ![r] = "refused"]

GoOn(r, o, u, t, next) ==
    /\ Begin(r, o, u, t, next)
    /\ UNCHANGED answer

Return(r, from, a) ==
    /\ pc[r] = from
    /\ pc' = [pc EXCEPT ![r] = "done"]
    /\ answer' = [answer EXCEPT ![r] = a]
    /\ UNCHANGED <<expired, call>>

\* The refresh tokens that were handed out.
Issued == {t \in Requests : family[t] # NoRequest}

\* The statement fails, the client disconnects or the pool raises: the
\* transaction is rolled back.
Fail(r) ==
    /\ pc[r] \notin {"new", "done"}
    /\ Return(r, pc[r], "error")
    /\ writes' = [writes EXCEPT ![r] = {}]
    /\ UNCHANGED <<tables, saw, stale, family>>

-----------------------------------------------------------------------------
(* register(), login() and create_tokens_for_user()                        *)

Register(r, u) ==
    IF account[u] = "none" THEN GoOn(r, "register", u, NoRequest, "checked")
    ELSE Refuse(r, "register", u, NoRequest)

\* Mutant: the INSERT replaces the row another request has made meanwhile.
SaveUserUpsert(r) ==
    /\ pc[r] = "checked" /\ op[r] = "register"
    /\ account' = [account EXCEPT ![user[r]] = "active"]
    /\ password' = [password EXCEPT ![user[r]] = "old"]
    /\ pc' = [pc EXCEPT ![r] = "saved"]
    /\ UNCHANGED <<session, used, resets, expired, call, work, family, answer>>

\* The INSERT is refused when the email has a row by now (Fail).
SaveUser(r) ==
    /\ pc[r] = "checked" /\ op[r] = "register"
    /\ account[user[r]] = "none"
    /\ account' = [account EXCEPT ![user[r]] = "active"]
    /\ password' = [password EXCEPT ![user[r]] = "old"]
    /\ pc' = [pc EXCEPT ![r] = "saved"]
    /\ UNCHANGED <<session, used, resets, expired, call, work, family, answer>>

Login(r, u, p) ==
    IF account[u] = "active" /\ password[u] = p THEN GoOn(r, "login", u, NoRequest, "saved")
    ELSE Refuse(r, "login", u, NoRequest)

\* create_tokens_for_user() leaves all checks to its caller.
CreateTokens(r, u) ==
    /\ account[u] # "none"
    /\ GoOn(r, "create", u, NoRequest, "saved")

\* The session is stored and the tokens of its family are returned.
OpenSession(r) ==
    /\ Return(r, "saved", "ok")
    /\ session' = [session EXCEPT ![r] = "open"]
    /\ family' = [family EXCEPT ![r] = r]
    /\ UNCHANGED <<account, password, used, resets, work>>

-----------------------------------------------------------------------------
(* refresh_token() of the router ("refresh") and the provider ("provider") *)

Refresh(r, o, t) ==
    /\ t \in Issued
    /\ \/ t \in expired /\ Refuse(r, o, user[t], t)
       \/ t \notin expired /\ t \in used /\ GoOn(r, o, user[t], t, "reused")
       \/ t \notin expired /\ t \notin used /\ GoOn(r, o, user[t], t, "checked")

\* Mutant: the commit is missing.
ExchangeForgets(r) ==
    /\ op[r] \in {"refresh", "provider"}
    /\ arg[r] \notin used
    /\ Return(r, "checked", "ok")
    /\ family' = [family EXCEPT ![r] = family[arg[r]]]
    /\ UNCHANGED <<tables, work>>

\* Mutant: ON CONFLICT DO NOTHING.
ExchangeAgain(r) ==
    /\ op[r] \in {"refresh", "provider"}
    /\ Return(r, "checked", "ok")
    /\ used' = used \cup {arg[r]}
    /\ family' = [family EXCEPT ![r] = family[arg[r]]]
    /\ UNCHANGED <<account, password, session, resets, work>>

\* The INSERT of a token that another request has used meanwhile violates the
\* primary key (Fail).
Exchange(r) ==
    /\ op[r] \in {"refresh", "provider"}
    /\ arg[r] \notin used
    /\ Return(r, "checked", "ok")
    /\ used' = used \cup {arg[r]}
    /\ family' = [family EXCEPT ![r] = family[arg[r]]]
    /\ UNCHANGED <<account, password, session, resets, work>>

RevokeIn(S) == [s \in Requests |-> IF s \in S /\ session[s] = "open" THEN "revoked" ELSE session[s]]

\* Mutant: the router leaves the commit to a context that rolls back.
ReusedNoCommit(r) ==
    /\ Return(r, "reused", "reused")
    /\ UNCHANGED <<tables, work, family>>

\* The token was used before.  The router revokes the family, commits and
\* raises; the provider revokes and raises, and pool.connection() rolls back.
Reused(r) ==
    /\ Return(r, "reused", "reused")
    /\ session' = IF op[r] = "refresh" THEN RevokeIn({family[arg[r]]}) ELSE session
    /\ UNCHANGED <<account, password, used, resets, work, family>>

-----------------------------------------------------------------------------
(* logout(), revoke_session() and the provider's revoke_token()            *)

\* The caller has an access token of u; an invalid refresh token is no error.
Logout(r, u, t) ==
    /\ t \in Issued
    /\ \/ account[u] # "active" /\ Refuse(r, "logout", u, t)
       \/ account[u] = "active" /\ GoOn(r, "logout", u, t, "checked")

\* u may revoke its own sessions.
RevokeSession(r, u, s) ==
    IF account[u] = "active" /\ session[s] # "none" /\ user[s] = u
    THEN GoOn(r, "revoke", u, s, "checked")
    ELSE Refuse(r, "revoke", u, s)

\* The request is answered like one that revoked something, at its first
\* statement and without a step of its own.
Nothing(r, o, u, t) ==
    /\ Begin(r, o, u, t, "done")
    /\ answer' = [answer EXCEPT ![r] = "nothing"]

\* revoke_token() with one of the two tokens that were handed out as t.  The
\* refresh token names its family and so does, through the session, the access
\* token of a login; the access token of an exchange has no session_id, and of
\* an expired token nothing is read: then the call returns all the same.
RevokeToken(r, t) ==
    /\ t \in Issued
    /\ \/ (t \notin expired \/ family[t] = t) /\ GoOn(r, "revoke_token", user[t], t, "checked")
       \/ Nothing(r, "revoke_token", user[t], t)

\* The family whose sessions a request revokes.
Target(r) == IF op[r] = "revoke" THEN arg[r] ELSE family[arg[r]]

\* The UPDATE of tb_session and its commit.  A logout with an expired token
\* succeeds and revokes nothing.
RevokeFamily(r) ==
    /\ op[r] \in {"logout", "revoke", "revoke_token"}
    /\ IF op[r] = "logout" /\ arg[r] \in expired
       THEN Return(r, "checked", "nothing") /\ UNCHANGED session
       ELSE Return(r, "checked", "ok") /\ session' = RevokeIn({Target(r)})
    /\ UNCHANGED <<account, password, used, resets, work, family>>

-----------------------------------------------------------------------------
(* forgot_password() and reset_password()                                  *)

\* An unknown or disabled account is answered as if it had one.
Forgot(r, u) ==
    \/ account[u] = "active" /\ GoOn(r, "forgot", u, NoRequest, "checked")
    \/ /\ account[u] # "active"
       /\ Begin(r, "forgot", u, NoRequest, "done")
       /\ answer' = [answer EXCEPT ![r] = "ok"]

\* The endpoint answers and leaves the commit to the exit of pool.connection():
\* a commit that fails there takes nothing back of the answer.
StoreReset(r) ==
    /\ op[r] = "forgot"
    /\ Return(r, "checked", "ok")
    /\ \E stored \in {"valid", "none"} : resets' = [resets EXCEPT ![r] = stored]
    /\ UNCHANGED <<account, password, session, used, work, family>>

\* Mutant: a used row is accepted.
ResetAnyRow(r, t) ==
    IF resets[t] # "none" /\ t \notin expired /\ account[user[t]] = "active"
    THEN GoOn(r, "reset", user[t], t, "checked")
    ELSE Refuse(r, "reset", user[t], t)

Reset(r, t) ==
    IF resets[t] = "valid" /\ t \notin expired /\ account[user[t]] = "active"
    THEN GoOn(r, "reset", user[t], t, "checked")
    ELSE Refuse(r, "reset", user[t], t)

\* The row of a user that an open transaction has updated is locked.
Locked(u) == \E q \in Requests : pc[q] = "updated" /\ user[q] = u

\* get_by_id(): the account may have changed since the token was checked.
ReadUser(r) ==
    /\ pc[r] = "checked" /\ op[r] = "reset"
    /\ pc' = [pc EXCEPT ![r] = "read"]
    /\ saw' = [saw EXCEPT ![r] = account[user[r]]]
    /\ UNCHANGED <<tables, expired, call, writes, stale, family, answer>>

\* The three UPDATEs: of the user, of the reset token and of the sessions that
\* are there now.  A password that set_password() does not like raises (Fail).
UpdateAll(r) ==
    /\ pc[r] = "read"
    /\ ~ Locked(user[r])
    /\ pc' = [pc EXCEPT ![r] = "updated"]
    /\ writes' = [writes EXCEPT ![r] = {s \in Requests : session[s] # "none" /\ user[s] = user[r]}]
    /\ UNCHANGED <<tables, expired, call, saw, stale, family, answer>>

\* The resets that have read the account as active and not written it yet.
Readers(u) == {r \in Requests : pc[r] = "read" /\ user[r] = u /\ saw[r] = "active"}

\* Mutant: is_active is not written as it was read.
CommitResetActivates(r) ==
    /\ Return(r, "updated", "ok")
    /\ account' = [account EXCEPT ![user[r]] = "active"]
    /\ resets' = [resets EXCEPT ![arg[r]] = "used"]
    /\ session' = RevokeIn(writes[r])
    /\ UNCHANGED <<password, used, work, family>>

\* User.update() has written is_active as get_by_id() read it, and no
\* password_hash; this, too, may disable the account.
CommitReset(r) ==
    /\ Return(r, "updated", "ok")
    /\ account' = [account EXCEPT ![user[r]] = saw[r]]
    /\ stale' = IF saw[r] = "disabled" THEN stale \cup Readers(user[r]) ELSE stale
    /\ resets' = [resets EXCEPT ![arg[r]] = "used"]
    /\ session' = RevokeIn(writes[r])
    /\ UNCHANGED <<password, used, saw, writes, family>>

-----------------------------------------------------------------------------
(* The rest of the world                                                   *)

\* User.deactivate()
Deactivate(u) ==
    /\ account[u] = "active" /\ ~ Locked(u)
    /\ account' = [account EXCEPT ![u] = "disabled"]
    /\ stale' = stale \cup Readers(u)
    /\ UNCHANGED <<password, session, used, resets, expired, pc, call, saw, writes, family, answer>>

Expire(t) ==
    /\ t \in Issued \/ resets[t] = "valid"
    /\ t \notin expired
    /\ expired' = expired \cup {t}
    /\ UNCHANGED <<tables, pc, call, work, family, answer>>

Next ==
    \/ \E u \in Users : Deactivate(u)
    \/ \E t \in Requests : Expire(t)
    \/ \E r \in Requests :
        \/ Fail(r) \/ SaveUser(r) \/ OpenSession(r) \/ Exchange(r) \/ Reused(r)
        \/ RevokeFamily(r) \/ StoreReset(r) \/ ReadUser(r) \/ UpdateAll(r) \/ CommitReset(r)
        \/ \E u \in Users : \/ Register(r, u) \/ CreateTokens(r, u) \/ Forgot(r, u)
                            \/ \E p \in {"old", "new"} : Login(r, u, p)
        \/ \E t \in Requests : \/ \E o \in {"refresh", "provider"} : Refresh(r, o, t)
                               \/ RevokeToken(r, t)
                               \/ resets[t] # "none" /\ Reset(r, t)
                               \/ \E u \in Users : Logout(r, u, t) \/ RevokeSession(r, u, t)

Spec == Init /\ [][Next]_vars

-----------------------------------------------------------------------------
(* Properties                                                              *)

\* A refresh token is exchanged once, however many requests present it at the
\* same time and whichever of the two code paths they take.
ExchangedOnce ==
    \A r, q \in Requests :
        Ok(r, {"refresh", "provider"}) /\ Ok(q, {"refresh", "provider"}) /\ arg[r] = arg[q]
            => r = q

\* The refresh tokens of a login form a chain: of all that were handed out in a
\* family, one at most has not been used.
OneLiveToken ==
    \A t, q \in Issued \ used : family[t] = family[q] => t = q

\* A logout, the revocation of a session or of a token, a password reset and the
\* router's answer to a reused token leave their sessions revoked for good,
\* whatever refreshes, logins and resets run at the same time or later.  The
\* calls that were answered with success but found no family to revoke (an
\* expired token, an access token without session_id) are not among them.
RevocationsHold ==
    \A r \in Requests :
        /\ Ok(r, {"reset"}) => \A s \in writes[r] : session[s] = "revoked"
        /\ Ok(r, {"logout", "revoke", "revoke_token"}) => session[Target(r)] # "open"
        /\ answer[r] = "reused" /\ op[r] = "refresh" => session[family[arg[r]]] # "open"

\* Two registrations of one address never both make an account.
RegisteredOnce ==
    \A r, q \in Requests :
        Ok(r, {"register"}) /\ Ok(q, {"register"}) /\ user[r] = user[q] => r = q

\* A reset token that has changed a password is refused from then on; only a
\* request that had begun before can use it again.
ResetOnce ==
    \A r, q \in Requests :
        Ok(r, {"reset"}) /\ Ok(q, {"reset"}) /\ arg[r] = arg[q] => r \notin before[q]

\* User.update() writes is_active back as it was read.  An account that was
\* disabled becomes active again only when a reset commits that had read it
\* before it was disabled: when those resets are over it is disabled for good,
\* whatever other resets, of other tokens or begun later, write.
OnlyStaleReadsRevive ==
    [][\A u \in Users : account[u] = "disabled" /\ account'[u] = "active"
           => \E r \in stale : user[r] = u /\ pc[r] = "updated" /\ pc'[r] = "done"]_vars

\* What the code says (router.py:658, "Update password", and router.py:684,
\* "Password reset successfully"): the new password is stored.
ResetChangesPassword ==
    \A r \in Requests : Ok(r, {"reset"}) => password[user[r]] = "new"

\* What the code says (router.py:571, "Logout and invalidate refresh token", and
\* tokens.py:219, "Invalidate all tokens in a family"): once a logout that found
\* the family of its token has returned, no refresh that begins later is
\* answered with new tokens of that family.
LogoutEndsFamily ==
    \A r, q \in Requests :
        Ok(r, {"logout"}) /\ Ok(q, {"refresh", "provider"}) /\ r \in before[q]
            => family[q] # family[arg[r]]
=============================================================================
