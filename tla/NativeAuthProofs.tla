-------------------------- MODULE NativeAuthProofs --------------------------
(***************************************************************************)
(* Proofs about NativeAuth, for any users and any number of requests.      *)
(***************************************************************************)
EXTENDS NativeAuth, TLAPS

USE UserAssumption, RequestAssumption

Exchanges == {"refresh", "provider"}

\* Only a request that is over has answered, made a token, a session or a reset
\* row; what it has made names only such requests.
MadeByDone ==
    \A r \in Requests :
        /\ answer[r] # "none" => pc[r] = "done"
        /\ session[r] # "none" => pc[r] = "done"
        /\ resets[r] # "none" => pc[r] = "done" /\ user[r] \in Users
        /\ family[r] # NoRequest => /\ pc[r] = "done" /\ user[r] \in Users
                                   /\ family[r] \in Requests /\ pc[family[r]] = "done"

\* What a request presents was handed out before.
ArgsSound ==
    \A r \in Requests :
        /\ op[r] \in Exchanges \cup {"logout", "revoke_token"} => arg[r] \in Issued
        /\ op[r] = "revoke" /\ (pc[r] = "checked" \/ answer[r] = "ok") =>
               arg[r] \in Requests /\ pc[arg[r]] = "done"
        /\ op[r] = "reset" => arg[r] \in Requests
        /\ op[r] = "reset" /\ pc[r] \in {"checked", "read", "updated"} => resets[arg[r]] # "none"
        /\ pc[r] = "saved" => op[r] \in {"register", "login", "create"} /\ user[r] \in Users
        /\ pc[r] = "reused" => op[r] \in Exchanges
        /\ pc[r] \in {"read", "updated"} => op[r] = "reset" /\ user[r] \in Users
        /\ pc[r] = "checked" => user[r] \in Users

\* An exchanged token is in tb_used_refresh_token, which holds no others.
UsedSound ==
    /\ used \subseteq Issued
    /\ \A r \in Requests : Ok(r, Exchanges) => arg[r] \in used

\* The registration that made an account, also before it has answered.
Made(r) == op[r] = "register" /\ (pc[r] = "saved" \/ answer[r] = "ok")

AccountsSound ==
    /\ \A r \in Requests : Made(r) => user[r] \in Users /\ account[user[r]] # "none"
    /\ \A r, q \in Requests : Made(r) /\ Made(q) /\ user[r] = user[q] => r = q

\* The sessions of an open reset exist; those of a finished one are revoked.
WritesSound ==
    \A r \in Requests :
        pc[r] = "updated" => \A s \in writes[r] : session[s] # "none"

\* What an open reset has read: an account, active only if it is active still or
\* was disabled since.  The lock of its row has one holder.
ReadsSound ==
    /\ \A r, q \in Requests :
           pc[r] = "updated" /\ pc[q] = "updated" /\ user[r] = user[q] => r = q
    /\ \A r \in Requests :
        /\ pc[r] = "checked" /\ op[r] = "reset" => account[user[r]] # "none"
        /\ pc[r] \in {"read", "updated"} =>
               /\ saw[r] # "none" /\ account[user[r]] # "none"
               /\ saw[r] = "active" /\ account[user[r]] # "active" => r \in stale

\* A reset that goes on or has returned began with a token that none of the
\* resets before it had used.
ResetsSound ==
    /\ \A r \in Requests : Ok(r, {"reset"}) => resets[arg[r]] = "used"
    /\ \A q \in Requests : \A r \in before[q] : Ok(r, {"reset", "logout"})
    /\ \A q \in Requests :
           op[q] = "reset" /\ (pc[q] \in {"checked", "read", "updated"} \/ answer[q] = "ok")
               => \A r \in before[q] : op[r] = "reset" => arg[r] # arg[q]

IInv ==
    /\ TypeOK /\ MadeByDone /\ ArgsSound /\ UsedSound /\ ExchangedOnce /\ OneLiveToken
    /\ AccountsSound /\ WritesSound /\ ReadsSound /\ RevocationsHold /\ ResetsSound

LEMMA InitInv == Init => IInv
<1>. SUFFICES ASSUME Init PROVE IInv
  OBVIOUS
<1>. USE DEF Init
<1>1. TypeOK
  BY DEF TypeOK
<1>2. MadeByDone /\ ArgsSound /\ UsedSound /\ ExchangedOnce /\ OneLiveToken
  BY DEF MadeByDone, ArgsSound, UsedSound, ExchangedOnce, OneLiveToken, Issued, Ok, Exchanges
<1>3. AccountsSound /\ WritesSound /\ ReadsSound /\ RevocationsHold /\ ResetsSound
  BY DEF AccountsSound, WritesSound, ReadsSound, RevocationsHold, ResetsSound, Made, Ok
<1>. QED  BY <1>1, <1>2, <1>3 DEF IInv

\* The first statement of a request, whatever it is.
LEMMA BeginInv ==
  ASSUME IInv, NEW r \in Requests, NEW o \in Ops, NEW u \in Users,
         NEW t \in Requests \cup {NoRequest}, NEW next \in {"checked", "saved", "reused", "done"},
         NEW a \in {"none", "refused", "nothing", "ok"},
         Begin(r, o, u, t, next), answer' = [answer EXCEPT ![r] = a],
         next # "done" => a = "none", a = "ok" => o = "forgot",
         o \in Exchanges \cup {"logout", "revoke_token"} => t \in Issued,
         o = "revoke" /\ next = "checked" => t \in Requests /\ pc[t] = "done",
         o = "reset" => t \in Requests,
         o = "reset" /\ next = "checked" => resets[t] = "valid" /\ account[u] # "none",
         next = "saved" => o \in {"login", "create"},
         next = "reused" => o \in Exchanges
  PROVE  IInv'
<1>. USE DEF IInv, Begin, tables, work
<1>1. TypeOK'
  BY DEF TypeOK, Ops
<1>2. MadeByDone'
  BY DEF TypeOK, MadeByDone, ArgsSound, Issued, Exchanges, Ops
<1>3. ArgsSound'
  BY DEF TypeOK, MadeByDone, ArgsSound, Issued, Exchanges
<1>4. UsedSound'
  BY DEF TypeOK, MadeByDone, ArgsSound, UsedSound, Issued, Ok, Exchanges
<1>5. ExchangedOnce'
  BY DEF TypeOK, MadeByDone, ArgsSound, UsedSound, ExchangedOnce, Ok, Exchanges
<1>6. OneLiveToken'
  BY DEF TypeOK, MadeByDone, ArgsSound, UsedSound, OneLiveToken, Issued, Exchanges
<1>7. AccountsSound'
  BY DEF TypeOK, MadeByDone, ArgsSound, AccountsSound, Made, Exchanges
<1>8. WritesSound'
  BY DEF TypeOK, MadeByDone, ArgsSound, WritesSound
<1>9. RevocationsHold'
  BY DEF TypeOK, MadeByDone, ArgsSound, WritesSound, RevocationsHold, Target, Ok, Issued, Exchanges
<1>10. ResetsSound'
  BY DEF TypeOK, MadeByDone, ArgsSound, ResetsSound, Ok
<1>11. ReadsSound'
  BY DEF TypeOK, MadeByDone, ArgsSound, ReadsSound
<1>. QED  BY <1>1, <1>2, <1>3, <1>4, <1>5, <1>6, <1>7, <1>8, <1>9, <1>10, <1>11

LEMMA FailInv ==
  ASSUME IInv, NEW r \in Requests, Fail(r)
  PROVE  IInv'
<1>. USE DEF IInv, Fail, Return, call, tables, work
<1>1. TypeOK'
  BY DEF TypeOK, Ops
<1>2. MadeByDone'
  BY DEF TypeOK, MadeByDone, ArgsSound, Issued, Exchanges, Ops
<1>3. ArgsSound'
  BY DEF TypeOK, MadeByDone, ArgsSound, Issued, Exchanges
<1>4. UsedSound'
  BY DEF TypeOK, MadeByDone, ArgsSound, UsedSound, Issued, Ok, Exchanges
<1>5. ExchangedOnce'
  BY DEF TypeOK, MadeByDone, ArgsSound, UsedSound, ExchangedOnce, Ok, Exchanges
<1>6. OneLiveToken'
  BY DEF TypeOK, MadeByDone, ArgsSound, UsedSound, OneLiveToken, Issued, Exchanges
<1>7. AccountsSound'
  BY DEF TypeOK, MadeByDone, ArgsSound, AccountsSound, Made, Exchanges
<1>8. WritesSound'
  BY DEF TypeOK, MadeByDone, ArgsSound, WritesSound
<1>9. RevocationsHold'
  BY DEF TypeOK, MadeByDone, ArgsSound, WritesSound, RevocationsHold, Target, Ok, Issued, Exchanges
<1>10. ResetsSound'
  BY DEF TypeOK, MadeByDone, ArgsSound, ResetsSound, Ok
<1>11. ReadsSound'
  BY DEF TypeOK, MadeByDone, ArgsSound, ReadsSound
<1>. QED  BY <1>1, <1>2, <1>3, <1>4, <1>5, <1>6, <1>7, <1>8, <1>9, <1>10, <1>11

LEMMA SaveUserInv ==
  ASSUME IInv, NEW r \in Requests, SaveUser(r)
  PROVE  IInv'
<1>. USE DEF IInv, SaveUser, Return, call, tables, work
<1>1. TypeOK'
  BY DEF TypeOK, Ops
<1>2. MadeByDone'
  BY DEF TypeOK, MadeByDone, ArgsSound, Issued, Exchanges, Ops
<1>3. ArgsSound'
  BY DEF TypeOK, MadeByDone, ArgsSound, Issued, Exchanges
<1>4. UsedSound'
  BY DEF TypeOK, MadeByDone, ArgsSound, UsedSound, Issued, Ok, Exchanges
<1>5. ExchangedOnce'
  BY DEF TypeOK, MadeByDone, ArgsSound, UsedSound, ExchangedOnce, Ok, Exchanges
<1>6. OneLiveToken'
  BY DEF TypeOK, MadeByDone, ArgsSound, UsedSound, OneLiveToken, Issued, Exchanges
<1>7. AccountsSound'
  BY DEF TypeOK, MadeByDone, ArgsSound, AccountsSound, Made, Exchanges
<1>8. WritesSound'
  BY DEF TypeOK, MadeByDone, ArgsSound, WritesSound
<1>9. RevocationsHold'
  BY DEF TypeOK, MadeByDone, ArgsSound, WritesSound, RevocationsHold, Target, Ok, Issued, Exchanges
<1>10. ResetsSound'
  BY DEF TypeOK, MadeByDone, ArgsSound, ResetsSound, Ok
<1>11. ReadsSound'
  BY DEF TypeOK, MadeByDone, ArgsSound, ReadsSound
<1>. QED  BY <1>1, <1>2, <1>3, <1>4, <1>5, <1>6, <1>7, <1>8, <1>9, <1>10, <1>11

LEMMA OpenSessionInv ==
  ASSUME IInv, NEW r \in Requests, OpenSession(r)
  PROVE  IInv'
<1>. USE DEF IInv, OpenSession, Return, call, tables, work
<1>1. TypeOK'
  BY DEF TypeOK, Ops
<1>2. MadeByDone'
  BY DEF TypeOK, MadeByDone, ArgsSound, Issued, Exchanges, Ops
<1>3. ArgsSound'
  BY DEF TypeOK, MadeByDone, ArgsSound, Issued, Exchanges
<1>4. UsedSound'
  BY DEF TypeOK, MadeByDone, ArgsSound, UsedSound, Issued, Ok, Exchanges
<1>5. ExchangedOnce'
  BY DEF TypeOK, MadeByDone, ArgsSound, UsedSound, ExchangedOnce, Ok, Exchanges
<1>6. OneLiveToken'
  BY DEF TypeOK, MadeByDone, ArgsSound, UsedSound, OneLiveToken, Issued, Exchanges
<1>7. AccountsSound'
  BY DEF TypeOK, MadeByDone, ArgsSound, AccountsSound, Made, Exchanges
<1>8. WritesSound'
  BY DEF TypeOK, MadeByDone, ArgsSound, WritesSound
<1>9. RevocationsHold'
  BY DEF TypeOK, MadeByDone, ArgsSound, WritesSound, RevocationsHold, Target, Ok, Issued, Exchanges
<1>10. ResetsSound'
  <2>1. op[r] \in {"register", "login", "create"}
    BY DEF ArgsSound
  <2>2. \A q \in Requests : Ok(q, {"reset"})' <=> Ok(q, {"reset"})
    BY <2>1 DEF TypeOK, Ok
  <2>3. \A q \in Requests : Ok(q, {"reset", "logout"}) => Ok(q, {"reset", "logout"})'
    BY <2>1 DEF TypeOK, Ok
  <2>4. \A q \in Requests : \A p \in before[q] : Ok(p, {"reset", "logout"})'
    BY <2>3 DEF TypeOK, ResetsSound
  <2>. QED  BY <2>1, <2>2, <2>4 DEF TypeOK, ResetsSound
<1>11. ReadsSound'
  BY DEF TypeOK, MadeByDone, ArgsSound, ReadsSound
<1>. QED  BY <1>1, <1>2, <1>3, <1>4, <1>5, <1>6, <1>7, <1>8, <1>9, <1>10, <1>11

LEMMA ExchangeInv ==
  ASSUME IInv, NEW r \in Requests, Exchange(r)
  PROVE  IInv'
<1>. USE DEF IInv, Exchange, Return, call, tables, work
<1>1. TypeOK'
  BY DEF TypeOK, Ops, ArgsSound, Issued, Exchanges
<1>2. MadeByDone'
  BY DEF TypeOK, MadeByDone, ArgsSound, Issued, Exchanges, Ops
<1>3. ArgsSound'
  BY DEF TypeOK, MadeByDone, ArgsSound, Issued, Exchanges
<1>4. UsedSound'
  BY DEF TypeOK, MadeByDone, ArgsSound, UsedSound, Issued, Ok, Exchanges
<1>5. ExchangedOnce'
  BY DEF TypeOK, MadeByDone, ArgsSound, UsedSound, ExchangedOnce, Ok, Exchanges
<1>6. OneLiveToken'
  BY DEF TypeOK, MadeByDone, ArgsSound, UsedSound, OneLiveToken, Issued, Exchanges
<1>7. AccountsSound'
  BY DEF TypeOK, MadeByDone, ArgsSound, AccountsSound, Made, Exchanges
<1>8. WritesSound'
  BY DEF TypeOK, MadeByDone, ArgsSound, WritesSound
<1>9. RevocationsHold'
  BY DEF TypeOK, MadeByDone, ArgsSound, WritesSound, RevocationsHold, Target, Ok, Issued, Exchanges
<1>10. ResetsSound'
  BY DEF TypeOK, MadeByDone, ArgsSound, ResetsSound, Ok
<1>11. ReadsSound'
  BY DEF TypeOK, MadeByDone, ArgsSound, ReadsSound
<1>. QED  BY <1>1, <1>2, <1>3, <1>4, <1>5, <1>6, <1>7, <1>8, <1>9, <1>10, <1>11

LEMMA ReusedInv ==
  ASSUME IInv, NEW r \in Requests, Reused(r)
  PROVE  IInv'
<1>. USE DEF IInv, Reused, Return, call, tables, work, RevokeIn
<1>1. TypeOK'
  BY DEF TypeOK, Ops
<1>2. MadeByDone'
  BY DEF TypeOK, MadeByDone, ArgsSound, Issued, Exchanges, Ops
<1>3. ArgsSound'
  BY DEF TypeOK, MadeByDone, ArgsSound, Issued, Exchanges
<1>4. UsedSound'
  BY DEF TypeOK, MadeByDone, ArgsSound, UsedSound, Issued, Ok, Exchanges
<1>5. ExchangedOnce'
  BY DEF TypeOK, MadeByDone, ArgsSound, UsedSound, ExchangedOnce, Ok, Exchanges
<1>6. OneLiveToken'
  BY DEF TypeOK, MadeByDone, ArgsSound, UsedSound, OneLiveToken, Issued, Exchanges
<1>7. AccountsSound'
  BY DEF TypeOK, MadeByDone, ArgsSound, AccountsSound, Made, Exchanges
<1>8. WritesSound'
  BY DEF TypeOK, MadeByDone, ArgsSound, WritesSound
<1>9. RevocationsHold'
  BY DEF TypeOK, MadeByDone, ArgsSound, WritesSound, RevocationsHold, Target, Ok, Issued, Exchanges
<1>10. ResetsSound'
  BY DEF TypeOK, MadeByDone, ArgsSound, ResetsSound, Ok
<1>11. ReadsSound'
  BY DEF TypeOK, MadeByDone, ArgsSound, ReadsSound
<1>. QED  BY <1>1, <1>2, <1>3, <1>4, <1>5, <1>6, <1>7, <1>8, <1>9, <1>10, <1>11

LEMMA RevokeFamilyInv ==
  ASSUME IInv, NEW r \in Requests, RevokeFamily(r)
  PROVE  IInv'
<1>. USE DEF IInv, RevokeFamily, Return, call, tables, work, RevokeIn, Target
<1>1. TypeOK'
  BY DEF TypeOK, Ops
<1>2. MadeByDone'
  BY DEF TypeOK, MadeByDone, ArgsSound, Issued, Exchanges, Ops
<1>3. ArgsSound'
  BY DEF TypeOK, MadeByDone, ArgsSound, Issued, Exchanges
<1>4. UsedSound'
  BY DEF TypeOK, MadeByDone, ArgsSound, UsedSound, Issued, Ok, Exchanges
<1>5. ExchangedOnce'
  BY DEF TypeOK, MadeByDone, ArgsSound, UsedSound, ExchangedOnce, Ok, Exchanges
<1>6. OneLiveToken'
  BY DEF TypeOK, MadeByDone, ArgsSound, UsedSound, OneLiveToken, Issued, Exchanges
<1>7. AccountsSound'
  BY DEF TypeOK, MadeByDone, ArgsSound, AccountsSound, Made, Exchanges
<1>8. WritesSound'
  BY DEF TypeOK, MadeByDone, ArgsSound, WritesSound
<1>9. RevocationsHold'
  BY DEF TypeOK, MadeByDone, ArgsSound, WritesSound, RevocationsHold, Target, Ok, Issued, Exchanges
<1>10. ResetsSound'
  <2>1. /\ op' = op /\ arg' = arg /\ before' = before /\ resets' = resets
        /\ \A q \in Requests \ {r} : pc'[q] = pc[q] /\ answer'[q] = answer[q]
    BY DEF TypeOK
  <2>2. op[r] # "reset" /\ (answer[r] = "ok" => answer'[r] = "ok")
    BY DEF TypeOK, MadeByDone, ArgsSound
  <2> QED  BY <2>1, <2>2 DEF TypeOK, ResetsSound, Ok
<1>11. ReadsSound'
  BY DEF TypeOK, MadeByDone, ArgsSound, ReadsSound
<1>. QED  BY <1>1, <1>2, <1>3, <1>4, <1>5, <1>6, <1>7, <1>8, <1>9, <1>10, <1>11

LEMMA StoreResetInv ==
  ASSUME IInv, NEW r \in Requests, StoreReset(r)
  PROVE  IInv'
<1>. USE DEF IInv, StoreReset, Return, call, tables, work
<1>1. TypeOK'
  BY DEF TypeOK, Ops
<1>2. MadeByDone'
  BY DEF TypeOK, MadeByDone, ArgsSound, Issued, Exchanges, Ops
<1>3. ArgsSound'
  BY DEF TypeOK, MadeByDone, ArgsSound, Issued, Exchanges
<1>4. UsedSound'
  BY DEF TypeOK, MadeByDone, ArgsSound, UsedSound, Issued, Ok, Exchanges
<1>5. ExchangedOnce'
  BY DEF TypeOK, MadeByDone, ArgsSound, UsedSound, ExchangedOnce, Ok, Exchanges
<1>6. OneLiveToken'
  BY DEF TypeOK, MadeByDone, ArgsSound, UsedSound, OneLiveToken, Issued, Exchanges
<1>7. AccountsSound'
  BY DEF TypeOK, MadeByDone, ArgsSound, AccountsSound, Made, Exchanges
<1>8. WritesSound'
  BY DEF TypeOK, MadeByDone, ArgsSound, WritesSound
<1>9. RevocationsHold'
  BY DEF TypeOK, MadeByDone, ArgsSound, WritesSound, RevocationsHold, Target, Ok, Issued, Exchanges
<1>10. ResetsSound'
  BY DEF TypeOK, MadeByDone, ArgsSound, ResetsSound, Ok
<1>11. ReadsSound'
  BY DEF TypeOK, MadeByDone, ArgsSound, ReadsSound
<1>. QED  BY <1>1, <1>2, <1>3, <1>4, <1>5, <1>6, <1>7, <1>8, <1>9, <1>10, <1>11

LEMMA ReadUserInv ==
  ASSUME IInv, NEW r \in Requests, ReadUser(r)
  PROVE  IInv'
<1>. USE DEF IInv, ReadUser, Return, call, tables, work
<1>1. TypeOK'
  BY DEF TypeOK, ArgsSound, Ops
<1>2. MadeByDone'
  BY DEF TypeOK, MadeByDone, ArgsSound, Issued, Exchanges, Ops
<1>3. ArgsSound'
  BY DEF TypeOK, MadeByDone, ArgsSound, Issued, Exchanges
<1>4. UsedSound'
  BY DEF TypeOK, MadeByDone, ArgsSound, UsedSound, Issued, Ok, Exchanges
<1>5. ExchangedOnce'
  BY DEF TypeOK, MadeByDone, ArgsSound, UsedSound, ExchangedOnce, Ok, Exchanges
<1>6. OneLiveToken'
  BY DEF TypeOK, MadeByDone, ArgsSound, UsedSound, OneLiveToken, Issued, Exchanges
<1>7. AccountsSound'
  BY DEF TypeOK, MadeByDone, ArgsSound, AccountsSound, Made, Exchanges
<1>8. WritesSound'
  BY DEF TypeOK, MadeByDone, ArgsSound, WritesSound
<1>9. RevocationsHold'
  BY DEF TypeOK, MadeByDone, ArgsSound, WritesSound, RevocationsHold, Target, Ok, Issued, Exchanges
<1>10. ResetsSound'
  BY DEF TypeOK, MadeByDone, ArgsSound, ResetsSound, Ok
<1>11. ReadsSound'
  BY DEF TypeOK, MadeByDone, ArgsSound, ReadsSound
<1>. QED  BY <1>1, <1>2, <1>3, <1>4, <1>5, <1>6, <1>7, <1>8, <1>9, <1>10, <1>11

LEMMA UpdateAllInv ==
  ASSUME IInv, NEW r \in Requests, UpdateAll(r)
  PROVE  IInv'
<1>. USE DEF IInv, UpdateAll, Return, call, tables, work, Locked
<1>1. TypeOK'
  BY DEF TypeOK, Ops
<1>2. MadeByDone'
  BY DEF TypeOK, MadeByDone, ArgsSound, Issued, Exchanges, Ops
<1>3. ArgsSound'
  BY DEF TypeOK, MadeByDone, ArgsSound, Issued, Exchanges
<1>4. UsedSound'
  BY DEF TypeOK, MadeByDone, ArgsSound, UsedSound, Issued, Ok, Exchanges
<1>5. ExchangedOnce'
  BY DEF TypeOK, MadeByDone, ArgsSound, UsedSound, ExchangedOnce, Ok, Exchanges
<1>6. OneLiveToken'
  BY DEF TypeOK, MadeByDone, ArgsSound, UsedSound, OneLiveToken, Issued, Exchanges
<1>7. AccountsSound'
  BY DEF TypeOK, MadeByDone, ArgsSound, AccountsSound, Made, Exchanges
<1>8. WritesSound'
  BY DEF TypeOK, MadeByDone, ArgsSound, WritesSound
<1>9. RevocationsHold'
  BY DEF TypeOK, MadeByDone, ArgsSound, WritesSound, RevocationsHold, Target, Ok, Issued, Exchanges
<1>10. ResetsSound'
  BY DEF TypeOK, MadeByDone, ArgsSound, ResetsSound, Ok
<1>11. ReadsSound'
  BY DEF TypeOK, MadeByDone, ArgsSound, ReadsSound
<1>. QED  BY <1>1, <1>2, <1>3, <1>4, <1>5, <1>6, <1>7, <1>8, <1>9, <1>10, <1>11

LEMMA CommitResetInv ==
  ASSUME IInv, NEW r \in Requests, CommitReset(r)
  PROVE  IInv'
<1>. USE DEF IInv, CommitReset, Return, call, tables, RevokeIn, Readers
<1>0. account' \in [Users -> {"none", "active", "disabled"}]
  BY DEF TypeOK, ArgsSound
<1>1. TypeOK'
  BY <1>0 DEF TypeOK, Ops
<1>2. MadeByDone'
  BY DEF TypeOK, MadeByDone, ArgsSound, Issued, Exchanges, Ops
<1>3. ArgsSound'
  BY DEF TypeOK, MadeByDone, ArgsSound, Issued, Exchanges
<1>4. UsedSound'
  BY DEF TypeOK, MadeByDone, ArgsSound, UsedSound, Issued, Ok, Exchanges
<1>5. ExchangedOnce'
  BY DEF TypeOK, MadeByDone, ArgsSound, UsedSound, ExchangedOnce, Ok, Exchanges
<1>6. OneLiveToken'
  BY DEF TypeOK, MadeByDone, ArgsSound, UsedSound, OneLiveToken, Issued, Exchanges
<1>7. AccountsSound'
  BY DEF TypeOK, MadeByDone, ArgsSound, ReadsSound, AccountsSound, Made, Exchanges
<1>8. WritesSound'
  BY DEF TypeOK, MadeByDone, ArgsSound, WritesSound
<1>9. RevocationsHold'
  BY DEF TypeOK, MadeByDone, ArgsSound, WritesSound, RevocationsHold, Target, Ok, Issued, Exchanges
<1>10. ResetsSound'
  BY DEF TypeOK, MadeByDone, ArgsSound, ResetsSound, Ok
<1>11. ReadsSound'
  <2>1. saw[r] \in {"active", "disabled"} /\ user[r] \in Users
    BY DEF TypeOK, ArgsSound, ReadsSound
  <2>2. account'[user[r]] = saw[r] /\ \A u \in Users \ {user[r]} : account'[u] = account[u]
    BY <2>1 DEF TypeOK
  <2>3. ASSUME NEW q \in Requests, pc'[q] \in {"read", "updated"}
        PROVE  /\ saw'[q] # "none" /\ account'[user'[q]] # "none"
               /\ saw'[q] = "active" /\ account'[user'[q]] # "active" => q \in stale'
    <3>1. q # r /\ pc[q] = pc'[q] /\ user[q] \in Users
      BY <2>3 DEF TypeOK, ArgsSound
    <3>2. CASE user[q] = user[r]
      BY <2>1, <2>2, <2>3, <3>1, <3>2 DEF ReadsSound
    <3>3. CASE user[q] # user[r]
      BY <2>1, <2>2, <2>3, <3>1, <3>3 DEF ReadsSound
    <3>. QED  BY <3>2, <3>3
  <2>4. ASSUME NEW q \in Requests, pc'[q] = "checked", op'[q] = "reset"
        PROVE  account'[user'[q]] # "none"
    BY <2>1, <2>2, <2>4 DEF TypeOK, ArgsSound, ReadsSound
  <2>5. \A p, q \in Requests :
            pc'[p] = "updated" /\ pc'[q] = "updated" /\ user'[p] = user'[q] => p = q
    BY DEF TypeOK, ReadsSound
  <2>. QED  BY <2>3, <2>4, <2>5 DEF ReadsSound
<1>. QED  BY <1>1, <1>2, <1>3, <1>4, <1>5, <1>6, <1>7, <1>8, <1>9, <1>10, <1>11

\* An open reset has read the account as active, which it still is.
Read(r) == pc[r] \in {"read", "updated"} /\ saw[r] = "active" /\ account[user[r]] = "active"

\* A step that only an account or the clock takes.
LEMMA FrameInv ==
  ASSUME IInv, UNCHANGED <<password, session, used, resets, pc, call, saw, writes, family, answer>>,
         account' \in [Users -> {"none", "active", "disabled"}], expired' \subseteq Requests,
         \A u \in Users : account[u] # "none" => account'[u] # "none",
         stale \subseteq stale', stale' \subseteq Requests,
         \A r \in Requests : Read(r) /\ account'[user[r]] # "active" => r \in stale'
  PROVE  IInv'
<1>. USE DEF IInv, call
<1>1. TypeOK'
  BY DEF TypeOK, Ops
<1>2. MadeByDone'
  BY DEF TypeOK, MadeByDone, ArgsSound, Issued, Exchanges, Ops
<1>3. ArgsSound'
  BY DEF TypeOK, MadeByDone, ArgsSound, Issued, Exchanges
<1>4. UsedSound'
  BY DEF TypeOK, MadeByDone, ArgsSound, UsedSound, Issued, Ok, Exchanges
<1>5. ExchangedOnce'
  BY DEF TypeOK, MadeByDone, ArgsSound, UsedSound, ExchangedOnce, Ok, Exchanges
<1>6. OneLiveToken'
  BY DEF TypeOK, MadeByDone, ArgsSound, UsedSound, OneLiveToken, Issued, Exchanges
<1>7. AccountsSound'
  BY DEF TypeOK, MadeByDone, ArgsSound, AccountsSound, Made, Exchanges
<1>8. WritesSound'
  BY DEF TypeOK, MadeByDone, ArgsSound, WritesSound
<1>9. RevocationsHold'
  BY DEF TypeOK, MadeByDone, ArgsSound, WritesSound, RevocationsHold, Target, Ok, Issued, Exchanges
<1>10. ResetsSound'
  BY DEF TypeOK, MadeByDone, ArgsSound, ResetsSound, Ok
<1>11. ReadsSound'
  BY DEF TypeOK, MadeByDone, ArgsSound, ReadsSound, Read
<1>. QED  BY <1>1, <1>2, <1>3, <1>4, <1>5, <1>6, <1>7, <1>8, <1>9, <1>10, <1>11

LEMMA GoOnInv ==
  ASSUME IInv, NEW r \in Requests, NEW o \in Ops, NEW u \in Users,
         NEW t \in Requests \cup {NoRequest}, NEW next \in {"checked", "saved", "reused"},
         GoOn(r, o, u, t, next),
         o \in Exchanges \cup {"logout", "revoke_token"} => t \in Issued,
         o = "revoke" => t \in Requests /\ pc[t] = "done",
         o = "reset" => t \in Requests /\ resets[t] = "valid" /\ account[u] # "none",
         next = "saved" => o \in {"login", "create"},
         next = "reused" => o \in Exchanges
  PROVE  IInv'
<1>1. answer' = [answer EXCEPT ![r] = "none"]
  BY DEF GoOn, Begin, IInv, TypeOK, MadeByDone
<1>2. Begin(r, o, u, t, next) /\ next # "done"
  BY DEF GoOn
<1>3. /\ "none" = "ok" => o = "forgot"
      /\ o = "revoke" /\ next = "checked" => t \in Requests /\ pc[t] = "done"
      /\ o = "reset" => t \in Requests
      /\ o = "reset" /\ next = "checked" => resets[t] = "valid" /\ account[u] # "none"
  OBVIOUS
<1>4. CASE next = "checked"
  BY <1>1, <1>2, <1>3, <1>4, BeginInv
<1>5. CASE next = "saved"
  BY <1>1, <1>2, <1>3, <1>5, BeginInv
<1>6. CASE next = "reused"
  BY <1>1, <1>2, <1>3, <1>6, BeginInv
<1>. QED  BY <1>4, <1>5, <1>6

LEMMA RefuseInv ==
  ASSUME IInv, NEW r \in Requests, NEW o \in Ops, NEW u \in Users,
         NEW t \in Requests \cup {NoRequest}, Refuse(r, o, u, t),
         o \in Exchanges \cup {"logout", "revoke_token"} => t \in Issued,
         o = "reset" => t \in Requests
  PROVE  IInv'
  BY BeginInv DEF Refuse

\* The first statements, one by one.
LEMMA StartInv ==
  ASSUME IInv, NEW r \in Requests,
         \/ \E u \in Users : \/ Register(r, u) \/ CreateTokens(r, u) \/ Forgot(r, u)
                             \/ \E p \in {"old", "new"} : Login(r, u, p)
         \/ \E t \in Requests : \/ \E o \in {"refresh", "provider"} : Refresh(r, o, t)
                                \/ RevokeToken(r, t)
                                \/ resets[t] # "none" /\ Reset(r, t)
                                \/ \E u \in Users : Logout(r, u, t) \/ RevokeSession(r, u, t)
  PROVE  IInv'
<1>. USE DEF Ops, Exchanges
<1>1. ASSUME NEW u \in Users, Register(r, u) PROVE IInv'
  BY <1>1, GoOnInv, RefuseInv DEF Register
<1>2. ASSUME NEW u \in Users, CreateTokens(r, u) PROVE IInv'
  BY <1>2, GoOnInv DEF CreateTokens
<1>3. ASSUME NEW u \in Users, Forgot(r, u) PROVE IInv'
  <2>1. CASE GoOn(r, "forgot", u, NoRequest, "checked")
    BY <2>1, GoOnInv
  <2>2. CASE Begin(r, "forgot", u, NoRequest, "done") /\ answer' = [answer EXCEPT ![r] = "ok"]
    BY <2>2, BeginInv
  <2>. QED  BY <1>3, <2>1, <2>2 DEF Forgot
<1>4. ASSUME NEW u \in Users, NEW p, Login(r, u, p) PROVE IInv'
  BY <1>4, GoOnInv, RefuseInv DEF Login
<1>5. ASSUME NEW t \in Requests, NEW o \in {"refresh", "provider"}, Refresh(r, o, t) PROVE IInv'
  <2>1. user[t] \in Users
    BY <1>5 DEF Refresh, Issued, IInv, MadeByDone
  <2>. QED  BY <1>5, <2>1, GoOnInv, RefuseInv DEF Refresh
<1>6. ASSUME NEW t \in Requests, RevokeToken(r, t) PROVE IInv'
  <2>1. user[t] \in Users
    BY <1>6 DEF RevokeToken, Issued, IInv, MadeByDone
  <2>2. CASE GoOn(r, "revoke_token", user[t], t, "checked")
    BY <1>6, <2>1, <2>2, GoOnInv DEF RevokeToken
  <2>3. CASE Nothing(r, "revoke_token", user[t], t)
    BY <1>6, <2>1, <2>3, BeginInv DEF RevokeToken, Nothing
  <2>. QED  BY <1>6, <2>2, <2>3 DEF RevokeToken
<1>7. ASSUME NEW t \in Requests, resets[t] # "none", Reset(r, t) PROVE IInv'
  <2>1. user[t] \in Users
    BY <1>7 DEF IInv, MadeByDone
  <2>. QED  BY <1>7, <2>1, GoOnInv, RefuseInv DEF Reset
<1>8. ASSUME NEW t \in Requests, NEW u \in Users, Logout(r, u, t) PROVE IInv'
  BY <1>8, GoOnInv, RefuseInv DEF Logout
<1>9. ASSUME NEW t \in Requests, NEW u \in Users, RevokeSession(r, u, t) PROVE IInv'
  <2>1. session[t] # "none" => pc[t] = "done"
    BY DEF IInv, MadeByDone
  <2>. QED  BY <1>9, <2>1, GoOnInv, RefuseInv DEF RevokeSession
<1>. QED  BY <1>1, <1>2, <1>3, <1>4, <1>5, <1>6, <1>7, <1>8, <1>9

LEMMA NextInv == IInv /\ [Next]_vars => IInv'
<1>. SUFFICES ASSUME IInv, [Next]_vars PROVE IInv'
  OBVIOUS
<1>0. account \in [Users -> {"none", "active", "disabled"}] /\ expired \subseteq Requests
  BY DEF IInv, TypeOK
<1>1. ASSUME NEW u \in Users, Deactivate(u) PROVE IInv'
  <2>1. \A r \in Requests : Read(r) /\ account'[user[r]] # "active" => r \in stale'
    <3>. SUFFICES ASSUME NEW r \in Requests, Read(r), account'[user[r]] # "active"
                  PROVE  r \in stale'
      OBVIOUS
    <3>1. user[r] = u
      BY <1>0, <1>1 DEF Deactivate, IInv, ArgsSound, Read
    <3>. QED  BY <1>1, <3>1 DEF Deactivate, Readers, Locked, Read
  <2>2. stale \subseteq stale' /\ stale' \subseteq Requests
    BY <1>1 DEF Deactivate, Readers, IInv, TypeOK
  <2>. QED  BY <1>0, <1>1, <2>1, <2>2, FrameInv DEF Deactivate, call
<1>2. ASSUME NEW t \in Requests, Expire(t) PROVE IInv'
  BY <1>0, <1>2, FrameInv DEF Expire, call, tables, work, IInv, TypeOK, Read
<1>3. ASSUME NEW r \in Requests,
             \/ Fail(r) \/ SaveUser(r) \/ OpenSession(r) \/ Exchange(r) \/ Reused(r)
             \/ RevokeFamily(r) \/ StoreReset(r) \/ ReadUser(r) \/ UpdateAll(r) \/ CommitReset(r)
      PROVE  IInv'
  BY <1>3, FailInv, SaveUserInv, OpenSessionInv, ExchangeInv, ReusedInv, RevokeFamilyInv,
     StoreResetInv, ReadUserInv, UpdateAllInv, CommitResetInv
<1>4. CASE UNCHANGED vars
  BY <1>0, <1>4, FrameInv DEF vars, call, tables, work, IInv, TypeOK, Read
<1>. QED  BY <1>1, <1>2, <1>3, <1>4, StartInv DEF Next

LEMMA Invariance == Spec => []IInv
  BY InitInv, NextInv, PTL DEF Spec

\* Type correctness of the native authentication tables and requests.
THEOREM TypeCorrect == Spec => []TypeOK
  BY Invariance, PTL DEF IInv

\* A refresh token is exchanged once.
THEOREM TokensAreExchangedOnce == Spec => []ExchangedOnce
  BY Invariance, PTL DEF IInv

\* A token family has at most one refresh token that has not been used.
THEOREM FamiliesAreChains == Spec => []OneLiveToken
  BY Invariance, PTL DEF IInv

\* What a logout, a revocation, a reset or the detection of reuse has revoked
\* stays revoked.
THEOREM RevocationsLast == Spec => []RevocationsHold
  BY Invariance, PTL DEF IInv

\* An email address is registered once.
THEOREM AddressesAreRegisteredOnce == Spec => []RegisteredOnce
<1>1. IInv => RegisteredOnce
  BY DEF IInv, AccountsSound, RegisteredOnce, Made, Ok
<1>. QED  BY <1>1, Invariance, PTL

\* A disabled account comes back only through a reset that had read it before it
\* was disabled.
THEOREM DisabledForGood == Spec => OnlyStaleReadsRevive
<1>. DEFINE Revived(u) == account[u] = "disabled" /\ account'[u] = "active"
            Writes(u) == \E r \in stale : user[r] = u /\ pc[r] = "updated" /\ pc'[r] = "done"
<1>1. ASSUME IInv, [Next]_vars PROVE \A u \in Users : Revived(u) => Writes(u)
  <2>. SUFFICES ASSUME NEW u \in Users, Revived(u) PROVE Writes(u)
    OBVIOUS
  <2>1. ASSUME NEW r \in Requests, CommitReset(r) PROVE Writes(u)
    BY <1>1, <2>1 DEF CommitReset, Return, IInv, TypeOK, ArgsSound, ReadsSound
  <2>2. ASSUME NEW r \in Requests, SaveUser(r) PROVE FALSE
    BY <1>1, <2>2 DEF SaveUser, IInv, TypeOK
  <2>3. ASSUME NEW v \in Users, Deactivate(v) PROVE FALSE
    BY <1>1, <2>3 DEF Deactivate, IInv, TypeOK
  <2>4. ASSUME account' = account PROVE FALSE
    BY <2>4
  <2>5. ASSUME NEW r \in Requests,
               Fail(r) \/ OpenSession(r) \/ Exchange(r) \/ Reused(r) \/ RevokeFamily(r)
               \/ StoreReset(r) \/ ReadUser(r) \/ UpdateAll(r)
        PROVE  account' = account
    BY <2>5 DEF Fail, OpenSession, Exchange, Reused, RevokeFamily, StoreReset, ReadUser, UpdateAll, tables
  <2>6. ASSUME NEW r \in Requests,
               \/ \E v \in Users : \/ Register(r, v) \/ CreateTokens(r, v) \/ Forgot(r, v)
                                   \/ \E p \in {"old", "new"} : Login(r, v, p)
               \/ \E t \in Requests : \/ \E o \in {"refresh", "provider"} : Refresh(r, o, t)
                                      \/ RevokeToken(r, t)
                                      \/ resets[t] # "none" /\ Reset(r, t)
                                      \/ \E v \in Users : Logout(r, v, t) \/ RevokeSession(r, v, t)
        PROVE  account' = account
    BY <2>6 DEF Register, CreateTokens, Forgot, Login, Refresh, RevokeToken, Reset, Logout,
                RevokeSession, Nothing, GoOn, Refuse, Begin, tables, work
  <2>7. ASSUME NEW t \in Requests, Expire(t) PROVE account' = account
    BY <2>7 DEF Expire, tables
  <2>8. UNCHANGED vars => account' = account
    BY DEF vars, tables
  <2>. QED  BY <1>1, <2>1, <2>2, <2>3, <2>4, <2>5, <2>6, <2>7, <2>8 DEF Next
<1>2. IInv /\ [Next]_vars
          => [\A u \in Users : account[u] = "disabled" /\ account'[u] = "active"
                 => \E r \in stale : user[r] = u /\ pc[r] = "updated" /\ pc'[r] = "done"]_vars
  BY <1>1
<1>. QED  BY <1>2, Invariance, PTL DEF Spec, OnlyStaleReadsRevive

\* A reset token that was used is refused.
THEOREM ResetTokensAreUsedOnce == Spec => []ResetOnce
<1>1. IInv => ResetOnce
  BY DEF IInv, ResetsSound, ResetOnce, Ok
<1>. QED  BY <1>1, Invariance, PTL
=============================================================================
