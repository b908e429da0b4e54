------------------------------ MODULE Sessions ------------------------------
(***************************************************************************)
(* The authentication sessions of one account: logging in, rotating        *)
(* refresh tokens, logging out and changing the password                   *)
(* (AuthenticationService with the routes that commit or roll back for     *)
(* it, and the set_password command).                                      *)
(*                                                                         *)
(* A request is a transaction that may run in another worker process, so   *)
(* what a step holds is only what the database locks.  A login and a       *)
(* password change both write the user's row, so of two such commits one   *)
(* waits for the other: each is one step here, after the step that read    *)
(* the row.  A token is presented by whoever holds it, at any time after   *)
(* it was issued: answers may be lost and requests repeated or delayed.    *)
(*                                                                         *)
(* A login with a wrong password changes nothing: _record_failed_login     *)
(* counts it, but the route rolls the transaction back, so locked_until is *)
(* never set and is not part of the state.                                 *)
(***************************************************************************)
EXTENDS Naturals

CONSTANTS
    Passwords,
    Formats,     \* of {"current", "outdated"}: formats of the first stored hash
    SessionIds,  \* ids, each of which is given to one row at most
    MaxTokens,   \* bound on the refresh tokens ever issued
    Requests,
    NoPassword, NoSession

ASSUME FormatsAssumption == Formats \subseteq {"current", "outdated"}
ASSUME TokensAssumption == MaxTokens \in Nat
ASSUME NothingAssumption == NoPassword \notin Passwords /\ NoSession \notin SessionIds

VARIABLES
    stored,      \* the user's password_hash: which password, in which format
    status,      \* status[s]: "none" (no row), "active", "expired" or "revoked"
    current,     \* current[s]: the token that refresh_jti_hash stands for
    issued,      \* refresh tokens issued so far: 1..issued
    owner,       \* owner[t]: the session of token t
    replaces,    \* replaces[t]: the token t was issued for, 0 for a login's
    openedWith,  \* openedWith[s]: the password that opened s
    reused,      \* sessions whose replaced token was presented and looked at
    request      \* request[r]: what request r does and has read so far

vars == <<stored, status, current, issued, owner, replaces, openedWith, reused, request>>

\* What only the properties speak of.
history == <<owner, replaces, openedWith, reused>>
----------------------------------------------------------------------------
Tokens == 1..MaxTokens

Statuses == {"none", "active", "expired", "revoked"}

RequestState == [step : {"idle", "login", "rotate", "change"},
                 session : SessionIds \cup {NoSession},
                 token : 0..MaxTokens,
                 password : Passwords \cup {NoPassword},
                 rehash : BOOLEAN]

Idle == [step |-> "idle", session |-> NoSession, token |-> 0,
         password |-> NoPassword, rehash |-> FALSE]

TypeOK ==
    /\ stored \in [password : Passwords, format : {"current", "outdated"}]
    /\ status \in [SessionIds -> Statuses]
    /\ current \in [SessionIds -> 0..issued]
    /\ issued \in 0..MaxTokens
    /\ owner \in [Tokens -> SessionIds \cup {NoSession}]
    /\ replaces \in [Tokens -> 0..MaxTokens]
    /\ openedWith \in [SessionIds -> Passwords \cup {NoPassword}]
    /\ reused \subseteq SessionIds
    /\ request \in [Requests -> RequestState]

Init ==
    /\ stored \in [password : Passwords, format : Formats]
    /\ status = [s \in SessionIds |-> "none"]
    /\ current = [s \in SessionIds |-> 0]
    /\ issued = 0
    /\ owner = [t \in Tokens |-> NoSession]
    /\ replaces = [t \in Tokens |-> 0]
    /\ openedWith = [s \in SessionIds |-> NoPassword]
    /\ reused = {}
    /\ request = [r \in Requests |-> Idle]
----------------------------------------------------------------------------
Begin(r, state) == request[r] = Idle /\ request' = [request EXCEPT ![r] = state]

End(r) == request' = [request EXCEPT ![r] = Idle]

\* The lock that _load_refresh_session takes, held until the rotation's commit.
NoRowLock(s) == TRUE            \* mutant: no with_for_update

RowFree(s) == \A r \in Requests : ~(request[r].step = "rotate" /\ request[r].session = s)

IssueUnstored(s, old) ==         \* mutant: refresh_jti_hash is of another token
    /\ issued < MaxTokens
    /\ issued' = issued + 1
    /\ current' = [current EXCEPT ![s] = issued + 2]
    /\ owner' = [owner EXCEPT ![issued + 1] = s]
    /\ replaces' = [replaces EXCEPT ![issued + 1] = old]

\* _issue_token_pair: a new token becomes the current one of session s.
IssueToken(s, old) ==
    /\ issued < MaxTokens
    /\ issued' = issued + 1
    /\ current' = [current EXCEPT ![s] = issued + 1]
    /\ owner' = [owner EXCEPT ![issued + 1] = s]
    /\ replaces' = [replaces EXCEPT ![issued + 1] = old]
----------------------------------------------------------------------------
(***************************************************************************)
(* login: the password is verified against the hash that was read; the     *)
(* commit inserts a session and, if the hash was of an outdated format,    *)
(* writes the same password hashed anew.                                   *)
(***************************************************************************)
StartLogin(r, p) ==
    /\ p = stored.password
    /\ Begin(r, [Idle EXCEPT !.step = "login", !.password = p,
                             !.rehash = (stored.format = "outdated")])
    /\ UNCHANGED <<stored, status, current, issued, history>>

LoginCommit(r) ==
    /\ request[r].step = "login"
    /\ \E s \in SessionIds :
          /\ status[s] = "none"
          /\ status' = [status EXCEPT ![s] = "active"]
          /\ openedWith' = [openedWith EXCEPT ![s] = request[r].password]
          /\ IssueToken(s, 0)
    /\ stored' = IF request[r].rehash
                 THEN [password |-> request[r].password, format |-> "current"]
                 ELSE stored
    /\ End(r)
    /\ UNCHANGED reused
----------------------------------------------------------------------------
(***************************************************************************)
(* refresh: the row of the token's session is locked, and the lock held    *)
(* until the commit that replaces the token.  A session that is over is    *)
(* refused, which changes nothing.                                         *)
(***************************************************************************)
\* The route commits a revocation for reuse; it rolls back every other refusal.
ReuseForgotten(s) == status             \* mutant: the route rolls back here too

RevokedForReuse(s) == [status EXCEPT ![s] = "revoked"]

\* _load_refresh_session, of a request that presents token t.
LoadSession(r, t) ==
    LET s == owner[t] IN
    /\ request[r] = Idle
    /\ t <= issued
    /\ RowFree(s)
    /\ status[s] = "active"
    /\ \/ /\ current[s] # t
          /\ status' = RevokedForReuse(s)
          /\ reused' = reused \cup {s}
          /\ UNCHANGED request
       \/ /\ current[s] = t
          /\ Begin(r, [Idle EXCEPT !.step = "rotate", !.session = s, !.token = t])
          /\ UNCHANGED <<status, reused>>
    /\ UNCHANGED <<stored, current, issued, owner, replaces, openedWith>>

\* The commit writes refresh_jti_hash and last_refreshed_at, and no other column.
Extended(s) == [status EXCEPT ![s] = "active"]  \* mutant: a rotation extends expires_at

StatusKept(s) == status

Rotate(r) ==
    LET s == request[r].session IN
    /\ request[r].step = "rotate"
    /\ IssueToken(s, request[r].token)
    /\ status' = StatusKept(s)
    /\ End(r)
    /\ UNCHANGED <<stored, openedWith, reused>>
----------------------------------------------------------------------------
\* revoke_session: the access token names the session, whatever its state.
Logout(s) ==
    /\ status[s] \in {"active", "expired"}
    /\ RowFree(s)
    /\ status' = [status EXCEPT ![s] = "revoked"]
    /\ UNCHANGED <<stored, current, issued, history, request>>

\* expires_at passes.
Expire(s) ==
    /\ status[s] = "active"
    /\ status' = [status EXCEPT ![s] = "expired"]
    /\ UNCHANGED <<stored, current, issued, history, request>>
----------------------------------------------------------------------------
(***************************************************************************)
(* change_password, from a browser whose session is active: the current    *)
(* password is verified against the hash that was read.                    *)
(***************************************************************************)
StartChange(r, s, old, new) ==
    /\ status[s] = "active"
    /\ old = stored.password /\ new # old
    /\ Begin(r, [Idle EXCEPT !.step = "change", !.session = s, !.password = new])
    /\ UNCHANGED <<stored, status, current, issued, history>>

\* revoke_all_sessions: every row with revoked_at IS NULL, once the rotations
\* that hold one of them have committed.
OnlyOneRevoked(s) == [status EXCEPT ![s] = "revoked"]  \* mutant: only the caller's session

AllRevoked(s) ==
    [i \in SessionIds |-> IF status[i] = "none" THEN "none" ELSE "revoked"]

ChangeCommit(r) ==
    /\ request[r].step = "change"
    /\ \A s \in SessionIds : RowFree(s)
    /\ stored' = [password |-> request[r].password, format |-> "current"]
    /\ status' = AllRevoked(request[r].session)
    /\ End(r)
    /\ UNCHANGED <<current, issued, history>>

\* commands/set_password.py: reset_password by an administrator.
ResetPassword(new) ==
    /\ \A s \in SessionIds : RowFree(s)
    /\ new # stored.password
    /\ stored' = [password |-> new, format |-> "current"]
    /\ status' = AllRevoked(NoSession)
    /\ UNCHANGED <<current, issued, history, request>>

\* The transaction is rolled back before its commit.
Abort(r) ==
    /\ request[r] # Idle
    /\ End(r)
    /\ UNCHANGED <<stored, status, current, issued, history>>
----------------------------------------------------------------------------
Start(r) ==
    \/ \E p \in Passwords : StartLogin(r, p)
    \/ \E t \in Tokens : LoadSession(r, t)
    \/ \E s \in SessionIds, old, new \in Passwords : StartChange(r, s, old, new)

Advance(r) ==
    \/ LoginCommit(r) \/ Rotate(r) \/ ChangeCommit(r)
    \/ Abort(r)

Next ==
    \/ \E r \in Requests : Start(r) \/ Advance(r)
    \/ \E s \in SessionIds : Logout(s) \/ Expire(s)
    \/ \E new \in Passwords : ResetPassword(new)

Spec == Init /\ [][Next]_vars
----------------------------------------------------------------------------
\* A refresh token is exchanged at most once, however many requests present
\* it at the same time.
ExchangedOnce ==
    \A t1, t2 \in 1..issued : replaces[t1] = replaces[t2] /\ replaces[t1] # 0 => t1 = t2

\* A session that is over never comes back: not by a rotation that read it
\* before a logout, a password change or its expiry.
OverForGood ==
    [][\A s \in SessionIds :
          status[s] \in {"expired", "revoked"} => status'[s] # "active"]_vars

\* Once a replaced token has been presented, its session is over, and with it
\* every token of that session.
ReuseEndsSession == \A s \in reused : status[s] # "active"

\* A login that rehashes writes the password it has read, be it an old one.
PutsBackOldPassword ==
    \E r \in Requests : /\ request[r].rehash /\ request'[r] = Idle
                       /\ stored'.password = request[r].password

\* A step that changes the password ends every session there is: no browser
\* stays signed in with a session older than the password.
ChangeEndsSessions ==
    [][stored'.password # stored.password /\ ~PutsBackOldPassword =>
          \A s \in SessionIds : status[s] = "active" => status'[s] # "active"]_vars

\* README.md names password-change revocation as a purpose of the session
\* rows: every active session was opened with the current password.
SessionsHaveCurrentPassword ==
    \A s \in SessionIds : status[s] = "active" => openedWith[s] = stored.password
============================================================================
