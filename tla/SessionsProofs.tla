---------------------------- MODULE SessionsProofs ----------------------------
(***************************************************************************)
(* Theorems about Sessions, for any sessions, passwords, requests and      *)
(* number of tokens.  A token is exchanged once because a session's newest *)
(* token is the current one (Newest), a rotation that holds the row still  *)
(* presents it (Rotating), and only one rotation holds the row (Single).   *)
(***************************************************************************)
EXTENDS Sessions, TLAPS

\* Every token was issued to a session that has a row.
Issued == \A t \in 1..issued : owner[t] \in SessionIds /\ status[owner[t]] # "none"

\* No token of a session is newer than its current one.
Newest == \A t \in 1..issued : t <= current[owner[t]]

\* A token replaces an older one of its own session.
Chain ==
    \A t \in 1..issued : replaces[t] # 0 =>
        replaces[t] \in 1..issued /\ owner[replaces[t]] = owner[t] /\ replaces[t] < t

\* What _load_refresh_session has read is true until the rotation's commit.
Rotating ==
    \A r \in Requests : request[r].step = "rotate" =>
        /\ request[r].session \in SessionIds
        /\ request[r].token \in 1..issued
        /\ owner[request[r].token] = request[r].session
        /\ current[request[r].session] = request[r].token

Single ==
    \A r1, r2 \in Requests :
        /\ request[r1].step = "rotate" /\ request[r2].step = "rotate"
        /\ request[r1].session = request[r2].session
        => r1 = r2

\* The request of a password change or a login names a password.
Knowing ==
    \A r \in Requests : request[r].step \in {"login", "change"} => request[r].password \in Passwords

\* A session whose replaced token was looked at is over.
ReusedIsOver == \A s \in reused : status[s] \in {"expired", "revoked"}

Tokenwise == Issued /\ Newest /\ Chain /\ Rotating /\ Single

IInv == TypeOK /\ Knowing /\ Tokenwise /\ ReusedIsOver /\ ExchangedOnce
----------------------------------------------------------------------------
LEMMA Numbers == MaxTokens \in Nat /\ NoSession \notin SessionIds
  BY TokensAssumption, NothingAssumption

LEMMA IdleLemma == Idle \in RequestState /\ Idle.step = "idle"
  BY Numbers DEF Idle, RequestState

LEMMA InitLemma == Init => IInv
  <1> SUFFICES ASSUME Init PROVE IInv
    OBVIOUS
  <1> USE Numbers, IdleLemma
  <1>1. TypeOK
    <2>1. stored \in [password : Passwords, format : {"current", "outdated"}]
      BY FormatsAssumption DEF Init
    <2>2. /\ issued \in 0..MaxTokens
          /\ current \in [SessionIds -> 0..issued]
          /\ replaces \in [Tokens -> 0..MaxTokens]
      BY DEF Init
    <2>3. /\ status \in [SessionIds -> Statuses]
          /\ owner \in [Tokens -> SessionIds \cup {NoSession}]
          /\ openedWith \in [SessionIds -> Passwords \cup {NoPassword}]
          /\ reused \subseteq SessionIds
      BY DEF Init, Statuses
    <2>4. request \in [Requests -> RequestState]
      BY DEF Init
    <2> QED  BY <2>1, <2>2, <2>3, <2>4 DEF TypeOK
  <1>2. Knowing /\ Rotating /\ Single
    BY DEF Init, Knowing, Rotating, Single
  <1>3. Issued /\ Newest /\ Chain /\ ReusedIsOver /\ ExchangedOnce
    BY DEF Init, Issued, Newest, Chain, ReusedIsOver, ExchangedOnce
  <1> QED  BY <1>1, <1>2, <1>3 DEF IInv, Tokenwise

\* A request that ends, or begins something other than a rotation, disturbs no other.
LEMMA EndLemma ==
    ASSUME IInv, NEW r \in Requests, End(r)
    PROVE  /\ request' \in [Requests -> RequestState]
           /\ \A q \in Requests : request'[q].step # "idle" => q # r /\ request'[q] = request[q]
  BY IdleLemma DEF IInv, TypeOK, End

LEMMA BeginLemma ==
    ASSUME IInv, NEW r \in Requests, NEW state \in RequestState, Begin(r, state)
    PROVE  /\ request' \in [Requests -> RequestState]
           /\ request'[r] = state
           /\ \A q \in Requests \ {r} : request'[q] = request[q]
  BY DEF IInv, TypeOK, Begin

\* What a step needs that leaves the tokens alone: no session loses its row, no
\* rotation begins, and no session that is over comes back.
LEMMA QuietLemma ==
    ASSUME IInv, TypeOK', Knowing',
           UNCHANGED <<current, issued, owner, replaces>>,
           \A s \in SessionIds : status[s] # "none" => status'[s] # "none",
           \A q \in Requests : request'[q].step = "rotate" => request'[q] = request[q]
    PROVE  Tokenwise' /\ ExchangedOnce'
  <1>1. Issued'
    BY DEF IInv, Tokenwise, Issued
  <1>2. Newest' /\ Chain' /\ ExchangedOnce'
    BY DEF IInv, Tokenwise, Newest, Chain, ExchangedOnce
  <1>3. Rotating'
    BY DEF IInv, Tokenwise, Rotating
  <1>4. Single'
    BY DEF IInv, Tokenwise, Single
  <1> QED  BY <1>1, <1>2, <1>3, <1>4 DEF Tokenwise

LEMMA LoginLemma ==
    ASSUME IInv, NEW r \in Requests, LoginCommit(r)
    PROVE  IInv'
  <1> USE Numbers
  <1>1. PICK s \in SessionIds :
            /\ status[s] = "none"
            /\ status' = [status EXCEPT ![s] = "active"]
            /\ openedWith' = [openedWith EXCEPT ![s] = request[r].password]
            /\ IssueToken(s, 0)
    BY DEF LoginCommit
  <1> DEFINE n == issued + 1
  <1>2. /\ issued \in Nat /\ issued < MaxTokens /\ issued' = n /\ n \in Tokens
        /\ current \in [SessionIds -> 0..issued]
        /\ current' = [current EXCEPT ![s] = n]
        /\ owner \in [Tokens -> SessionIds \cup {NoSession}]
        /\ owner' = [owner EXCEPT ![n] = s]
        /\ replaces \in [Tokens -> 0..MaxTokens]
        /\ replaces' = [replaces EXCEPT ![n] = 0]
        /\ 1..issued \subseteq Tokens
    BY <1>1 DEF IssueToken, IInv, TypeOK, Tokens
  <1>3. /\ request' \in [Requests -> RequestState]
        /\ \A q \in Requests : request'[q].step # "idle" => q # r /\ request'[q] = request[q]
    BY EndLemma DEF LoginCommit
  <1>4. request[r].password \in Passwords
    BY DEF LoginCommit, IInv, Knowing
  <1>5. TypeOK'
    BY <1>1, <1>2, <1>3, <1>4 DEF LoginCommit, IInv, TypeOK, Statuses
  <1>6. Knowing'
    BY <1>3 DEF IInv, Knowing
  <1>7. \A t \in 1..issued : owner[t] # s
    BY <1>1 DEF IInv, Tokenwise, Issued
  <1>8. Issued'
    <2> SUFFICES ASSUME NEW t \in 1..n
                 PROVE  owner'[t] \in SessionIds /\ status'[owner'[t]] # "none"
      BY <1>2 DEF Issued
    <2>1. CASE t = n
      BY <1>1, <1>2, <2>1 DEF IInv, TypeOK
    <2>2. CASE t # n
      BY <1>1, <1>2, <2>2 DEF IInv, TypeOK, Tokenwise, Issued
    <2> QED  BY <2>1, <2>2
  <1>9. Newest'
    <2> SUFFICES ASSUME NEW t \in 1..n PROVE t <= current'[owner'[t]]
      BY <1>2 DEF Newest
    <2>1. CASE t = n
      BY <1>2, <2>1
    <2>2. CASE t # n
      BY <1>2, <1>7, <2>2 DEF IInv, Tokenwise, Newest, Issued
    <2> QED  BY <2>1, <2>2
  <1>10. Chain'
    <2> SUFFICES ASSUME NEW t \in 1..n, replaces'[t] # 0
                 PROVE  /\ replaces'[t] \in 1..n /\ owner'[replaces'[t]] = owner'[t]
                        /\ replaces'[t] < t
      BY <1>2 DEF Chain
    <2>1. t \in 1..issued /\ replaces'[t] = replaces[t]
      BY <1>2
    <2> QED  BY <1>2, <2>1 DEF IInv, Tokenwise, Chain
  <1>11. Rotating'
    <2> SUFFICES ASSUME NEW q \in Requests, request'[q].step = "rotate"
                 PROVE  /\ request'[q].session \in SessionIds
                        /\ request'[q].token \in 1..n
                        /\ owner'[request'[q].token] = request'[q].session
                        /\ current'[request'[q].session] = request'[q].token
      BY <1>2 DEF Rotating
    <2>1. request'[q] = request[q]
      BY <1>3
    <2>2. /\ request[q].session \in SessionIds
          /\ request[q].token \in 1..issued
          /\ owner[request[q].token] = request[q].session
          /\ current[request[q].session] = request[q].token
      BY <2>1 DEF IInv, Tokenwise, Rotating
    <2> QED  BY <1>2, <1>7, <2>1, <2>2
  <1>12. Single'
    BY <1>3 DEF IInv, Tokenwise, Single
  <1>13. ReusedIsOver'
    BY <1>1 DEF LoginCommit, IInv, TypeOK, ReusedIsOver
  <1>14. ExchangedOnce'
    BY <1>2 DEF IInv, ExchangedOnce
  <1> QED
    BY <1>5, <1>6, <1>8, <1>9, <1>10, <1>11, <1>12, <1>13, <1>14 DEF IInv, Tokenwise

\* The token that a rotation presents has not been replaced yet.
LEMMA RotateLemma ==
    ASSUME IInv, NEW r \in Requests, Rotate(r)
    PROVE  IInv'
  <1> USE Numbers
  <1> DEFINE s == request[r].session
             old == request[r].token
             n == issued + 1
  <1>1. /\ s \in SessionIds /\ old \in 1..issued /\ owner[old] = s /\ current[s] = old
        /\ request[r].step = "rotate"
    BY DEF Rotate, IInv, Tokenwise, Rotating
  <1>2. /\ issued \in Nat /\ issued < MaxTokens /\ issued' = n /\ n \in Tokens
        /\ current \in [SessionIds -> 0..issued]
        /\ current' = [current EXCEPT ![s] = n]
        /\ owner \in [Tokens -> SessionIds \cup {NoSession}]
        /\ owner' = [owner EXCEPT ![n] = s]
        /\ replaces \in [Tokens -> 0..MaxTokens]
        /\ replaces' = [replaces EXCEPT ![n] = old]
        /\ 1..issued \subseteq Tokens
        /\ status' = status
    BY <1>1 DEF Rotate, IssueToken, StatusKept, IInv, TypeOK, Tokens
  <1>3. /\ request' \in [Requests -> RequestState]
        /\ \A q \in Requests : request'[q].step # "idle" => q # r /\ request'[q] = request[q]
    BY EndLemma DEF Rotate
  <1> HIDE DEF s, old
  <1>4. TypeOK'
    BY <1>1, <1>2, <1>3 DEF Rotate, IInv, TypeOK
  <1>5. Knowing'
    BY <1>3 DEF IInv, Knowing
  <1>6. status[s] # "none"
    BY <1>1 DEF IInv, Tokenwise, Issued
  <1>7. Issued'
    <2> SUFFICES ASSUME NEW t \in 1..n
                 PROVE  owner'[t] \in SessionIds /\ status'[owner'[t]] # "none"
      BY <1>2 DEF Issued
    <2>1. CASE t = n
      BY <1>1, <1>2, <1>6, <2>1
    <2>2. CASE t # n
      BY <1>2, <2>2 DEF IInv, Tokenwise, Issued
    <2> QED  BY <2>1, <2>2
  <1>8. Newest'
    <2> SUFFICES ASSUME NEW t \in 1..n PROVE t <= current'[owner'[t]]
      BY <1>2 DEF Newest
    <2>1. CASE t = n
      BY <1>1, <1>2, <2>1
    <2>2. CASE t # n
      <3>1. t \in 1..issued /\ owner'[t] = owner[t] /\ owner[t] \in SessionIds
            /\ t <= current[owner[t]]
        BY <1>2, <2>2 DEF IInv, Tokenwise, Newest, Issued
      <3> QED  BY <1>1, <1>2, <3>1
    <2> QED  BY <2>1, <2>2
  <1>9. Chain'
    <2> SUFFICES ASSUME NEW t \in 1..n, replaces'[t] # 0
                 PROVE  /\ replaces'[t] \in 1..n /\ owner'[replaces'[t]] = owner'[t]
                        /\ replaces'[t] < t
      BY <1>2 DEF Chain
    <2>1. CASE t = n
      BY <1>1, <1>2, <2>1
    <2>2. CASE t # n
      <3>1. /\ t \in 1..issued /\ replaces'[t] = replaces[t] /\ owner'[t] = owner[t]
            /\ replaces[t] \in 1..issued /\ owner[replaces[t]] = owner[t] /\ replaces[t] < t
        BY <1>2, <2>2 DEF IInv, Tokenwise, Chain
      <3> QED  BY <1>2, <3>1
    <2> QED  BY <2>1, <2>2
  <1>10. Rotating'
    <2> SUFFICES ASSUME NEW q \in Requests, request'[q].step = "rotate"
                 PROVE  /\ request'[q].session \in SessionIds
                        /\ request'[q].token \in 1..n
                        /\ owner'[request'[q].token] = request'[q].session
                        /\ current'[request'[q].session] = request'[q].token
      BY <1>2 DEF Rotating
    <2>1. q # r /\ request'[q] = request[q]
      BY <1>3
    <2>2. /\ request[q].session \in SessionIds
          /\ request[q].token \in 1..issued
          /\ owner[request[q].token] = request[q].session
          /\ current[request[q].session] = request[q].token
      BY <2>1 DEF IInv, Tokenwise, Rotating
    <2>3. request[q].session # s
      BY <1>1, <2>1 DEF IInv, Tokenwise, Single, s
    <2> QED  BY <1>1, <1>2, <2>1, <2>2, <2>3
  <1>11. Single'
    BY <1>3 DEF IInv, Tokenwise, Single
  <1>12. ReusedIsOver'
    BY <1>2 DEF Rotate, IInv, ReusedIsOver
  <1>13. ExchangedOnce'
    <2>1. ASSUME NEW t \in 1..issued PROVE replaces[t] # old
      <3>1. SUFFICES ASSUME replaces[t] = old PROVE FALSE
        OBVIOUS
      <3>2. owner[t] = s /\ old < t
        BY <1>1, <3>1 DEF IInv, Tokenwise, Chain
      <3>3. t <= current[s]
        BY <3>2 DEF IInv, Tokenwise, Newest
      <3> QED  BY <1>1, <1>2, <3>2, <3>3
    <2> SUFFICES ASSUME NEW t1 \in 1..n, NEW t2 \in 1..n,
                        replaces'[t1] = replaces'[t2], replaces'[t1] # 0
                 PROVE  t1 = t2
      BY <1>2 DEF ExchangedOnce
    <2> QED  BY <1>2, <2>1 DEF IInv, ExchangedOnce
  <1> QED
    BY <1>4, <1>5, <1>7, <1>8, <1>9, <1>10, <1>11, <1>12, <1>13 DEF IInv, Tokenwise

LEMMA RotationState ==
    ASSUME NEW s \in SessionIds, NEW t \in 1..MaxTokens
    PROVE  LET state == [Idle EXCEPT !.step = "rotate", !.session = s, !.token = t] IN
           /\ state \in RequestState
           /\ state.step = "rotate" /\ state.session = s /\ state.token = t
  <1>1. t \in 0..MaxTokens
    BY Numbers
  <1> QED  BY <1>1 DEF Idle, RequestState

LEMMA LoadLemma ==
    ASSUME IInv, NEW r \in Requests, NEW t \in Tokens, LoadSession(r, t)
    PROVE  IInv'
  <1> USE Numbers
  <1> DEFINE s == owner[t]
             state == [Idle EXCEPT !.step = "rotate", !.session = s, !.token = t]
  <1>1. /\ t \in 1..issued /\ s \in SessionIds /\ RowFree(s) /\ status[s] = "active"
        /\ UNCHANGED <<stored, current, issued, owner, replaces, openedWith>>
    BY DEF LoadSession, IInv, TypeOK, Tokens, Tokenwise, Issued
  <1>2. CASE current[s] # t /\ status' = RevokedForReuse(s) /\ reused' = reused \cup {s}
             /\ UNCHANGED request
    <2>1. status' = [status EXCEPT ![s] = "revoked"]
      BY <1>2 DEF RevokedForReuse
    <2>2. TypeOK' /\ Knowing'
      BY <1>1, <1>2, <2>1 DEF IInv, TypeOK, Statuses, Knowing
    <2>3. \A i \in SessionIds : status[i] # "none" => status'[i] # "none"
      BY <1>1, <2>1 DEF IInv, TypeOK
    <2>4. ReusedIsOver'
      BY <1>1, <1>2, <2>1 DEF IInv, TypeOK, ReusedIsOver
    <2> QED  BY <1>1, <1>2, <2>2, <2>3, <2>4, QuietLemma DEF IInv
  <1>3. CASE current[s] = t /\ Begin(r, state) /\ UNCHANGED <<status, reused>>
    <2>1. /\ state \in RequestState
          /\ state.step = "rotate" /\ state.session = s /\ state.token = t
      BY <1>1, RotationState DEF Tokens, Idle
    <2> HIDE DEF state
    <2>2. /\ request' \in [Requests -> RequestState]
          /\ request'[r] = state
          /\ \A q \in Requests \ {r} : request'[q] = request[q]
      BY <1>3, <2>1, BeginLemma
    <2>3. TypeOK' /\ Knowing'
      BY <1>1, <1>3, <2>1, <2>2 DEF IInv, TypeOK, Knowing
    <2>4. Issued' /\ Newest' /\ Chain' /\ ReusedIsOver' /\ ExchangedOnce'
      BY <1>1, <1>3 DEF IInv, Tokenwise, Issued, Newest, Chain, ReusedIsOver, ExchangedOnce
    <2>5. Rotating'
      BY <1>1, <1>3, <2>1, <2>2 DEF IInv, Tokenwise, Rotating
    <2>6. Single'
      BY <1>1, <2>1, <2>2 DEF IInv, Tokenwise, Single, RowFree
    <2> QED  BY <2>3, <2>4, <2>5, <2>6 DEF IInv, Tokenwise
  <1> HIDE DEF state
  <1> QED  BY <1>2, <1>3 DEF LoadSession, state

LEMMA NextLemma == IInv /\ [Next]_vars => IInv'
  <1> SUFFICES ASSUME IInv, [Next]_vars PROVE IInv'
    OBVIOUS
  <1> USE Numbers, IdleLemma
  <1>1. ASSUME NEW r \in Requests, NEW p \in Passwords, StartLogin(r, p) PROVE IInv'
    <2> DEFINE state == [Idle EXCEPT !.step = "login", !.password = p,
                                     !.rehash = (stored.format = "outdated")]
    <2>1. state \in RequestState /\ state.step = "login" /\ state.password = p
      BY DEF Idle, RequestState
    <2>2. Begin(r, state) /\ UNCHANGED <<stored, status, current, issued, history>>
      BY <1>1 DEF StartLogin
    <2> HIDE DEF state
    <2>3. TypeOK' /\ Knowing' /\ ReusedIsOver'
      BY <2>1, <2>2, BeginLemma DEF history, IInv, TypeOK, Knowing, ReusedIsOver
    <2> QED  BY <2>1, <2>2, <2>3, BeginLemma, QuietLemma DEF history, IInv
  <1>2. ASSUME NEW r \in Requests, NEW t \in Tokens, LoadSession(r, t) PROVE IInv'
    BY <1>2, LoadLemma
  <1>3. ASSUME NEW r \in Requests, NEW s \in SessionIds, NEW old \in Passwords,
               NEW new \in Passwords, StartChange(r, s, old, new)
        PROVE  IInv'
    <2> DEFINE state == [Idle EXCEPT !.step = "change", !.session = s, !.password = new]
    <2>1. state \in RequestState /\ state.step = "change" /\ state.password = new
      BY DEF Idle, RequestState
    <2>2. Begin(r, state) /\ UNCHANGED <<stored, status, current, issued, history>>
      BY <1>3 DEF StartChange
    <2> HIDE DEF state
    <2>3. TypeOK' /\ Knowing' /\ ReusedIsOver'
      BY <2>1, <2>2, BeginLemma DEF history, IInv, TypeOK, Knowing, ReusedIsOver
    <2> QED  BY <2>1, <2>2, <2>3, BeginLemma, QuietLemma DEF history, IInv
  <1>4. ASSUME NEW r \in Requests, LoginCommit(r) PROVE IInv'
    BY <1>4, LoginLemma
  <1>5. ASSUME NEW r \in Requests, Rotate(r) PROVE IInv'
    BY <1>5, RotateLemma
  <1>6. ASSUME NEW r \in Requests, ChangeCommit(r) PROVE IInv'
    <2>1. request[r].password \in Passwords
      BY <1>6 DEF ChangeCommit, IInv, Knowing
    <2>2. /\ request' \in [Requests -> RequestState]
          /\ \A q \in Requests : request'[q].step # "idle" => request'[q] = request[q]
      BY <1>6, EndLemma DEF ChangeCommit
    <2>3. TypeOK' /\ Knowing'
      BY <1>6, <2>1, <2>2
      DEF ChangeCommit, AllRevoked, history, IInv, TypeOK, Statuses, Knowing
    <2>4. \A s \in SessionIds : status[s] # "none" => status'[s] = "revoked"
      BY <1>6 DEF ChangeCommit, AllRevoked
    <2>5. ReusedIsOver'
      BY <1>6, <2>4 DEF ChangeCommit, history, IInv, TypeOK, ReusedIsOver
    <2> QED  BY <1>6, <2>2, <2>3, <2>4, <2>5, QuietLemma DEF ChangeCommit, history, IInv
  <1>7. ASSUME NEW r \in Requests, Abort(r) PROVE IInv'
    <2>1. TypeOK' /\ Knowing' /\ ReusedIsOver'
      BY <1>7, EndLemma DEF Abort, history, IInv, TypeOK, Knowing, ReusedIsOver
    <2> QED  BY <1>7, <2>1, EndLemma, QuietLemma DEF Abort, history, IInv
  <1>8. ASSUME NEW s \in SessionIds, Logout(s) \/ Expire(s) PROVE IInv'
    <2>1. /\ status' = [status EXCEPT ![s] = "revoked"] \/ status' = [status EXCEPT ![s] = "expired"]
          /\ status[s] \in {"active", "expired"}
          /\ UNCHANGED <<stored, current, issued, history, request>>
      BY <1>8 DEF Logout, Expire
    <2>2. TypeOK' /\ Knowing' /\ ReusedIsOver'
      BY <2>1 DEF history, IInv, TypeOK, Statuses, Knowing, ReusedIsOver
    <2>3. \A i \in SessionIds : status[i] # "none" => status'[i] # "none"
      BY <2>1 DEF IInv, TypeOK
    <2> QED  BY <2>1, <2>2, <2>3, QuietLemma DEF history, IInv
  <1>9. ASSUME NEW new \in Passwords, ResetPassword(new) PROVE IInv'
    <2>1. TypeOK' /\ Knowing'
      BY <1>9 DEF ResetPassword, AllRevoked, history, IInv, TypeOK, Statuses, Knowing
    <2>2. \A s \in SessionIds : status[s] # "none" => status'[s] = "revoked"
      BY <1>9 DEF ResetPassword, AllRevoked
    <2>3. ReusedIsOver'
      BY <1>9, <2>2 DEF ResetPassword, history, IInv, TypeOK, ReusedIsOver
    <2> QED  BY <1>9, <2>1, <2>2, <2>3, QuietLemma DEF ResetPassword, history, IInv
  <1>10. CASE UNCHANGED vars
    <2>1. TypeOK' /\ Knowing' /\ ReusedIsOver'
      BY <1>10 DEF vars, IInv, TypeOK, Knowing, ReusedIsOver
    <2> QED  BY <1>10, <2>1, QuietLemma DEF vars, IInv
  <1> QED
    BY <1>1, <1>2, <1>3, <1>4, <1>5, <1>6, <1>7, <1>8, <1>9, <1>10 DEF Next, Start, Advance
----------------------------------------------------------------------------
\* The invariant holds in every reachable state.
THEOREM Invariance == Spec => []IInv
  BY InitLemma, NextLemma, PTL DEF Spec

\* Every variable keeps its type.
THEOREM TypeCorrect == Spec => []TypeOK
  <1>1. IInv => TypeOK
    BY DEF IInv
  <1> QED  BY Invariance, <1>1, PTL

\* However many requests present a refresh token at the same time, one of them at
\* most is given a new one.
THEOREM TokensAreExchangedOnce == Spec => []ExchangedOnce
  <1>1. IInv => ExchangedOnce
    BY DEF IInv
  <1> QED  BY Invariance, <1>1, PTL

\* A session whose replaced token was presented is over, whatever else was going on.
THEOREM ReuseIsAnswered == Spec => []ReuseEndsSession
  <1>1. IInv => ReuseEndsSession
    BY DEF IInv, ReusedIsOver, ReuseEndsSession
  <1> QED  BY Invariance, <1>1, PTL

\* No rotation or login brings back a session that was ended or has expired.
THEOREM SessionsStayOver == Spec => OverForGood
  <1>1. ASSUME IInv, [Next]_vars, NEW s \in SessionIds, status[s] \in {"expired", "revoked"}
        PROVE  status'[s] # "active"
    <2>0. status \in [SessionIds -> Statuses] /\ owner \in [Tokens -> SessionIds \cup {NoSession}]
      BY <1>1 DEF IInv, TypeOK
    <2>1. ASSUME NEW r \in Requests, Start(r) PROVE status'[s] # "active"
      BY <1>1, <2>0, <2>1
      DEF Start, StartLogin, LoadSession, StartChange, RevokedForReuse
    <2>2. ASSUME NEW r \in Requests, Advance(r) PROVE status'[s] # "active"
      BY <1>1, <2>0, <2>2
      DEF Advance, LoginCommit, Rotate, StatusKept, ChangeCommit, AllRevoked, Abort
    <2>3. ASSUME NEW i \in SessionIds, Logout(i) \/ Expire(i) PROVE status'[s] # "active"
      BY <1>1, <2>0, <2>3 DEF Logout, Expire
    <2>4. ASSUME NEW new \in Passwords, ResetPassword(new) PROVE status'[s] # "active"
      BY <1>1, <2>4 DEF ResetPassword, AllRevoked
    <2>5. CASE UNCHANGED vars
      BY <1>1, <2>5 DEF vars
    <2> QED  BY <1>1, <2>1, <2>2, <2>3, <2>4, <2>5 DEF Next
  <1>2. IInv /\ [Next]_vars =>
            [\A s \in SessionIds :
                status[s] \in {"expired", "revoked"} => status'[s] # "active"]_vars
    BY <1>1
  <1> QED  BY Invariance, <1>2, PTL DEF Spec, OverForGood

\* A change of the password ends every session there is when it commits.
THEOREM ChangesEndSessions == Spec => ChangeEndsSessions
  <1>1. ASSUME IInv, [Next]_vars, stored'.password # stored.password, ~PutsBackOldPassword,
               NEW s \in SessionIds
        PROVE  status'[s] # "active"
    <2>1. ASSUME NEW r \in Requests, Start(r) PROVE FALSE
      BY <1>1, <2>1 DEF Start, StartLogin, LoadSession, StartChange
    <2>2. ASSUME NEW r \in Requests, LoginCommit(r) PROVE FALSE
      <3>1. CASE request[r].rehash
        <4>1. request'[r] = Idle /\ stored'.password = request[r].password
          BY <1>1, <2>2, <3>1 DEF LoginCommit, End, IInv, TypeOK
        <4> QED  BY <1>1, <3>1, <4>1 DEF PutsBackOldPassword
      <3>2. CASE ~request[r].rehash
        BY <1>1, <2>2, <3>2 DEF LoginCommit
      <3> QED  BY <3>1, <3>2
    <2>3. ASSUME NEW r \in Requests, Rotate(r) \/ Abort(r) PROVE FALSE
      BY <1>1, <2>3 DEF Rotate, Abort
    <2>4. ASSUME NEW r \in Requests, ChangeCommit(r) PROVE status'[s] # "active"
      BY <2>4 DEF ChangeCommit, AllRevoked
    <2>5. ASSUME NEW i \in SessionIds, Logout(i) \/ Expire(i) PROVE FALSE
      BY <1>1, <2>5 DEF Logout, Expire
    <2>6. ASSUME NEW new \in Passwords, ResetPassword(new) PROVE status'[s] # "active"
      BY <2>6 DEF ResetPassword, AllRevoked
    <2>7. CASE UNCHANGED vars
      BY <1>1, <2>7 DEF vars
    <2> QED  BY <1>1, <2>1, <2>2, <2>3, <2>4, <2>5, <2>6, <2>7 DEF Next, Advance
  <1>2. IInv /\ [Next]_vars =>
            [stored'.password # stored.password /\ ~PutsBackOldPassword =>
                \A s \in SessionIds : status[s] = "active" => status'[s] # "active"]_vars
    BY <1>1
  <1> QED  BY Invariance, <1>2, PTL DEF Spec, ChangeEndsSessions
=============================================================================
