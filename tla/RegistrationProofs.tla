-------------------------- MODULE RegistrationProofs --------------------------
(***************************************************************************)
(* Theorems about Registration, for any forms, requests and number of      *)
(* links.  A link that was followed is either consumed with the row or no  *)
(* longer the row's link (OpenedFits), and a verification that is about to *)
(* commit still finds the row as it read it, because the others wait for   *)
(* its lock (Fits, Single).                                                *)
(***************************************************************************)
EXTENDS Registration, TLAPS

Locking == {"renew", "create"}

\* What a request relies on when it takes its next step: of row x and n issued links.
FitsTo(q, x, n) ==
    /\ q.step \in {"signup", "insert", "overwrite"} => q.form \in Forms
    /\ q.step = "overwrite" => x # NoRow
    /\ q.step \in {"send", "verify"} => q.link \in 1..n
    /\ q.step \in Locking => x # NoRow /\ q.read.link = x.link /\ q.read.form = x.form
    /\ q.step = "create" => q.link = x.link /\ ~x.consumed

Fits(q) == FitsTo(q, row, issued)

Single ==
    \A r1, r2 \in Requests :
        request[r1].step \in Locking /\ request[r2].step \in Locking => r1 = r2

\* The row has the password of the form that its link stands for.
RowFits == row # NoRow => formOf[row.link].password = row.form.password

\* A link that was followed is an earlier one of the row, or consumed.
OpenedFits ==
    \A l \in Links : opened[l] # <<>> => l <= row.link /\ (l = row.link => row.consumed)

Table == RowFits /\ OpenedFits /\ LinkWorksOnce /\ AccountFromItsLink

IInv == TypeOK /\ (\A r \in Requests : Fits(request[r])) /\ Single /\ Table
----------------------------------------------------------------------------
LEMMA Numbers == MaxLinks \in Nat
  BY LinksAssumption

LEMMA RowLemma ==
    ASSUME TypeOK
    PROVE  /\ row # NoRow => row \in Rows /\ row.link \in 1..issued
           /\ row = NoRow => row.link = 0
           /\ row.consumed \in BOOLEAN /\ row.link \in 0..issued /\ issued \in Nat
  <1>1. issued \in Nat /\ row.link <= issued
    BY Numbers DEF TypeOK
  <1>2. CASE row \in Rows
    <2>1. row.link \in Links /\ row.consumed \in BOOLEAN
      BY <1>2 DEF Rows
    <2>2. row # NoRow
      BY <2>1, Numbers DEF NoRow, Links
    <2> QED  BY <1>1, <1>2, <2>1, <2>2, Numbers DEF Links
  <1>3. CASE row = NoRow
    BY <1>1, <1>3 DEF NoRow
  <1> QED  BY <1>2, <1>3 DEF TypeOK

LEMMA IdleLemma == Idle \in RequestState /\ Idle.step = "idle"
  BY Numbers DEF Idle, RequestState

LEMMA InitLemma == Init => IInv
  <1> SUFFICES ASSUME Init PROVE IInv
    OBVIOUS
  <1>1. TypeOK
    <2>1. row.link <= issued /\ issued \in 0..MaxLinks
      BY Numbers DEF Init, NoRow
    <2>2. opened \in [Links -> Seq(Names)] /\ request \in [Requests -> RequestState]
      BY IdleLemma DEF Init
    <2> QED  BY <2>1, <2>2 DEF Init, TypeOK
  <1>2. \A r \in Requests : Fits(request[r])
    BY IdleLemma DEF Init, Fits, FitsTo, Locking
  <1>3. Single /\ RowFits /\ OpenedFits /\ LinkWorksOnce /\ AccountFromItsLink
    BY IdleLemma DEF Init, Single, Locking, RowFits, OpenedFits, LinkWorksOnce,
                     AccountFromItsLink
  <1> QED  BY <1>1, <1>2, <1>3 DEF IInv, Table

\* A request goes on, and of the others those that hold the lock find the row as it was.
Moves(r, state) ==
    /\ state \in RequestState
    /\ request' = [request EXCEPT ![r] = state]
    /\ FitsTo(state, row', issued')
    /\ state.step \in Locking => RowFree
    /\ row # NoRow => row' # NoRow
    /\ issued' \in Nat /\ issued <= issued'
    /\ \A q \in Requests \ {r} : request[q].step \in Locking =>
          row'.link = row.link /\ row'.form = row.form /\ row'.consumed = row.consumed

LEMMA MovesLemma ==
    ASSUME IInv, NEW r \in Requests, NEW state, Moves(r, state)
    PROVE  /\ request' \in [Requests -> RequestState]
           /\ \A q \in Requests : Fits(request[q])'
           /\ Single'
  <1>1. /\ request \in [Requests -> RequestState]
        /\ request' \in [Requests -> RequestState]
        /\ request'[r] = state
        /\ \A q \in Requests \ {r} : request'[q] = request[q]
    BY DEF Moves, IInv, TypeOK
  <1>2. Fits(request[r])'
    BY <1>1 DEF Moves, Fits
  <1>3. ASSUME NEW q \in Requests \ {r} PROVE Fits(request[q])'
    <2>1. FitsTo(request[q], row, issued) /\ issued \in Nat
      BY RowLemma DEF IInv, Fits
    <2>2. FitsTo(request[q], row', issued')
      BY <2>1 DEF Moves, FitsTo, Locking
    <2> QED  BY <1>1, <2>2 DEF Fits
  <1>4. Single'
    BY <1>1 DEF Moves, IInv, Single, RowFree, Locking
  <1> QED  BY <1>1, <1>2, <1>3, <1>4

tables == <<account, row, issued, expired, mailed, formOf, opened>>

\* A request that goes on without writing.
LEMMA ReadLemma ==
    ASSUME IInv, NEW r \in Requests, NEW state \in RequestState,
           request' = [request EXCEPT ![r] = state], Fits(state),
           state.step \in Locking => RowFree,
           UNCHANGED tables
    PROVE  IInv'
  <1>1. Moves(r, state)
    BY RowLemma DEF Moves, IInv, Fits, tables
  <1>2. /\ request' \in [Requests -> RequestState]
        /\ \A q \in Requests : Fits(request[q])'
        /\ Single'
    BY <1>1, MovesLemma
  <1>3. TypeOK'
    BY <1>2 DEF IInv, TypeOK, tables
  <1>4. Table'
    BY DEF IInv, tables, Table, RowFits, OpenedFits, LinkWorksOnce, AccountFromItsLink
  <1> QED  BY <1>2, <1>3, <1>4 DEF IInv

LEMMA EndLemma ==
    ASSUME IInv, NEW r \in Requests, End(r), UNCHANGED tables
    PROVE  IInv'
  <1>1. Fits(Idle)
    BY IdleLemma DEF Fits, FitsTo, Locking
  <1> QED  BY <1>1, ReadLemma, IdleLemma DEF End, Locking

\* q with what it has read.
Gone(q, step, read) == [q EXCEPT !.step = step, !.read = read]

LEMMA GoneLemma ==
    ASSUME NEW q \in RequestState, NEW step \in {"insert", "overwrite", "renew", "create"},
           NEW read \in Rows \cup {NoRow}
    PROVE  /\ Gone(q, step, read) \in RequestState
           /\ Gone(q, step, read).step = step /\ Gone(q, step, read).read = read
           /\ Gone(q, step, read).link = q.link /\ Gone(q, step, read).form = q.form
  BY DEF Gone, RequestState
----------------------------------------------------------------------------
LEMMA SignupState ==
    ASSUME NEW form \in Forms, NEW now \in SUBSET Links
    PROVE  LET state == [Idle EXCEPT !.step = "signup", !.form = form, !.now = now] IN
           state \in RequestState /\ state.step = "signup" /\ state.form = form
  <1>1. 0 \in 0..MaxLinks
    BY Numbers
  <1> QED  BY <1>1 DEF Idle, RequestState

LEMMA StartLemma ==
    ASSUME IInv, NEW r \in Requests, Start(r)
    PROVE  IInv'
  <1>1. ASSUME NEW form \in Forms, StartSignup(r, form) PROVE IInv'
    <2> DEFINE state == [Idle EXCEPT !.step = "signup", !.form = form, !.now = expired]
    <2>1. request' = [request EXCEPT ![r] = state] /\ UNCHANGED tables
      BY <1>1 DEF StartSignup, Begin, tables
    <2>2. expired \in SUBSET Links
      BY Numbers DEF IInv, TypeOK, Links
    <2>3. state \in RequestState /\ state.step = "signup" /\ state.form = form
      BY <2>2, SignupState DEF Idle
    <2> HIDE DEF state
    <2>4. Fits(state) /\ state.step \notin Locking
      BY <2>3 DEF Fits, FitsTo, Locking
    <2> QED  BY <2>1, <2>3, <2>4, ReadLemma
  <1>2. ASSUME StartResend(r) PROVE IInv'
    <2> DEFINE state == [Idle EXCEPT !.step = "resend"]
    <2>1. request' = [request EXCEPT ![r] = state] /\ UNCHANGED tables
      BY <1>2 DEF StartResend, Begin, tables
    <2>2. state \in RequestState /\ state.step = "resend"
      BY Numbers DEF Idle, RequestState
    <2> HIDE DEF state
    <2>3. Fits(state) /\ state.step \notin Locking
      BY <2>2 DEF Fits, FitsTo, Locking
    <2> QED  BY <2>1, <2>2, <2>3, ReadLemma
  <1>3. ASSUME NEW l \in Links, StartVerify(r, l) PROVE IInv'
    <2> DEFINE state == [Idle EXCEPT !.step = "verify", !.link = l, !.now = expired]
    <2>1. request' = [request EXCEPT ![r] = state] /\ UNCHANGED tables
      BY <1>3 DEF StartVerify, Begin, tables
    <2>2. expired \in SUBSET Links /\ l \in 0..MaxLinks
      BY Numbers DEF IInv, TypeOK, Links
    <2>3. state \in RequestState /\ state.step = "verify" /\ state.link = l
      BY <2>2 DEF Idle, RequestState
    <2> HIDE DEF state
    <2>4. Fits(state) /\ state.step \notin Locking
      BY <1>3, <2>3 DEF Fits, FitsTo, Locking, StartVerify, IInv, TypeOK
    <2> QED  BY <2>1, <2>3, <2>4, ReadLemma
  <1> QED  BY <1>1, <1>2, <1>3 DEF Start

\* What a request reads and decides before it writes.
LEMMA DecideLemma ==
    ASSUME IInv, NEW r \in Requests, SignupRead(r) \/ ResendLock(r) \/ VerifyLock(r)
    PROVE  IInv'
  <1>1. UNCHANGED tables /\ request[r] \in RequestState /\ Fits(request[r])
    BY DEF SignupRead, ResendLock, VerifyLock, tables, IInv, TypeOK
  <1>2. CASE End(r)
    BY <1>1, <1>2, EndLemma
  <1>3. CASE SignupRead(r) /\ GoOn(r, "insert")
    <2>1. /\ request' = [request EXCEPT ![r] = Gone(request[r], "insert", request[r].read)]
          /\ request[r].step = "signup" /\ request[r].read \in Rows \cup {NoRow}
      BY <1>1, <1>3 DEF SignupRead, GoOn, RequestState, Gone
    <2>2. /\ Gone(request[r], "insert", request[r].read) \in RequestState
          /\ Gone(request[r], "insert", request[r].read).step = "insert"
          /\ Gone(request[r], "insert", request[r].read).form = request[r].form
      BY <1>1, <2>1, GoneLemma
    <2>3. Fits(Gone(request[r], "insert", request[r].read)) /\ "insert" \notin Locking
      BY <1>1, <2>1, <2>2 DEF Fits, FitsTo, Locking
    <2> QED  BY <1>1, <2>1, <2>2, <2>3, ReadLemma
  <1>4. ASSUME NEW next \in {"overwrite", "renew", "create"},
               request' = [request EXCEPT ![r].step = next, ![r].read = row],
               row # NoRow,
               next = "overwrite" => request[r].step = "signup",
               next # "overwrite" => RowFree,
               next = "create" => row.link = request[r].link /\ ~row.consumed
        PROVE  IInv'
    <2> DEFINE state == Gone(request[r], next, row)
    <2>1. request' = [request EXCEPT ![r] = state]
      BY <1>4 DEF IInv, TypeOK, Gone
    <2>2. next \in {"insert", "overwrite", "renew", "create"} /\ row \in Rows \cup {NoRow}
      BY DEF IInv, TypeOK
    <2>3. /\ state \in RequestState /\ state.step = next /\ state.read = row
          /\ state.link = request[r].link /\ state.form = request[r].form
      BY <1>1, <2>2 DEF Gone, RequestState
    <2> HIDE DEF state
    <2>4. Fits(state) /\ (next \in Locking => RowFree)
      BY <1>1, <1>4, <2>3 DEF Fits, FitsTo, Locking
    <2> QED  BY <1>1, <2>1, <2>3, <2>4, ReadLemma
  <1>5. CASE SignupRead(r)
    BY <1>2, <1>3, <1>4, <1>5 DEF SignupRead
  <1>6. CASE ResendLock(r)
    BY <1>2, <1>4, <1>6 DEF ResendLock
  <1>7. CASE VerifyLock(r)
    <2>1. request[r].step = "verify" /\ RowFree
      BY <1>7 DEF VerifyLock
    <2>2. CASE row.link = request[r].link /\ ~row.consumed
               /\ request' = [request EXCEPT ![r].step = "create", ![r].read = row]
      <3>1. row # NoRow
        BY <1>1, <2>1, <2>2, RowLemma DEF Fits, FitsTo, IInv
      <3> QED  BY <1>4, <2>1, <2>2, <3>1
    <2> QED  BY <1>2, <1>7, <2>2 DEF VerifyLock
  <1> QED  BY <1>5, <1>6, <1>7
----------------------------------------------------------------------------
\* A row with a new link, of a form with the row's password: the links that were
\* followed are earlier ones.
LEMMA IssueLemma ==
    ASSUME IInv, NEW r \in Requests, NEW form \in Forms \cup {NoForm}, IssueLink(r, form),
           row' \in Rows, row'.link = issued + 1, row'.form.password = form.password,
           \A q \in Requests \ {r} : request[q].step \notin Locking,
           UNCHANGED <<account, expired, mailed, opened>>
    PROVE  IInv'
  <1> DEFINE state == [Idle EXCEPT !.step = "send", !.link = issued + 1]
             n == issued + 1
  <1>1. /\ issued' = n /\ n \in Links /\ issued \in Nat /\ issued' \in 0..MaxLinks
        /\ formOf \in [Links -> Forms \cup {NoForm}]
        /\ formOf' = [formOf EXCEPT ![n] = form]
        /\ request' = [request EXCEPT ![r] = state]
    BY Numbers DEF IssueLink, IInv, TypeOK, Links
  <1>2. n \in 0..MaxLinks
    BY <1>1
  <1>3. state \in RequestState /\ state.step = "send" /\ state.link = n
    BY <1>2 DEF Idle, RequestState
  <1> HIDE DEF state
  <1>4. FitsTo(state, row', n) /\ state.step \notin Locking
    BY <1>1, <1>3 DEF FitsTo, Locking
  <1>5. row' # NoRow
    BY Numbers DEF Rows, NoRow, Links
  <1>6. /\ request' \in [Requests -> RequestState]
        /\ \A q \in Requests : Fits(request[q])'
        /\ Single'
    <2>1. Moves(r, state)
      BY <1>1, <1>3, <1>4, <1>5 DEF Moves
    <2> QED  BY <2>1, MovesLemma
  <1>7. TypeOK'
    BY <1>1, <1>6 DEF IInv, TypeOK
  <1>8. RowFits'
    BY <1>1 DEF RowFits
  <1>9. OpenedFits' /\ LinkWorksOnce'
    BY <1>1, RowLemma DEF IInv, Table, OpenedFits, LinkWorksOnce, Links
  <1>10. AccountFromItsLink'
    <2> SUFFICES ASSUME account # NoPassword
                 PROVE  \E l \in Links : opened[l] # <<>> /\ formOf'[l].password = account
      BY DEF AccountFromItsLink
    <2>1. PICK l \in Links : opened[l] # <<>> /\ formOf[l].password = account
      BY DEF IInv, Table, AccountFromItsLink
    <2>2. l # n
      BY <1>1, <2>1, RowLemma DEF IInv, Table, OpenedFits, Links
    <2> QED  BY <1>1, <2>1, <2>2
  <1> QED  BY <1>6, <1>7, <1>8, <1>9, <1>10 DEF IInv, Table

LEMMA InsertLemma ==
    ASSUME IInv, NEW r \in Requests, SignupInsert(r)
    PROVE  IInv'
  <1> DEFINE form == request[r].form
  <1>1. form \in Forms
    BY DEF SignupInsert, IInv, Fits, FitsTo
  <1>2. CASE row = NoRow /\ IssueLink(r, form)
             /\ row' = [form |-> form, link |-> issued + 1, cooling |-> TRUE, consumed |-> FALSE]
    <2>1. issued + 1 \in Links
      BY <1>2, Numbers DEF IssueLink, IInv, TypeOK, Links
    <2>2. row' \in Rows /\ row'.link = issued + 1 /\ row'.form = form
      BY <1>1, <1>2, <2>1 DEF Rows
    <2>3. \A q \in Requests : request[q].step \notin Locking
      BY <1>2 DEF IInv, Fits, FitsTo
    <2> QED  BY <1>1, <1>2, <2>2, <2>3, IssueLemma DEF SignupInsert
  <1>3. CASE End(r) /\ UNCHANGED <<row, issued, formOf>>
    BY <1>3, EndLemma DEF SignupInsert, tables
  <1> QED  BY <1>2, <1>3 DEF SignupInsert

LEMMA OverwriteLemma ==
    ASSUME IInv, NEW r \in Requests, SignupOverwrite(r)
    PROVE  IInv'
  <1> DEFINE q == request[r]
             name == IF q.form.workspace = q.read.form.workspace
                     THEN row.form.workspace ELSE q.form.workspace
  <1>1. q.form \in Forms /\ row \in Rows /\ q \in RequestState
    BY RowLemma DEF SignupOverwrite, IInv, Fits, FitsTo, TypeOK
  <1>2. issued + 1 \in Links /\ IssueLink(r, q.form) /\ RowFree
    BY Numbers DEF SignupOverwrite, IssueLink, IInv, TypeOK, Links
  <1>3. q.form.password \in Passwords /\ name \in Names
    BY <1>1 DEF Forms, Rows
  <1>4. (row.consumed /\ ~q.read.consumed) \in BOOLEAN
    OBVIOUS
  <1>5. row' = [form |-> [password |-> q.form.password, workspace |-> name],
                link |-> issued + 1, cooling |-> TRUE,
                consumed |-> row.consumed /\ ~q.read.consumed]
    BY DEF SignupOverwrite
  <1> HIDE DEF name
  <1>6. /\ row' \in Rows /\ row'.link = issued + 1
        /\ row'.form.password = q.form.password
    BY <1>2, <1>3, <1>4, <1>5 DEF Rows, Forms
  <1> QED  BY <1>1, <1>2, <1>6, IssueLemma DEF SignupOverwrite, RowFree, Locking

LEMMA RenewLemma ==
    ASSUME IInv, NEW r \in Requests, ResendCommit(r)
    PROVE  IInv'
  <1> DEFINE form == formOf[request[r].read.link]
  <1>1. /\ row \in Rows /\ request[r].read.link = row.link
        /\ row.link \in Links /\ request[r].step \in Locking
    BY RowLemma DEF ResendCommit, IInv, Fits, FitsTo, Locking, Rows
  <1>2. form \in Forms \cup {NoForm} /\ form.password = row.form.password
    BY <1>1, RowLemma, Numbers DEF IInv, TypeOK, Table, RowFits, NoRow, Links
  <1>3. issued + 1 \in Links /\ IssueLink(r, form)
    BY Numbers DEF ResendCommit, IssueLink, IInv, TypeOK, Links
  <1>4. row' \in Rows /\ row'.link = issued + 1 /\ row'.form = row.form
    BY <1>1, <1>3 DEF ResendCommit, Rows
  <1>5. \A q \in Requests \ {r} : request[q].step \notin Locking
    BY <1>1 DEF IInv, Single
  <1> QED  BY <1>2, <1>3, <1>4, <1>5, IssueLemma DEF ResendCommit
----------------------------------------------------------------------------
\* What clears last_sent_at leaves the rest of the row.
LEMMA CoolLemma ==
    ASSUME IInv, row' = [row EXCEPT !.cooling = FALSE]
    PROVE  /\ row' \in Rows \cup {NoRow}
           /\ row' = NoRow <=> row = NoRow
           /\ row'.link = row.link /\ row'.form = row.form /\ row'.consumed = row.consumed
  <1>1. CASE row = NoRow
    BY <1>1 DEF NoRow
  <1>2. CASE row # NoRow
    <2>1. row \in Rows /\ row.link # 0
      BY <1>2, RowLemma DEF IInv
    <2>2. /\ row' \in Rows
          /\ row'.link = row.link /\ row'.form = row.form /\ row'.consumed = row.consumed
      BY <2>1 DEF Rows
    <2>3. row' # NoRow
      BY <2>1, <2>2 DEF NoRow
    <2> QED  BY <1>2, <2>2, <2>3
  <1> QED  BY <1>1, <1>2

LEMMA SendLemma ==
    ASSUME IInv, NEW r \in Requests, Send(r) \/ SendFails(r)
    PROVE  IInv'
  <1>1. /\ request' = [request EXCEPT ![r] = Idle]
        /\ request[r].link \in 1..issued
        /\ UNCHANGED <<account, issued, expired, formOf, opened>>
        /\ mailed' \subseteq mailed \cup {request[r].link}
    BY DEF Send, SendFails, End, IInv, Fits, FitsTo
  <1>2. /\ row' \in Rows \cup {NoRow}
        /\ row' = NoRow <=> row = NoRow
        /\ row'.link = row.link /\ row'.form = row.form /\ row'.consumed = row.consumed
    BY CoolLemma DEF Send, SendFails, IInv, TypeOK
  <1>3. FitsTo(Idle, row', issued') /\ Idle.step \notin Locking
    BY IdleLemma DEF FitsTo, Locking
  <1>4. /\ request' \in [Requests -> RequestState]
        /\ \A q \in Requests : Fits(request[q])'
        /\ Single'
    <2>1. issued' \in Nat /\ issued <= issued'
      BY <1>1, RowLemma DEF IInv
    <2>2. Moves(r, Idle)
      BY <1>1, <1>2, <1>3, <2>1, IdleLemma DEF Moves
    <2> QED  BY <2>2, MovesLemma
  <1>5. TypeOK'
    BY <1>1, <1>2, <1>4 DEF IInv, TypeOK
  <1>6. Table'
    BY <1>1, <1>2
    DEF IInv, Table, RowFits, OpenedFits, LinkWorksOnce, AccountFromItsLink
  <1> QED  BY <1>4, <1>5, <1>6 DEF IInv

LEMMA CoolDownLemma ==
    ASSUME IInv, CoolDown
    PROVE  IInv'
  <1>1. /\ row' \in Rows \cup {NoRow}
        /\ row' = NoRow <=> row = NoRow
        /\ row'.link = row.link /\ row'.form = row.form /\ row'.consumed = row.consumed
        /\ UNCHANGED <<account, issued, expired, mailed, formOf, opened, request>>
    BY CoolLemma DEF CoolDown
  <1>2. TypeOK'
    BY <1>1 DEF IInv, TypeOK
  <1>3. \A q \in Requests : Fits(request[q])'
    BY <1>1 DEF IInv, Fits, FitsTo
  <1>4. Single' /\ Table'
    BY <1>1
    DEF IInv, Single, Table, RowFits, OpenedFits, LinkWorksOnce, AccountFromItsLink
  <1> QED  BY <1>2, <1>3, <1>4 DEF IInv

\* The verification that commits is the only one that the row still lets through.
LEMMA CreateLemma ==
    ASSUME IInv, NEW r \in Requests, VerifyCommit(r)
    PROVE  IInv'
  <1> DEFINE q == request[r]
             l == row.link
             name == q.read.form.workspace
  <1>1. /\ q.step = "create" /\ q.link = l /\ ~row.consumed /\ row # NoRow
        /\ q.read.form = row.form
        /\ request' = [request EXCEPT ![r] = Idle]
        /\ UNCHANGED <<issued, expired, mailed, formOf>>
    BY DEF VerifyCommit, End, IInv, Fits, FitsTo, Locking
  <1>2. row \in Rows /\ l \in Links /\ l \in 1..issued /\ row.form \in Forms
    BY <1>1, RowLemma DEF IInv, Rows
  <1>3. row.form.password \in Passwords /\ name \in Names
    BY <1>1, <1>2 DEF Forms
  <1>4. /\ row' \in Rows /\ row'.link = l /\ row'.form = row.form /\ row'.consumed = TRUE
        /\ row' # NoRow
    <2>1. /\ row' \in Rows /\ row'.link = l /\ row'.form = row.form /\ row'.consumed = TRUE
      BY <1>2 DEF VerifyCommit, Rows
    <2> QED  BY <2>1 DEF NoRow
  <1>5. opened[l] = <<>>
    BY <1>1, <1>2 DEF IInv, Table, OpenedFits
  <1>6. /\ opened' = [opened EXCEPT ![l] = Append(<<>>, name)]
        /\ opened \in [Links -> Seq(Names)]
    BY <1>1, <1>2, <1>5 DEF VerifyCommit, IInv, TypeOK
  <1>7. Append(<<>>, name) \in Seq(Names) /\ Len(Append(<<>>, name)) = 1
        /\ Append(<<>>, name) # <<>>
    BY <1>3
  <1>8. /\ opened' \in [Links -> Seq(Names)]
        /\ opened'[l] = Append(<<>>, name)
        /\ \A k \in Links \ {l} : opened'[k] = opened[k]
    BY <1>2, <1>6, <1>7
  <1>9. FitsTo(Idle, row', issued') /\ Idle.step \notin Locking
    BY IdleLemma DEF FitsTo, Locking
  <1>10. \A p \in Requests \ {r} : request[p].step \notin Locking
    BY <1>1 DEF IInv, Single, Locking
  <1>11. /\ request' \in [Requests -> RequestState]
         /\ \A p \in Requests : Fits(request[p])'
         /\ Single'
    <2>1. issued' \in Nat /\ issued <= issued'
      BY <1>1, RowLemma DEF IInv
    <2>2. Moves(r, Idle)
      BY <1>1, <1>4, <1>9, <1>10, <2>1, IdleLemma DEF Moves
    <2> QED  BY <2>2, MovesLemma
  <1>12. account' \in Passwords \cup {NoPassword}
    BY <1>1, <1>3 DEF VerifyCommit, Account, IInv, TypeOK
  <1>13. TypeOK'
    BY <1>1, <1>4, <1>8, <1>11, <1>12 DEF IInv, TypeOK
  <1>14. RowFits' /\ OpenedFits' /\ LinkWorksOnce'
    <2>1. RowFits'
      BY <1>1, <1>2, <1>4 DEF IInv, Table, RowFits
    <2>2. OpenedFits'
      BY <1>1, <1>2, <1>4, <1>8 DEF IInv, Table, OpenedFits
    <2>3. \A k \in Links : Len(opened'[k]) <= 1
      <3>1. Len(opened'[l]) <= 1
        BY <1>2, <1>7, <1>8
      <3> QED  BY <1>8, <3>1 DEF IInv, Table, LinkWorksOnce
    <2> QED  BY <2>1, <2>2, <2>3 DEF LinkWorksOnce
  <1>15. AccountFromItsLink'
    <2>1. CASE account = NoPassword
      <3>1. account' = row.form.password /\ formOf'[l].password = row.form.password
        BY <1>1, <2>1 DEF VerifyCommit, Account, IInv, Table, RowFits
      <3> QED  BY <1>2, <1>7, <1>8, <3>1 DEF AccountFromItsLink
    <2>2. CASE account # NoPassword
      <3>1. account' = account
        BY <2>2 DEF VerifyCommit, Account
      <3>2. PICK k \in Links : opened[k] # <<>> /\ formOf[k].password = account
        BY <2>2 DEF IInv, Table, AccountFromItsLink
      <3>3. opened'[k] # <<>>
        BY <1>7, <1>8, <3>2
      <3> QED  BY <1>1, <3>1, <3>2, <3>3 DEF AccountFromItsLink
    <2> QED  BY <2>1, <2>2
  <1> QED  BY <1>11, <1>13, <1>14, <1>15 DEF IInv, Table

LEMMA NextLemma == IInv /\ [Next]_vars => IInv'
  <1> SUFFICES ASSUME IInv, [Next]_vars PROVE IInv'
    OBVIOUS
  <1>1. ASSUME NEW r \in Requests, Abort(r) PROVE IInv'
    BY <1>1, EndLemma DEF Abort, AfterRollback, tables
  <1>2. ASSUME NEW l \in Links, Expire(l) PROVE IInv'
    <2>1. expired' \subseteq 1..issued
      BY <1>2, Numbers DEF Expire, IInv, TypeOK, Links
    <2>2. UNCHANGED <<account, row, issued, mailed, formOf, opened, request>>
      BY <1>2 DEF Expire
    <2>3. TypeOK'
      BY <2>1, <2>2 DEF IInv, TypeOK
    <2>4. (\A r \in Requests : Fits(request[r])') /\ Single' /\ Table'
      BY <2>2 DEF IInv, Fits, FitsTo, Single, Table, RowFits, OpenedFits, LinkWorksOnce,
                  AccountFromItsLink
    <2> QED  BY <2>3, <2>4 DEF IInv
  <1>3. CASE UNCHANGED vars
    BY <1>3 DEF vars, IInv, TypeOK, Fits, Single, Table, RowFits, OpenedFits, LinkWorksOnce,
                AccountFromItsLink
  <1> QED
    BY <1>1, <1>2, <1>3, StartLemma, DecideLemma, InsertLemma, OverwriteLemma, RenewLemma,
       SendLemma, CreateLemma, CoolDownLemma
    DEF Next, Advance
----------------------------------------------------------------------------
\* The invariant holds in every reachable state.
THEOREM Invariance == Spec => []IInv
  BY InitLemma, NextLemma, PTL DEF Spec

\* Every variable keeps its type, and the row's link has been issued.
THEOREM TypeCorrect == Spec => []TypeOK
  <1>1. IInv => TypeOK
    BY DEF IInv
  <1> QED  BY Invariance, <1>1, PTL

\* However many requests follow a link, and whatever signups and resends cross them,
\* it opens one workspace at most.
THEOREM LinksWorkOnce == Spec => []LinkWorksOnce
  <1>1. IInv => LinkWorksOnce
    BY DEF IInv, Table
  <1> QED  BY Invariance, <1>1, PTL

\* There is no account without its workspace, nor one with a password whose link
\* nobody followed.
THEOREM AccountsComeFromLinks == Spec => []AccountFromItsLink
  <1>1. IInv => AccountFromItsLink
    BY DEF IInv, Table
  <1> QED  BY Invariance, <1>1, PTL
=============================================================================
