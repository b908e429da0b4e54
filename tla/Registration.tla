---------------------------- MODULE Registration ----------------------------
(***************************************************************************)
(* The registration of one email address: signing up, asking for another   *)
(* verification mail, and following the link of a mail                     *)
(* (RegistrationService with its routes).                                  *)
(*                                                                         *)
(* A signup takes no lock, a resend and a verification lock the row of     *)
(* pending_registrations until they commit; the mail goes out after the    *)
(* commit, over SMTP, and may fail, get lost or arrive at any later time.  *)
(* A display name is written like a workspace name and is not modelled.    *)
(* Time is the set of links that have expired: a request that compares     *)
(* with the time at which it began keeps that set.                         *)
(***************************************************************************)
EXTENDS Naturals, Sequences

CONSTANTS
    Passwords, Names,   \* of the forms people sign up with
    MaxLinks,           \* bound on the links ever issued
    Requests,
    NoPassword, NoName

ASSUME LinksAssumption == MaxLinks \in Nat
ASSUME NothingAssumption == NoPassword \notin Passwords /\ NoName \notin Names

VARIABLES
    account,   \* the password of the user with this email address, if there is one
    row,       \* the row of pending_registrations, NoRow if there is none
    issued,    \* links issued so far: 1..issued
    expired,   \* the links whose expires_at has passed
    mailed,    \* the links that have reached the mailbox
    formOf,    \* formOf[l]: the form that link l stands for
    opened,    \* opened[l]: names of the workspaces created by following l
    request    \* request[r]: what request r does and has read so far

vars == <<account, row, issued, expired, mailed, formOf, opened, request>>
----------------------------------------------------------------------------
Links == 1..MaxLinks

Forms == [password : Passwords, workspace : Names]

NoForm == [password |-> NoPassword, workspace |-> NoName]

\* link stands for token_digest, cooling for a last_sent_at within the cooldown.
Rows == [form : Forms, link : Links, cooling : BOOLEAN, consumed : BOOLEAN]

NoRow == [form |-> NoForm, link |-> 0, cooling |-> FALSE, consumed |-> FALSE]

RequestState == [step : {"idle", "signup", "insert", "overwrite", "resend", "renew",
                         "verify", "create", "send"},
                 form : Forms \cup {NoForm},
                 link : 0..MaxLinks,
                 now : SUBSET Links,
                 read : Rows \cup {NoRow}]

Idle == [step |-> "idle", form |-> NoForm, link |-> 0, now |-> {}, read |-> NoRow]

TypeOK ==
    /\ account \in Passwords \cup {NoPassword}
    /\ row \in Rows \cup {NoRow}
    /\ row.link <= issued
    /\ issued \in 0..MaxLinks
    /\ expired \subseteq 1..issued
    /\ mailed \subseteq 1..issued
    /\ formOf \in [Links -> Forms \cup {NoForm}]
    /\ opened \in [Links -> Seq(Names)]
    /\ request \in [Requests -> RequestState]

Init ==
    /\ account = NoPassword
    /\ row = NoRow
    /\ issued = 0
    /\ expired = {} /\ mailed = {}
    /\ formOf = [l \in Links |-> NoForm]
    /\ opened = [l \in Links |-> <<>>]
    /\ request = [r \in Requests |-> Idle]
----------------------------------------------------------------------------
Begin(r, state) == request[r] = Idle /\ request' = [request EXCEPT ![r] = state]

GoOn(r, step) == request' = [request EXCEPT ![r].step = step]

End(r) == request' = [request EXCEPT ![r] = Idle]

\* The row lock of a resend or a verification, held until its commit.
NoRowLock == TRUE                       \* mutant: no with_for_update

RowFree == \A r \in Requests : request[r].step \notin {"renew", "create"}

SentUncommitted(r, form) ==             \* mutant: the mail goes out, the commit is lost
    /\ issued < MaxLinks
    /\ request' = [request EXCEPT ![r] = [Idle EXCEPT !.step = "send", !.link = issued + 1]]
    /\ UNCHANGED <<issued, formOf>>

\* A row with a new token, for form; the request goes on to send it.
IssueLink(r, form) ==
    /\ issued < MaxLinks
    /\ issued' = issued + 1
    /\ formOf' = [formOf EXCEPT ![issued + 1] = form]
    /\ request' = [request EXCEPT ![r] = [Idle EXCEPT !.step = "send", !.link = issued + 1]]
----------------------------------------------------------------------------
(***************************************************************************)
(* signup                                                                  *)
(***************************************************************************)
StartSignup(r, form) ==
    /\ account = NoPassword
    /\ Begin(r, [Idle EXCEPT !.step = "signup", !.form = form, !.now = expired])
    /\ UNCHANGED <<account, row, issued, expired, mailed, formOf, opened>>

\* A registration that has not expired makes the signup return silently.
SignupRead(r) ==
    /\ request[r].step = "signup"
    /\ \/ /\ row = NoRow
          /\ GoOn(r, "insert")
       \/ /\ row # NoRow /\ row.link \notin request[r].now
          /\ End(r)
       \/ /\ row # NoRow /\ row.link \in request[r].now
          /\ request' = [request EXCEPT ![r].step = "overwrite", ![r].read = row]
    /\ UNCHANGED <<account, row, issued, expired, mailed, formOf, opened>>

\* The email is unique: an IntegrityError ends the signup silently.
SignupInsert(r) ==
    /\ request[r].step = "insert"
    /\ \/ /\ row = NoRow
          /\ row' = [form |-> request[r].form, link |-> issued + 1,
                     cooling |-> TRUE, consumed |-> FALSE]
          /\ IssueLink(r, request[r].form)
       \/ /\ row # NoRow
          /\ End(r)
          /\ UNCHANGED <<row, issued, formOf>>
    /\ UNCHANGED <<account, expired, mailed, opened>>

\* The UPDATE has the columns whose value differs from the one read: always
\* the salted password_hash and the token_digest, the rest as it happens.
SignupOverwrite(r) ==
    LET q == request[r] IN
    /\ q.step = "overwrite"
    /\ RowFree
    /\ row' = [form |-> [password |-> q.form.password,
                         workspace |-> IF q.form.workspace = q.read.form.workspace
                                       THEN row.form.workspace ELSE q.form.workspace],
               link |-> issued + 1,
               cooling |-> TRUE,
               consumed |-> row.consumed /\ ~q.read.consumed]
    /\ IssueLink(r, q.form)
    /\ UNCHANGED <<account, expired, mailed, opened>>
----------------------------------------------------------------------------
(***************************************************************************)
(* resend                                                                  *)
(***************************************************************************)
StartResend(r) ==
    /\ account = NoPassword
    /\ Begin(r, [Idle EXCEPT !.step = "resend"])
    /\ UNCHANGED <<account, row, issued, expired, mailed, formOf, opened>>

ResendLock(r) ==
    /\ request[r].step = "resend"
    /\ RowFree
    /\ \/ /\ row = NoRow \/ row.consumed \/ row.cooling
          /\ End(r)
       \/ /\ row # NoRow /\ ~row.consumed /\ ~row.cooling
          /\ request' = [request EXCEPT ![r].step = "renew", ![r].read = row]
    /\ UNCHANGED <<account, row, issued, expired, mailed, formOf, opened>>

\* A new link, for the form of the one it replaces.
ResendCommit(r) ==
    /\ request[r].step = "renew"
    /\ row' = [row EXCEPT !.link = issued + 1, !.cooling = TRUE]
    /\ IssueLink(r, formOf[request[r].read.link])
    /\ UNCHANGED <<account, expired, mailed, opened>>
----------------------------------------------------------------------------
(***************************************************************************)
(* The mail of a signup or a resend, once that has committed.  A failed    *)
(* delivery clears last_sent_at, whatever has been written to it since;    *)
(* the mail may have arrived all the same.                                 *)
(***************************************************************************)
Send(r) ==
    /\ request[r].step = "send"
    /\ mailed' = mailed \cup {request[r].link}
    /\ End(r)
    /\ UNCHANGED <<account, row, issued, expired, formOf, opened>>

SendFails(r) ==
    /\ request[r].step = "send"
    /\ RowFree
    /\ row' = [row EXCEPT !.cooling = FALSE]
    /\ mailed' \in {mailed, mailed \cup {request[r].link}}
    /\ End(r)
    /\ UNCHANGED <<account, issued, expired, formOf, opened>>
----------------------------------------------------------------------------
(***************************************************************************)
(* verify: the link of a mail is followed, any number of times.            *)
(***************************************************************************)
StartVerify(r, l) ==
    /\ l \in mailed
    /\ Begin(r, [Idle EXCEPT !.step = "verify", !.link = l, !.now = expired])
    /\ UNCHANGED <<account, row, issued, expired, mailed, formOf, opened>>

VerifyLock(r) ==
    LET q == request[r] IN
    /\ q.step = "verify"
    /\ RowFree
    /\ \/ /\ row.link # q.link \/ row.consumed \/ q.link \in q.now
          /\ End(r)
       \/ /\ row.link = q.link /\ ~row.consumed /\ q.link \notin q.now
          /\ request' = [request EXCEPT ![r].step = "create", ![r].read = row]
    /\ UNCHANGED <<account, row, issued, expired, mailed, formOf, opened>>

\* The account, unless there is one, and the workspace it owns.
Account(form) == IF account = NoPassword THEN form.password ELSE account

VerifyCommit(r) ==
    LET q == request[r] IN
    /\ q.step = "create"
    /\ account' = Account(q.read.form)
    /\ opened' = [opened EXCEPT ![q.link] = Append(@, q.read.form.workspace)]
    /\ row' = [row EXCEPT !.consumed = TRUE]
    /\ End(r)
    /\ UNCHANGED <<issued, expired, mailed, formOf>>
----------------------------------------------------------------------------
\* A rollback, or a worker that dies: the account of a verification that did
\* not commit is gone, savepoint or not.
SavepointCommitted(r) ==                \* mutant: the savepoint commits the account
    IF request[r].step = "create" THEN Account(request[r].read.form) ELSE account

AfterRollback(r) == account

Abort(r) ==
    /\ request[r] # Idle
    /\ account' = AfterRollback(r)
    /\ End(r)
    /\ UNCHANGED <<row, issued, expired, mailed, formOf, opened>>

\* Time passes.
Expire(l) ==
    /\ l <= issued /\ l \notin expired
    /\ expired' = expired \cup {l}
    /\ UNCHANGED <<account, row, issued, mailed, formOf, opened, request>>

CoolDown ==
    /\ row.cooling
    /\ row' = [row EXCEPT !.cooling = FALSE]
    /\ UNCHANGED <<account, issued, expired, mailed, formOf, opened, request>>
----------------------------------------------------------------------------
Start(r) ==
    \/ \E form \in Forms : StartSignup(r, form)
    \/ StartResend(r)
    \/ \E l \in Links : StartVerify(r, l)

Advance(r) ==
    \/ SignupRead(r) \/ SignupInsert(r) \/ SignupOverwrite(r)
    \/ ResendLock(r) \/ ResendCommit(r)
    \/ Send(r) \/ SendFails(r)
    \/ VerifyLock(r) \/ VerifyCommit(r)
    \/ Abort(r)

Next ==
    \/ \E r \in Requests : Start(r) \/ Advance(r)
    \/ \E l \in Links : Expire(l)
    \/ CoolDown

Spec == Init /\ [][Next]_vars
----------------------------------------------------------------------------
\* A verification link works once: however often and at how many places it is
\* followed, it opens at most one workspace.
LinkWorksOnce == \A l \in Links : Len(opened[l]) <= 1

\* An account has the password of the form behind a link that was followed to
\* its end, and so it has a workspace: not one of the two without the other,
\* and not the password of a signup whose mail nobody followed.
AccountFromItsLink ==
    account # NoPassword =>
        \E l \in Links : opened[l] # <<>> /\ formOf[l].password = account

\* README.md: verification creates the requested fallback workspace, the one
\* named in the form behind the link.
RequestedWorkspaceOpened ==
    \A l \in Links : \A i \in DOMAIN opened[l] : opened[l][i] = formOf[l].workspace
============================================================================
