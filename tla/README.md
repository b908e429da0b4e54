# ApplyTogether: specifications, checks and proofs

ApplyTogether is a shared job-application workspace: a FastAPI/SQLAlchemy
backend over PostgreSQL (`src/backend/app`) and a React client
(`src/frontend/src`). This directory holds TLA+ models of the parts of it in
which requests of several people, transactions, mails, browser calls and screens
interleave, the TLC runs that check them, and proofs for the prover TLAPS.

Run TLC with `tlc -config X.cfg M` and the prover with `tlapm M.tla`.
`PROJECT.json` lists every run, the mutants that show each property to depend
on the code, the source lines each definition models, the findings, the hazards
and the theorems.

## 1. Inventory

| Component | State | Operations that change it | Hard about it |
|---|---|---|---|
| Workspaces, membership, invitations (`services/workspace_service.py`, `repositories/workspace_repository.py`) | rows of `workspaces`, `workspace_memberships`, `workspace_invitations` | create, invite, accept, decline, revoke, remove, update role, delete | only acceptances lock; other requests write what they read earlier |
| Job applications and trash (`services/application_service.py`) | rows of `job_applications` | create, update, soft delete, restore, permanent delete (selected and all), weekly goal | no locks at all: constraints alone stand between two requests; the ORM writes only the columns that changed |
| Authentication sessions (`services/auth_service.py`, `api/routes/auth.py`) | `users.password_hash`, rows of `authentication_sessions`, tokens in cookies | login, refresh, logout, change password, `commands/set_password.py` | rotation with reuse detection; the route decides between commit and rollback |
| Registration (`services/registration_service.py`) | row of `pending_registrations`, the account, mails on their way | signup, resend, verify | a commit and then a mail that may fail; links that expire and are replaced |
| Resumes and AI analysis (`services/resume_service.py`, `ai_analysis_service.py`) | `user_resumes`, `application_ai_analyses` | upload, delete, generate | up to 30 s with a provider between the reads and the write |
| Goals, streaks, aggregates, URL normalization (`application_service.py`, `application_repository.py`, `core/url_normalization.py`) | none (pure), one column for the goal | set goal | calendar boundaries |
| Autofill (`job_posting_autofill_service.py`) | none | none | pure parsing after one outbound request |
| Request handling (`api/dependencies/`, `db/session.py`) | pooled connections, threads, the event loop | begin and end of a request | queries on the event loop wait for connections held by threads |
| Browser client and session restoration (`api/client.ts`, `features/auth/AuthProvider.tsx`) | cookies shared by tabs, `refreshInFlight`, `restoreSequence`, the shown state | every API call, login, logout, restore | replies that arrive late, out of order or never |
| Workspace page (`app/App.tsx`, `WorkspacePage`) | question asked, members, invitations, spinner | search, page, invite, revoke, remove, update role | a guard for the members, another one for the invitations, acts that load with an old render's question |
| Shell and invitation inbox (`AuthenticatedApp`, `features/invitations/InvitationInbox.tsx`) | list of workspaces, active one, inbox | switch, create, delete, accept, decline | two lists that are refreshed by calls which overtake one another |
| Dashboard, list, detail, Deleted (`app/App.tsx`) | address, what arrived last, spinner, error, selection; the team card's own query | navigate, filter, turn, delete, restore, erase, set a goal | unguarded loads; acts that end after the user has left |
| Application form (`ApplicationFormPage`) | fields, address, load, autofill, save | type, autofill, submit, leave | one component for two addresses, no cleanup of its load |
| Account pages (`features/auth/*Page.tsx`, `ProfilePage`) | view, fields sent, countdown | sign up, resend, verify, sign in, change password | the page's clock against the server's, several tabs, mails that fail |
| Resume and analysis panels (`features/resume/`) | what is shown, generating or uploading | upload, remove, generate, leave | a call of half a minute that outlives its panel |
| Schema, migrations, seeds, development identity, component library | - | - | not modelled, see section 7 |

**How they interact.** A browser call carries the session's cookies; the
dependency `get_current_user` checks the session and the user, and
`require_active_workspace_membership` the membership, each with a read in the
request's own transaction; then the handler runs a service method, which commits
or raises. Components share nothing but the database: registration creates users
and workspaces with an owner (which is how `Membership` starts), membership
decides who may touch applications (the constants `Users` and `Moderators` of
`Applications`), a password change ends sessions, and erasing an application
takes its analyses with it.

**What makes each correct.** Membership: the cap holds, an invitation is answered
once, owners stay, nobody joins without an invitation, an acceptance is
answered. Applications: one record per posting and author, pay ranges in order,
authorship, erased means erased. Sessions: a refresh token is exchanged once,
reuse ends the session, a session that is over stays over, a password change
ends every session. Registration: a link works once and makes the account of its
own form, whole or not at all. Analysis: one user's writes clash only when
the panel no longer waited for one of them. Client: one refresh at a time, a
late restoration never undoes a logout, every restoration ends. Screens: what
is shown belongs to the workspace, filter and page that are shown and is what the
server has once everything has settled; spinners end; an answered invitation
stays away; the form saves the record it was opened for and no autofill replaces what was typed
(except a "USD", section 6);
a new link that is offered is one that is sent.

## 2. How transactions are modelled

`create_engine` keeps PostgreSQL's default isolation, READ COMMITTED, and every
request has a session of its own (`get_db`). Handlers run in worker threads and
there may be several worker processes. All modules share this reading:

- a request is a record `request[r]` with a `step` and what it has read; each
  SELECT that later steps depend on is an action and sees what is committed then;
- nothing a request writes is visible before its commit, so the writes are part
  of the commit's action; constraints are evaluated there;
- the ORM's UPDATE contains only the columns whose value differs from the one
  that was loaded, so an action writes those columns into the row as it is *now*;
- `with_for_update` holds the row until the commit or rollback: actions that lock
  or update it wait (`InvitationFree`, `WorkspaceFree`, `RowFree`);
- `Abort` is a rollback, an error or a worker that dies, possible at every step.

Reads that no later step depends on (listings, responses) are left out. A step
that only refuses leaves everything but the request unchanged.

## 3. Modules

**`Membership.tla`** - one workspace. `workspace`, `role`/`active` (the columns
`role` and `removed_at` of the membership rows), `invitation` (per address: row id and
which of `accepted_at`, `declined_at` are set), `registered`, `request`. One
action per step of `invite_member`, `accept_invitation` with
`_admit_invited_member`, `decline_invitation`, `revoke_invitation`,
`remove_member`, `update_member_role`, `delete_workspace`, `create_workspace`
(and `verify`, which registers users). The check of the caller's role
(`_require_owner`) is the guard of the first step, since the code makes it once
and first. **`Roster.tla`** is the contract: one atomic step per operation, no
requests, no rows. `ImplementsRoster` maps a removed row to "not a member"
and an answered row to its answer. **`MembershipProofs.tla`** holds
the proofs of its properties and of the contract.

**`Applications.tla`** - the records of one workspace. `row[a]` has the author,
the URL, its normalized form (`key`), the two ends of the pay range and who
deleted it; an end that is absent (NULL) orders like the lowest, or the highest, value there is and stands
as that; `deleted_at` and `deleted_by_user_id` are always written together and
are one column here. The two pairs of columns are those that constraints or
documents relate; the other columns behave like `url` without a key. The constant
function `Posting` stands for `normalize_job_posting_url`. An update carries a URL
(`StartUrlUpdate`) or one or both ends of the range (`StartPayUpdate`); that one payload may have the URL and the
pay together is left out, since no constraint relates them and the states grow beyond what TLC finishes.
**`ApplicationsProofs.tla`** holds the proofs.

**`Sessions.tla`** - one account. `stored` is the hash (which password, and
whether its format is one that `verify_and_upgrade` replaces), `status[s]`,
`current[s]` (the token that `refresh_jti_hash` is the digest of), `issued`;
`owner`, `replaces`, `openedWith` and `reused` are history. A login and a
password change both write the user's row before their commit, so one waits for
the other and each is one step after its read. A wrong password changes nothing (see
the findings), so `locked_until` is not modelled. Whether the user is active
never changes in the program. **`SessionsProofs.tla`** holds the proofs.

**`Registration.tla`** - one email address. `row` is the pending registration,
`expired` is time (the links whose `expires_at` has passed; a request keeps the
set as it was when it took `now`), `mailed` is the mailbox. A resend and a
verification hold the row lock between `ResendLock`/`VerifyLock` and their
commit; a signup holds none. `SendFails` clears `last_sent_at` in whatever row
is there, and the mail may have arrived nevertheless. **`RegistrationProofs.tla`** holds the proofs.

**`Browser.tla`** - the tabs of one browser. `task[k]` is an asynchronous function
in progress: its request, where the request is, and the refresh it runs or waits
for. `InFlight` is `refreshInFlight`, `latest[b]` the restoration that
`restoreSequence.current` stands for, `status[b]` what `AuthProvider` shows,
`jar` the shared cookies. A call takes three steps (it leaves with the cookies
of the moment, is served, and its answer arrives), and is lost on either way at
any time. The server's part (`ServeRefresh`, `ServeLogin`, `ServeLogout`,
`ServeChange`) treats tokens as `Sessions` does, each call in one step.
`outdated`, `reused` and `excused` are history. **`BrowserProofs.tla`** holds the proofs.

**How the screens are modelled.** JavaScript runs one task at a time, so a step is
a handler, an effect or the continuation of an `await`; between the steps anything
may happen. An asynchronous function is a record in a slot with three steps: the
call is under way, it is served (the server reads or changes its state then), and
its answer, or a failure, arrives. Slots are taken in any order, so answers overtake
one another. What the closure of a render has captured is kept in the record: that
is how an act loads the question of the render in which it was clicked. A component
that unmounts drops what it waits for; React ignores the state that is set later.

**`WorkspacePage.tla`** - `question` is what the page asks, `members` the question
that the shown rows answer, `loadedFor` is `loadedInvitationWorkspace`. `latest` in
a load says that its `requestId` is still `latestMemberRequest.current`. `Begin` is
`load`; `TakeAnswer` and `TakeFailure` are what follows its `await`, with both guards;
`FinishInvite`, `FinishRevoke`, `FinishManage` end the owner's actions. Which workspace the
user switches to is free here. **`WorkspacePageProofs.tla`** holds the proofs.

**`WorkspaceShell.tla`** - `workspaces`, `activeId` (`activeWorkspaceId`), `session`
(`auth.workspace`), the inbox with `actingId`, and the tasks that refresh both.
`Shown` is the workspace that the pages see. The button that creates a workspace is disabled by state of its
page, so whoever leaves the page and comes back may begin another creation (`CreateMine`). A list is abstracted to the set and
to the server's `version` at which it was read. `overtaken` is history: which list was replaced by
an older one, and whether a creation's list came without its workspace. Its proofs are the second
part of **`MembershipProofs.tla`**.

**`TeamCard.tla`** - the dashboard's team table: its query, the debounce of its search, its
loads and the guard `latestRequest`. It has a specification of its own, `CardSpec`, in
which its surroundings may mount it, unmount it or change the workspace at any time.
**`Pages.tla`** extends it with the four pages, one of which is mounted: `shown` is
what arrived last, `load` and `act` are in progress, `place` and `goal` are the server's.
The pages mount, unmount and feed the card (`CardFollows`, `FinishGoal`). `Navigate` goes from a page to
any address of another: by the shell, the dashboard's links, a row, or the browser's history, also to a record that is
elsewhere or gone by now.
**`PagesProofs.tla`** proves that the pages implement `CardSpec`, what the card promises, and
that a page at rest is fresh.

**`ApplicationForm.tla`** - `open`, `mode`, `app` come from the address, `home` says whether the active
workspace is that of the records, `form` and `url` are the values. A value is where it came from: blank, cleared or
typed by the user (right or wrong), a record, or a posting. The currency has a default of its own, `Default`,
and of it alone the model knows whether it is "USD" (`IsUSD`: the default, a typed "USD", a record or posting
in dollars). `Fills` is the condition of `mergeAutofillFields`: a blank field, or a currency of "USD" while
no pay is typed, whoever put it there. `Required` are the texts that must not be blank; the choices
"unknown" always pass the checks, and date and status, which have a default but no rule for it, behave like ordinary fields.
`EmptyForm` and `FormOf` are the defaults of the form and of a record that says nothing of a field.
**`FormProofs.tla`** holds the proofs.

**`AccountPages.tla`** - `page[t]` is what tab `t` shows, `call[c]` a request and its
answer, `sentAgo` the seconds since the server's last mail, `elapsed[t]` those since
the page began to count. `Tick` is a second; a browser's timer fires a second or
later after it was set, never earlier (`CountDown`). The server is that of
`Registration`: a request is served in one step, except that a mail takes a while. `Issue`
commits the link with `last_sent_at`; until `Mail` ends it, with the second commit if the mail
failed, other requests are served and find the mark. **`FormProofs.tla`** holds the proofs.

**`Analysis.tla`** - a text is the number of the edit that wrote it, an analysis the
pair of texts it was made from. A request goes from the click to the answer through the reads, the
provider and the write of `generate_resume_tailor_analysis` or `upload_resume`; the panels decide
what may be clicked (`MayGenerate`). `abandoned` is history. **`FormProofs.tla`** holds the proofs.

**How the modules compose.** `Roster` is the contract of `Membership` and `CardSpec` that of
`Pages`. `WorkspacePage` and `WorkspaceShell` meet in the active workspace: the page
lets it change freely, so its properties hold for whatever the shell does. `AccountPages` and
`Browser` each carry the part of the server they talk to, with the transitions of `Registration` and
`Sessions` but each request in one step, or two for a mail.

The `MC*.tla` modules only give the constants their values.

## 4. Runs

| Run | Bounds | Shows |
|---|---|---|
| `membership` | 3 users, 2 requests, cap 2, 2 invitation rows | `MemberCapRespected`, `AnsweredOnce`, the inductive invariant `IInv` (which contains the types), `OwnersStay`, `JoinsByInvitation`, `ImplementsRoster` |
| `membership_live` | 2 users, 2 requests, fair | `AcceptanceEnds`: an acceptance that waits for locks is answered |
| `applications` | 2 users (one a moderator), 2 ids, 3 URLs of 2 postings, pay 0..1, 2 requests | `TypeOK`, `OneRecordPerKey`, `PayInOrder`, `AuthorityKept`, `ErasedForGood` |
| `sessions` | 2 sessions, 2 passwords, 6 tokens, 3 requests, both hash formats | `TypeOK`, `ExchangedOnce`, `ReuseEndsSession`, `OverForGood`, `ChangeEndsSessions` |
| `registration` | 3 links, 2 passwords, 2 names, 2 requests | `TypeOK`, `LinkWorksOnce`, `AccountFromItsLink` |
| `browser` | 2 tasks in one tab or in two, 2 sessions, 2 token pairs, 2 faults, fair | `TypeOK`, `ReuseExplained`, `OvertakenStaysOut`, `RestorationEnds` |
| `workspace_page` | 2 workspaces, 1 search, 2 pages, 1 address, 2 loads, 1 act, 3 moves, fair | `TypeOK`, `MembersAnswerQuestion`, `InvitationsOfWorkspace`, `SpinnerEnds` |
| `workspace_shell` | 4 workspaces (one owned, one invited to, two not yet made), 2 tasks, 5 moves | `ShellTypeOK`, `InWorkspaceOfTheirs`, `AnsweredLeavesInbox` |
| `pages` | 2 workspaces, 3 records, pages of 1 record, 2 loads of the page and 2 of the card, 1 act, 3 moves | `TypeOK`, `SettledIsFresh`, `RowsAnswerQuery` |
| `application_form` | 3 records (2 the user's own), 2 postings, 3 fields (a text, a pay, the currency), 2 loads, 2 saves, 5 moves | `FormTypeOK`, `EditSavesItsRecord`, `TypedIsKept` |
| `account_pages` | 2 tabs, 2 calls, 2 links, cooldown and countdown of 2 s, 1 fault | `ResendIsHeard` |
| `analysis` | 1 record, 3 requests, 2 edits, 1 lost message | `AnalysisTypeOK`, `ClashesExplained` |

**Why the bounds are enough.** Each race here is between two transactions, so two
requests reach it (three for sessions, where a rotation, a login and a change can
all be open). With a cap of 2 and an owner there is one free seat and two guests
who compete for it. Two invitation rows per workspace are needed for a row that
was revoked and inserted again; two application ids for a duplicate; a URL with a
tracking parameter for two URLs of one posting; pay 0..1 for an inverted range;
three links for a replaced link, its successor and a competitor; six tokens for
two sessions that each rotate twice. `MaxInvitations`, `MaxTokens`, `MaxLinks`,
`MaxPay`, `MaxFaults` and the ids are the only bounds and each is a named constant. Users,
requests, ids, passwords and names are interchangeable, so the safety runs use
symmetry; the two runs with liveness do not. In `browser` two tasks share a tab's refresh
or race from two tabs, two token pairs are one rotation, and two faults are an expiry
and a lost answer, which is what leads to the reuse detection. Once the pairs are used up a call
can always fail, so that the bound alone keeps no task waiting.

In the runs of the screens the slots are the overlap: two loads can overtake one another, and an
act in progress crosses both. `MaxMoves` bounds what the user does, never what the code
does with it: three moves are an act, a switch and the switch back; the form needs five to type,
fill, leave, open and submit, and has records and postings with and without dollars; the shell needs four to
delete the session's workspace, create
another, switch to it and delete it before its creation ends, and has one to spare; its fourth
workspace is one that is created while another creation is in progress. With pages of one record, three records make a page that
empties, a page behind it, and a record of the other workspace. Two seconds
of countdown are enough for a mail in its middle; two tabs for one that is not told. In `analysis` three
requests are two writes that clash and a read that crosses them.

**Deadlock** is switched off: a bounded model stops when its ids or rows are used
up and no request is under way. That no request waits for ever is
`AcceptanceEnds`.

**Fairness.** `FairSpec` asks that a request that has begun takes its next step
(`WF`: a worker thread runs) and that one that waits for a row lock gets
it if the lock becomes free again and again (`SF`: PostgreSQL queues waiters).
Nothing forces anyone to begin a request. `Browser`'s `FairSpec` asks that
a task that has begun goes on: `fetch` settles one way or the other and the
event loop runs the continuation. `WorkspacePage`'s `FairSpec` asks the same of its loads and
acts; neither the user nor the timer of the search need do anything.

## 5. Proofs

Eight modules hold proofs for every value of the constants:

| Proof module | Theorem | Statement |
|---|---|---|
| `MembershipProofs` | `Invariance` | `Spec => []IInv` |
| | `TypeCorrect` | `Spec => []TypeOK` |
| | `CapHolds` | `Spec => []MemberCapRespected` |
| | `AnswersAreFinal` | `Spec => []AnsweredOnce` |
| | `OwnersAreSafe` | `Spec => OwnersStay` |
| | `AdmissionIsInvited` | `Spec => JoinsByInvitation` |
| | `MembershipImplementsRoster` | `Spec => ImplementsRoster` |
| | `ShellTypeCorrect` | `ShellSpec => []ShellTypeOK` |
| | `UsersAreInTheirWorkspaces` | `ShellSpec => []InWorkspaceOfTheirs` |
| | `AnsweredInvitationsLeave` | `ShellSpec => []AnsweredLeavesInbox` |
| `ApplicationsProofs` | `TypeCorrect` | `Spec => []TypeOK` |
| | `KeysAreUnique` | `Spec => []OneRecordPerKey` |
| | `PayStaysInOrder` | `Spec => []PayInOrder` |
| | `ErasedStaysErased` | `Spec => ErasedForGood` |
| | `AuthorityIsKept` | `Spec => AuthorityKept` |
| `SessionsProofs` | `TypeCorrect` | `Spec => []TypeOK` |
| | `TokensAreExchangedOnce` | `Spec => []ExchangedOnce` |
| | `ReuseIsAnswered` | `Spec => []ReuseEndsSession` |
| | `SessionsStayOver` | `Spec => OverForGood` |
| | `ChangesEndSessions` | `Spec => ChangeEndsSessions` |
| `RegistrationProofs` | `TypeCorrect` | `Spec => []TypeOK` |
| | `LinksWorkOnce` | `Spec => []LinkWorksOnce` |
| | `AccountsComeFromLinks` | `Spec => []AccountFromItsLink` |
| `WorkspacePageProofs` | `TypeCorrect` | `Spec => []TypeOK` |
| | `MembersAreAsked` | `Spec => []MembersAnswerQuestion` |
| | `InvitationsAreItsOwn` | `Spec => []InvitationsOfWorkspace` |
| `PagesProofs` | `CardAnswers` | `CardSpec => []RowsAnswerQuery` |
| | `TeamRowsAnswer` | `Spec => []RowsAnswerQuery` (of `Pages`) |
| | `PagesImplementCard` | `Spec => CardSpec` |
| | `PagesTypes` | `Spec => []TypeOK` (of `Pages`) |
| | `SettledPagesAreFresh` | `Spec => []SettledIsFresh` |
| `FormProofs` | `AccountTypes` | `Spec => []TypeOK` (of `AccountPages`) |
| | `ResendsAreHeard` | `Spec => []ResendIsHeard` |
| | `FormTypeCorrect` | `FormSpec => []FormTypeOK` |
| | `EditsSaveTheirRecord` | `FormSpec => []EditSavesItsRecord` |
| | `AutofillsKeepWhatIsTyped` | `FormSpec => TypedIsKept` |
| | `AnalysisTypeCorrect` | `AnalysisSpec => []AnalysisTypeOK` |
| | `ClashesAreExplained` | `AnalysisSpec => []ClashesExplained` |
| `BrowserProofs` | `BrowserTypes` | `FairSpec => []TypeOK` |
| | `BrowserExplainsReuse` | `FairSpec => []ReuseExplained` |
| | `OvertakenRestorationsSignNobodyIn` | `FairSpec => OvertakenStaysOut` |

Assumptions of `MembershipProofs`: the set of users is finite and does not contain `NoUser`, the cap
is a positive natural number, the bound on invitation rows a natural number. The others
assume what their components declare: the bounds are natural numbers, and the values that stand for
nothing are not members of the sets they are told apart from. `Pages` also takes the records for finitely
many, since its page numbers count them, and the page size for positive. `WorkspaceShell` takes the
workspaces for finitely many numbers, which stand for their places in the API's order, and those
that do not exist yet for the user's own.

**The argument.** The cap alone is not inductive: an acceptance between its count and its
commit has nothing in the rows that shows that there is a seat. `IInv` adds
`RoomForGuest` (a request about to join has counted fewer members than the cap),
which is kept because of `LocksHold` (at most one request holds the workspace row,
and one that has counted does) and because nobody else adds a member. `AnsweredOnce`
needs that a request about to write an answer still finds the invitation as it
loaded it, again by the lock. `OwnersStay` needs `OwnersUntouched`: a membership
read by a removal or a role update is not an owner's, and nobody becomes an owner
after creation. `RequestsWellFormed` and `NothingBeforeCreation` carry the types
and the initial phase. Each invariant has its step lemma with one case per
action; the theorems combine them with PTL. `IInv` is also checked by the run
`membership`.

For the contract, `MembershipProofs` takes `Roster`'s variables for the terms they are mapped to and shows, with one lemma per
operation that writes, that its commit is a step of the contract: `AnswerMoves` says what a
written invitation row becomes on the roster, `RoleMoves` what a written role does, `ContractJoins` and its
neighbours which contract step that is. Every other step leaves what is mapped
alone. The one invariant that `IInv` lacks is `Founded` (after the creation there is an owner),
since only then may the contract invite or close.

Nothing in `Applications` locks a row between its read and its write. `Fits` of `ApplicationsProofs` keeps what a
request may still rely on nevertheless: the author of a record never changes and an id is not used again
(`FreshUnused`). Key and pay range hold by the constraints in each commit (`Constrained`);
that they survive a restoration or a pay update needs no more than that. That a row is
deleted by its author or a moderator (`DeletedByFit`) makes the authority an invariant and not just a guard.

In `Sessions` a token is exchanged once because of three facts together: no token of a session is newer than its
current one (`Newest`), a rotation that holds the session's row still presents
the current token (`Rotating`), and one rotation at most holds the row (`Single`). `ReusedIsOver` is the inductive form of
`ReuseEndsSession`.

In `Registration` a link that was followed is either an earlier link of the row or consumed with it (`OpenedFits`), so a
second request on it finds nothing to open. A verification between its lock and its commit
still finds the row's link and form as it read them (`Fits`, `Single`), although a signup writes without the lock,
because that write waits for it; and the password of the row is that of its link's form (`RowFits`).

In `WorkspacePage` every load that still counts asks the present question or belongs to an act
(`LatestLoads`). The invitations have no such guard; what holds is that while a
workspace is marked as loaded, a load that brings its invitations is under way or they are there (`MarkKept`).

For the card, `RowsAnswerQuery` needs that every load that still counts asks the
present question (`LatestAsks`), which holds because a load begins exactly when the question
changes and makes all others outdated; `CardInv` adds it to the types and the
property. `PagesStepIsCardStep` shows, one case per action, that a step of
the pages is a step of the card or of its surroundings, so `TeamRowsAnswer` needs nothing else
about the pages. The only assumption is that of `TeamCard`.

`SettledIsFresh` speaks of a page at rest; on the way there anything may be in
progress. `Fresh` of `PagesProofs` says, for a page that nothing has crossed unseen, where the truth is at every
moment: either an act that was served still has to load the present question when it ends, or every
load that counts carries, once it is served, what the server would answer now, and so does
what is shown if no load that counts is in progress, or a goal's answer is about to replace it. `Fitting` says that loads
and acts are of the kinds that their page can have begun, and what a page shows is of the
kind that its question asks for. One lemma per action shows that the truth moves on only in
these ways. That two goals of one workspace may cross was found here: with a
second slot for acts TLC finds that the answers of two goals, taken in the other order around a
reload, leave the goal on the card that the server did not keep, so `Crosses` counts two goals in
progress at once as changes that cross.

In `Browser` a pair of tokens may sit in the cookies, in a request, in the answer of a refresh or in
that of a login. `InOrder` says that without a lost answer or a second tab that refreshes one
refresh runs at a time, that it presents the newest pair of its session or the session is
over, and that the cookies hold the newest pair unless the answer with it is about to arrive. `LoginsUnshown` is what a
login needs beyond this: the pair in its answer is the newest of a session that nobody else
knows yet. Both rest on `Owned` (a pair that was issued belongs to a session that was opened, and
only the answer of a refresh or a login carries one). For the restorations `LatestStands` says that the
one a tab waits for is never among the overtaken.

`ResendIsHeard` relates two clocks. Its invariant, `AccountInv` of `FormProofs`, says
that for a tab which no mail has crossed the server has counted at least as long as the page (`Clock`),
that a countdown never runs ahead of the seconds that passed (`Counting`), that a page
is still in the view that its pending request left it in (`Awaited`), that a call belongs to a tab
(`Owned`) and the sign-up page waits for one at a time (`Single`), and that a page about to hear that
its mail failed has nothing to wait for (`Unsent`). The resend leaves when the page's countdown is over: by
`Counting` the page has then waited `Countdown` seconds, by `Clock` the server at least as many.
The assumption `Cooldown <= Countdown` is what the page takes for granted: 60 s on both
sides in the code as it stands, and wrong as soon as the server is configured with a longer cooldown.

In `WorkspaceShell` answers arrive in any order and nothing guards them, so the lists must
carry the argument themselves. `Snapshots` says that each list, shown or on its way, was right when
it was read; `InSequence` that a later list has all that an earlier one had and that the user still has, since nothing
that is owned comes back and members leave only by deletion (`Apart`). `Announced` says that a list which is out of
date is followed by a newer one, and one with a deleted workspace by that of the deletion. `Placed`
follows the user: whoever stands in a deleted workspace does so no longer than its deletion takes, and no list on its way forgets
the workspace they are in. At rest nothing is on its way, so the list is theirs and so is the place. For the
inbox, `Unlisted` says that an invitation which was answered and is listed, or is
about to be, is still being answered, or was answered after its list was read. `PaidFor` bounds
the server's versions: each act on its way was paid for by a move. The property first failed
here: with three moves TLC had found nothing, but the proof asked what a creation does whose list lacks its workspace,
and four moves show it (section 6). `InWorkspaceOfTheirs` now excepts that case, and the run has five moves. That somebody
else removes the user is left out: the tab is not told, and shows what it has until its next refresh.

In `ApplicationForm` the property is nearly inductive. `EditsItsRecord` adds that an edit form which has kept its
address and its workspace since it was opened loads its own record only, has no autofill in progress, and holds once it is
drawn what that record had or the user typed. `TypedIsKept` needs the types alone, and one case per action: of
the steps that write fields only an autofill's could lose what was typed, and by `Fills` it loses no more than
a "USD" in a form without pay.

In `Analysis` a clash is a write whose request read too early. `Watched` says that the panel whose
writing request the tab waits for is there with its button disabled, so there is one such request
(`OneAtWork`); `LeftBehind` that every other request which still writes was abandoned, by leaving the panel or by a lost connection; and
`StillMissing` that what a request found missing is missing still unless it crosses an abandoned
one. A clash without any of these would need a second request of one panel.

**Only model-checked:** `AcceptanceEnds`, `RestorationEnds` and `SpinnerEnds` (liveness under
fairness is outside the prover's reach). Every invariant and every other action property
that a run checks is also a theorem.

## 6. Where the code and its documents disagree

Four modules state six documented rules that the code does not keep. None of the
configurations has them; when one is named there as an INVARIANT or a PROPERTY, TLC finds the counterexample:

- `OnlyOwnersChangeRoles` (`Membership`): accepting an invitation that crossed an earlier
  acceptance turns an active admin into a member, without an owner's request.
- `InvitationsGrantMember` (`Membership`): a role update that read the membership before a
  removal makes a guest who accepts later an admin.
- `OneRecordPerPosting` (`Applications`): two crossing edits store the URL of one and the
  normalized URL of the other; the posting can then be recorded twice.
- `OnlyDeleterErases` (`Applications`): permanent deletion erases by id what it found in the trash
  earlier, restored or not.
- `SessionsHaveCurrentPassword` (`Sessions`): a login that verified the old password commits its
  session after the password change.
- `RequestedWorkspaceOpened` (`Registration`): the link of one signup opens the workspace that a
  crossing signup asked for.

Met while modelling: failed logins are counted and rolled back, so
the lockout never happens; the revocation for an inactive user is rolled back; a
hash upgrade can put an old password back; "delete all" skips
records of others that a moderator deleted; verification never claims invitations;
a crossing signup can replace a live registration; a refresh that meets a network
error signs the user out instead of offering a retry; a logout with an expired access
token is refused and keeps the cookies.

On the screens: after a switch the workspace page may show the members or the
invitations of the workspace that was left, when an act or an overtaken load ends; whoever deleted their only workspace
stays in it after joining another; a creation that ends after its workspace was deleted again puts
the user back into it, and so into the deleted workspace of the session; the inbox enables a second answer to an invitation; the
list and Deleted show themselves empty when the last record of their last page goes; a selection
survives a switch, and "delete all" takes what was never shown; the dashboard may show another
workspace's goal, or of two goals saved together the one that was not kept; unguarded loads show an overtaken answer; an edit form whose load failed can be saved
empty; a record that loads late replaces what was typed in the form for a new one; an autofill fills
in what it found at a URL that was changed meanwhile, and replaces a "USD" that the user typed when no pay
is; a record without a currency is saved with "USD"; the inbox shows an answered invitation again when an
overtaken load arrives; a resend during a mail that is about to fail is told that the link is on its way; a save or a deletion that ends late takes the user
away from where they are; the sign-up page reports a mail that nobody sends; a first
upload that crosses another, or a removal, ends in a 500. The properties of section 4 name these cases and except
them, so that they hold of everything else. `PROJECT.json` quotes the lines.

## 7. Not modelled

- Streaks, aggregates, page arithmetic of the API, URL normalization, PDF parsing and the
  extraction of an autofill: functions of one input with tests of their own; nothing interleaves
  with them. What their callers do with the result is modelled.
- Request handling: which thread runs a dependency and when a pooled connection comes
  back is decided inside FastAPI, Starlette and SQLAlchemy; a module of it would model those.
- Rendering, charts, wording, layout and the vendored component library.
- Migrations and seeds: their constraints and rows are part of the modules of their tables.
- The pages' way from one detail page directly to another (a jump in the browser's history), and the routes
  of no module; URL and pay in one update of a record (section 3).
- The development identity: one selected id in local storage.
- SMTP and the AI provider beyond "answers, late or not at all"; JWT signatures, CSRF headers and
  hashing, abstracted to the tokens and passwords they identify; listings of the API beyond what the
  pages show of them.

## 8. What could follow

A refinement that ties the server part of `Browser` to `Sessions` and that of `AccountPages`
to `Registration`.

No module that is meant for proofs declares a recursive operator.
