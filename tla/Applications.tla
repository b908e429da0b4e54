---------------------------- MODULE Applications ----------------------------
(***************************************************************************)
(* The job applications of one workspace: creating, editing, soft          *)
(* deletion, restoring and permanent deletion (ApplicationService).        *)
(*                                                                         *)
(* As in Membership.tla each request is a transaction of its own that      *)
(* reads, checks what it has read, and writes at its commit.  No read of   *)
(* this service locks a row: only the constraints of job_applications      *)
(* stand between two requests.  The commit writes the columns whose new    *)
(* value differs from the value that was read, wherever the row is by      *)
(* then; an UPDATE of a row that is gone is an error (StaleDataError).     *)
(*                                                                         *)
(* deleted_at and deleted_by_user_id are always written together: here     *)
(* they are one column, deletedBy.  Callers are active members; which of   *)
(* them are owners or admins of the workspace stays fixed.                 *)
(***************************************************************************)
EXTENDS Naturals, FiniteSets

CONSTANTS
    Users,
    Moderators,    \* owners and admins of the workspace
    Applications,  \* ids, each of which is given to one row at most
    Urls,
    Postings,
    Posting,       \* Posting[url]: normalize_job_posting_url(url)
    MaxPay,        \* bound on salary_min and salary_max
    Requests,
    NoUser, NoUrl, NoPosting

ASSUME PeopleAssumption == Moderators \subseteq Users /\ NoUser \notin Users
ASSUME PostingAssumption ==
    /\ Posting \in [Urls -> Postings]
    /\ NoUrl \notin Urls
    /\ NoPosting \notin Postings
ASSUME PayAssumption == MaxPay \in Nat

VARIABLES
    row,      \* row[a]: the row with id a, NoRow if there is none
    fresh,    \* the ids not used yet
    request   \* request[r]: what request r is about to write

vars == <<row, fresh, request>>
----------------------------------------------------------------------------
\* An end that is absent (NULL) orders with everything, like 0 as the minimum and MaxPay
\* as the maximum, which stand for it.
Pay == 0..MaxPay

NoRow == [owner |-> NoUser, url |-> NoUrl, key |-> NoPosting,
          low |-> 0, high |-> 0, deletedBy |-> NoUser]

\* key: normalized_job_posting_url; low, high: salary_min, salary_max.
Rows == [owner : Users, url : Urls, key : Postings, low : Pay, high : Pay,
         deletedBy : Users \cup {NoUser}]

Columns == {"url", "key", "low", "high"}

Steps == {"idle", "insert", "update_lookup", "update", "delete", "restore", "erase"}

RequestState == [step : Steps, user : Users \cup {NoUser}, apps : SUBSET Applications,
                 columns : SUBSET Columns, url : Urls \cup {NoUrl}, low : Pay, high : Pay]

Idle == [step |-> "idle", user |-> NoUser, apps |-> {}, columns |-> {},
         url |-> NoUrl, low |-> 0, high |-> 0]

TypeOK ==
    /\ row \in [Applications -> Rows \cup {NoRow}]
    /\ fresh \subseteq Applications
    /\ request \in [Requests -> RequestState]

Init ==
    /\ row = [a \in Applications |-> NoRow]
    /\ fresh = Applications
    /\ request = [r \in Requests |-> Idle]
----------------------------------------------------------------------------
Exists(a) == row[a] # NoRow

\* find_by_normalized_url: deleted rows count.
KeyTaken(u, key) == \E a \in Applications : row[a].owner = u /\ row[a].key = key

\* uq_application_workspace_owner_normalized_url, for a row stored under id a
KeyUnchecked(a, new) == TRUE     \* mutant: no unique constraint

KeyUnique(a, new) ==
    \A b \in Applications \ {a} : ~(row[b].owner = new.owner /\ row[b].key = new.key)

\* ck_application_salary_range
PayUnchecked(new) == TRUE        \* mutant: no check constraint

PayOrdered(new) == new.low <= new.high

MayEditAny(u, a) == TRUE         \* mutant: authorship is not checked

MayEdit(u, a) == row[a].owner = u

MayDelete(u, a) == row[a].owner = u \/ u \in Moderators

Begin(r, state) == request[r] = Idle /\ request' = [request EXCEPT ![r] = state]

End(r) == request' = [request EXCEPT ![r] = Idle]
----------------------------------------------------------------------------
(***************************************************************************)
(* create.  A start whose checks fail answers 409 or 403 and changes       *)
(* nothing, here and below.                                                *)
(***************************************************************************)
StartCreate(r, u, url) ==
    /\ ~KeyTaken(u, Posting[url])
    /\ Begin(r, [Idle EXCEPT !.step = "insert", !.user = u, !.url = url])
    /\ UNCHANGED <<row, fresh>>

Insert(r) ==
    LET q == request[r]
        new == [owner |-> q.user, url |-> q.url, key |-> Posting[q.url],
                low |-> 0, high |-> MaxPay, deletedBy |-> NoUser]
    IN
    /\ q.step = "insert"
    /\ \E a \in fresh :
          IF KeyUnique(a, new)
          THEN row' = [row EXCEPT ![a] = new] /\ fresh' = fresh \ {a}
          ELSE UNCHANGED <<row, fresh>>
    /\ End(r)
----------------------------------------------------------------------------
(***************************************************************************)
(* update, with a payload that changes the URL or the salary range.  One   *)
(* with both is two requests here: no constraint relates the two.          *)
(***************************************************************************)
\* _require_owned_active_application
Editable(u, a) == Exists(a) /\ MayEdit(u, a) /\ row[a].deletedBy = NoUser

UrlColumns(a, url) ==
    {c \in {"url"} : url # row[a].url} \cup {c \in {"key"} : Posting[url] # row[a].key}

StartUrlUpdate(r, u, a, url) ==
    LET columns == UrlColumns(a, url) IN
    /\ Editable(u, a)
    /\ columns # {}
    /\ Begin(r, [Idle EXCEPT !.step = IF "key" \in columns THEN "update_lookup" ELSE "update",
                             !.user = u, !.apps = {a}, !.columns = columns, !.url = url])
    /\ UNCHANGED <<row, fresh>>

UpdateLookup(r) ==
    LET q == request[r] IN
    /\ q.step = "update_lookup"
    /\ IF \E b \in Applications \ q.apps : row[b].owner = q.user /\ row[b].key = Posting[q.url]
       THEN End(r)
       ELSE request' = [request EXCEPT ![r].step = "update"]
    /\ UNCHANGED <<row, fresh>>

PayColumns(a, low, high) ==
    {c \in {"low"} : low # row[a].low} \cup {c \in {"high"} : high # row[a].high}

\* merged: an end that the payload leaves out is validated as it was read.
StartPayUpdate(r, u, a, low, high) ==
    LET columns == PayColumns(a, low, high) IN
    /\ Editable(u, a)
    /\ columns # {} /\ low <= high
    /\ Begin(r, [Idle EXCEPT !.step = "update", !.user = u, !.apps = {a}, !.columns = columns,
                             !.low = IF "low" \in columns THEN low ELSE 0,
                             !.high = IF "high" \in columns THEN high ELSE 0])
    /\ UNCHANGED <<row, fresh>>

Written(old, q) ==
    [old EXCEPT !.url = IF "url" \in q.columns THEN q.url ELSE @,
                !.key = IF "key" \in q.columns THEN Posting[q.url] ELSE @,
                !.low = IF "low" \in q.columns THEN q.low ELSE @,
                !.high = IF "high" \in q.columns THEN q.high ELSE @]

UpdateStored(a, new) == TRUE     \* mutant: the row is written even if it is gone

UpdateAccepted(a, new) == Exists(a) /\ KeyUnique(a, new) /\ PayOrdered(new)

UpdateWrite(r) ==
    LET q == request[r] IN
    /\ q.step = "update"
    /\ \E a \in q.apps :
          IF UpdateAccepted(a, Written(row[a], q))
          THEN row' = [row EXCEPT ![a] = Written(@, q)]
          ELSE UNCHANGED row
    /\ End(r)
    /\ UNCHANGED fresh
----------------------------------------------------------------------------
\* soft_delete and restore.  Neither looks at deleted_at again when it writes.
StartDelete(r, u, a) ==
    /\ Exists(a) /\ MayDelete(u, a) /\ row[a].deletedBy = NoUser
    /\ Begin(r, [Idle EXCEPT !.step = "delete", !.user = u, !.apps = {a}])
    /\ UNCHANGED <<row, fresh>>

StartRestore(r, u, a) ==
    /\ Exists(a) /\ row[a].deletedBy = u
    /\ Begin(r, [Idle EXCEPT !.step = "restore", !.user = u, !.apps = {a}])
    /\ UNCHANGED <<row, fresh>>

SetDeletedBy(r, u) ==
    /\ row' = [a \in Applications |->
                  IF a \in request[r].apps /\ Exists(a)
                  THEN [row[a] EXCEPT !.deletedBy = u]
                  ELSE row[a]]
    /\ End(r)
    /\ UNCHANGED fresh

DeleteWrite(r) == request[r].step = "delete" /\ SetDeletedBy(r, request[r].user)

RestoreWrite(r) == request[r].step = "restore" /\ SetDeletedBy(r, NoUser)
----------------------------------------------------------------------------
(***************************************************************************)
(* permanently_delete.  A row that is gone by the time of the DELETE is    *)
(* only a warning.                                                         *)
(***************************************************************************)
Trash(u) == {a \in Applications : row[a].deletedBy = u}

\* delete_all takes the requester's own applications in the requester's trash.
OwnTrash(u) == {a \in Trash(u) : row[a].owner = u}

StartErase(r, u, selection) ==
    /\ selection # {}
    /\ \/ selection \subseteq Trash(u)
       \/ selection = OwnTrash(u)
    /\ Begin(r, [Idle EXCEPT !.step = "erase", !.user = u, !.apps = selection])
    /\ UNCHANGED <<row, fresh>>

EraseWrite(r) ==
    /\ request[r].step = "erase"
    /\ row' = [a \in Applications |-> IF a \in request[r].apps THEN NoRow ELSE row[a]]
    /\ End(r)
    /\ UNCHANGED fresh

\* The transaction is rolled back before its commit.
Abort(r) ==
    /\ request[r] # Idle
    /\ End(r)
    /\ UNCHANGED <<row, fresh>>
----------------------------------------------------------------------------
StartRequest(r, u) ==
    \/ \E url \in Urls : StartCreate(r, u, url)
    \/ \E a \in Applications :
          \/ \E url \in Urls : StartUrlUpdate(r, u, a, url)
          \/ \E low, high \in Pay : StartPayUpdate(r, u, a, low, high)
          \/ StartDelete(r, u, a)
          \/ StartRestore(r, u, a)
    \/ \E selection \in SUBSET Applications : StartErase(r, u, selection)

Advance(r) ==
    \/ Insert(r) \/ UpdateLookup(r) \/ UpdateWrite(r)
    \/ DeleteWrite(r) \/ RestoreWrite(r) \/ EraseWrite(r)
    \/ Abort(r)

Next == \E r \in Requests : (\E u \in Users : StartRequest(r, u)) \/ Advance(r)

Spec == Init /\ [][Next]_vars
----------------------------------------------------------------------------
\* Two requests that both found no record of a posting never store two rows
\* with one normalized URL for one owner, deleted rows included.
OneRecordPerKey ==
    \A a, b \in Applications :
        Exists(a) /\ row[a].owner = row[b].owner /\ row[a].key = row[b].key => a = b

\* The stored salary range is never inverted, although each update validates
\* its end of the range against the other end as it was before.
PayInOrder == \A a \in Applications : row[a].low <= row[a].high

\* Whatever requests cross each other, only the author's own requests change
\* the content of a record, nobody changes its author, and it is only ever in
\* the trash of its author or of a moderator (ADR 0004).
AuthorityKept ==
    [][\A a \in Applications : Exists(a) /\ row'[a] # NoRow =>
          /\ row'[a].owner = row[a].owner
          /\ [row'[a] EXCEPT !.deletedBy = NoUser] # [row[a] EXCEPT !.deletedBy = NoUser] =>
                 \E r \in Requests : request[r].step = "update" /\ request[r].user = row[a].owner
          /\ row'[a].deletedBy \in {NoUser, row[a].owner} \cup Moderators]_vars

\* A record that was permanently deleted never comes back, although an edit,
\* a deletion or a restoration that read it may still be about to commit.
ErasedForGood ==
    [][\A a \in Applications \ fresh : ~Exists(a) => row'[a] = NoRow]_vars

\* docs/product-requirements.md promises duplicate prevention for the same
\* owner and normalized URL: no owner has two records of one posting.
OneRecordPerPosting ==
    \A a, b \in Applications :
        Exists(a) /\ row[a].owner = row[b].owner /\ Posting[row[a].url] = Posting[row[b].url]
            => a = b

\* docs/domain-model.md says that a user may permanently delete only
\* applications whose deleted_by_user_id is theirs.
OnlyDeleterErases ==
    [][\A a \in Applications : Exists(a) /\ row'[a] = NoRow =>
          \E r \in Requests : /\ request[r].step = "erase"
                              /\ a \in request[r].apps
                              /\ row[a].deletedBy = request[r].user]_vars
============================================================================
