-------------------------- MODULE ApplicationsProofs --------------------------
(***************************************************************************)
(* Theorems about Applications, for any users, moderators, records, URLs,  *)
(* pay and requests.  Nothing locks a row between the step that read it    *)
(* and the step that writes it: what the writer may still rely on is what  *)
(* no request can change, the author of a record and that an id is not     *)
(* used again (Fits).  The rest is left to the constraints of the table.   *)
(***************************************************************************)
EXTENDS Applications, TLAPS

\* An id that was not used yet has no row.
FreshUnused == \A a \in fresh : ~Exists(a)

\* What was true of its records when the checks of q were made is true of those
\* that still exist when q writes.
Fits(q) ==
    /\ q.apps \cap fresh = {}
    /\ q.step = "insert" => q.user \in Users /\ q.url \in Urls
    /\ q.step \in {"update_lookup", "update"} =>
          /\ q.columns \cap {"url", "key"} # {} => q.url \in Urls
          /\ \A a \in q.apps : Exists(a) => row[a].owner = q.user
    /\ q.step = "delete" =>
          /\ q.user \in Users
          /\ \A a \in q.apps : Exists(a) => row[a].owner = q.user \/ q.user \in Moderators

\* A record is in the trash of its author or of a moderator.
DeletedByFit == \A a \in Applications : row[a].deletedBy \in {NoUser, row[a].owner} \cup Moderators

Constrained == OneRecordPerKey /\ PayInOrder

IInv ==
    /\ TypeOK
    /\ FreshUnused
    /\ \A r \in Requests : Fits(request[r])
    /\ DeletedByFit
    /\ Constrained

\* What no step does: it neither brings back a record nor changes its author.
RowsKept ==
    /\ fresh' \subseteq fresh
    /\ \A a \in Applications \ fresh :
          row'[a] = NoRow \/ (Exists(a) /\ row'[a].owner = row[a].owner)
----------------------------------------------------------------------------
LEMMA PayLemma == 0 \in Pay /\ MaxPay \in Pay /\ 0 <= MaxPay /\ Pay \subseteq Nat
  BY PayAssumption DEF Pay

LEMMA RowLemma ==
    ASSUME TypeOK, NEW a \in Applications
    PROVE  /\ Exists(a) => row[a] \in Rows
           /\ ~Exists(a) => row[a] = NoRow
           /\ Exists(a) <=> row[a].owner # NoUser
           /\ Exists(a) <=> row[a].owner \in Users
           /\ row[a].deletedBy # NoUser => Exists(a)
  BY PeopleAssumption DEF TypeOK, Rows, NoRow, Exists

LEMMA IdleLemma == Idle \in RequestState /\ Idle.step = "idle" /\ Idle.apps = {}
  BY PayLemma DEF Idle, RequestState, Steps, Columns

LEMMA InitLemma == Init => IInv
  <1> SUFFICES ASSUME Init PROVE IInv
    OBVIOUS
  <1>1. TypeOK /\ FreshUnused
    BY IdleLemma DEF Init, TypeOK, FreshUnused, Exists
  <1>2. \A r \in Requests : Fits(request[r])
    BY IdleLemma DEF Init, Fits
  <1>3. DeletedByFit /\ PayInOrder
    BY DEF Init, DeletedByFit, PayInOrder, NoRow
  <1>4. OneRecordPerKey
    BY DEF Init, OneRecordPerKey, Exists
  <1> QED  BY <1>1, <1>2, <1>3, <1>4 DEF IInv, Constrained

LEMMA KeepLemma ==
    ASSUME NEW q \in RequestState, Fits(q), RowsKept
    PROVE  Fits(q)'
  <1>1. q.apps \subseteq Applications /\ q.apps \cap fresh = {} /\ q.apps \cap fresh' = {}
    BY DEF RequestState, Fits, RowsKept
  <1>2. \A a \in q.apps : row'[a] # NoRow => Exists(a) /\ row'[a].owner = row[a].owner
    BY <1>1 DEF RowsKept
  <1> QED  BY <1>1, <1>2 DEF Fits, Exists

\* A request that begins, with what it read true of the rows as they are.
LEMMA BeginLemma ==
    ASSUME IInv, NEW r \in Requests, NEW state \in RequestState, Fits(state),
           Begin(r, state), UNCHANGED <<row, fresh>>
    PROVE  IInv'
  <1>1. request' \in [Requests -> RequestState]
    BY DEF Begin, IInv, TypeOK
  <1>2. ASSUME NEW q \in Requests PROVE Fits(request[q])'
    BY DEF Begin, IInv, TypeOK, Fits, Exists
  <1>3. TypeOK' /\ FreshUnused' /\ DeletedByFit' /\ Constrained'
    BY <1>1 DEF IInv, TypeOK, FreshUnused, Exists, DeletedByFit, Constrained, OneRecordPerKey,
                PayInOrder
  <1> QED  BY <1>2, <1>3 DEF IInv

\* A request that ends, having written what keeps the table in order.
LEMMA EndLemma ==
    ASSUME IInv, NEW r \in Requests, End(r), RowsKept,
           row' \in [Applications -> Rows \cup {NoRow}],
           FreshUnused', DeletedByFit', Constrained'
    PROVE  IInv'
  <1>1. request' = [request EXCEPT ![r] = Idle] /\ request \in [Requests -> RequestState]
    BY DEF End, IInv, TypeOK
  <1>2. TypeOK'
    BY <1>1, IdleLemma DEF IInv, TypeOK, RowsKept
  <1>3. ASSUME NEW q \in Requests PROVE Fits(request[q])'
    <2>1. CASE q = r
      BY <1>1, <2>1, IdleLemma DEF Fits
    <2>2. CASE q # r
      <3>1. request'[q] = request[q] /\ request[q] \in RequestState /\ Fits(request[q])
        BY <1>1, <2>2 DEF IInv
      <3>2. \A p \in RequestState : Fits(p) => Fits(p)'
        BY KeepLemma
      <3> QED  BY <3>1, <3>2 DEF Fits, Exists
    <2> QED  BY <2>1, <2>2
  <1> QED  BY <1>2, <1>3 DEF IInv
----------------------------------------------------------------------------
LEMMA CreateLemma ==
    ASSUME IInv, NEW r \in Requests, NEW u \in Users, NEW url \in Urls, StartCreate(r, u, url)
    PROVE  IInv'
  <1> DEFINE state == [Idle EXCEPT !.step = "insert", !.user = u, !.url = url]
  <1>1. /\ state \in RequestState
        /\ state.step = "insert" /\ state.user = u /\ state.url = url /\ state.apps = {}
    BY PayLemma DEF Idle, RequestState, Steps
  <1>2. Begin(r, state) /\ UNCHANGED <<row, fresh>>
    BY DEF StartCreate
  <1> HIDE DEF state
  <1>3. Fits(state)
    BY <1>1 DEF Fits
  <1> QED  BY <1>1, <1>2, <1>3, BeginLemma

LEMMA InsertLemma ==
    ASSUME IInv, NEW r \in Requests, Insert(r)
    PROVE  IInv'
  <1> DEFINE q == request[r]
             new == [owner |-> q.user, url |-> q.url, key |-> Posting[q.url],
                     low |-> 0, high |-> MaxPay, deletedBy |-> NoUser]
  <1>1. /\ new \in Rows
        /\ new.low = 0 /\ new.high = MaxPay /\ new.deletedBy = NoUser
    BY PayLemma, PostingAssumption DEF Insert, IInv, Fits, Rows
  <1>2. PICK a \in fresh :
            IF KeyUnique(a, new)
            THEN row' = [row EXCEPT ![a] = new] /\ fresh' = fresh \ {a}
            ELSE UNCHANGED <<row, fresh>>
    BY DEF Insert
  <1>3. End(r)
    BY DEF Insert
  <1> HIDE DEF new
  <1>4. CASE ~KeyUnique(a, new)
    <2>1. UNCHANGED <<row, fresh>>
      BY <1>2, <1>4
    <2>2. RowsKept /\ FreshUnused' /\ DeletedByFit' /\ Constrained'
      BY <2>1 DEF RowsKept, IInv, TypeOK, FreshUnused, Exists, DeletedByFit, Constrained,
                  OneRecordPerKey, PayInOrder
    <2> QED  BY <1>3, <2>1, <2>2, EndLemma DEF IInv, TypeOK
  <1>5. CASE KeyUnique(a, new)
    <2>1. /\ row \in [Applications -> Rows \cup {NoRow}] /\ a \in Applications
          /\ row' = [row EXCEPT ![a] = new] /\ fresh' = fresh \ {a}
      BY <1>2, <1>5 DEF IInv, TypeOK
    <2>2. /\ row'[a] = new
          /\ \A b \in Applications \ {a} : row'[b] = row[b]
          /\ row' \in [Applications -> Rows \cup {NoRow}]
      BY <1>1, <2>1
    <2>3. RowsKept /\ FreshUnused'
      BY <2>1, <2>2 DEF RowsKept, IInv, TypeOK, FreshUnused, Exists
    <2>4. DeletedByFit' /\ PayInOrder'
      BY <1>1, <2>2, PayLemma DEF IInv, DeletedByFit, Constrained, PayInOrder
    <2>5. OneRecordPerKey'
      BY <1>5, <2>2 DEF KeyUnique, IInv, Constrained, OneRecordPerKey, Exists
    <2> QED  BY <1>3, <2>2, <2>3, <2>4, <2>5, EndLemma DEF Constrained
  <1> QED  BY <1>4, <1>5
----------------------------------------------------------------------------
LEMMA UrlLemma ==
    ASSUME IInv, NEW r \in Requests, NEW u \in Users, NEW a \in Applications, NEW url \in Urls,
           StartUrlUpdate(r, u, a, url)
    PROVE  IInv'
  <1> DEFINE step == IF "key" \in UrlColumns(a, url) THEN "update_lookup" ELSE "update"
             state == [Idle EXCEPT !.step = step, !.user = u, !.apps = {a},
                                   !.columns = UrlColumns(a, url), !.url = url]
  <1>1. Editable(u, a) /\ Begin(r, state) /\ UNCHANGED <<row, fresh>>
    BY DEF StartUrlUpdate
  <1>2. UrlColumns(a, url) \subseteq Columns
    BY DEF UrlColumns, Columns
  <1>3. /\ state \in RequestState
        /\ state.step = step /\ state.user = u /\ state.apps = {a} /\ state.url = url
    BY <1>2, PayLemma DEF Idle, RequestState, Steps
  <1> HIDE DEF state
  <1>4. Fits(state)
    BY <1>1, <1>3 DEF Fits, Editable, MayEdit, IInv, FreshUnused
  <1> QED  BY <1>1, <1>3, <1>4, BeginLemma

LEMMA PayUpdateLemma ==
    ASSUME IInv, NEW r \in Requests, NEW u \in Users, NEW a \in Applications,
           NEW low \in Pay, NEW high \in Pay, StartPayUpdate(r, u, a, low, high)
    PROVE  IInv'
  <1> DEFINE columns == PayColumns(a, low, high)
             min == IF "low" \in columns THEN low ELSE 0
             max == IF "high" \in columns THEN high ELSE 0
             state == [Idle EXCEPT !.step = "update", !.user = u, !.apps = {a},
                                   !.columns = columns, !.low = min, !.high = max]
  <1>1. Editable(u, a) /\ Begin(r, state) /\ UNCHANGED <<row, fresh>>
    BY DEF StartPayUpdate
  <1>2. /\ columns \subseteq Columns /\ columns \cap {"url", "key"} = {}
        /\ min \in Pay /\ max \in Pay
    BY PayLemma DEF PayColumns, Columns
  <1> HIDE DEF columns, min, max
  <1>3. /\ state \in RequestState
        /\ state.step = "update" /\ state.user = u /\ state.apps = {a} /\ state.columns = columns
    BY <1>2 DEF Idle, RequestState, Steps
  <1> HIDE DEF state
  <1>4. Fits(state)
    BY <1>1, <1>2, <1>3 DEF Fits, Editable, MayEdit, IInv, FreshUnused
  <1> QED  BY <1>1, <1>3, <1>4, BeginLemma

LEMMA LookupLemma ==
    ASSUME IInv, NEW r \in Requests, UpdateLookup(r)
    PROVE  IInv'
  <1>1. UNCHANGED <<row, fresh>> /\ request[r].step = "update_lookup"
    BY DEF UpdateLookup
  <1>2. RowsKept /\ FreshUnused' /\ DeletedByFit' /\ Constrained'
    BY <1>1 DEF RowsKept, IInv, TypeOK, FreshUnused, Exists, DeletedByFit, Constrained,
                OneRecordPerKey, PayInOrder
  <1>3. CASE End(r)
    BY <1>1, <1>2, <1>3, EndLemma DEF IInv, TypeOK
  <1>4. CASE request' = [request EXCEPT ![r].step = "update"]
    <2>1. /\ request' \in [Requests -> RequestState]
          /\ request'[r].step = "update"
          /\ request'[r].apps = request[r].apps /\ request'[r].user = request[r].user
          /\ request'[r].columns = request[r].columns /\ request'[r].url = request[r].url
          /\ \A q \in Requests \ {r} : request'[q] = request[q]
      BY <1>4 DEF IInv, TypeOK, RequestState, Steps
    <2>2. Fits(request[r])'
      BY <1>1, <2>1 DEF IInv, Fits, Exists
    <2>3. ASSUME NEW q \in Requests \ {r} PROVE Fits(request[q])'
      BY <1>1, <2>1 DEF IInv, Fits, Exists
    <2> QED  BY <1>1, <1>2, <2>1, <2>2, <2>3 DEF IInv, TypeOK
  <1> QED  BY <1>3, <1>4 DEF UpdateLookup

\* What an update stores is a row of the same author, in the same trash.
LEMMA WrittenLemma ==
    ASSUME NEW old \in Rows, NEW q \in RequestState,
           q.columns \cap {"url", "key"} # {} => q.url \in Urls
    PROVE  /\ Written(old, q) \in Rows
           /\ Written(old, q).owner = old.owner
           /\ Written(old, q).deletedBy = old.deletedBy
  <1>1. q.low \in Pay /\ q.high \in Pay
    BY DEF RequestState
  <1>2. "url" \in q.columns => q.url \in Urls
    OBVIOUS
  <1>3. "key" \in q.columns => Posting[q.url] \in Postings
    BY PostingAssumption
  <1> QED  BY <1>1, <1>2, <1>3 DEF Written, Rows

LEMMA UpdateLemma ==
    ASSUME IInv, NEW r \in Requests, UpdateWrite(r)
    PROVE  IInv'
  <1> DEFINE q == request[r]
  <1>1. /\ End(r) /\ fresh' = fresh /\ q \in RequestState /\ q.step = "update"
        /\ row \in [Applications -> Rows \cup {NoRow}]
    BY DEF UpdateWrite, IInv, TypeOK
  <1>2. CASE UNCHANGED row
    <2>1. RowsKept /\ FreshUnused' /\ DeletedByFit' /\ Constrained'
      BY <1>1, <1>2 DEF RowsKept, IInv, TypeOK, FreshUnused, Exists, DeletedByFit, Constrained,
                        OneRecordPerKey, PayInOrder
    <2> QED  BY <1>1, <1>2, <2>1, EndLemma
  <1>3. ASSUME NEW a \in q.apps, UpdateAccepted(a, Written(row[a], q)),
               row' = [row EXCEPT ![a] = Written(@, q)]
        PROVE  IInv'
    <2> DEFINE new == Written(row[a], q)
    <2>1. a \in Applications /\ Exists(a) /\ row[a] \in Rows
      BY <1>1, <1>3, RowLemma DEF RequestState, UpdateAccepted, IInv
    <2>2. new \in Rows /\ new.owner = row[a].owner /\ new.deletedBy = row[a].deletedBy
      BY <1>1, <2>1, WrittenLemma DEF IInv, Fits
    <2>3. KeyUnique(a, new) /\ PayOrdered(new)
      BY <1>3 DEF UpdateAccepted
    <2>4. row' = [row EXCEPT ![a] = new]
      BY <1>1, <1>3, <2>1
    <2> HIDE DEF new
    <2>5. /\ row' \in [Applications -> Rows \cup {NoRow}]
          /\ row'[a] = new
          /\ \A b \in Applications \ {a} : row'[b] = row[b]
      BY <1>1, <2>1, <2>2, <2>4
    <2>6. RowsKept /\ FreshUnused'
      BY <1>1, <2>1, <2>2, <2>5 DEF RowsKept, IInv, TypeOK, FreshUnused, Exists
    <2>7. DeletedByFit' /\ PayInOrder'
      BY <2>1, <2>2, <2>3, <2>5
      DEF IInv, DeletedByFit, Constrained, PayInOrder, PayOrdered
    <2>8. OneRecordPerKey'
      BY <2>1, <2>2, <2>3, <2>5 DEF KeyUnique, IInv, Constrained, OneRecordPerKey, Exists
    <2> QED  BY <1>1, <2>5, <2>6, <2>7, <2>8, EndLemma DEF Constrained
  <1> QED  BY <1>2, <1>3 DEF UpdateWrite
----------------------------------------------------------------------------
LEMMA DeletionLemma ==
    ASSUME IInv, NEW r \in Requests, NEW u \in Users, NEW a \in Applications,
           StartDelete(r, u, a) \/ StartRestore(r, u, a)
    PROVE  IInv'
  <1>1. Exists(a) /\ UNCHANGED <<row, fresh>> /\ {a} \cap fresh = {}
    BY DEF StartDelete, StartRestore, IInv, FreshUnused
  <1>2. CASE StartDelete(r, u, a)
    <2> DEFINE state == [Idle EXCEPT !.step = "delete", !.user = u, !.apps = {a}]
    <2>1. /\ state \in RequestState
          /\ state.step = "delete" /\ state.user = u /\ state.apps = {a}
      BY PayLemma DEF Idle, RequestState, Steps
    <2>2. Begin(r, state) /\ MayDelete(u, a)
      BY <1>2 DEF StartDelete
    <2> HIDE DEF state
    <2>3. Fits(state)
      BY <1>1, <2>1, <2>2 DEF Fits, MayDelete
    <2> QED  BY <1>1, <2>1, <2>2, <2>3, BeginLemma
  <1>3. CASE StartRestore(r, u, a)
    <2> DEFINE state == [Idle EXCEPT !.step = "restore", !.user = u, !.apps = {a}]
    <2>1. state \in RequestState /\ state.step = "restore" /\ state.apps = {a}
      BY PayLemma DEF Idle, RequestState, Steps
    <2>2. Begin(r, state)
      BY <1>3 DEF StartRestore
    <2> HIDE DEF state
    <2>3. Fits(state)
      BY <1>1, <2>1 DEF Fits
    <2> QED  BY <1>1, <2>1, <2>2, <2>3, BeginLemma
  <1> QED  BY <1>2, <1>3

LEMMA StartEraseLemma ==
    ASSUME IInv, NEW r \in Requests, NEW u \in Users, NEW selection \in SUBSET Applications,
           StartErase(r, u, selection)
    PROVE  IInv'
  <1> DEFINE state == [Idle EXCEPT !.step = "erase", !.user = u, !.apps = selection]
  <1>1. /\ state \in RequestState /\ state.step = "erase" /\ state.apps = selection
    BY PayLemma DEF Idle, RequestState, Steps
  <1>2. Begin(r, state) /\ UNCHANGED <<row, fresh>>
    BY DEF StartErase
  <1>3. selection \subseteq Trash(u)
    BY DEF StartErase, OwnTrash
  <1>4. \A a \in selection : Exists(a)
    BY <1>3, RowLemma, PeopleAssumption DEF Trash, IInv
  <1> HIDE DEF state
  <1>5. Fits(state)
    BY <1>1, <1>4 DEF Fits, IInv, FreshUnused
  <1> QED  BY <1>1, <1>2, <1>5, BeginLemma

\* Setting deleted_by leaves everything else in a row.
LEMMA SetLemma ==
    ASSUME IInv, NEW r \in Requests, NEW u \in Users \cup {NoUser}, SetDeletedBy(r, u),
           \A a \in request[r].apps : Exists(a) => u \in {NoUser, row[a].owner} \cup Moderators
    PROVE  IInv'
  <1>1. End(r) /\ fresh' = fresh /\ row \in [Applications -> Rows \cup {NoRow}]
    BY DEF SetDeletedBy, IInv, TypeOK
  <1>2. ASSUME NEW a \in Applications
        PROVE  /\ row'[a] = row[a] \/ (a \in request[r].apps /\ row'[a].deletedBy = u /\ Exists(a))
               /\ row'[a] \in Rows \cup {NoRow}
               /\ Exists(a)' <=> Exists(a)
               /\ row'[a].owner = row[a].owner /\ row'[a].key = row[a].key
               /\ row'[a].low = row[a].low /\ row'[a].high = row[a].high
    <2>1. CASE a \in request[r].apps /\ Exists(a)
      <3>1. row'[a] = [row[a] EXCEPT !.deletedBy = u] /\ row[a] \in Rows
        BY <2>1, RowLemma DEF SetDeletedBy, IInv
      <3>2. /\ row'[a] \in Rows /\ row'[a].deletedBy = u
            /\ row'[a].owner = row[a].owner /\ row'[a].key = row[a].key
            /\ row'[a].low = row[a].low /\ row'[a].high = row[a].high
        BY <3>1 DEF Rows
      <3>3. row'[a] # NoRow
        BY <3>2, PeopleAssumption DEF Rows, NoRow
      <3> QED  BY <2>1, <3>2, <3>3 DEF Exists
    <2>2. CASE ~(a \in request[r].apps /\ Exists(a))
      BY <1>1, <2>2 DEF SetDeletedBy, Exists
    <2> QED  BY <2>1, <2>2
  <1>3. row' \in [Applications -> Rows \cup {NoRow}]
    BY <1>2 DEF SetDeletedBy
  <1>4. RowsKept
    BY <1>1, <1>2 DEF RowsKept, Exists
  <1>5. FreshUnused'
    BY <1>1, <1>2 DEF IInv, TypeOK, FreshUnused
  <1>6. DeletedByFit'
    BY <1>2 DEF IInv, DeletedByFit
  <1>7. Constrained'
    BY <1>2 DEF IInv, Constrained, OneRecordPerKey, PayInOrder
  <1> QED  BY <1>1, <1>3, <1>4, <1>5, <1>6, <1>7, EndLemma

LEMMA EraseLemma ==
    ASSUME IInv, NEW r \in Requests, EraseWrite(r)
    PROVE  IInv'
  <1>1. End(r) /\ fresh' = fresh /\ row \in [Applications -> Rows \cup {NoRow}]
    BY DEF EraseWrite, IInv, TypeOK
  <1>2. /\ row' \in [Applications -> Rows \cup {NoRow}]
        /\ \A a \in Applications : row'[a] = row[a] \/ row'[a] = NoRow
    BY <1>1 DEF EraseWrite
  <1>3. RowsKept /\ FreshUnused'
    BY <1>1, <1>2 DEF RowsKept, IInv, TypeOK, FreshUnused, Exists
  <1>4. DeletedByFit' /\ PayInOrder'
    BY <1>2 DEF IInv, DeletedByFit, Constrained, PayInOrder, NoRow
  <1>5. OneRecordPerKey'
    <2> SUFFICES ASSUME NEW a \in Applications, NEW b \in Applications, Exists(a)',
                        row'[a].owner = row'[b].owner, row'[a].key = row'[b].key
                 PROVE  a = b
      BY DEF OneRecordPerKey
    <2>1. row'[a] = row[a] /\ Exists(a) /\ row[a].owner # NoUser
      BY <1>2, RowLemma DEF Exists, IInv
    <2>2. row'[b] = row[b]
      BY <1>2, <2>1 DEF NoRow
    <2> QED  BY <2>1, <2>2 DEF IInv, Constrained, OneRecordPerKey
  <1> QED  BY <1>1, <1>2, <1>3, <1>4, <1>5, EndLemma DEF Constrained

LEMMA NextLemma == IInv /\ [Next]_vars => IInv'
  <1> SUFFICES ASSUME IInv, [Next]_vars PROVE IInv'
    OBVIOUS
  <1>1. ASSUME NEW r \in Requests, NEW u \in Users, StartRequest(r, u) PROVE IInv'
    BY <1>1, CreateLemma, UrlLemma, PayUpdateLemma, DeletionLemma, StartEraseLemma
    DEF StartRequest
  <1>2. ASSUME NEW r \in Requests, DeleteWrite(r) PROVE IInv'
    BY <1>2, SetLemma DEF DeleteWrite, IInv, Fits
  <1>3. ASSUME NEW r \in Requests, RestoreWrite(r) PROVE IInv'
    BY <1>3, SetLemma DEF RestoreWrite
  <1>4. ASSUME NEW r \in Requests, Abort(r) PROVE IInv'
    <2>1. RowsKept /\ FreshUnused' /\ DeletedByFit' /\ Constrained'
      BY <1>4 DEF Abort, RowsKept, IInv, TypeOK, FreshUnused, Exists, DeletedByFit, Constrained,
                  OneRecordPerKey, PayInOrder
    <2> QED  BY <1>4, <2>1, EndLemma DEF Abort, IInv, TypeOK
  <1>5. CASE UNCHANGED vars
    BY <1>5 DEF vars, IInv, TypeOK, FreshUnused, Fits, Exists, DeletedByFit, Constrained,
                OneRecordPerKey, PayInOrder
  <1> QED
    BY <1>1, <1>2, <1>3, <1>4, <1>5, InsertLemma, LookupLemma, UpdateLemma, EraseLemma
    DEF Next, Advance
----------------------------------------------------------------------------
\* The invariant holds in every reachable state.
THEOREM Invariance == Spec => []IInv
  BY InitLemma, NextLemma, PTL DEF Spec

\* Every variable keeps its type; in particular every stored row is complete.
THEOREM TypeCorrect == Spec => []TypeOK
  <1>1. IInv => TypeOK
    BY DEF IInv
  <1> QED  BY Invariance, <1>1, PTL

\* However requests cross, no author has two rows with one normalized URL.
THEOREM KeysAreUnique == Spec => []OneRecordPerKey
  <1>1. IInv => OneRecordPerKey
    BY DEF IInv, Constrained
  <1> QED  BY Invariance, <1>1, PTL

\* However edits of its two ends cross, a stored salary range is never inverted.
THEOREM PayStaysInOrder == Spec => []PayInOrder
  <1>1. IInv => PayInOrder
    BY DEF IInv, Constrained
  <1> QED  BY Invariance, <1>1, PTL

\* No write that was about to commit brings back a record erased meanwhile.
THEOREM ErasedStaysErased == Spec => ErasedForGood
  <1>1. ASSUME IInv, [Next]_vars, NEW a \in Applications \ fresh, ~Exists(a)
        PROVE  row'[a] = NoRow
    <2>1. row \in [Applications -> Rows \cup {NoRow}] /\ row[a] = NoRow
      BY <1>1 DEF IInv, TypeOK, Exists
    <2>2. ASSUME NEW r \in Requests, NEW u \in Users, StartRequest(r, u) PROVE row' = row
      BY <2>2 DEF StartRequest, StartCreate, StartUrlUpdate, StartPayUpdate, StartDelete,
                  StartRestore, StartErase
    <2>3. ASSUME NEW r \in Requests, Advance(r) PROVE row'[a] = NoRow
      <3>1. CASE Insert(r)
        BY <1>1, <2>1, <3>1 DEF Insert, IInv, TypeOK
      <3>2. CASE UpdateLookup(r) \/ Abort(r)
        BY <2>1, <3>2 DEF UpdateLookup, Abort
      <3>3. CASE UpdateWrite(r)
        BY <1>1, <2>1, <3>3 DEF UpdateWrite, UpdateAccepted
      <3>4. CASE DeleteWrite(r) \/ RestoreWrite(r)
        BY <1>1, <2>1, <3>4 DEF DeleteWrite, RestoreWrite, SetDeletedBy
      <3>5. CASE EraseWrite(r)
        BY <2>1, <3>5 DEF EraseWrite
      <3> QED  BY <2>3, <3>1, <3>2, <3>3, <3>4, <3>5 DEF Advance
    <2>4. CASE UNCHANGED vars
      BY <2>1, <2>4 DEF vars
    <2> QED  BY <1>1, <2>1, <2>2, <2>3, <2>4 DEF Next
  <1>2. IInv /\ [Next]_vars =>
            [\A a \in Applications \ fresh : ~Exists(a) => row'[a] = NoRow]_vars
    BY <1>1
  <1> QED  BY Invariance, <1>2, PTL DEF Spec, ErasedForGood

\* Only the author's own requests change a record's content, nobody changes its
\* author, and it is only ever in the trash of its author or of a moderator.
THEOREM AuthorityIsKept == Spec => AuthorityKept
  <1> DEFINE Content(x) == [x EXCEPT !.deletedBy = NoUser]
             Authored(a) ==
                /\ row'[a].owner = row[a].owner
                /\ Content(row'[a]) # Content(row[a]) =>
                      \E r \in Requests :
                          request[r].step = "update" /\ request[r].user = row[a].owner
  <1>1. ASSUME IInv, [Next]_vars, NEW a \in Applications, Exists(a), row'[a] # NoRow
        PROVE  Authored(a)
    <2>1. row \in [Applications -> Rows \cup {NoRow}] /\ row[a] \in Rows /\ a \notin fresh
      BY <1>1, RowLemma DEF IInv, TypeOK, FreshUnused
    <2>2. CASE row'[a] = row[a]
      BY <2>2
    <2>3. ASSUME NEW r \in Requests, NEW u \in Users, StartRequest(r, u) PROVE row' = row
      BY <2>3 DEF StartRequest, StartCreate, StartUrlUpdate, StartPayUpdate, StartDelete,
                  StartRestore, StartErase
    <2>4. ASSUME NEW r \in Requests, Advance(r) PROVE Authored(a)
      <3>1. CASE Insert(r)
        <4>1. row'[a] = row[a]
          BY <1>1, <2>1, <3>1 DEF Insert, IInv, TypeOK
        <4> QED  BY <2>2, <4>1
      <3>2. CASE UpdateLookup(r) \/ Abort(r)
        BY <2>2, <3>2 DEF UpdateLookup, Abort
      <3>3. CASE UpdateWrite(r)
        <4> DEFINE q == request[r]
        <4>1. PICK b \in q.apps : row' = row \/ row' = [row EXCEPT ![b] = Written(@, q)]
          BY <3>3 DEF UpdateWrite
        <4>2. CASE row'[a] # row[a]
          <5>1. a = b /\ row'[a] = Written(row[a], q) /\ q.step = "update" /\ q \in RequestState
            BY <1>1, <2>1, <3>3, <4>1, <4>2 DEF UpdateWrite, IInv, TypeOK
          <5>2. row[a].owner = q.user
            BY <1>1, <4>1, <5>1 DEF IInv, Fits
          <5>3. row'[a].owner = row[a].owner
            BY <1>1, <2>1, <5>1, WrittenLemma DEF IInv, Fits
          <5> QED  BY <5>1, <5>2, <5>3
        <4> QED  BY <2>2, <4>2
      <3>4. CASE DeleteWrite(r) \/ RestoreWrite(r)
        <4>1. PICK u : row'[a] = row[a] \/ row'[a] = [row[a] EXCEPT !.deletedBy = u]
          BY <2>1, <3>4 DEF DeleteWrite, RestoreWrite, SetDeletedBy
        <4>2. \A v : /\ [row[a] EXCEPT !.deletedBy = v].owner = row[a].owner
                     /\ Content([row[a] EXCEPT !.deletedBy = v]) = Content(row[a])
          BY <2>1 DEF Rows
        <4> QED  BY <2>2, <4>1, <4>2
      <3>5. CASE EraseWrite(r)
        <4>1. row'[a] = row[a]
          BY <1>1, <2>1, <3>5 DEF EraseWrite
        <4> QED  BY <2>2, <4>1
      <3> QED  BY <2>4, <3>1, <3>2, <3>3, <3>4, <3>5 DEF Advance
    <2>5. CASE UNCHANGED vars
      BY <2>2, <2>5 DEF vars
    <2> QED  BY <1>1, <2>2, <2>3, <2>4, <2>5 DEF Next
  <1>2. ASSUME IInv, IInv', NEW a \in Applications, row'[a].owner = row[a].owner
        PROVE  row'[a].deletedBy \in {NoUser, row[a].owner} \cup Moderators
    BY <1>2 DEF IInv, DeletedByFit
  <1>3. IInv /\ IInv' /\ [Next]_vars =>
            [\A a \in Applications : Exists(a) /\ row'[a] # NoRow =>
                /\ row'[a].owner = row[a].owner
                /\ [row'[a] EXCEPT !.deletedBy = NoUser] # [row[a] EXCEPT !.deletedBy = NoUser] =>
                       \E r \in Requests :
                           request[r].step = "update" /\ request[r].user = row[a].owner
                /\ row'[a].deletedBy \in {NoUser, row[a].owner} \cup Moderators]_vars
    BY <1>1, <1>2
  <1> QED  BY Invariance, <1>3, PTL DEF Spec, AuthorityKept
=============================================================================
