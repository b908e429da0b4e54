-------------------------------- MODULE Pages --------------------------------
(***************************************************************************)
(* The pages that read the records of the active workspace (App.tsx): the  *)
(* dashboard with YourWeekCard and the team card, the application list, an *)
(* application's detail, and the Deleted page with its selection mode.     *)
(*                                                                         *)
(* One page is mounted at a time; leaving it drops what it waits for.      *)
(* Unlike the team card's, the loads of a page are not guarded: whichever  *)
(* answer arrives is shown, and any answer ends the spinner.  A load or an *)
(* act is in a slot of its own, and answers arrive in any order.  A record *)
(* is abstracted to its workspace and to where it is: live, in the trash   *)
(* of this user, or erased; the filters to one term, and every sort and    *)
(* page size to the order of the records and PageSize.                     *)
(***************************************************************************)
EXTENDS TeamCard

CONSTANTS
    Applications,     \* numbers: the listings are in their order
    HomeOf,           \* HomeOf[a]: the workspace of record a
    Own,              \* the records that this user owns
    Moderates,        \* the workspaces where this user is an owner or admin
    Matching,         \* the records that the filters let through
    PageSize, PageNumbers, Goals,
    Loads, Acts,      \* slots
    MaxMoves          \* bound on what the user does

ASSUME PagesAssumption ==
    /\ Applications \subseteq Nat /\ IsFiniteSet(Applications) /\ None \notin Applications
    /\ PageSize \in Nat \ {0}
    /\ HomeOf \in [Applications -> Workspaces]
    /\ Own \subseteq Applications /\ Matching \subseteq Applications
    /\ PageNumbers \subseteq Nat /\ 1 \in PageNumbers
    /\ MaxMoves \in Nat

VARIABLES
    place,     \* place[a]: where record a is, on the server
    goal,      \* goal[w]: the weekly goal of this user in w, on the server
    route,     \* the page that is mounted
    filtered,  \* the address of the list: whether it filters
    page,      \* the page of the listing: in the address, or state of DeletedPage
    app,       \* the record of the detail page
    load, act, \* the loads and the acts in progress
    shown,     \* result, application, or summary and myWeek: what arrived last
    loading, failed,
    selecting, checked, all, deleting,   \* DeletedPage's selection mode
    missed,    \* whether a change was served that the mounted page was not there to see
    moves

server == <<place, goal>>
address == <<route, filtered, page, app>>
selection == <<selecting, checked, all, deleting>>
screen == <<shown, loading, failed>>
pageVars == <<server, address, load, act, screen, selection, missed, moves>>
vars == <<workspace, cardVars, pageVars>>
----------------------------------------------------------------------------
Routes == {"dashboard", "list", "detail", "deleted"}
Lists == {"list", "deleted"}

\* What a page asks the API for.
PageQuestion == [route : Routes, workspace : Workspaces, filtered : BOOLEAN,
                 page : PageNumbers, app : Applications \cup {None}]
Answer == [rows : SUBSET Applications, total : Nat, goal : Goals \cup {None}]

NoLoad == [step |-> "none"]
LoadState == {NoLoad} \cup
    [step : {"asked", "served", "failed"}, question : PageQuestion, latest : BOOLEAN,
     byAct : BOOLEAN, frees : BOOLEAN, answer : Answer \cup {None}]

NoAct == [step |-> "none"]
ActState == {NoAct} \cup
    [step : {"sent", "served", "failed"}, kind : {"trash", "restore", "erase", "goal"},
     question : PageQuestion, ids : SUBSET Applications, all : BOOLEAN,
     goal : Goals \cup {None}, here : BOOLEAN]

TypeOK ==
    /\ CardTypeOK
    /\ place \in [Applications -> {"live", "trash", "gone"}]
    /\ goal \in [Workspaces -> Goals \cup {None}]
    /\ route \in Routes /\ filtered \in BOOLEAN /\ page \in PageNumbers
    /\ app \in Applications \cup {None}
    /\ load \in [Loads -> LoadState] /\ act \in [Acts -> ActState]
    /\ shown \in [question : PageQuestion, answer : Answer, latest : BOOLEAN,
                  byAct : BOOLEAN] \cup {None}
    /\ loading \in BOOLEAN /\ failed \in BOOLEAN
    /\ selecting \in BOOLEAN /\ all \in BOOLEAN /\ deleting \in BOOLEAN
    /\ checked \subseteq Applications
    /\ missed \in BOOLEAN
    /\ moves \in 0..MaxMoves
----------------------------------------------------------------------------
(***************************************************************************)
(* What the API answers                                                    *)
(***************************************************************************)
Listed(q) ==
    {a \in Applications :
        /\ HomeOf[a] = q.workspace
        /\ IF q.route = "deleted" THEN place[a] = "trash"
           ELSE place[a] = "live" /\ (q.filtered => a \in Matching)}

OnPage(set, p) ==
    {a \in set : Cardinality({b \in set : b < a}) \div PageSize = p - 1}

PageCount(set) == (Cardinality(set) + PageSize - 1) \div PageSize

AnswerOf(q) ==
    [rows |-> IF q.route \in Lists THEN OnPage(Listed(q), q.page)
              ELSE IF q.route = "detail" THEN {q.app} ELSE {},
     total |-> IF q.route \in Lists THEN PageCount(Listed(q)) ELSE 0,
     goal |-> IF q.route = "dashboard" THEN goal[q.workspace] ELSE None]

\* GET of a record answers whether or not it is in the trash.
Answerable(q) ==
    q.route = "detail" => HomeOf[q.app] = q.workspace /\ place[q.app] # "gone"
----------------------------------------------------------------------------
(***************************************************************************)
(* A page and its load                                                     *)
(***************************************************************************)
ZeroBased ==                          \* mutant: pages are counted from zero
    [route |-> route, workspace |-> workspace, filtered |-> filtered,
     page |-> page - 1, app |-> app]

\* What the mounted page depends on; what its route has no use for stays fixed.
Asked == [route |-> route, workspace |-> workspace, filtered |-> filtered,
          page |-> page, app |-> app]

\* The list and the dashboard forget an error as a load begins, the others only
\* when one is answered.
ForgetsAtOnce(r) == r \in {"list", "dashboard"}

LoadFor(q, byAct, frees) ==
    [step |-> "asked", question |-> q, latest |-> TRUE, byAct |-> byAct,
     frees |-> frees, answer |-> None]

\* load of the page begins in a free slot.  latest is not in the code: it tells
\* the answer of the last load begun from one that it has overtaken.
Begin(table, q, byAct, frees) ==
    /\ \E l \in Loads :
          /\ table[l] = NoLoad
          /\ load' = [k \in Loads |->
                        IF k = l THEN LoadFor(q, byAct, frees)
                        ELSE IF table[k] = NoLoad THEN NoLoad
                        ELSE [table[k] EXCEPT !.latest = FALSE]]
    /\ loading' = TRUE
    /\ failed' = (failed /\ ~ForgetsAtOnce(q.route))

\* A page mounts with nothing, its effect loads, and the acts of the last page
\* will find it gone.
Mount(r, f, p, a, table) ==
    /\ UNCHANGED workspace /\ Leaves
    /\ route' = r /\ filtered' = f /\ page' = p /\ app' = a
    /\ \E l \in Loads :
          load' = [k \in Loads |-> IF k = l THEN LoadFor(Asked', FALSE, FALSE) ELSE NoLoad]
    /\ shown' = None /\ loading' = TRUE /\ failed' = FALSE
    /\ selecting' = FALSE /\ checked' = {} /\ all' = FALSE /\ deleting' = FALSE
    /\ missed' = FALSE
    /\ act' = [b \in Acts |-> IF table[b] = NoAct THEN NoAct
                              ELSE [table[b] EXCEPT !.here = FALSE]]

RouteOf(a) == IF a = None THEN Routes \ {"detail"} ELSE {"detail"}

Init ==
    /\ CardInit
    /\ place \in [Applications -> {"live", "trash"}]
    /\ goal = [w \in Workspaces |-> None]
    /\ app \in Applications \cup {None} /\ route \in RouteOf(app)
    /\ filtered = FALSE
    /\ page \in (IF route = "list" THEN PageNumbers ELSE {1})
    /\ \E l \in Loads :
          load = [k \in Loads |-> IF k = l THEN LoadFor(Asked, FALSE, FALSE) ELSE NoLoad]
    /\ act = [b \in Acts |-> NoAct]
    /\ shown = None /\ loading = TRUE /\ failed = FALSE
    /\ selecting = FALSE /\ checked = {} /\ all = FALSE /\ deleting = FALSE
    /\ missed = FALSE /\ moves = 0

Visible == ~loading /\ ~failed /\ shown # None

\* The rows of the list's table, and the one record of the detail page: each with
\* its links and its buttons.
InTable(a) == Visible /\ route = "list" /\ a \in shown.answer.rows
OnDetailPage(a) == Visible /\ route = "detail" /\ a \in shown.answer.rows

Move == moves < MaxMoves /\ moves' = moves + 1
----------------------------------------------------------------------------
(***************************************************************************)
(* What the user asks                                                      *)
(***************************************************************************)
\* A link of the shell, the dashboard, the list or the detail page, or the browser's
\* history: any address that an earlier visit left behind, also that of a record which is
\* in another workspace or gone by now.
Navigate(r, f, p, a) ==
    /\ Move
    /\ r # route
    /\ r \in RouteOf(a) /\ (r # "list" => ~f /\ p = 1)
    /\ Mount(r, f, p, a, act)
    /\ UNCHANGED server

\* The new question loads; the page, the selection and what is shown stay.  The
\* dashboard's spinner takes its cards off the screen.
Ask == Begin(load, Asked', FALSE, FALSE)

SwitchWorkspace(w) ==
    /\ w # workspace
    /\ Move
    /\ workspace' = w
    /\ Leaves
    /\ UNCHANGED <<server, address, act, shown, selection, missed>>
    /\ Ask

\* update: any change of a filter goes back to the first page.
SetFilter(f) ==
    /\ route = "list" /\ f # filtered
    /\ Move
    /\ filtered' = f /\ page' = 1
    /\ UNCHANGED <<workspace, cardVars, server, route, app, act, shown, selection, missed>>
    /\ Ask

TurnPage(p) ==
    /\ route \in Lists /\ Visible /\ shown.answer.rows # {}
    /\ \/ p + 1 = shown.question.page
       \/ p = shown.question.page + 1 /\ p <= shown.answer.total
    /\ Move
    /\ page' = p
    /\ UNCHANGED <<workspace, cardVars, server, route, filtered, app, act, shown,
                   selection, missed>>
    /\ IF p # page THEN Ask ELSE UNCHANGED <<load, loading, failed>>

\* ErrorState's button, which the detail page does not have.
Retry ==
    /\ route # "detail" /\ failed /\ ~loading
    /\ Move
    /\ UNCHANGED <<workspace, cardVars, server, address, act, shown, selection, missed>>
    /\ Begin(load, Asked, FALSE, FALSE)
----------------------------------------------------------------------------
(***************************************************************************)
(* Loads                                                                   *)
(***************************************************************************)
ServeLoad(l) ==
    /\ load[l].step = "asked"
    /\ \/ /\ Answerable(load[l].question)
          /\ load' = [load EXCEPT ![l].step = "served",
                                  ![l].answer = AnswerOf(load[l].question)]
       \/ load' = [load EXCEPT ![l].step = "failed"]
    /\ UNCHANGED <<workspace, cardVars, server, address, act, screen, selection, missed, moves>>

\* The dashboard's cards are on the screen when it has neither a spinner nor an error.
CardFollows(cards) ==
    IF cards = mounted THEN UNCHANGED <<workspace, cardVars>>
    ELSE IF cards THEN UNCHANGED workspace /\ Mounts
    ELSE UNCHANGED workspace /\ Leaves

\* finally of permanentlyDelete, which waits for the load that it began.
Freed(l) == deleting /\ ~load[l].frees

TakeAnswer(l) ==
    /\ load[l].step = "served"
    /\ shown' = [question |-> load[l].question, answer |-> load[l].answer,
                 latest |-> load[l].latest, byAct |-> load[l].byAct]
    /\ failed' = (failed /\ ForgetsAtOnce(route))
    /\ loading' = FALSE
    /\ deleting' = Freed(l)
    /\ load' = [load EXCEPT ![l] = NoLoad]
    /\ CardFollows(route = "dashboard" /\ ~failed')
    /\ UNCHANGED <<server, address, act, selecting, checked, all, missed, moves>>

TakeFailure(l) ==
    /\ load[l].step = "failed"
    /\ failed' = TRUE /\ loading' = FALSE
    /\ deleting' = Freed(l)
    /\ load' = [load EXCEPT ![l] = NoLoad]
    /\ CardFollows(FALSE)
    /\ UNCHANGED <<server, address, act, shown, selecting, checked, all, missed, moves>>
----------------------------------------------------------------------------
(***************************************************************************)
(* The selection mode of the Deleted page                                  *)
(***************************************************************************)
OnDeleted == route = "deleted" /\ shown # None

Selects ==
    UNCHANGED <<workspace, cardVars, server, address, load, act, screen, deleting, missed, moves>>

EnterSelection ==
    /\ OnDeleted /\ ~selecting /\ shown.answer.total > 0
    /\ selecting' = TRUE
    /\ UNCHANGED <<checked, all>>
    /\ Selects

LeaveSelection ==
    /\ OnDeleted /\ selecting
    /\ selecting' = FALSE /\ checked' = {} /\ all' = FALSE
    /\ Selects

ToggleApplication(a) ==
    /\ OnDeleted /\ selecting /\ Visible /\ a \in shown.answer.rows
    /\ all' = FALSE
    /\ checked' = IF a \in checked THEN checked \ {a} ELSE checked \cup {a}
    /\ UNCHANGED selecting
    /\ Selects

ToggleSelectAll ==
    /\ OnDeleted /\ selecting
    /\ all' = ~all
    /\ checked' = IF all THEN {} ELSE shown.answer.rows
    /\ UNCHANGED selecting
    /\ Selects
----------------------------------------------------------------------------
(***************************************************************************)
(* Acts                                                                    *)
(***************************************************************************)
Send(b, kind, ids, everything, g) ==
    /\ act[b] = NoAct
    /\ Move
    /\ act' = [act EXCEPT ![b] =
                  [step |-> "sent", kind |-> kind, question |-> Asked, ids |-> ids,
                   all |-> everything, goal |-> g, here |-> TRUE]]
    /\ UNCHANGED <<workspace, cardVars, server, address, load, screen, missed>>

\* The button is on the owner's records and, for owners and admins of the
\* workspace that is active now, on all.
MayDelete(a) == a \in Own \/ workspace \in Moderates

Delete(b, a) ==
    /\ InTable(a) \/ OnDetailPage(a)
    /\ MayDelete(a)
    /\ Send(b, "trash", {a}, FALSE, None)
    /\ UNCHANGED selection

Restore(b, a) ==
    /\ route = "deleted" /\ Visible /\ ~selecting
    /\ a \in shown.answer.rows
    /\ Send(b, "restore", {a}, FALSE, None)
    /\ UNCHANGED selection

PermanentlyDelete(b) ==
    /\ OnDeleted /\ selecting /\ ~deleting
    /\ IF all THEN shown.answer.total > 0 ELSE checked # {}
    /\ Send(b, "erase", IF all THEN {} ELSE checked, all, None)
    /\ deleting' = TRUE
    /\ UNCHANGED <<selecting, checked, all>>

\* save of YourWeekCard: Enter saves again whether or not a save is under way.
SetGoal(b, g) ==
    /\ route = "dashboard" /\ Visible
    /\ Send(b, "goal", {}, FALSE, g)
    /\ UNCHANGED selection

\* The records of an act: those that it names, or, for an erasure of everything, what
\* is in the trash by now and the user's own.
Erases(q, ids, everything) ==
    IF everything THEN {a \in Own : HomeOf[a] = q.workspace /\ place[a] = "trash"} ELSE ids

\* Where a record has to be for an act, and where the act puts it.
From(kind) == IF kind = "trash" THEN "live" ELSE "trash"
To(kind) == IF kind = "trash" THEN "trash" ELSE IF kind = "restore" THEN "live" ELSE "gone"

MayServe(b) ==
    act[b].kind # "goal" =>
        \A a \in act[b].ids : /\ HomeOf[a] = act[b].question.workspace
                              /\ place[a] = From(act[b].kind)

Moved(set, where) == [a \in Applications |-> IF a \in set THEN where ELSE place[a]]

\* A goal is not read again: a load that was answered before will show the old one,
\* and of two that are saved together the page shows the one that is answered last.
Crosses(b) ==
    /\ act[b].kind = "goal"
    /\ \/ \E l \in Loads : load[l].step = "served"
       \/ \E c \in Acts \ {b} :
             /\ act[c].step = "served" /\ act[c].kind = "goal" /\ act[c].here
             /\ act[c].question.workspace = act[b].question.workspace

\* The API applies and answers, applies and its answer is lost, or refuses.
ServeAct(b) ==
    /\ act[b].step = "sent"
    /\ LET q == act[b].question
           applied ==
               /\ MayServe(b)
               /\ place' = IF act[b].kind = "goal" THEN place
                           ELSE Moved(Erases(q, act[b].ids, act[b].all), To(act[b].kind))
               /\ goal' = IF act[b].kind = "goal" THEN [goal EXCEPT ![q.workspace] = act[b].goal]
                          ELSE goal
       IN  \/ /\ applied
              /\ act' = [act EXCEPT ![b].step = "served"]
              /\ missed' = (missed \/ q # Asked \/ ~act[b].here \/ Crosses(b))
           \/ /\ applied
              /\ act' = [act EXCEPT ![b].step = "failed"]
              /\ missed' = TRUE
           \/ /\ act' = [act EXCEPT ![b].step = "failed"]
              /\ UNCHANGED <<place, goal, missed>>
    /\ UNCHANGED <<workspace, cardVars, address, load, screen, selection, moves>>

Finished(b) == [act EXCEPT ![b] = NoAct]

Unreloaded(b) == FALSE                \* mutant: the page is not loaded again

\* The act ends where it began: onDelete and restore load again.
Reloads(b) == act[b].here

\* A record moved to the trash or out of it.  The load is that of the render in
\* which the user clicked.
FinishMove(b) ==
    /\ act[b].step = "served" /\ act[b].kind \in {"trash", "restore"}
    /\ act[b].question.route # "detail"
    /\ act' = Finished(b)
    /\ IF Reloads(b) THEN Begin(load, act[b].question, TRUE, FALSE)
       ELSE UNCHANGED <<load, loading, failed>>
    /\ UNCHANGED <<workspace, cardVars, server, address, shown, selection, missed, moves>>

\* The detail page goes to the list, wherever the user is by now; a list that is
\* there already loads again unless its address was as bare before.
FinishOnDetail(b) ==
    /\ act[b].step = "served" /\ act[b].question.route = "detail"
    /\ UNCHANGED <<server, moves>>
    /\ \/ /\ route # "list"
          /\ Mount("list", FALSE, 1, None, Finished(b))
       \/ /\ route = "list"
          /\ act' = Finished(b)
          /\ filtered' = FALSE /\ page' = 1
          /\ UNCHANGED <<workspace, cardVars, route, app, shown, selection, missed>>
          /\ \/ Ask
             \/ ~filtered /\ page = 1 /\ UNCHANGED <<load, loading, failed>>

\* permanentlyDelete leaves the selection mode, then turns to the first page or,
\* clicked on the first page, waits for a load.
FinishErase(b) ==
    /\ act[b].step = "served" /\ act[b].kind = "erase"
    /\ act' = Finished(b)
    /\ UNCHANGED <<workspace, cardVars, server, route, filtered, app, shown, missed, moves>>
    /\ IF ~act[b].here
       THEN UNCHANGED <<page, load, loading, failed, selection>>
       ELSE /\ selecting' = FALSE /\ checked' = {} /\ all' = FALSE
            /\ IF act[b].question.page # 1
               THEN /\ page' = 1 /\ deleting' = FALSE
                    /\ IF page # 1 THEN Ask ELSE UNCHANGED <<load, loading, failed>>
               ELSE /\ Begin(load, act[b].question, TRUE, TRUE)
                    /\ UNCHANGED <<page, deleting>>

\* setMyWeek, and goalRefresh gives the dashboard a team card of its own.
FinishGoal(b) ==
    /\ act[b].step = "served" /\ act[b].kind = "goal"
    /\ act' = Finished(b)
    /\ IF act[b].here /\ shown # None
       THEN shown' = [question |-> [shown.question EXCEPT !.workspace =
                                        act[b].question.workspace],
                      answer |-> [shown.answer EXCEPT !.goal = act[b].goal],
                      latest |-> shown.latest, byAct |-> TRUE]
       ELSE UNCHANGED shown
    /\ IF act[b].here /\ mounted THEN UNCHANGED workspace /\ Mounts
       ELSE UNCHANGED <<workspace, cardVars>>
    /\ UNCHANGED <<server, address, load, loading, failed, selection, missed, moves>>

\* A toast; only the erasure has something to put back.
FailAct(b) ==
    /\ act[b].step = "failed"
    /\ act' = Finished(b)
    /\ deleting' = (deleting /\ ~(act[b].kind = "erase" /\ act[b].here))
    /\ UNCHANGED <<workspace, cardVars, server, address, load, screen, selecting, checked, all,
                   missed, moves>>
----------------------------------------------------------------------------
OnCard ==
    \/ (Debounce \/ \E k \in Asks : AskStep(k)) /\ UNCHANGED pageVars
    \/ /\ UserStep
       /\ Move
       /\ UNCHANGED <<server, address, load, act, screen, selection, missed>>

LoadStep(l) == ServeLoad(l) \/ TakeAnswer(l) \/ TakeFailure(l)
ActStep(b) ==
    \/ ServeAct(b)
    \/ FinishMove(b) \/ FinishOnDetail(b) \/ FinishErase(b) \/ FinishGoal(b) \/ FailAct(b)

Next ==
    \/ OnCard
    \/ \E r \in Routes, f \in BOOLEAN, p \in PageNumbers, a \in Applications \cup {None} :
          Navigate(r, f, p, a)
    \/ \E w \in Workspaces : SwitchWorkspace(w)
    \/ \E f \in BOOLEAN : SetFilter(f)
    \/ \E p \in PageNumbers : TurnPage(p)
    \/ Retry
    \/ EnterSelection \/ LeaveSelection \/ ToggleSelectAll
    \/ \E a \in Applications : ToggleApplication(a)
    \/ \E l \in Loads : LoadStep(l)
    \/ \E b \in Acts :
          \/ ActStep(b)
          \/ \E a \in Applications : Delete(b, a) \/ Restore(b, a)
          \/ PermanentlyDelete(b)
          \/ \E g \in Goals : SetGoal(b, g)

Spec == Init /\ [][Next]_vars
----------------------------------------------------------------------------
(***************************************************************************)
(* Properties                                                              *)
(***************************************************************************)
\* Nothing is on its way, and what the page shows is not the answer of a load that
\* a later one had overtaken, nor of an act begun on an earlier question.
Settled ==
    /\ Visible /\ shown.latest /\ (shown.byAct => shown.question = Asked)
    /\ \A l \in Loads : load[l] = NoLoad
    /\ \A b \in Acts : act[b] = NoAct

\* A settled page shows what the server has for the workspace, the filters and the
\* page that are set: no record that was deleted, restored or erased from the page
\* stays on it, and no old goal, unless the change was served while the user was
\* elsewhere, its answer was lost, or it crossed a load or another goal.
SettledIsFresh == Settled /\ ~missed => shown.answer = AnswerOf(Asked)
=============================================================================
