------------------------------- MODULE TeamCard ------------------------------
(***************************************************************************)
(* The team accountability card of the dashboard (App.tsx,                 *)
(* TeamAccountabilityCard): a table of members that is searched, sorted    *)
(* and paged, and whose loads are guarded by latestRequest: an answer of   *)
(* any load but the last begun is thrown away.                             *)
(*                                                                         *)
(* The rows are abstracted to the question that they answer.  A load is in *)
(* a slot of its own, and the answers arrive in any order.                 *)
(***************************************************************************)
EXTENDS Naturals, FiniteSets

CONSTANTS
    Workspaces, Searches, Sorts, TeamPages,
    Asks,               \* slots: the loads of the card that may be under way at once
    NoSearch, ByActive, \* the search and the sort at first
    ByName, None

ASSUME CardAssumption ==
    /\ NoSearch \in Searches
    /\ ByActive \in Sorts /\ ByName \in Sorts /\ ByActive # ByName
    /\ TeamPages \subseteq Nat /\ 1 \in TeamPages

VARIABLES
    workspace,   \* the active workspace
    mounted,     \* the card is on the screen
    typed,       \* search
    searched,    \* debouncedSearch
    timer,       \* the debounce timer runs
    teamPage,    \* page
    sort, order,
    asks,        \* asks[k]: the load in slot k
    rows,        \* the question that the rows in state answer
    teamLoading, teamFailed

query == <<typed, searched, timer, teamPage, sort, order>>
cardVars == <<mounted, query, asks, rows, teamLoading, teamFailed>>
----------------------------------------------------------------------------
Questions == [workspace : Workspaces, search : Searches, page : TeamPages,
              sort : Sorts, order : {"asc", "desc"}]

NoAsk == [step |-> "none"]
AskState == {NoAsk} \cup
    [step : {"asked", "served", "failed"}, question : Questions, latest : BOOLEAN]

CardTypeOK ==
    /\ workspace \in Workspaces
    /\ mounted \in BOOLEAN
    /\ typed \in Searches /\ searched \in Searches
    /\ timer \in BOOLEAN
    /\ teamPage \in TeamPages
    /\ sort \in Sorts /\ order \in {"asc", "desc"}
    /\ asks \in [Asks -> AskState]
    /\ rows \in Questions \cup {None}
    /\ teamLoading \in BOOLEAN /\ teamFailed \in BOOLEAN

TeamAsked == [workspace |-> workspace, search |-> searched, page |-> teamPage,
              sort |-> sort, order |-> order]

Outdated(ask) == IF ask = NoAsk THEN NoAsk ELSE [ask EXCEPT !.latest = FALSE]

\* load begins in a free slot of the table: latestRequest moves past every other.
AskIn(table, q) ==
    \E k \in Asks :
        /\ table[k] = NoAsk
        /\ asks' = [j \in Asks |->
                      IF j = k THEN [step |-> "asked", question |-> q, latest |-> TRUE]
                      ELSE Outdated(table[j])]

BeginAsk(table) ==
    /\ AskIn(table, TeamAsked')
    /\ teamLoading' = TRUE /\ teamFailed' = FALSE

\* The effect loads again when the question has changed, and only then.
AskIfChanged ==
    IF TeamAsked' # TeamAsked THEN BeginAsk(asks)
    ELSE UNCHANGED <<asks, teamLoading, teamFailed>>

NoLoads == [k \in Asks |-> NoAsk]

\* A card that is not on the screen keeps nothing: the cleanup of its effect
\* outdates its loads, and a state it sets is nobody's.
Away ==
    /\ mounted = FALSE
    /\ typed = NoSearch /\ searched = NoSearch /\ timer = TRUE
    /\ teamPage = 1 /\ sort = ByActive /\ order = "desc"
    /\ asks = NoLoads /\ rows = None
    /\ teamLoading = FALSE /\ teamFailed = FALSE

AtFirst ==
    /\ typed' = NoSearch /\ searched' = NoSearch /\ timer' = TRUE
    /\ teamPage' = 1 /\ sort' = ByActive /\ order' = "desc"
    /\ rows' = None

Mounts == mounted' = TRUE /\ AtFirst /\ BeginAsk(NoLoads)

Leaves ==
    /\ mounted' = FALSE /\ AtFirst
    /\ asks' = NoLoads
    /\ teamLoading' = FALSE /\ teamFailed' = FALSE
----------------------------------------------------------------------------
(***************************************************************************)
(* The user and the timer                                                  *)
(***************************************************************************)
\* Every key stroke starts the timer anew.
TypeSearch(s) ==
    /\ mounted /\ s # typed
    /\ typed' = s /\ timer' = TRUE
    /\ UNCHANGED <<workspace, mounted, searched, teamPage, sort, order, asks, rows,
                   teamLoading, teamFailed>>

\* After 250 ms: the search counts, from its first page.
Debounce ==
    /\ mounted /\ timer
    /\ timer' = FALSE
    /\ searched' = typed /\ teamPage' = 1
    /\ UNCHANGED <<workspace, mounted, typed, sort, order, rows>>
    /\ AskIfChanged

SortBy(key) ==
    /\ mounted
    /\ sort' = key
    /\ order' = IF key = sort THEN IF order = "asc" THEN "desc" ELSE "asc"
                ELSE IF key = ByName THEN "asc" ELSE "desc"
    /\ teamPage' = 1
    /\ UNCHANGED <<workspace, mounted, typed, searched, timer, rows>>
    /\ AskIfChanged

\* PaginationBar steps from the page that the rows are of; it stays while a load runs.
TurnTeamPage(p) ==
    /\ mounted /\ rows # None
    /\ p + 1 = rows.page \/ p = rows.page + 1
    /\ teamPage' = p
    /\ UNCHANGED <<workspace, mounted, typed, searched, timer, sort, order, rows>>
    /\ AskIfChanged

\* ErrorState's button.
RetryTeam ==
    /\ mounted /\ teamFailed /\ ~teamLoading
    /\ UNCHANGED <<workspace, mounted, query, rows>>
    /\ BeginAsk(asks)

\* A card that stays through a switch of the workspace loads again.
Follow(w) ==
    /\ mounted
    /\ workspace' = w
    /\ UNCHANGED <<mounted, query, rows>>
    /\ AskIfChanged
----------------------------------------------------------------------------
(***************************************************************************)
(* The API                                                                 *)
(***************************************************************************)
ServeTeam(k) ==
    /\ asks[k].step = "asked"
    /\ \E outcome \in {"served", "failed"} : asks' = [asks EXCEPT ![k].step = outcome]
    /\ UNCHANGED <<workspace, mounted, query, rows, teamLoading, teamFailed>>

Anyone(ask) == TRUE                   \* mutant: requestId is not compared

\* requestId === latestRequest.current
Counts(ask) == ask.latest

TakeRows(k) ==
    /\ asks[k].step = "served"
    /\ rows' = IF Counts(asks[k]) THEN asks[k].question ELSE rows
    /\ teamLoading' = (teamLoading /\ ~Counts(asks[k]))
    /\ asks' = [asks EXCEPT ![k] = NoAsk]
    /\ UNCHANGED <<workspace, mounted, query, teamFailed>>

TakeTeamFailure(k) ==
    /\ asks[k].step = "failed"
    /\ teamFailed' = (teamFailed \/ Counts(asks[k]))
    /\ teamLoading' = (teamLoading /\ ~Counts(asks[k]))
    /\ asks' = [asks EXCEPT ![k] = NoAsk]
    /\ UNCHANGED <<workspace, mounted, query, rows>>
----------------------------------------------------------------------------
UserStep ==
    \/ \E s \in Searches : TypeSearch(s)
    \/ \E key \in Sorts : SortBy(key)
    \/ \E p \in TeamPages : TurnTeamPage(p)
    \/ RetryTeam

AskStep(k) == ServeTeam(k) \/ TakeRows(k) \/ TakeTeamFailure(k)

\* What happens on the card, and what its surroundings do with it.
CardStep == UserStep \/ Debounce \/ \E k \in Asks : AskStep(k)

CardInit == workspace \in Workspaces /\ Away

CardNext ==
    \/ CardStep
    \/ \E w \in Workspaces : Follow(w)
    \/ UNCHANGED workspace /\ Mounts
    \/ workspace' \in Workspaces /\ Leaves

CardSpec == CardInit /\ [][CardNext]_<<workspace, cardVars>>
----------------------------------------------------------------------------
(***************************************************************************)
(* Properties                                                              *)
(***************************************************************************)
\* When the card shows neither a spinner nor an error, its rows are those of the
\* workspace, search, sort and page that it shows, whatever order the answers
\* of its loads came in.
RowsAnswerQuery ==
    mounted /\ ~teamLoading /\ ~teamFailed => rows = TeamAsked
=============================================================================
