----------------------------- MODULE PagesProofs -----------------------------
(***************************************************************************)
(* That the team card answers the query it shows, whatever the order of    *)
(* the answers: first of the card alone, whatever its surroundings do with *)
(* it, then of the pages, whose every step is a step of the card or leaves *)
(* it alone.  And that a page which has come to rest shows what the server *)
(* has, if it was there for every change.                                  *)
(***************************************************************************)
EXTENDS Pages, TLAPS, FiniteSetTheorems

\* Slots are told apart from loads by their step, so that NoAsk is none of them.
Loading == [step : {"asked", "served", "failed"}, question : Questions, latest : BOOLEAN]

\* A load that latestRequest has not passed asks what the card shows as asked.
LatestAsks ==
    \A k \in Asks : asks[k] # NoAsk => (asks[k].latest => asks[k].question = TeamAsked)

\* RowsAnswerQuery is not inductive: the answer that ends the spinner has to be one to
\* the present query.
CardInv == CardTypeOK /\ LatestAsks /\ RowsAnswerQuery

LEMMA LoadIsNotNoAsk ==
    ASSUME NEW a \in Loading
    PROVE  /\ a # NoAsk
           /\ a.step \in {"asked", "served", "failed"}
           /\ a.question \in Questions /\ a.latest \in BOOLEAN
           /\ [a EXCEPT !.latest = FALSE] \in Loading
           /\ [a EXCEPT !.latest = FALSE].latest = FALSE
           /\ \A s \in {"asked", "served", "failed"} :
                 /\ [a EXCEPT !.step = s] \in Loading
                 /\ [a EXCEPT !.step = s].latest = a.latest
                 /\ [a EXCEPT !.step = s].question = a.question
  <1>1. /\ a.step \in {"asked", "served", "failed"}
        /\ a.question \in Questions /\ a.latest \in BOOLEAN
    BY DEF Loading
  <1>2. NoAsk.step = "none"
    BY DEF NoAsk
  <1>3. a # NoAsk
    BY <1>1, <1>2
  <1>4. /\ [a EXCEPT !.latest = FALSE] \in Loading
        /\ [a EXCEPT !.latest = FALSE].latest = FALSE
    BY DEF Loading
  <1>5. ASSUME NEW s \in {"asked", "served", "failed"}
        PROVE  /\ [a EXCEPT !.step = s] \in Loading
               /\ [a EXCEPT !.step = s].latest = a.latest
               /\ [a EXCEPT !.step = s].question = a.question
    BY DEF Loading
  <1> QED  BY <1>1, <1>3, <1>4, <1>5

LEMMA AskedIsQuestion == CardTypeOK => TeamAsked \in Questions
  BY DEF CardTypeOK, TeamAsked, Questions

LEMMA AskedIsQuestionNext == CardTypeOK' => TeamAsked' \in Questions
  BY DEF CardTypeOK, TeamAsked, Questions

\* A load that begins is the only one that counts, and it asks what is shown as asked.
LEMMA BeginAskLemma ==
    ASSUME NEW table \in [Asks -> AskState],
           TeamAsked' \in Questions,
           BeginAsk(table)
    PROVE  asks' \in [Asks -> AskState] /\ LatestAsks' /\ teamLoading' = TRUE
           /\ teamFailed' = FALSE
  <1> DEFINE Begun == [step |-> "asked", question |-> TeamAsked', latest |-> TRUE]
  <1>1. PICK k \in Asks :
            asks' = [j \in Asks |-> IF j = k THEN Begun ELSE Outdated(table[j])]
    BY DEF BeginAsk, AskIn
  <1>2. Begun \in Loading
    BY DEF Loading
  <1>3. \A j \in Asks : /\ Outdated(table[j]) \in AskState
                        /\ Outdated(table[j]) # NoAsk => Outdated(table[j]).latest = FALSE
    <2> SUFFICES ASSUME NEW j \in Asks
                 PROVE  /\ Outdated(table[j]) \in AskState
                        /\ Outdated(table[j]) # NoAsk => Outdated(table[j]).latest = FALSE
      OBVIOUS
    <2>1. CASE table[j] = NoAsk
      BY <2>1 DEF Outdated, AskState
    <2>2. CASE table[j] # NoAsk
      <3>1. table[j] \in Loading
        BY <2>2 DEF AskState, Loading
      <3> QED  BY <2>2, <3>1, LoadIsNotNoAsk DEF Outdated, AskState, Loading
    <2> QED  BY <2>1, <2>2
  <1>4. asks' \in [Asks -> AskState]
    BY <1>1, <1>2, <1>3 DEF AskState, Loading
  <1>5. LatestAsks'
    <2> SUFFICES ASSUME NEW j \in Asks, asks'[j] # NoAsk, asks'[j].latest
                 PROVE  asks'[j].question = TeamAsked'
      BY DEF LatestAsks
    <2>1. j = k
      BY <1>1, <1>3
    <2> QED  BY <1>1, <2>1
  <1> HIDE DEF Begun
  <1> QED  BY <1>4, <1>5 DEF BeginAsk

LEMMA NoLoadsLemma == NoLoads \in [Asks -> AskState]
  BY DEF NoLoads, AskState

LEMMA AskIfChangedLemma ==
    ASSUME CardInv, TeamAsked' \in Questions, AskIfChanged,
           mounted' = mounted, rows' = rows
    PROVE  /\ asks' \in [Asks -> AskState] /\ teamLoading' \in BOOLEAN
           /\ teamFailed' \in BOOLEAN /\ LatestAsks' /\ RowsAnswerQuery'
  <1>1. CASE TeamAsked' # TeamAsked
    <2>1. BeginAsk(asks)
      BY <1>1 DEF AskIfChanged
    <2>2. asks \in [Asks -> AskState]
      BY DEF CardInv, CardTypeOK
    <2> QED  BY <2>1, <2>2, BeginAskLemma DEF RowsAnswerQuery
  <1>2. CASE TeamAsked' = TeamAsked
    <2>1. UNCHANGED <<asks, teamLoading, teamFailed>>
      BY <1>2 DEF AskIfChanged
    <2> QED  BY <1>2, <2>1 DEF CardInv, CardTypeOK, LatestAsks, RowsAnswerQuery
  <1> QED  BY <1>1, <1>2

\* A load that is taken or served leaves the others as they are.
LEMMA SlotLemma ==
    ASSUME NEW k \in Asks, CardInv, asks[k] # NoAsk, TeamAsked' = TeamAsked,
           \/ asks' = [asks EXCEPT ![k] = NoAsk]
           \/ \E s \in {"asked", "served", "failed"} : asks' = [asks EXCEPT ![k].step = s]
    PROVE  /\ asks' \in [Asks -> AskState] /\ LatestAsks'
           /\ asks[k] \in Loading
           /\ asks[k].latest \in BOOLEAN
           /\ asks[k].latest => asks[k].question = TeamAsked
  <1>1. asks \in [Asks -> AskState] /\ asks[k] \in Loading
    BY DEF CardInv, CardTypeOK, AskState, Loading
  <1>2. asks[k].latest \in BOOLEAN
    BY <1>1, LoadIsNotNoAsk
  <1>3. asks[k].latest => asks[k].question = TeamAsked
    BY DEF CardInv, LatestAsks
  <1>4. CASE asks' = [asks EXCEPT ![k] = NoAsk]
    <2>1. asks' \in [Asks -> AskState]
      BY <1>1, <1>4 DEF AskState
    <2>2. LatestAsks'
      BY <1>1, <1>4 DEF CardInv, LatestAsks
    <2> QED  BY <1>1, <1>2, <1>3, <2>1, <2>2
  <1>5. CASE \E s \in {"asked", "served", "failed"} : asks' = [asks EXCEPT ![k].step = s]
    <2>1. PICK s \in {"asked", "served", "failed"} : asks' = [asks EXCEPT ![k].step = s]
      BY <1>5
    <2>2. /\ asks'[k] = [asks[k] EXCEPT !.step = s]
          /\ \A j \in Asks \ {k} : asks'[j] = asks[j]
          /\ DOMAIN asks' = Asks
      BY <1>1, <2>1
    <2>3. /\ asks'[k] \in Loading
          /\ asks'[k].latest = asks[k].latest /\ asks'[k].question = asks[k].question
      BY <1>1, <2>2 DEF Loading
    <2>4. asks' \in [Asks -> AskState]
      BY <1>1, <2>1, <2>2, <2>3 DEF AskState, Loading
    <2>5. LatestAsks'
      BY <1>3, <2>2, <2>3 DEF CardInv, LatestAsks
    <2> QED  BY <1>1, <1>2, <1>3, <2>4, <2>5
  <1> QED  BY <1>4, <1>5

\* Every step of the card and of its surroundings keeps the invariant, for every
\* number of workspaces, pages and loads.
LEMMA CardInvNext == CardInv /\ [CardNext]_<<workspace, cardVars>> => CardInv'
  <1> SUFFICES ASSUME CardInv, [CardNext]_<<workspace, cardVars>>
               PROVE  CardInv'
    OBVIOUS
  <1> USE CardAssumption
  <1>0. CardTypeOK /\ asks \in [Asks -> AskState]
    BY DEF CardInv, CardTypeOK
  <1>1. ASSUME NEW s \in Searches, TypeSearch(s) PROVE CardInv'
    BY <1>1 DEF TypeSearch, CardInv, CardTypeOK, LatestAsks, RowsAnswerQuery, TeamAsked
  <1>2. CASE Debounce
    <2>1. TeamAsked' \in Questions
      BY <1>0, <1>2 DEF Debounce, TeamAsked, Questions, CardTypeOK
    <2> QED  BY <1>0, <1>2, <2>1, AskIfChangedLemma DEF Debounce, CardInv, CardTypeOK
  <1>3. ASSUME NEW key \in Sorts, SortBy(key) PROVE CardInv'
    <2>1. order' \in {"asc", "desc"}
      BY <1>0, <1>3 DEF SortBy, CardTypeOK
    <2>2. TeamAsked' \in Questions
      BY <1>0, <1>3, <2>1 DEF SortBy, TeamAsked, Questions, CardTypeOK
    <2> QED  BY <1>0, <1>3, <2>1, <2>2, AskIfChangedLemma DEF SortBy, CardInv, CardTypeOK
  <1>4. ASSUME NEW p \in TeamPages, TurnTeamPage(p) PROVE CardInv'
    <2>1. TeamAsked' \in Questions
      BY <1>0, <1>4 DEF TurnTeamPage, TeamAsked, Questions, CardTypeOK
    <2> QED  BY <1>0, <1>4, <2>1, AskIfChangedLemma DEF TurnTeamPage, CardInv, CardTypeOK
  <1>5. CASE RetryTeam
    <2>1. TeamAsked' \in Questions
      BY <1>0, <1>5 DEF RetryTeam, query, TeamAsked, Questions, CardTypeOK
    <2> QED  BY <1>0, <1>5, <2>1, BeginAskLemma
             DEF RetryTeam, query, CardInv, CardTypeOK, RowsAnswerQuery
  <1>6. ASSUME NEW k \in Asks, ServeTeam(k) PROVE CardInv'
    <2>1. asks[k] # NoAsk
      BY <1>6 DEF ServeTeam, NoAsk
    <2>2. TeamAsked' = TeamAsked
      BY <1>6 DEF ServeTeam, query, TeamAsked
    <2>3. asks' \in [Asks -> AskState] /\ LatestAsks'
      BY <1>6, <2>1, <2>2, SlotLemma DEF ServeTeam
    <2> QED  BY <1>0, <1>6, <2>2, <2>3
             DEF ServeTeam, query, CardInv, CardTypeOK, RowsAnswerQuery
  <1>7. ASSUME NEW k \in Asks, TakeRows(k) PROVE CardInv'
    <2>1. asks[k] # NoAsk
      BY <1>7 DEF TakeRows, NoAsk
    <2>2. TeamAsked' = TeamAsked
      BY <1>7 DEF TakeRows, query, TeamAsked
    <2>3. /\ asks' \in [Asks -> AskState] /\ LatestAsks' /\ asks[k] \in Loading
          /\ asks[k].latest \in BOOLEAN /\ asks[k].latest => asks[k].question = TeamAsked
      BY <1>7, <2>1, <2>2, SlotLemma DEF TakeRows
    <2>4. asks[k].question \in Questions
      BY <2>3, LoadIsNotNoAsk
    <2>5. CASE asks[k].latest
      BY <1>0, <1>7, <2>2, <2>3, <2>4, <2>5
      DEF TakeRows, Counts, query, CardInv, CardTypeOK, RowsAnswerQuery
    <2>6. CASE ~asks[k].latest
      <3>1. rows' = rows /\ teamLoading' = teamLoading
        BY <1>0, <1>7, <2>6 DEF TakeRows, Counts, CardTypeOK
      <3> QED  BY <1>0, <1>7, <2>2, <2>3, <3>1
               DEF TakeRows, query, CardInv, CardTypeOK, RowsAnswerQuery
    <2> QED  BY <2>5, <2>6
  <1>8. ASSUME NEW k \in Asks, TakeTeamFailure(k) PROVE CardInv'
    <2>1. asks[k] # NoAsk
      BY <1>8 DEF TakeTeamFailure, NoAsk
    <2>2. TeamAsked' = TeamAsked
      BY <1>8 DEF TakeTeamFailure, query, TeamAsked
    <2>3. asks' \in [Asks -> AskState] /\ LatestAsks' /\ asks[k].latest \in BOOLEAN
      BY <1>8, <2>1, <2>2, SlotLemma DEF TakeTeamFailure
    <2>4. CASE asks[k].latest
      <3>1. teamFailed' = TRUE /\ teamLoading' = FALSE
        BY <1>0, <1>8, <2>4 DEF TakeTeamFailure, Counts, CardTypeOK
      <3> QED  BY <1>0, <1>8, <2>3, <3>1
               DEF TakeTeamFailure, query, CardInv, CardTypeOK, RowsAnswerQuery
    <2>5. CASE ~asks[k].latest
      <3>1. teamFailed' = teamFailed /\ teamLoading' = teamLoading
        BY <1>0, <1>8, <2>5 DEF TakeTeamFailure, Counts, CardTypeOK
      <3> QED  BY <1>0, <1>8, <2>2, <2>3, <3>1
               DEF TakeTeamFailure, query, CardInv, CardTypeOK, RowsAnswerQuery
    <2> QED  BY <2>3, <2>4, <2>5
  <1>9. ASSUME NEW w \in Workspaces, Follow(w) PROVE CardInv'
    <2>1. TeamAsked' \in Questions
      BY <1>0, <1>9 DEF Follow, query, TeamAsked, Questions, CardTypeOK
    <2> QED  BY <1>0, <1>9, <2>1, AskIfChangedLemma DEF Follow, query, CardInv, CardTypeOK
  <1>10. CASE Mounts /\ UNCHANGED workspace
    <2>1. TeamAsked' \in Questions
      BY <1>0, <1>10 DEF Mounts, AtFirst, TeamAsked, Questions, CardTypeOK
    <2> QED  BY <1>0, <1>10, <2>1, BeginAskLemma, NoLoadsLemma
             DEF Mounts, AtFirst, CardInv, CardTypeOK, RowsAnswerQuery
  <1>11. CASE Leaves /\ workspace' \in Workspaces
    <2>1. asks' = NoLoads /\ mounted' = FALSE
      BY <1>11 DEF Leaves
    <2>2. asks' \in [Asks -> AskState] /\ LatestAsks'
      BY <2>1, NoLoadsLemma DEF LatestAsks, NoLoads
    <2> QED  BY <1>11, <2>1, <2>2 DEF Leaves, AtFirst, CardInv, CardTypeOK, RowsAnswerQuery
  <1>12. CASE UNCHANGED <<workspace, cardVars>>
    BY <1>12 DEF cardVars, query, CardInv, CardTypeOK, LatestAsks, RowsAnswerQuery, TeamAsked
  <1> QED
    BY <1>1, <1>2, <1>3, <1>4, <1>5, <1>6, <1>7, <1>8, <1>9, <1>10, <1>11, <1>12
    DEF CardNext, CardStep, UserStep, AskStep

LEMMA CardInvInit == CardInit => CardInv
  <1> SUFFICES ASSUME CardInit PROVE CardInv
    OBVIOUS
  <1>1. asks \in [Asks -> AskState] /\ LatestAsks
    BY NoLoadsLemma DEF CardInit, Away, LatestAsks, NoLoads
  <1> QED  BY <1>1, CardAssumption DEF CardInit, Away, CardInv, CardTypeOK, RowsAnswerQuery

\* The card answers its query whatever its surroundings do with it.
THEOREM CardAnswers == CardSpec => []RowsAnswerQuery
  <1>1. CardInv => RowsAnswerQuery
    BY DEF CardInv
  <1> QED  BY CardInvInit, CardInvNext, <1>1, PTL DEF CardSpec
----------------------------------------------------------------------------
\* What a page does with the card's place on the screen is a step of the card's
\* surroundings.
LEMMA CardFollowsLemma ==
    ASSUME workspace \in Workspaces, NEW cards, CardFollows(cards)
    PROVE  [CardNext]_<<workspace, cardVars>>
  <1>1. CASE UNCHANGED <<workspace, cardVars>>
    BY <1>1
  <1>2. CASE UNCHANGED workspace /\ Mounts
    BY <1>2 DEF CardNext
  <1>3. CASE UNCHANGED workspace /\ Leaves
    BY <1>3 DEF CardNext
  <1> QED  BY <1>1, <1>2, <1>3 DEF CardFollows

LEMMA MountLemma ==
    ASSUME workspace \in Workspaces, NEW r, NEW f, NEW p, NEW a, NEW table,
           Mount(r, f, p, a, table)
    PROVE  [CardNext]_<<workspace, cardVars>>
  <1>1. UNCHANGED workspace /\ Leaves
    BY DEF Mount
  <1> QED  BY <1>1 DEF CardNext

\* Every step of the pages is a step of the card or leaves it alone.
LEMMA PagesStepIsCardStep ==
    CardInv /\ [Next]_vars => [CardNext]_<<workspace, cardVars>>
  <1> DEFINE Goal == [CardNext]_<<workspace, cardVars>>
  <1> SUFFICES ASSUME CardInv, [Next]_vars PROVE Goal
    OBVIOUS
  <1>0. workspace \in Workspaces
    BY DEF CardInv, CardTypeOK
  <1>1. CASE OnCard
    BY <1>1 DEF OnCard, CardNext, CardStep
  <1>2. ASSUME NEW r \in Routes, NEW f \in BOOLEAN, NEW p \in PageNumbers,
               NEW a \in Applications \cup {None}, Navigate(r, f, p, a)
        PROVE  Goal
    BY <1>0, <1>2, MountLemma DEF Navigate
  <1>3. ASSUME NEW w \in Workspaces, SwitchWorkspace(w) PROVE Goal
    BY <1>3 DEF SwitchWorkspace, CardNext
  <1>4. ASSUME NEW f \in BOOLEAN, SetFilter(f) PROVE Goal
    BY <1>4 DEF SetFilter
  <1>5. ASSUME NEW p \in PageNumbers, TurnPage(p) PROVE Goal
    BY <1>5 DEF TurnPage
  <1>6. CASE Retry
    BY <1>6 DEF Retry
  <1>7. CASE EnterSelection \/ LeaveSelection \/ ToggleSelectAll
    BY <1>7 DEF EnterSelection, LeaveSelection, ToggleSelectAll, Selects
  <1>8. ASSUME NEW a \in Applications, ToggleApplication(a) PROVE Goal
    BY <1>8 DEF ToggleApplication, Selects
  <1>9. ASSUME NEW l \in Loads, ServeLoad(l) PROVE Goal
    BY <1>9 DEF ServeLoad
  <1>10. ASSUME NEW l \in Loads, TakeAnswer(l) PROVE Goal
    BY <1>0, <1>10, CardFollowsLemma DEF TakeAnswer
  <1>11. ASSUME NEW l \in Loads, TakeFailure(l) PROVE Goal
    BY <1>0, <1>11, CardFollowsLemma DEF TakeFailure
  <1>12. ASSUME NEW b \in Acts, ServeAct(b) PROVE Goal
    BY <1>12 DEF ServeAct
  <1>13. ASSUME NEW b \in Acts, FinishMove(b) PROVE Goal
    BY <1>13 DEF FinishMove
  <1>14. ASSUME NEW b \in Acts, FinishOnDetail(b) PROVE Goal
    BY <1>0, <1>14, MountLemma DEF FinishOnDetail
  <1>15. ASSUME NEW b \in Acts, FinishErase(b) PROVE Goal
    BY <1>15 DEF FinishErase
  <1>16. ASSUME NEW b \in Acts, FinishGoal(b) PROVE Goal
    BY <1>16 DEF FinishGoal, CardNext
  <1>17. ASSUME NEW b \in Acts, FailAct(b) PROVE Goal
    BY <1>17 DEF FailAct
  <1>18. ASSUME NEW b \in Acts, NEW a \in Applications, Delete(b, a) \/ Restore(b, a)
         PROVE  Goal
    BY <1>18 DEF Delete, Restore, Send
  <1>19. ASSUME NEW b \in Acts, PermanentlyDelete(b) PROVE Goal
    BY <1>19 DEF PermanentlyDelete, Send
  <1>20. ASSUME NEW b \in Acts, NEW g \in Goals, SetGoal(b, g) PROVE Goal
    BY <1>20 DEF SetGoal, Send
  <1>21. CASE UNCHANGED vars
    BY <1>21 DEF vars
  <1> HIDE DEF Goal
  <1> QED
    BY <1>1, <1>2, <1>3, <1>4, <1>5, <1>6, <1>7, <1>8, <1>9, <1>10, <1>11, <1>12, <1>13,
       <1>14, <1>15, <1>16, <1>17, <1>18, <1>19, <1>20, <1>21
    DEF Next, LoadStep, ActStep

\* On the dashboard, too, the card's rows are those of the query it shows: whatever the
\* user does on the pages and however the loads of dashboard and card cross.
THEOREM TeamRowsAnswer == Spec => []RowsAnswerQuery
  <1>1. Init => CardInit
    BY DEF Init
  <1>2. CardInv => RowsAnswerQuery
    BY DEF CardInv
  <1> QED  BY CardInvInit, CardInvNext, PagesStepIsCardStep, <1>1, <1>2, PTL DEF Spec

\* The pages implement the card's own specification.
THEOREM PagesImplementCard == Spec => CardSpec
  <1>1. Init => CardInit
    BY DEF Init
  <1> QED  BY CardInvInit, CardInvNext, PagesStepIsCardStep, <1>1, PTL DEF Spec, CardSpec
----------------------------------------------------------------------------
\* The inductive invariant of SettledIsFresh.  A change that the page was there to see
\* leaves it either with an act that will load the page again as it ends, or with every
\* answer that still counts telling what the server has.
PageLoading ==
    [step : {"asked", "served", "failed"}, question : PageQuestion, latest : BOOLEAN,
     byAct : BOOLEAN, frees : BOOLEAN, answer : Answer \cup {None}]

PageActing ==
    [step : {"sent", "served", "failed"}, kind : {"trash", "restore", "erase", "goal"},
     question : PageQuestion, ids : SUBSET Applications, all : BOOLEAN,
     goal : Goals \cup {None}, here : BOOLEAN]

\* The dashboard's answer has no records.
Bare(q, answer) == q.route = "dashboard" => answer.rows = {} /\ answer.total = 0

Address == /\ route = "detail" => app # None

\* A load is of the page that is mounted, and one that still counts asks what the page
\* shows as asked, unless an act has begun it.
LoadFits(q) ==
    q # NoLoad =>
        /\ q.question.route = route /\ q.question.app = app
        /\ q.step = "served" => q.answer \in Answer /\ Bare(q.question, q.answer)
        /\ q.latest /\ ~q.byAct => q.question = Asked

ActFits(q) ==
    q # NoAct =>
        /\ q.here => q.question.route = route /\ q.question.app = app
        /\ q.kind = "goal" => q.question.route = "dashboard"
        /\ q.kind = "erase" => q.question.route = "deleted"

Fitting ==
    /\ Address
    /\ \A l \in Loads : LoadFits(load[l])
    /\ \A b \in Acts : ActFits(act[b])
    /\ shown # None => shown.question.route = route /\ Bare(shown.question, shown.answer)

\* An act has been served and will load its question, the present one, when it ends.
WillReload(q) ==
    q.step = "served" /\ q.kind # "goal" /\ q.here /\ q.question = Asked

GoalServed(q) == q.step = "served" /\ q.kind = "goal" /\ q.here

LoadsFresh ==
    \A l \in Loads : load[l].step = "served" /\ load[l].latest =>
        load[l].answer = AnswerOf(load[l].question)

Overtaken == \A l \in Loads : load[l] # NoLoad => ~load[l].latest

ShownFresh ==
    Visible /\ Overtaken /\ shown.latest /\ (shown.byAct => shown.question = Asked) =>
        shown.answer = AnswerOf(Asked) \/ \E b \in Acts : GoalServed(act[b])

GoalsKept ==
    \A b \in Acts : GoalServed(act[b]) => goal[act[b].question.workspace] = act[b].goal

Fresh ==
    ~missed => GoalsKept /\ ((\E b \in Acts : WillReload(act[b])) \/ (LoadsFresh /\ ShownFresh))

PagesInv == TypeOK /\ Fitting /\ Fresh

\* What an API answers is an answer, if a detail page has a record.
LEMMA CountLemma ==
    ASSUME NEW S, S \subseteq Applications
    PROVE  Cardinality(S) \in Nat
  BY PagesAssumption, FS_Subset, FS_CardinalityType

LEMMA DivLemma ==
    ASSUME NEW n \in Nat, NEW d \in Nat \ {0}
    PROVE  (n + d - 1) \div d \in Nat
  OBVIOUS

LEMMA AnswerOfType ==
    ASSUME NEW q \in PageQuestion, q.route = "detail" => q.app \in Applications,
           goal \in [Workspaces -> Goals \cup {None}]
    PROVE  AnswerOf(q) \in Answer /\ Bare(q, AnswerOf(q))
  <1>1. Listed(q) \subseteq Applications
    BY DEF Listed
  <1>2. OnPage(Listed(q), q.page) \subseteq Applications
    BY <1>1 DEF OnPage
  <1>3. PageCount(Listed(q)) \in Nat
    BY <1>1, CountLemma, DivLemma, PagesAssumption DEF PageCount
  <1>4. /\ q.route \in Routes /\ q.workspace \in Workspaces
    BY DEF PageQuestion
  <1>5. goal[q.workspace] \in Goals \cup {None}
    BY <1>4
  <1>6. AnswerOf(q) \in Answer
    BY <1>2, <1>3, <1>4, <1>5 DEF AnswerOf, Answer
  <1>7. Bare(q, AnswerOf(q))
    BY DEF Bare, AnswerOf, Lists
  <1> QED  BY <1>6, <1>7

LEMMA SameAnswer ==
    ASSUME place' = place, goal' = goal, Asked' = Asked
    PROVE  AnswerOf(Asked)' = AnswerOf(Asked)
  BY DEF AnswerOf, Listed, OnPage, PageCount

LEMMA SameAnswers ==
    ASSUME place' = place, goal' = goal, NEW l \in Loads, load'[l].question = load[l].question
    PROVE  AnswerOf(load[l].question)' = AnswerOf(load[l].question)
  BY DEF AnswerOf, Listed, OnPage, PageCount

LEMMA LoadFields ==
    ASSUME NEW q \in PageLoading
    PROVE  /\ q # NoLoad
           /\ q.step \in {"asked", "served", "failed"}
           /\ q.question \in PageQuestion /\ q.latest \in BOOLEAN /\ q.byAct \in BOOLEAN
           /\ q.frees \in BOOLEAN
           /\ [q EXCEPT !.latest = FALSE] \in PageLoading
           /\ [q EXCEPT !.step = "failed"] \in PageLoading
  <1>1. /\ q.step \in {"asked", "served", "failed"}
        /\ q.question \in PageQuestion /\ q.latest \in BOOLEAN /\ q.byAct \in BOOLEAN
        /\ q.frees \in BOOLEAN
    BY DEF PageLoading
  <1>2. NoLoad.step = "none"
    BY DEF NoLoad
  <1>3. q # NoLoad
    BY <1>1, <1>2
  <1>4. /\ [q EXCEPT !.latest = FALSE] \in PageLoading
        /\ [q EXCEPT !.step = "failed"] \in PageLoading
    BY DEF PageLoading
  <1> QED  BY <1>1, <1>3, <1>4

\* A load in a slot, or none.
LEMMA LoadCases ==
    ASSUME NEW q \in LoadState
    PROVE  q = NoLoad \/ q \in PageLoading
  BY DEF LoadState, PageLoading

LEMMA LoadStates == NoLoad \in LoadState /\ PageLoading \subseteq LoadState
  BY DEF LoadState, PageLoading

LEMMA ActFields ==
    ASSUME NEW q \in PageActing
    PROVE  /\ q # NoAct
           /\ q.step \in {"sent", "served", "failed"}
           /\ q.kind \in {"trash", "restore", "erase", "goal"}
           /\ q.question \in PageQuestion /\ q.ids \subseteq Applications /\ q.all \in BOOLEAN
           /\ q.goal \in Goals \cup {None} /\ q.here \in BOOLEAN
  <1>1. /\ q.step \in {"sent", "served", "failed"}
        /\ q.kind \in {"trash", "restore", "erase", "goal"}
        /\ q.question \in PageQuestion /\ q.ids \subseteq Applications /\ q.all \in BOOLEAN
        /\ q.goal \in Goals \cup {None} /\ q.here \in BOOLEAN
    BY DEF PageActing
  <1>2. NoAct.step = "none"
    BY DEF NoAct
  <1> QED  BY <1>1, <1>2

LEMMA ActElsewhere ==
    ASSUME NEW q \in PageActing
    PROVE  /\ [q EXCEPT !.here = FALSE] \in PageActing
           /\ [q EXCEPT !.here = FALSE].here = FALSE
           /\ [q EXCEPT !.here = FALSE].kind = q.kind
           /\ [q EXCEPT !.here = FALSE].question = q.question
           /\ [q EXCEPT !.here = FALSE].step = q.step
  BY DEF PageActing

LEMMA ActStepped ==
    ASSUME NEW q \in PageActing, NEW s \in {"sent", "served", "failed"}
    PROVE  /\ [q EXCEPT !.step = s] \in PageActing
           /\ [q EXCEPT !.step = s].step = s
           /\ [q EXCEPT !.step = s].here = q.here
           /\ [q EXCEPT !.step = s].kind = q.kind
           /\ [q EXCEPT !.step = s].goal = q.goal
           /\ [q EXCEPT !.step = s].question = q.question
  BY DEF PageActing

LEMMA ActCases ==
    ASSUME NEW q \in ActState
    PROVE  q = NoAct \/ q \in PageActing
  BY DEF ActState, PageActing

LEMMA ActStates == NoAct \in ActState /\ PageActing \subseteq ActState
  BY DEF ActState, PageActing

\* No act has neither been served nor will it load anything.
LEMMA NoActIdle == ActFits(NoAct) /\ ~GoalServed(NoAct) /\ ~WillReload(NoAct)
  BY DEF ActFits, GoalServed, WillReload, NoAct

LEMMA AskedIsPageQuestion == TypeOK => Asked \in PageQuestion
  BY DEF TypeOK, CardTypeOK, Asked, PageQuestion

LEMMA AskedIsPageQuestionNext == TypeOK' => Asked' \in PageQuestion
  BY DEF TypeOK, CardTypeOK, Asked, PageQuestion

LEMMA AskedFields ==
    /\ Asked.route = route /\ Asked.app = app /\ Asked.workspace = workspace
    /\ Asked'.route = route' /\ Asked'.app = app' /\ Asked'.workspace = workspace'
  BY DEF Asked

LEMMA LoadForLemma ==
    ASSUME NEW q \in PageQuestion, NEW byAct \in BOOLEAN, NEW frees \in BOOLEAN
    PROVE  /\ LoadFor(q, byAct, frees) \in PageLoading
           /\ LoadFor(q, byAct, frees) # NoLoad
           /\ LoadFor(q, byAct, frees).step = "asked"
           /\ LoadFor(q, byAct, frees).question = q
           /\ LoadFor(q, byAct, frees).byAct = byAct
  <1>1. LoadFor(q, byAct, frees) \in PageLoading
    BY DEF LoadFor, PageLoading
  <1> QED  BY <1>1, LoadFields DEF LoadFor

\* Loads that a later one has overtaken, or of which there are none.
OvertakenLoad(q) == IF q = NoLoad THEN NoLoad ELSE [q EXCEPT !.latest = FALSE]

LEMMA OvertakenLoadLemma ==
    ASSUME NEW q \in LoadState, LoadFits(q), route' = route, app' = app
    PROVE  /\ OvertakenLoad(q) \in LoadState
           /\ OvertakenLoad(q) # NoLoad =>
                /\ ~OvertakenLoad(q).latest
                /\ OvertakenLoad(q).question.route = route'
                /\ OvertakenLoad(q).question.app = app'
                /\ OvertakenLoad(q).step = "served" =>
                      /\ OvertakenLoad(q).answer \in Answer
                      /\ Bare(OvertakenLoad(q).question, OvertakenLoad(q).answer)
  <1>1. CASE q = NoLoad
    BY <1>1 DEF OvertakenLoad, LoadState
  <1>2. CASE q # NoLoad
    <2>1. q \in PageLoading
      BY <1>2, LoadCases
    <2>2. /\ [q EXCEPT !.latest = FALSE] \in PageLoading
          /\ [q EXCEPT !.latest = FALSE].latest = FALSE
          /\ [q EXCEPT !.latest = FALSE].question = q.question
          /\ [q EXCEPT !.latest = FALSE].step = q.step
          /\ [q EXCEPT !.latest = FALSE].answer = q.answer
      BY <2>1 DEF PageLoading
    <2>3. OvertakenLoad(q) = [q EXCEPT !.latest = FALSE]
      BY <1>2 DEF OvertakenLoad
    <2> DEFINE o == [q EXCEPT !.latest = FALSE]
    <2>4. OvertakenLoad(q) = o /\ o \in PageLoading /\ o.latest = FALSE
          /\ o.question = q.question /\ o.step = q.step /\ o.answer = q.answer
      BY <2>2, <2>3
    <2> HIDE DEF o
    <2> QED  BY <1>2, <2>4, LoadStates DEF LoadFits
  <1> QED  BY <1>1, <1>2

\* A load that begins is the only one that counts, and the spinner hides what is shown.
LEMMA BeginLemma ==
    ASSUME TypeOK, Fitting, Fresh,
           NEW q \in PageQuestion, NEW byAct \in BOOLEAN, NEW frees \in BOOLEAN,
           Begin(load, q, byAct, frees),
           q.route = route', q.app = app', byAct \/ q = Asked',
           UNCHANGED <<route, app, shown, goal, missed>>,
           \A b \in Acts : act'[b] = act[b] \/ act'[b] = NoAct
    PROVE  /\ load' \in [Loads -> LoadState] /\ loading' \in BOOLEAN /\ failed' \in BOOLEAN
           /\ Fitting' /\ Fresh'
  <1> DEFINE new == LoadFor(q, byAct, frees)
  <1>1. /\ new \in PageLoading /\ new.step = "asked" /\ new.question = q
        /\ new.byAct = byAct /\ new # NoLoad
    BY LoadForLemma
  <1>2. PICK l \in Loads :
            load' = [k \in Loads |-> IF k = l THEN new ELSE OvertakenLoad(load[k])]
    BY DEF Begin, OvertakenLoad
  <1> HIDE DEF new
  <1>3. \A k \in Loads : load[k] \in LoadState /\ LoadFits(load[k])
    BY DEF TypeOK, Fitting
  <1>4. load' \in [Loads -> LoadState]
    BY <1>1, <1>2, <1>3, OvertakenLoadLemma, LoadStates
  <1>5. loading' = TRUE /\ failed' \in BOOLEAN
    BY DEF Begin, TypeOK
  <1>6. ASSUME NEW k \in Loads PROVE LoadFits(load[k])'
    <2>1. CASE k = l
      BY <1>1, <1>2, <2>1 DEF LoadFits
    <2>2. CASE k # l
      <3>1. load'[k] = OvertakenLoad(load[k])
        BY <1>2, <2>2
      <3> QED  BY <1>3, <3>1, OvertakenLoadLemma DEF LoadFits
    <2> QED  BY <2>1, <2>2
  <1>7. \A b \in Acts : ActFits(act[b])'
    <2> SUFFICES ASSUME NEW b \in Acts PROVE ActFits(act[b])'
      OBVIOUS
    <2>1. ActFits(act[b])
      BY DEF Fitting
    <2>2. CASE act'[b] = act[b]
      BY <2>1, <2>2 DEF ActFits
    <2>3. CASE act'[b] = NoAct
      BY <2>3 DEF ActFits
    <2> QED  BY <2>2, <2>3
  <1>8. Fitting'
    BY <1>6, <1>7 DEF Fitting, Address, Bare
  <1>9. LoadsFresh'
    <2> SUFFICES ASSUME NEW k \in Loads, load'[k].step = "served", load'[k].latest
                 PROVE  FALSE
      BY DEF LoadsFresh
    <2>1. k # l
      BY <1>1, <1>2
    <2>2. load'[k] = OvertakenLoad(load[k])
      BY <1>2, <2>1
    <2>3. load'[k] # NoLoad
      BY DEF NoLoad
    <2> QED  BY <1>3, <2>2, <2>3, OvertakenLoadLemma
  <1>10. ShownFresh'
    BY <1>5 DEF ShownFresh, Visible
  <1>11. ~missed => GoalsKept'
    <2> SUFFICES ASSUME ~missed, NEW b \in Acts, GoalServed(act'[b])
                 PROVE  goal'[act'[b].question.workspace] = act'[b].goal
      BY DEF GoalsKept, GoalServed
    <2>1. act'[b] = act[b]
      BY NoActIdle
    <2> QED  BY <2>1 DEF Fresh, GoalsKept
  <1> QED  BY <1>4, <1>5, <1>8, <1>9, <1>10, <1>11 DEF Fresh

LEMMA LeftBehind ==
    ASSUME NEW q \in ActState, ActFits(q),
           NEW o, o = IF q = NoAct THEN NoAct ELSE [q EXCEPT !.here = FALSE]
    PROVE  /\ o \in ActState
           /\ ~GoalServed(o) /\ ~WillReload(o)
           /\ o # NoAct =>
                 /\ o.here = FALSE
                 /\ o.kind = "goal" => o.question.route = "dashboard"
                 /\ o.kind = "erase" => o.question.route = "deleted"
  <1>1. CASE q = NoAct
    BY <1>1, ActStates, NoActIdle DEF NoAct
  <1>2. CASE q # NoAct
    <2>1. q \in PageActing
      BY <1>2, ActCases
    <2>2. o = [q EXCEPT !.here = FALSE]
      BY <1>2
    <2>3. o \in PageActing /\ o.here = FALSE /\ o.kind = q.kind /\ o.question = q.question
      BY <2>1, <2>2, ActElsewhere
    <2> QED  BY <1>2, <2>3, ActStates DEF ActFits, GoalServed, WillReload
  <1> QED  BY <1>1, <1>2

\* A page that mounts has one load, nothing to show, and has missed nothing.
LEMMA MountedPage ==
    ASSUME TypeOK, CardTypeOK', moves' \in 0..MaxMoves, UNCHANGED server,
           NEW r \in Routes, NEW f \in BOOLEAN, NEW p \in PageNumbers,
           NEW a \in Applications \cup {None}, r = "detail" => a # None,
           NEW table \in [Acts -> ActState], \A b \in Acts : ActFits(table[b]),
           Mount(r, f, p, a, table)
    PROVE  PagesInv'
  <1>1. /\ route' = r /\ filtered' = f /\ page' = p /\ app' = a
        /\ shown' = None /\ loading' = TRUE /\ failed' = FALSE
        /\ selecting' = FALSE /\ checked' = {} /\ all' = FALSE /\ deleting' = FALSE
        /\ missed' = FALSE
        /\ act' = [b \in Acts |-> IF table[b] = NoAct THEN NoAct
                                  ELSE [table[b] EXCEPT !.here = FALSE]]
    BY DEF Mount
  <1>2. workspace' \in Workspaces
    BY DEF CardTypeOK
  <1>3. Asked' \in PageQuestion
    BY <1>1, <1>2 DEF Asked, PageQuestion
  <1> DEFINE new == LoadFor(Asked', FALSE, FALSE)
  <1>4. /\ new \in PageLoading /\ new # NoLoad /\ new.step = "asked"
        /\ new.question = Asked' /\ new.byAct = FALSE
    BY <1>3, LoadForLemma
  <1>5. PICK l \in Loads : load' = [k \in Loads |-> IF k = l THEN new ELSE NoLoad]
    BY DEF Mount
  <1> HIDE DEF new
  <1>6. load' \in [Loads -> LoadState]
    BY <1>4, <1>5, LoadStates
  <1>7. ASSUME NEW b \in Acts
        PROVE  /\ act'[b] \in ActState
               /\ ActFits(act[b])'
               /\ ~GoalServed(act'[b])
    <2>1. /\ table[b] \in ActState /\ ActFits(table[b])
          /\ act'[b] = IF table[b] = NoAct THEN NoAct ELSE [table[b] EXCEPT !.here = FALSE]
      BY <1>1
    <2>2. /\ act'[b] \in ActState /\ ~GoalServed(act'[b])
          /\ act'[b] # NoAct => /\ act'[b].here = FALSE
                                /\ act'[b].kind = "goal" => act'[b].question.route = "dashboard"
                                /\ act'[b].kind = "erase" => act'[b].question.route = "deleted"
      BY <2>1, LeftBehind
    <2> QED  BY <2>2 DEF ActFits
  <1>8. act' \in [Acts -> ActState]
    <2>1. act' = [b \in Acts |-> act'[b]]
      BY <1>1
    <2> HIDE DEF new
    <2> QED  BY <1>7, <2>1
  <1>9. place' = place /\ goal' = goal
    BY DEF server
  <1>10. TypeOK'
    BY <1>1, <1>6, <1>8, <1>9 DEF TypeOK
  <1>11. \A k \in Loads : LoadFits(load[k])'
    BY <1>4, <1>5, AskedFields DEF LoadFits, NoLoad
  <1>12. Fitting'
    BY <1>1, <1>7, <1>11 DEF Fitting, Address
  <1>13. GoalsKept'
    BY <1>7 DEF GoalsKept, GoalServed
  <1>14. LoadsFresh'
    BY <1>4, <1>5 DEF LoadsFresh, NoLoad
  <1>15. ShownFresh'
    BY <1>1 DEF ShownFresh, Visible
  <1> QED  BY <1>10, <1>12, <1>13, <1>14, <1>15 DEF PagesInv, Fresh

\* Where nothing is loaded or shown anew, an act that is put in a slot or taken out of
\* one, or that fails, changes nothing: unless it was to load the page.
Idles(q) == ~GoalServed(q) /\ ~WillReload(q)

LEMMA QuietLemma ==
    ASSUME Fitting, Fresh,
           UNCHANGED <<place, goal, load, shown, loading, failed, missed>>,
           Asked' = Asked,
           \A b \in Acts : \/ act'[b] = act[b]
                           \/ Idles(act[b]) /\ Idles(act'[b]) /\ ActFits(act'[b])
    PROVE  Fitting' /\ Fresh'
  <1>1. route' = route /\ app' = app
    BY AskedFields
  <1>2. \A b \in Acts : ActFits(act[b])'
    BY <1>1 DEF Fitting, ActFits
  <1>3. \A l \in Loads : LoadFits(load[l])'
    BY <1>1 DEF Fitting, LoadFits, Bare
  <1>4. Fitting'
    BY <1>1, <1>2, <1>3 DEF Fitting, Address, Bare
  <1>5. SUFFICES ASSUME ~missed PROVE Fresh'
    BY <1>4 DEF Fresh
  <1>6. GoalsKept'
    BY <1>5 DEF Fresh, GoalsKept, Idles, GoalServed
  <1>7. CASE \E b \in Acts : WillReload(act[b])
    <2>1. PICK b \in Acts : WillReload(act[b])
      BY <1>7
    <2>2. act'[b] = act[b]
      BY <2>1 DEF Idles
    <2>3. WillReload(act[b])'
      BY <2>1, <2>2 DEF WillReload
    <2> QED  BY <1>6, <2>3 DEF Fresh
  <1>8. CASE LoadsFresh /\ ShownFresh
    <2>1. LoadsFresh'
      <3> SUFFICES ASSUME NEW l \in Loads, load'[l].step = "served", load'[l].latest
                   PROVE  (load[l].answer = AnswerOf(load[l].question))'
        BY DEF LoadsFresh
      <3>1. load[l].answer = AnswerOf(load[l].question)
        BY <1>8 DEF LoadsFresh
      <3> QED  BY <3>1, SameAnswers
    <2>2. ShownFresh'
      <3> SUFFICES ASSUME (Visible /\ Overtaken /\ shown.latest
                             /\ (shown.byAct => shown.question = Asked))',
                          shown.answer # AnswerOf(Asked)
                   PROVE  (\E b \in Acts : GoalServed(act[b]))'
        BY SameAnswer DEF ShownFresh
      <3>1. \E b \in Acts : GoalServed(act[b])
        BY <1>8 DEF ShownFresh, Visible, Overtaken
      <3>2. PICK b \in Acts : GoalServed(act[b])
        BY <3>1
      <3>3. act'[b] = act[b]
        BY <3>2 DEF Idles
      <3> QED  BY <3>2, <3>3 DEF GoalServed
    <2> QED  BY <1>6, <2>1, <2>2 DEF Fresh
  <1> QED  BY <1>5, <1>7, <1>8 DEF Fresh

\* What the user does with a page that stays mounted.
LEMMA SwitchKeeps ==
    ASSUME TypeOK, Fitting, Fresh, CardTypeOK',
           NEW w \in Workspaces, SwitchWorkspace(w)
    PROVE  PagesInv'
  <1>1. /\ UNCHANGED <<server, address, act, shown, selection, missed>>
        /\ moves < MaxMoves /\ moves' = moves + 1
        /\ Begin(load, Asked', FALSE, FALSE)
    BY DEF SwitchWorkspace, Move, Ask
  <1>2. Asked' \in PageQuestion
    BY <1>1 DEF TypeOK, CardTypeOK, Asked, PageQuestion, address
  <1>3. /\ load' \in [Loads -> LoadState] /\ loading' \in BOOLEAN /\ failed' \in BOOLEAN
        /\ Fitting' /\ Fresh'
    BY <1>1, <1>2, AskedFields, BeginLemma DEF server, address
  <1>4. TypeOK'
    BY <1>1, <1>3, PagesAssumption DEF TypeOK, server, address, selection
  <1> QED  BY <1>3, <1>4 DEF PagesInv

LEMMA FilterKeeps ==
    ASSUME TypeOK, Fitting, Fresh, NEW f \in BOOLEAN, SetFilter(f)
    PROVE  PagesInv'
  <1>1. /\ UNCHANGED <<workspace, cardVars, server, route, app, act, shown, selection, missed>>
        /\ filtered' = f /\ page' = 1
        /\ moves < MaxMoves /\ moves' = moves + 1
        /\ Begin(load, Asked', FALSE, FALSE)
    BY DEF SetFilter, Move, Ask
  <1>2. Asked' \in PageQuestion
    BY <1>1, PagesAssumption DEF TypeOK, CardTypeOK, Asked, PageQuestion
  <1>3. /\ load' \in [Loads -> LoadState] /\ loading' \in BOOLEAN /\ failed' \in BOOLEAN
        /\ Fitting' /\ Fresh'
    BY <1>1, <1>2, AskedFields, BeginLemma DEF server
  <1>4. CardTypeOK'
    BY <1>1 DEF TypeOK, CardTypeOK, cardVars, query
  <1>5. TypeOK'
    BY <1>1, <1>3, <1>4, PagesAssumption DEF TypeOK, server, selection
  <1> QED  BY <1>3, <1>5 DEF PagesInv

LEMMA TurnKeeps ==
    ASSUME TypeOK, Fitting, Fresh, NEW p \in PageNumbers, TurnPage(p)
    PROVE  PagesInv'
  <1>1. /\ UNCHANGED <<workspace, cardVars, server, route, filtered, app, act, shown,
                       selection, missed>>
        /\ page' = p
        /\ moves < MaxMoves /\ moves' = moves + 1
    BY DEF TurnPage, Move
  <1>2. Asked' \in PageQuestion
    BY <1>1 DEF TypeOK, CardTypeOK, Asked, PageQuestion
  <1>3. /\ load' \in [Loads -> LoadState] /\ loading' \in BOOLEAN /\ failed' \in BOOLEAN
        /\ Fitting' /\ Fresh'
    <2>1. CASE p # page
      <3>1. Begin(load, Asked', FALSE, FALSE)
        BY <2>1 DEF TurnPage, Ask
      <3> QED  BY <1>1, <1>2, <3>1, AskedFields, BeginLemma DEF server
    <2>2. CASE p = page
      <3>1. UNCHANGED <<load, loading, failed>>
        BY <2>2 DEF TurnPage
      <3>2. Asked' = Asked
        BY <1>1, <2>2 DEF Asked
      <3> QED  BY <1>1, <3>1, <3>2, QuietLemma DEF server, TypeOK
    <2> QED  BY <2>1, <2>2
  <1>4. CardTypeOK'
    BY <1>1 DEF TypeOK, CardTypeOK, cardVars, query
  <1>5. TypeOK'
    BY <1>1, <1>3, <1>4, PagesAssumption DEF TypeOK, server, selection
  <1> QED  BY <1>3, <1>5 DEF PagesInv

LEMMA RetryKeeps ==
    ASSUME TypeOK, Fitting, Fresh, Retry
    PROVE  PagesInv'
  <1>1. /\ UNCHANGED <<workspace, cardVars, server, address, act, shown, selection, missed>>
        /\ moves < MaxMoves /\ moves' = moves + 1
        /\ Begin(load, Asked, FALSE, FALSE)
    BY DEF Retry, Move
  <1>2. Asked' = Asked /\ Asked \in PageQuestion
    BY <1>1, AskedIsPageQuestion DEF Asked, address
  <1>3. /\ load' \in [Loads -> LoadState] /\ loading' \in BOOLEAN /\ failed' \in BOOLEAN
        /\ Fitting' /\ Fresh'
    BY <1>1, <1>2, AskedFields, BeginLemma DEF server, address
  <1>4. CardTypeOK'
    BY <1>1 DEF TypeOK, CardTypeOK, cardVars, query
  <1>5. TypeOK'
    BY <1>1, <1>3, <1>4, PagesAssumption DEF TypeOK, server, address, selection
  <1> QED  BY <1>3, <1>5 DEF PagesInv

LEMMA NavigateKeeps ==
    ASSUME TypeOK, Fitting, CardTypeOK',
           NEW r \in Routes, NEW f \in BOOLEAN, NEW p \in PageNumbers,
           NEW a \in Applications \cup {None}, Navigate(r, f, p, a)
    PROVE  PagesInv'
  <1>1. /\ moves < MaxMoves /\ moves' = moves + 1
        /\ r \in RouteOf(a) /\ Mount(r, f, p, a, act) /\ UNCHANGED server
    BY DEF Navigate, Move
  <1>2. moves' \in 0..MaxMoves
    BY <1>1, PagesAssumption DEF TypeOK
  <1>3. r = "detail" => a # None
    BY <1>1 DEF RouteOf
  <1>4. act \in [Acts -> ActState] /\ \A b \in Acts : ActFits(act[b])
    BY DEF TypeOK, Fitting
  <1> QED  BY <1>1, <1>2, <1>3, <1>4, MountedPage

\* The selection mode.
LEMMA SelectsKeeps ==
    ASSUME TypeOK, Fitting, Fresh, Selects,
           selecting' \in BOOLEAN, all' \in BOOLEAN, checked' \subseteq Applications
    PROVE  PagesInv'
  <1>1. UNCHANGED <<workspace, cardVars, server, address, load, act, screen, deleting, missed,
                    moves>>
    BY DEF Selects
  <1>2. Asked' = Asked
    BY <1>1 DEF Asked, address
  <1>3. Fitting' /\ Fresh'
    BY <1>1, <1>2, QuietLemma DEF server, screen
  <1>4. CardTypeOK'
    BY <1>1 DEF TypeOK, CardTypeOK, cardVars, query
  <1>5. TypeOK'
    BY <1>1, <1>4 DEF TypeOK, server, address, screen
  <1> QED  BY <1>3, <1>5 DEF PagesInv

LEMMA SelectionKeeps ==
    ASSUME TypeOK, Fitting, Fresh,
           \/ EnterSelection \/ LeaveSelection \/ ToggleSelectAll
           \/ \E a \in Applications : ToggleApplication(a)
    PROVE  PagesInv'
  <1>1. CASE EnterSelection
    BY <1>1, SelectsKeeps DEF EnterSelection, TypeOK
  <1>2. CASE LeaveSelection
    BY <1>2, SelectsKeeps DEF LeaveSelection, TypeOK
  <1>3. CASE ToggleSelectAll
    <2>1. shown # None
      BY <1>3 DEF ToggleSelectAll, OnDeleted
    <2>2. shown.answer \in Answer
      BY <2>1 DEF TypeOK
    <2>3. shown.answer.rows \subseteq Applications
      BY <2>2 DEF Answer
    <2> QED  BY <1>3, <2>3, SelectsKeeps DEF ToggleSelectAll, TypeOK
  <1>4. ASSUME NEW a \in Applications, ToggleApplication(a) PROVE PagesInv'
    BY <1>4, SelectsKeeps DEF ToggleApplication, TypeOK
  <1> QED  BY <1>1, <1>2, <1>3, <1>4

\* The card's own steps.
LEMMA OnCardKeeps ==
    ASSUME TypeOK, Fitting, Fresh, CardTypeOK', OnCard
    PROVE  PagesInv'
  <1>1. UNCHANGED <<workspace, server, address, load, act, screen, selection, missed>>
    BY DEF OnCard, pageVars, Debounce, AskStep, ServeTeam, TakeRows, TakeTeamFailure,
           UserStep, TypeSearch, SortBy, TurnTeamPage, RetryTeam
  <1>2. moves' \in 0..MaxMoves
    BY PagesAssumption DEF OnCard, pageVars, Move, TypeOK
  <1>3. Asked' = Asked
    BY <1>1 DEF Asked, address
  <1>4. Fitting' /\ Fresh'
    BY <1>1, <1>3, QuietLemma DEF server, screen
  <1>5. TypeOK'
    BY <1>1, <1>2 DEF TypeOK, server, address, screen, selection
  <1> QED  BY <1>4, <1>5 DEF PagesInv

\* A load is answered as the server stands.
LEMMA ServeLoadKeeps ==
    ASSUME TypeOK, Fitting, Fresh, NEW l \in Loads, ServeLoad(l)
    PROVE  PagesInv'
  <1> DEFINE q == load[l].question
  <1>1. /\ load[l].step = "asked"
        /\ UNCHANGED <<workspace, cardVars, server, address, act, screen, selection, missed,
                       moves>>
    BY DEF ServeLoad
  <1>2. load[l] \in PageLoading /\ LoadFits(load[l]) /\ load[l] # NoLoad
    <2>1. load[l] # NoLoad
      BY <1>1 DEF NoLoad
    <2> QED  BY <2>1, LoadCases DEF TypeOK, Fitting
  <1>3. /\ q \in PageQuestion /\ q.route = route /\ q.app = app
        /\ q.route = "detail" => q.app \in Applications
    BY <1>2, LoadFields DEF LoadFits, Fitting, Address, TypeOK
  <1>4. AnswerOf(q) \in Answer /\ Bare(q, AnswerOf(q))
    BY <1>3, AnswerOfType DEF TypeOK
  <1>5. PICK o : /\ load' = [load EXCEPT ![l] = o]
                 /\ o \in PageLoading /\ o.question = q /\ o.latest = load[l].latest
                 /\ o.byAct = load[l].byAct
                 /\ o.step = "served" => o.answer = AnswerOf(q)
                 /\ o.step \in {"served", "failed"}
    <2>1. CASE load' = [load EXCEPT ![l].step = "served", ![l].answer = AnswerOf(q)]
      <3> DEFINE o == [load[l] EXCEPT !.step = "served", !.answer = AnswerOf(q)]
      <3>1. load' = [load EXCEPT ![l] = o]
        BY <2>1
      <3>2. /\ o \in PageLoading /\ o.question = q /\ o.latest = load[l].latest
            /\ o.byAct = load[l].byAct /\ o.answer = AnswerOf(q) /\ o.step = "served"
        BY <1>2, <1>4 DEF PageLoading
      <3> HIDE DEF o
      <3> QED  BY <3>1, <3>2
    <2>2. CASE load' = [load EXCEPT ![l].step = "failed"]
      <3> DEFINE o == [load[l] EXCEPT !.step = "failed"]
      <3>1. load' = [load EXCEPT ![l] = o]
        BY <2>2
      <3>2. /\ o \in PageLoading /\ o.question = q /\ o.latest = load[l].latest
            /\ o.byAct = load[l].byAct /\ o.step = "failed"
        BY <1>2 DEF PageLoading
      <3> HIDE DEF o
      <3> QED  BY <3>1, <3>2
    <2> QED  BY <2>1, <2>2 DEF ServeLoad
  <1>6. /\ load \in [Loads -> LoadState]
        /\ load'[l] = o /\ \A k \in Loads \ {l} : load'[k] = load[k]
        /\ load' \in [Loads -> LoadState]
    BY <1>5, LoadStates DEF TypeOK
  <1>7. /\ Asked' = Asked /\ route' = route /\ app' = app /\ place' = place /\ goal' = goal
        /\ act' = act /\ shown' = shown /\ loading' = loading /\ failed' = failed
        /\ missed' = missed
    BY <1>1 DEF Asked, address, server, screen
  <1>8. CardTypeOK'
    BY <1>1 DEF TypeOK, CardTypeOK, cardVars, query
  <1>9. TypeOK'
    BY <1>1, <1>6, <1>8 DEF TypeOK, server, address, screen, selection
  <1>10. ASSUME NEW k \in Loads PROVE LoadFits(load[k])'
    <2>1. CASE k = l
      BY <1>2, <1>3, <1>4, <1>5, <1>6, <1>7, <2>1 DEF LoadFits
    <2>2. CASE k # l
      <3>1. load'[k] = load[k] /\ LoadFits(load[k])
        BY <1>6, <2>2 DEF Fitting
      <3> QED  BY <1>7, <3>1 DEF LoadFits, Bare
    <2> QED  BY <2>1, <2>2
  <1>11. Fitting'
    BY <1>7, <1>10 DEF Fitting, ActFits, Address, Bare
  <1>12. SUFFICES ASSUME ~missed PROVE Fresh'
    BY <1>9, <1>11, <1>7 DEF PagesInv, Fresh
  <1>13. GoalsKept'
    BY <1>7, <1>12 DEF Fresh, GoalsKept
  <1>14. CASE \E b \in Acts : WillReload(act[b])
    BY <1>7, <1>13, <1>14 DEF Fresh, WillReload
  <1>15. CASE LoadsFresh /\ ShownFresh
    <2>1. LoadsFresh'
      <3> SUFFICES ASSUME NEW k \in Loads, load'[k].step = "served", load'[k].latest
                   PROVE  (load[k].answer = AnswerOf(load[k].question))'
        BY DEF LoadsFresh
      <3>1. load'[k].question = load[k].question
        BY <1>5, <1>6
      <3>2. load'[k].answer = AnswerOf(load[k].question)
        <4>1. CASE k = l
          BY <1>5, <1>6, <4>1
        <4>2. CASE k # l
          BY <1>6, <1>15, <4>2 DEF LoadsFresh
        <4> QED  BY <4>1, <4>2
      <3> QED  BY <1>7, <3>1, <3>2, SameAnswers
    <2>2. Overtaken' => Overtaken
      <3> SUFFICES ASSUME Overtaken', NEW k \in Loads, load[k] # NoLoad PROVE ~load[k].latest
        BY DEF Overtaken
      <3>1. CASE k = l
        <4>1. o # NoLoad
          BY <1>5, LoadFields
        <4> QED  BY <1>5, <1>6, <3>1, <4>1 DEF Overtaken
      <3>2. CASE k # l
        BY <1>6, <3>2 DEF Overtaken
      <3> QED  BY <3>1, <3>2
    <2>3. ShownFresh'
      BY <1>7, <1>15, <2>2, SameAnswer DEF ShownFresh, Visible, GoalServed
    <2> QED  BY <1>13, <2>1, <2>3 DEF Fresh
  <1> QED  BY <1>12, <1>14, <1>15 DEF Fresh

\* A load that is over leaves its slot.
LEMMA TakenLemma ==
    ASSUME TypeOK, Fitting, NEW l \in Loads, load' = [load EXCEPT ![l] = NoLoad],
           UNCHANGED <<workspace, address, act>>
    PROVE  /\ load' \in [Loads -> LoadState]
           /\ \A k \in Loads \ {l} : load'[k] = load[k]
           /\ load'[l] = NoLoad
           /\ Address' /\ \A k \in Loads : LoadFits(load[k])'
           /\ \A b \in Acts : ActFits(act[b])'
  <1>1. /\ Asked' = Asked /\ route' = route /\ app' = app
    BY DEF Asked, address
  <1>2. /\ load \in [Loads -> LoadState]
        /\ \A k \in Loads \ {l} : load'[k] = load[k]
        /\ load'[l] = NoLoad
        /\ load' \in [Loads -> LoadState]
    BY LoadStates DEF TypeOK
  <1>3. ASSUME NEW k \in Loads PROVE LoadFits(load[k])'
    <2>1. CASE k = l
      BY <1>2, <2>1 DEF LoadFits
    <2>2. CASE k # l
      <3>1. load'[k] = load[k] /\ LoadFits(load[k])
        BY <1>2, <2>2 DEF Fitting
      <3> QED  BY <1>1, <3>1 DEF LoadFits, Bare
    <2> QED  BY <2>1, <2>2
  <1> QED  BY <1>1, <1>2, <1>3 DEF Fitting, ActFits, Address

LEMMA TakeAnswerKeeps ==
    ASSUME TypeOK, Fitting, Fresh, CardTypeOK', NEW l \in Loads, TakeAnswer(l)
    PROVE  PagesInv'
  <1> DEFINE q == load[l].question
             new == [question |-> q, answer |-> load[l].answer,
                     latest |-> load[l].latest, byAct |-> load[l].byAct]
  <1>1. /\ load[l].step = "served"
        /\ shown' = new
        /\ failed' = (failed /\ ForgetsAtOnce(route))
        /\ loading' = FALSE
        /\ deleting' = Freed(l)
        /\ load' = [load EXCEPT ![l] = NoLoad]
        /\ UNCHANGED <<workspace, server, address, act, selecting, checked, all, missed, moves>>
    BY DEF TakeAnswer, CardFollows
  <1>2. load[l] \in PageLoading /\ LoadFits(load[l]) /\ load[l] # NoLoad
    <2>1. load[l] # NoLoad
      BY <1>1 DEF NoLoad
    <2> QED  BY <2>1, LoadCases DEF TypeOK, Fitting
  <1>3. /\ q \in PageQuestion /\ q.route = route /\ load[l].answer \in Answer
        /\ Bare(q, load[l].answer) /\ load[l].latest \in BOOLEAN /\ load[l].byAct \in BOOLEAN
        /\ load[l].frees \in BOOLEAN
    BY <1>1, <1>2, LoadFields DEF LoadFits
  <1>4. /\ shown'.question = q /\ shown'.answer = load[l].answer
        /\ shown'.latest = load[l].latest /\ shown'.byAct = load[l].byAct
        /\ shown' \in [question : PageQuestion, answer : Answer, latest : BOOLEAN,
                       byAct : BOOLEAN]
    BY <1>1, <1>3
  <1> HIDE DEF new
  <1>5. /\ load' \in [Loads -> LoadState]
        /\ \A k \in Loads \ {l} : load'[k] = load[k]
        /\ load'[l] = NoLoad
        /\ Address' /\ \A k \in Loads : LoadFits(load[k])'
        /\ \A b \in Acts : ActFits(act[b])'
    BY <1>1, TakenLemma
  <1>6. /\ Asked' = Asked /\ route' = route /\ place' = place /\ goal' = goal /\ act' = act
    BY <1>1 DEF Asked, address, server
  <1>7. TypeOK'
    BY <1>1, <1>3, <1>4, <1>5 DEF TypeOK, address, server, Freed, ForgetsAtOnce
  <1>8. Fitting'
    BY <1>3, <1>4, <1>5, <1>6 DEF Fitting, Bare
  <1>9. SUFFICES ASSUME ~missed PROVE Fresh'
    BY <1>1, <1>7, <1>8 DEF PagesInv, Fresh
  <1>10. GoalsKept'
    BY <1>6, <1>9 DEF Fresh, GoalsKept
  <1>11. CASE \E b \in Acts : WillReload(act[b])
    BY <1>6, <1>10, <1>11 DEF Fresh, WillReload
  <1>12. CASE LoadsFresh /\ ShownFresh
    <2>1. LoadsFresh'
      <3> SUFFICES ASSUME NEW k \in Loads, load'[k].step = "served", load'[k].latest
                   PROVE  (load[k].answer = AnswerOf(load[k].question))'
        BY DEF LoadsFresh
      <3>1. k # l
        BY <1>5 DEF NoLoad
      <3>2. load'[k] = load[k]
        BY <1>5, <3>1
      <3> QED  BY <1>6, <1>12, <3>2, SameAnswers DEF LoadsFresh
    <2>2. ShownFresh'
      <3> SUFFICES ASSUME shown'.latest, shown'.byAct => shown'.question = Asked
                   PROVE  shown'.answer = AnswerOf(Asked)
        BY <1>6, SameAnswer DEF ShownFresh
      <3>1. q = Asked
        BY <1>2, <1>4 DEF LoadFits
      <3>2. load[l].answer = AnswerOf(q)
        BY <1>1, <1>4, <1>12 DEF LoadsFresh
      <3> QED  BY <1>4, <3>1, <3>2
    <2> QED  BY <1>10, <2>1, <2>2 DEF Fresh
  <1> QED  BY <1>9, <1>11, <1>12 DEF Fresh

LEMMA TakeFailureKeeps ==
    ASSUME TypeOK, Fitting, Fresh, CardTypeOK', NEW l \in Loads, TakeFailure(l)
    PROVE  PagesInv'
  <1>1. /\ load[l].step = "failed"
        /\ failed' = TRUE /\ loading' = FALSE
        /\ deleting' = Freed(l)
        /\ load' = [load EXCEPT ![l] = NoLoad]
        /\ UNCHANGED <<workspace, server, address, act, shown, selecting, checked, all, missed,
                       moves>>
    BY DEF TakeFailure, CardFollows
  <1>2. load[l] \in PageLoading
    <2>1. load[l] # NoLoad
      BY <1>1 DEF NoLoad
    <2> QED  BY <2>1, LoadCases DEF TypeOK
  <1>3. load[l].frees \in BOOLEAN
    BY <1>2, LoadFields
  <1>4. /\ load' \in [Loads -> LoadState]
        /\ \A k \in Loads \ {l} : load'[k] = load[k]
        /\ load'[l] = NoLoad
        /\ Address' /\ \A k \in Loads : LoadFits(load[k])'
        /\ \A b \in Acts : ActFits(act[b])'
    BY <1>1, TakenLemma
  <1>5. /\ Asked' = Asked /\ route' = route /\ place' = place /\ goal' = goal /\ act' = act
    BY <1>1 DEF Asked, address, server
  <1>6. TypeOK'
    BY <1>1, <1>3, <1>4 DEF TypeOK, address, server, Freed
  <1>7. Fitting'
    BY <1>1, <1>4, <1>5 DEF Fitting, Bare
  <1>8. SUFFICES ASSUME ~missed PROVE Fresh'
    BY <1>1, <1>6, <1>7 DEF PagesInv, Fresh
  <1>9. GoalsKept'
    BY <1>5, <1>8 DEF Fresh, GoalsKept
  <1>10. CASE \E b \in Acts : WillReload(act[b])
    BY <1>5, <1>9, <1>10 DEF Fresh, WillReload
  <1>11. CASE LoadsFresh /\ ShownFresh
    <2>1. LoadsFresh'
      <3> SUFFICES ASSUME NEW k \in Loads, load'[k].step = "served", load'[k].latest
                   PROVE  (load[k].answer = AnswerOf(load[k].question))'
        BY DEF LoadsFresh
      <3>1. k # l
        BY <1>4 DEF NoLoad
      <3>2. load'[k] = load[k]
        BY <1>4, <3>1
      <3> QED  BY <1>5, <1>11, <3>2, SameAnswers DEF LoadsFresh
    <2>2. ShownFresh'
      BY <1>1 DEF ShownFresh, Visible
    <2> QED  BY <1>9, <2>1, <2>2 DEF Fresh
  <1> QED  BY <1>8, <1>10, <1>11 DEF Fresh

\* An act begins with the question of the moment.
LEMMA SendKeeps ==
    ASSUME TypeOK, Fitting, Fresh, NEW b \in Acts,
           NEW kind \in {"trash", "restore", "erase", "goal"},
           NEW ids \in SUBSET Applications, NEW everything \in BOOLEAN,
           NEW g \in Goals \cup {None},
           Send(b, kind, ids, everything, g),
           kind = "goal" => route = "dashboard", kind = "erase" => route = "deleted",
           selecting' \in BOOLEAN, all' \in BOOLEAN, checked' \subseteq Applications,
           deleting' \in BOOLEAN
    PROVE  PagesInv'
  <1> DEFINE new == [step |-> "sent", kind |-> kind, question |-> Asked, ids |-> ids,
                     all |-> everything, goal |-> g, here |-> TRUE]
  <1>1. /\ act[b] = NoAct /\ act' = [act EXCEPT ![b] = new]
        /\ moves < MaxMoves /\ moves' = moves + 1
        /\ UNCHANGED <<workspace, cardVars, server, address, load, screen, missed>>
    BY DEF Send, Move
  <1>2. Asked' = Asked /\ Asked \in PageQuestion
    BY <1>1, AskedIsPageQuestion DEF Asked, address
  <1>3. /\ new \in PageActing /\ new.step = "sent" /\ new.kind = kind /\ new.question = Asked
    BY <1>2 DEF PageActing
  <1> HIDE DEF new
  <1>4. /\ act \in [Acts -> ActState] /\ act' \in [Acts -> ActState]
        /\ act'[b] = new /\ \A c \in Acts \ {b} : act'[c] = act[c]
    BY <1>1, <1>3, ActStates DEF TypeOK
  <1>5. ActFits(new) /\ Idles(new) /\ Idles(act[b])
    BY <1>1, <1>3, AskedFields, NoActIdle DEF ActFits, Idles, GoalServed, WillReload
  <1>6. \A c \in Acts : \/ act'[c] = act[c]
                        \/ Idles(act[c]) /\ Idles(act'[c]) /\ ActFits(act'[c])
    BY <1>4, <1>5
  <1>7. Fitting' /\ Fresh'
    BY <1>1, <1>2, <1>6, QuietLemma DEF server, screen
  <1>8. CardTypeOK'
    BY <1>1 DEF TypeOK, CardTypeOK, cardVars, query
  <1>9. TypeOK'
    BY <1>1, <1>4, <1>8, PagesAssumption DEF TypeOK, server, address, screen
  <1> QED  BY <1>7, <1>9 DEF PagesInv

LEMMA SendsKeep ==
    ASSUME TypeOK, Fitting, Fresh, NEW b \in Acts,
           \/ \E a \in Applications : Delete(b, a) \/ Restore(b, a)
           \/ PermanentlyDelete(b)
           \/ \E g \in Goals : SetGoal(b, g)
    PROVE  PagesInv'
  <1>1. ASSUME NEW a \in Applications, Delete(b, a) PROVE PagesInv'
    BY <1>1, SendKeeps DEF Delete, selection, TypeOK
  <1>2. ASSUME NEW a \in Applications, Restore(b, a) PROVE PagesInv'
    BY <1>2, SendKeeps DEF Restore, selection, TypeOK
  <1>3. CASE PermanentlyDelete(b)
    <2>1. /\ (IF all THEN {} ELSE checked) \in SUBSET Applications /\ all \in BOOLEAN
          /\ selecting' = selecting /\ checked' = checked /\ all' = all /\ deleting' = TRUE
          /\ route = "deleted"
      BY <1>3 DEF PermanentlyDelete, OnDeleted, TypeOK
    <2>2. Send(b, "erase", IF all THEN {} ELSE checked, all, None)
      BY <1>3 DEF PermanentlyDelete
    <2> QED  BY <2>1, <2>2, SendKeeps DEF TypeOK
  <1>4. ASSUME NEW g \in Goals, SetGoal(b, g) PROVE PagesInv'
    BY <1>4, SendKeeps DEF SetGoal, selection, TypeOK
  <1> QED  BY <1>1, <1>2, <1>3, <1>4

\* What an act does on the server.
LEMMA AppliedTypes ==
    ASSUME TypeOK, NEW b \in Acts, act[b] \in PageActing,
           place' = IF act[b].kind = "goal" THEN place
                    ELSE Moved(Erases(act[b].question, act[b].ids, act[b].all),
                               To(act[b].kind)),
           goal' = IF act[b].kind = "goal"
                   THEN [goal EXCEPT ![act[b].question.workspace] = act[b].goal]
                   ELSE goal
    PROVE  /\ place' \in [Applications -> {"live", "trash", "gone"}]
           /\ goal' \in [Workspaces -> Goals \cup {None}]
  <1>1. /\ act[b].goal \in Goals \cup {None} /\ act[b].question \in PageQuestion
    BY ActFields
  <1>2. act[b].question.workspace \in Workspaces
    BY <1>1 DEF PageQuestion
  <1> QED  BY <1>1, <1>2 DEF TypeOK, Moved, To

LEMMA ServeActKeeps ==
    ASSUME TypeOK, Fitting, Fresh, NEW b \in Acts, ServeAct(b)
    PROVE  PagesInv'
  <1> DEFINE q == act[b].question
             applied ==
                 /\ MayServe(b)
                 /\ place' = IF act[b].kind = "goal" THEN place
                             ELSE Moved(Erases(q, act[b].ids, act[b].all), To(act[b].kind))
                 /\ goal' = IF act[b].kind = "goal"
                            THEN [goal EXCEPT ![q.workspace] = act[b].goal] ELSE goal
  <1>1. /\ act[b].step = "sent"
        /\ UNCHANGED <<workspace, cardVars, address, load, screen, selection, moves>>
    BY DEF ServeAct
  <1>2. act[b] \in PageActing /\ ActFits(act[b])
    <2>1. act[b] # NoAct
      BY <1>1 DEF NoAct
    <2> QED  BY <2>1, ActCases DEF TypeOK, Fitting
  <1>3. PICK s \in {"served", "failed"} :
            /\ act' = [act EXCEPT ![b].step = s]
            /\ \/ /\ s = "served" /\ applied
                  /\ missed' = (missed \/ q # Asked \/ ~act[b].here \/ Crosses(b))
               \/ s = "failed" /\ applied /\ missed' = TRUE
               \/ s = "failed" /\ UNCHANGED <<place, goal, missed>>
    BY DEF ServeAct
  <1> HIDE DEF applied
  <1>4. place' \in [Applications -> {"live", "trash", "gone"}]
        /\ goal' \in [Workspaces -> Goals \cup {None}]
        /\ missed' \in BOOLEAN
    <2>1. CASE applied
      BY <1>2, <1>3, <2>1, AppliedTypes DEF applied, TypeOK
    <2>2. CASE UNCHANGED <<place, goal, missed>>
      BY <2>2 DEF TypeOK
    <2> QED  BY <1>3, <2>1, <2>2
  <1> DEFINE o == [act[b] EXCEPT !.step = s]
  <1>5. /\ act \in [Acts -> ActState] /\ act' \in [Acts -> ActState]
        /\ act'[b] = o /\ \A c \in Acts \ {b} : act'[c] = act[c]
        /\ o \in PageActing /\ o.step = s
        /\ o.here = act[b].here /\ o.kind = act[b].kind /\ o.goal = act[b].goal
        /\ o.question = q
    <2>1. /\ o \in PageActing /\ o.step = s
          /\ o.here = act[b].here /\ o.kind = act[b].kind /\ o.goal = act[b].goal
          /\ o.question = q
      BY <1>2 DEF PageActing
    <2>2. act' = [act EXCEPT ![b] = o]
      BY <1>3
    <2> HIDE DEF o
    <2> QED  BY <2>1, <2>2, ActStates DEF TypeOK
  <1> HIDE DEF o
  <1>6. /\ Asked' = Asked /\ route' = route /\ app' = app /\ load' = load /\ shown' = shown
        /\ loading' = loading /\ failed' = failed
    BY <1>1 DEF Asked, address, screen
  <1>7. CardTypeOK'
    BY <1>1 DEF TypeOK, CardTypeOK, cardVars, query
  <1>8. TypeOK'
    BY <1>1, <1>4, <1>5, <1>7 DEF TypeOK, address, screen, selection
  <1>9. ActFits(o) /\ act[b] # NoAct
    BY <1>2, <1>5, ActFields DEF ActFits
  <1>10. ASSUME NEW c \in Acts PROVE ActFits(act[c])'
    <2>1. ActFits(act'[c])
      BY <1>5, <1>9 DEF Fitting
    <2> QED  BY <1>6, <2>1 DEF ActFits
  <1>11. Fitting'
    BY <1>6, <1>10 DEF Fitting, LoadFits, Address, Bare
  <1>12. CASE s = "failed" /\ UNCHANGED <<place, goal, missed>>
    <2>1. Idles(act[b]) /\ Idles(o)
      BY <1>1, <1>5, <1>12 DEF Idles, GoalServed, WillReload
    <2>2. \A c \in Acts : \/ act'[c] = act[c]
                          \/ Idles(act[c]) /\ Idles(act'[c]) /\ ActFits(act'[c])
      BY <1>5, <1>9, <2>1
    <2> QED  BY <1>6, <1>8, <1>12, <2>2, QuietLemma DEF PagesInv
  <1>13. CASE missed' = TRUE
    BY <1>8, <1>11, <1>13 DEF PagesInv, Fresh
  <1>14. CASE /\ s = "served" /\ applied
              /\ missed' = (missed \/ q # Asked \/ ~act[b].here \/ Crosses(b))
              /\ missed' # TRUE
    <2>1. /\ ~missed /\ q = Asked /\ act[b].here /\ ~Crosses(b) /\ o.step = "served"
      BY <1>4, <1>5, <1>14 DEF TypeOK
    <2>2. GoalsKept
      BY <2>1 DEF Fresh
    <2>3. CASE act[b].kind # "goal"
      <3>1. goal' = goal
        BY <1>14, <2>3 DEF applied
      <3>2. WillReload(act[b])'
        BY <1>5, <1>6, <2>1, <2>3 DEF WillReload
      <3>3. GoalsKept'
        <4> SUFFICES ASSUME NEW c \in Acts, GoalServed(act'[c])
                     PROVE  goal'[act'[c].question.workspace] = act'[c].goal
          BY DEF GoalsKept, GoalServed
        <4>1. c # b
          BY <1>5, <2>3 DEF GoalServed
        <4> QED  BY <1>5, <2>2, <3>1, <4>1 DEF GoalsKept
      <3> QED  BY <1>8, <1>11, <3>2, <3>3 DEF PagesInv, Fresh
    <2>4. CASE act[b].kind = "goal"
      <3>1. goal' = [goal EXCEPT ![q.workspace] = act[b].goal]
        BY <1>14, <2>4 DEF applied
      <3>2. q.workspace \in Workspaces /\ DOMAIN goal = Workspaces
        BY <1>2, ActFields DEF PageQuestion, TypeOK
      <3>3. GoalServed(act'[b])
        BY <1>5, <2>1, <2>4 DEF GoalServed
      <3>4. GoalsKept'
        <4> SUFFICES ASSUME NEW c \in Acts, GoalServed(act'[c])
                     PROVE  goal'[act'[c].question.workspace] = act'[c].goal
          BY DEF GoalsKept, GoalServed
        <4>1. CASE c = b
          BY <1>5, <3>1, <3>2, <4>1
        <4>2. CASE c # b
          <5>1. act'[c] = act[c] /\ GoalServed(act[c])
            BY <1>5, <4>2
          <5>2. act[c].question.workspace # q.workspace
            BY <2>1, <2>4, <4>2, <5>1 DEF Crosses, GoalServed
          <5>3. goal[act[c].question.workspace] = act[c].goal
            BY <2>2, <5>1 DEF GoalsKept
          <5>4. act[c].question.workspace \in Workspaces
            <6>1. act[c] # NoAct
              BY <5>1, NoActIdle
            <6>2. act[c] \in PageActing
              BY <1>5, <6>1, ActCases
            <6> QED  BY <6>2, ActFields DEF PageQuestion
          <5> QED  BY <3>1, <3>2, <5>1, <5>2, <5>3, <5>4
        <4> QED  BY <4>1, <4>2
      <3>5. LoadsFresh'
        BY <1>6, <2>1, <2>4 DEF LoadsFresh, Crosses
      <3>6. ShownFresh'
        BY <3>3 DEF ShownFresh, GoalServed
      <3> QED  BY <1>8, <1>11, <3>4, <3>5, <3>6 DEF PagesInv, Fresh
    <2> QED  BY <2>3, <2>4
  <1> QED  BY <1>3, <1>12, <1>13, <1>14

\* An act that has ended leaves its slot.
LEMMA FinishedLemma ==
    ASSUME TypeOK, NEW b \in Acts, act[b] # NoAct
    PROVE  /\ Finished(b) \in [Acts -> ActState]
           /\ Finished(b)[b] = NoAct /\ \A c \in Acts \ {b} : Finished(b)[c] = act[c]
           /\ act[b] \in PageActing
  BY ActStates, ActCases DEF TypeOK, Finished

LEMMA FailActKeeps ==
    ASSUME TypeOK, Fitting, Fresh, NEW b \in Acts, FailAct(b)
    PROVE  PagesInv'
  <1>1. /\ act[b].step = "failed" /\ act' = Finished(b)
        /\ deleting' = (deleting /\ ~(act[b].kind = "erase" /\ act[b].here))
        /\ UNCHANGED <<workspace, cardVars, server, address, load, screen, selecting, checked,
                       all, missed, moves>>
    BY DEF FailAct
  <1>2. /\ act' \in [Acts -> ActState]
        /\ act'[b] = NoAct /\ \A c \in Acts \ {b} : act'[c] = act[c]
    BY <1>1, FinishedLemma DEF NoAct
  <1>3. Idles(act[b])
    BY <1>1 DEF Idles, GoalServed, WillReload
  <1>4. Asked' = Asked
    BY <1>1 DEF Asked, address
  <1>5. \A c \in Acts : \/ act'[c] = act[c]
                        \/ Idles(act[c]) /\ Idles(act'[c]) /\ ActFits(act'[c])
    BY <1>2, <1>3, NoActIdle DEF Idles
  <1>6. Fitting' /\ Fresh'
    BY <1>1, <1>4, <1>5, QuietLemma DEF server, screen
  <1>7. CardTypeOK'
    BY <1>1 DEF TypeOK, CardTypeOK, cardVars, query
  <1>8. TypeOK'
    BY <1>1, <1>2, <1>7 DEF TypeOK, server, address, screen
  <1> QED  BY <1>6, <1>8 DEF PagesInv

LEMMA FinishMoveKeeps ==
    ASSUME TypeOK, Fitting, Fresh, NEW b \in Acts, FinishMove(b)
    PROVE  PagesInv'
  <1>1. /\ act[b].step = "served" /\ act[b].kind \in {"trash", "restore"}
        /\ act' = Finished(b)
        /\ UNCHANGED <<workspace, cardVars, server, address, shown, selection, missed, moves>>
    BY DEF FinishMove
  <1>2. /\ act' \in [Acts -> ActState] /\ act[b] \in PageActing /\ act[b] # NoAct
        /\ act'[b] = NoAct /\ \A c \in Acts \ {b} : act'[c] = act[c]
    BY <1>1, FinishedLemma DEF NoAct
  <1>3. ActFits(act[b]) /\ act[b].question \in PageQuestion
    BY <1>2, ActFields DEF Fitting
  <1>4. /\ Asked' = Asked /\ route' = route /\ app' = app /\ shown' = shown /\ goal' = goal
        /\ place' = place /\ missed' = missed
    BY <1>1 DEF Asked, address, server
  <1>5. /\ load' \in [Loads -> LoadState] /\ loading' \in BOOLEAN /\ failed' \in BOOLEAN
        /\ Fitting' /\ Fresh'
    <2>1. CASE Reloads(b)
      <3>1. Begin(load, act[b].question, TRUE, FALSE)
        BY <2>1 DEF FinishMove
      <3>2. act[b].question.route = route /\ act[b].question.app = app
        BY <1>2, <1>3, <2>1 DEF ActFits, Reloads
      <3>3. \A c \in Acts : act'[c] = act[c] \/ act'[c] = NoAct
        BY <1>2
      <3> QED  BY <1>3, <1>4, <3>1, <3>2, <3>3, BeginLemma
    <2>2. CASE ~Reloads(b)
      <3>1. UNCHANGED <<load, loading, failed>>
        BY <2>2 DEF FinishMove
      <3>2. Idles(act[b])
        BY <2>2 DEF Idles, GoalServed, WillReload, Reloads
      <3>3. \A c \in Acts : \/ act'[c] = act[c]
                            \/ Idles(act[c]) /\ Idles(act'[c]) /\ ActFits(act'[c])
        BY <1>2, <3>2, NoActIdle DEF Idles
      <3>4. Fitting' /\ Fresh'
        BY <1>4, <3>1, <3>3, QuietLemma
      <3> QED  BY <3>1, <3>4 DEF TypeOK
    <2> QED  BY <2>1, <2>2
  <1>6. CardTypeOK'
    BY <1>1 DEF TypeOK, CardTypeOK, cardVars, query
  <1>7. TypeOK'
    BY <1>1, <1>2, <1>5, <1>6 DEF TypeOK, server, address, selection
  <1> QED  BY <1>5, <1>7 DEF PagesInv

LEMMA FinishOnDetailKeeps ==
    ASSUME TypeOK, Fitting, Fresh, CardTypeOK', NEW b \in Acts, FinishOnDetail(b)
    PROVE  PagesInv'
  <1>1. /\ act[b].step = "served" /\ act[b].question.route = "detail"
        /\ UNCHANGED <<server, moves>>
    BY DEF FinishOnDetail
  <1>2. /\ Finished(b) \in [Acts -> ActState] /\ act[b] \in PageActing /\ act[b] # NoAct
        /\ Finished(b)[b] = NoAct /\ \A c \in Acts \ {b} : Finished(b)[c] = act[c]
    BY <1>1, FinishedLemma DEF NoAct
  <1>3. CASE Mount("list", FALSE, 1, None, Finished(b))
    <2>1. \A c \in Acts : ActFits(Finished(b)[c])
      BY <1>2, NoActIdle DEF Fitting
    <2>2. /\ 1 \in PageNumbers /\ moves' \in 0..MaxMoves /\ UNCHANGED server
          /\ None \in Applications \cup {None} /\ "list" \in Routes
      BY <1>1, PagesAssumption DEF TypeOK, Routes
    <2> QED  BY <1>2, <1>3, <2>1, <2>2, MountedPage
  <1>4. CASE /\ route = "list"
             /\ act' = Finished(b)
             /\ filtered' = FALSE /\ page' = 1
             /\ UNCHANGED <<workspace, cardVars, route, app, shown, selection, missed>>
             /\ \/ Ask
                \/ ~filtered /\ page = 1 /\ UNCHANGED <<load, loading, failed>>
    <2>1. Asked' \in PageQuestion
      BY <1>4, PagesAssumption DEF TypeOK, CardTypeOK, Asked, PageQuestion
    <2>2. place' = place /\ goal' = goal
      BY <1>1 DEF server
    <2>3. /\ load' \in [Loads -> LoadState] /\ loading' \in BOOLEAN /\ failed' \in BOOLEAN
          /\ Fitting' /\ Fresh'
      <3>1. CASE Ask
        <4>1. Begin(load, Asked', FALSE, FALSE)
          BY <3>1 DEF Ask
        <4>2. \A c \in Acts : act'[c] = act[c] \/ act'[c] = NoAct
          BY <1>2, <1>4
        <4> QED  BY <1>4, <2>1, <2>2, <4>1, <4>2, AskedFields, BeginLemma
      <3>2. CASE ~filtered /\ page = 1 /\ UNCHANGED <<load, loading, failed>>
        <4>1. Asked' = Asked
          BY <1>4, <3>2 DEF Asked, TypeOK
        <4>2. Idles(act[b])
          <5>1. ~act[b].here
            BY <1>1, <1>2, <1>4, ActFields DEF Fitting, ActFits
          <5> QED  BY <5>1 DEF Idles, GoalServed, WillReload
        <4>3. \A c \in Acts : \/ act'[c] = act[c]
                              \/ Idles(act[c]) /\ Idles(act'[c]) /\ ActFits(act'[c])
          BY <1>2, <1>4, <4>2, NoActIdle DEF Idles
        <4>4. Fitting' /\ Fresh'
          BY <1>4, <2>2, <3>2, <4>1, <4>3, QuietLemma
        <4> QED  BY <3>2, <4>4 DEF TypeOK
      <3> QED  BY <1>4, <3>1, <3>2
    <2>4. TypeOK'
      BY <1>1, <1>2, <1>4, <2>3, PagesAssumption DEF TypeOK, server, selection
    <2> QED  BY <2>3, <2>4 DEF PagesInv
  <1> QED  BY <1>3, <1>4 DEF FinishOnDetail

LEMMA FinishEraseKeeps ==
    ASSUME TypeOK, Fitting, Fresh, NEW b \in Acts, FinishErase(b)
    PROVE  PagesInv'
  <1>1. /\ act[b].step = "served" /\ act[b].kind = "erase"
        /\ act' = Finished(b)
        /\ UNCHANGED <<workspace, cardVars, server, route, filtered, app, shown, missed, moves>>
    BY DEF FinishErase
  <1>2. /\ act' \in [Acts -> ActState] /\ act[b] \in PageActing /\ act[b] # NoAct
        /\ act'[b] = NoAct /\ \A c \in Acts \ {b} : act'[c] = act[c]
    BY <1>1, FinishedLemma DEF NoAct
  <1>3. ActFits(act[b]) /\ act[b].question \in PageQuestion
    BY <1>2, ActFields DEF Fitting
  <1>4. place' = place /\ goal' = goal /\ ~GoalServed(act[b])
    BY <1>1 DEF server, GoalServed
  <1>5. \A c \in Acts : act'[c] = act[c] \/ act'[c] = NoAct
    BY <1>2
  <1>6. Idles(act[b]) => \A c \in Acts : \/ act'[c] = act[c]
                                         \/ Idles(act[c]) /\ Idles(act'[c]) /\ ActFits(act'[c])
    BY <1>2, NoActIdle DEF Idles
  <1>7. /\ load' \in [Loads -> LoadState] /\ loading' \in BOOLEAN /\ failed' \in BOOLEAN
        /\ page' \in PageNumbers
        /\ selecting' \in BOOLEAN /\ checked' \subseteq Applications /\ all' \in BOOLEAN
        /\ deleting' \in BOOLEAN
        /\ Fitting' /\ Fresh'
    <2>1. CASE ~act[b].here
      <3>1. UNCHANGED <<page, load, loading, failed, selection>>
        BY <1>1, <2>1 DEF FinishErase
      <3>2. Asked' = Asked
        BY <1>1, <3>1 DEF Asked
      <3>3. Idles(act[b])
        BY <2>1 DEF Idles, GoalServed, WillReload
      <3>4. Fitting' /\ Fresh'
        BY <1>1, <1>4, <1>6, <3>1, <3>2, <3>3, QuietLemma
      <3> QED  BY <3>1, <3>4 DEF TypeOK, selection
    <2>2. CASE act[b].here
      <3>1. selecting' = FALSE /\ checked' = {} /\ all' = FALSE
        BY <2>2 DEF FinishErase
      <3>2. CASE act[b].question.page # 1
        <4>1. page' = 1 /\ deleting' = FALSE
          BY <2>2, <3>2 DEF FinishErase
        <4>2. CASE page # 1
          <5>1. Begin(load, Asked', FALSE, FALSE)
            BY <2>2, <3>2, <4>2 DEF FinishErase, Ask
          <5>2. Asked' \in PageQuestion
            BY <1>1, <4>1, PagesAssumption DEF TypeOK, CardTypeOK, Asked, PageQuestion
          <5>3. /\ load' \in [Loads -> LoadState] /\ loading' \in BOOLEAN /\ failed' \in BOOLEAN
                /\ Fitting' /\ Fresh'
            BY <1>1, <1>4, <1>5, <5>1, <5>2, AskedFields, BeginLemma
          <5> QED  BY <3>1, <4>1, <5>3, PagesAssumption
        <4>3. CASE page = 1
          <5>1. UNCHANGED <<load, loading, failed>>
            BY <2>2, <3>2, <4>3 DEF FinishErase
          <5>2. Asked' = Asked /\ Asked.page = 1
            BY <1>1, <4>1, <4>3 DEF Asked
          <5>3. Idles(act[b])
            BY <1>4, <3>2, <5>2 DEF Idles, WillReload
          <5>4. Fitting' /\ Fresh'
            BY <1>1, <1>4, <1>6, <5>1, <5>2, <5>3, QuietLemma
          <5> QED  BY <3>1, <4>1, <5>1, <5>4, PagesAssumption DEF TypeOK
        <4> QED  BY <4>2, <4>3
      <3>3. CASE act[b].question.page = 1
        <4>1. Begin(load, act[b].question, TRUE, TRUE) /\ UNCHANGED <<page, deleting>>
          BY <2>2, <3>3 DEF FinishErase
        <4>2. act[b].question.route = route /\ act[b].question.app = app
          BY <1>2, <1>3, <2>2 DEF ActFits
        <4>3. /\ load' \in [Loads -> LoadState] /\ loading' \in BOOLEAN /\ failed' \in BOOLEAN
              /\ Fitting' /\ Fresh'
          BY <1>1, <1>3, <1>4, <1>5, <4>1, <4>2, BeginLemma
        <4> QED  BY <3>1, <4>1, <4>3 DEF TypeOK
      <3> QED  BY <3>2, <3>3
    <2> QED  BY <2>1, <2>2
  <1>8. CardTypeOK'
    BY <1>1 DEF TypeOK, CardTypeOK, cardVars, query
  <1>9. TypeOK'
    BY <1>1, <1>2, <1>7, <1>8 DEF TypeOK, server
  <1> QED  BY <1>7, <1>9 DEF PagesInv

\* The goal that the page puts in by itself is the server's, unless another one is on its
\* way to the page.
LEMMA FinishGoalKeeps ==
    ASSUME TypeOK, Fitting, Fresh, CardTypeOK', NEW b \in Acts, FinishGoal(b)
    PROVE  PagesInv'
  <1> DEFINE q == act[b].question
             new == [question |-> [shown.question EXCEPT !.workspace = q.workspace],
                     answer |-> [shown.answer EXCEPT !.goal = act[b].goal],
                     latest |-> shown.latest, byAct |-> TRUE]
  <1>1. /\ act[b].step = "served" /\ act[b].kind = "goal"
        /\ act' = Finished(b)
        /\ UNCHANGED <<workspace, server, address, load, loading, failed, selection, missed,
                       moves>>
    BY DEF FinishGoal
  <1>2. /\ act' \in [Acts -> ActState] /\ act[b] \in PageActing /\ act[b] # NoAct
        /\ act'[b] = NoAct /\ \A c \in Acts \ {b} : act'[c] = act[c]
    BY <1>1, FinishedLemma DEF NoAct
  <1>3. ActFits(act[b]) /\ q \in PageQuestion /\ act[b].goal \in Goals \cup {None}
    BY <1>2, ActFields DEF Fitting
  <1>4. q.workspace \in Workspaces
    BY <1>3 DEF PageQuestion
  <1>5. /\ Asked' = Asked /\ route' = route /\ app' = app /\ goal' = goal /\ place' = place
    BY <1>1 DEF Asked, address, server
  <1>6. CASE ~(act[b].here /\ shown # None)
    <2>1. shown' = shown
      BY <1>6 DEF FinishGoal
    <2>2. TypeOK'
      BY <1>1, <1>2, <2>1 DEF TypeOK, server, address, selection
    <2>3. CASE ~act[b].here
      <3>1. Idles(act[b])
        BY <2>3 DEF Idles, GoalServed, WillReload
      <3>2. \A c \in Acts : \/ act'[c] = act[c]
                            \/ Idles(act[c]) /\ Idles(act'[c]) /\ ActFits(act'[c])
        BY <1>2, <3>1, NoActIdle DEF Idles
      <3>3. Fitting' /\ Fresh'
        BY <1>1, <1>5, <2>1, <3>2, QuietLemma
      <3> QED  BY <2>2, <3>3 DEF PagesInv
    <2>4. CASE shown = None
      <3>1. \A c \in Acts : ActFits(act[c])'
        <4>1. \A c \in Acts : ActFits(act'[c])
          BY <1>2, NoActIdle DEF Fitting
        <4> QED  BY <1>5, <4>1 DEF ActFits
      <3>2. Fitting'
        BY <1>1, <1>5, <2>1, <2>4, <3>1 DEF Fitting, LoadFits, Address, Bare
      <3>3. SUFFICES ASSUME ~missed PROVE Fresh'
        BY <1>1, <2>2, <3>2 DEF PagesInv, Fresh
      <3>4. GoalsKept'
        BY <1>2, <1>5, <3>3, NoActIdle DEF Fresh, GoalsKept, GoalServed
      <3>5. ShownFresh'
        BY <2>1, <2>4 DEF ShownFresh, Visible
      <3>6. CASE \E c \in Acts : WillReload(act[c])
        <4>1. PICK c \in Acts : WillReload(act[c])
          BY <3>6
        <4>2. act'[c] = act[c]
          BY <1>1, <1>2, <4>1 DEF WillReload
        <4>3. WillReload(act[c])'
          BY <1>5, <4>1, <4>2 DEF WillReload
        <4> QED  BY <3>4, <4>3 DEF Fresh
      <3>7. CASE LoadsFresh
        <4>1. LoadsFresh'
          <5> SUFFICES ASSUME NEW l \in Loads, load'[l].step = "served", load'[l].latest
                       PROVE  (load[l].answer = AnswerOf(load[l].question))'
            BY DEF LoadsFresh
          <5> QED  BY <1>1, <1>5, <3>7, SameAnswers DEF LoadsFresh
        <4> QED  BY <3>4, <3>5, <4>1 DEF Fresh
      <3> QED  BY <3>3, <3>6, <3>7 DEF Fresh
    <2> QED  BY <1>6, <2>3, <2>4
  <1>7. CASE act[b].here /\ shown # None
    <2>1. shown' = new
      BY <1>7 DEF FinishGoal
    <2>2. /\ shown \in [question : PageQuestion, answer : Answer, latest : BOOLEAN,
                        byAct : BOOLEAN]
          /\ shown.question \in PageQuestion /\ shown.answer \in Answer
          /\ shown.question.route = route /\ Bare(shown.question, shown.answer)
          /\ route = "dashboard"
      BY <1>1, <1>2, <1>3, <1>7 DEF TypeOK, Fitting, ActFits
    <2>3. /\ new.question = [shown.question EXCEPT !.workspace = q.workspace]
          /\ new.answer = [shown.answer EXCEPT !.goal = act[b].goal]
          /\ new.latest = shown.latest /\ new.byAct = TRUE
          /\ new \in [question : PageQuestion, answer : Answer, latest : BOOLEAN,
                      byAct : BOOLEAN]
      <3>1. [shown.question EXCEPT !.workspace = q.workspace] \in PageQuestion
        BY <1>4, <2>2 DEF PageQuestion
      <3>2. [shown.answer EXCEPT !.goal = act[b].goal] \in Answer
        BY <1>3, <2>2 DEF Answer
      <3> QED  BY <2>2, <3>1, <3>2
    <2> HIDE DEF new
    <2>4. /\ shown'.question.route = "dashboard" /\ shown'.question.workspace = q.workspace
          /\ shown'.answer.goal = act[b].goal
          /\ shown'.answer.rows = {} /\ shown'.answer.total = 0
          /\ shown'.answer \in Answer
      <3>1. shown.answer.rows = {} /\ shown.answer.total = 0
        BY <2>2 DEF Bare
      <3>2. /\ [shown.question EXCEPT !.workspace = q.workspace].route = "dashboard"
            /\ [shown.question EXCEPT !.workspace = q.workspace].workspace = q.workspace
        BY <2>2 DEF PageQuestion
      <3>3. /\ [shown.answer EXCEPT !.goal = act[b].goal].goal = act[b].goal
            /\ [shown.answer EXCEPT !.goal = act[b].goal].rows = {}
            /\ [shown.answer EXCEPT !.goal = act[b].goal].total = 0
            /\ [shown.answer EXCEPT !.goal = act[b].goal] \in Answer
        BY <1>3, <2>2, <3>1 DEF Answer
      <3> QED  BY <2>1, <2>3, <3>2, <3>3
    <2>5. TypeOK'
      BY <1>1, <1>2, <2>1, <2>3 DEF TypeOK, server, address, selection
    <2>6. \A c \in Acts : ActFits(act[c])'
      <3>1. \A c \in Acts : ActFits(act'[c])
        BY <1>2, NoActIdle DEF Fitting
      <3> QED  BY <1>5, <3>1 DEF ActFits
    <2>7. Fitting'
      BY <1>1, <1>5, <2>2, <2>4, <2>6 DEF Fitting, LoadFits, Address, Bare
    <2>8. SUFFICES ASSUME ~missed PROVE Fresh'
      BY <1>1, <2>5, <2>7 DEF PagesInv, Fresh
    <2>9. GoalsKept /\ GoalsKept'
      BY <1>2, <1>5, <2>8, NoActIdle DEF Fresh, GoalsKept, GoalServed
    <2>10. ShownFresh'
      <3> SUFFICES ASSUME shown'.question = Asked PROVE shown'.answer = AnswerOf(Asked)
        BY <1>5, <2>1, <2>3, SameAnswer DEF ShownFresh
      <3>1. goal[q.workspace] = act[b].goal
        BY <1>1, <1>7, <2>9 DEF GoalsKept, GoalServed
      <3>2. AnswerOf(Asked) = [rows |-> {}, total |-> 0, goal |-> goal[q.workspace]]
        BY <2>4 DEF AnswerOf, Lists
      <3>3. shown'.answer = [rows |-> {}, total |-> 0, goal |-> act[b].goal]
        BY <2>4 DEF Answer
      <3> QED  BY <3>1, <3>2, <3>3
    <2>11. CASE \E c \in Acts : WillReload(act[c])
      <3>1. PICK c \in Acts : WillReload(act[c])
        BY <2>11
      <3>2. act'[c] = act[c]
        BY <1>1, <1>2, <3>1 DEF WillReload
      <3>3. WillReload(act[c])'
        BY <1>5, <3>1, <3>2 DEF WillReload
      <3> QED  BY <2>9, <3>3 DEF Fresh
    <2>12. CASE LoadsFresh
      <3>1. LoadsFresh'
        <4> SUFFICES ASSUME NEW l \in Loads, load'[l].step = "served", load'[l].latest
                     PROVE  (load[l].answer = AnswerOf(load[l].question))'
          BY DEF LoadsFresh
        <4> QED  BY <1>1, <1>5, <2>12, SameAnswers DEF LoadsFresh
      <3> QED  BY <2>9, <2>10, <3>1 DEF Fresh
    <2> QED  BY <2>8, <2>11, <2>12 DEF Fresh
  <1> QED  BY <1>6, <1>7

LEMMA PagesInvInit == Init => PagesInv
  <1> SUFFICES ASSUME Init PROVE PagesInv
    OBVIOUS
  <1>1. CardTypeOK
    BY CardInvInit DEF Init, CardInv
  <1>2. /\ app \in Applications \cup {None} /\ route \in RouteOf(app) /\ filtered = FALSE
        /\ page \in PageNumbers
    BY PagesAssumption DEF Init
  <1>3. route \in Routes /\ (route = "detail" => app # None)
    BY <1>2 DEF RouteOf, Routes
  <1>4. Asked \in PageQuestion
    BY <1>1, <1>2, <1>3 DEF CardTypeOK, Asked, PageQuestion
  <1> DEFINE new == LoadFor(Asked, FALSE, FALSE)
  <1>5. /\ new \in PageLoading /\ new # NoLoad /\ new.step = "asked"
        /\ new.question = Asked /\ new.byAct = FALSE
    BY <1>4, LoadForLemma
  <1>6. PICK l \in Loads : load = [k \in Loads |-> IF k = l THEN new ELSE NoLoad]
    BY DEF Init
  <1> HIDE DEF new
  <1>7. load \in [Loads -> LoadState]
    BY <1>5, <1>6, LoadStates
  <1>8. act \in [Acts -> ActState] /\ \A b \in Acts : act[b] = NoAct
    BY ActStates DEF Init
  <1>9. /\ shown = None /\ missed = FALSE /\ loading = TRUE
    BY DEF Init
  <1>10. TypeOK
    <2>1. /\ place \in [Applications -> {"live", "trash", "gone"}]
          /\ goal \in [Workspaces -> Goals \cup {None}]
      BY DEF Init
    <2>2. /\ failed \in BOOLEAN /\ selecting \in BOOLEAN /\ all \in BOOLEAN
          /\ deleting \in BOOLEAN /\ checked \subseteq Applications
      BY DEF Init
    <2>3. act \in [Acts -> ActState]
      BY <1>8
    <2>4. shown \in [question : PageQuestion, answer : Answer, latest : BOOLEAN,
                     byAct : BOOLEAN] \cup {None}
      BY <1>9
    <2>5. moves = 0
      BY DEF Init
    <2>6. moves \in 0..MaxMoves
      BY <2>5, PagesAssumption
    <2> QED  BY <1>1, <1>2, <1>3, <1>7, <1>9, <2>1, <2>2, <2>3, <2>4, <2>6 DEF TypeOK
  <1>11. \A k \in Loads : LoadFits(load[k])
    BY <1>5, <1>6, AskedFields DEF LoadFits, NoLoad
  <1>12. Fitting
    BY <1>3, <1>8, <1>9, <1>11, NoActIdle DEF Fitting, Address
  <1>13. GoalsKept
    BY <1>8, NoActIdle DEF GoalsKept
  <1>14. LoadsFresh
    BY <1>5, <1>6 DEF LoadsFresh, NoLoad
  <1>15. ShownFresh
    BY <1>9 DEF ShownFresh, Visible
  <1> QED  BY <1>10, <1>12, <1>13, <1>14, <1>15 DEF PagesInv, Fresh

\* Every step of the pages keeps the invariant, for every number of records, workspaces,
\* loads and acts.
LEMMA PagesInvNext == CardInv /\ PagesInv /\ [Next]_vars => CardInv' /\ PagesInv'
  <1> SUFFICES ASSUME CardInv, PagesInv, [Next]_vars PROVE CardInv' /\ PagesInv'
    OBVIOUS
  <1>1. CardInv' /\ CardTypeOK'
    BY PagesStepIsCardStep, CardInvNext DEF CardInv
  <1>2. TypeOK /\ Fitting /\ Fresh
    BY DEF PagesInv
  <1>3. CASE OnCard
    BY <1>1, <1>2, <1>3, OnCardKeeps
  <1>4. ASSUME NEW r \in Routes, NEW f \in BOOLEAN, NEW p \in PageNumbers,
               NEW a \in Applications \cup {None}, Navigate(r, f, p, a)
        PROVE  PagesInv'
    BY <1>1, <1>2, <1>4, NavigateKeeps
  <1>5. ASSUME NEW w \in Workspaces, SwitchWorkspace(w) PROVE PagesInv'
    BY <1>1, <1>2, <1>5, SwitchKeeps
  <1>6. ASSUME NEW f \in BOOLEAN, SetFilter(f) PROVE PagesInv'
    BY <1>2, <1>6, FilterKeeps
  <1>7. ASSUME NEW p \in PageNumbers, TurnPage(p) PROVE PagesInv'
    BY <1>2, <1>7, TurnKeeps
  <1>8. CASE Retry
    BY <1>1, <1>2, <1>8, RetryKeeps
  <1>9. CASE \/ EnterSelection \/ LeaveSelection \/ ToggleSelectAll
             \/ \E a \in Applications : ToggleApplication(a)
    BY <1>1, <1>2, <1>9, SelectionKeeps
  <1>10. ASSUME NEW l \in Loads, LoadStep(l) PROVE PagesInv'
    BY <1>1, <1>2, <1>10, ServeLoadKeeps, TakeAnswerKeeps, TakeFailureKeeps DEF LoadStep
  <1>11. ASSUME NEW b \in Acts, ActStep(b) PROVE PagesInv'
    BY <1>1, <1>2, <1>11, ServeActKeeps, FinishMoveKeeps, FinishOnDetailKeeps, FinishEraseKeeps,
       FinishGoalKeeps, FailActKeeps DEF ActStep
  <1>12. ASSUME NEW b \in Acts,
                \/ \E a \in Applications : Delete(b, a) \/ Restore(b, a)
                \/ PermanentlyDelete(b)
                \/ \E g \in Goals : SetGoal(b, g)
         PROVE  PagesInv'
    BY <1>2, <1>12, SendsKeep
  <1>13. CASE UNCHANGED vars
    <2>1. UNCHANGED <<workspace, cardVars, pageVars>>
      BY <1>13 DEF vars
    <2>2. Asked' = Asked
      BY <2>1 DEF Asked, pageVars, address
    <2>3. Fitting' /\ Fresh'
      BY <1>2, <2>1, <2>2, QuietLemma DEF pageVars, server, screen
    <2>4. TypeOK'
      BY <1>1, <1>2, <2>1 DEF TypeOK, pageVars, server, address, screen, selection
    <2> QED  BY <1>1, <2>3, <2>4 DEF PagesInv
  <1> QED
    BY <1>1, <1>3, <1>4, <1>5, <1>6, <1>7, <1>8, <1>9, <1>10, <1>11, <1>12, <1>13 DEF Next

\* A page that has settled and that was there for every change shows what the server has.
LEMMA FreshWhenSettled == PagesInv => SettledIsFresh
  <1> SUFFICES ASSUME PagesInv, Settled, ~missed PROVE shown.answer = AnswerOf(Asked)
    BY DEF SettledIsFresh
  <1>1. \A b \in Acts : ~WillReload(act[b]) /\ ~GoalServed(act[b])
    BY NoActIdle DEF Settled
  <1>2. ShownFresh
    BY <1>1 DEF PagesInv, Fresh
  <1>3. Overtaken
    BY DEF Settled, Overtaken
  <1> QED  BY <1>1, <1>2, <1>3 DEF Settled, ShownFresh

\* The pages stay in their types: in particular an answer has the rows, the number of
\* pages and the goal of the question that was asked, whichever page is mounted.
THEOREM PagesTypes == Spec => []TypeOK
  <1>1. Init => CardInv /\ PagesInv
    BY CardInvInit, PagesInvInit DEF Init
  <1>2. PagesInv => TypeOK
    BY DEF PagesInv
  <1> QED  BY <1>1, <1>2, PagesInvNext, PTL DEF Spec

\* However loads, switches, acts and their answers cross: a page that has come to rest
\* shows what the server has for what is asked, unless a change was served that it could
\* not see.
THEOREM SettledPagesAreFresh == Spec => []SettledIsFresh
  <1>1. Init => CardInv /\ PagesInv
    BY CardInvInit, PagesInvInit DEF Init
  <1> QED  BY <1>1, FreshWhenSettled, PagesInvNext, PTL DEF Spec
=============================================================================
