------------------------- MODULE WorkspacePageProofs -------------------------
(***************************************************************************)
(* That the workspace page shows the members it was asked for and the      *)
(* invitations of its workspace, for any workspaces, loads and acts and    *)
(* whatever the order of the answers.  Every load that still counts asks   *)
(* the present question or belongs to an act (LatestLoads), and for as     *)
(* long as the mark stands either a load that brings the invitations of    *)
(* the marked workspace is under way or they are there (MarkKept).         *)
(***************************************************************************)
EXTENDS WorkspacePage, TLAPS

\* Slots are told apart from what is in progress by their step.
Loading == [step : {"asked", "served", "failed"}, question : Questions, latest : BOOLEAN,
            byAct : BOOLEAN, invited : BOOLEAN, answer : SUBSET Addresses]

Targets == [workspace : Workspaces, address : Addresses]

Acting == [step : {"sent", "served", "failed"}, kind : {"invite", "revoke", "manage"},
           question : Questions, of : Targets \cup {None}]

\* Whoever invites or revokes names an invitation.
ActsFit == \A a \in Acts : act[a] # NoAct => (act[a].kind # "manage" => act[a].of \in Targets)

LatestLoads ==
    \A l \in Loads : load[l] # NoLoad =>
        (load[l].latest => load[l].byAct \/ load[l].question = Asked)

\* The load l is to bring the invitations of workspace w.
Brings(l, w) == load[l] # NoLoad /\ load[l].invited /\ load[l].question.workspace = w

MarkKept ==
    loadedFor # None =>
        \/ \E l \in Loads : Brings(l, loadedFor)
        \/ \A i \in invitations : i.workspace = loadedFor \/ i.by = "invite"

IInv == TypeOK /\ ActsFit /\ LatestLoads /\ MarkKept /\ MembersAnswerQuestion
----------------------------------------------------------------------------
LEMMA LoadingLemma ==
    ASSUME NEW a \in Loading
    PROVE  /\ a # NoLoad
           /\ a.question \in Questions /\ a.latest \in BOOLEAN /\ a.byAct \in BOOLEAN
           /\ a.answer \subseteq Addresses /\ a.question.workspace \in Workspaces
           /\ [a EXCEPT !.latest = FALSE] \in Loading
           /\ [a EXCEPT !.latest = FALSE].latest = FALSE
           /\ [a EXCEPT !.latest = FALSE].invited = a.invited
           /\ [a EXCEPT !.latest = FALSE].question = a.question
  <1>1. a.step \in {"asked", "served", "failed"} /\ NoLoad.step = "none"
    BY DEF Loading, NoLoad
  <1>2. a.question.workspace \in Workspaces
    BY DEF Loading, Questions
  <1> QED  BY <1>1, <1>2 DEF Loading

\* A load that is served or has failed.
Served(a, step, answer) == [a EXCEPT !.step = step, !.answer = answer]

LEMMA ServedLemma ==
    ASSUME NEW a \in Loading, NEW step \in {"served", "failed"}, NEW answer \in SUBSET Addresses
    PROVE  /\ Served(a, step, answer) \in Loading
           /\ Served(a, step, answer).latest = a.latest
           /\ Served(a, step, answer).byAct = a.byAct
           /\ Served(a, step, answer).invited = a.invited
           /\ Served(a, step, answer).question = a.question
  BY DEF Served, Loading

LEMMA LoadTypes == LoadState = Loading \cup {NoLoad} /\ ActState = Acting \cup {NoAct}
  BY DEF LoadState, Loading, ActState, Acting, Targets

LEMMA ActingLemma ==
    ASSUME NEW a \in Acting
    PROVE  /\ a # NoAct
           /\ a.kind \in {"invite", "revoke", "manage"}
           /\ a.question \in Questions /\ a.question.workspace \in Workspaces
           /\ \A s \in {"served", "failed"} :
                 /\ [a EXCEPT !.step = s] \in Acting
                 /\ [a EXCEPT !.step = s].kind = a.kind
                 /\ [a EXCEPT !.step = s].of = a.of
  <1>1. a.step \in {"sent", "served", "failed"} /\ NoAct.step = "none"
    BY DEF Acting, NoAct
  <1>2. a.question.workspace \in Workspaces
    BY DEF Acting, Questions
  <1> QED  BY <1>1, <1>2 DEF Acting

LEMMA AskedLemma == TypeOK => Asked \in Questions
  BY DEF TypeOK, Asked, Questions

LEMMA InitLemma == Init => IInv
  <1> SUFFICES ASSUME Init PROVE IInv
    OBVIOUS
  <1>1. PICK l \in Loads :
            load = [k \in Loads |->
                       IF k = l THEN [step |-> "asked", question |-> Asked, latest |-> TRUE,
                                      byAct |-> FALSE, answer |-> {},
                                      invited |-> IsOwner(workspace)]
                       ELSE NoLoad]
    BY DEF Init
  <1>2. Asked \in Questions /\ IsOwner(workspace) \in BOOLEAN
    BY ValuesAssumption DEF Init, Asked, Questions, IsOwner
  <1> DEFINE first == [step |-> "asked", question |-> Asked, latest |-> TRUE, byAct |-> FALSE,
                       answer |-> {}, invited |-> IsOwner(workspace)]
  <1>3. first \in Loading
    BY <1>2 DEF Loading
  <1>4. first.question = Asked /\ first.question.workspace = workspace
        /\ first.invited = IsOwner(workspace) /\ first # NoLoad
    BY <1>3, LoadingLemma DEF Asked
  <1> HIDE DEF first
  <1>5. load[l] = first /\ \A k \in Loads \ {l} : load[k] = NoLoad
    BY <1>1 DEF first
  <1>6. load \in [Loads -> LoadState] /\ act \in [Acts -> ActState]
    <2>1. \A k \in Loads : load[k] \in LoadState
      BY <1>3, <1>5, LoadTypes
    <2>2. load \in [Loads -> LoadState]
      BY <1>1, <2>1
    <2>3. NoAct \in ActState
      BY LoadTypes
    <2>4. act = [a \in Acts |-> NoAct]
      BY DEF Init
    <2> QED  BY <2>2, <2>3, <2>4
  <1>7. TypeOK
    <2>1. loadedFor \in Workspaces \cup {None} /\ moves \in 0..MaxMoves
      BY ValuesAssumption DEF Init
    <2> QED  BY <1>6, <2>1, ValuesAssumption DEF Init, TypeOK
  <1>8. ActsFit /\ LatestLoads
    BY <1>4, <1>5 DEF Init, ActsFit, LatestLoads
  <1>9. MarkKept /\ MembersAnswerQuestion
    BY <1>4, <1>5 DEF Init, MarkKept, Brings, MembersAnswerQuestion, RowsShown
  <1> QED  BY <1>7, <1>8, <1>9 DEF IInv
----------------------------------------------------------------------------
\* The load that begins is the only one that counts.  If it sets the mark it is the
\* one that brings the invitations, otherwise what brought them before still does.
LEMMA BeginLemma ==
    ASSUME IInv, NEW q \in Questions, NEW byAct \in BOOLEAN,
           Begin(load, q, byAct, loadedFor),
           byAct \/ q = Asked',
           invitations' = invitations
    PROVE  /\ load' \in [Loads -> LoadState]
           /\ loadedFor' \in Workspaces \cup {None}
           /\ loading' = TRUE
           /\ LatestLoads' /\ MarkKept' /\ MembersAnswerQuestion'
  <1> DEFINE wants == WantsInvitations(q.workspace, loadedFor)
             begun == [step |-> "asked", question |-> q, latest |-> TRUE,
                       byAct |-> byAct, answer |-> {}, invited |-> wants]
             Outdated(a) == [a EXCEPT !.latest = FALSE]
  <1>1. PICK l \in Loads :
            /\ load[l] = NoLoad
            /\ load' = [k \in Loads |-> IF k = l THEN begun
                                        ELSE IF load[k] = NoLoad THEN NoLoad
                                        ELSE Outdated(load[k])]
            /\ loadedFor' = IF wants THEN q.workspace ELSE loadedFor
            /\ loading' = TRUE
    BY DEF Begin
  <1>2. wants \in BOOLEAN /\ q.workspace \in Workspaces
    BY DEF WantsInvitations, IsOwner, Questions
  <1>3. begun \in Loading
    BY <1>2 DEF Loading
  <1>4. /\ begun.latest /\ begun.byAct = byAct /\ begun.question = q
        /\ begun.invited = wants
    OBVIOUS
  <1> HIDE DEF begun, wants
  <1>5. ASSUME NEW k \in Loads, load[k] # NoLoad
        PROVE  load[k] \in Loading
    BY <1>5, LoadTypes DEF IInv, TypeOK
  <1>6. ASSUME NEW k \in Loads, k # l, load[k] # NoLoad
        PROVE  /\ load'[k] \in Loading /\ load'[k] # NoLoad /\ load'[k].latest = FALSE
               /\ load'[k].invited = load[k].invited /\ load'[k].question = load[k].question
    BY <1>1, <1>5, <1>6, LoadingLemma
  <1>7. load'[l] = begun /\ begun # NoLoad
    BY <1>1, <1>3, LoadingLemma
  <1>8. \A k \in Loads : k # l /\ load[k] = NoLoad => load'[k] = NoLoad
    BY <1>1
  <1> HIDE DEF Outdated
  <1>9. load' \in [Loads -> LoadState]
    <2>1. \A k \in Loads : load'[k] \in LoadState
      BY <1>3, <1>6, <1>7, <1>8, LoadTypes
    <2> QED  BY <1>1, <2>1
  <1>10. LatestLoads'
    BY <1>4, <1>6, <1>7, <1>8 DEF LatestLoads
  <1>11. MarkKept'
    <2>1. CASE wants
      BY <1>1, <1>4, <1>7, <2>1 DEF MarkKept, Brings
    <2>2. CASE ~wants
      <3>1. loadedFor' = loadedFor
        BY <1>1, <2>2
      <3>2. \A k \in Loads : Brings(k, loadedFor) => Brings(k, loadedFor)'
        BY <1>1, <1>6, <3>1 DEF Brings
      <3> QED  BY <3>1, <3>2 DEF IInv, MarkKept
    <2> QED  BY <2>1, <2>2
  <1>12. loadedFor' \in Workspaces \cup {None}
    BY <1>1, <1>2 DEF IInv, TypeOK
  <1>13. MembersAnswerQuestion'
    BY <1>1 DEF MembersAnswerQuestion, RowsShown
  <1> QED  BY <1>1, <1>9, <1>10, <1>11, <1>12, <1>13

\* A step after which everything that the invariant relates is as it was.
LEMMA SameLemma ==
    ASSUME IInv, TypeOK', ActsFit', Asked' = Asked,
           UNCHANGED <<load, members, invitations, loadedFor, loading, failed>>
    PROVE  IInv'
  <1>1. LatestLoads' /\ MarkKept'
    BY DEF IInv, LatestLoads, MarkKept, Brings
  <1>2. MembersAnswerQuestion'
    BY DEF IInv, MembersAnswerQuestion, RowsShown
  <1> QED  BY <1>1, <1>2 DEF IInv

LEMMA MoveLemma == TypeOK /\ Move => moves' \in 0..MaxMoves
  BY ValuesAssumption DEF TypeOK, Move

\* The user asks for something else, and the page loads.
LEMMA AskLemma ==
    ASSUME IInv, Ask, Asked' \in Questions,
           workspace' \in Workspaces, typed' \in Searches, searched' \in Searches,
           page' \in Pages, moves' \in 0..MaxMoves,
           UNCHANGED <<pending, owned, act, members, invitations, failed>>
    PROVE  IInv'
  <1>1. /\ load' \in [Loads -> LoadState]
        /\ loadedFor' \in Workspaces \cup {None}
        /\ loading' = TRUE
        /\ LatestLoads' /\ MarkKept' /\ MembersAnswerQuestion'
    BY BeginLemma DEF Ask
  <1>2. TypeOK' /\ ActsFit'
    BY <1>1 DEF IInv, TypeOK, ActsFit
  <1> QED  BY <1>1, <1>2 DEF IInv

LEMMA QuestionLemma ==
    ASSUME IInv,
           \/ \E w \in Workspaces : SwitchWorkspace(w)
           \/ \E s \in Searches : TypeSearch(s)
           \/ Debounce
           \/ \E p \in Pages : TurnPage(p)
    PROVE  IInv'
  <1>1. /\ workspace' \in Workspaces /\ typed' \in Searches /\ searched' \in Searches
        /\ page' \in Pages /\ moves' \in 0..MaxMoves
        /\ UNCHANGED <<pending, owned, act, members, invitations, failed>>
    BY MoveLemma, ValuesAssumption
    DEF SwitchWorkspace, TypeSearch, Debounce, TurnPage, IInv, TypeOK
  <1>2. Asked' \in Questions
    BY <1>1 DEF Asked, Questions
  <1>3. CASE Ask
    BY <1>1, <1>2, <1>3, AskLemma
  <1>4. CASE ~Ask
    <2>1. PICK s \in Searches : TypeSearch(s) /\ page = 1
      BY <1>4 DEF SwitchWorkspace, TypeSearch, Debounce, TurnPage
    <2>2. /\ UNCHANGED <<load, loadedFor, loading, workspace, searched>>
          /\ page' = page
      BY <2>1 DEF TypeSearch
    <2>3. TypeOK' /\ ActsFit' /\ Asked' = Asked
      BY <1>1, <2>2 DEF IInv, TypeOK, ActsFit, Asked
    <2> QED  BY <1>1, <2>2, <2>3, SameLemma
  <1> QED  BY <1>3, <1>4

\* A load that begins with the question as it is, or for an act.
LEMMA LoadAgainLemma ==
    ASSUME IInv, NEW q \in Questions, NEW byAct \in BOOLEAN,
           Begin(load, q, byAct, loadedFor), byAct \/ q = Asked,
           moves' \in 0..MaxMoves, act' \in [Acts -> ActState], ActsFit',
           UNCHANGED <<pending, owned, question, members, invitations, failed>>
    PROVE  IInv'
  <1>1. Asked' = Asked
    BY DEF question, Asked
  <1>2. /\ load' \in [Loads -> LoadState]
        /\ loadedFor' \in Workspaces \cup {None}
        /\ loading' = TRUE
        /\ LatestLoads' /\ MarkKept' /\ MembersAnswerQuestion'
    BY <1>1, BeginLemma
  <1>3. TypeOK'
    BY <1>2 DEF IInv, TypeOK, question
  <1> QED  BY <1>2, <1>3 DEF IInv

LEMMA RetryLemma == IInv /\ Retry => IInv'
  <1> SUFFICES ASSUME IInv, Retry PROVE IInv'
    OBVIOUS
  <1>1. Asked \in Questions /\ moves' \in 0..MaxMoves
    BY AskedLemma, MoveLemma DEF IInv, Retry
  <1>2. act' \in [Acts -> ActState] /\ ActsFit'
    BY DEF Retry, IInv, TypeOK, ActsFit
  <1> QED  BY <1>1, <1>2, LoadAgainLemma DEF Retry
----------------------------------------------------------------------------
LEMMA ServeLoadLemma ==
    ASSUME IInv, NEW l \in Loads, ServeLoad(l)
    PROVE  IInv'
  <1>1. /\ load \in [Loads -> LoadState] /\ load[l] \in Loading
        /\ UNCHANGED <<pending, owned, question, act, shown, moves>>
    <2>1. load[l].step = "asked" /\ load[l] \in LoadState
      BY DEF ServeLoad, IInv, TypeOK
    <2> QED  BY <2>1, LoadTypes DEF ServeLoad, NoLoad, IInv, TypeOK
  <1>2. PICK step \in {"served", "failed"}, answer \in SUBSET Addresses :
            load' = [load EXCEPT ![l] = Served(load[l], step, answer)]
    <2>1. CASE load' = [load EXCEPT ![l].step = "failed"]
      <3>1. load[l].answer \in SUBSET Addresses
            /\ [load[l] EXCEPT !.step = "failed"] = Served(load[l], "failed", load[l].answer)
        BY <1>1 DEF Loading, Served
      <3> QED  BY <1>1, <2>1, <3>1
    <2> DEFINE new == IF load[l].invited THEN pending[load[l].question.workspace] ELSE {}
    <2>2. CASE load' = [load EXCEPT ![l].step = "served", ![l].answer = new]
      <3>1. new \in SUBSET Addresses
        BY <1>1, LoadingLemma DEF IInv, TypeOK
      <3> HIDE DEF new
      <3>2. load' = [load EXCEPT ![l] = Served(load[l], "served", new)]
        BY <1>1, <2>2 DEF Served
      <3> QED  BY <3>1, <3>2
    <2> QED  BY <2>1, <2>2 DEF ServeLoad
  <1>3. /\ load'[l] \in Loading /\ load'[l] # NoLoad
        /\ load'[l].latest = load[l].latest /\ load'[l].byAct = load[l].byAct
        /\ load'[l].invited = load[l].invited /\ load'[l].question = load[l].question
        /\ \A k \in Loads \ {l} : load'[k] = load[k]
        /\ load[l] # NoLoad
    <2> DEFINE new == Served(load[l], step, answer)
    <2>1. /\ new \in Loading /\ new.latest = load[l].latest /\ new.byAct = load[l].byAct
          /\ new.invited = load[l].invited /\ new.question = load[l].question
      BY <1>1, ServedLemma
    <2>2. load' = [load EXCEPT ![l] = new]
      BY <1>2
    <2> HIDE DEF new
    <2>3. load'[l] = new /\ \A k \in Loads \ {l} : load'[k] = load[k]
      BY <1>1, <2>2
    <2>4. new # NoLoad /\ load[l] # NoLoad
      BY <1>1, <2>1, LoadingLemma
    <2> QED  BY <2>1, <2>3, <2>4
  <1>4. load' \in [Loads -> LoadState]
    BY <1>1, <1>2, <1>3, LoadTypes
  <1>5. TypeOK' /\ ActsFit'
    BY <1>1, <1>4 DEF IInv, TypeOK, ActsFit, question, shown
  <1>6. LatestLoads'
    BY <1>1, <1>3 DEF IInv, LatestLoads, Asked, question
  <1>7. MarkKept'
    <2>1. \A k \in Loads : Brings(k, loadedFor) => Brings(k, loadedFor)'
      BY <1>1, <1>3 DEF Brings, shown
    <2> QED  BY <1>1, <2>1 DEF IInv, MarkKept, shown
  <1>8. MembersAnswerQuestion'
    BY <1>1 DEF IInv, MembersAnswerQuestion, RowsShown, Asked, question, shown
  <1> QED  BY <1>5, <1>6, <1>7, <1>8 DEF IInv

\* What is known of a load whose answer has come, and of the others.
LEMMA TakenLemma ==
    ASSUME IInv, NEW l \in Loads, load[l].step \in {"served", "failed"},
           load' = [load EXCEPT ![l] = NoLoad],
           UNCHANGED question
    PROVE  /\ load[l] \in Loading /\ load[l] # NoLoad
           /\ load' \in [Loads -> LoadState]
           /\ LatestLoads'
           /\ \A k \in Loads \ {l} : load'[k] = load[k]
           /\ load[l].latest => load[l].byAct \/ load[l].question = Asked
           /\ Asked' = Asked
  <1>1. load \in [Loads -> LoadState] /\ load[l] \in Loading
    BY LoadTypes DEF IInv, TypeOK, NoLoad
  <1>2. load[l] # NoLoad
    BY <1>1, LoadingLemma
  <1>3. load' \in [Loads -> LoadState] /\ load'[l] = NoLoad
        /\ \A k \in Loads \ {l} : load'[k] = load[k]
    BY <1>1, LoadTypes
  <1>4. Asked' = Asked
    BY DEF Asked, question
  <1>5. LatestLoads'
    BY <1>3, <1>4 DEF IInv, LatestLoads
  <1> QED  BY <1>1, <1>2, <1>3, <1>4, <1>5 DEF IInv, LatestLoads

LEMMA TakeAnswerLemma ==
    ASSUME IInv, NEW l \in Loads, TakeAnswer(l)
    PROVE  IInv'
  <1>1. /\ load[l] \in Loading /\ load[l] # NoLoad
        /\ load' \in [Loads -> LoadState]
        /\ LatestLoads'
        /\ \A k \in Loads \ {l} : load'[k] = load[k]
        /\ load[l].latest => load[l].byAct \/ load[l].question = Asked
        /\ Asked' = Asked
    BY TakenLemma DEF TakeAnswer
  <1> DEFINE listed == [workspace : {load[l].question.workspace}, address : load[l].answer,
                        by : {"listing"}]
  <1>2. listed \subseteq Invitation
    BY <1>1, LoadingLemma DEF Invitation
  <1>3. \A i \in listed : i.workspace = load[l].question.workspace
    OBVIOUS
  <1>4. invitations' = IF Awaited(l) THEN listed ELSE invitations
    BY DEF TakeAnswer
  <1> HIDE DEF listed
  <1>5. members' \in [question : Questions, byAct : BOOLEAN] \cup {None}
        /\ failed' \in BOOLEAN /\ loading' \in BOOLEAN
    <2>1. load[l].question \in Questions /\ load[l].byAct \in BOOLEAN
      BY <1>1, LoadingLemma
    <2>2. CASE IsLatest(l)
      <3>1. /\ members' = [question |-> load[l].question, byAct |-> load[l].byAct]
            /\ failed' = FALSE /\ loading' = FALSE
        BY <2>2 DEF TakeAnswer
      <3> QED  BY <2>1, <3>1
    <2>3. CASE ~IsLatest(l)
      BY <2>3 DEF TakeAnswer, IInv, TypeOK
    <2> QED  BY <2>2, <2>3
  <1>6. TypeOK' /\ ActsFit'
    BY <1>1, <1>2, <1>4, <1>5 DEF TakeAnswer, IInv, TypeOK, ActsFit, question
  <1>7. MarkKept'
    <2>1. loadedFor' = loadedFor
      BY DEF TakeAnswer
    <2>2. CASE Awaited(l)
      BY <1>3, <1>4, <2>1, <2>2 DEF Awaited, MarkKept
    <2>3. CASE ~Awaited(l)
      <3>1. \A k \in Loads : Brings(k, loadedFor) => Brings(k, loadedFor)'
        BY <1>1, <2>1, <2>3 DEF Brings, Awaited
      <3> QED  BY <1>4, <2>1, <2>3, <3>1 DEF IInv, MarkKept
    <2> QED  BY <2>2, <2>3
  <1>8. MembersAnswerQuestion'
    <2>1. CASE IsLatest(l)
      <3>1. members' = [question |-> load[l].question, byAct |-> load[l].byAct]
        BY <2>1 DEF TakeAnswer
      <3> QED  BY <1>1, <2>1, <3>1 DEF IsLatest, MembersAnswerQuestion
    <2>2. CASE ~IsLatest(l)
      BY <1>1, <2>2 DEF TakeAnswer, IInv, MembersAnswerQuestion, RowsShown
    <2> QED  BY <2>1, <2>2
  <1> QED  BY <1>1, <1>6, <1>7, <1>8 DEF IInv

LEMMA TakeFailureLemma ==
    ASSUME IInv, NEW l \in Loads, TakeFailure(l)
    PROVE  IInv'
  <1>1. /\ load[l] \in Loading /\ load[l] # NoLoad
        /\ load' \in [Loads -> LoadState]
        /\ LatestLoads'
        /\ \A k \in Loads \ {l} : load'[k] = load[k]
        /\ Asked' = Asked
    BY TakenLemma DEF TakeFailure
  <1>2. load[l].latest \in BOOLEAN
    BY <1>1, LoadingLemma
  <1>3. failed' \in BOOLEAN /\ loading' \in BOOLEAN
        /\ failed' = (failed \/ load[l].latest)
        /\ loading' = (loading /\ ~load[l].latest)
    BY <1>2 DEF TakeFailure, StopsSpinner, IsLatest, IInv, TypeOK
  <1>4. TypeOK' /\ ActsFit'
    BY <1>1, <1>3 DEF TakeFailure, IInv, TypeOK, ActsFit, question
  <1>5. MarkKept'
    <2>1. CASE Awaited(l)
      BY <2>1 DEF TakeFailure, MarkKept
    <2>2. CASE ~Awaited(l)
      <3>1. loadedFor' = loadedFor /\ invitations' = invitations
        BY <2>2 DEF TakeFailure
      <3>2. \A k \in Loads : Brings(k, loadedFor) => Brings(k, loadedFor)'
        BY <1>1, <2>2, <3>1 DEF Brings, Awaited
      <3> QED  BY <3>1, <3>2 DEF IInv, MarkKept
    <2> QED  BY <2>1, <2>2
  <1>6. MembersAnswerQuestion'
    <2>1. members' = members
      BY DEF TakeFailure
    <2>2. RowsShown' => RowsShown
      BY <1>3, <2>1 DEF RowsShown, IInv, TypeOK
    <2> QED  BY <1>1, <2>1, <2>2 DEF IInv, MembersAnswerQuestion
  <1> QED  BY <1>1, <1>4, <1>5, <1>6 DEF IInv
----------------------------------------------------------------------------
LEMMA SendLemma ==
    ASSUME IInv, NEW a \in Acts, NEW kind \in {"invite", "revoke", "manage"},
           NEW of \in Targets \cup {None}, kind # "manage" => of \in Targets,
           Send(a, kind, of)
    PROVE  IInv'
  <1> DEFINE new == [step |-> "sent", kind |-> kind, question |-> Asked, of |-> of]
  <1>1. /\ act' = [act EXCEPT ![a] = new] /\ moves' \in 0..MaxMoves
        /\ UNCHANGED <<pending, owned, question, load, shown>>
    BY MoveLemma DEF Send, IInv
  <1>2. new \in Acting /\ new.kind = kind /\ new.of = of
    BY AskedLemma DEF Acting, IInv
  <1> HIDE DEF new
  <1>3. /\ act' \in [Acts -> ActState] /\ act'[a] = new
        /\ \A b \in Acts \ {a} : act'[b] = act[b]
    BY <1>1, <1>2, LoadTypes DEF IInv, TypeOK
  <1>4. TypeOK' /\ ActsFit'
    BY <1>1, <1>2, <1>3 DEF IInv, TypeOK, ActsFit, question, shown
  <1> QED  BY <1>1, <1>4, SameLemma DEF Asked, question, shown

LEMMA UserActLemma ==
    ASSUME IInv, NEW a \in Acts,
           \/ \E x \in Addresses : InviteGuest(a, x)
           \/ \E i \in invitations : RevokeInvitation(a, i)
           \/ ManageMember(a)
    PROVE  IInv'
  <1>1. ASSUME NEW x \in Addresses, InviteGuest(a, x) PROVE IInv'
    <2>1. [workspace |-> workspace, address |-> x] \in Targets
      BY DEF Targets, IInv, TypeOK
    <2> QED  BY <1>1, <2>1, SendLemma DEF InviteGuest
  <1>2. ASSUME NEW i \in invitations, RevokeInvitation(a, i) PROVE IInv'
    <2>1. [workspace |-> i.workspace, address |-> i.address] \in Targets
      BY DEF Targets, IInv, TypeOK, Invitation
    <2> QED  BY <1>2, <2>1, SendLemma DEF RevokeInvitation
  <1>3. ASSUME ManageMember(a) PROVE IInv'
    BY <1>3, SendLemma DEF ManageMember
  <1> QED  BY <1>1, <1>2, <1>3

\* An act that goes on is still of its kind and names the same invitation.
LEMMA ActLemma ==
    ASSUME IInv, NEW a \in Acts, act[a] # NoAct,
           \/ act' = [act EXCEPT ![a] = NoAct]
           \/ \E s \in {"served", "failed"} : act' = [act EXCEPT ![a].step = s]
    PROVE  act' \in [Acts -> ActState] /\ ActsFit' /\ act[a] \in Acting
  <1>1. act \in [Acts -> ActState] /\ act[a] \in Acting
    BY LoadTypes DEF IInv, TypeOK
  <1>2. CASE act' = [act EXCEPT ![a] = NoAct]
    BY <1>1, <1>2, LoadTypes DEF IInv, ActsFit
  <1>3. ASSUME NEW s \in {"served", "failed"}, act' = [act EXCEPT ![a].step = s]
        PROVE  act' \in [Acts -> ActState] /\ ActsFit'
    <2> DEFINE new == [act[a] EXCEPT !.step = s]
    <2>1. act' = [act EXCEPT ![a] = new]
      BY <1>1, <1>3
    <2>2. new \in Acting /\ new.kind = act[a].kind /\ new.of = act[a].of
      BY <1>1, ActingLemma
    <2> HIDE DEF new
    <2>3. /\ act' \in [Acts -> ActState] /\ act'[a] = new
          /\ \A b \in Acts \ {a} : act'[b] = act[b]
      BY <1>1, <2>1, <2>2, LoadTypes
    <2> QED  BY <2>2, <2>3 DEF IInv, ActsFit
  <1> QED  BY <1>1, <1>2, <1>3

LEMMA ServeActLemma ==
    ASSUME IInv, NEW a \in Acts, ServeAct(a)
    PROVE  IInv'
  <1>1. act[a] # NoAct /\ UNCHANGED <<owned, question, load, shown, moves>>
    BY DEF ServeAct, NoAct
  <1>2. act' \in [Acts -> ActState] /\ ActsFit' /\ act[a] \in Acting
    BY <1>1, ActLemma DEF ServeAct
  <1>3. act[a].kind # "manage" => act[a].of.address \in Addresses
    BY <1>1 DEF IInv, ActsFit, Targets
  <1>4. act[a].kind \in {"invite", "revoke", "manage"} /\ act[a].question.workspace \in Workspaces
    BY <1>2, ActingLemma
  <1> DEFINE w == act[a].question.workspace
             x == act[a].of.address
  <1>5. \/ pending' = pending
        \/ act[a].kind = "invite" /\ pending' = [pending EXCEPT ![w] = @ \cup {x}]
        \/ act[a].kind = "revoke" /\ pending' = [pending EXCEPT ![w] = @ \ {x}]
    BY <1>4 DEF ServeAct
  <1>6. pending' \in [Workspaces -> SUBSET Addresses]
    <2>1. pending \in [Workspaces -> SUBSET Addresses]
      BY DEF IInv, TypeOK
    <2> QED  BY <1>3, <1>4, <1>5, <2>1
  <1>7. TypeOK'
    BY <1>1, <1>2, <1>6 DEF IInv, TypeOK, question, shown
  <1> QED  BY <1>1, <1>2, <1>7, SameLemma DEF Asked, question, shown

\* The end of an invitation, a revocation or a failure: what inviteGuest appends bears
\* its name, and what a revocation leaves was there before.
LEMMA FinishLemma ==
    ASSUME IInv, NEW a \in Acts, FinishInvite(a) \/ FinishRevoke(a) \/ FailAct(a)
    PROVE  IInv'
  <1>1. /\ act[a] # NoAct /\ act' = [act EXCEPT ![a] = NoAct]
        /\ UNCHANGED <<pending, owned, question, load, members, loadedFor, loading, failed, moves>>
    BY DEF FinishInvite, FinishRevoke, FailAct, NoAct, shown
  <1>2. act' \in [Acts -> ActState] /\ ActsFit'
    BY <1>1, ActLemma
  <1>3. \A i \in invitations' : i \in invitations \/ (i \in Invitation /\ i.by = "invite")
    <2>1. CASE FinishInvite(a)
      <3>1. act[a].of \in Targets
        BY <1>1, <2>1 DEF FinishInvite, IInv, ActsFit
      <3>2. act[a].of.workspace \in Workspaces /\ act[a].of.address \in Addresses
        BY <3>1 DEF Targets
      <3> QED  BY <2>1, <3>2 DEF FinishInvite, Invitation
    <2>2. CASE FinishRevoke(a) \/ FailAct(a)
      BY <2>2 DEF FinishRevoke, FailAct, shown
    <2> QED  BY <2>1, <2>2
  <1>4. TypeOK'
    BY <1>1, <1>2, <1>3 DEF IInv, TypeOK, question
  <1>5. LatestLoads' /\ MembersAnswerQuestion'
    BY <1>1 DEF IInv, LatestLoads, MembersAnswerQuestion, RowsShown, Asked, question
  <1>6. MarkKept'
    BY <1>1, <1>3 DEF IInv, MarkKept, Brings
  <1> QED  BY <1>2, <1>4, <1>5, <1>6 DEF IInv

LEMMA FinishManageLemma ==
    ASSUME IInv, NEW a \in Acts, FinishManage(a)
    PROVE  IInv'
  <1>1. act[a] # NoAct /\ act' = [act EXCEPT ![a] = NoAct]
    BY DEF FinishManage, NoAct
  <1>2. act' \in [Acts -> ActState] /\ ActsFit' /\ act[a] \in Acting
    BY <1>1, ActLemma
  <1>3. act[a].question \in Questions /\ moves' \in 0..MaxMoves
    BY <1>2, ActingLemma DEF FinishManage, IInv, TypeOK
  <1> QED  BY <1>2, <1>3, LoadAgainLemma DEF FinishManage

LEMMA GuestLemma ==
    ASSUME IInv, NEW w \in Workspaces, NEW x \in Addresses, GuestAnswers(w, x)
    PROVE  IInv'
  <1>1. /\ pending' \in [Workspaces -> SUBSET Addresses] /\ moves' \in 0..MaxMoves
        /\ UNCHANGED <<owned, question, load, act, shown>>
    BY MoveLemma DEF GuestAnswers, IInv, TypeOK
  <1>2. TypeOK' /\ ActsFit'
    BY <1>1 DEF IInv, TypeOK, ActsFit, question, shown
  <1> QED  BY <1>1, <1>2, SameLemma DEF Asked, question, shown

LEMMA NextLemma == IInv /\ [Next]_vars => IInv'
  <1> SUFFICES ASSUME IInv, [Next]_vars PROVE IInv'
    OBVIOUS
  <1>1. CASE UNCHANGED vars
    <2>1. TypeOK' /\ ActsFit'
      BY <1>1 DEF vars, question, shown, IInv, TypeOK, ActsFit
    <2> QED  BY <1>1, <2>1, SameLemma DEF vars, Asked, question, shown
  <1>2. CASE Next
    BY <1>2, QuestionLemma, GuestLemma, RetryLemma, ServeLoadLemma, TakeAnswerLemma,
       TakeFailureLemma, UserActLemma, ServeActLemma, FinishLemma, FinishManageLemma
    DEF Next, LoadStep, ActStep
  <1> QED  BY <1>1, <1>2
----------------------------------------------------------------------------
\* The invariant holds in every reachable state.
THEOREM Invariance == Spec => []IInv
  BY InitLemma, NextLemma, PTL DEF Spec

\* Every variable keeps its type.
THEOREM TypeCorrect == Spec => []TypeOK
  <1>1. IInv => TypeOK
    BY DEF IInv
  <1> QED  BY Invariance, <1>1, PTL

\* However loads, acts and what the user asks overtake one another, the members shown
\* are those asked for, or the list that an act of an earlier render brought.
THEOREM MembersAreAsked == Spec => []MembersAnswerQuestion
  <1>1. IInv => MembersAnswerQuestion
    BY DEF IInv
  <1> QED  BY Invariance, <1>1, PTL

\* Once the loads of a marked workspace are over, the invitations are its own, or one
\* that inviteGuest appended.
THEOREM InvitationsAreItsOwn == Spec => []InvitationsOfWorkspace
  <1>1. IInv => InvitationsOfWorkspace
    BY ValuesAssumption DEF IInv, TypeOK, MarkKept, Brings, InvitationsOfWorkspace
  <1> QED  BY Invariance, <1>1, PTL
=============================================================================
