--------------------------- MODULE WorkspacePage ----------------------------
(***************************************************************************)
(* The workspace page (App.tsx, WorkspacePage): a searchable, paged list   *)
(* of members guarded by latestMemberRequest, the pending invitations that *)
(* an owner's first load of a workspace brings along, and the owner's      *)
(* actions, while the user switches between workspaces.                    *)
(*                                                                         *)
(* A load or an act is one asynchronous function in progress, in a slot of *)
(* its own.  It is under way, then served by the API, and then its answer  *)
(* arrives; answers arrive in any order.  The member list is abstracted to *)
(* the question it answers, invitations to workspace and address.  Where   *)
(* the user switches to is free: the shell decides it.                     *)
(***************************************************************************)
EXTENDS Naturals, FiniteSets

CONSTANTS
    Workspaces, Searches, Pages,
    Addresses,     \* of guests
    Loads, Acts,   \* slots: the loads and the acts that may be in progress at once
    MaxMoves,      \* bound on what the user does
    NoSearch, None

ASSUME ValuesAssumption ==
    /\ NoSearch \in Searches /\ None \notin Workspaces
    /\ 1 \in Pages /\ Pages \subseteq Nat /\ MaxMoves \in Nat

VARIABLES
    pending,     \* pending[w]: the addresses with a pending invitation, on the server
    owned,       \* the workspaces that this user owns, fixed
    workspace,   \* the active workspace
    typed,       \* memberSearch
    searched,    \* debouncedMemberSearch
    page,        \* memberPage
    load,        \* load[l]: the load in slot l
    act,         \* act[a]: the owner's action in slot a
    members,     \* the question that the shown members answer, and who asked it
    invitations, \* the invitations in state
    loadedFor,   \* loadedInvitationWorkspace.current
    loading, failed,
    moves        \* what the user has done so far, counted up to MaxMoves

question == <<workspace, typed, searched, page>>
shown == <<members, invitations, loadedFor, loading, failed>>
vars == <<pending, owned, question, load, act, shown, moves>>
----------------------------------------------------------------------------
Questions == [workspace : Workspaces, search : Searches, page : Pages]

\* latest: requestId is still latestMemberRequest.current.  byAct: begun at the
\* end of an act, by the load of the render in which the user clicked.
NoLoad == [step |-> "none"]
LoadState == {NoLoad} \cup
    [step : {"asked", "served", "failed"}, question : Questions, latest : BOOLEAN,
     byAct : BOOLEAN, invited : BOOLEAN, answer : SUBSET Addresses]

NoAct == [step |-> "none"]
ActState == {NoAct} \cup
    [step : {"sent", "served", "failed"}, kind : {"invite", "revoke", "manage"},
     question : Questions, of : [workspace : Workspaces, address : Addresses] \cup {None}]

\* by: whether a listing or inviteGuest brought the invitation into the list.
Invitation == [workspace : Workspaces, address : Addresses, by : {"listing", "invite"}]

TypeOK ==
    /\ pending \in [Workspaces -> SUBSET Addresses]
    /\ owned \subseteq Workspaces
    /\ workspace \in Workspaces
    /\ typed \in Searches /\ searched \in Searches
    /\ page \in Pages
    /\ load \in [Loads -> LoadState]
    /\ act \in [Acts -> ActState]
    /\ members \in [question : Questions, byAct : BOOLEAN] \cup {None}
    /\ invitations \subseteq Invitation
    /\ loadedFor \in Workspaces \cup {None}
    /\ loading \in BOOLEAN /\ failed \in BOOLEAN
    /\ moves \in 0..MaxMoves

\* mutant: pages are counted from zero
AskedFromZero == [workspace |-> workspace, search |-> searched, page |-> page - 1]

Asked == [workspace |-> workspace, search |-> searched, page |-> page]
IsOwner(w) == w \in owned

\* shouldLoadInvitations
WantsInvitations(w, mark) == IsOwner(w) /\ mark # w

\* load begins, in a free slot: every earlier load is outdated, and the load marks
\* the workspace before it has the invitations.
Begin(table, q, byAct, mark) ==
    \E l \in Loads :
        /\ table[l] = NoLoad
        /\ load' = [k \in Loads |->
                       IF k = l THEN [step |-> "asked", question |-> q, latest |-> TRUE,
                                      byAct |-> byAct, answer |-> {},
                                      invited |-> WantsInvitations(q.workspace, mark)]
                       ELSE IF table[k] = NoLoad THEN NoLoad
                       ELSE [table[k] EXCEPT !.latest = FALSE]]
        /\ loadedFor' = IF WantsInvitations(q.workspace, mark) THEN q.workspace ELSE mark
        /\ loading' = TRUE

\* The page mounts and its effect loads.
Init ==
    /\ pending \in [Workspaces -> SUBSET Addresses]
    /\ owned \in SUBSET Workspaces
    /\ workspace \in Workspaces
    /\ typed = NoSearch /\ searched = NoSearch /\ page = 1
    /\ \E l \in Loads :
          load = [k \in Loads |->
                    IF k = l THEN [step |-> "asked", question |-> Asked, latest |-> TRUE,
                                   byAct |-> FALSE, answer |-> {},
                                   invited |-> IsOwner(workspace)]
                    ELSE NoLoad]
    /\ loadedFor = IF IsOwner(workspace) THEN workspace ELSE None
    /\ act = [a \in Acts |-> NoAct]
    /\ members = None /\ invitations = {}
    /\ loading = TRUE /\ failed = FALSE
    /\ moves = 0
----------------------------------------------------------------------------
(***************************************************************************)
(* What the user asks: each change of the question reruns the effect       *)
(***************************************************************************)
Move == moves < MaxMoves /\ moves' = moves + 1

Ask == Begin(load, Asked', FALSE, loadedFor)

SwitchWorkspace(w) ==
    /\ w # workspace
    /\ Move
    /\ workspace' = w
    /\ UNCHANGED <<typed, searched, page>>
    /\ Ask
    /\ UNCHANGED <<pending, owned, act, members, invitations, failed>>

\* Typing goes back to the first page at once; the search follows later.
TypeSearch(s) ==
    /\ s # typed
    /\ Move
    /\ typed' = s /\ page' = 1
    /\ UNCHANGED <<workspace, searched>>
    /\ IF page = 1 THEN UNCHANGED <<load, loadedFor, loading>> ELSE Ask
    /\ UNCHANGED <<pending, owned, act, members, invitations, failed>>

Debounce ==
    /\ searched # typed
    /\ searched' = typed
    /\ UNCHANGED <<workspace, typed, page>>
    /\ Ask
    /\ UNCHANGED <<pending, owned, act, members, invitations, failed, moves>>

TurnPage(p) ==
    /\ members # None /\ p # page
    /\ Move
    /\ page' = p
    /\ UNCHANGED <<workspace, typed, searched>>
    /\ Ask
    /\ UNCHANGED <<pending, owned, act, members, invitations, failed>>

\* ErrorState's button.
Retry ==
    /\ failed /\ ~loading
    /\ Move
    /\ Begin(load, Asked, FALSE, loadedFor)
    /\ UNCHANGED <<pending, owned, question, act, members, invitations, failed>>
----------------------------------------------------------------------------
(***************************************************************************)
(* Loads                                                                   *)
(***************************************************************************)
\* The API answers both listings, or one of them fails and Promise.all with it.
ServeLoad(l) ==
    /\ load[l].step = "asked"
    /\ \/ load' = [load EXCEPT ![l].step = "served",
                       ![l].answer = IF load[l].invited THEN pending[load[l].question.workspace]
                                     ELSE {}]
       \/ load' = [load EXCEPT ![l].step = "failed"]
    /\ UNCHANGED <<pending, owned, question, act, shown, moves>>

Unmarked(l) == load[l].invited          \* mutant: whatever workspace is awaited

\* The invitations of this load are still those that the page waits for.
Awaited(l) == load[l].invited /\ loadedFor = load[l].question.workspace

AnyLoad(l) == TRUE                      \* mutant: requestId is not compared

IsLatest(l) == load[l].latest

SpinsOn(l) == FALSE                     \* mutant: an error leaves the spinner

StopsSpinner(l) == IsLatest(l)

TakeAnswer(l) ==
    /\ load[l].step = "served"
    /\ invitations' = IF Awaited(l)
                      THEN [workspace : {load[l].question.workspace},
                            address : load[l].answer, by : {"listing"}]
                      ELSE invitations
    /\ IF IsLatest(l)
       THEN members' = [question |-> load[l].question, byAct |-> load[l].byAct]
            /\ failed' = FALSE /\ loading' = FALSE
       ELSE UNCHANGED <<members, failed, loading>>
    /\ load' = [load EXCEPT ![l] = NoLoad]
    /\ UNCHANGED <<pending, owned, question, act, loadedFor, moves>>

TakeFailure(l) ==
    /\ load[l].step = "failed"
    /\ loadedFor' = IF Awaited(l) THEN None ELSE loadedFor
    /\ failed' = (failed \/ IsLatest(l))
    /\ loading' = (loading /\ ~StopsSpinner(l))
    /\ load' = [load EXCEPT ![l] = NoLoad]
    /\ UNCHANGED <<pending, owned, question, act, members, invitations, moves>>
----------------------------------------------------------------------------
(***************************************************************************)
(* The owner's actions                                                     *)
(***************************************************************************)
\* Rows, and the buttons on them, are there when the list is.
RowsShown == ~loading /\ ~failed /\ members # None

Send(a, kind, of) ==
    /\ act[a] = NoAct
    /\ Move
    /\ act' = [act EXCEPT ![a] = [step |-> "sent", kind |-> kind, question |-> Asked,
                                  of |-> of]]
    /\ UNCHANGED <<pending, owned, question, load, shown>>

InviteGuest(a, address) ==
    /\ IsOwner(workspace)
    /\ \A b \in Acts : act[b] # NoAct => act[b].kind # "invite"       \* inviting
    /\ Send(a, "invite", [workspace |-> workspace, address |-> address])

\* Whatever invitation is shown has its button, and the request names the
\* workspace that is active now.
RevokeInvitation(a, i) ==
    /\ RowsShown
    /\ i \in invitations
    /\ Send(a, "revoke", [workspace |-> i.workspace, address |-> i.address])

\* removeMember and updateMemberRole: offered to owners, and both reload.
ManageMember(a) ==
    /\ RowsShown
    /\ IsOwner(workspace)
    /\ Send(a, "manage", None)

ServeAct(a) ==
    /\ act[a].step = "sent"
    /\ LET w == act[a].question.workspace
           of == act[a].of
           allowed == /\ IsOwner(w)
                      /\ act[a].kind = "invite" => of.address \notin pending[w]
                      /\ act[a].kind = "revoke" => of.workspace = w /\ of.address \in pending[w]
       IN  \/ /\ allowed
              /\ pending' = CASE act[a].kind = "invite" ->
                                    [pending EXCEPT ![w] = @ \cup {of.address}]
                              [] act[a].kind = "revoke" ->
                                    [pending EXCEPT ![w] = @ \ {of.address}]
                              [] act[a].kind = "manage" -> pending
              /\ act' = [act EXCEPT ![a].step = "served"]
           \/ act' = [act EXCEPT ![a].step = "failed"] /\ UNCHANGED pending
    /\ UNCHANGED <<owned, question, load, shown, moves>>

\* The guest answers an invitation.
GuestAnswers(w, address) ==
    /\ address \in pending[w]
    /\ Move
    /\ pending' = [pending EXCEPT ![w] = @ \ {address}]
    /\ UNCHANGED <<owned, question, load, act, shown>>

\* inviteGuest appends to the invitations of whatever workspace is active by now.
FinishInvite(a) ==
    /\ act[a].step = "served" /\ act[a].kind = "invite"
    /\ invitations' = invitations \cup
           {[workspace |-> act[a].of.workspace, address |-> act[a].of.address, by |-> "invite"]}
    /\ act' = [act EXCEPT ![a] = NoAct]
    /\ UNCHANGED <<pending, owned, question, load, members, loadedFor, loading, failed, moves>>

FinishRevoke(a) ==
    /\ act[a].step = "served" /\ act[a].kind = "revoke"
    /\ invitations' = {i \in invitations : i.workspace # act[a].of.workspace
                                            \/ i.address # act[a].of.address}
    /\ act' = [act EXCEPT ![a] = NoAct]
    /\ UNCHANGED <<pending, owned, question, load, members, loadedFor, loading, failed, moves>>

\* The load of the render in which the user clicked, whatever is asked by now.
FinishManage(a) ==
    /\ act[a].step = "served" /\ act[a].kind = "manage"
    /\ Begin(load, act[a].question, TRUE, loadedFor)
    /\ act' = [act EXCEPT ![a] = NoAct]
    /\ UNCHANGED <<pending, owned, question, members, invitations, failed, moves>>

FailAct(a) ==
    /\ act[a].step = "failed"
    /\ act' = [act EXCEPT ![a] = NoAct]
    /\ UNCHANGED <<pending, owned, question, load, shown, moves>>
----------------------------------------------------------------------------
LoadStep(l) == ServeLoad(l) \/ TakeAnswer(l) \/ TakeFailure(l)
ActStep(a) == ServeAct(a) \/ FinishInvite(a) \/ FinishRevoke(a) \/ FinishManage(a) \/ FailAct(a)

Next ==
    \/ \E w \in Workspaces : SwitchWorkspace(w) \/ \E x \in Addresses : GuestAnswers(w, x)
    \/ \E s \in Searches : TypeSearch(s)
    \/ Debounce
    \/ \E p \in Pages : TurnPage(p)
    \/ Retry
    \/ \E l \in Loads : LoadStep(l)
    \/ \E a \in Acts :
          \/ ActStep(a)
          \/ \E x \in Addresses : InviteGuest(a, x)
          \/ \E i \in invitations : RevokeInvitation(a, i)
          \/ ManageMember(a)

Spec == Init /\ [][Next]_vars

\* fetch settles and the event loop runs what waits for it.
FairSpec == Spec /\ \A l \in Loads : WF_vars(LoadStep(l)) /\ \A a \in Acts : WF_vars(ActStep(a))
----------------------------------------------------------------------------
(***************************************************************************)
(* Properties                                                              *)
(***************************************************************************)
\* When the page shows members without a spinner or an error, they are those of
\* the workspace, search and page that are set, or else the list of an act that
\* was clicked in an earlier render (whose stale load is the one way round the
\* latestMemberRequest guard).
MembersAnswerQuestion ==
    RowsShown => members.byAct \/ members.question = Asked

\* Once no load is under way and the page has marked the workspace as loaded,
\* the invitations it holds are this workspace's, unless inviteGuest appended
\* one that was sent for the workspace the user has left.
InvitationsOfWorkspace ==
    (\A l \in Loads : load[l] = NoLoad) /\ loadedFor = workspace =>
        \A i \in invitations : i.workspace = workspace \/ i.by = "invite"

\* The spinner ends, however loads overtake one another and fail.
SpinnerEnds == []<>~loading
=============================================================================
