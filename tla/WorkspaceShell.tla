--------------------------- MODULE WorkspaceShell ---------------------------
(***************************************************************************)
(* What surrounds every page of a signed-in user: the list of workspaces   *)
(* and the active one (App.tsx, AuthenticatedApp and AppShell), the inbox  *)
(* of invitations (InvitationInbox.tsx), and the two actions of the        *)
(* workspace page that change the list (createWorkspace, deleteWorkspace). *)
(*                                                                         *)
(* A task is one asynchronous function in progress.  Its call is under     *)
(* way, is served, and its answer arrives; an accepted invitation, a       *)
(* creation and a deletion go on with refreshWorkspaces.  Neither list has *)
(* a guard against answers that overtake one another.  A workspace's       *)
(* number is its place in the API's order, which is by name.               *)
(***************************************************************************)
EXTENDS Naturals, FiniteSets, FiniteSetsExt

CONSTANTS
    Workspaces,
    Owned,       \* the workspaces that this user owns or would own
    Unmade,      \* those of them that do not exist at first
    Tasks,       \* slots for what is in progress at once
    MaxMoves,    \* bound on what the user and others do
    None

ASSUME ShellAssumption ==
    /\ Workspaces \subseteq Nat /\ IsFiniteSet(Workspaces) /\ Owned \subseteq Workspaces
    /\ Unmade \subseteq Owned
    /\ MaxMoves \in Nat /\ None \notin Workspaces

VARIABLES
    mine,       \* the workspaces of which the user is a member, on the server
    invited,    \* those with a pending invitation to the user, on the server
    unmade,     \* the workspaces that have not been created yet
    version,    \* counts the changes of the three
    session,    \* auth.workspace: the first workspace when the session was restored
    workspaces, \* the state of that name
    activeId,   \* activeWorkspaceId
    listedAt,   \* the version that workspaces shows, 0 for none
    items,      \* the invitations in the inbox
    itemsAt,    \* the version that items shows, 0 for none
    open, loading, failed,   \* of the inbox
    actingId,   \* the invitation whose buttons are disabled
    task,       \* task[t]: what is in progress in slot t
    answered,   \* invitations that this user answered with success, until invited again
    overtaken,  \* what came too late: a list older than the one it replaced, or
                \* a creation's list without the workspace, deleted meanwhile
    missed,     \* a call failed
    homeless,   \* the user was without a workspace for a time
    moves       \* what the user and others have done so far

server == <<mine, invited, unmade, version>>
lists == <<session, workspaces, activeId, listedAt>>
inbox == <<items, itemsAt, open, loading, failed, actingId>>
history == <<answered, overtaken, missed, homeless>>
shellVars == <<server, lists, inbox, task, history, moves>>
----------------------------------------------------------------------------
Kinds == {"restore", "accept", "decline", "create", "delete", "inbox"}

\* call: the request itself ("sent", "served") or the refresh of the list of
\* workspaces that follows ("refreshing", "refreshed").
NoTask == [step |-> "none"]
TaskState == {NoTask} \cup
    [step : {"sent", "served", "refreshing", "refreshed", "failed"}, kind : Kinds,
     of : Workspaces \cup {None}, answer : SUBSET Workspaces, at : Nat]

ShellTypeOK ==
    /\ mine \subseteq Workspaces /\ invited \subseteq Workspaces \ mine
    /\ unmade \subseteq Unmade
    /\ version \in 1..(MaxMoves + 1)
    /\ session \in Workspaces
    /\ workspaces \subseteq Workspaces
    /\ activeId \in Workspaces \cup {None}
    /\ listedAt \in 0..version /\ itemsAt \in 0..version
    /\ items \subseteq Workspaces
    /\ open \in BOOLEAN /\ loading \in BOOLEAN /\ failed \in BOOLEAN
    /\ actingId \in Workspaces \cup {None}
    /\ task \in [Tasks -> TaskState]
    /\ answered \subseteq Workspaces
    /\ overtaken \subseteq {"workspaces", "items", "creation"}
    /\ missed \in BOOLEAN /\ homeless \in BOOLEAN
    /\ moves \in 0..MaxMoves

\* workspaces.find(activeWorkspaceId) ?? auth.workspace: what every page gets to see.
Shown == IF activeId \in workspaces THEN activeId ELSE session

\* The options of the workspace menu.
Available == IF workspaces # {} THEN workspaces ELSE {session}

Begun(step, kind, w) == [step |-> step, kind |-> kind, of |-> w, answer |-> {}, at |-> 0]

\* The session has just been restored: its effect refreshes the list, and the
\* inbox mounts and loads.
ShellInit ==
    /\ mine \in (SUBSET (Workspaces \ Unmade)) \ {{}}
    /\ invited \in SUBSET (Workspaces \ (mine \cup Owned))
    /\ unmade = Unmade
    /\ version = 1
    /\ session = Min(mine)
    /\ workspaces = {} /\ activeId = None /\ listedAt = 0
    /\ items = {} /\ itemsAt = 0
    /\ open = FALSE /\ loading = TRUE /\ failed = FALSE
    /\ actingId = None
    /\ \E t, u \in Tasks :
          /\ t # u
          /\ task = [k \in Tasks |-> CASE k = t -> Begun("refreshing", "restore", None)
                                       [] k = u -> Begun("sent", "inbox", None)
                                       [] OTHER -> NoTask]
    /\ answered = {} /\ overtaken = {} /\ missed = FALSE /\ homeless = FALSE
    /\ moves = 0
----------------------------------------------------------------------------
(***************************************************************************)
(* What the user begins                                                    *)
(***************************************************************************)
Move == moves < MaxMoves /\ moves' = moves + 1

StartTask(t, step, kind, w) ==
    /\ task[t] = NoTask
    /\ Move
    /\ task' = [task EXCEPT ![t] = Begun(step, kind, w)]

\* The menu offers only listed workspaces.
SwitchWorkspace(w) ==
    /\ w \in Available /\ w # Shown
    /\ Move
    /\ activeId' = w
    /\ UNCHANGED <<server, session, workspaces, listedAt, inbox, task, history>>

\* The inbox's button, which loads when it opens.
OpenInbox(t) ==
    /\ ~open
    /\ StartTask(t, "sent", "inbox", None)
    /\ open' = TRUE
    /\ UNCHANGED <<server, lists, items, itemsAt, loading, failed, actingId, history>>

RetryInbox(t) ==
    /\ open /\ failed /\ ~loading
    /\ StartTask(t, "sent", "inbox", None)
    /\ UNCHANGED <<server, lists, inbox, history>>

CloseInbox ==
    /\ open
    /\ Move
    /\ open' = FALSE
    /\ UNCHANGED <<server, lists, items, itemsAt, loading, failed, actingId, task, history>>

\* Only the buttons of the invitation that acted last are disabled.
AnswerInvitation(t, kind, w) ==
    /\ open /\ ~loading /\ ~failed
    /\ w \in items /\ w # actingId
    /\ StartTask(t, "sent", kind, w)
    /\ actingId' = w
    /\ UNCHANGED <<server, lists, items, itemsAt, open, loading, failed, history>>

\* The page's form is disabled while it creates, but who has left the page and come back
\* may create another workspace.
CreateMine(t, w) ==
    /\ w \in unmade
    /\ \A k \in Tasks : task[k] # NoTask /\ task[k].kind = "create" => task[k].of # w
    /\ StartTask(t, "sent", "create", w)
    /\ UNCHANGED <<server, lists, inbox, history>>

DeleteShown(t) ==
    /\ Shown \in Owned
    /\ StartTask(t, "sent", "delete", Shown)
    /\ UNCHANGED <<server, lists, inbox, history>>

\* Somebody else invites the user, or takes an invitation back.
OthersInvite(w) ==
    /\ w \notin mine \cup Owned
    /\ Move
    /\ invited' = IF w \in invited THEN invited \ {w} ELSE invited \cup {w}
    /\ version' = version + 1
    /\ answered' = answered \ {w}
    /\ UNCHANGED <<mine, unmade, lists, inbox, task, overtaken, missed, homeless>>
----------------------------------------------------------------------------
(***************************************************************************)
(* The API                                                                 *)
(***************************************************************************)
Listing(t, step, set) ==
    task' = [task EXCEPT ![t].step = step, ![t].answer = set, ![t].at = version]

Fail(t) ==
    /\ task[t].step \in {"sent", "served", "refreshing"}
    /\ task' = [task EXCEPT ![t].step = "failed"]
    /\ missed' = TRUE
    /\ UNCHANGED <<server, lists, inbox, answered, overtaken, homeless, moves>>

ServeInbox(t) ==
    /\ task[t].step = "sent" /\ task[t].kind = "inbox"
    /\ Listing(t, "served", invited)
    /\ UNCHANGED <<server, lists, inbox, history, moves>>

\* authApi.workspaces, for any of the tasks that refresh
ServeRefresh(t) ==
    /\ task[t].step = "refreshing"
    /\ Listing(t, "refreshed", mine)
    /\ UNCHANGED <<server, lists, inbox, history, moves>>

Changes(t, members, invitations) ==
    /\ mine' = members /\ invited' = invitations /\ unmade' = unmade \ members
    /\ version' = version + 1
    /\ task' = [task EXCEPT ![t].step = "served", ![t].at = version + 1]
    /\ answered' = IF task[t].kind \in {"accept", "decline"} THEN answered \cup {task[t].of}
                   ELSE answered
    /\ homeless' = (homeless \/ members = {})
    /\ UNCHANGED <<lists, inbox, overtaken, missed, moves>>

StillInvited(w) == invited              \* mutant: accepting leaves the invitation pending

Uninvited(w) == invited \ {w}

ServeAct(t) ==
    LET w == task[t].of
    IN  /\ task[t].step = "sent"
        /\ \/ task[t].kind = "accept" /\ w \in invited /\ Changes(t, mine \cup {w}, Uninvited(w))
           \/ task[t].kind = "decline" /\ w \in invited /\ Changes(t, mine, Uninvited(w))
           \/ task[t].kind = "create" /\ w \in unmade /\ Changes(t, mine \cup {w}, invited)
           \/ task[t].kind = "delete" /\ w \in mine /\ Changes(t, mine \ {w}, invited)
----------------------------------------------------------------------------
(***************************************************************************)
(* Answers                                                                 *)
(***************************************************************************)
Older(list, at, than) == IF at < than THEN overtaken \cup {list} ELSE overtaken

TakeInbox(t) ==
    /\ task[t].step = "served" /\ task[t].kind = "inbox"
    /\ items' = task[t].answer /\ itemsAt' = task[t].at
    /\ failed' = FALSE /\ loading' = FALSE
    /\ overtaken' = Older("items", task[t].at, itemsAt)
    /\ task' = [task EXCEPT ![t] = NoTask]
    /\ UNCHANGED <<server, lists, open, actingId, answered, missed, homeless, moves>>

Unfiltered(t) == items                  \* mutant: the answered one stays listed

Remaining(t) == items \ {task[t].of}

\* The invitation leaves the inbox; accepting goes on with the list of workspaces.
TakeInvitationAnswer(t) ==
    /\ task[t].step = "served" /\ task[t].kind \in {"accept", "decline"}
    /\ items' = Remaining(t)
    /\ itemsAt' = task[t].at
    /\ overtaken' = Older("items", task[t].at, itemsAt)
    /\ IF task[t].kind = "accept"
       THEN task' = [task EXCEPT ![t].step = "refreshing"] /\ UNCHANGED actingId
       ELSE task' = [task EXCEPT ![t] = NoTask] /\ actingId' = None
    /\ UNCHANGED <<server, lists, open, loading, failed, answered, missed, homeless, moves>>

TakeChange(t) ==
    /\ task[t].step = "served" /\ task[t].kind \in {"create", "delete"}
    /\ task' = [task EXCEPT ![t].step = "refreshing"]
    /\ UNCHANGED <<server, lists, inbox, history, moves>>

StaysPut(kind, of, list) ==             \* mutant: a deletion does not switch
    CASE kind = "create" -> of
      [] kind = "restore" -> IF activeId \in list THEN activeId ELSE session
      [] OTHER -> activeId

\* The workspace that is active once the list has arrived.
NextActive(kind, of, list) ==
    CASE kind = "create" -> of
      [] kind = "delete" -> IF list # {} THEN Min(list) ELSE activeId
      [] kind = "restore" -> IF activeId \in list THEN activeId ELSE session
      [] OTHER -> activeId

TakeRefresh(t) ==
    /\ task[t].step = "refreshed"
    /\ workspaces' = task[t].answer /\ listedAt' = task[t].at
    /\ activeId' = NextActive(task[t].kind, task[t].of, task[t].answer)
    /\ overtaken' = Older("workspaces", task[t].at, listedAt)
                      \cup IF task[t].kind = "create" /\ task[t].of \notin task[t].answer
                            THEN {"creation"} ELSE {}
    /\ actingId' = IF task[t].kind = "accept" THEN None ELSE actingId
    /\ task' = [task EXCEPT ![t] = NoTask]
    /\ UNCHANGED <<server, session, items, itemsAt, open, loading, failed>>
    /\ UNCHANGED <<answered, missed, homeless, moves>>

\* finally: setActingId(undefined), whichever invitation it holds.
ReleasedBy(t) == IF task[t].kind \in {"accept", "decline"} THEN None ELSE actingId

TakeFailure(t) ==
    /\ task[t].step = "failed"
    /\ failed' = (failed \/ task[t].kind = "inbox")
    /\ loading' = (loading /\ task[t].kind # "inbox")
    /\ actingId' = ReleasedBy(t)
    /\ task' = [task EXCEPT ![t] = NoTask]
    /\ UNCHANGED <<server, lists, items, itemsAt, open, history, moves>>
----------------------------------------------------------------------------
TaskStep(t) ==
    \/ ServeInbox(t) \/ ServeRefresh(t) \/ ServeAct(t) \/ Fail(t)
    \/ TakeInbox(t) \/ TakeInvitationAnswer(t) \/ TakeChange(t) \/ TakeRefresh(t) \/ TakeFailure(t)

ShellNext ==
    \/ \E w \in Workspaces : SwitchWorkspace(w) \/ OthersInvite(w)
    \/ CloseInbox
    \/ \E t \in Tasks :
          \/ TaskStep(t) \/ OpenInbox(t) \/ RetryInbox(t) \/ DeleteShown(t)
          \/ \E w \in Workspaces :
                \/ CreateMine(t, w)
                \/ AnswerInvitation(t, "accept", w) \/ AnswerInvitation(t, "decline", w)

ShellSpec == ShellInit /\ [][ShellNext]_shellVars
----------------------------------------------------------------------------
(***************************************************************************)
(* Properties                                                              *)
(***************************************************************************)
AtRest == \A t \in Tasks : task[t] = NoTask

\* At rest, if no call failed and nothing came too late, the menu has the user's
\* workspaces and the user is in one of them, whatever was created, joined or
\* deleted, in whatever order.  Who has been without any (and sees the deleted
\* one for want of another) may stay there after joining one.
InWorkspaceOfTheirs ==
    AtRest /\ ~missed /\ overtaken \subseteq {"items"} =>
        workspaces = mine /\ (homeless \/ Shown \in mine)

\* An invitation that the user has answered leaves the inbox for good with the
\* end of the task, if no call failed and no older answer replaced the list.
AnsweredLeavesInbox ==
    "items" \notin overtaken /\ ~missed =>
        \A w \in items \cap answered : \E t \in Tasks : task[t] # NoTask /\ task[t].of = w
=============================================================================
