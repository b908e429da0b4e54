---------------------------- MODULE Membership -----------------------------
(***************************************************************************)
(* Membership of one workspace: the rows of workspaces,                    *)
(* workspace_memberships and workspace_invitations that one workspace      *)
(* owns, and the requests that read and write them.                        *)
(*                                                                         *)
(* Every handler of routes/workspaces.py and routes/invitations.py runs in *)
(* a worker thread with a PostgreSQL transaction of its own (READ          *)
(* COMMITTED, the default of create_engine in db/session.py).  A request   *)
(* is therefore a sequence of steps: each SELECT sees what is committed at *)
(* that moment, nothing it writes is visible before its commit, and the    *)
(* commit writes only the columns whose value differs from the one the ORM *)
(* loaded.  SELECT ... FOR UPDATE waits for the row and evaluates its      *)
(* WHERE clause again once it holds it.                                    *)
(*                                                                         *)
(* An invitation row is found by its address, of which there is one per    *)
(* user (uq_workspace_invitation_workspace_email); its id tells a row from *)
(* one inserted for the same address after the first was revoked.          *)
(***************************************************************************)
EXTENDS Naturals, FiniteSets

CONSTANTS
    Users,          \* people, each with one normalized email address
    Requests,       \* requests that may be in progress at the same time
    MemberCap,      \* settings.workspace_member_cap
    MaxInvitations, \* bound on the invitation rows ever inserted
    NoUser          \* the target of a request that has none

ASSUME UsersAssumption == IsFiniteSet(Users) /\ NoUser \notin Users
ASSUME CapAssumption == MemberCap \in Nat \ {0}
ASSUME BoundAssumption == MaxInvitations \in Nat

VARIABLES
    workspace,   \* "absent", "active" or "deleted" (deleted_at is set)
    registered,  \* users with a row in users
    role,        \* role[u]: column role of u's membership row, "none" if no row
    active,      \* users whose membership row has removed_at IS NULL
    invitation,  \* invitation[u]: the row addressed to u
    lastId,      \* id of the invitation row inserted last
    request      \* request[r]: what request r does and has read so far

vars == <<workspace, registered, role, active, invitation, lastId, request>>
----------------------------------------------------------------------------
Roles == {"owner", "admin", "member"}

\* WorkspaceMemberRoleUpdate.role: the owner role cannot be assigned.
AssignableRoles == {"admin", "member"}

\* stamped: which of accepted_at and declined_at is not NULL.
Answers == {"accepted", "declined"}

InvitationRow == [id : 0..MaxInvitations, stamped : SUBSET Answers]

NoInvitation == [id |-> 0, stamped |-> {}]

Unanswered(row) == row.id # 0 /\ row.stamped = {}

Pending(u) == Unanswered(invitation[u])

\* The steps of invite_member, accept_invitation, revoke_invitation,
\* remove_member, update_member_role and delete_workspace, each named for
\* what it does next.
Steps == {"idle",
          "invite_count", "invite_member", "invite_lookup", "invite_write",
          "accept_lock", "accept_admit", "accept_member", "accept_cap",
          "accept_join", "accept_again",
          "revoke", "remove_read", "remove_write", "role_read", "role_write",
          "delete"}

\* row: the invitation row loaded or asked for; role: the role of the
\* membership row an acceptance loaded, or the payload of a role update.
RequestState == [step : Steps, user : Users \cup {NoUser}, row : InvitationRow,
                 role : Roles \cup {"none"}]

Idle == [step |-> "idle", user |-> NoUser, row |-> NoInvitation, role |-> "none"]

TypeOK ==
    /\ workspace \in {"absent", "active", "deleted"}
    /\ registered \subseteq Users
    /\ role \in [Users -> Roles \cup {"none"}]
    /\ active \subseteq {u \in Users : role[u] # "none"}
    /\ invitation \in [Users -> InvitationRow]
    /\ lastId \in 0..MaxInvitations
    /\ request \in [Requests -> RequestState]

Init ==
    /\ workspace = "absent"
    /\ registered = {}
    /\ role = [u \in Users |-> "none"]
    /\ active = {}
    /\ invitation = [u \in Users |-> NoInvitation]
    /\ lastId = 0
    /\ request = [r \in Requests |-> Idle]
----------------------------------------------------------------------------
\* Request r goes on to its next step, or ends (with a response, or with an
\* error that rolls its transaction back).
Continue(r, step) == request' = [request EXCEPT ![r].step = step]

End(r) == request' = [request EXCEPT ![r] = Idle]

Start(r, step, u, row, newRole) ==
    /\ request[r].step = "idle"
    /\ request' = [request EXCEPT ![r] =
           [step |-> step, user |-> u, row |-> row, role |-> newRole]]

\* The row locks an acceptance holds until it ends.
HoldsWorkspace == {"accept_member", "accept_cap", "accept_join", "accept_again"}
HoldsInvitation == {"accept_admit"} \cup HoldsWorkspace

NoInvitationLock(u) == TRUE     \* mutant: no with_for_update

InvitationFree(u) ==
    \A r \in Requests : request[r].user = u => request[r].step \notin HoldsInvitation

NoWorkspaceLock == TRUE         \* mutant: no with_for_update

WorkspaceFree == \A r \in Requests : request[r].step \notin HoldsWorkspace

CapReached == Cardinality(active) >= MemberCap

\* lock_workspace_for_admission returns a row.
WorkspaceKnown == workspace # "absent"     \* mutant: no test of deleted_at

WorkspaceOpen == workspace = "active"

\* get_user_by_email and get_active_membership both find a row.
MemberUnchecked(u) == FALSE     \* mutant: existing members are not refused

ExistingMember(u) == u \in registered \cap active

\* The member that remove_member and update_member_role may change.
AnyMember(u) == u \in active    \* mutant: owners are not refused

Manageable(u) == u \in active /\ role[u] # "owner"
----------------------------------------------------------------------------
\* A user row appears: RegistrationService.verify.
Register(u) ==
    /\ u \notin registered
    /\ registered' = registered \cup {u}
    /\ UNCHANGED <<workspace, role, active, invitation, lastId, request>>

CreateWorkspace(u) ==
    /\ workspace = "absent"
    /\ u \in registered
    /\ workspace' = "active"
    /\ role' = [role EXCEPT ![u] = "owner"]
    /\ active' = {u}
    /\ UNCHANGED <<registered, invitation, lastId, request>>

\* require_active_workspace_membership and _require_owner: they read the
\* workspace and the caller's membership once, when the request begins.
OwnerCalls == workspace = "active" /\ \E actor \in active : role[actor] = "owner"

StartOwnerRequest(r, step, u, row, newRole) ==
    /\ OwnerCalls
    /\ Start(r, step, u, row, newRole)
    /\ UNCHANGED <<workspace, registered, role, active, invitation, lastId>>
----------------------------------------------------------------------------
(***************************************************************************)
(* invite_member.  None of its reads locks anything.                       *)
(***************************************************************************)
StartInvite(r, u) == StartOwnerRequest(r, "invite_count", u, NoInvitation, "none")

InviteCount(r) ==
    /\ request[r].step = "invite_count"
    /\ IF CapReached THEN End(r) ELSE Continue(r, "invite_member")
    /\ UNCHANGED <<workspace, registered, role, active, invitation, lastId>>

InviteMemberRead(r) ==
    /\ request[r].step = "invite_member"
    /\ IF ExistingMember(request[r].user)
       THEN End(r)
       ELSE Continue(r, "invite_lookup")
    /\ UNCHANGED <<workspace, registered, role, active, invitation, lastId>>

InviteLookup(r) ==
    LET u == request[r].user IN
    /\ request[r].step = "invite_lookup"
    /\ IF Pending(u)
       THEN End(r)
       ELSE request' = [request EXCEPT ![r].step = "invite_write",
                                       ![r].row = invitation[u]]
    /\ UNCHANGED <<workspace, registered, role, active, invitation, lastId>>

\* No row was found: INSERT.  Its foreign key takes a share lock on the
\* workspace row, so it waits for an acceptance in progress; a row inserted
\* meanwhile raises IntegrityError.
InviteInsert(r) ==
    LET u == request[r].user IN
    /\ request[r].step = "invite_write"
    /\ request[r].row = NoInvitation
    /\ WorkspaceFree
    /\ \/ /\ invitation[u].id = 0
          /\ lastId < MaxInvitations
          /\ lastId' = lastId + 1
          /\ invitation' = [invitation EXCEPT ![u] = [NoInvitation EXCEPT !.id = lastId + 1]]
       \/ /\ invitation[u].id # 0
          /\ UNCHANGED <<invitation, lastId>>
    /\ End(r)
    /\ UNCHANGED <<workspace, registered, role, active>>

\* A row was found: UPDATE by its id, clearing only the timestamps that were
\* set when it was loaded.  A row revoked meanwhile raises StaleDataError.
InviteAgain(r) ==
    LET u == request[r].user
        loaded == request[r].row
    IN
    /\ request[r].step = "invite_write"
    /\ loaded # NoInvitation
    /\ InvitationFree(u)
    /\ IF invitation[u].id = loaded.id
       THEN invitation' = [invitation EXCEPT ![u].stamped = @ \ loaded.stamped]
       ELSE UNCHANGED invitation
    /\ End(r)
    /\ UNCHANGED <<workspace, registered, role, active, lastId>>
----------------------------------------------------------------------------
(***************************************************************************)
(* accept_invitation and _admit_invited_member.                            *)
(***************************************************************************)
StartAccept(r, u) ==
    /\ u \in registered
    /\ Pending(u)
    /\ Start(r, "accept_lock", u, invitation[u], "none")
    /\ UNCHANGED <<workspace, registered, role, active, invitation, lastId>>

\* get_pending_invitation_for_email ... FOR UPDATE
AcceptLock(r) ==
    LET u == request[r].user IN
    /\ request[r].step = "accept_lock"
    /\ InvitationFree(u)
    /\ IF Pending(u) /\ invitation[u].id = request[r].row.id
       THEN Continue(r, "accept_admit")
       ELSE End(r)
    /\ UNCHANGED <<workspace, registered, role, active, invitation, lastId>>

\* mutant: no answer when the workspace has been deleted meanwhile
AdmitOnlyOpen(r) ==
    /\ request[r].step = "accept_admit"
    /\ WorkspaceFree /\ WorkspaceOpen
    /\ Continue(r, "accept_member")
    /\ UNCHANGED <<workspace, registered, role, active, invitation, lastId>>

\* get_workspace, then lock_workspace_for_admission ... FOR UPDATE
AcceptAdmit(r) ==
    /\ request[r].step = "accept_admit"
    /\ WorkspaceFree
    /\ IF WorkspaceOpen THEN Continue(r, "accept_member") ELSE End(r)
    /\ UNCHANGED <<workspace, registered, role, active, invitation, lastId>>

AcceptMemberRead(r) ==
    LET u == request[r].user IN
    /\ request[r].step = "accept_member"
    /\ request' = [request EXCEPT
           ![r].step = IF u \in active THEN "accept_again" ELSE "accept_cap",
           ![r].role = role[u]]
    /\ UNCHANGED <<workspace, registered, role, active, invitation, lastId>>

AcceptCap(r) ==
    /\ request[r].step = "accept_cap"
    /\ IF CapReached THEN End(r) ELSE Continue(r, "accept_join")
    /\ UNCHANGED <<workspace, registered, role, active, invitation, lastId>>

\* The commit inserts the membership, or updates the columns role and
\* removed_at as far as they differ from what was loaded.
RoleKept(r) == role[request[r].user]     \* mutant: the role is not written

AdmittedRole(r) ==
    IF request[r].role # "member" THEN "member" ELSE role[request[r].user]

AcceptCommit(r) ==
    LET u == request[r].user IN
    /\ role' = [role EXCEPT ![u] = AdmittedRole(r)]
    /\ invitation' = [invitation EXCEPT ![u].stamped = @ \cup {"accepted"}]
    /\ End(r)
    /\ UNCHANGED <<workspace, registered, lastId>>

\* The membership was missing or removed when it was read ...
AcceptJoin(r) ==
    /\ request[r].step = "accept_join"
    /\ active' = active \cup {request[r].user}
    /\ AcceptCommit(r)

\* ... or active: removed_at is not written, even if it has been set since.
AcceptAgain(r) ==
    /\ request[r].step = "accept_again"
    /\ UNCHANGED active
    /\ AcceptCommit(r)
----------------------------------------------------------------------------
\* decline_invitation: one locking read and the commit.
Decline(u) ==
    /\ u \in registered
    /\ InvitationFree(u)
    /\ Pending(u)
    /\ invitation' = [invitation EXCEPT ![u].stamped = @ \cup {"declined"}]
    /\ UNCHANGED <<workspace, registered, role, active, lastId, request>>

\* revoke_invitation: the owner's request, then the locking read and DELETE.
StartRevoke(r, u) ==
    Pending(u) /\ StartOwnerRequest(r, "revoke", u, invitation[u], "none")

Revoke(r) ==
    LET u == request[r].user IN
    /\ request[r].step = "revoke"
    /\ InvitationFree(u)
    /\ IF Pending(u) /\ invitation[u].id = request[r].row.id
       THEN invitation' = [invitation EXCEPT ![u] = NoInvitation]
       ELSE UNCHANGED invitation
    /\ End(r)
    /\ UNCHANGED <<workspace, registered, role, active, lastId>>
----------------------------------------------------------------------------
\* remove_member and update_member_role read the membership without a lock
\* and refuse an owner's.
StartRemove(r, u) == StartOwnerRequest(r, "remove_read", u, NoInvitation, "none")

StartRoleUpdate(r, u, newRole) ==
    StartOwnerRequest(r, "role_read", u, NoInvitation, newRole)

RemoveRead(r) ==
    /\ request[r].step = "remove_read"
    /\ IF Manageable(request[r].user) THEN Continue(r, "remove_write") ELSE End(r)
    /\ UNCHANGED <<workspace, registered, role, active, invitation, lastId>>

RemoveWrite(r) ==
    /\ request[r].step = "remove_write"
    /\ active' = active \ {request[r].user}
    /\ End(r)
    /\ UNCHANGED <<workspace, registered, role, invitation, lastId>>

\* A payload equal to the role that was loaded writes no role.
RoleRead(r) ==
    LET u == request[r].user IN
    /\ request[r].step = "role_read"
    /\ IF Manageable(u) /\ role[u] # request[r].role
       THEN Continue(r, "role_write")
       ELSE End(r)
    /\ UNCHANGED <<workspace, registered, role, active, invitation, lastId>>

RoleWrite(r) ==
    /\ request[r].step = "role_write"
    /\ role' = [role EXCEPT ![request[r].user] = request[r].role]
    /\ End(r)
    /\ UNCHANGED <<workspace, registered, active, invitation, lastId>>

\* delete_workspace: the UPDATE waits for an admission that holds the row.
StartDelete(r) == StartOwnerRequest(r, "delete", NoUser, NoInvitation, "none")

DeleteWorkspace(r) ==
    /\ request[r].step = "delete"
    /\ WorkspaceFree
    /\ workspace' = "deleted"
    /\ End(r)
    /\ UNCHANGED <<registered, role, active, invitation, lastId>>

\* The client's connection, the worker or the database goes away before the
\* commit: the transaction is rolled back and its locks are released.
Abort(r) ==
    /\ request[r].step # "idle"
    /\ End(r)
    /\ UNCHANGED <<workspace, registered, role, active, invitation, lastId>>
----------------------------------------------------------------------------
StartRequest(r) ==
    \/ \E u \in Users : \/ StartInvite(r, u)
                        \/ StartAccept(r, u)
                        \/ StartRevoke(r, u)
                        \/ StartRemove(r, u)
                        \/ \E newRole \in AssignableRoles : StartRoleUpdate(r, u, newRole)
    \/ StartDelete(r)

\* A step that does not wait for another request.
Advance(r) ==
    \/ InviteCount(r) \/ InviteMemberRead(r) \/ InviteLookup(r)
    \/ AcceptMemberRead(r) \/ AcceptCap(r) \/ AcceptJoin(r) \/ AcceptAgain(r)
    \/ RemoveRead(r) \/ RemoveWrite(r)
    \/ RoleRead(r) \/ RoleWrite(r)

\* A step that first waits for a row lock.
AcquireLock(r) ==
    \/ InviteInsert(r) \/ InviteAgain(r)
    \/ AcceptLock(r) \/ AcceptAdmit(r)
    \/ Revoke(r) \/ DeleteWorkspace(r)

Next ==
    \/ \E u \in Users : Register(u) \/ CreateWorkspace(u) \/ Decline(u)
    \/ \E r \in Requests : StartRequest(r) \/ Advance(r) \/ AcquireLock(r) \/ Abort(r)

Spec == Init /\ [][Next]_vars

\* A worker thread that can run does run; PostgreSQL queues the waiters of a
\* row, so one that is offered the lock again and again gets it.
FairSpec ==
    /\ Spec
    /\ \A r \in Requests : WF_vars(Advance(r)) /\ SF_vars(AcquireLock(r))
----------------------------------------------------------------------------
\* The workspace never has more active members than its cap allows, whatever
\* acceptances, removals and invitations run at the same time
\* (test_concurrent_acceptances_never_exceed_the_member_cap).
MemberCapRespected == Cardinality(active) <= MemberCap

\* An owner is never removed and never loses the owner role: neither by
\* remove_member and update_member_role, which refuse owners, nor by an
\* acceptance, which writes the role "member" without looking at the old one.
OwnersStay ==
    [][\A u \in active : role[u] = "owner" => u \in active' /\ role'[u] = "owner"]_vars

\* A user becomes an active member only by creating the workspace, or while
\* the workspace is not deleted and in the very commit that turns their
\* pending invitation into an accepted one.
JoinsByInvitation ==
    [][\A u \in active' \ active :
          \/ workspace = "absent"
          \/ /\ workspace = "active"
             /\ Pending(u)
             /\ invitation'[u] = [invitation[u] EXCEPT !.stamped = {"accepted"}]]_vars

\* An invitation is answered once: no interleaving of acceptances, refusals
\* and repeated invitations leaves both accepted_at and declined_at set.
AnsweredOnce == \A u \in Users : invitation[u].stamped # Answers

\* An acceptance that waits for the invitation's row is eventually answered:
\* the two row locks are always taken in the same order.
AcceptanceEnds ==
    \A r \in Requests : request[r].step = "accept_lock" ~> request[r].step = "idle"

\* docs/domain-model.md says that only owners may manage roles: an active
\* member who stays a member changes role only by an owner's update.
OnlyOwnersChangeRoles ==
    [][\A u \in active \cap active' :
          role'[u] # role[u] =>
              \E r \in Requests : request[r].step = "role_write" /\ request[r].user = u]_vars

\* ADR 0005 says that an invitation always grants the role member: whoever
\* joins by accepting one is a plain member from that moment.
InvitationsGrantMember ==
    [][workspace # "absent" => \A u \in active' \ active : role'[u] = "member"]_vars
----------------------------------------------------------------------------
(***************************************************************************)
(* The inductive invariant behind the safety properties: what each request *)
(* may rely on at each of its steps, whatever the others do.               *)
(***************************************************************************)
\* A request past its start has a target, and a role update has a role to
\* assign; a membership row that an acceptance has read still exists.
RequestsWellFormed ==
    \A r \in Requests :
        /\ request[r].step \notin {"idle", "delete"} => request[r].user \in Users
        /\ request[r].step \in {"role_read", "role_write"} =>
               request[r].role \in AssignableRoles
        /\ request[r].step \in {"accept_cap", "accept_join", "accept_again"}
              /\ request[r].role # "none" =>
               role[request[r].user] # "none"

\* The row locks: one admission at a time, one acceptance per invitation,
\* and what the locking read returned stays true while the lock is held.
LocksHold ==
    /\ \A p, q \in Requests :
          request[p].step \in HoldsWorkspace /\ request[q].step \in HoldsWorkspace => p = q
    /\ \A p, q \in Requests :
          /\ request[p].step \in HoldsInvitation
          /\ request[q].step \in HoldsInvitation
          /\ request[p].user = request[q].user
          => p = q
    /\ \A r \in Requests :
          /\ request[r].step \in HoldsInvitation => Pending(request[r].user)
          /\ request[r].step \in HoldsWorkspace => workspace = "active"

\* An admission about to be committed still has room.
RoomForGuest ==
    \A r \in Requests :
        request[r].step = "accept_join" => Cardinality(active) < MemberCap

\* No invitation is addressed to an owner, and no request that has an owner
\* for its target gets past the read that refuses one.
OwnersUntouched ==
    \A u \in Users : role[u] = "owner" =>
        /\ u \in registered \cap active
        /\ invitation[u].id = 0
        /\ \A r \in Requests : request[r].user = u =>
              request[r].step \in {"invite_count", "invite_member", "remove_read", "role_read"}

NothingBeforeCreation ==
    workspace = "absent" =>
        /\ active = {}
        /\ \A u \in Users : invitation[u].id = 0 /\ role[u] = "none"
        /\ \A r \in Requests : request[r] = Idle

IInv ==
    /\ TypeOK
    /\ RequestsWellFormed
    /\ LocksHold
    /\ RoomForGuest
    /\ OwnersUntouched
    /\ NothingBeforeCreation
    /\ MemberCapRespected
    /\ AnsweredOnce
----------------------------------------------------------------------------
\* The roster that the rows stand for: a removed membership and a removed
\* one's role are not on it, nor is what any request has read.
AnswerOf(row) ==
    CASE row.id = 0 -> "none"
      [] Unanswered(row) -> "pending"
      [] row.id # 0 /\ "accepted" \in row.stamped -> "accepted"
      [] OTHER -> "declined"

Contract == INSTANCE Roster WITH
    open <- workspace = "active",
    founder <- {u \in Users : role[u] = "owner"},
    member <- [u \in Users |-> IF u \in active THEN role[u] ELSE "none"],
    answer <- [u \in Users |-> AnswerOf(invitation[u])]

\* Every step of every interleaving of the requests is one step of the
\* roster's contract, or changes nothing that the contract speaks of.
ImplementsRoster == Contract!RosterSpec
============================================================================
