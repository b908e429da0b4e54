-------------------------- MODULE MembershipProofs --------------------------
(***************************************************************************)
(* Proofs of Membership's safety properties for every set of users and     *)
(* requests, every member cap and every bound on the invitations, and of   *)
(* the contract: each step of the interleaved requests is a step of Roster *)
(* or changes nothing it speaks of.  Then, of what the tab of a signed-in  *)
(* user makes of it (WorkspaceShell): the workspace they are in is theirs, *)
(* and an invitation they have answered leaves the inbox.                  *)
(***************************************************************************)
EXTENDS Membership, WorkspaceShell, FiniteSetTheorems, WellFoundedInduction, TLAPS

----------------------------------------------------------------------------
\* The active members are finitely many, so their number can be compared
\* with the cap, and it changes by at most one with one member.
LEMMA ActiveCounted ==
    ASSUME TypeOK
    PROVE  /\ IsFiniteSet(active)
           /\ Cardinality(active) \in Nat
           /\ \A u : Cardinality(active \cup {u}) <= Cardinality(active) + 1
           /\ \A u : Cardinality(active \ {u}) <= Cardinality(active)
<1>1. active \in SUBSET Users
  BY DEF TypeOK
<1>2. IsFiniteSet(active) /\ Cardinality(active) \in Nat
  BY <1>1, UsersAssumption, FS_Subset, FS_CardinalityType
<1>3. \A u : Cardinality(active \cup {u}) <= Cardinality(active) + 1
  BY <1>2, FS_AddElement
<1>4. \A u : Cardinality(active \ {u}) <= Cardinality(active)
  BY <1>2, FS_RemoveElement
<1>5. QED
  BY <1>2, <1>3, <1>4

\* The values that requests and rows are set to have the declared types.
LEMMA IdleTyped == NoInvitation \in InvitationRow /\ Idle \in RequestState
BY BoundAssumption DEF NoInvitation, InvitationRow, Idle, RequestState, Steps

LEMMA StepTyped ==
    ASSUME NEW q \in RequestState, NEW step \in Steps
    PROVE  /\ [q EXCEPT !.step = step] \in RequestState
           /\ \A row \in InvitationRow :
                 [q EXCEPT !.step = step, !.row = row] \in RequestState
           /\ \A known \in Roles \cup {"none"} :
                 [q EXCEPT !.step = step, !.role = known] \in RequestState
BY DEF RequestState

\* A request's start, step and end leave every request well typed.
LEMMA RequestTyped ==
    ASSUME TypeOK, NEW r \in Requests
    PROVE  /\ End(r) => request' \in [Requests -> RequestState]
           /\ \A step \in Steps :
                 Continue(r, step) => request' \in [Requests -> RequestState]
           /\ \A step \in Steps, u \in Users \cup {NoUser}, row \in InvitationRow,
                 newRole \in Roles \cup {"none"} :
                 Start(r, step, u, row, newRole) => request' \in [Requests -> RequestState]
<1>1. End(r) => request' \in [Requests -> RequestState]
  BY IdleTyped DEF TypeOK, End
<1>2. ASSUME NEW step \in Steps, Continue(r, step)
      PROVE  request' \in [Requests -> RequestState]
  BY <1>2, StepTyped DEF TypeOK, Continue
<1>3. ASSUME NEW step \in Steps, NEW u \in Users \cup {NoUser}, NEW row \in InvitationRow,
             NEW newRole \in Roles \cup {"none"}, Start(r, step, u, row, newRole)
      PROVE  request' \in [Requests -> RequestState]
  <2>1. [step |-> step, user |-> u, row |-> row, role |-> newRole] \in RequestState
    BY DEF RequestState
  <2>2. QED
    BY <1>3, <2>1 DEF TypeOK, Start
<1>4. QED
  BY <1>1, <1>2, <1>3

LEMMA InitIInv == Init => IInv
<1> SUFFICES ASSUME Init PROVE IInv
  OBVIOUS
<1>1. TypeOK
  BY BoundAssumption, IdleTyped DEF Init, TypeOK
<1>2. RequestsWellFormed /\ LocksHold /\ RoomForGuest
  BY DEF Init, Idle, RequestsWellFormed, LocksHold, RoomForGuest,
         HoldsInvitation, HoldsWorkspace
<1>3. OwnersUntouched /\ NothingBeforeCreation /\ AnsweredOnce
  BY DEF Init, NoInvitation, Answers, OwnersUntouched, NothingBeforeCreation, AnsweredOnce
<1>4. MemberCapRespected
  BY FS_EmptySet, CapAssumption DEF Init, MemberCapRespected
<1>5. QED
  BY <1>1, <1>2, <1>3, <1>4 DEF IInv

LEMMA TypeStep == IInv /\ [Next]_vars => TypeOK'
<1> SUFFICES ASSUME IInv, [Next]_vars PROVE TypeOK'
  OBVIOUS
<1> USE DEF IInv
<1>1. ASSUME NEW u \in Users, Register(u) PROVE TypeOK'
  BY <1>1 DEF TypeOK, Register
<1>2. ASSUME NEW u \in Users, CreateWorkspace(u) PROVE TypeOK'
  BY <1>2 DEF TypeOK, CreateWorkspace, Roles, NothingBeforeCreation
<1>3. ASSUME NEW u \in Users, Decline(u) PROVE TypeOK'
  BY <1>3 DEF TypeOK, Decline, InvitationRow, Answers
<1>4. ASSUME NEW r \in Requests, StartRequest(r) PROVE TypeOK'
  <2>1. request' \in [Requests -> RequestState]
    BY <1>4, RequestTyped, IdleTyped DEF TypeOK, StartRequest, StartInvite, StartAccept, StartRevoke,
       StartRemove, StartRoleUpdate, StartDelete, StartOwnerRequest, Steps, Roles, AssignableRoles
  <2>2. UNCHANGED <<workspace, registered, role, active, invitation, lastId>>
    BY <1>4 DEF StartRequest, StartInvite, StartAccept, StartRevoke,
       StartRemove, StartRoleUpdate, StartDelete, StartOwnerRequest
  <2>3. QED
    BY <2>1, <2>2 DEF TypeOK
<1>5. ASSUME NEW r \in Requests, Advance(r) PROVE TypeOK'
  <2>1. CASE InviteCount(r) \/ InviteMemberRead(r) \/ AcceptCap(r) \/ RemoveRead(r) \/ RoleRead(r)
    BY <2>1, RequestTyped DEF InviteCount, InviteMemberRead, AcceptCap, RemoveRead, RoleRead,
       TypeOK, Steps
  <2>2. CASE InviteLookup(r)
    <3>1. "invite_write" \in Steps /\ invitation[request[r].user] \in InvitationRow
      BY <2>2 DEF InviteLookup, TypeOK, RequestsWellFormed, Steps
    <3>2. CASE Pending(request[r].user)
      BY <2>2, <3>2, RequestTyped DEF InviteLookup, TypeOK
    <3>3. CASE ~Pending(request[r].user)
      <4>1. [request[r] EXCEPT !.step = "invite_write", !.row = invitation[request[r].user]]
               \in RequestState
        BY <3>1, StepTyped DEF TypeOK
      <4>2. request' \in [Requests -> RequestState]
        BY <2>2, <3>3, <4>1 DEF InviteLookup, TypeOK
      <4>3. QED
        BY <2>2, <4>2 DEF InviteLookup, TypeOK
    <3>4. QED
      BY <3>2, <3>3
  <2>3. CASE AcceptMemberRead(r)
    <3>1. /\ {"accept_again", "accept_cap"} \subseteq Steps
          /\ role[request[r].user] \in Roles \cup {"none"}
      BY <2>3 DEF AcceptMemberRead, TypeOK, RequestsWellFormed, Steps
    <3>2. request' \in [Requests -> RequestState]
      BY <2>3, <3>1, StepTyped DEF AcceptMemberRead, TypeOK
    <3>3. QED
      BY <2>3, <3>2 DEF AcceptMemberRead, TypeOK
  <2>4. CASE AcceptJoin(r) \/ AcceptAgain(r)
    <3>1. /\ request[r].user \in Users
          /\ request[r].role # "none" => role[request[r].user] # "none"
      BY <2>4 DEF AcceptJoin, AcceptAgain, RequestsWellFormed
    <3>2. AdmittedRole(r) \in Roles
      BY <3>1 DEF AdmittedRole, TypeOK, Roles, RequestState
    <3>3. /\ role' = [role EXCEPT ![request[r].user] = AdmittedRole(r)]
          /\ active' \subseteq active \cup {request[r].user}
      BY <2>4 DEF AcceptJoin, AcceptAgain, AcceptCommit
    <3>4. /\ role' \in [Users -> Roles \cup {"none"}]
          /\ active' \subseteq {u \in Users : role'[u] # "none"}
      BY <3>1, <3>2, <3>3 DEF TypeOK, Roles
    <3>5. invitation' \in [Users -> InvitationRow]
      BY <2>4, <3>1 DEF AcceptJoin, AcceptAgain, AcceptCommit, TypeOK, InvitationRow, Answers
    <3>6. QED
      BY <2>4, <3>4, <3>5, RequestTyped DEF AcceptJoin, AcceptAgain, AcceptCommit, TypeOK
  <2>5. CASE RemoveWrite(r)
    BY <2>5, RequestTyped DEF RemoveWrite, TypeOK
  <2>6. CASE RoleWrite(r)
    BY <2>6, RequestTyped DEF RoleWrite, TypeOK, RequestsWellFormed, Roles, AssignableRoles
  <2>7. QED
    BY <1>5, <2>1, <2>2, <2>3, <2>4, <2>5, <2>6 DEF Advance
<1>6. ASSUME NEW r \in Requests, AcquireLock(r) PROVE TypeOK'
  <2>1. CASE InviteInsert(r)
    <3>1. /\ lastId' \in 0..MaxInvitations
          /\ \A id \in 0..MaxInvitations : [NoInvitation EXCEPT !.id = id] \in InvitationRow
      BY <2>1, BoundAssumption DEF InviteInsert, TypeOK, NoInvitation, InvitationRow
    <3>2. invitation' \in [Users -> InvitationRow]
      BY <2>1, <3>1 DEF InviteInsert, TypeOK, RequestsWellFormed
    <3>3. QED
      BY <2>1, <3>1, <3>2, RequestTyped DEF InviteInsert, TypeOK
  <2>2. CASE InviteAgain(r)
    BY <2>2, RequestTyped DEF InviteAgain, TypeOK, InvitationRow, RequestsWellFormed
  <2>3. CASE AcceptLock(r) \/ AcceptAdmit(r)
    BY <2>3, RequestTyped DEF AcceptLock, AcceptAdmit, TypeOK, Steps
  <2>4. CASE Revoke(r)
    BY <2>4, RequestTyped, IdleTyped DEF Revoke, TypeOK
  <2>5. CASE DeleteWorkspace(r)
    BY <2>5, RequestTyped DEF DeleteWorkspace, TypeOK
  <2>6. QED
    BY <1>6, <2>1, <2>2, <2>3, <2>4, <2>5 DEF AcquireLock
<1>7. ASSUME NEW r \in Requests, Abort(r) PROVE TypeOK'
  BY <1>7, RequestTyped DEF Abort, TypeOK
<1>8. CASE UNCHANGED vars
  BY <1>8 DEF vars, TypeOK
<1>9. QED
  BY <1>1, <1>2, <1>3, <1>4, <1>5, <1>6, <1>7, <1>8 DEF Next

----------------------------------------------------------------------------
\* A step of one request leaves the others where they are.
LEMMA OthersStay ==
    ASSUME TypeOK, NEW r \in Requests,
           StartRequest(r) \/ Advance(r) \/ AcquireLock(r) \/ Abort(r)
    PROVE  \A q \in Requests \ {r} : request'[q] = request[q]
<1>1. CASE StartRequest(r)
  BY <1>1 DEF StartRequest, StartInvite, StartAccept, StartRevoke, StartRemove,
     StartRoleUpdate, StartDelete, StartOwnerRequest, Start, TypeOK
<1>2. CASE Advance(r)
  BY <1>2 DEF Advance, InviteCount, InviteMemberRead, InviteLookup, AcceptMemberRead,
     AcceptCap, AcceptJoin, AcceptAgain, AcceptCommit, RemoveRead, RemoveWrite, RoleRead,
     RoleWrite, Continue, End, TypeOK
<1>3. CASE AcquireLock(r)
  BY <1>3 DEF AcquireLock, InviteInsert, InviteAgain, AcceptLock, AcceptAdmit, Revoke,
     DeleteWorkspace, Continue, End, TypeOK
<1>4. CASE Abort(r)
  BY <1>4 DEF Abort, End, TypeOK
<1>5. QED
  BY <1>1, <1>2, <1>3, <1>4

\* Where a started request can be, and that starting changes no row.
LEMMA Started ==
    ASSUME TypeOK, NEW r \in Requests, StartRequest(r)
    PROVE  /\ request[r].step = "idle"
           /\ UNCHANGED <<workspace, registered, role, active, invitation, lastId>>
           /\ \/ /\ request'[r].step \in {"invite_count", "remove_read"}
                 /\ request'[r].user \in Users
                 /\ workspace = "active"
              \/ /\ request'[r].step = "role_read"
                 /\ request'[r].user \in Users
                 /\ request'[r].role \in AssignableRoles
                 /\ workspace = "active"
              \/ /\ request'[r].step \in {"accept_lock", "revoke"}
                 /\ request'[r].user \in Users
                 /\ Pending(request'[r].user)
              \/ /\ request'[r].step = "delete"
                 /\ request'[r].user = NoUser
                 /\ workspace = "active"
BY DEF StartRequest, StartInvite, StartAccept, StartRevoke, StartRemove,
   StartRoleUpdate, StartDelete, StartOwnerRequest, OwnerCalls, Start, TypeOK

\* An ended request is idle.
LEMMA Ended ==
    ASSUME TypeOK, NEW r \in Requests, End(r)
    PROVE  request'[r] = Idle /\ \A q \in Requests \ {r} : request'[q] = request[q]
BY DEF End, TypeOK

\* A request that continues changes its step only.
LEMMA Continued ==
    ASSUME TypeOK, NEW r \in Requests, NEW step, Continue(r, step)
    PROVE  /\ request'[r] = [request[r] EXCEPT !.step = step]
           /\ request'[r].step = step
           /\ request'[r].user = request[r].user
           /\ request'[r].role = request[r].role
           /\ \A q \in Requests \ {r} : request'[q] = request[q]
BY DEF Continue, TypeOK, RequestState

----------------------------------------------------------------------------
\* A membership row, once there, keeps a role.
LEMMA RowsStay ==
    ASSUME IInv, [Next]_vars, NEW u \in Users, role[u] # "none"
    PROVE  role'[u] # "none"
<1>1. CASE \E c \in Users : CreateWorkspace(c)
  BY <1>1 DEF CreateWorkspace, IInv, TypeOK
<1>2. CASE \E r \in Requests : AcceptJoin(r) \/ AcceptAgain(r)
  BY <1>2 DEF AcceptJoin, AcceptAgain, AcceptCommit, AdmittedRole, IInv, TypeOK
<1>3. CASE \E r \in Requests : RoleWrite(r)
  BY <1>3 DEF RoleWrite, IInv, TypeOK, RequestsWellFormed, AssignableRoles
<1>4. CASE UNCHANGED role
  BY <1>4
<1>5. QED
  BY <1>1, <1>2, <1>3, <1>4 DEF Next, vars, Register, Decline, StartRequest, StartInvite,
     StartAccept, StartRevoke, StartRemove, StartRoleUpdate, StartDelete, StartOwnerRequest,
     Advance, InviteCount, InviteMemberRead, InviteLookup, AcceptMemberRead, AcceptCap,
     RemoveRead, RemoveWrite, RoleRead, AcquireLock, InviteInsert, InviteAgain, AcceptLock,
     AcceptAdmit, Revoke, DeleteWorkspace, Abort

LEMMA WellFormedStep == IInv /\ [Next]_vars => RequestsWellFormed'
<1> SUFFICES ASSUME IInv, [Next]_vars, NEW q \in Requests
             PROVE  /\ request'[q].step \notin {"idle", "delete"} => request'[q].user \in Users
                    /\ request'[q].step \in {"role_read", "role_write"} =>
                           request'[q].role \in AssignableRoles
                    /\ /\ request'[q].step \in {"accept_cap", "accept_join", "accept_again"}
                       /\ request'[q].role # "none"
                       => role'[request'[q].user] # "none"
  BY DEF RequestsWellFormed
<1>1. CASE request'[q] = request[q]
  BY <1>1, RowsStay DEF IInv, RequestsWellFormed
<1>2. CASE request'[q] = Idle
  BY <1>2 DEF Idle
<1>4. CASE StartRequest(q)
  BY <1>4, Started DEF IInv
<1>5. CASE Advance(q)
  <2>1. CASE InviteCount(q) \/ InviteMemberRead(q) \/ AcceptCap(q) \/ RemoveRead(q) \/ RoleRead(q)
    <3>1. TypeOK /\ role' = role
      BY <2>1 DEF InviteCount, InviteMemberRead, AcceptCap, RemoveRead, RoleRead, IInv
    <3>2. CASE End(q)
      BY <3>1, <3>2, <1>2, Ended
    <3>3. CASE Continue(q, "invite_member") \/ Continue(q, "invite_lookup")
      BY <2>1, <3>1, <3>3 DEF InviteCount, InviteMemberRead, AcceptCap, RemoveRead,
         RoleRead, IInv, RequestsWellFormed, Continue, TypeOK, RequestState
    <3>4. CASE AcceptCap(q) /\ Continue(q, "accept_join")
      BY <3>1, <3>4 DEF AcceptCap, IInv, RequestsWellFormed, Continue, TypeOK, RequestState
    <3>5. CASE RemoveRead(q) /\ Continue(q, "remove_write")
      BY <3>1, <3>5 DEF RemoveRead, IInv, RequestsWellFormed, Continue, TypeOK, RequestState
    <3>6. CASE RoleRead(q) /\ Continue(q, "role_write")
      BY <3>1, <3>6 DEF RoleRead, IInv, RequestsWellFormed, Continue, TypeOK, RequestState
    <3>7. QED
      BY <2>1, <3>2, <3>3, <3>4, <3>5, <3>6 DEF InviteCount, InviteMemberRead, AcceptCap,
         RemoveRead, RoleRead
  <2>2. CASE InviteLookup(q)
    BY <2>2, <1>2, Ended DEF InviteLookup, IInv, TypeOK, RequestState, RequestsWellFormed
  <2>3. CASE AcceptMemberRead(q)
    BY <2>3 DEF AcceptMemberRead, IInv, TypeOK, RequestState, RequestsWellFormed
  <2>4. CASE AcceptJoin(q) \/ AcceptAgain(q) \/ RemoveWrite(q) \/ RoleWrite(q)
    BY <2>4, <1>2, Ended DEF AcceptJoin, AcceptAgain, AcceptCommit, RemoveWrite, RoleWrite, IInv
  <2>5. QED
    BY <1>5, <2>1, <2>2, <2>3, <2>4 DEF Advance
<1>6. CASE AcquireLock(q)
  <2>1. CASE End(q)
    BY <2>1, <1>2, Ended DEF IInv
  <2>2. CASE AcceptLock(q) /\ Continue(q, "accept_admit")
    BY <2>2 DEF AcceptLock, IInv, RequestsWellFormed, Continue, TypeOK, RequestState
  <2>3. CASE AcceptAdmit(q) /\ Continue(q, "accept_member")
    BY <2>3 DEF AcceptAdmit, IInv, RequestsWellFormed, Continue, TypeOK, RequestState
  <2>4. QED
    BY <1>6, <2>1, <2>2, <2>3 DEF AcquireLock, InviteInsert, InviteAgain, AcceptLock,
       AcceptAdmit, Revoke, DeleteWorkspace
<1>7. CASE Abort(q)
  BY <1>7, <1>2, Ended DEF Abort, IInv
<1>8. QED
  BY <1>1, <1>4, <1>5, <1>6, <1>7, OthersStay DEF Next, vars, Register, CreateWorkspace, Decline, IInv

----------------------------------------------------------------------------
\* A request holds the workspace row because it held it before, or because
\* it has just been granted it; the same for an invitation row.
LEMMA LocksTaken ==
    ASSUME IInv, [Next]_vars, NEW q \in Requests
    PROVE  /\ request'[q].step \in HoldsWorkspace =>
                 \/ request[q].step \in HoldsWorkspace
                 \/ AcceptAdmit(q) /\ workspace = "active"
           /\ request'[q].step \in HoldsInvitation =>
                 /\ request'[q].user = request[q].user
                 /\ \/ request[q].step \in HoldsInvitation
                    \/ AcceptLock(q) /\ Pending(request[q].user)
<1> USE DEF IInv, HoldsWorkspace, HoldsInvitation
<1>1. CASE request'[q] = request[q]
  BY <1>1
<1>2. CASE request'[q] = Idle
  BY <1>2 DEF Idle
<1>3. CASE StartRequest(q)
  BY <1>3, Started
<1>4. CASE Advance(q)
  <2>1. CASE InviteCount(q) \/ InviteMemberRead(q) \/ RemoveRead(q) \/ RoleRead(q)
    BY <2>1, <1>2, Ended DEF InviteCount, InviteMemberRead, RemoveRead, RoleRead,
       Continue, TypeOK, RequestState
  <2>2. CASE InviteLookup(q)
    BY <2>2, <1>2, Ended DEF InviteLookup, TypeOK, RequestState
  <2>3. CASE AcceptMemberRead(q)
    BY <2>3 DEF AcceptMemberRead, TypeOK, RequestState
  <2>4. CASE AcceptCap(q)
    BY <2>4, <1>2, Ended DEF AcceptCap, Continue, TypeOK, RequestState
  <2>5. CASE AcceptJoin(q) \/ AcceptAgain(q) \/ RemoveWrite(q) \/ RoleWrite(q)
    BY <2>5, <1>2, Ended DEF AcceptJoin, AcceptAgain, AcceptCommit, RemoveWrite, RoleWrite
  <2>6. QED
    BY <1>4, <2>1, <2>2, <2>3, <2>4, <2>5 DEF Advance
<1>5. CASE AcquireLock(q)
  <2>1. CASE End(q)
    BY <2>1, <1>2, Ended
  <2>2. CASE AcceptLock(q) /\ Pending(request[q].user) /\ Continue(q, "accept_admit")
    BY <2>2 DEF Continue, TypeOK, RequestState
  <2>3. CASE AcceptAdmit(q) /\ Continue(q, "accept_member")
    BY <2>3, <1>2, Ended DEF AcceptAdmit, WorkspaceOpen, Continue, TypeOK, RequestState
  <2>4. QED
    BY <1>5, <2>1, <2>2, <2>3 DEF AcquireLock, InviteInsert, InviteAgain, AcceptLock,
       AcceptAdmit, Revoke, DeleteWorkspace
<1>6. CASE Abort(q)
  BY <1>6, <1>2, Ended DEF Abort
<1>7. QED
  BY <1>1, <1>3, <1>4, <1>5, <1>6, OthersStay DEF Next, vars, Register, CreateWorkspace, Decline

\* The steps that write an invitation row.
LEMMA InvitationWriters ==
    ASSUME IInv, [Next]_vars, NEW u \in Users, invitation'[u] # invitation[u]
    PROVE  \/ Decline(u)
           \/ \E r \in Requests :
                 /\ InviteAgain(r) \/ Revoke(r) \/ InviteInsert(r) \/ AcceptJoin(r)
                    \/ AcceptAgain(r)
                 /\ request[r].user = u
<1> USE DEF IInv
<1>1. \/ \E d \in Users : Decline(d)
      \/ \E r \in Requests :
            InviteAgain(r) \/ Revoke(r) \/ InviteInsert(r) \/ AcceptJoin(r) \/ AcceptAgain(r)
  BY DEF Next, vars, Register, CreateWorkspace, StartRequest, StartInvite, StartAccept,
     StartRevoke, StartRemove, StartRoleUpdate, StartDelete, StartOwnerRequest, Advance,
     InviteCount, InviteMemberRead, InviteLookup, AcceptMemberRead, AcceptCap, RemoveRead,
     RemoveWrite, RoleRead, RoleWrite, AcquireLock, AcceptLock, AcceptAdmit,
     DeleteWorkspace, Abort
<1>2. ASSUME NEW d \in Users, Decline(d) PROVE d = u
  BY <1>2 DEF Decline, TypeOK
<1>3. ASSUME NEW r \in Requests,
             InviteAgain(r) \/ Revoke(r) \/ InviteInsert(r) \/ AcceptJoin(r) \/ AcceptAgain(r)
      PROVE  request[r].user = u
  BY <1>3 DEF InviteAgain, Revoke, InviteInsert, AcceptJoin, AcceptAgain, AcceptCommit, TypeOK
<1>4. QED
  BY <1>1, <1>2, <1>3

\* An invitation row changes only while nobody holds it, or in the commit of
\* the acceptance that holds it and then lets go of it.
LEMMA InvitationMoves ==
    ASSUME IInv, [Next]_vars, NEW u \in Users, invitation'[u] # invitation[u]
    PROVE  \A q \in Requests : request'[q].user = u => request'[q].step \notin HoldsInvitation
<1> USE DEF IInv
<1> SUFFICES ASSUME NEW q \in Requests, request'[q].user = u,
                    request'[q].step \in HoldsInvitation
             PROVE  FALSE
  OBVIOUS
<1>0. /\ request[q].user = u
      /\ request[q].step \in HoldsInvitation \/ AcceptLock(q)
  BY LocksTaken
<1>1. ~AcceptLock(q)
  BY DEF AcceptLock
<1>2. request[q].step \in HoldsInvitation /\ Pending(u)
  BY <1>0, <1>1 DEF LocksHold
<1>3. CASE Decline(u)
  BY <1>0, <1>2, <1>3 DEF Decline, InvitationFree
<1>4. ASSUME NEW r \in Requests, InviteAgain(r) \/ Revoke(r), request[r].user = u
      PROVE FALSE
  BY <1>0, <1>2, <1>4 DEF InviteAgain, Revoke, InvitationFree
<1>5. ASSUME NEW r \in Requests, InviteInsert(r), request[r].user = u
      PROVE FALSE
  BY <1>2, <1>5 DEF InviteInsert, Pending, Unanswered
<1>6. ASSUME NEW r \in Requests, AcceptJoin(r) \/ AcceptAgain(r), request[r].user = u
      PROVE FALSE
  <2>1. request[r].step \in HoldsInvitation /\ request'[r] = Idle
    BY <1>6, Ended DEF AcceptJoin, AcceptAgain, AcceptCommit, HoldsInvitation, HoldsWorkspace
  <2>2. r = q
    BY <2>1, <1>0, <1>2, <1>6 DEF LocksHold
  <2>3. QED
    BY <2>1, <2>2 DEF Idle, HoldsInvitation, HoldsWorkspace
<1>7. QED
  BY <1>3, <1>4, <1>5, <1>6, InvitationWriters

\* The workspace row changes only while no admission holds it.
LEMMA WorkspaceMoves ==
    ASSUME IInv, [Next]_vars, workspace' # workspace
    PROVE  \A q \in Requests : request'[q].step \notin HoldsWorkspace
<1> USE DEF IInv
<1>1. CASE \E u \in Users : CreateWorkspace(u)
  BY <1>1 DEF CreateWorkspace, NothingBeforeCreation, Idle, HoldsWorkspace
<1>2. ASSUME NEW r \in Requests, DeleteWorkspace(r)
      PROVE  \A q \in Requests : request'[q].step \notin HoldsWorkspace
  BY <1>2, Ended DEF DeleteWorkspace, WorkspaceFree, Idle, HoldsWorkspace
<1>3. QED
  BY <1>1, <1>2 DEF Next, vars, Register, Decline, StartRequest, StartInvite, StartAccept,
     StartRevoke, StartRemove, StartRoleUpdate, StartDelete, StartOwnerRequest, Advance,
     InviteCount, InviteMemberRead, InviteLookup, AcceptMemberRead, AcceptCap, AcceptJoin,
     AcceptAgain, AcceptCommit, RemoveRead, RemoveWrite, RoleRead, RoleWrite, AcquireLock,
     InviteInsert, InviteAgain, AcceptLock, AcceptAdmit, Revoke, Abort

----------------------------------------------------------------------------
LEMMA LocksStep == IInv /\ [Next]_vars => LocksHold'
<1> SUFFICES ASSUME IInv, [Next]_vars PROVE LocksHold'
  OBVIOUS
<1> USE DEF IInv
<1>1. ASSUME NEW p \in Requests, NEW q \in Requests,
             request'[p].step \in HoldsWorkspace, request'[q].step \in HoldsWorkspace
      PROVE  p = q
  <2>1. ASSUME NEW a \in Requests, NEW b \in Requests, a # b, AcceptAdmit(a),
               request'[b].step \in HoldsWorkspace
        PROVE  FALSE
    <3>1. request'[b] = request[b]
      BY <2>1, OthersStay DEF AcquireLock
    <3>2. QED
      BY <2>1, <3>1 DEF AcceptAdmit, WorkspaceFree
  <2>2. QED
    BY <1>1, <2>1, LocksTaken DEF LocksHold
<1>2. ASSUME NEW p \in Requests, NEW q \in Requests, request'[p].user = request'[q].user,
             request'[p].step \in HoldsInvitation, request'[q].step \in HoldsInvitation
      PROVE  p = q
  <2>1. ASSUME NEW a \in Requests, NEW b \in Requests, a # b, AcceptLock(a),
               request[a].user = request[b].user, request'[b].step \in HoldsInvitation
        PROVE  FALSE
    <3>1. request'[b] = request[b]
      BY <2>1, OthersStay DEF AcquireLock
    <3>2. QED
      BY <2>1, <3>1 DEF AcceptLock, InvitationFree
  <2>2. request[p].user = request[q].user
    BY <1>2, LocksTaken
  <2>3. QED
    BY <1>2, <2>1, <2>2, LocksTaken DEF LocksHold
<1>3. ASSUME NEW q \in Requests, request'[q].step \in HoldsInvitation
      PROVE  Pending(request[q].user)'
  <2>1. request[q].user = request'[q].user /\ Pending(request[q].user)
    BY <1>3, LocksTaken DEF LocksHold
  <2>2. request[q].user \in Users
    BY <1>3, LocksTaken DEF RequestsWellFormed, HoldsInvitation, HoldsWorkspace, AcceptLock
  <2>3. invitation'[request'[q].user] = invitation[request[q].user]
    BY <1>3, <2>1, <2>2, InvitationMoves
  <2>4. QED
    BY <2>1, <2>3 DEF Pending
<1>4. ASSUME NEW q \in Requests, request'[q].step \in HoldsWorkspace
      PROVE  workspace' = "active"
  BY <1>4, LocksTaken, WorkspaceMoves DEF LocksHold
<1>5. QED
  BY <1>1, <1>2, <1>3, <1>4 DEF LocksHold

----------------------------------------------------------------------------
\* The steps that change who is an active member.
LEMMA ActiveWriters ==
    ASSUME IInv, [Next]_vars, active' # active
    PROVE  \/ \E u \in Users : CreateWorkspace(u)
           \/ \E r \in Requests : AcceptJoin(r) \/ RemoveWrite(r)
BY DEF Next, vars, Register, Decline, StartRequest, StartInvite, StartAccept,
   StartRevoke, StartRemove, StartRoleUpdate, StartDelete, StartOwnerRequest, Advance,
   InviteCount, InviteMemberRead, InviteLookup, AcceptMemberRead, AcceptCap,
   AcceptAgain, AcceptCommit, RemoveRead, RoleRead, RoleWrite, AcquireLock,
   InviteInsert, InviteAgain, AcceptLock, AcceptAdmit, Revoke, DeleteWorkspace, Abort

\* A request is about to admit a guest because it was so before, or because
\* it has just found room.
LEMMA JoinTaken ==
    ASSUME IInv, [Next]_vars, NEW q \in Requests, request'[q].step = "accept_join"
    PROVE  \/ request[q].step = "accept_join"
           \/ AcceptCap(q) /\ ~CapReached
<1> USE DEF IInv
<1>1. CASE request'[q] = request[q]
  BY <1>1
<1>2. CASE request'[q] = Idle
  BY <1>2 DEF Idle
<1>3. CASE AcceptMemberRead(q)
  BY <1>3 DEF AcceptMemberRead, TypeOK, RequestState
<1>4. CASE AcceptLock(q) \/ AcceptAdmit(q)
  BY <1>2, <1>4, Ended DEF AcceptLock, AcceptAdmit, Continue, TypeOK, RequestState
<1>5. CASE AcceptCap(q)
  BY <1>2, <1>5, Ended DEF AcceptCap
<1>6. request'[q].step \in HoldsWorkspace
  BY DEF HoldsWorkspace
<1>7. request[q].step \in HoldsWorkspace \/ AcceptAdmit(q)
  BY <1>6, LocksTaken
<1>8. QED
  <2>1. CASE AcceptAdmit(q)
    BY <2>1, <1>4
  <2>2. CASE request[q].step \in {"accept_member", "accept_cap", "accept_again"}
             /\ request'[q] # request[q]
    <3>1. StartRequest(q) \/ Advance(q) \/ AcquireLock(q) \/ Abort(q)
      BY <2>2, OthersStay DEF Next, vars, Register, CreateWorkspace, Decline
    <3>2. CASE Abort(q) \/ AcceptAgain(q)
      BY <1>2, <3>2, Ended DEF Abort, AcceptAgain, AcceptCommit
    <3>3. QED
      BY <2>2, <3>1, <3>2, <1>3, <1>5, Started DEF Advance, AcquireLock, InviteCount, InviteMemberRead,
         InviteLookup, AcceptJoin, RemoveRead, RemoveWrite, RoleRead, RoleWrite, InviteInsert,
         InviteAgain, AcceptLock, AcceptAdmit, Revoke, DeleteWorkspace
  <2>3. QED
    BY <1>1, <1>7, <2>1, <2>2 DEF HoldsWorkspace

LEMMA RoomStep == IInv /\ [Next]_vars => RoomForGuest' /\ MemberCapRespected'
<1> SUFFICES ASSUME IInv, [Next]_vars PROVE RoomForGuest' /\ MemberCapRespected'
  OBVIOUS
<1> USE CapAssumption DEF IInv
<1>0. Cardinality(active) \in Nat
  BY ActiveCounted
<1>1. ASSUME NEW u \in Users, CreateWorkspace(u)
      PROVE  RoomForGuest' /\ MemberCapRespected'
  <2>1. Cardinality(active') = 1
    BY <1>1, FS_Singleton DEF CreateWorkspace
  <2>2. \A r \in Requests : request'[r] = Idle
    BY <1>1 DEF CreateWorkspace, NothingBeforeCreation
  <2>3. QED
    BY <2>1, <2>2 DEF RoomForGuest, MemberCapRespected, Idle
<1>2. ASSUME NEW r \in Requests, AcceptJoin(r)
      PROVE  RoomForGuest' /\ MemberCapRespected'
  <2>1. /\ request[r].step = "accept_join"
        /\ Cardinality(active) < MemberCap
        /\ active' = active \cup {request[r].user}
        /\ request'[r] = Idle
    BY <1>2, Ended DEF AcceptJoin, AcceptCommit, RoomForGuest
  <2>2. Cardinality(active') <= MemberCap
    BY <2>1, <1>0, ActiveCounted, FS_AddElement
  <2>3. \A q \in Requests : request'[q].step # "accept_join"
    BY <2>1, <1>2, JoinTaken DEF LocksHold, HoldsWorkspace, Idle, AcceptCap
  <2>4. QED
    BY <2>2, <2>3 DEF RoomForGuest, MemberCapRespected
<1>3. CASE active' \subseteq active
  <2>1. Cardinality(active') <= Cardinality(active) /\ Cardinality(active') \in Nat
    BY <1>3, ActiveCounted, FS_Subset, FS_CardinalityType
  <2>2. ASSUME NEW q \in Requests, request'[q].step = "accept_join"
        PROVE  Cardinality(active') < MemberCap
    BY <1>0, <2>1, <2>2, JoinTaken DEF RoomForGuest, CapReached
  <2>3. QED
    BY <1>0, <2>1, <2>2 DEF RoomForGuest, MemberCapRespected
<1>4. ASSUME NEW r \in Requests, RemoveWrite(r) PROVE active' \subseteq active
  BY <1>4 DEF RemoveWrite
<1>5. QED
  BY <1>1, <1>2, <1>3, <1>4, ActiveWriters

----------------------------------------------------------------------------
LEMMA OwnersStep == IInv /\ [Next]_vars => OwnersUntouched'
<1> SUFFICES ASSUME IInv, [Next]_vars, NEW u \in Users, role'[u] = "owner"
             PROVE  /\ u \in registered' \cap active'
                    /\ invitation'[u].id = 0
                    /\ \A q \in Requests : request'[q].user = u =>
                          request'[q].step \in {"invite_count", "invite_member",
                                               "remove_read", "role_read"}
  BY DEF OwnersUntouched
<1> USE DEF IInv
<1>1. CASE \E c \in Users : CreateWorkspace(c)
  <2>1. role[u] = "none"
    BY <1>1 DEF CreateWorkspace, NothingBeforeCreation
  <2>2. CreateWorkspace(u)
    BY <1>1, <2>1 DEF CreateWorkspace, TypeOK
  <2>3. \A q \in Requests : request'[q] = Idle
    BY <2>2 DEF CreateWorkspace, NothingBeforeCreation
  <2>4. QED
    BY <2>2, <2>3, UsersAssumption DEF CreateWorkspace, NothingBeforeCreation, Idle
<1>2. CASE ~\E c \in Users : CreateWorkspace(c)
  <2>1. role[u] = "owner"
    <3>1. ASSUME NEW r \in Requests, AcceptJoin(r) \/ AcceptAgain(r) PROVE role[u] = "owner"
      BY <3>1 DEF AcceptJoin, AcceptAgain, AcceptCommit, AdmittedRole, TypeOK
    <3>2. ASSUME NEW r \in Requests, RoleWrite(r) PROVE role[u] = "owner"
      BY <3>2 DEF RoleWrite, RequestsWellFormed, AssignableRoles, TypeOK
    <3>3. CASE UNCHANGED role
      BY <3>3
    <3>4. QED
      BY <1>2, <3>1, <3>2, <3>3 DEF Next, vars, Register, Decline, StartRequest, StartInvite,
         StartAccept, StartRevoke, StartRemove, StartRoleUpdate, StartDelete, StartOwnerRequest,
         Advance, InviteCount, InviteMemberRead, InviteLookup, AcceptMemberRead, AcceptCap,
         RemoveRead, RemoveWrite, RoleRead, AcquireLock, InviteInsert, InviteAgain, AcceptLock,
         AcceptAdmit, Revoke, DeleteWorkspace, Abort
  <2>2. /\ u \in registered \cap active
        /\ invitation[u].id = 0
        /\ \A q \in Requests : request[q].user = u =>
              request[q].step \in {"invite_count", "invite_member", "remove_read", "role_read"}
    BY <2>1 DEF OwnersUntouched
  <2>3. u \in active'
    <3>1. ASSUME NEW r \in Requests, AcceptJoin(r) \/ RemoveWrite(r) PROVE u \in active'
      BY <2>2, <3>1 DEF AcceptJoin, RemoveWrite
    <3>2. QED
      BY <1>2, <2>2, <3>1, ActiveWriters
  <2>4. u \in registered'
    BY <1>2, <2>2 DEF Next, vars, Register, Decline, StartRequest, StartInvite,
       StartAccept, StartRevoke, StartRemove, StartRoleUpdate, StartDelete, StartOwnerRequest,
       Advance, InviteCount, InviteMemberRead, InviteLookup, AcceptMemberRead, AcceptCap,
       AcceptJoin, AcceptAgain, AcceptCommit, RemoveRead, RemoveWrite, RoleRead, RoleWrite,
       AcquireLock, InviteInsert, InviteAgain, AcceptLock, AcceptAdmit, Revoke,
       DeleteWorkspace, Abort
  <2>5. invitation'[u] = invitation[u]
    <3>1. ~Decline(u)
      BY <2>2 DEF Decline, Pending, Unanswered
    <3>2. ASSUME NEW r \in Requests, request[r].user = u
          PROVE  ~(\/ InviteAgain(r) \/ Revoke(r) \/ InviteInsert(r)
                   \/ AcceptJoin(r) \/ AcceptAgain(r))
      BY <2>2, <3>2 DEF InviteAgain, Revoke, InviteInsert, AcceptJoin, AcceptAgain
    <3>3. QED
      BY <3>1, <3>2, InvitationWriters
  <2>6. ASSUME NEW q \in Requests, request'[q].user = u
        PROVE  request'[q].step \in {"invite_count", "invite_member", "remove_read", "role_read"}
    <3>1. CASE request'[q] = request[q]
      BY <2>2, <2>6, <3>1
    <3>2. CASE StartRequest(q)
      BY <2>2, <2>6, <3>2, Started, UsersAssumption DEF Pending, Unanswered
    <3>3. request'[q] # Idle
      BY <2>6, UsersAssumption DEF Idle
    <3>4. ~End(q)
      BY <3>3, Ended
    <3>5. CASE Advance(q) \/ AcquireLock(q)
      <4>1. request[q].user = u
        BY <2>6, <3>4, <3>5 DEF Advance, InviteCount, InviteMemberRead, InviteLookup,
           AcceptMemberRead, AcceptCap, AcceptJoin, AcceptAgain, AcceptCommit, RemoveRead,
           RemoveWrite, RoleRead, RoleWrite, AcquireLock, InviteInsert, InviteAgain, AcceptLock,
           AcceptAdmit, Revoke, DeleteWorkspace, Continue, TypeOK, RequestState
      <4>2. InviteCount(q)
        BY <2>1, <2>2, <3>4, <3>5, <4>1 DEF Advance, InviteMemberRead, InviteLookup,
           AcceptMemberRead, AcceptCap, AcceptJoin, AcceptAgain, RemoveRead,
           RemoveWrite, RoleRead, RoleWrite, AcquireLock, InviteInsert, InviteAgain, AcceptLock,
           AcceptAdmit, Revoke, DeleteWorkspace, ExistingMember, Manageable
      <4>3. QED
        BY <3>4, <4>2 DEF InviteCount, Continue, TypeOK, RequestState
    <3>6. CASE Abort(q)
      BY <3>4, <3>6 DEF Abort
    <3>7. QED
      BY <3>1, <3>2, <3>5, <3>6, OthersStay DEF Next, vars, Register, CreateWorkspace, Decline
  <2>7. QED
    BY <2>2, <2>3, <2>4, <2>5, <2>6
<1>3. QED
  BY <1>1, <1>2

\* Before the workspace is created nothing can happen to it.
LEMMA CreationStep == IInv /\ [Next]_vars => NothingBeforeCreation'
<1> SUFFICES ASSUME IInv, [Next]_vars, workspace' = "absent"
             PROVE  /\ active' = {}
                    /\ \A u \in Users : invitation'[u].id = 0 /\ role'[u] = "none"
                    /\ \A r \in Requests : request'[r] = Idle
  BY DEF NothingBeforeCreation
<1> USE DEF IInv
<1>1. workspace = "absent"
  BY DEF Next, vars, Register, CreateWorkspace, Decline, StartRequest, StartInvite,
     StartAccept, StartRevoke, StartRemove, StartRoleUpdate, StartDelete, StartOwnerRequest,
     Advance, InviteCount, InviteMemberRead, InviteLookup, AcceptMemberRead, AcceptCap,
     AcceptJoin, AcceptAgain, AcceptCommit, RemoveRead, RemoveWrite, RoleRead, RoleWrite,
     AcquireLock, InviteInsert, InviteAgain, AcceptLock, AcceptAdmit, Revoke,
     DeleteWorkspace, Abort
<1>2. /\ active = {}
      /\ \A u \in Users : invitation[u].id = 0 /\ role[u] = "none"
      /\ \A r \in Requests : request[r] = Idle
  BY <1>1 DEF NothingBeforeCreation
<1>3. \A u \in Users : ~CreateWorkspace(u) /\ ~Decline(u)
  BY <1>2 DEF CreateWorkspace, Decline, Pending, Unanswered
<1>4. ASSUME NEW r \in Requests
      PROVE  ~(StartRequest(r) \/ Advance(r) \/ AcquireLock(r) \/ Abort(r))
  <2>1. ~StartRequest(r)
    BY <1>1, <1>2 DEF StartRequest, StartInvite, StartAccept, StartRevoke, StartRemove,
       StartRoleUpdate, StartDelete, StartOwnerRequest, OwnerCalls, Pending, Unanswered
  <2>2. ~Advance(r)
    BY <1>2 DEF Idle, Advance, InviteCount, InviteMemberRead, InviteLookup, AcceptMemberRead,
       AcceptCap, AcceptJoin, AcceptAgain, RemoveRead, RemoveWrite, RoleRead, RoleWrite
  <2>3. ~AcquireLock(r) /\ ~Abort(r)
    BY <1>2 DEF Idle, AcquireLock, InviteInsert, InviteAgain, AcceptLock, AcceptAdmit, Revoke,
       DeleteWorkspace, Abort
  <2>4. QED
    BY <2>1, <2>2, <2>3
<1>5. QED
  BY <1>2, <1>3, <1>4 DEF Next, vars, Register

\* Each of the two timestamps is set only on a row where both are NULL.
LEMMA AnsweredStep == IInv /\ [Next]_vars => AnsweredOnce'
<1> SUFFICES ASSUME IInv, [Next]_vars, NEW u \in Users PROVE invitation'[u].stamped # Answers
  BY DEF AnsweredOnce
<1> USE DEF IInv
<1>1. CASE invitation'[u] = invitation[u]
  BY <1>1 DEF AnsweredOnce
<1>2. CASE Decline(u)
  BY <1>2 DEF Decline, Pending, Unanswered, Answers, TypeOK, InvitationRow
<1>3. ASSUME NEW r \in Requests, request[r].user = u, InviteAgain(r)
      PROVE  invitation'[u].stamped # Answers
  BY <1>3 DEF InviteAgain, AnsweredOnce, TypeOK, InvitationRow, Answers
<1>4. ASSUME NEW r \in Requests, request[r].user = u, Revoke(r) \/ InviteInsert(r)
      PROVE  invitation'[u].stamped # Answers
  <2>1. NoInvitation.stamped # Answers
    BY DEF NoInvitation, Answers
  <2>2. CASE Revoke(r)
    BY <1>1, <1>4, <2>1, <2>2 DEF Revoke, TypeOK
  <2>3. CASE InviteInsert(r)
    <3>1. CASE UNCHANGED invitation
      BY <1>1, <3>1
    <3>2. CASE invitation' = [invitation EXCEPT ![u] = [NoInvitation EXCEPT !.id = lastId + 1]]
      BY <3>2 DEF NoInvitation, Answers, TypeOK
    <3>3. QED
      BY <1>4, <2>3, <3>1, <3>2 DEF InviteInsert
  <2>4. QED
    BY <1>4, <2>2, <2>3
<1>5. ASSUME NEW r \in Requests, request[r].user = u, AcceptJoin(r) \/ AcceptAgain(r)
      PROVE  invitation'[u].stamped # Answers
  <2>1. invitation[u].stamped = {}
    BY <1>5 DEF AcceptJoin, AcceptAgain, LocksHold, HoldsInvitation, HoldsWorkspace, Pending,
       Unanswered
  <2>2. invitation'[u].stamped = invitation[u].stamped \cup {"accepted"}
    BY <1>5 DEF AcceptJoin, AcceptAgain, AcceptCommit, TypeOK, InvitationRow
  <2>3. QED
    BY <2>1, <2>2 DEF Answers
<1>6. QED
  BY <1>1, <1>2, <1>3, <1>4, <1>5, InvitationWriters

----------------------------------------------------------------------------
\* The inductive invariant holds in every reachable state.
THEOREM Invariance == Spec => []IInv
<1>1. Init => IInv
  BY InitIInv
<1>2. IInv /\ [Next]_vars => IInv'
  BY TypeStep, WellFormedStep, LocksStep, RoomStep, OwnersStep, CreationStep, AnsweredStep
     DEF IInv
<1>3. QED
  BY <1>1, <1>2, PTL DEF Spec

\* Every variable keeps its type, and an active membership always has a role.
THEOREM TypeCorrect == Spec => []TypeOK
<1>1. IInv => TypeOK
  BY DEF IInv
<1>2. QED
  BY <1>1, Invariance, PTL

\* No interleaving of requests takes the workspace over its member cap.
THEOREM CapHolds == Spec => []MemberCapRespected
<1>1. IInv => MemberCapRespected
  BY DEF IInv
<1>2. QED
  BY <1>1, Invariance, PTL

\* No invitation is ever both accepted and declined.
THEOREM AnswersAreFinal == Spec => []AnsweredOnce
<1>1. IInv => AnsweredOnce
  BY DEF IInv
<1>2. QED
  BY <1>1, Invariance, PTL

\* No step removes an owner from the roster or changes the role of one.
LEMMA OwnersKept == IInv /\ [Next]_vars => \A u \in active : role[u] = "owner" => u \in active' /\ role'[u] = "owner"
<1> SUFFICES ASSUME IInv, [Next]_vars, NEW u \in active, role[u] = "owner"
             PROVE  u \in active' /\ role'[u] = "owner"
  OBVIOUS
<1> USE DEF IInv
<1>1. u \in Users /\ workspace # "absent"
  BY DEF TypeOK, NothingBeforeCreation
<1>2. \A r \in Requests : request[r].user = u =>
         request[r].step \notin {"accept_join", "accept_again", "remove_write", "role_write"}
  BY <1>1 DEF OwnersUntouched
<1>3. \A c \in Users : ~CreateWorkspace(c)
  BY <1>1 DEF CreateWorkspace
<1>4. u \in active'
  BY <1>2, <1>3, ActiveWriters DEF AcceptJoin, RemoveWrite
<1>5. ASSUME NEW r \in Requests, AcceptJoin(r) \/ AcceptAgain(r) \/ RoleWrite(r)
      PROVE  role'[u] = role[u]
  BY <1>1, <1>2, <1>5 DEF AcceptJoin, AcceptAgain, AcceptCommit, RoleWrite, TypeOK
<1>6. role'[u] = role[u]
  BY <1>3, <1>5 DEF Next, vars, Register, Decline, StartRequest, StartInvite,
     StartAccept, StartRevoke, StartRemove, StartRoleUpdate, StartDelete, StartOwnerRequest,
     Advance, InviteCount, InviteMemberRead, InviteLookup, AcceptMemberRead, AcceptCap,
     RemoveRead, RemoveWrite, RoleRead, AcquireLock, InviteInsert, InviteAgain, AcceptLock,
     AcceptAdmit, Revoke, DeleteWorkspace, Abort
<1>7. QED
  BY <1>4, <1>6

\* An owner stays an active owner for good.
THEOREM OwnersAreSafe == Spec => OwnersStay
<1>1. IInv /\ [Next]_vars => \A u \in active : role[u] = "owner" => u \in active' /\ role'[u] = "owner"
  BY OwnersKept
<1>2. QED
  BY <1>1, Invariance, PTL DEF Spec, OwnersStay

\* Nobody becomes a member but the founder and guests who accept a pending
\* invitation to a workspace that is not deleted.
THEOREM AdmissionIsInvited == Spec => JoinsByInvitation
<1> DEFINE Invited(u) == \/ workspace = "absent"
                         \/ /\ workspace = "active"
                            /\ Pending(u)
                            /\ invitation'[u] = [invitation[u] EXCEPT !.stamped = {"accepted"}]
<1>1. IInv /\ [Next]_vars => \A u \in active' \ active : Invited(u)
  <2> SUFFICES ASSUME IInv, [Next]_vars, NEW u \in active' \ active PROVE Invited(u)
    OBVIOUS
  <2> USE DEF IInv
  <2>1. CASE \E c \in Users : CreateWorkspace(c)
    BY <2>1 DEF CreateWorkspace
  <2>2. ASSUME NEW r \in Requests, AcceptJoin(r) PROVE Invited(u)
    <3>1. request[r].user = u /\ u \in Users
      BY <2>2 DEF AcceptJoin, RequestsWellFormed
    <3>2. workspace = "active" /\ Pending(u)
      BY <2>2, <3>1 DEF AcceptJoin, LocksHold, HoldsInvitation, HoldsWorkspace
    <3>3. invitation'[u] = [invitation[u] EXCEPT !.stamped = {"accepted"}]
      BY <2>2, <3>1, <3>2 DEF AcceptJoin, AcceptCommit, Pending, Unanswered, TypeOK, InvitationRow
    <3>4. QED
      BY <3>2, <3>3
  <2>3. QED
    BY <2>1, <2>2, ActiveWriters DEF RemoveWrite
<1>2. QED
  BY <1>1, Invariance, PTL DEF Spec, JoinsByInvitation
----------------------------------------------------------------------------
(***************************************************************************)
(* That Membership implements Roster: each step of the interleaved         *)
(* requests is one step of the roster's contract or changes nothing it     *)
(* speaks of.                                                              *)
(***************************************************************************)
\* The roster's variables as Contract maps them.
Open == workspace = "active"
Founder == {u \in Users : role[u] = "owner"}
Member == [u \in Users |-> IF u \in active THEN role[u] ELSE "none"]
Answer == [u \in Users |-> AnswerOf(invitation[u])]
roster == <<Open, Founder, Member, Answer>>

\* Whoever created the workspace is still its owner.
Founded == workspace # "absent" => Founder # {}
----------------------------------------------------------------------------
LEMMA AnswerLemma ==
    ASSUME NEW row \in InvitationRow, row.stamped # Answers
    PROVE  /\ row.id = 0 => AnswerOf(row) = "none"
           /\ Unanswered(row) => AnswerOf(row) = "pending"
           /\ row.id # 0 /\ row.stamped = {"accepted"} => AnswerOf(row) = "accepted"
           /\ row.id # 0 /\ row.stamped = {"declined"} => AnswerOf(row) = "declined"
           /\ row.id # 0 => row.stamped \in {{}, {"accepted"}, {"declined"}}
  <1>1. row.stamped \in SUBSET Answers
    BY DEF InvitationRow
  <1>2. row.stamped \in {{}, {"accepted"}, {"declined"}}
    BY <1>1 DEF Answers
  <1> QED  BY <1>2 DEF AnswerOf, Unanswered

\* A row that a step writes, and what it stands for then.
LEMMA AnswerMoves ==
    ASSUME IInv, NEW u \in Users, NEW new \in InvitationRow,
           invitation' = [invitation EXCEPT ![u] = new]
    PROVE  Answer' = [Answer EXCEPT ![u] = AnswerOf(new)]
  <1>1. invitation \in [Users -> InvitationRow]
    BY DEF IInv, TypeOK
  <1>2. invitation'[u] = new /\ \A v \in Users \ {u} : invitation'[v] = invitation[v]
    BY <1>1
  <1>3. \A v \in Users : AnswerOf(invitation[v])' = AnswerOf(invitation'[v])
    BY DEF AnswerOf, Unanswered
  <1>4. Answer' = [v \in Users |-> AnswerOf(invitation'[v])]
    BY <1>3 DEF Answer
  <1>5. Answer = [v \in Users |-> AnswerOf(invitation[v])]
    BY DEF Answer
  <1> QED  BY <1>2, <1>4, <1>5

\* No row, no answer.
LEMMA NoAnswerLemma == AnswerOf(NoInvitation) = "none"
  <1>1. NoInvitation.id = 0 /\ NoInvitation.stamped # Answers
    BY DEF NoInvitation, Answers
  <1> QED  BY <1>1, IdleTyped, AnswerLemma

LEMMA StampedLemma ==
    ASSUME NEW row \in InvitationRow, NEW stamped \in SUBSET Answers
    PROVE  /\ [row EXCEPT !.stamped = stamped] \in InvitationRow
           /\ [row EXCEPT !.stamped = stamped].id = row.id
           /\ [row EXCEPT !.stamped = stamped].stamped = stamped
  BY DEF InvitationRow

\* The answers before and after the stamps of a row are rewritten.
LEMMA StampMoves ==
    ASSUME IInv, NEW u \in Users, NEW stamped \in {{}, {"accepted"}, {"declined"}},
           invitation[u].id # 0,
           invitation' = [invitation EXCEPT ![u].stamped = stamped]
    PROVE  /\ stamped = {} => Answer' = [Answer EXCEPT ![u] = "pending"]
           /\ stamped = {"accepted"} => Answer' = [Answer EXCEPT ![u] = "accepted"]
           /\ stamped = {"declined"} => Answer' = [Answer EXCEPT ![u] = "declined"]
  <1> DEFINE new == [invitation[u] EXCEPT !.stamped = stamped]
  <1>1. invitation \in [Users -> InvitationRow] /\ invitation[u] \in InvitationRow
    BY DEF IInv, TypeOK
  <1>2. stamped \in SUBSET Answers /\ stamped # Answers
    BY DEF Answers
  <1>3. new \in InvitationRow /\ new.id # 0 /\ new.stamped = stamped
    BY <1>1, <1>2, StampedLemma
  <1>4. invitation' = [invitation EXCEPT ![u] = new]
    BY <1>1
  <1> HIDE DEF new
  <1>5. Answer' = [Answer EXCEPT ![u] = AnswerOf(new)]
    BY <1>3, <1>4, AnswerMoves
  <1> QED  BY <1>2, <1>3, <1>5, AnswerLemma DEF Unanswered

LEMMA PendingLemma ==
    ASSUME IInv, NEW u \in Users
    PROVE  /\ Answer[u] = "pending" <=> Pending(u)
           /\ Pending(u) => invitation[u].stamped = {} /\ invitation[u].id # 0
           /\ invitation[u].id # 0 => invitation[u].stamped \in {{}, {"accepted"}, {"declined"}}
  <1>1. invitation[u] \in InvitationRow /\ invitation[u].stamped # Answers
    BY DEF IInv, TypeOK, AnsweredOnce
  <1> QED  BY <1>1, AnswerLemma DEF Answer, Pending, Unanswered

\* A role written to u, who is no owner before or after, moves the roster only at u.
LEMMA RoleMoves ==
    ASSUME IInv, NEW u \in Users, role[u] # "owner", NEW new \in {"member", "admin"},
           role' = [role EXCEPT ![u] = new],
           active' = active \cup {u} \/ active' = active
    PROVE  /\ Founder' = Founder
           /\ u \in active' => Member' = [Member EXCEPT ![u] = new]
           /\ u \notin active' => Member' = Member
  <1>1. role \in [Users -> Roles \cup {"none"}]
    BY DEF IInv, TypeOK
  <1>2. role'[u] = new /\ \A v \in Users \ {u} : role'[v] = role[v]
    BY <1>1
  <1>3. Founder' = Founder
    BY <1>2 DEF Founder
  <1>4. \A v \in Users \ {u} : v \in active' <=> v \in active
    OBVIOUS
  <1> QED  BY <1>2, <1>3, <1>4 DEF Member

\* Whom a request is about to change is no owner.
LEMMA TargetLemma ==
    ASSUME IInv, NEW r \in Requests,
           request[r].step \in {"invite_write", "accept_join", "accept_again", "remove_write",
                                "role_write"}
    PROVE  /\ request[r].user \in Users /\ role[request[r].user] # "owner"
           /\ request[r].user \notin Founder
  BY DEF IInv, RequestsWellFormed, OwnersUntouched, Founder

LEMMA RequestFounded ==
    ASSUME IInv, Founded, NEW r \in Requests, request[r].step # "idle"
    PROVE  Founder # {}
  BY DEF IInv, NothingBeforeCreation, Idle, Founded

\* The members of the roster are the active memberships.
LEMMA MembersLemma == IInv => {u \in Users : Member[u] # "none"} = active
  BY DEF IInv, TypeOK, Member
----------------------------------------------------------------------------
(***************************************************************************)
(* The steps of the contract                                               *)
(***************************************************************************)
LEMMA ContractAnswers ==
    ASSUME NEW u \in Users, Founder' = Founder, Member' = Member, Open' = Open
    PROVE  /\ Founder # {} /\ u \notin Founder /\ Answer[u] # "pending"
                 /\ Answer' = [Answer EXCEPT ![u] = "pending"] => Contract!Invite(u)
           /\ Answer[u] = "pending" /\ Answer' = [Answer EXCEPT ![u] = "declined"]
                 => Contract!Decline(u)
           /\ Answer[u] = "pending" /\ Answer' = [Answer EXCEPT ![u] = "none"]
                 => Contract!Revoke(u)
  BY DEF Contract!Invite, Contract!Decline, Contract!Revoke, Open, Founder, Member, Answer

\* The contract counts its members as Membership counts the active ones.
LEMMA SameCardinality == \A S : Contract!Cardinality(S) = Cardinality(S)
  BY DEF Contract!Cardinality, Cardinality

LEMMA ContractJoins ==
    ASSUME NEW u \in Users, Open, Open', Founder' = Founder, Answer[u] = "pending",
           Answer' = [Answer EXCEPT ![u] = "accepted"]
    PROVE  /\ /\ Member[u] = "none"
              /\ Cardinality({v \in Users : Member[v] # "none"}) < MemberCap
              /\ \E granted \in {"member", "admin"} : Member' = [Member EXCEPT ![u] = granted]
              => Contract!Join(u)
           /\ /\ u \notin Founder
              /\ Member' = Member \/ (Member[u] # "none" /\ Member' = [Member EXCEPT ![u] = "member"])
              => Contract!JoinAgain(u)
  <1>1. ASSUME Member[u] = "none",
               Cardinality({v \in Users : Member[v] # "none"}) < MemberCap,
               NEW granted \in {"member", "admin"}, Member' = [Member EXCEPT ![u] = granted]
        PROVE  Contract!Join(u)
    BY <1>1, SameCardinality DEF Contract!Join, Contract!Members, Open, Founder, Member, Answer
  <1>2. ASSUME u \notin Founder,
               \/ Member' = Member
               \/ Member[u] # "none" /\ Member' = [Member EXCEPT ![u] = "member"]
        PROVE  Contract!JoinAgain(u)
    BY <1>2 DEF Contract!JoinAgain, Open, Founder, Member, Answer
  <1> QED  BY <1>1, <1>2

LEMMA ContractRoles ==
    ASSUME NEW u \in Users, Founder' = Founder, Answer' = Answer, Open' = Open, u \notin Founder
    PROVE  /\ Member' = [Member EXCEPT ![u] = "none"] => Contract!Remove(u)
           /\ /\ Member[u] # "none"
              /\ \E new \in {"member", "admin"} : Member' = [Member EXCEPT ![u] = new]
              => Contract!SetRole(u)
  BY DEF Contract!Remove, Contract!SetRole, Contract!Members, Open, Founder, Member, Answer

LEMMA ContractEnds ==
    ASSUME Answer' = Answer
    PROVE  /\ Founder # {} /\ ~Open' /\ Founder' = Founder /\ Member' = Member
                 => Contract!Close
           /\ \A u \in Users : /\ Founder = {} /\ Founder' = {u} /\ Open'
                               /\ Member' = [Member EXCEPT ![u] = "owner"]
                               => Contract!Found(u)
  BY DEF Contract!Close, Contract!Found, Open, Founder, Member, Answer
----------------------------------------------------------------------------
(***************************************************************************)
(* The steps of the requests                                               *)
(***************************************************************************)
LEMMA SameLemma ==
    ASSUME UNCHANGED <<workspace, role, active, invitation>>
    PROVE  UNCHANGED roster
  BY DEF roster, Open, Founder, Member, Answer

LEMMA CreateRefined ==
    ASSUME IInv, NEW u \in Users, CreateWorkspace(u)
    PROVE  Contract!RosterNext
  <1>1. /\ active = {} /\ role \in [Users -> Roles \cup {"none"}]
        /\ \A v \in Users : role[v] = "none"
        /\ role' = [role EXCEPT ![u] = "owner"] /\ active' = {u}
        /\ invitation' = invitation /\ workspace' = "active"
    BY DEF CreateWorkspace, IInv, TypeOK, NothingBeforeCreation
  <1>2. role'[u] = "owner" /\ \A v \in Users \ {u} : role'[v] = "none"
    BY <1>1
  <1>3. Founder = {} /\ Founder' = {u} /\ Open' /\ Answer' = Answer
    BY <1>1, <1>2 DEF Founder, Open, Answer
  <1>4. Member' = [Member EXCEPT ![u] = "owner"]
    BY <1>1, <1>2 DEF Member
  <1> QED  BY <1>3, <1>4, ContractEnds DEF Contract!RosterNext

LEMMA DeclineRefined ==
    ASSUME IInv, NEW u \in Users, Decline(u)
    PROVE  Contract!RosterNext
  <1>1. /\ Pending(u) /\ UNCHANGED <<workspace, role, active>>
        /\ invitation' = [invitation EXCEPT ![u].stamped = {} \cup {"declined"}]
    BY PendingLemma DEF Decline
  <1>2. invitation' = [invitation EXCEPT ![u].stamped = {"declined"}]
    BY <1>1
  <1>3. Answer[u] = "pending" /\ Answer' = [Answer EXCEPT ![u] = "declined"]
    BY <1>1, <1>2, PendingLemma, StampMoves
  <1>4. Founder' = Founder /\ Member' = Member /\ Open' = Open
    BY <1>1 DEF Founder, Member, Open
  <1> QED  BY <1>3, <1>4, ContractAnswers DEF Contract!RosterNext

LEMMA InviteRefined ==
    ASSUME IInv, Founded, NEW r \in Requests, InviteInsert(r) \/ InviteAgain(r)
    PROVE  Contract!RosterNext \/ UNCHANGED roster
  <1> DEFINE u == request[r].user
  <1>1. /\ u \in Users /\ u \notin Founder /\ Founder # {}
        /\ UNCHANGED <<workspace, role, active>>
    BY TargetLemma, RequestFounded DEF InviteInsert, InviteAgain
  <1>2. Founder' = Founder /\ Member' = Member /\ Open' = Open
    BY <1>1 DEF Founder, Member, Open
  <1>3. invitation \in [Users -> InvitationRow] /\ invitation[u] \in InvitationRow
    BY <1>1 DEF IInv, TypeOK
  <1> DEFINE new == [NoInvitation EXCEPT !.id = lastId + 1]
  <1>4. CASE invitation[u].id = 0 /\ lastId < MaxInvitations
             /\ invitation' = [invitation EXCEPT ![u] = new]
    <2>1. lastId + 1 \in 1..MaxInvitations
      BY <1>4, BoundAssumption DEF IInv, TypeOK
    <2>2. new \in InvitationRow /\ new.id # 0 /\ new.stamped = {}
      BY <2>1, BoundAssumption DEF NoInvitation, InvitationRow
    <2> HIDE DEF new
    <2>3. AnswerOf(new) = "pending"
      BY <2>2 DEF AnswerOf, Unanswered
    <2>4. Answer' = [Answer EXCEPT ![u] = "pending"]
      BY <1>1, <1>4, <2>2, <2>3, AnswerMoves
    <2>5. Answer[u] # "pending"
      BY <1>1, <1>4, PendingLemma
    <2> QED  BY <1>1, <1>2, <2>4, <2>5, ContractAnswers DEF Contract!RosterNext
  <1>5. CASE UNCHANGED invitation
    BY <1>1, <1>5, SameLemma
  <1>6. CASE /\ invitation[u].id = request[r].row.id /\ request[r].row # NoInvitation
             /\ invitation' = [invitation EXCEPT ![u].stamped = @ \ request[r].row.stamped]
    <2> DEFINE stamped == invitation[u].stamped \ request[r].row.stamped
    <2>1. invitation' = [invitation EXCEPT ![u].stamped = stamped]
      BY <1>3, <1>6
    <2>2. stamped \in SUBSET Answers
      BY <1>3 DEF InvitationRow
    <2>3. CASE invitation[u].id = 0 \/ stamped = invitation[u].stamped
      <3>1. [invitation[u] EXCEPT !.stamped = stamped] \in InvitationRow
            /\ [invitation[u] EXCEPT !.stamped = stamped].id = invitation[u].id
        BY <1>3, <2>2, StampedLemma
      <3>2. CASE stamped = invitation[u].stamped
        <4>1. invitation' = invitation
          BY <1>1, <1>3, <2>1, <3>2 DEF InvitationRow
        <4> QED  BY <1>5, <4>1
      <3>3. CASE invitation[u].id = 0
        <4>1. Answer' = [Answer EXCEPT ![u] = AnswerOf([invitation[u] EXCEPT !.stamped = stamped])]
          BY <1>1, <1>3, <2>1, <3>1, AnswerMoves
        <4>2. AnswerOf([invitation[u] EXCEPT !.stamped = stamped]) = "none"
              /\ AnswerOf(invitation[u]) = "none"
          <5>1. invitation[u].stamped # Answers /\ stamped # Answers
            BY <1>1, <1>3 DEF IInv, AnsweredOnce, InvitationRow
          <5>2. [invitation[u] EXCEPT !.stamped = stamped].stamped = stamped
            BY <1>3, <2>2, StampedLemma
          <5> QED  BY <1>3, <3>1, <3>3, <5>1, <5>2, AnswerLemma
        <4>3. Answer' = Answer
          BY <1>1, <4>1, <4>2 DEF Answer
        <4> QED  BY <1>2, <4>3 DEF roster
      <3> QED  BY <2>3, <3>2, <3>3
    <2>4. CASE invitation[u].id # 0 /\ stamped # invitation[u].stamped
      <3>1. invitation[u].stamped \in {{"accepted"}, {"declined"}} /\ stamped = {}
        BY <1>1, <2>4, PendingLemma
      <3>2. Answer' = [Answer EXCEPT ![u] = "pending"]
        BY <1>1, <2>1, <2>4, <3>1, StampMoves
      <3>3. Answer[u] # "pending"
        BY <1>1, <3>1, PendingLemma
      <3> QED  BY <1>1, <1>2, <3>2, <3>3, ContractAnswers DEF Contract!RosterNext
    <2> QED  BY <2>3, <2>4
  <1> QED  BY <1>4, <1>5, <1>6 DEF InviteInsert, InviteAgain

LEMMA AdmittedLemma ==
    ASSUME IInv, NEW r \in Requests, request[r].step \in {"accept_join", "accept_again"}
    PROVE  /\ AdmittedRole(r) \in {"member", "admin"}
           /\ AdmittedRole(r) = "member" \/ AdmittedRole(r) = role[request[r].user]
  <1> DEFINE u == request[r].user
  <1>1. u \in Users /\ role[u] # "owner" /\ role[u] \in Roles \cup {"none"}
    BY TargetLemma DEF IInv, TypeOK
  <1>2. request[r].role = "member" => role[u] # "none"
    BY DEF IInv, RequestsWellFormed
  <1> QED  BY <1>1, <1>2 DEF AdmittedRole, Roles

LEMMA AcceptRefined ==
    ASSUME IInv, NEW r \in Requests, AcceptJoin(r) \/ AcceptAgain(r)
    PROVE  Contract!RosterNext
  <1> DEFINE u == request[r].user
             granted == AdmittedRole(r)
  <1>1. request[r].step \in {"accept_join", "accept_again"} /\ AcceptCommit(r)
    BY DEF AcceptJoin, AcceptAgain
  <1>2. u \in Users /\ role[u] # "owner" /\ u \notin Founder
    BY <1>1, TargetLemma
  <1>3. granted \in {"member", "admin"} /\ (granted = "member" \/ granted = role[u])
    BY <1>1, AdmittedLemma
  <1>4. Pending(u) /\ workspace = "active"
    BY <1>1 DEF IInv, LocksHold, HoldsInvitation, HoldsWorkspace
  <1>5. role' = [role EXCEPT ![u] = granted] /\ workspace' = workspace
        /\ (active' = active \cup {u} \/ active' = active)
    BY DEF AcceptJoin, AcceptAgain, AcceptCommit
  <1> HIDE DEF granted
  <1>6. /\ Founder' = Founder
        /\ u \in active' => Member' = [Member EXCEPT ![u] = granted]
        /\ u \notin active' => Member' = Member
    BY <1>2, <1>3, <1>5, RoleMoves
  <1>7. Answer[u] = "pending" /\ Answer' = [Answer EXCEPT ![u] = "accepted"]
    <2>1. invitation' = [invitation EXCEPT ![u].stamped = {"accepted"}]
      BY <1>1, <1>2, <1>4, PendingLemma DEF AcceptCommit
    <2> QED  BY <1>2, <1>4, <2>1, PendingLemma, StampMoves
  <1>8. Open /\ Open'
    BY <1>4, <1>5 DEF Open
  <1>9. CASE u \in active
    <2>1. Member[u] = role[u] /\ role[u] # "none" /\ u \in active'
      BY <1>2, <1>5, <1>9 DEF Member, IInv, TypeOK
    <2>2. Member' = Member \/ Member' = [Member EXCEPT ![u] = "member"]
      <3>1. CASE granted = "member"
        BY <1>6, <2>1, <3>1
      <3>2. CASE granted = role[u]
        BY <1>6, <2>1, <3>2 DEF Member
      <3> QED  BY <1>3, <3>1, <3>2
    <2> QED  BY <1>2, <1>6, <1>7, <1>8, <2>1, <2>2, ContractJoins DEF Contract!RosterNext
  <1>10. CASE u \notin active /\ AcceptJoin(r)
    <2>1. Member[u] = "none" /\ u \in active'
      BY <1>2, <1>10 DEF Member, AcceptJoin
    <2>2. Cardinality({v \in Users : Member[v] # "none"}) < MemberCap
      BY <1>10, MembersLemma DEF AcceptJoin, IInv, RoomForGuest
    <2>3. \E new \in {"member", "admin"} : Member' = [Member EXCEPT ![u] = new]
      BY <1>3, <1>6, <2>1
    <2> QED  BY <1>2, <1>6, <1>7, <1>8, <2>1, <2>2, <2>3, ContractJoins DEF Contract!RosterNext
  <1>11. CASE u \notin active /\ AcceptAgain(r)
    <2>1. Member' = Member
      BY <1>6, <1>11 DEF AcceptAgain
    <2> QED  BY <1>2, <1>6, <1>7, <1>8, <2>1, ContractJoins DEF Contract!RosterNext
  <1> QED  BY <1>9, <1>10, <1>11

LEMMA RevokeRefined ==
    ASSUME IInv, NEW r \in Requests, Revoke(r)
    PROVE  Contract!RosterNext \/ UNCHANGED roster
  <1> DEFINE u == request[r].user
  <1>1. u \in Users /\ UNCHANGED <<workspace, role, active>>
    BY DEF Revoke, IInv, RequestsWellFormed
  <1>2. CASE UNCHANGED invitation
    BY <1>1, <1>2, SameLemma
  <1>3. CASE Pending(u) /\ invitation' = [invitation EXCEPT ![u] = NoInvitation]
    <2>1. Answer[u] = "pending" /\ Answer' = [Answer EXCEPT ![u] = "none"]
      BY <1>1, <1>3, NoAnswerLemma, PendingLemma, AnswerMoves, IdleTyped
    <2>2. Founder' = Founder /\ Member' = Member /\ Open' = Open
      BY <1>1 DEF Founder, Member, Open
    <2> QED  BY <1>1, <2>1, <2>2, ContractAnswers DEF Contract!RosterNext
  <1> QED  BY <1>2, <1>3 DEF Revoke

LEMMA RemoveRefined ==
    ASSUME IInv, NEW r \in Requests, RemoveWrite(r)
    PROVE  Contract!RosterNext
  <1> DEFINE u == request[r].user
  <1>1. /\ u \in Users /\ u \notin Founder
        /\ active' = active \ {u} /\ UNCHANGED <<workspace, role, invitation>>
    BY TargetLemma DEF RemoveWrite
  <1>2. Founder' = Founder /\ Answer' = Answer /\ Open' = Open
    BY <1>1 DEF Founder, Answer, Open
  <1>3. Member' = [Member EXCEPT ![u] = "none"]
    BY <1>1 DEF Member
  <1> QED  BY <1>1, <1>2, <1>3, ContractRoles DEF Contract!RosterNext

LEMMA RoleRefined ==
    ASSUME IInv, NEW r \in Requests, RoleWrite(r)
    PROVE  Contract!RosterNext \/ UNCHANGED roster
  <1> DEFINE u == request[r].user
             new == request[r].role
  <1>1. /\ u \in Users /\ u \notin Founder /\ role[u] # "owner"
        /\ role' = [role EXCEPT ![u] = new]
        /\ UNCHANGED <<workspace, active, invitation>>
    BY TargetLemma DEF RoleWrite
  <1>2. new \in {"member", "admin"}
    BY DEF RoleWrite, IInv, RequestsWellFormed, AssignableRoles
  <1>3. /\ Founder' = Founder
        /\ u \in active => Member' = [Member EXCEPT ![u] = new]
        /\ u \notin active => Member' = Member
    BY <1>1, <1>2, RoleMoves
  <1>4. Answer' = Answer /\ Open' = Open
    BY <1>1 DEF Answer, Open
  <1>5. CASE u \in active
    <2>1. Member[u] # "none"
      BY <1>1, <1>5 DEF Member, IInv, TypeOK
    <2> QED  BY <1>1, <1>2, <1>3, <1>4, <1>5, <2>1, ContractRoles DEF Contract!RosterNext
  <1>6. CASE u \notin active
    BY <1>3, <1>4, <1>6 DEF roster
  <1> QED  BY <1>5, <1>6

LEMMA DeleteRefined ==
    ASSUME IInv, Founded, NEW r \in Requests, DeleteWorkspace(r)
    PROVE  Contract!RosterNext
  <1>1. Founder # {} /\ workspace' = "deleted" /\ UNCHANGED <<role, active, invitation>>
    BY RequestFounded DEF DeleteWorkspace
  <1>2. ~Open' /\ Founder' = Founder /\ Member' = Member /\ Answer' = Answer
    BY <1>1 DEF Open, Founder, Member, Answer
  <1> QED  BY <1>1, <1>2, ContractEnds DEF Contract!RosterNext

\* What the other steps of a request read or decide is not on the roster.
LEMMA OthersRefined ==
    ASSUME NEW r \in Requests,
           \/ StartRequest(r) \/ Abort(r)
           \/ InviteCount(r) \/ InviteMemberRead(r) \/ InviteLookup(r)
           \/ AcceptLock(r) \/ AcceptAdmit(r) \/ AcceptMemberRead(r) \/ AcceptCap(r)
           \/ RemoveRead(r) \/ RoleRead(r)
    PROVE  UNCHANGED roster
  <1>1. UNCHANGED <<workspace, role, active, invitation>>
    BY DEF StartRequest, StartInvite, StartAccept, StartRevoke, StartRemove, StartRoleUpdate,
           StartDelete, StartOwnerRequest, Abort, InviteCount, InviteMemberRead, InviteLookup,
           AcceptLock, AcceptAdmit, AcceptMemberRead, AcceptCap, RemoveRead, RoleRead
  <1> QED  BY <1>1, SameLemma

LEMMA StepRefined ==
    ASSUME IInv, Founded, [Next]_vars
    PROVE  [Contract!RosterNext]_(Contract!rosterVars)
  <1>1. ASSUME NEW u \in Users, Register(u) PROVE UNCHANGED roster
    <2>1. UNCHANGED <<workspace, role, active, invitation>>
      BY <1>1 DEF Register
    <2> QED  BY <2>1, SameLemma
  <1>2. ASSUME UNCHANGED vars PROVE UNCHANGED roster
    <2>1. UNCHANGED <<workspace, role, active, invitation>>
      BY <1>2 DEF vars
    <2> QED  BY <2>1, SameLemma
  <1>3. Contract!RosterNext \/ UNCHANGED roster
    <2>1. ASSUME NEW u \in Users, CreateWorkspace(u) \/ Decline(u)
          PROVE  Contract!RosterNext
      BY <2>1, CreateRefined, DeclineRefined
    <2>2. ASSUME NEW r \in Requests, StartRequest(r) \/ Advance(r) \/ AcquireLock(r) \/ Abort(r)
          PROVE  Contract!RosterNext \/ UNCHANGED roster
      <3>1. CASE InviteInsert(r) \/ InviteAgain(r)
        BY <3>1, InviteRefined
      <3>2. CASE AcceptJoin(r) \/ AcceptAgain(r)
        BY <3>2, AcceptRefined
      <3>3. CASE Revoke(r) \/ RemoveWrite(r) \/ RoleWrite(r) \/ DeleteWorkspace(r)
        BY <3>3, RevokeRefined, RemoveRefined, RoleRefined, DeleteRefined
      <3>4. CASE \/ StartRequest(r) \/ Abort(r)
                 \/ InviteCount(r) \/ InviteMemberRead(r) \/ InviteLookup(r)
                 \/ AcceptLock(r) \/ AcceptAdmit(r) \/ AcceptMemberRead(r) \/ AcceptCap(r)
                 \/ RemoveRead(r) \/ RoleRead(r)
        BY <3>4, OthersRefined
      <3> QED  BY <2>2, <3>1, <3>2, <3>3, <3>4 DEF Advance, AcquireLock
    <2> QED  BY <1>1, <1>2, <2>1, <2>2 DEF Next
  <1>4. ASSUME UNCHANGED roster PROVE UNCHANGED (Contract!rosterVars)
    BY <1>4 DEF roster, Contract!rosterVars, Open, Founder, Member, Answer
  <1> QED  BY <1>3, <1>4

LEMMA FoundedStep == IInv /\ Founded /\ [Next]_vars => Founded'
  <1> SUFFICES ASSUME IInv, Founded, [Next]_vars, workspace' # "absent"
               PROVE  Founder' # {}
    BY DEF Founded
  <1>1. CASE workspace = "absent"
    <2>1. \A r \in Requests : request[r] = Idle
      BY <1>1 DEF IInv, NothingBeforeCreation
    <2>2. \A r \in Requests : ~DeleteWorkspace(r)
      BY <2>1 DEF DeleteWorkspace, Idle
    <2>3. ASSUME NEW r \in Requests, StartRequest(r) \/ Abort(r) PROVE workspace' = workspace
      BY <2>3 DEF StartRequest, StartInvite, StartAccept, StartRevoke, StartRemove,
         StartRoleUpdate, StartDelete, StartOwnerRequest, Abort
    <2>4. ASSUME NEW r \in Requests, Advance(r) PROVE workspace' = workspace
      BY <2>4 DEF Advance, InviteCount, InviteMemberRead, InviteLookup, AcceptMemberRead,
         AcceptCap, AcceptJoin, AcceptAgain, AcceptCommit, RemoveRead, RemoveWrite, RoleRead,
         RoleWrite
    <2>5. ASSUME NEW r \in Requests, AcquireLock(r) PROVE workspace' = workspace
      BY <2>2, <2>5 DEF AcquireLock, InviteInsert, InviteAgain, AcceptLock, AcceptAdmit, Revoke
    <2>6. ASSUME NEW u \in Users, Register(u) \/ Decline(u) PROVE workspace' = workspace
      BY <2>6 DEF Register, Decline
    <2>7. PICK u \in Users : CreateWorkspace(u)
      BY <1>1, <2>3, <2>4, <2>5, <2>6 DEF Next, vars
    <2>8. role'[u] = "owner"
      BY <2>7 DEF CreateWorkspace, IInv, TypeOK
    <2> QED  BY <2>8 DEF Founder
  <1>2. CASE workspace # "absent"
    <2>1. PICK u \in Users : role[u] = "owner" /\ u \in active
      BY <1>2 DEF Founded, Founder, IInv, OwnersUntouched
    <2>2. role'[u] = "owner"
      BY <2>1, OwnersKept
    <2> QED  BY <2>2 DEF Founder
  <1> QED  BY <1>1, <1>2
----------------------------------------------------------------------------
\* Every step of every interleaving of the requests is one atomic step of the
\* roster's contract, or changes nothing that the contract speaks of.
THEOREM MembershipImplementsRoster == Spec => ImplementsRoster
  <1>1. Init => Contract!RosterInit
    BY NoAnswerLemma DEF Init, Contract!RosterInit
  <1>2. Init => Founded
    BY DEF Init, Founded
  <1>3. IInv /\ Founded /\ [Next]_vars => [Contract!RosterNext]_(Contract!rosterVars)
    BY StepRefined
  <1> QED
    BY Invariance, <1>1, <1>2, <1>3, FoundedStep, PTL
    DEF Spec, ImplementsRoster, Contract!RosterSpec

----------------------------------------------------------------------------
(***************************************************************************)
(* The signed-in shell, for any workspaces, owned or not, any number of    *)
(* slots and any bound on the moves.  Lists of workspaces arrive in any    *)
(* order; what saves the user is that each was right when it was read      *)
(* (Snapshots), that a later one has all that an earlier one had and that  *)
(* still is (InSequence), and that one which is out of date is followed by *)
(* a newer one (Announced).  The user's place follows from that (Placed),  *)
(* and the inbox from the same about the lists of invitations (Unlisted).  *)
(***************************************************************************)
\* The workspaces that have been deleted.
Gone == Owned \ (mine \cup unmade)

Acts == {"accept", "decline", "create", "delete"}
Refreshers == {"restore", "accept", "create", "delete"}

\* What a task is about, and which steps it takes.
Purposeful ==
    \A t \in Tasks : task[t] # NoTask =>
        /\ task[t].at <= version
        /\ task[t].kind \in Acts => task[t].of \in Workspaces
        /\ task[t].kind \in {"create", "delete"} => task[t].of \in Owned
        /\ task[t].step = "served" => task[t].kind # "restore"
        /\ task[t].step \in {"refreshing", "refreshed"} => task[t].kind \in Refreshers
        /\ task[t].kind = "create" /\ task[t].step \in {"served", "refreshing", "refreshed"} =>
              task[t].of \notin unmade

\* Nobody is invited to what they own, and nothing owned comes back.
Apart ==
    /\ invited \cap Owned = {} /\ mine \cap unmade = {} /\ answered \cap invited = {}
    /\ mine = {} => homeless
    /\ session \in mine \cup Gone /\ activeId \in mine \cup Gone \cup {None}
    /\ listedAt = 0 => workspaces = {} /\ activeId = None

\* The acts on their way are paid for by moves.
OnTheirWay == {t \in Tasks : task[t].step = "sent" /\ task[t].kind \in Acts}
PaidFor == IsFiniteSet(OnTheirWay) /\ version + Cardinality(OnTheirWay) <= moves + 1

\* The lists of workspaces that the tab shows or is about to, each with its version.
Refreshed == {t \in Tasks : task[t].step = "refreshed"}
Lists == (IF listedAt = 0 THEN {} ELSE {<<listedAt, workspaces>>})
         \cup {<<task[t].at, task[t].answer>> : t \in Refreshed}

\* Each was right when it was read, and none forgets what an earlier one knew.
Snapshots ==
    \A p \in Lists :
        /\ p[1] >= 1 /\ p[1] <= version
        /\ p[2] \subseteq mine \cup Gone
        /\ p[1] = version => p[2] = mine
        /\ p[2] = {} => homeless
InSequence == \A p, q \in Lists : p[1] <= q[1] => p[2] \cap mine \subseteq q[2]

Coming(t, v, kinds) ==
    /\ task[t].step \in {"served", "refreshing", "refreshed"} /\ task[t].kind \in kinds
    /\ task[t].step = "refreshed" => task[t].at > v
Behind(v, kinds) == \E t \in Tasks : Coming(t, v, kinds)

InTime == ~missed /\ overtaken \subseteq {"items"}

\* A list that is out of date is followed by a newer one.
Announced ==
    InTime =>
        /\ listedAt = 0 => Behind(0, Refreshers)
        /\ \A p \in Lists :
              /\ p[2] # mine => p[1] < listedAt \/ Behind(p[1], Refreshers)
              /\ p[2] \cap Gone # {} => p[1] < listedAt \/ Behind(p[1], {"delete"})

\* The user stays in a deleted workspace no longer than its deletion takes, and
\* no list that is about to come forgets the one they are in.
Placed ==
    InTime /\ ~homeless =>
        /\ activeId \in Gone => Behind(0, {"delete"})
        /\ session \in Gone /\ activeId = None => Behind(0, {"delete"})
        /\ \A t \in Refreshed :
              activeId \in mine /\ activeId # session =>
                  activeId \in task[t].answer \/ task[t].at < listedAt

\* What the user has answered is still being answered, or was before the list was read.
Answering(t, w) ==
    task[t].step = "served" /\ task[t].kind \in {"accept", "decline"} /\ task[t].of = w
Unlisted ==
    "items" \notin overtaken /\ ~missed =>
        /\ \A w \in items \cap answered : \E t \in Tasks : Answering(t, w)
        /\ \A s \in Tasks : task[s].step = "served" /\ task[s].kind = "inbox" =>
              \A w \in task[s].answer \cap answered :
                  \/ task[s].at < itemsAt
                  \/ \E t \in Tasks : Answering(t, w) /\ task[t].at > task[s].at

ShellInv ==
    /\ ShellTypeOK /\ Purposeful /\ Apart /\ PaidFor
    /\ Snapshots /\ InSequence /\ Announced /\ Placed /\ Unlisted

\* A set of numbers has a least one.
LEMMA MinLemma ==
    ASSUME NEW S \in SUBSET Nat, S # {}
    PROVE  Min(S) \in S
  <1> DEFINE R == OpToRel(<, Nat)
  <1>1. IsWellFoundedOn(R, Nat)
    BY NatLessThanWellFounded
  <1>2. \A x, y \in Nat : x < y => <<x, y>> \in R
    BY DEF OpToRel
  <1> HIDE DEF R
  <1>3. PICK x \in S : \A y \in S : ~(<<y, x>> \in R)
    BY <1>1, WFMin
  <1>4. \A y \in S : x =< y
    <2>1. \A y \in S : x \in Nat /\ y \in Nat /\ ~(y < x)
      BY <1>2, <1>3
    <2> QED  BY <2>1
  <1> QED  BY <1>3, <1>4 DEF Min

\* The first of the workspaces in the API's order is one of them.
LEMMA LeastWorkspace ==
    ASSUME NEW S \in SUBSET Workspaces, S # {}
    PROVE  Min(S) \in S
  BY MinLemma, ShellAssumption

TaskSteps == {"sent", "served", "refreshing", "refreshed", "failed"}

\* The fields of a task, and that NoTask has none of the steps.
LEMMA TaskFields ==
    /\ NoTask \in TaskState /\ NoTask.step = "none"
    /\ \A q \in TaskState : q # NoTask =>
          /\ q.step \in TaskSteps /\ q.kind \in Kinds /\ q.of \in Workspaces \cup {None}
          /\ q.answer \in SUBSET Workspaces /\ q.at \in Nat
          /\ q \in [step : TaskSteps, kind : Kinds, of : Workspaces \cup {None},
                    answer : SUBSET Workspaces, at : Nat]
    /\ \A q \in TaskState : q.step = "none" => q = NoTask
  <1>1. NoTask \in TaskState /\ NoTask.step = "none"
    BY DEF NoTask, TaskState
  <1>2. \A q \in TaskState : q # NoTask =>
          q \in [step : TaskSteps, kind : Kinds, of : Workspaces \cup {None},
                 answer : SUBSET Workspaces, at : Nat]
    BY DEF TaskState, TaskSteps
  <1>3. \A q \in [step : TaskSteps, kind : Kinds, of : Workspaces \cup {None},
                  answer : SUBSET Workspaces, at : Nat] :
          /\ q.step \in TaskSteps /\ q.kind \in Kinds /\ q.of \in Workspaces \cup {None}
          /\ q.answer \in SUBSET Workspaces /\ q.at \in Nat
    OBVIOUS
  <1>4. "none" \notin TaskSteps
    BY DEF TaskSteps
  <1>5. \A q \in TaskState : q.step = "none" => q = NoTask
    BY <1>2, <1>3, <1>4
  <1> QED  BY <1>1, <1>2, <1>3, <1>5

\* The fields of a task that begins.
LEMMA BegunLemma ==
    ASSUME NEW step \in TaskSteps, NEW kind \in Kinds, NEW w \in Workspaces \cup {None}
    PROVE  /\ Begun(step, kind, w) \in TaskState
           /\ Begun(step, kind, w).step = step /\ Begun(step, kind, w).kind = kind
           /\ Begun(step, kind, w).of = w /\ Begun(step, kind, w).at = 0
           /\ Begun(step, kind, w) # NoTask
  <1>1. /\ Begun(step, kind, w) \in TaskState
        /\ Begun(step, kind, w).step = step /\ Begun(step, kind, w).kind = kind
        /\ Begun(step, kind, w).of = w /\ Begun(step, kind, w).at = 0
    BY DEF Begun, TaskState, TaskSteps
  <1>2. step # "none"
    BY DEF TaskSteps
  <1> QED  BY <1>1, <1>2, TaskFields

\* A task goes on, with what it has been answered.
Onward(q, step, set, v) == [q EXCEPT !.step = step, !.answer = set, !.at = v]

LEMMA AdvanceLemma ==
    ASSUME NEW q \in TaskState, q # NoTask, NEW step \in TaskSteps, NEW set \in SUBSET Workspaces,
           NEW v \in Nat
    PROVE  /\ Onward(q, step, set, v) \in TaskState /\ Onward(q, step, set, v) # NoTask
           /\ Onward(q, step, set, v).step = step /\ Onward(q, step, set, v).answer = set
           /\ Onward(q, step, set, v).at = v /\ Onward(q, step, set, v).kind = q.kind
           /\ Onward(q, step, set, v).of = q.of
  <1> DEFINE o == [q EXCEPT !.step = step, !.answer = set, !.at = v]
  <1>1. q \in [step : TaskSteps, kind : Kinds, of : Workspaces \cup {None},
               answer : SUBSET Workspaces, at : Nat]
    BY TaskFields
  <1>2. /\ o \in [step : TaskSteps, kind : Kinds, of : Workspaces \cup {None},
                  answer : SUBSET Workspaces, at : Nat]
        /\ o.step = step /\ o.answer = set /\ o.at = v /\ o.kind = q.kind /\ o.of = q.of
    BY <1>1
  <1>3. Onward(q, step, set, v) = o
    BY DEF Onward
  <1> HIDE DEF o
  <1>4. o \in TaskState
    BY <1>2 DEF TaskState, TaskSteps
  <1>5. o # NoTask
    BY <1>2, TaskFields DEF TaskSteps
  <1> QED  BY <1>2, <1>3, <1>4, <1>5

\* The ways in which the actions let a task go on.
LEMMA ListingLemma ==
    ASSUME task \in [Tasks -> TaskState], NEW t \in Tasks, task[t] # NoTask, NEW step \in TaskSteps,
           NEW set, Listing(t, step, set)
    PROVE  task' = [task EXCEPT ![t] = Onward(task[t], step, set, version)]
  <1> DEFINE q == task[t]
  <1>1. task' = [task EXCEPT ![t] = [q EXCEPT !.step = step, !.answer = set, !.at = version]]
    BY DEF Listing
  <1>2. q \in TaskState /\ q # NoTask
    OBVIOUS
  <1>3. [q EXCEPT !.step = step, !.answer = set, !.at = version] = Onward(q, step, set, version)
    <2> HIDE DEF q
    <2>1. q \in [step : TaskSteps, kind : Kinds, of : Workspaces \cup {None},
                 answer : SUBSET Workspaces, at : Nat]
      BY <1>2, TaskFields
    <2> QED  BY <2>1 DEF Onward
  <1> QED  BY <1>1, <1>3

LEMMA StepLemma ==
    ASSUME task \in [Tasks -> TaskState], NEW t \in Tasks, task[t] # NoTask, NEW step \in TaskSteps,
           task' = [task EXCEPT ![t].step = step]
    PROVE  task' = [task EXCEPT ![t] = Onward(task[t], step, task[t].answer, task[t].at)]
  <1> DEFINE q == task[t]
  <1>1. task' = [task EXCEPT ![t] = [q EXCEPT !.step = step]]
    BY DEF Listing
  <1>2. q \in TaskState /\ q # NoTask
    OBVIOUS
  <1>3. [q EXCEPT !.step = step] = Onward(q, step, q.answer, q.at)
    <2> HIDE DEF q
    <2>1. q \in [step : TaskSteps, kind : Kinds, of : Workspaces \cup {None},
                 answer : SUBSET Workspaces, at : Nat]
      BY <1>2, TaskFields
    <2> QED  BY <2>1 DEF Onward
  <1> QED  BY <1>1, <1>3

LEMMA StampLemma ==
    ASSUME task \in [Tasks -> TaskState], NEW t \in Tasks, task[t] # NoTask, NEW step \in TaskSteps,
           task' = [task EXCEPT ![t].step = step, ![t].at = version + 1]
    PROVE  task' = [task EXCEPT ![t] = Onward(task[t], step, task[t].answer, version + 1)]
  <1> DEFINE q == task[t]
  <1>1. task' = [task EXCEPT ![t] = [q EXCEPT !.step = step, !.at = version + 1]]
    BY DEF Listing
  <1>2. q \in TaskState /\ q # NoTask
    OBVIOUS
  <1>3. [q EXCEPT !.step = step, !.at = version + 1] = Onward(q, step, q.answer, version + 1)
    <2> HIDE DEF q
    <2>1. q \in [step : TaskSteps, kind : Kinds, of : Workspaces \cup {None},
                 answer : SUBSET Workspaces, at : Nat]
      BY <1>2, TaskFields
    <2> QED  BY <2>1 DEF Onward
  <1> QED  BY <1>1, <1>3

\* The lists, task by task.
LEMMA ListsLemma ==
    /\ \A p \in Lists : \/ listedAt # 0 /\ p = <<listedAt, workspaces>>
                        \/ \E t \in Refreshed : p = <<task[t].at, task[t].answer>>
    /\ listedAt # 0 => <<listedAt, workspaces>> \in Lists
    /\ \A t \in Tasks : task[t].step = "refreshed" => <<task[t].at, task[t].answer>> \in Lists
  BY DEF Lists, Refreshed

ListsInv == Snapshots /\ InSequence /\ Announced /\ Placed

\* Nothing that the lists depend on has changed, and what is to refresh them goes on.
LEMMA QuietLists ==
    ASSUME ListsInv, UNCHANGED <<mine, unmade, session, workspaces, activeId, listedAt, homeless>>,
           version \in Nat, version' \in Nat, version' >= version, InTime' => InTime,
           \A u \in Tasks : /\ task'[u].step = "refreshed" <=> task[u].step = "refreshed"
                            /\ task[u].step = "refreshed" => task'[u] = task[u],
           \A p \in Lists : p[1] \in Nat,
           InTime' => \A u \in Tasks :
               task[u].step \in {"served", "refreshing"} /\ task[u].kind \in Refreshers =>
                   task'[u].step \in {"served", "refreshing"} /\ task'[u].kind = task[u].kind
    PROVE  ListsInv'
  <1>1. Refreshed' = Refreshed /\ Lists' = Lists
    <2>1. Refreshed' = Refreshed
      BY DEF Refreshed
    <2>2. \A u \in Refreshed : task'[u] = task[u]
      BY DEF Refreshed
    <2>3. {<<task'[t].at, task'[t].answer>> : t \in Refreshed'}
              = {<<task[t].at, task[t].answer>> : t \in Refreshed}
      BY <2>1, <2>2
    <2> QED  BY <2>1, <2>3 DEF Lists
  <1>2. ASSUME InTime', NEW v, NEW kinds \in SUBSET Refreshers, Behind(v, kinds)
        PROVE  Behind(v, kinds)'
    <2>1. PICK u \in Tasks : Coming(u, v, kinds)
      BY <1>2 DEF Behind
    <2>2. Coming(u, v, kinds)'
      BY <1>2, <2>1 DEF Coming
    <2> QED  BY <2>2 DEF Behind
  <1>3. Gone' = Gone
    BY DEF Gone
  <1>4. Snapshots'
    BY <1>1, <1>3 DEF Snapshots, ListsInv
  <1>5. InSequence'
    BY <1>1 DEF InSequence, ListsInv
  <1>6. {"delete"} \in SUBSET Refreshers /\ Refreshers \in SUBSET Refreshers
    BY DEF Refreshers
  <1>7. Announced'
    <2> SUFFICES ASSUME InTime'
                 PROVE  /\ listedAt' = 0 => Behind(0, Refreshers)'
                        /\ \A p \in Lists' :
                              /\ p[2] # mine' => p[1] < listedAt' \/ Behind(p[1], Refreshers)'
                              /\ p[2] \cap Gone' # {} =>
                                    p[1] < listedAt' \/ Behind(p[1], {"delete"})'
      BY DEF Announced
    <2>1. /\ listedAt = 0 => Behind(0, Refreshers)
          /\ \A p \in Lists :
                /\ p[2] # mine => p[1] < listedAt \/ Behind(p[1], Refreshers)
                /\ p[2] \cap Gone # {} => p[1] < listedAt \/ Behind(p[1], {"delete"})
      BY DEF Announced, ListsInv
    <2> QED  BY <1>1, <1>2, <1>3, <1>6, <2>1
  <1>8. Placed'
    <2> SUFFICES ASSUME InTime', ~homeless
                 PROVE  /\ activeId \in Gone => Behind(0, {"delete"})'
                        /\ session \in Gone /\ activeId = None => Behind(0, {"delete"})'
                        /\ \A t \in Refreshed :
                              activeId \in mine /\ activeId # session =>
                                  activeId \in task[t].answer \/ task[t].at < listedAt
      <3>1. \A t \in Refreshed : task'[t] = task[t]
        BY DEF Refreshed
      <3> QED  BY <1>1, <1>3, <3>1 DEF Placed
    <2>1. /\ activeId \in Gone => Behind(0, {"delete"})
          /\ session \in Gone /\ activeId = None => Behind(0, {"delete"})
          /\ \A t \in Refreshed :
                activeId \in mine /\ activeId # session =>
                    activeId \in task[t].answer \/ task[t].at < listedAt
      BY DEF Placed, ListsInv
    <2> QED  BY <1>2, <1>6, <2>1
  <1> QED  BY <1>4, <1>5, <1>7, <1>8 DEF ListsInv

TasksInv == ShellTypeOK /\ Purposeful /\ Apart

\* The types that the versions, the lists and the tasks have.
LEMMA ListVersions ==
    ASSUME TasksInv
    PROVE  /\ version \in Nat /\ listedAt \in Nat /\ session \in Workspaces /\ version >= 1
           /\ \A p \in Lists : p[1] \in Nat /\ p[2] \in SUBSET Workspaces
           /\ \A t \in Tasks : task[t] \in TaskState
           /\ \A t \in Tasks : task[t].step # "none" <=> task[t] # NoTask
           /\ \A t \in Tasks : task[t] # NoTask => task[t].at \in Nat /\ task[t].at <= version
  <1>1. ShellTypeOK /\ MaxMoves \in Nat /\ Workspaces \subseteq Nat
    BY ShellAssumption DEF TasksInv
  <1>2. /\ version \in Nat /\ version >= 1 /\ listedAt \in Nat /\ session \in Workspaces
        /\ workspaces \in SUBSET Workspaces
    BY <1>1 DEF ShellTypeOK
  <1>3. \A t \in Tasks : task[t] \in TaskState
    BY <1>1 DEF ShellTypeOK
  <1>4. \A t \in Tasks : task[t].step # "none" <=> task[t] # NoTask
    BY <1>3, TaskFields
  <1>5. \A t \in Tasks : task[t] # NoTask => task[t].at \in Nat /\ task[t].at <= version
                                             /\ task[t].answer \in SUBSET Workspaces
    BY <1>3, TaskFields DEF TasksInv, Purposeful
  <1>6. \A t \in Refreshed : task[t].at \in Nat /\ task[t].answer \in SUBSET Workspaces
    BY <1>4, <1>5 DEF Refreshed
  <1>7. \A p \in Lists : p[1] \in Nat /\ p[2] \in SUBSET Workspaces
    BY <1>2, <1>6, ListsLemma
  <1> QED  BY <1>2, <1>3, <1>4, <1>5, <1>7

\* Who waits for a newer list than this still waits for any newer than an older one.
LEMMA BehindLemma ==
    ASSUME TasksInv, NEW v \in Nat, NEW kinds, Behind(v, kinds)
    PROVE  Behind(0, kinds)
  <1>1. PICK t \in Tasks : Coming(t, v, kinds)
    BY DEF Behind
  <1>2. task[t].at \in Nat
    BY <1>1, ListVersions DEF Coming
  <1>3. Coming(t, 0, kinds)
    BY <1>1, <1>2 DEF Coming
  <1> QED  BY <1>3 DEF Behind

\* The list is read.
LEMMA ServeRefreshLists ==
    ASSUME TasksInv, ListsInv, NEW t \in Tasks, ServeRefresh(t)
    PROVE  ListsInv'
  <1> DEFINE o == Onward(task[t], "refreshed", mine, version)
  <1>0. /\ task \in [Tasks -> TaskState] /\ mine \in SUBSET Workspaces
        /\ UNCHANGED <<mine, unmade, version, session, workspaces, activeId, listedAt,
                       homeless, missed, overtaken>>
    BY DEF TasksInv, ShellTypeOK, ServeRefresh, server, lists, history
  <1>1. task[t].step = "refreshing" /\ task[t] # NoTask /\ version \in Nat /\ version >= 1
    BY ListVersions DEF ServeRefresh
  <1>2. task' = [task EXCEPT ![t] = o]
    <2>1. Listing(t, "refreshed", mine) /\ "refreshed" \in TaskSteps
      BY DEF ServeRefresh, TaskSteps
    <2> QED  BY <1>0, <1>1, <2>1, ListingLemma
  <1>3. /\ o.step = "refreshed" /\ o.answer = mine /\ o.at = version /\ o.kind = task[t].kind
    BY <1>0, <1>1, AdvanceLemma DEF TaskSteps
  <1> HIDE DEF o
  <1>4. task'[t] = o /\ \A u \in Tasks \ {t} : task'[u] = task[u]
    BY <1>0, <1>2
  <1>5. \A p \in Lists' : p \in Lists \/ p = <<version, mine>>
    <2> SUFFICES ASSUME NEW p \in Lists'  PROVE p \in Lists \/ p = <<version, mine>>
      OBVIOUS
    <2>1. CASE listedAt # 0 /\ p = <<listedAt, workspaces>>
      BY <2>1, ListsLemma
    <2>2. ASSUME NEW u \in Tasks, task'[u].step = "refreshed",
                 p = <<task'[u].at, task'[u].answer>>
          PROVE  p \in Lists \/ p = <<version, mine>>
      <3>1. CASE u = t
        BY <1>3, <1>4, <2>2, <3>1
      <3>2. CASE u # t
        BY <1>4, <2>2, <3>2, ListsLemma
      <3> QED  BY <3>1, <3>2
    <2> QED  BY <1>0, <2>1, <2>2 DEF Lists, Refreshed
  <1>6. Gone' = Gone /\ Gone \cap mine = {}
    BY <1>0 DEF Gone
  <1>7. Snapshots /\ InSequence /\ Announced /\ Placed /\ (mine = {} => homeless)
    BY DEF ListsInv, TasksInv, Apart
  <1>8. Snapshots'
    BY <1>0, <1>1, <1>5, <1>6, <1>7 DEF Snapshots
  <1>9. InSequence'
    <2> SUFFICES ASSUME NEW p \in Lists', NEW q \in Lists', p[1] <= q[1]
                 PROVE  p[2] \cap mine \subseteq q[2]
      BY <1>0 DEF InSequence
    <2>1. CASE q = <<version, mine>>
      BY <2>1
    <2>2. CASE q \in Lists /\ p = <<version, mine>>
      <3>1. q[1] = version
        BY <1>1, <1>7, <2>2, ListVersions DEF Snapshots
      <3> QED  BY <1>7, <2>2, <3>1 DEF Snapshots
    <2>3. CASE q \in Lists /\ p \in Lists
      BY <1>7, <2>3 DEF InSequence
    <2> QED  BY <1>5, <2>1, <2>2, <2>3
  <1>10. ASSUME NEW v \in Nat, v < version, NEW kinds, Behind(v, kinds)  PROVE Behind(v, kinds)'
    <2>1. PICK u \in Tasks : Coming(u, v, kinds)
      BY <1>10 DEF Behind
    <2>2. Coming(u, v, kinds)'
      BY <1>1, <1>3, <1>4, <1>10, <2>1 DEF Coming
    <2> QED  BY <2>2 DEF Behind
  <1>11. Announced'
    <2> SUFFICES ASSUME InTime
                 PROVE  /\ listedAt = 0 => Behind(0, Refreshers)'
                        /\ \A p \in Lists' :
                              /\ p[2] # mine => p[1] < listedAt \/ Behind(p[1], Refreshers)'
                              /\ p[2] \cap Gone # {} =>
                                    p[1] < listedAt \/ Behind(p[1], {"delete"})'
      BY <1>0, <1>6 DEF Announced, InTime
    <2>1. listedAt = 0 => Behind(0, Refreshers)'
      BY <1>1, <1>7, <1>10 DEF Announced
    <2>2. ASSUME NEW p \in Lists'
          PROVE  /\ p[2] # mine => p[1] < listedAt \/ Behind(p[1], Refreshers)'
                 /\ p[2] \cap Gone # {} => p[1] < listedAt \/ Behind(p[1], {"delete"})'
      <3>1. CASE p[2] = mine
        BY <1>6, <3>1
      <3>2. CASE p[2] # mine
        <4>1. p \in Lists
          BY <1>5, <2>2, <3>2
        <4>2. p[1] \in Nat /\ p[1] < version
          BY <1>1, <1>7, <3>2, <4>1, ListVersions DEF Snapshots
        <4>3. /\ p[2] # mine => p[1] < listedAt \/ Behind(p[1], Refreshers)
              /\ p[2] \cap Gone # {} => p[1] < listedAt \/ Behind(p[1], {"delete"})
          BY <1>7, <4>1 DEF Announced
        <4> QED  BY <1>10, <4>2, <4>3
      <3> QED  BY <3>1, <3>2
    <2> QED  BY <2>1, <2>2
  <1>12. Placed'
    <2> SUFFICES ASSUME InTime, ~homeless
                 PROVE  /\ activeId \in Gone => Behind(0, {"delete"})'
                        /\ session \in Gone /\ activeId = None => Behind(0, {"delete"})'
                        /\ \A u \in Refreshed' :
                              activeId \in mine /\ activeId # session =>
                                  activeId \in task'[u].answer \/ task'[u].at < listedAt
      BY <1>0, <1>6 DEF Placed, InTime
    <2>1. /\ activeId \in Gone => Behind(0, {"delete"})
          /\ session \in Gone /\ activeId = None => Behind(0, {"delete"})
          /\ \A u \in Refreshed :
                activeId \in mine /\ activeId # session =>
                    activeId \in task[u].answer \/ task[u].at < listedAt
      BY <1>7 DEF Placed
    <2>2. \A u \in Refreshed' :
             activeId \in mine /\ activeId # session =>
                 activeId \in task'[u].answer \/ task'[u].at < listedAt
      BY <1>3, <1>4, <2>1 DEF Refreshed
    <2> QED  BY <1>1, <1>10, <2>1, <2>2
  <1> QED  BY <1>8, <1>9, <1>11, <1>12 DEF ListsInv

\* The user switches to a listed workspace.
LEMMA SwitchLists ==
    ASSUME TasksInv, ListsInv, NEW w \in Workspaces, SwitchWorkspace(w)
    PROVE  ListsInv'
  <1>0. /\ UNCHANGED <<mine, unmade, version, session, workspaces, listedAt, task,
                       homeless, missed, overtaken>>
        /\ activeId' = w
    BY DEF SwitchWorkspace, server, history
  <1>1. w \in workspaces /\ listedAt # 0
    BY DEF SwitchWorkspace, Available, Shown, TasksInv, Apart
  <1>2. Lists' = Lists /\ Refreshed' = Refreshed /\ Gone' = Gone
    BY <1>0 DEF Lists, Refreshed, Gone
  <1>3. Snapshots /\ InSequence /\ Announced /\ Placed
    BY DEF ListsInv
  <1>4. \A v, kinds : Behind(v, kinds)' <=> Behind(v, kinds)
    BY <1>0 DEF Behind, Coming
  <1>5. Snapshots' /\ InSequence'
    BY <1>0, <1>2, <1>3 DEF Snapshots, InSequence
  <1>6. Announced'
    BY <1>0, <1>2, <1>3, <1>4 DEF Announced, InTime
  <1>7. Placed'
    <2> SUFFICES ASSUME InTime, ~homeless
                 PROVE  /\ w \in Gone => Behind(0, {"delete"})
                        /\ w # None
                        /\ \A u \in Refreshed :
                              w \in mine => w \in task[u].answer \/ task[u].at < listedAt
      BY <1>0, <1>2, <1>4 DEF Placed, InTime
    <2>1. <<listedAt, workspaces>> \in Lists /\ listedAt \in Nat
      BY <1>1, ListsLemma, ListVersions
    <2>2. w \in Gone => Behind(0, {"delete"})
      <3> SUFFICES ASSUME w \in Gone  PROVE Behind(0, {"delete"})
        OBVIOUS
      <3>1. Behind(listedAt, {"delete"})
        BY <1>1, <1>3, <2>1 DEF Announced
      <3> QED  BY <2>1, <3>1, BehindLemma
    <2>3. w # None
      BY ShellAssumption
    <2>4. ASSUME NEW u \in Refreshed, w \in mine, ~(task[u].at < listedAt)
          PROVE  w \in task[u].answer
      <3>1. <<task[u].at, task[u].answer>> \in Lists /\ task[u].at \in Nat
        BY <2>4, ListsLemma, ListVersions DEF Refreshed
      <3>2. listedAt <= task[u].at
        BY <2>1, <2>4, <3>1
      <3> QED  BY <1>1, <1>3, <2>1, <2>4, <3>1, <3>2 DEF InSequence
    <2> QED  BY <2>2, <2>3, <2>4
  <1> QED  BY <1>5, <1>6, <1>7 DEF ListsInv

\* A workspace is joined, created or deleted, and the list is to be read again.
LEMMA ChangesLists ==
    ASSUME TasksInv, ListsInv, NEW t \in Tasks, task[t].step = "sent",
           NEW o \in TaskState, task' = [task EXCEPT ![t] = o],
           o.step = "served", o.kind = task[t].kind, o.kind \in {"accept", "create", "delete"},
           \/ /\ o.kind # "delete"
              /\ \E w \in Workspaces : /\ w \notin mine \cup Gone
                                       /\ mine' = mine \cup {w} /\ unmade' = unmade \ mine'
                                       /\ w \in unmade \/ w \notin Owned
           \/ o.kind = "delete" /\ mine' \subseteq mine /\ Gone \subseteq Gone'
              /\ mine \subseteq mine' \cup Gone',
           version' = version + 1,
           UNCHANGED <<session, workspaces, activeId, listedAt, overtaken, missed>>,
           homeless' = (homeless \/ mine' = {})
    PROVE  ListsInv'
  <1>0. task \in [Tasks -> TaskState] /\ version \in Nat
    BY ListVersions DEF TasksInv, ShellTypeOK
  <1>1. task'[t] = o /\ \A u \in Tasks \ {t} : task'[u] = task[u]
    BY <1>0
  <1>2. Refreshed' = Refreshed /\ \A u \in Refreshed : task'[u] = task[u]
    BY <1>1 DEF Refreshed
  <1>3. Lists' = Lists
    <2>1. {<<task'[u].at, task'[u].answer>> : u \in Refreshed'}
              = {<<task[u].at, task[u].answer>> : u \in Refreshed}
      BY <1>2
    <2> QED  BY <2>1 DEF Lists
  <1>4. Snapshots /\ InSequence /\ Announced /\ Placed /\ Apart
    BY DEF ListsInv, TasksInv
  <1>5. /\ mine \cup Gone \subseteq mine' \cup Gone'
        /\ o.kind # "delete" => Gone' = Gone
    BY <1>4 DEF Gone, Apart
  <1>6. \A p \in Lists : p[1] \in Nat /\ p[1] <= version
    BY <1>4, ListVersions DEF Snapshots
  <1>7. Snapshots'
    <2> SUFFICES ASSUME NEW p \in Lists
                 PROVE  /\ p[1] >= 1 /\ p[1] <= version'
                        /\ p[2] \subseteq mine' \cup Gone'
                        /\ p[1] = version' => p[2] = mine'
                        /\ p[2] = {} => homeless'
      BY <1>3 DEF Snapshots
    <2>1. /\ p[1] >= 1 /\ p[2] \subseteq mine \cup Gone /\ (p[2] = {} => homeless)
      BY <1>4 DEF Snapshots
    <2>2. p[1] <= version' /\ p[1] # version'
      BY <1>0, <1>6
    <2>3. homeless => homeless'
      OBVIOUS
    <2> QED  BY <1>5, <2>1, <2>2, <2>3
  <1>8. InSequence'
    <2> SUFFICES ASSUME NEW p \in Lists, NEW q \in Lists, p[1] <= q[1]
                 PROVE  p[2] \cap mine' \subseteq q[2]
      BY <1>3 DEF InSequence
    <2>1. p[2] \subseteq mine \cup Gone
      BY <1>4 DEF Snapshots
    <2>2. p[2] \cap mine' \subseteq mine
      BY <2>1
    <2> QED  BY <1>4, <2>2 DEF InSequence
  <1>9. ASSUME NEW v, NEW kinds, Behind(v, kinds)  PROVE Behind(v, kinds)'
    <2>1. PICK u \in Tasks : Coming(u, v, kinds)
      BY <1>9 DEF Behind
    <2>2. Coming(u, v, kinds)'
      BY <1>1, <2>1 DEF Coming
    <2> QED  BY <2>2 DEF Behind
  <1>10. ASSUME NEW v, NEW kinds, o.kind \in kinds  PROVE Behind(v, kinds)'
    <2>1. Coming(t, v, kinds)'
      BY <1>1, <1>10 DEF Coming
    <2> QED  BY <2>1 DEF Behind
  <1>11. o.kind \in Refreshers
    BY DEF Refreshers
  <1>12. Announced'
    <2> SUFFICES ASSUME InTime
                 PROVE  /\ listedAt = 0 => Behind(0, Refreshers)'
                        /\ \A p \in Lists :
                              /\ p[2] # mine' => p[1] < listedAt \/ Behind(p[1], Refreshers)'
                              /\ p[2] \cap Gone' # {} =>
                                    p[1] < listedAt \/ Behind(p[1], {"delete"})'
      BY <1>3 DEF Announced, InTime
    <2>1. ASSUME NEW p \in Lists, p[2] \cap Gone' # {}
          PROVE  p[1] < listedAt \/ Behind(p[1], {"delete"})'
      <3>1. CASE o.kind = "delete"
        BY <1>10, <3>1
      <3>2. CASE o.kind # "delete"
        BY <1>4, <1>5, <1>9, <2>1, <3>2 DEF Announced
      <3> QED  BY <3>1, <3>2
    <2> QED  BY <1>10, <1>11, <2>1
  <1>13. Placed'
    <2> SUFFICES ASSUME InTime, ~homeless'
                 PROVE  /\ activeId \in Gone' => Behind(0, {"delete"})'
                        /\ session \in Gone' /\ activeId = None => Behind(0, {"delete"})'
                        /\ \A u \in Refreshed :
                              activeId \in mine' /\ activeId # session =>
                                  activeId \in task[u].answer \/ task[u].at < listedAt
      BY <1>2 DEF Placed, InTime
    <2>1. /\ activeId \in Gone => Behind(0, {"delete"})
          /\ session \in Gone /\ activeId = None => Behind(0, {"delete"})
          /\ \A u \in Refreshed :
                activeId \in mine /\ activeId # session =>
                    activeId \in task[u].answer \/ task[u].at < listedAt
      BY <1>4 DEF Placed
    <2>2. activeId \in mine' => activeId \in mine
      BY <1>4, ShellAssumption DEF Apart
    <2>3. CASE o.kind = "delete"
      BY <1>10, <2>1, <2>2, <2>3
    <2>4. CASE o.kind # "delete"
      BY <1>5, <1>9, <2>1, <2>2, <2>4
    <2> QED  BY <2>3, <2>4
  <1> QED  BY <1>7, <1>8, <1>12, <1>13 DEF ListsInv

\* The list arrives.
LEMMA TakeRefreshLists ==
    ASSUME TasksInv, ListsInv, NEW t \in Tasks, TakeRefresh(t)
    PROVE  ListsInv'
  <1> DEFINE v == task[t].at
             list == task[t].answer
  <1>0. /\ task \in [Tasks -> TaskState]
        /\ UNCHANGED <<mine, unmade, version, session, homeless, missed>>
    BY DEF TasksInv, ShellTypeOK, TakeRefresh, server
  <1>1. /\ task[t].step = "refreshed" /\ task[t] # NoTask
        /\ workspaces' = list /\ listedAt' = v
        /\ activeId' = NextActive(task[t].kind, task[t].of, list)
        /\ task' = [task EXCEPT ![t] = NoTask]
    BY ListVersions DEF TakeRefresh
  <1>2. task'[t] = NoTask /\ \A u \in Tasks \ {t} : task'[u] = task[u]
    BY <1>0, <1>1
  <1>3. Snapshots /\ InSequence /\ Announced /\ Placed /\ Apart /\ Purposeful
    BY DEF ListsInv, TasksInv
  <1>4. <<v, list>> \in Lists /\ v \in Nat /\ v # 0 /\ list \in SUBSET Workspaces
    <2>1. <<v, list>> \in Lists
      BY <1>1, ListsLemma
    <2>2. v \in Nat /\ v >= 1
      BY <1>1, <1>3, <2>1, ListVersions DEF Snapshots
    <2>3. list \in SUBSET Workspaces
      BY <2>1, ListVersions
    <2> QED  BY <2>1, <2>2, <2>3
  <1>5. Lists' \subseteq Lists /\ Refreshed' = Refreshed \ {t} /\ Gone' = Gone
    <2>1. Refreshed' = Refreshed \ {t}
      BY <1>2, TaskFields DEF Refreshed
    <2>2. \A u \in Refreshed' : <<task'[u].at, task'[u].answer>> \in Lists
      BY <1>2, <2>1, ListsLemma DEF Refreshed
    <2>3. Lists' \subseteq Lists
      BY <1>1, <1>4, <2>2 DEF Lists
    <2>4. Gone' = Gone
      BY <1>0 DEF Gone
    <2> QED  BY <2>1, <2>3, <2>4
  <1>6. Snapshots' /\ InSequence'
    BY <1>0, <1>3, <1>5 DEF Snapshots, InSequence
  <1>7. InTime' => /\ InTime /\ listedAt <= v
                   /\ task[t].kind = "create" => task[t].of \in list
    <2>1. listedAt \in Nat
      BY ListVersions
    <2>2. overtaken \subseteq overtaken'
      BY DEF TakeRefresh, Older
    <2>3. v < listedAt => "workspaces" \in overtaken'
      BY DEF TakeRefresh, Older
    <2>4. task[t].kind = "create" /\ task[t].of \notin list => "creation" \in overtaken'
      BY DEF TakeRefresh
    <2> QED  BY <1>0, <1>4, <2>1, <2>2, <2>3, <2>4 DEF InTime
  <1>8. ASSUME NEW x \in Nat, NEW kinds, Behind(x, kinds)
        PROVE  x < v \/ Behind(x, kinds)'
    <2>1. PICK u \in Tasks : Coming(u, x, kinds)
      BY <1>8 DEF Behind
    <2>2. CASE u = t
      BY <1>1, <2>1, <2>2 DEF Coming
    <2>3. CASE u # t
      <3>1. Coming(u, x, kinds)'
        BY <1>2, <2>1, <2>3 DEF Coming
      <3> QED  BY <3>1 DEF Behind
    <2> QED  BY <2>2, <2>3
  <1>9. Announced'
    <2> SUFFICES ASSUME InTime'
                 PROVE  \A p \in Lists' :
                           /\ p[2] # mine => p[1] < v \/ Behind(p[1], Refreshers)'
                           /\ p[2] \cap Gone # {} => p[1] < v \/ Behind(p[1], {"delete"})'
      BY <1>0, <1>1, <1>4, <1>5 DEF Announced
    <2> TAKE p \in Lists'
    <2>1. p \in Lists /\ p[1] \in Nat /\ listedAt \in Nat
      BY <1>5, ListVersions
    <2>2. /\ p[2] # mine => p[1] < listedAt \/ Behind(p[1], Refreshers)
          /\ p[2] \cap Gone # {} => p[1] < listedAt \/ Behind(p[1], {"delete"})
      BY <1>3, <1>7, <2>1 DEF Announced
    <2>3. p[1] < listedAt => p[1] < v
      BY <1>4, <1>7, <2>1
    <2> QED  BY <1>8, <2>1, <2>2, <2>3
  <1>10. Placed'
    <2> SUFFICES ASSUME InTime', ~homeless
                 PROVE  /\ activeId' \in Gone => Behind(0, {"delete"})'
                        /\ session \in Gone /\ activeId' = None => Behind(0, {"delete"})'
                        /\ \A u \in Refreshed \ {t} :
                              activeId' \in mine /\ activeId' # session =>
                                  activeId' \in task[u].answer \/ task[u].at < v
      <3>1. \A u \in Refreshed \ {t} : task'[u] = task[u]
        BY <1>2 DEF Refreshed
      <3> QED  BY <1>0, <1>1, <1>5, <3>1 DEF Placed
    <2>1. /\ activeId \in Gone => Behind(0, {"delete"})
          /\ session \in Gone /\ activeId = None => Behind(0, {"delete"})
          /\ \A u \in Refreshed :
                activeId \in mine /\ activeId # session =>
                    activeId \in task[u].answer \/ task[u].at < listedAt
      BY <1>3, <1>7 DEF Placed
    <2>2. list # {} /\ listedAt <= v /\ listedAt \in Nat
      BY <1>3, <1>4, <1>7, ListVersions DEF Snapshots
    <2>3. ASSUME activeId' \in list
          PROVE  /\ activeId' \in Gone => Behind(0, {"delete"})'
                 /\ activeId' # None
                 /\ \A u \in Refreshed \ {t} :
                       activeId' \in mine => activeId' \in task[u].answer \/ task[u].at < v
      <3>1. activeId' # None
        BY <1>4, <2>3, ShellAssumption
      <3>2. ASSUME activeId' \in Gone  PROVE Behind(0, {"delete"})'
        <4>1. v < listedAt \/ Behind(v, {"delete"})
          BY <1>3, <1>4, <1>7, <2>3, <3>2 DEF Announced
        <4>2. Behind(v, {"delete"})
          BY <1>4, <2>2, <4>1
        <4>3. PICK u \in Tasks : Coming(u, v, {"delete"})
          BY <4>2 DEF Behind
        <4>4. u # t
          BY <1>1, <1>4, <4>3 DEF Coming
        <4>5. task[u].at \in Nat
          BY <4>3, ListVersions DEF Coming
        <4>6. Coming(u, 0, {"delete"})'
          BY <1>2, <1>4, <4>3, <4>4, <4>5 DEF Coming
        <4> QED  BY <4>6 DEF Behind
      <3>3. ASSUME NEW u \in Refreshed \ {t}, activeId' \in mine, ~(task[u].at < v)
            PROVE  activeId' \in task[u].answer
        <4>1. <<task[u].at, task[u].answer>> \in Lists /\ task[u].at \in Nat
          BY <3>3, ListsLemma, ListVersions DEF Refreshed
        <4>2. v <= task[u].at
          BY <1>4, <3>3, <4>1
        <4>3. list \cap mine \subseteq task[u].answer
          BY <1>3, <1>4, <4>1, <4>2 DEF InSequence
        <4> QED  BY <2>3, <3>3, <4>3
      <3> QED  BY <3>1, <3>2, <3>3
    <2>4. ASSUME task[t].kind # "delete", Behind(0, {"delete"})  PROVE Behind(0, {"delete"})'
      <3>1. PICK u \in Tasks : Coming(u, 0, {"delete"})
        BY <2>4 DEF Behind
      <3>2. u # t
        BY <2>4, <3>1 DEF Coming
      <3>3. Coming(u, 0, {"delete"})'
        BY <1>2, <3>1, <3>2 DEF Coming
      <3> QED  BY <3>3 DEF Behind
    <2>5. ASSUME NEW u \in Refreshed, activeId \in mine, activeId # session
          PROVE  activeId \in task[u].answer \/ task[u].at < v
      <3>1. task[u].at \in Nat
        BY ListVersions DEF Refreshed
      <3> QED  BY <1>4, <2>1, <2>2, <2>5, <3>1
    <2>6. CASE activeId' \in list
      BY <2>3, <2>6
    <2>7. CASE task[t].kind = "delete"
      <3>1. activeId' = Min(list)
        BY <1>1, <2>2, <2>7 DEF NextActive
      <3> QED  BY <1>4, <2>2, <2>6, <3>1, LeastWorkspace
    <2>8. CASE task[t].kind = "create"
      <3>1. activeId' = task[t].of /\ task[t].of \in list
        BY <1>1, <1>7, <2>8 DEF NextActive
      <3> QED  BY <2>6, <3>1
    <2>9. CASE task[t].kind = "accept"
      <3>1. activeId' = activeId
        BY <1>1, <2>9 DEF NextActive
      <3> QED  BY <2>1, <2>4, <2>5, <2>9, <3>1
    <2>10. CASE task[t].kind = "restore" /\ activeId' \notin list
      <3>1. activeId' = session /\ activeId \notin list
        BY <1>1, <2>10 DEF NextActive
      <3>2. session # None
        BY ListVersions, ShellAssumption
      <3>3. ASSUME session \in Gone  PROVE Behind(0, {"delete"})
        <4>1. CASE activeId \in Gone \/ activeId = None
          BY <2>1, <3>3, <4>1
        <4>2. CASE activeId \in mine
          <5>1. activeId # session
            BY <3>3, <4>2 DEF Gone
          <5>2. t \in Refreshed
            BY <1>1 DEF Refreshed
          <5>3. activeId \in list \/ v < v
            BY <2>5, <4>2, <5>1, <5>2
          <5> QED  BY <1>4, <3>1, <5>3
        <4> QED  BY <1>3, <4>1, <4>2 DEF Apart
      <3> QED  BY <2>4, <2>10, <3>1, <3>2, <3>3
    <2>11. task[t].kind \in Refreshers
      BY <1>1, <1>3 DEF Purposeful
    <2> QED  BY <2>6, <2>7, <2>8, <2>9, <2>10, <2>11 DEF Refreshers
  <1> QED  BY <1>6, <1>9, <1>10 DEF ListsInv

\* Nothing that the inbox depends on has changed, and what is being answered goes on.
LEMMA QuietInbox ==
    ASSUME Unlisted, UNCHANGED <<items, itemsAt>>, answered' \subseteq answered,
           overtaken \subseteq overtaken', missed => missed',
           \A u \in Tasks : task'[u].step = "served" /\ task'[u].kind = "inbox" =>
                               task'[u] = task[u],
           ~missed' => \A u \in Tasks :
               task[u].step = "served" /\ task[u].kind \in {"accept", "decline"} =>
                   task'[u] = task[u]
    PROVE  Unlisted'
  <1> SUFFICES ASSUME "items" \notin overtaken', ~missed'
               PROVE  /\ \A w \in items \cap answered' : \E t \in Tasks : Answering(t, w)'
                      /\ \A s \in Tasks : task'[s].step = "served" /\ task'[s].kind = "inbox" =>
                            \A w \in task'[s].answer \cap answered' :
                                \/ task'[s].at < itemsAt
                                \/ \E t \in Tasks : Answering(t, w)' /\ task'[t].at > task'[s].at
    BY DEF Unlisted
  <1>1. /\ \A w \in items \cap answered : \E t \in Tasks : Answering(t, w)
        /\ \A s \in Tasks : task[s].step = "served" /\ task[s].kind = "inbox" =>
              \A w \in task[s].answer \cap answered :
                  \/ task[s].at < itemsAt
                  \/ \E t \in Tasks : Answering(t, w) /\ task[t].at > task[s].at
    BY DEF Unlisted
  <1>2. \A t \in Tasks : \A w : Answering(t, w) => Answering(t, w)' /\ task'[t] = task[t]
    BY DEF Answering
  <1> QED  BY <1>1, <1>2

\* The invitations are read: none of them has been answered.
LEMMA ServeInboxUnlisted ==
    ASSUME TasksInv, Unlisted, NEW t \in Tasks, ServeInbox(t)
    PROVE  Unlisted'
  <1> DEFINE o == Onward(task[t], "served", invited, version)
  <1>0. /\ task \in [Tasks -> TaskState] /\ invited \in SUBSET Workspaces
        /\ answered \cap invited = {}
        /\ UNCHANGED <<items, itemsAt, answered, overtaken, missed>>
    BY DEF TasksInv, Apart, ShellTypeOK, ServeInbox, inbox, history
  <1>1. task[t].step = "sent" /\ task[t].kind = "inbox" /\ task[t] # NoTask /\ version \in Nat
    BY ListVersions DEF ServeInbox
  <1>2. task' = [task EXCEPT ![t] = o]
    <2>1. Listing(t, "served", invited) /\ "served" \in TaskSteps
      BY DEF ServeInbox, TaskSteps
    <2> QED  BY <1>0, <1>1, <2>1, ListingLemma
  <1>3. o.answer = invited
    BY <1>0, <1>1, AdvanceLemma DEF TaskSteps
  <1> HIDE DEF o
  <1>4. task'[t] = o /\ \A u \in Tasks \ {t} : task'[u] = task[u]
    BY <1>0, <1>2
  <1>5. \A u \in Tasks : \A w : Answering(u, w) => Answering(u, w)' /\ task'[u] = task[u]
    BY <1>1, <1>4 DEF Answering
  <1> QED  BY <1>0, <1>3, <1>4, <1>5 DEF Unlisted

\* The inbox is listed.
LEMMA TakeInboxUnlisted ==
    ASSUME TasksInv, Unlisted, NEW t \in Tasks, TakeInbox(t)
    PROVE  Unlisted'
  <1>0. /\ task \in [Tasks -> TaskState] /\ itemsAt \in Nat
        /\ items' = task[t].answer /\ itemsAt' = task[t].at
        /\ UNCHANGED <<answered, missed>>
        /\ task' = [task EXCEPT ![t] = NoTask]
        /\ task[t].step = "served" /\ task[t].kind = "inbox" /\ task[t] # NoTask
    BY ListVersions DEF TasksInv, ShellTypeOK, TakeInbox
  <1>1. task'[t] = NoTask /\ \A u \in Tasks \ {t} : task'[u] = task[u]
    BY <1>0
  <1>2. task[t].at \in Nat
    BY <1>0, ListVersions
  <1> SUFFICES ASSUME "items" \notin overtaken', ~missed
               PROVE  /\ \A w \in items' \cap answered : \E u \in Tasks : Answering(u, w)'
                      /\ \A s \in Tasks : task'[s].step = "served" /\ task'[s].kind = "inbox" =>
                            \A w \in task'[s].answer \cap answered :
                                \/ task'[s].at < itemsAt'
                                \/ \E u \in Tasks : Answering(u, w)' /\ task'[u].at > task'[s].at
    BY <1>0 DEF Unlisted
  <1>3. "items" \notin overtaken /\ itemsAt <= task[t].at
    BY <1>0, <1>2 DEF TakeInbox, Older
  <1>4. /\ \A s \in Tasks : task[s].step = "served" /\ task[s].kind = "inbox" =>
              \A w \in task[s].answer \cap answered :
                  \/ task[s].at < itemsAt
                  \/ \E u \in Tasks : Answering(u, w) /\ task[u].at > task[s].at
    BY <1>3 DEF Unlisted
  <1>5. \A u \in Tasks : \A w : Answering(u, w) => Answering(u, w)' /\ task'[u] = task[u]
    BY <1>0, <1>1 DEF Answering
  <1>6. \A w \in items' \cap answered : \E u \in Tasks : Answering(u, w)'
    BY <1>0, <1>2, <1>3, <1>4, <1>5
  <1>7. ASSUME NEW s \in Tasks, task'[s].step = "served", task'[s].kind = "inbox",
               NEW w \in task'[s].answer \cap answered
        PROVE  \/ task'[s].at < itemsAt'
               \/ \E u \in Tasks : Answering(u, w)' /\ task'[u].at > task'[s].at
    <2>1. s # t /\ task'[s] = task[s]
      BY <1>1, <1>7, TaskFields
    <2>2. task[s].at \in Nat
      BY <1>7, <2>1, ListVersions, TaskFields
    <2> QED  BY <1>0, <1>2, <1>3, <1>4, <1>5, <1>7, <2>1, <2>2
  <1> QED  BY <1>6, <1>7

\* An invitation that was answered leaves the inbox.
LEMMA TakeAnswerUnlisted ==
    ASSUME TasksInv, Unlisted, NEW t \in Tasks, TakeInvitationAnswer(t)
    PROVE  Unlisted'
  <1>0. /\ task \in [Tasks -> TaskState] /\ itemsAt \in Nat
        /\ items' = items \ {task[t].of} /\ itemsAt' = task[t].at
        /\ UNCHANGED <<answered, missed>>
        /\ task[t].step = "served" /\ task[t].kind \in {"accept", "decline"} /\ task[t] # NoTask
    BY ListVersions DEF TasksInv, ShellTypeOK, TakeInvitationAnswer, Remaining
  <1>1. task'[t].step # "served" /\ \A u \in Tasks \ {t} : task'[u] = task[u]
    <2>1. CASE task' = [task EXCEPT ![t] = NoTask]
      BY <1>0, <2>1, TaskFields
    <2>2. CASE task' = [task EXCEPT ![t].step = "refreshing"]
      <3>1. /\ task' = [task EXCEPT
                      ![t] = Onward(task[t], "refreshing", task[t].answer, task[t].at)]
            /\ "refreshing" \in TaskSteps
        BY <1>0, <2>2, StepLemma DEF TaskSteps
      <3>2. task[t].answer \in SUBSET Workspaces /\ task[t].at \in Nat /\ task[t] \in TaskState
        BY <1>0, TaskFields
      <3>3. Onward(task[t], "refreshing", task[t].answer, task[t].at).step = "refreshing"
        BY <1>0, <3>1, <3>2, AdvanceLemma
      <3> QED  BY <1>0, <3>1, <3>3
    <2> QED  BY <2>1, <2>2 DEF TakeInvitationAnswer
  <1>2. task[t].at \in Nat
    BY <1>0, ListVersions
  <1> SUFFICES ASSUME "items" \notin overtaken', ~missed
               PROVE  /\ \A w \in items' \cap answered : \E u \in Tasks : Answering(u, w)'
                      /\ \A s \in Tasks : task'[s].step = "served" /\ task'[s].kind = "inbox" =>
                            \A w \in task'[s].answer \cap answered :
                                \/ task'[s].at < itemsAt'
                                \/ \E u \in Tasks : Answering(u, w)' /\ task'[u].at > task'[s].at
    BY <1>0 DEF Unlisted
  <1>3. "items" \notin overtaken /\ itemsAt <= task[t].at
    BY <1>0, <1>2 DEF TakeInvitationAnswer, Older
  <1>4. /\ \A w \in items \cap answered : \E u \in Tasks : Answering(u, w)
        /\ \A s \in Tasks : task[s].step = "served" /\ task[s].kind = "inbox" =>
              \A w \in task[s].answer \cap answered :
                  \/ task[s].at < itemsAt
                  \/ \E u \in Tasks : Answering(u, w) /\ task[u].at > task[s].at
    BY <1>3 DEF Unlisted
  <1>5. \A u \in Tasks : \A w : Answering(u, w) /\ u # t => Answering(u, w)' /\ task'[u] = task[u]
    BY <1>1 DEF Answering
  <1>6. ASSUME NEW w \in items' \cap answered  PROVE \E u \in Tasks : Answering(u, w)'
    <2>1. PICK u \in Tasks : Answering(u, w)
      BY <1>0, <1>4, <1>6
    <2>2. u # t
      BY <1>0, <1>6, <2>1 DEF Answering
    <2> QED  BY <1>5, <2>1, <2>2
  <1>7. ASSUME NEW s \in Tasks, task'[s].step = "served", task'[s].kind = "inbox",
               NEW w \in task'[s].answer \cap answered
        PROVE  \/ task'[s].at < itemsAt'
               \/ \E u \in Tasks : Answering(u, w)' /\ task'[u].at > task'[s].at
    <2>1. s # t /\ task'[s] = task[s]
      BY <1>1, <1>7
    <2>2. task[s].at \in Nat
      BY <1>7, <2>1, ListVersions
    <2>3. CASE task[s].at < itemsAt
      BY <1>0, <1>2, <1>3, <2>1, <2>2, <2>3
    <2>4. ASSUME NEW u \in Tasks, Answering(u, w), task[u].at > task[s].at
          PROVE  \/ task'[s].at < itemsAt'
                 \/ \E x \in Tasks : Answering(x, w)' /\ task'[x].at > task'[s].at
      <3>1. CASE u = t
        BY <1>0, <1>2, <2>1, <2>2, <2>4, <3>1
      <3>2. CASE u # t
        BY <1>5, <2>1, <2>4, <3>2
      <3> QED  BY <3>1, <3>2
    <2> QED  BY <1>4, <1>7, <2>1, <2>3, <2>4
  <1> QED  BY <1>6, <1>7

\* An act is committed: it is newer than every list that was read before.
LEMMA ChangesUnlisted ==
    ASSUME TasksInv, Unlisted, NEW t \in Tasks, task[t].step = "sent", task[t].kind \in Acts,
           NEW o \in TaskState, task' = [task EXCEPT ![t] = o],
           o.step = "served", o.kind = task[t].kind, o.of = task[t].of, o.at = version + 1,
           answered' = IF o.kind \in {"accept", "decline"} THEN answered \cup {o.of} ELSE answered,
           UNCHANGED <<items, itemsAt, overtaken, missed>>
    PROVE  Unlisted'
  <1>0. task \in [Tasks -> TaskState] /\ version \in Nat
    BY ListVersions DEF TasksInv, ShellTypeOK
  <1>1. task'[t] = o /\ \A u \in Tasks \ {t} : task'[u] = task[u]
    BY <1>0
  <1>2. \A u \in Tasks : \A w : Answering(u, w) => Answering(u, w)' /\ task'[u] = task[u]
    BY <1>1 DEF Answering
  <1>3. o.kind \in {"accept", "decline"} => Answering(t, o.of)'
    BY <1>1 DEF Answering
  <1> SUFFICES ASSUME "items" \notin overtaken, ~missed
               PROVE  /\ \A w \in items \cap answered' : \E u \in Tasks : Answering(u, w)'
                      /\ \A s \in Tasks : task'[s].step = "served" /\ task'[s].kind = "inbox" =>
                            \A w \in task'[s].answer \cap answered' :
                                \/ task'[s].at < itemsAt
                                \/ \E u \in Tasks : Answering(u, w)' /\ task'[u].at > task'[s].at
    BY DEF Unlisted
  <1>4. /\ \A w \in items \cap answered : \E u \in Tasks : Answering(u, w)
        /\ \A s \in Tasks : task[s].step = "served" /\ task[s].kind = "inbox" =>
              \A w \in task[s].answer \cap answered :
                  \/ task[s].at < itemsAt
                  \/ \E u \in Tasks : Answering(u, w) /\ task[u].at > task[s].at
    BY DEF Unlisted
  <1>5. \A w \in items \cap answered' : \E u \in Tasks : Answering(u, w)'
    BY <1>2, <1>3, <1>4
  <1>6. ASSUME NEW s \in Tasks, task'[s].step = "served", task'[s].kind = "inbox",
               NEW w \in task'[s].answer \cap answered'
        PROVE  \/ task'[s].at < itemsAt
               \/ \E u \in Tasks : Answering(u, w)' /\ task'[u].at > task'[s].at
    <2>1. s # t /\ task'[s] = task[s]
      BY <1>1, <1>6 DEF Acts
    <2>2. task[s].at \in Nat /\ task[s].at <= version
      BY <1>6, <2>1, ListVersions
    <2>3. CASE w \in answered
      BY <1>2, <1>4, <1>6, <2>1, <2>3
    <2>4. CASE w \notin answered
      BY <1>0, <1>1, <1>3, <1>6, <2>1, <2>2, <2>4
    <2> QED  BY <2>3, <2>4
  <1> QED  BY <1>5, <1>6

\* The number of acts on their way, when a task changes.
LEMMA WayLemma ==
    ASSUME task \in [Tasks -> TaskState], NEW t \in Tasks, NEW o,
           task' = [task EXCEPT ![t] = o]
    PROVE  /\ o.step = "sent" /\ o.kind \in Acts => OnTheirWay' = OnTheirWay \cup {t}
           /\ ~(o.step = "sent" /\ o.kind \in Acts) => OnTheirWay' = OnTheirWay \ {t}
  <1>1. task'[t] = o /\ \A u \in Tasks \ {t} : task'[u] = task[u]
    OBVIOUS
  <1>2. OnTheirWay = {u \in Tasks : task[u].step = "sent" /\ task[u].kind \in Acts}
    BY DEF OnTheirWay
  <1>3. OnTheirWay' = {u \in Tasks : task'[u].step = "sent" /\ task'[u].kind \in Acts}
    BY DEF OnTheirWay
  <1> QED  BY <1>1, <1>2, <1>3

\* The arithmetic of PaidKeeps.
LEMMA BudgetLemma ==
    ASSUME NEW v \in Nat, NEW m \in Nat, NEW k \in Nat, NEW x \in Nat, NEW y \in Nat
    PROVE  /\ x + k <= y + 1 => x <= y + 1
           /\ \A n \in Nat : k <= n /\ v + n <= m + 1 /\ x + m <= v + y => x + k <= y + 1
  OBVIOUS

\* A change is paid for by the act that makes it, an act by the user's move.
LEMMA PaidKeeps ==
    ASSUME PaidFor, version \in Nat, moves \in Nat, version' \in Nat, moves' \in Nat,
           \/ OnTheirWay' \subseteq OnTheirWay /\ version' + moves <= version + moves'
           \/ \E t \in OnTheirWay :
                 OnTheirWay' = OnTheirWay \ {t} /\ version' <= version + 1 /\ moves' = moves
           \/ \E t \in Tasks :
                 OnTheirWay' = OnTheirWay \cup {t} /\ version' = version /\ moves' = moves + 1
    PROVE  PaidFor' /\ version' <= moves' + 1
  <1>1. IsFiniteSet(OnTheirWay) /\ version + Cardinality(OnTheirWay) <= moves + 1
    BY DEF PaidFor
  <1>2. Cardinality(OnTheirWay) \in Nat
    BY <1>1, FS_CardinalityType
  <1>3. IsFiniteSet(OnTheirWay')
    <2>1. CASE OnTheirWay' \subseteq OnTheirWay
      BY <1>1, <2>1, FS_Subset
    <2>2. ASSUME NEW t, OnTheirWay' = OnTheirWay \cup {t}  PROVE IsFiniteSet(OnTheirWay')
      BY <1>1, <2>2, FS_AddElement
    <2> QED  BY <2>1, <2>2
  <1>4. Cardinality(OnTheirWay') \in Nat
    BY <1>3, FS_CardinalityType
  <1>5. version' + Cardinality(OnTheirWay') <= moves' + 1
    <2>1. CASE OnTheirWay' \subseteq OnTheirWay /\ version' + moves <= version + moves'
      <3>1. Cardinality(OnTheirWay') <= Cardinality(OnTheirWay)
        BY <1>1, <2>1, FS_Subset
      <3> DEFINE n == Cardinality(OnTheirWay)
                 k == Cardinality(OnTheirWay')
      <3>2. /\ n \in Nat /\ k \in Nat /\ k <= n /\ version + n <= moves + 1
            /\ version' + moves <= version + moves'
        BY <1>1, <1>2, <1>4, <2>1, <3>1
      <3>3. version' + k <= moves' + 1
        <4> HIDE DEF n, k
        <4> QED  BY <3>2, BudgetLemma
      <3> QED  BY <3>3
    <2>2. ASSUME NEW t \in OnTheirWay, OnTheirWay' = OnTheirWay \ {t},
                 version' <= version + 1, moves' = moves
          PROVE  version' + Cardinality(OnTheirWay') <= moves' + 1
      <3>1. Cardinality(OnTheirWay') = Cardinality(OnTheirWay) - 1
        BY <1>1, <2>2, FS_RemoveElement
      <3> QED  BY <1>1, <1>2, <1>4, <2>2, <3>1
    <2>3. ASSUME NEW t, OnTheirWay' = OnTheirWay \cup {t}, version' = version, moves' = moves + 1
          PROVE  version' + Cardinality(OnTheirWay') <= moves' + 1
      <3>1. Cardinality(OnTheirWay') <= Cardinality(OnTheirWay) + 1
        <4>1. CASE t \in OnTheirWay
          <5>1. OnTheirWay' = OnTheirWay
            BY <2>3, <4>1
          <5> QED  BY <1>2, <5>1
        <4>2. CASE t \notin OnTheirWay
          <5>1. Cardinality(OnTheirWay \cup {t}) = Cardinality(OnTheirWay) + 1
            BY <1>1, <4>2, FS_AddElement
          <5> QED  BY <1>2, <2>3, <5>1
        <4> QED  BY <4>1, <4>2
      <3> QED  BY <1>1, <1>2, <1>4, <2>3, <3>1
    <2> QED  BY <2>1, <2>2, <2>3
  <1>6. version' <= moves' + 1
    BY <1>4, <1>5, BudgetLemma
  <1>7. PaidFor'
    BY <1>3, <1>5 DEF PaidFor
  <1> QED  BY <1>6, <1>7

\* A task goes on, and what it says of itself holds.
LEMMA PurposeLemma ==
    ASSUME TasksInv, NEW t \in Tasks, NEW o \in TaskState, task' = [task EXCEPT ![t] = o],
           version' \in Nat, version' >= version, unmade' \subseteq unmade,
           o # NoTask =>
               /\ o.at <= version'
               /\ o.kind \in Acts => o.of \in Workspaces
               /\ o.kind \in {"create", "delete"} => o.of \in Owned
               /\ o.step = "served" => o.kind # "restore"
               /\ o.step \in {"refreshing", "refreshed"} => o.kind \in Refreshers
               /\ o.kind = "create" /\ o.step \in {"served", "refreshing", "refreshed"} =>
                     o.of \notin unmade'
    PROVE  Purposeful' /\ task' \in [Tasks -> TaskState]
  <1>0. task \in [Tasks -> TaskState] /\ Purposeful
    BY DEF TasksInv, ShellTypeOK
  <1>1. task'[t] = o /\ \A u \in Tasks \ {t} : task'[u] = task[u]
    BY <1>0
  <1>2. \A u \in Tasks : task[u] # NoTask => task[u].at <= version'
    BY ListVersions
  <1> SUFFICES ASSUME NEW u \in Tasks, task'[u] # NoTask
               PROVE  /\ task'[u].at <= version'
                      /\ task'[u].kind \in Acts => task'[u].of \in Workspaces
                      /\ task'[u].kind \in {"create", "delete"} => task'[u].of \in Owned
                      /\ task'[u].step = "served" => task'[u].kind # "restore"
                      /\ task'[u].step \in {"refreshing", "refreshed"} =>
                            task'[u].kind \in Refreshers
                      /\ /\ task'[u].kind = "create"
                         /\ task'[u].step \in {"served", "refreshing", "refreshed"}
                         => task'[u].of \notin unmade'
    BY <1>0 DEF Purposeful
  <1>3. CASE u = t
    BY <1>1, <1>3
  <1>4. CASE u # t
    <2>1. task'[u] = task[u] /\ task[u] # NoTask
      BY <1>1, <1>4
    <2>2. /\ task[u].kind \in Acts => task[u].of \in Workspaces
          /\ task[u].kind \in {"create", "delete"} => task[u].of \in Owned
          /\ task[u].step = "served" => task[u].kind # "restore"
          /\ task[u].step \in {"refreshing", "refreshed"} => task[u].kind \in Refreshers
          /\ task[u].kind = "create" /\ task[u].step \in {"served", "refreshing", "refreshed"} =>
                task[u].of \notin unmade
      BY <1>0, <2>1 DEF Purposeful
    <2> QED  BY <1>2, <2>1, <2>2
  <1> QED  BY <1>3, <1>4

\* The invariant in its four parts: the tasks, their price, the lists, the inbox.
LEMMA SplitLemma ==
    /\ ShellInv => TasksInv /\ PaidFor /\ ListsInv /\ Unlisted
    /\ TasksInv /\ PaidFor /\ ListsInv /\ Unlisted => ShellInv
    /\ TasksInv => moves \in Nat /\ moves <= MaxMoves /\ MaxMoves \in Nat
    /\ TasksInv => mine \in SUBSET Workspaces /\ invited \in SUBSET Workspaces
                   /\ task \in [Tasks -> TaskState]
  <1>1. TasksInv => moves \in Nat /\ moves <= MaxMoves /\ MaxMoves \in Nat
    BY ShellAssumption DEF TasksInv, ShellTypeOK
  <1>2. TasksInv => mine \in SUBSET Workspaces /\ invited \in SUBSET Workspaces
                    /\ task \in [Tasks -> TaskState]
    BY DEF TasksInv, ShellTypeOK
  <1> QED  BY <1>1, <1>2 DEF ShellInv, TasksInv, ListsInv

\* A task begins.
LEMMA StartKeeps ==
    ASSUME ShellInv, NEW t \in Tasks, NEW kind \in Acts \cup {"inbox"},
           NEW w \in Workspaces \cup {None}, StartTask(t, "sent", kind, w),
           kind \in Acts => w \in Workspaces, kind \in {"create", "delete"} => w \in Owned,
           UNCHANGED <<server, lists, items, itemsAt, loading, failed, history>>,
           open' \in BOOLEAN, actingId' \in Workspaces \cup {None}
    PROVE  ShellInv'
  <1> DEFINE o == Begun("sent", kind, w)
  <1>0. TasksInv /\ PaidFor /\ ListsInv /\ Unlisted
    BY SplitLemma
  <1>1. /\ task \in [Tasks -> TaskState] /\ task[t] = NoTask
        /\ task' = [task EXCEPT ![t] = o] /\ moves < MaxMoves /\ moves' = moves + 1
        /\ version \in Nat /\ version >= 1 /\ moves \in Nat /\ MaxMoves \in Nat
        /\ UNCHANGED <<mine, invited, unmade, version, session, workspaces, activeId, listedAt,
                       answered, overtaken, missed, homeless>>
    BY <1>0, ListVersions, SplitLemma DEF StartTask, Move, server, lists, history
  <1>2. "sent" \in TaskSteps /\ kind \in Kinds
    BY DEF TaskSteps, Kinds, Acts
  <1>3. /\ o \in TaskState /\ o.step = "sent" /\ o.kind = kind /\ o.of = w /\ o.at = 0
        /\ o # NoTask
    BY <1>2, BegunLemma
  <1> HIDE DEF o
  <1>4. task'[t] = o /\ \A u \in Tasks \ {t} : task'[u] = task[u]
    BY <1>1
  <1>5. Purposeful' /\ task' \in [Tasks -> TaskState]
    <2>1. /\ version' \in Nat /\ version' >= version /\ unmade' \subseteq unmade
          /\ o.at <= version'
      BY <1>1, <1>3
    <2>2. o.step = "sent" /\ o.kind = kind /\ o.of = w /\ kind \in Acts \cup {"inbox"}
      BY <1>3
    <2>3. /\ o.kind \in Acts => o.of \in Workspaces
          /\ o.kind \in {"create", "delete"} => o.of \in Owned
          /\ o.step = "served" => o.kind # "restore"
          /\ o.step \in {"refreshing", "refreshed"} => o.kind \in Refreshers
          /\ o.kind = "create" /\ o.step \in {"served", "refreshing", "refreshed"} =>
                o.of \notin unmade'
      BY <2>2
    <2> QED  BY <1>0, <1>1, <1>3, <2>1, <2>3, PurposeLemma
  <1>6. moves' \in Nat /\ moves' <= MaxMoves
    BY <1>1
  <1>7. PaidFor' /\ version' <= moves' + 1
    <2>1. CASE kind \in Acts
      <3>1. OnTheirWay' = OnTheirWay \cup {t}
        BY <1>1, <1>3, <2>1, WayLemma
      <3> QED  BY <1>0, <1>1, <1>6, <3>1, PaidKeeps
    <2>2. CASE kind \notin Acts
      <3>1. OnTheirWay' \subseteq OnTheirWay
        BY <1>1, <1>3, <2>2, WayLemma
      <3> QED  BY <1>0, <1>1, <1>6, <3>1, PaidKeeps
    <2> QED  BY <2>1, <2>2
  <1>8. ShellTypeOK'
    BY <1>0, <1>1, <1>5, <1>6 DEF TasksInv, ShellTypeOK
  <1>9. Apart'
    BY <1>0, <1>1 DEF TasksInv, Apart, Gone
  <1>10. ListsInv'
    <2>1. \A u \in Tasks :
             /\ task'[u].step = "refreshed" <=> task[u].step = "refreshed"
             /\ task[u].step = "refreshed" => task'[u] = task[u]
             /\ task[u].step \in {"served", "refreshing"} => task'[u] = task[u]
      BY <1>1, <1>3, <1>4, TaskFields
    <2>2. InTime' => InTime
      BY <1>1 DEF InTime
    <2>3. \A p \in Lists : p[1] \in Nat
      BY <1>0, ListVersions
    <2> QED  BY <1>0, <1>1, <2>1, <2>2, <2>3, QuietLists
  <1>11. Unlisted'
    <2>1. \A u \in Tasks :
             /\ task'[u].step = "served" => task'[u] = task[u]
             /\ task[u].step = "served" => task'[u] = task[u]
      BY <1>1, <1>3, <1>4, TaskFields
    <2> QED  BY <1>0, <1>1, <2>1, QuietInbox
  <1>12. TasksInv'
    BY <1>5, <1>8, <1>9 DEF TasksInv
  <1>13. (TasksInv /\ PaidFor /\ ListsInv /\ Unlisted)' => ShellInv'
    BY DEF ShellInv, TasksInv, ListsInv
  <1> QED  BY <1>7, <1>10, <1>11, <1>12, <1>13

\* A task that is on its way goes on, or ends.
LEMMA GoesOn ==
    ASSUME TasksInv, PaidFor, NEW t \in Tasks, task[t] # NoTask, NEW o \in TaskState,
           task' = [task EXCEPT ![t] = o], moves' = moves,
           \/ version' = version
           \/ version' = version + 1 /\ task[t].step = "sent" /\ task[t].kind \in Acts,
           unmade' \subseteq unmade,
           o # NoTask =>
               /\ o.kind = task[t].kind /\ o.of = task[t].of
               /\ o.at <= version' /\ o.step # "sent"
               /\ o.step = "served" => o.kind # "restore"
               /\ o.step \in {"refreshing", "refreshed"} => o.kind \in Refreshers
               /\ o.kind = "create" /\ o.step \in {"served", "refreshing", "refreshed"} =>
                     o.of \notin unmade'
    PROVE  /\ Purposeful' /\ task' \in [Tasks -> TaskState]
           /\ PaidFor' /\ version' \in 1..(MaxMoves + 1)
  <1>0. /\ task \in [Tasks -> TaskState] /\ version \in Nat /\ version >= 1
        /\ moves \in Nat /\ moves <= MaxMoves /\ MaxMoves \in Nat
    BY ListVersions, SplitLemma
  <1>1. version' \in Nat /\ version' >= version /\ version' <= version + 1
    BY <1>0
  <1>2. o # NoTask =>
            /\ o.at <= version'
            /\ o.kind \in Acts => o.of \in Workspaces
            /\ o.kind \in {"create", "delete"} => o.of \in Owned
    BY DEF TasksInv, Purposeful
  <1>3. o.step # "sent"
    BY TaskFields
  <1>4. Purposeful' /\ task' \in [Tasks -> TaskState]
    BY <1>1, <1>2, PurposeLemma
  <1>5. OnTheirWay' = OnTheirWay \ {t}
    BY <1>0, <1>3, WayLemma
  <1>6. PaidFor' /\ version' <= moves' + 1
    <2>1. CASE version' = version
      <3>1. /\ OnTheirWay' \subseteq OnTheirWay /\ version' + moves <= version + moves'
            /\ moves' \in Nat
        BY <1>0, <1>5, <2>1
      <3> QED  BY <1>0, <1>1, <3>1, PaidKeeps
    <2>2. CASE version' = version + 1 /\ task[t].step = "sent" /\ task[t].kind \in Acts
      <3>1. t \in OnTheirWay
        BY <2>2 DEF OnTheirWay
      <3>2. moves' \in Nat
        BY <1>0
      <3> QED  BY <1>0, <1>1, <1>5, <3>1, <3>2, PaidKeeps
    <2> QED  BY <2>1, <2>2
  <1>7. version' \in 1..(MaxMoves + 1)
    BY <1>0, <1>1, <1>6
  <1> QED  BY <1>4, <1>6, <1>7

\* The parts again make the invariant.
LEMMA JoinLemma ==
    ASSUME ShellTypeOK', Purposeful', Apart', PaidFor', ListsInv', Unlisted'
    PROVE  ShellInv'
  BY DEF ShellInv, ListsInv

\* Nothing but the tasks and the inbox's variables has changed.
LEMMA QuietTypes ==
    ASSUME TasksInv, UNCHANGED <<server, lists, answered, homeless, moves>>,
           task' \in [Tasks -> TaskState], itemsAt' \in 0..version, items' \subseteq Workspaces,
           open' \in BOOLEAN, loading' \in BOOLEAN, failed' \in BOOLEAN,
           actingId' \in Workspaces \cup {None},
           overtaken' \subseteq {"workspaces", "items", "creation"}, missed' \in BOOLEAN
    PROVE  ShellTypeOK' /\ Apart'
  <1>1. UNCHANGED <<mine, invited, unmade, version, session, workspaces, activeId, listedAt>>
    BY DEF server, lists
  <1>2. ShellTypeOK'
    BY <1>1 DEF TasksInv, ShellTypeOK
  <1>3. Apart'
    BY <1>1 DEF TasksInv, Apart, Gone
  <1> QED  BY <1>2, <1>3

\* The types of the inbox's variables.
LEMMA InboxTypes ==
    ASSUME TasksInv
    PROVE  /\ itemsAt \in 0..version /\ items \subseteq Workspaces
           /\ open \in BOOLEAN /\ loading \in BOOLEAN /\ failed \in BOOLEAN
           /\ actingId \in Workspaces \cup {None}
           /\ overtaken \subseteq {"workspaces", "items", "creation"} /\ missed \in BOOLEAN
  BY DEF TasksInv, ShellTypeOK

\* Each of the actions keeps the invariant.
LEMMA ServeInboxKeeps ==
    ASSUME ShellInv, NEW t \in Tasks, ServeInbox(t)
    PROVE  ShellInv'
  <1> DEFINE o == Onward(task[t], "served", invited, version)
  <1>0. TasksInv /\ PaidFor /\ ListsInv /\ Unlisted
    BY SplitLemma
  <1>1. /\ task \in [Tasks -> TaskState] /\ task[t] # NoTask /\ task[t] \in TaskState
        /\ invited \in SUBSET Workspaces /\ version \in Nat
        /\ task[t].step = "sent" /\ task[t].kind = "inbox"
        /\ UNCHANGED <<server, lists, inbox, history, moves>>
    BY <1>0, ListVersions, SplitLemma DEF ServeInbox
  <1>2. task' = [task EXCEPT ![t] = o]
    <2>1. Listing(t, "served", invited) /\ "served" \in TaskSteps
      BY DEF ServeInbox, TaskSteps
    <2> QED  BY <1>1, <2>1, ListingLemma
  <1>3. /\ o \in TaskState /\ o # NoTask /\ o.step = "served" /\ o.at = version
        /\ o.kind = task[t].kind /\ o.of = task[t].of
    BY <1>1, AdvanceLemma DEF TaskSteps
  <1> HIDE DEF o
  <1>4. task'[t] = o /\ \A u \in Tasks \ {t} : task'[u] = task[u]
    BY <1>1, <1>2
  <1>5. UNCHANGED <<mine, invited, unmade, version, session, workspaces, activeId, listedAt,
                    homeless, missed, overtaken, answered, items, itemsAt, open, loading,
                    failed, actingId>>
    BY <1>1 DEF server, lists, inbox, history
  <1>6. Purposeful' /\ task' \in [Tasks -> TaskState] /\ PaidFor'
    <2>1. /\ o.at <= version' /\ unmade' \subseteq unmade /\ version' = version
          /\ moves' = moves
      BY <1>1, <1>3, <1>5
    <2>2. o.step = "served" /\ o.kind = "inbox"
      BY <1>1, <1>3
    <2> QED  BY <1>0, <1>1, <1>2, <1>3, <2>1, <2>2, GoesOn
  <1>7. ShellTypeOK' /\ Apart'
    BY <1>0, <1>1, <1>5, <1>6, InboxTypes, QuietTypes
  <1>8. ListsInv'
    <2>1. \A u \in Tasks :
             /\ task'[u].step = "refreshed" <=> task[u].step = "refreshed"
             /\ task[u].step = "refreshed" => task'[u] = task[u]
             /\ task[u].step \in {"served", "refreshing"} => task'[u] = task[u]
      BY <1>1, <1>3, <1>4
    <2>2. InTime' => InTime
      BY <1>5 DEF InTime
    <2>3. \A p \in Lists : p[1] \in Nat
      BY <1>0, ListVersions
    <2>4. version' >= version
      BY <1>1, <1>5
    <2> QED  BY <1>0, <1>1, <1>5, <2>1, <2>2, <2>3, <2>4, QuietLists
  <1>9. Unlisted'
    BY <1>0, ServeInboxUnlisted
  <1> QED  BY <1>6, <1>7, <1>8, <1>9, JoinLemma

LEMMA ServeRefreshKeeps ==
    ASSUME ShellInv, NEW t \in Tasks, ServeRefresh(t)
    PROVE  ShellInv'
  <1> DEFINE o == Onward(task[t], "refreshed", mine, version)
  <1>0. TasksInv /\ PaidFor /\ ListsInv /\ Unlisted
    BY SplitLemma
  <1>1. /\ task \in [Tasks -> TaskState] /\ task[t] # NoTask /\ task[t] \in TaskState
        /\ mine \in SUBSET Workspaces /\ version \in Nat
        /\ task[t].step = "refreshing"
        /\ UNCHANGED <<server, lists, inbox, history, moves>>
    BY <1>0, ListVersions, SplitLemma DEF ServeRefresh
  <1>2. task' = [task EXCEPT ![t] = o]
    <2>1. Listing(t, "refreshed", mine) /\ "refreshed" \in TaskSteps
      BY DEF ServeRefresh, TaskSteps
    <2> QED  BY <1>1, <2>1, ListingLemma
  <1>3. /\ o \in TaskState /\ o # NoTask /\ o.step = "refreshed" /\ o.at = version
        /\ o.kind = task[t].kind /\ o.of = task[t].of
    BY <1>1, AdvanceLemma DEF TaskSteps
  <1> HIDE DEF o
  <1>4. task'[t] = o /\ \A u \in Tasks \ {t} : task'[u] = task[u]
    BY <1>1, <1>2
  <1>5. UNCHANGED <<mine, invited, unmade, version, session, workspaces, activeId, listedAt,
                    homeless, missed, overtaken, answered, items, itemsAt, open, loading,
                    failed, actingId>>
    BY <1>1 DEF server, lists, inbox, history
  <1>6. Purposeful' /\ task' \in [Tasks -> TaskState] /\ PaidFor'
    <2>1. /\ task[t].kind \in Refreshers
          /\ task[t].kind = "create" => task[t].of \notin unmade
      BY <1>0, <1>1 DEF TasksInv, Purposeful
    <2>2. /\ o.at <= version' /\ unmade' \subseteq unmade /\ version' = version
          /\ moves' = moves
      BY <1>1, <1>3, <1>5
    <2>3. /\ o.step # "sent" /\ o.step # "served" /\ o.kind \in Refreshers
          /\ o.kind = "create" => o.of \notin unmade'
      BY <1>3, <1>5, <2>1
    <2> QED  BY <1>0, <1>1, <1>2, <1>3, <2>2, <2>3, GoesOn
  <1>7. ShellTypeOK' /\ Apart'
    BY <1>0, <1>1, <1>5, <1>6, InboxTypes, QuietTypes
  <1>8. ListsInv'
    BY <1>0, ServeRefreshLists
  <1>9. Unlisted'
    <2>1. \A u \in Tasks :
             /\ task'[u].step = "served" => task'[u] = task[u]
             /\ task[u].step = "served" => task'[u] = task[u]
      BY <1>1, <1>3, <1>4
    <2> QED  BY <1>0, <1>5, <2>1, QuietInbox
  <1> QED  BY <1>6, <1>7, <1>8, <1>9, JoinLemma

LEMMA FailKeeps ==
    ASSUME ShellInv, NEW t \in Tasks, Fail(t)
    PROVE  ShellInv'
  <1> DEFINE o == Onward(task[t], "failed", task[t].answer, task[t].at)
  <1>0. TasksInv /\ PaidFor /\ ListsInv /\ Unlisted
    BY SplitLemma
  <1>1. /\ task \in [Tasks -> TaskState] /\ task[t] # NoTask /\ task[t] \in TaskState
        /\ version \in Nat /\ task[t].at \in Nat /\ task[t].at <= version
        /\ task[t].answer \in SUBSET Workspaces
        /\ task[t].step \in {"sent", "served", "refreshing"} /\ missed'
        /\ UNCHANGED <<server, lists, inbox, answered, overtaken, homeless, moves>>
    BY <1>0, ListVersions, SplitLemma, TaskFields DEF Fail
  <1>2. task' = [task EXCEPT ![t] = o]
    <2>1. "failed" \in TaskSteps
      BY DEF TaskSteps
    <2> QED  BY <1>1, <2>1, StepLemma DEF Fail
  <1>3. /\ o \in TaskState /\ o # NoTask /\ o.step = "failed" /\ o.at = task[t].at
        /\ o.kind = task[t].kind /\ o.of = task[t].of
    BY <1>1, AdvanceLemma DEF TaskSteps
  <1> HIDE DEF o
  <1>4. task'[t] = o /\ \A u \in Tasks \ {t} : task'[u] = task[u]
    BY <1>1, <1>2
  <1>5. UNCHANGED <<mine, invited, unmade, version, session, workspaces, activeId, listedAt,
                    homeless, overtaken, answered, items, itemsAt, open, loading,
                    failed, actingId>>
    BY <1>1 DEF server, lists, inbox
  <1>6. Purposeful' /\ task' \in [Tasks -> TaskState] /\ PaidFor'
    BY <1>0, <1>1, <1>2, <1>3, <1>5, GoesOn
  <1>7. ShellTypeOK' /\ Apart'
    <2>1. missed' \in BOOLEAN
      BY DEF Fail
    <2> QED  BY <1>0, <1>1, <1>5, <1>6, <2>1, InboxTypes, QuietTypes
  <1>8. ListsInv'
    <2>1. \A u \in Tasks :
             /\ task'[u].step = "refreshed" <=> task[u].step = "refreshed"
             /\ task[u].step = "refreshed" => task'[u] = task[u]
      BY <1>1, <1>3, <1>4
    <2>2. ~InTime'
      BY <1>1 DEF InTime
    <2>3. \A p \in Lists : p[1] \in Nat
      BY <1>0, ListVersions
    <2>4. version' >= version
      BY <1>1, <1>5
    <2> QED  BY <1>0, <1>1, <1>5, <2>1, <2>2, <2>3, <2>4, QuietLists
  <1>9. Unlisted'
    BY <1>1 DEF Unlisted
  <1> QED  BY <1>6, <1>7, <1>8, <1>9, JoinLemma

\* The end of a task.
LEMMA EndsLemma ==
    ASSUME TasksInv, PaidFor, NEW t \in Tasks, task[t] # NoTask,
           task' = [task EXCEPT ![t] = NoTask], UNCHANGED <<server, moves>>
    PROVE  /\ Purposeful' /\ task' \in [Tasks -> TaskState] /\ PaidFor'
           /\ task'[t] = NoTask /\ \A u \in Tasks \ {t} : task'[u] = task[u]
  <1>1. UNCHANGED <<unmade, version, moves>> /\ unmade' \subseteq unmade
    BY DEF server
  <1>2. NoTask \in TaskState
    BY TaskFields
  <1>3. Purposeful' /\ task' \in [Tasks -> TaskState] /\ PaidFor'
    BY <1>1, <1>2, GoesOn
  <1>4. task \in [Tasks -> TaskState]
    BY SplitLemma
  <1> QED  BY <1>3, <1>4

\* The act has been answered, and its list of workspaces is to be read.
LEMMA RefreshesLemma ==
    ASSUME TasksInv, PaidFor, NEW t \in Tasks, task[t].step = "served",
           task[t].kind \in Refreshers,
           task' = [task EXCEPT ![t].step = "refreshing"], UNCHANGED <<server, moves>>
    PROVE  /\ Purposeful' /\ task' \in [Tasks -> TaskState] /\ PaidFor'
           /\ task'[t].step = "refreshing" /\ task'[t].kind = task[t].kind
           /\ \A u \in Tasks \ {t} : task'[u] = task[u]
  <1> DEFINE o == Onward(task[t], "refreshing", task[t].answer, task[t].at)
  <1>1. /\ task \in [Tasks -> TaskState] /\ task[t] # NoTask /\ task[t] \in TaskState
        /\ task[t].at \in Nat /\ task[t].at <= version
        /\ task[t].answer \in SUBSET Workspaces
    BY ListVersions, SplitLemma, TaskFields
  <1>2. "refreshing" \in TaskSteps
    BY DEF TaskSteps
  <1>3. task' = [task EXCEPT ![t] = o]
    BY <1>1, <1>2, StepLemma
  <1>4. /\ o \in TaskState /\ o # NoTask /\ o.step = "refreshing" /\ o.at = task[t].at
        /\ o.kind = task[t].kind /\ o.of = task[t].of
    BY <1>1, <1>2, AdvanceLemma
  <1> HIDE DEF o
  <1>5. task'[t] = o /\ \A u \in Tasks \ {t} : task'[u] = task[u]
    BY <1>1, <1>3
  <1>6. UNCHANGED <<unmade, version, moves>> /\ unmade' \subseteq unmade
    BY DEF server
  <1>7. task[t].kind = "create" => task[t].of \notin unmade
    BY <1>1 DEF TasksInv, Purposeful
  <1>8. /\ o.at <= version' /\ o.step # "sent" /\ o.step # "served" /\ o.kind \in Refreshers
        /\ o.kind = "create" => o.of \notin unmade'
    BY <1>1, <1>4, <1>6, <1>7
  <1>9. Purposeful' /\ task' \in [Tasks -> TaskState] /\ PaidFor'
    BY <1>1, <1>3, <1>4, <1>6, <1>8, GoesOn
  <1> QED  BY <1>4, <1>5, <1>9

LEMMA TakeInboxKeeps ==
    ASSUME ShellInv, NEW t \in Tasks, TakeInbox(t)
    PROVE  ShellInv'
  <1>0. TasksInv /\ PaidFor /\ ListsInv /\ Unlisted
    BY SplitLemma
  <1>1. /\ task[t] # NoTask /\ task[t].step = "served" /\ task[t].kind = "inbox"
        /\ task[t].at \in Nat /\ task[t].at <= version /\ version \in Nat
        /\ task[t].answer \in SUBSET Workspaces
        /\ task' = [task EXCEPT ![t] = NoTask]
        /\ UNCHANGED <<server, lists, answered, missed, homeless, moves, open, actingId>>
    BY <1>0, ListVersions, TaskFields DEF TakeInbox
  <1>2. /\ Purposeful' /\ task' \in [Tasks -> TaskState] /\ PaidFor'
        /\ task'[t] = NoTask /\ \A u \in Tasks \ {t} : task'[u] = task[u]
    BY <1>0, <1>1, EndsLemma
  <1>3. overtaken' = overtaken \/ overtaken' = overtaken \cup {"items"}
    BY DEF TakeInbox, Older
  <1>4. ShellTypeOK' /\ Apart'
    <2>0. /\ items' = task[t].answer /\ itemsAt' = task[t].at
          /\ failed' = FALSE /\ loading' = FALSE
      BY DEF TakeInbox
    <2>1. itemsAt' \in 0..version /\ items' \subseteq Workspaces
      BY <1>1, <2>0
    <2>3. loading' \in BOOLEAN /\ failed' \in BOOLEAN
      BY <2>0
    <2>2. /\ overtaken' \subseteq {"workspaces", "items", "creation"}
          /\ open' \in BOOLEAN /\ actingId' \in Workspaces \cup {None} /\ missed' \in BOOLEAN
      BY <1>0, <1>1, <1>3, InboxTypes
    <2> QED  BY <1>0, <1>1, <1>2, <2>1, <2>2, <2>3, QuietTypes
  <1>5. ListsInv'
    <2>1. UNCHANGED <<mine, unmade, version, session, workspaces, activeId, listedAt, homeless>>
      BY <1>1 DEF server, lists
    <2>2. \A u \in Tasks :
             /\ task'[u].step = "refreshed" <=> task[u].step = "refreshed"
             /\ task[u].step = "refreshed" => task'[u] = task[u]
             /\ task[u].step \in {"served", "refreshing"} /\ task[u].kind \in Refreshers =>
                    task'[u] = task[u]
      BY <1>1, <1>2, TaskFields DEF Refreshers
    <2>3. InTime' => InTime
      BY <1>1, <1>3 DEF InTime
    <2>4. \A p \in Lists : p[1] \in Nat
      BY <1>0, ListVersions
    <2>5. version' >= version
      BY <1>1, <2>1
    <2> QED  BY <1>0, <1>1, <2>1, <2>2, <2>3, <2>4, <2>5, QuietLists
  <1>6. Unlisted'
    BY <1>0, TakeInboxUnlisted
  <1> QED  BY <1>2, <1>4, <1>5, <1>6, JoinLemma

LEMMA TakeInvitationAnswerKeeps ==
    ASSUME ShellInv, NEW t \in Tasks, TakeInvitationAnswer(t)
    PROVE  ShellInv'
  <1>0. TasksInv /\ PaidFor /\ ListsInv /\ Unlisted
    BY SplitLemma
  <1>1. /\ task[t] # NoTask /\ task[t].step = "served" /\ task[t].kind \in {"accept", "decline"}
        /\ task[t].at \in Nat /\ task[t].at <= version /\ version \in Nat
        /\ items' = items \ {task[t].of} /\ itemsAt' = task[t].at
        /\ UNCHANGED <<server, lists, answered, missed, homeless, moves, open, loading, failed>>
    BY <1>0, ListVersions DEF TakeInvitationAnswer, Remaining
  <1>2. /\ Purposeful' /\ task' \in [Tasks -> TaskState] /\ PaidFor'
        /\ task'[t] = NoTask \/ task'[t].step = "refreshing"
        /\ task[t].kind = "accept" => task'[t].step = "refreshing" /\ task'[t].kind = "accept"
        /\ \A u \in Tasks \ {t} : task'[u] = task[u]
        /\ actingId' \in {actingId, None}
    <2>1. CASE task[t].kind = "accept"
      <3>1. /\ task' = [task EXCEPT ![t].step = "refreshing"] /\ actingId' = actingId
            /\ task[t].kind \in Refreshers
        BY <2>1 DEF TakeInvitationAnswer, Refreshers
      <3> QED  BY <1>0, <1>1, <2>1, <3>1, RefreshesLemma
    <2>2. CASE task[t].kind # "accept"
      <3>1. task' = [task EXCEPT ![t] = NoTask] /\ actingId' = None
        BY <2>2 DEF TakeInvitationAnswer
      <3> QED  BY <1>0, <1>1, <2>2, <3>1, EndsLemma
    <2> QED  BY <2>1, <2>2
  <1>3. overtaken' = overtaken \/ overtaken' = overtaken \cup {"items"}
    BY DEF TakeInvitationAnswer, Older
  <1>4. ShellTypeOK' /\ Apart'
    <2>1. /\ itemsAt' \in 0..version /\ items' \subseteq Workspaces
          /\ open' \in BOOLEAN /\ loading' \in BOOLEAN /\ failed' \in BOOLEAN
          /\ actingId' \in Workspaces \cup {None} /\ missed' \in BOOLEAN
          /\ overtaken' \subseteq {"workspaces", "items", "creation"}
      BY <1>0, <1>1, <1>2, <1>3, InboxTypes
    <2> QED  BY <1>0, <1>1, <1>2, <2>1, QuietTypes
  <1>5. ListsInv'
    <2>1. UNCHANGED <<mine, unmade, version, session, workspaces, activeId, listedAt, homeless>>
      BY <1>1 DEF server, lists
    <2>2. task'[t].step # "refreshed"
      BY <1>2, TaskFields
    <2>3. \A u \in Tasks :
             /\ task'[u].step = "refreshed" <=> task[u].step = "refreshed"
             /\ task[u].step = "refreshed" => task'[u] = task[u]
      BY <1>1, <1>2, <2>2
    <2>4. task[t].kind \in Refreshers => task[t].kind = "accept"
      BY <1>1 DEF Refreshers
    <2>5. \A u \in Tasks :
             task[u].step \in {"served", "refreshing"} /\ task[u].kind \in Refreshers =>
                 task'[u].step \in {"served", "refreshing"} /\ task'[u].kind = task[u].kind
      BY <1>2, <2>4
    <2>6. InTime' => InTime
      BY <1>1, <1>3 DEF InTime
    <2>7. \A p \in Lists : p[1] \in Nat
      BY <1>0, ListVersions
    <2>8. version' >= version
      BY <1>1, <2>1
    <2> QED  BY <1>0, <1>1, <2>1, <2>3, <2>5, <2>6, <2>7, <2>8, QuietLists
  <1>6. Unlisted'
    BY <1>0, TakeAnswerUnlisted
  <1> QED  BY <1>2, <1>4, <1>5, <1>6, JoinLemma

LEMMA TakeChangeKeeps ==
    ASSUME ShellInv, NEW t \in Tasks, TakeChange(t)
    PROVE  ShellInv'
  <1>0. TasksInv /\ PaidFor /\ ListsInv /\ Unlisted
    BY SplitLemma
  <1>1. /\ task[t].step = "served" /\ task[t].kind \in {"create", "delete"}
        /\ task' = [task EXCEPT ![t].step = "refreshing"]
        /\ UNCHANGED <<server, lists, inbox, history, moves>> /\ version \in Nat
    BY <1>0, ListVersions DEF TakeChange
  <1>2. /\ Purposeful' /\ task' \in [Tasks -> TaskState] /\ PaidFor'
        /\ task'[t].step = "refreshing" /\ task'[t].kind = task[t].kind
        /\ \A u \in Tasks \ {t} : task'[u] = task[u]
    <2>1. task[t].kind \in Refreshers
      BY <1>1 DEF Refreshers
    <2> QED  BY <1>0, <1>1, <2>1, RefreshesLemma
  <1>3. UNCHANGED <<mine, invited, unmade, version, session, workspaces, activeId, listedAt,
                    homeless, missed, overtaken, answered, items, itemsAt, open, loading,
                    failed, actingId>>
    BY <1>1 DEF server, lists, inbox, history
  <1>4. ShellTypeOK' /\ Apart'
    BY <1>0, <1>1, <1>2, <1>3, InboxTypes, QuietTypes
  <1>5. \A u \in Tasks :
           /\ task'[u].step = "refreshed" <=> task[u].step = "refreshed"
           /\ task[u].step = "refreshed" => task'[u] = task[u]
           /\ task[u].step \in {"served", "refreshing"} =>
                  task'[u].step \in {"served", "refreshing"} /\ task'[u].kind = task[u].kind
    BY <1>1, <1>2
  <1>6. ListsInv'
    <2>1. InTime' => InTime
      BY <1>3 DEF InTime
    <2>2. \A p \in Lists : p[1] \in Nat
      BY <1>0, ListVersions
    <2>3. version' >= version
      BY <1>1, <1>3
    <2> QED  BY <1>0, <1>1, <1>3, <1>5, <2>1, <2>2, <2>3, QuietLists
  <1>7. Unlisted'
    <2>1. \A u \in Tasks :
             /\ task'[u].step = "served" => task'[u] = task[u]
             /\ task[u].step = "served" /\ task[u].kind \in {"accept", "decline"} =>
                    task'[u] = task[u]
      BY <1>1, <1>2
    <2> QED  BY <1>0, <1>3, <2>1, QuietInbox
  <1> QED  BY <1>2, <1>4, <1>6, <1>7, JoinLemma

LEMMA TakeRefreshKeeps ==
    ASSUME ShellInv, NEW t \in Tasks, TakeRefresh(t)
    PROVE  ShellInv'
  <1> DEFINE list == task[t].answer
  <1>0. TasksInv /\ PaidFor /\ ListsInv /\ Unlisted /\ Apart /\ Purposeful /\ Snapshots
    BY SplitLemma DEF ListsInv, TasksInv
  <1>1. /\ task[t] # NoTask /\ task[t].step = "refreshed"
        /\ task[t].at \in Nat /\ task[t].at <= version /\ version \in Nat
        /\ list \in SUBSET Workspaces
        /\ task' = [task EXCEPT ![t] = NoTask]
        /\ UNCHANGED <<server, session, items, itemsAt, open, loading, failed, answered, missed,
                       homeless, moves>>
        /\ workspaces' = list /\ listedAt' = task[t].at
        /\ actingId' \in {actingId, None}
        /\ activeId' = NextActive(task[t].kind, task[t].of, list)
    BY <1>0, ListVersions, TaskFields DEF TakeRefresh
  <1>2. /\ Purposeful' /\ task' \in [Tasks -> TaskState] /\ PaidFor'
        /\ task'[t] = NoTask /\ \A u \in Tasks \ {t} : task'[u] = task[u]
    BY <1>0, <1>1, EndsLemma
  <1>3. UNCHANGED <<mine, invited, unmade, version>>
    BY <1>1 DEF server
  <1>4. <<task[t].at, list>> \in Lists
    BY <1>1, ListsLemma
  <1>5. list \subseteq mine \cup Gone /\ task[t].at >= 1
    BY <1>0, <1>4 DEF Snapshots
  <1>6. activeId' \in mine \cup Gone \cup {None} /\ activeId' \in Workspaces \cup {None}
    <2>1. CASE task[t].kind = "create"
      <3>1. activeId' = task[t].of
        BY <1>1, <2>1 DEF NextActive
      <3>2. task[t].of \in Owned /\ task[t].of \notin unmade /\ task[t].of \in Workspaces
        BY <1>0, <1>1, <2>1 DEF Purposeful, Acts
      <3> QED  BY <3>1, <3>2 DEF Gone
    <2>2. CASE task[t].kind = "delete" /\ list # {}
      <3>1. activeId' = Min(list)
        BY <1>1, <2>2 DEF NextActive
      <3> QED  BY <1>1, <1>5, <2>2, <3>1, LeastWorkspace
    <2>3. CASE activeId' = activeId \/ activeId' = session
      BY <1>0, <2>3 DEF Apart, TasksInv, ShellTypeOK
    <2>4. task[t].kind \in Refreshers
      BY <1>0, <1>1 DEF Purposeful
    <2>5. CASE task[t].kind = "restore"
      BY <1>1, <2>3, <2>5 DEF NextActive
    <2>6. CASE task[t].kind = "accept"
      BY <1>1, <2>3, <2>6 DEF NextActive
    <2>7. CASE task[t].kind = "delete" /\ list = {}
      BY <1>1, <2>3, <2>7 DEF NextActive
    <2> QED  BY <2>1, <2>2, <2>4, <2>5, <2>6, <2>7 DEF Refreshers
  <1>7. Apart'
    <2>1. Gone' = Gone /\ listedAt' # 0
      BY <1>1, <1>3, <1>5 DEF Gone
    <2> QED  BY <1>0, <1>1, <1>3, <1>6, <2>1 DEF Apart
  <1>8. overtaken' \subseteq {"workspaces", "items", "creation"}
    BY <1>0, InboxTypes DEF TakeRefresh, Older
  <1>9. ShellTypeOK'
    BY <1>0, <1>1, <1>2, <1>3, <1>6, <1>8 DEF TasksInv, ShellTypeOK
  <1>10. ListsInv'
    BY <1>0, TakeRefreshLists
  <1>11. Unlisted'
    <2>1. \A u \in Tasks :
             /\ task'[u].step = "served" => task'[u] = task[u]
             /\ task[u].step = "served" => task'[u] = task[u]
      BY <1>1, <1>2, TaskFields
    <2>2. overtaken \subseteq overtaken'
      BY DEF TakeRefresh, Older
    <2> QED  BY <1>0, <1>1, <2>1, <2>2, QuietInbox
  <1> QED  BY <1>2, <1>7, <1>9, <1>10, <1>11, JoinLemma

LEMMA TakeFailureKeeps ==
    ASSUME ShellInv, NEW t \in Tasks, TakeFailure(t)
    PROVE  ShellInv'
  <1>0. TasksInv /\ PaidFor /\ ListsInv /\ Unlisted
    BY SplitLemma
  <1>1. /\ task[t] # NoTask /\ task[t].step = "failed" /\ version \in Nat
        /\ task' = [task EXCEPT ![t] = NoTask]
        /\ UNCHANGED <<server, lists, items, itemsAt, open, history, moves>>
        /\ failed' \in BOOLEAN /\ loading' \in BOOLEAN /\ actingId' \in {actingId, None}
    BY <1>0, ListVersions, InboxTypes DEF TakeFailure, ReleasedBy
  <1>2. /\ Purposeful' /\ task' \in [Tasks -> TaskState] /\ PaidFor'
        /\ task'[t] = NoTask /\ \A u \in Tasks \ {t} : task'[u] = task[u]
    BY <1>0, <1>1, EndsLemma
  <1>3. UNCHANGED <<mine, invited, unmade, version, session, workspaces, activeId, listedAt,
                    homeless, missed, overtaken, answered, items, itemsAt, open>>
    BY <1>1 DEF server, lists, history
  <1>4. ShellTypeOK' /\ Apart'
    BY <1>0, <1>1, <1>2, <1>3, InboxTypes, QuietTypes
  <1>5. \A u \in Tasks :
           /\ task'[u].step = "refreshed" <=> task[u].step = "refreshed"
           /\ task[u].step \in {"served", "refreshing", "refreshed"} => task'[u] = task[u]
           /\ task'[u].step = "served" => task'[u] = task[u]
    BY <1>1, <1>2, TaskFields
  <1>6. ListsInv'
    <2>1. InTime' => InTime
      BY <1>3 DEF InTime
    <2>2. \A p \in Lists : p[1] \in Nat
      BY <1>0, ListVersions
    <2>3. version' >= version
      BY <1>1, <1>3
    <2> QED  BY <1>0, <1>1, <1>3, <1>5, <2>1, <2>2, <2>3, QuietLists
  <1>7. Unlisted'
    BY <1>0, <1>3, <1>5, QuietInbox
  <1> QED  BY <1>2, <1>4, <1>6, <1>7, JoinLemma

\* The act is committed.
LEMMA CommitsLemma ==
    ASSUME ShellInv, NEW t \in Tasks, NEW members \in SUBSET Workspaces,
           NEW invitations \in SUBSET Workspaces, task[t].step = "sent", task[t].kind \in Acts,
           Changes(t, members, invitations)
    PROVE  LET o == Onward(task[t], "served", task[t].answer, version + 1)
           IN  /\ o \in TaskState /\ task' = [task EXCEPT ![t] = o] /\ o # NoTask
               /\ o.step = "served" /\ o.kind = task[t].kind /\ o.of = task[t].of
               /\ o.at = version + 1
  <1> DEFINE o == Onward(task[t], "served", task[t].answer, version + 1)
  <1>1. /\ task \in [Tasks -> TaskState] /\ task[t] # NoTask /\ task[t] \in TaskState
        /\ task[t].answer \in SUBSET Workspaces /\ version + 1 \in Nat
    BY SplitLemma, ListVersions, TaskFields
  <1>2. "served" \in TaskSteps
    BY DEF TaskSteps
  <1>3. task' = [task EXCEPT ![t] = o]
    <2>1. task' = [task EXCEPT ![t].step = "served", ![t].at = version + 1]
      BY DEF Changes
    <2>2. task \in [Tasks -> TaskState] /\ task[t] # NoTask
      BY <1>1
    <2>3. task' = [task EXCEPT ![t] = Onward(task[t], "served", task[t].answer, version + 1)]
      BY <1>2, <2>1, <2>2, StampLemma
    <2> QED  BY <2>3
  <1>4. /\ o \in TaskState /\ o # NoTask /\ o.step = "served" /\ o.kind = task[t].kind
        /\ o.of = task[t].of /\ o.at = version + 1
    BY <1>1, <1>2, AdvanceLemma
  <1> QED  BY <1>3, <1>4

\* What every act keeps.
LEMMA ChangesKeep ==
    ASSUME ShellInv, NEW t \in Tasks, NEW members \in SUBSET Workspaces,
           NEW invitations \in SUBSET Workspaces, task[t].step = "sent", task[t].kind \in Acts,
           Changes(t, members, invitations),
           members \cap invitations = {}, invitations \subseteq invited,
           mine \subseteq members \cup Gone', (unmade \cap members) \cup members \subseteq
               mine \cup {task[t].of},
           members \cap Gone = {},
           task[t].kind = "create" => task[t].of \in members,
           task[t].kind \in {"accept", "decline"} => task[t].of \notin invitations,
           task[t].kind \notin {"accept", "decline"} => invitations = invited
    PROVE  ShellTypeOK' /\ Purposeful' /\ Apart' /\ PaidFor' /\ Unlisted'
  <1> DEFINE o == Onward(task[t], "served", task[t].answer, version + 1)
  <1>0. TasksInv /\ PaidFor /\ ListsInv /\ Unlisted /\ ShellTypeOK /\ Apart
    BY SplitLemma DEF TasksInv
  <1>1. /\ o \in TaskState /\ task' = [task EXCEPT ![t] = o] /\ o # NoTask
        /\ o.step = "served" /\ o.kind = task[t].kind /\ o.of = task[t].of
        /\ o.at = version + 1
    BY CommitsLemma
  <1> HIDE DEF o
  <1>2. /\ mine' = members /\ invited' = invitations /\ unmade' = unmade \ members
        /\ version' = version + 1 /\ version \in Nat
        /\ answered' = IF o.kind \in {"accept", "decline"} THEN answered \cup {o.of}
                       ELSE answered
        /\ homeless' = (homeless \/ members = {})
        /\ UNCHANGED <<lists, inbox, overtaken, missed, moves>>
    BY <1>0, <1>1, ListVersions DEF Changes
  <1>3. UNCHANGED <<session, workspaces, activeId, listedAt, items, itemsAt, open, loading,
                    failed, actingId>>
    BY <1>2 DEF lists, inbox
  <1>4. task[t] # NoTask /\ task[t].of \in Workspaces
    BY <1>0, ListVersions DEF TasksInv, Purposeful
  <1>5. /\ Purposeful' /\ task' \in [Tasks -> TaskState]
        /\ PaidFor' /\ version' \in 1..(MaxMoves + 1)
    <2>1. /\ o.at <= version' /\ o.step = "served" /\ o.kind # "restore"
          /\ o.kind = "create" => o.of \notin unmade'
      BY <1>1, <1>2 DEF Acts
    <2>2. unmade' \subseteq unmade /\ moves' = moves
      BY <1>2
    <2> QED  BY <1>0, <1>1, <1>2, <1>4, <2>1, <2>2, GoesOn
  <1>6. ShellTypeOK'
    <2>1. answered' \subseteq Workspaces
      BY <1>0, <1>1, <1>2, <1>4 DEF ShellTypeOK
    <2>2. /\ mine' \subseteq Workspaces /\ invited' \subseteq Workspaces \ mine'
          /\ unmade' \subseteq Unmade
      BY <1>0, <1>2 DEF ShellTypeOK
    <2>3. homeless' \in BOOLEAN
      BY <1>2
    <2>4. listedAt' \in 0..version' /\ itemsAt' \in 0..version'
      BY <1>0, <1>2, <1>3 DEF ShellTypeOK
    <2> QED  BY <1>0, <1>2, <1>3, <1>5, <2>1, <2>2, <2>3, <2>4 DEF ShellTypeOK
  <1>7. Apart'
    <2>1. invited' \cap Owned = {} /\ mine' \cap unmade' = {}
      BY <1>0, <1>2 DEF Apart
    <2>2. answered' \cap invited' = {}
      BY <1>0, <1>1, <1>2 DEF Apart
    <2>3. mine \cup Gone \subseteq mine' \cup Gone'
      BY <1>2 DEF Gone
    <2> QED  BY <1>0, <1>2, <1>3, <2>1, <2>2, <2>3 DEF Apart
  <1>8. Unlisted'
    BY <1>0, <1>1, <1>2, <1>3, ChangesUnlisted
  <1> QED  BY <1>5, <1>6, <1>7, <1>8

LEMMA ServeActKeeps ==
    ASSUME ShellInv, NEW t \in Tasks, ServeAct(t)
    PROVE  ShellInv'
  <1> DEFINE w == task[t].of
             o == Onward(task[t], "served", task[t].answer, version + 1)
  <1>0. TasksInv /\ PaidFor /\ ListsInv /\ Unlisted /\ ShellTypeOK /\ Apart
    BY SplitLemma DEF TasksInv
  <1>1. /\ task[t].step = "sent" /\ task[t] # NoTask /\ version \in Nat
        /\ task[t].kind \in Acts /\ w \in Workspaces
        /\ task[t].kind \in {"create", "delete"} => w \in Owned
    <2>1. task[t].step = "sent" /\ task[t].kind \in Acts
      BY DEF ServeAct, Acts
    <2>2. task[t] # NoTask
      BY <1>0, <2>1, ListVersions
    <2> QED  BY <1>0, <2>1, <2>2, ListVersions DEF TasksInv, Purposeful
  <1>2. /\ mine \in SUBSET Workspaces /\ invited \in SUBSET Workspaces
        /\ mine \cap invited = {} /\ unmade \in SUBSET Owned
    BY <1>0, ShellAssumption DEF ShellTypeOK
  <1>3. /\ Uninvited(w) = invited \ {w} /\ Uninvited(w) \in SUBSET Workspaces
        /\ mine \cup {w} \in SUBSET Workspaces /\ mine \ {w} \in SUBSET Workspaces
    BY <1>1, <1>2 DEF Uninvited
  <1>4. \A members, invitations :
           Changes(t, members, invitations) =>
               /\ mine' = members /\ invited' = invitations /\ unmade' = unmade \ members
               /\ version' = version + 1 /\ homeless' = (homeless \/ mine' = {})
               /\ UNCHANGED <<session, workspaces, activeId, listedAt, overtaken, missed>>
    BY DEF Changes, lists
  <1>5. CASE task[t].kind = "accept" /\ w \in invited /\ Changes(t, mine \cup {w}, Uninvited(w))
    <2>1. /\ mine' = mine \cup {w} /\ unmade' = unmade \ mine' /\ version' = version + 1
          /\ homeless' = (homeless \/ mine' = {})
          /\ UNCHANGED <<session, workspaces, activeId, listedAt, overtaken, missed>>
      BY <1>4, <1>5
    <2>2. w \notin Owned
      BY <1>0, <1>5 DEF Apart
    <2>3. w \notin mine \cup Gone /\ (mine \cup {w}) \cap Gone = {}
      BY <1>2, <1>5, <2>2 DEF Gone
    <2>4. ShellTypeOK' /\ Purposeful' /\ Apart' /\ PaidFor' /\ Unlisted'
      BY <1>1, <1>2, <1>3, <1>5, <2>3, ChangesKeep
    <2>5. /\ o \in TaskState /\ task' = [task EXCEPT ![t] = o]
          /\ o.step = "served" /\ o.kind = task[t].kind
      BY <1>1, <1>3, <1>5, CommitsLemma
    <2>6. ListsInv'
      <3> HIDE DEF o, w
      <3> QED  BY <1>0, <1>1, <1>5, <2>1, <2>2, <2>3, <2>5, ChangesLists
    <2> QED  BY <2>4, <2>6, JoinLemma
  <1>6. CASE task[t].kind = "decline" /\ w \in invited /\ Changes(t, mine, Uninvited(w))
    <2>1. /\ mine' = mine /\ unmade' = unmade \ mine' /\ version' = version + 1
          /\ homeless' = (homeless \/ mine' = {})
          /\ UNCHANGED <<session, workspaces, activeId, listedAt, overtaken, missed>>
      BY <1>4, <1>6
    <2>2. mine \cap Gone = {} /\ unmade' = unmade
      BY <1>0, <2>1 DEF Gone, Apart
    <2>3. homeless' = homeless
      BY <1>0, <2>1 DEF Apart, ShellTypeOK
    <2>4. ShellTypeOK' /\ Purposeful' /\ Apart' /\ PaidFor' /\ Unlisted'
      BY <1>1, <1>2, <1>3, <1>6, <2>2, ChangesKeep
    <2>5. /\ o \in TaskState /\ task' = [task EXCEPT ![t] = o]
          /\ o.step = "served" /\ o.kind = task[t].kind
      BY <1>1, <1>3, <1>6, CommitsLemma
    <2>6. ListsInv'
      <3> HIDE DEF o, w
      <3>1. task'[t] = o /\ \A u \in Tasks \ {t} : task'[u] = task[u]
        BY <1>0, <2>5, SplitLemma
      <3>2. \A u \in Tasks :
               /\ task'[u].step = "refreshed" <=> task[u].step = "refreshed"
               /\ task[u].step = "refreshed" => task'[u] = task[u]
               /\ task[u].step \in {"served", "refreshing"} => task'[u] = task[u]
        BY <1>1, <2>5, <3>1
      <3>3. InTime' => InTime
        BY <2>1 DEF InTime
      <3>4. \A p \in Lists : p[1] \in Nat
        BY <1>0, ListVersions
      <3>5. version' \in Nat /\ version' >= version
        BY <1>1, <2>1
      <3> QED  BY <1>0, <1>1, <2>1, <2>2, <2>3, <3>2, <3>3, <3>4, <3>5, QuietLists
    <2> QED  BY <2>4, <2>6, JoinLemma
  <1>7. CASE task[t].kind = "create" /\ w \in unmade /\ Changes(t, mine \cup {w}, invited)
    <2>1. /\ mine' = mine \cup {w} /\ unmade' = unmade \ mine' /\ version' = version + 1
          /\ homeless' = (homeless \/ mine' = {})
          /\ UNCHANGED <<session, workspaces, activeId, listedAt, overtaken, missed>>
      BY <1>4, <1>7
    <2>2. w \in Owned /\ w \notin invited
      BY <1>0, <1>2, <1>7 DEF Apart
    <2>3. w \notin mine \cup Gone /\ (mine \cup {w}) \cap Gone = {}
      BY <1>0, <1>7 DEF Gone, Apart
    <2>4. ShellTypeOK' /\ Purposeful' /\ Apart' /\ PaidFor' /\ Unlisted'
      BY <1>1, <1>2, <1>3, <1>7, <2>2, <2>3, ChangesKeep
    <2>5. /\ o \in TaskState /\ task' = [task EXCEPT ![t] = o]
          /\ o.step = "served" /\ o.kind = task[t].kind
      BY <1>1, <1>2, <1>3, <1>7, CommitsLemma
    <2>6. ListsInv'
      <3>1. w \in Workspaces /\ w \in unmade
        BY <1>1, <1>7
      <3> HIDE DEF o, w
      <3> QED  BY <1>0, <1>1, <1>7, <2>1, <2>3, <2>5, <3>1, ChangesLists
    <2> QED  BY <2>4, <2>6, JoinLemma
  <1>8. CASE task[t].kind = "delete" /\ w \in mine /\ Changes(t, mine \ {w}, invited)
    <2>1. /\ mine' = mine \ {w} /\ unmade' = unmade \ mine' /\ version' = version + 1
          /\ homeless' = (homeless \/ mine' = {})
          /\ UNCHANGED <<session, workspaces, activeId, listedAt, overtaken, missed>>
      BY <1>4, <1>8
    <2>2. mine \cap Gone = {} /\ unmade' = unmade
      BY <1>0, <2>1 DEF Gone, Apart
    <2>3. w \in Gone' /\ Gone \subseteq Gone'
      BY <1>0, <1>1, <1>8, <2>1, <2>2 DEF Gone, Apart
    <2>4. ShellTypeOK' /\ Purposeful' /\ Apart' /\ PaidFor' /\ Unlisted'
      BY <1>1, <1>2, <1>3, <1>8, <2>1, <2>2, <2>3, ChangesKeep
    <2>5. /\ o \in TaskState /\ task' = [task EXCEPT ![t] = o]
          /\ o.step = "served" /\ o.kind = task[t].kind
      BY <1>1, <1>2, <1>3, <1>8, CommitsLemma
    <2>6. ListsInv'
      <3>1. mine' \subseteq mine /\ Gone \subseteq Gone' /\ mine \subseteq mine' \cup Gone'
        BY <2>1, <2>3
      <3> HIDE DEF o, w
      <3> QED  BY <1>0, <1>1, <1>8, <2>1, <2>5, <3>1, ChangesLists
    <2> QED  BY <2>4, <2>6, JoinLemma
  <1> QED  BY <1>5, <1>6, <1>7, <1>8 DEF ServeAct

LEMMA SwitchKeeps ==
    ASSUME ShellInv, NEW w \in Workspaces, SwitchWorkspace(w)
    PROVE  ShellInv'
  <1>0. TasksInv /\ PaidFor /\ ListsInv /\ Unlisted /\ ShellTypeOK /\ Apart /\ Snapshots
    BY SplitLemma DEF TasksInv, ListsInv
  <1>1. /\ UNCHANGED <<server, session, workspaces, listedAt, inbox, task, history>>
        /\ activeId' = w /\ moves' = moves + 1 /\ moves < MaxMoves
        /\ version \in Nat /\ moves \in Nat /\ MaxMoves \in Nat
    BY <1>0, ListVersions, SplitLemma DEF SwitchWorkspace, Move
  <1>2. UNCHANGED <<mine, invited, unmade, version, homeless, missed, overtaken, answered, items,
                    itemsAt, open, loading, failed, actingId>>
    BY <1>1 DEF server, inbox, history
  <1>3. w \in mine \cup Gone /\ listedAt # 0
    <2>1. w \in workspaces /\ listedAt # 0
      BY <1>0 DEF SwitchWorkspace, Available, Shown, Apart
    <2>2. <<listedAt, workspaces>> \in Lists
      BY <2>1, ListsLemma
    <2> QED  BY <1>0, <2>1, <2>2 DEF Snapshots
  <1>4. Purposeful'
    BY <1>0, <1>1, <1>2 DEF TasksInv, Purposeful
  <1>5. PaidFor'
    <2>1. OnTheirWay' \subseteq OnTheirWay
      BY <1>1 DEF OnTheirWay
    <2>2. version' + moves <= version + moves' /\ version' \in Nat /\ moves' \in Nat
      BY <1>1, <1>2
    <2> QED  BY <1>0, <1>1, <2>1, <2>2, PaidKeeps
  <1>6. ShellTypeOK'
    <2>1. moves' \in 0..MaxMoves
      BY <1>1
    <2> QED  BY <1>0, <1>1, <1>2, <2>1 DEF ShellTypeOK
  <1>7. Apart'
    <2>1. Gone' = Gone
      BY <1>2 DEF Gone
    <2> QED  BY <1>0, <1>1, <1>2, <1>3, <2>1 DEF Apart
  <1>8. ListsInv'
    BY <1>0, SwitchLists
  <1>9. Unlisted'
    BY <1>0, <1>1, <1>2, QuietInbox
  <1> QED  BY <1>4, <1>5, <1>6, <1>7, <1>8, <1>9, JoinLemma

LEMMA OthersInviteKeeps ==
    ASSUME ShellInv, NEW w \in Workspaces, OthersInvite(w)
    PROVE  ShellInv'
  <1>0. TasksInv /\ PaidFor /\ ListsInv /\ Unlisted /\ ShellTypeOK /\ Apart
    BY SplitLemma DEF TasksInv
  <1>1. /\ UNCHANGED <<mine, unmade, lists, inbox, task, overtaken, missed, homeless>>
        /\ w \notin mine \cup Owned /\ answered' = answered \ {w} /\ version' = version + 1
        /\ invited' \subseteq invited \cup {w}
        /\ moves' = moves + 1 /\ moves < MaxMoves
        /\ version \in Nat /\ version >= 1 /\ moves \in Nat /\ MaxMoves \in Nat
    BY <1>0, ListVersions, SplitLemma DEF OthersInvite, Move
  <1>2. UNCHANGED <<session, workspaces, activeId, listedAt, items, itemsAt, open, loading,
                    failed, actingId>>
    BY <1>1 DEF lists, inbox
  <1>3. version' \in Nat /\ version' >= version
    BY <1>1
  <1>4. Purposeful'
    <2>1. \A t \in Tasks : task[t] # NoTask => task[t].at <= version'
      BY <1>0, <1>1, ListVersions
    <2> QED  BY <1>0, <1>1, <2>1 DEF TasksInv, Purposeful
  <1>5. PaidFor' /\ version' <= moves' + 1
    <2>1. OnTheirWay' \subseteq OnTheirWay
      BY <1>1 DEF OnTheirWay
    <2>2. version' + moves <= version + moves' /\ version' \in Nat /\ moves' \in Nat
      BY <1>1
    <2> QED  BY <1>0, <1>1, <2>1, <2>2, PaidKeeps
  <1>6. ShellTypeOK'
    <2>1. moves' \in 0..MaxMoves /\ version' \in 1..(MaxMoves + 1)
      BY <1>1, <1>5
    <2>2. listedAt \in 0..version' /\ itemsAt \in 0..version'
      BY <1>0, <1>1 DEF ShellTypeOK
    <2>3. invited' \subseteq Workspaces \ mine
      BY <1>0, <1>1 DEF ShellTypeOK
    <2> QED  BY <1>0, <1>1, <1>2, <2>1, <2>2, <2>3 DEF ShellTypeOK
  <1>7. Apart'
    BY <1>0, <1>1, <1>2 DEF Apart, Gone
  <1>8. ListsInv'
    <2>1. \A p \in Lists : p[1] \in Nat
      BY <1>0, ListVersions
    <2>2. InTime' => InTime
      BY <1>1 DEF InTime
    <2> QED  BY <1>0, <1>1, <1>2, <1>3, <2>1, <2>2, QuietLists
  <1>9. Unlisted'
    BY <1>0, <1>1, <1>2, QuietInbox
  <1> QED  BY <1>4, <1>5, <1>6, <1>7, <1>8, <1>9, JoinLemma

LEMMA CloseInboxKeeps ==
    ASSUME ShellInv, CloseInbox
    PROVE  ShellInv'
  <1>0. TasksInv /\ PaidFor /\ ListsInv /\ Unlisted /\ ShellTypeOK /\ Apart
    BY SplitLemma DEF TasksInv
  <1>1. /\ UNCHANGED <<server, lists, items, itemsAt, loading, failed, actingId, task, history>>
        /\ open' = FALSE /\ moves' = moves + 1 /\ moves < MaxMoves
        /\ version \in Nat /\ moves \in Nat /\ MaxMoves \in Nat
    BY <1>0, ListVersions, SplitLemma DEF CloseInbox, Move
  <1>2. UNCHANGED <<mine, invited, unmade, version, session, workspaces, activeId, listedAt,
                    homeless, missed, overtaken, answered>>
    BY <1>1 DEF server, lists, history
  <1>3. Purposeful' /\ Apart'
    BY <1>0, <1>1, <1>2 DEF TasksInv, Purposeful, Apart, Gone
  <1>4. PaidFor'
    <2>1. OnTheirWay' \subseteq OnTheirWay
      BY <1>1 DEF OnTheirWay
    <2>2. version' + moves <= version + moves' /\ version' \in Nat /\ moves' \in Nat
      BY <1>1, <1>2
    <2> QED  BY <1>0, <1>1, <2>1, <2>2, PaidKeeps
  <1>5. ShellTypeOK'
    <2>1. moves' \in 0..MaxMoves
      BY <1>1
    <2> QED  BY <1>0, <1>1, <1>2, <2>1 DEF ShellTypeOK
  <1>6. ListsInv'
    <2>1. \A p \in Lists : p[1] \in Nat
      BY <1>0, ListVersions
    <2>2. InTime' => InTime
      BY <1>2 DEF InTime
    <2>3. version' >= version
      BY <1>1, <1>2
    <2> QED  BY <1>0, <1>1, <1>2, <2>1, <2>2, <2>3, QuietLists
  <1>7. Unlisted'
    BY <1>0, <1>1, <1>2, QuietInbox
  <1> QED  BY <1>3, <1>4, <1>5, <1>6, <1>7, JoinLemma

\* Whatever the user begins in a slot.
LEMMA BeginKeeps ==
    ASSUME ShellInv, NEW t \in Tasks
    PROVE  /\ OpenInbox(t) \/ RetryInbox(t) \/ DeleteShown(t) => ShellInv'
           /\ \A w \in Workspaces :
                 CreateMine(t, w) \/ AnswerInvitation(t, "accept", w)
                                  \/ AnswerInvitation(t, "decline", w) => ShellInv'
  <1>0. ShellTypeOK /\ unmade \subseteq Owned /\ None \in Workspaces \cup {None}
    BY ShellAssumption DEF ShellInv, ShellTypeOK
  <1>1. open \in BOOLEAN /\ actingId \in Workspaces \cup {None}
    BY <1>0 DEF ShellTypeOK
  <1>2. ASSUME OpenInbox(t)  PROVE ShellInv'
    <2>1. /\ StartTask(t, "sent", "inbox", None)
          /\ UNCHANGED <<server, lists, items, itemsAt, loading, failed, history>>
          /\ open' \in BOOLEAN /\ actingId' = actingId
      BY <1>2 DEF OpenInbox
    <2> QED  BY <1>0, <1>1, <2>1, StartKeeps DEF Acts
  <1>3. ASSUME RetryInbox(t)  PROVE ShellInv'
    <2>1. /\ StartTask(t, "sent", "inbox", None)
          /\ UNCHANGED <<server, lists, items, itemsAt, loading, failed, history>>
          /\ open' = open /\ actingId' = actingId
      BY <1>3 DEF RetryInbox, inbox
    <2> QED  BY <1>0, <1>1, <2>1, StartKeeps DEF Acts
  <1>4. ASSUME DeleteShown(t)  PROVE ShellInv'
    <2>1. /\ StartTask(t, "sent", "delete", Shown) /\ Shown \in Owned
          /\ UNCHANGED <<server, lists, items, itemsAt, loading, failed, history>>
          /\ open' = open /\ actingId' = actingId
      BY <1>4 DEF DeleteShown, inbox
    <2>2. Shown \in Workspaces
      BY <2>1, ShellAssumption
    <2> QED  BY <1>0, <1>1, <2>1, <2>2, StartKeeps DEF Acts
  <1>5. ASSUME NEW w \in Workspaces, CreateMine(t, w)  PROVE ShellInv'
    <2>1. /\ StartTask(t, "sent", "create", w) /\ w \in Owned
          /\ UNCHANGED <<server, lists, items, itemsAt, loading, failed, history>>
          /\ open' = open /\ actingId' = actingId
      BY <1>0, <1>5 DEF CreateMine, inbox
    <2> QED  BY <1>0, <1>1, <2>1, StartKeeps DEF Acts
  <1>6. ASSUME NEW w \in Workspaces, NEW kind \in {"accept", "decline"},
               AnswerInvitation(t, kind, w)
        PROVE  ShellInv'
    <2>1. /\ StartTask(t, "sent", kind, w)
          /\ UNCHANGED <<server, lists, items, itemsAt, loading, failed, history>>
          /\ open' = open /\ actingId' = w
      BY <1>6 DEF AnswerInvitation
    <2> QED  BY <1>0, <1>1, <2>1, StartKeeps DEF Acts
  <1> QED  BY <1>2, <1>3, <1>4, <1>5, <1>6

\* Every step keeps the invariant.
LEMMA ShellSteps == ShellInv /\ [ShellNext]_shellVars => ShellInv'
  <1> SUFFICES ASSUME ShellInv, [ShellNext]_shellVars  PROVE ShellInv'
    OBVIOUS
  <1>1. ASSUME NEW w \in Workspaces, SwitchWorkspace(w) \/ OthersInvite(w)  PROVE ShellInv'
    BY <1>1, SwitchKeeps, OthersInviteKeeps
  <1>2. CASE CloseInbox
    BY <1>2, CloseInboxKeeps
  <1>3. ASSUME NEW t \in Tasks, TaskStep(t)  PROVE ShellInv'
    BY <1>3, ServeInboxKeeps, ServeRefreshKeeps, ServeActKeeps, FailKeeps, TakeInboxKeeps,
       TakeInvitationAnswerKeeps, TakeChangeKeeps, TakeRefreshKeeps, TakeFailureKeeps
    DEF TaskStep
  <1>4. ASSUME NEW t \in Tasks,
               \/ OpenInbox(t) \/ RetryInbox(t) \/ DeleteShown(t)
               \/ \E w \in Workspaces :
                     \/ CreateMine(t, w)
                     \/ AnswerInvitation(t, "accept", w) \/ AnswerInvitation(t, "decline", w)
        PROVE  ShellInv'
    BY <1>4, BeginKeeps
  <1>5. CASE UNCHANGED shellVars
    <2>1. UNCHANGED <<mine, invited, unmade, version, session, workspaces, activeId, listedAt,
                      items, itemsAt, open, loading, failed, actingId, task, answered,
                      overtaken, missed, homeless, moves>>
      BY <1>5 DEF shellVars, server, lists, inbox, history
    <2>2. ShellTypeOK' /\ Purposeful' /\ Apart' /\ PaidFor'
      BY <2>1 DEF ShellInv, ShellTypeOK, Purposeful, Apart, PaidFor, OnTheirWay, Gone
    <2>3. TasksInv /\ ListsInv /\ Unlisted
      BY SplitLemma
    <2>4. ListsInv'
      <3>1. \A p \in Lists : p[1] \in Nat
        BY <2>3, ListVersions
      <3>2. InTime' => InTime
        BY <2>1 DEF InTime
      <3>3. version \in Nat /\ version' >= version
        BY <2>1, <2>3, ListVersions
      <3> QED  BY <2>1, <2>3, <3>1, <3>2, <3>3, QuietLists
    <2>5. Unlisted'
      BY <2>1, <2>3, QuietInbox
    <2> QED  BY <2>2, <2>4, <2>5, JoinLemma
  <1> QED  BY <1>1, <1>2, <1>3, <1>4, <1>5 DEF ShellNext

\* It holds when the session has just been restored.
LEMMA ShellStarts == ShellInit => ShellInv
  <1> SUFFICES ASSUME ShellInit  PROVE ShellInv
    OBVIOUS
  <1>0. /\ mine \in (SUBSET (Workspaces \ Unmade)) \ {{}}
        /\ invited \in SUBSET (Workspaces \ (mine \cup Owned))
    BY DEF ShellInit
  <1>1. /\ mine \in SUBSET Workspaces /\ mine # {} /\ mine \cap Unmade = {}
        /\ invited \in SUBSET Workspaces /\ invited \cap (mine \cup Owned) = {}
    BY <1>0
  <1>2. /\ unmade = Unmade /\ version = 1 /\ session = Min(mine)
        /\ workspaces = {} /\ activeId = None /\ listedAt = 0 /\ items = {} /\ itemsAt = 0
        /\ open = FALSE /\ loading = TRUE /\ failed = FALSE /\ actingId = None
        /\ answered = {} /\ overtaken = {} /\ missed = FALSE /\ homeless = FALSE /\ moves = 0
    BY DEF ShellInit
  <1>3. session \in mine
    BY <1>1, <1>2, LeastWorkspace
  <1>4. PICK t \in Tasks, u \in Tasks :
           /\ t # u
           /\ task = [k \in Tasks |-> CASE k = t -> Begun("refreshing", "restore", None)
                                        [] k = u -> Begun("sent", "inbox", None)
                                        [] OTHER -> NoTask]
    BY DEF ShellInit
  <1> DEFINE r == Begun("refreshing", "restore", None)
             s == Begun("sent", "inbox", None)
  <1>5. /\ r \in TaskState /\ r.step = "refreshing" /\ r.kind = "restore" /\ r.at = 0
        /\ r # NoTask
    BY BegunLemma DEF TaskSteps, Kinds
  <1>6. /\ s \in TaskState /\ s.step = "sent" /\ s.kind = "inbox" /\ s.at = 0
        /\ s # NoTask
    BY BegunLemma DEF TaskSteps, Kinds
  <1>7. /\ task \in [Tasks -> {r, s, NoTask}] /\ task[t] = r
    BY <1>4
  <1> HIDE DEF r, s
  <1>8. \A k \in Tasks : task[k] = r \/ task[k] = s \/ task[k] = NoTask
    BY <1>7
  <1>9. NoTask \in TaskState /\ NoTask.step = "none"
    BY TaskFields
  <1>10. ShellTypeOK
    <2>1. task \in [Tasks -> TaskState]
      BY <1>5, <1>6, <1>7, <1>9
    <2>2. version \in 1..(MaxMoves + 1) /\ moves \in 0..MaxMoves
      BY <1>1, <1>2, ShellAssumption
    <2>3. /\ mine \subseteq Workspaces /\ invited \subseteq Workspaces \ mine
          /\ unmade \subseteq Unmade /\ session \in Workspaces
          /\ workspaces \subseteq Workspaces /\ activeId \in Workspaces \cup {None}
          /\ items \subseteq Workspaces /\ actingId \in Workspaces \cup {None}
          /\ answered \subseteq Workspaces
          /\ overtaken \subseteq {"workspaces", "items", "creation"}
      BY <1>1, <1>2, <1>3
    <2>4. listedAt \in 0..version /\ itemsAt \in 0..version
      BY <1>2
    <2>5. /\ open \in BOOLEAN /\ loading \in BOOLEAN /\ failed \in BOOLEAN
          /\ missed \in BOOLEAN /\ homeless \in BOOLEAN
      BY <1>2
    <2> QED  BY <2>1, <2>2, <2>3, <2>4, <2>5 DEF ShellTypeOK
  <1>11. Purposeful
    BY <1>1, <1>2, <1>5, <1>6, <1>8 DEF Purposeful, Refreshers, Acts
  <1>12. Apart
    BY <1>1, <1>2, <1>3 DEF Apart
  <1>13. PaidFor
    <2>1. OnTheirWay = {}
      BY <1>5, <1>6, <1>8, <1>9 DEF OnTheirWay, Acts
    <2> QED  BY <1>1, <1>2, <2>1, FS_EmptySet DEF PaidFor
  <1>14. Refreshed = {} /\ Lists = {}
    <2>1. Refreshed = {}
      BY <1>5, <1>6, <1>8, <1>9 DEF Refreshed
    <2> QED  BY <1>1, <1>2, <2>1 DEF Lists
  <1>15. Snapshots /\ InSequence
    BY <1>14 DEF Snapshots, InSequence
  <1>16. Announced
    <2>1. Coming(t, 0, Refreshers)
      BY <1>5, <1>7 DEF Coming, Refreshers
    <2> QED  BY <1>14, <2>1 DEF Announced, Behind
  <1>17. Placed
    <2>1. session \notin Gone /\ None \notin Gone
      BY <1>3, ShellAssumption DEF Gone
    <2> QED  BY <1>1, <1>2, <1>14, <2>1 DEF Placed
  <1>18. Unlisted
    BY <1>1, <1>2, <1>5, <1>6, <1>8, <1>9 DEF Unlisted
  <1> QED  BY <1>10, <1>11, <1>12, <1>13, <1>15, <1>16, <1>17, <1>18 DEF ShellInv

\* So it always holds.
LEMMA ShellInvariance == ShellSpec => []ShellInv
  BY ShellStarts, ShellSteps, PTL DEF ShellSpec

\* Every variable of the shell keeps its type, for any workspaces, slots and moves.
THEOREM ShellTypeCorrect == ShellSpec => []ShellTypeOK
  <1>1. ShellInv => ShellTypeOK
    BY DEF ShellInv
  <1> QED  BY <1>1, ShellInvariance, PTL

\* refreshWorkspaces and switchWorkspace: at rest, if no call failed and nothing came too
\* late, the menu lists the user's workspaces and the user is in one of them.
THEOREM UsersAreInTheirWorkspaces == ShellSpec => []InWorkspaceOfTheirs
  <1>1. ShellInv => InWorkspaceOfTheirs
    <2> SUFFICES ASSUME ShellInv, AtRest, ~missed, overtaken \subseteq {"items"}
                 PROVE  workspaces = mine /\ (homeless \/ Shown \in mine)
      BY DEF InWorkspaceOfTheirs
    <2>1. TasksInv /\ Apart /\ Announced /\ Placed /\ InTime
      BY SplitLemma DEF TasksInv, ListsInv, InTime
    <2>2. \A t \in Tasks : task[t].step = "none"
      BY TaskFields DEF AtRest
    <2>3. \A v, kinds : ~Behind(v, kinds)
      BY <2>2 DEF Behind, Coming
    <2>4. listedAt # 0 /\ listedAt \in Nat
      BY <2>1, <2>3, ListVersions DEF Announced
    <2>5. <<listedAt, workspaces>> \in Lists
      BY <2>4, ListsLemma
    <2>6. workspaces = mine
      BY <2>1, <2>3, <2>4, <2>5 DEF Announced
    <2>7. ASSUME ~homeless  PROVE Shown \in mine
      <3>1. activeId \notin Gone /\ (activeId = None => session \notin Gone)
        BY <2>1, <2>3, <2>7 DEF Placed
      <3>2. session \in mine \cup Gone /\ activeId \in mine \cup Gone \cup {None}
        BY <2>1 DEF Apart
      <3> QED  BY <2>6, <3>1, <3>2 DEF Shown
    <2> QED  BY <2>6, <2>7
  <1> QED  BY <1>1, ShellInvariance, PTL

\* accept and decline: an invitation that was answered is gone from the inbox when its
\* task ends, if no call failed and no older answer replaced the list.
THEOREM AnsweredInvitationsLeave == ShellSpec => []AnsweredLeavesInbox
  <1>1. ShellInv => AnsweredLeavesInbox
    <2> SUFFICES ASSUME ShellInv, "items" \notin overtaken, ~missed,
                        NEW w \in items \cap answered
                 PROVE  \E t \in Tasks : task[t] # NoTask /\ task[t].of = w
      BY DEF AnsweredLeavesInbox
    <2>1. PICK t \in Tasks : Answering(t, w)
      BY DEF ShellInv, Unlisted
    <2>2. task[t] # NoTask /\ task[t].of = w
      BY <2>1, TaskFields DEF Answering
    <2> QED  BY <2>2
  <1> QED  BY <1>1, ShellInvariance, PTL
============================================================================
