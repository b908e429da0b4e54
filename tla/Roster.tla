------------------------------- MODULE Roster -------------------------------
(***************************************************************************)
(* What the membership of one workspace promises, without requests,        *)
(* transactions or rows: a roster of members with their roles, the answer  *)
(* given to each person's invitation, and one atomic step per operation.   *)
(* Membership.tla is shown to implement it.                                *)
(***************************************************************************)
EXTENDS Naturals, FiniteSets

CONSTANTS Users, MemberCap

VARIABLES
    open,     \* the workspace exists and is not deleted
    founder,  \* who created the workspace, as a set of at most one user
    member,   \* member[u]: the role of u, "none" for a user who is not a member
    answer    \* answer[u]: "none", "pending", "accepted" or "declined"

rosterVars == <<open, founder, member, answer>>

Members == {u \in Users : member[u] # "none"}

RosterInit ==
    /\ open = FALSE
    /\ founder = {}
    /\ member = [u \in Users |-> "none"]
    /\ answer = [u \in Users |-> "none"]

\* The creator is the first member and owns the workspace for good.
Found(u) ==
    /\ founder = {}
    /\ founder' = {u}
    /\ open' = TRUE
    /\ member' = [member EXCEPT ![u] = "owner"]
    /\ UNCHANGED answer

\* Nobody invites an owner.  Inviting again withdraws an earlier answer.
Invite(u) ==
    /\ founder # {} /\ u \notin founder
    /\ answer[u] # "pending"
    /\ answer' = [answer EXCEPT ![u] = "pending"]
    /\ UNCHANGED <<open, founder, member>>

\* A pending invitation admits its guest while the workspace is open and has
\* room.  The guest is a member, or an admin when an owner is at work on the
\* guest's role at the same time.
Join(u) ==
    /\ open
    /\ answer[u] = "pending"
    /\ member[u] = "none"
    /\ Cardinality(Members) < MemberCap
    /\ \E granted \in {"member", "admin"} : member' = [member EXCEPT ![u] = granted]
    /\ answer' = [answer EXCEPT ![u] = "accepted"]
    /\ UNCHANGED <<open, founder>>

\* A guest who is, or was until a moment ago, a member answers an invitation
\* that crossed an earlier one: it is accepted, admits nobody and can only
\* turn an admin into a member.
JoinAgain(u) ==
    /\ open
    /\ answer[u] = "pending"
    /\ u \notin founder
    /\ \/ UNCHANGED member
       \/ member[u] # "none" /\ member' = [member EXCEPT ![u] = "member"]
    /\ answer' = [answer EXCEPT ![u] = "accepted"]
    /\ UNCHANGED <<open, founder>>

Decline(u) ==
    /\ answer[u] = "pending"
    /\ answer' = [answer EXCEPT ![u] = "declined"]
    /\ UNCHANGED <<open, founder, member>>

Revoke(u) ==
    /\ answer[u] = "pending"
    /\ answer' = [answer EXCEPT ![u] = "none"]
    /\ UNCHANGED <<open, founder, member>>

Remove(u) ==
    /\ u \notin founder
    /\ member' = [member EXCEPT ![u] = "none"]
    /\ UNCHANGED <<open, founder, answer>>

SetRole(u) ==
    /\ u \in Members \ founder
    /\ \E newRole \in {"member", "admin"} : member' = [member EXCEPT ![u] = newRole]
    /\ UNCHANGED <<open, founder, answer>>

Close ==
    /\ founder # {}
    /\ open' = FALSE
    /\ UNCHANGED <<founder, member, answer>>

RosterNext ==
    \/ \E u \in Users :
          \/ Found(u) \/ Invite(u) \/ Join(u) \/ JoinAgain(u)
          \/ Decline(u) \/ Revoke(u) \/ Remove(u) \/ SetRole(u)
    \/ Close

RosterSpec == RosterInit /\ [][RosterNext]_rosterVars
============================================================================
