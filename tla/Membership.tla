----------------------------- MODULE Membership -----------------------------
(***************************************************************************)
(* Who belongs to a workspace, and in which role: invitations and changes  *)
(* by owners and admins (core.v2_views), single sign-on and the directory  *)
(* (core.v3_views), and the deletion of an account (core.views.MeView).    *)
(* A change reads the membership row and writes it later; the row may have *)
(* gone, come back as another row, or changed its role in between.         *)
(***************************************************************************)
EXTENDS Integers

CONSTANTS
    Users,
    founder,        \* the owner of the workspace
    Requests,
    Roles,          \* what an invitation or a change may give
    MaxRows         \* bound: membership rows of one user

MembershipAssumption ==
    /\ founder \in Users /\ MaxRows \in Nat \ {0}
    /\ "member" \in Roles /\ Roles \cap {"owner", "none"} = {}

VARIABLES
    account,        \* account[u]: "active", "inactive" or "deleted"
    role,           \* role[u]: of the membership row, "none" without one
    rows,           \* rows[u]: membership rows of u there have been; the last is the one
    work,           \* work[r]: what request r does next
    target,         \* target[r]: the user it is about
    read,           \* read[r]: the row of that user it has read
    gives,          \* gives[r]: the role it will write
    named,          \* users an invitation or the directory has given their role
    removed         \* users removed since one of the steps that admit

membershipvars == <<account, role, rows, work, target, read, gives, named, removed>>
requestvars == <<work, target, read, gives>>

Admins == {u \in Users : role[u] \in {"owner", "admin"} /\ account[u] = "active"}

Init ==
    /\ account = [u \in Users |-> "active"]
    /\ role \in [Users -> Roles \union {"none", "owner"}]
    /\ \A u \in Users : role[u] = "owner" <=> u = founder
    /\ rows = [u \in Users |-> IF role[u] = "none" THEN 0 ELSE 1]
    /\ work = [r \in Requests |-> "idle"] /\ target = [r \in Requests |-> founder]
    /\ read = [r \in Requests |-> 0] /\ gives = [r \in Requests |-> "none"]
    /\ named = {} /\ removed = {}

Works == {"invite", "patch", "remove", "scimpatch", "deactivate"}

\* A row that members and the directory may change and remove.
Changeable(u) == role[u] # "owner"

(* A request is let in by the role or the token of the one who makes it,   *)
(* and reads the row it is about.                                          *)
Begin(r) ==
    /\ work[r] = "idle"
    /\ \E job \in Works, u \in Users, given \in Roles \union {"owner", "none"} :
          /\ job \in {"invite", "patch", "remove"} => Admins # {} /\ given # "owner"
          /\ given = "none" <=> job \in {"remove", "deactivate"}
          /\ job # "invite" => role[u] # "none"
          /\ job \in {"patch", "remove", "deactivate"} => Changeable(u)
          /\ work' = [work EXCEPT ![r] = job]
          /\ target' = [target EXCEPT ![r] = u]
          /\ read' = [read EXCEPT ![r] = rows[u]]
          /\ gives' = [gives EXCEPT ![r] = given]
    /\ UNCHANGED <<account, role, rows, named, removed>>

\* Request r is over: nothing of it stays.
Done(r) ==
    /\ work' = [work EXCEPT ![r] = "idle"] /\ target' = [target EXCEPT ![r] = founder]
    /\ read' = [read EXCEPT ![r] = 0] /\ gives' = [gives EXCEPT ![r] = "none"]

\* User u is a member, by a new row or by the one there is.
Admit(u, given) ==
    /\ account[u] # "deleted"
    /\ role' = [role EXCEPT ![u] = given]
    /\ rows' = IF role[u] = "none" THEN [rows EXCEPT ![u] = @ + 1] ELSE rows
    /\ removed' = removed \ {u}

Room(u) == role[u] # "none" \/ rows[u] < MaxRows

(* WorkspaceMemberListCreateView.post: update_or_create, whatever the role *)
(* was; the seat limit is that of PlanLimits.                              *)
Invite(r) ==
    /\ work[r] = "invite" /\ Room(target[r])
    /\ Admit(target[r], gives[r]) /\ named' = named \union {target[r]}
    /\ Done(r) /\ UNCHANGED account

(* _provision_sso_user: get_or_create, whether the account is active or not. *)
SignOn(u) ==
    /\ role[u] = "none" /\ Room(u) /\ Admit(u, "member")
    /\ UNCHANGED <<account, requestvars, named>>

(* SCIMUsersView.post: update_or_create, with any role.                    *)
Provision(u, given) ==
    /\ Room(u) /\ Admit(u, given) /\ named' = named \union {u}
    /\ UNCHANGED <<account, requestvars>>

\* Mutant of RowIsThere: the row is saved whole, and comes back if it had gone.
RowIsThereAgain(r) == TRUE

\* The row that was read is still the user's row.
RowIsThere(r) == role[target[r]] # "none" /\ rows[target[r]] = read[r]

(* save(update_fields=["role"]): of a row that is gone it is an error.     *)
SaveRole(r) ==
    /\ work[r] \in {"patch", "scimpatch"}
    /\ role' = IF RowIsThere(r) THEN [role EXCEPT ![target[r]] = gives[r]] ELSE role
    /\ named' = IF work[r] = "scimpatch" THEN named \union {target[r]} ELSE named
    /\ Done(r) /\ UNCHANGED <<account, rows, removed>>

(* The directory deactivates the account, and then removes the row.        *)
Deactivate(r) ==
    /\ work[r] = "deactivate"
    /\ account' = [account EXCEPT ![target[r]] = IF @ = "deleted" THEN @ ELSE "inactive"]
    /\ work' = [work EXCEPT ![r] = "remove"]
    /\ UNCHANGED <<role, rows, target, read, gives, named, removed>>

(* SCIMUserDetailView.patch of "active".                                   *)
SetActive(u) ==
    /\ role[u] # "none" /\ account[u] # "deleted"
    /\ \E status \in {"active", "inactive"} : account' = [account EXCEPT ![u] = status]
    /\ UNCHANGED <<role, rows, requestvars, named, removed>>

Remove(r) ==
    /\ work[r] = "remove"
    /\ IF RowIsThere(r)
       THEN /\ role' = [role EXCEPT ![target[r]] = "none"]
            /\ removed' = removed \union {target[r]}
       ELSE UNCHANGED <<role, removed>>
    /\ Done(r) /\ UNCHANGED <<account, rows, named>>

(* MeView.destroy: the account with its membership; that of the owner with *)
(* the workspace.                                                          *)
DeleteAccount(u) ==
    /\ account[u] = "active"
    /\ account' = [account EXCEPT ![u] = "deleted"]
    /\ LET gone == IF u = founder THEN Users ELSE {u} IN
       /\ role' = [v \in Users |-> IF v \in gone THEN "none" ELSE role[v]]
       /\ removed' = removed \union gone
    /\ UNCHANGED <<rows, requestvars, named>>

WorkspaceExists == account[founder] # "deleted"

Next ==
    /\ WorkspaceExists
    /\ \/ \E r \in Requests : Begin(r) \/ Invite(r) \/ SaveRole(r) \/ Deactivate(r) \/ Remove(r)
       \/ \E u \in Users :
             \/ SignOn(u) \/ SetActive(u) \/ DeleteAccount(u)
             \/ \E given \in Roles \union {"owner"} : Provision(u, given)

Spec == Init /\ [][Next]_membershipvars
-----------------------------------------------------------------------------
TypeOK ==
    /\ account \in [Users -> {"active", "inactive", "deleted"}]
    /\ role \in [Users -> Roles \union {"none", "owner"}]
    /\ rows \in [Users -> 0..MaxRows] /\ read \in [Requests -> 0..MaxRows]
    /\ work \in [Requests -> {"idle"} \union Works] /\ target \in [Requests -> Users]
    /\ gives \in [Requests -> Roles \union {"none", "owner"}]
    /\ named \subseteq Users /\ removed \subseteq Users

\* One who was removed stays out, whatever changes of their role were under way, until
\* an invitation, the directory or a sign-on lets them in; and the founder stays the
\* owner unless an invitation or the directory named them
\* (WorkspaceMemberDetailView, SCIMUserDetailView).
RemovalStays ==
    /\ \A u \in removed : role[u] = "none"
    /\ WorkspaceExists /\ founder \notin named => role[founder] = "owner"
=============================================================================
