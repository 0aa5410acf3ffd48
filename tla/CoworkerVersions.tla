-------------------------- MODULE CoworkerVersions --------------------------
(***************************************************************************)
(* The version history of one versioned object: a coworker                 *)
(* (core.coworkers), an agent team or a workflow (core.v2_services).  An   *)
(* edit reads the current version, creates the next one with the fields it *)
(* does not change taken from what it read, and moves the pointer; an      *)
(* edit of a coworker does so in two commits, and a process can die        *)
(* between them.  Names, avatars and the profile made for a permission     *)
(* change are not versioned and are left out.                              *)
(***************************************************************************)
EXTENDS Integers, Sequences

CONSTANTS
    Editors,        \* requests that create, edit or roll back the object
    Fields,         \* the versioned fields
    Values,
    MaxVersions     \* bound

Keep == "keep"      \* a field the edit does not give

ASSUME VersionsAssumption ==
    /\ Fields # {} /\ Values # {} /\ Keep \notin Values /\ MaxVersions \in Nat

VARIABLES
    kind,           \* "coworker", or "transactional": the version and the pointer in one commit
    row,            \* the object's row: "none", "active", "archived" or "deleted"
    history,        \* history[n]: what version number n says, a function of Fields
    current,        \* the number of the current version, 0 when there is none
    edit,           \* edit[e]: what editor e does next
    seen,           \* seen[e]: the number of the version e has read as current
    change,         \* change[e]: the fields e gives
    agreed          \* the fields as the edits that were acknowledged leave them

versionvars == <<kind, row, history, current, edit, seen, change, agreed>>

Versions == [Fields -> Values]
Changes == [Fields -> Values \union {Keep}]
Nothing == [f \in Fields |-> Keep]
Kept(values, with) == [f \in Fields |-> IF with[f] = Keep THEN values[f] ELSE with[f]]

Init ==
    /\ kind \in {"coworker", "transactional"}
    /\ row = "none" /\ history = <<>> /\ current = 0
    /\ edit = [e \in Editors |-> "idle"]
    /\ seen = [e \in Editors |-> 0]
    /\ change = [e \in Editors |-> Nothing]
    /\ agreed = CHOOSE v \in Versions : TRUE    \* as good as any: there is no version yet

\* Editor e is done: nothing of its request stays.
Leave(e) ==
    /\ edit' = [edit EXCEPT ![e] = "idle"]
    /\ seen' = [seen EXCEPT ![e] = 0]
    /\ change' = [change EXCEPT ![e] = Nothing]

\* Editor e goes on with a change of the version it has read.
Start(e, fields) ==
    /\ edit' = [edit EXCEPT ![e] = "version"]
    /\ seen' = [seen EXCEPT ![e] = current]
    /\ change' = [change EXCEPT ![e] = fields]
    /\ UNCHANGED <<kind, row, history, current, agreed>>

(* create_coworker: the row, the first version and the pointer are three   *)
(* commits.                                                                *)
CreateCoworker(e) ==
    /\ kind = "coworker" /\ row = "none" /\ edit[e] = "idle"
    /\ row' = "active"
    /\ edit' = [edit EXCEPT ![e] = "version"]
    /\ \E fields \in Versions : change' = [change EXCEPT ![e] = fields]
    /\ UNCHANGED <<kind, history, current, seen, agreed>>

(* create_workflow, create_agent_team: one transaction.                    *)
CreateInTransaction ==
    /\ kind = "transactional" /\ row = "none"
    /\ row' = "active"
    /\ \E fields \in Versions : history' = <<fields>> /\ current' = 1 /\ agreed' = fields
    /\ UNCHANGED <<kind, edit, seen, change>>

(* CoworkerDetailView.patch, of an archived coworker too.                  *)
EditCoworker(e) ==
    /\ kind = "coworker" /\ row \in {"active", "archived"} /\ edit[e] = "idle"
    /\ \E fields \in Changes \ {Nothing} : Start(e, fields)

(* AgentTeamDetailView.patch with members, WorkflowDetailView.patch: the   *)
(* new version is given whole.                                             *)
EditInTransaction(e) ==
    /\ kind = "transactional" /\ row = "active" /\ edit[e] = "idle"
    /\ \E fields \in Versions : Start(e, fields)

(* A rollback copies an earlier version; only coworkers have one.          *)
Rollback(e) ==
    /\ kind = "coworker" /\ row \in {"active", "archived"} /\ edit[e] = "idle"
    /\ \E n \in DOMAIN history : Start(e, history[n])

\* Mutant of Number: the highest number there is, and one.
NumberNext(e) == Len(history) + 1

\* The number of the version editor e creates.
Number(e) == seen[e] + 1

\* Without a current version every field must be given.
Complete(e) == seen[e] # 0 \/ \A f \in Fields : change[e][f] # Keep

\* The version row of editor e: a number that is taken is refused by the database.
NewVersion(e) ==
    /\ edit[e] = "version" /\ Len(history) < MaxVersions
    /\ row # "deleted" /\ Complete(e) /\ Number(e) \notin DOMAIN history
    /\ history' = Append(history,
          IF seen[e] = 0 THEN change[e] ELSE Kept(history[seen[e]], change[e]))

\* The pointer is saved: the edit is acknowledged.
Acknowledge(e) ==
    /\ current' = Number(e)
    /\ agreed' = Kept(agreed, change[e])
    /\ Leave(e)

(* create_new_version, its first commit.                                   *)
AddVersion(e) ==
    /\ kind = "coworker" /\ NewVersion(e)
    /\ edit' = [edit EXCEPT ![e] = "pointer"]
    /\ UNCHANGED <<kind, row, current, seen, change, agreed>>

(* create_new_version, its second.                                         *)
Point(e) ==
    /\ edit[e] = "pointer" /\ row # "deleted"
    /\ Acknowledge(e)
    /\ UNCHANGED <<kind, row, history>>

(* new_agent_team_version, update_workflow: version and pointer in one     *)
(* transaction.                                                            *)
AddInTransaction(e) ==
    /\ kind = "transactional" /\ NewVersion(e)
    /\ Acknowledge(e)
    /\ UNCHANGED <<kind, row>>

(* The request fails with an error: the number is taken, a field is        *)
(* missing, the coworker is gone, or its process dies, in the middle too.  *)
Fail(e) ==
    /\ edit[e] \in {"version", "pointer"}
    /\ Leave(e)
    /\ UNCHANGED <<kind, row, history, current, agreed>>

(* CoworkerDetailView.delete: archived, or deleted with its versions.      *)
Fire ==
    /\ kind = "coworker" /\ row \in {"active", "archived"}
    /\ \/ row' = "archived" /\ UNCHANGED <<history, current>>
       \/ row' = "deleted" /\ history' = <<>> /\ current' = 0
    /\ UNCHANGED <<kind, edit, seen, change, agreed>>

Next ==
    \/ Fire \/ CreateInTransaction
    \/ \E e \in Editors :
          \/ CreateCoworker(e) \/ EditCoworker(e) \/ Rollback(e) \/ AddVersion(e) \/ Point(e)
          \/ EditInTransaction(e) \/ AddInTransaction(e) \/ Fail(e)

Spec == Init /\ [][Next]_versionvars
-----------------------------------------------------------------------------
TypeOK ==
    /\ kind \in {"coworker", "transactional"} /\ row \in {"none", "active", "archived", "deleted"}
    /\ history \in Seq(Versions) /\ current \in Nat
    /\ edit \in [Editors -> {"idle", "version", "pointer"}]
    /\ seen \in [Editors -> Nat] /\ change \in [Editors -> Changes] /\ agreed \in Versions

\* No acknowledged edit is lost: however edits of one version overlap, and wherever
\* a process dies, the current version says in each field what the last acknowledged
\* edit of that field gave, and at most one version is ahead of it
\* (create_new_version).
EditsAreKept ==
    /\ Len(history) \in {current, current + 1}
    /\ current # 0 => history[current] = agreed
=============================================================================
