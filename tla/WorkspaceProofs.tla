--------------------------- MODULE WorkspaceProofs ---------------------------
(***************************************************************************)
(* How a workspace is run, for any editors, users, requests, plans,        *)
(* schedules, scans and bounds: no acknowledged edit is lost, no more is   *)
(* made than the plan ever allowed but for what is not metered, one who    *)
(* was removed stays out, and each instant of a schedule is served once.   *)
(*                                                                         *)
(* The four modules share no variable, so each has an invariant of its     *)
(* own. Version numbers are unique, so of the edits that have read one     *)
(* version only one gets the next; the room a request has been given is    *)
(* taken by no other unless the two ran together; a request keeps the      *)
(* membership row it has read, and cannot write to one that came later; a  *)
(* scan about to commit holds the locks of its rows, so what it read of    *)
(* them still holds.                                                       *)
(***************************************************************************)
EXTENDS MCWorkspace, SequenceTheorems, FiniteSetTheorems, NaturalsInduction, TLAPS

\* An object without its row has no version, and before it exists nobody edits it.
NoVersionWithoutRow ==
    /\ row \notin {"active", "archived"} => history = <<>> /\ current = 0
    /\ row = "none" => \A e \in Editors : edit[e] = "idle" /\ seen[e] = 0

\* Nobody has read a version that was not current at some time.
NothingReadAhead ==
    row # "deleted" => \A e \in Editors : edit[e] = "version" => seen[e] <= current

\* The version of an edit that has still to move the pointer is the only one ahead of
\* it, and is what the edit leaves of the agreed fields.
OneAhead ==
    row # "deleted" =>
        /\ \A e \in Editors : edit[e] = "pointer" =>
              /\ seen[e] = current /\ Len(history) = current + 1
              /\ history[current + 1] = Kept(agreed, change[e])
        /\ \A d, e \in Editors : edit[d] = "pointer" /\ edit[e] = "pointer" => d = e

\* With one transaction nothing is ever ahead.
TransactionalIsWhole ==
    kind = "transactional" => Len(history) = current /\ \A e \in Editors : edit[e] # "pointer"

\* What holds of the versions of an object.
VersionsInvariant ==
    /\ TypeOK /\ EditsAreKept
    /\ NoVersionWithoutRow /\ NothingReadAhead /\ OneAhead /\ TransactionalIsWhole
-----------------------------------------------------------------------------
\* What an edit leaves of a version is a version, and an edit that gives every field
\* leaves what it gives.
LEMMA KeptType ==
    ASSUME NEW values \in Versions, NEW with \in Changes
    PROVE  /\ Kept(values, with) \in Versions
           /\ (\A f \in Fields : with[f] # Keep) => Kept(values, with) = with
<1>1. Kept(values, with) \in Versions
  BY DEF Kept, Versions, Changes
<1>2. ASSUME \A f \in Fields : with[f] # Keep PROVE Kept(values, with) = with
  BY <1>2 DEF Kept, Changes
<1>. QED
  BY <1>1, <1>2

\* A version is what an edit may bring, and so is nothing.
LEMMA VersionsAreChanges == Versions \subseteq Changes /\ Nothing \in Changes
BY VersionsAssumption DEF Versions, Changes, Nothing

LEMMA InitVersions == Init => VersionsInvariant
<1>. SUFFICES ASSUME Init PROVE VersionsInvariant
  OBVIOUS
<1>1. \E v \in Versions : TRUE
  <2>1. PICK x \in Values : TRUE
    BY VersionsAssumption
  <2>2. [f \in Fields |-> x] \in Versions
    BY <2>1 DEF Versions
  <2>. QED
    BY <2>2
<1>2. agreed \in Versions
  BY <1>1 DEF Init
<1>3. TypeOK
  BY <1>2, VersionsAreChanges DEF Init, TypeOK
<1>. QED
  BY <1>3 DEF Init, VersionsInvariant, EditsAreKept, NoVersionWithoutRow, NothingReadAhead,
     OneAhead, TransactionalIsWhole

-----------------------------------------------------------------------------
\* An editor who leaves takes nothing from the others.
LEMMA LeaveKeeps ==
    ASSUME VersionsInvariant, NEW e \in Editors, Leave(e),
           UNCHANGED <<kind, row, history, current, agreed>>
    PROVE  VersionsInvariant'
<1>1. TypeOK'
  BY VersionsAreChanges DEF VersionsInvariant, TypeOK, Leave
<1>2. \A d \in Editors : d # e => edit'[d] = edit[d] /\ seen'[d] = seen[d] /\ change'[d] = change[d]
  BY DEF VersionsInvariant, TypeOK, Leave
<1>3. edit'[e] = "idle" /\ seen'[e] = 0
  BY DEF VersionsInvariant, TypeOK, Leave
<1>4. EditsAreKept'
  BY DEF VersionsInvariant, EditsAreKept
<1>5. NoVersionWithoutRow' /\ NothingReadAhead' /\ TransactionalIsWhole'
  BY <1>2, <1>3 DEF VersionsInvariant, NoVersionWithoutRow, NothingReadAhead, TransactionalIsWhole
<1>6. OneAhead'
  BY <1>2, <1>3 DEF VersionsInvariant, OneAhead
<1>. QED
  BY <1>1, <1>4, <1>5, <1>6 DEF VersionsInvariant

\* An editor who begins has read what is current.
LEMMA StartKeeps ==
    ASSUME VersionsInvariant, NEW e \in Editors, NEW fields \in Changes,
           row \in {"active", "archived"}, Start(e, fields)
    PROVE  VersionsInvariant'
<1>1. TypeOK'
  BY DEF VersionsInvariant, TypeOK, Start
<1>2. \A d \in Editors : d # e => edit'[d] = edit[d] /\ seen'[d] = seen[d] /\ change'[d] = change[d]
  BY DEF VersionsInvariant, TypeOK, Start
<1>3. edit'[e] = "version" /\ seen'[e] = current
  BY DEF VersionsInvariant, TypeOK, Start
<1>4. EditsAreKept'
  BY DEF VersionsInvariant, EditsAreKept, Start
<1>5. NoVersionWithoutRow' /\ TransactionalIsWhole'
  BY <1>2, <1>3 DEF VersionsInvariant, NoVersionWithoutRow, TransactionalIsWhole, Start
<1>6. NothingReadAhead'
  <2>1. current \in Nat /\ current' = current
    BY DEF VersionsInvariant, TypeOK, Start
  <2>. QED
    BY <1>2, <1>3, <2>1 DEF VersionsInvariant, NothingReadAhead, Start
<1>7. OneAhead'
  BY <1>2, <1>3 DEF VersionsInvariant, OneAhead, Start
<1>. QED
  BY <1>1, <1>4, <1>5, <1>6, <1>7 DEF VersionsInvariant

\* A version is created only when the one its editor has read is current and the last,
\* and says what the edit leaves of the agreed fields.
LEMMA NewVersionIsNext ==
    ASSUME VersionsInvariant, NEW e \in Editors, NewVersion(e)
    PROVE  /\ row # "deleted" /\ edit[e] = "version"
           /\ seen[e] = current /\ Len(history) = current
           /\ history' \in Seq(Versions) /\ Len(history') = current + 1
           /\ history'[current + 1] = Kept(agreed, change[e])
           /\ Kept(agreed, change[e]) \in Versions
           /\ current # 0 => history'[current] = history[current]
           /\ \A d \in Editors : edit[d] # "pointer"
<1>1. /\ history \in Seq(Versions) /\ current \in Nat /\ seen[e] \in Nat
      /\ change[e] \in Changes /\ agreed \in Versions
  BY DEF VersionsInvariant, TypeOK
<1>2. Len(history) \in {current, current + 1} /\ (current # 0 => history[current] = agreed)
  BY DEF VersionsInvariant, EditsAreKept
<1>3. row # "deleted" /\ edit[e] = "version" /\ seen[e] <= current
  BY DEF VersionsInvariant, NewVersion, NothingReadAhead
<1>4. seen[e] + 1 \notin 1..Len(history)
  BY <1>1 DEF NewVersion, Number
<1>5. seen[e] = current /\ Len(history) = current
  BY <1>1, <1>2, <1>3, <1>4
<1>6. Kept(agreed, change[e]) \in Versions
  BY <1>1, KeptType
<1>7. history' = Append(history, Kept(agreed, change[e]))
  <2>1. CASE current = 0
    <3>1. \A f \in Fields : change[e][f] # Keep
      BY <2>1, <1>5 DEF NewVersion, Complete
    <3>2. Kept(agreed, change[e]) = change[e]
      BY <3>1, <1>1, KeptType
    <3>. QED
      BY <2>1, <1>5, <3>2 DEF NewVersion
  <2>2. CASE current # 0
    BY <2>2, <1>5, <1>2 DEF NewVersion
  <2>. QED
    BY <2>1, <2>2
<1>8. /\ history' \in Seq(Versions) /\ Len(history') = Len(history) + 1
      /\ history'[Len(history) + 1] = Kept(agreed, change[e])
      /\ \A n \in 1..Len(history) : history'[n] = history[n]
  BY <1>1, <1>6, <1>7
<1>9. ASSUME NEW d \in Editors, edit[d] = "pointer" PROVE FALSE
  <2>1. Len(history) = current + 1
    BY <1>3, <1>9 DEF VersionsInvariant, OneAhead
  <2>. QED
    BY <2>1, <1>1, <1>5
<1>10. current # 0 => history'[current] = history[current]
  BY <1>1, <1>5, <1>8
<1>. QED
  BY <1>3, <1>5, <1>6, <1>8, <1>9, <1>10

-----------------------------------------------------------------------------
LEMMA StepVersions == VersionsInvariant /\ [Next]_versionvars => VersionsInvariant'
<1>. SUFFICES ASSUME VersionsInvariant, [Next]_versionvars PROVE VersionsInvariant'
  OBVIOUS
<1>. USE DEF VersionsInvariant
<1>1. CASE Fire
  <2>1. TypeOK'
    <3>1. CASE UNCHANGED <<history, current>>
      BY <1>1, <3>1 DEF TypeOK, Fire
    <3>2. CASE history' = <<>> /\ current' = 0
      <4>1. history' \in Seq(Versions)
        BY <3>2
      <4>. QED
        BY <1>1, <3>2, <4>1 DEF TypeOK, Fire
    <3>. QED
      BY <1>1, <3>1, <3>2 DEF Fire
  <2>2. kind = "coworker" /\ kind' = "coworker" /\ edit' = edit /\ row' # "none"
    BY <1>1 DEF Fire
  <2>3. CASE row' = "archived" /\ UNCHANGED <<history, current>>
    BY <1>1, <2>1, <2>2, <2>3 DEF Fire, EditsAreKept, NoVersionWithoutRow, NothingReadAhead,
       OneAhead, TransactionalIsWhole
  <2>4. CASE row' = "deleted" /\ history' = <<>> /\ current' = 0
    BY <1>1, <2>1, <2>2, <2>4 DEF EditsAreKept, NoVersionWithoutRow, NothingReadAhead,
       OneAhead, TransactionalIsWhole
  <2>. QED
    BY <1>1, <2>3, <2>4 DEF Fire
<1>2. CASE CreateInTransaction
  <2>1. PICK fields \in Versions : history' = <<fields>> /\ current' = 1 /\ agreed' = fields
    BY <1>2 DEF CreateInTransaction
  <2>2. history' \in Seq(Versions) /\ Len(history') = 1 /\ history'[1] = fields
    BY <2>1
  <2>3. TypeOK'
    BY <1>2, <2>1, <2>2 DEF TypeOK, CreateInTransaction
  <2>4. \A e \in Editors : edit'[e] = "idle"
    BY <1>2 DEF CreateInTransaction, NoVersionWithoutRow
  <2>5. row' = "active"
    BY <1>2 DEF CreateInTransaction
  <2>. QED
    BY <2>1, <2>2, <2>3, <2>4, <2>5 DEF EditsAreKept, NoVersionWithoutRow, NothingReadAhead,
       OneAhead, TransactionalIsWhole
<1>3. ASSUME NEW e \in Editors, CreateCoworker(e) PROVE VersionsInvariant'
  <2>1. PICK fields \in Versions : change' = [change EXCEPT ![e] = fields]
    BY <1>3 DEF CreateCoworker
  <2>2. TypeOK'
    BY <1>3, <2>1, VersionsAreChanges DEF TypeOK, CreateCoworker
  <2>3. /\ kind' = "coworker" /\ row' = "active" /\ history' = <<>> /\ current' = 0
        /\ history = <<>> /\ current = 0
    BY <1>3 DEF CreateCoworker, NoVersionWithoutRow
  <2>4. \A d \in Editors : edit'[d] # "pointer" /\ (edit'[d] = "version" => d = e)
    BY <1>3 DEF CreateCoworker, NoVersionWithoutRow, TypeOK
  <2>5. seen'[e] <= current'
    BY <1>3, <2>3 DEF CreateCoworker, NoVersionWithoutRow
  <2>. QED
    BY <2>2, <2>3, <2>4, <2>5 DEF EditsAreKept, NoVersionWithoutRow, NothingReadAhead,
       OneAhead, TransactionalIsWhole
<1>4. ASSUME NEW e \in Editors, EditCoworker(e) PROVE VersionsInvariant'
  BY <1>4, StartKeeps DEF EditCoworker
<1>5. ASSUME NEW e \in Editors, EditInTransaction(e) PROVE VersionsInvariant'
  BY <1>5, StartKeeps, VersionsAreChanges DEF EditInTransaction
<1>6. ASSUME NEW e \in Editors, Rollback(e) PROVE VersionsInvariant'
  <2>1. PICK n \in DOMAIN history : Start(e, history[n])
    BY <1>6 DEF Rollback
  <2>2. history[n] \in Changes
    BY <2>1, VersionsAreChanges DEF TypeOK
  <2>. QED
    BY <1>6, <2>1, <2>2, StartKeeps DEF Rollback
<1>7. ASSUME NEW e \in Editors, AddVersion(e) PROVE VersionsInvariant'
  <2>1. kind = "coworker" /\ NewVersion(e)
    BY <1>7 DEF AddVersion
  <2>2. /\ row # "deleted" /\ edit[e] = "version" /\ seen[e] = current
        /\ Len(history) = current
        /\ history' \in Seq(Versions) /\ Len(history') = current + 1
        /\ history'[current + 1] = Kept(agreed, change[e])
        /\ current # 0 => history'[current] = history[current]
        /\ \A d \in Editors : edit[d] # "pointer"
    BY <2>1, NewVersionIsNext
  <2>3. TypeOK'
    BY <1>7, <2>2 DEF AddVersion, TypeOK
  <2>4. \A d \in Editors :
           /\ edit'[d] = "pointer" => d = e
           /\ edit'[d] = "version" => edit[d] = "version"
    BY <1>7, <2>2 DEF AddVersion, TypeOK
  <2>5. row \in {"active", "archived"}
    BY <2>2 DEF TypeOK, NoVersionWithoutRow
  <2>6. EditsAreKept'
    BY <1>7, <2>2 DEF AddVersion, EditsAreKept
  <2>7. NoVersionWithoutRow' /\ NothingReadAhead' /\ TransactionalIsWhole'
    BY <1>7, <2>1, <2>4, <2>5 DEF AddVersion, NoVersionWithoutRow, NothingReadAhead,
       TransactionalIsWhole
  <2>8. OneAhead'
    BY <1>7, <2>2, <2>4 DEF AddVersion, OneAhead
  <2>. QED
    BY <2>3, <2>6, <2>7, <2>8
<1>8. ASSUME NEW e \in Editors, Point(e) PROVE VersionsInvariant'
  <2>1. /\ row # "deleted" /\ edit[e] = "pointer" /\ current' = seen[e] + 1
        /\ agreed' = Kept(agreed, change[e]) /\ Leave(e)
        /\ UNCHANGED <<kind, row, history>>
    BY <1>8 DEF Point, Acknowledge, Number
  <2>2. /\ seen[e] = current /\ Len(history) = current + 1
        /\ history[current + 1] = Kept(agreed, change[e])
        /\ \A d \in Editors : edit[d] = "pointer" => d = e
    BY <2>1 DEF OneAhead
  <2>3. \A d \in Editors :
           /\ edit'[d] # "pointer"
           /\ edit'[d] = "version" => edit[d] = "version" /\ seen'[d] = seen[d]
    BY <2>1, <2>2 DEF Leave, TypeOK
  <2>4. current \in Nat /\ current' \in Nat
    BY <2>1, <2>2 DEF TypeOK
  <2>5. agreed' \in Versions
    BY <2>1, KeptType DEF TypeOK
  <2>6. TypeOK'
    BY <2>1, <2>4, <2>5, VersionsAreChanges DEF TypeOK, Leave
  <2>7. EditsAreKept'
    BY <2>1, <2>2, <2>4 DEF EditsAreKept
  <2>8. row \in {"active", "archived"} /\ kind # "transactional"
    BY <2>1 DEF TypeOK, NoVersionWithoutRow, TransactionalIsWhole
  <2>9. NothingReadAhead'
    <3>1. \A d \in Editors : edit'[d] = "version" => seen'[d] \in Nat /\ seen[d] <= current
      BY <2>1, <2>3 DEF NothingReadAhead, TypeOK
    <3>. QED
      BY <2>1, <2>2, <2>3, <2>4, <3>1 DEF NothingReadAhead
  <2>. QED
    BY <2>1, <2>3, <2>6, <2>7, <2>8, <2>9 DEF NoVersionWithoutRow, OneAhead, TransactionalIsWhole
<1>9. ASSUME NEW e \in Editors, AddInTransaction(e) PROVE VersionsInvariant'
  <2>1. kind = "transactional" /\ NewVersion(e) /\ current' = seen[e] + 1
        /\ agreed' = Kept(agreed, change[e]) /\ Leave(e) /\ UNCHANGED <<kind, row>>
    BY <1>9 DEF AddInTransaction, Acknowledge, Number
  <2>2. /\ row # "deleted" /\ edit[e] = "version" /\ seen[e] = current
        /\ history' \in Seq(Versions) /\ Len(history') = current + 1
        /\ history'[current + 1] = Kept(agreed, change[e])
        /\ Kept(agreed, change[e]) \in Versions
        /\ \A d \in Editors : edit[d] # "pointer"
    BY <2>1, NewVersionIsNext
  <2>3. \A d \in Editors :
           /\ edit'[d] # "pointer"
           /\ edit'[d] = "version" => edit[d] = "version" /\ seen'[d] = seen[d]
    BY <2>1, <2>2 DEF Leave, TypeOK
  <2>4. current \in Nat /\ current' = current + 1
    BY <2>1, <2>2 DEF TypeOK
  <2>5. TypeOK'
    BY <2>1, <2>2, <2>4, VersionsAreChanges DEF TypeOK, Leave
  <2>6. row \in {"active", "archived"}
    BY <2>2 DEF TypeOK, NoVersionWithoutRow
  <2>7. NothingReadAhead'
    <3>1. \A d \in Editors : edit'[d] = "version" => seen'[d] \in Nat /\ seen[d] <= current
      BY <2>1, <2>2, <2>3 DEF NothingReadAhead, TypeOK
    <3>. QED
      BY <2>3, <2>4, <3>1 DEF NothingReadAhead
  <2>8. EditsAreKept'
    BY <2>1, <2>2, <2>4 DEF EditsAreKept
  <2>. QED
    BY <2>1, <2>2, <2>3, <2>4, <2>5, <2>6, <2>7, <2>8 DEF NoVersionWithoutRow, OneAhead,
       TransactionalIsWhole
<1>10. ASSUME NEW e \in Editors, Fail(e) PROVE VersionsInvariant'
  BY <1>10, LeaveKeeps DEF Fail
<1>11. CASE UNCHANGED versionvars
  BY <1>11 DEF versionvars, TypeOK, EditsAreKept, NoVersionWithoutRow, NothingReadAhead, OneAhead,
     TransactionalIsWhole
<1>. QED
  BY <1>1, <1>2, <1>3, <1>4, <1>5, <1>6, <1>7, <1>8, <1>9, <1>10, <1>11 DEF Next


-----------------------------------------------------------------------------
\* A change or a removal of the founder's row is under way only after the founder was
\* named: the views refuse it for an owner.
FounderIsNamed ==
    M!WorkspaceExists =>
        \A r \in Requests :
            work[r] \in {"patch", "remove", "deactivate"} /\ target[r] = founder
                => founder \in named

\* An invitation gives a role.
InvitesGive == \A r \in Requests : work[r] = "invite" => gives[r] # "none"

\* What holds of the members.
MembershipInvariant == M!TypeOK /\ M!RemovalStays /\ FounderIsNamed /\ InvitesGive
-----------------------------------------------------------------------------
LEMMA InitMembership == M!MembershipAssumption /\ M!Init => MembershipInvariant
<1>. SUFFICES ASSUME M!MembershipAssumption, M!Init PROVE MembershipInvariant
  OBVIOUS
<1>1. M!TypeOK
  <2>1. rows \in [Users -> 0..MaxRows]
    BY DEF M!Init, M!MembershipAssumption
  <2>. QED
    BY <2>1 DEF M!Init, M!TypeOK, M!MembershipAssumption
<1>2. M!RemovalStays /\ FounderIsNamed /\ InvitesGive
  BY DEF M!Init, M!RemovalStays, FounderIsNamed, InvitesGive, M!MembershipAssumption
<1>. QED
  BY <1>1, <1>2 DEF MembershipInvariant

\* A request that is over is about nobody's row.
LEMMA DoneKeeps ==
    ASSUME M!MembershipAssumption, M!TypeOK, NEW r \in Requests, M!Done(r)
    PROVE  /\ work' \in [Requests -> {"idle"} \union M!Works] /\ target' \in [Requests -> Users]
           /\ read' \in [Requests -> 0..MaxRows]
           /\ gives' \in [Requests -> Roles \union {"none", "owner"}]
           /\ \A q \in Requests : work'[q] # "idle" =>
                 work'[q] = work[q] /\ target'[q] = target[q] /\ gives'[q] = gives[q]
<1>1. 0 \in 0..MaxRows /\ founder \in Users
  BY DEF M!MembershipAssumption
<1>2. read' \in [Requests -> 0..MaxRows]
  BY <1>1 DEF M!TypeOK, M!Done
<1>. QED
  BY <1>1, <1>2 DEF M!TypeOK, M!Done, M!Works

\* A user who is let in is no longer among the removed.
LEMMA AdmitKeeps ==
    ASSUME M!MembershipAssumption, MembershipInvariant, NEW u \in Users,
           NEW given \in Roles \union {"owner"}, M!Room(u), M!Admit(u, given)
    PROVE  /\ role' \in [Users -> Roles \union {"none", "owner"}]
           /\ rows' \in [Users -> 0..MaxRows] /\ removed' \subseteq Users
           /\ \A v \in removed' : role'[v] = "none"
           /\ \A v \in Users : v # u => role'[v] = role[v]
<1>1. role' \in [Users -> Roles \union {"none", "owner"}]
  BY DEF MembershipInvariant, M!TypeOK, M!Admit
<1>2. rows' \in [Users -> 0..MaxRows]
  <2>1. CASE role[u] = "none"
    <3>1. rows[u] + 1 \in 0..MaxRows
      BY <2>1 DEF MembershipInvariant, M!TypeOK, M!Room, M!MembershipAssumption
    <3>. QED
      BY <2>1, <3>1 DEF MembershipInvariant, M!TypeOK, M!Admit
  <2>2. CASE role[u] # "none"
    BY <2>2 DEF MembershipInvariant, M!TypeOK, M!Admit
  <2>. QED
    BY <2>1, <2>2
<1>3. \A v \in Users : v # u => role'[v] = role[v]
  BY DEF MembershipInvariant, M!TypeOK, M!Admit
<1>4. removed' \subseteq Users /\ \A v \in removed' : role'[v] = "none"
  BY <1>3 DEF MembershipInvariant, M!TypeOK, M!RemovalStays, M!Admit
<1>. QED
  BY <1>1, <1>2, <1>3, <1>4

-----------------------------------------------------------------------------
LEMMA StepMembership ==
    M!MembershipAssumption /\ MembershipInvariant /\ [M!Next]_membershipvars => MembershipInvariant'
<1>. SUFFICES ASSUME M!MembershipAssumption, MembershipInvariant, [M!Next]_membershipvars
              PROVE  MembershipInvariant'
  OBVIOUS
<1>. founder \in Users
  BY DEF M!MembershipAssumption
<1>. USE DEF MembershipInvariant
<1>1. ASSUME NEW r \in Requests, M!Begin(r), M!WorkspaceExists PROVE MembershipInvariant'
  <2>1. PICK job \in M!Works, u \in Users, given \in Roles \union {"owner", "none"} :
           /\ job \in {"patch", "remove", "deactivate"} => M!Changeable(u)
           /\ given = "none" <=> job \in {"remove", "deactivate"}
           /\ work' = [work EXCEPT ![r] = job] /\ target' = [target EXCEPT ![r] = u]
           /\ read' = [read EXCEPT ![r] = rows[u]] /\ gives' = [gives EXCEPT ![r] = given]
    BY <1>1 DEF M!Begin
  <2>2. UNCHANGED <<account, role, rows, named, removed>>
    BY <1>1 DEF M!Begin
  <2>3. M!TypeOK'
    BY <2>1, <2>2 DEF M!TypeOK
  <2>4. M!RemovalStays'
    BY <2>2 DEF M!RemovalStays, M!WorkspaceExists
  <2>5. \A q \in Requests :
           q # r => work'[q] = work[q] /\ target'[q] = target[q] /\ gives'[q] = gives[q]
    BY <2>1 DEF M!TypeOK
  <2>6. work'[r] = job /\ target'[r] = u /\ gives'[r] = given
    BY <2>1 DEF M!TypeOK
  <2>7. work'[r] \in {"patch", "remove", "deactivate"} /\ target'[r] = founder => founder \in named
    BY <1>1, <2>1, <2>6 DEF M!Changeable, M!RemovalStays
  <2>8. FounderIsNamed' /\ InvitesGive'
    BY <1>1, <2>1, <2>2, <2>5, <2>6, <2>7 DEF FounderIsNamed, InvitesGive
  <2>. QED
    BY <2>3, <2>4, <2>8
<1>2. ASSUME NEW r \in Requests, M!Invite(r), M!WorkspaceExists PROVE MembershipInvariant'
  <2>. DEFINE u == target[r]
  <2>1. u \in Users /\ work[r] = "invite" /\ M!Room(u) /\ M!Admit(u, gives[r])
        /\ named' = named \union {u} /\ M!Done(r) /\ UNCHANGED account
    BY <1>2 DEF M!Invite, M!TypeOK
  <2>2. CASE gives[r] \in Roles \union {"owner"}
    <3>1. /\ role' \in [Users -> Roles \union {"none", "owner"}]
          /\ rows' \in [Users -> 0..MaxRows] /\ removed' \subseteq Users
          /\ \A v \in removed' : role'[v] = "none"
          /\ \A v \in Users : v # u => role'[v] = role[v]
      BY <2>1, <2>2, AdmitKeeps
    <3>2. M!TypeOK'
      BY <2>1, <3>1, DoneKeeps DEF M!TypeOK
    <3>3. M!RemovalStays'
      BY <1>2, <2>1, <3>1 DEF M!RemovalStays, M!WorkspaceExists
    <3>4. FounderIsNamed' /\ InvitesGive'
      BY <1>2, <2>1, DoneKeeps DEF FounderIsNamed, InvitesGive
    <3>. QED
      BY <3>2, <3>3, <3>4
  <2>3. gives[r] \in Roles \union {"owner"}
    BY <1>2, <2>1 DEF InvitesGive, M!TypeOK
  <2>. QED
    BY <2>2, <2>3
<1>3. ASSUME NEW r \in Requests, M!SaveRole(r), M!WorkspaceExists PROVE MembershipInvariant'
  <2>. DEFINE u == target[r]
  <2>1. /\ u \in Users /\ gives[r] \in Roles \union {"none", "owner"}
        /\ work[r] \in {"patch", "scimpatch"} /\ M!Done(r) /\ UNCHANGED <<account, rows, removed>>
        /\ role' = IF M!RowIsThere(r) THEN [role EXCEPT ![u] = gives[r]] ELSE role
        /\ named' = IF work[r] = "scimpatch" THEN named \union {u} ELSE named
    BY <1>3 DEF M!SaveRole, M!TypeOK
  <2>2. M!TypeOK'
    <3>1. role' \in [Users -> Roles \union {"none", "owner"}]
      BY <2>1 DEF M!TypeOK
    <3>. QED
      BY <2>1, <3>1, DoneKeeps DEF M!TypeOK
  <2>3. \A v \in removed' : role'[v] = "none"
    BY <2>1 DEF M!RemovalStays, M!RowIsThere, M!TypeOK
  <2>4. u = founder => founder \in named'
    BY <1>3, <2>1 DEF FounderIsNamed, InvitesGive
  <2>5. M!RemovalStays'
    <3>1. founder \notin named' => role'[founder] = role[founder] /\ founder \notin named
      BY <2>1, <2>4 DEF M!TypeOK
    <3>. QED
      BY <1>3, <2>3, <3>1 DEF M!RemovalStays
  <2>6. FounderIsNamed' /\ InvitesGive'
    BY <1>3, <2>1, DoneKeeps DEF FounderIsNamed, InvitesGive
  <2>. QED
    BY <2>2, <2>5, <2>6
<1>4. ASSUME NEW r \in Requests, M!Deactivate(r), M!WorkspaceExists PROVE MembershipInvariant'
  <2>1. M!TypeOK'
    BY <1>4 DEF M!Deactivate, M!TypeOK, M!Works
  <2>2. account'[founder] # "deleted"
    BY <1>4 DEF M!Deactivate, M!WorkspaceExists, M!TypeOK
  <2>3. M!RemovalStays'
    BY <1>4 DEF M!Deactivate, M!RemovalStays
  <2>4. \A q \in Requests : work'[q] = work[q] \/ q = r
    BY <1>4 DEF M!Deactivate, M!TypeOK
  <2>5. FounderIsNamed' /\ InvitesGive'
    BY <1>4, <2>4 DEF M!Deactivate, FounderIsNamed, InvitesGive
  <2>. QED
    BY <2>1, <2>3, <2>5
<1>5. ASSUME NEW r \in Requests, M!Remove(r), M!WorkspaceExists PROVE MembershipInvariant'
  <2>. DEFINE u == target[r]
  <2>1. /\ u \in Users /\ work[r] = "remove" /\ M!Done(r) /\ UNCHANGED <<account, rows, named>>
        /\ \/ role' = [role EXCEPT ![u] = "none"] /\ removed' = removed \union {u}
           \/ UNCHANGED <<role, removed>>
    BY <1>5 DEF M!Remove, M!TypeOK
  <2>2. M!TypeOK'
    BY <2>1, DoneKeeps DEF M!TypeOK
  <2>3. \A v \in removed' : role'[v] = "none"
    BY <2>1 DEF M!RemovalStays, M!TypeOK
  <2>4. M!RemovalStays'
    <3>1. founder \notin named' => role'[founder] = role[founder]
      BY <1>5, <2>1 DEF FounderIsNamed, M!TypeOK
    <3>. QED
      BY <1>5, <2>1, <2>3, <3>1 DEF M!RemovalStays
  <2>5. FounderIsNamed' /\ InvitesGive'
    BY <1>5, <2>1, DoneKeeps DEF FounderIsNamed, InvitesGive
  <2>. QED
    BY <2>2, <2>4, <2>5
<1>6. ASSUME NEW u \in Users, M!SignOn(u), M!WorkspaceExists PROVE MembershipInvariant'
  <2>1. "member" \in Roles
    BY DEF M!MembershipAssumption
  <2>2. /\ role' \in [Users -> Roles \union {"none", "owner"}]
        /\ rows' \in [Users -> 0..MaxRows] /\ removed' \subseteq Users
        /\ \A v \in removed' : role'[v] = "none"
        /\ \A v \in Users : v # u => role'[v] = role[v]
    BY <1>6, <2>1, AdmitKeeps DEF M!SignOn
  <2>3. UNCHANGED <<account, work, target, read, gives, named>> /\ role[u] = "none"
    BY <1>6 DEF M!SignOn, M!requestvars
  <2>4. M!TypeOK'
    BY <2>2, <2>3 DEF M!TypeOK
  <2>5. M!RemovalStays'
    BY <1>6, <2>2, <2>3 DEF M!RemovalStays
  <2>6. FounderIsNamed' /\ InvitesGive'
    BY <1>6, <2>3 DEF FounderIsNamed, InvitesGive
  <2>. QED
    BY <2>4, <2>5, <2>6
<1>7. ASSUME NEW u \in Users, NEW given \in Roles \union {"owner"}, M!Provision(u, given),
             M!WorkspaceExists
      PROVE  MembershipInvariant'
  <2>1. /\ role' \in [Users -> Roles \union {"none", "owner"}]
        /\ rows' \in [Users -> 0..MaxRows] /\ removed' \subseteq Users
        /\ \A v \in removed' : role'[v] = "none"
        /\ \A v \in Users : v # u => role'[v] = role[v]
    BY <1>7, AdmitKeeps DEF M!Provision
  <2>2. UNCHANGED <<account, work, target, read, gives>> /\ named' = named \union {u}
    BY <1>7 DEF M!Provision, M!requestvars
  <2>3. M!TypeOK'
    BY <2>1, <2>2 DEF M!TypeOK
  <2>4. M!RemovalStays'
    BY <1>7, <2>1, <2>2 DEF M!RemovalStays
  <2>5. FounderIsNamed' /\ InvitesGive'
    BY <1>7, <2>2 DEF FounderIsNamed, InvitesGive
  <2>. QED
    BY <2>3, <2>4, <2>5
<1>8. ASSUME NEW u \in Users, M!SetActive(u), M!WorkspaceExists PROVE MembershipInvariant'
  <2>1. PICK status \in {"active", "inactive"} : account' = [account EXCEPT ![u] = status]
    BY <1>8 DEF M!SetActive
  <2>2. UNCHANGED <<role, rows, work, target, read, gives, named, removed>>
    BY <1>8 DEF M!SetActive, M!requestvars
  <2>. QED
    BY <1>8, <2>1, <2>2 DEF M!TypeOK, M!RemovalStays, FounderIsNamed, InvitesGive
<1>9. ASSUME NEW u \in Users, M!DeleteAccount(u), M!WorkspaceExists PROVE MembershipInvariant'
  <2>. DEFINE gone == IF u = founder THEN Users ELSE {u}
  <2>1. /\ account' = [account EXCEPT ![u] = "deleted"]
        /\ role' = [v \in Users |-> IF v \in gone THEN "none" ELSE role[v]]
        /\ removed' = removed \union gone
        /\ UNCHANGED <<rows, work, target, read, gives, named>>
    BY <1>9 DEF M!DeleteAccount, M!requestvars
  <2>2. M!TypeOK'
    BY <2>1 DEF M!TypeOK
  <2>3. \A v \in removed' : role'[v] = "none"
    BY <2>1 DEF M!RemovalStays, M!TypeOK
  <2>4. u = founder => ~M!WorkspaceExists'
    BY <2>1 DEF M!WorkspaceExists, M!TypeOK
  <2>5. u # founder => role'[founder] = role[founder]
    BY <2>1
  <2>6. M!RemovalStays' /\ FounderIsNamed' /\ InvitesGive'
    BY <1>9, <2>1, <2>3, <2>4, <2>5 DEF M!RemovalStays, FounderIsNamed, InvitesGive
  <2>. QED
    BY <2>2, <2>6
<1>10. CASE UNCHANGED membershipvars
  BY <1>10 DEF membershipvars, M!TypeOK, M!RemovalStays, FounderIsNamed, InvitesGive, M!WorkspaceExists
<1>. QED
  BY <1>1, <1>2, <1>3, <1>4, <1>5, <1>6, <1>7, <1>8, <1>9, <1>10 DEF M!Next


-----------------------------------------------------------------------------
\* What a scan has locked is due, and nobody else's.
LocksOK ==
    /\ \A s \in Scans : now[s] <= clock
    /\ \A s \in Scans : scan[s] # "commit" => held[s] = {}
    /\ \A s \in Scans : \A t \in held[s] : nextRun[t] # 0 /\ nextRun[t] <= now[s]
    /\ \A s, q \in Scans : s # q => held[s] \intersect held[q] = {}

\* The instants that were served, in their order, before the next one.
InOrder ==
    \A t \in TriggerIds : \A i \in DOMAIN served[t] :
        /\ served[t][i] <= clock /\ served[t][i] < nextRun[t]
        /\ i > 1 => served[t][i - 1] < served[t][i]

\* Run `run` was committed.
Committed(run) == \E i \in DOMAIN served[run[1]] : served[run[1]][i] = run[2]

\* Every run that a scan has to hand over, has handed over or has lost was committed.
AllCommitted ==
    /\ \A s \in Scans : \A run \in unpublished[s] : Committed(run)
    /\ \A run \in started \union lost : Committed(run)

OnlyWorkflowsAreScheduled == \A t \in TriggerIds \ workflows : nextRun[t] = 0

\* What holds of the schedules.
TriggersInvariant ==
    T!TypeOK /\ OnlyWorkflowsAreScheduled /\ LocksOK /\ InOrder /\ AllCommitted
-----------------------------------------------------------------------------
\* The next instant lies after the time given (croniter.get_next).
LEMMA DivisionBound ==
    ASSUME NEW x \in Nat, NEW p \in Nat \ {0}
    PROVE  (x \div p + 1) * p \in Nat /\ (x \div p + 1) * p > x
BY Z3

\* The next instant of a schedule lies after the given time.
LEMMA NextIsAfter ==
    ASSUME T!TriggerAssumption, NEW t \in TriggerIds, NEW time \in Nat
    PROVE  T!NextAfter(t, time) \in Nat /\ T!NextAfter(t, time) > time
<1>1. Period[t] \in Nat \ {0}
  BY DEF T!TriggerAssumption
<1>. QED
  BY <1>1, DivisionBound DEF T!NextAfter

\* What a sequence holds is of its type.
LEMMA ElementType ==
    ASSUME NEW S, NEW q \in Seq(S), NEW i \in DOMAIN q
    PROVE  q[i] \in S
OBVIOUS

\* A sequence with one element more.
LEMMA Appended ==
    ASSUME NEW S, NEW q \in Seq(S), NEW x \in S
    PROVE  /\ Append(q, x) \in Seq(S) /\ Len(Append(q, x)) = Len(q) + 1
           /\ Append(q, x)[Len(q) + 1] = x
           /\ DOMAIN q = 1..Len(q) /\ DOMAIN q \subseteq DOMAIN Append(q, x)
           /\ \A i \in 1..Len(q) : Append(q, x)[i] = q[i]
OBVIOUS

LEMMA InitTriggers == T!TriggerAssumption /\ T!Init => TriggersInvariant
<1>. SUFFICES ASSUME T!TriggerAssumption, T!Init PROVE TriggersInvariant
  OBVIOUS
<1>1. T!TypeOK
  BY DEF T!Init, T!TypeOK, T!TriggerAssumption, T!Runs
<1>. QED
  BY <1>1 DEF T!Init, TriggersInvariant, OnlyWorkflowsAreScheduled, LocksOK, InOrder, AllCommitted

\* What a step that serves nothing leaves as it was.
LEMMA NothingServed ==
    ASSUME T!TriggerAssumption, TriggersInvariant, T!TypeOK', clock' >= clock, UNCHANGED served,
           \A t \in TriggerIds : nextRun'[t] = nextRun[t] \/ nextRun[t] = 0
    PROVE  InOrder' /\ \A run : Committed(run) => Committed(run)'
<1>1. ASSUME NEW t \in TriggerIds, NEW i \in DOMAIN served[t]
      PROVE  /\ served[t][i] <= clock' /\ served[t][i] < nextRun'[t]
             /\ i > 1 => served[t][i - 1] < served[t][i]
  <2>1. /\ served[t] \in Seq(1..MaxClock) /\ clock \in Nat /\ clock' \in Nat
        /\ nextRun[t] \in Nat
    BY DEF TriggersInvariant, T!TypeOK, T!TriggerAssumption
  <2>2. served[t][i] \in 1..MaxClock
    BY ONLY <2>1, i \in DOMAIN served[t], ElementOfSeq, LenProperties
  <2>3. /\ served[t][i] <= clock /\ served[t][i] < nextRun[t]
        /\ i > 1 => served[t][i - 1] < served[t][i]
    BY DEF TriggersInvariant, InOrder
  <2>4. nextRun'[t] = nextRun[t]
    BY <2>1, <2>2, <2>3
  <2>. QED
    BY <2>1, <2>2, <2>3, <2>4
<1>. QED
  BY <1>1 DEF InOrder, Committed

LEMMA StepTriggers ==
    T!TriggerAssumption /\ TriggersInvariant /\ [T!Next]_triggervars => TriggersInvariant'
<1>. SUFFICES ASSUME T!TriggerAssumption, TriggersInvariant, [T!Next]_triggervars
              PROVE  TriggersInvariant'
  OBVIOUS
<1>. USE DEF TriggersInvariant
<1>. clock \in 0..MaxClock /\ MaxClock \in Nat
  BY DEF T!TypeOK, T!TriggerAssumption
<1>1. CASE T!Tick
  <2>1. T!TypeOK' /\ clock' >= clock
    BY <1>1 DEF T!TypeOK, T!Tick, T!Runs
  <2>2. InOrder' /\ \A run : Committed(run) => Committed(run)'
    BY <1>1, <2>1, NothingServed DEF T!Tick
  <2>3. LocksOK'
    BY <1>1 DEF T!Tick, LocksOK, T!TypeOK
  <2>4. AllCommitted' /\ OnlyWorkflowsAreScheduled'
    BY <1>1, <2>2 DEF T!Tick, AllCommitted, OnlyWorkflowsAreScheduled
  <2>. QED
    BY <2>1, <2>2, <2>3, <2>4
<1>2. ASSUME NEW t \in TriggerIds, T!CreateWorkflow(t) PROVE TriggersInvariant'
  <2>1. T!TypeOK'
    BY <1>2 DEF T!TypeOK, T!CreateWorkflow, T!Runs
  <2>. QED
    BY <1>2, <2>1 DEF T!CreateWorkflow, OnlyWorkflowsAreScheduled, LocksOK, InOrder,
       AllCommitted, Committed
<1>3. ASSUME NEW t \in TriggerIds, T!CreateTrigger(t) \/ T!ScheduleWorkflow(t)
      PROVE  TriggersInvariant'
  <2>1. /\ nextRun' \in {nextRun, [nextRun EXCEPT ![t] = T!NextAfter(t, clock)]}
        /\ workflows' \subseteq TriggerIds
        /\ UNCHANGED <<clock, served, scan, now, held, unpublished, started, lost, crashes>>
    BY <1>3 DEF T!CreateTrigger, T!ScheduleWorkflow, T!TypeOK
  <2>2. T!NextAfter(t, clock) \in Nat
    BY NextIsAfter
  <2>3. nextRun' \in [TriggerIds -> Nat]
    BY <2>1, <2>2 DEF T!TypeOK
  <2>4. T!TypeOK'
    BY <2>1, <2>3 DEF T!TypeOK
  <2>5. \A u \in TriggerIds : nextRun'[u] = nextRun[u] \/ nextRun[u] = 0
    <3>1. nextRun[t] = 0 \/ nextRun' = nextRun
      BY <1>3 DEF T!CreateTrigger, T!ScheduleWorkflow, OnlyWorkflowsAreScheduled
    <3>. QED
      BY <2>1, <3>1 DEF T!TypeOK
  <2>6. InOrder' /\ \A run : Committed(run) => Committed(run)'
    BY <2>1, <2>4, <2>5, NothingServed
  <2>7. LocksOK'
    BY <2>1, <2>5 DEF LocksOK, T!TypeOK
  <2>8. AllCommitted'
    BY <2>1, <2>6 DEF AllCommitted
  <2>9. OnlyWorkflowsAreScheduled'
    <3>1. \A u \in TriggerIds \ workflows' : u \notin workflows /\ u # t
      BY <1>3 DEF T!CreateTrigger, T!ScheduleWorkflow
    <3>. QED
      BY <2>1, <3>1 DEF OnlyWorkflowsAreScheduled, T!TypeOK
  <2>. QED
    BY <2>4, <2>6, <2>7, <2>8, <2>9
<1>4. ASSUME NEW s \in Scans, T!Begin(s) PROVE TriggersInvariant'
  <2>1. T!TypeOK'
    BY <1>4 DEF T!TypeOK, T!Begin, T!Runs
  <2>2. InOrder' /\ AllCommitted' /\ OnlyWorkflowsAreScheduled'
    BY <1>4 DEF T!Begin, InOrder, AllCommitted, Committed, OnlyWorkflowsAreScheduled
  <2>3. held[s] = {}
    BY <1>4 DEF T!Begin, LocksOK
  <2>4. \A q \in Scans : q # s => now'[q] = now[q] /\ scan'[q] = scan[q]
    BY <1>4 DEF T!Begin, T!TypeOK
  <2>5. now'[s] = clock /\ scan'[s] = "lock"
    BY <1>4 DEF T!Begin, T!TypeOK
  <2>6. LocksOK'
    BY <1>4, <2>3, <2>4, <2>5 DEF T!Begin, LocksOK
  <2>. QED
    BY <2>1, <2>2, <2>6
<1>5. ASSUME NEW s \in Scans, T!Lock(s) PROVE TriggersInvariant'
  <2>1. T!TypeOK'
    BY <1>5 DEF T!TypeOK, T!Lock, T!Due, T!Runs
  <2>2. InOrder' /\ AllCommitted' /\ OnlyWorkflowsAreScheduled'
    BY <1>5 DEF T!Lock, InOrder, AllCommitted, Committed, OnlyWorkflowsAreScheduled
  <2>3. \A q \in Scans : q # s => held'[q] = held[q] /\ scan'[q] = scan[q]
    BY <1>5 DEF T!Lock, T!TypeOK
  <2>4. held'[s] = T!Due(s) /\ (scan'[s] # "commit" => T!Due(s) = {})
    BY <1>5 DEF T!Lock, T!TypeOK
  <2>5. \A q \in Scans : q # s => held[q] \intersect T!Due(s) = {}
    BY <1>5 DEF T!Lock, T!Locked
  <2>6. \A t \in T!Due(s) : nextRun[t] # 0 /\ nextRun[t] <= now[s]
    BY DEF T!Due
  <2>7. LocksOK'
    BY <1>5, <2>3, <2>4, <2>5, <2>6 DEF T!Lock, LocksOK
  <2>. QED
    BY <2>1, <2>2, <2>7
<1>6. ASSUME NEW s \in Scans, T!Commit(s) PROVE TriggersInvariant'
  <2>1. held[s] \subseteq TriggerIds /\ now[s] \in Nat /\ now[s] <= clock
    BY DEF T!TypeOK, LocksOK
  <2>2. \A t \in TriggerIds : nextRun[t] \in Nat /\ served[t] \in Seq(1..MaxClock)
    BY DEF T!TypeOK
  <2>3. \A t \in held[s] :
           /\ nextRun[t] \in 1..MaxClock /\ nextRun[t] <= clock
           /\ served'[t] = Append(served[t], nextRun[t])
           /\ nextRun'[t] = T!NextAfter(t, now[s]) /\ nextRun'[t] \in Nat
           /\ nextRun'[t] > nextRun[t]
    <3>1. ASSUME NEW t \in held[s]
          PROVE  nextRun[t] \in 1..MaxClock /\ nextRun[t] <= clock /\ nextRun[t] <= now[s]
      <4>1. nextRun[t] # 0 /\ nextRun[t] <= now[s]
        BY DEF LocksOK
      <4>2. nextRun[t] \in Nat
        BY <2>1, <2>2
      <4>. QED
        BY <4>1, <4>2, <2>1
    <3>2. ASSUME NEW t \in held[s]
          PROVE  /\ served'[t] = Append(served[t], nextRun[t])
                 /\ nextRun'[t] = T!NextAfter(t, now[s])
      BY <1>6, <2>1 DEF T!Commit
    <3>3. ASSUME NEW t \in held[s]
          PROVE  T!NextAfter(t, now[s]) \in Nat /\ T!NextAfter(t, now[s]) > now[s]
      BY <2>1, NextIsAfter
    <3>4. ASSUME NEW t \in held[s] PROVE nextRun'[t] > nextRun[t]
      BY <2>1, <3>1, <3>2, <3>3
    <3>. QED
      BY <3>1, <3>2, <3>3, <3>4
  <2>4. \A t \in TriggerIds \ held[s] : nextRun'[t] = nextRun[t] /\ served'[t] = served[t]
    BY <1>6 DEF T!Commit
  <2>5. ASSUME NEW t \in held[s]
        PROVE  /\ served'[t] \in Seq(1..MaxClock)
               /\ Len(served'[t]) = Len(served[t]) + 1
               /\ served'[t][Len(served[t]) + 1] = nextRun[t]
               /\ DOMAIN served[t] \subseteq DOMAIN served'[t]
               /\ \A i \in 1..Len(served[t]) : served'[t][i] = served[t][i]
    <3>1. served[t] \in Seq(1..MaxClock) /\ nextRun[t] \in 1..MaxClock
      BY <2>1, <2>2, <2>3
    <3>2. served'[t] = Append(served[t], nextRun[t])
      BY <2>3
    <3>. QED
      BY <3>1, <3>2, Appended
  <2>6. served' \in [TriggerIds -> Seq(1..MaxClock)]
    <3>1. served' = [t \in TriggerIds |-> served'[t]]
      BY <1>6 DEF T!Commit
    <3>2. \A t \in TriggerIds : served'[t] \in Seq(1..MaxClock)
      BY <2>2, <2>4, <2>5
    <3>. QED
      BY <3>1, <3>2
  <2>7. nextRun' \in [TriggerIds -> Nat]
    <3>1. nextRun' = [t \in TriggerIds |-> nextRun'[t]]
      BY <1>6 DEF T!Commit
    <3>2. \A t \in TriggerIds : nextRun'[t] \in Nat
      BY <2>2, <2>3, <2>4
    <3>. QED
      BY <3>1, <3>2
  <2>8. {<<t, nextRun[t]>> : t \in held[s]} \subseteq T!Runs
    BY <2>1, <2>3 DEF T!Runs
  <2>9. T!TypeOK'
    <3>1. unpublished' \in [Scans -> SUBSET T!Runs]
      BY <1>6, <2>8 DEF T!Commit, T!TypeOK
    <3>. QED
      BY <1>6, <2>6, <2>7, <3>1 DEF T!Commit, T!TypeOK
  <2>10. OnlyWorkflowsAreScheduled'
    <3>1. \A t \in held[s] : t \in workflows
      BY <2>1 DEF OnlyWorkflowsAreScheduled, LocksOK
    <3>. QED
      BY <1>6, <2>4, <3>1 DEF T!Commit, OnlyWorkflowsAreScheduled
  <2>11. LocksOK'
    <3>1. \A q \in Scans : q # s => held'[q] = held[q] /\ scan'[q] = scan[q]
      BY <1>6 DEF T!Commit, T!TypeOK
    <3>2. held'[s] = {} /\ UNCHANGED <<clock, now>>
      BY <1>6 DEF T!Commit, T!TypeOK
    <3>3. \A q \in Scans \ {s} : \A t \in held[q] : nextRun'[t] = nextRun[t]
      BY <2>4 DEF LocksOK, T!TypeOK
    <3>. QED
      BY <3>1, <3>2, <3>3 DEF LocksOK
  <2>12. ASSUME NEW t \in TriggerIds, NEW i \in DOMAIN served'[t]
         PROVE  /\ served'[t][i] <= clock' /\ served'[t][i] < nextRun'[t]
                /\ i > 1 => served'[t][i - 1] < served'[t][i]
    <3>1. clock' = clock
      BY <1>6 DEF T!Commit
    <3>2. CASE t \notin held[s]
      BY <2>4, <3>1, <3>2 DEF InOrder
    <3>3. CASE t \in held[s]
      <4>1. DOMAIN served[t] = 1..Len(served[t]) /\ Len(served[t]) \in Nat
        BY <2>2
      <4>2. i \in 1..(Len(served[t]) + 1)
        BY <2>5, <3>3
      <4>3. nextRun[t] \in Nat /\ nextRun'[t] \in Nat /\ nextRun[t] < nextRun'[t]
            /\ nextRun[t] <= clock
        BY <2>3, <3>3
      <4>4. ASSUME NEW j \in 1..Len(served[t])
            PROVE  /\ served[t][j] \in Nat /\ served[t][j] <= clock
                   /\ served[t][j] < nextRun[t]
                   /\ j > 1 => served[t][j - 1] < served[t][j]
        <5>1. j \in DOMAIN served[t] /\ served[t] \in Seq(1..MaxClock)
          BY <2>2, <4>1
        <5>2. served[t][j] \in 1..MaxClock
          BY ONLY <5>1, ElementType
        <5>3. served[t][j] \in Nat
          BY ONLY <5>2
        <5>. QED
          BY <5>1, <5>3 DEF InOrder
      <4>5. CASE i \in 1..Len(served[t])
        <5>1. served'[t][i] = served[t][i]
          BY <2>5, <3>3, <4>5
        <5>2. i > 1 => served'[t][i - 1] = served[t][i - 1]
          <6>1. i > 1 => i - 1 \in 1..Len(served[t])
            BY <4>1, <4>5
          <6>. QED
            BY <2>5, <3>3, <6>1
        <5>. QED
          BY <3>1, <4>3, <4>4, <4>5, <5>1, <5>2
      <4>6. CASE i = Len(served[t]) + 1
        <5>1. served'[t][i] = nextRun[t]
          BY <2>5, <3>3, <4>6
        <5>2. i > 1 => served'[t][i - 1] < nextRun[t]
          <6>1. i > 1 => i - 1 \in 1..Len(served[t])
            BY <4>1, <4>6
          <6>. QED
            BY <2>5, <3>3, <4>4, <6>1
        <5>. QED
          BY <3>1, <4>3, <5>1, <5>2
      <4>. QED
        BY <4>1, <4>2, <4>5, <4>6
    <3>. QED
      BY <3>2, <3>3
  <2>13. ASSUME NEW run \in T!Runs, Committed(run) PROVE Committed(run)'
    <3>1. PICK i \in DOMAIN served[run[1]] : served[run[1]][i] = run[2]
      BY <2>13 DEF Committed
    <3>2. run[1] \in TriggerIds
      BY DEF T!Runs
    <3>3. i \in DOMAIN served'[run[1]] /\ served'[run[1]][i] = served[run[1]][i]
      <4>1. CASE run[1] \notin held[s]
        BY <2>4, <3>1, <3>2, <4>1
      <4>2. CASE run[1] \in held[s]
        <5>1. DOMAIN served[run[1]] = 1..Len(served[run[1]])
          BY <2>2, <3>2, LenProperties
        <5>. QED
          BY <2>5, <3>1, <4>2, <5>1
      <4>. QED
        BY <4>1, <4>2
    <3>. QED
      BY <3>1, <3>3 DEF Committed
  <2>14. AllCommitted'
    <3>1. ASSUME NEW run \in unpublished'[s] PROVE Committed(run)'
      <4>1. PICK t \in held[s] : run = <<t, nextRun[t]>>
        BY <1>6, <3>1 DEF T!Commit, T!TypeOK
      <4>2. Len(served[t]) + 1 \in DOMAIN served'[t]
        BY <2>1, <2>2, <2>5
      <4>. QED
        BY <4>1, <4>2, <2>5 DEF Committed
    <3>2. \A q \in Scans : q # s => unpublished'[q] = unpublished[q]
      BY <1>6 DEF T!Commit, T!TypeOK
    <3>3. \A q \in Scans : q # s => \A run \in unpublished'[q] : Committed(run)'
      BY <3>2, <2>13 DEF AllCommitted, T!TypeOK
    <3>4. \A run \in started' \union lost' : Committed(run)'
      BY <1>6, <2>13 DEF AllCommitted, T!TypeOK, T!Commit
    <3>. QED
      BY <3>1, <3>3, <3>4 DEF AllCommitted
  <2>. QED
    BY <2>9, <2>10, <2>11, <2>12, <2>14 DEF InOrder
<1>7. ASSUME NEW s \in Scans, T!Publish(s) PROVE TriggersInvariant'
  <2>1. PICK run \in unpublished[s] :
           /\ started' = started \union {run}
           /\ unpublished' = [unpublished EXCEPT ![s] = @ \ {run}]
    BY <1>7 DEF T!Publish
  <2>2. scan'[s] \in {"idle", "publish"} /\ \A q \in Scans : q # s => scan'[q] = scan[q]
    BY <1>7 DEF T!Publish, T!TypeOK
  <2>3. scan' \in [Scans -> {"idle", "lock", "commit", "publish"}]
    BY <1>7 DEF T!Publish, T!TypeOK
  <2>4. T!TypeOK'
    BY <1>7, <2>1, <2>3 DEF T!Publish, T!TypeOK
  <2>5. held[s] = {} /\ UNCHANGED <<clock, workflows, nextRun, served, now, held, lost>>
    BY <1>7 DEF T!Publish, LocksOK
  <2>6. LocksOK'
    BY <2>2, <2>5 DEF LocksOK
  <2>7. AllCommitted'
    <3>1. AllCommitted /\ unpublished \in [Scans -> SUBSET T!Runs]
      BY DEF T!TypeOK
    <3>2. \A r : Committed(r)' <=> Committed(r)
      BY ONLY <2>5 DEF Committed
    <3>3. \A q \in Scans : unpublished'[q] \subseteq unpublished[q]
      BY ONLY <2>1, <3>1
    <3>4. started' \union lost' \subseteq started \union lost \union unpublished[s]
      BY ONLY <2>1, <2>5
    <3>. QED
      BY ONLY <3>1, <3>2, <3>3, <3>4, s \in Scans DEF AllCommitted
  <2>. QED
    BY <2>4, <2>5, <2>6, <2>7 DEF InOrder, OnlyWorkflowsAreScheduled
<1>8. ASSUME NEW s \in Scans, T!Crash(s) PROVE TriggersInvariant'
  <2>1. T!TypeOK'
    BY <1>8 DEF T!Crash, T!TypeOK, T!TriggerAssumption
  <2>2. InOrder' /\ OnlyWorkflowsAreScheduled'
    BY <1>8 DEF T!Crash, InOrder, OnlyWorkflowsAreScheduled
  <2>3. LocksOK'
    BY <1>8 DEF T!Crash, LocksOK, T!TypeOK
  <2>4. AllCommitted'
    BY <1>8 DEF T!Crash, AllCommitted, Committed, T!TypeOK
  <2>. QED
    BY <2>1, <2>2, <2>3, <2>4
<1>9. CASE UNCHANGED triggervars
  <2>1. T!TypeOK'
    BY <1>9 DEF triggervars, T!TypeOK, T!Runs
  <2>. QED
    BY <1>9, <2>1 DEF triggervars, LocksOK, InOrder, AllCommitted, Committed,
       OnlyWorkflowsAreScheduled
<1>. QED
  BY <1>1, <1>2, <1>3, <1>4, <1>5, <1>6, <1>7, <1>8, <1>9 DEF T!Next, T!ScanStep

-----------------------------------------------------------------------------
\* The highest limit on k among some tiers, 0 without one.
HighestOf(k, tiers) ==
    CHOOSE n \in {t[k] : t \in tiers} \union {0} : \A t \in tiers : t[k] <= n

\* n units of k are within the highest limit and what is not metered.
Within(k, n, tiers, extra) ==
    (\E t \in tiers : t[k] = Unlimited) \/ n <= HighestOf(k, tiers) + extra

\* The types of the plan's variables; a request that is over has nothing created.
LimitsType ==
    /\ active \subseteq Plans /\ default \in Plans \union {L!None}
    /\ plan \in Plans \union {L!None} /\ limits \in [Plans -> Tiers] /\ inForce \subseteq Tiers
    /\ units \in [L!Kinds -> Nat] /\ spare \in [L!Kinds -> Nat] /\ unchecked \in [L!Kinds -> Nat]
    /\ request \in [Requests -> {"new", "check", "create", "over"}]
    /\ healed \in [Requests -> Plans \union {L!None}] /\ alone \in [Requests -> BOOLEAN]
    /\ made \in [Requests -> [L!Kinds -> Nat]] /\ want \in [Requests -> Seq(L!Kinds)]
    /\ \A r \in Requests :
          IF r \in L!Running THEN want[r] # <<>> ELSE made[r] = L!Zero

UnitsFit == \A k \in L!Kinds : Within(k, units[k], inForce, unchecked[k] + spare[k])

\* A request that no other has run with holds the room it has been given: for what its
\* transaction has created, and for the unit it was let create.
AloneFits ==
    \A r \in L!Running : alone[r] =>
        /\ L!Running = {r}
        /\ \A k \in L!Kinds :
              Within(k, units[k] + made[r][k], inForce, unchecked[k] + spare[k])
        /\ request[r] = "create" =>
              LET k == Head(want[r])
              IN  Within(k, units[k] + made[r][k] + 1, inForce, unchecked[k] + spare[k])

LimitsInvariant == LimitsType /\ UnitsFit /\ AloneFits
-----------------------------------------------------------------------------
\* Of some numbers there is a least one.
LEMMA LeastNumber ==
    ASSUME NEW S \in SUBSET Nat, S # {}
    PROVE  \E m \in S : \A n \in S : m <= n
<1> DEFINE Less == {pair \in Nat \X Nat : pair[1] < pair[2]}
<1>1. IsWellFoundedOn(Less, Nat)
  BY NatLessThanWellFounded DEF OpToRel
<1> HIDE DEF Less
<1>2. PICK m \in S : \A n \in S : <<n, m>> \notin Less
  BY <1>1, WFMin
<1>3. \A n \in S : m <= n
  <2>1. \A n \in S : <<n, m>> \in Nat \X Nat /\ <<n, m>>[1] = n /\ <<n, m>>[2] = m
    BY <1>2
  <2>2. \A n \in S : ~(<<n, m>>[1] < <<n, m>>[2])
    BY <1>2, <2>1, Zenon DEF Less
  <2> QED
    BY <2>1, <2>2
<1> QED
  BY <1>3

\* Among any tiers there is a highest limit: it is one of theirs, or 0.
LEMMA HighestExists ==
    ASSUME NEW tiers \in SUBSET Tiers, NEW k \in L!Kinds
    PROVE  /\ HighestOf(k, tiers) \in {t[k] : t \in tiers} \union {0}
           /\ HighestOf(k, tiers) \in Nat
           /\ \A t \in tiers : t[k] \in Nat /\ t[k] <= HighestOf(k, tiers)
<1> DEFINE Limits == {t[k] : t \in tiers} \union {0}
           Gaps == {Unlimited - n : n \in Limits}
<1>1. Unlimited \in Nat /\ Tiers \subseteq [L!Kinds -> 0..Unlimited]
  BY WorkspaceAssumption DEF L!LimitsAssumption
<1>2. Limits \subseteq 0..Unlimited
  BY <1>1
<1>3. PICK g \in Gaps : \A h \in Gaps : g <= h
  <2>1. Gaps \subseteq Nat /\ Gaps # {}
    BY <1>1, <1>2
  <2> HIDE DEF Gaps
  <2> QED
    BY <2>1, LeastNumber
<1>4. PICK m \in Limits : g = Unlimited - m
  BY <1>3
<1>5. \A n \in Limits : n <= m
  <2> SUFFICES ASSUME NEW n \in Limits PROVE n <= m
    OBVIOUS
  <2>1. Unlimited - m <= Unlimited - n
    BY <1>3, <1>4
  <2>2. n \in Nat /\ m \in Nat
    BY <1>1, <1>2, <1>4
  <2> HIDE DEF Limits
  <2> QED
    BY <1>1, <2>1, <2>2
<1>6. \A t \in tiers : t[k] \in Nat /\ t[k] <= m
  BY <1>1, <1>2, <1>5
<1>7. HighestOf(k, tiers) \in Limits /\ \A t \in tiers : t[k] <= HighestOf(k, tiers)
  BY <1>4, <1>6 DEF HighestOf
<1> QED
  BY <1>2, <1>6, <1>7

\* Room that there was is still there: limits that were in force count, and units that
\* are not metered bring their own.
LEMMA StillWithin ==
    ASSUME NEW k \in L!Kinds, NEW n \in Nat, NEW m \in Nat, NEW e \in Nat, NEW f \in Nat,
           NEW before \in SUBSET Tiers, NEW after \in SUBSET Tiers, before \subseteq after,
           Within(k, n, before, e), m + e <= n + f
    PROVE  Within(k, m, after, f)
<1>1. HighestOf(k, before) \in Nat /\ HighestOf(k, before) \in {t[k] : t \in before} \union {0}
  BY HighestExists
<1>2. HighestOf(k, after) \in Nat /\ \A t \in after : t[k] <= HighestOf(k, after)
  BY HighestExists
<1>3. HighestOf(k, before) <= HighestOf(k, after)
  BY <1>1, <1>2
<1> QED
  BY <1>1, <1>2, <1>3 DEF Within

\* A unit that a plan in force has room for.
LEMMA RoomIsWithin ==
    ASSUME NEW k \in L!Kinds, NEW n \in Nat, NEW e \in Nat, NEW tiers \in SUBSET Tiers,
           NEW tier \in tiers, tier[k] = Unlimited \/ n < tier[k]
    PROVE  Within(k, n + 1, tiers, e)
<1>1. HighestOf(k, tiers) \in Nat /\ tier[k] \in Nat /\ tier[k] <= HighestOf(k, tiers)
  BY HighestExists
<1> QED
  BY <1>1 DEF Within

\* Nothing is within every limit.
LEMMA ZeroWithin ==
    ASSUME NEW k \in L!Kinds, NEW tiers \in SUBSET Tiers
    PROVE  Within(k, 0, tiers, 0)
BY HighestExists DEF Within

LEMMA InitLimits == L!Init => LimitsInvariant
<1> SUFFICES ASSUME L!Init PROVE LimitsInvariant
  OBVIOUS
<1>1. L!Zero \in [L!Kinds -> Nat] /\ \A k \in L!Kinds : L!Zero[k] = 0
  BY DEF L!Zero
<1>2. inForce \subseteq Tiers
  BY DEF L!Init
<1>3. L!Running = {}
  BY DEF L!Init, L!Running
<1>4. LimitsType
  <2>1. want \in [Requests -> Seq(L!Kinds)]
    BY DEF L!Init
  <2>2. made \in [Requests -> [L!Kinds -> Nat]] /\ \A r \in Requests : made[r] = L!Zero
    BY <1>1 DEF L!Init
  <2> QED
    BY <1>1, <1>2, <1>3, <2>1, <2>2 DEF L!Init, LimitsType
<1>5. UnitsFit
  <2>1. \A k \in L!Kinds : units[k] = 0 /\ unchecked[k] + spare[k] = 0
    BY <1>1 DEF L!Init
  <2> QED
    BY <1>2, <2>1, ZeroWithin DEF UnitsFit
<1> QED
  BY <1>3, <1>4, <1>5 DEF LimitsInvariant, AloneFits

\* What happens around the requests takes no room from them: units go, or come with
\* what is not metered.
LEMMA AroundKeeps ==
    ASSUME LimitsInvariant, LimitsType', UNCHANGED <<request, want, made, alone, spare>>,
           inForce \subseteq inForce',
           \A k \in L!Kinds : units'[k] + unchecked[k] <= units[k] + unchecked'[k]
    PROVE  LimitsInvariant'
<1>1. /\ inForce \in SUBSET Tiers /\ inForce' \in SUBSET Tiers
      /\ \A k \in L!Kinds : /\ {units[k], units'[k], spare[k], unchecked[k], unchecked'[k]} \subseteq Nat
                            /\ spare'[k] = spare[k]
      /\ \A r \in Requests, k \in L!Kinds : made[r][k] \in Nat
      /\ \A r \in L!Running : r \in Requests /\ Head(want[r]) \in L!Kinds
      /\ L!Running' = L!Running
  BY DEF LimitsInvariant, LimitsType, L!Running
<1>2. ASSUME NEW k \in L!Kinds, NEW n \in Nat,
             Within(k, units[k] + n, inForce, unchecked[k] + spare[k])
      PROVE  Within(k, units'[k] + n, inForce', unchecked'[k] + spare'[k])
  <2>1. /\ units[k] + n \in Nat /\ units'[k] + n \in Nat
        /\ unchecked[k] + spare[k] \in Nat /\ unchecked'[k] + spare[k] \in Nat
        /\ units'[k] + n + (unchecked[k] + spare[k]) <= units[k] + n + (unchecked'[k] + spare[k])
    BY <1>1, <1>2
  <2>2. PICK x, y, e, f : /\ x = units[k] + n /\ y = units'[k] + n
                          /\ e = unchecked[k] + spare[k] /\ f = unchecked'[k] + spare[k]
    OBVIOUS
  <2>3. x \in Nat /\ y \in Nat /\ e \in Nat /\ f \in Nat /\ y + e <= x + f
    BY <2>1, <2>2
  <2>4. Within(k, x, inForce, e)
    BY <1>2, <2>2
  <2>5. Within(k, y, inForce', f)
    BY <1>1, <2>3, <2>4, StillWithin
  <2> QED
    BY <1>1, <2>2, <2>5
<1>3. UnitsFit'
  <2>1. \A k \in L!Kinds : units[k] + 0 = units[k] /\ units'[k] + 0 = units'[k]
    BY <1>1
  <2>2. \A k \in L!Kinds : Within(k, units[k], inForce, unchecked[k] + spare[k])
    BY DEF LimitsInvariant, UnitsFit
  <2>3. \A k \in L!Kinds : Within(k, units'[k], inForce', unchecked'[k] + spare'[k])
    BY <1>2, <2>1, <2>2
  <2> QED
    BY <2>3 DEF UnitsFit
<1>4. AloneFits'
  <2> SUFFICES ASSUME NEW r \in L!Running, alone[r]
               PROVE  /\ L!Running = {r}
                      /\ \A k \in L!Kinds :
                            Within(k, units'[k] + made[r][k], inForce', unchecked'[k] + spare'[k])
                      /\ request[r] = "create" =>
                            LET k == Head(want[r])
                            IN  Within(k, units'[k] + made[r][k] + 1, inForce', unchecked'[k] + spare'[k])
    BY <1>1 DEF AloneFits
  <2>1. /\ L!Running = {r}
        /\ \A k \in L!Kinds : Within(k, units[k] + made[r][k], inForce, unchecked[k] + spare[k])
        /\ request[r] = "create" =>
              LET k == Head(want[r])
              IN  Within(k, units[k] + made[r][k] + 1, inForce, unchecked[k] + spare[k])
    BY DEF LimitsInvariant, AloneFits
  <2>2. \A k \in L!Kinds : /\ made[r][k] \in Nat /\ made[r][k] + 1 \in Nat
                           /\ units[k] + made[r][k] + 1 = units[k] + (made[r][k] + 1)
                           /\ units'[k] + made[r][k] + 1 = units'[k] + (made[r][k] + 1)
    BY <1>1
  <2> QED
    BY <1>1, <1>2, <2>1, <2>2
<1> QED
  BY <1>3, <1>4 DEF LimitsInvariant

\* A running request has nobody beside it that has run alone.
LEMMA NobodyAlone ==
    ASSUME AloneFits, NEW r \in L!Running, NEW q \in L!Running, alone[q]
    PROVE  q = r
BY DEF AloneFits

LEMMA LimitsBeginStep ==
    ASSUME LimitsInvariant, NEW r \in Requests, L!Begin(r) PROVE LimitsInvariant'
<1>1. PICK batch \in Batches : want' = [want EXCEPT ![r] = batch]
  BY DEF L!Begin
<1>2. batch \in Seq(L!Kinds) /\ batch # <<>>
  BY <1>1, WorkspaceAssumption DEF L!LimitsAssumption
<1>3. /\ UNCHANGED <<active, default, limits, plan, units, made, healed, inForce, spare, unchecked>>
      /\ request' = [request EXCEPT ![r] = "check"] /\ request[r] = "new"
      /\ alone' = [q \in Requests |-> alone[q] /\ (q \in L!Running \union {r} => L!Running = {})]
  BY DEF L!Begin, L!staffvars
<1>4. L!Running' = L!Running \union {r} /\ r \notin L!Running
  BY <1>3 DEF LimitsInvariant, LimitsType, L!Running
<1>5. LimitsType'
  BY <1>1, <1>2, <1>3, <1>4 DEF LimitsInvariant, LimitsType
<1>6. UnitsFit'
  BY <1>3 DEF LimitsInvariant, UnitsFit
<1>7. AloneFits'
  <2> SUFFICES ASSUME NEW q \in L!Running', alone'[q]
               PROVE  /\ L!Running' = {q} /\ request'[q] # "create"
                      /\ \A k \in L!Kinds : Within(k, units[k] + made[q][k], inForce, unchecked[k] + spare[k])
    BY <1>3 DEF AloneFits
  <2>1. q = r /\ L!Running = {}
    <3>1. q \in Requests /\ q \in L!Running \union {r}
      BY <1>4 DEF L!Running
    <3> QED
      BY <1>3, <3>1
  <2>2. \A k \in L!Kinds : units[k] + made[r][k] = units[k]
    BY <1>4 DEF LimitsInvariant, LimitsType, L!Zero
  <2> QED
    BY <1>3, <1>4, <2>1, <2>2 DEF LimitsInvariant, UnitsFit, LimitsType
<1> QED
  BY <1>5, <1>6, <1>7 DEF LimitsInvariant

\* A request that is refused, fails or has committed has left.
LEMMA RefuseLeaves ==
    ASSUME LimitsType, NEW r \in L!Running, L!Refuse(r)
    PROVE  /\ L!Running' = L!Running \ {r}
           /\ request' \in [Requests -> {"new", "check", "create", "over"}]
           /\ made' \in [Requests -> [L!Kinds -> Nat]] /\ made'[r] = L!Zero
           /\ healed' \in [Requests -> Plans \union {L!None}]
           /\ \A q \in Requests \ {r} : made'[q] = made[q]
<1>1. L!Zero \in [L!Kinds -> Nat] /\ r \in Requests
  BY DEF L!Zero, L!Running
<1> QED
  BY <1>1 DEF LimitsType, L!Refuse, L!Running

LEMMA LimitsCheckStep ==
    ASSUME LimitsInvariant, NEW r \in Requests, L!Check(r) PROVE LimitsInvariant'
<1>1. /\ UNCHANGED <<active, default, limits, units, want, alone, spare, unchecked>>
      /\ r \in L!Running /\ request[r] = "check"
  BY DEF L!Check, L!Running, L!staffvars
<1>2. L!PlanOf(r) \subseteq Plans
  BY DEF LimitsInvariant, LimitsType, L!PlanOf, L!DefaultPlans
<1>3. Head(want[r]) \in L!Kinds /\ want[r] # <<>>
  BY <1>1 DEF LimitsInvariant, LimitsType
<1>4. /\ inForce \subseteq inForce' /\ inForce' \subseteq Tiers /\ plan' \in Plans \union {L!None}
  BY <1>2 DEF LimitsInvariant, LimitsType, L!Check
<1>5. UnitsFit'
  <2>1. \A k \in L!Kinds : /\ units[k] \in Nat /\ unchecked[k] + spare[k] \in Nat
                           /\ Within(k, units[k], inForce, unchecked[k] + spare[k])
    BY DEF LimitsInvariant, LimitsType, UnitsFit
  <2>2. \A k \in L!Kinds : Within(k, units[k], inForce', unchecked[k] + spare[k])
    BY <1>4, <2>1, StillWithin
  <2> QED
    BY <1>1, <2>2 DEF UnitsFit
<1>6. CASE L!Refuse(r)
  <2>1. LimitsType'
    BY <1>1, <1>4, <1>6, RefuseLeaves DEF LimitsInvariant, LimitsType
  <2>2. AloneFits'
    BY <1>1, <1>6, RefuseLeaves, NobodyAlone DEF LimitsInvariant, AloneFits
  <2> QED
    BY <1>5, <2>1, <2>2 DEF LimitsInvariant
<1>7. CASE ~L!Refuse(r)
  <2>1. PICK p \in Plans :
           /\ inForce' = inForce \union {limits[p]}
           /\ L!Room(r, Head(want[r]), limits[p][Head(want[r])])
           /\ request' = [request EXCEPT ![r] = "create"] /\ UNCHANGED made
           /\ healed' = healed \/ healed' = [healed EXCEPT ![r] = p]
    BY <1>2, <1>7 DEF L!Check
  <2>2. L!Running' = L!Running
    BY <1>1, <2>1 DEF LimitsInvariant, LimitsType, L!Running
  <2>3. LimitsType'
    <3>1. healed' \in [Requests -> Plans \union {L!None}]
      BY <2>1 DEF LimitsInvariant, LimitsType
    <3>2. request' \in [Requests -> {"new", "check", "create", "over"}]
      BY <2>1 DEF LimitsInvariant, LimitsType
    <3>3. \A q \in Requests : IF q \in L!Running' THEN want'[q] # <<>> ELSE made'[q] = L!Zero
      BY <1>1, <2>1, <2>2 DEF LimitsInvariant, LimitsType
    <3> QED
      BY ONLY LimitsInvariant, <1>1, <1>4, <2>1, <3>1, <3>2, <3>3 DEF LimitsInvariant, LimitsType
  <2>4. AloneFits'
    <3> SUFFICES ASSUME NEW q \in L!Running, alone[q]
                 PROVE  /\ L!Running = {q}
                        /\ \A k \in L!Kinds :
                              Within(k, units[k] + made[q][k], inForce', unchecked[k] + spare[k])
                        /\ LET k == Head(want[q])
                           IN  Within(k, units[k] + made[q][k] + 1, inForce', unchecked[k] + spare[k])
      BY <1>1, <2>1, <2>2 DEF AloneFits
    <3>1. q = r
      BY <1>1, NobodyAlone DEF LimitsInvariant
    <3>2. \A k \in L!Kinds : /\ units[k] + made[r][k] \in Nat /\ unchecked[k] + spare[k] \in Nat
                             /\ Within(k, units[k] + made[r][k], inForce, unchecked[k] + spare[k])
      <4>1. /\ units \in [L!Kinds -> Nat] /\ made[r] \in [L!Kinds -> Nat]
            /\ unchecked \in [L!Kinds -> Nat] /\ spare \in [L!Kinds -> Nat]
        BY DEF LimitsInvariant, LimitsType
      <4>2. \A k \in L!Kinds : Within(k, units[k] + made[r][k], inForce, unchecked[k] + spare[k])
        BY <3>1 DEF LimitsInvariant, AloneFits
      <4> QED
        BY <4>1, <4>2
    <3>3. \A k \in L!Kinds : Within(k, units[k] + made[r][k], inForce', unchecked[k] + spare[k])
      BY <1>4, <3>2, StillWithin
    <3>4. \A k \in L!Kinds : k = Head(want[r]) =>
             Within(k, units[k] + made[r][k] + 1, inForce', unchecked[k] + spare[k])
      BY <1>4, <2>1, <3>2, RoomIsWithin DEF L!Room
    <3> QED
      BY <1>3, <3>1, <3>3, <3>4 DEF LimitsInvariant, AloneFits
  <2> QED
    BY <1>5, <2>3, <2>4 DEF LimitsInvariant
<1> QED
  BY <1>6, <1>7

LEMMA LimitsCreateStep ==
    ASSUME LimitsInvariant, NEW r \in Requests, L!Create(r) PROVE LimitsInvariant'
<1>1. /\ UNCHANGED <<active, default, limits, alone, inForce, unchecked>>
      /\ r \in L!Running /\ request[r] = "create" /\ want' = [want EXCEPT ![r] = Tail(@)]
  BY DEF L!Create, L!Running, L!staffvars
<1>2. want[r] \in Seq(L!Kinds) /\ want[r] # <<>> /\ Head(want[r]) \in L!Kinds
  BY <1>1 DEF LimitsInvariant, LimitsType
<1>3. PICK all : all = L!Plus(made[r], L!One(Head(want[r])))
  OBVIOUS
<1>4. /\ all \in [L!Kinds -> Nat]
      /\ all[Head(want[r])] = made[r][Head(want[r])] + 1
        /\ \A k \in L!Kinds \ {Head(want[r])} : all[k] = made[r][k]
  <2>1. made[r] \in [L!Kinds -> Nat]
    BY DEF LimitsInvariant, LimitsType
  <2>2. L!One(Head(want[r])) = [k \in L!Kinds |-> IF k = Head(want[r]) THEN 1 ELSE 0]
    BY ONLY <1>2 DEF L!One, L!Zero
  <2>3. all = [k \in L!Kinds |-> made[r][k] + (IF k = Head(want[r]) THEN 1 ELSE 0)]
    BY ONLY <1>3, <2>2 DEF L!Plus
  <2> QED
    BY ONLY <1>2, <2>1, <2>3
<1>5. /\ \A k \in L!Kinds : {units[k], made[r][k], all[k], unchecked[k], spare[k]} \subseteq Nat
      /\ inForce \in SUBSET Tiers
  BY <1>4 DEF LimitsInvariant, LimitsType
\* The room for what is created was given while nothing else could take it.
<1>6. ASSUME alone[r], NEW k \in L!Kinds
      PROVE  Within(k, units[k] + all[k], inForce, unchecked[k] + spare[k])
  <2>1. CASE k = Head(want[r])
    <3>1. units[k] + all[k] = units[k] + made[r][k] + 1
      BY <1>4, <1>5, <2>1
    <3> QED
      BY <1>1, <1>6, <2>1, <3>1 DEF LimitsInvariant, AloneFits
  <2>2. CASE k # Head(want[r])
    BY <1>1, <1>4, <1>6, <2>2 DEF LimitsInvariant, AloneFits
  <2> QED
    BY <2>1, <2>2
<1>7. CASE Len(want[r]) > 1
  <2>1. /\ made' = [made EXCEPT ![r] = all] /\ request' = [request EXCEPT ![r] = "check"]
        /\ UNCHANGED <<plan, units, healed, spare>>
    BY <1>3, <1>7 DEF L!Create
  <2>2. L!Running' = L!Running
    BY <1>1, <2>1 DEF LimitsInvariant, LimitsType, L!Running
  <2>3. Tail(want[r]) \in Seq(L!Kinds) /\ Tail(want[r]) # <<>>
    BY <1>2, <1>7
  <2>4. LimitsType'
    BY <1>1, <1>4, <2>1, <2>2, <2>3 DEF LimitsInvariant, LimitsType
  <2>5. UnitsFit'
    BY <1>1, <2>1 DEF LimitsInvariant, UnitsFit
  <2>6. AloneFits'
    <3> SUFFICES ASSUME NEW q \in L!Running, alone[q]
                 PROVE  /\ L!Running = {q} /\ request'[q] # "create"
                        /\ \A k \in L!Kinds :
                              Within(k, units[k] + made'[q][k], inForce, unchecked[k] + spare[k])
      BY <1>1, <2>1, <2>2 DEF AloneFits
    <3>1. q = r /\ L!Running = {q}
      BY <1>1, NobodyAlone DEF LimitsInvariant, AloneFits
    <3>2. made'[r] = all /\ request'[r] = "check"
      BY <2>1 DEF LimitsInvariant, LimitsType
    <3> QED
      BY <1>6, <3>1, <3>2
  <2> QED
    BY <2>4, <2>5, <2>6 DEF LimitsInvariant
<1>8. CASE ~(Len(want[r]) > 1)
  <2>1. /\ units' = L!Plus(units, all)
        /\ spare' = IF alone[r] THEN spare ELSE L!Plus(spare, all)
        /\ plan' = IF healed[r] # L!None THEN healed[r] ELSE plan
        /\ L!Refuse(r)
    BY <1>3, <1>8 DEF L!Create
  <2>2. /\ units' \in [L!Kinds -> Nat] /\ spare' \in [L!Kinds -> Nat]
        /\ \A k \in L!Kinds : units'[k] = units[k] + all[k]
        /\ \A k \in L!Kinds : spare'[k] = IF alone[r] THEN spare[k] ELSE spare[k] + all[k]
    <3>1. /\ units' = [k \in L!Kinds |-> units[k] + all[k]]
          /\ spare' = IF alone[r] THEN spare ELSE [k \in L!Kinds |-> spare[k] + all[k]]
      BY <2>1 DEF L!Plus
    <3>2. spare \in [L!Kinds -> Nat]
      BY DEF LimitsInvariant, LimitsType
    <3>3. units' \in [L!Kinds -> Nat] /\ \A k \in L!Kinds : units'[k] = units[k] + all[k]
      BY <1>5, <3>1
    <3>4. CASE alone[r]
      BY <3>1, <3>2, <3>3, <3>4
    <3>5. CASE ~alone[r]
      BY <1>5, <3>1, <3>3, <3>5
    <3> QED
      BY <3>4, <3>5
  <2>3. LimitsType'
    <3>1. /\ L!Running' = L!Running \ {r}
          /\ request' \in [Requests -> {"new", "check", "create", "over"}]
          /\ made' \in [Requests -> [L!Kinds -> Nat]] /\ made'[r] = L!Zero
          /\ healed' \in [Requests -> Plans \union {L!None}]
          /\ \A q \in Requests \ {r} : made'[q] = made[q]
      BY <1>1, <2>1, RefuseLeaves DEF LimitsInvariant
    <3>2. plan' \in Plans \union {L!None}
      BY <2>1 DEF LimitsInvariant, LimitsType
    <3>3. want' \in [Requests -> Seq(L!Kinds)] /\ \A q \in Requests \ {r} : want'[q] = want[q]
      BY <1>1, <1>2 DEF LimitsInvariant, LimitsType
    <3> QED
      BY <1>1, <2>2, <3>1, <3>2, <3>3 DEF LimitsInvariant, LimitsType
  <2>4. UnitsFit'
    <3>1. ASSUME NEW k \in L!Kinds
          PROVE  Within(k, units'[k], inForce, unchecked[k] + spare'[k])
      <4>1. CASE alone[r]
        BY <1>6, <2>2, <4>1
      <4>2. CASE ~alone[r]
        <5>1. Within(k, units[k], inForce, unchecked[k] + spare[k])
          BY DEF LimitsInvariant, UnitsFit
        <5>2. /\ {units[k], units'[k], unchecked[k] + spare[k], unchecked[k] + spare'[k]} \subseteq Nat
              /\ units'[k] + (unchecked[k] + spare[k]) <= units[k] + (unchecked[k] + spare'[k])
          BY <1>5, <2>2, <4>2
        <5> QED
          BY <1>5, <5>1, <5>2, StillWithin
      <4> QED
        BY <4>1, <4>2
    <3> QED
      BY <1>1, <3>1 DEF UnitsFit
  <2>5. AloneFits'
    BY <1>1, <2>1, RefuseLeaves, NobodyAlone DEF LimitsInvariant, AloneFits
  <2> QED
    BY <2>3, <2>4, <2>5 DEF LimitsInvariant
<1> QED
  BY <1>7, <1>8

LEMMA StepLimits == LimitsInvariant /\ [L!Next]_limitvars => LimitsInvariant'
<1> SUFFICES ASSUME LimitsInvariant, [L!Next]_limitvars PROVE LimitsInvariant'
  OBVIOUS
<1>1. ASSUME NEW r \in Requests, L!Fail(r) PROVE LimitsInvariant'
  <2>1. /\ r \in L!Running /\ L!Refuse(r)
        /\ UNCHANGED <<active, default, limits, plan, units, want, alone, inForce, spare, unchecked>>
    BY <1>1 DEF L!Fail, L!staffvars
  <2>2. LimitsType'
    BY <2>1, RefuseLeaves DEF LimitsInvariant, LimitsType
  <2>3. UnitsFit' /\ AloneFits'
    BY <2>1, RefuseLeaves, NobodyAlone DEF LimitsInvariant, AloneFits, UnitsFit
  <2> QED
    BY <2>2, <2>3 DEF LimitsInvariant
<1>2. ASSUME UNCHANGED <<request, want, made, healed, alone, spare>>,
             active' \subseteq active, default' \in Plans \union {L!None},
             plan' \in Plans \union {L!None}, limits' \in [Plans -> Tiers],
             inForce \subseteq inForce', inForce' \subseteq Tiers,
             units' \in [L!Kinds -> Nat], unchecked' \in [L!Kinds -> Nat],
             \A k \in L!Kinds : units'[k] + unchecked[k] <= units[k] + unchecked'[k]
      PROVE  LimitsInvariant'
  <2>1. LimitsType'
    BY <1>2 DEF LimitsInvariant, LimitsType, L!Running
  <2> QED
    BY <1>2, <2>1, AroundKeeps
<1>3. ASSUME UNCHANGED <<request, want, made, healed, alone, spare, units, unchecked>>,
             active' \subseteq active, default' \in Plans \union {L!None},
             plan' \in Plans \union {L!None}, limits' \in [Plans -> Tiers],
             inForce \subseteq inForce', inForce' \subseteq Tiers
      PROVE  LimitsInvariant'
  BY <1>2, <1>3 DEF LimitsInvariant, LimitsType
<1>4. CASE UNCHANGED limitvars
  BY <1>3, <1>4 DEF limitvars, LimitsInvariant, LimitsType
<1>5. CASE L!Release \/ L!MonthTurns
  <2>1. UNCHANGED <<request, want, made, healed, alone, spare, active, default, plan, limits, inForce, unchecked>>
    BY <1>5 DEF L!Release, L!MonthTurns, L!staffvars, L!requestvars
  <2>2. units' \in [L!Kinds -> Nat] /\ \A k \in L!Kinds : units'[k] <= units[k]
    <3>1. units \in [L!Kinds -> Nat]
      BY DEF LimitsInvariant, LimitsType
    <3>2. CASE L!Release
      <4>1. PICK k \in L!Kinds : units[k] > 0 /\ units' = [units EXCEPT ![k] = @ - 1]
        BY <3>2 DEF L!Release, L!Kinds
      <4> QED
        BY <3>1, <4>1
    <3>3. CASE L!MonthTurns
      <4>1. units' = [units EXCEPT !["tasks_per_month"] = 0]
        BY <3>3 DEF L!MonthTurns
      <4>2. units' \in [L!Kinds -> Nat]
        BY <3>1, <4>1
      <4>3. \A k \in L!Kinds : units'[k] = 0 \/ units'[k] = units[k]
        BY <3>1, <4>1
      <4> QED
        BY <3>1, <4>2, <4>3
    <3> QED
      BY <1>5, <3>2, <3>3
  <2>3. \A k \in L!Kinds : units'[k] + unchecked[k] <= units[k] + unchecked'[k]
    BY <2>1, <2>2 DEF LimitsInvariant, LimitsType
  <2> QED
    BY <1>2, <2>1, <2>2, <2>3 DEF LimitsInvariant, LimitsType
<1>6. ASSUME NEW k \in L!Kinds, NEW n \in Nat, L!Unchecked(k, n) PROVE LimitsInvariant'
  <2>1. UNCHANGED <<request, want, made, healed, alone, spare, active, default, plan, limits, inForce>>
    BY <1>6 DEF L!Unchecked, L!staffvars, L!requestvars
  <2>2. /\ units' \in [L!Kinds -> Nat] /\ unchecked' \in [L!Kinds -> Nat]
        /\ \A j \in L!Kinds : units'[j] + unchecked[j] <= units[j] + unchecked'[j]
    BY <1>6 DEF L!Unchecked, LimitsInvariant, LimitsType
  <2> QED
    BY <1>2, <2>1, <2>2 DEF LimitsInvariant, LimitsType
<1>7. CASE L!Join \/ L!AskForVotes
  BY <1>6, <1>7 DEF L!Join, L!AskForVotes, L!Kinds
<1>8. CASE L!SwitchPlan
  <2>1. plan' \in Plans /\ limits \in [Plans -> Tiers]
    BY <1>8 DEF L!SwitchPlan, LimitsInvariant, LimitsType
  <2> QED
    BY <1>3, <1>8, <2>1 DEF L!SwitchPlan, L!staffvars, L!requestvars, LimitsInvariant, LimitsType
<1>9. ASSUME NEW p \in Plans, L!EditPlan(p) PROVE LimitsInvariant'
  <2>1. limits' \in [Plans -> Tiers]
    BY <1>9 DEF L!EditPlan, LimitsInvariant, LimitsType
  <2> QED
    BY <1>3, <1>9, <2>1 DEF L!EditPlan, L!requestvars, LimitsInvariant, LimitsType
<1>10. ASSUME NEW p \in Plans, L!DeletePlan(p) PROVE LimitsInvariant'
  BY <1>3, <1>10 DEF L!DeletePlan, L!requestvars, LimitsInvariant, LimitsType
<1> QED
  BY <1>1, <1>4, <1>5, <1>7, <1>8, <1>9, <1>10, LimitsBeginStep, LimitsCheckStep, LimitsCreateStep
  DEF L!Next

-----------------------------------------------------------------------------
\* A step of the instance is one of one module, and a stutter of the others.
LEMMA OneComponent ==
    [MCNext]_mcvars => /\ [Next]_versionvars /\ [L!Next]_limitvars
                       /\ [M!Next]_membershipvars /\ [T!Next]_triggervars
BY DEF MCNext, mcvars, OnVersions, OnLimits, OnMembers, OnTriggers

\* However edits of one version overlap, and wherever a process dies between the commit
\* of a version and that of the pointer, the current version says what the
\* acknowledged edits left (create_new_version).
THEOREM EditsKept == MCSpec => []EditsAreKept
<1>1. VersionsInvariant => EditsAreKept
  BY DEF VersionsInvariant
<1>2. MCInit => VersionsInvariant
  BY InitVersions DEF MCInit
<1>. QED
  BY StepVersions, OneComponent, <1>1, <1>2, PTL DEF MCSpec

\* One who was removed stays out, whatever changes of their role were under way, until
\* they are let in again, and the founder stays the owner unless named
\* (WorkspaceMemberDetailView, SCIMUserDetailView).
THEOREM RemovedStayOut == MCSpec => []RemovalStays
<1>1. MembershipInvariant => RemovalStays
  BY DEF MembershipInvariant, RemovalStays
<1>2. MCInit => MembershipInvariant
  BY InitMembership, WorkspaceAssumption DEF MCInit
<1>3. MembershipInvariant /\ [M!Next]_membershipvars => MembershipInvariant'
  BY StepMembership, WorkspaceAssumption
<1>. QED
  BY OneComponent, <1>1, <1>2, <1>3, PTL DEF MCSpec

\* However scans overlap and wherever they die, no instant of a schedule is served
\* twice, none before its time, and no run is handed over that was not committed
\* (evaluate_due_triggers).
THEOREM EachInstantOnce == MCSpec => []OneRunPerDue
<1>1. TriggersInvariant => OneRunPerDue
  BY DEF TriggersInvariant, InOrder, AllCommitted, Committed, OneRunPerDue, T!OneRunPerDue
<1>2. MCInit => TriggersInvariant
  BY InitTriggers, WorkspaceAssumption DEF MCInit
<1>3. TriggersInvariant /\ [T!Next]_triggervars => TriggersInvariant'
  BY StepTriggers, WorkspaceAssumption
<1>. QED
  BY OneComponent, <1>1, <1>2, <1>3, PTL DEF MCSpec
\* Whatever the plan and the catalog do while requests run, a workspace has no more of
\* anything than the highest limit it ever had, but for what is not metered and what
\* requests created that ran at the same time; each unit of a team counts, those the
\* transaction has not committed too (_check).
THEOREM PlanHolds == MCSpec => []WithinPlan
<1>1. LimitsInvariant => WithinPlan
  <2>1. \A k \in L!Kinds : L!Highest(k) = HighestOf(k, inForce)
    BY DEF L!Highest, HighestOf
  <2>2. ASSUME LimitsInvariant, NEW k \in L!Kinds
        PROVE  L!LimitlessOnce(k) \/ units[k] <= L!Highest(k) + unchecked[k] + spare[k]
    <3>1. HighestOf(k, inForce) \in Nat
      BY <2>2, HighestExists DEF LimitsInvariant, LimitsType
    <3>2. unchecked[k] \in Nat /\ spare[k] \in Nat
      BY <2>2 DEF LimitsInvariant, LimitsType
    <3>3. \/ \E t \in inForce : t[k] = Unlimited
          \/ units[k] <= HighestOf(k, inForce) + (unchecked[k] + spare[k])
      BY <2>2 DEF LimitsInvariant, UnitsFit, Within
    <3> QED
      BY <2>1, <3>1, <3>2, <3>3 DEF L!LimitlessOnce
  <2>. QED
    BY <2>2 DEF WithinPlan, L!WithinPlan
<1>2. MCInit => LimitsInvariant
  BY InitLimits DEF MCInit
<1>. QED
  BY StepLimits, OneComponent, <1>1, <1>2, PTL DEF MCSpec
=============================================================================
