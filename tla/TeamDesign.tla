----------------------------- MODULE TeamDesign -----------------------------
(***************************************************************************)
(* A team designed by the model and created after a person has looked at   *)
(* it: ai.team_designer makes a specification of whatever the model        *)
(* proposes, the user may change it, and core.starter_teams creates its    *)
(* coworkers and, for several of them, an agent team, in one transaction.  *)
(*                                                                         *)
(* A member is a record of its role, its tools and whether its name sounds *)
(* like programming; Unusable is one without a name or a description.      *)
(***************************************************************************)
EXTENDS Integers, Sequences, FiniteSets

CONSTANTS
    Members,        \* what the model, or the user, may write for a member
    Unusable,
    Catalog,        \* the tools of the platform
    Safe,           \* _DEFAULT_SAFE_TOOLS
    Companions,     \* what goes with "web_search"
    Orchestration,  \* ORCHESTRATION_TOOLS
    MaxTeamSize,
    MaxChanges      \* bound: changes by the user

\* Of the roles: the one with rules of its own, another one, and the one for the rest.
Roles == {"manager", "researcher", "custom"}
KnownPatterns == {"sequential", "parallel_merge", "manager_delegate"}

DesignAssumption ==
    /\ \A m \in Members \ {Unusable} :
          DOMAIN m = {"role", "tools", "codes"} /\ m.codes \in BOOLEAN
    /\ Unusable \in Members
    /\ Unusable \notin [role : Roles, tools : SUBSET Catalog, codes : BOOLEAN]
    /\ Safe \subseteq Catalog /\ Safe # {} /\ MaxTeamSize \in Nat \ {0}

VARIABLES
    phase,          \* new, designed, provisioned, refused, or failed: nothing to make of it
    design,         \* the specification: its pattern and its members
    changes,        \* changes the user has made to it
    admin,          \* the user may create teams
    full,           \* history: the plan had no room
    coworkers,      \* the coworkers created: their tools, in order
    team            \* the roles of the agent team's members in order, <<>> without a team

designvars == <<phase, design, changes, admin, full, coworkers, team>>

Init ==
    /\ phase = "new" /\ design = [pattern |-> "", members |-> <<>>] /\ changes = 0
    /\ admin \in BOOLEAN /\ full = FALSE /\ coworkers = <<>> /\ team = <<>>

\* A name that is no role becomes custom.
Role(m) == IF m.role \in Roles THEN m.role ELSE "custom"

\* _resolve_tools: what the catalog has of them, or else the defaults.
ResolvedTools(m) ==
    IF m.tools \intersect Catalog # {} THEN m.tools \intersect Catalog
    ELSE Safe \union (IF m.codes THEN {"execute_code"} \intersect Catalog ELSE {})

\* The usable ones in their order: the nth is the one with n - 1 before it.
Usable(members) ==
    LET kept == {i \in DOMAIN members : members[i] # Unusable}
    IN  [n \in 1..Cardinality(kept) |->
            members[CHOOSE i \in kept : Cardinality({j \in kept : j < i}) = n - 1]]

Managers(members) == {i \in DOMAIN members : members[i].role = "manager"}

\* The one manager: the first there is, or the first member.
Manager(members) ==
    IF Managers(members) = {} THEN 1
    ELSE CHOOSE i \in Managers(members) : \A j \in Managers(members) : i <= j

\* Mutant of Repaired: a manager is added where there is none, and none taken away.
RepairedMissing(pattern, members) ==
    IF pattern # "manager_delegate" \/ Managers(members) # {} THEN members
    ELSE [members EXCEPT ![1].role = "manager"]

\* The first member is promoted, or the managers after the first are demoted.
Repaired(pattern, members) ==
    IF pattern # "manager_delegate" THEN members
    ELSE [i \in DOMAIN members |->
             IF i = Manager(members) THEN [members[i] EXCEPT !.role = "manager"]
             ELSE IF members[i].role = "manager" THEN [members[i] EXCEPT !.role = "custom"]
             ELSE members[i]]

(* _sanitize: the first members of the proposal, those that are usable.    *)
Sanitized(pattern, proposed) ==
    LET size == IF Len(proposed) < MaxTeamSize THEN Len(proposed) ELSE MaxTeamSize
        usable == Usable(SubSeq(proposed, 1, size))
        known == IF pattern \in KnownPatterns THEN pattern ELSE "sequential"
    IN  [pattern |-> known,
         members |-> Repaired(known, [i \in DOMAIN usable |->
             [role |-> Role(usable[i]), tools |-> ResolvedTools(usable[i]),
              codes |-> usable[i].codes]])]

(* TeamSuggestionView.post: the model answers with no proposal that can be *)
(* read, with no usable member, or with a design.                          *)
Suggest ==
    /\ phase = "new"
    /\ \/ phase' = "failed" /\ UNCHANGED design
       \/ \E n \in 1..(MaxTeamSize + 1), pattern \in KnownPatterns \union {"", "unheard of"} :
             \E proposed \in [1..n -> Members] :
                /\ design' = Sanitized(pattern, proposed)
                /\ phase' = IF design'.members = <<>> THEN "failed" ELSE "designed"
    /\ UNCHANGED <<changes, admin, full, coworkers, team>>

(* The user changes a member, adds or drops one, or changes the pattern.   *)
Change ==
    /\ phase = "designed" /\ changes < MaxChanges /\ changes' = changes + 1
    /\ \/ \E i \in DOMAIN design.members, m \in Members : design' = [design EXCEPT !.members[i] = m]
       \/ \E m \in Members : design' = [design EXCEPT !.members = Append(@, m)]
       \/ design' = [design EXCEPT !.members = SubSeq(@, 1, Len(@) - 1)]
       \/ \E pattern \in KnownPatterns \union {"", "unheard of"} :
             design' = [design EXCEPT !.pattern = pattern]
    /\ UNCHANGED <<phase, admin, full, coworkers, team>>

\* _clean_spec refuses what it cannot take.
Clean(spec) ==
    /\ Len(spec.members) \in 1..MaxTeamSize
    /\ \A i \in DOMAIN spec.members : spec.members[i] # Unusable

\* The tools a created coworker gets.
Granted(spec, i) ==
    LET m == spec.members[i]
    IN  Catalog \intersect
          UNION {m.tools,
                 IF "web_search" \in m.tools THEN Companions ELSE {},
                 IF Role(m) = "manager" \/ Len(spec.members) = 1 THEN Orchestration ELSE {}}

\* Several coworkers under a pattern there is are made a team.
MakesTeam(spec) == Len(spec.members) >= 2 /\ spec.pattern \in KnownPatterns

\* create_agent_team: by an admin, and with one manager where one delegates.
Acceptable(spec) ==
    /\ admin
    /\ spec.pattern = "manager_delegate" =>
          Cardinality({i \in DOMAIN spec.members : Role(spec.members[i]) = "manager"}) = 1

(* ProvisionTeamView.post: the coworkers and the team, or neither.  The    *)
(* plan may have no room for one of them.                                  *)
Provision ==
    /\ phase = "designed"
    /\ \/ /\ Clean(design) /\ MakesTeam(design) => Acceptable(design)
          /\ Clean(design)
          /\ phase' = "provisioned"
          /\ coworkers' = [i \in DOMAIN design.members |-> Granted(design, i)]
          /\ team' = IF MakesTeam(design)
                     THEN [i \in DOMAIN design.members |-> Role(design.members[i])] ELSE <<>>
          /\ UNCHANGED full
       \/ /\ phase' = "refused" /\ UNCHANGED <<coworkers, team>>
          /\ \/ ~Clean(design) /\ UNCHANGED full
             \/ Clean(design) /\ full' = TRUE
             \/ Clean(design) /\ MakesTeam(design) /\ ~Acceptable(design) /\ UNCHANGED full
    /\ UNCHANGED <<design, changes, admin>>

Next == Suggest \/ Change \/ Provision

Spec == Init /\ [][Next]_designvars
-----------------------------------------------------------------------------
TypeOK ==
    /\ phase \in {"new", "designed", "provisioned", "refused", "failed"}
    /\ changes \in 0..MaxChanges /\ {admin, full} \subseteq BOOLEAN
    /\ coworkers \in Seq(SUBSET Catalog) /\ team \in Seq(Roles)

\* Whatever the model proposes, a design nobody changed is one that provisioning
\* accepts from an admin with room in the plan, and creates whole: every member with
\* a tool, and for several members a team, which has one manager where one
\* delegates; and a changed one that is refused leaves nothing (_sanitize,
\* provision_team).
DesignIsProvisioned ==
    /\ phase = "refused" => coworkers = <<>> /\ team = <<>>
    /\ phase = "refused" /\ changes = 0 => full \/ (~admin /\ Len(design.members) >= 2)
    /\ phase = "provisioned" =>
          /\ Len(coworkers) = Len(design.members)
          /\ team # <<>> => Len(team) = Len(coworkers)
          /\ design.pattern = "manager_delegate" /\ team # <<>> =>
                Cardinality({i \in DOMAIN team : team[i] = "manager"}) = 1
    /\ phase = "provisioned" /\ changes = 0 =>
          /\ team # <<>> <=> Len(coworkers) >= 2
          /\ \A i \in DOMAIN coworkers : coworkers[i] # {}
=============================================================================
