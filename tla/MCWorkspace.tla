---------------------------- MODULE MCWorkspace -----------------------------
(***************************************************************************)
(* A small instance of how a workspace is run: the versions of what it     *)
(* has, the limits of its plan, its members and its schedules.  The four   *)
(* share no variable; `focus` says which a behaviour is about.             *)
(***************************************************************************)
EXTENDS CoworkerVersions

CONSTANTS
    Requests, Plans, Tiers, Unlimited, Batches, MaxEdits,
    Users, founder, Roles, MaxRows,
    TriggerIds, Scans, Period, MaxClock, MaxCrashes,
    hourly

VARIABLES
    focus,
    catalog, active, default, limits, plan, units, request, want, made, healed, alone, inForce,
    spare, unchecked, edits,
    account, role, rows, work, target, read, gives, named, removed,
    clock, workflows, nextRun, served, scan, now, held, unpublished, started, lost, crashes

\* Two tiers that differ in each limit, one of them without a limit on seats.
Tier(coworkers, teams, tasks, seats) ==
    [k \in {"coworkers", "agent_teams", "tasks_per_month", "seats"} |->
        CASE k = "coworkers" -> coworkers [] k = "agent_teams" -> teams
          [] k = "tasks_per_month" -> tasks [] OTHER -> seats]
MCTiers == {Tier(1, 1, 0, 1), Tier(2, 1, 1, Unlimited)}

\* A single unit of each kind, and a team of two coworkers.
MCBatches ==
    {<<"coworkers">>, <<"seats">>, <<"tasks_per_month">>, <<"coworkers", "coworkers", "agent_teams">>}

MCPeriod == [t \in TriggerIds |-> IF t = hourly THEN 1 ELSE 2]

L == INSTANCE PlanLimits
M == INSTANCE Membership
T == INSTANCE Triggers

ASSUME WorkspaceAssumption ==
    L!LimitsAssumption /\ M!MembershipAssumption /\ T!TriggerAssumption

limitvars == <<catalog, active, default, limits, plan, units, request, want, made, healed, alone,
               inForce, spare, unchecked, edits>>
membershipvars == <<account, role, rows, work, target, read, gives, named, removed>>
triggervars ==
    <<clock, workflows, nextRun, served, scan, now, held, unpublished, started, lost, crashes>>
mcvars == <<focus, versionvars, limitvars, membershipvars, triggervars>>

\* The modules that are not in focus begin in one of their initial states.
MCInit ==
    /\ focus \in {"versions", "limits", "members", "triggers"}
    /\ Init /\ L!Init /\ M!Init /\ T!Init
    /\ focus # "versions" => kind = "coworker"
    /\ focus # "limits" =>
          /\ plan = default /\ default = CHOOSE p \in Plans : TRUE
          /\ limits = [p \in Plans |-> CHOOSE tier \in Tiers : TRUE]
    /\ focus # "members" => \A u \in Users \ {founder} : role[u] = "none"

OnVersions == focus = "versions" /\ UNCHANGED <<focus, limitvars, membershipvars, triggervars>>
OnLimits == focus = "limits" /\ UNCHANGED <<focus, versionvars, membershipvars, triggervars>>
OnMembers == focus = "members" /\ UNCHANGED <<focus, versionvars, limitvars, triggervars>>
OnTriggers == focus = "triggers" /\ UNCHANGED <<focus, versionvars, limitvars, membershipvars>>

MCNext ==
    \/ (OnVersions /\ Next) \/ (OnLimits /\ L!Next)
    \/ (OnMembers /\ M!Next) \/ (OnTriggers /\ T!Next)

MCSpec ==
    /\ MCInit /\ [][MCNext]_mcvars
    /\ WF_mcvars(T!Tick /\ OnTriggers)
    /\ \A s \in Scans : WF_mcvars(T!ScanStep(s) /\ OnTriggers)

\* The type invariants of the four modules.
MCTypeOK == TypeOK /\ L!TypeOK /\ M!TypeOK /\ T!TypeOK

\* A workspace has no more of anything than the highest limit it ever had, but for
\* what is not metered and what ran at the same time (_check).
WithinPlan == L!WithinPlan

\* One who was removed stays out until a step lets them in, and the founder stays the
\* owner unless named (WorkspaceMemberDetailView, SCIMUserDetailView).
RemovalStays == M!RemovalStays

\* No instant of a schedule is served twice, and none before its time
\* (evaluate_due_triggers).
OneRunPerDue == T!OneRunPerDue

\* Every trigger is served and moves on (evaluate_due_triggers).
TriggersMoveOn == T!TriggersMoveOn
=============================================================================
