----------------------------- MODULE PlanLimits -----------------------------
(***************************************************************************)
(* The limits of a workspace's plan (core.billing, core.billing_views) on  *)
(* what is metered: active coworkers, agent teams, tasks of the month and  *)
(* seats.  A request counts what there is, compares it with the plan and   *)
(* creates; a designed team or an installed pack does so for each unit in  *)
(* one transaction.  Staff change the catalog and members the plan at any  *)
(* time, and seats and tasks are also made where no limit is asked.        *)
(***************************************************************************)
EXTENDS Integers, Sequences, FiniteSets

CONSTANTS
    Requests,       \* each creates once
    Plans,
    Tiers,          \* the limits a plan may have: functions of Kinds
    Unlimited,      \* a null limit, a number no count reaches
    Batches,        \* what one request creates: sequences of Kinds
    MaxEdits        \* bound: changes of the catalog, joins and months

Kinds == {"coworkers", "agent_teams", "tasks_per_month", "seats"}
None == "none"

LimitsAssumption ==
    /\ Tiers \subseteq [Kinds -> 0..Unlimited] /\ Unlimited \in Nat /\ MaxEdits \in Nat
    /\ Batches \subseteq Seq(Kinds) \ {<<>>} /\ None \notin Plans

VARIABLES
    catalog,        \* the plans there are
    active,         \* those that can be chosen
    default,        \* the plan marked as default, or None
    limits,         \* limits[p]: the tier of plan p
    plan,           \* the plan of the subscription, None without a row
    units,          \* units[k]: what is counted, committed
    request,        \* request[r]: what request r does next
    want,           \* want[r]: the units it still has to create
    made,           \* made[r]: those of its transaction
    healed,         \* healed[r]: the subscription its transaction has created, or None
    alone,          \* alone[r]: no other request has run while r did
    inForce,        \* every tier the workspace's plan has had
    spare,          \* spare[k]: units of requests that were not alone
    unchecked,      \* unchecked[k]: units made where nothing is compared with the plan
    edits

limitvars == <<catalog, active, default, limits, plan, units, request, want, made, healed, alone,
               inForce, spare, unchecked, edits>>
staffvars == <<catalog, active, default, limits>>
requestvars == <<request, want, made, healed, alone>>

Zero == [k \in Kinds |-> 0]

Init ==
    /\ catalog = Plans /\ active = Plans /\ default \in Plans
    /\ limits \in [Plans -> Tiers]
    /\ plan \in Plans \union {None}
    /\ units = Zero /\ spare = Zero /\ unchecked = Zero /\ edits = 0
    /\ request = [r \in Requests |-> "new"]
    /\ want = [r \in Requests |-> <<>>] /\ made = [r \in Requests |-> Zero]
    /\ healed = [r \in Requests |-> None] /\ alone = [r \in Requests |-> TRUE]
    /\ inForce = {limits[p] : p \in {plan} \ {None}}

Running == {r \in Requests : request[r] \in {"check", "create"}}

Begin(r) ==
    /\ request[r] = "new"
    /\ request' = [request EXCEPT ![r] = "check"]
    /\ \E batch \in Batches : want' = [want EXCEPT ![r] = batch]
    /\ alone' = [q \in Requests |-> alone[q] /\ (q \in Running \union {r} => Running = {})]
    /\ UNCHANGED <<staffvars, plan, units, made, healed, inForce, spare, unchecked, edits>>

\* default_plan: the default, when it is active, or else the first active one.
DefaultPlans == IF default \in active THEN {default} ELSE active

\* get_active_plan: the plan of the row, or of the row that is made now.
PlanOf(r) ==
    IF plan # None THEN {plan} ELSE IF healed[r] # None THEN {healed[r]} ELSE DefaultPlans

\* Mutant of Room: what the transaction itself has created is not counted.
RoomCommitted(r, k, limit) == limit = Unlimited \/ units[k] < limit

\* _check: the count of what is committed and of what the transaction has created.
Room(r, k, limit) == limit = Unlimited \/ units[k] + made[r][k] < limit

\* Another transaction has a subscription row that is not committed: wait for it.
Blocked(r) == plan = None /\ \E q \in Requests \ {r} : healed[q] # None

\* The request ends without its units, and without the rows of its transaction.
Refuse(r) ==
    /\ request' = [request EXCEPT ![r] = "over"]
    /\ made' = [made EXCEPT ![r] = Zero] /\ healed' = [healed EXCEPT ![r] = None]

InTransaction(r) == Len(want[r]) > 1 \/ made[r] # Zero

(* enforce_..._limit; without a plan in the catalog the missing row cannot *)
(* be created and the request fails.                                       *)
Check(r) ==
    /\ request[r] = "check" /\ ~Blocked(r)
    /\ \/ PlanOf(r) = {} /\ Refuse(r) /\ UNCHANGED <<plan, inForce>>
       \/ \E p \in PlanOf(r) :
             /\ inForce' = inForce \union {limits[p]}
             /\ plan' = IF InTransaction(r) THEN plan ELSE p
             /\ \/ /\ Room(r, Head(want[r]), limits[p][Head(want[r])])
                   /\ request' = [request EXCEPT ![r] = "create"]
                   /\ healed' = IF plan = None /\ InTransaction(r)
                                THEN [healed EXCEPT ![r] = p] ELSE healed
                   /\ UNCHANGED made
                \/ ~Room(r, Head(want[r]), limits[p][Head(want[r])]) /\ Refuse(r)
    /\ UNCHANGED <<staffvars, units, want, alone, spare, unchecked, edits>>

Plus(f, g) == [k \in Kinds |-> f[k] + g[k]]
One(k) == [Zero EXCEPT ![k] = 1]

(* The unit is created: the last one commits them all.                     *)
Create(r) ==
    /\ request[r] = "create"
    /\ LET all == Plus(made[r], One(Head(want[r]))) IN
       IF Len(want[r]) > 1
       THEN /\ made' = [made EXCEPT ![r] = all]
            /\ request' = [request EXCEPT ![r] = "check"]
            /\ UNCHANGED <<plan, units, healed, spare>>
       ELSE /\ units' = Plus(units, all)
            /\ spare' = IF alone[r] THEN spare ELSE Plus(spare, all)
            /\ plan' = IF healed[r] # None THEN healed[r] ELSE plan
            /\ Refuse(r)
    /\ want' = [want EXCEPT ![r] = Tail(@)]
    /\ UNCHANGED <<staffvars, alone, inForce, unchecked, edits>>

(* The request fails or its process dies: nothing of its transaction stays. *)
Fail(r) ==
    /\ r \in Running /\ Refuse(r)
    /\ UNCHANGED <<staffvars, plan, units, want, alone, inForce, spare, unchecked, edits>>

(* A coworker is fired, or a member leaves.                                *)
Release ==
    /\ \E k \in {"coworkers", "seats"} :
          units[k] > 0 /\ units' = [units EXCEPT ![k] = @ - 1]
    /\ UNCHANGED <<staffvars, plan, requestvars, inForce, spare, unchecked, edits>>

Bounded == edits < MaxEdits /\ edits' = edits + 1

MonthTurns ==
    /\ Bounded /\ units' = [units EXCEPT !["tasks_per_month"] = 0]
    /\ UNCHANGED <<staffvars, plan, requestvars, inForce, spare, unchecked>>

Unchecked(k, n) ==
    /\ Bounded
    /\ units' = [units EXCEPT ![k] = @ + n] /\ unchecked' = [unchecked EXCEPT ![k] = @ + n]
    /\ UNCHANGED <<staffvars, plan, requestvars, inForce, spare>>

(* _provision_sso_user, SCIMUsersView.post: no limit on seats is asked.    *)
Join == Unchecked("seats", 1)

(* start_consensus_session: each member of a team, at least two, gets a    *)
(* task that counts as the user's, and no limit on tasks is asked.         *)
AskForVotes == units["agent_teams"] > 0 /\ Unchecked("tasks_per_month", 2)

(* SubscriptionView.patch: any active plan.                                *)
SwitchPlan ==
    /\ Bounded /\ \A r \in Requests : healed[r] = None
    /\ plan' \in active /\ inForce' = inForce \union {limits[plan']}
    /\ UNCHANGED <<staffvars, units, requestvars, spare, unchecked>>

(* PlanAdminDetailView.patch: other limits, no longer active, or default   *)
(* instead of another.                                                     *)
EditPlan(p) ==
    /\ Bounded /\ p \in catalog
    /\ \/ /\ \E tier \in Tiers : limits' = [limits EXCEPT ![p] = tier]
          /\ inForce' = IF p = plan THEN inForce \union {limits'[p]} ELSE inForce
          /\ UNCHANGED <<active, default>>
       \/ active' = active \ {p} /\ UNCHANGED <<default, limits, inForce>>
       \/ default' = p /\ UNCHANGED <<active, limits, inForce>>
    /\ UNCHANGED <<catalog, plan, units, requestvars, spare, unchecked>>

(* A plan is deleted unless a subscription has it.                         *)
DeletePlan(p) ==
    /\ Bounded /\ p \in catalog /\ p # plan /\ \A r \in Requests : healed[r] # p
    /\ catalog' = catalog \ {p} /\ active' = active \ {p}
    /\ default' = IF default = p THEN None ELSE default
    /\ UNCHANGED <<limits, plan, units, requestvars, inForce, spare, unchecked>>

Next ==
    \/ Release \/ MonthTurns \/ Join \/ AskForVotes \/ SwitchPlan
    \/ \E p \in Plans : EditPlan(p) \/ DeletePlan(p)
    \/ \E r \in Requests : Begin(r) \/ Check(r) \/ Create(r) \/ Fail(r)

Spec == Init /\ [][Next]_limitvars
-----------------------------------------------------------------------------
TypeOK ==
    /\ active \subseteq catalog /\ catalog \subseteq Plans
    /\ default \in Plans \union {None} /\ plan \in catalog \union {None}
    /\ limits \in [Plans -> Tiers] /\ inForce \subseteq Tiers
    /\ {units, spare, unchecked} \subseteq [Kinds -> Nat]
    /\ request \in [Requests -> {"new", "check", "create", "over"}]
    /\ healed \in [Requests -> Plans \union {None}] /\ alone \in [Requests -> BOOLEAN]

Highest(k) == CHOOSE n \in {t[k] : t \in inForce} \union {0} : \A t \in inForce : t[k] <= n

\* Some plan in force had no limit on k.
LimitlessOnce(k) == \E t \in inForce : t[k] = Unlimited

\* A workspace has no more of anything than the highest limit it ever had, but for
\* the seats that single sign-on and the directory gave out, the tasks of consensus
\* sessions, and what requests created that ran at the same time: whatever the plan
\* does while a team is put together, and each unit of a team counted (_check,
\* create_coworker, create_agent_team, provision_team).
WithinPlan ==
    \A k \in Kinds : LimitlessOnce(k) \/ units[k] <= Highest(k) + unchecked[k] + spare[k]
=============================================================================
