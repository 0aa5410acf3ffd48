\* Two editors of one object with two fields; two requests under two plans; two users
\* and two requests about them; two schedules and two scans.
SPECIFICATION MCSpec
CONSTANTS
    Editors = {e1, e2}
    Fields = {role_description, model_binding}
    Values = {x, y}
    MaxVersions = 3
    Requests = {r1, r2}
    Plans = {free, pro}
    Tiers <- MCTiers
    Batches <- MCBatches
    Unlimited = 9
    MaxEdits = 1
    Users = {founder, u1}
    founder = founder
    Roles = {"member"}
    MaxRows = 2
    hourly = hourly
    TriggerIds = {hourly, daily}
    Scans = {s1, s2}
    Period <- MCPeriod
    MaxClock = 4
    MaxCrashes = 1
INVARIANTS
    EditsAreKept
    WithinPlan
    RemovalStays
    OneRunPerDue
PROPERTY TriggersMoveOn
CHECK_DEADLOCK FALSE
