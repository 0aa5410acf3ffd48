\* Two workers; two domains and a blocked one; two checks and two scans.
SPECIFICATION MCSpec
CONSTANTS
    Workers = {w1, w2}
    Domains = {d1, d2, bad}
    Modes = {"deep"}
    PolicyBlocked = {bad}
    PolicyTrusted = {}
    AskedBlocked = {}
    AskedTrusted = {bad}
    MinimumSources = 2
    Bounds <- MCBounds
    Checks = {k1, k2}
    Scans = {s1, s2}
    Versions = {v1, v2}
    Limits <- MCLimits
    NoPage = NoPage
INVARIANTS
    ReportIsGrounded
    AnnouncedOnce
    ChangeToldOnce
PROPERTY WorkEnds
CHECK_DEADLOCK FALSE
