\* Two requests, three listings with four versions; one coworker's tools; the
\* memories of two coworkers; one document and two workers.
SPECIFICATION MCSpec
CONSTANTS
    l1 = l1
    l2 = l2
    l3 = l3
    v1 = v1
    v2 = v2
    v3 = v3
    v4 = v4
    Listings = {l1, l2, l3}
    Versions = {v1, v2, v3, v4}
    ListingOf <- MCListingOf
    Packs = {l2}
    ToolListings = {}
    Paid = {l2}
    Catalogs <- MCCatalogs
    Members = {admin, member}
    Admins = {admin}
    Orders = {o1}
    Requests = {q1, q2}
    MaxInstalls = 2
    Tools = {t1}
    Skills = {s1}
    DeclaredTools <- MCDeclaredTools
    Writers = {w1, w2}
    Reviewers = {r1, r2}
    Proposals = {p1, p2}
    MaxChanges = 2
    Coworkers = {c1, c2}
    Subjects = {topic}
    Values = {1, 2}
    Scans = {s1}
    Resolvers = {r1, r2}
    MaxTold = 3
    MaxMemories = 5
    MaxEdits = 1
    Deliverers = {w1, w2}
    MaxRetries = 1
    MaxDuplicates = 1
    MaxDeaths = 1
INVARIANTS
    InstalledIsWhole
    PaidIsPaidOut
    RevocationStays
    SettledOnce
    ReadyIsWhole
PROPERTY WorkEnds
CHECK_DEADLOCK FALSE
