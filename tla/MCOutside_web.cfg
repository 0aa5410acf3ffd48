\* Two crawls of a site of four pages; one model call; two rendered pages; two calls of
\* execute_code; one document of seven tokens.
SPECIFICATION MCSpec
CONSTANTS
    Foci = {"crawler", "router", "browser", "sandbox", "page"}
    Workers = {w1, w2}
    Kinds <- MCKinds
    MaxRetries = 2
    MaxDuplicates = 1
    MaxDeaths = 1
    Users = {u1, u2}
    Chats = {t1}
    Sessions = {s1, s2, s3}
    Requests = {r1, r2}
    None = None
    home = home
    news = news
    about = about
    contact = contact
    Elsewhere = Elsewhere
    Crawls = {k1, k2}
    Sites <- MCSites
    MaxPages = 4
    MaxDepth = 2
    MaxRedirects = 1
    Models = {flash, pro}
    Unknown = unknown
    ToolModels = {pro}
    Indexes = {0, 1}
    MaxEvents = 4
    Pages = {p1, p2}
    MaxLoads = 2
    MaxTransfer = 1
    MaxLaunches = 2
    Calls = {c1, c2}
    Ignored = {svg}
    Preferred = {article}
    Headings = {h1}
    Anchors = {a1, a2}
    Plain = {}
    MaxLinks = 1
    MaxHeadings = 1
    MaxOpen = 3
    MaxTokens = 7
INVARIANTS
    
    
    NothingIsLeftRunning
    TextIsVisible
CHECK_DEADLOCK FALSE
