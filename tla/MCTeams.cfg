\* Teams of one to three members under each pattern with one worker; two voters of
\* two weights under each rule; designs of three members.
SPECIFICATION MCSpec
CONSTANTS
    Patterns = {"sequential", "manager_delegate", "parallel_merge"}
    MaxMembers = 3
    Workers = {w1}
    MaxReturns = 2
    Unusable = Unusable
    Designed <- MCDesigned
    Catalog = {"web_search", "read_webpage", "execute_code", "create_task"}
    Safe = {"web_search", "read_webpage"}
    Companions = {"read_webpage"}
    Orchestration = {"create_task"}
    MaxTeamSize = 3
    MaxChanges = 1
    None = None
    Coworkers = {a, b}
    Options = {ship, wait}
    Methods = {"majority", "unanimous", "confidence_weighted"}
    Confidences = {1, 2}
    MaxDeliveries = 2
    MaxQuestions = 1
    MaxEdits = 1
    MaxFaults = 1
INVARIANTS
    
    
    ResultIsTheRule
    DesignIsProvisioned
PROPERTY WorkEnds
\* A run that ended and a session whose tasks have all ended have nothing left to do.
CHECK_DEADLOCK FALSE
