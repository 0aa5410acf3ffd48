--------------------------- MODULE BrowserService ---------------------------
(***************************************************************************)
(* The rendering service (services/browser/server.mjs).  One event loop    *)
(* serves every request: between two awaits nothing else runs, across an   *)
(* await anything does.  All requests share one Chromium, launched when    *)
(* the first one needs it, and each has a context of its own in it.        *)
(***************************************************************************)
EXTENDS Integers, FiniteSets

CONSTANTS
    Pages,          \* requests to /browse
    MaxRequests, MaxTransfer,   \* the service's limits for one page
    MaxLaunches     \* bound: Chromium processes launched

BrowserAssumption == {MaxRequests, MaxTransfer, MaxLaunches} \subseteq Nat

VARIABLES
    promise,        \* browserPromise: none, pending or resolved
    starting,       \* launches under way
    processes,      \* Chromium processes alive
    launches,
    stopping,       \* SIGTERM has come
    step,           \* step[p]: what request p awaits
    contexts,       \* the requests that have a context open in the browser
    requests,       \* requests[p]: network requests its page has made
    transferred,    \* transferred[p]: what they have transferred
    unset           \* history: requests whose context could not be set up

browservars == <<promise, starting, processes, launches, stopping, step, contexts, requests,
                 transferred, unset>>

Steps == {"new", "browser", "setup", "loading", "reading", "answered", "refused"}
Ended == {"answered", "refused"}

Init ==
    /\ promise = "none" /\ starting = 0 /\ processes = 0 /\ launches = 0 /\ stopping = FALSE
    /\ step = [p \in Pages |-> "new"] /\ contexts = {}
    /\ requests = [p \in Pages |-> 0] /\ transferred = [p \in Pages |-> 0] /\ unset = {}

GoTo(p, next) == step' = [step EXCEPT ![p] = next]

\* Mutant of Launch: the promise is kept when the browser is there, not before.
LaunchUnkept ==
    IF promise = "none"
    THEN starting' = starting + 1 /\ launches' = launches + 1 /\ UNCHANGED promise
    ELSE UNCHANGED <<promise, starting, launches>>

\* browser(): the first caller launches, the others await the same promise.
Launch ==
    IF promise = "none"
    THEN promise' = "pending" /\ starting' = starting + 1 /\ launches' = launches + 1
    ELSE UNCHANGED <<promise, starting, launches>>

(* The address is one that may not be browsed, or browser() is awaited.    *)
Receive(p) ==
    /\ step[p] = "new" /\ ~stopping
    /\ \/ GoTo(p, "refused") /\ UNCHANGED <<promise, starting, launches>>
       \/ launches < MaxLaunches /\ GoTo(p, "browser") /\ Launch
    /\ UNCHANGED <<processes, stopping, contexts, requests, transferred, unset>>

(* Chromium is up; or it cannot be launched, and whoever awaits it fails.  *)
Launched ==
    /\ starting > 0 /\ starting' = starting - 1
    /\ processes' = processes + 1 /\ promise' = "resolved"
    /\ UNCHANGED <<launches, stopping, step, contexts, requests, transferred, unset>>

LaunchFails ==
    /\ starting > 0 /\ starting' = starting - 1 /\ promise' = "none"
    /\ step' = [p \in Pages |-> IF step[p] = "browser" THEN "refused" ELSE step[p]]
    /\ UNCHANGED <<processes, launches, stopping, contexts, requests, transferred, unset>>

(* The promise of a browser that has died stays resolved: every new        *)
(* context fails from then on.                                             *)
OpenContext(p) ==
    /\ step[p] = "browser" /\ promise = "resolved"
    /\ IF processes > 0 THEN contexts' = contexts \union {p} /\ GoTo(p, "setup")
                        ELSE GoTo(p, "refused") /\ UNCHANGED contexts
    /\ UNCHANGED <<promise, starting, processes, launches, stopping, requests, transferred, unset>>

(* Page, session and route, which stand before the try whose finally       *)
(* closes the context.                                                     *)
SetUp(p) ==
    /\ step[p] = "setup"
    /\ \/ p \in contexts /\ GoTo(p, "loading") /\ UNCHANGED unset
       \/ GoTo(p, "refused") /\ unset' = unset \union {p}
    /\ UNCHANGED <<promise, starting, processes, launches, stopping, contexts, requests, transferred>>

(* The page asks for a resource: aborted past the limit or when it is      *)
(* media or blocked, else it transfers data, and too much closes the page. *)
Request(p) ==
    /\ step[p] \in {"loading", "reading"} /\ p \in contexts
    /\ requests[p] <= MaxRequests /\ requests' = [requests EXCEPT ![p] = @ + 1]
    /\ transferred[p] <= MaxTransfer
    /\ \/ requests[p] < MaxRequests /\ transferred' = [transferred EXCEPT ![p] = @ + 1]
       \/ UNCHANGED transferred
    /\ UNCHANGED <<promise, starting, processes, launches, stopping, step, contexts, unset>>

\* finally: the context is closed.
Close(p) == contexts' = contexts \ {p}

Exceeded(p) == transferred[p] > MaxTransfer

(* The document is there, or it is not in time; one that has transferred   *)
(* too much is refused.                                                    *)
Loaded(p) ==
    /\ step[p] = "loading"
    /\ \/ ~Exceeded(p) /\ p \in contexts /\ GoTo(p, "reading") /\ UNCHANGED contexts
       \/ GoTo(p, "refused") /\ Close(p)
    /\ UNCHANGED <<promise, starting, processes, launches, stopping, requests, transferred, unset>>

(* Reading the page fails when it is too large or has been closed.         *)
Answer(p) ==
    /\ step[p] = "reading"
    /\ \/ ~Exceeded(p) /\ p \in contexts /\ GoTo(p, "answered")
       \/ GoTo(p, "refused")
    /\ Close(p)
    /\ UNCHANGED <<promise, starting, processes, launches, stopping, requests, transferred, unset>>

(* Chromium dies, or SIGTERM closes it and the server with it.             *)
BrowserDies ==
    /\ processes > 0 /\ processes' = 0 /\ contexts' = {}
    /\ stopping' \in {stopping, TRUE}
    /\ UNCHANGED <<promise, starting, launches, step, requests, transferred, unset>>

PageStep(p) == OpenContext(p) \/ SetUp(p) \/ Loaded(p) \/ Answer(p)

Next ==
    \/ Launched \/ LaunchFails \/ BrowserDies
    \/ \E p \in Pages : Receive(p) \/ PageStep(p) \/ Request(p)

Spec == Init /\ [][Next]_browservars
-----------------------------------------------------------------------------
TypeOK ==
    /\ promise \in {"none", "pending", "resolved"} /\ launches \in 0..MaxLaunches
    /\ stopping \in BOOLEAN /\ step \in [Pages -> Steps]
    /\ contexts \subseteq Pages /\ unset \subseteq Pages
    /\ \A p \in Pages : requests[p] <= MaxRequests + 1 /\ transferred[p] <= MaxTransfer + 1

\* However requests overlap with a launch, with its failure and with each other, at
\* most one Chromium runs, and a request that has ended has left no context open in
\* it, but for one that failed while its page was set up (browser, browse).
BrowserIsShared ==
    /\ starting + processes <= 1
    /\ \A p \in contexts \ unset : step[p] \notin Ended
=============================================================================
