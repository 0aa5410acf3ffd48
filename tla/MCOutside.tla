------------------------------ MODULE MCOutside ------------------------------
(***************************************************************************)
(* A small instance of what the application does with services outside it: *)
(* the notification channels (Telegram messages, the link of a chat,       *)
(* e-mail), the crawler of websites, the reader of a page's text, the      *)
(* browser service, the sandbox and the model router.  They share no       *)
(* variable, so each behaviour of the instance is one of one of them:      *)
(* `focus` says whose, and the others stay where they began.               *)
(***************************************************************************)
EXTENDS NotificationDelivery, TLC

CONSTANTS
    Foci,           \* the modules whose behaviours are looked at
    Users, Chats, Sessions, Requests, None,
    Crawls, Sites, Elsewhere, MaxPages, MaxDepth, MaxRedirects,
    Models, Unknown, ToolModels, Indexes, MaxEvents,
    Pages, MaxLoads, MaxTransfer, MaxLaunches, Calls,
    Ignored, Preferred, Headings, Anchors, Plain, MaxLinks, MaxHeadings, MaxOpen, MaxTokens,
    home, news, about, contact

VARIABLES
    focus,
    session, owner, connection, preferred, members, linking, replaced, hook, leaving,
    outdated, madeBy,
    marked, letters, mailer, tries, emails, undone, again, losses,
    site, crawling, robots, policy, unread, listed, frontier, seen, pages, visiting, hops, slot,
    cached,
    phase, asked, fallback, tried, answer, log, sent, accumulated, taken, usage, finished, events,
    promise, starting, processes, launches, stopping, step, contexts, requests, transferred, unset,
    ask, container, status, timedOut, exitCode, result, trouble,
    open, tokens, visible, ignoredDepth, preferredDepth, all, main, heading, headingText,
    headings, link, linkText, links

Link == INSTANCE TelegramLink
Email == INSTANCE NotificationEmail
W == INSTANCE WebCrawler WITH at <- crawling, queue <- frontier
R == INSTANCE ModelRouter
B == INSTANCE BrowserService WITH MaxRequests <- MaxLoads
S == INSTANCE Sandbox
P == INSTANCE PageText WITH preferred <- main

ASSUME ChannelsAssumption == Link!LinkAssumption /\ Email!EmailAssumption
ASSUME OutsideAssumption ==
    W!CrawlAssumption /\ R!RouterAssumption /\ B!BrowserAssumption /\ P!PageAssumption

MCKinds == {"task_failed", "mention"}

Each(w, x, y, z) == (home :> w) @@ (news :> x) @@ (about :> y) @@ (contact :> z)

\* Sites of four pages: with and without a link that comes round, a redirect inside
\* the host, out of it and in a circle, two pages of one text, pages that robots.txt
\* keeps out, no robots.txt, and sitemaps.
MCSites ==
    { s \in [
        start : {home}, robots : {"rules", "open"}, sitemaps : {<<>>, <<<<about>>>>},
        links : {Each(<<news, about>>, <<about>>, <<news>>, <<home>>),
                 Each(<<news>>, <<home, about>>, <<contact>>, <<>>)},
        moved : {Each(home, news, about, contact), Each(home, about, about, contact),
                 Each(home, news, Elsewhere, contact), Each(home, about, news, home)},
        text : {Each(1, 2, 3, 4), Each(1, 2, 2, 2)},
        allowed : {{home, news, about, contact}, {home, news}, {news}} ] :
      s.robots = "open" => s.allowed = {news} /\ s.sitemaps = <<>> }

linkvars == <<session, owner, connection, preferred, members, linking, replaced, hook, leaving,
              outdated, madeBy>>
emailvars == <<marked, letters, mailer, tries, emails, undone, again, losses>>
crawlvars == <<site, crawling, robots, policy, unread, listed, frontier, seen, pages, visiting,
               hops, slot, cached>>
routervars == <<phase, asked, fallback, tried, answer, log, sent, accumulated, taken, usage,
                finished, events>>
browservars == <<promise, starting, processes, launches, stopping, step, contexts, requests,
                 transferred, unset>>
sandboxvars == <<ask, container, status, timedOut, exitCode, result, trouble>>
pagevars == <<open, tokens, visible, ignoredDepth, preferredDepth, all, main, heading,
              headingText, headings, link, linkText, links>>
notificationvars == <<vars, linkvars, emailvars>>
webvars == <<crawlvars, routervars, browservars, sandboxvars, pagevars>>
mcvars == <<focus, notificationvars, webvars>>

\* The modules that are not in focus begin in one of their initial states.
MCInit ==
    /\ focus \in Foci
    /\ Init /\ Link!Init /\ Email!Init
    /\ W!Init /\ R!Init /\ B!Init /\ S!Init /\ P!Init
    /\ focus # "delivery" => kind = "mention" /\ wanted = {} /\ ~reachable
    /\ focus # "email" => letters[0] = 0
    /\ focus # "crawler" => site = CHOOSE s \in Sites : TRUE
    /\ focus # "router" => asked = Unknown /\ fallback = "none"

OnDelivery == focus = "delivery" /\ UNCHANGED <<focus, linkvars, emailvars, webvars>>
OnLink == focus = "link" /\ UNCHANGED <<focus, vars, emailvars, webvars>>
OnEmail == focus = "email" /\ UNCHANGED <<focus, vars, linkvars, webvars>>
OnCrawler ==
    /\ focus = "crawler"
    /\ UNCHANGED <<focus, notificationvars, routervars, browservars, sandboxvars, pagevars>>
OnRouter ==
    /\ focus = "router"
    /\ UNCHANGED <<focus, notificationvars, crawlvars, browservars, sandboxvars, pagevars>>
OnBrowser ==
    /\ focus = "browser"
    /\ UNCHANGED <<focus, notificationvars, crawlvars, routervars, sandboxvars, pagevars>>
OnSandbox ==
    /\ focus = "sandbox"
    /\ UNCHANGED <<focus, notificationvars, crawlvars, routervars, browservars, pagevars>>
OnPage ==
    /\ focus = "page"
    /\ UNCHANGED <<focus, notificationvars, crawlvars, routervars, browservars, sandboxvars>>

MCNext ==
    \/ (OnDelivery /\ Next) \/ (OnLink /\ Link!Next) \/ (OnEmail /\ Email!Next)
    \/ (OnCrawler /\ W!Next) \/ (OnRouter /\ R!Next) \/ (OnBrowser /\ B!Next)
    \/ (OnSandbox /\ S!Next) \/ (OnPage /\ P!Next)

MCSpec ==
    /\ MCInit /\ [][MCNext]_mcvars
    /\ WF_vars(OnDelivery /\ FiveMinutes)
    /\ \A w \in Workers : WF_vars(OnDelivery /\ WorkerStep(w))

\* The type invariants of the eight modules.
MCTypeOK ==
    /\ TypeOK /\ Link!TypeOK /\ Email!TypeOK
    /\ W!TypeOK /\ R!TypeOK /\ B!TypeOK /\ S!TypeOK /\ P!TypeOK

\* "Lock a stable per-user row so concurrent requests cannot both leave an
\* active bearer token behind" (TelegramLinkSessionCreateView.post); and a connected
\* chat is nobody else's, and was connected by a link session of the user's own that
\* nothing had cancelled, replaced, expired or deleted.
ConnectedByOwnLink == Link!OneLiveLink /\ Link!ConnectedByOwnLink

\* No channel sends a copy more than one that a lapsed lease, a lost answer or
\* a rolled back marker does not explain.
NoUnexplainedCopy == NoRoutineDuplicate /\ Email!NoSecondEmail

\* A crawl that is not truncated has followed everything, and asked for nothing twice
\* (crawl_website).
CrawlIsWhole == W!PagesOnce /\ W!CrawlIsComplete

\* The log of a call has one successful row exactly when the caller got an answer, and
\* no more than two attempts; and once the finish reason was sent, the caller of a
\* stream holds every tool call whole (ModelRouter.generate, _generate_stream).
CallIsWhole == R!CallIsLogged /\ R!ToolCallsAreWhole

\* At most one Chromium runs, and no request leaves a context open in it, but for one
\* that failed while its page was set up (browser, browse); and no container outlives
\* its call, but for one the daemon keeps or whose call died (run_python).
NothingIsLeftRunning == B!BrowserIsShared /\ S!SandboxIsClean

\* A page's text is what lies in no script, style or svg element, and that of its main
\* element when there is one (_ReadableHTMLParser).
TextIsVisible == P!TextIsVisible
=============================================================================
