----------------------------- MODULE WebCrawler -----------------------------
(***************************************************************************)
(* Crawls of one website (ai.web_crawler, with the page reader of          *)
(* ai.web_reader).  A crawl is a breadth-first walk inside one host, with  *)
(* a budget of pages and a depth; what it reads it hashes, and a page with *)
(* the text of an earlier one is a duplicate whose links are not followed. *)
(* Crawls share the rate-limit slot of the host, a cache of pages and one  *)
(* of what robots.txt said.  Addresses and page bodies are data of a site. *)
(***************************************************************************)
EXTENDS Integers, Sequences, SequencesExt, FiniteSets

CONSTANTS
    Crawls,
    Sites,          \* records: start, robots, allowed, sitemaps, links, moved, text
    Elsewhere,      \* every address outside the host
    MaxPages, MaxDepth, MaxRedirects

\* A site begins, lists, links and moves to addresses of its own, or moves away.
IsSite(s) ==
    LET addresses == DOMAIN s.links IN
    /\ s.start \in addresses /\ s.sitemaps \in Seq(Seq(addresses))
    /\ s.links \in [addresses -> Seq(addresses)]
    /\ s.moved \in [addresses -> addresses \union {Elsewhere}]

CrawlAssumption ==
    /\ MaxPages \in Nat \ {0} /\ {MaxDepth, MaxRedirects} \subseteq Nat
    /\ \A s \in Sites : IsSite(s)

VARIABLES
    site,
    at,             \* at[c]: what crawl c does next
    robots,         \* the policy in the cache, Unread without one
    policy,         \* policy[c]: what crawl c holds of robots.txt
    unread,         \* unread[c]: the sitemaps still to read
    listed,         \* listed[c]: the addresses that sitemaps gave
    queue,          \* queue[c]: <<url, depth>> still to visit
    seen,           \* seen[c]
    pages,          \* pages[c]: the records of the result
    visiting,       \* visiting[c]: the entry of the queue in hand
    hops,           \* hops[c]: the redirects followed for it, in order
    slot,           \* the host's rate-limit key is set
    cached          \* <<url, landing>>: the pages in the cache

outset == <<robots, policy, unread, listed>>
crawlvars == <<site, at, outset, queue, seen, pages, visiting, hops, slot, cached>>

Points == {"new", "sitemap", "next", "slot", "fetch", "done", "refused"}

\* robots.txt has rules, or is not there, or cannot be read or is empty.
Policies == {"rules", "open", "closed"}
Unread == "unread"

Init ==
    /\ site \in Sites
    /\ at = [c \in Crawls |-> "new"]
    /\ robots = Unread /\ policy = [c \in Crawls |-> Unread]
    /\ unread = [c \in Crawls |-> <<>>] /\ listed = [c \in Crawls |-> {}]
    /\ queue = [c \in Crawls |-> <<>>] /\ seen = [c \in Crawls |-> {}]
    /\ pages = [c \in Crawls |-> <<>>]
    /\ visiting = [c \in Crawls |-> <<site.start, 0>>] /\ hops = [c \in Crawls |-> <<>>]
    /\ slot = FALSE /\ cached = {}

GoTo(c, next) == at' = [at EXCEPT ![c] = next]

(* _robots_policy: what the cache holds, or else what the site answers; a  *)
(* request that fails closes the site, and the cache keeps that too.       *)
Answers == IF robots # Unread THEN {robots} ELSE {site.robots, "closed"}

\* RobotsPolicy.allowed.
Allows(rules, url) == rules = "open" \/ (rules = "rules" /\ url \in site.allowed)

(* robots.txt decides on the start, and may name sitemaps.                 *)
Begin(c) ==
    /\ at[c] = "new"
    /\ \E rules \in Answers :
          /\ robots' = rules /\ policy' = [policy EXCEPT ![c] = rules]
          /\ IF Allows(rules, site.start)
             THEN /\ queue' = [queue EXCEPT ![c] = <<<<site.start, 0>>>>]
                  /\ unread' = [unread EXCEPT ![c] = site.sitemaps]
                  /\ GoTo(c, "sitemap")
             ELSE GoTo(c, "refused") /\ UNCHANGED <<unread, queue>>
    /\ UNCHANGED <<site, listed, seen, pages, visiting, hops, slot, cached>>

(* The cache forgets robots.txt, while a crawl that needs it is still to   *)
(* come.                                                                   *)
RobotsExpires ==
    /\ robots # Unread /\ robots' = Unread
    /\ \E c \in Crawls : at[c] = "new"
    /\ UNCHANGED <<site, at, policy, unread, listed, queue, seen, pages, visiting, hops, slot,
                   cached>>

(* _sitemap_urls: a sitemap that cannot be read has no addresses.  They    *)
(* come before any link.                                                   *)
ReadSitemap(c) ==
    /\ at[c] = "sitemap" /\ unread[c] # <<>>
    /\ unread' = [unread EXCEPT ![c] = Tail(@)]
    /\ \E urls \in {Head(unread[c]), <<>>} :
          /\ queue' = [queue EXCEPT ![c] = @ \o [i \in DOMAIN urls |-> <<urls[i], 0>>]]
          /\ listed' = [listed EXCEPT ![c] = @ \union ToSet(urls)]
    /\ UNCHANGED <<site, at, robots, policy, seen, pages, visiting, hops, slot, cached>>

StartWalk(c) ==
    /\ at[c] = "sitemap" /\ unread[c] = <<>>
    /\ GoTo(c, "next")
    /\ UNCHANGED <<site, outset, queue, seen, pages, visiting, hops, slot, cached>>

\* The record of a page: the one refused or failed has no text.
NoText(entry, result) ==
    [asked |-> entry[1], depth |-> entry[2], result |-> result, url |-> entry[1],
     duplicate |-> FALSE, original |-> entry[1]]

\* Mutant of Fresh: an address is known by the page it landed on.
FreshLanding(c, url) == \A n \in DOMAIN pages[c] : pages[c][n].url # url

Fresh(c, url) == url \notin seen[c]

(* An address seen before, or too deep, is passed over.                    *)
Visit(c) ==
    /\ at[c] = "next" /\ queue[c] # <<>> /\ Len(pages[c]) < MaxPages
    /\ queue' = [queue EXCEPT ![c] = Tail(@)]
    /\ LET entry == Head(queue[c])
           fresh == Fresh(c, entry[1])
           near == fresh /\ entry[2] <= MaxDepth
           open == Allows(policy[c], entry[1])
       IN  /\ seen' = [seen EXCEPT ![c] = @ \union {entry[1]}]
           /\ pages' = IF near /\ ~open
                       THEN [pages EXCEPT ![c] = Append(@, NoText(entry, "refused"))]
                       ELSE pages
           /\ IF near /\ open
              THEN /\ GoTo(c, "slot")
                   /\ visiting' = [visiting EXCEPT ![c] = entry]
                   /\ hops' = [hops EXCEPT ![c] = <<>>]
              ELSE UNCHANGED <<at, visiting, hops>>
    /\ UNCHANGED <<site, outset, slot, cached>>

(* The queue is empty, the pages are enough, or the time is up.            *)
End(c) ==
    /\ at[c] = "next"
    /\ GoTo(c, "done")
    /\ UNCHANGED <<site, outset, queue, seen, pages, visiting, hops, slot, cached>>

(* _rate_limit, before the cache is asked; a crawl that waits too long     *)
(* records the page as failed.                                             *)
TakeSlot(c) ==
    /\ at[c] = "slot"
    /\ \/ ~slot /\ slot' = TRUE /\ GoTo(c, "fetch") /\ UNCHANGED pages
       \/ /\ slot
          /\ pages' = [pages EXCEPT ![c] = Append(@, NoText(visiting[c], "failed"))]
          /\ GoTo(c, "next") /\ UNCHANGED slot
    /\ UNCHANGED <<site, outset, queue, seen, visiting, hops, cached>>

SlotExpires ==
    /\ slot /\ slot' = FALSE
    /\ UNCHANGED <<site, outset, at, queue, seen, pages, visiting, hops, cached>>

\* The address fetch_public_resource has come to.
Address(c) == IF hops[c] = <<>> THEN visiting[c][1] ELSE Last(hops[c])
Moves(url) == url # Elsewhere /\ site.moved[url] # url
Cached(c) == {e \in cached : e[1] = visiting[c][1]}

(* A redirect is followed, up to a limit.                                  *)
Redirect(c) ==
    /\ at[c] = "fetch" /\ Cached(c) = {}
    /\ Moves(Address(c)) /\ Len(hops[c]) < MaxRedirects
    /\ hops' = [hops EXCEPT ![c] = Append(@, site.moved[Address(c)])]
    /\ UNCHANGED <<site, outset, at, queue, seen, pages, visiting, slot, cached>>

(* The request fails, or redirects once too often.                         *)
FetchFails(c) ==
    /\ at[c] = "fetch" /\ Cached(c) = {}
    /\ pages' = [pages EXCEPT ![c] = Append(@, NoText(visiting[c], "failed"))]
    /\ GoTo(c, "next")
    /\ UNCHANGED <<site, outset, queue, seen, visiting, hops, slot, cached>>

\* The links found go to the end of the queue.
Enqueued(c, links) == queue[c] \o links

\* The positions of S in order, and those of a page's links that were not seen yet.
InOrder(S) ==
    {order \in [1..Cardinality(S) -> S] :
        /\ ToSet(order) = S
        /\ \A i, j \in DOMAIN order : i < j => order[i] < order[j]}
Unseen(c, url) == {n \in DOMAIN site.links[url] : site.links[url][n] \notin seen[c]}

Originals(c) == {r \in ToSet(pages[c]) : r.result = "read" /\ ~r.duplicate}
SameText(c, url) == {r \in Originals(c) : site.text[r.url] = site.text[url]}

\* Which pages' links are followed.
Follows(depth, original) == original /\ depth < MaxDepth

\* The page in hand has landed at url: it is recorded, and its links are queued.
Record(c, url) ==
    LET depth == visiting[c][2]
        same == SameText(c, url)
    IN
    /\ pages' = [pages EXCEPT ![c] = Append(@,
          [asked |-> visiting[c][1], depth |-> depth, result |-> "read", url |-> url,
           duplicate |-> same # {},
           original |-> IF same = {} THEN url ELSE (CHOOSE r \in same : TRUE).url])]
    /\ IF Follows(depth, same = {})
       THEN \E order \in InOrder(Unseen(c, url)) :
              queue' = [queue EXCEPT ![c] = Enqueued(c,
                 [i \in DOMAIN order |-> <<site.links[url][order[i]], depth + 1>>])]
       ELSE UNCHANGED queue

(* A page from the cache or the network; one outside the host is an error. *)
Read(c) ==
    /\ at[c] = "fetch"
    /\ Cached(c) = {} => ~Moves(Address(c))
    /\ \E url \in IF Cached(c) = {} THEN {Address(c)} ELSE {e[2] : e \in Cached(c)} :
          /\ cached' = cached \union {<<visiting[c][1], url>>}
          /\ \/ url # Elsewhere /\ Record(c, url)
             \/ /\ url = Elsewhere /\ UNCHANGED queue
                /\ pages' = [pages EXCEPT ![c] = Append(@, NoText(visiting[c], "failed"))]
    /\ GoTo(c, "next")
    /\ UNCHANGED <<site, outset, seen, visiting, hops, slot>>

CrawlStep(c) ==
    \/ Begin(c) \/ ReadSitemap(c) \/ StartWalk(c) \/ Visit(c) \/ End(c)
    \/ TakeSlot(c) \/ Redirect(c) \/ FetchFails(c) \/ Read(c)

Next == SlotExpires \/ RobotsExpires \/ \E c \in Crawls : CrawlStep(c)

Spec == Init /\ [][Next]_crawlvars
-----------------------------------------------------------------------------
TypeOK ==
    /\ site \in Sites /\ at \in [Crawls -> Points]
    /\ robots \in Policies \union {Unread} /\ policy \in [Crawls -> Policies \union {Unread}]
    /\ slot \in BOOLEAN /\ cached \subseteq (DOMAIN site.links) \X (DOMAIN site.links \union {Elsewhere})
    /\ \A c \in Crawls : Len(pages[c]) <= MaxPages /\ Len(hops[c]) <= MaxRedirects

Recorded(c, url) == {i \in DOMAIN pages[c] : pages[c][i].asked = url}

\* A crawl asks for no address twice, whatever links and redirects lead to it, and
\* a duplicate points to an earlier page that has its text and is no duplicate
\* (crawl_website, seen_urls and seen_hashes).
PagesOnce ==
    \A c \in Crawls : \A i \in DOMAIN pages[c] :
        LET p == pages[c][i] IN
        /\ Recorded(c, p.asked) = {i}
        /\ p.duplicate => \E j \in 1..i - 1 :
              /\ pages[c][j].url = p.original /\ ~pages[c][j].duplicate
              /\ site.text[p.original] = site.text[p.url]

\* A crawl that does not report itself truncated has followed everything: each link
\* of a page above the depth limit that is no duplicate has a record, at most one
\* level deeper than the page, and so has each page of the sitemaps it could read
\* (crawl_website).
CrawlIsComplete ==
    \A c \in Crawls : at[c] = "done" /\ queue[c] = <<>> =>
        /\ \A url \in listed[c] \union {site.start} :
              \E i \in Recorded(c, url) : pages[c][i].depth = 0
        /\ \A p \in Originals(c) : p.depth < MaxDepth =>
              \A url \in ToSet(site.links[p.url]) :
                  \E i \in Recorded(c, url) : pages[c][i].depth <= p.depth + 1
=============================================================================
