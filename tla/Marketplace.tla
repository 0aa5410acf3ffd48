---------------------------- MODULE Marketplace -----------------------------
(***************************************************************************)
(* Listings, their versions, and what one workspace installs               *)
(* (core.v2_services, core.v3_services and the endpoints of core.v2_views  *)
(* and core.v3_views).  Publishing decides at once whether a version is    *)
(* approved; one that is not waits for a review that no code here makes.   *)
(* An installation goes through the dependencies depth first, each row in  *)
(* a transaction of its own, so that requests interleave and may stop half *)
(* way.  A paid listing is installed by the payment webhook, as its buyer. *)
(*                                                                         *)
(* A manifest is the listings it depends on and whether it is risky        *)
(* (dangerous tools or bundled code).                                      *)
(***************************************************************************)
EXTENDS Integers, FiniteSets, SequencesExt

CONSTANTS
    Listings, Versions,
    ListingOf,      \* the listing of each version
    Packs,          \* listings that provision coworkers, a team and workflows
    ToolListings,   \* listings of type tool, which are never approved at once
    Paid,           \* listings that are not free
    Catalogs,       \* what each version will declare
    Members, Admins,
    Orders, Requests,
    MaxInstalls     \* bound: requests in one behaviour

ASSUME MarketplaceAssumption ==
    /\ ListingOf \in [Versions -> Listings]
    /\ Packs \cup ToolListings \cup Paid \subseteq Listings /\ Admins \subseteq Members
    /\ Catalogs \subseteq [Versions -> [dependencies : Seq(Listings), risky : BOOLEAN]]
    /\ MaxInstalls \in Nat

VARIABLES
    review,         \* review[v]: "none" before v is published
    manifest,
    latest,         \* latest[l]: the approved version of l published last
    installed, forked,
    packs,          \* packs[v]: times the contents of pack v were created
    order,          \* order[o]: status, version and buyer
    payouts,        \* orders with a payout
    asked,          \* versions that were installed in their own right
    (* Requests: who makes one and what is still to be done. *)
    todo, user, visited,
    read,           \* read[q]: the status of the order when q read it
    requests

listings == <<review, manifest, latest>>
workspace == <<installed, forked, packs, asked>>
sales == <<order, payouts>>
request == <<todo, user, visited, read>>
marketvars == <<listings, workspace, sales, request, requests>>

NoOrder == [status |-> "none", version |-> CHOOSE v \in Versions : TRUE,
            buyer |-> CHOOSE m \in Members : TRUE]

Approved(v) == review[v] = "approved"

None == "none"

Item(do, arg) == [do |-> do, arg |-> arg]

Init ==
    /\ review = [v \in Versions |-> "none"] /\ manifest \in Catalogs
    /\ latest = [l \in Listings |-> None]
    /\ installed = {} /\ forked = {} /\ packs = [v \in Versions |-> 0] /\ asked = {}
    /\ order = [o \in Orders |-> NoOrder] /\ payouts = {}
    /\ todo = [q \in Requests |-> <<>>] /\ visited = [q \in Requests |-> {}]
    /\ user = [q \in Requests |-> CHOOSE m \in Members : TRUE]
    /\ read = [q \in Requests |-> "none"]
    /\ requests = 0

-----------------------------------------------------------------------------
\* publish_listing_version, for a version that was not there before.
Published(v, content) ==
    LET approved == ~content.risky /\ ListingOf[v] \notin ToolListings IN
    /\ review[v] = "none"
    /\ review' = [review EXCEPT ![v] = IF approved THEN "approved" ELSE "pending"]
    /\ manifest' = [manifest EXCEPT ![v] = content]
    /\ latest' = [latest EXCEPT ![ListingOf[v]] = IF approved THEN v ELSE @]

Publish ==
    /\ \E v \in Versions : Published(v, manifest[v])
    /\ UNCHANGED <<workspace, sales, request, requests>>

(* MarketplaceForkView.post: an admin copies the latest approved version   *)
(* to a listing of the workspace's own and installs it as it is.           *)
Fork ==
    /\ \E source, copy \in Versions :
          /\ source = latest[ListingOf[source]]
          /\ \A v \in Versions : ListingOf[v] = ListingOf[copy] => review[v] = "none"
          /\ ListingOf[copy] \notin Paid
          /\ \A type \in {Packs, ToolListings} :
                ListingOf[copy] \in type <=> ListingOf[source] \in type
          /\ Published(copy, manifest[source])
          /\ installed' = installed \cup {copy} /\ forked' = forked \cup {copy}
    /\ UNCHANGED <<packs, asked, sales, request, requests>>

(* MarketplaceCheckoutView.post: an order for the latest approved version. *)
Checkout ==
    /\ \E o \in Orders, l \in Paid, m \in Members :
          /\ order[o].status = "none"
          /\ latest[l] # None
          /\ order' = [order EXCEPT ![o] =
                [status |-> "pending", version |-> latest[l], buyer |-> m]]
    /\ UNCHANGED <<listings, workspace, payouts, request, requests>>

-----------------------------------------------------------------------------
Begin(q, m, items) ==
    /\ todo[q] = <<>>
    /\ requests < MaxInstalls /\ requests' = requests + 1
    /\ todo' = [todo EXCEPT ![q] = items]
    /\ user' = [user EXCEPT ![q] = m]
    /\ visited' = [visited EXCEPT ![q] = {}]

\* Mutant of Whole: the dependencies come after what needs them.
WholeRootFirst(v) == <<Item("root", v), Item("visit", v)>>

\* install_dependencies, then install_listing.
Whole(v) == <<Item("visit", v), Item("root", v)>>

(* MarketplaceInstallView.post: a version, or the latest approved one; a   *)
(* paid one must have a paid order.                                        *)
BeginInstall(q) ==
    /\ \E v \in Versions, m \in Members :
          /\ review[v] # "none"
          /\ ListingOf[v] \in Paid =>
                \E o \in Orders : order[o].status = "paid" /\ order[o].version = v
          /\ Begin(q, m, Whole(v))
    /\ read' = [read EXCEPT ![q] = "none"]
    /\ UNCHANGED <<listings, workspace, sales>>

(* MarketplacePaymentWebhookView.post, which the provider may repeat: the  *)
(* order is read, and it and its payout are written later.                 *)
BeginWebhook(q) ==
    /\ \E o \in Orders :
          /\ order[o].status # "none"
          /\ Begin(q, order[o].buyer, <<Item("pay", o)>> \o Whole(order[o].version))
          /\ read' = [read EXCEPT ![q] = order[o].status]
    /\ UNCHANGED <<listings, workspace, sales>>

Doing(q, do) == todo[q] # <<>> /\ Head(todo[q]).do = do
Continue(q, items) == todo' = [todo EXCEPT ![q] = items \o Tail(@)]
Refuse(q) == todo' = [todo EXCEPT ![q] = <<>>]

\* Mutant of Pay: the order is saved before, and without, its payout.
PayApart(q) ==
    /\ Doing(q, "pay")
    /\ LET o == Head(todo[q]).arg IN
       IF read[q] = "paid"
       THEN Continue(q, <<>>) /\ UNCHANGED sales
       ELSE /\ order' = [order EXCEPT ![o].status = "paid"]
            /\ IF o \in payouts THEN Refuse(q) /\ UNCHANGED payouts
               ELSE \/ Continue(q, <<>>) /\ payouts' = payouts \cup {o}
                    \/ Refuse(q) /\ UNCHANGED payouts
    /\ UNCHANGED <<listings, workspace, user, visited, read, requests>>

(* complete_marketplace_order: an order that was read as unpaid is saved   *)
(* as paid together with its payout; a second payout is refused by the     *)
(* database, and nothing is saved.                                         *)
Pay(q) ==
    /\ Doing(q, "pay")
    /\ LET o == Head(todo[q]).arg IN
       IF read[q] = "paid"
       THEN Continue(q, <<>>) /\ UNCHANGED sales
       ELSE \/ /\ o \notin payouts
               /\ order' = [order EXCEPT ![o].status = "paid"]
               /\ payouts' = payouts \cup {o}
               /\ Continue(q, <<>>)
            \/ Refuse(q) /\ UNCHANGED sales
    /\ UNCHANGED <<listings, workspace, user, visited, read, requests>>

(* install_dependencies: a version that was visited is taken for a cycle,  *)
(* even when two versions merely need the same one.                        *)
Visit(q) ==
    /\ Doing(q, "visit")
    /\ LET v == Head(todo[q]).arg
           needs == manifest[v].dependencies
       IN  IF v \in visited[q]
           THEN Refuse(q) /\ UNCHANGED visited
           ELSE /\ visited' = [visited EXCEPT ![q] = @ \cup {v}]
                /\ Continue(q, [i \in DOMAIN needs |-> Item("resolve", needs[i])])
    /\ UNCHANGED <<listings, workspace, sales, user, read, requests>>

(* The latest approved version of a dependency is installed after its own. *)
Resolve(q) ==
    /\ Doing(q, "resolve")
    /\ LET v == latest[Head(todo[q]).arg] IN
       IF v = None THEN Refuse(q)
       ELSE Continue(q, <<Item("visit", v), Item("install", v)>>)
    /\ UNCHANGED <<listings, workspace, sales, user, visited, read, requests>>

(* install_listing: by an admin, an approved version; a pack's contents    *)
(* are created even when it was installed before, and may be refused.      *)
Install(q) ==
    /\ Doing(q, "install") \/ Doing(q, "root")
    /\ LET v == Head(todo[q]).arg IN
       \/ /\ user[q] \in Admins /\ Approved(v)
          /\ installed' = installed \cup {v}
          /\ packs' = [packs EXCEPT ![v] = IF ListingOf[v] \in Packs THEN @ + 1 ELSE @]
          /\ asked' = IF Doing(q, "root") THEN asked \cup {v} ELSE asked
          /\ Continue(q, <<>>)
       \/ /\ user[q] \notin Admins \/ ~Approved(v) \/ ListingOf[v] \in Packs
          /\ Refuse(q)
          /\ UNCHANGED <<installed, packs, asked>>
    /\ UNCHANGED <<listings, forked, sales, user, visited, read, requests>>

RequestStep(q) == Pay(q) \/ Visit(q) \/ Resolve(q) \/ Install(q)

Next ==
    \/ Publish \/ Fork \/ Checkout
    \/ \E q \in Requests : BeginInstall(q) \/ BeginWebhook(q) \/ RequestStep(q)

Spec == Init /\ [][Next]_marketvars

(* A request is served to its end.                                         *)
LiveSpec == Spec /\ \A q \in Requests : WF_marketvars(RequestStep(q))

-----------------------------------------------------------------------------
TypeOK ==
    /\ review \in [Versions -> {"none", "pending", "approved"}]
    /\ manifest \in [Versions -> [dependencies : Seq(Listings), risky : BOOLEAN]]
    /\ \A l \in Listings : latest[l] # None => ListingOf[latest[l]] = l /\ Approved(latest[l])
    /\ forked \subseteq installed /\ installed \subseteq Versions /\ asked \subseteq installed
    /\ packs \in [Versions -> Nat] /\ payouts \subseteq Orders
    /\ \A o \in Orders : order[o].status \in {"none", "pending", "paid"}
    /\ \A q \in Requests : Len(todo[q]) <= 3 + 3 * Cardinality(Versions)
    /\ user \in [Requests -> Members] /\ \A q \in Requests : visited[q] \subseteq Versions
    /\ requests \in 0..MaxInstalls

\* What is installed was approved and stands on installed versions of all it
\* depends on, whichever requests overlapped or stopped half way; only a fork
\* is installed without either.
InstalledIsWhole ==
    \A v \in installed \ forked :
        /\ Approved(v)
        /\ \A i \in DOMAIN manifest[v].dependencies :
              \E d \in installed : ListingOf[d] = manifest[v].dependencies[i]

\* However often the payment webhook is repeated, an order is paid exactly when
\* the publisher is owed for it, and a paid listing that was asked for is paid.
PaidIsPaidOut ==
    /\ \A o \in Orders : order[o].status = "paid" <=> o \in payouts
    /\ \A v \in asked : ListingOf[v] \in Paid => \E o \in payouts : order[o].version = v

=============================================================================
