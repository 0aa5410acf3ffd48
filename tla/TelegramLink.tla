---------------------------- MODULE TelegramLink ----------------------------
(***************************************************************************)
(* How a user's Telegram chat is connected and disconnected                *)
(* (core.telegram_views): link sessions are created by the user, consumed  *)
(* by the webhook that Telegram calls when the chat sends /start with the  *)
(* session's token, and deleted by a disconnect.                           *)
(*                                                                         *)
(* Each request is a database transaction of two steps: it takes its row   *)
(* locks and reads, then writes and commits.  What it writes is visible    *)
(* at the commit.  Webhooks lock a session and then the connection, a      *)
(* disconnect the connection and then the sessions: they can wait for each *)
(* other, and the database then aborts one of the two.                     *)
(***************************************************************************)

CONSTANTS
    Users,
    Chats,      \* private chats: chat id and Telegram user id are the same
    Sessions,   \* bound: link sessions ever created
    Requests,   \* link requests open at the same time
    None

LinkAssumption == None \notin Users \cup Chats \cup Sessions

VARIABLES
    session,    \* session[s]: state of the TelegramLinkSession row
    owner,      \* owner[s]: the user it belongs to
    connection, \* connection[u]: the chat in u's TelegramConnection row
    preferred,  \* users with a TelegramNotificationPreference row
    members,    \* users who are members of the workspace
    linking,    \* linking[r]: the user whose row link request r has locked
    replaced,   \* replaced[r]: the live sessions it is about to cancel
    hook,       \* hook[s]: the chat whose webhook has session s locked
    leaving,    \* users whose disconnect has their connection locked
    (* History. *)
    outdated,   \* sessions that existed when their owner disconnected
    madeBy      \* madeBy[u]: the session that made u's present connection

rows == <<session, owner, connection, preferred, members>>
vars == <<rows, linking, replaced, hook, leaving, outdated, madeBy>>

SessionStates == {"unborn", "pending", "linked", "cancelled", "expired", "deleted"}

Live(u) == {s \in Sessions : owner[s] = u /\ session[s] = "pending"}

\* A webhook holds the row of one of the user's sessions.
Held(u) == \E s \in Sessions : owner[s] = u /\ hook[s] # None

Others(u, chat) == {v \in Users \ {u} : connection[v] = chat}

Init ==
    /\ session = [s \in Sessions |-> "unborn"]
    /\ owner = [s \in Sessions |-> None]
    /\ connection = [u \in Users |-> None]
    /\ preferred = {} /\ members = Users
    /\ linking = [r \in Requests |-> None]
    /\ replaced = [r \in Requests |-> {}]
    /\ hook = [s \in Sessions |-> None]
    /\ leaving = {}
    /\ outdated = {} /\ madeBy = [u \in Users |-> None]

-----------------------------------------------------------------------------
(* TelegramLinkSessionCreateView.                                          *)

(* A member asks for a link: the user's row is locked, and the live        *)
(* sessions to cancel are found, once no webhook holds one of them.        *)
OpenLink(r, u) ==
    /\ linking[r] = None
    /\ u \in members
    /\ \A q \in Requests : linking[q] # u
    /\ ~Held(u)
    /\ linking' = [linking EXCEPT ![r] = u]
    /\ replaced' = [replaced EXCEPT ![r] = Live(u)]
    /\ UNCHANGED <<rows, hook, leaving, outdated, madeBy>>

(* It cancels them, creates the new session and commits.                   *)
CommitLink(r) ==
    /\ linking[r] # None
    /\ \A s \in replaced[r] : hook[s] = None
    /\ \E fresh \in Sessions :
          /\ session[fresh] = "unborn"
          /\ session' = [s \in Sessions |->
                IF s = fresh THEN "pending"
                ELSE IF s \in replaced[r] /\ session[s] = "pending" THEN "cancelled"
                ELSE session[s]]
          /\ owner' = [owner EXCEPT ![fresh] = linking[r]]
    /\ linking' = [linking EXCEPT ![r] = None]
    /\ replaced' = [replaced EXCEPT ![r] = {}]
    /\ UNCHANGED <<connection, preferred, members, hook, leaving, outdated, madeBy>>

(* The token's ten minutes run out.                                        *)
Expire(s) ==
    /\ session[s] = "pending"
    /\ hook[s] = None
    /\ session' = [session EXCEPT ![s] = "expired"]
    /\ UNCHANGED <<owner, connection, preferred, members, linking, replaced, hook, leaving,
                   outdated, madeBy>>

-----------------------------------------------------------------------------
(* TelegramWebhookView, for an update that is a well-formed /start in a    *)
(* private chat; every other update is answered without a change.          *)

(* The session is locked; a live one is turned down for good when its user *)
(* is no longer a member or the chat is somebody else's.                   *)
TakeToken(s, chat) ==
    /\ session[s] = "pending"
    /\ hook[s] = None
    /\ Others(owner[s], chat) \cap leaving = {}
    /\ IF owner[s] \in members /\ Others(owner[s], chat) = {}
       THEN /\ hook' = [hook EXCEPT ![s] = chat]
            /\ UNCHANGED session
       ELSE /\ session' = [session EXCEPT ![s] = "cancelled"]
            /\ UNCHANGED hook
    /\ UNCHANGED <<owner, connection, preferred, members, linking, replaced, leaving,
                   outdated, madeBy>>

(* The connection is locked, then created or moved to the chat; a chat     *)
(* that another webhook connected meanwhile breaks the unique constraint,  *)
(* and the session is cancelled.                                           *)
Connect(s) ==
    LET u == owner[s] IN
    /\ hook[s] # None
    /\ u \notin leaving
    /\ IF Others(u, hook[s]) = {}
       THEN /\ connection' = [connection EXCEPT ![u] = hook[s]]
            /\ preferred' = preferred \cup {u}
            /\ session' = [session EXCEPT ![s] = "linked"]
            /\ madeBy' = [madeBy EXCEPT ![u] = s]
       ELSE /\ session' = [session EXCEPT ![s] = "cancelled"]
            /\ UNCHANGED <<connection, preferred, madeBy>>
    /\ hook' = [hook EXCEPT ![s] = None]
    /\ UNCHANGED <<owner, members, linking, replaced, leaving, outdated>>

-----------------------------------------------------------------------------
(* TelegramConnectionView.delete.                                          *)

(* The connection is locked; without one the request is already over.      *)
OpenDisconnect(u) ==
    /\ u \notin leaving
    /\ connection[u] # None
    /\ leaving' = leaving \cup {u}
    /\ UNCHANGED <<rows, linking, replaced, hook, outdated, madeBy>>

\* Mutant of CommitDisconnect: the link sessions survive.
CommitDisconnectOnly(u) ==
    /\ u \in leaving
    /\ connection' = [connection EXCEPT ![u] = None]
    /\ preferred' = preferred \ {u}
    /\ leaving' = leaving \ {u}
    /\ outdated' = outdated \cup {s \in Sessions : owner[s] = u}
    /\ madeBy' = [madeBy EXCEPT ![u] = None]
    /\ UNCHANGED <<session, owner, members, linking, replaced, hook>>

(* Connection, unused sessions and preferences are deleted together, once  *)
(* no webhook holds one of the sessions.                                   *)
CommitDisconnect(u) ==
    /\ u \in leaving
    /\ ~Held(u)
    /\ connection' = [connection EXCEPT ![u] = None]
    /\ session' = [s \in Sessions |->
          IF owner[s] = u /\ session[s] # "linked" THEN "deleted" ELSE session[s]]
    /\ preferred' = preferred \ {u}
    /\ leaving' = leaving \ {u}
    /\ outdated' = outdated \cup {s \in Sessions : owner[s] = u}
    /\ madeBy' = [madeBy EXCEPT ![u] = None]
    /\ UNCHANGED <<owner, members, linking, replaced, hook>>

\* A webhook and a disconnect of the same user wait for each other.
Crossed(u) == u \in leaving /\ Held(u)

(* The database aborts one of them; the user or Telegram asks again.       *)
BreakDeadlock(u) ==
    /\ Crossed(u)
    /\ \/ leaving' = leaving \ {u} /\ UNCHANGED hook
       \/ /\ \E s \in Sessions :
                owner[s] = u /\ hook[s] # None /\ hook' = [hook EXCEPT ![s] = None]
          /\ UNCHANGED leaving
    /\ UNCHANGED <<rows, linking, replaced, outdated, madeBy>>

-----------------------------------------------------------------------------
(* Reading or changing one's alerts creates the preference row.            *)
ReadPreferences(u) ==
    /\ u \in members
    /\ preferred' = preferred \cup {u}
    /\ UNCHANGED <<session, owner, connection, members, linking, replaced, hook, leaving,
                   outdated, madeBy>>

(* An administrator removes the user from the workspace.                   *)
LeaveWorkspace(u) ==
    /\ u \in members
    /\ members' = members \ {u}
    /\ UNCHANGED <<session, owner, connection, preferred, linking, replaced, hook, leaving,
                   outdated, madeBy>>

WebhookStep == \E s \in Sessions : Connect(s) \/ \E chat \in Chats : TakeToken(s, chat)

UserStep(u) ==
    \/ \E r \in Requests : OpenLink(r, u)
    \/ OpenDisconnect(u) \/ CommitDisconnect(u) \/ BreakDeadlock(u)
    \/ ReadPreferences(u) \/ LeaveWorkspace(u)

Next ==
    \/ WebhookStep
    \/ \E u \in Users : UserStep(u)
    \/ \E r \in Requests : CommitLink(r)
    \/ \E s \in Sessions : Expire(s)

Spec == Init /\ [][Next]_vars

-----------------------------------------------------------------------------
TypeOK ==
    /\ session \in [Sessions -> SessionStates]
    /\ owner \in [Sessions -> Users \cup {None}]
    /\ connection \in [Users -> Chats \cup {None}]
    /\ preferred \subseteq Users /\ members \subseteq Users
    /\ linking \in [Requests -> Users \cup {None}]
    /\ replaced \in [Requests -> SUBSET Sessions]
    /\ hook \in [Sessions -> Chats \cup {None}]
    /\ leaving \subseteq Users /\ outdated \subseteq Sessions
    /\ madeBy \in [Users -> Sessions \cup {None}]

\* "Lock a stable per-user row so concurrent requests cannot both leave an
\* active bearer token behind" (TelegramLinkSessionCreateView.post).
OneLiveLink == \A u \in Users : \A s, t \in Live(u) : s = t

\* A connected chat is nobody else's, and was connected by a link session of
\* the user's own that nothing had cancelled, replaced, expired or deleted: a
\* session from before a disconnect never connects the user again.
ConnectedByOwnLink ==
    \A u \in Users : connection[u] # None =>
        /\ madeBy[u] \in Sessions \ outdated
        /\ owner[madeBy[u]] = u /\ session[madeBy[u]] = "linked"
        /\ Others(u, connection[u]) = {}
        /\ \A v \in Users \ {u} : madeBy[v] # madeBy[u]
=============================================================================
