------------------------------ MODULE ChatTurn ------------------------------
(***************************************************************************)
(* One conversation with a coworker: the turns of ai.chat_orchestrator     *)
(* that requests run in it (a sent message, a resume, a regeneration), and *)
(* the members who decide the approval requests of its tool calls.         *)
(*                                                                         *)
(* Turns keep nothing between requests: each finds out from the rows what  *)
(* is left to do.  A tool call is resolved in one transaction that locks   *)
(* its assistant message; the tool itself runs inside that transaction,    *)
(* outside the database, so a rollback takes back its result but not the   *)
(* run.  User messages carry no state and are left out of the log.         *)
(***************************************************************************)
EXTENDS Integers, Sequences, ToolPermission

CONSTANTS
    Turns,        \* requests that may run a turn at the same time
    MissingCalls, \* calls to a tool that is not attached
    ToolCalls,    \* calls to an attached tool
    Risk,         \* risk class of the tool each of ToolCalls names
    Configs,      \* configurations the coworker may have
    MaxPasses,    \* CHAT_MAX_TOOL_ITERATIONS
    MaxBatch,     \* bound: calls in one assistant message
    MaxTurns,     \* bound: turns begun
    MaxBreaks,    \* bound: turns cut off
    None

Calls == MissingCalls \cup ToolCalls

ASSUME ConstantsAssumption ==
    /\ MissingCalls \cap ToolCalls = {}
    /\ Risk \in [ToolCalls -> Risks]
    /\ Configs \subseteq Configurations
    /\ MaxPasses \in Nat /\ MaxBatch \in Nat /\ MaxTurns \in Nat /\ MaxBreaks \in Nat
    /\ None \notin Configurations
    /\ None \notin {"approved", "auto", "standing"}

VARIABLES
    (* The conversation in the database. *)
    log,        \* the coworker's messages, oldest first: each its tool calls
    states,     \* states[m]: Message.status of message m
    home,       \* home[c]: the message call c belongs to, 0 before it has one
    request,    \* request[c]: standing of the approval request of call c
    outputs,    \* outputs[c]: result messages that hold what the tool returned
    refusals,   \* refusals[c]: result messages that say denied, or not attached
    (* A turn. *)
    pc,         \* where it stands in _continue_turn
    skipped,    \* exclude_message_ids: the messages a regeneration leaves out
    at,         \* the assistant message it advances
    todo,       \* the calls of that message it has still to walk
    config,     \* the configuration it loaded
    ground,     \* why the call at hand may run
    passes,     \* iterations begun
    (* History. *)
    executed,   \* executed[c]: how often execute_tool ran for c
    lost,       \* lost[c]: runs whose transaction was rolled back
    forked,     \* messages some regeneration left out
    overlapped, \* some turn began while another was running
    begun, breaks

conversation == <<log, states, home>>
results == <<outputs, refusals>>
local == <<skipped, at, todo, config, ground, passes>>
history == <<executed, lost, forked, overlapped>>
bounds == <<begun, breaks>>

vars == <<conversation, request, results, pc, local, history, bounds>>

-----------------------------------------------------------------------------
Standings == {"open", "pending", "approved", "denied"}

Grounds == {"approved", "auto", "standing"}

Stages == {"idle", "loop", "history", "stream", "call", "execute", "store", "check"}

MessageStates == {"streaming", "needs_approval", "complete"}

Answered(c) == outputs[c] + refusals[c] > 0

\* _has_unresolved_tool_calls: every call of the message has a result message.
Resolved(m) == \A i \in DOMAIN log[m] : Answered(log[m][i])

\* The messages with tool calls that turn t can see.
Visible(t) == {m \in DOMAIN log : log[m] # <<>> /\ m \notin skipped[t]}

\* _find_unresolved_tool_message: m is the latest of them, the only one a turn
\* looks at, and has an open call.
Unresolved(t, m) ==
    /\ m \in Visible(t)
    /\ \A n \in Visible(t) : n <= m
    /\ ~Resolved(m)

Goto(t, stage) == pc' = [pc EXCEPT ![t] = stage]

\* Stages inside the transaction of _resolve_one_tool_call.
Locking == {"execute", "store"}

\* Mutant of Unlocked: the assistant message is read without FOR UPDATE.
UnlockedAlways(t) == TRUE

\* No other turn is resolving a call of the same assistant message.
Unlocked(t) == \A u \in Turns \ {t} : pc[u] \in Locking => at[u] # at[t]

\* Turn t is about to resolve call c and holds the lock.
Resolving(t, c) ==
    /\ pc[t] = "call"
    /\ todo[t] # <<>> /\ Head(todo[t]) = c
    /\ Unlocked(t)

\* The transaction commits and the walk goes on with the next call.
NextCall(t) ==
    /\ todo' = [todo EXCEPT ![t] = Tail(@)]
    /\ Goto(t, "call")
    /\ UNCHANGED <<skipped, at, config, passes>>

\* The request ends and forgets its turn.
Leave(t) ==
    /\ Goto(t, "idle")
    /\ skipped' = [skipped EXCEPT ![t] = {}]
    /\ at' = [at EXCEPT ![t] = 0]
    /\ todo' = [todo EXCEPT ![t] = <<>>]
    /\ config' = [config EXCEPT ![t] = None]
    /\ ground' = [ground EXCEPT ![t] = None]
    /\ passes' = [passes EXCEPT ![t] = 0]

\* Assistant messages of at most MaxBatch fresh calls.
Batches(fresh) ==
    {batch \in UNION {[1..n -> fresh] : n \in 1..MaxBatch} :
        \A i, j \in DOMAIN batch : batch[i] = batch[j] => i = j}

-----------------------------------------------------------------------------
Init ==
    /\ log = <<>> /\ states = <<>>
    /\ home = [c \in Calls |-> 0]
    /\ request = [c \in Calls |-> "open"]
    /\ outputs = [c \in Calls |-> 0] /\ refusals = [c \in Calls |-> 0]
    /\ pc = [t \in Turns |-> "idle"]
    /\ skipped = [t \in Turns |-> {}]
    /\ at = [t \in Turns |-> 0] /\ todo = [t \in Turns |-> <<>>]
    /\ config = [t \in Turns |-> None] /\ ground = [t \in Turns |-> None]
    /\ passes = [t \in Turns |-> 0]
    /\ executed = [c \in Calls |-> 0] /\ lost = [c \in Calls |-> 0]
    /\ forked = {} /\ overlapped = FALSE
    /\ begun = 0 /\ breaks = 0

(* get_coworker_config: what the coworker's current version and the floors *)
(* of its workspace say now; the turn does not ask again.                  *)
LoadConfig(t) == \E loaded \in Configs : config' = [config EXCEPT ![t] = loaded]

(* A request enters _continue_turn: start_turn after it stored the user's  *)
(* message and resume_turn see every message, regenerate_turn leaves out   *)
(* those from its target on.                                               *)
Enter(t, left) ==
    /\ pc[t] = "idle"
    /\ begun < MaxTurns
    /\ begun' = begun + 1
    /\ Goto(t, "loop")
    /\ skipped' = [skipped EXCEPT ![t] = left]
    /\ LoadConfig(t)
    /\ forked' = forked \cup left
    /\ overlapped' = (overlapped \/ \E u \in Turns : pc[u] # "idle")
    /\ UNCHANGED <<conversation, request, results, at, todo, ground, passes, executed, lost,
                   breaks>>

Begin(t) == Enter(t, {})

(* ConversationOpeningView: the coworker may speak first while there is no *)
(* message; two requests may both find none.                               *)
Opening(t) == log = <<>> /\ Enter(t, {})

\* MessageRegenerateView: only a complete coworker message can be regenerated.
Regenerable(target) == states[target] = "complete"

Regenerate(t) ==
    \E target \in DOMAIN log : Regenerable(target) /\ Enter(t, target..Len(log))

-----------------------------------------------------------------------------
(* The loop of _continue_turn.                                             *)

\* Mutant of FindOpen: only an approval can leave a message open.
FindOpenWaiting(t) ==
    /\ pc[t] = "loop"
    /\ passes[t] < MaxPasses
    /\ passes' = [passes EXCEPT ![t] = @ + 1]
    /\ \/ /\ \E m \in DOMAIN log :
                /\ Unresolved(t, m) /\ states[m] = "needs_approval"
                /\ at' = [at EXCEPT ![t] = m]
                /\ todo' = [todo EXCEPT ![t] = log[m]]
          /\ Goto(t, "call")
       \/ /\ ~\E m \in DOMAIN log : Unresolved(t, m) /\ states[m] = "needs_approval"
          /\ Goto(t, "history")
          /\ UNCHANGED <<at, todo>>
    /\ UNCHANGED <<conversation, request, results, skipped, config, ground, history, bounds>>

(* An iteration first takes up the latest message with an open call ...    *)
FindOpen(t) ==
    /\ pc[t] = "loop"
    /\ passes[t] < MaxPasses
    /\ passes' = [passes EXCEPT ![t] = @ + 1]
    /\ \/ /\ \E m \in DOMAIN log :
                /\ Unresolved(t, m)
                /\ at' = [at EXCEPT ![t] = m]
                /\ todo' = [todo EXCEPT ![t] = log[m]]
          /\ Goto(t, "call")
       \/ /\ ~\E m \in DOMAIN log : Unresolved(t, m)
          /\ Goto(t, "history")
          /\ UNCHANGED <<at, todo>>
    /\ UNCHANGED <<conversation, request, results, skipped, config, ground, history, bounds>>

(* ... otherwise it reads the history and asks the model.                  *)
ReadHistory(t) ==
    /\ pc[t] = "history"
    /\ Goto(t, "stream")
    /\ UNCHANGED <<conversation, request, results, local, history, bounds>>

(* The model answers in text: the message is stored and the turn is over.  *)
ModelAnswers(t) ==
    /\ pc[t] = "stream"
    /\ log' = Append(log, <<>>)
    /\ states' = Append(states, "complete")
    /\ Leave(t)
    /\ UNCHANGED <<home, request, results, history, bounds>>

(* The model asks for tools: the message is stored with its calls.         *)
ModelCalls(t) ==
    /\ pc[t] = "stream"
    /\ \E batch \in Batches({c \in Calls : home[c] = 0}) :
          /\ log' = Append(log, batch)
          /\ home' = [c \in Calls |->
                         IF \E i \in DOMAIN batch : batch[i] = c THEN Len(log) + 1 ELSE home[c]]
          /\ todo' = [todo EXCEPT ![t] = batch]
    /\ states' = Append(states, "streaming")
    /\ at' = [at EXCEPT ![t] = Len(log) + 1]
    /\ Goto(t, "call")
    /\ UNCHANGED <<request, results, skipped, config, ground, passes, history, bounds>>

(* The adapter gives up, or the iteration budget does: the turn ends in an *)
(* error event.                                                            *)
GiveUp(t) ==
    /\ \/ pc[t] = "stream"
       \/ pc[t] = "loop" /\ passes[t] = MaxPasses
    /\ Leave(t)
    /\ UNCHANGED <<conversation, request, results, history, bounds>>

(* The walk over: a message with an open call ends the turn; one that is   *)
(* resolved becomes complete, and the turn goes on unless a tool kept      *)
(* failing in the same way, which is left open here.                       *)
CloseMessage(t) ==
    /\ pc[t] = "check"
    /\ \/ ~Resolved(at[t]) /\ Leave(t) /\ UNCHANGED states
       \/ /\ Resolved(at[t])
          /\ states' = [states EXCEPT ![at[t]] = "complete"]
          /\ Leave(t) \/ (Goto(t, "loop") /\ UNCHANGED local)
    /\ UNCHANGED <<log, home, request, results, history, bounds>>

-----------------------------------------------------------------------------
(* _advance_message_tool_calls: one call after the other.                  *)

EndWalk(t) ==
    /\ pc[t] = "call"
    /\ todo[t] = <<>>
    /\ Goto(t, "check")
    /\ UNCHANGED <<conversation, request, results, local, history, bounds>>

(* A call that has a result was resolved by this turn or by another one.   *)
SkipAnswered(t) ==
    /\ \E c \in Calls : Resolving(t, c) /\ Answered(c)
    /\ NextCall(t)
    /\ UNCHANGED <<conversation, request, results, ground, history, bounds>>

\* Mutant of StopAtPending: the turn waits for the decision.
WaitAtPending(t) ==
    /\ \E c \in Calls : Resolving(t, c) /\ ~Answered(c) /\ request[c] = "pending"
    /\ UNCHANGED vars

(* A pending request stops the walk.                                       *)
StopAtPending(t) ==
    /\ \E c \in Calls : Resolving(t, c) /\ ~Answered(c) /\ request[c] = "pending"
    /\ Goto(t, "check")
    /\ UNCHANGED <<conversation, request, results, local, history, bounds>>

\* Mutant of TakeApproved: the request only has to exist.
TakeAsked(t) ==
    /\ \E c \in Calls :
          Resolving(t, c) /\ ~Answered(c) /\ request[c] \in {"pending", "approved"}
    /\ Goto(t, "execute")
    /\ ground' = [ground EXCEPT ![t] = "approved"]
    /\ UNCHANGED <<conversation, request, results, skipped, at, todo, config, passes,
                   history, bounds>>

(* An approved request lets the call run; nothing else is asked again.     *)
TakeApproved(t) ==
    /\ \E c \in Calls : Resolving(t, c) /\ ~Answered(c) /\ request[c] = "approved"
    /\ Goto(t, "execute")
    /\ ground' = [ground EXCEPT ![t] = "approved"]
    /\ UNCHANGED <<conversation, request, results, skipped, at, todo, config, passes,
                   history, bounds>>

\* The organization's rules say no to a call nobody was asked about.
Forbidden(c) == c \in ToolCalls /\ request[c] = "open"

(* A denied call, a call to a tool that is not attached, and one that the  *)
(* organization denies get a result that says so.                          *)
RecordRefusal(t) ==
    /\ \E c \in Calls :
          /\ Resolving(t, c) /\ ~Answered(c)
          /\ request[c] = "denied" \/ c \in MissingCalls \/ Forbidden(c)
          /\ refusals' = [refusals EXCEPT ![c] = @ + 1]
    /\ NextCall(t)
    /\ UNCHANGED <<conversation, request, outputs, ground, history, bounds>>

\* The decision on call c under the organization's answer and a standing policy.
Decision(t, c, org, standing) == PermissionDecision(config[t], Risk[c], org, standing, FALSE)

(* The permission check asks for approval: the pending request and the     *)
(* message's status are committed together, and the walk stops.            *)
RequestApproval(t) ==
    /\ \E c \in ToolCalls, org \in OrgEffects \ {"deny"}, standing \in BOOLEAN :
          /\ Resolving(t, c) /\ ~Answered(c) /\ request[c] = "open"
          /\ Decision(t, c, org, standing) = "approval"
          /\ request' = [request EXCEPT ![c] = "pending"]
    /\ states' = [states EXCEPT ![at[t]] = "needs_approval"]
    /\ Goto(t, "check")
    /\ UNCHANGED <<log, home, results, local, history, bounds>>

(* It lets the call run on its own, or on a standing policy.               *)
TakeUnattended(t) ==
    /\ \E c \in ToolCalls, org \in OrgEffects \ {"deny"}, standing \in BOOLEAN :
          /\ Resolving(t, c) /\ ~Answered(c) /\ request[c] = "open"
          /\ Decision(t, c, org, standing) = "auto"
          /\ ground' = [ground EXCEPT ![t] =
                IF StandingConsent(config[t], Risk[c], org, standing, FALSE)
                THEN "standing" ELSE "auto"]
    /\ Goto(t, "execute")
    /\ UNCHANGED <<conversation, request, results, skipped, at, todo, config, passes,
                   history, bounds>>

(* execute_tool, with the transaction and its lock still open ...          *)
ExecuteTool(t) ==
    /\ pc[t] = "execute"
    /\ executed' = [executed EXCEPT ![Head(todo[t])] = @ + 1]
    /\ Goto(t, "store")
    /\ UNCHANGED <<conversation, request, results, local, lost, forked, overlapped, bounds>>

(* ... then its result is stored and the transaction commits.              *)
StoreResult(t) ==
    /\ pc[t] = "store"
    /\ outputs' = [outputs EXCEPT ![Head(todo[t])] = @ + 1]
    /\ ground' = [ground EXCEPT ![t] = None]
    /\ NextCall(t)
    /\ UNCHANGED <<conversation, request, refusals, history, bounds>>

-----------------------------------------------------------------------------
(* A turn is cut off wherever it stands: the client disconnects, an        *)
(* exception nobody catches, the process ends.  An open transaction is     *)
(* rolled back; a tool that ran has run.                                   *)
Break(t) ==
    /\ pc[t] # "idle"
    /\ breaks < MaxBreaks
    /\ breaks' = breaks + 1
    /\ lost' = IF pc[t] = "store" THEN [lost EXCEPT ![Head(todo[t])] = @ + 1] ELSE lost
    /\ Leave(t)
    /\ UNCHANGED <<conversation, request, results, executed, forked, overlapped, begun>>

(* A member decides a pending request; a later turn finds the decision.    *)
Decide(c) ==
    /\ request[c] = "pending"
    /\ \E decision \in {"approved", "denied"} :
          request' = [request EXCEPT ![c] = decision]
    /\ UNCHANGED <<conversation, results, pc, local, history, bounds>>

TurnStep(t) ==
    \/ FindOpen(t) \/ ReadHistory(t) \/ ModelAnswers(t) \/ ModelCalls(t) \/ GiveUp(t)
    \/ CloseMessage(t) \/ EndWalk(t) \/ SkipAnswered(t) \/ StopAtPending(t)
    \/ TakeApproved(t) \/ RecordRefusal(t) \/ RequestApproval(t) \/ TakeUnattended(t)
    \/ ExecuteTool(t) \/ StoreResult(t)

Next ==
    \/ \E t \in Turns : Begin(t) \/ Opening(t) \/ Regenerate(t) \/ TurnStep(t) \/ Break(t)
    \/ \E c \in Calls : Decide(c)

Spec == Init /\ [][Next]_vars

(* A turn that has begun keeps running: models and tools answer or time    *)
(* out.  Clients and members promise nothing.                              *)
Fairness == \A t \in Turns : WF_vars(TurnStep(t))

LiveSpec == Spec /\ Fairness

-----------------------------------------------------------------------------
(***************************************************************************)
(* Properties.                                                             *)
(***************************************************************************)

\* Type correctness of the conversation's rows and of what turns hold.
TypeOK ==
    /\ log \in Seq(Seq(Calls))
    /\ states \in Seq(MessageStates) /\ Len(states) = Len(log)
    /\ home \in [Calls -> 0..Len(log)]
    /\ request \in [Calls -> Standings]
    /\ outputs \in [Calls -> Nat] /\ refusals \in [Calls -> Nat]
    /\ pc \in [Turns -> Stages]
    /\ skipped \in [Turns -> SUBSET (1..Len(log))]
    /\ at \in [Turns -> 0..Len(log)] /\ todo \in [Turns -> Seq(Calls)]
    /\ config \in [Turns -> Configs \cup {None}]
    /\ ground \in [Turns -> Grounds \cup {None}]
    /\ passes \in [Turns -> 0..MaxPasses]
    /\ executed \in [Calls -> Nat] /\ lost \in [Calls -> Nat]
    /\ forked \subseteq 1..Len(log) /\ overlapped \in BOOLEAN
    /\ begun \in Nat /\ breaks \in Nat

\* "two concurrent resume_turn calls ... could otherwise both ... execute the
\* tool for one approval" (_resolve_one_tool_call): a call gets one result, and
\* runs once more only if a rollback took the result of a run.
ResolvedOnce ==
    \A c \in Calls :
        /\ outputs[c] + refusals[c] <= 1
        /\ executed[c] <= 1 + lost[c]

\* A model is never asked with a tool call in its history that has no result,
\* which providers refuse, if turns come one at a time and no regeneration has
\* left that call's message behind.
HistoryIsWhole ==
    [][\A t \in Turns :
          pc[t] = "history" /\ pc'[t] = "stream" /\ ~overlapped =>
              \A m \in DOMAIN log \ (skipped[t] \cup forked) : Resolved(m)]_vars

\* The calls some configuration lets run without asking.
UnattendedCalls ==
    {c \in ToolCalls : \E conf \in Configs :
        \/ ResolveToolPermission(conf, Risk[c]) = "auto"
        \/ ~FloorForces(conf, Risk[c])}

Gate == INSTANCE ToolCallGate
            WITH Unattended <- UnattendedCalls,
                 gate <- [c \in ToolCalls |-> request[c]],
                 runs <- [c \in ToolCalls |-> outputs[c]]

\* Chat keeps the promise the task engine keeps: whatever turns run at once or
\* are cut off, a call is asked for at most once, its result comes from one run,
\* on an approval or on its own, and never against a denial.
GateSpec == Gate!Spec

\* Every turn comes to its end: no two of them wait for each other's locks, and
\* the loop is bounded.
TurnEnds == \A t \in Turns : pc[t] # "idle" ~> pc[t] = "idle"
=============================================================================
