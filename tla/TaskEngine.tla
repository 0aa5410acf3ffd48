----------------------------- MODULE TaskEngine -----------------------------
(***************************************************************************)
(* One background task and everything that drives it: Celery deliveries    *)
(* of worker.execute_background_task, the workers that run                 *)
(* ai.task_engine.execute_background_task, the approval requests members   *)
(* decide, and the respond endpoint that answers a clarifying question.    *)
(*                                                                         *)
(* The transcript (the messages list) is kept as the only part the engine  *)
(* branches on: todo, the calls of the last assistant message that have no *)
(* reply yet, in order.  Every database transaction is one action; between *)
(* two of them a worker or a request only has what it read.                *)
(***************************************************************************)
EXTENDS Integers, Sequences, ToolPermission

CONSTANTS
    Workers,        \* worker processes that may execute the task's jobs
    Responders,     \* concurrent requests to the respond endpoint
    AskCalls,       \* ask_user calls the model may emit
    MissingCalls,   \* calls to a tool that is not attached
    ToolCalls,      \* calls to an attached tool
    Risk,           \* risk class of the tool each of ToolCalls names
    Configs,        \* configurations the coworker may have
    MaxPasses,      \* TASK_MAX_TOOL_ITERATIONS
    MaxBatch,       \* bound: calls in one assistant message
    MaxRedelivered, \* bound: duplicate broker deliveries
    MaxFaults,      \* bound: worker crashes and lost jobs
    None

Calls == AskCalls \cup MissingCalls \cup ToolCalls

ASSUME ConstantsAssumption ==
    /\ AskCalls \cap (MissingCalls \cup ToolCalls) = {}
    /\ MissingCalls \cap ToolCalls = {}
    /\ Risk \in [ToolCalls -> Risks]
    /\ Configs \subseteq Configurations
    /\ MaxPasses \in Nat
    /\ MaxBatch \in Nat
    /\ MaxRedelivered \in Nat
    /\ MaxFaults \in Nat
    /\ None \notin Calls /\ None \notin Configurations
    /\ None \notin {"pending", "approved", "denied", "auto", "standing"}
    /\ None \notin Seq(Calls)

VARIABLES
    (* The database and the broker. *)
    status,      \* Task.status
    saved,       \* execution_state's messages: the unanswered calls
    question,    \* execution_state's pending_question: its call, or None
    approvals,   \* approvals[c]: the approval_requests rows of c, oldest first
    jobs,        \* deliveries of the task waiting in the broker
    (* What each worker process holds. *)
    pc,          \* where it stands in execute_background_task
    todo,        \* its copy of the unanswered calls
    carried,     \* the pending_question of the row it loaded
    config,      \* the configuration it loaded
    ground,      \* why the call at hand may run
    passes,      \* iterations begun in this delivery
    (* What each respond request holds. *)
    reading,     \* the unanswered calls it read, None before it has
    (* History. *)
    emitted,     \* call ids the model has used: the provider never reuses one
    runs,        \* runs[c]: how often execute_tool ran for c
    grounds,     \* grounds[c]: on what grounds it ran
    redelivered, \* duplicate deliveries so far
    faults       \* crashes and lost jobs so far

row == <<status, saved, question>>
local == <<todo, carried, config, ground, passes>>
history == <<emitted, runs, grounds>>
bounds == <<redelivered, faults>>

vars == <<row, approvals, jobs, pc, local, reading, history, bounds>>

-----------------------------------------------------------------------------
Statuses == {"pending", "in_progress", "needs_approval", "needs_input",
             "blocked", "completed", "failed"}

ApprovalStatuses == {"pending", "approved", "denied"}

Grounds == {"approved", "auto", "standing"}

\* The stages of a delivery; "announce" and "park" both report needs_approval,
\* "refuse" and "forbid" both report blocked, "epilogue" follows the last report.
Stages == {"idle", "load", "loop", "model", "call", "request", "announce",
           "park", "refuse", "forbid", "run", "checkpoint", "epilogue"}

\* Mutant of Claimable: a claim that also takes over running work.
ClaimableRunning == {"pending", "needs_approval", "in_progress"}

\* Mutant of Claimable: a claim that only resumes.
ClaimableResumed == {"needs_approval"}

\* The statuses claim_task_execution accepts.
Claimable == {"pending", "needs_approval"}

\* The latest approval_requests row of a call, by created_at.
LatestApproval(c) ==
    IF approvals[c] = <<>> THEN None ELSE approvals[c][Len(approvals[c])]

Goto(w, stage) == pc' = [pc EXCEPT ![w] = stage]

\* report_task_status with an execution_state: the worker's transcript over the
\* fields of the row it loaded.
Report(w, new) ==
    /\ status' = new
    /\ saved' = todo[w]
    /\ question' = carried[w]

\* The delivery is over and the worker process forgets it.
Release(w) ==
    /\ Goto(w, "idle")
    /\ todo' = [todo EXCEPT ![w] = <<>>]
    /\ carried' = [carried EXCEPT ![w] = None]
    /\ config' = [config EXCEPT ![w] = None]
    /\ ground' = [ground EXCEPT ![w] = None]
    /\ passes' = [passes EXCEPT ![w] = 0]

\* A reply is appended for the call at hand; the next call follows, or the
\* report that ends the pass.
Reply(w) ==
    /\ todo' = [todo EXCEPT ![w] = Tail(@)]
    /\ ground' = [ground EXCEPT ![w] = None]
    /\ Goto(w, IF Tail(todo[w]) = <<>> THEN "checkpoint" ELSE "call")
    /\ UNCHANGED <<carried, config, passes>>

\* Messages of at most MaxBatch fresh calls.
Batches(fresh) ==
    {batch \in UNION {[1..n -> fresh] : n \in 1..MaxBatch} :
        \A i, j \in DOMAIN batch : batch[i] = batch[j] => i = j}

-----------------------------------------------------------------------------
(* _create_task has committed the row and queued its first job.            *)
Init ==
    /\ status = "pending" /\ saved = <<>> /\ question = None
    /\ approvals = [c \in ToolCalls |-> <<>>]
    /\ jobs = 1
    /\ pc = [w \in Workers |-> "idle"]
    /\ todo = [w \in Workers |-> <<>>]
    /\ carried = [w \in Workers |-> None]
    /\ config = [w \in Workers |-> None]
    /\ ground = [w \in Workers |-> None]
    /\ passes = [w \in Workers |-> 0]
    /\ reading = [r \in Responders |-> None]
    /\ emitted = {}
    /\ runs = [c \in ToolCalls |-> 0]
    /\ grounds = [c \in ToolCalls |-> {}]
    /\ redelivered = 0 /\ faults = 0

(* A worker takes a delivery and claims the row under its lock.            *)
Claim(w) ==
    /\ pc[w] = "idle"
    /\ jobs > 0
    /\ status \in Claimable
    /\ jobs' = jobs - 1
    /\ status' = "in_progress"
    /\ Goto(w, "load")
    /\ UNCHANGED <<saved, question, approvals, local, reading, history, bounds>>

(* A delivery that finds the row in another status is a no-op.             *)
ClaimNothing(w) ==
    /\ pc[w] = "idle"
    /\ jobs > 0
    /\ status \notin Claimable
    /\ jobs' = jobs - 1
    /\ UNCHANGED <<row, approvals, pc, local, reading, history, bounds>>

(* The record is read again after the claim committed, then the coworker's *)
(* configuration; both stay with the worker until it returns.              *)
Load(w) ==
    /\ pc[w] = "load"
    /\ Goto(w, "loop")
    /\ todo' = [todo EXCEPT ![w] = saved]
    /\ carried' = [carried EXCEPT ![w] = question]
    /\ \E loaded \in Configs : config' = [config EXCEPT ![w] = loaded]
    /\ UNCHANGED <<row, approvals, jobs, ground, passes, reading, history, bounds>>

(* One more pass, as long as the iteration budget of this delivery lasts.  *)
Iterate(w) ==
    /\ pc[w] = "loop"
    /\ passes[w] < MaxPasses
    /\ passes' = [passes EXCEPT ![w] = @ + 1]
    /\ Goto(w, IF todo[w] = <<>> THEN "model" ELSE "call")
    /\ UNCHANGED <<row, approvals, jobs, todo, carried, config, ground, reading,
                   history, bounds>>

(* router.generate answers with tool calls: they are reported and kept.    *)
ModelCalls(w) ==
    /\ pc[w] = "model"
    /\ \E batch \in Batches(Calls \ emitted) :
          /\ emitted' = emitted \cup {batch[i] : i \in DOMAIN batch}
          /\ todo' = [todo EXCEPT ![w] = batch]
          /\ saved' = batch
    /\ status' = "in_progress"
    /\ question' = carried[w]
    /\ Goto(w, "loop")
    /\ UNCHANGED <<approvals, jobs, carried, config, ground, passes, reading,
                   runs, grounds, bounds>>

(* router.generate answers with text: the task is completed with it.       *)
ModelAnswers(w) ==
    /\ pc[w] = "model"
    /\ Report(w, "completed")
    /\ Goto(w, "epilogue")
    /\ UNCHANGED <<approvals, jobs, local, reading, history, bounds>>

-----------------------------------------------------------------------------
(* The calls of the open assistant message, first unanswered one first.    *)

\* Mutant of AskUser: the pause is reported without the transcript.
AskUserUnsaved(w) ==
    /\ pc[w] = "call"
    /\ Head(todo[w]) \in AskCalls
    /\ status' = "needs_input"
    /\ Goto(w, "epilogue")
    /\ UNCHANGED <<saved, question, approvals, jobs, local, reading, history, bounds>>

(* The built-in ask_user tool pauses the task on its question.             *)
AskUser(w) ==
    /\ pc[w] = "call"
    /\ Head(todo[w]) \in AskCalls
    /\ status' = "needs_input"
    /\ saved' = todo[w]
    /\ question' = Head(todo[w])
    /\ Goto(w, "epilogue")
    /\ UNCHANGED <<approvals, jobs, local, reading, history, bounds>>

(* A tool that is not attached gets an error reply.                        *)
SkipMissing(w) ==
    /\ pc[w] = "call"
    /\ Head(todo[w]) \in MissingCalls
    /\ Reply(w)
    /\ UNCHANGED <<row, approvals, jobs, reading, history, bounds>>

(* An attached tool: its latest approval request is looked up first.       *)
FindRequest(w) ==
    /\ pc[w] = "call"
    /\ Head(todo[w]) \in ToolCalls
    /\ \/ LatestApproval(Head(todo[w])) = "pending" /\ Goto(w, "park")
       \/ LatestApproval(Head(todo[w])) = "denied" /\ Goto(w, "refuse")
    /\ UNCHANGED <<row, approvals, jobs, local, reading, history, bounds>>

(* If that settles nothing, the organization's rules (org) and the standing *)
(* policies in force decide whether the call runs, asks or is forbidden.   *)
Evaluate(w) ==
    LET call == Head(todo[w])
        asked == LatestApproval(call) # None
    IN
    /\ pc[w] = "call"
    /\ call \in ToolCalls
    /\ LatestApproval(call) \in {"approved", None}
    /\ \E org \in OrgEffects, standing \in BOOLEAN :
          LET decision == PermissionDecision(config[w], Risk[call], org, standing, asked)
          IN
          \/ /\ org = "deny"
             /\ Goto(w, "forbid")
             /\ UNCHANGED ground
          \/ /\ org # "deny" /\ ~asked /\ decision = "approval"
             /\ Goto(w, "request")
             /\ UNCHANGED ground
          \/ /\ org # "deny" /\ (asked \/ decision = "auto")
             /\ Goto(w, "run")
             /\ ground' = [ground EXCEPT ![w] =
                   IF asked THEN "approved"
                   ELSE IF StandingConsent(config[w], Risk[call], org, standing, asked)
                   THEN "standing" ELSE "auto"]
    /\ UNCHANGED <<row, approvals, jobs, todo, carried, config, passes, reading,
                   history, bounds>>

(* create_approval_request commits the pending row; the task still says    *)
(* in_progress.                                                            *)
RequestApproval(w) ==
    /\ pc[w] = "request"
    /\ approvals' = [approvals EXCEPT ![Head(todo[w])] = Append(@, "pending")]
    /\ Goto(w, "announce")
    /\ UNCHANGED <<row, jobs, local, reading, history, bounds>>

\* Mutant of AnnounceApproval: needs_approval is reported without the transcript.
AnnounceUnsaved(w) ==
    /\ pc[w] = "announce"
    /\ status' = "needs_approval"
    /\ Goto(w, "epilogue")
    /\ UNCHANGED <<saved, question, approvals, jobs, local, reading, history, bounds>>

(* Only then is needs_approval reported, with the transcript, and the      *)
(* workspace notified.                                                     *)
AnnounceApproval(w) ==
    /\ pc[w] = "announce"
    /\ Report(w, "needs_approval")
    /\ Goto(w, "epilogue")
    /\ UNCHANGED <<approvals, jobs, local, reading, history, bounds>>

(* A resume that found the request still pending parks the task again.     *)
ParkAgain(w) ==
    /\ pc[w] = "park"
    /\ Report(w, "needs_approval")
    /\ Release(w)
    /\ UNCHANGED <<approvals, jobs, reading, history, bounds>>

(* A denied request blocks the task.                                       *)
Refuse(w) ==
    /\ pc[w] = "refuse"
    /\ Report(w, "blocked")
    /\ Goto(w, "epilogue")
    /\ UNCHANGED <<approvals, jobs, local, reading, history, bounds>>

(* The organization's denial blocks it without saving the transcript.      *)
Forbid(w) ==
    /\ pc[w] = "forbid"
    /\ status' = "blocked"
    /\ Goto(w, "epilogue")
    /\ UNCHANGED <<saved, question, approvals, jobs, local, reading, history, bounds>>

(* execute_tool: its output or its ToolExecutionError becomes the reply,   *)
(* which stays in the worker's memory until the pass ends.                 *)
ExecuteTool(w) ==
    LET call == Head(todo[w]) IN
    /\ pc[w] = "run"
    /\ runs' = [runs EXCEPT ![call] = @ + 1]
    /\ grounds' = [grounds EXCEPT ![call] = @ \cup {ground[w]}]
    /\ Reply(w)
    /\ UNCHANGED <<row, approvals, jobs, reading, emitted, bounds>>

(* Every call of the message has its reply: the transcript is saved.       *)
Checkpoint(w) ==
    /\ pc[w] = "checkpoint"
    /\ Report(w, "in_progress")
    /\ Goto(w, "loop")
    /\ UNCHANGED <<approvals, jobs, local, reading, history, bounds>>

(* What follows the last report (memory, audit, notifications) succeeds.   *)
Return(w) ==
    /\ pc[w] = "epilogue"
    /\ Release(w)
    /\ UNCHANGED <<row, approvals, jobs, reading, history, bounds>>

(* The except block reports failed, whatever the status has become.        *)
ReportFailure(w) ==
    /\ status' = "failed"
    /\ Release(w)
    /\ UNCHANGED <<saved, question, approvals, jobs, reading, history, bounds>>

(* The iteration budget of this delivery is used up.                       *)
Exhaust(w) ==
    /\ pc[w] = "loop"
    /\ passes[w] = MaxPasses
    /\ ReportFailure(w)

(* Any call inside the try block may raise: the model, a tool, the         *)
(* database, and what follows the last report too.                         *)
Raise(w) ==
    /\ pc[w] \notin {"idle", "loop"}
    /\ ReportFailure(w)

-----------------------------------------------------------------------------
\* Mutant of Decide: a decided request can be decided again.
DecideAgain(c, i, decision) ==
    /\ approvals' = [approvals EXCEPT ![c] = [@ EXCEPT ![i] = decision]]
    /\ jobs' = jobs + 1
    /\ UNCHANGED <<row, pc, local, reading, history, bounds>>

(* A member decides a pending request, through the task endpoint (the      *)
(* latest pending row) or the general one (any), and the task is queued.   *)
Decide(c, i, decision) ==
    /\ approvals[c][i] = "pending"
    /\ approvals' = [approvals EXCEPT ![c] = [@ EXCEPT ![i] = decision]]
    /\ jobs' = jobs + 1
    /\ UNCHANGED <<row, pc, local, reading, history, bounds>>

(* TaskRespondView reads the task without a lock ...                       *)
ReadQuestion(r) ==
    /\ reading[r] = None
    /\ status = "needs_input"
    /\ question # None
    /\ reading' = [reading EXCEPT ![r] = saved]
    /\ UNCHANGED <<row, approvals, jobs, pc, local, history, bounds>>

(* ... and overwrites it with that reading, the answer appended as the     *)
(* question's reply, whatever the row says by now.                         *)
WriteAnswer(r) ==
    /\ reading[r] # None
    /\ status' = "pending"
    /\ saved' = Tail(reading[r])
    /\ question' = None
    /\ reading' = [reading EXCEPT ![r] = None]
    /\ jobs' = jobs + 1
    /\ UNCHANGED <<approvals, pc, local, history, bounds>>

(* The broker delivers a job once more.                                    *)
Redeliver ==
    /\ redelivered < MaxRedelivered
    /\ redelivered' = redelivered + 1
    /\ jobs' = jobs + 1
    /\ UNCHANGED <<row, approvals, pc, local, reading, history, faults>>

(* A worker process dies: its delivery was acknowledged on receipt.        *)
Crash(w) ==
    /\ faults < MaxFaults
    /\ pc[w] # "idle"
    /\ faults' = faults + 1
    /\ Release(w)
    /\ UNCHANGED <<row, approvals, jobs, reading, history, redelivered>>

(* A queued job never reaches execution: the enqueue failed after the      *)
(* commit, or the worker died holding the acknowledged message.            *)
LoseJob ==
    /\ faults < MaxFaults
    /\ jobs > 0
    /\ faults' = faults + 1
    /\ jobs' = jobs - 1
    /\ UNCHANGED <<row, approvals, pc, local, reading, history, redelivered>>

-----------------------------------------------------------------------------
(* The engine's own steps once a delivery is claimed.                      *)
EngineStep(w) ==
    \/ Load(w) \/ Iterate(w) \/ ModelCalls(w) \/ ModelAnswers(w)
    \/ AskUser(w) \/ SkipMissing(w) \/ FindRequest(w) \/ Evaluate(w)
    \/ RequestApproval(w) \/ AnnounceApproval(w) \/ ParkAgain(w)
    \/ Refuse(w) \/ Forbid(w) \/ ExecuteTool(w) \/ Checkpoint(w)
    \/ Return(w) \/ Exhaust(w)

TakeDelivery(w) == Claim(w) \/ ClaimNothing(w)

MemberStep ==
    \/ \E c \in ToolCalls : \E i \in DOMAIN approvals[c] :
          \E decision \in {"approved", "denied"} : Decide(c, i, decision)
    \/ \E r \in Responders : ReadQuestion(r) \/ WriteAnswer(r)

Next ==
    \/ \E w \in Workers : EngineStep(w) \/ TakeDelivery(w) \/ Raise(w) \/ Crash(w)
    \/ MemberStep
    \/ Redeliver
    \/ LoseJob

Spec == Init /\ [][Next]_vars

(* A live worker pool keeps taking deliveries and keeps executing the one  *)
(* it has taken; members and the broker's duplicates promise nothing.      *)
Fairness == \A w \in Workers : WF_vars(EngineStep(w)) /\ WF_vars(TakeDelivery(w))

LiveSpec == Spec /\ Fairness

-----------------------------------------------------------------------------
(***************************************************************************)
(* Properties.                                                             *)
(***************************************************************************)

\* Type correctness of the task row, the approval rows and what workers and
\* respond requests hold (Task.Status, ApprovalRequest.Status).
TypeOK ==
    /\ status \in Statuses
    /\ saved \in Seq(Calls)
    /\ question \in Calls \cup {None}
    /\ approvals \in [ToolCalls -> Seq(ApprovalStatuses)]
    /\ jobs \in Nat
    /\ pc \in [Workers -> Stages]
    /\ todo \in [Workers -> Seq(Calls)]
    /\ carried \in [Workers -> Calls \cup {None}]
    /\ config \in [Workers -> Configs \cup {None}]
    /\ ground \in [Workers -> Grounds \cup {None}]
    /\ passes \in [Workers -> 0..MaxPasses]
    /\ reading \in [Responders -> Seq(Calls) \cup {None}]
    /\ emitted \subseteq Calls
    /\ runs \in [ToolCalls -> Nat]
    /\ grounds \in [ToolCalls -> SUBSET Grounds]
    /\ redelivered \in Nat
    /\ faults \in Nat

\* A worker that may still change the task's course.
Driving(w) == pc[w] \notin {"idle", "epilogue"}

\* No two workers ever execute the same task at once, whatever is redelivered
\* or lost: claim_task_execution is the only mutual exclusion there is.
SingleExecutor ==
    \A v, w \in Workers : Driving(v) /\ Driving(w) => v = w

\* What stands behind a ground on which a call ran: a member's approval that
\* still stands, a configuration that lets its risk class run alone, or a floor
\* that leaves room for a standing policy.
Justified(c, why) ==
    \/ /\ why = "approved"
       /\ \E i \in DOMAIN approvals[c] : approvals[c][i] = "approved"
    \/ /\ why = "auto"
       /\ \E conf \in Configs : ResolveToolPermission(conf, Risk[c]) = "auto"
    \/ /\ why = "standing"
       /\ \E conf \in Configs : ~FloorForces(conf, Risk[c])

\* A tool that ran had its consent, and no later decision took it back
\* (task_engine.py's checks before execute_tool).
ConsentedExecution ==
    \A c \in ToolCalls :
        /\ runs[c] > 0 => grounds[c] # {}
        /\ \A why \in grounds[c] : Justified(c, why)

\* A task that waits for input holds the question the respond endpoint needs,
\* and it is the first call its transcript leaves unanswered.
AnswerableQuestion ==
    status = "needs_input" =>
        saved # <<>> /\ question = Head(saved)

\* The standing of a call's request under the abstract gate.
Standing(c) == IF approvals[c] = <<>> THEN "open" ELSE LatestApproval(c)

\* The calls some configuration lets run without asking.
UnattendedCalls ==
    {c \in ToolCalls : \E conf \in Configs :
        \/ ResolveToolPermission(conf, Risk[c]) = "auto"
        \/ ~FloorForces(conf, Risk[c])}

Gate == INSTANCE ToolCallGate
            WITH Unattended <- UnattendedCalls,
                 gate <- [c \in ToolCalls |-> Standing(c)]

\* With one respond request at a time the engine implements the gate: across
\* pauses, resumes, duplicates and crashes a call is asked for at most once,
\* runs at most once, and never against a denial.
GateSpec == Gate!Spec

\* A queued task comes to rest: it waits for a member or has ended, within the
\* iteration budget, as long as no worker crashes and no job is lost.
AtRest == status \notin {"pending", "in_progress"}

Settles == []<>(AtRest \/ faults > 0)

\* "The answer is fed back as the ask_user tool's result, so the coworker
\* continues exactly where it paused": no call that already ran runs again.
RunsOnce == \A c \in ToolCalls : runs[c] <= 1
=============================================================================
