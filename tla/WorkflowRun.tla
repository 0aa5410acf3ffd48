---------------------------- MODULE WorkflowRun ----------------------------
(***************************************************************************)
(* One workflow run: the Celery deliveries that call advance_workflow_run, *)
(* the background tasks its coworker steps spawn, and the members who      *)
(* decide its checkpoints and its tools' approval requests.                *)
(*                                                                         *)
(* Nothing here is locked.  advance_workflow_run works on rows it read and *)
(* saves a few named fields at a time, and so do the decision endpoints:   *)
(* every read and every save is an action.                                 *)
(***************************************************************************)
EXTENDS Integers, Sequences

CONSTANTS
    N,            \* number of steps
    Kind,         \* Kind[i]: type of step i
    IfTrue,       \* branch targets of the condition steps
    IfFalse,
    Permissions,  \* answers the tool permission check may give
    Outcomes,     \* what a tool may do: "output", "error" or "raise"
    Workers,      \* worker processes
    Deciders,     \* concurrent decision requests
    MaxReturns,   \* bound: deliveries of spawned tasks that end
    MaxFaults     \* bound: deliveries that die on an exception or a crash

Steps == 0..N - 1
OfKind(kind) == {i \in Steps : Kind[i] = kind}

ASSUME ConstantsAssumption ==
    /\ N \in Nat \ {0}
    /\ Kind \in [Steps -> {"coworker", "tool", "checkpoint", "condition"}]
    /\ IfTrue \in [OfKind("condition") -> 0..N]
    /\ IfFalse \in [OfKind("condition") -> 0..N]
    /\ Permissions \subseteq {"auto", "approval", "deny"}
    /\ Outcomes \subseteq {"output", "error", "raise"}
    /\ MaxReturns \in Nat /\ MaxFaults \in Nat

VARIABLES
    context,      \* which conditions hold: the run's context never changes
    status,       \* WorkflowRun.status
    index,        \* WorkflowRun.current_step_index
    steps,        \* WorkflowRunStep.status
    link,         \* the task id in the step's result, 0 when none
    tasks,        \* the tasks spawned: their step and state
    approvals,    \* approvals[i]: the approval_requests rows of step i
    jobs,         \* deliveries of the run waiting in the broker
    (* A worker inside advance_workflow_run. *)
    pc, at,       \* where it stands, and the current_step_index it read
    held,         \* the task id it read from the step, or created
    (* A decision request. *)
    dpc, cursor,  \* where it stands, and the current_step_index it read
    target,       \* the step it decides
    verdict,      \* approve or deny
    (* History. *)
    executed,     \* executed[i]: how often the tool of step i ran
    released,     \* checkpoints some member approved
    notified,     \* workflow_failed notifications
    returns, faults

run == <<status, index>>
rows == <<steps, link, tasks, approvals>>
worker == <<pc, at, held>>
decider == <<dpc, cursor, target, verdict>>
history == <<executed, released, notified>>
bounds == <<returns, faults>>

vars == <<context, run, rows, jobs, worker, decider, history, bounds>>

-----------------------------------------------------------------------------
RunStatuses == {"running", "needs_approval", "completed", "failed"}
StepStatuses == {"pending", "in_progress", "needs_approval", "completed", "failed"}
TaskStates == {"created", "open", "completed", "failed"}

\* The statuses in which advance_workflow_run goes on.
Live == {"running", "needs_approval"}

LatestApproval(i) ==
    IF approvals[i] = <<>> THEN "none" ELSE approvals[i][Len(approvals[i])]

Goto(w, stage) == pc' = [pc EXCEPT ![w] = stage]

SetStep(i, new) == steps' = [steps EXCEPT ![i] = new]

\* start_workflow_run has committed the rows and queued the first delivery.
Init ==
    /\ context \in [OfKind("condition") -> BOOLEAN]
    /\ status = "running" /\ index = 0
    /\ steps = [i \in Steps |-> "pending"]
    /\ link = [i \in Steps |-> 0]
    /\ tasks = <<>>
    /\ approvals = [i \in Steps |-> <<>>]
    /\ jobs = 1
    /\ pc = [w \in Workers |-> "idle"] /\ at = [w \in Workers |-> 0]
    /\ held = [w \in Workers |-> 0]
    /\ dpc = [d \in Deciders |-> "idle"] /\ cursor = [d \in Deciders |-> 0]
    /\ target = [d \in Deciders |-> 0] /\ verdict = [d \in Deciders |-> "approve"]
    /\ executed = [i \in Steps |-> 0] /\ released = {} /\ notified = 0
    /\ returns = 0 /\ faults = 0

-----------------------------------------------------------------------------
(* advance_workflow_run, one call of it at a time.                         *)

Take(w) ==
    /\ pc[w] = "idle"
    /\ jobs > 0
    /\ jobs' = jobs - 1
    /\ Goto(w, "run")
    /\ UNCHANGED <<context, run, rows, at, held, decider, history, bounds>>

(* The run is read; in any other status there is nothing to do.            *)
ReadRun(w) ==
    /\ pc[w] = "run"
    /\ \/ status \in Live /\ at' = [at EXCEPT ![w] = index] /\ Goto(w, "step")
       \/ status \notin Live /\ Goto(w, "idle") /\ UNCHANGED at
    /\ UNCHANGED <<context, run, rows, jobs, held, decider, history, bounds>>

\* Mutant of ReadStep: a step that waits for a decision is passed over.
ReadStepWaiting(w) ==
    LET i == at[w] IN
    /\ pc[w] = "step"
    /\ \/ i \notin Steps /\ Goto(w, "finish")
       \/ i \in Steps /\ steps[i] \in {"completed", "needs_approval"} /\ Goto(w, "next")
       \/ /\ i \in Steps /\ steps[i] \notin {"needs_approval", "completed"}
          /\ Goto(w, IF Kind[i] # "coworker" THEN Kind[i]
                     ELSE IF link[i] = 0 THEN "spawn" ELSE "poll")
    /\ held' = [held EXCEPT ![w] = IF i \in Steps THEN link[i] ELSE 0]
    /\ UNCHANGED <<context, run, rows, jobs, at, decider, history, bounds>>

(* The step is read, and its status and type decide what to do.            *)
ReadStep(w) ==
    LET i == at[w] IN
    /\ pc[w] = "step"
    /\ \/ i \notin Steps /\ Goto(w, "finish")
       \/ i \in Steps /\ steps[i] = "needs_approval" /\ Goto(w, "idle")
       \/ i \in Steps /\ steps[i] = "completed" /\ Goto(w, "next")
       \/ /\ i \in Steps /\ steps[i] \notin {"needs_approval", "completed"}
          /\ Goto(w, IF Kind[i] # "coworker" THEN Kind[i]
                     ELSE IF link[i] = 0 THEN "spawn" ELSE "poll")
    /\ held' = [held EXCEPT ![w] = IF i \in Steps THEN link[i] ELSE 0]
    /\ UNCHANGED <<context, run, rows, jobs, at, decider, history, bounds>>

(* No step has this index: the run is complete.                            *)
Finish(w) ==
    /\ pc[w] = "finish"
    /\ status' = "completed"
    /\ Goto(w, "idle")
    /\ UNCHANGED <<context, index, rows, jobs, at, held, decider, history, bounds>>

(* The index read is moved on by one, and the function calls itself.       *)
Advance(w) ==
    /\ pc[w] = "next"
    /\ index' = at[w] + 1
    /\ Goto(w, "run")
    /\ UNCHANGED <<context, status, rows, jobs, at, held, decider, history, bounds>>

(* _fail_workflow_run: one conditional update, notified only if it took.   *)
Fail(w) ==
    /\ pc[w] = "fail"
    /\ \/ status \in Live /\ status' = "failed" /\ notified' = notified + 1
       \/ status \notin Live /\ UNCHANGED <<status, notified>>
    /\ Goto(w, "idle")
    /\ UNCHANGED <<context, index, rows, jobs, at, held, decider, executed, released, bounds>>

(* A condition completes its step, then jumps to its branch.               *)
DecideCondition(w) ==
    /\ pc[w] = "condition"
    /\ SetStep(at[w], "completed")
    /\ Goto(w, "jump")
    /\ UNCHANGED <<context, run, link, tasks, approvals, jobs, at, held, decider, history, bounds>>

Jump(w) ==
    /\ pc[w] = "jump"
    /\ index' = IF context[at[w]] THEN IfTrue[at[w]] ELSE IfFalse[at[w]]
    /\ Goto(w, "run")
    /\ UNCHANGED <<context, status, rows, jobs, at, held, decider, history, bounds>>

(* A checkpoint, or a tool whose request was just created, parks: first    *)
(* the step, then the run.                                                 *)
ParkStep(w) ==
    /\ pc[w] \in {"checkpoint", "park"}
    /\ SetStep(at[w], "needs_approval")
    /\ Goto(w, "park_run")
    /\ UNCHANGED <<context, run, link, tasks, approvals, jobs, at, held, decider, history, bounds>>

ParkRun(w) ==
    /\ pc[w] = "park_run"
    /\ status' = "needs_approval"
    /\ Goto(w, "idle")
    /\ UNCHANGED <<context, index, rows, jobs, at, held, decider, history, bounds>>

(* A coworker step creates its task, then remembers and queues it; the     *)
(* delivery comes back to poll.                                            *)
Spawn(w) ==
    /\ pc[w] = "spawn"
    /\ tasks' = Append(tasks, [step |-> at[w], state |-> "created"])
    /\ held' = [held EXCEPT ![w] = Len(tasks')]
    /\ Goto(w, "assign")
    /\ UNCHANGED <<context, run, steps, link, approvals, jobs, at, decider, history, bounds>>

Assign(w) ==
    /\ pc[w] = "assign"
    /\ SetStep(at[w], "in_progress")
    /\ link' = [link EXCEPT ![at[w]] = held[w]]
    /\ tasks' = [tasks EXCEPT ![held[w]].state = "open"]
    /\ jobs' = jobs + 1
    /\ Goto(w, "idle")
    /\ UNCHANGED <<context, run, approvals, at, held, decider, history, bounds>>

\* Mutant of Poll: an open task ends the polling.
PollOnce(w) ==
    LET state == tasks[held[w]].state IN
    /\ pc[w] = "poll"
    /\ \/ /\ state \in {"completed", "failed"}
          /\ SetStep(at[w], state)
          /\ Goto(w, IF state = "completed" THEN "next" ELSE "fail")
       \/ /\ state = "open"
          /\ Goto(w, "idle")
          /\ UNCHANGED steps
    /\ UNCHANGED <<context, run, link, tasks, approvals, jobs, at, held, decider, history, bounds>>

(* Later deliveries look at the task they read from the step.              *)
Poll(w) ==
    LET state == tasks[held[w]].state IN
    /\ pc[w] = "poll"
    /\ \/ /\ state \in {"completed", "failed"}
          /\ SetStep(at[w], state)
          /\ link' = [link EXCEPT ![at[w]] = held[w]]
          /\ Goto(w, IF state = "completed" THEN "next" ELSE "fail")
          /\ UNCHANGED jobs
       \/ /\ state = "open"
          /\ jobs' = jobs + 1
          /\ Goto(w, "idle")
          /\ UNCHANGED <<steps, link>>
    /\ UNCHANGED <<context, run, tasks, approvals, at, held, decider, history, bounds>>

\* Mutant of CheckTool: a tool that needs approval runs without a request.
CheckToolUnasked(w) ==
    /\ pc[w] = "tool"
    /\ \E decision \in Permissions :
          Goto(w, IF decision = "deny" THEN "reject"
                  ELSE IF LatestApproval(at[w]) = "pending" THEN "idle"
                  ELSE IF LatestApproval(at[w]) = "denied" THEN "fail" ELSE "execute")
    /\ UNCHANGED <<context, run, rows, jobs, at, held, decider, history, bounds>>

(* A tool step looks up its latest request, then asks the permission check. *)
CheckTool(w) ==
    /\ pc[w] = "tool"
    /\ \E decision \in Permissions :
          Goto(w, IF decision = "deny" THEN "reject"
                  ELSE IF decision = "approval" /\ LatestApproval(at[w]) = "none" THEN "request"
                  ELSE IF LatestApproval(at[w]) = "pending" THEN "idle"
                  ELSE IF LatestApproval(at[w]) = "denied" THEN "fail" ELSE "execute")
    /\ UNCHANGED <<context, run, rows, jobs, at, held, decider, history, bounds>>

Reject(w) ==
    /\ pc[w] = "reject"
    /\ SetStep(at[w], "failed")
    /\ Goto(w, "fail")
    /\ UNCHANGED <<context, run, link, tasks, approvals, jobs, at, held, decider, history, bounds>>

RequestApproval(w) ==
    /\ pc[w] = "request"
    /\ approvals' = [approvals EXCEPT ![at[w]] = Append(@, "pending")]
    /\ Goto(w, "park")
    /\ UNCHANGED <<context, run, steps, link, tasks, jobs, at, held, decider, history, bounds>>

(* execute_workflow_tool returns an output, an error, or raises; what it   *)
(* raises nobody catches.                                                  *)
ExecuteTool(w) ==
    /\ pc[w] = "execute"
    /\ executed' = [executed EXCEPT ![at[w]] = @ + 1]
    /\ \E outcome \in Outcomes :
          Goto(w, IF outcome = "output" THEN "record"
                  ELSE IF outcome = "error" THEN "reject" ELSE "idle")
    /\ UNCHANGED <<context, run, rows, jobs, at, held, decider, released, notified, bounds>>

\* Mutant of RecordOutput: the step is left as it was.
RecordNothing(w) ==
    /\ pc[w] = "record"
    /\ Goto(w, "next")
    /\ UNCHANGED <<context, run, rows, jobs, at, held, decider, history, bounds>>

RecordOutput(w) ==
    /\ pc[w] = "record"
    /\ SetStep(at[w], "completed")
    /\ Goto(w, "next")
    /\ UNCHANGED <<context, run, link, tasks, approvals, jobs, at, held, decider, history, bounds>>

(* Any exception, or the end of the process, ends the delivery: it was     *)
(* acknowledged on receipt and nothing enqueues another.                   *)
Die(w) ==
    /\ faults < MaxFaults
    /\ pc[w] # "idle"
    /\ faults' = faults + 1
    /\ Goto(w, "idle")
    /\ UNCHANGED <<context, run, rows, jobs, at, held, decider, history, returns>>

-----------------------------------------------------------------------------
(* The spawned tasks, as TaskEngine leaves them.                           *)

TaskReports(t) ==
    /\ tasks[t].state = "open"
    /\ \E result \in {"completed", "failed"} :
          tasks' = [tasks EXCEPT ![t].state = result]
    /\ UNCHANGED <<context, run, steps, link, approvals, jobs, worker, decider, history, bounds>>

(* Whenever a delivery of the task ends, also one that only paused it, the *)
(* worker queues the run again.                                            *)
TaskReturns(t) ==
    /\ tasks[t].state # "created"
    /\ returns < MaxReturns
    /\ returns' = returns + 1
    /\ jobs' = jobs + 1
    /\ UNCHANGED <<context, run, rows, worker, decider, history, faults>>

-----------------------------------------------------------------------------
(* Decision requests.  A checkpoint's reads the run, then the step ...     *)
OpenDecision(d) ==
    /\ dpc[d] = "idle"
    /\ dpc' = [dpc EXCEPT ![d] = "lookup"]
    /\ cursor' = [cursor EXCEPT ![d] = index]
    /\ UNCHANGED <<context, run, rows, jobs, worker, target, verdict, history, bounds>>

FindCheckpoint(d) ==
    /\ dpc[d] = "lookup"
    /\ \E i \in OfKind("checkpoint"), answer \in {"approve", "deny"} :
          /\ steps[i] = "needs_approval"
          /\ target' = [target EXCEPT ![d] = i]
          /\ verdict' = [verdict EXCEPT ![d] = answer]
    /\ dpc' = [dpc EXCEPT ![d] = "step"]
    /\ UNCHANGED <<context, run, rows, jobs, worker, cursor, history, bounds>>

(* ... and answers 404 if no checkpoint waits.                             *)
FindNoCheckpoint(d) ==
    /\ dpc[d] = "lookup"
    /\ dpc' = [dpc EXCEPT ![d] = "idle"]
    /\ UNCHANGED <<context, run, rows, jobs, worker, cursor, target, verdict, history, bounds>>

(* A tool's pending request is decided under its lock.                     *)
DecideRequest(d) ==
    /\ dpc[d] = "idle"
    /\ \E i \in OfKind("tool") : \E k \in DOMAIN approvals[i], answer \in {"approve", "deny"} :
          /\ approvals[i][k] = "pending"
          /\ approvals' = [approvals EXCEPT ![i][k] =
                              IF answer = "approve" THEN "approved" ELSE "denied"]
          /\ target' = [target EXCEPT ![d] = i]
          /\ verdict' = [verdict EXCEPT ![d] = answer]
    /\ dpc' = [dpc EXCEPT ![d] = "step"]
    /\ UNCHANGED <<context, run, steps, link, tasks, jobs, worker, cursor, history, bounds>>

(* Either then saves the step: a tool's goes on, a checkpoint's is done.   *)
DecideStep(d) ==
    LET i == target[d] IN
    /\ dpc[d] = "step"
    /\ SetStep(i, IF verdict[d] = "deny" THEN "failed"
                  ELSE IF Kind[i] = "tool" THEN "in_progress" ELSE "completed")
    /\ released' = IF verdict[d] = "approve" THEN released \cup {i} ELSE released
    /\ dpc' = [dpc EXCEPT ![d] = "run"]
    /\ UNCHANGED <<context, run, link, tasks, approvals, jobs, worker, cursor, target,
                   verdict, executed, notified, bounds>>

(* ... and then the run; a checkpoint also moves the index it read, and an *)
(* approval queues a delivery.                                             *)
DecideRun(d) ==
    /\ dpc[d] = "run"
    /\ dpc' = [dpc EXCEPT ![d] = "idle"]
    /\ \/ /\ verdict[d] = "deny"
          /\ status' = "failed"
          /\ UNCHANGED <<index, jobs>>
       \/ /\ verdict[d] = "approve"
          /\ status' = "running"
          /\ index' = IF Kind[target[d]] = "checkpoint" THEN cursor[d] + 1 ELSE index
          /\ jobs' = jobs + 1
    /\ UNCHANGED <<context, rows, worker, cursor, target, verdict, history, bounds>>

-----------------------------------------------------------------------------
EngineStep(w) ==
    \/ Take(w) \/ ReadRun(w) \/ ReadStep(w) \/ Finish(w) \/ Advance(w) \/ Fail(w)
    \/ DecideCondition(w) \/ Jump(w) \/ ParkStep(w) \/ ParkRun(w)
    \/ Spawn(w) \/ Assign(w) \/ Poll(w) \/ CheckTool(w) \/ Reject(w)
    \/ RequestApproval(w) \/ ExecuteTool(w) \/ RecordOutput(w)

DecisionStep(d) ==
    \/ OpenDecision(d) \/ FindCheckpoint(d) \/ FindNoCheckpoint(d)
    \/ DecideRequest(d) \/ DecideStep(d) \/ DecideRun(d)

Next ==
    \/ \E w \in Workers : EngineStep(w) \/ Die(w)
    \/ \E d \in Deciders : DecisionStep(d)
    \/ \E t \in DOMAIN tasks : TaskReports(t) \/ TaskReturns(t)

Spec == Init /\ [][Next]_vars

(* Live workers take and finish deliveries, a decision request that has    *)
(* begun runs to its end; members and tasks promise nothing.               *)
Fairness ==
    /\ \A w \in Workers : WF_vars(EngineStep(w))
    /\ \A d \in Deciders : WF_vars(DecideStep(d) \/ DecideRun(d))

LiveSpec == Spec /\ Fairness

-----------------------------------------------------------------------------
(***************************************************************************)
(* Properties.                                                             *)
(***************************************************************************)

Stages == {"idle", "run", "step", "finish", "next", "fail", "condition", "jump",
           "checkpoint", "park", "park_run", "spawn", "assign", "poll", "tool",
           "reject", "request", "execute", "record"}

\* Type correctness of the run, its steps and tasks, and of what workers and
\* decision requests hold.
TypeOK ==
    /\ context \in [OfKind("condition") -> BOOLEAN]
    /\ status \in RunStatuses /\ index \in Nat
    /\ steps \in [Steps -> StepStatuses]
    /\ link \in [Steps -> 0..Len(tasks)]
    /\ tasks \in Seq([step : Steps, state : TaskStates])
    /\ approvals \in [Steps -> Seq({"pending", "approved", "denied"})]
    /\ jobs \in Nat
    /\ pc \in [Workers -> Stages] /\ at \in [Workers -> Nat]
    /\ held \in [Workers -> 0..Len(tasks)]
    /\ dpc \in [Deciders -> {"idle", "lookup", "step", "run"}]
    /\ cursor \in [Deciders -> Nat] /\ target \in [Deciders -> Steps]
    /\ verdict \in [Deciders -> {"approve", "deny"}]
    /\ executed \in [Steps -> Nat] /\ released \subseteq Steps /\ notified \in Nat
    /\ returns \in Nat /\ faults \in Nat

Spawned(i) == {t \in DOMAIN tasks : tasks[t].step = i}

Started(i) == executed[i] > 0 \/ Spawned(i) # {}

\* The branch the run's context takes at a condition.
Taken(k) == IF context[k] THEN IfTrue[k] ELSE IfFalse[k]

\* A condition before step i may lead past it.
Bypassed(i) == \E k \in OfKind("condition") : k < i /\ Taken(k) > i

\* Nothing behind a checkpoint starts before a member approved it, unless a
\* branch leads past it.
CheckpointsGate ==
    \A c \in OfKind("checkpoint"), i \in Steps :
        c < i /\ Started(i) /\ ~Bypassed(c) => c \in released

\* A tool of the workflow runs only if its permission may be automatic or a
\* member approved its request.
ToolConsent ==
    \A i \in OfKind("tool") :
        executed[i] > 0 /\ "auto" \notin Permissions =>
            \E k \in DOMAIN approvals[i] : approvals[i][k] = "approved"

\* Each tool step runs once and each coworker step has one task.
StepsOnce ==
    \A i \in Steps :
        executed[i] <= 1 /\ \A t, u \in Spawned(i) : t = u

\* A running run does not stay so unless it waits: for a task it spawned, or for
\* a member to decide a checkpoint.
RunSettles ==
    []<>(\/ status # "running"
         \/ \E t \in DOMAIN tasks : tasks[t].state = "open"
         \/ \E i \in OfKind("checkpoint") : steps[i] = "needs_approval")
=============================================================================
