------------------------- MODULE WorkflowRunProofs -------------------------
(***************************************************************************)
(* The safety of a workflow run, for every workflow.                       *)
(*                                                                         *)
(* Consent: the run's own fields are overwritten by whoever writes last,   *)
(* so nothing is concluded from them.  What holds is carried by the        *)
(* approval requests alone: their rows are only appended and decided once, *)
(* and a worker that is about to run a tool has seen one approved          *)
(* (ConsentInv).                                                           *)
(*                                                                         *)
(* Checkpoints: with one worker and one decision at a time, a step past a  *)
(* checkpoint has started, is stood at, or is where the run's index points *)
(* only when the checkpoint is approved (GateInv).                         *)
(*                                                                         *)
(* Repetition: without coworker steps, a run has a single chance to go on, *)
(* which is handed over between its queue, its workers, the checkpoint     *)
(* that waits, the request that is pending and the member who decides      *)
(* (OnceInv).                                                              *)
(***************************************************************************)
EXTENDS WorkflowRun, TLAPS

\* What the argument needs of the types.
RequestTypes ==
    /\ approvals \in [Steps -> Seq({"pending", "approved", "denied"})]
    /\ executed \in [Steps -> Nat]
    /\ pc \in [Workers -> Stages]
    /\ DOMAIN at = Workers /\ at = [w \in DOMAIN at |-> at[w]]

\* A worker between reading a tool step and running it stands at a tool step.
AtTool == \A w \in Workers : pc[w] \in {"tool", "request", "execute"} => at[w] \in OfKind("tool")

Approved(i) == \E k \in DOMAIN approvals[i] : approvals[i][k] = "approved"

NeverAutomatic == "auto" \notin Permissions

\* A worker about to run a tool that is never automatic has an approval.
RunsOnApproval ==
    NeverAutomatic => \A w \in Workers : pc[w] = "execute" => Approved(at[w])

ConsentInv == RequestTypes /\ AtTool /\ RunsOnApproval /\ ToolConsent

-----------------------------------------------------------------------------
\* Every member of Steps and every kind, as facts the provers can use.
LEMMA StepFacts ==
    /\ 0 \in Nat /\ Steps \subseteq Nat
    /\ \A kind : OfKind(kind) \subseteq Steps
    /\ \A i \in Steps : Kind[i] \in {"coworker", "tool", "checkpoint", "condition"}
    /\ \A i \in Steps : Kind[i] = "tool" => i \in OfKind("tool")
BY ConstantsAssumption DEF Steps, OfKind

\* Init has no request, no execution and no worker at a step.
LEMMA InitConsent == Init => ConsentInv
BY StepFacts DEF Init, ConsentInv, RequestTypes, AtTool, RunsOnApproval, ToolConsent, Stages

\* A step that leaves executed alone and keeps what is approved keeps consent.
LEMMA ApprovalsStand ==
    ASSUME ConsentInv, RequestTypes', executed' = executed,
           \A i \in Steps : Approved(i) => Approved(i)'
    PROVE  ToolConsent'
BY StepFacts DEF ConsentInv, ToolConsent, Approved, RequestTypes

\* A worker that moves on to anything but a tool needs no consent for it.
LEMMA WorkerMoves ==
    ASSUME ConsentInv, UNCHANGED <<approvals, executed, at>>,
           NEW w \in Workers, NEW stage \in Stages \ {"tool", "request", "execute"}, Goto(w, stage)
    PROVE  ConsentInv'
BY ApprovalsStand, StepFacts
DEF ConsentInv, RequestTypes, AtTool, RunsOnApproval, Goto, Stages, Approved

\* Appending a request or deciding a pending one approves and revokes nothing
\* that was approved.
LEMMA RequestsOnlyGrow ==
    ASSUME ConsentInv,
           \/ \E w \in Workers : RequestApproval(w)
           \/ \E d \in Deciders : DecideRequest(d)
    PROVE  /\ approvals' \in [Steps -> Seq({"pending", "approved", "denied"})]
           /\ \A i \in Steps : Approved(i) => Approved(i)'
<1>1. ASSUME NEW w \in Workers, RequestApproval(w)
      PROVE  /\ approvals' \in [Steps -> Seq({"pending", "approved", "denied"})]
             /\ \A i \in Steps : Approved(i) => Approved(i)'
  <2>1. at[w] \in Steps
    BY <1>1, StepFacts DEF RequestApproval, ConsentInv, AtTool
  <2>2. approvals' = [approvals EXCEPT ![at[w]] = Append(@, "pending")]
    BY <1>1 DEF RequestApproval
  <2>3. approvals[at[w]] \in Seq({"pending", "approved", "denied"})
    BY <2>1 DEF ConsentInv, RequestTypes
  <2>4. /\ Append(approvals[at[w]], "pending") \in Seq({"pending", "approved", "denied"})
        /\ \A k \in DOMAIN approvals[at[w]] :
              /\ k \in DOMAIN Append(approvals[at[w]], "pending")
              /\ Append(approvals[at[w]], "pending")[k] = approvals[at[w]][k]
    BY <2>3
  <2>. QED
    BY <2>1, <2>2, <2>4 DEF ConsentInv, RequestTypes, Approved
<1>2. ASSUME NEW d \in Deciders, DecideRequest(d)
      PROVE  /\ approvals' \in [Steps -> Seq({"pending", "approved", "denied"})]
             /\ \A i \in Steps : Approved(i) => Approved(i)'
  <2>1. PICK i \in OfKind("tool") : \E k \in DOMAIN approvals[i], answer \in {"approve", "deny"} :
            /\ approvals[i][k] = "pending"
            /\ approvals' = [approvals EXCEPT ![i][k] =
                                IF answer = "approve" THEN "approved" ELSE "denied"]
    BY <1>2 DEF DecideRequest
  <2>2. i \in Steps
    BY StepFacts
  <2>. QED
    BY <2>1, <2>2 DEF ConsentInv, RequestTypes, Approved
<1>. QED
  BY <1>1, <1>2

-----------------------------------------------------------------------------
(* One step per action.                                                    *)
LEMMA StepConsent == ConsentInv /\ [Next]_vars => ConsentInv'
<1>. SUFFICES ASSUME ConsentInv, [Next]_vars PROVE ConsentInv'
  OBVIOUS
<1>. USE StepFacts DEF ConsentInv, RequestTypes, AtTool, RunsOnApproval
<1>. DEFINE Untouched == UNCHANGED <<approvals, executed>>
\* The steps that move a worker, away from or towards a tool.
<1>1. ASSUME NEW w \in Workers, Take(w) PROVE ConsentInv'
  BY <1>1, ApprovalsStand DEF Take, Goto, rows, history, Stages, Approved
<1>2. ASSUME NEW w \in Workers, ReadRun(w) PROVE ConsentInv'
  <2>1. Untouched /\ \E stage \in {"step", "idle"} : pc' = [pc EXCEPT ![w] = stage]
    BY <1>2 DEF ReadRun, Goto, rows, history
  <2>2. at' = [at EXCEPT ![w] = index] \/ at' = at
    BY <1>2 DEF ReadRun
  <2>3. DOMAIN at' = Workers /\ at' = [v \in DOMAIN at' |-> at'[v]]
    BY <2>2
  <2>4. \A v \in Workers : v # w => at'[v] = at[v]
    BY <2>2
  <2>5. RequestTypes'
    <3>1. pc' \in [Workers -> Stages]
      BY ONLY ConsentInv, <2>1 DEF ConsentInv, RequestTypes, Stages
    <3>2. DOMAIN at' = Workers
      BY ONLY ConsentInv, <2>2 DEF ConsentInv, RequestTypes
    <3>. QED
      BY ONLY ConsentInv, <2>1, <2>3, <3>1, <3>2 DEF ConsentInv, RequestTypes
  <2>6. AtTool' /\ RunsOnApproval'
    BY <2>1, <2>4 DEF Stages, Approved
  <2>. QED
    BY <2>1, <2>5, <2>6, ApprovalsStand DEF Approved
<1>3. ASSUME NEW w \in Workers, ReadStep(w) PROVE ConsentInv'
  <2>1. UNCHANGED <<approvals, executed, at>>
    BY <1>3 DEF ReadStep, rows, history
  <2>2. PICK stage \in Stages \ {"request", "execute"} :
            /\ pc' = [pc EXCEPT ![w] = stage]
            /\ stage = "tool" => at[w] \in OfKind("tool")
    BY <1>3 DEF ReadStep, Goto, Stages
  <2>3. RequestTypes'
    BY <2>1, <2>2
  <2>4. AtTool' /\ RunsOnApproval'
    BY <2>1, <2>2 DEF Approved
  <2>. QED
    BY <2>1, <2>3, <2>4, ApprovalsStand DEF Approved
<1>4. ASSUME NEW w \in Workers, Finish(w) \/ Advance(w) \/ Fail(w) \/ Jump(w) \/ ParkRun(w)
      PROVE ConsentInv'
  <2>1. /\ UNCHANGED <<approvals, executed, at>>
        /\ Goto(w, "idle") \/ Goto(w, "run")
    BY <1>4 DEF Finish, Advance, Fail, Jump, ParkRun, rows, history
  <2>. QED
    BY <2>1, WorkerMoves DEF Stages
<1>5. ASSUME NEW w \in Workers, DecideCondition(w) \/ ParkStep(w) \/ Reject(w) \/ RecordOutput(w)
      PROVE ConsentInv'
  <2>1. /\ UNCHANGED <<approvals, executed, at>>
        /\ Goto(w, "jump") \/ Goto(w, "park_run") \/ Goto(w, "fail") \/ Goto(w, "next")
    BY <1>5 DEF DecideCondition, ParkStep, Reject, RecordOutput, history
  <2>. QED
    BY <2>1, WorkerMoves DEF Stages
<1>6. ASSUME NEW w \in Workers, Spawn(w) \/ Assign(w) \/ Poll(w) PROVE ConsentInv'
  <2>1. /\ UNCHANGED <<approvals, executed, at>>
        /\ Goto(w, "assign") \/ Goto(w, "idle") \/ Goto(w, "next") \/ Goto(w, "fail")
    BY <1>6, Zenon DEF Spawn, Assign, Poll, history
  <2>. QED
    BY <2>1, WorkerMoves DEF Stages
<1>7. ASSUME NEW w \in Workers, CheckTool(w) PROVE ConsentInv'
  <2>1. at[w] \in Steps
    BY <1>7 DEF CheckTool
  <2>2. LatestApproval(at[w]) \notin {"none", "pending", "denied"} => Approved(at[w])
    BY <2>1 DEF LatestApproval, Approved
  <2>3. NeverAutomatic /\ pc'[w] = "execute" => Approved(at[w])
    BY <1>7, <2>2, ConstantsAssumption DEF CheckTool, Goto, NeverAutomatic
  <2>4. Untouched /\ at' = at /\ pc' \in [Workers -> Stages]
        /\ \A v \in Workers : v # w => pc'[v] = pc[v]
    BY <1>7 DEF CheckTool, Goto, rows, history, Stages
  <2>. QED
    BY <1>7, <2>1, <2>3, <2>4, ApprovalsStand DEF CheckTool, Approved
<1>8. ASSUME NEW w \in Workers, RequestApproval(w) PROVE ConsentInv'
  BY <1>8, RequestsOnlyGrow, ApprovalsStand DEF RequestApproval, Goto, history, Stages
<1>9. ASSUME NEW w \in Workers, ExecuteTool(w) PROVE ConsentInv'
  <2>1. at[w] \in Steps /\ (NeverAutomatic => Approved(at[w]))
    BY <1>9 DEF ExecuteTool
  <2>2. executed' = [executed EXCEPT ![at[w]] = @ + 1] /\ approvals' = approvals
    BY <1>9 DEF ExecuteTool, rows
  <2>3. ToolConsent'
    BY <2>1, <2>2 DEF ToolConsent, Approved, NeverAutomatic
  <2>. QED
    BY <1>9, <2>1, <2>2, <2>3 DEF ExecuteTool, Goto, Stages, Approved
<1>10. ASSUME NEW w \in Workers, Die(w) PROVE ConsentInv'
  BY <1>10, ApprovalsStand DEF Die, Goto, rows, history, Stages, Approved
\* The tasks and the members.
<1>11. ASSUME NEW t \in DOMAIN tasks, TaskReports(t) \/ TaskReturns(t) PROVE ConsentInv'
  BY <1>11, ApprovalsStand DEF TaskReports, TaskReturns, rows, worker, history, Approved
<1>12. ASSUME NEW d \in Deciders,
              \/ OpenDecision(d) \/ FindCheckpoint(d) \/ FindNoCheckpoint(d)
              \/ DecideStep(d) \/ DecideRun(d)
       PROVE ConsentInv'
  BY <1>12, ApprovalsStand DEF OpenDecision, FindCheckpoint, FindNoCheckpoint, DecideStep,
     DecideRun, rows, worker, history, Approved
<1>13. ASSUME NEW d \in Deciders, DecideRequest(d) PROVE ConsentInv'
  <2>1. UNCHANGED <<pc, at, executed>>
    BY ONLY <1>13 DEF DecideRequest, worker, history
  <2>2. /\ approvals' \in [Steps -> Seq({"pending", "approved", "denied"})]
        /\ \A i \in Steps : Approved(i) => Approved(i)'
    BY <1>13, RequestsOnlyGrow
  <2>3. RequestTypes'
    BY ONLY ConsentInv, <2>1, <2>2 DEF ConsentInv, RequestTypes
  <2>4. AtTool' /\ RunsOnApproval'
    BY <2>1, <2>2
  <2>5. ToolConsent'
    BY <2>1, <2>2, <2>3, ApprovalsStand
  <2>. QED
    BY <2>3, <2>4, <2>5
<1>14. ASSUME UNCHANGED vars PROVE ConsentInv'
  BY <1>14, ApprovalsStand DEF vars, rows, worker, history, Approved
<1>. QED
  BY <1>1, <1>2, <1>3, <1>4, <1>5, <1>6, <1>7, <1>8, <1>9, <1>10, <1>11, <1>12, <1>13, <1>14
  DEF Next, EngineStep, DecisionStep

-----------------------------------------------------------------------------
\* No tool that may not run by itself runs before a member approved it, however
\* deliveries, decisions and crashes interleave and whatever they overwrite.
THEOREM ToolsRunOnConsent == Spec => []ToolConsent
BY InitConsent, StepConsent, PTL DEF Spec, ConsentInv

-----------------------------------------------------------------------------
(* Where workers and decision requests stand.                              *)

\* A worker's stage tells the kind of the step it stands at, and a worker about to
\* assign or poll has a task in hand.
AtOK == \A w \in Workers :
    /\ pc[w] \in {"tool", "reject", "request", "execute", "record", "park"} =>
          at[w] \in OfKind("tool")
    /\ pc[w] = "checkpoint" => at[w] \in OfKind("checkpoint")
    /\ pc[w] \in {"condition", "jump"} => at[w] \in OfKind("condition")
    /\ pc[w] \in {"spawn", "assign", "poll"} => at[w] \in OfKind("coworker")
    /\ pc[w] \in {"next", "park_run"} => at[w] \in Steps
    /\ pc[w] \in {"assign", "poll"} => held[w] \in DOMAIN tasks

\* What is decided is a checkpoint or a tool.
TargetOK == \A d \in Deciders :
    dpc[d] \in {"step", "run"} => target[d] \in OfKind("checkpoint") \cup OfKind("tool")

PlaceInv == TypeOK /\ AtOK /\ TargetOK

\* The steps of a kind, and the kind of a step.
LEMMA KindFacts ==
    /\ \A kind : \A i \in OfKind(kind) : i \in Steps /\ i \in Nat /\ Kind[i] = kind
    /\ \A i \in Steps : i \in OfKind(Kind[i]) /\ i \in Nat
    /\ 0 \in Steps
BY ConstantsAssumption DEF Steps, OfKind

\* TypeOK in four parts.
RunTypes ==
    /\ context \in [OfKind("condition") -> BOOLEAN]
    /\ status \in RunStatuses /\ index \in Nat /\ jobs \in Nat
    /\ notified \in Nat /\ returns \in Nat /\ faults \in Nat
RowTypes ==
    /\ steps \in [Steps -> StepStatuses]
    /\ approvals \in [Steps -> Seq({"pending", "approved", "denied"})]
    /\ executed \in [Steps -> Nat] /\ released \subseteq Steps
TaskTypes ==
    /\ tasks \in Seq([step : Steps, state : TaskStates])
    /\ link \in [Steps -> 0..Len(tasks)]
    /\ held \in [Workers -> 0..Len(tasks)]
ProcessTypes ==
    /\ pc \in [Workers -> Stages] /\ at \in [Workers -> Nat]
    /\ dpc \in [Deciders -> {"idle", "lookup", "step", "run"}]
    /\ cursor \in [Deciders -> Nat] /\ target \in [Deciders -> Steps]
    /\ verdict \in [Deciders -> {"approve", "deny"}]

LEMMA InitPlace == Init => PlaceInv
BY StepFacts, KindFacts DEF Init, PlaceInv, TypeOK, AtOK, TargetOK, RunStatuses, StepStatuses,
  TaskStates, Stages

\* A task that changes its state belongs to its step still.
LEMMA TaskUpdate ==
    ASSUME TypeOK, NEW t \in DOMAIN tasks, NEW state \in TaskStates,
           tasks' = [tasks EXCEPT ![t].state = state]
    PROVE  /\ tasks' \in Seq([step : Steps, state : TaskStates])
           /\ Len(tasks') = Len(tasks) /\ DOMAIN tasks' = DOMAIN tasks
           /\ \A u \in DOMAIN tasks : tasks'[u].step = tasks[u].step
<1> DEFINE Task == [step : Steps, state : TaskStates]
<1>0. tasks \in Seq(Task)
  BY DEF TypeOK
<1> HIDE DEF Task
<1>1. tasks \in Seq(Task) /\ tasks[t] \in Task
  BY <1>0
<1>2. [tasks[t] EXCEPT !.state = state] \in Task
  BY <1>1 DEF Task
<1>3. tasks' \in Seq(Task) /\ Len(tasks') = Len(tasks) /\ DOMAIN tasks' = DOMAIN tasks
  BY <1>1, <1>2
<1>4. \A u \in DOMAIN tasks : tasks'[u].step = tasks[u].step
  BY <1>1 DEF Task
<1> QED
  BY <1>3, <1>4 DEF Task

LEMMA StepPlace == PlaceInv /\ [Next]_vars => PlaceInv'
<1> SUFFICES ASSUME PlaceInv, [Next]_vars PROVE PlaceInv'
  OBVIOUS
<1> USE KindFacts DEF PlaceInv, TypeOK, AtOK, TargetOK, RunStatuses, StepStatuses, TaskStates, Stages,
  run, rows, worker, decider, history, bounds
<1>0. CASE UNCHANGED vars
  BY <1>0 DEF vars
<1>1. ASSUME NEW w \in Workers, Take(w) PROVE PlaceInv'
  <2>1. TypeOK'
    BY <1>1 DEF Take, Goto
  <2>2. AtOK'
    BY <1>1 DEF Take, Goto
  <2>3. TargetOK'
    BY <1>1 DEF Take, Goto
  <2> QED
    BY ONLY <2>1, <2>2, <2>3 DEF PlaceInv
<1>2. ASSUME NEW w \in Workers, ReadRun(w) PROVE PlaceInv'
  <2>0. /\ UNCHANGED <<context, run, rows, jobs, held, decider, history, bounds>>
        /\ \E stage \in {"step", "idle"} : pc' = [pc EXCEPT ![w] = stage]
        /\ at' = at \/ at' = [at EXCEPT ![w] = index]
    BY <1>2 DEF ReadRun, Goto
  <2>1. TypeOK'
    <3>1. at' \in [Workers -> Nat]
      BY ONLY PlaceInv, <2>0 DEF PlaceInv, TypeOK
    <3>2. pc' \in [Workers -> Stages]
      BY ONLY PlaceInv, <2>0 DEF PlaceInv, TypeOK, Stages
    <3> QED
      BY ONLY PlaceInv, <2>0, <3>1, <3>2 DEF PlaceInv, TypeOK, run, rows, worker, decider, history, bounds
  <2>2. AtOK'
    <3>1. /\ pc'[w] \in {"step", "idle"}
          /\ \A v \in Workers \ {w} : pc'[v] = pc[v] /\ at'[v] = at[v]
      BY ONLY PlaceInv, w \in Workers, <2>0 DEF PlaceInv, TypeOK
    <3>2. held' = held /\ tasks' = tasks
      BY ONLY <2>0 DEF rows
    <3> QED
      BY ONLY PlaceInv, <3>1, <3>2 DEF PlaceInv, AtOK
  <2>3. TargetOK'
    BY <2>0
  <2> QED
    BY ONLY <2>1, <2>2, <2>3 DEF PlaceInv
<1>3. ASSUME NEW w \in Workers, ReadStep(w) PROVE PlaceInv'
  <2>1. PICK new : new = IF at[w] \in Steps THEN link[at[w]] ELSE 0
    OBVIOUS
  <2>2. /\ new \in 0..Len(tasks) /\ held' = [held EXCEPT ![w] = new]
        /\ UNCHANGED <<context, run, rows, jobs, at, decider, history, bounds>>
    BY <1>3, <2>1 DEF ReadStep
  <2>3. PICK stage \in Stages :
          /\ pc' = [pc EXCEPT ![w] = stage]
          /\ stage \in {"tool", "checkpoint", "condition"} => at[w] \in OfKind(stage)
          /\ stage \in {"spawn", "poll"} => at[w] \in OfKind("coworker")
          /\ stage = "poll" => new # 0
          /\ stage = "next" => at[w] \in Steps
          /\ stage \in {"tool", "checkpoint", "condition", "spawn", "poll", "next", "idle", "finish"}
    <3>1. CASE at[w] \notin Steps
      BY <1>3, <3>1 DEF ReadStep, Goto
    <3>2. CASE at[w] \in Steps /\ steps[at[w]] = "needs_approval"
      BY <1>3, <3>2 DEF ReadStep, Goto
    <3>3. CASE at[w] \in Steps /\ steps[at[w]] = "completed"
      BY <1>3, <3>3 DEF ReadStep, Goto
    <3>4. CASE at[w] \in Steps /\ steps[at[w]] \notin {"needs_approval", "completed"}
      <4>1. /\ Kind[at[w]] \in {"coworker", "tool", "checkpoint", "condition"}
            /\ at[w] \in OfKind(Kind[at[w]])
        BY <3>4, StepFacts
      <4>2. Goto(w, IF Kind[at[w]] # "coworker" THEN Kind[at[w]]
                    ELSE IF link[at[w]] = 0 THEN "spawn" ELSE "poll")
        BY <1>3, <3>4 DEF ReadStep
      <4> QED
        BY <2>1, <3>4, <4>1, <4>2 DEF Goto
    <3> QED
      BY <3>1, <3>2, <3>3, <3>4
  <2>4. TypeOK'
    <3>1. held' \in [Workers -> 0..Len(tasks)] /\ pc' \in [Workers -> Stages]
      BY <2>2, <2>3
    <3> QED
      BY ONLY PlaceInv, <2>2, <3>1 DEF PlaceInv, TypeOK, run, rows, worker, decider, history, bounds
  <2>5. AtOK'
    <3>1. \A v \in Workers \ {w} : pc'[v] = pc[v] /\ held'[v] = held[v]
      BY <2>2, <2>3
    <3>2. pc'[w] = stage /\ held'[w] = new
      BY <2>2, <2>3
    <3>3. stage = "poll" => new \in DOMAIN tasks
      BY <2>2, <2>3
    <3>4. at' = at /\ tasks' = tasks
      BY ONLY <2>2 DEF rows
    <3> QED
      BY ONLY PlaceInv, <2>3, <3>1, <3>2, <3>3, <3>4 DEF PlaceInv, AtOK
  <2>6. TargetOK'
    BY <2>2
  <2> QED
    BY ONLY <2>4, <2>5, <2>6 DEF PlaceInv
<1>4. ASSUME NEW w \in Workers, Finish(w) PROVE PlaceInv'
  <2>1. TypeOK'
    <3>1. RunTypes'
      BY <1>4 DEF Finish, RunTypes
    <3>2. RowTypes'
      BY <1>4 DEF Finish, RowTypes
    <3>3. TaskTypes'
      BY <1>4 DEF Finish, TaskTypes
    <3>4. ProcessTypes'
      BY <1>4 DEF Finish, Goto, ProcessTypes
    <3> QED
      BY ONLY <3>1, <3>2, <3>3, <3>4 DEF TypeOK, RunTypes, RowTypes, TaskTypes, ProcessTypes
  <2>2. AtOK'
    BY <1>4 DEF Finish, Goto
  <2>3. TargetOK'
    BY <1>4 DEF Finish, Goto
  <2> QED
    BY ONLY <2>1, <2>2, <2>3 DEF PlaceInv
<1>5. ASSUME NEW w \in Workers, Advance(w) PROVE PlaceInv'
  <2>1. TypeOK'
    <3>1. RunTypes'
      BY <1>5 DEF Advance, RunTypes
    <3>2. RowTypes'
      BY <1>5 DEF Advance, RowTypes
    <3>3. TaskTypes'
      BY <1>5 DEF Advance, TaskTypes
    <3>4. ProcessTypes'
      BY <1>5 DEF Advance, Goto, ProcessTypes
    <3> QED
      BY ONLY <3>1, <3>2, <3>3, <3>4 DEF TypeOK, RunTypes, RowTypes, TaskTypes, ProcessTypes
  <2>2. AtOK'
    BY <1>5 DEF Advance, Goto
  <2>3. TargetOK'
    BY <1>5 DEF Advance, Goto
  <2> QED
    BY ONLY <2>1, <2>2, <2>3 DEF PlaceInv
<1>6. ASSUME NEW w \in Workers, Fail(w) PROVE PlaceInv'
  <2>1. TypeOK'
    <3>1. RunTypes'
      BY <1>6 DEF Fail, RunTypes
    <3>2. RowTypes'
      BY <1>6 DEF Fail, RowTypes
    <3>3. TaskTypes'
      BY <1>6 DEF Fail, TaskTypes
    <3>4. ProcessTypes'
      BY <1>6 DEF Fail, Goto, ProcessTypes
    <3> QED
      BY ONLY <3>1, <3>2, <3>3, <3>4 DEF TypeOK, RunTypes, RowTypes, TaskTypes, ProcessTypes
  <2>2. AtOK'
    BY <1>6 DEF Fail, Goto
  <2>3. TargetOK'
    BY <1>6 DEF Fail, Goto
  <2> QED
    BY ONLY <2>1, <2>2, <2>3 DEF PlaceInv
<1>7. ASSUME NEW w \in Workers, DecideCondition(w) PROVE PlaceInv'
  <2>1. TypeOK'
    BY <1>7 DEF DecideCondition, Goto, SetStep
  <2>2. AtOK'
    BY <1>7 DEF DecideCondition, Goto, SetStep
  <2>3. TargetOK'
    BY <1>7 DEF DecideCondition, Goto, SetStep
  <2> QED
    BY ONLY <2>1, <2>2, <2>3 DEF PlaceInv
<1>8. ASSUME NEW w \in Workers, Jump(w) PROVE PlaceInv'
  <2>1. TypeOK'
    <3>1. index' \in Nat
      BY <1>8, ConstantsAssumption DEF Jump
    <3> QED
      BY <1>8, <3>1 DEF Jump, Goto
  <2>2. AtOK'
    BY <1>8 DEF Jump, Goto
  <2>3. TargetOK'
    BY <1>8 DEF Jump
  <2> QED
    BY ONLY <2>1, <2>2, <2>3 DEF PlaceInv
<1>9. ASSUME NEW w \in Workers, ParkStep(w) PROVE PlaceInv'
  <2>1. TypeOK'
    BY <1>9 DEF ParkStep, Goto, SetStep
  <2>2. AtOK'
    BY <1>9 DEF ParkStep, Goto, SetStep
  <2>3. TargetOK'
    BY <1>9 DEF ParkStep, Goto, SetStep
  <2> QED
    BY ONLY <2>1, <2>2, <2>3 DEF PlaceInv
<1>10. ASSUME NEW w \in Workers, ParkRun(w) PROVE PlaceInv'
  <2>1. TypeOK'
    BY <1>10 DEF ParkRun, Goto
  <2>2. AtOK'
    BY <1>10 DEF ParkRun, Goto
  <2>3. TargetOK'
    BY <1>10 DEF ParkRun, Goto
  <2> QED
    BY ONLY <2>1, <2>2, <2>3 DEF PlaceInv
<1>11. ASSUME NEW w \in Workers, Spawn(w) PROVE PlaceInv'
  <2>1. PICK new : new = [step |-> at[w], state |-> "created"]
    OBVIOUS
  <2>2. /\ tasks' = Append(tasks, new) /\ held' = [held EXCEPT ![w] = Len(tasks')]
        /\ pc' = [pc EXCEPT ![w] = "assign"] /\ at[w] \in OfKind("coworker")
        /\ UNCHANGED <<context, run, steps, link, approvals, jobs, at, decider, history, bounds>>
    BY <1>11, <2>1 DEF Spawn, Goto
  <2>3. /\ tasks' \in Seq([step : Steps, state : TaskStates]) /\ Len(tasks') = Len(tasks) + 1
        /\ Len(tasks) \in Nat /\ DOMAIN tasks \subseteq DOMAIN tasks' /\ Len(tasks') \in DOMAIN tasks'
    <3> DEFINE Task == [step : Steps, state : TaskStates]
    <3>1. new \in Task /\ tasks \in Seq(Task)
      BY <2>1, <2>2
    <3> HIDE DEF Task
    <3>2. /\ Append(tasks, new) \in Seq(Task) /\ Len(Append(tasks, new)) = Len(tasks) + 1
          /\ Len(tasks) \in Nat /\ DOMAIN tasks \subseteq DOMAIN Append(tasks, new)
          /\ Len(tasks) + 1 \in DOMAIN Append(tasks, new)
      BY ONLY <3>1
    <3> QED
      BY ONLY <2>2, <3>2 DEF Task
  <2>4. TypeOK'
    <3>1. link' \in [Steps -> 0..Len(tasks')] /\ held' \in [Workers -> 0..Len(tasks')]
      BY ONLY PlaceInv, <2>2, <2>3 DEF PlaceInv, TypeOK
    <3>2. pc' \in [Workers -> Stages]
      BY <2>2
    <3> QED
      BY ONLY PlaceInv, <2>2, <2>3, <3>1, <3>2 DEF PlaceInv, TypeOK, run, rows, worker, decider, history, bounds
  <2>5. AtOK'
    <3>1. \A v \in Workers \ {w} : pc'[v] = pc[v] /\ held'[v] = held[v]
      BY <2>2
    <3>2. pc'[w] = "assign" /\ held'[w] = Len(tasks')
      BY <2>2
    <3> QED
      BY <2>2, <2>3, <3>1, <3>2
  <2>6. TargetOK'
    BY <2>2
  <2> QED
    BY ONLY <2>4, <2>5, <2>6 DEF PlaceInv
<1>12. ASSUME NEW w \in Workers, Assign(w) PROVE PlaceInv'
  <2>1. /\ held[w] \in DOMAIN tasks /\ at[w] \in Steps
        /\ link' = [link EXCEPT ![at[w]] = held[w]] /\ steps' = [steps EXCEPT ![at[w]] = "in_progress"]
        /\ pc' = [pc EXCEPT ![w] = "idle"] /\ jobs' = jobs + 1
        /\ tasks' = [tasks EXCEPT ![held[w]].state = "open"]
        /\ UNCHANGED <<context, run, approvals, at, held, decider, history, bounds>>
    BY <1>12 DEF Assign, Goto, SetStep
  <2>2. /\ tasks' \in Seq([step : Steps, state : TaskStates])
        /\ Len(tasks') = Len(tasks) /\ DOMAIN tasks' = DOMAIN tasks
    BY <2>1, TaskUpdate
  <2>3. TypeOK'
    <3>1. link' \in [Steps -> 0..Len(tasks)] /\ steps' \in [Steps -> StepStatuses]
      BY <2>1
    <3>2. pc' \in [Workers -> Stages]
      BY ONLY PlaceInv, <2>1 DEF PlaceInv, TypeOK, Stages
    <3>3. jobs' \in Nat
      <4>1. jobs' = jobs + 1 /\ jobs \in Nat
        BY ONLY PlaceInv, <2>1 DEF PlaceInv, TypeOK
      <4> QED
        BY ONLY <4>1
    <3> QED
      BY ONLY PlaceInv, <2>1, <2>2, <3>1, <3>2, <3>3 DEF PlaceInv, TypeOK, run, rows, worker, decider, history, bounds
  <2>4. AtOK' /\ TargetOK'
    BY <2>1, <2>2
  <2> QED
    BY ONLY <2>3, <2>4 DEF PlaceInv
<1>13. ASSUME NEW w \in Workers, Poll(w) PROVE PlaceInv'
  <2>1. /\ held[w] \in DOMAIN tasks /\ at[w] \in OfKind("coworker") /\ at[w] \in Steps
        /\ UNCHANGED <<context, run, tasks, approvals, at, held, decider, history, bounds>>
    BY <1>13 DEF Poll
  <2>2. \/ /\ \E state \in {"completed", "failed"} : steps' = [steps EXCEPT ![at[w]] = state]
           /\ link' = [link EXCEPT ![at[w]] = held[w]] /\ jobs' = jobs
           /\ \E stage \in {"next", "fail"} : pc' = [pc EXCEPT ![w] = stage]
        \/ /\ jobs' = jobs + 1 /\ pc' = [pc EXCEPT ![w] = "idle"] /\ UNCHANGED <<steps, link>>
    BY <1>13 DEF Poll, Goto, SetStep
  <2>3. TypeOK'
    <3>1. link' \in [Steps -> 0..Len(tasks)]
      <4>1. held[w] \in 0..Len(tasks) /\ link \in [Steps -> 0..Len(tasks)]
        BY ONLY PlaceInv, w \in Workers DEF PlaceInv, TypeOK
      <4>2. link' = link \/ link' = [link EXCEPT ![at[w]] = held[w]]
        BY ONLY <2>2
      <4> QED
        BY ONLY <4>1, <4>2
    <3>2. steps' \in [Steps -> StepStatuses]
      <4>1. steps \in [Steps -> StepStatuses]
        BY ONLY PlaceInv DEF PlaceInv, TypeOK
      <4> QED
        BY ONLY <4>1, <2>2 DEF StepStatuses
    <3>3. pc' \in [Workers -> Stages]
      <4>1. pc \in [Workers -> Stages]
        BY ONLY PlaceInv DEF PlaceInv, TypeOK
      <4>2. \E stage \in {"next", "fail", "idle"} : pc' = [pc EXCEPT ![w] = stage]
        BY ONLY <2>2
      <4> QED
        BY ONLY <4>1, <4>2 DEF Stages
    <3>4. jobs' \in Nat
      <4>1. jobs \in Nat /\ (jobs' = jobs \/ jobs' = jobs + 1)
        BY ONLY PlaceInv, <2>2 DEF PlaceInv, TypeOK
      <4> QED
        BY ONLY <4>1
    <3> QED
      BY ONLY PlaceInv, <2>1, <3>1, <3>2, <3>3, <3>4 DEF PlaceInv, TypeOK, run, rows, worker, decider, history, bounds
  <2>4. AtOK'
    <3>1. /\ pc'[w] \in {"next", "fail", "idle"}
          /\ \A v \in Workers \ {w} : pc'[v] = pc[v]
      BY ONLY PlaceInv, w \in Workers, <2>2 DEF PlaceInv, TypeOK
    <3>2. at' = at /\ held' = held /\ tasks' = tasks /\ at[w] \in Steps
      BY ONLY <2>1
    <3> QED
      BY ONLY PlaceInv, <3>1, <3>2 DEF PlaceInv, AtOK
  <2>5. TargetOK'
    BY <2>1
  <2> QED
    BY ONLY <2>3, <2>4, <2>5 DEF PlaceInv
<1>14. ASSUME NEW w \in Workers, CheckTool(w) PROVE PlaceInv'
  <2>1. TypeOK'
    <3>1. RunTypes'
      BY <1>14 DEF CheckTool, RunTypes
    <3>2. RowTypes'
      BY <1>14 DEF CheckTool, RowTypes
    <3>3. TaskTypes'
      BY <1>14 DEF CheckTool, TaskTypes
    <3>4. ProcessTypes'
      <4>1. PICK stage \in {"reject", "request", "idle", "fail", "execute"} :
                pc' = [pc EXCEPT ![w] = stage]
        BY ONLY <1>14 DEF CheckTool, Goto
      <4>2. UNCHANGED <<at, decider>>
        BY ONLY <1>14 DEF CheckTool
      <4> QED
        BY <4>1, <4>2 DEF ProcessTypes
    <3> QED
      BY ONLY <3>1, <3>2, <3>3, <3>4 DEF TypeOK, RunTypes, RowTypes, TaskTypes, ProcessTypes
  <2>2. AtOK'
    BY <1>14 DEF CheckTool, Goto
  <2>3. TargetOK'
    BY <1>14 DEF CheckTool, Goto
  <2> QED
    BY ONLY <2>1, <2>2, <2>3 DEF PlaceInv
<1>15. ASSUME NEW w \in Workers, Reject(w) PROVE PlaceInv'
  <2>1. TypeOK'
    <3>1. RunTypes'
      BY <1>15 DEF Reject, RunTypes
    <3>2. RowTypes'
      BY <1>15 DEF Reject, SetStep, RowTypes
    <3>3. TaskTypes'
      BY <1>15 DEF Reject, TaskTypes
    <3>4. ProcessTypes'
      BY <1>15 DEF Reject, Goto, ProcessTypes
    <3> QED
      BY ONLY <3>1, <3>2, <3>3, <3>4 DEF TypeOK, RunTypes, RowTypes, TaskTypes, ProcessTypes
  <2>2. AtOK'
    BY <1>15 DEF Reject, Goto, SetStep
  <2>3. TargetOK'
    BY <1>15 DEF Reject, Goto, SetStep
  <2> QED
    BY ONLY <2>1, <2>2, <2>3 DEF PlaceInv
<1>16. ASSUME NEW w \in Workers, RequestApproval(w) PROVE PlaceInv'
  <2>1. TypeOK'
    <3>1. RunTypes'
      BY <1>16 DEF RequestApproval, RunTypes
    <3>2. RowTypes'
      BY <1>16 DEF RequestApproval, RowTypes
    <3>3. TaskTypes'
      BY <1>16 DEF RequestApproval, TaskTypes
    <3>4. ProcessTypes'
      BY <1>16 DEF RequestApproval, Goto, ProcessTypes
    <3> QED
      BY ONLY <3>1, <3>2, <3>3, <3>4 DEF TypeOK, RunTypes, RowTypes, TaskTypes, ProcessTypes
  <2>2. AtOK'
    BY <1>16 DEF RequestApproval, Goto
  <2>3. TargetOK'
    BY <1>16 DEF RequestApproval, Goto
  <2> QED
    BY ONLY <2>1, <2>2, <2>3 DEF PlaceInv
<1>17. ASSUME NEW w \in Workers, ExecuteTool(w) PROVE PlaceInv'
  <2>1. TypeOK'
    <3>1. RunTypes'
      BY <1>17 DEF ExecuteTool, Goto, RunTypes
    <3>2. RowTypes'
      BY <1>17 DEF ExecuteTool, Goto, RowTypes
    <3>3. TaskTypes'
      BY <1>17 DEF ExecuteTool, Goto, TaskTypes
    <3>4. ProcessTypes'
      BY <1>17 DEF ExecuteTool, Goto, ProcessTypes
    <3> QED
      BY ONLY <3>1, <3>2, <3>3, <3>4 DEF TypeOK, RunTypes, RowTypes, TaskTypes, ProcessTypes
  <2>2. AtOK'
    BY <1>17 DEF ExecuteTool, Goto
  <2>3. TargetOK'
    BY <1>17 DEF ExecuteTool, Goto
  <2> QED
    BY ONLY <2>1, <2>2, <2>3 DEF PlaceInv
<1>18. ASSUME NEW w \in Workers, RecordOutput(w) PROVE PlaceInv'
  <2>1. TypeOK'
    <3>1. RunTypes'
      BY <1>18 DEF RecordOutput, RunTypes
    <3>2. RowTypes'
      BY <1>18 DEF RecordOutput, SetStep, RowTypes
    <3>3. TaskTypes'
      BY <1>18 DEF RecordOutput, TaskTypes
    <3>4. ProcessTypes'
      BY <1>18 DEF RecordOutput, Goto, ProcessTypes
    <3> QED
      BY ONLY <3>1, <3>2, <3>3, <3>4 DEF TypeOK, RunTypes, RowTypes, TaskTypes, ProcessTypes
  <2>2. AtOK'
    BY <1>18 DEF RecordOutput, Goto, SetStep
  <2>3. TargetOK'
    BY <1>18 DEF RecordOutput, Goto, SetStep
  <2> QED
    BY ONLY <2>1, <2>2, <2>3 DEF PlaceInv
<1>19. ASSUME NEW w \in Workers, Die(w) PROVE PlaceInv'
  <2>1. TypeOK'
    BY <1>19 DEF Die, Goto
  <2>2. AtOK'
    BY <1>19 DEF Die, Goto
  <2>3. TargetOK'
    BY <1>19 DEF Die, Goto
  <2> QED
    BY ONLY <2>1, <2>2, <2>3 DEF PlaceInv
<1>20. ASSUME NEW d \in Deciders, OpenDecision(d) PROVE PlaceInv'
  <2>1. TypeOK'
    <3>1. RunTypes'
      BY <1>20 DEF OpenDecision, RunTypes
    <3>2. RowTypes'
      BY <1>20 DEF OpenDecision, RowTypes
    <3>3. TaskTypes'
      BY <1>20 DEF OpenDecision, TaskTypes
    <3>4. ProcessTypes'
      BY <1>20 DEF OpenDecision, ProcessTypes
    <3> QED
      BY ONLY <3>1, <3>2, <3>3, <3>4 DEF TypeOK, RunTypes, RowTypes, TaskTypes, ProcessTypes
  <2>2. AtOK'
    BY <1>20 DEF OpenDecision
  <2>3. TargetOK'
    BY <1>20 DEF OpenDecision
  <2> QED
    BY ONLY <2>1, <2>2, <2>3 DEF PlaceInv
<1>21. ASSUME NEW d \in Deciders, FindCheckpoint(d) PROVE PlaceInv'
  <2>1. TypeOK'
    <3>1. RunTypes'
      BY <1>21 DEF FindCheckpoint, RunTypes
    <3>2. RowTypes'
      BY <1>21 DEF FindCheckpoint, RowTypes
    <3>3. TaskTypes'
      BY <1>21 DEF FindCheckpoint, TaskTypes
    <3>4. ProcessTypes'
      BY <1>21 DEF FindCheckpoint, ProcessTypes
    <3> QED
      BY ONLY <3>1, <3>2, <3>3, <3>4 DEF TypeOK, RunTypes, RowTypes, TaskTypes, ProcessTypes
  <2>2. AtOK'
    BY <1>21 DEF FindCheckpoint
  <2>3. TargetOK'
    BY <1>21 DEF FindCheckpoint
  <2> QED
    BY ONLY <2>1, <2>2, <2>3 DEF PlaceInv
<1>22. ASSUME NEW d \in Deciders, FindNoCheckpoint(d) PROVE PlaceInv'
  <2>1. TypeOK'
    BY <1>22 DEF FindNoCheckpoint
  <2>2. AtOK'
    BY <1>22 DEF FindNoCheckpoint
  <2>3. TargetOK'
    BY <1>22 DEF FindNoCheckpoint
  <2> QED
    BY ONLY <2>1, <2>2, <2>3 DEF PlaceInv
<1>23. ASSUME NEW d \in Deciders, DecideRequest(d) PROVE PlaceInv'
  <2>1. PICK i \in OfKind("tool") : \E k \in DOMAIN approvals[i], answer \in {"approve", "deny"} :
          /\ approvals[i][k] = "pending"
          /\ approvals' = [approvals EXCEPT ![i][k] =
                              IF answer = "approve" THEN "approved" ELSE "denied"]
          /\ target' = [target EXCEPT ![d] = i]
          /\ verdict' = [verdict EXCEPT ![d] = answer]
    BY <1>23 DEF DecideRequest
  <2>2. PICK k \in DOMAIN approvals[i], answer \in {"approve", "deny"} :
          /\ approvals' = [approvals EXCEPT ![i][k] =
                              IF answer = "approve" THEN "approved" ELSE "denied"]
          /\ target' = [target EXCEPT ![d] = i]
          /\ verdict' = [verdict EXCEPT ![d] = answer]
    BY <2>1
  <2>3. /\ dpc' = [dpc EXCEPT ![d] = "step"]
        /\ UNCHANGED <<context, run, steps, link, tasks, jobs, worker, cursor, history, bounds>>
    BY <1>23 DEF DecideRequest
  <2>4. TypeOK'
    <3>1. approvals' \in [Steps -> Seq({"pending", "approved", "denied"})]
      <4> DEFINE Answers == {"pending", "approved", "denied"}
      <4>1. PICK new \in Answers : approvals' = [approvals EXCEPT ![i][k] = new]
        BY ONLY <2>2
      <4>2. approvals \in [Steps -> Seq(Answers)] /\ i \in Steps
        BY KindFacts
      <4> HIDE DEF Answers
      <4>3. approvals[i] \in Seq(Answers) /\ k \in DOMAIN approvals[i]
        BY ONLY <4>2, k \in DOMAIN approvals[i]
      <4>4. [approvals[i] EXCEPT ![k] = new] \in Seq(Answers)
        BY ONLY <4>3, new \in Answers
      <4>5. approvals' \in [Steps -> Seq(Answers)]
        BY ONLY <4>1, <4>2, <4>4
      <4> QED
        BY ONLY <4>5 DEF Answers
    <3>2. /\ target' \in [Deciders -> Steps] /\ verdict' \in [Deciders -> {"approve", "deny"}]
          /\ dpc' \in [Deciders -> {"idle", "lookup", "step", "run"}]
      BY <2>2, <2>3
    <3> QED
      BY <2>3, <3>1, <3>2
  <2>5. AtOK' /\ TargetOK'
    BY <2>2, <2>3
  <2> QED
    BY ONLY <2>4, <2>5 DEF PlaceInv
<1>24. ASSUME NEW d \in Deciders, DecideStep(d) PROVE PlaceInv'
  <2>1. TypeOK'
    <3>1. RunTypes'
      BY <1>24 DEF DecideStep, RunTypes
    <3>2. RowTypes'
      BY <1>24 DEF DecideStep, SetStep, RowTypes
    <3>3. TaskTypes'
      BY <1>24 DEF DecideStep, TaskTypes
    <3>4. ProcessTypes'
      BY <1>24 DEF DecideStep, ProcessTypes
    <3> QED
      BY ONLY <3>1, <3>2, <3>3, <3>4 DEF TypeOK, RunTypes, RowTypes, TaskTypes, ProcessTypes
  <2>2. AtOK'
    BY <1>24 DEF DecideStep, SetStep
  <2>3. TargetOK'
    BY <1>24 DEF DecideStep, SetStep
  <2> QED
    BY ONLY <2>1, <2>2, <2>3 DEF PlaceInv
<1>25. ASSUME NEW d \in Deciders, DecideRun(d) PROVE PlaceInv'
  <2>0. /\ status' \in RunStatuses /\ index' \in Nat /\ jobs' \in Nat /\ dpc' = [dpc EXCEPT ![d] = "idle"]
        /\ UNCHANGED <<context, rows, worker, cursor, target, verdict, history, bounds>>
    <3>1. CASE verdict[d] = "deny"
      BY <1>25, <3>1 DEF DecideRun
    <3>2. CASE verdict[d] = "approve"
      BY <1>25, <3>2 DEF DecideRun
    <3> QED
      BY <1>25, <3>1, <3>2 DEF DecideRun
  <2>1. TypeOK'
    <3>1. dpc' \in [Deciders -> {"idle", "lookup", "step", "run"}]
      BY ONLY PlaceInv, <2>0 DEF PlaceInv, TypeOK
    <3> QED
      BY ONLY PlaceInv, <2>0, <3>1 DEF PlaceInv, TypeOK, rows, worker, history, bounds
  <2>2. AtOK'
    BY ONLY PlaceInv, <2>0 DEF PlaceInv, AtOK, rows, worker
  <2>3. TargetOK'
    <3>1. dpc'[d] = "idle" /\ \A e \in Deciders \ {d} : dpc'[e] = dpc[e]
      BY ONLY PlaceInv, d \in Deciders, <2>0 DEF PlaceInv, TypeOK
    <3> QED
      BY ONLY PlaceInv, <2>0, <3>1 DEF PlaceInv, TargetOK
  <2> QED
    BY ONLY <2>1, <2>2, <2>3 DEF PlaceInv
<1>26. ASSUME NEW t \in DOMAIN tasks, TaskReports(t) PROVE PlaceInv'
  <2>0. /\ \E state \in TaskStates : tasks' = [tasks EXCEPT ![t].state = state]
        /\ UNCHANGED <<context, run, steps, link, approvals, jobs, worker, decider, history, bounds>>
    BY <1>26 DEF TaskReports
  <2>00. /\ tasks' \in Seq([step : Steps, state : TaskStates])
         /\ Len(tasks') = Len(tasks) /\ DOMAIN tasks' = DOMAIN tasks
    BY <2>0, TaskUpdate
  <2> QED
    BY <2>0, <2>00
<1>27. ASSUME NEW t \in DOMAIN tasks, TaskReturns(t) PROVE PlaceInv'
  <2>1. TypeOK'
    <3>1. RunTypes'
      BY <1>27 DEF TaskReturns, RunTypes
    <3>2. RowTypes'
      BY <1>27 DEF TaskReturns, RowTypes
    <3>3. TaskTypes'
      BY <1>27 DEF TaskReturns, TaskTypes
    <3>4. ProcessTypes'
      BY <1>27 DEF TaskReturns, ProcessTypes
    <3> QED
      BY ONLY <3>1, <3>2, <3>3, <3>4 DEF TypeOK, RunTypes, RowTypes, TaskTypes, ProcessTypes
  <2>2. AtOK'
    BY <1>27 DEF TaskReturns
  <2>3. TargetOK'
    BY <1>27 DEF TaskReturns
  <2> QED
    BY ONLY <2>1, <2>2, <2>3 DEF PlaceInv
<1> QED
  BY ONLY [Next]_vars, <1>0, <1>1, <1>2, <1>3, <1>4, <1>5, <1>6, <1>7, <1>8, <1>9, <1>10, <1>11, <1>12, <1>13, <1>14, <1>15, <1>16, <1>17, <1>18, <1>19, <1>20, <1>21, <1>22, <1>23, <1>24, <1>25, <1>26, <1>27 DEF Next, EngineStep, DecisionStep

-----------------------------------------------------------------------------
(* Checkpoints.                                                            *)

Checkpoints == OfKind("checkpoint")

\* One delivery of the run is worked on at a time, one decision is made at a time, and no
\* condition leads past a checkpoint.
OneWorker == \A v, w \in Workers : v = w
OneDecision == \A c, d \in Deciders : c = d
NothingPassedOver ==
    \A k \in OfKind("condition"), c \in Checkpoints : k < c => IfTrue[k] <= c /\ IfFalse[k] <= c

\* Every checkpoint before step i was approved.
Passed(i) == \A c \in Checkpoints : c < i => c \in released

\* A checkpoint's step is completed by an approval and by nothing else.
DoneReleased == \A c \in Checkpoints : c \in released <=> steps[c] = "completed"

\* What waits, is worked on or was read lies behind approved checkpoints only; a worker
\* that goes on has one behind it, and one that parks found a checkpoint not yet waiting.
WaitsPassed == \A c \in Checkpoints : steps[c] = "needs_approval" => Passed(c)
WorkerPassed == \A w \in Workers :
    /\ Passed(at[w])
    /\ pc[w] = "next" => Passed(at[w] + 1)
    /\ pc[w] = "checkpoint" => steps[at[w]] \notin {"completed", "needs_approval"}
DeciderPassed == \A d \in Deciders :
    /\ Passed(cursor[d])
    /\ dpc[d] = "step" /\ target[d] \in Checkpoints => steps[target[d]] = "needs_approval"
    /\ dpc[d] = "run" /\ verdict[d] = "approve" /\ target[d] \in Checkpoints =>
          Passed(cursor[d] + 1)
StartedPassed == \A i \in Steps : Started(i) => Passed(i)

GateInv ==
    /\ DoneReleased /\ WaitsPassed /\ Passed(index)
    /\ WorkerPassed /\ DeciderPassed /\ StartedPassed

LEMMA InitGate == Init => GateInv
<1> SUFFICES ASSUME Init PROVE GateInv
  OBVIOUS
<1>1. Passed(0)
  BY KindFacts, ConstantsAssumption DEF Passed, Checkpoints, Steps
<1>2. \A i \in Steps : ~Started(i)
  BY DEF Init, Started, Spawned
<1> QED
  BY <1>1, <1>2, KindFacts DEF Init, GateInv, DoneReleased, WaitsPassed, WorkerPassed, DeciderPassed,
    StartedPassed, Checkpoints

\* Deciding, polling and starting other steps keeps what was started.
LEMMA StartedSame ==
    ASSUME UNCHANGED executed, DOMAIN tasks' = DOMAIN tasks,
           \A u \in DOMAIN tasks : tasks'[u].step = tasks[u].step
    PROVE  \A i \in Steps : Started(i)' <=> Started(i)
BY DEF Started, Spawned

\* A worker that leaves the rows, the run and the decisions alone.
LEMMA WorkerGoes ==
    ASSUME PlaceInv, GateInv, UNCHANGED <<index, steps, tasks, executed, released, decider>>,
           NEW w \in Workers, NEW stage, NEW place \in Nat,
           pc' = [pc EXCEPT ![w] = stage], at' = [at EXCEPT ![w] = place],
           Passed(place), stage = "next" => Passed(place + 1),
           stage = "checkpoint" => steps[place] \notin {"completed", "needs_approval"}
    PROVE  GateInv'
<1>1. WorkerPassed'
  BY DEF PlaceInv, TypeOK, GateInv, WorkerPassed, Passed
<1>2. DoneReleased' /\ WaitsPassed' /\ Passed(index)' /\ StartedPassed'
  BY DEF GateInv, DoneReleased, WaitsPassed, StartedPassed, Started, Spawned, Passed
<1>3. DeciderPassed'
  BY DEF GateInv, DeciderPassed, Passed, decider
<1> QED
  BY <1>1, <1>2, <1>3 DEF GateInv

\* A worker that goes to another stage of the same step.
LEMMA SamePlace ==
    ASSUME PlaceInv, GateInv, UNCHANGED <<index, steps, tasks, executed, released, decider, at>>,
           NEW w \in Workers, NEW stage, pc' = [pc EXCEPT ![w] = stage],
           stage = "next" => Passed(at[w] + 1),
           stage = "checkpoint" => steps[at[w]] \notin {"completed", "needs_approval"}
    PROVE  GateInv'
<1>1. PICK place \in Nat : place = at[w]
  BY DEF PlaceInv, TypeOK
<1>2. Passed(place) /\ at' = [at EXCEPT ![w] = place]
  BY <1>1 DEF PlaceInv, TypeOK, GateInv, WorkerPassed
<1> QED
  BY <1>1, <1>2, WorkerGoes

\* A save of a step that is no checkpoint, by a worker that goes on or ends.
LEMMA OtherStep ==
    ASSUME PlaceInv, GateInv, UNCHANGED <<index, executed, released, decider, at>>,
           DOMAIN tasks' = DOMAIN tasks, \A u \in DOMAIN tasks : tasks'[u].step = tasks[u].step,
           NEW w \in Workers, NEW stage, pc' = [pc EXCEPT ![w] = stage], stage # "checkpoint",
           at[w] \in Steps \ Checkpoints, NEW state, steps' = [steps EXCEPT ![at[w]] = state]
    PROVE  GateInv'
<1>1. \A c \in Checkpoints : steps'[c] = steps[c]
  BY KindFacts DEF PlaceInv, TypeOK, Checkpoints
<1>2. Passed(at[w] + 1)
  <2>1. Passed(at[w]) /\ at[w] \in Nat /\ \A c \in Checkpoints : c \in Nat
    BY KindFacts DEF GateInv, WorkerPassed, Checkpoints, PlaceInv, TypeOK
  <2> QED
    BY <2>1 DEF Passed
<1>3. WorkerPassed'
  <2>1. \A v \in Workers : at[v] \in Nat /\ (pc[v] = "checkpoint" => at[v] \in Checkpoints)
    BY DEF PlaceInv, TypeOK, AtOK, Checkpoints
  <2>2. pc'[w] = stage /\ \A v \in Workers \ {w} : pc'[v] = pc[v]
    BY DEF PlaceInv, TypeOK
  <2> QED
    BY <1>1, <1>2, <2>1, <2>2 DEF GateInv, WorkerPassed, Passed
<1>4. DoneReleased' /\ WaitsPassed' /\ Passed(index)'
  BY <1>1 DEF GateInv, DoneReleased, WaitsPassed, Passed
<1>5. DeciderPassed'
  BY <1>1 DEF GateInv, DeciderPassed, Passed, decider
<1>6. StartedPassed'
  BY StartedSame DEF GateInv, StartedPassed, Passed
<1> QED
  BY <1>3, <1>4, <1>5, <1>6 DEF GateInv

LEMMA StepGate ==
    ASSUME OneWorker, OneDecision, NothingPassedOver, PlaceInv, GateInv, [Next]_vars
    PROVE  GateInv'
<1> USE KindFacts DEF run, rows, worker, decider, history, bounds
<1>0. CASE UNCHANGED vars
  BY <1>0, StartedSame DEF vars, GateInv, DoneReleased, WaitsPassed, WorkerPassed, DeciderPassed,
    StartedPassed, Passed
\* The steps of a worker.
<1>1. ASSUME NEW w \in Workers, Take(w) \/ Finish(w) \/ Fail(w) \/ ParkRun(w) \/ CheckTool(w)
                \/ RequestApproval(w) \/ Die(w)
      PROVE  GateInv'
  <2>1. /\ UNCHANGED <<index, steps, tasks, executed, released, decider, at>>
        /\ \E stage \in Stages \ {"next", "checkpoint"} : pc' = [pc EXCEPT ![w] = stage]
    BY <1>1 DEF Take, Finish, Fail, ParkRun, CheckTool, RequestApproval, Die, Goto, Stages
  <2> QED
    BY <2>1, SamePlace
<1>2. ASSUME NEW w \in Workers, ReadRun(w) PROVE GateInv'
  <2>1. UNCHANGED <<index, steps, tasks, executed, released, decider>>
    BY <1>2 DEF ReadRun
  <2>2. CASE at' = [at EXCEPT ![w] = index] /\ pc' = [pc EXCEPT ![w] = "step"]
    <3>1. PICK place \in Nat : place = index
      BY DEF PlaceInv, TypeOK
    <3>2. Passed(place)
      BY <3>1 DEF GateInv
    <3> QED
      BY <2>1, <2>2, <3>1, <3>2, WorkerGoes
  <2>3. CASE UNCHANGED at /\ pc' = [pc EXCEPT ![w] = "idle"]
    BY <2>1, <2>3, SamePlace
  <2> QED
    BY <1>2, <2>2, <2>3 DEF ReadRun, Goto
<1>3. ASSUME NEW w \in Workers, ReadStep(w) PROVE GateInv'
  <2>1. UNCHANGED <<index, steps, tasks, executed, released, decider, at>>
    BY <1>3 DEF ReadStep
  <2>2. CASE at[w] \in Steps /\ steps[at[w]] = "completed" /\ pc' = [pc EXCEPT ![w] = "next"]
    <3>1. Passed(at[w] + 1)
      BY <2>2 DEF GateInv, DoneReleased, WorkerPassed, Passed, Checkpoints
    <3> QED
      BY <2>1, <2>2, <3>1, SamePlace
  <2>3. CASE /\ at[w] \in Steps /\ steps[at[w]] \notin {"completed", "needs_approval"}
             /\ \E stage \in Stages \ {"next"} : pc' = [pc EXCEPT ![w] = stage]
    BY <2>1, <2>3, SamePlace
  <2>4. CASE \E stage \in {"finish", "idle"} : pc' = [pc EXCEPT ![w] = stage]
    BY <2>1, <2>4, SamePlace
  <2>5. at[w] \in Steps /\ Kind[at[w]] # "coworker" => Kind[at[w]] \in Stages \ {"next"}
    <3>1. at[w] \in Steps => Kind[at[w]] \in {"coworker", "tool", "checkpoint", "condition"}
      BY StepFacts
    <3> QED
      BY ONLY <3>1 DEF Stages
  <2>6. {"spawn", "poll"} \subseteq Stages \ {"next"}
    BY DEF Stages
  <2> QED
    BY <1>3, <2>2, <2>3, <2>4, <2>5, <2>6 DEF ReadStep, Goto
<1>4. ASSUME NEW w \in Workers, Advance(w) \/ Jump(w) PROVE GateInv'
  <2>1. UNCHANGED <<steps, tasks, executed, released, decider, at>> /\ pc' = [pc EXCEPT ![w] = "run"]
    BY <1>4 DEF Advance, Jump, Goto
  <2>2. Passed(index)'
    <3>1. CASE Advance(w)
      BY <3>1 DEF Advance, GateInv, WorkerPassed, Passed
    <3>2. CASE Jump(w)
      <4>1. PICK next : next = IF context[at[w]] THEN IfTrue[at[w]] ELSE IfFalse[at[w]]
        OBVIOUS
      <4>2. /\ at[w] \in OfKind("condition") /\ index' = next /\ next \in Nat /\ Passed(at[w])
            /\ next = IfTrue[at[w]] \/ next = IfFalse[at[w]]
        BY <3>2, <4>1, ConstantsAssumption DEF Jump, PlaceInv, AtOK, GateInv, WorkerPassed
      <4>3. \A c \in Checkpoints : c < next => c < at[w]
        <5>1. \A c \in Checkpoints : c \in Nat /\ c # at[w] /\ (at[w] < c => next <= c)
          BY <4>2 DEF NothingPassedOver, Checkpoints
        <5>2. at[w] \in Nat
          BY <4>2
        <5> QED
          BY <4>2, <5>1, <5>2
      <4> QED
        BY <2>1, <4>2, <4>3 DEF Passed
    <3> QED
      BY <1>4, <3>1, <3>2
  <2>3. DoneReleased' /\ WaitsPassed' /\ StartedPassed'
    BY <2>1, StartedSame DEF GateInv, DoneReleased, WaitsPassed, StartedPassed, Passed
  <2>4. WorkerPassed' /\ DeciderPassed'
    BY <2>1 DEF GateInv, WorkerPassed, DeciderPassed, Passed, PlaceInv, TypeOK
  <2> QED
    BY <2>2, <2>3, <2>4 DEF GateInv
<1>5. ASSUME NEW w \in Workers, DecideCondition(w) \/ Reject(w) \/ RecordOutput(w) \/ Assign(w)
      PROVE  GateInv'
  <2>1. /\ at[w] \in Steps \ Checkpoints
        /\ UNCHANGED <<index, executed, released, decider, at>>
        /\ \E stage \in Stages \ {"checkpoint"} : pc' = [pc EXCEPT ![w] = stage]
        /\ \E state \in StepStatuses : steps' = [steps EXCEPT ![at[w]] = state]
    BY <1>5 DEF DecideCondition, Reject, RecordOutput, Assign, Goto, SetStep, Stages, StepStatuses,
      PlaceInv, AtOK, Checkpoints
  <2>2. DOMAIN tasks' = DOMAIN tasks /\ \A u \in DOMAIN tasks : tasks'[u].step = tasks[u].step
    <3>1. CASE Assign(w)
      BY <3>1, TaskUpdate DEF Assign, PlaceInv, AtOK, TaskStates
    <3>2. CASE UNCHANGED tasks
      BY <3>2
    <3> QED
      BY <1>5, <3>1, <3>2 DEF DecideCondition, Reject, RecordOutput
  <2> QED
    BY <2>1, <2>2, OtherStep
<1>6. ASSUME NEW w \in Workers, Poll(w) PROVE GateInv'
  <2>1. /\ at[w] \in Steps \ Checkpoints
        /\ UNCHANGED <<index, executed, released, decider, at, tasks>>
    BY <1>6 DEF Poll, PlaceInv, AtOK, Checkpoints
  <2>2. CASE /\ \E state \in {"completed", "failed"} : steps' = [steps EXCEPT ![at[w]] = state]
             /\ \E stage \in {"next", "fail"} : pc' = [pc EXCEPT ![w] = stage]
    BY <2>1, <2>2, OtherStep
  <2>3. CASE pc' = [pc EXCEPT ![w] = "idle"] /\ UNCHANGED steps
    BY <2>1, <2>3, SamePlace
  <2> QED
    BY <1>6, <2>2, <2>3 DEF Poll, Goto, SetStep
<1>7. ASSUME NEW w \in Workers, ParkStep(w) PROVE GateInv'
  <2>1. /\ UNCHANGED <<index, tasks, executed, released, decider, at>>
        /\ pc' = [pc EXCEPT ![w] = "park_run"] /\ steps' = [steps EXCEPT ![at[w]] = "needs_approval"]
    BY <1>7 DEF ParkStep, Goto, SetStep
  <2>2. CASE pc[w] = "park"
    BY <2>1, <2>2, OtherStep DEF PlaceInv, AtOK, Checkpoints
  <2>3. CASE pc[w] = "checkpoint"
    <3>1. at[w] \in Checkpoints /\ steps[at[w]] # "completed" /\ Passed(at[w])
      BY <2>3 DEF PlaceInv, AtOK, GateInv, WorkerPassed, Checkpoints
    <3>2. \A c \in Checkpoints : steps'[c] = IF c = at[w] THEN "needs_approval" ELSE steps[c]
      BY <2>1 DEF PlaceInv, TypeOK, Checkpoints
    <3>3. DoneReleased' /\ WaitsPassed' /\ Passed(index)' /\ StartedPassed'
      BY <2>1, <3>1, <3>2, StartedSame DEF GateInv, DoneReleased, WaitsPassed, StartedPassed, Passed
    <3>4. WorkerPassed'
      BY <2>1 DEF OneWorker, GateInv, WorkerPassed, Passed, PlaceInv, TypeOK
    <3>5. DeciderPassed'
      BY <2>1, <3>2 DEF GateInv, DeciderPassed, Passed
    <3> QED
      BY <3>3, <3>4, <3>5 DEF GateInv
  <2> QED
    BY <1>7, <2>2, <2>3 DEF ParkStep
<1>8. ASSUME NEW w \in Workers, Spawn(w) \/ ExecuteTool(w) PROVE GateInv'
  <2>1. /\ at[w] \in Steps /\ Passed(at[w]) /\ UNCHANGED <<index, steps, released, decider, at>>
        /\ \E stage \in Stages \ {"next", "checkpoint"} : pc' = [pc EXCEPT ![w] = stage]
    BY <1>8 DEF Spawn, ExecuteTool, Goto, Stages, PlaceInv, AtOK, GateInv, WorkerPassed
  <2>2. \A i \in Steps : Started(i)' => Started(i) \/ i = at[w]
    <3>1. CASE Spawn(w)
      <4>1. UNCHANGED executed /\ tasks' = Append(tasks, [step |-> at[w], state |-> "created"])
        BY <3>1 DEF Spawn
      <4>2. tasks \in Seq([step : Steps, state : TaskStates])
        BY DEF PlaceInv, TypeOK
      <4> QED
        BY <4>1, <4>2 DEF Started, Spawned
    <3>2. CASE ExecuteTool(w)
      BY <3>2 DEF ExecuteTool, Started, Spawned, PlaceInv, TypeOK
    <3> QED
      BY <1>8, <3>1, <3>2
  <2>3. StartedPassed'
    BY <2>1, <2>2 DEF GateInv, StartedPassed, Passed
  <2>4. DoneReleased' /\ WaitsPassed' /\ Passed(index)' /\ DeciderPassed'
    BY <2>1 DEF GateInv, DoneReleased, WaitsPassed, DeciderPassed, Passed
  <2>5. WorkerPassed'
    BY <2>1 DEF GateInv, WorkerPassed, Passed, PlaceInv, TypeOK
  <2> QED
    BY <2>3, <2>4, <2>5 DEF GateInv
\* The members and the tasks.
<1>9. ASSUME NEW d \in Deciders,
             OpenDecision(d) \/ FindCheckpoint(d) \/ FindNoCheckpoint(d) \/ DecideRequest(d)
      PROVE  GateInv'
  <2>1. UNCHANGED <<run, steps, tasks, worker, executed, released>>
    BY <1>9 DEF OpenDecision, FindCheckpoint, FindNoCheckpoint, DecideRequest
  <2>2. DeciderPassed'
    <3>1. cursor' = cursor \/ cursor' = [cursor EXCEPT ![d] = index]
      BY <1>9 DEF OpenDecision, FindCheckpoint, FindNoCheckpoint, DecideRequest
    <3>2. \A e \in Deciders : e = d
      BY DEF OneDecision
    <3>3. dpc'[d] \in {"idle", "lookup"} \/ FindCheckpoint(d) \/ DecideRequest(d)
      BY <1>9 DEF OpenDecision, FindNoCheckpoint, PlaceInv, TypeOK
    <3>4. FindCheckpoint(d) \/ DecideRequest(d) =>
             dpc'[d] = "step" /\ (target'[d] \in Checkpoints => steps[target'[d]] = "needs_approval")
      <4>1. CASE FindCheckpoint(d)
        BY <4>1 DEF FindCheckpoint, PlaceInv, TypeOK
      <4>2. CASE DecideRequest(d)
        <5>1. dpc'[d] = "step"
          BY <4>2 DEF DecideRequest, PlaceInv, TypeOK
        <5>2. PICK i \in OfKind("tool") : target' = [target EXCEPT ![d] = i]
          BY <4>2 DEF DecideRequest
        <5>3. i \notin Checkpoints
          BY DEF Checkpoints
        <5> QED
          BY <5>1, <5>2, <5>3 DEF PlaceInv, TypeOK
      <4> QED
        BY <4>1, <4>2
    <3>5. Passed(cursor[d])' 
      BY <2>1, <3>1 DEF GateInv, DeciderPassed, Passed, PlaceInv, TypeOK
    <3> QED
      BY <2>1, <3>2, <3>3, <3>4, <3>5 DEF DeciderPassed
  <2>3. DoneReleased' /\ WaitsPassed' /\ Passed(index)' /\ StartedPassed' /\ WorkerPassed'
    BY <2>1, StartedSame DEF GateInv, DoneReleased, WaitsPassed, StartedPassed, WorkerPassed, Passed
  <2> QED
    BY <2>2, <2>3 DEF GateInv
<1>10. ASSUME NEW d \in Deciders, DecideStep(d) PROVE GateInv'
  <2>1. PICK i \in Steps : i = target[d]
    BY DEF PlaceInv, TypeOK
  <2>2. /\ dpc[d] = "step" /\ dpc' = [dpc EXCEPT ![d] = "run"]
        /\ steps' = [steps EXCEPT ![i] = IF verdict[d] = "deny" THEN "failed"
                         ELSE IF Kind[i] = "tool" THEN "in_progress" ELSE "completed"]
        /\ released' = IF verdict[d] = "approve" THEN released \cup {i} ELSE released
        /\ UNCHANGED <<run, tasks, worker, cursor, target, verdict, executed>>
    BY <1>10, <2>1 DEF DecideStep, SetStep
  <2>3. i \in Checkpoints => steps[i] = "needs_approval" /\ i \notin released /\ Passed(i)
    BY <2>1, <2>2 DEF GateInv, DeciderPassed, DoneReleased, WaitsPassed
  <2>4. verdict[d] \in {"approve", "deny"} /\ cursor[d] \in Nat
    BY DEF PlaceInv, TypeOK
  <2>5. \A c \in Checkpoints : c # i => steps'[c] = steps[c]
    BY <2>2 DEF PlaceInv, TypeOK, Checkpoints
  <2>6. i \in Checkpoints => steps'[i] = IF verdict[d] = "deny" THEN "failed" ELSE "completed"
    BY <2>2 DEF PlaceInv, TypeOK, Checkpoints
  <2>7. DoneReleased'
    BY <2>2, <2>3, <2>4, <2>5, <2>6 DEF GateInv, DoneReleased
  <2>8. WaitsPassed' /\ Passed(index)'
    BY <2>2, <2>5, <2>6 DEF GateInv, WaitsPassed, Passed
  <2>9. StartedPassed'
    BY <2>2, StartedSame DEF GateInv, StartedPassed, Passed
  <2>10. WorkerPassed'
    <3>1. \A w \in Workers : pc[w] = "checkpoint" => at[w] \in Checkpoints /\ at[w] # i
      BY <2>3 DEF GateInv, WorkerPassed, PlaceInv, AtOK, Checkpoints
    <3> QED
      BY <2>2, <2>5, <3>1 DEF GateInv, WorkerPassed, Passed
  <2>11. DeciderPassed'
    <3>1. \A e \in Deciders : e = d
      BY DEF OneDecision
    <3>2. i \in Checkpoints /\ verdict[d] = "approve" =>
             \A c \in Checkpoints : c < cursor[d] + 1 => c \in released \cup {i}
      <4>1. Passed(cursor[d]) /\ i \in Nat
        BY DEF GateInv, DeciderPassed
      <4> QED
        BY <2>3, <2>4, <4>1 DEF Passed, Checkpoints
    <3>3. dpc'[d] = "run"
      BY <2>2 DEF PlaceInv, TypeOK
    <3> QED
      BY <2>1, <2>2, <3>1, <3>2, <3>3 DEF GateInv, DeciderPassed, Passed
  <2> QED
    BY <2>7, <2>8, <2>9, <2>10, <2>11 DEF GateInv
<1>11. ASSUME NEW d \in Deciders, DecideRun(d) PROVE GateInv'
  <2>1. /\ dpc[d] = "run" /\ dpc' = [dpc EXCEPT ![d] = "idle"]
        /\ UNCHANGED <<steps, tasks, worker, cursor, target, verdict, executed, released>>
    BY <1>11 DEF DecideRun
  <2>2. target[d] \in Checkpoints \cup OfKind("tool")
    BY <2>1 DEF PlaceInv, TargetOK, Checkpoints
  <2>3. Passed(index)'
    <3>1. index' = index \/ (index' = cursor[d] + 1 /\ verdict[d] = "approve" /\ target[d] \in Checkpoints)
      BY <1>11, <2>2 DEF DecideRun, Checkpoints
    <3> QED
      BY <2>1, <3>1 DEF GateInv, DeciderPassed, Passed
  <2>4. DeciderPassed'
    BY <2>1 DEF GateInv, DeciderPassed, Passed, PlaceInv, TypeOK
  <2>5. DoneReleased' /\ WaitsPassed' /\ StartedPassed' /\ WorkerPassed'
    BY <2>1, StartedSame DEF GateInv, DoneReleased, WaitsPassed, StartedPassed, WorkerPassed, Passed
  <2> QED
    BY <2>3, <2>4, <2>5 DEF GateInv
<1>12. ASSUME NEW t \in DOMAIN tasks, TaskReports(t) \/ TaskReturns(t) PROVE GateInv'
  <2>1. UNCHANGED <<run, steps, worker, decider, executed, released>>
    BY <1>12 DEF TaskReports, TaskReturns
  <2>2. DOMAIN tasks' = DOMAIN tasks /\ \A u \in DOMAIN tasks : tasks'[u].step = tasks[u].step
    BY <1>12, TaskUpdate DEF TaskReports, TaskReturns, TaskStates, PlaceInv
  <2>3. DoneReleased' /\ WaitsPassed' /\ Passed(index)' /\ WorkerPassed' /\ DeciderPassed'
    BY <2>1 DEF GateInv, DoneReleased, WaitsPassed, WorkerPassed, DeciderPassed, Passed
  <2>4. StartedPassed'
    BY <2>1, <2>2, StartedSame DEF GateInv, StartedPassed, Passed
  <2> QED
    BY <2>3, <2>4 DEF GateInv
<1> QED
  BY ONLY [Next]_vars, <1>0, <1>1, <1>2, <1>3, <1>4, <1>5, <1>6, <1>7, <1>8, <1>9, <1>10, <1>11, <1>12
    DEF Next, EngineStep, DecisionStep

\* With one delivery worked on and one decision made at a time, nothing behind a
\* checkpoint starts before a member approved it, for any workflow none of whose
\* conditions leads past a checkpoint, and any faults, polls and returning tasks
\* (advance_workflow_run).
THEOREM NothingStartsUnapproved ==
    ASSUME OneWorker, OneDecision, NothingPassedOver
    PROVE  Spec => []CheckpointsGate
<1>1. GateInv => CheckpointsGate
  BY KindFacts DEF GateInv, StartedPassed, Passed, CheckpointsGate, Checkpoints
<1> QED
  BY InitPlace, StepPlace, InitGate, StepGate, <1>1, PTL DEF Spec

-----------------------------------------------------------------------------
(* One execution.                                                          *)

NoTasks == OfKind("coworker") = {}

\* The stages of a delivery that may still come to a step; a worker that parks may not.
Early == {"run", "step", "finish", "next", "condition", "jump", "checkpoint", "tool", "request",
          "execute", "record", "reject", "fail"}
Moving(w) == pc[w] \in Early

Deciding(d) == dpc[d] \in {"step", "run"}
Waiting(c) == steps[c] = "needs_approval" /\ \A d \in Deciders : ~(dpc[d] = "step" /\ target[d] = c)
Pending(i) == \E k \in DOMAIN approvals[i] : approvals[i][k] = "pending"

NobodyMoves == \A w \in Workers : ~Moving(w)
NobodyDecides == \A d \in Deciders : ~Deciding(d)
NothingWaits == \A c \in Checkpoints : ~Waiting(c)
NothingPends == \A i \in Steps : ~Pending(i)

\* The run has one chance to go on: a queued delivery, a worker, a checkpoint that waits,
\* a request that is pending, or a member who is deciding.
OneChance ==
    /\ jobs \in {0, 1}
    /\ \A v, w \in Workers : Moving(v) /\ Moving(w) => v = w
    /\ NobodyMoves \/ (jobs = 0 /\ NobodyDecides /\ NothingWaits /\ NothingPends)
    /\ NobodyDecides \/ (jobs = 0 /\ NothingWaits /\ NothingPends)
    /\ jobs = 0 \/ (NothingWaits /\ NothingPends)
    /\ NothingWaits \/ NothingPends
    /\ \A b, c \in Checkpoints : Waiting(b) /\ Waiting(c) => b = c
    /\ \A i, j \in Steps : Pending(i) /\ Pending(j) => i = j
    /\ \A i \in Steps : \A k, l \in DOMAIN approvals[i] :
          approvals[i][k] = "pending" /\ approvals[i][l] = "pending" => k = l

\* The last chance is used up by step i, or will be when its worker has failed.
Spent(i) ==
    /\ jobs = 0 /\ NobodyDecides /\ NothingWaits /\ NothingPends
    /\ \A w \in Workers : Moving(w) =>
          pc[w] = "fail" \/ (pc[w] \in {"record", "reject"} /\ at[w] = i)

\* A tool that has run is behind a step that no delivery takes up again; whoever is
\* about to run one, or decides about it, has one that has not.
ExecutedInv ==
    /\ \A i \in Steps : executed[i] \in {0, 1}
    /\ \A i \in Steps : executed[i] = 1 => steps[i] \in {"completed", "needs_approval"} \/ Spent(i)
    /\ \A w \in Workers : pc[w] \in {"tool", "request", "execute"} => executed[at[w]] = 0
    /\ \A i \in Steps : Pending(i) => executed[i] = 0
    /\ \A d \in Deciders : Deciding(d) /\ target[d] \in OfKind("tool") => executed[target[d]] = 0
    /\ \A i \in Steps : executed[i] = 1 => i \in OfKind("tool")

OnceInv == tasks = <<>> /\ OneChance /\ ExecutedInv

LEMMA InitOnce == Init => OnceInv
<1> SUFFICES ASSUME Init PROVE OnceInv
  OBVIOUS
<1>1. NobodyMoves /\ NobodyDecides /\ NothingWaits /\ NothingPends
  BY KindFacts DEF Init, NobodyMoves, Moving, Early, NobodyDecides, Deciding, NothingWaits, Waiting,
    NothingPends, Pending, Checkpoints
<1>2. \A i \in Steps : approvals[i] = <<>>
  BY DEF Init
<1> QED
  BY <1>1, <1>2, KindFacts DEF Init, OnceInv, OneChance, ExecutedInv, NobodyMoves, NobodyDecides,
    NothingWaits, NothingPends, Deciding, Moving, Early

\* Who has the chance has it alone.
LEMMA ChanceIsHis ==
    ASSUME OneChance, NEW w \in Workers, Moving(w)
    PROVE  /\ jobs = 0 /\ NobodyDecides /\ NothingWaits /\ NothingPends
           /\ \A v \in Workers \ {w} : ~Moving(v)
BY DEF OneChance, NobodyMoves

\* A worker that goes on, or ends its delivery, and leaves the steps alone.
LEMMA ChanceGoes ==
    ASSUME PlaceInv, OnceInv, UNCHANGED <<jobs, steps, approvals, executed, tasks, dpc, target>>,
           NEW w \in Workers, Moving(w), NEW stage,
           pc' = [pc EXCEPT ![w] = stage], \A v \in Workers \ {w} : at'[v] = at[v],
           stage \in {"tool", "request", "execute"} => executed[at'[w]] = 0,
           \A i \in Steps : Spent(i) =>
              stage \in {"idle", "fail"} \/ (stage \in {"record", "reject"} /\ at'[w] = i)
    PROVE  OnceInv'
<1>1. /\ jobs = 0 /\ NobodyDecides /\ NothingWaits /\ NothingPends
      /\ \A v \in Workers \ {w} : ~Moving(v)
  BY ChanceIsHis DEF OnceInv
<1>2. pc'[w] = stage /\ \A v \in Workers \ {w} : pc'[v] = pc[v]
  BY DEF PlaceInv, TypeOK
<1>3. /\ NobodyDecides' /\ NothingWaits' /\ NothingPends' /\ \A i \in Steps : Pending(i)' <=> Pending(i)
      /\ \A v \in Workers \ {w} : ~Moving(v)'
  BY <1>1, <1>2 DEF NobodyDecides, Deciding, NothingWaits, Waiting, NothingPends, Pending, Moving
<1>4. OneChance'
  BY <1>1, <1>3 DEF OnceInv, OneChance, NothingWaits, NothingPends
<1>5. \A i \in Steps : Spent(i) => Spent(i)'
  BY <1>1, <1>2, <1>3 DEF Spent, Moving, Early
<1>6. \A v \in Workers : pc'[v] \in {"tool", "request", "execute"} => executed[at'[v]] = 0
  BY <1>2 DEF OnceInv, ExecutedInv
<1>7. ExecutedInv'
  BY <1>3, <1>5, <1>6 DEF OnceInv, ExecutedInv, Deciding
<1> QED
  BY <1>4, <1>7 DEF OnceInv

\* A worker that only parks, or ends a delivery that had parked, has none.
LEMMA NoChance ==
    ASSUME PlaceInv, OnceInv, UNCHANGED <<jobs, approvals, executed, tasks, dpc, target, at>>,
           NEW w \in Workers, pc[w] \notin Early,
           NEW stage \in {"idle", "park_run"}, pc' = [pc EXCEPT ![w] = stage],
           \A i \in Steps : steps'[i] = steps[i] \/ (i \in OfKind("tool") /\ steps'[i] = "needs_approval")
    PROVE  OnceInv'
<1>1. /\ \A v \in Workers : Moving(v)' <=> Moving(v)
      /\ \A v \in Workers : Moving(v) => pc'[v] = pc[v]
  BY DEF PlaceInv, TypeOK, Moving, Early
<1>2. \A c \in Checkpoints : steps'[c] = steps[c]
  BY KindFacts DEF Checkpoints
<1>3. /\ \A c \in Checkpoints : Waiting(c)' <=> Waiting(c)
      /\ \A i \in Steps : Pending(i)' <=> Pending(i)
      /\ \A d \in Deciders : Deciding(d)' <=> Deciding(d)
  BY <1>2 DEF Waiting, Pending, Deciding
<1>4. /\ (NobodyMoves' <=> NobodyMoves) /\ (NobodyDecides' <=> NobodyDecides)
      /\ (NothingWaits' <=> NothingWaits) /\ (NothingPends' <=> NothingPends)
  BY <1>1, <1>3 DEF NobodyMoves, NobodyDecides, NothingWaits, NothingPends
<1>5. OneChance'
  BY <1>1, <1>3, <1>4 DEF OnceInv, OneChance
<1>6. \A i \in Steps : Spent(i) => Spent(i)'
  BY <1>1, <1>3, <1>4 DEF Spent
<1>7. \A v \in Workers : pc'[v] \in {"tool", "request", "execute"} => pc'[v] = pc[v]
  BY DEF PlaceInv, TypeOK
<1>8. ExecutedInv'
  BY <1>3, <1>6, <1>7 DEF OnceInv, ExecutedInv
<1> QED
  BY <1>5, <1>8 DEF OnceInv

LEMMA StepOnce ==
    ASSUME NoTasks, OneDecision, PlaceInv, OnceInv, [Next]_vars
    PROVE  OnceInv'
<1> USE KindFacts DEF run, rows, worker, decider, history, bounds
<1>0. CASE UNCHANGED vars
  BY <1>0 DEF vars, OnceInv, OneChance, ExecutedInv, Spent, Moving, Deciding, Waiting, Pending,
    NobodyMoves, NobodyDecides, NothingWaits, NothingPends
\* A worker with the chance.
<1>1. ASSUME NEW w \in Workers, Take(w) PROVE OnceInv'
  <2>1. /\ jobs = 1 /\ jobs' = 0 /\ ~Moving(w) /\ pc' = [pc EXCEPT ![w] = "run"]
        /\ UNCHANGED <<steps, approvals, executed, tasks, dpc, target, at>>
    BY <1>1 DEF Take, Goto, OnceInv, OneChance, Moving, Early
  <2>2. NobodyMoves /\ NobodyDecides /\ NothingWaits /\ NothingPends
    BY <2>1 DEF OnceInv, OneChance
  <2>3. /\ NobodyDecides' /\ NothingWaits' /\ NothingPends' /\ \A i \in Steps : Pending(i)' <=> Pending(i)
        /\ \A v \in Workers \ {w} : ~Moving(v)' /\ pc'[v] = pc[v]
        /\ pc'[w] = "run"
    BY <2>1, <2>2 DEF NobodyMoves, NobodyDecides, Deciding, NothingWaits, Waiting, NothingPends, Pending,
      Moving, PlaceInv, TypeOK
  <2>4. OneChance'
    BY <2>1, <2>3 DEF OnceInv, OneChance, NothingWaits, NothingPends
  <2>5. \A i \in Steps : ~Spent(i)
    BY <2>1 DEF Spent
  <2>6. ExecutedInv'
    BY <2>1, <2>3, <2>5 DEF OnceInv, ExecutedInv, Deciding
  <2> QED
    BY <2>1, <2>4, <2>6 DEF OnceInv
<1>2. ASSUME NEW w \in Workers,
             ReadRun(w) \/ Finish(w) \/ Advance(w) \/ Fail(w) \/ Jump(w) PROVE OnceInv'
  <2>1. /\ UNCHANGED <<jobs, steps, approvals, executed, tasks, dpc, target>>
        /\ \A v \in Workers \ {w} : at'[v] = at[v]
        /\ Moving(w)
    BY <1>2 DEF ReadRun, Finish, Advance, Fail, Jump, Moving, Early, PlaceInv, TypeOK
  <2>2. \E stage \in {"idle", "run", "step"} :
           pc' = [pc EXCEPT ![w] = stage] /\ (pc[w] = "fail" => stage = "idle")
    BY <1>2 DEF ReadRun, Finish, Advance, Fail, Jump, Goto
  <2>3. \A i \in Steps : Spent(i) => pc[w] = "fail"
    BY <1>2, <2>1 DEF Spent, ReadRun, Finish, Advance, Fail, Jump
  <2> QED
    BY <2>1, <2>2, <2>3, ChanceGoes
<1>3. ASSUME NEW w \in Workers, ReadStep(w) PROVE OnceInv'
  <2>1. /\ UNCHANGED <<jobs, steps, approvals, executed, tasks, dpc, target, at>>
        /\ pc[w] = "step" /\ Moving(w) /\ \A i \in Steps : ~Spent(i)
    BY <1>3 DEF ReadStep, Moving, Early, Spent
  <2>2. \E stage : /\ pc' = [pc EXCEPT ![w] = stage]
                   /\ stage \in {"tool", "request", "execute"} => executed[at[w]] = 0
    <3>1. CASE at[w] \in Steps /\ steps[at[w]] \notin {"needs_approval", "completed"}
      <4>1. executed[at[w]] = 0
        BY <2>1, <3>1 DEF OnceInv, ExecutedInv
      <4> QED
        BY <1>3, <3>1, <4>1 DEF ReadStep, Goto
    <3>2. CASE at[w] \notin Steps \/ steps[at[w]] \in {"needs_approval", "completed"}
      BY <1>3, <3>2 DEF ReadStep, Goto
    <3> QED
      BY <3>1, <3>2
  <2> QED
    BY <2>1, <2>2, ChanceGoes
<1>4. ASSUME NEW w \in Workers, CheckTool(w) PROVE OnceInv'
  <2>1. /\ UNCHANGED <<jobs, steps, approvals, executed, tasks, dpc, target, at>>
        /\ pc[w] = "tool" /\ Moving(w) /\ \A i \in Steps : ~Spent(i)
        /\ executed[at[w]] = 0
    BY <1>4 DEF CheckTool, Moving, Early, Spent, OnceInv, ExecutedInv
  <2>2. \E stage : pc' = [pc EXCEPT ![w] = stage]
    BY <1>4 DEF CheckTool, Goto
  <2> QED
    BY <2>1, <2>2, ChanceGoes
<1>5. ASSUME NEW w \in Workers, Die(w) PROVE OnceInv'
  <2>1. /\ UNCHANGED <<jobs, steps, approvals, executed, tasks, dpc, target, at>>
        /\ pc' = [pc EXCEPT ![w] = "idle"]
    BY <1>5 DEF Die, Goto
  <2>2. CASE Moving(w)
    BY <2>1, <2>2, ChanceGoes
  <2>3. CASE ~Moving(w)
    BY <2>1, <2>3, NoChance DEF Moving
  <2> QED
    BY <2>2, <2>3
<1>6. ASSUME NEW w \in Workers, DecideCondition(w) \/ Reject(w) \/ RecordOutput(w) PROVE OnceInv'
  <2>1. PICK i \in Steps : i = at[w]
    BY <1>6 DEF DecideCondition, Reject, RecordOutput, PlaceInv, AtOK
  <2>2. PICK state \in {"completed", "failed"}, stage \in {"jump", "fail", "next"} :
          /\ steps' = [steps EXCEPT ![i] = state] /\ pc' = [pc EXCEPT ![w] = stage]
          /\ state = "failed" => stage = "fail"
    BY <1>6, <2>1 DEF DecideCondition, Reject, RecordOutput, SetStep, Goto
  <2>3. /\ UNCHANGED <<jobs, approvals, executed, tasks, dpc, target, at>> /\ Moving(w) /\ i \notin Checkpoints
        /\ pc[w] \in {"record", "reject"} \/ Kind[i] = "condition"
        /\ pc[w] \in {"condition", "record", "reject"}
    BY <1>6, <2>1 DEF DecideCondition, Reject, RecordOutput, Moving, Early, PlaceInv, AtOK, Checkpoints
  <2>4. /\ jobs = 0 /\ NobodyDecides /\ NothingWaits /\ NothingPends
        /\ \A v \in Workers \ {w} : ~Moving(v)
    BY <2>3, ChanceIsHis DEF OnceInv
  <2>5. /\ pc'[w] = stage /\ \A v \in Workers \ {w} : pc'[v] = pc[v]
        /\ steps'[i] = state /\ \A j \in Steps \ {i} : steps'[j] = steps[j]
    BY <2>2 DEF PlaceInv, TypeOK
  <2>6. /\ NobodyDecides' /\ NothingWaits' /\ NothingPends' /\ \A j \in Steps : Pending(j)' <=> Pending(j)
        /\ \A v \in Workers \ {w} : ~Moving(v)'
    BY <2>3, <2>4, <2>5 DEF NobodyDecides, Deciding, NothingWaits, Waiting, NothingPends, Pending, Moving,
      Checkpoints
  <2>7. OneChance'
    BY <2>3, <2>4, <2>6 DEF OnceInv, OneChance, NothingWaits, NothingPends
  <2>8. \A j \in Steps \ {i} : executed[j] = 1 => steps'[j] \in {"completed", "needs_approval"}
    BY <2>1, <2>3, <2>5 DEF OnceInv, ExecutedInv, Spent
  <2>9. state = "failed" => Spent(i)'
    BY <2>2, <2>3, <2>4, <2>5, <2>6 DEF Spent
  <2>10. ExecutedInv'
    BY <2>2, <2>3, <2>5, <2>6, <2>8, <2>9 DEF OnceInv, ExecutedInv, Deciding
  <2> QED
    BY <2>3, <2>7, <2>10 DEF OnceInv
<1>7. ASSUME NEW w \in Workers, ExecuteTool(w) PROVE OnceInv'
  <2>1. PICK i \in OfKind("tool") : i = at[w]
    BY <1>7 DEF ExecuteTool, PlaceInv, AtOK
  <2>2. PICK stage \in {"record", "reject", "idle"} : pc' = [pc EXCEPT ![w] = stage]
    BY <1>7 DEF ExecuteTool, Goto
  <2>3. /\ UNCHANGED <<jobs, steps, approvals, tasks, dpc, target, at>> /\ Moving(w)
        /\ executed' = [executed EXCEPT ![i] = @ + 1] /\ pc[w] = "execute"
    BY <1>7, <2>1 DEF ExecuteTool, Moving, Early
  <2>4. /\ jobs = 0 /\ NobodyDecides /\ NothingWaits /\ NothingPends
        /\ \A v \in Workers \ {w} : ~Moving(v)
    BY <2>3, ChanceIsHis DEF OnceInv
  <2>5. /\ pc'[w] = stage /\ \A v \in Workers \ {w} : pc'[v] = pc[v]
        /\ executed[i] = 0 /\ executed'[i] = 1 /\ \A j \in Steps \ {i} : executed'[j] = executed[j]
    BY <2>1, <2>2, <2>3 DEF PlaceInv, TypeOK, OnceInv, ExecutedInv
  <2>6. /\ NobodyDecides' /\ NothingWaits' /\ NothingPends'
        /\ \A v \in Workers \ {w} : ~Moving(v)'
    BY <2>3, <2>4, <2>5 DEF NobodyDecides, Deciding, NothingWaits, Waiting, NothingPends, Pending, Moving
  <2>7. OneChance'
    BY <2>3, <2>4, <2>6 DEF OnceInv, OneChance, NothingWaits, NothingPends
  <2>8. Spent(i)'
    BY <2>1, <2>3, <2>4, <2>5, <2>6 DEF Spent, Moving, Early
  <2>9. \A j \in Steps \ {i} : executed[j] = 1 => steps'[j] \in {"completed", "needs_approval"}
    BY <2>3 DEF OnceInv, ExecutedInv, Spent
  <2>10. \A v \in Workers : pc'[v] \notin {"tool", "request", "execute"}
    BY <2>4, <2>5 DEF Moving, Early
  <2>11. ExecutedInv'
    BY <2>5, <2>6, <2>8, <2>9, <2>10 DEF OnceInv, ExecutedInv, NobodyDecides, NothingPends
  <2> QED
    BY <2>3, <2>7, <2>11 DEF OnceInv
\* It is handed over to a request or to a checkpoint, and nobody has it who parks.
<1>8. ASSUME NEW w \in Workers, RequestApproval(w) PROVE OnceInv'
  <2>1. PICK i \in Steps : i = at[w]
    BY <1>8 DEF RequestApproval, PlaceInv, AtOK
  <2>2. /\ UNCHANGED <<jobs, steps, executed, tasks, dpc, target, at>> /\ Moving(w)
        /\ pc' = [pc EXCEPT ![w] = "park"] /\ pc[w] = "request" /\ executed[i] = 0
        /\ approvals' = [approvals EXCEPT ![i] = Append(@, "pending")]
    BY <1>8, <2>1 DEF RequestApproval, Goto, Moving, Early, OnceInv, ExecutedInv
  <2>3. /\ jobs = 0 /\ NobodyDecides /\ NothingWaits /\ NothingPends
        /\ \A v \in Workers \ {w} : ~Moving(v)
    BY <2>2, ChanceIsHis DEF OnceInv
  <2>4. /\ pc'[w] = "park" /\ \A v \in Workers \ {w} : pc'[v] = pc[v]
        /\ \A j \in Steps \ {i} : approvals'[j] = approvals[j]
    BY <2>2 DEF PlaceInv, TypeOK
  <2>5. NobodyMoves' /\ NobodyDecides' /\ NothingWaits'
    BY <2>2, <2>3, <2>4 DEF NobodyMoves, Moving, Early, NobodyDecides, Deciding, NothingWaits, Waiting
  <2>6. \A j \in Steps \ {i} : ~Pending(j)'
    BY <2>3, <2>4 DEF NothingPends, Pending
  <2>7. \A k, l \in DOMAIN approvals'[i] :
           approvals'[i][k] = "pending" /\ approvals'[i][l] = "pending" => k = l
    <3>1. PICK asked : asked = approvals[i]
      OBVIOUS
    <3>2. /\ asked \in Seq({"pending", "approved", "denied"}) /\ approvals'[i] = Append(asked, "pending")
          /\ \A k \in DOMAIN asked : asked[k] # "pending"
      BY <2>2, <2>3, <3>1 DEF PlaceInv, TypeOK, NothingPends, Pending
    <3> QED
      BY <3>2
  <2>8. OneChance'
    <3>1. jobs' = 0 /\ (\A b, c \in Checkpoints : Waiting(b)' /\ Waiting(c)' => b = c)
      BY <2>2, <2>3, <2>5 DEF NothingWaits
    <3>2. \A b, c \in Steps : Pending(b)' /\ Pending(c)' => b = c
      BY <2>6
    <3>3. \A j \in Steps \ {i} : \A k \in DOMAIN approvals'[j] : approvals'[j][k] # "pending"
      BY <2>6 DEF Pending
    <3>4. \A u, v \in Workers : Moving(u)' /\ Moving(v)' => u = v
      BY <2>5 DEF NobodyMoves
    <3> QED
      BY <2>5, <2>7, <3>1, <3>2, <3>3, <3>4 DEF OneChance
  <2>9. \A j \in Steps : ~Spent(j)
    BY <2>2 DEF Spent
  <2>10. \A v \in Workers : pc'[v] \notin {"tool", "request", "execute"}
    BY <2>3, <2>4 DEF Moving, Early
  <2>11. ExecutedInv'
    BY <2>2, <2>5, <2>6, <2>9, <2>10 DEF OnceInv, ExecutedInv, NobodyDecides
  <2> QED
    BY <2>2, <2>8, <2>11 DEF OnceInv
<1>9. ASSUME NEW w \in Workers, ParkStep(w) PROVE OnceInv'
  <2>1. /\ UNCHANGED <<jobs, approvals, executed, tasks, dpc, target, at>>
        /\ pc' = [pc EXCEPT ![w] = "park_run"]
        /\ steps' = [steps EXCEPT ![at[w]] = "needs_approval"]
    BY <1>9 DEF ParkStep, Goto, SetStep
  <2>2. CASE pc[w] = "park"
    <3>1. \A i \in Steps : steps'[i] = steps[i] \/ (i \in OfKind("tool") /\ steps'[i] = "needs_approval")
      BY <2>1, <2>2 DEF PlaceInv, TypeOK, AtOK
    <3>2. pc[w] \notin Early
      BY <2>2 DEF Early
    <3> QED
      BY <2>1, <3>1, <3>2, NoChance
  <2>3. CASE pc[w] = "checkpoint"
    <3>1. PICK i \in Checkpoints : i = at[w]
      BY <2>3 DEF PlaceInv, AtOK, Checkpoints
    <3>2. Moving(w) /\ \A j \in Steps : ~Spent(j)
      BY <2>3 DEF Moving, Early, Spent
    <3>3. /\ jobs = 0 /\ NobodyDecides /\ NothingWaits /\ NothingPends
          /\ \A v \in Workers \ {w} : ~Moving(v)
      BY <3>2, ChanceIsHis DEF OnceInv
    <3>4. /\ pc'[w] = "park_run" /\ \A v \in Workers \ {w} : pc'[v] = pc[v]
          /\ \A j \in Steps \ {i} : steps'[j] = steps[j]
          /\ i \notin OfKind("tool")
      <4>1. pc'[w] = "park_run" /\ \A v \in Workers \ {w} : pc'[v] = pc[v]
        BY ONLY PlaceInv, w \in Workers, <2>1 DEF PlaceInv, TypeOK
      <4>2. \A j \in Steps \ {i} : steps'[j] = steps[j]
        BY ONLY PlaceInv, <2>1, <3>1 DEF PlaceInv, TypeOK
      <4>3. i \notin OfKind("tool")
        BY <3>1 DEF Checkpoints
      <4> QED
        BY ONLY <4>1, <4>2, <4>3
    <3>5. /\ NobodyMoves' /\ NobodyDecides' /\ NothingPends'
          /\ \A c \in Checkpoints \ {i} : ~Waiting(c)'
      BY <2>1, <3>3, <3>4 DEF NobodyMoves, Moving, Early, NobodyDecides, Deciding, NothingWaits, Waiting,
        NothingPends, Pending, Checkpoints
    <3>6. OneChance'
      <4>1. jobs' = 0 /\ (\A b, c \in Checkpoints : Waiting(b)' /\ Waiting(c)' => b = c)
        BY <2>1, <3>3, <3>5
      <4>2. \A j \in Steps : ~Pending(j)' /\ \A k \in DOMAIN approvals'[j] : approvals'[j][k] # "pending"
        BY <3>5 DEF NothingPends, Pending
      <4>3. \A u, v \in Workers : Moving(u)' /\ Moving(v)' => u = v
        BY <3>5 DEF NobodyMoves
      <4> QED
        BY <3>5, <4>1, <4>2, <4>3 DEF OneChance
    <3>7. \A v \in Workers : pc'[v] \notin {"tool", "request", "execute"}
      BY <3>3, <3>4 DEF Moving, Early
    <3>8. ExecutedInv'
      BY <2>1, <3>2, <3>4, <3>5, <3>7 DEF OnceInv, ExecutedInv, NobodyDecides, NothingPends
    <3> QED
      BY <2>1, <3>6, <3>8 DEF OnceInv
  <2> QED
    BY <1>9, <2>2, <2>3 DEF ParkStep
<1>10. ASSUME NEW w \in Workers, ParkRun(w) PROVE OnceInv'
  <2>1. /\ UNCHANGED <<jobs, steps, approvals, executed, tasks, dpc, target, at>>
        /\ pc' = [pc EXCEPT ![w] = "idle"] /\ pc[w] \notin Early
    BY <1>10 DEF ParkRun, Goto, Early
  <2> QED
    BY <2>1, NoChance
\* There is no task.
<1>11. ASSUME NEW w \in Workers, Spawn(w) \/ Assign(w) \/ Poll(w) PROVE OnceInv'
  BY <1>11 DEF Spawn, Assign, Poll, PlaceInv, AtOK, NoTasks
<1>12. ASSUME NEW t \in DOMAIN tasks PROVE OnceInv'
  BY <1>12 DEF OnceInv
\* The members.
<1>13. ASSUME NEW d \in Deciders, OpenDecision(d) \/ FindNoCheckpoint(d) PROVE OnceInv'
  <2>1. /\ UNCHANGED <<jobs, rows, worker, executed, target>>
        /\ ~Deciding(d) /\ \E stage \in {"idle", "lookup"} : dpc' = [dpc EXCEPT ![d] = stage]
    BY <1>13 DEF OpenDecision, FindNoCheckpoint, Deciding
  <2>0. dpc \in [Deciders -> {"idle", "lookup", "step", "run"}]
    BY DEF PlaceInv, TypeOK
  <2>2. /\ \A e \in Deciders : Deciding(e)' <=> Deciding(e)
        /\ \A e \in Deciders : dpc'[e] = "step" <=> dpc[e] = "step"
    BY ONLY <2>0, <2>1, d \in Deciders DEF Deciding
  <2>3. /\ \A c \in Checkpoints : Waiting(c)' <=> Waiting(c)
        /\ \A i \in Steps : Pending(i)' <=> Pending(i)
        /\ \A w \in Workers : Moving(w)' <=> Moving(w)
    BY <2>1, <2>2 DEF Waiting, Pending, Moving
  <2>4. /\ (NobodyMoves' <=> NobodyMoves) /\ (NobodyDecides' <=> NobodyDecides)
        /\ (NothingWaits' <=> NothingWaits) /\ (NothingPends' <=> NothingPends)
    BY <2>2, <2>3 DEF NobodyMoves, NobodyDecides, NothingWaits, NothingPends
  <2>5. OneChance'
    BY <2>1, <2>3, <2>4 DEF OnceInv, OneChance
  <2>6. \A i \in Steps : Spent(i) => Spent(i)'
    BY <2>1, <2>3, <2>4 DEF Spent
  <2>7. ExecutedInv'
    BY <2>1, <2>2, <2>3, <2>6 DEF OnceInv, ExecutedInv
  <2> QED
    BY <2>1, <2>5, <2>7 DEF OnceInv
<1>14. ASSUME NEW d \in Deciders, FindCheckpoint(d) PROVE OnceInv'
  <2>1. PICK i \in Checkpoints : steps[i] = "needs_approval" /\ target' = [target EXCEPT ![d] = i]
    BY <1>14 DEF FindCheckpoint, Checkpoints
  <2>2. /\ UNCHANGED <<jobs, rows, worker, executed>>
        /\ dpc[d] = "lookup" /\ dpc' = [dpc EXCEPT ![d] = "step"]
        /\ \A e \in Deciders : e = d
    BY <1>14 DEF FindCheckpoint, OneDecision
  <2>3. Waiting(i)
    BY <2>1, <2>2 DEF Waiting
  <2>4. jobs = 0 /\ NobodyMoves /\ NobodyDecides /\ NothingPends /\ \A c \in Checkpoints \ {i} : ~Waiting(c)
    BY <2>3 DEF OnceInv, OneChance, NothingWaits
  <2>5. dpc'[d] = "step" /\ target'[d] = i
    BY <2>1, <2>2 DEF PlaceInv, TypeOK
  <2>6. /\ NobodyMoves' /\ NothingPends' /\ NothingWaits' /\ i \notin OfKind("tool")
    BY <2>2, <2>4, <2>5 DEF NobodyMoves, Moving, NothingPends, Pending, NothingWaits, Waiting, Checkpoints
  <2>7. OneChance'
    BY <2>2, <2>4, <2>6 DEF OneChance, NobodyMoves, NothingWaits, NothingPends, OnceInv
  <2>8. \A j \in Steps : ~Spent(j)
    BY <2>3 DEF Spent, NothingWaits
  <2>9. ExecutedInv'
    BY <2>2, <2>5, <2>6, <2>8 DEF OnceInv, ExecutedInv, NothingPends
  <2> QED
    BY <2>2, <2>7, <2>9 DEF OnceInv
<1>15. ASSUME NEW d \in Deciders, DecideRequest(d) PROVE OnceInv'
  <2>1. PICK i \in OfKind("tool") : \E k \in DOMAIN approvals[i], answer \in {"approve", "deny"} :
          /\ approvals[i][k] = "pending"
          /\ approvals' = [approvals EXCEPT ![i][k] =
                              IF answer = "approve" THEN "approved" ELSE "denied"]
          /\ target' = [target EXCEPT ![d] = i]
    BY <1>15 DEF DecideRequest
  <2>2. PICK k \in DOMAIN approvals[i], answer \in {"approve", "deny"} :
          /\ approvals[i][k] = "pending"
          /\ approvals' = [approvals EXCEPT ![i][k] =
                              IF answer = "approve" THEN "approved" ELSE "denied"]
          /\ target' = [target EXCEPT ![d] = i]
    BY <2>1
  <2>3. /\ UNCHANGED <<jobs, steps, tasks, worker, executed>>
        /\ dpc[d] = "idle" /\ dpc' = [dpc EXCEPT ![d] = "step"]
        /\ \A e \in Deciders : e = d
    BY <1>15 DEF DecideRequest, OneDecision
  <2>4. Pending(i)
    BY <2>2 DEF Pending
  <2>5. /\ jobs = 0 /\ NobodyMoves /\ NobodyDecides /\ NothingWaits /\ executed[i] = 0
        /\ \A j \in Steps \ {i} : ~Pending(j)
        /\ \A l \in DOMAIN approvals[i] : approvals[i][l] = "pending" => l = k
    BY <2>2, <2>4 DEF OnceInv, OneChance, NothingPends, ExecutedInv
  <2>6. dpc'[d] = "step" /\ target'[d] = i
    BY <2>2, <2>3 DEF PlaceInv, TypeOK
  <2>7. NothingPends'
    <3>1. \A j \in Steps \ {i} : approvals'[j] = approvals[j]
      BY <2>2 DEF PlaceInv, TypeOK
    <3>2. \A l \in DOMAIN approvals'[i] : approvals'[i][l] # "pending"
      BY <2>2, <2>5 DEF PlaceInv, TypeOK
    <3> QED
      BY <2>5, <3>1, <3>2 DEF NothingPends, Pending
  <2>8. NobodyMoves' /\ NothingWaits'
    BY <2>3, <2>5 DEF NobodyMoves, Moving, NothingWaits, Waiting
  <2>9. OneChance'
    BY <2>3, <2>5, <2>7, <2>8 DEF OneChance, NobodyMoves, NothingWaits, NothingPends, Pending
  <2>10. \A j \in Steps : ~Spent(j)
    BY <2>4 DEF Spent, NothingPends
  <2>11. ExecutedInv'
    BY <2>3, <2>5, <2>6, <2>7, <2>10 DEF OnceInv, ExecutedInv, NothingPends
  <2> QED
    BY <2>3, <2>9, <2>11 DEF OnceInv
<1>16. ASSUME NEW d \in Deciders, DecideStep(d) PROVE OnceInv'
  <2>1. PICK i \in Steps : i = target[d]
    BY DEF PlaceInv, TypeOK
  <2>2. /\ UNCHANGED <<jobs, approvals, tasks, worker, executed, target>>
        /\ dpc[d] = "step" /\ dpc' = [dpc EXCEPT ![d] = "run"] /\ \A e \in Deciders : e = d
        /\ \E state \in {"failed", "in_progress", "completed"} : steps' = [steps EXCEPT ![i] = state]
    BY <1>16, <2>1 DEF DecideStep, SetStep, OneDecision
  <2>3. Deciding(d)
    BY <2>2 DEF Deciding
  <2>4. jobs = 0 /\ NobodyMoves /\ NothingWaits /\ NothingPends
    BY <2>3 DEF OnceInv, OneChance, NobodyDecides
  <2>5. executed[i] = 0
    <3>1. i \in OfKind("tool") => executed[i] = 0
      BY <2>1, <2>3 DEF OnceInv, ExecutedInv
    <3> QED
      BY <3>1 DEF OnceInv, ExecutedInv
  <2>6. dpc'[d] = "run" /\ steps'[i] # "needs_approval" /\ \A j \in Steps \ {i} : steps'[j] = steps[j]
    BY <2>2 DEF PlaceInv, TypeOK
  <2>7. NobodyMoves' /\ NothingPends'
    BY <2>2, <2>4 DEF NobodyMoves, Moving, NothingPends, Pending
  <2>8. NothingWaits'
    BY <2>1, <2>2, <2>4, <2>6 DEF NothingWaits, Waiting, Checkpoints
  <2>9. OneChance'
    BY <2>2, <2>4, <2>7, <2>8 DEF OneChance, NobodyMoves, NothingWaits, NothingPends, Pending
  <2>10. \A j \in Steps : ~Spent(j)
    BY <2>3 DEF Spent, NobodyDecides
  <2>11. ExecutedInv'
    BY <2>1, <2>2, <2>3, <2>5, <2>6, <2>7, <2>10 DEF OnceInv, ExecutedInv, NothingPends
  <2> QED
    BY <2>2, <2>9, <2>11 DEF OnceInv
<1>17. ASSUME NEW d \in Deciders, DecideRun(d) PROVE OnceInv'
  <2>1. /\ UNCHANGED <<rows, worker, executed, target>>
        /\ dpc[d] = "run" /\ dpc' = [dpc EXCEPT ![d] = "idle"] /\ \A e \in Deciders : e = d
        /\ jobs' = jobs \/ jobs' = jobs + 1
    BY <1>17 DEF DecideRun, OneDecision
  <2>2. Deciding(d)
    BY <2>1 DEF Deciding
  <2>3. jobs = 0 /\ NobodyMoves /\ NothingWaits /\ NothingPends
    BY <2>2 DEF OnceInv, OneChance, NobodyDecides
  <2>4. jobs' \in {0, 1} /\ dpc'[d] = "idle"
    BY <2>1, <2>3 DEF PlaceInv, TypeOK
  <2>5. NobodyMoves' /\ NobodyDecides' /\ NothingPends' /\ NothingWaits'
    BY <2>1, <2>3, <2>4 DEF NobodyMoves, Moving, NobodyDecides, Deciding, NothingPends, Pending, NothingWaits,
      Waiting
  <2>6. OneChance'
    BY <2>1, <2>4, <2>5 DEF OneChance, NobodyMoves, NothingWaits, NothingPends, Pending
  <2>7. \A j \in Steps : ~Spent(j)
    BY <2>2 DEF Spent, NobodyDecides
  <2>8. ExecutedInv'
    BY <2>1, <2>5, <2>7 DEF OnceInv, ExecutedInv, NobodyDecides, NothingPends
  <2> QED
    BY <2>1, <2>6, <2>8 DEF OnceInv
<1> QED
  BY ONLY [Next]_vars, <1>0, <1>1, <1>2, <1>3, <1>4, <1>5, <1>6, <1>7, <1>8, <1>9, <1>10, <1>11, <1>12,
    <1>13, <1>14, <1>15, <1>16, <1>17
    DEF Next, EngineStep, DecisionStep

\* With one decision made at a time, a workflow of tools, checkpoints and conditions has
\* one chance to go on, so that none of its tools runs twice, however many workers there
\* are, wherever they die and whatever they overwrite; a loop does not run one again
\* (advance_workflow_run).
THEOREM ToolsRunOnce == ASSUME NoTasks, OneDecision PROVE Spec => []StepsOnce
<1>1. OnceInv => StepsOnce
  BY DEF OnceInv, ExecutedInv, StepsOnce, Spawned
<1> QED
  BY InitPlace, StepPlace, InitOnce, StepOnce, <1>1, PTL DEF Spec
=============================================================================
