---------------------------- MODULE AgentTeamRun ----------------------------
(***************************************************************************)
(* One objective given to an agent team: the deliveries that call          *)
(* advance_agent_team_run and the tasks it creates for the members.        *)
(*                                                                         *)
(* A call reads the run, then the run's tasks, and acts on what it read;   *)
(* nothing is locked.  Tasks are created one at a time, each committed and *)
(* queued before the next.                                                 *)
(***************************************************************************)
EXTENDS Integers, Sequences

CONSTANTS
    Patterns,     \* collaboration patterns a team may have
    MaxMembers,   \* bound: team size
    Workers,      \* worker processes
    MaxReturns,   \* bound: deliveries of the members' tasks that end
    MaxFaults,    \* bound: deliveries that die
    MaxEdits      \* bound: changes of the team's pattern during the run

AllPatterns == {"sequential", "manager_delegate", "parallel_merge"}

TeamAssumption ==
    /\ Patterns \subseteq AllPatterns
    /\ MaxMembers \in Nat \ {0}
    /\ MaxReturns \in Nat /\ MaxFaults \in Nat /\ MaxEdits \in Nat

VARIABLES
    size,         \* members of the pinned team version, by position 1..size
    manager,      \* the member with the manager role, 0 when none has it
    pattern,      \* AgentTeam.collaboration_pattern, which is not versioned
    status,       \* AgentTeamRun.status
    result,       \* the tasks whose results the run's result is made of
    tasks,        \* the run's tasks in order of creation
    jobs,         \* deliveries of the run waiting in the broker
    (* A worker inside advance_agent_team_run. *)
    pc,           \* where it stands
    how,          \* the pattern it read with the run
    plan,         \* the tasks it still has to create
    found,        \* the result it found
    (* Bounds. *)
    returns, faults, edits

team == <<size, manager>>
run == <<status, result>>
worker == <<pc, how, plan, found>>
bounds == <<returns, faults, edits>>

vars == <<team, pattern, run, tasks, jobs, worker, bounds>>

-----------------------------------------------------------------------------
Members == 1..size
Phases == {"plan", "delegate", "synthesis", "turn"}
Ended == {"completed", "failed", "blocked"}

Assignment == [member : 1..MaxMembers, phase : Phases]

Assign(member, phase) == [member |-> member, phase |-> phase]

\* The tasks of a phase, by their place in the order of creation.
Of(phase) == {t \in DOMAIN tasks : tasks[t].phase = phase}

AnyFailed == \E t \in DOMAIN tasks : tasks[t].state = "failed"
AllEnded == \A t \in DOMAIN tasks : tasks[t].state \in Ended

\* A task for every member, or for all but the manager, in order of position.
ForAll(phase) == [i \in 1..size |-> Assign(i, phase)]
ForDelegates ==
    [i \in 1..(size - 1) |-> Assign(IF i < manager THEN i ELSE i + 1, "delegate")]

\* A team is saved with one manager if it delegates; the run is committed and
\* its first delivery queued.
Init ==
    /\ size \in 1..MaxMembers /\ manager \in 0..size
    /\ pattern \in Patterns
    /\ pattern = "manager_delegate" => manager # 0
    /\ status = "running" /\ result = {}
    /\ tasks = <<>>
    /\ jobs = 1
    /\ pc = [w \in Workers |-> "idle"] /\ how = [w \in Workers |-> pattern]
    /\ plan = [w \in Workers |-> <<>>] /\ found = [w \in Workers |-> {}]
    /\ returns = 0 /\ faults = 0 /\ edits = 0

Goto(w, stage) == pc' = [pc EXCEPT ![w] = stage]

-----------------------------------------------------------------------------
Take(w) ==
    /\ pc[w] = "idle" /\ jobs > 0
    /\ jobs' = jobs - 1
    /\ Goto(w, "run")
    /\ UNCHANGED <<team, pattern, run, tasks, how, plan, found, bounds>>

ReadRun(w) ==
    /\ pc[w] = "run"
    /\ \/ status = "running" /\ Goto(w, "tasks") /\ how' = [how EXCEPT ![w] = pattern]
       \/ status # "running" /\ Goto(w, "idle") /\ UNCHANGED how
    /\ UNCHANGED <<team, pattern, run, tasks, jobs, plan, found, bounds>>

(* The tasks are read.  A failed one fails the run at once, an open one     *)
(* makes the caller poll; otherwise the pattern decides what comes next.   *)
ReadFailure(w) ==
    /\ pc[w] = "tasks"
    /\ AnyFailed
    /\ Goto(w, "fail")
    /\ UNCHANGED <<team, pattern, run, tasks, jobs, how, plan, found, bounds>>

ReadOpen(w) ==
    /\ pc[w] = "tasks"
    /\ ~AnyFailed /\ ~AllEnded
    /\ Goto(w, "poll")
    /\ UNCHANGED <<team, pattern, run, tasks, jobs, how, plan, found, bounds>>

Ready(w) == pc[w] = "tasks" /\ ~AnyFailed /\ AllEnded

StartsCreating(w, assignments) ==
    /\ plan' = [plan EXCEPT ![w] = assignments]
    /\ Goto(w, "create")
    /\ UNCHANGED <<team, pattern, run, tasks, jobs, how, found, bounds>>

FindsResult(w, parts) ==
    /\ found' = [found EXCEPT ![w] = parts]
    /\ Goto(w, "complete")
    /\ UNCHANGED <<team, pattern, run, tasks, jobs, how, plan, bounds>>

(* next() over the members raises when none is a manager.                  *)
Raise(w) ==
    /\ Ready(w)
    /\ how[w] = "manager_delegate" /\ manager = 0
    /\ Goto(w, "idle")
    /\ UNCHANGED <<team, pattern, run, tasks, jobs, how, plan, found, bounds>>

ManagerPlans(w) ==
    /\ Ready(w)
    /\ how[w] = "manager_delegate" /\ manager # 0
    /\ tasks = <<>>
    /\ StartsCreating(w, <<Assign(manager, "plan")>>)

\* Mutant of ManagerDelegates: it is not checked that nobody was asked yet.
DelegatesAgain(w) ==
    /\ Ready(w)
    /\ how[w] = "manager_delegate" /\ manager # 0
    /\ Of("plan") # {} /\ Of("synthesis") = {}
    /\ StartsCreating(w, IF size = 1 THEN <<Assign(manager, "synthesis")>>
                         ELSE ForDelegates)

ManagerDelegates(w) ==
    /\ Ready(w)
    /\ how[w] = "manager_delegate" /\ manager # 0
    /\ Of("plan") # {} /\ Of("delegate") = {} /\ Of("synthesis") = {}
    /\ StartsCreating(w, IF size = 1 THEN <<Assign(manager, "synthesis")>>
                         ELSE ForDelegates)

ManagerSynthesizes(w) ==
    /\ Ready(w)
    /\ how[w] = "manager_delegate" /\ manager # 0
    /\ Of("delegate") # {} /\ Of("synthesis") = {}
    /\ StartsCreating(w, <<Assign(manager, "synthesis")>>)

\* Mutant of ManagerConcludes: it does not wait for the synthesis.
ConcludesEarly(w) ==
    /\ Ready(w)
    /\ how[w] = "manager_delegate" /\ manager # 0
    /\ tasks # <<>>
    /\ FindsResult(w, {t \in Of("synthesis") : \A u \in Of("synthesis") : t <= u})

(* With a synthesis its result is taken; with none of the three, as after  *)
(* a change of pattern, the run completes on an empty one.                 *)
ManagerConcludes(w) ==
    /\ Ready(w)
    /\ how[w] = "manager_delegate" /\ manager # 0
    /\ tasks # <<>>
    /\ Of("synthesis") # {} \/ Of("plan") \cup Of("delegate") = {}
    /\ FindsResult(w, {t \in Of("synthesis") : \A u \in Of("synthesis") : t <= u})

NextTurn(w) ==
    /\ Ready(w)
    /\ how[w] = "sequential"
    /\ Len(tasks) < size
    /\ StartsCreating(w, <<Assign(Len(tasks) + 1, "turn")>>)

LastTurn(w) ==
    /\ Ready(w)
    /\ how[w] = "sequential"
    /\ Len(tasks) >= size
    /\ FindsResult(w, {Len(tasks)})

AllContribute(w) ==
    /\ Ready(w)
    /\ how[w] = "parallel_merge"
    /\ tasks = <<>>
    /\ StartsCreating(w, ForAll("turn"))

Merge(w) ==
    /\ Ready(w)
    /\ how[w] = "parallel_merge"
    /\ tasks # <<>>
    /\ FindsResult(w, DOMAIN tasks)

Decide(w) ==
    \/ ReadFailure(w) \/ ReadOpen(w) \/ Raise(w)
    \/ ManagerPlans(w) \/ ManagerDelegates(w) \/ ManagerSynthesizes(w) \/ ManagerConcludes(w)
    \/ NextTurn(w) \/ LastTurn(w) \/ AllContribute(w) \/ Merge(w)

-----------------------------------------------------------------------------
(* _team_task commits and queues one task; after the last the caller polls. *)
Create(w) ==
    /\ pc[w] = "create"
    /\ plan[w] # <<>>
    /\ LET a == Head(plan[w]) IN
       tasks' = Append(tasks, [member |-> a.member, phase |-> a.phase, state |-> "open"])
    /\ plan' = [plan EXCEPT ![w] = Tail(@)]
    /\ UNCHANGED <<team, pattern, run, jobs, pc, how, found, bounds>>

(* A delivery that may have to come back queues the run again.             *)
Poll(w) ==
    /\ pc[w] = "poll" \/ (pc[w] = "create" /\ plan[w] = <<>>)
    /\ jobs' = jobs + 1
    /\ Goto(w, "idle")
    /\ UNCHANGED <<team, pattern, run, tasks, how, plan, found, bounds>>

Fail(w) ==
    /\ pc[w] = "fail"
    /\ status' = "failed" /\ result' = {}
    /\ Goto(w, "idle")
    /\ UNCHANGED <<team, pattern, tasks, jobs, how, plan, found, bounds>>

Complete(w) ==
    /\ pc[w] = "complete"
    /\ status' = "completed" /\ result' = found[w]
    /\ Goto(w, "idle")
    /\ UNCHANGED <<team, pattern, tasks, jobs, how, plan, found, bounds>>

(* A crash, or an exception, ends the delivery; nothing enqueues another.  *)
Die(w) ==
    /\ faults < MaxFaults
    /\ pc[w] # "idle"
    /\ faults' = faults + 1
    /\ Goto(w, "idle")
    /\ UNCHANGED <<team, pattern, run, tasks, jobs, how, plan, found, returns, edits>>

-----------------------------------------------------------------------------
(* The members' tasks, as TaskEngine leaves them.                          *)
TaskEnds(t) ==
    /\ tasks[t].state = "open"
    /\ \E state \in Ended : tasks' = [tasks EXCEPT ![t].state = state]
    /\ UNCHANGED <<team, pattern, run, jobs, worker, bounds>>

(* A delivery of the task that ends, or only pauses it, queues the run.    *)
TaskReturns ==
    /\ tasks # <<>>
    /\ returns < MaxReturns
    /\ returns' = returns + 1
    /\ jobs' = jobs + 1
    /\ UNCHANGED <<team, pattern, run, tasks, worker, faults, edits>>

(* A member of the workspace changes the team's pattern: without members in *)
(* the request nothing is validated against it.                            *)
ChangePattern ==
    /\ edits < MaxEdits
    /\ pattern' \in Patterns \ {pattern}
    /\ edits' = edits + 1
    /\ UNCHANGED <<team, run, tasks, jobs, worker, returns, faults>>

EngineStep(w) ==
    Take(w) \/ ReadRun(w) \/ Decide(w) \/ Create(w) \/ Poll(w) \/ Fail(w) \/ Complete(w)

Next ==
    \/ \E w \in Workers : EngineStep(w) \/ Die(w)
    \/ \E t \in DOMAIN tasks : TaskEnds(t)
    \/ TaskReturns
    \/ ChangePattern

Spec == Init /\ [][Next]_vars

(* Live workers take and finish deliveries; the tasks promise nothing.     *)
LiveSpec == Spec /\ \A w \in Workers : WF_vars(EngineStep(w))

-----------------------------------------------------------------------------
(***************************************************************************)
(* Properties.                                                             *)
(***************************************************************************)

TypeOK ==
    /\ size \in 1..MaxMembers /\ manager \in 0..size /\ pattern \in AllPatterns
    /\ status \in {"running", "completed", "failed"} /\ result \subseteq DOMAIN tasks
    /\ tasks \in Seq([member : Members, phase : Phases, state : Ended \cup {"open"}])
    /\ jobs \in Nat
    /\ pc \in [Workers -> {"idle", "run", "tasks", "fail", "poll", "create", "complete"}]
    /\ how \in [Workers -> AllPatterns]
    /\ plan \in [Workers -> Seq(Assignment)]
    /\ \A w \in Workers : found[w] \subseteq DOMAIN tasks
    /\ returns \in Nat /\ faults \in Nat /\ edits \in Nat

\* Each member is asked once per phase, though every poll and every returning
\* task calls the engine again.
AskedOnce ==
    \A t, u \in DOMAIN tasks :
        tasks[t].member = tasks[u].member /\ tasks[t].phase = tasks[u].phase => t = u

Contributed(m, phase) ==
    \E t \in DOMAIN tasks :
        tasks[t].member = m /\ tasks[t].phase = phase /\ tasks[t].state \in {"completed", "blocked"}

\* A run completes on the contributions of the whole team: none failed, none
\* is missing, and the manager's synthesis comes after the delegates' work.
\* A delivery that died between two creations, or a pattern changed under the
\* run, breaks this and is excluded.
CompletedIsWhole ==
    status = "completed" /\ faults = 0 /\ edits = 0 =>
        /\ ~AnyFailed /\ AllEnded
        /\ IF pattern = "manager_delegate"
           THEN /\ \A m \in Members \ {manager} : Contributed(m, "delegate")
                /\ \E t \in result : tasks[t].member = manager /\ tasks[t].phase = "synthesis"
           ELSE \A m \in Members : Contributed(m, "turn")

\* The synthesis is not asked for while a contribution is outstanding.
SynthesisLast ==
    Of("synthesis") # {} => \A t \in Of("delegate") \cup Of("plan") : tasks[t].state \in Ended

\* A run ends, or waits for a task, unless a delivery was lost or raised.
RunEnds ==
    []<>(\/ status # "running" \/ ~AllEnded
         \/ faults > 0 \/ edits > 0)
=============================================================================
