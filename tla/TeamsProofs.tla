---------------------------- MODULE TeamsProofs -----------------------------
(***************************************************************************)
(* What coworkers do together, for any team, pattern, options, designs and *)
(* bounds.                                                                 *)
(*                                                                         *)
(* The session: while nobody asks a question or edits the team, the tasks  *)
(* finished stay as many as the rule counted (RuleInv).                    *)
(*                                                                         *)
(* The run: what a worker still has to create has been asked of nobody and *)
(* goes on with the numbering of the tasks (AskInv, PlanOK); and without   *)
(* lost deliveries and edits the tasks follow the script of the pattern,   *)
(* of which the whole is there when the run completes (ScriptInv).         *)
(*                                                                         *)
(* The design: what is left of a proposal is sound, with one manager where *)
(* one delegates, and stays so until somebody changes it (DesignInv).      *)
(***************************************************************************)
EXTENDS MCTeams, Sequences, SequenceTheorems, FiniteSetTheorems, NaturalsInduction, TLAPS

-----------------------------------------------------------------------------
(* The session.                                                            *)

\* Once counted, the tasks finished stay as many as the rule expects.
CountStands == status # "collecting" => Cardinality(Finished) >= expected

NobodyAsks == \A m \in Coworkers : tasks[m] # "needs_input"

RuleInv ==
    /\ tasks \in [Coworkers -> TaskStates]
    /\ expected \in Nat /\ edits \in Nat /\ questions \in Nat
    /\ Undisturbed => NobodyAsks /\ CountStands
    /\ ResultIsTheRule

-----------------------------------------------------------------------------
\* The finished tasks can be counted.
LEMMA FinishedIsFinite == IsFiniteSet(Finished) /\ Cardinality(Finished) \in Nat
<1>1. Finished \subseteq Coworkers
  BY DEF Finished
<1>. QED
  BY <1>1, ConstantsAssumption, FS_Subset, FS_CardinalityType

\* A step that finishes tasks and unfinishes none keeps the count standing.
LEMMA FinishedGrows ==
    ASSUME Finished \subseteq Finished', expected' = expected, expected \in Nat, status' = status,
           CountStands
    PROVE  CountStands'
<1>1. Finished' \subseteq Coworkers
  BY DEF Finished
<1>2. IsFiniteSet(Finished') /\ Cardinality(Finished') \in Nat
  BY <1>1, ConstantsAssumption, FS_Subset, FS_CardinalityType
<1>3. Cardinality(Finished) <= Cardinality(Finished')
  BY <1>2, FS_Subset
<1>. QED
  BY <1>2, <1>3, FinishedIsFinite DEF CountStands

\* A session nobody counted again has the result the rule gave it.
LEMMA ResultStands ==
    ASSUME ResultIsTheRule, UNCHANGED <<session, votes>>, expected' = expected,
           Undisturbed' => Undisturbed
    PROVE  ResultIsTheRule'
BY DEF ResultIsTheRule, session

-----------------------------------------------------------------------------
LEMMA InitRule == Init => RuleInv
BY FinishedIsFinite, FS_CardinalityType, ConstantsAssumption
DEF Init, RuleInv, ResultIsTheRule, CountStands, NobodyAsks, TaskStates, Unfinished

(* One step per action.                                                    *)
LEMMA StepRule == RuleInv /\ [Next]_vars => RuleInv'
<1>. SUFFICES ASSUME RuleInv, [Next]_vars PROVE RuleInv'
  OBVIOUS
<1>. USE DEF RuleInv, TaskStates, Unfinished
\* The steps of a voting task that leave its state finished or never were.
<1>1. ASSUME NEW m \in Coworkers, TaskClaimed(m) PROVE RuleInv'
  <2>1. Finished \subseteq Finished'
    BY <1>1 DEF TaskClaimed, Finished
  <2>. QED
    BY <1>1, <2>1, FinishedGrows, ResultStands
    DEF TaskClaimed, session, Undisturbed, NobodyAsks
<1>2. ASSUME NEW m \in Coworkers, TaskReports(m) PROVE RuleInv'
  <2>1. Finished \subseteq Finished'
    BY <1>2 DEF TaskReports, Finished
  <2>2. Undisturbed' => Undisturbed /\ NobodyAsks'
    BY <1>2 DEF TaskReports, Undisturbed, NobodyAsks
  <2>3. /\ tasks' \in [Coworkers -> TaskStates] /\ questions' \in Nat
        /\ UNCHANGED <<session, votes, expected, edits>>
    BY <1>2 DEF TaskReports
  <2>. QED
    BY <2>1, <2>2, <2>3, FinishedGrows, ResultStands DEF session
<1>3. ASSUME NEW m \in Coworkers, TaskAnswered(m) PROVE RuleInv'
  BY <1>3, ResultStands DEF TaskAnswered, session, bounds, Undisturbed, NobodyAsks
<1>4. ASSUME NEW m \in Coworkers, RedundantDelivery(m) \/ RecordNothing(m) \/ Crash(m)
      PROVE RuleInv'
  <2>1. UNCHANGED <<session, votes, tasks, expected, edits, questions>>
    BY <1>4 DEF RedundantDelivery, RecordNothing, Crash, bounds
  <2>. QED
    BY <2>1, ResultStands DEF session, Undisturbed, NobodyAsks, CountStands, Finished
\* A vote: recounted if all are finished, and if not no count was made before.
<1>5. ASSUME NEW m \in Coworkers, Record(m) PROVE RuleInv'
  <2>1. UNCHANGED <<tasks, expected, edits, questions>>
    BY <1>5 DEF Record, bounds
  <2>2. Finished' = Finished
    BY <2>1 DEF Finished
  <2>3. CASE Cardinality(Finished) < expected
    <3>1. UNCHANGED session
      BY <1>5, <2>3 DEF Record, Finalize
    <3>2. Undisturbed => status = "collecting"
      BY <2>3, FinishedIsFinite DEF CountStands
    <3>. QED
      BY <2>1, <2>2, <3>1, <3>2
      DEF session, Undisturbed, NobodyAsks, CountStands, ResultIsTheRule
  <2>4. CASE ~(Cardinality(Finished) < expected)
    <3>1. /\ status' = IF Winner(method, expected, votes') = None THEN "deadlocked" ELSE "decided"
          /\ result' = Winner(method, expected, votes')
          /\ UNCHANGED method
      BY <1>5, <2>4 DEF Record, Finalize
    <3>2. ResultIsTheRule'
      BY <2>1, <3>1 DEF ResultIsTheRule
    <3>. QED
      BY <2>1, <2>2, <2>4, <3>2, FinishedIsFinite
      DEF Undisturbed, NobodyAsks, CountStands
  <2>. QED
    BY <2>3, <2>4
<1>6. ASSUME EditTeam PROVE RuleInv'
  <2>1. edits' # 0 /\ edits' \in Nat /\ expected' \in Nat /\ UNCHANGED <<tasks, questions>>
    BY <1>6, ConstantsAssumption, FS_CardinalityType DEF EditTeam
  <2>. QED
    BY <2>1 DEF Undisturbed, ResultIsTheRule
<1>7. ASSUME UNCHANGED vars PROVE RuleInv'
  BY <1>7, ResultStands DEF vars, session, bounds, Undisturbed, NobodyAsks, CountStands, Finished
<1>. QED
  BY <1>1, <1>2, <1>3, <1>4, <1>5, <1>6, <1>7 DEF Next


-----------------------------------------------------------------------------
(* The team run.                                                           *)

\* One delivery of the run is worked on at a time.
OneWorker == \A v, w \in Workers : v = w

Stages == {"idle", "run", "tasks", "fail", "poll", "create", "complete"}
Item == [member : 1..size, phase : A!Phases]
Asked == [member : 1..size, phase : A!Phases, state : A!Ended \cup {"open"}]

TeamTypes ==
    /\ size \in Nat \ {0} /\ manager \in 0..size /\ pattern \in A!AllPatterns
    /\ runTasks \in Seq(Asked)
    /\ pc \in [Workers -> Stages]
    /\ how = [w \in Workers |-> how[w]] /\ found = [w \in Workers |-> found[w]]
    /\ plan \in [Workers -> Seq(Item)]
    /\ runFaults \in Nat /\ runEdits \in Nat

Same(a, b) == a.member = b.member /\ a.phase = b.phase

\* The n + 1st task and those after it: a turn is asked of the member of its place.
Numbered(s, n) == \A k \in DOMAIN s : s[k].phase = "turn" => s[k].member = n + k

\* What a worker still has to create: nobody has been asked for it, and a synthesis
\* only when all has ended.
PlanOK(w) ==
    /\ Numbered(plan[w], Len(runTasks))
    /\ \A j, k \in DOMAIN plan[w] : plan[w][j] = plan[w][k] => j = k
    /\ \A k \in DOMAIN plan[w] : \A t \in DOMAIN runTasks : ~Same(plan[w][k], runTasks[t])
    /\ A!Of("synthesis") # {} => \A k \in DOMAIN plan[w] : plan[w][k].phase \notin {"plan", "delegate"}
    /\ (\E k \in DOMAIN plan[w] : plan[w][k].phase = "synthesis") => A!AllEnded /\ Len(plan[w]) = 1

AskInv ==
    /\ Numbered(runTasks, 0)
    /\ A!AskedOnce /\ A!SynthesisLast
    /\ \A w \in Workers : pc[w] = "create" => PlanOK(w)
    /\ \A w \in Workers : pc[w] \notin {"idle", "run"} => runStatus = "running"

LEMMA InitTeam == MCInit => TeamTypes /\ AskInv
<1> SUFFICES ASSUME MCInit PROVE TeamTypes /\ AskInv
  OBVIOUS
<1>1. A!Init /\ A!TeamAssumption
  BY TeamsAssumption DEF MCInit
<1>2. TeamTypes
  BY <1>1 DEF A!Init, TeamTypes, Stages, A!TeamAssumption, A!AllPatterns
<1>3. AskInv
  BY <1>1 DEF A!Init, AskInv, Numbered, A!AskedOnce, A!SynthesisLast, A!Of
<1> QED
  BY <1>2, <1>3

\* What a worker writes at its desk has the right type.
LEMMA DeskTypes ==
    ASSUME TeamTypes, NEW w \in Workers
    PROVE  /\ \A s \in Stages : [pc EXCEPT ![w] = s] \in [Workers -> Stages]
           /\ \A s \in Seq(Item) : [plan EXCEPT ![w] = s] \in [Workers -> Seq(Item)]
BY DEF TeamTypes

\* The plans in which several are asked, and a task that is created.
LEMMA Turns ==
    ASSUME TeamTypes
    PROVE  /\ A!ForAll("turn") \in Seq(Item) /\ Len(A!ForAll("turn")) = size
           /\ \A k \in 1..size : A!ForAll("turn")[k] = A!Assign(k, "turn")
<1>1. size \in Nat /\ \A k \in 1..size : A!Assign(k, "turn") \in Item
  BY DEF TeamTypes, A!Assign, Item, A!Phases
<1> QED
  BY <1>1 DEF A!ForAll

\* The plan for delegates asks every member but the manager, in order.
LEMMA Delegates ==
    ASSUME TeamTypes, manager \in 1..size
    PROVE  /\ A!ForDelegates \in Seq(Item) /\ Len(A!ForDelegates) = size - 1
           /\ \A k \in 1..(size - 1) :
                 A!ForDelegates[k] = A!Assign(IF k < manager THEN k ELSE k + 1, "delegate")
<1>1. size - 1 \in Nat /\ \A k \in 1..(size - 1) : (IF k < manager THEN k ELSE k + 1) \in 1..size
  BY DEF TeamTypes
<1>2. \A k \in 1..(size - 1) : A!Assign(IF k < manager THEN k ELSE k + 1, "delegate") \in Item
  BY <1>1 DEF A!Assign, Item, A!Phases
<1> QED
  BY <1>1, <1>2 DEF A!ForDelegates

\* A task that is created goes to the end of the run.
LEMMA NewTask ==
    ASSUME TeamTypes, NEW w \in Workers, A!Create(w)
    PROVE  LET a == Head(plan[w]) IN
           /\ [member |-> a.member, phase |-> a.phase, state |-> "open"] \in Asked
           /\ runTasks' = Append(runTasks, [member |-> a.member, phase |-> a.phase, state |-> "open"])
           /\ runTasks' \in Seq(Asked) /\ Len(runTasks') = Len(runTasks) + 1
           /\ \A t \in DOMAIN runTasks : runTasks'[t] = runTasks[t]
<1>1. plan[w] \in Seq(Item) /\ plan[w] # <<>>
  BY DEF A!Create, TeamTypes
<1>2. PICK a \in Item : a = Head(plan[w])
  BY <1>1
<1>3. PICK task : task = [member |-> a.member, phase |-> a.phase, state |-> "open"]
  OBVIOUS
<1>4. task \in Asked
  BY <1>2, <1>3 DEF Item, Asked
<1>5. runTasks' = Append(runTasks, task) /\ runTasks \in Seq(Asked)
  BY <1>2, <1>3 DEF A!Create, TeamTypes
<1> QED
  BY <1>2, <1>3, <1>4, <1>5

LEMMA StepTeamTypes == TeamTypes /\ [A!Next]_teamvars => TeamTypes'
<1> SUFFICES ASSUME TeamTypes, [A!Next]_teamvars PROVE TeamTypes'
  OBVIOUS
<1> USE DEF TeamTypes, Stages, A!Goto, A!team, A!run, A!worker, A!bounds
<1>1. CASE UNCHANGED teamvars
  BY <1>1 DEF teamvars, Item, Asked
<1>2. ASSUME NEW w \in Workers, A!Take(w) \/ A!ReadRun(w) \/ A!Poll(w) \/ A!Fail(w) \/ A!Complete(w)
      PROVE TeamTypes'
  BY <1>2 DEF A!Take, A!ReadRun, A!Poll, A!Fail, A!Complete, Item, Asked
<1>3. ASSUME NEW w \in Workers, A!ReadFailure(w) \/ A!ReadOpen(w) \/ A!Raise(w)
      PROVE TeamTypes'
  BY <1>3 DEF A!ReadFailure, A!ReadOpen, A!Raise, Item, Asked
<1>13. ASSUME NEW w \in Workers, A!Die(w) PROVE TeamTypes'
  <2>1. /\ UNCHANGED <<size, manager, pattern, runTasks, how, found, plan, runEdits>>
        /\ runFaults' = runFaults + 1 /\ pc' = [pc EXCEPT ![w] = "idle"]
    BY <1>13 DEF A!Die
  <2>2. runFaults' \in Nat
    BY <2>1
  <2>3. Item' = Item /\ Asked' = Asked
    BY <2>1 DEF Item, Asked
  <2> QED
    BY <2>1, <2>2, <2>3
<1>4. ASSUME NEW w \in Workers, A!ManagerConcludes(w) \/ A!LastTurn(w) \/ A!Merge(w)
      PROVE TeamTypes'
  BY <1>4 DEF A!ManagerConcludes, A!LastTurn, A!Merge, A!FindsResult, Item, Asked
<1>5. ASSUME NEW w \in Workers, NEW s \in Seq(Item), A!StartsCreating(w, s) PROVE TeamTypes'
  BY <1>5 DEF A!StartsCreating, Item, Asked
<1>6. ASSUME NEW w \in Workers, A!ManagerPlans(w) \/ A!ManagerSynthesizes(w)
      PROVE TeamTypes'
  <2>1. manager \in 1..size
    BY <1>6 DEF A!ManagerPlans, A!ManagerSynthesizes
  <2>2. \A p \in A!Phases : A!Assign(manager, p) \in Item
    BY <2>1 DEF A!Assign, Item
  <2>3. \A p \in A!Phases : <<A!Assign(manager, p)>> \in Seq(Item)
    BY <2>2
  <2>4. {"plan", "synthesis"} \subseteq A!Phases
    BY DEF A!Phases
  <2> QED
    BY ONLY <1>6, <1>5, <2>3, <2>4 DEF A!ManagerPlans, A!ManagerSynthesizes
<1>7. ASSUME NEW w \in Workers, A!ManagerDelegates(w) PROVE TeamTypes'
  <2>1. manager \in 1..size
    BY <1>7 DEF A!ManagerDelegates
  <2>2. A!ForDelegates \in Seq(Item)
    BY <2>1, Delegates
  <2>3. <<A!Assign(manager, "synthesis")>> \in Seq(Item)
    BY <2>1 DEF A!Assign, Item, A!Phases
  <2> QED
    BY ONLY <1>7, <1>5, <2>2, <2>3 DEF A!ManagerDelegates
<1>8. ASSUME NEW w \in Workers, A!NextTurn(w) PROVE TeamTypes'
  <2>1. Len(runTasks) + 1 \in 1..size
    BY <1>8 DEF A!NextTurn
  <2>2. <<A!Assign(Len(runTasks) + 1, "turn")>> \in Seq(Item)
    BY <2>1 DEF A!Assign, Item, A!Phases
  <2> QED
    BY ONLY <1>8, <1>5, <2>2 DEF A!NextTurn
<1>9. ASSUME NEW w \in Workers, A!AllContribute(w) PROVE TeamTypes'
  BY ONLY TeamTypes, <1>9, <1>5, Turns DEF A!AllContribute
<1>10. ASSUME NEW w \in Workers, A!Create(w) PROVE TeamTypes'
  <2>1. /\ UNCHANGED <<size, manager, pattern, pc, how, found, runFaults, runEdits>>
        /\ plan' = [plan EXCEPT ![w] = Tail(@)] /\ plan[w] # <<>>
    BY <1>10 DEF A!Create
  <2>2. plan[w] \in Seq(Item) /\ Head(plan[w]) \in Item /\ Tail(plan[w]) \in Seq(Item)
    BY <2>1
  <2>3. runTasks' \in Seq(Asked)
    BY <1>10, <2>2, NewTask
  <2> QED
    BY <2>1, <2>2, <2>3 DEF Item, Asked
<1>11. ASSUME NEW t \in DOMAIN runTasks, A!TaskEnds(t) PROVE TeamTypes'
  <2>1. /\ UNCHANGED <<size, manager, pattern, pc, how, found, plan, runFaults, runEdits>>
        /\ \E state \in A!Ended : runTasks' = [runTasks EXCEPT ![t].state = state]
    BY <1>11 DEF A!TaskEnds
  <2>2. \A state \in A!Ended : [runTasks[t] EXCEPT !.state = state] \in Asked
    <3>1. runTasks[t] \in Asked
      OBVIOUS
    <3> QED
      BY <3>1 DEF Asked
  <2>3. runTasks' \in Seq(Asked)
    BY <2>1, <2>2
  <2> QED
    BY <2>1, <2>3 DEF Item, Asked
<1>12. CASE A!TaskReturns
  <2>1. UNCHANGED <<size, manager, pattern, pc, how, found, plan, runTasks, runFaults, runEdits>>
    BY <1>12 DEF A!TaskReturns
  <2> QED
    BY <2>1 DEF Item, Asked
<1>14. CASE A!ChangePattern
  <2>1. /\ UNCHANGED <<size, manager, pc, how, found, plan, runTasks, runFaults>>
        /\ pattern' \in Patterns /\ runEdits' = runEdits + 1
    BY <1>14 DEF A!ChangePattern
  <2>2. pattern' \in A!AllPatterns
    BY <2>1, TeamsAssumption DEF A!TeamAssumption
  <2>3. runEdits' \in Nat
    BY <2>1
  <2>4. Item' = Item /\ Asked' = Asked
    BY <2>1 DEF Item, Asked
  <2> QED
    BY <2>1, <2>2, <2>3, <2>4
<1> QED
  BY ONLY [A!Next]_teamvars, <1>1, <1>2, <1>3, <1>4, <1>6, <1>7, <1>8, <1>9, <1>10, <1>11, <1>12, <1>13, <1>14
    DEF A!Next, A!EngineStep, A!Decide

-----------------------------------------------------------------------------
\* What leaves the tasks and the plans alone.
LEMMA AskLeaves ==
    ASSUME AskInv, UNCHANGED <<runTasks, plan, runStatus>>,
           \A w \in Workers : pc'[w] = "create" => pc[w] = "create",
           \A w \in Workers : pc'[w] \notin {"idle", "run"} =>
              pc[w] \notin {"idle", "run"} \/ runStatus = "running"
    PROVE  AskInv'
BY DEF AskInv, PlanOK, Numbered, Same, A!AskedOnce, A!SynthesisLast, A!AllEnded, A!Of

\* One who starts to create, alone.
LEMMA AskStarts ==
    ASSUME OneWorker, AskInv, NEW w \in Workers, NEW s, A!StartsCreating(w, s), TeamTypes,
           pc[w] = "tasks",
           Numbered(s, Len(runTasks)), \A j, k \in DOMAIN s : s[j] = s[k] => j = k,
           \A k \in DOMAIN s : \A t \in DOMAIN runTasks : ~Same(s[k], runTasks[t]),
           A!Of("synthesis") # {} => \A k \in DOMAIN s : s[k].phase \notin {"plan", "delegate"},
           (\E k \in DOMAIN s : s[k].phase = "synthesis") => A!AllEnded /\ Len(s) = 1
    PROVE  AskInv'
<1>1. UNCHANGED <<runTasks, runStatus>> /\ plan'[w] = s /\ \A v \in Workers : v = w
  BY DEF A!StartsCreating, A!run, TeamTypes, OneWorker
<1>2. PlanOK(w)'
  BY <1>1 DEF PlanOK, Numbered, Same, A!Of, A!AllEnded
<1>3. runStatus = "running"
  BY DEF AskInv
<1> QED
  BY <1>1, <1>2, <1>3 DEF AskInv, Numbered, A!AskedOnce, A!SynthesisLast, A!Of

\* A place among the tasks is a number and holds a task.
LEMMA TaskFacts ==
    ASSUME TeamTypes, NEW t \in DOMAIN runTasks
    PROVE  /\ runTasks[t] \in Asked /\ t \in 1..Len(runTasks) /\ Len(runTasks) \in Nat
BY DEF TeamTypes

LEMMA StepAsk == OneWorker /\ TeamTypes /\ AskInv /\ [A!Next]_teamvars => AskInv'
<1> SUFFICES ASSUME OneWorker, TeamTypes, AskInv, [A!Next]_teamvars PROVE AskInv'
  OBVIOUS
<1> USE DEF A!Goto, A!run, A!worker
<1>0. pc \in [Workers -> Stages] /\ \A v, w \in Workers : v = w
  BY DEF TeamTypes, OneWorker
<1>1. CASE UNCHANGED teamvars
  BY <1>1, AskLeaves DEF teamvars
<1>2. ASSUME NEW w \in Workers, A!Take(w) \/ A!ReadRun(w) \/ A!Poll(w) \/ A!Die(w)
      PROVE AskInv'
  <2>1. /\ UNCHANGED <<runTasks, plan, runStatus>>
        /\ \E stage \in {"idle", "run", "tasks"} : pc' = [pc EXCEPT ![w] = stage]
        /\ pc'[w] \in {"idle", "run"} \/ runStatus = "running"
    BY <1>0, <1>2 DEF A!Take, A!ReadRun, A!Poll, A!Die
  <2> QED
    BY <1>0, <2>1, AskLeaves
<1>3. ASSUME NEW w \in Workers, A!ReadFailure(w) \/ A!ReadOpen(w) \/ A!Raise(w)
      PROVE AskInv'
  <2>1. /\ UNCHANGED <<runTasks, plan, runStatus>> /\ pc[w] = "tasks"
        /\ \E stage \in {"fail", "poll", "idle"} : pc' = [pc EXCEPT ![w] = stage]
    BY <1>3 DEF A!ReadFailure, A!ReadOpen, A!Raise, A!Ready
  <2> QED
    BY <1>0, <2>1, AskLeaves
<1>4. ASSUME NEW w \in Workers, A!ManagerConcludes(w) \/ A!LastTurn(w) \/ A!Merge(w)
      PROVE AskInv'
  <2>1. /\ UNCHANGED <<runTasks, plan, runStatus>> /\ pc[w] = "tasks"
        /\ pc' = [pc EXCEPT ![w] = "complete"]
    BY <1>4 DEF A!ManagerConcludes, A!LastTurn, A!Merge, A!FindsResult, A!Ready
  <2> QED
    BY <1>0, <2>1, AskLeaves
<1>5. ASSUME NEW w \in Workers, A!Fail(w) \/ A!Complete(w) PROVE AskInv'
  <2>1. UNCHANGED <<runTasks, plan>> /\ pc' = [pc EXCEPT ![w] = "idle"]
    BY <1>5 DEF A!Fail, A!Complete
  <2>2. \A v \in Workers : pc'[v] = "idle"
    BY <1>0, <2>1
  <2> QED
    BY <2>1, <2>2 DEF AskInv, Numbered, A!AskedOnce, A!SynthesisLast, A!Of
\* Whom a pattern asks next.
<1>6. ASSUME NEW w \in Workers, A!ManagerPlans(w) PROVE AskInv'
  <2>1. PICK s : s = <<A!Assign(manager, "plan")>>
    OBVIOUS
  <2>2. /\ A!StartsCreating(w, s) /\ runTasks = <<>> /\ pc[w] = "tasks"
        /\ \A k \in DOMAIN s : k = 1 /\ s[k].phase = "plan"
    BY <1>6, <2>1 DEF A!ManagerPlans, A!Ready, A!Assign
  <2> QED
    BY <2>2, AskStarts DEF Numbered, A!Of
<1>7. ASSUME NEW w \in Workers, A!ManagerSynthesizes(w) PROVE AskInv'
  <2>1. PICK s : s = <<A!Assign(manager, "synthesis")>>
    OBVIOUS
  <2>2. /\ A!StartsCreating(w, s) /\ A!Of("synthesis") = {} /\ pc[w] = "tasks" /\ A!AllEnded
        /\ Len(s) = 1 /\ \A k \in DOMAIN s : k = 1 /\ s[k].phase = "synthesis"
    BY <1>7, <2>1 DEF A!ManagerSynthesizes, A!Ready, A!Assign
  <2> QED
    BY <2>2, AskStarts DEF Numbered, A!Of, Same
<1>8. ASSUME NEW w \in Workers, A!ManagerDelegates(w) PROVE AskInv'
  <2>1. /\ A!Of("delegate") = {} /\ A!Of("synthesis") = {} /\ pc[w] = "tasks" /\ A!AllEnded
        /\ manager \in 1..size
    BY <1>8 DEF A!ManagerDelegates, A!Ready, TeamTypes
  <2>2. CASE size = 1
    <3>1. PICK s : s = <<A!Assign(manager, "synthesis")>>
      OBVIOUS
    <3>2. /\ A!StartsCreating(w, s)
          /\ Len(s) = 1 /\ \A k \in DOMAIN s : k = 1 /\ s[k].phase = "synthesis"
      BY <1>8, <2>2, <3>1 DEF A!ManagerDelegates, A!Assign
    <3> QED
      BY <2>1, <3>2, AskStarts DEF Numbered, A!Of, Same
  <2>3. CASE size # 1
    <3>1. PICK s : s = A!ForDelegates
      OBVIOUS
    <3>2. A!StartsCreating(w, s)
      BY <1>8, <2>3, <3>1 DEF A!ManagerDelegates
    <3>3. /\ DOMAIN s = 1..(size - 1) /\ size \in Nat /\ manager \in Nat
          /\ \A k \in 1..(size - 1) : s[k] = A!Assign(IF k < manager THEN k ELSE k + 1, "delegate")
      BY <2>1, <3>1, Delegates DEF TeamTypes
    <3>4. \A k \in DOMAIN s : s[k].phase = "delegate" /\ s[k].member = IF k < manager THEN k ELSE k + 1
      BY <3>3 DEF A!Assign
    <3>5. \A j, k \in DOMAIN s : s[j] = s[k] => j = k
      BY <3>3, <3>4
    <3> QED
      BY <2>1, <3>2, <3>4, <3>5, AskStarts DEF Numbered, A!Of, Same
  <2> QED
    BY <2>2, <2>3
<1>9. ASSUME NEW w \in Workers, A!NextTurn(w) PROVE AskInv'
  <2>1. PICK s : s = <<A!Assign(Len(runTasks) + 1, "turn")>>
    OBVIOUS
  <2>2. /\ A!StartsCreating(w, s) /\ pc[w] = "tasks"
        /\ \A k \in DOMAIN s : k = 1 /\ s[k].phase = "turn" /\ s[k].member = Len(runTasks) + 1
    BY <1>9, <2>1 DEF A!NextTurn, A!Ready, A!Assign
  <2>3. \A t \in DOMAIN runTasks : ~Same(s[1], runTasks[t])
    BY <2>1, TaskFacts DEF AskInv, Numbered, Same, A!Assign
  <2> QED
    BY <2>2, <2>3, AskStarts DEF Numbered
<1>10. ASSUME NEW w \in Workers, A!AllContribute(w) PROVE AskInv'
  <2>1. PICK s : s = A!ForAll("turn")
    OBVIOUS
  <2>2. A!StartsCreating(w, s) /\ pc[w] = "tasks" /\ runTasks = <<>>
    BY <1>10, <2>1 DEF A!AllContribute, A!Ready
  <2>3. \A k \in DOMAIN s : s[k].phase = "turn" /\ s[k].member = k /\ k \in Nat
    BY <2>1 DEF A!ForAll, A!Assign, TeamTypes
  <2> QED
    BY <2>2, <2>3, AskStarts DEF Numbered, A!Of
\* The tasks.
<1>11. ASSUME NEW w \in Workers, A!Create(w) PROVE AskInv'
  <2>1. PICK s \in Seq(Item) : s = plan[w]
    BY <1>11 DEF TeamTypes
  <2>2. PICK n \in Nat : n = Len(runTasks)
    BY DEF TeamTypes
  <2>3. PICK rest \in Seq(Item) : rest = Tail(s)
    <3>1. s # <<>>
      BY <1>11, <2>1 DEF A!Create
    <3>2. Tail(s) \in Seq(Item)
      BY <3>1
    <3> QED
      BY <3>2
  <2>4. /\ s # <<>> /\ s[1] \in Item /\ 1 \in DOMAIN s /\ Len(s) = Len(rest) + 1
        /\ \A k \in DOMAIN rest : k \in Nat \ {0} /\ k + 1 \in DOMAIN s /\ rest[k] = s[k + 1]
    BY <1>11, <2>1, <2>3 DEF A!Create
  <2>5. /\ UNCHANGED <<pc, runStatus>> /\ pc[w] = "create" /\ PlanOK(w) /\ plan'[w] = rest
    BY <1>11, <2>1, <2>3 DEF A!Create, AskInv, TeamTypes
  <2>6. /\ DOMAIN runTasks = 1..n /\ DOMAIN runTasks' = 1..(n + 1) /\ Len(runTasks') = n + 1
        /\ \A t \in 1..n : runTasks'[t] = runTasks[t]
        /\ runTasks'[n + 1] = [member |-> s[1].member, phase |-> s[1].phase, state |-> "open"]
    BY <1>11, <2>1, <2>2, <2>4, NewTask DEF TeamTypes
  <2>7. Same(runTasks'[n + 1], s[1])
    BY <2>6 DEF Same
  <2>8. \A t \in 1..n : ~Same(s[1], runTasks[t])
    BY <2>1, <2>4, <2>5, <2>6 DEF PlanOK
  <2>9. Numbered(runTasks, 0)' /\ A!AskedOnce'
    <3>1. s[1].phase = "turn" => s[1].member = n + 1
      BY <2>1, <2>2, <2>4, <2>5 DEF PlanOK, Numbered
    <3>2. \A t \in 1..n : runTasks'[t].phase = "turn" => runTasks'[t].member = 0 + t
      BY <2>6 DEF AskInv, Numbered
    <3>3. runTasks'[n + 1].phase = "turn" => runTasks'[n + 1].member = 0 + (n + 1)
      BY <2>7, <3>1 DEF Same
    <3>4. \A t, u \in 1..n : Same(runTasks'[t], runTasks'[u]) => t = u
      BY <2>6 DEF AskInv, A!AskedOnce, Same
    <3>5. \A t \in 1..n : ~Same(runTasks'[t], runTasks'[n + 1]) /\ ~Same(runTasks'[n + 1], runTasks'[t])
      BY <2>6, <2>7, <2>8 DEF Same
    <3>6. \A t \in DOMAIN runTasks' : t \in 1..n \/ t = n + 1
      BY <2>6
    <3> QED
      BY <3>2, <3>3, <3>4, <3>5, <3>6 DEF Numbered, A!AskedOnce, Same
  <2>10. /\ s[1].phase # "synthesis" => A!Of("synthesis")' = A!Of("synthesis")
         /\ s[1].phase = "synthesis" => A!AllEnded /\ Len(rest) = 0
    BY <2>1, <2>4, <2>5, <2>6 DEF PlanOK, A!Of
  <2>11. A!SynthesisLast'
    <3>1. CASE s[1].phase = "synthesis"
      BY <2>6, <2>10, <3>1 DEF A!SynthesisLast, A!Of, A!AllEnded
    <3>2. CASE s[1].phase # "synthesis" /\ A!Of("synthesis") # {}
      BY <2>1, <2>4, <2>5, <2>6, <2>10, <3>2 DEF AskInv, PlanOK, A!SynthesisLast, A!Of
    <3>3. CASE s[1].phase # "synthesis" /\ A!Of("synthesis") = {}
      BY <2>10, <3>3 DEF A!SynthesisLast
    <3> QED
      BY <3>1, <3>2, <3>3
  <2>12. PlanOK(w)'
    <3>1. Numbered(rest, n + 1)
      <4> SUFFICES ASSUME NEW k \in DOMAIN rest, rest[k].phase = "turn"
                   PROVE  rest[k].member = n + 1 + k
        BY DEF Numbered
      <4>1. k \in Nat /\ k + 1 \in DOMAIN s /\ rest[k] = s[k + 1]
        BY <2>4
      <4>2. s[k + 1].member = n + (k + 1)
        BY <2>1, <2>2, <2>5, <4>1 DEF PlanOK, Numbered
      <4> QED
        BY <4>1, <4>2
    <3>2. \A j, k \in DOMAIN rest : rest[j] = rest[k] => j = k
      <4>1. \A j, k \in DOMAIN s : s[j] = s[k] => j = k
        BY <2>1, <2>5 DEF PlanOK
      <4>2. \A j, k \in DOMAIN rest : j \in Nat /\ k \in Nat /\ (rest[j] = rest[k] => j + 1 = k + 1)
        BY <2>4, <4>1
      <4> QED
        BY <4>2
    <3>3. \A k \in DOMAIN rest : ~Same(rest[k], s[1])
      <4>1. \A a, b \in Item : Same(a, b) => a = b
        BY DEF Item, Same
      <4>2. \A k \in DOMAIN rest : rest[k] # s[1]
        BY <2>1, <2>4, <2>5 DEF PlanOK
      <4> QED
        BY <2>4, <4>1, <4>2
    <3>4. \A k \in DOMAIN rest : \A t \in 1..(n + 1) : ~Same(rest[k], runTasks'[t])
      <4>1. \A k \in DOMAIN rest : \A t \in 1..n : ~Same(rest[k], runTasks'[t])
        BY <2>1, <2>4, <2>5, <2>6 DEF PlanOK
      <4>2. \A k \in DOMAIN rest : ~Same(rest[k], runTasks'[n + 1])
        BY <2>7, <3>3 DEF Same
      <4> QED
        BY <4>1, <4>2
    <3>5. A!Of("synthesis")' # {} => \A k \in DOMAIN rest : rest[k].phase \notin {"plan", "delegate"}
      BY <2>1, <2>4, <2>5, <2>10 DEF PlanOK
    <3>6. \A k \in DOMAIN rest : rest[k].phase # "synthesis"
      BY <2>1, <2>4, <2>5 DEF PlanOK
    <3> QED
      BY <2>5, <2>6, <3>1, <3>2, <3>4, <3>5, <3>6 DEF PlanOK
  <2> QED
    BY <1>0, <2>5, <2>9, <2>11, <2>12 DEF AskInv
<1>12. ASSUME NEW t \in DOMAIN runTasks, A!TaskEnds(t) PROVE AskInv'
  <2>1. /\ UNCHANGED <<pc, plan, runStatus>> /\ Len(runTasks') = Len(runTasks)
        /\ DOMAIN runTasks' = DOMAIN runTasks
        /\ \A u \in DOMAIN runTasks : /\ runTasks'[u].member = runTasks[u].member
                                      /\ runTasks'[u].phase = runTasks[u].phase
                                      /\ runTasks[u].state \in A!Ended => runTasks'[u].state \in A!Ended
    <3>1. \A u \in DOMAIN runTasks : runTasks[u] \in Asked
      BY TaskFacts
    <3> QED
      BY <1>12, <3>1 DEF A!TaskEnds, Asked, TeamTypes
  <2>2. \A p : A!Of(p)' = A!Of(p)
    BY <2>1 DEF A!Of
  <2>3. A!AllEnded => A!AllEnded'
    BY <2>1 DEF A!AllEnded
  <2>4. \A v \in Workers : PlanOK(v) => PlanOK(v)'
    BY <2>1, <2>2, <2>3 DEF PlanOK, Numbered, Same
  <2> QED
    BY <2>1, <2>2, <2>4 DEF AskInv, Numbered, A!AskedOnce, A!SynthesisLast, A!Of
<1>13. CASE A!TaskReturns \/ A!ChangePattern
  BY <1>13, AskLeaves DEF A!TaskReturns, A!ChangePattern
<1> QED
  BY ONLY [A!Next]_teamvars, <1>1, <1>2, <1>3, <1>4, <1>5, <1>6, <1>7, <1>8, <1>9, <1>10, <1>11, <1>12,
    <1>13 DEF A!Next, A!EngineStep, A!Decide

-----------------------------------------------------------------------------
\* The tasks of a run that lost no delivery and whose pattern nobody changed, in order.
Script(i) ==
    IF pattern # "manager_delegate" THEN A!Assign(i, "turn")
    ELSE IF i = 1 THEN A!Assign(manager, "plan")
    ELSE IF i <= size THEN A!Assign(IF i - 1 < manager THEN i - 1 ELSE i, "delegate")
    ELSE A!Assign(manager, "synthesis")

Whole == IF pattern = "manager_delegate" THEN size + 1 ELSE size

\* How many there are when nobody is creating any.
Marks == IF pattern = "sequential" THEN 0..size
         ELSE IF pattern = "parallel_merge" THEN {0, size} ELSE {0, 1, size, size + 1}

AllThere(parts) ==
    /\ Len(runTasks) = Whole /\ A!AllEnded /\ ~A!AnyFailed
    /\ pattern = "manager_delegate" => size + 1 \in parts

Owed(w) == IF pc[w] = "create" THEN Len(plan[w]) ELSE 0

OnScript(w) ==
    /\ how[w] = pattern
    /\ pc[w] = "create" => \A k \in DOMAIN plan[w] : plan[w][k] = Script(Len(runTasks) + k)
    /\ Len(runTasks) + Owed(w) \in Marks
    /\ pc[w] = "complete" => AllThere(found[w])

ScriptInv ==
    /\ pattern = "manager_delegate" => manager # 0
    /\ \A i \in DOMAIN runTasks : Same(runTasks[i], Script(i))
    /\ \A w \in Workers : OnScript(w)
    /\ runStatus = "completed" => AllThere(runResult)

LEMMA InitScript == MCInit => ScriptInv
<1> SUFFICES ASSUME MCInit PROVE ScriptInv
  OBVIOUS
<1>1. A!Init /\ A!TeamAssumption
  BY TeamsAssumption DEF MCInit
<1> QED
  BY <1>1 DEF A!Init, ScriptInv, OnScript, Owed, Marks, A!TeamAssumption, A!AllPatterns

\* Which tasks of a team with a manager there are.
LEMMA ScriptFacts ==
    ASSUME TeamTypes, ScriptInv, pattern = "manager_delegate"
    PROVE  /\ A!Of("plan") # {} <=> Len(runTasks) >= 1
           /\ A!Of("delegate") # {} <=> Len(runTasks) >= 2 /\ size >= 2
           /\ A!Of("synthesis") = (size + 1)..Len(runTasks)
<1>1. PICK n \in Nat : n = Len(runTasks) /\ DOMAIN runTasks = 1..n
  BY DEF TeamTypes
<1>2. PICK m \in Nat : m = size /\ m # 0
  BY DEF TeamTypes
<1>3. \A t \in 1..n :
         runTasks[t].phase = IF t = 1 THEN "plan" ELSE IF t <= m THEN "delegate" ELSE "synthesis"
  BY <1>1, <1>2 DEF ScriptInv, Same, Script, A!Assign
<1>4. \A p : A!Of(p) = {t \in 1..n : runTasks[t].phase = p}
  BY <1>1 DEF A!Of
<1>5. A!Of("plan") # {} <=> n >= 1
  <2>1. n >= 1 => 1 \in A!Of("plan")
    BY <1>3, <1>4
  <2>2. \A t \in A!Of("plan") : n >= 1
    BY <1>4
  <2> QED
    BY <2>1, <2>2
<1>6. A!Of("delegate") # {} <=> n >= 2 /\ m >= 2
  <2>1. \A t \in 1..n : t \in A!Of("delegate") <=> t # 1 /\ t <= m
    BY <1>3, <1>4
  <2>2. n >= 2 /\ m >= 2 => 2 \in A!Of("delegate")
    BY <2>1
  <2>3. \A t \in A!Of("delegate") : n >= 2 /\ m >= 2
    BY <1>4, <2>1
  <2> QED
    BY <2>2, <2>3
<1>7. A!Of("synthesis") = (m + 1)..n
  <2>1. \A t \in 1..n : t \in A!Of("synthesis") <=> t > m
    BY <1>2, <1>3, <1>4
  <2>2. \A t : t \in A!Of("synthesis") <=> t \in (m + 1)..n
    BY <1>2, <1>4, <2>1
  <2> QED
    BY <2>2
<1> QED
  BY <1>1, <1>2, <1>5, <1>6, <1>7

\* The lengths at which the manager decides.
LEMMA ManagerMarks ==
    ASSUME TeamTypes, pattern = "manager_delegate"
    PROVE  /\ \A n \in Nat : n \in Marks <=> n = 0 \/ n = 1 \/ n = size \/ n = size + 1
           /\ size \in Nat /\ size >= 1 /\ Len(runTasks) \in Nat
BY DEF Marks, TeamTypes

\* What leaves the script where it is.
LEMMA ScriptLeaves ==
    ASSUME TeamTypes, OneWorker, ScriptInv, NEW w \in Workers,
           UNCHANGED <<size, manager, pattern, runTasks, plan>>,
           how' = how \/ how' = [how EXCEPT ![w] = pattern],
           Owed(w)' = Owed(w), pc'[w] # "create" \/ pc'[w] = pc[w],
           pc'[w] = "complete" => AllThere(found'[w]),
           runStatus' = "completed" => AllThere(runResult')
    PROVE  ScriptInv'
<1>1. \A v \in Workers : v = w
  BY DEF OneWorker
<1>2. \A i : Script(i)' = Script(i)
  BY DEF Script, A!Assign
<1>3. Marks' = Marks /\ \A parts : AllThere(parts)' <=> AllThere(parts)
  BY DEF Marks, AllThere, Whole, A!AllEnded, A!AnyFailed
<1>4. how'[w] = pattern
  BY DEF ScriptInv, OnScript, TeamTypes
<1> QED
  BY <1>1, <1>2, <1>3, <1>4 DEF ScriptInv, OnScript, AllThere, Whole, A!AllEnded, A!AnyFailed

\* One who starts to create goes on with the script.
LEMMA ScriptStarts ==
    ASSUME TeamTypes, OneWorker, ScriptInv, NEW w \in Workers, NEW s, A!StartsCreating(w, s),
           runStatus # "completed",
           \A k \in DOMAIN s : s[k] = Script(Len(runTasks) + k), Len(runTasks) + Len(s) \in Marks
    PROVE  ScriptInv'
<1>1. \A v \in Workers : v = w
  BY DEF OneWorker
<1>2. /\ UNCHANGED <<size, manager, pattern, runTasks, how, runStatus>>
      /\ plan'[w] = s /\ pc'[w] = "create"
  BY DEF A!StartsCreating, A!team, A!run, A!Goto, TeamTypes
<1>3. \A i : Script(i)' = Script(i)
  BY <1>2 DEF Script, A!Assign
<1>4. OnScript(w)'
  BY <1>2, <1>3 DEF ScriptInv, OnScript, Owed, Marks
<1> QED
  BY <1>1, <1>2, <1>3, <1>4 DEF ScriptInv

LEMMA StepScript ==
    ASSUME OneWorker, TeamTypes, AskInv, ScriptInv, A!Next, runFaults' = 0, runEdits' = 0
    PROVE  ScriptInv'
<1> USE DEF A!Goto, A!run, A!worker, A!team
<1>0. /\ pc \in [Workers -> Stages] /\ size \in Nat \ {0} /\ Len(runTasks) \in Nat
      /\ \A v, w \in Workers : v = w
  BY DEF TeamTypes, OneWorker
<1>1. ASSUME NEW w \in Workers, A!Take(w) \/ A!ReadRun(w) \/ A!Poll(w) PROVE ScriptInv'
  <2>1. /\ UNCHANGED <<size, manager, pattern, runTasks, plan, runStatus, runResult>>
        /\ how' = how \/ how' = [how EXCEPT ![w] = pattern]
        /\ \E stage \in {"idle", "run", "tasks"} : pc' = [pc EXCEPT ![w] = stage]
        /\ pc[w] # "create" \/ plan[w] = <<>>
    BY <1>1 DEF A!Take, A!ReadRun, A!Poll
  <2>2. pc'[w] \in {"idle", "run", "tasks"} /\ Owed(w)' = 0 /\ Owed(w) = 0
    BY <1>0, <2>1 DEF Owed
  <2> QED
    BY <2>1, <2>2, ScriptLeaves DEF ScriptInv, AllThere, Whole, A!AllEnded, A!AnyFailed
<1>2. ASSUME NEW w \in Workers, A!ReadFailure(w) \/ A!ReadOpen(w) \/ A!Raise(w) PROVE ScriptInv'
  <2>1. /\ UNCHANGED <<size, manager, pattern, runTasks, plan, how, runStatus, runResult>>
        /\ \E stage \in {"idle", "fail", "poll"} : pc' = [pc EXCEPT ![w] = stage]
        /\ pc[w] = "tasks"
    BY <1>2 DEF A!ReadFailure, A!ReadOpen, A!Raise, A!Ready
  <2>2. pc'[w] \in {"idle", "fail", "poll"} /\ Owed(w)' = 0 /\ Owed(w) = 0
    BY <1>0, <2>1 DEF Owed
  <2> QED
    BY <2>1, <2>2, ScriptLeaves DEF ScriptInv, AllThere, Whole, A!AllEnded, A!AnyFailed
\* What a pattern says when all has ended.
<1>3. ASSUME NEW w \in Workers, A!Ready(w)
      PROVE  /\ runStatus # "completed" /\ how[w] = pattern /\ Len(runTasks) \in Marks
             /\ A!AllEnded /\ ~A!AnyFailed /\ pc[w] = "tasks"
  BY <1>0, <1>3 DEF A!Ready, AskInv, ScriptInv, OnScript, Owed
<1>4. ASSUME NEW w \in Workers, A!ManagerPlans(w) PROVE ScriptInv'
  <2>1. PICK s : s = <<A!Assign(manager, "plan")>>
    OBVIOUS
  <2>2. /\ A!StartsCreating(w, s) /\ A!Ready(w) /\ pattern = "manager_delegate"
        /\ Len(runTasks) = 0 /\ Len(s) = 1 /\ \A k \in DOMAIN s : k = 1 /\ s[k] = Script(1)
    BY <1>3, <1>4, <2>1 DEF A!ManagerPlans, Script
  <2> QED
    BY <1>3, <2>2, ScriptStarts DEF Marks
<1>5. ASSUME NEW w \in Workers, A!ManagerDelegates(w) PROVE ScriptInv'
  <2>1. /\ A!Ready(w) /\ pattern = "manager_delegate" /\ manager \in 1..size
        /\ A!Of("plan") # {} /\ A!Of("delegate") = {} /\ A!Of("synthesis") = {}
    BY <1>3, <1>5 DEF A!ManagerDelegates, A!Ready, TeamTypes
  <2>2. Len(runTasks) = 1
    <3>1. Len(runTasks) >= 1 /\ ~(Len(runTasks) >= 2 /\ size >= 2)
      BY <2>1, ScriptFacts
    <3>2. (size + 1)..Len(runTasks) = {}
      BY <2>1, ScriptFacts
    <3>3. Len(runTasks) \in Marks
      BY <1>3, <2>1
    <3>4. /\ size \in Nat /\ Len(runTasks) \in Nat
          /\ Len(runTasks) = 0 \/ Len(runTasks) = 1 \/ Len(runTasks) = size \/ Len(runTasks) = size + 1
      BY <2>1, <3>3, ManagerMarks
    <3>5. Len(runTasks) # size + 1
      BY <3>2, <3>4
    <3>6. PICK n \in Nat, m \in Nat : n = Len(runTasks) /\ m = size
      BY <3>4
    <3>7. n = 0 \/ n = 1 \/ n = m
      BY <3>4, <3>5, <3>6
    <3> QED
      BY ONLY <3>1, <3>6, <3>7
  <2>3. CASE size = 1
    <3>1. PICK s : s = <<A!Assign(manager, "synthesis")>>
      OBVIOUS
    <3>2. /\ A!StartsCreating(w, s) /\ Len(s) = 1
          /\ \A k \in DOMAIN s : k = 1 /\ s[k] = Script(2)
      BY <1>5, <2>1, <2>3, <3>1 DEF A!ManagerDelegates, Script
    <3>3. Len(runTasks) + Len(s) \in Marks
      BY <2>1, <2>2, <2>3, <3>2, ManagerMarks
    <3>4. \A k \in DOMAIN s : s[k] = Script(Len(runTasks) + k)
      BY <2>2, <3>2
    <3> QED
      BY <1>3, <2>1, <3>2, <3>3, <3>4, ScriptStarts
  <2>4. CASE size # 1
    <3>1. PICK s : s = A!ForDelegates
      OBVIOUS
    <3>2. A!StartsCreating(w, s)
      BY <1>5, <2>4, <3>1 DEF A!ManagerDelegates
    <3>3. /\ Len(s) = size - 1 /\ DOMAIN s = 1..(size - 1)
          /\ \A k \in 1..(size - 1) : s[k] = A!Assign(IF k < manager THEN k ELSE k + 1, "delegate")
      BY <1>0, <2>1, <3>1, Delegates
    <3>4. \A k \in DOMAIN s : s[k] = Script(1 + k)
      <4> SUFFICES ASSUME NEW k \in DOMAIN s PROVE s[k] = Script(1 + k)
        OBVIOUS
      <4>1. k \in Nat /\ 1 + k # 1 /\ 1 + k <= size /\ 1 + k - 1 = k /\ 1 + k = k + 1
        BY <1>0, <3>3
      <4>2. Script(1 + k) = A!Assign(IF k < manager THEN k ELSE k + 1, "delegate")
        BY <2>1, <4>1 DEF Script
      <4> QED
        BY <3>3, <4>2
    <3>5. Len(runTasks) + Len(s) \in Marks
      BY <2>1, <2>2, <3>3, ManagerMarks
    <3> QED
      BY <1>3, <2>1, <2>2, <3>2, <3>4, <3>5, ScriptStarts
  <2> QED
    BY <2>3, <2>4
<1>6. ASSUME NEW w \in Workers, A!ManagerSynthesizes(w) PROVE ScriptInv'
  <2>1. /\ A!Ready(w) /\ pattern = "manager_delegate"
        /\ A!Of("delegate") # {} /\ A!Of("synthesis") = {}
    BY <1>3, <1>6 DEF A!ManagerSynthesizes, A!Ready
  <2>2. Len(runTasks) = size
    <3>1. Len(runTasks) >= 2 /\ size >= 2
      BY <2>1, ScriptFacts
    <3>2. (size + 1)..Len(runTasks) = {}
      BY <2>1, ScriptFacts
    <3>3. Len(runTasks) \in Marks
      BY <1>3, <2>1
    <3>4. /\ size \in Nat /\ Len(runTasks) \in Nat
          /\ Len(runTasks) = 0 \/ Len(runTasks) = 1 \/ Len(runTasks) = size \/ Len(runTasks) = size + 1
      BY <2>1, <3>3, ManagerMarks
    <3>5. Len(runTasks) # size + 1
      BY <3>2, <3>4
    <3>6. PICK n \in Nat, m \in Nat : n = Len(runTasks) /\ m = size
      BY <3>4
    <3>7. n = 0 \/ n = 1 \/ n = m
      BY <3>4, <3>5, <3>6
    <3> QED
      BY ONLY <3>1, <3>6, <3>7
  <2>3. PICK s : s = <<A!Assign(manager, "synthesis")>>
    OBVIOUS
  <2>4. /\ A!StartsCreating(w, s) /\ Len(s) = 1
        /\ \A k \in DOMAIN s : k = 1 /\ s[k] = Script(size + 1)
    BY <1>0, <1>6, <2>1, <2>3 DEF A!ManagerSynthesizes, Script
  <2> QED
    <3>1. Len(runTasks) + Len(s) \in Marks
      BY <2>1, <2>2, <2>4, ManagerMarks
    <3>2. \A k \in DOMAIN s : s[k] = Script(Len(runTasks) + k)
      BY <2>2, <2>4
    <3> QED
      BY <1>3, <2>1, <2>4, <3>1, <3>2, ScriptStarts
<1>7. ASSUME NEW w \in Workers, A!NextTurn(w) PROVE ScriptInv'
  <2>1. PICK s : s = <<A!Assign(Len(runTasks) + 1, "turn")>>
    OBVIOUS
  <2>2. /\ A!StartsCreating(w, s) /\ A!Ready(w) /\ pattern = "sequential" /\ Len(runTasks) < size
        /\ Len(s) = 1 /\ \A k \in DOMAIN s : k = 1 /\ s[k] = Script(Len(runTasks) + 1)
    BY <1>3, <1>7, <2>1 DEF A!NextTurn, A!Ready, Script
  <2>3. Len(runTasks) + Len(s) \in Marks
    BY <2>2 DEF Marks, TeamTypes
  <2> QED
    BY <1>3, <2>2, <2>3, ScriptStarts
<1>8. ASSUME NEW w \in Workers, A!AllContribute(w) PROVE ScriptInv'
  <2>1. PICK s : s = A!ForAll("turn")
    OBVIOUS
  <2>2. /\ A!StartsCreating(w, s) /\ A!Ready(w) /\ pattern = "parallel_merge" /\ Len(runTasks) = 0
    BY <1>3, <1>8, <2>1 DEF A!AllContribute, A!Ready
  <2>3. /\ Len(s) = size /\ DOMAIN s = 1..size
        /\ \A k \in DOMAIN s : 0 + k = k /\ s[k] = Script(k)
    BY <1>0, <2>1, <2>2, Turns DEF Script
  <2> QED
    BY <1>0, <1>3, <2>2, <2>3, ScriptStarts DEF Marks
<1>9. ASSUME NEW w \in Workers, NEW parts, A!FindsResult(w, parts), A!Ready(w), AllThere(parts)
      PROVE ScriptInv'
  <2>1. /\ UNCHANGED <<size, manager, pattern, runTasks, plan, how, runStatus, runResult>>
        /\ pc' = [pc EXCEPT ![w] = "complete"] /\ found' = [found EXCEPT ![w] = parts]
        /\ pc[w] = "tasks"
    BY <1>9 DEF A!FindsResult, A!Ready
  <2>2. pc'[w] = "complete" /\ Owed(w)' = 0 /\ Owed(w) = 0 /\ found'[w] = parts
    BY <1>0, <2>1 DEF Owed, TeamTypes
  <2>3. runStatus' # "completed"
    BY <1>3, <1>9, <2>1
  <2> QED
    BY <1>9, <2>1, <2>2, <2>3, ScriptLeaves
<1>10. ASSUME NEW w \in Workers, A!ManagerConcludes(w) PROVE ScriptInv'
  <2>1. PICK parts : parts = {t \in A!Of("synthesis") : \A u \in A!Of("synthesis") : t <= u}
    OBVIOUS
  <2>2. /\ A!FindsResult(w, parts) /\ A!Ready(w) /\ pattern = "manager_delegate" /\ runTasks # <<>>
        /\ A!Of("synthesis") # {} \/ A!Of("plan") = {}
    BY <1>3, <1>10, <2>1 DEF A!ManagerConcludes, A!Ready
  <2>3. Len(runTasks) # 0
    BY <2>2 DEF TeamTypes
  <2>4. (size + 1)..Len(runTasks) # {}
    BY <2>2, <2>3, ScriptFacts, ManagerMarks
  <2>5. Len(runTasks) = size + 1
    BY <1>3, <2>2, <2>4, ManagerMarks
  <2>6. A!Of("synthesis") = (size + 1)..(size + 1)
    BY <2>2, <2>5, ScriptFacts
  <2>7. size + 1 \in parts
    BY <1>0, <2>1, <2>6
  <2> QED
    BY <1>3, <1>9, <2>2, <2>5, <2>7 DEF AllThere, Whole
<1>11. ASSUME NEW w \in Workers, A!LastTurn(w) PROVE ScriptInv'
  <2>1. PICK parts : A!FindsResult(w, parts)
    BY <1>11 DEF A!LastTurn
  <2>2. A!Ready(w) /\ pattern = "sequential" /\ Len(runTasks) >= size
    BY <1>3, <1>11 DEF A!LastTurn, A!Ready
  <2>3. Len(runTasks) = size
    BY <1>0, <1>3, <2>2 DEF Marks
  <2> QED
    BY <1>3, <1>9, <2>1, <2>2, <2>3 DEF AllThere, Whole
<1>12. ASSUME NEW w \in Workers, A!Merge(w) PROVE ScriptInv'
  <2>1. PICK parts : A!FindsResult(w, parts)
    BY <1>12 DEF A!Merge
  <2>2. A!Ready(w) /\ pattern = "parallel_merge" /\ runTasks # <<>>
    BY <1>3, <1>12 DEF A!Merge, A!Ready
  <2>3. Len(runTasks) = size
    BY <1>0, <1>3, <2>2 DEF Marks, TeamTypes
  <2> QED
    BY <1>3, <1>9, <2>1, <2>2, <2>3 DEF AllThere, Whole
<1>13. ASSUME NEW w \in Workers, A!Create(w) PROVE ScriptInv'
  <2>1. PICK s \in Seq(Item) : s = plan[w]
    BY <1>13 DEF TeamTypes
  <2>2. PICK n \in Nat : n = Len(runTasks)
    BY <1>0
  <2>3. s # <<>> /\ pc[w] = "create"
    BY <1>13, <2>1 DEF A!Create
  <2>4. /\ 1 \in DOMAIN s /\ Len(Tail(s)) \in Nat /\ Len(s) = Len(Tail(s)) + 1
        /\ \A k \in DOMAIN Tail(s) : k \in Nat /\ k + 1 \in DOMAIN s /\ Tail(s)[k] = s[k + 1]
    BY <2>3
  <2>5. /\ UNCHANGED <<size, manager, pattern, how, pc, runStatus, runResult>> /\ plan'[w] = Tail(s)
    BY <1>13, <2>1 DEF A!Create, TeamTypes
  <2>6. /\ DOMAIN runTasks = 1..n /\ DOMAIN runTasks' = 1..(n + 1) /\ Len(runTasks') = n + 1
        /\ \A t \in 1..n : runTasks'[t] = runTasks[t]
        /\ Same(runTasks'[n + 1], s[1])
    <3>1. PICK task \in Asked : /\ task = [member |-> s[1].member, phase |-> s[1].phase, state |-> "open"]
                                /\ runTasks' = Append(runTasks, task)
      <4>1. Head(plan[w]) = s[1]
        BY <2>1, <2>3
      <4> QED
        BY <1>13, <4>1, NewTask
    <3>2. runTasks \in Seq(Asked) /\ Same(task, s[1])
      BY <3>1 DEF TeamTypes, Same
    <3> QED
      BY <2>2, <3>1, <3>2
  <2>7. \A k \in DOMAIN s : s[k] = Script(n + k)
    BY <2>1, <2>2, <2>3 DEF ScriptInv, OnScript
  <2>8. \A i : Script(i)' = Script(i)
    BY <2>5 DEF Script, A!Assign
  <2>9. \A i \in DOMAIN runTasks' : Same(runTasks'[i], Script(i)')
    BY <2>4, <2>6, <2>7, <2>8 DEF ScriptInv
  <2>10. \A k \in DOMAIN Tail(s) : Tail(s)[k] = Script(n + 1 + k)
    <3> SUFFICES ASSUME NEW k \in DOMAIN Tail(s) PROVE Tail(s)[k] = Script(n + 1 + k)
      OBVIOUS
    <3>1. n + (k + 1) = n + 1 + k
      BY <2>4
    <3> QED
      BY <2>4, <2>7, <3>1
  <2>11. n + 1 + Len(Tail(s)) \in Marks
    <3>1. n + Len(s) \in Marks
      <4>1. Owed(w) = Len(s)
        BY <2>1, <2>3 DEF Owed
      <4> QED
        BY <2>2, <4>1 DEF ScriptInv, OnScript
    <3>2. PICK m \in Nat : m = Len(Tail(s))
      BY <2>4
    <3>3. n + (m + 1) \in Marks
      BY <2>4, <3>1, <3>2
    <3>4. n + (m + 1) = n + 1 + m
      OBVIOUS
    <3> QED
      BY <3>2, <3>3, <3>4
  <2>12. OnScript(w)'
    BY <2>3, <2>5, <2>6, <2>8, <2>10, <2>11 DEF ScriptInv, OnScript, Owed, Marks
  <2>13. runStatus' # "completed"
    BY <2>3, <2>5 DEF AskInv
  <2> QED
    BY <1>0, <2>5, <2>9, <2>12, <2>13 DEF ScriptInv
<1>14. ASSUME NEW w \in Workers, A!Fail(w) \/ A!Complete(w) PROVE ScriptInv'
  <2>1. /\ UNCHANGED <<size, manager, pattern, runTasks, plan, how>>
        /\ pc' = [pc EXCEPT ![w] = "idle"] /\ pc[w] \in {"fail", "complete"}
        /\ runStatus' = "failed" \/ (pc[w] = "complete" /\ runResult' = found[w])
    BY <1>14 DEF A!Fail, A!Complete
  <2>2. pc'[w] = "idle" /\ Owed(w)' = 0 /\ Owed(w) = 0
    BY <1>0, <2>1 DEF Owed
  <2>3. runStatus' = "completed" => AllThere(runResult')
    BY <2>1 DEF ScriptInv, OnScript
  <2> QED
    BY <2>1, <2>2, <2>3, ScriptLeaves
<1>15. ASSUME NEW t \in DOMAIN runTasks, A!TaskEnds(t) PROVE ScriptInv'
  <2>1. /\ UNCHANGED <<size, manager, pattern, plan, how, pc, found, runStatus, runResult>>
        /\ Len(runTasks') = Len(runTasks) /\ DOMAIN runTasks' = DOMAIN runTasks
        /\ \A u \in DOMAIN runTasks : Same(runTasks'[u], runTasks[u])
    <3>1. \A u \in DOMAIN runTasks : runTasks[u] \in Asked
      BY TaskFacts
    <3> QED
      BY <1>15, <3>1 DEF A!TaskEnds, Asked, TeamTypes, Same
  <2>2. ~A!AllEnded
    BY <1>15 DEF A!TaskEnds, A!AllEnded, A!Ended
  <2>3. \A i : Script(i)' = Script(i)
    BY <2>1 DEF Script, A!Assign
  <2>4. Marks' = Marks /\ \A v \in Workers : Owed(v)' = Owed(v)
    BY <2>1 DEF Marks, Owed
  <2>5. \A v \in Workers : OnScript(v)'
    BY <2>1, <2>2, <2>3, <2>4 DEF ScriptInv, OnScript, AllThere
  <2>6. runStatus' # "completed"
    BY <2>1, <2>2 DEF ScriptInv, AllThere
  <2>7. \A i \in DOMAIN runTasks' : Same(runTasks'[i], Script(i)')
    BY <2>1, <2>3 DEF ScriptInv, Same
  <2> QED
    BY <2>1, <2>5, <2>6, <2>7 DEF ScriptInv
<1>16. CASE A!TaskReturns
  <2>1. UNCHANGED <<size, manager, pattern, runTasks, plan, how, pc, found, runStatus, runResult>>
    BY <1>16 DEF A!TaskReturns
  <2>2. /\ \A i : Script(i)' = Script(i)
        /\ Marks' = Marks /\ \A v \in Workers : Owed(v)' = Owed(v)
        /\ \A parts : AllThere(parts)' <=> AllThere(parts)
    BY <2>1 DEF Script, A!Assign, Marks, Owed, AllThere, Whole, A!AllEnded, A!AnyFailed
  <2> QED
    BY <2>1, <2>2 DEF ScriptInv, OnScript, AllThere, Whole, A!AllEnded, A!AnyFailed
<1>17. ASSUME A!ChangePattern \/ \E w \in Workers : A!Die(w) PROVE FALSE
  BY <1>17 DEF A!ChangePattern, A!Die, TeamTypes
<1> QED
  BY ONLY A!Next, <1>1, <1>2, <1>4, <1>5, <1>6, <1>7, <1>8, <1>10, <1>11, <1>12, <1>13, <1>14, <1>15,
    <1>16, <1>17 DEF A!Next, A!EngineStep, A!Decide

-----------------------------------------------------------------------------
(* The design of a team.                                                   *)

\* Of some numbers there is a least one.
LEMMA LeastNumber ==
    ASSUME NEW S \in SUBSET Nat, S # {}
    PROVE  \E m \in S : \A n \in S : m <= n
<1> DEFINE Less == {pair \in Nat \X Nat : pair[1] < pair[2]}
<1>1. IsWellFoundedOn(Less, Nat)
  BY NatLessThanWellFounded DEF OpToRel
<1> HIDE DEF Less
<1>2. PICK m \in S : \A n \in S : <<n, m>> \notin Less
  BY <1>1, WFMin
<1>3. \A n \in S : m <= n
  <2>1. \A n \in S : <<n, m>> \in Nat \X Nat /\ <<n, m>>[1] = n /\ <<n, m>>[2] = m
    BY <1>2
  <2>2. \A n \in S : ~(<<n, m>>[1] < <<n, m>>[2])
    BY <1>2, <2>1, Zenon DEF Less
  <2> QED
    BY <2>1, <2>2
<1> QED
  BY <1>3

\* Of some places there is an nth one.
LEMMA Ranked ==
    ASSUME NEW N \in Nat, NEW K \in SUBSET (1..N), NEW n \in 1..Cardinality(K)
    PROVE  \E i \in K : Cardinality({j \in K : j < i}) = n - 1
<1> DEFINE Below(b) == {j \in K : j < b}
           Enough == {b \in 1..(N + 1) : Cardinality(Below(b)) >= n}
<1>1. \A k \in K : k \in 1..N /\ k \in Int
  OBVIOUS
<1>2. IsFiniteSet(1..N)
  BY FS_Interval
<1>3. IsFiniteSet(K)
  BY <1>2, FS_Subset
<1>4. Cardinality(K) \in Nat
  BY <1>3, FS_CardinalityType
<1>5. n \in Nat /\ n >= 1 /\ n <= Cardinality(K)
  BY <1>4
<1>6. \A b : IsFiniteSet(Below(b))
  BY <1>3, FS_Subset
<1>7. \A b : Cardinality(Below(b)) \in Nat
  BY <1>6, FS_CardinalityType
<1>8. Below(N + 1) = K
  <2>1. \A k \in K : k < N + 1
    BY <1>1
  <2> QED
    BY <2>1
<1>9. Below(1) = {}
  <2>1. \A k \in K : ~(k < 1)
    BY <1>1
  <2> QED
    BY <2>1
<1>10. Cardinality(Below(1)) = 0
  BY <1>9, FS_EmptySet
<1>11. N + 1 \in Enough
  <2>1. Cardinality(Below(N + 1)) >= n
    BY ONLY <1>5, <1>4, <1>8
  <2> QED
    BY <2>1
<1>12. PICK b \in Enough : \A c \in Enough : b <= c
  <2> Enough \in SUBSET Nat
    OBVIOUS
  <2> QED
    BY <1>11, LeastNumber
<1>13. b \in 1..(N + 1) /\ Cardinality(Below(b)) >= n
  BY <1>12
<1>14. b # 1
  BY ONLY <1>10, <1>13, <1>5
<1>15. PICK i \in 1..N : b = i + 1
  <2>1. b - 1 \in 1..N /\ b = (b - 1) + 1
    BY <1>13, <1>14
  <2> QED
    BY <2>1
<1>16. Cardinality(Below(i)) < n
  <2> SUFFICES ASSUME ~(Cardinality(Below(i)) < n) PROVE FALSE
    OBVIOUS
  <2>1. Cardinality(Below(i)) >= n
    BY <1>7, <1>5
  <2>2. i \in Enough
    BY <2>1, <1>15
  <2>3. b <= i
    BY <1>12, <2>2
  <2> QED
    BY ONLY <2>3, <1>15, N \in Nat
<1>17. \A j \in K : j < b <=> j < i \/ j = i
  BY <1>1, <1>15
<1>18. i \in K
  <2> SUFFICES ASSUME i \notin K PROVE FALSE
    OBVIOUS
  <2>1. \A j \in K : j < b <=> j < i
    BY <1>17
  <2>2. Below(b) = Below(i)
    BY <2>1
  <2> QED
    BY ONLY <1>5, <1>7, <1>13, <1>16, <2>2
<1>19. Below(b) = Below(i) \union {i}
  BY <1>17, <1>18
<1>20. i \notin Below(i)
  BY <1>15
<1>21. Cardinality(Below(b)) = Cardinality(Below(i)) + 1
  <2> HIDE DEF Below
  <2> QED
    BY <1>6, <1>19, <1>20, FS_AddElement
<1>22. Cardinality(Below(i)) = n - 1
  <2> HIDE DEF Below
  <2> QED
    BY ONLY <1>5, <1>7, <1>13, <1>16, <1>21
<1> QED
  BY <1>18, <1>22

\* The design counts as this module does.
LEMMA SameCount == \A S : D!Cardinality(S) = Cardinality(S)
  BY DEF D!Cardinality, Cardinality

\* The usable members of a proposal: none unusable, and no more than there were.
LEMMA UsableOnes ==
    ASSUME NEW S, NEW members \in Seq(S)
    PROVE  /\ D!Usable(members) \in Seq(S \ {Unusable})
           /\ Len(D!Usable(members)) <= Len(members)
<1> DEFINE kept == {i \in DOMAIN members : members[i] # Unusable}
           Nth(n) == CHOOSE i \in kept : Cardinality({j \in kept : j < i}) = n - 1
<1>1. PICK N \in Nat : DOMAIN members = 1..N /\ Len(members) = N
  OBVIOUS
<1>2. kept \in SUBSET (1..N)
  BY <1>1
<1>3. IsFiniteSet(1..N) /\ Cardinality(1..N) = N
  BY FS_Interval
<1>4. Cardinality(kept) \in Nat /\ Cardinality(kept) <= N
  BY <1>3, <1>2, FS_Subset, FS_CardinalityType
<1>5. ASSUME NEW n \in 1..Cardinality(kept) PROVE members[Nth(n)] \in S \ {Unusable}
  <2>1. \E i \in kept : Cardinality({j \in kept : j < i}) = n - 1
    <3> HIDE DEF kept
    <3> QED
      BY <1>2, Ranked
  <2>2. Nth(n) \in kept
    <3> HIDE DEF kept
    <3> QED
      BY <2>1
  <2> QED
    BY <2>2
<1>6. D!Usable(members) = [n \in 1..Cardinality(kept) |-> members[Nth(n)]]
  BY Zenon DEF D!Usable, D!Cardinality, Cardinality
<1> HIDE DEF kept, Nth
<1>7. PICK c \in Nat : c = Cardinality(kept) /\ c <= N
  BY <1>4
<1>8. D!Usable(members) \in [1..c -> S \ {Unusable}]
  BY <1>5, <1>6, <1>7
<1>9. D!Usable(members) \in Seq(S \ {Unusable}) /\ Len(D!Usable(members)) = c
  BY <1>8
<1> QED
  BY ONLY <1>9, <1>7, <1>1

Written == D!KnownPatterns \union {"", "unheard of"}
Row == [role : D!Roles, tools : SUBSET Catalog, codes : BOOLEAN]
Equipped(members) == \A i \in DOMAIN members : members[i].tools # {}

\* What one design may be made of before a person changes it.
Sound(spec) ==
    /\ spec.pattern \in D!KnownPatterns
    /\ spec.members \in Seq(Row) /\ Len(spec.members) \in 1..MaxTeamSize /\ Equipped(spec.members)
    /\ spec.pattern = "manager_delegate" => Cardinality(D!Managers(spec.members)) = 1

DesignInv ==
    /\ changes \in Nat
    /\ design \in [pattern : Written, members : Seq(Designed \union Row)]
    /\ phase # "provisioned" => coworkers = <<>> /\ team = <<>>
    /\ phase = "designed" /\ changes = 0 => Sound(design)
    /\ DesignIsProvisioned

\* What a member becomes.
LEMMA RowOf ==
    ASSUME NEW m \in Designed \ {Unusable}
    PROVE  /\ [role |-> D!Role(m), tools |-> D!ResolvedTools(m), codes |-> m.codes] \in Row
           /\ D!ResolvedTools(m) # {}
<1>1. m.codes \in BOOLEAN /\ Safe \subseteq Catalog /\ Safe # {}
  BY TeamsAssumption DEF D!DesignAssumption
<1>2. D!Role(m) \in D!Roles
  BY DEF D!Role, D!Roles
<1>3. D!ResolvedTools(m) \in SUBSET Catalog /\ D!ResolvedTools(m) # {}
  BY <1>1 DEF D!ResolvedTools
<1> QED
  BY <1>1, <1>2, <1>3 DEF Row

\* The one manager is one of the members.
LEMMA OneManager ==
    ASSUME NEW N \in Nat \ {0}, NEW rows, DOMAIN rows = 1..N
    PROVE  /\ D!Manager(rows) \in 1..N
           /\ D!Managers(rows) # {} => D!Manager(rows) \in D!Managers(rows)
<1>1. D!Managers(rows) \in SUBSET Nat /\ D!Managers(rows) \subseteq 1..N
  BY DEF D!Managers
<1>2. CASE D!Managers(rows) = {}
  BY <1>2 DEF D!Manager
<1>3. CASE D!Managers(rows) # {}
  <2>1. \E i \in D!Managers(rows) : \A j \in D!Managers(rows) : i <= j
    BY <1>1, <1>3, LeastNumber
  <2>2. D!Manager(rows) \in D!Managers(rows)
    BY <1>3, <2>1 DEF D!Manager
  <2> QED
    BY <1>1, <2>2
<1> QED
  BY <1>2, <1>3

\* A repaired design keeps its members' tools and has one manager where one delegates.
LEMMA RepairedRows ==
    ASSUME NEW named, NEW rows \in Seq(Row), Equipped(rows)
    PROVE  /\ D!Repaired(named, rows) \in Seq(Row)
           /\ Len(D!Repaired(named, rows)) = Len(rows)
           /\ Equipped(D!Repaired(named, rows))
           /\ named = "manager_delegate" /\ rows # <<>> =>
                Cardinality(D!Managers(D!Repaired(named, rows))) = 1
<1> DEFINE new == D!Repaired(named, rows)
           M == D!Manager(rows)
<1>1. CASE named # "manager_delegate"
  BY <1>1 DEF D!Repaired
<1>2. CASE named = "manager_delegate"
  <2>1. PICK N \in Nat : DOMAIN rows = 1..N /\ Len(rows) = N
    OBVIOUS
  <2>2. \A i \in 1..N : rows[i] \in Row /\ rows[i].tools # {}
    BY <2>1 DEF Equipped
  <2>3. new = [i \in 1..N |-> IF i = M THEN [rows[i] EXCEPT !.role = "manager"]
                              ELSE IF rows[i].role = "manager" THEN [rows[i] EXCEPT !.role = "custom"]
                              ELSE rows[i]]
    BY <1>2, <2>1 DEF D!Repaired
  <2> HIDE DEF M
  <2>4. ASSUME NEW i \in 1..N
        PROVE new[i] \in Row /\ new[i].tools # {} /\ (new[i].role = "manager" <=> i = M)
    <3>1. rows[i] \in Row /\ rows[i].tools # {}
      BY <2>2
    <3>2. [rows[i] EXCEPT !.role = "manager"] \in Row
          /\ [rows[i] EXCEPT !.role = "manager"].tools = rows[i].tools
          /\ [rows[i] EXCEPT !.role = "manager"].role = "manager"
      BY <3>1 DEF Row, D!Roles
    <3>3. [rows[i] EXCEPT !.role = "custom"] \in Row
          /\ [rows[i] EXCEPT !.role = "custom"].tools = rows[i].tools
          /\ [rows[i] EXCEPT !.role = "custom"].role = "custom"
      BY <3>1 DEF Row, D!Roles
    <3>4. new[i] = IF i = M THEN [rows[i] EXCEPT !.role = "manager"]
                   ELSE IF rows[i].role = "manager" THEN [rows[i] EXCEPT !.role = "custom"]
                   ELSE rows[i]
      BY <2>3
    <3> HIDE DEF new
    <3> QED
      BY ONLY <3>1, <3>2, <3>3, <3>4
  <2>5. DOMAIN new = 1..N
    BY <2>3
  <2>6. new \in Seq(Row) /\ Len(new) = N
    <3>1. new \in [1..N -> Row]
      BY <2>3, <2>4
    <3> HIDE DEF new
    <3> QED
      BY <3>1
  <2>7. Equipped(new)
    BY <2>4, <2>5 DEF Equipped
  <2>8. ASSUME rows # <<>> PROVE Cardinality(D!Managers(new)) = 1
    <3>1. N # 0
      BY <2>1, <2>8
    <3>2. M \in 1..N
      BY <2>1, <3>1, OneManager DEF M
    <3> HIDE DEF new
    <3>3. \A i : i \in D!Managers(new) <=> i \in {M}
      BY <2>4, <2>5, <3>2 DEF D!Managers
    <3>4. D!Managers(new) = {M}
      BY <3>3
    <3> QED
      BY <3>4, FS_Singleton
  <2> QED
    BY <2>1, <2>6, <2>7, <2>8
<1> QED
  BY <1>1, <1>2

\* Whatever is proposed, what is left of it is sound, or has no member.
LEMMA SanitizedSound ==
    ASSUME NEW n \in Nat, NEW named, NEW proposed \in [1..n -> Designed]
    PROVE  /\ D!Sanitized(named, proposed) \in [pattern : D!KnownPatterns, members : Seq(Row)]
           /\ D!Sanitized(named, proposed).members # <<>> => Sound(D!Sanitized(named, proposed))
<1> DEFINE first == IF Len(proposed) < MaxTeamSize THEN Len(proposed) ELSE MaxTeamSize
           usable == D!Usable(SubSeq(proposed, 1, first))
           known == IF named \in D!KnownPatterns THEN named ELSE "sequential"
           rows == [i \in DOMAIN usable |->
             [role |-> D!Role(usable[i]), tools |-> D!ResolvedTools(usable[i]),
              codes |-> usable[i].codes]]
<1>1. proposed \in Seq(Designed) /\ Len(proposed) = n
  OBVIOUS
<1>2. MaxTeamSize \in Nat \ {0}
  BY TeamsAssumption DEF D!DesignAssumption
<1>3. first \in Nat /\ first <= n /\ first <= MaxTeamSize
  BY <1>1, <1>2
<1>4. SubSeq(proposed, 1, first) \in Seq(Designed) /\ Len(SubSeq(proposed, 1, first)) = first
  <2> HIDE DEF first
  <2> QED
    BY <1>1, <1>3, SubSeqProperties
<1>5. usable \in Seq(Designed \ {Unusable}) /\ Len(usable) <= first
  <2> HIDE DEF first
  <2> QED
    BY <1>4, UsableOnes
<1>6. known \in D!KnownPatterns
  BY DEF D!KnownPatterns
<1>7. D!Sanitized(named, proposed) = [pattern |-> known, members |-> D!Repaired(known, rows)]
  BY DEF D!Sanitized
<1> HIDE DEF first, usable, known
<1>8. PICK N \in Nat : DOMAIN usable = 1..N /\ Len(usable) = N
  BY <1>5
<1>9. \A i \in 1..N : usable[i] \in Designed \ {Unusable}
  BY <1>5, <1>8
<1>10. ASSUME NEW i \in 1..N
       PROVE rows[i] \in Row /\ rows[i].tools # {}
  BY <1>8, <1>9, RowOf
<1>11. DOMAIN rows = 1..N /\ rows = [i \in 1..N |-> rows[i]]
  BY <1>8
<1> HIDE DEF rows
<1>12. rows \in Seq(Row) /\ Len(rows) = N /\ Equipped(rows)
  <2>1. rows \in [1..N -> Row]
    BY <1>10, <1>11
  <2> QED
    BY <2>1, <1>10, <1>11 DEF Equipped
<1> DEFINE new == D!Repaired(known, rows)
<1>13. /\ new \in Seq(Row) /\ Len(new) = N /\ Equipped(new)
       /\ known = "manager_delegate" /\ rows # <<>> => Cardinality(D!Managers(new)) = 1
  BY <1>12, RepairedRows
<1> HIDE DEF new
<1>15. D!Sanitized(named, proposed) \in [pattern : D!KnownPatterns, members : Seq(Row)]
  BY <1>6, <1>7, <1>13 DEF new
<1>16. ASSUME new # <<>> PROVE Sound([pattern |-> known, members |-> new])
  <2>1. N # 0
    BY <1>13, <1>16
  <2>2. rows # <<>>
    BY <1>12, <2>1
  <2>3. N \in 1..MaxTeamSize
    BY ONLY <2>1, <1>2, <1>3, <1>5, <1>8, N \in Nat
  <2> QED
    BY <2>2, <2>3, <1>6, <1>13 DEF Sound
<1> QED
  BY <1>7, <1>15, <1>16 DEF new

LEMMA InitDesign == D!Init => DesignInv
<1> SUFFICES ASSUME D!Init PROVE DesignInv
  OBVIOUS
<1>1. design \in [pattern : Written, members : Seq(Designed \union Row)]
  <2>1. design.members = <<>> /\ design.pattern = "" /\ design = [pattern |-> "", members |-> <<>>]
    BY Zenon DEF D!Init
  <2>2. "" \in Written
    BY Zenon DEF Written
  <2>3. <<>> \in Seq(Designed \union Row)
    OBVIOUS
  <2> QED
    BY ONLY <2>1, <2>2, <2>3
<1> QED
  BY <1>1 DEF D!Init, DesignInv, DesignIsProvisioned, D!DesignIsProvisioned

LEMMA StepDesign == DesignInv /\ [D!Next]_designvars => DesignInv'
<1> SUFFICES ASSUME DesignInv, [D!Next]_designvars PROVE DesignInv'
  OBVIOUS
<1> USE DEF DesignInv
<1>1. CASE UNCHANGED designvars
  BY <1>1 DEF designvars, DesignIsProvisioned, D!DesignIsProvisioned
<1>2. CASE D!Suggest
  <2>1. phase' # "provisioned" /\ phase' # "refused" /\ coworkers' = <<>> /\ team' = <<>>
    BY <1>2 DEF D!Suggest
  <2>2. DesignIsProvisioned'
    BY <2>1 DEF DesignIsProvisioned, D!DesignIsProvisioned
  <2>3. CASE phase' = "failed" /\ UNCHANGED design
    BY <1>2, <2>1, <2>2, <2>3 DEF D!Suggest
  <2>4. CASE ~(phase' = "failed" /\ UNCHANGED design)
    <3>1. MaxTeamSize \in Nat
      BY TeamsAssumption DEF D!DesignAssumption
    <3>2. \A n \in 1..(MaxTeamSize + 1) : n \in Nat
      BY <3>1
    <3>3. PICK n \in Nat, named \in Written :
             \E proposed \in [1..n -> Designed] :
                /\ design' = D!Sanitized(named, proposed)
                /\ phase' = IF design'.members = <<>> THEN "failed" ELSE "designed"
      BY <1>2, <2>4, <3>2, Zenon DEF D!Suggest, Written
    <3>4. PICK proposed \in [1..n -> Designed] :
                /\ design' = D!Sanitized(named, proposed)
                /\ phase' = IF design'.members = <<>> THEN "failed" ELSE "designed"
      BY <3>3
    <3>5. /\ design' \in [pattern : D!KnownPatterns, members : Seq(Row)]
          /\ design'.members # <<>> => Sound(design')
      BY <3>4, SanitizedSound
    <3>6. design' \in [pattern : Written, members : Seq(Designed \union Row)]
      <4>1. PICK spec \in [pattern : D!KnownPatterns, members : Seq(Row)] : design' = spec
        BY <3>5
      <4>2. spec.members \in Seq(Designed \union Row)
        BY ONLY spec \in [pattern : D!KnownPatterns, members : Seq(Row)]
      <4>3. spec.pattern \in Written /\ spec = [pattern |-> spec.pattern, members |-> spec.members]
        BY <4>1, Zenon DEF Written
      <4> QED
        BY ONLY <4>1, <4>2, <4>3
    <3>7. phase' = "designed" => design'.members # <<>>
      BY <3>4
    <3>8. changes' = changes
      BY <1>2 DEF D!Suggest
    <3> QED
      BY ONLY DesignInv, <2>1, <2>2, <3>5, <3>6, <3>7, <3>8 DEF DesignInv
  <2> QED
    BY <2>3, <2>4
<1>3. CASE D!Change
  <2>1. phase' = "designed" /\ phase = "designed" /\ coworkers' = <<>> /\ team' = <<>>
    BY <1>3 DEF D!Change
  <2>2. DesignIsProvisioned'
    BY <2>1 DEF DesignIsProvisioned, D!DesignIsProvisioned
  <2>3. changes' \in Nat /\ changes' # 0
    <3>1. changes' = changes + 1 /\ changes \in Nat
      BY <1>3 DEF D!Change
    <3> QED
      BY ONLY <3>1
  <2>4. design' \in [pattern : Written, members : Seq(Designed \union Row)]
    <3> DEFINE T == Designed \union Row
    <3>1. design.members \in Seq(T) /\ design.pattern \in Written
      OBVIOUS
    <3>2. Designed \subseteq T
      OBVIOUS
    <3> HIDE DEF T
    <3>3. ASSUME NEW i \in DOMAIN design.members, NEW m \in Designed,
                 design' = [design EXCEPT !.members[i] = m]
          PROVE design' \in [pattern : Written, members : Seq(T)]
      <4>1. [design.members EXCEPT ![i] = m] \in Seq(T)
        BY <3>1, <3>2
      <4> QED
        BY <3>3, <3>1, <4>1
    <3>4. ASSUME NEW m \in Designed, design' = [design EXCEPT !.members = Append(@, m)]
          PROVE design' \in [pattern : Written, members : Seq(T)]
      <4>1. Append(design.members, m) \in Seq(T)
        BY <3>1, <3>2
      <4> QED
        BY <3>4, <3>1, <4>1
    <3>5. ASSUME design' = [design EXCEPT !.members = SubSeq(@, 1, Len(@) - 1)]
          PROVE design' \in [pattern : Written, members : Seq(T)]
      <4>1. SubSeq(design.members, 1, Len(design.members) - 1) \in Seq(T)
        BY <3>1, SubSeqProperties
      <4> QED
        BY <3>5, <3>1, <4>1
    <3>6. ASSUME NEW p \in D!KnownPatterns \union {"", "unheard of"},
                 design' = [design EXCEPT !.pattern = p]
          PROVE design' \in [pattern : Written, members : Seq(T)]
      BY <3>6, <3>1 DEF Written
    <3> QED
      BY <1>3, <3>3, <3>4, <3>5, <3>6 DEF D!Change, T
  <2> QED
    BY <2>1, <2>2, <2>3, <2>4
<1>4. CASE D!Provision
  <2>1. UNCHANGED <<design, changes, admin>> /\ phase = "designed"
    BY <1>4 DEF D!Provision
  <2>2. PICK N \in Nat : DOMAIN design.members = 1..N /\ Len(design.members) = N
    OBVIOUS
  <2> DEFINE Chief == {i \in DOMAIN design.members : D!Role(design.members[i]) = "manager"}
  <2>3. ASSUME changes = 0
        PROVE /\ design.pattern \in D!KnownPatterns /\ D!Clean(design)
              /\ Equipped(design.members)
              /\ design.pattern = "manager_delegate" => Cardinality(Chief) = 1
    <3>1. Sound(design)
      BY <2>1, <2>3
    <3>2. \A i \in 1..N : design.members[i] \in Row
      BY <2>2, <3>1 DEF Sound
    <3>3. Unusable \notin Row
      BY TeamsAssumption DEF D!DesignAssumption, Row
    <3>4. D!Clean(design)
      BY <2>2, <3>1, <3>2, <3>3 DEF D!Clean, Sound
    <3>5. Chief = D!Managers(design.members)
      <4>1. \A i \in 1..N : D!Role(design.members[i]) = design.members[i].role
        BY <3>2 DEF Row, D!Role
      <4> QED
        BY <2>2, <4>1 DEF D!Managers
    <3> QED
      BY <3>1, <3>4, <3>5 DEF Sound
  <2>4. ASSUME changes = 0 PROVE D!Acceptable(design) <=> admin
    BY <2>3, <2>4, SameCount DEF D!Acceptable
  <2>5. CASE phase' = "provisioned"
    <3>1. /\ D!MakesTeam(design) => D!Acceptable(design)
          /\ coworkers' = [i \in DOMAIN design.members |-> D!Granted(design, i)]
          /\ team' = IF D!MakesTeam(design)
                     THEN [i \in DOMAIN design.members |-> D!Role(design.members[i])] ELSE <<>>
      BY <1>4, <2>5 DEF D!Provision
    <3>2. Len(coworkers') = N /\ DOMAIN coworkers' = 1..N
      BY <2>2, <3>1
    <3>3. ASSUME D!MakesTeam(design)
          PROVE team' # <<>> /\ Len(team') = N /\ DOMAIN team' = 1..N
                /\ {i \in DOMAIN team' : team'[i] = "manager"} = Chief
      <4>1. team' = [i \in 1..N |-> D!Role(design.members[i])] /\ N >= 2
        BY <2>2, <3>1, <3>3 DEF D!MakesTeam
      <4>2. DOMAIN team' = 1..N /\ Len(team') = N /\ 1 \in DOMAIN team'
        BY <4>1
      <4>3. \A i \in 1..N : team'[i] = D!Role(design.members[i])
        BY <4>1
      <4>4. {i \in DOMAIN team' : team'[i] = "manager"} = Chief
        BY <2>2, <4>2, <4>3
      <4> QED
        BY <4>2, <4>4
    <3>4. team' # <<>> => D!MakesTeam(design)
      BY <3>1
    <3>5. D!MakesTeam(design) /\ design.pattern = "manager_delegate" => Cardinality(Chief) = 1
      BY <3>1, SameCount DEF D!Acceptable
    <3>6. ASSUME changes = 0
          PROVE /\ team' # <<>> <=> N >= 2
                /\ \A i \in 1..N : coworkers'[i] # {}
      <4>1. D!MakesTeam(design) <=> N >= 2
        BY <2>2, <2>3, <3>6 DEF D!MakesTeam
      <4>2. \A i \in 1..N : D!Granted(design, i) # {}
        <5>1. Sound(design)
          BY <2>1, <3>6
        <5>2. \A i \in 1..N : design.members[i].tools \subseteq Catalog /\ design.members[i].tools # {}
          <6>1. \A i \in 1..N : design.members[i] \in Row /\ design.members[i].tools # {}
            BY <2>2, <5>1 DEF Sound, Equipped
          <6> QED
            BY ONLY <6>1 DEF Row
        <5> QED
          BY <5>2 DEF D!Granted
      <4> QED
        BY <2>2, <3>1, <3>3, <3>4, <4>1, <4>2
    <3>7. DesignIsProvisioned'
      <4>1. Len(design'.members) = N /\ design'.pattern = design.pattern /\ changes' = changes
        BY <2>1, <2>2
      <4> HIDE DEF Chief, DesignInv
      <4>2. team' # <<>> /\ design'.pattern = "manager_delegate" =>
              Cardinality({i \in DOMAIN team' : team'[i] = "manager"}) = 1
        BY <3>3, <3>4, <3>5, <4>1
      <4> QED
        BY <2>5, <3>2, <3>3, <3>4, <3>6, <4>1, <4>2, SameCount
          DEF DesignIsProvisioned, D!DesignIsProvisioned
    <3> QED
      BY <2>1, <2>5, <3>7
  <2>6. CASE phase' = "refused"
    <3>1. /\ UNCHANGED <<coworkers, team>>
          /\ \/ ~D!Clean(design) /\ UNCHANGED full
             \/ D!Clean(design) /\ full' = TRUE
             \/ D!Clean(design) /\ D!MakesTeam(design) /\ ~D!Acceptable(design) /\ UNCHANGED full
      BY <1>4, <2>6 DEF D!Provision
    <3>2. coworkers' = <<>> /\ team' = <<>>
      BY <2>1, <3>1
    <3>3. changes = 0 => full' \/ (~admin /\ Len(design.members) >= 2)
      BY <2>3, <2>4, <3>1 DEF D!MakesTeam
    <3>4. DesignIsProvisioned'
      BY <2>1, <2>6, <3>2, <3>3 DEF DesignIsProvisioned, D!DesignIsProvisioned
    <3> QED
      BY <2>1, <2>6, <3>2, <3>4
  <2> QED
    BY <1>4, <2>5, <2>6 DEF D!Provision
<1> QED
  BY <1>1, <1>2, <1>3, <1>4 DEF D!Next

-----------------------------------------------------------------------------
(* The three together.                                                     *)

\* A step of the instance is a step of the component it is about.
LEMMA OneComponent == [MCNext]_mcvars => [Next]_vars /\ [A!Next]_teamvars /\ [D!Next]_designvars
BY DEF MCNext, OnTeam, OnSession, OnDesign, mcvars

TeamInv == TeamTypes /\ AskInv /\ (runFaults = 0 /\ runEdits = 0 => ScriptInv)

LEMMA StepTeam == OneWorker /\ TeamInv /\ [A!Next]_teamvars => TeamInv'
<1> SUFFICES ASSUME OneWorker, TeamInv, [A!Next]_teamvars PROVE TeamInv'
  OBVIOUS
<1>1. TeamTypes' /\ AskInv'
  BY StepTeamTypes, StepAsk DEF TeamInv
<1>2. ASSUME runFaults' = 0, runEdits' = 0 PROVE ScriptInv'
  <2>1. CASE UNCHANGED teamvars
    <3>1. ScriptInv
      BY <1>2, <2>1 DEF TeamInv, teamvars
    <3> QED
      BY <2>1, <3>1 DEF teamvars, ScriptInv, OnScript, Owed, Marks, AllThere, Whole, Script, A!Assign,
        A!AllEnded, A!AnyFailed
  <2>2. CASE A!Next
    <3>1. runFaults' \in {runFaults, runFaults + 1} /\ runEdits' \in {runEdits, runEdits + 1}
      <4>1. A!TaskReturns \/ A!ChangePattern \/ (\E w \in Workers : A!Die(w))
            \/ UNCHANGED <<runFaults, runEdits>>
        <5>1. ASSUME NEW w \in Workers, A!EngineStep(w) PROVE UNCHANGED <<runFaults, runEdits>>
          <6>1. CASE A!Take(w) \/ A!ReadRun(w) \/ A!Create(w) \/ A!Poll(w) \/ A!Fail(w) \/ A!Complete(w)
            BY <6>1 DEF A!Take, A!ReadRun, A!Create, A!Poll, A!Fail, A!Complete, A!bounds
          <6>2. CASE A!Decide(w)
            BY <6>2 DEF A!Decide, A!ReadFailure, A!ReadOpen, A!Raise, A!ManagerPlans, A!ManagerDelegates,
              A!ManagerSynthesizes, A!ManagerConcludes, A!NextTurn, A!LastTurn, A!AllContribute,
              A!Merge, A!StartsCreating, A!FindsResult, A!bounds
          <6> QED
            BY <5>1, <6>1, <6>2 DEF A!EngineStep
        <5>2. ASSUME NEW t \in DOMAIN runTasks, A!TaskEnds(t) PROVE UNCHANGED <<runFaults, runEdits>>
          BY <5>2 DEF A!TaskEnds, A!bounds
        <5> QED
          BY <2>2, <5>1, <5>2 DEF A!Next
      <4> QED
        BY <4>1 DEF A!TaskReturns, A!ChangePattern, A!Die
    <3>2. runFaults \in Nat /\ runEdits \in Nat
      BY DEF TeamInv, TeamTypes
    <3>3. runFaults = 0 /\ runEdits = 0
      BY ONLY <1>2, <3>1, <3>2
    <3> QED
      BY <1>2, <2>2, <3>3, StepScript DEF TeamInv
  <2> QED
    BY <2>1, <2>2
<1> QED
  BY <1>1, <1>2 DEF TeamInv

\* Who has contributed when all of the script is there.
LEMMA ScriptIsWhole == TeamInv => CompletedIsWhole
<1> SUFFICES ASSUME TeamInv, runStatus = "completed", runFaults = 0, runEdits = 0
             PROVE  /\ ~A!AnyFailed /\ A!AllEnded
                    /\ IF pattern = "manager_delegate"
                       THEN /\ \A m \in A!Members \ {manager} : A!Contributed(m, "delegate")
                            /\ \E t \in runResult :
                                  runTasks[t].member = manager /\ runTasks[t].phase = "synthesis"
                       ELSE \A m \in A!Members : A!Contributed(m, "turn")
  BY DEF CompletedIsWhole, A!CompletedIsWhole, TeamInv, AskInv
<1>1. TeamTypes /\ ScriptInv /\ AllThere(runResult)
  BY DEF TeamInv, ScriptInv
<1>2. PICK N \in Nat \ {0} : N = size
  BY <1>1 DEF TeamTypes
<1>3. PICK M \in 0..N : M = manager
  BY <1>1, <1>2 DEF TeamTypes
<1>4. PICK L \in Nat : DOMAIN runTasks = 1..L /\ L = Len(runTasks)
  BY <1>1 DEF TeamTypes
<1>5. L = IF pattern = "manager_delegate" THEN N + 1 ELSE N
  BY <1>1, <1>2, <1>4 DEF AllThere, Whole
<1>6. \A t \in 1..L : Same(runTasks[t], Script(t)) /\ runTasks[t].state \in {"completed", "blocked"}
  BY <1>1, <1>4 DEF AllThere, ScriptInv, A!AllEnded, A!AnyFailed, A!Ended
<1>7. CASE pattern # "manager_delegate"
  <2>1. \A t \in 1..N : runTasks[t].member = t /\ runTasks[t].phase = "turn"
    BY <1>5, <1>6, <1>7 DEF Same, Script, A!Assign
  <2> QED
    BY <1>1, <1>2, <1>4, <1>5, <1>6, <1>7, <2>1 DEF A!Contributed, A!Members, AllThere
<1>8. CASE pattern = "manager_delegate"
  <2>1. ASSUME NEW m \in 1..N, m # M PROVE A!Contributed(m, "delegate")
    <3>1. PICK t \in 1..L : t = IF m < M THEN m + 1 ELSE m
      BY <1>5, <1>8, <2>1
    <3>2. t \in 2..N /\ m = IF t - 1 < M THEN t - 1 ELSE t
      <4>1. M # 0
        BY <1>1, <1>3, <1>8 DEF ScriptInv
      <4> QED
        BY ONLY <2>1, <3>1, <4>1, <1>2, <1>3, m \in 1..N
    <3>3. Script(t) = A!Assign(m, "delegate")
      BY <1>2, <1>3, <1>8, <3>2 DEF Script
    <3> QED
      BY <1>4, <1>6, <3>1, <3>3 DEF A!Contributed, Same, A!Assign
  <2>2. PICK t \in 1..L : t = N + 1
    BY <1>5, <1>8
  <2>3. t \in runResult
    BY <1>1, <1>2, <1>8, <2>2 DEF AllThere
  <2>4. Script(t) = A!Assign(manager, "synthesis")
    BY <1>2, <1>8, <2>2 DEF Script
  <2>5. runTasks[t].member = manager /\ runTasks[t].phase = "synthesis"
    BY <1>6, <2>4 DEF Same, A!Assign
  <2> QED
    BY <1>1, <1>2, <1>3, <1>8, <2>1, <2>3, <2>5 DEF AllThere, A!Members
<1> QED
  BY <1>7, <1>8

\* Each member of a team is asked once per phase, however often the run is polled
\* and whichever tasks return, while one delivery of it is worked on at a time
\* (advance_agent_team_run).
THEOREM MembersAskedOnce == ASSUME OneWorker PROVE MCSpec => []AskedOnce
<1>1. MCInit => TeamInv
  BY InitTeam, InitScript DEF TeamInv
<1>2. TeamInv /\ [MCNext]_mcvars => TeamInv'
  BY OneComponent, StepTeam
<1>3. TeamInv => AskedOnce
  BY DEF TeamInv, AskInv, AskedOnce
<1> QED
  BY <1>1, <1>2, <1>3, PTL DEF MCSpec

\* A run that lost no delivery and whose pattern nobody changed completes on the
\* contributions of the whole team, the manager's synthesis last, while one delivery
\* of it is worked on at a time (advance_agent_team_run).
THEOREM WholeTeamContributes == ASSUME OneWorker PROVE MCSpec => []CompletedIsWhole
<1>1. MCInit => TeamInv
  BY InitTeam, InitScript DEF TeamInv
<1>2. TeamInv /\ [MCNext]_mcvars => TeamInv'
  BY OneComponent, StepTeam
<1> QED
  BY <1>1, <1>2, ScriptIsWhole, PTL DEF MCSpec

\* The result of a session that ended is what the rule makes of the votes it then had
\* (record_consensus_vote_from_task).
THEOREM ResultFollowsTheRule == MCSpec => []ResultIsTheRule
<1>1. MCInit => RuleInv
  BY InitRule DEF MCInit
<1>2. RuleInv /\ [MCNext]_mcvars => RuleInv'
  BY OneComponent, StepRule
<1>3. RuleInv => ResultIsTheRule
  BY DEF RuleInv
<1> QED
  BY <1>1, <1>2, <1>3, PTL DEF MCSpec

\* A design that nobody changed is provisioned and created whole, with one manager
\* where one delegates; a refused one leaves nothing (_sanitize, provision_team).
THEOREM DesignsAreProvisioned == MCSpec => []DesignIsProvisioned
<1>1. MCInit => DesignInv
  BY InitDesign DEF MCInit
<1>2. DesignInv /\ [MCNext]_mcvars => DesignInv'
  BY OneComponent, StepDesign
<1>3. DesignInv => DesignIsProvisioned
  BY DEF DesignInv
<1> QED
  BY <1>1, <1>2, <1>3, PTL DEF MCSpec
=============================================================================
