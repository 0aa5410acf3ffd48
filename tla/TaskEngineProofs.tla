-------------------------- MODULE TaskEngineProofs --------------------------
(***************************************************************************)
(* Theorems about TaskEngine for every number of workers, respond requests *)
(* and calls, every configuration and every iteration budget.              *)
(***************************************************************************)
EXTENDS TaskEngine, SequenceTheorems, TLAPS

-----------------------------------------------------------------------------
(* The inductive invariant behind type correctness.                        *)

\* Stages at which the worker stands on an unanswered call.
AtCall == {"call", "request", "announce", "park", "refuse", "forbid", "run"}

\* A worker past the guard of a stage still has what the stage needs.
PositionOK ==
    \A w \in Workers :
        /\ pc[w] \in AtCall => todo[w] # <<>>
        /\ pc[w] \in AtCall \ {"call"} => Head(todo[w]) \in ToolCalls
        /\ pc[w] \notin {"idle", "load"} => config[w] \in Configs
        /\ pc[w] = "run" => ground[w] \in Grounds

\* Whoever holds a reading holds one that starts with its question.
ReadingOK == \A r \in Responders : reading[r] # None => reading[r] # <<>>

TypeInv == TypeOK /\ PositionOK /\ AnswerableQuestion /\ ReadingOK

\* Nothing in hand is told apart from every call, transcript, configuration and ground.
LEMMA NoneIsNew ==
    /\ None \notin Calls
    /\ None \notin Seq(Calls)
    /\ None \notin Configs
    /\ None \notin Grounds
    /\ None \notin ApprovalStatuses
BY ConstantsAssumption DEF Grounds, ApprovalStatuses

\* A message of fresh calls is a sequence of them.
LEMMA BatchType ==
    ASSUME NEW fresh, NEW batch \in Batches(fresh)
    PROVE  batch \in Seq(fresh) /\ {batch[i] : i \in DOMAIN batch} \subseteq fresh
<1>1. PICK n \in 1..MaxBatch : batch \in [1..n -> fresh]
  BY DEF Batches
<1>2. n \in Nat
  BY <1>1, ConstantsAssumption
<1>. QED
  BY <1>1, <1>2

\* Init gives every variable its type and no worker a position.
LEMMA InitTypeInv == Init => TypeInv
BY NoneIsNew, ConstantsAssumption
DEF Init, TypeInv, TypeOK, PositionOK, AnswerableQuestion, ReadingOK, Statuses,
    Stages, AtCall

-----------------------------------------------------------------------------
(* One step per action.                                                    *)
LEMMA StepTypeInv == TypeInv /\ [Next]_vars => TypeInv'
<1>. SUFFICES ASSUME TypeInv, [Next]_vars PROVE TypeInv'
  OBVIOUS
<1>. USE NoneIsNew, ConstantsAssumption
     DEF TypeInv, TypeOK, PositionOK, AnswerableQuestion, ReadingOK, AtCall,
         Statuses, Stages
<1>1. ASSUME NEW w \in Workers, Load(w) PROVE TypeInv'
  BY <1>1 DEF Load, Goto, row, history, bounds
<1>2. ASSUME NEW w \in Workers, Iterate(w) PROVE TypeInv'
  BY <1>2 DEF Iterate, Goto, row, history, bounds
<1>3. ASSUME NEW w \in Workers, ModelCalls(w) PROVE TypeInv'
  <2>1. PICK batch \in Batches(Calls \ emitted) :
            /\ emitted' = emitted \cup {batch[i] : i \in DOMAIN batch}
            /\ todo' = [todo EXCEPT ![w] = batch]
            /\ saved' = batch
    BY <1>3 DEF ModelCalls
  <2>2. /\ batch \in Seq(Calls \ emitted)
        /\ {batch[i] : i \in DOMAIN batch} \subseteq Calls \ emitted
    BY ONLY <2>1, BatchType
  <2>3. todo' \in [Workers -> Seq(Calls)] /\ saved' \in Seq(Calls)
    BY <2>1, <2>2
  <2>4. emitted' \subseteq Calls
    BY <2>1, <2>2
  <2>5. /\ pc' = [pc EXCEPT ![w] = "loop"]
        /\ pc[w] = "model"
        /\ \A v \in Workers : v # w => todo'[v] = todo[v]
    BY <1>3, <2>1 DEF ModelCalls, Goto
  <2>6. TypeOK'
    BY <1>3, <2>3, <2>4, <2>5 DEF ModelCalls, bounds
  <2>7. PositionOK'
    BY <1>3, <2>5 DEF ModelCalls
  <2>. QED
    BY <1>3, <2>6, <2>7 DEF ModelCalls
<1>4. ASSUME NEW w \in Workers, ModelAnswers(w) PROVE TypeInv'
  BY <1>4 DEF ModelAnswers, Report, Goto, local, history, bounds
<1>5. ASSUME NEW w \in Workers, AskUser(w) PROVE TypeInv'
  BY <1>5 DEF AskUser, Goto, local, history, bounds
<1>6. ASSUME NEW w \in Workers, SkipMissing(w) PROVE TypeInv'
  BY <1>6 DEF SkipMissing, Reply, Goto, row, history, bounds
<1>7. ASSUME NEW w \in Workers, FindRequest(w) PROVE TypeInv'
  <2>1. /\ UNCHANGED <<row, approvals, jobs, local, reading, history, bounds>>
        /\ \E stage \in {"park", "refuse"} : pc' = [pc EXCEPT ![w] = stage]
        /\ pc[w] = "call" /\ Head(todo[w]) \in ToolCalls
    BY ONLY <1>7 DEF FindRequest, Goto
  <2>. QED
    BY <2>1 DEF row, local, history, bounds
<1>8. ASSUME NEW w \in Workers, Evaluate(w) PROVE TypeInv'
  <2>1. PICK stage \in {"forbid", "request", "run"} :
            /\ pc' = [pc EXCEPT ![w] = stage]
            /\ \/ stage # "run" /\ ground' = ground
               \/ \E why \in Grounds : ground' = [ground EXCEPT ![w] = why]
    BY ONLY <1>8 DEF Evaluate, Goto, Grounds
  <2>2. /\ pc[w] = "call" /\ Head(todo[w]) \in ToolCalls
        /\ UNCHANGED <<row, approvals, jobs, todo, carried, config, passes, reading, history, bounds>>
    BY ONLY <1>8 DEF Evaluate
  <2>3. TypeOK'
    <3>1. pc' \in [Workers -> Stages] /\ ground' \in [Workers -> Grounds \cup {None}]
      BY ONLY TypeInv, <2>1 DEF TypeInv, TypeOK, Stages
    <3>. QED
      BY ONLY TypeInv, <2>2, <3>1 DEF TypeInv, TypeOK, row, history, bounds
  <2>4. PositionOK'
    BY <2>1, <2>2
  <2>. QED
    BY <2>2, <2>3, <2>4 DEF row
<1>9. ASSUME NEW w \in Workers, RequestApproval(w) PROVE TypeInv'
  BY <1>9 DEF RequestApproval, Goto, row, local, history, bounds, ApprovalStatuses
<1>10. ASSUME NEW w \in Workers, AnnounceApproval(w) PROVE TypeInv'
  BY <1>10 DEF AnnounceApproval, Report, Goto, local, history, bounds
<1>11. ASSUME NEW w \in Workers, ParkAgain(w) PROVE TypeInv'
  BY <1>11 DEF ParkAgain, Report, Release, Goto, history, bounds
<1>12. ASSUME NEW w \in Workers, Refuse(w) PROVE TypeInv'
  BY <1>12 DEF Refuse, Report, Goto, local, history, bounds
<1>13. ASSUME NEW w \in Workers, Forbid(w) PROVE TypeInv'
  BY <1>13 DEF Forbid, Goto, local, history, bounds
<1>14. ASSUME NEW w \in Workers, ExecuteTool(w) PROVE TypeInv'
  BY <1>14 DEF ExecuteTool, Reply, Goto, row, bounds
<1>15. ASSUME NEW w \in Workers, Checkpoint(w) PROVE TypeInv'
  BY <1>15 DEF Checkpoint, Report, Goto, local, history, bounds
<1>16. ASSUME NEW w \in Workers, Return(w) PROVE TypeInv'
  BY <1>16 DEF Return, Release, Goto, row, history, bounds
<1>17. ASSUME NEW w \in Workers, ReportFailure(w) PROVE TypeInv'
  BY <1>17 DEF ReportFailure, Release, Goto, history, bounds
<1>18. ASSUME NEW w \in Workers, TakeDelivery(w) PROVE TypeInv'
  <2>1. CASE Claim(w)
    BY <2>1 DEF Claim, Goto, local, history, bounds
  <2>2. CASE ClaimNothing(w)
    BY <2>2 DEF ClaimNothing, row, local, history, bounds
  <2>. QED
    BY <1>18, <2>1, <2>2 DEF TakeDelivery
<1>19. ASSUME NEW w \in Workers, Crash(w) PROVE TypeInv'
  BY <1>19 DEF Crash, Release, Goto, row, history
<1>20. ASSUME NEW c \in ToolCalls, NEW i \in DOMAIN approvals[c],
              NEW decision \in {"approved", "denied"}, Decide(c, i, decision)
       PROVE TypeInv'
  <2>1. [approvals[c] EXCEPT ![i] = decision] \in Seq(ApprovalStatuses)
    BY ExceptSeq DEF ApprovalStatuses
  <2>. QED
    BY <1>20, <2>1 DEF Decide, row, local, history, bounds
<1>21. ASSUME NEW r \in Responders, ReadQuestion(r) PROVE TypeInv'
  BY <1>21 DEF ReadQuestion, row, local, history, bounds
<1>22. ASSUME NEW r \in Responders, WriteAnswer(r) PROVE TypeInv'
  BY <1>22 DEF WriteAnswer, local, history, bounds
<1>23. ASSUME Redeliver \/ LoseJob PROVE TypeInv'
  BY <1>23 DEF Redeliver, LoseJob, row, local, history
<1>24. ASSUME UNCHANGED vars PROVE TypeInv'
  BY <1>24 DEF vars, row, local, history, bounds
<1>. HIDE DEF TypeInv, TypeOK, PositionOK, AnswerableQuestion, ReadingOK
<1>. QED
  BY <1>1, <1>2, <1>3, <1>4, <1>5, <1>6, <1>7, <1>8, <1>9, <1>10, <1>11, <1>12,
     <1>13, <1>14, <1>15, <1>16, <1>17, <1>18, <1>19, <1>20, <1>21, <1>22,
     <1>23, <1>24
  DEF Next, EngineStep, MemberStep, Exhaust, Raise

\* Every variable keeps its type, and a worker past a guard has what its stage needs.
THEOREM TypeInvariant == Spec => []TypeInv
BY InitTypeInv, StepTypeInv, PTL DEF Spec

\* Every variable of the engine keeps its type, for every instance.
THEOREM TypeCorrect == Spec => []TypeOK
BY TypeInvariant, PTL DEF TypeInv

\* A task that waits for input can be answered: the pause saves its transcript
\* up to the question in the same report, and no other write leaves needs_input.
THEOREM QuestionAnswerable == Spec => []AnswerableQuestion
BY TypeInvariant, PTL DEF TypeInv

-----------------------------------------------------------------------------
(* Consent.  A worker about to run a call carries a ground that is already *)
(* justified, and no step takes a justification away: rows only get longer *)
(* and a decided row is not decided again.                                 *)
RunJustified ==
    \A w \in Workers : pc[w] = "run" => Justified(Head(todo[w]), ground[w])

ConsentInv == TypeInv /\ ConsentedExecution /\ RunJustified

\* What the engine does with PermissionDecision's answer is covered by it.
LEMMA AutoIsJustified ==
    ASSUME NEW c \in ToolCalls, NEW conf \in Configs, NEW org \in OrgEffects,
           NEW standing \in BOOLEAN,
           PermissionDecision(conf, Risk[c], org, standing, FALSE) = "auto"
    PROVE  IF StandingConsent(conf, Risk[c], org, standing, FALSE)
           THEN Justified(c, "standing") ELSE Justified(c, "auto")
BY DEF Justified, PermissionDecision, StandingConsent

\* Appending a row or deciding a pending one leaves every justification alone.
LEMMA JustificationStands ==
    ASSUME TypeOK,
           \A c \in ToolCalls : \A i \in DOMAIN approvals[c] :
               approvals[c][i] = "approved" =>
                   i \in DOMAIN approvals'[c] /\ approvals'[c][i] = "approved",
           NEW c \in ToolCalls, NEW why, Justified(c, why)
    PROVE  Justified(c, why)'
BY DEF Justified

\* An approval once given stays: rows are only appended and decided once.
LEMMA ApprovedRowsStay ==
    ASSUME TypeInv, [Next]_vars
    PROVE  \A c \in ToolCalls : \A i \in DOMAIN approvals[c] :
               approvals[c][i] = "approved" =>
                   i \in DOMAIN approvals'[c] /\ approvals'[c][i] = "approved"
<1>1. ASSUME NEW w \in Workers, RequestApproval(w) PROVE
        \A c \in ToolCalls : \A i \in DOMAIN approvals[c] :
               approvals[c][i] = "approved" =>
                   i \in DOMAIN approvals'[c] /\ approvals'[c][i] = "approved"
  <2>1. /\ approvals \in [ToolCalls -> Seq(ApprovalStatuses)]
        /\ approvals' = [approvals EXCEPT ![Head(todo[w])] = Append(@, "pending")]
    BY <1>1 DEF RequestApproval, TypeInv, TypeOK
  <2>2. SUFFICES ASSUME NEW c \in ToolCalls, NEW i \in DOMAIN approvals[c],
                        approvals[c][i] = "approved"
                 PROVE  i \in DOMAIN approvals'[c] /\ approvals'[c][i] = "approved"
    OBVIOUS
  <2>3. approvals'[c] = approvals[c] \/ approvals'[c] = Append(approvals[c], "pending")
    BY ONLY <2>1, c \in ToolCalls
  <2>4. approvals[c] \in Seq(ApprovalStatuses)
    BY ONLY <2>1, c \in ToolCalls
  <2> QED
    BY ONLY <2>2, <2>3, <2>4, i \in DOMAIN approvals[c]
<1>2. ASSUME NEW d \in ToolCalls, NEW j \in DOMAIN approvals[d],
             NEW decision \in {"approved", "denied"}, Decide(d, j, decision)
      PROVE  \A c \in ToolCalls : \A i \in DOMAIN approvals[c] :
               approvals[c][i] = "approved" =>
                   i \in DOMAIN approvals'[c] /\ approvals'[c][i] = "approved"
  BY <1>2 DEF Decide, TypeInv, TypeOK
<1>3. CASE UNCHANGED approvals
  BY <1>3
<1>. QED
  BY <1>1, <1>2, <1>3
  DEF Next, EngineStep, TakeDelivery, MemberStep, Raise, Crash, Redeliver, LoseJob,
      Load, Iterate, ModelCalls, ModelAnswers, AskUser, SkipMissing, FindRequest,
      Evaluate, AnnounceApproval, ParkAgain, Refuse, Forbid, ExecuteTool,
      Checkpoint, Return, Exhaust, ReportFailure, Claim, ClaimNothing,
      ReadQuestion, WriteAnswer, vars

LEMMA StepConsentInv == ConsentInv /\ [Next]_vars => ConsentInv'
<1>. SUFFICES ASSUME ConsentInv, [Next]_vars PROVE ConsentInv'
  OBVIOUS
<1>1. TypeInv'
  BY StepTypeInv DEF ConsentInv
<1>2. \A c \in ToolCalls, why \in Grounds \cup {None} : Justified(c, why) => Justified(c, why)'
  BY ApprovedRowsStay, JustificationStands DEF ConsentInv, TypeInv
<1>3. ASSUME NEW w \in Workers, Evaluate(w) PROVE ConsentInv'
  <2>. DEFINE call == Head(todo[w])
              asked == LatestApproval(call) # None
  <2>1. call \in ToolCalls /\ config[w] \in Configs /\ todo' = todo
    BY <1>3 DEF Evaluate, ConsentInv, TypeInv, PositionOK
  <2>2. pc'[w] = "run" => Justified(call, ground'[w])
    <3>1. CASE asked
      <4>1. approvals[call] # <<>> /\ approvals[call][Len(approvals[call])] = "approved"
        BY <1>3, <3>1, <2>1 DEF Evaluate, LatestApproval
      <4>2. Len(approvals[call]) \in DOMAIN approvals[call]
        BY <4>1, <2>1 DEF ConsentInv, TypeInv, TypeOK
      <4>3. Justified(call, "approved")
        BY <4>1, <4>2 DEF Justified
      <4>. QED
        BY <1>3, <3>1, <4>3 DEF Evaluate, Goto, ConsentInv, TypeInv, TypeOK
    <3>2. CASE ~asked
      <4>. SUFFICES ASSUME pc'[w] = "run" PROVE Justified(call, ground'[w])
        OBVIOUS
      <4>1. PICK org \in OrgEffects, standing \in BOOLEAN :
              /\ PermissionDecision(config[w], Risk[call], org, standing, FALSE) = "auto"
              /\ ground'[w] = IF StandingConsent(config[w], Risk[call], org, standing, FALSE)
                              THEN "standing" ELSE "auto"
        BY <1>3, <3>2 DEF Evaluate, Goto, ConsentInv, TypeInv, TypeOK
      <4>. QED
        BY <4>1, <2>1, AutoIsJustified
    <3>. QED
      BY <3>1, <3>2
  <2>3. RunJustified'
    <3>. SUFFICES ASSUME NEW v \in Workers, pc'[v] = "run"
                 PROVE  Justified(Head(todo[v]), ground[v])'
      BY DEF RunJustified
    <3>1. CASE v = w
      <4>1. Justified(call, ground'[w]) /\ ground'[w] \in Grounds
        BY <1>1, <2>2, <3>1 DEF TypeInv, PositionOK
      <4>. QED
        BY <1>2, <2>1, <3>1, <4>1
    <3>2. CASE v # w
      <4>1. pc[v] = "run" /\ ground'[v] = ground[v]
        BY <1>3, <3>2 DEF Evaluate, Goto, ConsentInv, TypeInv, TypeOK
      <4>. QED
        BY <1>2, <2>1, <4>1 DEF RunJustified, ConsentInv, TypeInv, PositionOK, AtCall
    <3>. QED
      BY <3>1, <3>2
  <2>4. ConsentedExecution'
    BY <1>3, <1>2 DEF ConsentedExecution, ConsentInv, TypeInv, TypeOK, Evaluate, history
  <2>. QED
    BY <1>1, <2>3, <2>4 DEF ConsentInv
<1>4. ASSUME NEW w \in Workers, ExecuteTool(w) PROVE ConsentInv'
  <2>1. RunJustified'
    <3>. SUFFICES ASSUME NEW v \in Workers, pc'[v] = "run"
                 PROVE  Justified(Head(todo[v]), ground[v])'
      BY DEF RunJustified
    <3>1. pc[v] = "run" /\ ground'[v] = ground[v] /\ todo'[v] = todo[v]
      BY <1>4 DEF ExecuteTool, Reply, Goto, ConsentInv, TypeInv, TypeOK
    <3>. QED
      BY <1>2, <3>1 DEF RunJustified, ConsentInv, TypeInv, PositionOK, AtCall
  <2>2. ConsentedExecution'
    BY <1>4, <1>2 DEF ConsentedExecution, RunJustified, ConsentInv, TypeInv, TypeOK,
                      PositionOK, AtCall, ExecuteTool
  <2>. QED
    BY <1>1, <2>1, <2>2 DEF ConsentInv
<1>5. CASE /\ UNCHANGED <<runs, grounds>>
           /\ \A w \in Workers : pc'[w] = "run" =>
                 pc[w] = "run" /\ todo'[w] = todo[w] /\ ground'[w] = ground[w]
  <2>1. RunJustified'
    BY <1>5, <1>2 DEF RunJustified, ConsentInv, TypeInv, TypeOK, PositionOK, AtCall
  <2>2. ConsentedExecution'
    BY <1>5, <1>2 DEF ConsentedExecution, ConsentInv, TypeInv, TypeOK
  <2>. QED
    BY <1>1, <2>1, <2>2 DEF ConsentInv
<1>6. ASSUME NEW w \in Workers,
             EngineStep(w) \/ TakeDelivery(w) \/ Raise(w) \/ Crash(w),
             ~Evaluate(w), ~ExecuteTool(w)
      PROVE  /\ UNCHANGED <<runs, grounds>>
             /\ \A v \in Workers : pc'[v] = "run" =>
                   pc[v] = "run" /\ todo'[v] = todo[v] /\ ground'[v] = ground[v]
  BY <1>6
  DEF ConsentInv, TypeInv, TypeOK, EngineStep, TakeDelivery, Raise, Crash, Load,
      Iterate, ModelCalls, ModelAnswers, AskUser, SkipMissing, FindRequest,
      RequestApproval, AnnounceApproval, ParkAgain, Refuse, Forbid, Checkpoint,
      Return, Exhaust, ReportFailure, Claim, ClaimNothing, Goto, Reply, Release,
      local, history
<1>7. ASSUME MemberStep \/ Redeliver \/ LoseJob \/ UNCHANGED vars
      PROVE  UNCHANGED <<runs, grounds, pc, todo, ground>>
  BY <1>7 DEF MemberStep, Decide, ReadQuestion, WriteAnswer, Redeliver, LoseJob,
              vars, local, history
<1>. QED
  BY <1>3, <1>4, <1>5, <1>6, <1>7 DEF Next

\* No tool runs without a consent that stands, for every configuration: however
\* deliveries, crashes, answers and decisions interleave.
THEOREM ConsentBeforeExecution == Spec => []ConsentedExecution
<1>1. Init => ConsentInv
  BY InitTypeInv DEF Init, ConsentInv, ConsentedExecution, RunJustified
<1>. QED
  BY <1>1, StepConsentInv, PTL DEF Spec, ConsentInv

-----------------------------------------------------------------------------
(* Mutual exclusion.  The claim is the only lock, and a row some worker    *)
(* drives is not claimable; the one other writer is a respond request      *)
(* that holds a reading, so one at a time is assumed.                      *)
OneResponder == \A q, r \in Responders : q = r

ExecutorInv ==
    /\ SingleExecutor
    /\ \A w \in Workers : Driving(w) =>
          /\ status \in {"in_progress", "failed"}
          /\ \A r \in Responders : reading[r] = None
    /\ \A r \in Responders : reading[r] # None => status \in {"needs_input", "failed"}

LEMMA StepExecutorInv ==
    ASSUME OneResponder, TypeInv, ExecutorInv, [Next]_vars
    PROVE  ExecutorInv'
<1>. USE DEF ExecutorInv, SingleExecutor, Driving, TypeInv, TypeOK, OneResponder
<1>1. ASSUME NEW w \in Workers, TakeDelivery(w) PROVE ExecutorInv'
  <2>1. CASE Claim(w)
    BY <2>1 DEF Claim, Claimable, Goto
  <2>2. CASE ClaimNothing(w)
    BY <2>2 DEF ClaimNothing, row
  <2>. QED
    BY ONLY <1>1, <2>1, <2>2 DEF TakeDelivery
<1>2. ASSUME NEW w \in Workers, ReportFailure(w) PROVE ExecutorInv'
  <2>1. /\ pc' = [pc EXCEPT ![w] = "idle"]
        /\ status' = "failed" /\ reading' = reading
    BY ONLY <1>2 DEF ReportFailure, Release, Goto
  <2>. QED
    BY <2>1
<1>3. ASSUME NEW w \in Workers, EngineStep(w), ~Exhaust(w), Driving(w) PROVE ExecutorInv'
  \* The worker drives on in a row that is in progress, or drives no more.
  <2>1. PICK stage :
            /\ pc' = [pc EXCEPT ![w] = stage] /\ reading' = reading
            /\ status' \in {status, "in_progress"} \/ stage \in {"idle", "epilogue"}
    <3>1. CASE \/ Load(w) \/ Iterate(w) \/ ModelCalls(w) \/ FindRequest(w) \/ Evaluate(w)
               \/ RequestApproval(w) \/ Checkpoint(w)
      BY ONLY <3>1 DEF Load, Iterate, ModelCalls, FindRequest, Evaluate, RequestApproval,
         Checkpoint, Goto, Report, row
    <3>2. CASE SkipMissing(w) \/ ExecuteTool(w)
      BY ONLY <3>2 DEF SkipMissing, ExecuteTool, Reply, Goto, row
    <3>3. CASE \/ ModelAnswers(w) \/ AskUser(w) \/ AnnounceApproval(w) \/ ParkAgain(w)
               \/ Refuse(w) \/ Forbid(w) \/ Return(w)
      BY ONLY <3>3 DEF ModelAnswers, AskUser, AnnounceApproval, ParkAgain, Refuse, Forbid,
         Return, Release, Goto
    <3>. QED
      BY ONLY <1>3, <3>1, <3>2, <3>3 DEF EngineStep
  <2>2. /\ \A v \in Workers : v # w => pc'[v] = pc[v] /\ ~Driving(v)
        /\ Driving(w)' => status' \in {"in_progress", "failed"}
    BY <1>3, <2>1
  <2>. QED
    BY <1>3, <2>1, <2>2
<1>4. ASSUME NEW w \in Workers, Return(w) \/ Crash(w) PROVE ExecutorInv'
  BY <1>4 DEF Return, Crash, Release, Goto, row
<1>5. ASSUME NEW r \in Responders, ReadQuestion(r) \/ WriteAnswer(r) PROVE ExecutorInv'
  BY <1>5 DEF ReadQuestion, WriteAnswer, row
<1>6. ASSUME UNCHANGED <<status, pc, reading>> PROVE ExecutorInv'
  BY <1>6
<1>7. ASSUME NEW w \in Workers, EngineStep(w), ~Driving(w) PROVE Return(w)
  BY <1>7 DEF EngineStep, Load, Iterate, ModelCalls, ModelAnswers, AskUser,
      SkipMissing, FindRequest, Evaluate, RequestApproval, AnnounceApproval,
      ParkAgain, Refuse, Forbid, ExecuteTool, Checkpoint, Exhaust
<1>. HIDE DEF ExecutorInv, SingleExecutor, Driving, TypeInv, TypeOK, OneResponder
<1>8. ASSUME \/ \E c \in ToolCalls : \E i \in DOMAIN approvals[c] :
                   \E decision \in {"approved", "denied"} : Decide(c, i, decision)
             \/ Redeliver \/ LoseJob \/ UNCHANGED vars
      PROVE  UNCHANGED <<status, pc, reading>>
  BY <1>8 DEF Decide, Redeliver, LoseJob, vars, row
<1>. QED
  BY <1>1, <1>2, <1>3, <1>4, <1>5, <1>6, <1>7, <1>8
  DEF Next, MemberStep, Raise, Exhaust

\* With one respond request at a time, no two workers ever drive the task at
\* once: for any number of workers, duplicates, losses and crashes.
THEOREM MutualExclusion == ASSUME OneResponder PROVE Spec => []SingleExecutor
<1>1. Init => ExecutorInv
  BY DEF Init, ExecutorInv, SingleExecutor, Driving
<1>2. TypeInv /\ ExecutorInv /\ [Next]_vars => ExecutorInv'
  BY StepExecutorInv
<1>. QED
  BY <1>1, <1>2, TypeInvariant, PTL DEF Spec, ExecutorInv

-----------------------------------------------------------------------------
(* The gate.  A call that ran was answered in the memory of the one worker *)
(* that drives, and nothing brings it back: a row whose transcript may be  *)
(* read again was reported with the unanswered calls as they stood.        *)

\* The calls of a transcript that may still be executed: each once, none has run.
Untouched(calls) ==
    /\ \A i, j \in DOMAIN calls : calls[i] = calls[j] => i = j
    /\ \A i \in DOMAIN calls :
          /\ calls[i] \in emitted
          /\ calls[i] \in ToolCalls => runs[calls[i]] = 0

\* The row's transcript may be read again, by a delivery or by a respond request.
Resumable == status \in Claimable \cup {"needs_input"} \/ \E w \in Workers : pc[w] = "load"

\* What lets a call run is settled for good: its row is decided, or it has none.
Cleared(c, why) ==
    \/ why = "approved" /\ Standing(c) = "approved"
    \/ Standing(c) = "open" /\ c \in UnattendedCalls

TranscriptInv ==
    /\ \A w \in Workers : Driving(w) /\ pc[w] # "load" => Untouched(todo[w])
    /\ \A r \in Responders : reading[r] # None => Untouched(reading[r])
    /\ Resumable => Untouched(saved)
    /\ \A c \in ToolCalls \ emitted : runs[c] = 0

RequestInv ==
    /\ \A c \in ToolCalls : Len(approvals[c]) <= 1
    /\ \A w \in Workers : pc[w] = "request" => Standing(Head(todo[w])) = "open"
    /\ \A w \in Workers : pc[w] = "run" => Cleared(Head(todo[w]), ground[w])

GateInv == TranscriptInv /\ RequestInv

\* A reply to the first call leaves the others as they were.
LEMMA TailUntouched ==
    ASSUME NEW calls \in Seq(Calls), calls # <<>>, Untouched(calls)
    PROVE  /\ Untouched(Tail(calls))
           /\ \A i \in DOMAIN Tail(calls) : Tail(calls)[i] # Head(calls)
<1>1. \A i \in DOMAIN Tail(calls) :
         /\ i \in Nat /\ i >= 1
         /\ i + 1 \in DOMAIN calls
         /\ Tail(calls)[i] = calls[i + 1]
  OBVIOUS
<1>2. Head(calls) = calls[1] /\ 1 \in DOMAIN calls
  OBVIOUS
<1>3. ASSUME NEW i \in DOMAIN Tail(calls) PROVE Tail(calls)[i] # Head(calls)
  <2>1. i + 1 # 1
    BY <1>1
  <2>. QED
    BY <1>1, <1>2, <2>1 DEF Untouched
<1>4. ASSUME NEW i \in DOMAIN Tail(calls), NEW j \in DOMAIN Tail(calls),
             Tail(calls)[i] = Tail(calls)[j]
      PROVE  i = j
  <2>1. i + 1 = j + 1
    BY <1>1, <1>4 DEF Untouched
  <2>. QED
    BY <1>1, <2>1
<1>5. ASSUME NEW i \in DOMAIN Tail(calls)
      PROVE  /\ Tail(calls)[i] \in emitted
             /\ Tail(calls)[i] \in ToolCalls => runs[Tail(calls)[i]] = 0
  BY <1>1 DEF Untouched
<1>. QED
  BY <1>3, <1>4, <1>5 DEF Untouched

\* What the transcripts hold depends on the calls emitted and run, and only
\* ModelCalls and ExecuteTool change those.
LEMMA UntouchedStands ==
    ASSUME TypeInv, runs' = runs, emitted \subseteq emitted'
    PROVE  \A calls \in Seq(Calls) : Untouched(calls) => Untouched(calls)'
BY DEF Untouched

LEMMA StepTranscriptInv ==
    ASSUME OneResponder, TypeInv, ExecutorInv, TranscriptInv, [Next]_vars
    PROVE  TranscriptInv'
<1>. USE DEF TypeInv, TypeOK, TranscriptInv, Resumable, Claimable
<1>1. ASSUME NEW w \in Workers, TakeDelivery(w) PROVE TranscriptInv'
  <2>1. \A calls \in Seq(Calls) : Untouched(calls) => Untouched(calls)'
    BY <1>1, UntouchedStands DEF TakeDelivery, Claim, ClaimNothing, history
  <2>2. CASE Claim(w)
    BY <2>1, <2>2 DEF Claim, Goto, local, history, Driving
  <2>3. CASE ClaimNothing(w)
    BY <2>1, <2>3 DEF ClaimNothing, row, local, history, Driving
  <2>. QED
    BY <1>1, <2>2, <2>3 DEF TakeDelivery
<1>2. ASSUME NEW w \in Workers, Load(w) PROVE TranscriptInv'
  <2>1. \A calls \in Seq(Calls) : Untouched(calls) => Untouched(calls)'
    BY <1>2, UntouchedStands DEF Load, history
  <2>. QED
    BY <1>2, <2>1 DEF Load, Goto, row, history, Driving
<1>3. ASSUME NEW w \in Workers, ModelCalls(w) PROVE TranscriptInv'
  <2>1. PICK batch \in Batches(Calls \ emitted) :
            /\ emitted' = emitted \cup {batch[i] : i \in DOMAIN batch}
            /\ todo' = [todo EXCEPT ![w] = batch]
            /\ saved' = batch
    BY <1>3 DEF ModelCalls
  <2>2. /\ batch \in Seq(Calls \ emitted)
        /\ \A i, j \in DOMAIN batch : batch[i] = batch[j] => i = j
        /\ \A i \in DOMAIN batch : batch[i] \in Calls \ emitted
    <3>1. batch \in Seq(Calls \ emitted)
      BY ONLY <2>1, BatchType
    <3>2. \A i, j \in DOMAIN batch : batch[i] = batch[j] => i = j
      BY ONLY <2>1 DEF Batches
    <3>. QED
      BY <3>1, <3>2
  <2>3. runs' = runs /\ UNCHANGED reading
    BY <1>3 DEF ModelCalls
  <2>4. \A calls \in Seq(Calls) : Untouched(calls) => Untouched(calls)'
    BY <2>1, <2>3, UntouchedStands
  <2>5. Untouched(todo[w])' /\ todo'[w] = batch
    BY <2>1, <2>2, <2>3 DEF Untouched
  <2>6. Untouched(saved)'
    BY <2>1, <2>2, <2>3 DEF Untouched
  <2>7. \A v \in Workers : v # w => pc'[v] = pc[v] /\ todo'[v] = todo[v]
    BY <1>3, <2>1 DEF ModelCalls, Goto
  <2>8. \A v \in Workers : Driving(v)' /\ pc'[v] # "load" => Untouched(todo[v])'
    BY <2>4, <2>5, <2>7 DEF Driving
  <2>9. \A c \in ToolCalls \ emitted' : runs'[c] = 0
    BY <2>1, <2>3
  <2>10. \A r \in Responders : reading'[r] # None => Untouched(reading[r])'
    BY <2>3, <2>4
  <2>. QED
    BY <2>6, <2>8, <2>9, <2>10
<1>4. ASSUME NEW w \in Workers, ExecuteTool(w) PROVE TranscriptInv'
  <2>. DEFINE call == Head(todo[w])
  <2>1. /\ todo[w] # <<>> /\ call \in ToolCalls /\ pc[w] = "run"
        /\ Untouched(todo[w])
    BY <1>4 DEF ExecuteTool, PositionOK, AtCall, Driving
  <2>2. Untouched(Tail(todo[w])) /\ \A i \in DOMAIN Tail(todo[w]) : Tail(todo[w])[i] # call
    BY <2>1, TailUntouched
  <2>3. /\ emitted' = emitted /\ status' = status /\ reading' = reading
        /\ todo' = [todo EXCEPT ![w] = Tail(todo[w])]
        /\ \A c \in ToolCalls : c # call => runs'[c] = runs[c]
        /\ \A v \in Workers : v # w => pc'[v] = pc[v]
        /\ pc'[w] # "load"
    BY <1>4 DEF ExecuteTool, Reply, Goto, row
  <2>4. /\ status \notin {"pending", "needs_approval", "needs_input"}
        /\ \A r \in Responders : reading[r] = None
        /\ \A v \in Workers : v # w => ~Driving(v)
    BY <2>1 DEF ExecutorInv, SingleExecutor, Driving
  <2>5. ~Resumable'
    BY <2>3, <2>4 DEF Driving
  <2>6. Untouched(todo[w])'
    <3>. HIDE DEF call
    <3>1. PICK rest : rest = Tail(todo[w]) /\ todo'[w] = rest
      BY <2>3
    <3>2. Untouched(rest) /\ \A i \in DOMAIN rest : rest[i] # call
      BY ONLY <2>2, <3>1
    <3>3. \A i \in DOMAIN rest : rest[i] \in ToolCalls => runs'[rest[i]] = 0
      BY ONLY <2>3, <3>2 DEF Untouched
    <3>4. todo'[w] = rest /\ emitted' = emitted
      BY ONLY <2>3, <3>1
    <3>. QED
      BY ONLY <3>2, <3>3, <3>4 DEF Untouched
  <2>7. call \in emitted
    <3>1. 1 \in DOMAIN todo[w] /\ call = todo[w][1]
      BY <2>1
    <3>. QED
      BY <2>1, <3>1 DEF Untouched
  <2>8. \A v \in Workers : Driving(v)' /\ pc'[v] # "load" => Untouched(todo[v])'
    BY <2>3, <2>4, <2>6 DEF Driving
  <2>9. \A c \in ToolCalls \ emitted' : runs'[c] = 0
    BY <2>3, <2>7
  <2>. QED
    BY <2>3, <2>4, <2>5, <2>8, <2>9
<1>5. ASSUME NEW w \in Workers, AskUser(w) \/ AnnounceApproval(w) \/ ParkAgain(w)
      PROVE  TranscriptInv'
  <2>1. \A calls \in Seq(Calls) : Untouched(calls) => Untouched(calls)'
    BY <1>5, UntouchedStands DEF AskUser, AnnounceApproval, ParkAgain, history
  <2>2. Untouched(todo[w]) /\ saved' = todo[w]
    BY <1>5 DEF AskUser, AnnounceApproval, ParkAgain, Report, Driving
  <2>3. \A v \in Workers : Driving(v)' => Driving(v) /\ pc'[v] = pc[v] /\ todo'[v] = todo[v]
    BY <1>5 DEF AskUser, AnnounceApproval, ParkAgain, Release, Goto, local, Driving
  <2>4. reading' = reading /\ emitted' = emitted /\ runs' = runs
    BY <1>5 DEF AskUser, AnnounceApproval, ParkAgain, history
  <2>. QED
    BY <2>1, <2>2, <2>3, <2>4
<1>6. ASSUME NEW w \in Workers,
             ModelAnswers(w) \/ Refuse(w) \/ Forbid(w) \/ Checkpoint(w)
      PROVE  TranscriptInv'
  <2>1. \A calls \in Seq(Calls) : Untouched(calls) => Untouched(calls)'
    BY <1>6, UntouchedStands DEF ModelAnswers, Refuse, Forbid, Checkpoint, history
  <2>2. \A v \in Workers : pc'[v] = "load" => pc[v] = "load" /\ v # w
    BY <1>6 DEF ModelAnswers, Refuse, Forbid, Checkpoint, Goto
  <2>3. ~Resumable'
    BY <1>6, <2>2 DEF ModelAnswers, Refuse, Forbid, Checkpoint, Report,
       ExecutorInv, SingleExecutor, Driving
  <2>4. \A v \in Workers : Driving(v)' => Driving(v) /\ todo'[v] = todo[v]
                                        /\ (pc[v] = "load" => pc'[v] = "load")
    BY <1>6 DEF ModelAnswers, Refuse, Forbid, Checkpoint, Goto, local, Driving
  <2>5. reading' = reading /\ emitted' = emitted /\ runs' = runs
    BY <1>6 DEF ModelAnswers, Refuse, Forbid, Checkpoint, history
  <2>. QED
    BY <2>1, <2>3, <2>4, <2>5
<1>7. ASSUME NEW w \in Workers,
             Iterate(w) \/ FindRequest(w) \/ Evaluate(w) \/ RequestApproval(w)
      PROVE  TranscriptInv'
  <2>1. \A calls \in Seq(Calls) : Untouched(calls) => Untouched(calls)'
    BY <1>7, UntouchedStands DEF Iterate, FindRequest, Evaluate, RequestApproval, history
  <2>2. \A v \in Workers : /\ Driving(v)' => Driving(v)
                           /\ pc'[v] = "load" <=> pc[v] = "load"
    BY <1>7 DEF Iterate, FindRequest, Evaluate, RequestApproval, Goto, Driving
  <2>3. UNCHANGED <<status, saved, todo, reading, emitted, runs>>
    BY <1>7 DEF Iterate, FindRequest, Evaluate, RequestApproval, row, local, history
  <2>. QED
    BY <2>1, <2>2, <2>3
<1>8. ASSUME NEW w \in Workers, SkipMissing(w) PROVE TranscriptInv'
  <2>1. \A calls \in Seq(Calls) : Untouched(calls) => Untouched(calls)'
    BY <1>8, UntouchedStands DEF SkipMissing, history
  <2>2. todo[w] # <<>> /\ Untouched(todo[w])
    BY <1>8 DEF SkipMissing, PositionOK, AtCall, Driving
  <2>3. Untouched(Tail(todo[w])) /\ Tail(todo[w]) \in Seq(Calls)
    BY <2>2, TailUntouched
  <2>4. /\ todo' = [todo EXCEPT ![w] = Tail(todo[w])]
        /\ UNCHANGED <<status, saved, reading, emitted, runs>>
        /\ \A v \in Workers : v # w => pc'[v] = pc[v]
        /\ pc'[w] # "load"
    BY <1>8 DEF SkipMissing, Reply, Goto, row, history
  <2>5. \A v \in Workers : Driving(v)' /\ pc'[v] # "load" => Untouched(todo[v])'
    BY <2>1, <2>3, <2>4 DEF Driving
  <2>. QED
    BY <2>1, <2>4, <2>5
<1>9. ASSUME NEW w \in Workers, Return(w) \/ Crash(w) \/ ReportFailure(w)
      PROVE  TranscriptInv'
  <2>1. \A calls \in Seq(Calls) : Untouched(calls) => Untouched(calls)'
    BY <1>9, UntouchedStands DEF Return, Crash, ReportFailure, history
  <2>2. \A v \in Workers : pc'[v] # "idle" => pc'[v] = pc[v] /\ todo'[v] = todo[v]
    BY <1>9 DEF Return, Crash, ReportFailure, Release, Goto
  <2>3. UNCHANGED <<saved, reading, emitted, runs>> /\ status' \in {status, "failed"}
    BY <1>9 DEF Return, Crash, ReportFailure, row, history
  <2>. QED
    BY <2>1, <2>2, <2>3 DEF Driving
<1>10. ASSUME NEW r \in Responders, ReadQuestion(r) PROVE TranscriptInv'
  <2>1. \A calls \in Seq(Calls) : Untouched(calls) => Untouched(calls)'
    BY <1>10, UntouchedStands DEF ReadQuestion, history
  <2>2. Untouched(saved)
    BY <1>10 DEF ReadQuestion
  <2>. QED
    BY <1>10, <2>1, <2>2 DEF ReadQuestion, row, local, history, Driving
<1>11. ASSUME NEW r \in Responders, WriteAnswer(r) PROVE TranscriptInv'
  <2>1. \A calls \in Seq(Calls) : Untouched(calls) => Untouched(calls)'
    BY <1>11, UntouchedStands DEF WriteAnswer, history
  <2>2. reading[r] \in Seq(Calls) /\ reading[r] # <<>> /\ Untouched(reading[r])
    BY <1>11 DEF WriteAnswer, ReadingOK
  <2>3. Untouched(Tail(reading[r])) /\ Tail(reading[r]) \in Seq(Calls)
    BY <2>2, TailUntouched
  <2>4. Untouched(saved)'
    BY <1>11, <2>1, <2>3 DEF WriteAnswer
  <2>. QED
    BY <1>11, <2>1, <2>4 DEF WriteAnswer, local, history, Driving
<1>12. ASSUME \/ \E c \in ToolCalls : \E i \in DOMAIN approvals[c] :
                    \E decision \in {"approved", "denied"} : Decide(c, i, decision)
              \/ Redeliver \/ LoseJob \/ UNCHANGED vars
       PROVE  TranscriptInv'
  <2>1. UNCHANGED <<status, saved, pc, todo, reading, emitted, runs>>
    BY <1>12 DEF Decide, Redeliver, LoseJob, vars, row, local, history
  <2>2. \A calls \in Seq(Calls) : Untouched(calls) => Untouched(calls)'
    BY <2>1, UntouchedStands
  <2>. QED
    BY <2>1, <2>2 DEF Driving
<1>. HIDE DEF TypeInv, TypeOK, TranscriptInv, Resumable, Claimable
<1>. QED
  BY <1>1, <1>2, <1>3, <1>4, <1>5, <1>6, <1>7, <1>8, <1>9, <1>10, <1>11, <1>12
  DEF Next, EngineStep, MemberStep, Raise, Exhaust

-----------------------------------------------------------------------------
(* Requests: a call gets one row at most, and what a worker found settled  *)
(* when it evaluated the call is settled when it runs it.                  *)
LEMMA StandingOfRows ==
    ASSUME TypeInv, RequestInv, NEW c \in ToolCalls
    PROVE  /\ Standing(c) \in {"open", "pending", "approved", "denied"}
           /\ Standing(c) = "open" <=> approvals[c] = <<>>
           /\ approvals[c] # <<>> =>
                 /\ DOMAIN approvals[c] = {1}
                 /\ Standing(c) = approvals[c][1]
                 /\ LatestApproval(c) = approvals[c][1]
BY DEF TypeInv, TypeOK, RequestInv, Standing, LatestApproval, ApprovalStatuses

\* Evaluate sends a call to "request" or to "run" on what it finds.
LEMMA EvaluateClears ==
    ASSUME TypeInv, RequestInv, NEW w \in Workers, Evaluate(w)
    PROVE  /\ pc'[w] = "request" => Standing(Head(todo[w])) = "open"
           /\ pc'[w] = "run" => Cleared(Head(todo[w]), ground'[w])
<1>. DEFINE call == Head(todo[w])
            asked == LatestApproval(call) # None
<1>1. call \in ToolCalls /\ config[w] \in Configs
  BY DEF Evaluate, TypeInv, PositionOK
<1>2. CASE asked
  <2>1. approvals[call] # <<>> /\ LatestApproval(call) = "approved"
    BY <1>2 DEF Evaluate, LatestApproval
  <2>2. Standing(call) = "approved"
    BY <1>1, <2>1, StandingOfRows
  <2>3. pc'[w] # "request" /\ (pc'[w] = "run" => ground'[w] = "approved")
    BY <1>2, <2>1 DEF Evaluate, Goto, TypeInv, TypeOK
  <2>. QED
    BY <2>2, <2>3 DEF Cleared
<1>3. CASE ~asked
  <2>1. approvals[call] = <<>>
    BY <1>1, <1>3, NoneIsNew, StandingOfRows
    DEF TypeInv, TypeOK, LatestApproval
  <2>2. Standing(call) = "open"
    BY <2>1 DEF Standing
  <2>3. pc'[w] = "run" => call \in UnattendedCalls
    <3>. SUFFICES ASSUME pc'[w] = "run" PROVE call \in UnattendedCalls
      OBVIOUS
    <3>1. PICK org \in OrgEffects, standing \in BOOLEAN :
            PermissionDecision(config[w], Risk[call], org, standing, FALSE) = "auto"
      BY <1>3 DEF Evaluate, Goto, TypeInv, TypeOK
    <3>2. \/ ResolveToolPermission(config[w], Risk[call]) = "auto"
          \/ ~FloorForces(config[w], Risk[call])
      BY <3>1 DEF PermissionDecision, StandingConsent
    <3>. QED
      BY <1>1, <3>2 DEF UnattendedCalls
  <2>. QED
    BY <2>2, <2>3 DEF Cleared
<1>. QED
  BY <1>2, <1>3

LEMMA StepRequestInv ==
    ASSUME TypeInv, ExecutorInv, RequestInv, [Next]_vars
    PROVE  RequestInv'
<1>. DEFINE Waiting(v) == pc[v] = "request" => Standing(Head(todo[v])) = "open"
            Running(v) == pc[v] = "run" => Cleared(Head(todo[v]), ground[v])
<1>1. ASSUME NEW w \in Workers, RequestApproval(w) PROVE RequestInv'
  <2>. DEFINE call == Head(todo[w])
  <2>1. call \in ToolCalls /\ approvals[call] = <<>>
    BY <1>1, StandingOfRows DEF RequestApproval, RequestInv, TypeInv, PositionOK, AtCall
  <2>2. \A v \in Workers : pc'[v] \notin {"request", "run"}
    BY <1>1 DEF RequestApproval, Goto, ExecutorInv, SingleExecutor, Driving, TypeInv, TypeOK
  <2>3. \A c \in ToolCalls : Len(approvals'[c]) <= 1
    BY <1>1, <2>1 DEF RequestApproval, RequestInv, TypeInv, TypeOK
  <2>. QED
    BY <2>2, <2>3 DEF RequestInv
<1>2. ASSUME NEW c \in ToolCalls, NEW i \in DOMAIN approvals[c],
             NEW decision \in {"approved", "denied"}, Decide(c, i, decision)
      PROVE  RequestInv'
  <2>1. Standing(c) = "pending"
    BY <1>2, StandingOfRows DEF Decide, TypeInv, TypeOK
  <2>2. /\ \A d \in ToolCalls : Len(approvals'[d]) = Len(approvals[d])
        /\ \A d \in ToolCalls : d # c => approvals'[d] = approvals[d]
        /\ UNCHANGED <<pc, todo, ground>>
    BY <1>2 DEF Decide, local, TypeInv, TypeOK
  <2>3. ASSUME NEW v \in Workers, pc[v] \in {"request", "run"}
        PROVE  /\ Head(todo[v]) \in ToolCalls \ {c}
               /\ Standing(Head(todo[v]))' = Standing(Head(todo[v]))
    <3>1. Head(todo[v]) \in ToolCalls
      BY <2>3 DEF TypeInv, PositionOK, AtCall
    <3>2. Head(todo[v]) # c
      BY <2>1, <2>3 DEF RequestInv, Cleared
    <3>. QED
      BY <2>2, <3>1, <3>2 DEF Standing, LatestApproval
  <2>. QED
    BY <2>2, <2>3 DEF RequestInv, Cleared
<1>3. ASSUME NEW w \in Workers, Evaluate(w) PROVE RequestInv'
  <2>1. /\ UNCHANGED <<approvals, todo>>
        /\ \A v \in Workers : v # w => pc'[v] = pc[v] /\ ground'[v] = ground[v]
    BY <1>3 DEF Evaluate, Goto, TypeInv, TypeOK
  <2>2. \A c \in ToolCalls : Standing(c)' = Standing(c)
    BY <2>1 DEF Standing, LatestApproval
  <2>3. ASSUME NEW v \in Workers PROVE Waiting(v)' /\ Running(v)'
    <3>1. pc'[v] \in {"request", "run"} => Head(todo[v]) \in ToolCalls
      BY <1>3, <2>1 DEF Evaluate, TypeInv, PositionOK, AtCall
    <3>2. CASE v = w
      BY <1>3, <2>1, <2>2, <3>1, <3>2, EvaluateClears DEF Cleared
    <3>3. CASE v # w
      BY <2>1, <2>2, <3>1, <3>3 DEF RequestInv, Cleared
    <3>. QED
      BY <3>2, <3>3
  <2>. QED
    BY <2>1, <2>3 DEF RequestInv
<1>4. CASE /\ UNCHANGED approvals
           /\ \A w \in Workers : pc'[w] \in {"request", "run"} =>
                 pc'[w] = pc[w] /\ todo'[w] = todo[w] /\ ground'[w] = ground[w]
  BY <1>4 DEF RequestInv, Cleared, Standing, LatestApproval
<1>5. ASSUME NEW w \in Workers,
             EngineStep(w) \/ TakeDelivery(w) \/ Raise(w) \/ Crash(w),
             ~Evaluate(w), ~RequestApproval(w)
      PROVE  /\ UNCHANGED approvals
             /\ \A v \in Workers : pc'[v] \in {"request", "run"} =>
                   pc'[v] = pc[v] /\ todo'[v] = todo[v] /\ ground'[v] = ground[v]
  BY <1>5
  DEF TypeInv, TypeOK, EngineStep, TakeDelivery, Raise, Crash, Load, Iterate,
      ModelCalls, ModelAnswers, AskUser, SkipMissing, FindRequest,
      AnnounceApproval, ParkAgain, Refuse, Forbid, ExecuteTool, Checkpoint,
      Return, Exhaust, ReportFailure, Claim, ClaimNothing, Goto, Reply, Release, local
<1>6. ASSUME \/ \E r \in Responders : ReadQuestion(r) \/ WriteAnswer(r)
             \/ Redeliver \/ LoseJob \/ UNCHANGED vars
      PROVE  UNCHANGED <<approvals, pc, todo, ground>>
  BY <1>6 DEF ReadQuestion, WriteAnswer, Redeliver, LoseJob, vars, local
<1>. QED
  BY <1>1, <1>2, <1>3, <1>4, <1>5, <1>6 DEF Next, MemberStep

-----------------------------------------------------------------------------
(* The refinement: three steps of the engine are steps of the gate, and no *)
(* other step shows there.                                                 *)
GateVars == <<[c \in ToolCalls |-> Standing(c)], runs>>

\* A step that leaves approval rows and runs alone is none of the gate.
LEMMA StandingKept ==
    ASSUME UNCHANGED <<approvals, runs>> PROVE UNCHANGED GateVars
BY DEF GateVars, Standing, LatestApproval

LEMMA GateInit == Init => Gate!Init
BY DEF Init, Gate!Init, Standing

LEMMA GateStep ==
    ASSUME TypeInv, GateInv, [Next]_vars
    PROVE  [Gate!Next]_GateVars
<1>1. ASSUME NEW w \in Workers, RequestApproval(w) PROVE Gate!Next
  <2>. DEFINE call == Head(todo[w])
  <2>1. /\ call \in ToolCalls /\ todo[w] # <<>>
        /\ Standing(call) = "open" /\ approvals[call] = <<>>
    BY <1>1, StandingOfRows
    DEF RequestApproval, GateInv, RequestInv, TypeInv, PositionOK, AtCall
  <2>2. runs[call] = 0 /\ UNCHANGED runs
    <3>1. Untouched(todo[w])
      BY <1>1 DEF RequestApproval, GateInv, TranscriptInv, Driving
    <3>2. 1 \in DOMAIN todo[w] /\ call = todo[w][1]
      BY <2>1 DEF TypeInv, TypeOK
    <3>. QED
      BY <1>1, <2>1, <3>1, <3>2 DEF Untouched, RequestApproval, history
  <2>3. approvals' = [approvals EXCEPT ![call] = <<"pending">>]
    BY <1>1, <2>1 DEF RequestApproval, TypeInv, TypeOK
  <2>4. [c \in ToolCalls |-> Standing(c)]'
          = [[c \in ToolCalls |-> Standing(c)] EXCEPT ![call] = "pending"]
    BY <2>1, <2>3 DEF Standing, LatestApproval, TypeInv, TypeOK
  <2>5. Gate!Request(call)
    BY <2>1, <2>2, <2>4 DEF Gate!Request
  <2>. QED
    BY <2>1, <2>5 DEF Gate!Next
<1>2. ASSUME NEW c \in ToolCalls, NEW i \in DOMAIN approvals[c],
             NEW decision \in {"approved", "denied"}, Decide(c, i, decision)
      PROVE  Gate!Next
  <2>1. i = 1 /\ DOMAIN approvals[c] = {1} /\ Standing(c) = "pending"
    BY <1>2, StandingOfRows DEF Decide, GateInv, TypeInv, TypeOK
  <2>2. approvals' = [approvals EXCEPT ![c] = <<decision>>] /\ UNCHANGED runs
    <3>1. [approvals[c] EXCEPT ![1] = decision] = <<decision>>
      BY <2>1 DEF TypeInv, TypeOK
    <3>. QED
      BY <1>2, <2>1, <3>1 DEF Decide, history, TypeInv, TypeOK
  <2>3. [d \in ToolCalls |-> Standing(d)]'
          = [[d \in ToolCalls |-> Standing(d)] EXCEPT ![c] = decision]
    BY <2>2 DEF Standing, LatestApproval, TypeInv, TypeOK
  <2>4. Gate!Settle(c)
    BY <2>1, <2>2, <2>3 DEF Gate!Settle
  <2>. QED
    BY <2>4 DEF Gate!Next
<1>3. ASSUME NEW w \in Workers, ExecuteTool(w) PROVE Gate!Next
  <2>. DEFINE call == Head(todo[w])
  <2>1. call \in ToolCalls /\ todo[w] # <<>> /\ Cleared(call, ground[w])
    BY <1>3 DEF ExecuteTool, GateInv, RequestInv, TypeInv, PositionOK, AtCall
  <2>2. runs[call] = 0
    <3>1. Untouched(todo[w])
      BY <1>3 DEF ExecuteTool, GateInv, TranscriptInv, Driving
    <3>2. 1 \in DOMAIN todo[w] /\ call = todo[w][1]
      BY <2>1 DEF TypeInv, TypeOK
    <3>. QED
      BY <2>1, <3>1, <3>2 DEF Untouched
  <2>3. runs' = [runs EXCEPT ![call] = 1]
    BY <1>3, <2>1, <2>2 DEF ExecuteTool, TypeInv, TypeOK
  <2>4. [c \in ToolCalls |-> Standing(c)]' = [c \in ToolCalls |-> Standing(c)]
    BY <1>3 DEF ExecuteTool, Standing, LatestApproval
  <2>5. Gate!Run(call)
    BY <2>1, <2>2, <2>3, <2>4 DEF Gate!Run, Cleared
  <2>. QED
    BY <2>1, <2>5 DEF Gate!Next
<1>4. ASSUME NEW w \in Workers,
             EngineStep(w) \/ TakeDelivery(w) \/ Raise(w) \/ Crash(w),
             ~RequestApproval(w), ~ExecuteTool(w)
      PROVE  UNCHANGED <<approvals, runs>>
  BY <1>4
  DEF EngineStep, TakeDelivery, Raise, Crash, Load, Iterate, ModelCalls,
      ModelAnswers, AskUser, SkipMissing, FindRequest, Evaluate,
      AnnounceApproval, ParkAgain, Refuse, Forbid, Checkpoint, Return, Exhaust,
      ReportFailure, Claim, ClaimNothing, history
<1>5. ASSUME \/ \E r \in Responders : ReadQuestion(r) \/ WriteAnswer(r)
             \/ Redeliver \/ LoseJob \/ UNCHANGED vars
      PROVE  UNCHANGED <<approvals, runs>>
  BY <1>5 DEF ReadQuestion, WriteAnswer, Redeliver, LoseJob, vars, history
<1>. QED
  BY <1>1, <1>2, <1>3, <1>4, <1>5, StandingKept DEF Next, MemberStep

\* With one respond request at a time the engine implements the gate: for every
\* number of workers and calls and every configuration, whatever is paused,
\* resumed, delivered twice, lost or crashed, a call is asked for at most once,
\* runs at most once, and only on an approval or on its own, never against a denial.
THEOREM EngineImplementsGate == ASSUME OneResponder PROVE Spec => GateSpec
<1>1. Init => ExecutorInv /\ GateInv
  BY DEF Init, ExecutorInv, SingleExecutor, Driving, GateInv, TranscriptInv,
         RequestInv, Resumable, Untouched
<1>2. TypeInv /\ ExecutorInv /\ GateInv /\ [Next]_vars => ExecutorInv' /\ GateInv'
  BY StepExecutorInv, StepTranscriptInv, StepRequestInv DEF GateInv
<1>3. TypeInv /\ GateInv /\ [Next]_vars => [Gate!Next]_GateVars
  BY GateStep
<1>. QED
  BY <1>1, <1>2, <1>3, GateInit, TypeInvariant, PTL
  DEF Spec, GateSpec, Gate!Spec, GateVars
=============================================================================
