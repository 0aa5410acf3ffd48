-------------------------- MODULE ConsensusSession --------------------------
(***************************************************************************)
(* A consensus session: one background task per member of the team, the    *)
(* votes recorded from their answers, and the rule that decides.           *)
(*                                                                         *)
(* The worker that ends a delivery of a voting task records the vote in a  *)
(* transaction that locks the session, and finalizes in it; the states of  *)
(* the other tasks are read inside, but belong to the task engine.         *)
(***************************************************************************)
EXTENDS Integers, FiniteSets, FiniteSetsExt

CONSTANTS
    Coworkers,    \* the members of the team's first version
    Options,      \* answers offered
    Methods,      \* rules a session may use
    Confidences,  \* weights of a vote
    None,         \* no option: an answer that names none, an empty result
    MaxDeliveries,\* bound: deliveries of one voting task
    MaxQuestions, \* bound: voting tasks that pause to ask a member
    MaxEdits,     \* bound: new versions of the team
    MaxFaults     \* bound: deliveries that die before they record

AllMethods == {"majority", "unanimous", "confidence_weighted"}

ASSUME ConstantsAssumption ==
    /\ IsFiniteSet(Coworkers) /\ Coworkers # {}
    /\ None \notin Options
    /\ Methods \subseteq AllMethods
    /\ Confidences \subseteq Nat
    /\ MaxDeliveries \in Nat /\ MaxQuestions \in Nat /\ MaxEdits \in Nat /\ MaxFaults \in Nat

VARIABLES
    method,       \* ConsensusSession.method
    status,       \* ConsensusSession.status
    result,       \* ConsensusSession.result_option
    expected,     \* number of members of the team's current version
    tasks,        \* the state of each member's task
    answer,       \* the option and confidence its result parses to
    votes,        \* the vote recorded for each member; option None if none
    due,          \* deliveries of a member's task that ended and record next
    (* Bounds. *)
    deliveries, questions, edits, faults

session == <<method, status, result>>
bounds == <<deliveries, questions, edits, faults>>

vars == <<session, expected, tasks, answer, votes, due, bounds>>

-----------------------------------------------------------------------------
Vote == [option : Options \cup {None}, confidence : Confidences]
NoVote == [option |-> None, confidence |-> CHOOSE c \in Confidences : TRUE]

Unfinished == {"pending", "in_progress", "needs_approval"}
TaskStates == Unfinished \cup {"needs_input", "completed", "failed", "blocked"}

Voters(ballots) == {m \in Coworkers : ballots[m].option # None}

Supporters(ballots, o) == {m \in Coworkers : ballots[m].option = o}

\* An option's score: its votes, or the sum of their confidences.
Score(rule, ballots, o) ==
    IF rule = "confidence_weighted"
    THEN MapThenSumSet(LAMBDA m : ballots[m].confidence, Supporters(ballots, o))
    ELSE Cardinality(Supporters(ballots, o))

Named(ballots) == {ballots[m].option : m \in Voters(ballots)}

Leaders(rule, ballots) ==
    {o \in Named(ballots) :
        \A p \in Named(ballots) : Score(rule, ballots, p) <= Score(rule, ballots, o)}

\* The options the rule may settle on, with n members expected.
Unanimous(n, ballots) ==
    IF Cardinality(Voters(ballots)) = n THEN Named(ballots) ELSE {}

Leading(rule, n, ballots) ==
    IF 2 * Cardinality(Voters(ballots)) > n THEN Leaders(rule, ballots) ELSE {}

Candidates(rule, n, ballots) ==
    IF rule = "unanimous" THEN Unanimous(n, ballots) ELSE Leading(rule, n, ballots)

\* What the rule makes of the votes: its only candidate, or None for a deadlock.
Winner(rule, n, ballots) ==
    IF Cardinality(Candidates(rule, n, ballots)) = 1
    THEN CHOOSE o \in Candidates(rule, n, ballots) : TRUE ELSE None

\* start_consensus_session commits the session with a task for each member.
Init ==
    /\ method \in Methods
    /\ status = "collecting" /\ result = None
    /\ expected = Cardinality(Coworkers)
    /\ tasks = [m \in Coworkers |-> "pending"]
    /\ answer = [m \in Coworkers |-> NoVote] /\ votes = [m \in Coworkers |-> NoVote]
    /\ due = [m \in Coworkers |-> 0]
    /\ deliveries = [m \in Coworkers |-> 0] /\ questions = 0 /\ edits = 0 /\ faults = 0

-----------------------------------------------------------------------------
(* The voting tasks, as TaskEngine drives them.                            *)

TaskClaimed(m) ==
    /\ tasks[m] \in {"pending", "needs_approval"}
    /\ deliveries[m] < MaxDeliveries
    /\ deliveries' = [deliveries EXCEPT ![m] = @ + 1]
    /\ tasks' = [tasks EXCEPT ![m] = "in_progress"]
    /\ UNCHANGED <<session, expected, answer, votes, due, questions, edits, faults>>

\* The delivery ends in a result, a failure or a pause; the worker then calls
\* record_consensus_vote_from_task.
TaskReports(m) ==
    /\ tasks[m] = "in_progress"
    /\ due' = [due EXCEPT ![m] = @ + 1]
    /\ \/ /\ tasks' = [tasks EXCEPT ![m] = "completed"]
          /\ \E vote \in Vote : answer' = [answer EXCEPT ![m] = vote]
          /\ UNCHANGED questions
       \/ /\ \E state \in {"failed", "blocked", "needs_approval"} :
                tasks' = [tasks EXCEPT ![m] = state]
          /\ UNCHANGED <<answer, questions>>
       \/ /\ questions < MaxQuestions
          /\ questions' = questions + 1
          /\ tasks' = [tasks EXCEPT ![m] = "needs_input"]
          /\ UNCHANGED answer
    /\ UNCHANGED <<session, expected, votes, deliveries, edits, faults>>

(* A member answers the question of a paused task.                         *)
TaskAnswered(m) ==
    /\ tasks[m] = "needs_input"
    /\ tasks' = [tasks EXCEPT ![m] = "pending"]
    /\ UNCHANGED <<session, expected, answer, votes, due, bounds>>

(* A delivery that finds its task ended, or at work, records once more.    *)
RedundantDelivery(m) ==
    /\ tasks[m] \notin {"pending", "needs_approval"}
    /\ deliveries[m] < MaxDeliveries
    /\ deliveries' = [deliveries EXCEPT ![m] = @ + 1]
    /\ due' = [due EXCEPT ![m] = @ + 1]
    /\ UNCHANGED <<session, expected, tasks, answer, votes, questions, edits, faults>>

-----------------------------------------------------------------------------
Finished == {m \in Coworkers : tasks[m] \notin Unfinished}

(* finalize_consensus, on the votes it finds in the same transaction.      *)
Finalize(ballots) ==
    IF Cardinality(Finished) < expected THEN UNCHANGED session
    ELSE /\ status' = IF Winner(method, expected, ballots) = None THEN "deadlocked" ELSE "decided"
         /\ result' = Winner(method, expected, ballots)
         /\ UNCHANGED method

\* Mutant of Record: the votes are counted before this one is saved.
RecordLate(m) ==
    /\ due[m] > 0 /\ tasks[m] = "completed"
    /\ due' = [due EXCEPT ![m] = @ - 1]
    /\ votes' = IF answer[m].option = None THEN votes
                ELSE [votes EXCEPT ![m] = answer[m]]
    /\ Finalize(votes)
    /\ UNCHANGED <<expected, tasks, answer, bounds>>

\* Mutant of Record: an answer without an option is not followed by a count.
RecordVotesOnly(m) ==
    /\ due[m] > 0 /\ tasks[m] = "completed"
    /\ due' = [due EXCEPT ![m] = @ - 1]
    /\ IF answer[m].option = None THEN UNCHANGED <<votes, session>>
       ELSE /\ votes' = [votes EXCEPT ![m] = answer[m]]
            /\ Finalize(votes')
    /\ UNCHANGED <<expected, tasks, answer, bounds>>

(* record_consensus_vote_from_task: only a completed task is looked at; an *)
(* answer without an option leaves the votes alone.                        *)
Record(m) ==
    /\ due[m] > 0 /\ tasks[m] = "completed"
    /\ due' = [due EXCEPT ![m] = @ - 1]
    /\ votes' = IF answer[m].option = None THEN votes
                ELSE [votes EXCEPT ![m] = answer[m]]
    /\ Finalize(votes')
    /\ UNCHANGED <<expected, tasks, answer, bounds>>

RecordNothing(m) ==
    /\ due[m] > 0 /\ tasks[m] # "completed"
    /\ due' = [due EXCEPT ![m] = @ - 1]
    /\ UNCHANGED <<session, expected, tasks, answer, votes, bounds>>

(* The process dies between the report and the vote.                       *)
Crash(m) ==
    /\ faults < MaxFaults
    /\ due[m] > 0
    /\ due' = [due EXCEPT ![m] = @ - 1]
    /\ faults' = faults + 1
    /\ UNCHANGED <<session, expected, tasks, answer, votes, deliveries, questions, edits>>

(* new_agent_team_version: the session counts the members of the version   *)
(* that is current when it finalizes.                                      *)
EditTeam ==
    /\ edits < MaxEdits
    /\ expected' \in 1..Cardinality(Coworkers) + 1 \ {expected}
    /\ edits' = edits + 1
    /\ UNCHANGED <<session, tasks, answer, votes, due, deliveries, questions, faults>>

Next ==
    \/ \E m \in Coworkers :
          \/ TaskClaimed(m) \/ TaskReports(m) \/ TaskAnswered(m) \/ RedundantDelivery(m)
          \/ Record(m) \/ RecordNothing(m) \/ Crash(m)
    \/ EditTeam

Spec == Init /\ [][Next]_vars

(* Deliveries are claimed, end and record as long as workers live.         *)
LiveSpec ==
    /\ Spec
    /\ \A m \in Coworkers :
          WF_vars(TaskClaimed(m)) /\ WF_vars(TaskReports(m)) /\ WF_vars(Record(m) \/ RecordNothing(m))

-----------------------------------------------------------------------------
(***************************************************************************)
(* Properties.                                                             *)
(***************************************************************************)

TypeOK ==
    /\ method \in AllMethods
    /\ status \in {"collecting", "decided", "deadlocked"}
    /\ result \in Options \cup {None} /\ expected \in Nat
    /\ tasks \in [Coworkers -> TaskStates]
    /\ answer \in [Coworkers -> Vote] /\ votes \in [Coworkers -> Vote]
    /\ due \in [Coworkers -> Nat] /\ deliveries \in [Coworkers -> Nat]
    /\ questions \in Nat /\ edits \in Nat /\ faults \in Nat

\* A new version of the team changes the number the rule counts against, and a
\* task that asks a question counts as finished before it votes.
Undisturbed == edits = 0 /\ questions = 0

\* The result is what the rule makes of the votes recorded, whatever their
\* order, the duplicates of their deliveries and the member that came last.
ResultIsTheRule ==
    status # "collecting" /\ Undisturbed =>
        /\ result = Winner(method, expected, votes)
        /\ status = "decided" <=> result # None

\* When every member's task completes, the session is decided or deadlocked.
CompletedSessionEnds ==
    (\A m \in Coworkers : tasks[m] = "completed")
        ~> (status # "collecting" \/ faults > 0 \/ edits > 0)

=============================================================================
