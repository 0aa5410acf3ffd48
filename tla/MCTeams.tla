------------------------------ MODULE MCTeams -------------------------------
(***************************************************************************)
(* A small instance of what coworkers do together: the design of a team, a *)
(* team's run over its members' tasks, and a consensus session over the    *)
(* members' votes.  The three share no variable; `focus` says which a      *)
(* behaviour is about.                                                     *)
(***************************************************************************)
EXTENDS ConsensusSession

CONSTANTS
    Patterns, MaxMembers, Workers, MaxReturns,
    Unusable, Designed, Catalog, Safe, Companions, Orchestration, MaxTeamSize, MaxChanges

VARIABLES
    focus,
    size, manager, pattern, runStatus, runResult, runTasks, jobs, pc, how, plan, found,
    returns, runFaults, runEdits,
    phase, design, changes, admin, full, coworkers, team

\* What a model may propose for a member: with a known role and tools, with none, with
\* names that are none, and with what only a manager is given.
MCDesigned ==
    { Unusable,
      [role |-> "manager", tools |-> {"web_search"}, codes |-> FALSE],
      [role |-> "manager", tools |-> {"create_task"}, codes |-> TRUE],
      [role |-> "researcher", tools |-> {}, codes |-> TRUE],
      [role |-> "custom", tools |-> {"abacus", "web_search"}, codes |-> FALSE],
      [role |-> "wizard", tools |-> {"abacus"}, codes |-> FALSE] }

D == INSTANCE TeamDesign WITH Members <- Designed

A == INSTANCE AgentTeamRun WITH
        status <- runStatus, result <- runResult, tasks <- runTasks,
        faults <- runFaults, edits <- runEdits

ASSUME TeamsAssumption == A!TeamAssumption /\ D!DesignAssumption

teamvars == <<size, manager, pattern, runStatus, runResult, runTasks, jobs, pc, how, plan, found,
              returns, runFaults, runEdits>>
designvars == <<phase, design, changes, admin, full, coworkers, team>>
mcvars == <<focus, vars, teamvars, designvars>>

\* The modules that are not in focus begin in one of their initial states.
MCInit ==
    /\ focus \in {"team", "session", "design"}
    /\ Init /\ A!Init /\ D!Init
    /\ focus # "session" => method = "majority"
    /\ focus # "design" => admin
    /\ focus # "team" => size = 1 /\ manager = 0 /\ pattern = "sequential"

OnTeam == focus = "team" /\ UNCHANGED <<focus, vars, designvars>>
OnSession == focus = "session" /\ UNCHANGED <<focus, teamvars, designvars>>
OnDesign == focus = "design" /\ UNCHANGED <<focus, vars, teamvars>>

MCNext == (OnTeam /\ A!Next) \/ (OnSession /\ Next) \/ (OnDesign /\ D!Next)

MCSpec ==
    /\ MCInit /\ [][MCNext]_mcvars
    /\ \A w \in Workers : WF_mcvars(A!EngineStep(w) /\ OnTeam)
    /\ \A m \in Coworkers :
          /\ WF_mcvars(TaskClaimed(m) /\ OnSession) /\ WF_mcvars(TaskReports(m) /\ OnSession)
          /\ WF_mcvars((Record(m) \/ RecordNothing(m)) /\ OnSession)

\* The type invariants of the three modules.
MCTypeOK == TypeOK /\ A!TypeOK /\ D!TypeOK

\* Each member of a team is asked once per phase, however often the run is polled
\* (advance_agent_team_run).
AskedOnce == A!AskedOnce

\* A run completes on the contributions of the whole team, the manager's synthesis
\* last (advance_agent_team_run).
CompletedIsWhole == A!CompletedIsWhole /\ A!SynthesisLast

\* A design that nobody changed is provisioned, and created whole (_sanitize,
\* provision_team).
DesignIsProvisioned == D!DesignIsProvisioned

\* A run ends or waits for a task, and a session whose voters complete ends
\* (execute_agent_team_run, record_consensus_vote_from_task).
WorkEnds == (focus = "team" => A!RunEnds) /\ CompletedSessionEnds
=============================================================================
