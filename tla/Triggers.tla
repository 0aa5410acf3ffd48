------------------------------ MODULE Triggers ------------------------------
(***************************************************************************)
(* Scheduled workflow triggers (core.v2_engine.evaluate_due_triggers).     *)
(* Every minute a worker scans for due triggers: it fixes the time, locks  *)
(* the due rows, starts a run for each and moves the trigger to its next   *)
(* instant, all in one transaction; the runs are handed to the workers     *)
(* after the commit.  Scans overlap, and their processes die.  A cron      *)
(* expression is a period.  Runs started by hand or by a webhook touch no  *)
(* trigger and are left out.                                               *)
(***************************************************************************)
EXTENDS Integers, Sequences

CONSTANTS
    TriggerIds, Scans,
    Period,         \* Period[t]: minutes between the instants of trigger t
    MaxClock, MaxCrashes   \* bounds

TriggerAssumption ==
    Period \in [TriggerIds -> Nat \ {0}] /\ {MaxClock, MaxCrashes} \subseteq Nat

VARIABLES
    clock,
    workflows,      \* the triggers whose workflow was created
    nextRun,        \* nextRun[t]: next_run_at, 0 before the trigger exists
    served,         \* served[t]: the instants runs were started for, in order
    scan,           \* scan[s]: what scan s does next
    now,            \* now[s]: the time scan s has fixed
    held,           \* held[s]: the rows it has locked
    unpublished,    \* <<t, instant>>: runs it has committed and not handed over
    started,        \* <<t, instant>>: runs that were handed to a worker
    lost,           \* <<t, instant>>: runs whose scan died before
    crashes

triggervars ==
    <<clock, workflows, nextRun, served, scan, now, held, unpublished, started, lost, crashes>>

Init ==
    /\ clock = 0 /\ crashes = 0 /\ workflows = {}
    /\ nextRun = [t \in TriggerIds |-> 0] /\ served = [t \in TriggerIds |-> <<>>]
    /\ scan = [s \in Scans |-> "idle"] /\ now = [s \in Scans |-> 0]
    /\ held = [s \in Scans |-> {}] /\ unpublished = [s \in Scans |-> {}]
    /\ started = {} /\ lost = {}

\* croniter.get_next: the first instant after the time given.
NextAfter(t, time) == (time \div Period[t] + 1) * Period[t]

Tick ==
    /\ clock < MaxClock /\ clock' = clock + 1
    /\ UNCHANGED <<workflows, nextRun, served, scan, now, held, unpublished, started, lost, crashes>>

CreateWorkflow(t) ==
    /\ t \notin workflows /\ workflows' = workflows \union {t}
    /\ UNCHANGED <<clock, nextRun, served, scan, now, held, unpublished, started, lost, crashes>>

(* WorkflowTriggerCreateView.post.                                         *)
CreateTrigger(t) ==
    /\ t \in workflows /\ nextRun[t] = 0
    /\ nextRun' = [nextRun EXCEPT ![t] = NextAfter(t, clock)]
    /\ UNCHANGED <<clock, workflows, served, scan, now, held, unpublished, started, lost, crashes>>

(* orchestrate_schedule_workflow: a cron expression that is not valid, or  *)
(* is not given, leaves the workflow without its trigger.                  *)
ScheduleWorkflow(t) ==
    /\ t \notin workflows /\ workflows' = workflows \union {t}
    /\ nextRun' \in {nextRun, [nextRun EXCEPT ![t] = NextAfter(t, clock)]}
    /\ UNCHANGED <<clock, served, scan, now, held, unpublished, started, lost, crashes>>

Begin(s) ==
    /\ scan[s] = "idle"
    /\ \E t \in TriggerIds : nextRun[t] \in 1..clock    \* a scan with nothing due does nothing
    /\ scan' = [scan EXCEPT ![s] = "lock"] /\ now' = [now EXCEPT ![s] = clock]
    /\ UNCHANGED <<clock, workflows, nextRun, served, held, unpublished, started, lost, crashes>>

\* Mutant of Due: a trigger is due only after its instant.
DueAfter(s) == {t \in TriggerIds : nextRun[t] # 0 /\ nextRun[t] < now[s]}

\* The rows the scan asks for, by the time it has fixed.
Due(s) == {t \in TriggerIds : nextRun[t] # 0 /\ nextRun[t] <= now[s]}

\* Mutant of Locked: the rows are read without a lock.
LockedNever(s) == FALSE

\* Another scan holds one of the rows: the query waits, and looks again.
Locked(s) == \E q \in Scans \ {s} : held[q] \intersect Due(s) # {}

Lock(s) ==
    /\ scan[s] = "lock" /\ ~Locked(s)
    /\ held' = [held EXCEPT ![s] = Due(s)]
    /\ scan' = [scan EXCEPT ![s] = IF Due(s) = {} THEN "idle" ELSE "commit"]
    /\ UNCHANGED <<clock, workflows, nextRun, served, now, unpublished, started, lost, crashes>>

(* One run for each trigger, however many instants have passed.            *)
Commit(s) ==
    /\ scan[s] = "commit"
    /\ served' = [t \in TriggerIds |->
          IF t \in held[s] THEN Append(served[t], nextRun[t]) ELSE served[t]]
    /\ nextRun' = [t \in TriggerIds |->
          IF t \in held[s] THEN NextAfter(t, now[s]) ELSE nextRun[t]]
    /\ unpublished' = [unpublished EXCEPT ![s] = {<<t, nextRun[t]>> : t \in held[s]}]
    /\ held' = [held EXCEPT ![s] = {}]
    /\ scan' = [scan EXCEPT ![s] = "publish"]
    /\ UNCHANGED <<clock, workflows, now, started, lost, crashes>>

(* transaction.on_commit: the runs are handed over one by one.             *)
Publish(s) ==
    /\ scan[s] = "publish"
    /\ \E run \in unpublished[s] :
          /\ started' = started \union {run}
          /\ unpublished' = [unpublished EXCEPT ![s] = @ \ {run}]
          /\ scan' = [scan EXCEPT ![s] = IF unpublished'[s] = {} THEN "idle" ELSE "publish"]
    /\ UNCHANGED <<clock, workflows, nextRun, served, now, held, lost, crashes>>

(* The worker dies or the broker is down: the transaction is rolled back,  *)
(* or the runs that were not handed over stay pending.                     *)
Crash(s) ==
    /\ scan[s] # "idle" /\ crashes < MaxCrashes /\ crashes' = crashes + 1
    /\ lost' = lost \union unpublished[s]
    /\ unpublished' = [unpublished EXCEPT ![s] = {}] /\ held' = [held EXCEPT ![s] = {}]
    /\ scan' = [scan EXCEPT ![s] = "idle"]
    /\ UNCHANGED <<clock, workflows, nextRun, served, now, started>>

ScanStep(s) == Begin(s) \/ Lock(s) \/ Commit(s) \/ Publish(s)

Next ==
    \/ Tick
    \/ \E t \in TriggerIds : CreateWorkflow(t) \/ CreateTrigger(t) \/ ScheduleWorkflow(t)
    \/ \E s \in Scans : ScanStep(s) \/ Crash(s)

Spec == Init /\ [][Next]_triggervars

(* CELERY_BEAT_SCHEDULE: a scan every minute.                              *)
LiveSpec == Spec /\ WF_triggervars(Tick) /\ \A s \in Scans : WF_triggervars(ScanStep(s))
-----------------------------------------------------------------------------
Runs == TriggerIds \X (1..MaxClock)

TypeOK ==
    /\ clock \in 0..MaxClock /\ workflows \subseteq TriggerIds /\ crashes \in 0..MaxCrashes
    /\ nextRun \in [TriggerIds -> Nat] /\ served \in [TriggerIds -> Seq(1..MaxClock)]
    /\ scan \in [Scans -> {"idle", "lock", "commit", "publish"}]
    /\ now \in [Scans -> 0..MaxClock] /\ held \in [Scans -> SUBSET TriggerIds]
    /\ unpublished \in [Scans -> SUBSET Runs] /\ {started, lost} \subseteq SUBSET Runs

\* However scans overlap and wherever they die, no instant of a schedule is served
\* twice, none before its time, and no run is handed over that was not committed
\* (evaluate_due_triggers).
OneRunPerDue ==
    /\ \A t \in TriggerIds : \A i \in DOMAIN served[t] :
          /\ served[t][i] <= clock /\ served[t][i] < nextRun[t]
          /\ i > 1 => served[t][i - 1] < served[t][i]
    /\ \A run \in started \union lost : \E i \in DOMAIN served[run[1]] : served[run[1]][i] = run[2]

\* Every trigger is served and moves on, and every run is handed over but for those
\* whose scan died (evaluate_due_triggers).
TriggersMoveOn ==
    <>[]( \A t \in TriggerIds :
            /\ nextRun[t] \notin 1..clock
            /\ \A i \in DOMAIN served[t] : <<t, served[t][i]>> \in started \union lost )
=============================================================================
