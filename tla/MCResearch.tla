----------------------------- MODULE MCResearch -----------------------------
(***************************************************************************)
(* A small instance of research runs and website monitors.  They share no  *)
(* variable; `focus` says which of the two a behaviour is about.           *)
(***************************************************************************)
EXTENDS ResearchRun

CONSTANTS Checks, Scans, Versions, Limits, NoPage

VARIABLES
    focus,
    now, site, exists, enabled, nextRun, snapshot, check, jobs, scan, edit,
    at, doing, tryNo, page, previous,
    limit, edits, changes, scanned, setBack, known, together, late, repeats, killed

\* A run that is retried and may lose a worker; or two workers in one run.
MCBounds ==
    { [sources |-> 2, retries |-> 1, duplicates |-> 0, deaths |-> 1],
      [sources |-> 1, retries |-> 0, duplicates |-> 1, deaths |-> 0] }

\* The schedule with an edit; or checks with retries and a repeated delivery, or
\* a lost worker.
MCLimits ==
    { [periods |-> 2, edits |-> 1, changes |-> 0, retries |-> 0, repeats |-> 0, deaths |-> 0],
      [periods |-> 0, edits |-> 0, changes |-> 1, retries |-> 1, repeats |-> 1, deaths |-> 0],
      [periods |-> 0, edits |-> 0, changes |-> 1, retries |-> 1, repeats |-> 0, deaths |-> 1] }

Monitor == INSTANCE MonitorCheck

ASSUME MonitorAssumption == Monitor!MonitorAssumption

monitorvars == <<now, site, exists, enabled, nextRun, snapshot, check, jobs, scan, edit,
                 at, doing, tryNo, page, previous, limit, edits, changes, scanned, setBack,
                 known, together, late, repeats, killed>>
mcvars == <<focus, vars, monitorvars>>

\* The module that is not in focus begins in one of its initial states.
MCInit ==
    /\ focus \in {"research", "monitor"}
    /\ Init /\ Monitor!Init
    /\ focus = "research" => limit.repeats = 1 /\ site = CHOOSE v \in Versions : TRUE
    /\ focus = "monitor" => bound.retries = 0

OnResearch == focus = "research" /\ UNCHANGED <<focus, monitorvars>>
OnMonitor == focus = "monitor" /\ UNCHANGED <<focus, vars>>

MCNext == (OnResearch /\ Next) \/ (OnMonitor /\ Monitor!Next)

MCSpec ==
    /\ MCInit /\ [][MCNext]_mcvars
    /\ \A w \in Workers : WF_mcvars( \/ WorkerStep(w) /\ OnResearch
                                     \/ Monitor!CheckStep(w) /\ OnMonitor )

\* The type invariants of both modules.
MCTypeOK == TypeOK /\ Monitor!TypeOK

\* Whatever scans overlap or come late (evaluate_due_monitors), a period brings
\* at most one scheduled check, but for an edit that put an older time back; and
\* once its workers are at rest, the user has been told of the content that the
\* next check will compare with (execute_monitor_run), unless two checks ran at
\* once, or one failed or was lost after it stored its snapshot.
ChangeToldOnce == Monitor!OncePerPeriod /\ Monitor!ChangeTold

\* Without a lost worker, a research run and every queued check come to an end.
WorkEnds ==
    <>[]( /\ focus = "research" => status \in Ends \/ deaths > 0
          /\ \A c \in Checks : check[c] \notin {"queued", "running"} \/ killed > 0 )
=============================================================================
