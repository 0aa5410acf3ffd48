---------------------------- MODULE MonitorCheck ----------------------------
(***************************************************************************)
(* A website monitor and its checks (research.services and the monitor     *)
(* endpoints of research.views).  A scheduled scan starts a check once per *)
(* period; members start others and edit the monitor, writing back the     *)
(* whole row they read.  A check reads the site, compares it with the      *)
(* latest snapshot, stores one of its own and announces a change.          *)
(*                                                                         *)
(* Time is counted in periods of the monitor (a day or a week).  A page is *)
(* a version of the site; whether a difference is meaningful is open.      *)
(***************************************************************************)
EXTENDS Integers, FiniteSets

CONSTANTS
    Checks,         \* WebsiteMonitorRun rows
    Workers, Scans, \* Celery workers; runs of the scheduled scan
    Versions,       \* versions of the site
    NoPage,
    Limits          \* each bounds a behaviour: the periods that pass, the edits, the changes
                    \* of the site, the retries, the repeated deliveries and the lost workers

MonitorAssumption ==
    /\ NoPage \notin Versions
    /\ Limits \subseteq [periods : Nat, edits : Nat, changes : Nat,
                    retries : Nat, repeats : Nat, deaths : Nat]

VARIABLES
    now, site,
    (* The monitor's row. *)
    exists, enabled, nextRun,
    snapshot,       \* the text of the latest snapshot
    (* Checks and their deliveries. *)
    check,          \* check[c]: its status, "none" before it is created
    jobs,           \* jobs[c][r]: deliveries of check c on their r-th retry
    scan,           \* scan[s]: the time at which s locked the monitor, or -1
    edit,           \* the PATCH request that is being served
    (* Workers. *)
    at, doing, tryNo,
    page,           \* page[w]: what w read, NoPage before
    previous,       \* previous[w]: the snapshot it is compared with
    (* History. *)
    limit,          \* the bounds of this behaviour
    edits, changes, \* edits made, and changes of the site
    scanned,        \* checks the scans created
    setBack,        \* edits that put an older next_run_at back
    known,          \* the content the user was last told of, or was not worth telling
    together, late, repeats, killed

monitor == <<exists, enabled, nextRun, snapshot>>
checking == <<check, jobs>>
crew == <<at, doing, tryNo, page, previous>>
past == <<limit, edits, changes, scanned, setBack, known, together, late, repeats, killed>>
vars == <<now, site, monitor, checking, scan, edit, crew, past>>

Attempts == 0..limit.retries   \* max_retries of the task
CheckStatuses == {"none", "queued", "running", "completed", "failed", "gone"}
Steps == {"idle", "read", "compare", "store", "record", "announce"}
NoEdit == [nextRun |-> -1, enabled |-> FALSE]

Init ==
    /\ limit \in Limits /\ edits = 0 /\ changes = 0
    /\ now = 0 /\ site \in Versions
    /\ exists = TRUE /\ enabled = TRUE /\ nextRun = 1 /\ snapshot = NoPage
    /\ check = [c \in Checks |-> "none"] /\ jobs = [c \in Checks |-> [r \in Attempts |-> 0]]
    /\ scan = [s \in Scans |-> -1] /\ edit = NoEdit
    /\ at = [w \in Workers |-> "idle"] /\ doing = [w \in Workers |-> CHOOSE c \in Checks : TRUE]
    /\ tryNo = [w \in Workers |-> 0]
    /\ page = [w \in Workers |-> NoPage] /\ previous = [w \in Workers |-> NoPage]
    /\ scanned = 0 /\ setBack = 0 /\ known = NoPage
    /\ together = FALSE /\ late = 0 /\ repeats = 0 /\ killed = 0

(* A period passes; the site changes.                                      *)
Tick ==
    /\ now < limit.periods
    /\ now' = now + 1
    /\ UNCHANGED <<site, monitor, checking, scan, edit, crew, past>>

ChangeSite ==
    /\ changes < limit.changes /\ changes' = changes + 1
    /\ site' \in Versions \ {site}
    /\ UNCHANGED <<now, monitor, checking, scan, edit, crew, limit, edits, scanned, setBack,
                   known, together, late, repeats, killed>>

-----------------------------------------------------------------------------
Locked == \E s \in Scans : scan[s] >= 0

\* A new check is queued; its job is sent after the commit.
Queue(c) ==
    /\ check[c] = "none"
    /\ check' = [check EXCEPT ![c] = "queued"]
    /\ jobs' = [jobs EXCEPT ![c][0] = @ + 1]

(* evaluate_due_monitors: a due monitor is locked, unless another scan has *)
(* it; then it moves to its next time, never one that has passed, and gets *)
(* a check.                                                                *)
LockDue(s) ==
    /\ ~Locked
    /\ exists /\ enabled /\ nextRun <= now
    /\ scan' = [scan EXCEPT ![s] = now]
    /\ UNCHANGED <<now, site, monitor, checking, edit, crew, past>>

StartDue(s) ==
    /\ scan[s] >= 0
    /\ nextRun' = IF nextRun > scan[s] THEN nextRun + 1 ELSE scan[s] + 1
    /\ \E c \in Checks : Queue(c)
    /\ scan' = [scan EXCEPT ![s] = -1]
    /\ scanned' = scanned + 1
    /\ UNCHANGED <<now, site, exists, enabled, snapshot, edit, crew, limit, edits, changes,
                   setBack, known, together, late, repeats, killed>>

(* WebsiteMonitorDetailView.patch: a member reads the row, and saves all   *)
(* of it later, which brings a deleted monitor back.                       *)
ReadMonitor ==
    /\ edit = NoEdit /\ exists
    /\ edits < limit.edits /\ edits' = edits + 1
    /\ \E on \in BOOLEAN : edit' = [nextRun |-> nextRun, enabled |-> on]
    /\ UNCHANGED <<now, site, monitor, checking, scan, crew, limit, changes, scanned, setBack,
                   known, together, late, repeats, killed>>

SaveMonitor ==
    /\ edit # NoEdit /\ ~Locked
    /\ exists' = TRUE /\ enabled' = edit.enabled /\ nextRun' = edit.nextRun
    /\ edit' = NoEdit
    /\ setBack' = IF edit.nextRun < nextRun THEN setBack + 1 ELSE setBack
    /\ UNCHANGED <<now, site, snapshot, checking, scan, crew, limit, edits, changes, scanned,
                   known, together, late, repeats, killed>>

(* The monitor is deleted, and its checks and snapshots with it.           *)
DeleteMonitor ==
    /\ exists /\ ~Locked
    /\ exists' = FALSE /\ snapshot' = NoPage /\ known' = NoPage
    /\ check' = [c \in Checks |-> IF check[c] = "none" THEN "none" ELSE "gone"]
    /\ UNCHANGED <<now, site, enabled, nextRun, jobs, scan, edit, crew, limit, edits, changes,
                   scanned, setBack, together, late, repeats, killed>>

(* WebsiteMonitorRunNowView.post: a check at once.                         *)
RunNow ==
    /\ exists
    /\ \E c \in Checks : Queue(c)
    /\ UNCHANGED <<now, site, monitor, scan, edit, crew, past>>

-----------------------------------------------------------------------------
Go(w, step) == at' = [at EXCEPT ![w] = step]

Idle(w) ==
    /\ Go(w, "idle")
    /\ tryNo' = [tryNo EXCEPT ![w] = 0]
    /\ doing' = [doing EXCEPT ![w] = CHOOSE c \in Checks : TRUE]
    /\ page' = [page EXCEPT ![w] = NoPage] /\ previous' = [previous EXCEPT ![w] = NoPage]

\* What is left of the queues when a delivery is taken or taken and retried.
Without(c, r) == [jobs EXCEPT ![c][r] = @ - 1]
Retried(c, r) == IF r < limit.retries THEN [jobs EXCEPT ![c][r] = @ - 1, ![c][r + 1] = @ + 1]
                                   ELSE Without(c, r)

(* execute_monitor_run: a queued check is claimed under its lock.          *)
Claim(w) ==
    /\ at[w] = "idle"
    /\ \E c \in Checks, r \in Attempts :
          /\ jobs[c][r] > 0
          /\ check[c] = "queued"
          /\ check' = [check EXCEPT ![c] = "running"]
          /\ doing' = [doing EXCEPT ![w] = c] /\ tryNo' = [tryNo EXCEPT ![w] = r]
          /\ jobs' = Without(c, r)
    /\ Go(w, "read")
    /\ together' = (together \/ \E v \in Workers : at[v] # "idle")
    /\ UNCHANGED <<now, site, monitor, scan, edit, page, previous, limit, edits, changes,
                   scanned, setBack, known, late, repeats, killed>>

(* A check that is not queued is left alone; one that was deleted is       *)
(* looked for until the retries are used up.                               *)
TurnAway(w) ==
    /\ at[w] = "idle"
    /\ \E c \in Checks, r \in Attempts :
          /\ jobs[c][r] > 0
          /\ check[c] # "queued"
          /\ jobs' = IF check[c] = "gone" THEN Retried(c, r) ELSE Without(c, r)
    /\ UNCHANGED <<now, site, monitor, check, scan, edit, crew, past>>

ReadSite(w) ==
    /\ at[w] = "read"
    /\ page' = [page EXCEPT ![w] = site]
    /\ Go(w, "compare")
    /\ UNCHANGED <<now, site, monitor, checking, scan, edit, doing, tryNo, previous, past>>

ReadPrevious(w) ==
    /\ at[w] = "compare"
    /\ previous' = [previous EXCEPT ![w] = snapshot]
    /\ Go(w, "store")
    /\ UNCHANGED <<now, site, monitor, checking, scan, edit, doing, tryNo, page, past>>

Differs(w) == previous[w] \notin {NoPage, page[w]}

\* Mutant of StoreSnapshot: the comparison is made with the new snapshot.
StoreSnapshotFirst(w) ==
    /\ at[w] = "store" /\ check[doing[w]] # "gone"
    /\ snapshot' = page[w]
    /\ previous' = [previous EXCEPT ![w] = page[w]]
    /\ known' = IF previous[w] = NoPage THEN page[w] ELSE known
    /\ Go(w, "record")
    /\ UNCHANGED <<now, site, exists, enabled, nextRun, checking, scan, edit, doing, tryNo, page,
                   limit, edits, changes, scanned, setBack, together, late, repeats, killed>>

(* The snapshot is stored before the check's result is.  A first snapshot  *)
(* is a baseline, and a change that is not meaningful is not worth telling.*)
StoreSnapshot(w) ==
    /\ at[w] = "store" /\ check[doing[w]] # "gone"
    /\ snapshot' = page[w]
    /\ \E meaningful \in BOOLEAN :
          LET tell == Differs(w) /\ meaningful IN
          /\ previous' = [previous EXCEPT ![w] = IF tell THEN @ ELSE NoPage]
          /\ known' = IF tell \/ previous[w] = page[w] THEN known ELSE page[w]
    /\ Go(w, "record")
    /\ UNCHANGED <<now, site, exists, enabled, nextRun, checking, scan, edit, doing, tryNo, page,
                   limit, edits, changes, scanned, setBack, together, late, repeats, killed>>

Record(w) ==
    /\ at[w] = "record" /\ check[doing[w]] # "gone"
    /\ check' = [check EXCEPT ![doing[w]] = "completed"]
    /\ Go(w, "announce")
    /\ UNCHANGED <<now, site, monitor, jobs, scan, edit, doing, tryNo, page, previous, past>>

Announce(w) ==
    /\ at[w] = "announce"
    /\ known' = IF Differs(w) /\ check[doing[w]] # "gone" THEN page[w] ELSE known
    /\ Idle(w)
    /\ UNCHANGED <<now, site, monitor, checking, scan, edit, limit, edits, changes, scanned,
                   setBack, together, late, repeats, killed>>

\* Mutant of Break: a check that will be retried is not queued again.
BreakRunning(w) ==
    /\ at[w] # "idle"
    /\ LET c == doing[w]  r == tryNo[w] IN
       /\ check' = IF r < limit.retries THEN check ELSE [check EXCEPT ![c] = "failed"]
       /\ jobs' = IF r < limit.retries THEN [jobs EXCEPT ![c][r + 1] = @ + 1] ELSE jobs
    /\ late' = IF at[w] \in {"record", "announce"} THEN late + 1 ELSE late
    /\ Idle(w)
    /\ UNCHANGED <<now, site, monitor, scan, edit, limit, edits, changes, scanned, setBack,
                   known, together, repeats, killed>>

(* Any exception: the check is queued for the next try, or failed on the   *)
(* last one, which is announced.  A deleted one cannot be saved.           *)
Break(w) ==
    /\ at[w] # "idle"
    /\ LET c == doing[w]  r == tryNo[w] IN
       /\ check' = [check EXCEPT ![c] = IF @ = "gone" THEN "gone"
                                        ELSE IF r < limit.retries THEN "queued" ELSE "failed"]
       /\ jobs' = IF r < limit.retries THEN [jobs EXCEPT ![c][r + 1] = @ + 1] ELSE jobs
    /\ late' = IF at[w] \in {"record", "announce"} THEN late + 1 ELSE late
    /\ Idle(w)
    /\ UNCHANGED <<now, site, monitor, scan, edit, limit, edits, changes, scanned, setBack,
                   known, together, repeats, killed>>

(* A worker dies: the acknowledged delivery is gone, the check stays       *)
(* running, and no scan takes it up.                                       *)
Kill(w) ==
    /\ at[w] # "idle" /\ killed < limit.deaths
    /\ killed' = killed + 1
    /\ Idle(w)
    /\ UNCHANGED <<now, site, monitor, checking, scan, edit, limit, edits, changes, scanned,
                   setBack, known, together, late, repeats>>

Repeat ==
    /\ repeats < limit.repeats
    /\ repeats' = repeats + 1
    /\ \E c \in Checks, r \in Attempts :
          /\ jobs[c][r] > 0 \/ \E w \in Workers : at[w] # "idle" /\ doing[w] = c /\ tryNo[w] = r
          /\ jobs' = [jobs EXCEPT ![c][r] = @ + 1]
    /\ UNCHANGED <<now, site, monitor, check, scan, edit, crew, limit, edits, changes, scanned,
                   setBack, known, together, late, killed>>

CheckStep(w) ==
    \/ Claim(w) \/ TurnAway(w) \/ ReadSite(w) \/ ReadPrevious(w) \/ StoreSnapshot(w) \/ Record(w)
    \/ Announce(w) \/ Break(w)

Next ==
    \/ Tick \/ ChangeSite \/ ReadMonitor \/ SaveMonitor \/ DeleteMonitor \/ RunNow \/ Repeat
    \/ \E s \in Scans : LockDue(s) \/ StartDue(s)
    \/ \E w \in Workers : CheckStep(w) \/ Kill(w)

Spec == Init /\ [][Next]_vars

(* Workers go on: a site answers or times out.                             *)
LiveSpec == Spec /\ \A w \in Workers : WF_vars(CheckStep(w))

-----------------------------------------------------------------------------
TypeOK ==
    /\ now \in 0..limit.periods /\ site \in Versions
    /\ {exists, enabled, together} \subseteq BOOLEAN /\ nextRun \in Nat
    /\ snapshot \in Versions \cup {NoPage} /\ known \in Versions \cup {NoPage}
    /\ check \in [Checks -> CheckStatuses] /\ jobs \in [Checks -> [Attempts -> Nat]]
    /\ scan \in [Scans -> -1..limit.periods]
    /\ edit = NoEdit \/ edit \in [nextRun : Nat, enabled : BOOLEAN]
    /\ at \in [Workers -> Steps] /\ doing \in [Workers -> Checks]
    /\ tryNo \in [Workers -> Attempts]
    /\ page \in [Workers -> Versions \cup {NoPage}]
    /\ previous \in [Workers -> Versions \cup {NoPage}]
    /\ {edits, changes, scanned, setBack, late, repeats, killed} \subseteq Nat

\* Whatever scans overlap or come late, a period brings at most one scheduled
\* check, but for an edit that put an older time back.
OncePerPeriod == scanned <= now + setBack

\* Once its workers are at rest, the user has been told of the content that the
\* next check will compare with, unless two checks ran at once, or one failed or
\* was lost after it stored its snapshot.
ChangeTold ==
    (\A w \in Workers : at[w] = "idle") /\ exists /\ ~together /\ late = 0 /\ killed = 0
        => known = snapshot

=============================================================================
