---------------------------- MODULE ResearchRun -----------------------------
(***************************************************************************)
(* One research run (research.services.execute_research_run): a delivery   *)
(* plans, reads sources, gathers evidence, compares it and writes the      *)
(* report, saving after each stage.  Only the start is locked.  A delivery *)
(* that fails leaves what it stored, and the next try builds on it; a      *)
(* cancellation is looked for at the start of every stage and before every *)
(* source.                                                                 *)
(*                                                                         *)
(* A page is its domain, what its text is worth and whether it fits the    *)
(* run's language, country and recency; queries and texts are left out,    *)
(* and so is what the model says: its failures have fallbacks of their own.*)
(***************************************************************************)
EXTENDS Integers, FiniteSets, SequencesExt

CONSTANTS
    Workers,
    Domains,
    Modes,          \* subset of {"deep", "crawl"}
    PolicyBlocked, PolicyTrusted,  \* the workspace's ResearchDomainPolicy
    AskedBlocked, AskedTrusted,    \* what the request adds
    MinimumSources,
    Bounds          \* each bounds a behaviour: the candidates that are read, the retries,
                    \* the repeated deliveries and the lost workers

ASSUME ResearchAssumption ==
    /\ PolicyBlocked \cup PolicyTrusted \cup AskedBlocked \cup AskedTrusted \subseteq Domains
    /\ Modes \subseteq {"deep", "crawl"}
    /\ MinimumSources \in Nat
    /\ Bounds \subseteq [sources : Nat, retries : Nat, duplicates : Nat, deaths : Nat]

VARIABLES
    (* The run's rows. *)
    status, controls, mode,
    planned,         \* the plan is stored
    sources,         \* ResearchSource rows, oldest first
    evidence,        \* ResearchEvidence rows: <<source, ordinal>>
    weak,            \* weak_evidence
    report,          \* the evidence the stored report was written from
    cancelRequested,
    (* Deliveries and workers. *)
    queue,           \* queue[r]: deliveries on their r-th retry
    pc, retry,
    left,            \* left[w]: candidates still to read
    mine,            \* mine[w]: the evidence worker w has in hand
    (* History. *)
    bound,           \* the bounds of this behaviour
    notified,        \* notifications of completion
    lateFailures,    \* failures after a completed report was saved
    overlapped,      \* two workers were in the run at the same time
    duplicates, deaths

stored == <<controls, mode, planned, sources, evidence, weak, report>>
row == <<status, cancelRequested>>
worker == <<pc, retry, left, mine>>
history == <<bound, notified, lateFailures, overlapped, duplicates, deaths>>
vars == <<stored, row, queue, worker, history>>

Tries == 0..bound.retries
Ends == {"completed", "failed", "cancelled"}
Statuses == Ends \cup {"queued", "planning", "searching", "reading", "comparing"}
Stages == {"idle", "plan", "search", "read", "evidence", "gather", "compare", "write",
           "stamp", "notify", "audit"}

\* A text is empty, a copy of a stored unique one, without a passage that is
\* found in it word for word, or usable.
Pages == [domain : Domains, text : {"empty", "copy", "unquotable", "usable"}, fits : BOOLEAN]

\* _merged_controls, for a workspace with a policy: both lists add up, and
\* blocked wins over trusted.
MergedControls ==
    LET blocked == PolicyBlocked \cup AskedBlocked
    IN  [blocked |-> blocked, trusted |-> (PolicyTrusted \cup AskedTrusted) \ blocked]

\* _store_source: the page has text, and neither its final address nor its
\* language, country or date is against the run's controls.
Accepted(page) ==
    page.text # "empty" /\ page.domain \notin controls.blocked /\ page.fits

\* The ResearchSource of a page; a copy is marked and gives no evidence.
Stored(page) == Append(sources, [domain |-> page.domain, usable |-> page.text = "usable"])

\* The next of the first n sources that evidence is taken from, if any.
NextSources(n, rows) ==
    {i \in 1..n : sources[i].usable /\ \A e \in rows : e[1] < i}

\* Independent domains among the sources of some evidence.
DomainsOf(rows) == {sources[e[1]].domain : e \in rows}

Init ==
    /\ status = "queued" /\ mode \in Modes /\ controls = MergedControls
    /\ planned = FALSE /\ sources = <<>> /\ evidence = {} /\ weak = FALSE /\ report = {}
    /\ cancelRequested = FALSE
    /\ bound \in Bounds
    /\ queue = [r \in Tries |-> IF r = 0 THEN 1 ELSE 0]
    /\ pc = [w \in Workers |-> "idle"] /\ retry = [w \in Workers |-> 0]
    /\ left = [w \in Workers |-> 0] /\ mine = [w \in Workers |-> {}]
    /\ notified = 0 /\ lateFailures = 0 /\ overlapped = FALSE
    /\ duplicates = 0 /\ deaths = 0

Goto(w, stage) == pc' = [pc EXCEPT ![w] = stage]

Leave(w) ==
    /\ Goto(w, "idle")
    /\ retry' = [retry EXCEPT ![w] = 0]
    /\ left' = [left EXCEPT ![w] = 0]
    /\ mine' = [mine EXCEPT ![w] = {}]

-----------------------------------------------------------------------------
\* Mutant of Begin: a completed run is worked on again.
BeginCompleted(w) ==
    /\ pc[w] = "idle"
    /\ \E r \in Tries :
          /\ queue[r] > 0
          /\ queue' = [queue EXCEPT ![r] = @ - 1]
          /\ IF status = "cancelled"
             THEN UNCHANGED <<pc, retry, overlapped>>
             ELSE /\ Goto(w, IF planned THEN "search" ELSE "plan")
                  /\ retry' = [retry EXCEPT ![w] = r]
                  /\ overlapped' = (overlapped \/ \E v \in Workers : pc[v] # "idle")
    /\ UNCHANGED <<stored, row, left, mine, bound, notified, lateFailures,
                   duplicates, deaths>>

(* A delivery is taken: a completed or cancelled run is left alone, a      *)
(* failed one is tried again, and so is one that another worker is in.     *)
Begin(w) ==
    /\ pc[w] = "idle"
    /\ \E r \in Tries :
          /\ queue[r] > 0
          /\ queue' = [queue EXCEPT ![r] = @ - 1]
          /\ IF status \in {"completed", "cancelled"}
             THEN UNCHANGED <<pc, retry, overlapped>>
             ELSE /\ Goto(w, IF planned THEN "search" ELSE "plan")
                  /\ retry' = [retry EXCEPT ![w] = r]
                  /\ overlapped' = (overlapped \/ \E v \in Workers : pc[v] # "idle")
    /\ UNCHANGED <<stored, row, left, mine, bound, notified, lateFailures,
                   duplicates, deaths>>

Checkpoints == {"plan", "search", "read", "evidence", "write"}

(* _check_cancelled: a requested cancellation ends the delivery.           *)
Cancelled(w) ==
    /\ cancelRequested
    /\ pc[w] \in Checkpoints /\ (pc[w] = "read" => mode = "deep" /\ left[w] > 0)
    /\ status' = "cancelled"
    /\ Leave(w)
    /\ UNCHANGED <<stored, cancelRequested, queue, history>>

Plan(w) ==
    /\ pc[w] = "plan" /\ ~cancelRequested
    /\ planned' = TRUE
    /\ status' = "planning"
    /\ Goto(w, "search")
    /\ UNCHANGED <<controls, mode, sources, evidence, weak, report, cancelRequested, queue,
                   retry, left, mine, history>>

(* Sources are looked for only by the first delivery to store one.  A      *)
(* search with fewer hits is one whose last candidates cannot be read.     *)
Search(w) ==
    /\ pc[w] = "search" /\ ~cancelRequested
    /\ IF sources # <<>>
       THEN Goto(w, "evidence") /\ UNCHANGED <<left, status>>
       ELSE /\ Goto(w, "read")
            /\ left' = [left EXCEPT ![w] = bound.sources]
            /\ status' = IF mode = "deep" THEN "searching" ELSE status
    /\ UNCHANGED <<stored, cancelRequested, queue, retry, mine, history>>

\* Mutant of ReadPage: the address that was asked for is checked, not the final one.
ReadPageRedirected(w) ==
    /\ pc[w] = "read" /\ left[w] > 0
    /\ mode = "deep" => ~cancelRequested
    /\ \E page \in Pages :
          sources' = IF page.text # "empty" /\ page.fits THEN Stored(page) ELSE sources
    /\ left' = [left EXCEPT ![w] = @ - 1]
    /\ UNCHANGED <<controls, mode, planned, evidence, weak, report, row, queue, pc, retry,
                   mine, history>>

(* The next candidate is read; what cannot be read, and what the controls  *)
(* do not accept, is passed over.                                          *)
ReadPage(w) ==
    /\ pc[w] = "read" /\ left[w] > 0
    /\ mode = "deep" => ~cancelRequested
    /\ \E page \in Pages :
          sources' = IF Accepted(page) THEN Stored(page) ELSE sources
    /\ left' = [left EXCEPT ![w] = @ - 1]
    /\ UNCHANGED <<controls, mode, planned, evidence, weak, report, row, queue, pc, retry,
                   mine, history>>

EndReading(w) ==
    /\ pc[w] = "read" /\ left[w] = 0
    /\ status' = "reading"
    /\ Goto(w, "evidence")
    /\ UNCHANGED <<stored, cancelRequested, queue, retry, left, mine, history>>

(* Evidence that is there is taken as it is, otherwise it is gathered from *)
(* the sources there are now.                                              *)
TakeEvidence(w) ==
    /\ pc[w] = "evidence" /\ ~cancelRequested
    /\ mine' = [mine EXCEPT ![w] = evidence]
    /\ left' = [left EXCEPT ![w] = IF evidence = {} THEN Len(sources) ELSE 0]
    /\ Goto(w, IF evidence = {} THEN "gather" ELSE "compare")
    /\ UNCHANGED <<stored, row, queue, retry, history>>

(* _evidence_for_sources: a row for each usable source, numbered from 1; a *)
(* row is refused when another worker has stored the same.                 *)
Gather(w) ==
    /\ pc[w] = "gather"
    /\ LET next == NextSources(left[w], mine[w]) IN
       IF next = {}
       THEN /\ Goto(w, "compare") /\ left' = [left EXCEPT ![w] = 0]
            /\ UNCHANGED <<evidence, mine>>
       ELSE LET e == <<Min(next), Cardinality(mine[w]) + 1>> IN
            /\ e \notin evidence
            /\ evidence' = evidence \cup {e}
            /\ mine' = [mine EXCEPT ![w] = @ \cup {e}]
            /\ UNCHANGED <<pc, left>>
    /\ UNCHANGED <<controls, mode, planned, sources, weak, report, row, queue, retry, history>>

(* _detect_conflicts and _quality.  Conflicts and unverified languages,    *)
(* countries and dates are further reasons to call the evidence weak.      *)
Compare(w) ==
    /\ pc[w] = "compare"
    /\ \E otherReasons \in BOOLEAN :
          weak' = ( \/ Cardinality(DomainsOf(mine[w])) < MinimumSources
                    \/ Cardinality(mine[w]) < 2
                    \/ otherReasons )
    /\ status' = "comparing"
    /\ Goto(w, "write")
    /\ UNCHANGED <<controls, mode, planned, sources, evidence, report, cancelRequested, queue,
                   retry, left, mine, history>>

(* Extraction, report and claims; then the completed run is saved.         *)
Write(w) ==
    /\ pc[w] = "write" /\ ~cancelRequested
    /\ Goto(w, "stamp")
    /\ UNCHANGED <<stored, row, queue, retry, left, mine, history>>

Complete(w) ==
    /\ pc[w] = "stamp"
    /\ report' = mine[w]
    /\ status' = "completed"
    /\ Goto(w, "notify")
    /\ UNCHANGED <<controls, mode, planned, sources, evidence, weak, cancelRequested, queue,
                   retry, left, mine, history>>

Notify(w) ==
    /\ pc[w] = "notify"
    /\ status' = "completed"
    /\ notified' = notified + 1
    /\ Goto(w, "audit")
    /\ UNCHANGED <<stored, cancelRequested, queue, retry, left, mine, bound, lateFailures,
                   overlapped, duplicates, deaths>>

Audit(w) ==
    /\ pc[w] = "audit"
    /\ Leave(w)
    /\ UNCHANGED <<stored, row, queue, history>>

(* Any exception: the run is failed, and the task is tried again.          *)
Fail(w) ==
    /\ pc[w] # "idle"
    /\ status' = "failed"
    /\ lateFailures' = IF pc[w] \in {"notify", "audit"} THEN lateFailures + 1 ELSE lateFailures
    /\ queue' = IF retry[w] = bound.retries THEN queue
                ELSE [queue EXCEPT ![retry[w] + 1] = @ + 1]
    /\ Leave(w)
    /\ UNCHANGED <<stored, cancelRequested, bound, notified, overlapped, duplicates, deaths>>

(* A member asks to stop a run that has not ended.                         *)
RequestCancel ==
    /\ status \notin Ends
    /\ ~cancelRequested
    /\ cancelRequested' = TRUE
    /\ UNCHANGED <<stored, status, queue, worker, history>>

(* A worker dies and its early acknowledged delivery is gone.              *)
Die(w) ==
    /\ pc[w] # "idle"
    /\ deaths < bound.deaths
    /\ deaths' = deaths + 1
    /\ Leave(w)
    /\ UNCHANGED <<stored, row, queue, bound, notified, lateFailures, overlapped, duplicates>>

Duplicate ==
    /\ duplicates < bound.duplicates
    /\ duplicates' = duplicates + 1
    /\ \E r \in Tries :
          /\ queue[r] > 0 \/ \E w \in Workers : pc[w] # "idle" /\ retry[w] = r
          /\ queue' = [queue EXCEPT ![r] = @ + 1]
    /\ UNCHANGED <<stored, row, worker, bound, notified, lateFailures, overlapped, deaths>>

WorkerStep(w) ==
    \/ Begin(w) \/ Cancelled(w) \/ Plan(w) \/ Search(w) \/ ReadPage(w) \/ EndReading(w)
    \/ TakeEvidence(w) \/ Gather(w) \/ Compare(w) \/ Write(w) \/ Complete(w) \/ Notify(w)
    \/ Audit(w) \/ Fail(w)

Next ==
    \/ \E w \in Workers : WorkerStep(w) \/ Die(w)
    \/ RequestCancel \/ Duplicate

Spec == Init /\ [][Next]_vars

(* Workers go on: pages and models answer or time out.                     *)
Fairness == \A w \in Workers : WF_vars(WorkerStep(w))

LiveSpec == Spec /\ Fairness

-----------------------------------------------------------------------------
TypeOK ==
    /\ bound \in Bounds /\ status \in Statuses /\ mode \in Modes
    /\ {planned, weak, cancelRequested, overlapped} \subseteq BOOLEAN
    /\ sources \in Seq([domain : Domains, usable : BOOLEAN])
    /\ evidence \subseteq (DOMAIN sources) \X Nat /\ report \subseteq evidence
    /\ queue \in [Tries -> Nat]
    /\ pc \in [Workers -> Stages] /\ retry \in [Workers -> Tries]
    /\ left \in [Workers -> Nat]
    /\ \A w \in Workers : mine[w] \subseteq evidence
    /\ {notified, lateFailures, duplicates, deaths} \subseteq Nat

\* A completed run's report was written from stored evidence whose sources are
\* unique and within the workspace's and the request's controls; whatever
\* failed and was tried again, a report that rests on fewer domains than asked
\* for says so, and no citation number stands for two passages, unless two
\* workers were in the run at once.
ReportIsGrounded ==
    status = "completed" =>
        /\ report \subseteq evidence
        /\ \A e \in report :
              /\ sources[e[1]].usable
              /\ sources[e[1]].domain \notin PolicyBlocked \cup AskedBlocked
        /\ ~overlapped =>
              /\ Cardinality(DomainsOf(report)) < MinimumSources => weak
              /\ \A e, f \in report : e[2] = f[2] => e = f

\* A run's completion is announced once: a second announcement is explained by
\* a failure after the completed report was saved, or by a repeated delivery
\* that began while another worker was in the run.
AnnouncedOnce == notified <= 1 + lateFailures + (IF overlapped THEN duplicates ELSE 0)

\* Without a lost worker a run comes to its end, and stays there.
RunEnds == <>[](status \in Ends \/ deaths > 0)
=============================================================================
