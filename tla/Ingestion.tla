----------------------------- MODULE Ingestion ------------------------------
(***************************************************************************)
(* One uploaded document on its way into a knowledge base (ai.knowledge,   *)
(* the Celery task of worker.tasks, the views of core.memory_views).       *)
(* Nothing locks it: every save commits by itself, so that two deliveries  *)
(* of its task may work on it at once.  Chunks are created by one          *)
(* statement, all or none.                                                 *)
(***************************************************************************)
EXTENDS Integers, FiniteSets

CONSTANTS
    Deliverers,     \* worker processes
    MaxRetries, MaxDuplicates, MaxDeaths    \* retries of a delivery; bounds on faults

IngestionAssumption == {MaxRetries, MaxDuplicates, MaxDeaths} \subseteq Nat

VARIABLES
    document,       \* its status, or "deleted"
    chunked,        \* the document has its chunks
    jobs,           \* jobs[n]: deliveries of attempt n in the queue
    stage,          \* stage[w]: what worker w does next
    attempt,        \* attempt[w]: which attempt its delivery is
    duplicates, deaths,
    together        \* history: two workers were at it at the same time

documentvars == <<document, chunked, jobs, stage, attempt, duplicates, deaths, together>>

Statuses == {"pending", "chunking", "embedding", "ready", "failed", "deleted"}
Stages == {"idle", "start", "parse", "clear", "fill", "finish", "fail"}

(* KnowledgeDocumentUploadView.post.                                       *)
Init ==
    /\ document = "pending" /\ chunked = FALSE
    /\ jobs = [n \in 0..MaxRetries |-> IF n = 0 THEN 1 ELSE 0]
    /\ stage = [w \in Deliverers |-> "idle"] /\ attempt = [w \in Deliverers |-> 0]
    /\ duplicates = 0 /\ deaths = 0 /\ together = FALSE

GoTo(w, next) == stage' = [stage EXCEPT ![w] = next]
Busy == {w \in Deliverers : stage[w] # "idle"}

\* ingest_knowledge_document: any exception is retried, three times at most.
RaiseIn(w) ==
    /\ GoTo(w, "idle")
    /\ jobs' = IF attempt[w] < MaxRetries THEN [jobs EXCEPT ![attempt[w] + 1] = @ + 1] ELSE jobs

Take(w) ==
    /\ stage[w] = "idle"
    /\ \E n \in 0..MaxRetries :
          /\ jobs[n] > 0
          /\ jobs' = [jobs EXCEPT ![n] = @ - 1]
          /\ attempt' = [attempt EXCEPT ![w] = n]
    /\ GoTo(w, "start")
    /\ together' = (together \/ Busy # {})
    /\ UNCHANGED <<document, chunked, duplicates, deaths>>

(* ingest_document reads the document outside its try block, ...           *)
Start(w) ==
    /\ stage[w] = "start"
    /\ \/ /\ document # "deleted"
          /\ document' = "chunking" /\ GoTo(w, "parse") /\ UNCHANGED jobs
       \/ document = "deleted" /\ RaiseIn(w) /\ UNCHANGED document
    /\ UNCHANGED <<chunked, attempt, duplicates, deaths, together>>

\* Saving a document that is gone raises, in the except branch as well.
Save(w, status, next) ==
    \/ document # "deleted" /\ document' = status /\ GoTo(w, next)
    \/ document = "deleted" /\ GoTo(w, "fail") /\ UNCHANGED document

(* ... loads and splits its text, which may fail, ...                      *)
Parse(w) ==
    /\ stage[w] = "parse"
    /\ \/ Save(w, "embedding", "clear")
       \/ GoTo(w, "fail") /\ UNCHANGED document
    /\ UNCHANGED <<chunked, jobs, attempt, duplicates, deaths, together>>

(* ... replaces the chunks ...                                             *)
Clear(w) ==
    /\ stage[w] = "clear"
    /\ chunked' = FALSE /\ GoTo(w, "fill")
    /\ UNCHANGED <<document, jobs, attempt, duplicates, deaths, together>>

\* Mutant of Fill: the document is ready before its chunks are created.
FillLate(w) ==
    /\ stage[w] = "fill"
    /\ \/ Save(w, "ready", "finish")
       \/ GoTo(w, "fail") /\ UNCHANGED document
    /\ UNCHANGED <<chunked, jobs, attempt, duplicates, deaths, together>>

(* ... which the database refuses when they are there, or when the         *)
(* document is gone, ...                                                   *)
Fill(w) ==
    /\ stage[w] = "fill"
    /\ \/ ~chunked /\ document # "deleted" /\ chunked' = TRUE /\ GoTo(w, "finish")
       \/ GoTo(w, "fail") /\ UNCHANGED chunked
    /\ UNCHANGED <<document, jobs, attempt, duplicates, deaths, together>>

(* ... and marks it ready.                                                 *)
Finish(w) ==
    /\ stage[w] = "finish"
    /\ Save(w, "ready", "idle")
    /\ UNCHANGED <<chunked, jobs, attempt, duplicates, deaths, together>>

\* Mutant of Fail: the last attempt raises before it has saved the failure.
FailLate(w) ==
    /\ stage[w] = "fail"
    /\ document' = IF document = "deleted" \/ attempt[w] = MaxRetries THEN document ELSE "failed"
    /\ RaiseIn(w)
    /\ UNCHANGED <<chunked, attempt, duplicates, deaths, together>>

(* Whatever was raised, the document has failed until the retry.           *)
Fail(w) ==
    /\ stage[w] = "fail"
    /\ document' = IF document = "deleted" THEN document ELSE "failed"
    /\ RaiseIn(w)
    /\ UNCHANGED <<chunked, attempt, duplicates, deaths, together>>

(* KnowledgeBaseDetailView.delete, which takes the chunks with it.         *)
Delete ==
    /\ document # "deleted"
    /\ document' = "deleted" /\ chunked' = FALSE
    /\ UNCHANGED <<jobs, stage, attempt, duplicates, deaths, together>>

(* Faults: a message delivered again, a worker that dies.                  *)
Duplicate ==
    /\ duplicates < MaxDuplicates /\ duplicates' = duplicates + 1
    /\ jobs' = [jobs EXCEPT ![0] = @ + 1]
    /\ UNCHANGED <<document, chunked, stage, attempt, deaths, together>>

Die(w) ==
    /\ stage[w] # "idle"
    /\ deaths < MaxDeaths /\ deaths' = deaths + 1
    /\ GoTo(w, "idle")
    /\ UNCHANGED <<document, chunked, jobs, attempt, duplicates, together>>

IngestStep(w) == Take(w) \/ Start(w) \/ Parse(w) \/ Clear(w) \/ Fill(w) \/ Finish(w) \/ Fail(w)

Next ==
    \/ \E w \in Deliverers : IngestStep(w) \/ Die(w)
    \/ Delete \/ Duplicate

Spec == Init /\ [][Next]_documentvars

(* A worker that lives goes on with its delivery.                          *)
LiveSpec == Spec /\ \A w \in Deliverers : WF_documentvars(IngestStep(w))
-----------------------------------------------------------------------------
TypeOK ==
    /\ document \in Statuses /\ chunked \in BOOLEAN
    /\ jobs \in [0..MaxRetries -> Nat]
    /\ stage \in [Deliverers -> Stages] /\ attempt \in [Deliverers -> 0..MaxRetries]
    /\ duplicates \in 0..MaxDuplicates /\ deaths \in 0..MaxDeaths /\ together \in BOOLEAN

\* What search_coworker_knowledge finds is whole: a document that is ready has its
\* chunks, through retries, lost workers and deliveries that come again later, but
\* not when two deliveries overlapped.  A deleted one leaves nothing behind.
ReadyIsWhole ==
    /\ document = "ready" /\ ~together => chunked
    /\ document = "deleted" => ~chunked

=============================================================================
