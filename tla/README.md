# Agentarium: a verification project in TLA+

Agentarium (`src/`, a Django and Celery application with a Next.js client) lets members of a
workspace hire AI coworkers, give them tools, and delegate work to them: in a conversation, as a
background task, as a step of a workflow, in a team, or as voters of a consensus session. The
program's promise is about control: a coworker acts only with a consent that stands, does not act
twice, and what members see as finished is finished. What makes it hard is that every one of these
paths is driven by several processes at once (web requests that stream, Celery deliveries that
repeat or die, polls that queue themselves again, members who decide whenever they like), that most
of them work on rows they read without a lock, and that tools, providers, Docker and Telegram act
outside the database.

This directory holds TLA+ modules of these paths, the TLC configurations that check them on small
instances, and TLAPS proofs for all instances. `PROJECT.json` maps every definition to the lines it
models and lists the runs, hazards, findings and theorems.

    tlc -config MCTaskEngine_single.cfg MCTaskEngine     # a run: module and cfg as in PROJECT.json
    tlapm ChatTurnProofs.tla                             # the proofs of a module

## 1. The system and its components

Paths are below `src/services/app/` unless they begin with `services/`.

| Component | Code | State | Operations | Interacts with |
|---|---|---|---|---|
| Background task engine | `ai/task_engine.py`, `core/task_views.py`, `core/interface.py`, `worker/tasks.py` | `tasks` row: status, `execution_state` (transcript, pending question); `approval_requests` rows | claim, one model/tool iteration after the other, pause for approval or input, resume, fail | permission check, approvals, notifications; ends wake teams, workflows, consensus |
| Tool permission and approval policy | `core/permissions.py`, `core/interface.py`, `core/chat_views.py` | permission profile, organization floor and rules, standing policies | evaluate, decide a request | asked by chat, tasks and workflows |
| Chat orchestrator | `ai/chat_orchestrator.py`, `core/chat_views.py` | messages with tool calls and results | send, resume, open, regenerate | model router, permission check, tools |
| Workflow engine | `core/v2_engine.py:152-299`, `core/v2_views.py`, `core/chat_views.py` | run status and index, step status and result | advance, park, spawn a task, poll, run a tool, decide | tasks, approvals |
| Workflow triggers | `core/v2_engine.py:302-326`, `core/interface.py` | next run time | create, schedule, scan, hand over | workflow engine |
| Agent teams | `core/v2_engine.py:59-147`, `ai/team_designer.py`, `core/starter_teams.py` | run status, the run's tasks; a design | design, provision; advance by pattern, poll, merge | tasks, plans |
| Consensus sessions | `core/v4_services.py:254-364` | session, votes | start, record, finalize | tasks, teams |
| Notification delivery | `worker/tasks.py:109-407`, `core/telegram*.py` | e-mail marker, Telegram lease; link sessions, connections, preferences | send, retry; link, connect, disconnect | every engine |
| Research runs | `research/services.py`, `research/views.py` | status, sources, evidence, report | plan, search, read, gather, compare, write, cancel | web access, notifications |
| Website monitors | `research/services.py`, `research/views.py` | next run time, snapshots, checks | scan, claim, read, compare, announce; edit, delete | web access, notifications |
| Marketplace and skills | `core/v2_services.py`, `core/v3_services.py` | versions, reviews, installs, orders, payouts | publish, fork, check out, pay, install | capabilities, teams, workflows |
| Capabilities and proposals | `core/v4_services.py`, `core/v2_services.py`, `core/views.py` | attachments, proposals | attach, switch off, detach, propose, review | permission check |
| Memory conflicts | `ai/memory.py`, `core/memory_views.py`, `core/v4_services.py` | memories, conflicts | remember, scan, report, resolve | chat |
| Knowledge ingestion | `ai/knowledge.py`, `worker/tasks.py` | document status, chunks | parse, clear, fill, finish, retry, delete | search |
| Web crawler and page reader | `ai/web_crawler.py`, `ai/web_reader.py` | queue, seen addresses, host slot, page cache; parser counters | crawl, fetch, redirect, parse | browser service |
| Model router | `ai/model_router/` | accumulated fragments; `model_calls` log | negotiate, attempt, fall back, stream, log | every engine |
| Browser service | `services/browser/server.mjs` | one browser promise, contexts | launch, open, render, close, shut down | page reader |
| Sandbox | `ai/sandbox.py` | a container per call | create, start, wait, kill, read, remove | tool `execute_code` |
| Coworker, team and workflow versions | `core/coworkers.py`, `core/v2_services.py` | versions, the pointer to the current one | create, edit, roll back, archive, delete | engines pin versions |
| Plans and limits | `core/billing.py`, `core/billing_views.py` | plans, subscription, counts | count, compare, create; edit plans | every creation |
| Workspace membership | `core/v2_views.py`, `core/v3_views.py`, `core/views.py` | membership rows and roles, accounts | invite, change, remove, sign on, provision | permissions |
| Message citations; tool executor | `ai/message_citations.py`, `ai/tool_executor.py` | rows written once; none | one call | engines |
| Accounts, identity, audit; voice, observability | `core/views.py`, `core/v3_*.py`, `core/v4_views.py`, ... | single rows | single-row reads and writes | |
| Web app, desktop companion, SDK, deployment | `apps/`, `packages/`, `infra/` | none the server trusts | requests | the API |

Calls go down (endpoints to engines to router and tools). What makes the components depend on each
other is shared rows and queued jobs: the end of a task's delivery (`worker/tasks.py:23-37`) queues
the team run or the workflow run it belongs to, and records a consensus vote; a member's decision on
an approval request queues the task or the workflow run, or is found by the next chat turn; every
engine queues notifications; triggers and monitors are scanned by the beat schedule.

### Hard behaviours, and what makes each component correct

* **Tasks.** Deliveries repeat, die after their early acknowledgement, and race with decisions and
  answers. Correct: one worker drives a task at a time; a tool runs once and on a consent; a pause
  can be answered; a task comes to rest.
* **Chat.** Turns overlap (a double click, a retry, a second tab) and are cut off anywhere, also
  between a tool's effect and the commit of its result. Correct: one result for each call; the same
  gate as tasks; the model never sees an unanswered call; every turn ends.
* **Workflows.** Polls and returning tasks advance one run from several workers, with no lock; the
  decision endpoints write back what they read. Correct: nothing behind a checkpoint starts before
  its approval; a tool runs on its consent, once; a run does not rest with nothing to wait for.
* **Teams.** The same races on the list of a run's tasks, which are created one by one, and a
  pattern that may change under a run. Correct: each member is asked once; a completed run has the
  whole team's work and the synthesis last; a design nobody changed can be provisioned.
* **Consensus.** Votes arrive in any order and repeatedly, and the count is triggered by finished
  tasks. Correct: the result is the rule's; a tie is a deadlock; a session ends.
* **Notifications.** The sends are not atomic with their markers; a lease ends by the clock; a chat
  is linked, taken over and disconnected by requests that lock in different orders. Correct: every
  copy beyond one is explained by a fault; a delivery settles; no outdated link connects a chat.
* **Research and monitors.** Long stages under redelivery, retries and cancellation; checks that a
  lost worker leaves running. Correct: a report rests on evidence the controls allow; completion and
  change are told once; a period brings one check.
* **Equipment.** Installations go through dependencies row by row, and stop half way; webhooks
  repeat; several people change one attachment; two deliveries replace one document's chunks.
  Correct: what is installed stands on what it needs; paid is paid out; a revoked tool stays off
  until named; a proposal or a conflict is settled once; a searchable document is whole.
* **Outside.** Crawls share a rate slot and a cache; a stream delivers a tool call in fragments and
  may stop anywhere; a browser may die; any request to Docker may fail or lose its answer. Correct:
  a crawl not reported truncated is complete; the log tells what the caller was told; tool calls
  arrive whole; no context and no container is left behind; a page's text is what is visible.
* **Workspace.** Versions and pointers move in two commits; limits are compared with unlocked
  counts; memberships are read, then written; scans overlap. Correct: no acknowledged edit is lost;
  limits hold for requests that do not overlap; a removed member stays out; one run per instant.

`PROJECT.json` lists each hazard at its line, with the properties that would catch it.

## 2. Modules

| Module | What it is |
|---|---|
| `ToolPermission` | The permission decision as operators: profile, floor, organization rule, standing policy. Extended by the engines. |
| `ToolCallGate` | Abstract specification: a call is asked for at most once, a decision is final, it runs at most once, on an approval or if some configuration lets it run alone. |
| `TaskEngine`, `MCTaskEngine`, `TaskEngineProofs` | One background task. Implements `ToolCallGate`. |
| `ChatTurn`, `MCChatTurn`, `ChatTurnProofs` | One conversation. Implements `ToolCallGate`. |
| `WorkflowRun`, `MCWorkflowRun`, `WorkflowRunProofs` | One workflow run. |
| `AgentTeamRun`, `ConsensusSession`, `TeamDesign`, `MCTeams`, `TeamsProofs` | One team run; one session; the design of a team and its creation. |
| `NotificationDelivery`, `NotificationEmail`, `TelegramLink` | One notification on its Telegram channel; its e-mail; the chats of the users. |
| `ResearchRun`, `MonitorCheck`, `MCResearch`, `ResearchProofs` | One research run; one monitor with its checks. |
| `Marketplace`, `Capabilities`, `MemoryConflict`, `Ingestion`, `MCEquipment`, `EquipmentProofs` | Listings, orders and installations of a workspace; one coworker's tools and skills; memories and their conflicts; one document. |
| `WebCrawler`, `PageText`, `ModelRouter`, `BrowserService`, `Sandbox` | Crawls of one site; the HTML parser; one model call; the rendering service; calls of `execute_code`. |
| `MCOutside`, `OutsideProofs` | The instance and the proofs of these eight: what the application does outside its database. |
| `CoworkerVersions`, `PlanLimits`, `Membership`, `Triggers`, `MCWorkspace`, `WorkspaceProofs` | One versioned object; the plan of a workspace; its members; its schedules. |

An action is what the code does between two points at which another process can act: a database
transaction, a save outside one, or an external call. Between two actions a process has only what it
read (`pc` and the variables per worker, turn or request). Model answers, organization rules,
standing policies and tool outcomes are nondeterministic. Definitions whose name is introduced by
"Mutant of" are plausible bugs, used only to show that a property would notice them.

The last five MC modules (`MCTeams`, `MCResearch`, `MCEquipment`, `MCOutside`, `MCWorkspace`) check
several components in one run. These components share no variable, so `focus` chooses, in the
initial state, the one a behaviour is about; the others stay in one of their initial states.
(`MCOutside` has two runs, `notifications` and `web`, whose cfgs differ in `Foci`, the components
that are looked at.) This is the union of the separate state spaces, not their product, and a
property of one component is checked in all of that component's behaviours. Each of these modules
also defines `MCTypeOK`, the type invariants of its components. The runs leave it out, as types by
themselves say little; adding `INVARIANT MCTypeOK` to the cfg checks it. What an instance fixes
beyond the sizes of its sets (the limits of research, the plans and schedules of the workspace, the
designs of teams) are constants given by the cfg, so that a theorem about an MC module's `MCSpec` is
about every instance.

### TaskEngine

The transcript is kept as the only part the engine branches on: `todo`, the calls of the last
assistant message that have no reply yet; `saved` and `question` are its copy in `execution_state`.
`Claim` is `claim_task_execution`'s locked test of the status, and the re-read after it is `Load`.
`FindRequest` and `Evaluate` are the lookup of a call's latest request and the permission check,
`RequestApproval` and `AnnounceApproval` the two commits of a pause (the request first, then the
status). Replies stay in the worker's memory until `Checkpoint`, as in the code. `Raise` is the
except block at every point where something may raise, after the final report too. `ReadQuestion`
and `WriteAnswer` are the unlocked read and the unconditional write of the respond endpoint.
`Redeliver`, `Crash` and `LoseJob` are the broker and the process.

### ChatTurn

`log`, `states` and `home` are the coworker's messages and the calls they hold; a result message is
one of `outputs` or `refusals`. A turn keeps nothing between requests: when it begins it reads the
configuration of its tools (`LoadConfig`) and then takes up what it finds. `Opening` lets the
coworker speak first; only a completed message is `Regenerable`. `FindOpen` takes up the latest
message it can see if it has an open call, otherwise the model is asked. From `TakeApproved` or
`TakeUnattended` to `StoreResult` a turn is inside the transaction of `_resolve_one_tool_call` and
holds the lock of the assistant message; `Unlocked` is the lock. `Break` cuts a turn off anywhere: an
open transaction is rolled back, and if the tool has run (`executed`), the run is `lost`.
Regenerating hides the target and everything after it (`skipped`). The unique constraint on results
(`ai/models.py:139`) is behind the lock and never bites. User messages, memory and citations carry no
state a turn branches on; deleting a conversation under a turn is left out.

### WorkflowRun

Every read and save of `advance_workflow_run` is an action, since nothing is locked: `ReadRun`,
`ReadStep`, then one chain for each kind of step (`DecideCondition`/`Jump`, `ParkStep`/`ParkRun`,
`Spawn`/`Assign`/`Poll`, `CheckTool`/`RequestApproval`/`ExecuteTool`/`RecordOutput`), `Fail` and
`Finish`. A decision is `OpenDecision`, `FindCheckpoint`, `DecideRequest`, `DecideStep`, `DecideRun`,
in the order of the two endpoints' saves. A spawned task is its end (`TaskReports`) and the
deliveries it queues (`TaskReturns`), as `TaskEngine` leaves them. The context a condition reads
never changes and is chosen initially.

### AgentTeamRun, ConsensusSession, TeamDesign

`AgentTeamRun`: `ReadRun` reads the run and the pattern, the next step the tasks; what follows acts
on that reading. `ManagerPlans`, `ManagerDelegates`, `ManagerSynthesizes`, `NextTurn` and
`AllContribute` are the cases of the three patterns; `Create` commits one task at a time. `Poll` is
the delivery that queues itself again. Versions pin the members, not the pattern: `ChangePattern`.

`ConsensusSession`: `TaskClaimed`, `TaskReports` and `TaskAnswered` drive the voting tasks; every
delivery that returns owes a call of `record_consensus_vote_from_task` (`due`). `Record` locks the
session, saves the vote and finalizes in one transaction; `Winner` and what it is made of are the
three rules. `EditTeam` publishes a team version, whose size the count uses. How an answer names an
option is one choice.

`TeamDesign`: `Suggest` is any proposal of the model after `_sanitize` (roles made up, unknown tools
dropped, cut to size, a manager found), `Change` what the form lets the user alter, `Provision` the
one transaction that creates coworkers and team, refused as `create_agent_team` refuses.

### NotificationDelivery, NotificationEmail, TelegramLink

`NotificationDelivery`: `Take` is the locked claim that writes `processing`; `fresh` says that its
`updated_at` is less than five minutes old, and `FiveMinutes` ends that. `Send` is the call of
Telegram, whose answer may be lost; `RecordSent`, `RecordFailure`, `DisableConnection` and
`RecordRejection` are the saves after it, unlocked. `queue` and `parked` are the broker's messages
with their retry, acknowledged late: `Die` gives the message back. `NotificationEmail`: `Open`, `Send`
and `Commit` are one transaction with the row locked, whose messages are acknowledged early.
`TelegramLink`: each request is two steps, `OpenLink`/`CommitLink`, the webhook, and
`OpenDisconnect`/`CommitDisconnect`; `Others` are the users a webhook would take a chat from, and
`BreakDeadlock` is the database's answer to the two lock orders.

### ResearchRun, MonitorCheck

`ResearchRun`: the actions are the stages of `execute_research_run`; each begins with the look for a
cancellation (`Cancelled`) and ends with its save. A page is its domain, what its text is worth and
whether it fits the controls; `left` and `mine` are what a worker has in hand. `Fail` is the except
block with the retry. `Complete`, `Notify`, `Audit` are the three commits at the end.
`MonitorCheck`: `LockDue`/`StartDue` is the scan, `ReadMonitor`/`SaveMonitor` the PATCH that writes
back a whole row, `Claim` to `Announce` a check. Time is counted in periods.

### Marketplace, Capabilities, MemoryConflict, Ingestion

`Marketplace`: `todo` is the stack of what a request still has to do, so that the recursion over
dependencies is `Visit`, `Resolve` and `Install`, one row each; `visited` is the cycle check, `Pay`
the webhook between its read of the order and its write. `Capabilities`: one action for each way an
attachment changes; a proposal is looked for (`LookForOpenProposal`) and then created, a review opens
and then decides under the lock. `MemoryConflict`: a memory is a subject and a content; `Scan` finds
pairs, `CreateFound` creates them one by one, `Resolve` is the locked resolution with the memories it
writes. `Ingestion`: `Start`, `Parse`, `Clear`, `Fill`, `Finish` are the commits of
`ingest_document`, `Fail` the save of the except block with the retry.

### WebCrawler, PageText, ModelRouter, BrowserService, Sandbox

`WebCrawler`: a crawl takes an entry of its queue, the slot, the cache or the page, follows
redirects and records; a site (links, redirects, texts, robots) is chosen initially. `InOrder` puts the
links of a page that were not seen (`Unseen`) in the queue as they stand in the page. The robots
policy is cached too, so one failed fetch closes the site until `RobotsExpires`; a sitemap that
cannot be read is passed over, and does not make a crawl truncated. `PageText`: the
handlers of the parser as `Start`, `End` and `Text`, over any document that closes what it opens.
`ModelRouter`: `Negotiate`, `Answered`, `AttemptFails`, `Raise` for a plain call and `Event`,
`StreamEnds`, `StreamFails`, `Abandon` for a stream; `accumulated` is the adapter's slots, `taken` what
the orchestrator made of the chunks. `BrowserService`: an action between two awaits of the event loop.
`Sandbox`: one action for each request to the daemon, with its failure and its lost answer.

### CoworkerVersions, PlanLimits, Membership, Triggers

`CoworkerVersions`: an editor reads the current version, `AddVersion` takes the next number (unique)
and `Point` moves the pointer; teams and workflows do both in one transaction (`AddInTransaction`).
`Fail` is a process that dies. `PlanLimits`: `Check` compares, `Create` creates, for each unit a
request wants; what it made in its own transaction it also counts. `Unchecked` are the units made without
asking: seats by single sign-on or the directory (`Join`), and votes (`AskForVotes`). A plan without
a limit that was in force imposes none afterwards. `Membership`: a request keeps the
row it read (`read`), and a row that comes back is another one (`rows`). `Triggers`: `Begin` fixes the
time, `Lock` waits for the due rows, `Commit` starts the runs and moves the triggers, `Publish` hands
over one run.

## 3. Runs

| Run | Instance | What it shows |
|---|---|---|
| `task_single` | 2 workers, 1 respond request, a question, an unattached, a sensitive and a dangerous call, 2 configurations, 3 iterations, messages of 2, 1 duplicate, 1 fault | `SingleExecutor`, `ConsentedExecution`, `AnswerableQuestion`; `GateSpec`: the engine implements the gate; `Settles`: a task comes to rest unless a fault took its delivery |
| `task_twoanswers` | 2 respond requests | violates `RunsOnce` |
| `chat_turns` | 2 turns at once, 3 in all, a sensitive and a dangerous call, messages of 2, 2 iterations, 1 cut-off | `ResolvedOnce`, `HistoryIsWhole`, `GateSpec`, `TurnEnds` |
| `workflow_linear` | task, two checkpoints, tool; 1 worker, 1 decision at a time, 2 returning deliveries | `CheckpointsGate`, `RunSettles` |
| `workflow_branch` | condition past a checkpoint, tool, condition back; 2 workers, 1 fault | `ToolConsent`, `StepsOnce` |
| `workflow_skipped` | task, two checkpoints, tool; 2 workers | violates `CheckpointsGate` |
| `teams` | teams of up to 3 under 3 patterns, 1 worker, 2 returning deliveries, 1 fault, 1 edit; 2 voters, 2 options, 3 rules, 2 weights, 2 deliveries, 1 question, 1 edit, 1 fault; designs of 3 with 1 change | `AskedOnce`, `CompletedIsWhole`, `ResultIsTheRule`, `DesignIsProvisioned`, `WorkEnds` |
| `notifications` | 2 workers, 2 retries, 1 duplicate, 1 death; 2 users, 1 chat, 3 link sessions, 2 link requests | `NoUnexplainedCopy`, `ConnectedByOwnLink`, `DeliverySettles` |
| `research` | 2 workers, 2 domains and a blocked one, a retry and a death or a duplicate; 2 checks, 2 scans, 2 versions of the site and one of three sets of limits | `ReportIsGrounded`, `AnnouncedOnce`, `ChangeToldOnce`, `WorkEnds` |
| `equipment` | 3 listings with 4 versions (diamond, cycle, risky, paid), 2 requests, 1 order; 1 tool, 1 skill, 2 proposals, 2 reviewers; 2 coworkers, memories of 2 values; 1 document, 2 workers | `InstalledIsWhole`, `PaidIsPaidOut`, `RevocationStays`, `SettledOnce`, `ReadyIsWhole`, `WorkEnds` |
| `web` | 2 crawls of 4 pages, depth 2, 1 redirect; 2 models, 2 tool calls, 4 events; 2 pages, 2 requests each, 2 launches; 2 calls of code; documents of 7 tokens, 3 levels | `CrawlIsWhole`, `CallIsWhole`, `NothingIsLeftRunning`, `TextIsVisible` |
| `workspace` | 2 editors, 2 fields, 3 versions; 2 requests, 2 plans, 1 edit; 2 users, 2 requests, 2 rows each; 2 schedules, 2 scans, 4 ticks, 1 crash | `EditsAreKept`, `WithinPlan`, `RemovalStays`, `OneRunPerDue`, `TriggersMoveOn` |

Each violated property is a sentence of a document or a comment that the code does not keep; the
`findings` quote it and describe the counterexample. Every property of a passing run is also checked
against a mutant of the code and fails there.

**Bounds.** Two workers, turns or requests are enough for a race between two, and a third adds no
new pair of interleaved accesses to the same row. Two calls give a message with a first and a later
call, and one call of each treatment (asks, runs alone, is missing); `chat_turns` leaves the missing
call out, which takes the same action (`RecordRefusal`) as a refused one. Three iterations of
a task are a pass, its resumption and the pass that exhausts the budget; two of a turn let a call be
resolved in the last one, so that the budget ends a turn. One fault and one duplicate suffice for
each safety property to meet the situation that could break it. Four steps hold two checkpoints in a
row between a task and a tool, or a branch past a checkpoint with a way back. Three members are a
manager and two delegates, and a design of three can lose a member to the cut and still be a team.
Three link sessions are one that replaces another and one of another user. Two domains are what the
minimum of two asks for, and the third is refused; the research run and the monitor choose one of a
few sets of bounds, so that retries, deaths and duplicates each occur without all occurring at once.
Three listings are the least for a diamond. Five memories leave room for a pair and its resolution
for each coworker. Four pages hold a circle, a redirect, a copy and a forbidden page, and two crawls of them share the
slot and the cache; seven tokens nest three elements with a text; four events are two fragments of
each of two tool calls. Three versions are one edit after a lost race; two plans differ in every limit;
four ticks bring the hourly schedule due four times and the other twice. The theorems depend on none of these
bounds. Deadlock is not checked: in each of these systems everything may be over, or wait for a
member.

**Fairness.** A live worker pool takes deliveries and continues the one it has, a turn or an
installation that began keeps running, and a decision request that began ends: weak fairness on
these steps only (`EngineStep`, `WorkerStep`, `CheckStep`, `IngestStep`, `RequestStep` of the
Marketplace). The clock goes on (`FiveMinutes`, `Tick`), and the beat schedule starts scans
(`ScanStep`), as `config/settings.py` has it. Models, tools and adapters answer or time out. Members,
clients, the broker's duplicates, other components' tasks and faults promise nothing. Celery
acknowledges early except for Telegram, so a worker that dies takes its delivery with it and
nothing re-claims the row: `Settles` and the `WorkEnds` of teams, research and
documents excuse the histories in which that happened, and `RunSettles` is checked without any.
Telegram's messages are acknowledged late, which is why `DeliverySettles` holds in spite of a death.

## 4. Theorems

All are proved by TLAPS for every value of the constants, from the named assumption of the module
(disjoint kinds of calls, types of the parameters, naturals as bounds).

* `TaskEngineProofs`. `TypeCorrect` and `QuestionAnswerable` follow from `TypeInv`: types, plus
  `PositionOK` (past a guard a worker still has what the stage needs, such as a call at hand) and
  `ReadingOK`. `ConsentBeforeExecution` (`[]ConsentedExecution`) needs in addition that a worker
  about to run a call has a ground that stands: requests are only appended and decided once.
  `MutualExclusion` (`[]SingleExecutor`) assumes one respond request at a time: then a worker that
  drives the task implies status `in_progress`, which no other writer leaves behind it.
  `EngineImplementsGate` (`Spec => GateSpec`), under the same hypothesis: creating a request, deciding
  it and running the tool are the steps of `ToolCallGate`, and no other step shows there.
  `TranscriptInv`: a call that ran is answered only in the memory of the worker that drives, so every
  transcript somebody may still execute or read again (the driver's, a respond request's, and the row's
  as long as its status lets it be claimed or answered) holds each call once and none that ran
  (`Untouched`). `RequestInv`: a call has one approval row at most, so what `Evaluate` found settled
  (`Cleared`) is settled when the tool runs. Two respond requests break it (`RunsOnce` in the run
  `task_twoanswers`).
* `ChatTurnProofs`. `TurnInv` says what the lock buys: a call belongs to one message (`Belongs`), a
  turn in a transaction stands on a call of the message it locked (`Position`), no two turns are in
  transactions of the same message (`LockHeld`), hence of the same call; that call has no result and
  may run (`Entitled`), and each run is stored, lost or about to be stored (`RunsAccounted`). From it
  follow `EachCallResolvedOnce` (`[]ResolvedOnce`) and `ChatImplementsGate`: every step of chat is a
  step of `ToolCallGate` or none, for any number of turns, resumes, regenerations and cut-offs.
  `HistoriesAreWhole` (`HistoryIsWhole`) needs `WholeInv`: as long as no two turns have overlapped, an
  open message that no regeneration left out is the latest one with calls (`OpenIsLatest`), so the
  search finds it, and none is open from the search until the model has answered (`NothingOpen`).
* `WorkflowRunProofs`.
  * `ToolsRunOnConsent` (`[]ToolConsent`). The run's own fields are overwritten by whoever writes last,
    so the invariant rests on the approval rows alone: a worker at a tool stage stands at a tool step
    (`AtTool`) and one about to run it has seen an approved request (`RunsOnApproval`), which nothing
    takes back.
  * `NothingStartsUnapproved` (`[]CheckpointsGate`), for one worker and one decision at a time. `GateInv`:
    whatever has started, waits, is worked on or was read by a decision lies behind approved
    checkpoints only (`Passed`). Two workers break it (`workflow_skipped`). It also assumes that no
    condition leads past a checkpoint: a decision that was slow to save puts the run's index back to a
    place from which a later branch goes round a checkpoint that already waits.
  * `ToolsRunOnce` (`[]StepsOnce`), for one decision at a time and a workflow without coworker steps,
    since polling lets two workers run one step; any number of workers, faults and lost writes.
    `OneChance`: the run has a single chance to go on, which is a queued delivery, a worker, a checkpoint
    that waits, a request that is pending, or a member who is deciding. `ExecutedInv`: a tool that ran
    is behind a step nobody takes up again, or used the last chance up (`Spent`).
* `TeamsProofs`.
  * `MembersAskedOnce` (`[]AskedOnce`), for one delivery of a run at a time: two workers that read the
    same list of tasks ask a member twice. `AskInv`: what a worker still has to create has been asked of
    nobody and differs from one another (`PlanOK`); the place of a turn among the tasks is its member's
    (`Numbered`), so that a delivery which died between two creations leaves the numbering right, and a
    synthesis is planned only when all has ended.
  * `WholeTeamContributes` (`[]CompletedIsWhole`), under the same hypothesis. Without lost deliveries and
    edits the tasks are a prefix of the script of the pattern (`Script`), and when nobody is creating any,
    they end at one of the script's marks (`Marks`): a run completes at the last.
  * `ResultFollowsTheRule` (`[]ResultIsTheRule`). While nobody asks a question
    or edits the team a finished task stays finished, so a count once made stands (`CountStands`), and
    each later vote is followed by another count in its own transaction.
  * `DesignsAreProvisioned` (`[]DesignIsProvisioned`). What is left of any proposal has the size, the tools
    and the one manager that creation asks for (`Sound`, from `UsableOnes` and `RepairedRows`), until
    somebody changes it.
* `OutsideProofs`.
  * `CopiesExplained` (`[]NoUnexplainedCopy`). Telegram: there is one permission to send. Messages that
    arrived, workers that may still send or will write `failed` (`Active`), and the lease the row has to
    give (`Leases`) are together at most one more than the leases that ran out and the answers that were
    lost (`PermissionsCounted`). A late save of a failure gives the row a lease again, but only for the
    one that its worker did not use or whose answer was lost. E-mail: a copy is marked, about to be
    marked, or was rolled back (`LettersCounted`).
  * `OwnLinksConnect` (`[]ConnectedByOwnLink`). While a request has its user's row locked, each live
    session of that user is one it is about to cancel (`LockFinds`), so a new one is alone; a session
    that a webhook holds is still pending (`HookHolds`), and one from before a disconnect is over
    (`PastIsOver`).
  * `CrawlsAreWhole` (`[]CrawlIsWhole`), for any sites, crawls, budgets and depths. That a page is
    found no deeper than the links to it lead rests on the order of a breadth-first walk: the depths
    of records, of the entry in hand and of the queue never decrease, and the queue spans two levels
    at most (`DepthsGrow`); without it an address seen first at a greater depth would have its links
    cut. What was seen has one record or is in hand (`KnownOnce`), so that passing over an entry that
    was seen loses nothing (`TakeEntry`). `SourcesOK` and `LinksFound`: what the start, a sitemap or a
    recorded page leads to is recorded, in hand or in the queue, at that depth or above; a crawl that
    ends with its queue empty has recorded it. The lemmas `TakeEntry`, `PutPage` and `AddEntries` say
    what each movement of an entry preserves, and every action is one or two of them.
  * `VisibleTextIsRead` (`[]TextIsVisible`), for any tags and documents. The parser keeps two counters
    and one heading instead of a stack; each counter is the number of open elements it stands for, and
    a preferred one is counted only outside the ignored ones (`CountersOK`, `Clear`). So a counter is
    zero exactly when no such element is open (`CountersZero`), and the texts kept are those that were
    visible when they came (`SeenOK`). It assumes that no tag is both ignored and preferred, as the
    code's two sets have it.
  * `CallsAreWhole` (`[]CallIsWhole`). The log is empty or holds one failure until the call ends, and the
    row that ends it says what its caller is told (`LogOK`). The adapter's slots hold all that was sent,
    and the caller of the stream has all of it once the finish reason came, since nothing is sent after
    it (`StreamOK`).
  * `NothingStaysRunning` (`[]NothingIsLeftRunning`). The browser promise says how many launches and
    processes there are (`PromiseCounts`); an open context belongs to a request that has not ended, unless
    its setup failed (`ContextsUsed`). A call of `execute_code` that is over has removed its container,
    or the fault that explains why not is recorded (`CallOK`).
* `ResearchProofs`.
  * `ReportsAreGrounded` (`[]ReportIsGrounded`). `GroundedInv`, whatever workers and retries do: sources
    and evidence lie within the controls, and who is about to complete has a report on them. That the
    evidence has no gaps and a weak report says so holds while no two workers are at the run
    (`AloneInv`).
  * `CompletionToldOnce` (`[]AnnouncedOnce`). From `AloneInv` while no two workers met; otherwise a delivery that waits, a worker that may still announce and
    an announcement are together no more than the first delivery, the repeated ones and the late
    failures paid for (`CountInv`).
  * `ChangeIsToldOnce` (`[]ChangeToldOnce`). One scan has the monitor locked, and each scheduled check
    used up a period or one an edit put back (`ScheduleInv`); what a check tells is what it stored
    (`TellInv`).
* `EquipmentProofs`.
  * `InstalledStandsOnItsOwn` (`[]InstalledIsWhole`). An installation is a stack of steps; what a step
    relies on is installed already or is what an earlier step of the stack will install (`StepOK`). The
    recursion over dependencies replaces one step by several, each of which may rely on what stands
    before it (`Replaces`, `GoesOn`).
  * `PaidIsOwedOnce` (`[]PaidIsPaidOut`): an order that is paid has its payout (`SalesOK`), so a
    webhook that read it as paid finds that done (`ReadOK`).
  * `SwitchedOffStaysOff` (`[]RevocationStays`), `OneAnswerCounts` (`[]SettledOnce`: proposals by the lock
    of the review, conflicts because pairs are given once, `GivenOnce`), and `KnowledgeIsWhole`
    (`[]ReadyIsWhole`: while deliveries have not overlapped the status is what the one worker wrote last,
    `StatusIsLast`).
* `WorkspaceProofs`.
  * `EditsKept` (`[]EditsAreKept`). Nobody has read a version that was not current at some time
    (`NothingReadAhead`), and the version of an edit that has still to move the pointer is the only one
    ahead of it (`OneAhead`): numbers are unique, so of two edits that read the same version one fails,
    and a version that a dead process left behind makes every later one fail rather than be lost.
    Where version and pointer share a transaction there is none ahead (`TransactionalIsWhole`).
  * `PlanHolds` (`[]WithinPlan`). The units there are fit the most generous plan that was in force, but
    for the ones nobody was asked about and those of overlapping requests (`UnitsFit`); the room a
    request was given is still there if it is alone (`AloneFits`).
  * `RemovedStayOut` (`[]RemovalStays`). A change or removal of the founder is under way only after the
    founder was named (`FounderIsNamed`). What keeps a removed member out is that a request writes to the
    row it read, and a member who comes back has another row.
  * `EachInstantOnce` (`[]OneRunPerDue`). A scan about to commit holds the locks of its rows and nobody
    else does, so what it read of them still holds (`LocksOK`); the instants served lie, in their order,
    before the next one (`InOrder`); what is handed over or lost was committed (`AllCommitted`). The next
    instant lies after the time a scan has fixed (`NextIsAfter`).

**Only model-checked.** Every liveness property (`Settles`, `TurnEnds`, `RunSettles`,
`DeliverySettles`, `TriggersMoveOn` and the three `WorkEnds`), which is beyond the prover. Every
invariant of a passing run is proved, and so are the two refinements.

## 5. What the models showed besides the findings

Histories that the properties exclude, because the code does not keep them, and what a reader of the
code may want to decide about.

**Tasks, chat, workflows.**

* A decision that comes between the approval request and the status `needs_approval`
  (`ai/task_engine.py:284-297`) wakes nobody: the task then waits for a decision that was made.
* An approved chat call can run again after a turn was cut off between the tool and the commit
  (`ResolvedOnce` counts such runs as `lost`). The gate is kept for results, not for effects.
* `HistoryIsWhole` needs turns one at a time and no regeneration past an open message: only the latest
  message with calls is looked at, and an older one stays open in every later history.
* With polling and two workers a workflow's tool step may run twice: the engine acts on an unlocked
  reading. `workflow_branch` therefore has no polled step. A late save of a decision may revive a
  workflow run that failed meanwhile, or leave one `running` with nothing queued.
* A member's standing policy lets a dangerous tool run alone unless the organization's floor forces
  approval for its risk class (`core/interface.py:416-453`): `UnattendedCalls` includes such calls.

**Teams and consensus.**

* With two workers a team member may be asked twice (`core/v2_engine.py:84`). A run that lost a
  delivery between two creations, or whose pattern changed, may complete on a partial list;
  `CompletedIsWhole` excludes both.
* A session whose last task to end is one that failed is never counted (`core/v4_services.py:321`).
  One that is deadlocked may still be decided by a vote recorded late, after a question or an edit.
* A plain member can provision a design of one coworker; one of several is refused by
  `create_agent_team` and rolled back as a whole. A tool named twice in an edited design hits the
  unique constraint.

**Notifications.** A worker that dies on a message's last retry, or an error nobody catches, leaves a
delivery `processing`. A permanent rejection by the old chat disables a connection that was made
meanwhile with a new one, and a late failure can overwrite `sent`. A disconnect without a connection
row leaves pending link sessions. Webhook and disconnect lock in opposite orders. Reading the
preferences creates their row.

**Research and monitors.** A completed run can become failed when its announcement or audit fails,
and is then announced again. A cancellation is ignored between retries and after the last look. A
retry after a partial failure reads no further sources. A monitor check that fails after its snapshot
was stored loses the change, since the retry compares the page with itself; a lost worker leaves a
check `running`; a PATCH saves the whole row it read, with an older time; a slow drift of a page, each
step too small to tell, is never told.

**Marketplace and capabilities.** Installing a pack again, or a webhook that is repeated, provisions
its contents again. A diamond of dependencies is refused as a cycle, after some rows were installed.
Paid dependencies and forks need no payment; a fork installs its own pending version without its
dependencies; an order that a buyer who is no admin has paid is never installed; no code approves a
pending version. Approving a proposal for a skill does not attach the tools it declares. A tool that
was detached, not switched off, comes back with a skill; the chat reports a switched-off tool as
added. Two requests may both find no open proposal and create two.

**Memory and documents.** Every conversation turn is stored as "User: ...", so that any two
coworkers' turns are a conflict on the subject "user", and what a resolution writes ("Resolved
subject: ...") can conflict again. Two overlapping deliveries of a document can leave it `ready`
without chunks, or turn `ready` into `failed`; a lost worker leaves it `chunking` or `embedding`.

**Outside.** The fallback model is not negotiated; a timeout in the middle of a body and a body that
is no JSON are neither caught nor logged, and abandoned streams leave no row. Chunks with content
carry partial tool calls (`ai/model_router/types.py:70-74` says once, and whole); the orchestrator
is right because it takes the last. A Chromium that died leaves its resolved promise, so that every
later page fails; a context whose page or route could not be set up is left open. A page that waits
too long for the rate slot is recorded as failed and never tried again; the slot is taken for cached
pages too, and not for redirects, robots.txt and sitemaps. A container whose creation lost its answer
is removed by nobody; a failed removal is ignored; a timeout while the logs are read is no
`SandboxError` and reaches the engine.

**Workspace.** A process that dies between a version and its pointer makes a coworker uneditable:
every later edit takes a number that is taken. Names of teams and workflows, and a team's pattern,
are saved from an old read, and a pattern alone is not validated (manager and delegates without a
manager). Limits are compared without a lock, and requests that overlap exceed them. The tasks of a consensus session
count for the user who started it, but no limit is asked (`core/v4_services.py`,
`core/billing.py:135-140`). With no plan in
the catalog `get_active_plan` fails on its `get_or_create` before the branch for that case. Seats
given out by single sign-on and the directory are not counted, although `core/billing.py:5-6` says
they are. The directory, or a second invitation, can take the owner's role away; single sign-on lets
a deprovisioned user in again. One trigger that fails rolls back the starts of all due ones; a crash
between commit and publish loses a run's delivery; a webhook that is retried starts another run; the
scans lock rows in no order; a workflow scheduled from the chat with a bad cron is left without its
trigger.

## 6. What is not modelled, and the plan

Not modelled: contents of prompts, messages, memories, reports and pages beyond what a branch looks at;
parsing and formatting except the page reader's; single-row endpoints (sign-in, tokens, MFA,
organization rules, audit, voice, observability, ratings); the dispatch of the tool executor, whose
calls the engines take as one step that returns, returns an error or raises; citations, which are
written once; search clients, address checks and the reading of PDFs; what packs contain; the
browser client, the desktop companion and the SDK. Validation of definitions and creation of rows
appear as the constraints on initial states where no action makes them. Liveness, and what a
recursive definition computes for all inputs, are out of the prover's reach.

Partly modelled: the permission policy (matching a standing policy's argument threshold is one open
answer), the workflow engine (one run; manual and webhook starts are its initial state), the chat
orchestrator (see `ChatTurn`), the crawler and page reader (titles, metadata and bodies are left out).

Next, in this order:

1. Compositions: a team run, a workflow run and a consensus session over the abstract task that
   `TaskEngine` implements, instead of their own task states; `PlanLimits` under `TeamDesign` and
   `Marketplace`.
2. An abstract specification of a delivery ("at least once, explained by faults") that both channels
   implement, and one of a versioned object, a sequence of acknowledged edits.
3. The accounts' single-use tokens and codes (password reset, verification, MFA), where a check and its
   use are two steps.
