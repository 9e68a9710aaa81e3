# Windeep: TLA+ models, model checks and proofs

Windeep is a local dashboard for authorised security assessments: a Flask
server that plans scans, runs external tools under consent and rate limits,
keeps their output as encrypted evidence, and helps to write and track reports.
This directory models the parts of it whose correctness depends on order:
concurrent tasks, threads and requests, crashes between two writes, retries and
cancellations. Source references are paths below `src/`.

## 1. Inventory

| Part | Source | State it keeps | Operations | What is hard | What makes it correct |
|---|---|---|---|---|---|
| Task scheduler | `app/engine/scheduler.py` | task handles, two levels of semaphores, task states, completed weight | `execute`: validate, authorise, run, gather, drain | failure and cancellation of concurrent tasks while they wait for permits or for each other | permits conserved; dependencies first; no task outlives `execute`; the verdict is true; it ends |
| Scan lifecycle (v2) | `app/v2_api.py`, `app/v2_pipeline.py` | `scans` row, authorization row, `scan_events`, registry of threads, cancel event | create, stop, stream; `run_p0_scan` | a request, a thread and a browser in parallel; crash of the process; broken connections | gap-free replay; registry agrees with threads; every scan ends; nothing works after the verdict |
| Tool wrapper, backends | `app/engine/tool_wrapper.py`, `app/tools/backends.py` | child process, attempts | `run_with_evidence` | nested timeouts and retries, cancellation at every await | no process outlives its run; a run row always settles |
| Raw evidence store | `app/evidence/raw_store.py` | chunks, references, keys, tombstones, seals | put, read, delete, rotate, seal | crash in the middle of a delete, delete against put | what is referenced is readable; what is destroyed stays so |
| Evidence bundles, redaction | `app/evidence/bundles.py`, `assembler.py`, `redaction.py` | bundle rows, spans, views, maps | assemble, append, resolve; redact | two scans of one finding, deletions while one reads, matches that touch | a returned bundle resolves; no match stays whole |
| Submissions | `app/submissions.py` | card, report row, events | move, create, transition | reads and writes on different connections, three transactions per step | history is the path that was taken |
| Audit log | `app/security/audit.py` | hash-chained file | append, verify | threads, short writes, lost tails | the chain never forks; what `append` returned stays readable |
| Rate governor | `app/security/rate_governor.py` | token buckets | acquire, set_policy | sleeping callers, policy changes | no window above burst and refill |
| Preflight, consent, scope | `app/security/{preflight,consent,scope}.py` | consents, authorizations, audit records | issue, authorize, every request that checks | the target changes and consents expire between check, record and use | nothing is used without a matching record |
| LLM budget and client | `app/brain/budget.py`, `llm_client.py` | usage rows, cache | assert, call, record | check then act over an `await`; fallback order | the overshoot is bounded; providers are tried in their order |
| Analysis brain | `app/brain/*.py` | chains, hypotheses, memories | propose, store, judge, remember | two stores for one memory; ids a model chose | rows refer to what exists, in scope |
| Operational runtime | `app/ops/runtime.py` | checkpoints, budget rows | commit, run_stage, consume, mark | crash between work and checkpoint; stale snapshots | a checkpoint is never replaced; used budget stays used |
| v3 pipeline, triage, reports | `app/v3/*.py`, `app/reporting` | checkpoints, triage, verification rows, reports | run, classify, verify, render | repeated and parallel requests | reports state what a pass recorded |
| v3 targets, capture | `app/v3/targets.py`, `app/capture/*.py` | plans, flows, bindings, rules | expand, probe, intercept, store, export | plans broken off and begun again with a seed that nothing stores, hooks around a failing sink | a stored flow was sent; every host is accounted for |
| Web3 workflow | `app/web3/*.py` | source artifacts, provenance | resolve, run engines, record | the chain grows during a resolution | a row is of one block |
| Findings, duplicates | `app/finding_observations.py`, `app/duplicates.py`, `app/database.py` | cases, observations | persist, list, look up | several scans share a case | a report lists its scan's cases |
| Database, migrations | `app/migrations.py`, `app/v3/release_migration.py` | ledger | up, down, restore | two starts, edited files, a stale plan, down scripts that keep tables | the ledger accounts for what was carried out and undone |
| Tool provisioning, resolution | `app/tools/{provisioning,bundle,backends}.py`, planning in `app/v2_api.py` and `app/v4/api.py` | cache, records, bundles; probe caches | install, keep, restore, export; probe, plan, schedule | crash inside a copy, damaged bundles, late answers | a ready tool is whole; a plan was true |
| First dashboard, settings, sessions | `app/server.py`, `app/security/auth.py` | scan rows, stop set, event queues, settings file | scan, cancel, stream, save | exceptions in handlers, a shared queue without a lock, writes in place | the browser is told what became of a scan; secrets stay |
| Event bus | `app/engine/event_bus.py` | bounded queues per pattern | publish, subscribe, close | slow consumers, close during publish | the newest events survive, in order |
| Programs, auth testing, browser, desktop, encryption | `app/programs`, `app/auth`, `app/browser`, `app/desktop.py`, `app/security/crypto.py` | see `PROJECT.json` | | sequential I/O and pure functions | |

How they interact: `v2_scans_create` writes the scan and its authorization and
starts one thread per scan in `SchedulerRuntimeRegistry`; the thread runs
`run_p0_scan` on its own asyncio loop, which builds one tool node per tool and
four stage nodes and gives them to `TaskScheduler.execute`; each tool node runs
the wrapper, stores evidence, persists findings and appends to the event log;
after the scheduler the evidence is assembled and sealed and the verdict is
written to the row, the log and the audit file. The stop request shares the
row, the log and `cancel_event` with the thread. The stream polls the log and
the row.

## 2. Modules

Each module models one component; `MC*` modules give instances, `*_proofs`
modules hold theorems. `DagExecution` and `StagedWork` are abstract
specifications. An action is the stretch of code between two points where
another actor can get in: an `await`, a statement of its own connection, a lock,
a file.

| Component | Module | Run | Theorems |
|---|---|---|---|
| one call of `TaskScheduler.execute` | `TaskScheduler`, implements `DagExecution` | `scheduler` | `TaskScheduler_proofs` |
| one v2 scan: requests, thread, log, browser | `ScanLifecycle` | `scan` | `ScanLifecycle_proofs` |
| one tool of a scan, down to its processes | `ToolRun` | `tool_run` | `ToolRun_proofs` |
| checkpoints of a resumable scan | `StageResume`, implements `StagedWork` | `staged` | `StageResume_proofs` |
| the v3 release pipeline | `ReleasePipeline`, implements `StagedWork` | `staged` | `StageResume_proofs` |
| one scan's raw evidence and keys | `EvidenceStore` | `evidence` | `EvidenceStore_proofs` |
| consents, scope and who may do what | `Authorization` | `evidence_flow` | `EvidenceFlow_proofs` |
| which backends a scan is planned on | `ToolResolver` | `evidence_flow` | `FindingFlow_proofs` |
| the tools tree, its cache and its bundles | `ToolProvisioning` | `evidence_flow` | `FindingFlow_proofs` |
| the intercepting proxy | `CaptureProxy` | `evidence_flow` | `EvidenceFlow_proofs` |
| address ranges, TLS probes and bound flows | `TargetProbes` | `evidence_flow` | `FindingFlow_proofs` |
| redacted views | `Redaction` | `evidence_flow` | `EvidenceFlow_proofs` |
| the Merkle root over the evidence | `EvidenceRoot` | `evidence_flow` | `EvidenceFlow_proofs` |
| bundles of a finding that several scans observe | `EvidenceBundles` | `evidence_flow` | `FindingFlow_proofs` |
| the static web3 audit | `Web3Audit` | `evidence_flow` | `EvidenceFlow_proofs` |
| cases and observations | `FindingCases` | `evidence_flow` | `FindingFlow_proofs` |
| paged external history | `DuplicateLookup` | `evidence_flow` | `FindingFlow_proofs` |
| triage, verification, report and draft | `ScanReports` | `evidence_flow` | `EvidenceFlow_proofs` |
| chains, hypotheses, critic and memories | `Brain` | `evidence_flow` | `FindingFlow_proofs` |
| the submission trackers | `Submissions` | `evidence_flow` | `FindingFlow_proofs` |
| the audit log | `AuditLog` | `control` | `Control_proofs` |
| the first dashboard's scans | `DashboardScan` | `control` | `Control_proofs` |
| its settings and sessions | `DashboardSettings` | `control` | `Control_proofs` |
| model calls under ceilings | `LLMBudget` | `control` | `Control_proofs` |
| token buckets | `RateGovernor` | `control` | `Control_proofs` |
| bounded event queues | `EventBus` | `control` | `Control_proofs` |
| a scan's persisted budgets | `BudgetLedger` | `control` | `Control_proofs` |
| migrations and their ledger | `Migrations` | `control` | `Control_proofs` |

Three modules put several components beside one another: `MCStaged`,
`EvidenceFlow` and `Control`. Their variable `part` is chosen at the start and
says of which module the behaviour is; the variables of the other modules stay at
a fixed value. They hold the assumptions on the constants of their parts, so that
the theorems and the runs (`MCEvidenceFlow` and `MCControl` only give values) are
about one specification, `SuiteSpec`. Components with states of their own are not interleaved, which would
multiply states and show nothing: what two components share is inside one
module (the audit log in `Authorization`, the stored row and thread in
`ScanLifecycle`, artifacts and bundles in `EvidenceBundles`). Most modules keep
their state in four records: `db`, what survives a crash; `mem`, what does not;
`proc`, where each actor is and what it has read; `hist`, what a property needs
to remember and no code keeps. The properties of a part are stated in its module
and named again, together, in the suite (`RateConforms` of `Control` is
`RateConforms` and `NewPolicyHolds` of `RateGovernor`).

### TaskScheduler, DagExecution

One action per stretch a task or the calling coroutine runs
between two suspensions, which is asyncio's own grain of atomicity. `pc[t]` is
where a task is suspended (`new`, `deps`, `global`, `tool`, `rate`, `run`,
`done`), `outcome[t]` what its handle holds, `status[t]` the `TaskState` the UI
sees, `mustCancel` the tasks asyncio will resume with `CancelledError`,
`gather` the future the caller awaits. Cancelling a task that awaits another
one cancels the awaited one in its place (`Cancellable`); a runner in
`Stubborn` may swallow a cancellation, finish, or fail.
`WeightOf` is the weight of a set of tasks, and `Upstream(t)` what `t` waits for,
itself or through others. The graph, weights and caps are constants; `GraphAssumption` says what
`_validate` has accepted, with `_topological_order`'s result as `Order`.

`DagExecution` is the promise without asyncio: a task works at most once, after
everything it needs is over, within the caps; the execution closes when all is
over. `TaskScheduler` implements it (`RefinesDagExecution`, and with fairness
`KeepsDagPromise`).

### ScanLifecycle

`creator`, `stopper[s]`, `worker` and `stream` are the program points of the
create request, the stop requests, the scan thread and the stream generator.
`row`, `authorized` and `log` are SQLite (one transaction a step, they survive a
crash); `handle` and `cancelEvent` are memory. `CreateRaises`, `EarlyRaise`,
`ClosingRaises` and `StopRaises` are calls that raise, placed where the code
has, or has not, a try block; `StartRaises` is `thread.start` raising after the
handle was registered, outside of any; `broke` says where the exception was that
ended the thread, so that `VerdictStands` and `ScanEnds` can ask for the verdict
in every other case. `Crash` ends the process. `completed` stands for
both `completed` and `completed_with_errors`, which every line treats alike.
The browser is an EventSource: it reconnects with the id of the last event it
received. The scheduler inside the thread is abstract here: tools are started
and end, as `TaskScheduler` allows.

### ToolRun

`run_tool`'s attempts (`attempt`), the wrapper's backends and tries (`backend`,
`try`) and the process of the moment (`child`). The outer `wait_for` has the
same timeout as the ones inside it and starts first, so `Timeout` strikes at any
of the wrapper's awaits and no later backend is tried after it; the inner
timeouts are left out. `Cancel` is the scheduler's cancellation, `PollCancel`
and `Pause` are where the operator's stop is looked at. A process is the one
asyncio starts: what a container runtime or a remote worker goes on doing is
outside the code.

A cancellation while run_tool sleeps between two attempts leaves the `tool_runs`
row at `running`, since the sleep is in an `except` clause; `RowSettles` says
this, and a store that refuses the output of a failed run, are the only ways.

### EvidenceStore, EvidenceRoot

`art` is the table of artifacts with the key of each and whether it is
tombstoned, `keys` the key ring, `evidence` what a tool run refers to, `log` the
custody records, `roots` the sealed roots. `writer` is the scan's own thread,
with its place in `put`, `record_execution_result`, `seal_scan` or
`delete_scan_evidence`; one writer is enough since only that thread stores, and
deletion comes after it. Readers of the API interleave with it. `Stop` is a
refused audit record or a death between any two statements. The log is a set:
the order of its records is `AuditLog`'s subject.

`EvidenceRoot` is the Merkle root itself with its odd levels: `Levels` is a
recursive function of the rounds of the loop, and the leaves are sorted by rank
(`InOrder`). SHA-256 is injective, the digest of two nodes being their pair.

### AuditLog

The lines of the file, whether the last one is complete (`ended`), how many
survive a death (`synced`), and the threads inside `append`. `WriteShort` is a
write that raises after a part of the line, `Die` loses or cuts what was not
synced. What is written goes behind the last byte, so a line without newline and
the next record become one line that is neither. A death that takes back such a
merge is not modelled. `verify_chain` is the operator `Verified`.

### StageResume, ReleasePipeline, StagedWork

Both components commit the outputs of a fixed list of stages. `StageResume` is
`ScanResumeCoordinator` with the processes that drive it: a dead one is replaced
while the old one may live on, so two can be at the same stage, and `commit`
reads the state before it inserts; `outputs` is what `run_stage` returned to each
process, which after a lost race is the process's own result and not the stored
one. `ReleasePipeline` is
`V3PipelineCoordinator.run`, called several times for one scan: a plain INSERT
decides between two runs, and every transition is a row, an audit record and an
event that may each be missing. `StagedWork` is what both promise: stages are
committed one after the other, once, for ever.

### Authorization

`store` holds what is on disk: the target's scope, the consents, the scans with
the consent each recorded, and the audit records that allowed something. A
worker runs on the target row its request read (`workers`); a later request
checks the row as it is then against the recorded consent (`asks`). `Verify` is
`ConsentAuthority.verify`: known, unexpired, signed for exactly this scope.
The check and its record are two steps (`Check` and `Log`, `StartScan` and
`LogStart`, `CheckTool` and `LogTool`), as other requests get in between.
`ListFindings` is what needs a session and no leave: the lists of findings and of
reports of the first API, its report of all findings, and the v2 audit, whose
comment says so (`v2_api.py:715-717`); these uses are marked as lists, and
`AuthorizedOnly` claims nothing of them. `Denied` stands for every control that refuses. `used` remembers what was done
to a scope, and the record that allowed it. Signatures are abstract: a consent
is its scope and its end.

### From a tool to its evidence: ToolResolver, ToolProvisioning, CaptureProxy, TargetProbes, Redaction

`ToolResolver` walks the backends of each tool as `resolve` does, through the
15-second caches that all requests share without a lock; what is there may come
and go at any time (`Flip`). `ToolProvisioning` writes files in place and keeps
objects by hash; a process may end inside any of them (`Crash`), and a bundle
may be damaged on its way. `hist.dirty` names, file by file, what the code takes as
it finds it. `CaptureProxy` applies its rules in order, while a
target is deleted, its scope narrowed or the event sink lost between two hooks.
`TargetProbes` expands a range under its cap in the order of a seed that each
call is given and nothing stores (`Shuffle` is any order for each seed), breaks off
and begins again, and captures each probe in five steps that may each fail. `Redaction` takes matches
left to right over a text of a few places and writes the table, the view, the
map and the run, in four steps.

### From evidence to a report: EvidenceBundles, FindingCases, DuplicateLookup, ScanReports, Brain, Submissions, Web3Audit

`EvidenceBundles` has the assemblers of two scans that observed one finding, and
a reader that resolves while artifacts are tombstoned. `FindingCases` writes the
case per fingerprint and the observation per scan, and reads both in the two
queries of a report. `DuplicateLookup` pages through a history that may be
longer than its limit or go in circles. `ScanReports` classifies, verifies and
renders in separate reads; a scan may observe a finding in two tool runs. `Brain` stores chains and hypotheses row by row with
the ids a model chose, and a memory in two stores, of which only the vector's insert
is under a lock (ids are fresh, so no two adds disturb each other). `Submissions` has the card,
whose transition checks a row read on another connection, and the report, whose
row, audit record and event are three transactions. `Web3Audit` pins a block
while the chain grows and asks fetchers in a fixed order; `Record` and
`Attribute` pass its result, and a merged finding, on to the store, which no module
of `app/` does yet: the tests of the store do.

### DashboardScan, DashboardSettings, LLMBudget, RateGovernor, EventBus, BudgetLedger, Migrations

`DashboardScan` is the thread of `_run_scan` with its handlers, each of whose
statements may raise, the start of the thread and its first UPDATE included, the
status each message tells, the shared set of cancelled scans, and the bounded queue
that several threads fill with two calls. `DashboardSettings` writes the
settings file in two steps, so a second save can read a file that is empty.
`LLMBudget` interleaves coroutines at their awaits only; `Served` is what
`complete_json` makes of prose: the rules at once, or `InvalidModelResponse`. `RateGovernor` keeps
every bucket its key ever had, since a caller may still hold an old one. In
`EventBus` a close wakes nobody; the open stream of a closed bus is reachable.
`BudgetLedger` gives each statement a connection of its own, as the code does.
`Migrations` plans first and carries out later, while another start, a rollback,
an edited file or a restored copy changes the ledger. `made` is what was ever
carried out and stays: a down script may not drop a table, and the one there is
keeps its own; `undone` is what a down script was run for since. A copy and its
restoring take the whole file, with the release migration's record.

## 3. Runs

| Run | Question | Bounds |
|---|---|---|
| `scheduler` | permits, progress, drain, verdict, refinement, and that `execute` closes | 5 tasks in the graph `build_tool_nodes` and `run_p0_scan` build: two passive tools that share a key, an active one after them, another tool, a stage after all; 2 global permits, 2 cancellations, 2 runners that may swallow a cancellation |
| `scan` | replay, registry, verdicts; scans end and events arrive | 1 stop request, 1 tool, 2 faults or crashes, 1 broken connection, pages of 2 events |
| `scan_stop_race` | an accepted stop leads to a terminal row: **violated** | 1 stop request, no fault |
| `tool_run` | processes, bounded attempts, settled row, no retry of a denial, termination | 2 backends, 1 retry at both levels, 1 raising call |
| `staged` | commits in order, once, never refused; durable reports; completion | resume: 2 processes, 3 stages, 2 failures or deaths; release: 2 runs, 3 stages, 1 failure, a cancellation at any time |
| `evidence` | readability, custody, deletion, roots | 2 artifacts, 2 keys, 1 tool run, 1 reader, 1 seal, 1 deletion, 1 stop of the writer |
| `evidence_flow` | one promise of each part from a consent to a submission | per part: 1 or 2 actors, 2 targets, scans, tool runs, seeds or findings, and the faults named in the instance; every set of up to 6 leaves of the Merkle root, every rule list of length 2, every interval of 4 addresses in a space of 8, every three-page history |
| `control` | one promise of each part that controls or records the work | audit: 3 threads, 4 lines, 3 short writes, failed syncs or deaths; dashboard: 2 scans, a queue of 1, 2 raising statements; model: 3 calls of 2 scans, 2 providers, 1 retry; rate: 2 callers, 2 policies, 3 ticks; bus: 2 subscribers, a queue of 2, 4 events; budget: 2 workers, 4 calls, a crash; schema: 2 processes, 2 plans, 3 versions, 1 edit; settings: 2 requests, 3 saves, 1 restart |
| `audit_short_write` | what `append` returned is in the chain: **violated** | as the audit part of `control` |
| `interceptor` | a modification that was announced is applied: **violated** | 1 flow, lists of 2 rules |
| `hypothesis_ids` | a stored hypothesis is in its target's scope: **violated** | 2 targets, 1 short id |
| `hard_ceiling` | nothing is spent above a ceiling: **violated** | as the model part of `control` |

What the properties of each run say.

- `scheduler`: `PermitConservation` (held permits and free ones add up on every
  way out of a task), `VerdictIsSettled` (when `execute` is over no task lives
  and its terminal event agrees with how they ended), `CancelIsNotLost`,
  `RefinesDagExecution`, `KeepsItsPromises` (the DAG execution closes; progress
  is exactly the ended weight; while the drain runs no task starts that did not
  wait, itself or through others, for a runner that need not obey).
- `scan`: `GapFreeReplay`; `VerdictIsTheEnd` (nothing works or starts after a
  verdict; a handle is registered exactly while the thread is alive, or when it
  could not be started; once the thread is gone its last verdict is in the row,
  unless a stop request wrote over it, and last in the log, except after an
  exception before the try block or inside an except clause); `EventsArrive`;
  `ScanEnds` (a scan with a row leaves the registry with a verdict in row and log,
  with the same exceptions, a failed request and the end of the process).
- `tool_run`: `ProcessesAreHeld` (no process outlives its run, at most one starts
  after the stop, what is returned is stored), `RevocationEndsWithAttempt`,
  `RunSettles` (attempts bounded by the product of the three counts; the row
  settles but for the two ways below; the run ends).
- `staged`: `CommitsAreAccounted` (of the release pipeline, what is reported or
  returned is stored; of `ScanResumeCoordinator`, no commit is refused, callbacks
  repeat for a failure or an overlapping driver only, and `run_stage` returns the
  checkpoint or the caller's own result), `ImplementsStagedWork`, `WorkEnds`.
- `evidence`: `LiveIsReadable`, `CustodyIsKept` (what a run names is in the log;
  at most what a stop interrupted is missing; roots are logged),
  `DeletedIsUnreadable`.
- `evidence_flow`: `AuthorizedOnly`, `PlanWasTrue`, `ReadyIsWhole`,
  `CapturedWasSent`, `ProbesAreAccounted`, `NoMatchStaysWhole`,
  `VerifiedIsExact`, `BundlesResolve`, `AuditIsWitnessed`,
  `ReportListsItsCases`, `HistoryReachesItsEnd`, `ReportsAreWhole`,
  `MemoryIsJoined`, `WorkflowIsKept`.
- `control`: `TrailHolds`, `ScanIsTold`, `CallsAreBounded`, `RateConforms`,
  `NewestWait`, `UseIsKept`, `SavedSecretStays`, `LedgerIsTheSchema`.

The comment before each definition says what it states. Where the code lets go
of something the property says exactly when:

- `UseIsKept` excepts two consumptions that overlapped, and a `mark_complete` that
  had read its row before the budget was exceeded.
- `SavedSecretStays` excepts saves that overlapped, were cut off or came through
  the first API.
- `ReadyIsWhole` excepts, tool by tool: a tool whose own binary was half when its
  installer failed, when a process that installed, restored or imported it ended,
  or when it was recorded or exported; and one restored from an object that was
  kept or imported beside another process.
- `ScanIsTold` excepts a deleted target; the start of the thread or its first
  UPDATE raising, which leaves the row pending; the report of a failure raising,
  which leaves it running; and the report of a failed tool run raising, which
  leaves that run open. It says which of these states each leaves.
- `CallsAreBounded` bounds the overspending and does not deny it (`hard_ceiling`
  does), and prose where JSON was asked for ends the order of providers.
- `LedgerIsTheSchema` excepts from the order of the ledger (not from the account)
  the restoring of a copy and the step of a process whose plan was overtaken.
- `ReportsAreWhole` lets the draft of the scan that made a case take its narrative
  from another tool run than its evidence.
- `ProbesAreAccounted` speaks of the plans that have one seed.
- `WorkflowIsKept` excepts a card that a concurrent move overwrote.
- `AuthorizedOnly` is about tools, v2 reports and the reads that ask for leave.

Why the bounds are enough. Two cancellations are what it takes to cancel a
drain, one stop request reaches every point of a scan's life, two processes or runs to be at one
stage. Two faults reach every except clause and then raise inside it, and one crash
reaches every step; two
failures of a driver make a replacement fail, too. Pages of two make a replay
take several pages. Two backends and two tries at each level meet each loop at
its beginning, inside and at its end. Six leaves make the Merkle loop meet an odd
level twice. Three faults in the audit log are a short write, a death that saves
it and a second one. Two seeds are enough to mix orders, two tool runs to mix narratives. Races between
a read and a later write need two actors, and a finding, case or bundle that is shared needs two scans; three calls of two
scans meet the scan's and the day's ceiling apart; a queue of one or two is full
at once, and a third event makes it drop. Three versions make a gap in the
ledger possible, and three buckets a caller that is two policies late. What the
bounds cannot show, the proofs do (section 4).

Findings.

- `scan_stop_race`: `v2_scans_stop` writes `cancelling` after `runtime.stop`
  answered, without a look at the row. When the thread writes its verdict
  between the two calls the row stays at `cancelling`, the stream polls for
  ever, and a later stop is refused with 409.
- `audit_short_write`: `_last_hash_unlocked` takes a last line without newline
  for a record, and `append` writes behind it. After a write cut just before its
  newline the next record, whose hash is returned, shares that line; neither can
  be read, `verify_chain` fails and every later append is refused.
  `LossIsSeen` proves that this is all that can be lost.
- `interceptor`: every matching rule overwrites the decision's action, and the
  hook applies a modification only when the last action is `modify`. A request
  that a modify rule and then a tag, replay or forward rule match is announced
  with its modified address and forwarded as it came.
- `hypothesis_ids`: `create_hypothesis` upserts by the short id a model chose.
  The scan of another target that gets the same id replaces the endpoint of a
  row that keeps the first target.
- `hard_ceiling`: the repository calls the token ceilings hard (`budget.py:30`,
  `:140`, `:266`). They are checked before the awaited call and charged after it,
  so calls that run together pass on one usage and spend above them.
  `CallsAreAlwaysBounded` proves by how much at most.

Seen while modelling, and without a run:

- `duplicates.py:297` names `json.JSONDecodeError` and the file imports no
  `json`: every failure of the disclose.io lookup surfaces as a `NameError`
  (`DiscloseFails`).
- A provisioned binary that fails its pin stays in place, and a second attempt
  finds it and reports it provisioned (`CheckPin`, `Provision`).
- The check before a scan of named tools (`v4/api.py:177`) reads the environment
  of the process, the plan the saved settings as well: a key that is only saved
  is in the plan and blocks the scan (`PassGate`).
- `EventBus.close` leaves a subscriber waiting in `queue.get` for ever.
- A text without JSON is charged and cached before it is parsed, so every
  repetition is served the unusable answer until it expires (`Answer`).
- A stop request before the thread is registered is answered 409 and the scan
  runs; evidence that is put again after its deletion is found by its hash and
  cannot be read; a deletion that stopped after its tombstones never logs them.
- A section of a scan's report shows the latest bundle of any scan that observed
  the case (`WriteSection`).
- The release migration's script runs and commits before its checksum is
  compared (`ApplyRelease`).
- When `thread.start` raises, the handle stays registered (`v2_pipeline.py:427-428`):
  a stop request is answered 202 for a scan that has no thread, and the row stays
  at `cancelling` (`StartRaises`). In the first dashboard the row stays pending, as
  after a first UPDATE that raises (`server.py:234`, `:415`).
- The docstring of `run_stage` says it executes a stage once; two overlapping
  drivers both execute it, and the one whose row is ignored returns its own
  result (`Return`).
- The cap of hosts holds for one seed: a plan that is begun again with another one
  attempts hosts that were recorded as skipped, up to the cap again (`Order`).
- `complete_json` turns to its rules, or raises, on the first provider's prose, whatever
  providers are left (`Served`).

Fairness. `scheduler`: asyncio resumes every ready task and the driver; a runner
ends because wrapper and stage calls have timeouts. `scan`: the server's
threads are scheduled, a tool ends in its timeout, the browser reconnects; no
stop request and no fault is assumed to happen. `tool_run`: the task is resumed,
and a process ends or its timeout fires. `staged`: a live process goes on and
somebody starts a dead one again; a run goes on, and one that raised is called
again; without the repetition a run that lost the race for a
stage would simply have failed.

The other modules state no fairness: their properties are about what has
happened, and nothing in the code promises that a request, a browser or a
provider comes back.

`CHECK_DEADLOCK FALSE` is set where the system may stop: the scan, whose create
request may fail before anything was saved, the proxy and the analysis, which
end with their flows and targets, and the two runs of several parts, which stop
at their bounds. The other runs check for deadlock.

## 4. Proofs

Every safety invariant and every action property of the passing runs is a
theorem, for arbitrary values of the constants under the `ASSUME`s named below.
Each rests on an inductive invariant: the property says what a caller sees, the
invariant also says what the actors hold in between, which is what the
property needs to survive their next step. A section of a proof module gives
the invariant, one lemma per action or per kind of step, and the theorem; where
many actors take the same steps, one lemma says what a step of one of them
leaves alone for the others.

### One module, one component

`TaskScheduler_proofs`: `SchedulerInv`. Permit conservation alone is not
inductive: it needs to know which tasks hold which permit (`StatusOfPoint`); the
verdict needs what the gather future says of the tasks (`GatherKnowsTasks`,
`DriverKnowsGather`); the dependency property needs what a task inside the loop
has already walked (`WalkedDependencies`). From it follow `PermitsConserved`,
`DependenciesFirst`, `NothingLeftBehind`, `VerdictsAreTrue`, `CancelKept`,
`HandlesResolveOnce`, `VerdictSettled` and `ImplementsDagExecution`. Two more
invariants stand on it. `ProgressInv` says that the weight shown is the weight of
the tasks that were counted, and that a task that returned was counted
(`ProgressAlwaysExact`); weights are sums over a set, so `WeightOf` counts pairs
of a task and a unit of its weight, which `FiniteSetTheorems` can add. `DrainInv`
says that when the drain begins every task that awaits no live one is marked for
cancellation, and that what is not marked later waits behind a marked one, has
seen it cancelled, or waits, itself or through others, for a runner that need not
obey (`DrainStartsNothing`). The last case is needed for a dependency of a
dependency as well: a tolerant task behind a task that fails because a stubborn
runner failed does start.

`ScanLifecycle_proofs`: `LifecycleInv`. `CreatorKnowsThread` and `ToolsInExecute`
say which thread exists and where tools run; `VerdictIsLate` that a terminal row
or event belongs to a closing thread; `StreamWithinLog` that a stream holds only
what is in the log; `ThreadReported` what a thread has written by how far it is and where it was
broken off. From it follow `ReplayHasNoGap`, `RegistryKnowsThreads`,
`NoUnauthorizedThread`, `VerdictIsLast`, `VerdictsStand`, `TerminalScansAreQuiet`
and `VerdictEndsWork`, which joins them.

`ToolRun_proofs`: small invariants instead of one. `ProcessInv` (a late process
exists only if the stop came while it was being started) gives
`ProcessesAreReaped` and `CancelStopsSpawning`; `ConsentInv` (past an attempt's
guard a revocation dates from this attempt) gives `DenialsAreFinal`; `RunInv`
gives `TypeCorrect`, a nap or backoff being taken only before a last try;
`BackedInv` gives `ReturnedRunsAreBacked`. `SpawnsInv` counts the processes of the
attempts before, of the backends before in this pass, and of the tries before at
this backend, so that the three counts multiply (`RetriesMultiply`); `RowInv` is
the little that `RowsSettle` needs: before its first statement a run has no row.

`StageResume_proofs`: `ResumeInv` says that the rows are exactly the stages up to
the last one (`Prefix`) and that no process is more than one stage ahead
(`NotAhead`), which is why `commit` never refuses one. It gives
`CommitsAreAccepted`, `StagesBuildOnCommitted` and `ResumeImplementsStagedWork`.
`WorkInv` counts the pairs of a process and a stage it is past: each is a callback
that ran, and a further one needs a fault; `ReturnInv` says what each process returned and
who wrote each row. For the release pipeline `ReleaseInv`
says that a run under way holds every earlier checkpoint (`RunsHold`), that an
event was audited, what was audited has its row and what has its row is committed
(`ReportsHold`), and that every stage whose row is missing, with nobody about to
write it, cost a fault (`LossInv`). Together they are `CommitsAlwaysAccounted` and
`BothImplementStagedWork`.

`EvidenceStore_proofs`: `StoreInv` (a key the writer took stays active until it
is used; a deletion reaches the keys only when all is tombstoned) gives
`LiveArtifactsAreReadable`; `DeletionInv` (what a deletion record covers is
tombstoned under a destroyed key for ever; a reader holds the key id of its row)
gives `DeletedContentIsUnreadable`; `CustodyInv` (what `put` returned is stored
and logged, and each artifact without a record was interrupted by a stop of its
own) gives, with `SealedRootsAreLogged`, `CustodyAlwaysKept`.

### Control_proofs

| Part | Invariant | What it adds to the property | Theorem |
|---|---|---|---|
| audit log | `LogInv` | whoever is about to write continues the tail (`MineContinues`); a record tells its own line (`LengthTellsPlace`); a line without newline was not acknowledged (`UnendedNotAcked`); what was acknowledged is within the synced lines or in a merged one (`Custody`) | `ChainNeverForks`, `LossIsSeen`, `TrailIsOneChain` |
| dashboard scan | `DashInv` | what each row, run and message is at every point of the thread (`DashSettled`); older messages are ahead in the channel (`DashTold`) | `ScanIsAlwaysTold` |
| model calls | `CallsInv` | what is spent leaves room for the calls in flight (`CallsRoomLeft`); which providers had all their attempts (`CallsTried`) | `CallsAreAlwaysBounded` |
| token buckets | `RateInv` | what a bucket granted since any of its grants, and the tokens it has, are covered by its burst and the refill since (`RateBucketsHold`); the current bucket is of the last policy (`RateIsFresh`) | `RatesConform` |
| event bus | `BusInv` | whom the bus knows, and that nothing waits or was read before a stream begins; the property itself carries the order | `NewestAlwaysWait` |
| budgets | `BudgetInv` | without overlap at most one worker writes, and what it read is still there (`BudgetOneWrites`); nobody holds a snapshot older than an exceeded budget (`BudgetNoOldSnapshot`) | `UseIsAlwaysKept` |
| settings | `SettingsInv` | one save at a time, and it will write the secret that is saved last (`SavesInTurn`) | `SecretsAreKept` |
| migrations | `MigInv` | a plan was read and lies above what its process last saw applied (`MigRead`, `MigOrdered`); the ledger accounts for the schema, in the database and in every copy (`MigExact`) | `LedgerIsAlwaysTheSchema` |

### EvidenceFlow_proofs and FindingFlow_proofs

| Part | Invariant | What it adds to the property | Theorem |
|---|---|---|---|
| consent | `AccessInv` | every record of the log is backed by its consent, which never changes (`LogBacked`); whoever is between a check and its record holds what was verified, and whoever is past it the record (`WorkersHold`, `RequestsHold`) | `UsesAreAuthorized` |
| proxy | `ProxyInv` | what a flow looks like at each hook (`ProxyPlace`) | `CapturedWasAlwaysSent` |
| web3 audit | `Web3Inv` | whom a resolution has asked, at which block (`Web3Work`) | `AuditIsAlwaysWitnessed` |
| reports | `ReportsInv` | a case of the scan is still due, ranked or written, by falling scores (`ReportsOnWay`) | `ReportsAreAlwaysWhole` |
| redaction | `TextInv` | the chosen matches do not overlap, and none that was free is left out | `MatchesNeverStayWhole` |
| evidence root | `RootInv` | equal roots over equally many leaves have the same leaves | `VerifiedIsAlwaysExact` |
| resolver | `ResolverInv` | a kept answer is at most its TTL old, a plan is of answers of its own time | `PlansWereTrue` |
| provisioning | `ToolsInv` | of every tool and object that is not set apart: a half binary is open for writing, a recorded binary and an object are whole (`BinaryHolds`, `ObjectHolds`), and what a bundle that was accepted copies is whole (`CopiesAccepted`) | `ReadyIsAlwaysWhole` |
| probes | `ProbesInv` | a plan's order is that of its seed and names each host once, what a seed attempted is within the first of its order, every host passed is recorded | `ProbesAreAlwaysAccounted` |
| bundles | `BundlesInv` | the last row of a scan is what its last assembly returned; a flow that was in one row is in every later one | `BundlesAlwaysResolve` |
| cases | `CasesInv` | a case has a number of its own; what a scan reported is observed by it or was first seen by it (`CasesObserved`) | `ReportsListTheirCases` |
| lookup | `LookupInv` | a lookup that still fetches is on a page and has returned nothing | `HistoriesReachTheirEnd` |
| brain | `BrainInv` | a memory on its way to its row has its vector; what is about to be stored as an edge joins two findings of one target | `MemoryIsAlwaysJoined` |
| submissions | `CardsInv` | what a request checked is what its record and event will say (`CardsWork`); events are the path (`HistoryIsThePath`) | `WorkflowIsAlwaysKept` |

`VerifiedIsAlwaysExact` has the longest argument. A round of the Merkle loop is
injective on lists of one length, since the digest is the pair of its nodes; the
levels are a function of the round, so induction over rounds (with the set of
rounds that fail, and its least element) gives that equal roots over equally
many leaves have the same lists of leaves; that a level loses a node a round
gives that the last level is one node; and a sorted list tells its set, by rank.
The count in the row is needed: without it an odd level and one whose last node
is there twice have the same root.

### Assumptions

TLC evaluates every one of them on the instances. They are what the code
guarantees of its inputs:

- `GraphAssumption`, `SpecAssumption`: what `_validate` has accepted, and
  `_topological_order`'s result.
- `BoundsAssumption`, `RunAssumption`, `ResumeAssumption`, `StoreAssumption`,
  `LogAssumption`: limits and bounds are counts, there is a stage, `None` is no
  row.
- Of `Control`: rates, bursts, sizes and versions are counts, a queue has room
  for an event (`QueueAssumption`), the words the form shows for a secret are no
  secrets (`WordsAreFree`), some model text is not empty, and no provider is asked for more than the longest
  one, nor is more projected when none is enabled (`CallsAssumption`).
- Of `EvidenceFlow`: a lookup begins at a page, limits are counts, a seed's order
  has each host once (`SeedsShuffle`), rules are ranked, binaries and cached objects are different files, hashes are ordered and
  no flow has an artifact's (`HashesAreOrdered`), scan ids are not the word "any",
  rows are finitely many, scores are bounded as `_score` bounds them, every tool
  has a backend to try (`ChainsAreTried`), an answer is kept for some time.

SHA-256 and the signature of a consent are injective by the shape of the model,
which no proof could give.

### What the proofs changed in the models

`EvidenceRoot` sorted with a recursive operator; its levels are now a recursive
function of the round and its lists are sorted by rank, and TLC compares it on
the same sets of leaves as before. `TaskScheduler` summed weights with a fold of
the community modules, about which nothing could be proved; see `WeightOf` above.
`NoStartWhileDraining` spoke of direct dependencies only and is false for graphs
that are not transitively closed, which the run's graph happens to be; it now
speaks of `Upstream`. `ReleasePipeline`'s events and `TargetProbes`' hosts had
`CASE`s whose guards overlap, of which TLC takes the first and a proof any.

### Only model-checked

Liveness, which is leads-to under fairness and outside the prover's reach:
`EventsArrive`, `ScanEnds`, `WorkEnds`, and the closing half of two properties
whose safety half is proved, `KeepsItsPromises` (that `execute` closes) and
`RunSettles` (that a run ends). The properties of the five violated runs have
counterexamples.

## 5. Plan

1. An abstract specification of a scan as its clients see it (created, reported,
   one verdict), which `ScanLifecycle` and `DashboardScan` would both implement,
   with the refinements proved step by step.
2. Abstract specifications for the parts that have only invariants: a chain that
   grows by one acknowledged record for `AuditLog`, a register per key for
   `BudgetLedger`.
3. Declared targets and pinned replays of `v3/targets.py`, the bounded channel,
   the structured log and the cleanup of `ops/runtime.py`.

## Not modelled

Parsing, formatting, scoring, prompts, CVSS, disassembly and layout are functions
of their input without state. Encryption is outside the checkers' reach and
stands as "readable with the key". Network adapters, the remote worker, auth
tests, the browser, packaging and the desktop shell are sequential I/O against
something that is not in this repository. The read-only endpoints only show what
the modelled operations stored. `PROJECT.json` lists every part with its status
and what of it is left out.
