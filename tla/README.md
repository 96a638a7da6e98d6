# A TLA+ model of ThreatMapper

ThreatMapper finds vulnerabilities, secrets, malware and compliance problems on
hosts, containers, images and cloud accounts. The scanners are separate tools;
the program's own core is the *orchestration*: requests of users become rows in
a graph database, agents poll for work, scanners publish statuses and results
to Kafka, a worker commits them in batches, and periodic jobs repair what was
lost on the way. That core is spread over several processes which share nothing
but the database and the topics, and hardly any of it is reached by a unit
test. Around that core the project models three more places where several
parties act at the same time: the ingestion pipeline of the worker, the process
supervisor of the agent, and, in the web console, the session that every call
goes through and the topology page. Everything is checked with TLC on small
instances; all its safety properties are proved with TLAPS for every instance,
two of them under restrictions of the environment that the theorems state.

`PROJECT.json` lists the components, the runs, the lines each definition
models, the hazards and the theorems.

## 1. Inventory

| Component | Code | State it keeps | Operations |
|---|---|---|---|
| Scan requests | `deepfence_server/ingesters/scan_status.go`, `reporters/scan/scan_result_actions.go`, `handler/scan_reports.go` | scan rows (status, retries, updated_at), per node `latest_scan_id` and status | AddNewScan, StopScan, MarkScanDeletePending, DeleteScan |
| Agent polling | `deepfence_server/controls/agent.go`, `deepfence_bootstrapper/router/openapi_client_controls.go` | none in the server; the agent's free slots | GetAgentActions (stop, start), GetPendingAgentScans at start-up |
| SBOM tasks | `deepfence_bootstrapper/router/generate_sbom.go`, `deepfence_worker/tasks/sbom/*.go` | jobs of the scanner, queued ScanSBOM tasks | StartVulnerabilityScan, GenerateSbom, StopVulnerabilityScan, ScanSBOM, their status reports |
| Status ingestion | `deepfence_worker/ingesters/common.go`, `vulnerabilites.go` | none between batches | CommitFuncStatus, statusesToMaps, splitInprogressStatus |
| Retry and clean-up | `deepfence_worker/cronjobs/neo4j.go` | none | RetryScansDB, CleanUpDB |
| Ingestion pipeline | `deepfence_worker/processors/*.go` | consumer position, per topic a channel, a buffer, a breaker | pollRecords, processRecord, work, commit |
| Agent upgrade | `deepfence_server/controls/version.go`, `agent.go`, `cronjobs/neo4j.go` | SCHEDULED and VERSIONED edges | Schedule, ExtractPending, Complete, Retry |
| Cloud scans and refresh | `scan_status.go`, `agent.go`, `ingesters/cloud_*.go` | refresh and scan status per account | AddNewCloudComplianceScan, ExtractRefreshResourceAction |
| Report ingestion | `deepfence_server/ingesters/agent.go` | five bounded channels, breaker, push back | Ingest, runDBBatcher, runDBPusher, push back update |
| Supervisor | `deepfence_bootstrapper/supervisor/process.go` | per process: `started`, a mutex, channels of the last start | start, stop, restart loop, upgrade, StopAllProcesses |
| Console session | `dashboard/src/utils/{api,storage,auth}.ts`, `features/auth`, `deepfence_server/handler/auth.go` | token pair in local storage (per browser), refresh promise (per tab), revoked tokens (server) | apiWrapper, refreshAccessTokenIfPossible, login, logout, route guards |
| Topology page | `dashboard/src/features/topology`, `deepfence_server/reporters/graph` | filters, last answer, last action, the picture | expand, collapse, revalidate, apply an answer |
| Cron scheduler and task queue | `deepfence_worker/cronscheduler`, `deepfence_utils/directory/worker.go` | cron entries per namespace | addScheduledJobs, RemoveJobs, Enqueue |
| Console workload, diagnostic logs, audit logs | see `PROJECT.json` | | |
| Other pages of the console, generated API clients, reports, registries, integrations, threat graph, user administration, vendored agents | | | not modelled |

How they interact:

```
 user --start/stop/delete--> server --transactions--> graph database
                                ^                        ^   ^
 agent --poll(free slots)-------+                        |   |
   ^  <--start/stop commands----+                        |   |
 scanner --status, results--> Kafka --> ingester --------+   |
                                        (batches)            |
                         scheduler --> RetryScansDB, CleanUpDB
```

What is hard here:

- **Interleaving.** Every request handler, poll, batch and job is a transaction
  of its own (some are several), at the database's read-committed isolation.
- **Failure.** A poll's reply is lost after the database has recorded the
  hand-out; an agent restarts; the worker dies between a commit and the commit
  of its Kafka offsets; a batch is dropped after its retries.
- **Order.** A status was produced before a stop and is committed after it; one
  batch holds several statuses of a scan and is written through a Go map; the
  two stages of a vulnerability scan report on it independently of each other.
- **Time.** RetryScansDB cannot tell a slow agent from a dead one.
- **Shared memory.** Goroutines of the supervisor read and write `ph.started`,
  some of them outside the mutex, and meet on unbuffered channels. Tabs of a
  browser share local storage and nothing else.
- **Stale answers.** The console applies an answer to a state that has moved on:
  filters changed at the click, a session renewed or ended by another call.
- **Limits.** Bounded channels in front of one consumer goroutine; slots of an
  agent that are counted in one step and used in another; three retries.

What makes each part correct:

- *requests:* a stop before the first hand-out is final, a later one is answered;
  what is deleted does not come back; a node never points at a scan that is gone;
- *polling:* no agent gets more than the slots it counts; a scan is handed out a bounded
  number of times;
- *status ingestion:* the terminal status of a batch wins; a cancellation is
  not overwritten by a late report;
- *SBOM tasks:* what shows as running or being cancelled has something under way
  that ends it;
- *jobs:* every scan ends, and the node shows it;
- *pipeline:* records are applied in order, in batches of bounded size, without
  gaps, and every record is settled;
- *supervisor:* one copy of a process at a time; calls return;
- *session:* a refresh token is exchanged once per tab; no failure ends a session
  that could be renewed; every call comes back to its caller;
- *topology:* the picture has nothing that the last answer has not; an expansion
  shows what it brought.

## 2. Modules

| Module | Models |
|---|---|
| `ScanStatus` | the statuses and the reduction of one batch (`statusesToMaps`, `splitInprogressStatus`) as set expressions |
| `StatusBatch` | the loop of `statusesToMaps`, message by message; justifies `ScanStatus` |
| `ScanLifecycle` | a scan from request to deletion: server, agents, both stages of the scanner, status topic, worker, cron jobs |
| `ScanContract` | abstract specification: the moves of a scan that users may rely on whatever fails |
| `IngestPipeline` | one consumer, and per topic channel, buffer, commit, breaker; database outages, crashes |
| `TopicDelivery` | abstract specification: what the pipeline promises per topic, and what `ScanLifecycle` assumes of the status topic |
| `Supervisor` | one supervised process: mutex, restart loops, calls, shutdown |
| `AuthSession` | the console's session: calls, shared refresh, tabs, the server's tokens |
| `TopologyGraph` | the topology page against an infrastructure that changes |
| `MCScanLifecycle`, `MCIngestPipeline`, `MCTopologyGraph` | the instances for TLC; the other modules are checked directly |
| `*_proofs` | theorems and their proofs |

`ScanLifecycle` extends `ScanStatus` and is shown to implement `ScanContract`
(`ImplementsContract`); `IngestPipeline` is shown to implement `TopicDelivery`
(`ImplementsDelivery`). Operators commented `Bug:` are plausible
mistakes, used only to see that each property can fail.

### ScanLifecycle

| Variable | Code |
|---|---|
| `status`, `retries` | properties of the scan row; `NoScan` when there is no row |
| `newer` | the order of `updated_at`; two scans touched by one statement are equal |
| `stale` | scans in progress whose `updated_at` is older than `dbScanTimeout` |
| `detected` | scans with a DETECTED edge |
| `latest`, `nodeStatus` | per node: `latest_..._scan_id` and `..._scan_status` |
| `request` | a start transaction between its reads and its commit |
| `deletion` | a DeleteScan between its transactions, or queued by the bulk deletion |
| `poll` | a GetAgentActions call between its transactions, with the workload it was given |
| `commands`, `msgs` | replies under way, the status topic |
| `running`, `uploaded`, `tasks` | jobs of the first stage, numbered per scan; those that have enqueued the second stage; ScanSBOM tasks per scan |
| `handouts`, `stopped` | history variables, read by properties only |

Every action is one transaction. AddNewScan is two actions because its reads
and its writes can be separated by another transaction's commit
(`AddNewScanCheck`, `AddNewScan`); DeleteScan is two, with `DeleteScanAbort` for
an error or a crash between them (its middle transaction only removes results
that no scan refers to, which the model does not have); a poll is two. TLC
explores all interleavings of these.

Points where the model says something about the code that is easy to miss:

- `MayStart`: `res.Single` fails for no row *and* for two rows. A node that got
  two active scans from overlapping requests accepts a third.
- `GetPendingAgentScans`: scans of a restarted agent are handed out again only
  if some scan still waits in STARTING, and then all of them.
- `ResetMatches`: the reset query of DeleteScan drops `m`, so it may also match
  other nodes whose scan has the same `updated_at`, and it only finds scans with
  results.
- `CleanUpDB` looks at `retries`, not at the status.
- `CommitRows`: IN_PROGRESS rows are written first and not over cancellations;
  other rows are written over everything.
- `EnqueueScanSBOM`, `AgentFinish`, `ScanSBOMReport`: a vulnerability scan has two
  stages. GenerateSbom enqueues ScanSBOM and then reports COMPLETE; ScanSBOM
  reports IN_PROGRESS, and again after an ERROR when the queue retries it. So an
  ended scan may show as running again without any fault, beside a newer scan of
  its node, since COMPLETE has let that one start.
- `AgentStop`: the console's StopVulnerabilityScan stops nothing. What GenerateSbom
  stores in `scanMap` is a scan context and what the handler asserts is a
  `context.CancelFunc`, so that a scan it finds makes it panic. Only a sensor's
  scanner cancels a job, and nobody cancels a ScanSBOM task.
- `Workload`: the agent's count may be too high (other scanners, an upgrade, the
  console's tasks: `busy`) or too low (a count that fails is 0, and the job that
  StartVulnerabilityScan launches in a goroutine is not counted at once:
  `miscount`).
- `AgentStart`: a scan that is handed out again while its job runs gets another.

Abstractions. One scan type (vulnerability scans; the results of secret,
malware and compliance scans MERGE their scan instead of matching it). One node
per start request. A request that names a missing node, a system container or a
host without an agent is refused and changes nothing, so it is not an action.
Status texts, counts and the tasks that refresh pods are left out. The check
`hasPendingAgentScans` is taken together with the transaction that follows it:
scans that arrive between them are found by the next poll. Jobs
report what GenerateSbom and ScanSBOM report; the reporter itself
(StartStatusReporter, external) sends IN_PROGRESS any number of times and one last
status. Without `sbom` among the operations a scan is its first stage alone, as
secret and malware scans are. The status topic is a sequence,
because the default is one partition; loss (`DropBatch`) and redelivery
(`CommitAndRedeliver`) are those that `TopicDelivery` allows.

### IngestPipeline

Records are offsets. `PollRecords` fetches what is there, only after the last
poll has been delivered (`EachRecord` is synchronous), and thereby marks that
poll's records as consumed, which `AutoCommit` (the Kafka client, external)
writes to Kafka at any time. `ProcessRecord` puts one record into its topic's
channel of `2 * BulkActions`; when the channel is full, all topics wait.
`Receive` and `Tick` fill the buffer and start a commit. A commit succeeds, is
refused and drops its buffer (`CommitGivesUp`: a record that does not unmarshal,
a statement error, transient errors after all backoffs), is repeated after a
backoff (`TransientError`), or meets a broken connection (`ConnectivityError`,
`AcknowledgementLost`) and waits for the breaker. `Crash` is every end of the
process: `main` returns on a signal without `Ingester.Stop`, so an orderly
shutdown loses as much as a crash. `settled`, `applied`, `written`, `dropped` and
`lost` are history variables.

### Supervisor

Every `start()` makes channels and a goroutine of its own, so loops are numbered
by `run`; `ph.kill` and `ph.wait` belong to the last one. A send and its receive on
an unbuffered channel are one step (`Kill`, `Acknowledge`, `Drain`, `LoopNotFound`).
`Check` is the caller's look at `ph.started` under the mutex, `StopsNothing` the
second look that `stop()` takes, between which the loop may have given up
(`LoopRestartShort` writes `ph.started` without the mutex). `Read` fixes which run's
channels a caller is at. `LoopStartFails` and `LoopNotFound` end the loop and leave
`ph.started` set, as the code does. `StopAllProcesses` takes no mutex; it sets
`shutdown`, and the properties hold until then. `Kill` writes `ph.started` in the
step of the channel send, which makes no difference to a holder of the mutex.
Not modelled: processes that are not restarted, the supervisor's own upgrade.

### AuthSession

A pair of tokens is a number in the order of issue. `auth` is the local storage
that all tabs share, `promise[t]` the `refreshTokenPromise` of a tab. A call reads
the stored token when it is sent (`Start`, and again in `Settle`), is answered
(`Serve`), fails (`FailCall`), and on a 401 waits for the promise of its tab
(`DeliverUnauthorized`). When that promise settles, the browser resumes all its
waiters before it runs another task, so `Settle` is one step. The server accepts a
refresh token again and again until it expires, is revoked by a logout or its
user is deactivated; ordinary calls only look at the expiry of the access token.
`UpdateUser` is an administrator who deactivates the user, or the user's own change
of role or state, which revokes the pair that sent it.
401 ends the session, every other refusal keeps it, and the calls try again.

### TopologyGraph

`Click` changes the filters and loads a URL with action and filters. `Load` is the
loader up to its await: the deduplicator compares the action with the last one
and remembers it there. `Revalidate` loads the same URL again, at any time: a
load under way is aborted and its action is then a repeated one, that is, a
refresh. `Answer` is the loader's reply, with the action it was given when it
started, together with the two effects that it triggers (`setGraphData`, then
`updateGraph`). `awaited` is a history variable: the node whose expansion is
loading. `UpdateGraph` is the
loop over the answer's parents: `Pictures` is the function from the number of
parents visited to the picture so far, built with `ProcessUpdate`, and the parents
come in the order of the answer's keys, which the instance chooses so that
children come before their parents. `Collapsed` (everything below a collapsed
node) is the least set closed under taking children. `Change` lets nodes
come and go between answers. Layout, styles and the table view are left out.

## 3. Runs

| Run | Instance | Checks |
|---|---|---|
| `faults` | 2 scans, 1 node, overlapping starts, batches of 2, 1 retry, stop, time-out, failing job counts, loss, redelivery, 1 restart; 675 000 states | TypeOK, HandoutBudget, CancelNotUndone, StopBeforeHandout |
| `delete` | 3 scans, 1 node, overlapping starts, single and bulk deletions, failing deletions, results; 182 000 states | NoDanglingLatest |
| `answers` | 1 scan in both stages, 2 retries, stop, deletions, time-outs, redelivery, batches of 2; 287 000 states | AnswerUnderWay, CancelEnds, ImplementsContract |
| `workload` | 3 scans, 2 nodes, one priority scan, 2 slots that other work may take, time-outs and loss; 442 000 states | WorkloadRespected |
| `ends` | 2 scans, 1 slot, 1 retry, time-outs, loss, redelivery, 1 restart; 31 000 states | ScanEnds, NodeSettles |
| `statusbatch` | all batches of at most 4 messages, 2 scans, 4 statuses; 22 700 states | LoopComputesStatusesToMaps |
| `ingest` | 1 topic, batches of 2, 5 records, one does not unmarshal, 1 outage, 1 crash; 956 000 states | TypeOK, InFlightContiguous, UndeliveredNotCommitted, ImplementsDelivery, RecordSettles |
| `auth` | 2 tabs, 1 call and 1 logout at a time, 1 expiry, 1 further login, failure or change of the user; 677 000 states | TypeOK, RefreshOnce, SessionKept, CallsEnd |
| `topology` | 6 nodes in 5 levels, 2 connections, limit of 6 nodes, 4 changes; 154 000 states | TypeOK, NoGhosts, FiltersFollowData, ExpandDraws |
| `supervisor` | 2 callers, 4 calls, 2 short runs; 89 000 states | TypeOK, OneProcess, CallsReturn |
| `complete`, `previous` | violations, see section 5 | CompleteNotFailed, ResetFindsPrevious |

Why the bounds are enough. Two scans of a node are what it takes for an overlap of
start requests, for a message of an old scan to overwrite a newer one, and for two
retries to compete for a slot; the third scan in `delete` lets the reset choose
among previous scans, and in `workload` lets three scans want two slots.
`MaxRetries = 1` in `faults` and `ends` reaches the limit with few steps
(`complete` uses the code's 3, and the theorems cover all values). One restart
after a hand-out reaches GetPendingAgentScans with and without waiting scans. A
batch of two mixes two scans or two statuses of one scan. In `answers` one scan is
enough: requeues give it several jobs and tasks at a time, and scans meet only in
a batch, which has a row for each. `ends` leaves ScanSBOM tasks out; with them,
and without the restart and redelivery, the same properties pass as well (118 000
states). In the pipeline, five records against batches of two fill the channel and
leave one for the rest of the poll or for the buffer; a consumer blocked on a full
channel while a commit is retried takes a sixth, which is beyond TLC here. One
topic is enough for what happens to its records, and that several topics do not
disturb each other is proved. Two tabs and two calls are what it takes for a 401
to arrive after the refresh of another call, for a refresh to be overtaken by a
logout, and for two tabs to refresh one session; eight pairs of tokens
(`MaxPairs`) are as many as the other bounds let the server issue. Four calls of
the supervisor reach a second upgrade against a loop that is giving up. Six nodes
have every kind of parent and child relation of the cloud view but clusters and
pods, and the limit of six is reached when everything is expanded. Scans of one
node are interchangeable, so `faults`, `delete` and `workload` use symmetry; runs
with liveness properties do not. All bounds are named constants (`MaxTx`,
`MaxMsgs`, `MaxBatch`, `MaxRestarts`, `MaxRecords`, `MaxOutages`, `MaxCrashes`,
`MaxPairs`, `MaxExpirations`, `MaxEvents`, `MaxCalls`, `MaxChanges`). The status
topic is bounded by `MaxMsgs`; `AgentReport` leaves the last slot free so that
terminal statuses are never shut out by the bound.

Where a property needs an assumption, the run makes it and the property's
comment says so: AnswerUnderWay and CancelEnds need that no command, batch or
agent is lost, WorkloadRespected the absence of restarts and an agent that counts
its jobs, OneProcess that StopAllProcesses has not been called, CallsReturn in
addition that the restart loop has not ended by itself. SessionKept names the
late answer of an overtaken refresh among the reasons for which the session may
change. ExpandDraws excepts an expansion that repeats the action before it and
one whose load a revalidation has restarted. The code gives no guarantee without them.

Deadlock is checked in the life cycle's runs and in `topology`. The other
instances may stop: their records, messages, tokens and calls are finite.

## 4. Fairness

`ScanLifecycle`: agents keep polling (a ticker drives StartControlsWatching),
they apply the commands they receive, jobs and ScanSBOM tasks end (the status
reporter of either is started with a limit of 20 minutes, `generate_sbom.go:112` and
`scan_sbom.go:95`, and the task has a limit on retries), an open start transaction
is committed, the worker keeps consuming, the cron jobs keep firing (every
120 s), and a scan in progress without updates gets old. Nothing is assumed of
users, of losses, of how often a running scan reports, or of deletions:
BulkDeleteScans is a one-shot handler (`worker.go:231`) that logs and skips the
scans it cannot delete (`bulk_delete.go:38`), and the model lets a queued deletion
wait for ever. A scan that keeps reporting may postpone the time-out, but not for
ever, because its job or task ends.

`IngestPipeline`: the consumer polls every 5 s and Kafka returns what it has in
the end, the goroutines of the workers run, the database comes back after an
outage and WaitServiceTCPConn then returns.

`Supervisor`: goroutines run, and a process that was sent SIGTERM exits. The mutex
and the `select` of the loop need strong fairness: Go's mutex hands itself to a
waiter that starves, and a `select` with two ready cases chooses at random, so a
stop is taken in the end although the process may exit and be restarted in
between. Nothing is assumed of processes that were not signalled.

`AuthSession`: requests are answered, the browser handles answers, and the refresh
token of a session whose access token has expired expires too in the end. The
last one matters: a refresh that is refused with 403, 400 or 404 counts as
success, the call is sent again at once, and only the expiry (26 hours) ends
that loop.

All other fairness is weak. `TopologyGraph` states no liveness.

## 5. What the model shows about the code

Two runs are expected to fail, and state what the repository's text says:

- `complete`: CleanUpDB (`neo4j.go:300`) fails every scan with `retries >= 3` with
  the message "scan failed to complete, please check agent logs". RetryScansDB
  raises the retries of a scan to 3 when it requeues it for the third time.
  The scan is then not handed out again (`agent.go:299` and `355` need fewer than 3
  retries), but a slow scanner of an earlier hand-out can still complete it; it is
  COMPLETE until the next clean-up, and ERROR afterwards.
- `previous`: DeleteScan says "Reset node's latest_scan_id to the previous scan
  id, if any" (`scan_result_actions.go:294`). The query requires a result, so a
  previous scan that found nothing is not used and the node shows no scan.

Other behaviour the model contains without a text that promises otherwise: two
overlapping requests both start a scan; a redelivered IN_PROGRESS message, or the
second stage of a vulnerability scan, revives a scan that has ended or was
cancelled, so that a node may have two active scans; a stop of a scan that runs
in the console has no effect on it; an agent whose job count fails may get more
scans than it has slots; a lost stop command leaves the scan
in CANCELLING; a restarted agent may get more scans than it has slots; a scan
that is DELETE_PENDING counts as active, so that it and a running scan together
let a third one in.

- *Supervisor:* after a failed start or exit code 127 the loop is gone and
  `ph.started` is still set. The next stop or upgrade blocks for ever and keeps the
  mutex, and so does everyone after it.
- *Session:* a late 401 can start a second refresh while a logout completes; its
  answer stores a session again. A refresh in one tab replaces the session
  another tab has just logged in with.
- *Topology:* a node of the answer may stay out of the picture: when its parent is
  visited after it, or when the combo of its parent is gone and the parent is not
  the node being expanded. It appears once the parent is collapsed and
  expanded. So it is with all children of an expansion when the page is refreshed
  before its answer has come. Above the limit of nodes only leaving the page helps.

## 6. Proofs

`tlapm` proves the following for every choice of the constants that satisfies the
named assumptions of each module (finitely many scans, functions `NodeOf` and
`AgentOf`, positive limits, `None` not a scan, and the like).

*Scan life cycle* (`ScanLifecycle_proofs`, `ScanStatus_proofs`, `StatusBatch_proofs`):

- `TypeCorrect`: `Spec => []TypeOK`. TypeOK is not inductive: DeleteScanReset
  copies the status of a scan with results to the node, and that is a status
  only if the scan has a row. The invariant proved is TypeOK with `DetectedExist`
  (a scan with results has a row).
- `HandoutsBounded`: `Spec => []HandoutBudget`. The bound on the hand-outs alone
  is not inductive; `BudgetInv` adds that a scan whose start request is not
  committed has no row and was never handed out. An id is created once, so the
  retries that paid for hand-outs are never reset.
- `LatestNotDangling`: `Spec => []NoDanglingLatest`, step by step over the actions
  that write a pointer, remove a row or move a deletion on (`PointerStep`,
  `PointerNext`).
- `CancelIsFinal`: `Spec => CancelNotUndone`, an action property. The lemma
  `CommitKeepsCancel` carries it: by `OneRowPerScan` a batch has one row per scan,
  so the row that is applied to a cancelled scan is a terminal one.
- `WorkloadIsRespected`: `Spec => []WorkloadRespected` under `MaxRestarts = 0` and
  `"miscount" \notin Ops`: both are needed, since a restarted agent is given its scans
  without a limit and a count of 0 claims slots that are taken. The property
  alone says nothing about a poll that is under way; `SlotInv` adds that while an
  agent polls with some free slots none of its start commands is on its way and
  its jobs leave that many slots free.
- `StoppedNotHandedOut`: `Spec => StopBeforeHandout`, in every environment. `FreshInv`
  says that of a scan that was never handed out there is neither command, job, task
  nor message, so that nothing but a deletion can change it once it is cancelled.
- `AnswersAreUnderWay`: `Spec => []AnswerUnderWay` under `"lose" \notin Ops` and
  `MaxRestarts = 0`. The property is not inductive, because a message revives its scan
  when it is committed: `Followed` adds that every message in the topic is followed
  by a terminal one of its scan unless a job or a task still has to report.
  `CommitTerminal` (by `TerminalRow` of `ScanStatus_proofs`: a terminal message wins in
  its batch) says that a batch with a last word ends its scan.
- `ContractKept`: `Spec => ImplementsContract`, in every environment. `Asked` says that
  each trace of a cancellation (status, command, message) belongs to a scan for
  which a stop was accepted; `StatusMoves` lists the changes of a row that the
  actions make, and `PhaseMoves` maps them to the moves of `ScanContract`.
- `LoopCorrect` (`StatusBatch_proofs`): for batches of any length, the loop
  computes `StatusesToMaps`. The invariant `EntryInv` says, per scan, which visited
  message its entry is.

Lemmas that several proofs use are `StatusesToMapsType`, `OneRowPerScan`,
`LastPosition` and `TerminalRow` (`ScanStatus_proofs`), and in
`ScanLifecycle_proofs` `QuietStep` (steps that neither count a retry nor start a
scan), `BudgetNext` and `Reachable`.

*Pipeline* (`IngestPipeline_proofs`): `TypeCorrect`, `NothingReordered`
(InFlightContiguous), `UndeliveredKept` and the refinement
`PipelineImplementsDelivery`. The inductive invariant says, per topic, that
buffer, channel and poll are three adjacent runs of offsets with borders `Mid` and
`End` (`Lined`), that committed offsets stay below `End`, and that a buffer is
committed as soon as it is full (`Filling`). Lemmas about `Run` (empty, head and
tail, append, concatenation) carry the sequence reasoning. In the refinement
every step maps to a batch, a redelivery, a loss or a stutter of `TopicDelivery`.

*Supervisor* (`Supervisor_proofs`): `TypeCorrect` and `OneProcessRuns`. The invariant
needs what the mutex guards (`Guarded`: one call at a time is past its Lock, and it
is at the last run), what `ph.started` says of the loops (`Superseded`: only the last
loop may start a process, and when `ph.started` is false it will not), that every
process is followed by a waiting goroutine (`Followed`), and a count of busy callers
(`Counted`) for the bound on runs.

*Session* (`AuthSession_proofs`): `TypeCorrect`, `RefreshedOnce` and `SessionIsKept`, two
action properties. They rest on `Renewals`: a pair that a tab has exchanged is not
the one it is exchanging now (`PromiseUnspent`), it is stored only while the tab
still holds the answer (`AuthUnspent`), a granted pair is new (`GrantedFresh`), and a
refresh refused with 401 carried an expired token (`RefusedIsDead`).

*Topology* (`TopologyGraph_proofs`): `TypeCorrect`, `NoGhostsHolds`,
`FiltersFollowDataHolds` and the action property `ExpandDrawsHolds`. They are about
a loop, and the library's induction theorems cannot be instantiated here, so the
induction is derived once: every non-empty set of numbers has a least element
(`LeastElement`, from the well-foundedness of `<`), which gives an induction over the
steps of a loop as a statement about sets (`StepInduction`) and the existence of
the function that a loop defines (`LoopTrace`, `PicturesTrace`). `ProcessUpdateEffect`
says what one round does to the picture. The loop invariant (`Sound` in
`UpdatedPicture`) is that after some rounds nothing is drawn but what was drawn or
added, that a removed node which is still drawn has a parent not met yet, and that
the new children of the expanded node are drawn once that node was met;
`EveryParentMet` leaves no parent unmet at the end. `ExpandDrawsHolds` also needs
`AwaitedLoads`: while an expansion is awaited, the load under way carries its action.

Only model-checked: liveness (ScanEnds, NodeSettles, CancelEnds, RecordSettles,
CallsEnd, CallsReturn), which needs fairness and ENABLED, out of the prover's reach;
and CompleteNotFailed and ResetFindsPrevious, which are false (section 5). Every
other property of the runs is stated by a theorem.

## 7. Plan

Done: the scan life cycle, the batch reduction, the pipeline with its refinement,
the supervisor, the session, the topology page, and their theorems. Open, in
the order of what they would add:

1. `AgentUpgrade`: the four transactions of CompleteAgentUpgrade against
   ScheduleAgentUpgrade and RetryUpgradeAgent. Properties: a node has one
   version; a finished upgrade is not handed out again; hand-outs are bounded.
2. `ReportIngester`: channels, retry loops and breaker of the report ingestion,
   and the push back arithmetic with 32-bit integers. Properties: no deadlock of
   pushers and retry loops, the push back stays in its range, a batch is counted
   once.
3. `CloudScans`: refresh and scan of one account exclude each other.
4. `CronScheduler`: cron entries mirror the table of schedules.
5. In `ScanLifecycle`: bulk deletions whose task is not queued or no longer finds
   its scans; the scan types whose results recreate a deleted scan. In
   `IngestPipeline`: several namespaces in a buffer, and the audit topic.
6. Proofs: AnswerUnderWay with lost stop commands, which leave the job that answers
   in their place; the safety of the modules above.

## 8. Not modelled

- *Pages of the web console* (`dashboard/src/features/*/pages`, `queries`): by lines
  the largest part of the repository. A page renders the answer to a query and
  its forms send one request each; what can go wrong between two of them goes
  through the session, which is modelled, or through the query library's cache,
  which is third-party code. The topology page is the exception, since it
  keeps a state of its own from one answer to the next.
- *Generated API clients* (`dashboard/src/api/generated`, about 41 000 lines), icons
  and the component library: serialisation code produced from the server's
  interface description, vector graphics and presentation. They have no
  behaviour of their own beyond what `AuthSession` takes from `runtime.ts`.
- *Reports, the contents of SBOMs, registries, notifications, cloud clients*: input and
  output towards services whose state is their own.
- *The threat graph*: queries of one periodic job without state between its runs.
- *User administration and settings*: single transactions.
- *Telemetry, installers, vendored scanners and sensors*: third-party code; what
  the bootstrapper and the worker do with them is part of `ScanLifecycle`.
