--------------------------- MODULE ScanLifecycle ---------------------------
(***************************************************************************)
(* The life of a scan of one scan type, from the request of a user to the  *)
(* deletion of the scan.  The graph database is shared by                  *)
(*   - the server's request handlers (start, stop, delete),                *)
(*   - the handlers of the agents' polls, which hand out start and stop    *)
(*     commands,                                                           *)
(*   - the worker that commits the batches of status messages it reads     *)
(*     from Kafka,                                                         *)
(*   - the worker's periodic jobs RetryScansDB and CleanUpDB.              *)
(* A vulnerability scan runs in two stages that both report its status: a  *)
(* job that makes the SBOM, on a sensor or in the console's worker, and    *)
(* the worker's task ScanSBOM.  Secret and malware scans are the first     *)
(* stage alone ("sbom" is not in Ops).                                     *)
(* Every action is one database transaction or one step of an agent; a     *)
(* handler that commits several transactions is several actions.           *)
(***************************************************************************)
EXTENDS ScanStatus, Integers, FiniteSets

CONSTANTS
    Scan,         \* scan ids; an id holds the id of its node and a time
    Node,         \* what is scanned: hosts, containers, images
    Agent,        \* who runs scans: the sensors and the console's worker
    NodeOf,       \* [Scan -> Node], the SCANNED edge
    AgentOf,      \* [Scan -> Agent], the SCHEDULED edge
    Priority,     \* the scans started with is_priority
    None,         \* no scan (an empty latest_scan_id)
    MaxRetries,   \* 3 in the code
    MaxWork,      \* MaxAgentWorkload of the agent
    MaxStop,      \* maxWork of controls/agent.go: stop commands per poll
    Ops,          \* what users and the environment do in this instance
    MaxTx,        \* bound: start transactions open at the same time
    MaxMsgs,      \* bound: status messages in flight
    MaxBatch,     \* bound: messages in one committed batch
    MaxRestarts   \* bound: restarts of agents

Operations == {"stop", "delete", "bulk_delete", "delete_fails", "results",
               "timeout", "lose", "redeliver", "busy", "miscount",
               "sbom"}

ASSUME ScanAssumption == IsFiniteSet(Scan)
ASSUME NodeOfAssumption == NodeOf \in [Scan -> Node]
ASSUME AgentOfAssumption == AgentOf \in [Scan -> Agent]
ASSUME PriorityAssumption == Priority \subseteq Scan
ASSUME NoneAssumption == None \notin Scan
ASSUME BoundAssumption ==
    /\ MaxRetries \in Nat \ {0} /\ MaxWork \in Nat \ {0} /\ MaxStop \in Nat \ {0}
    /\ MaxTx \in Nat /\ MaxMsgs \in Nat /\ MaxBatch \in Nat /\ MaxRestarts \in Nat
ASSUME OpsAssumption == Ops \subseteq Operations

NoScan == "none"             \* the status of a scan without a row
Idle == -1                   \* the agent waits for its next poll
Booting == -2                \* the agent has restarted and not called init

VARIABLES
    \* the graph database
    status,       \* status of every scan, NoScan without a row
    retries,      \* n.retries
    newer,        \* <<s, t>>: s.updated_at > t.updated_at
    stale,        \* scans in progress with updated_at older than the timeout
    detected,     \* scans with a DETECTED edge to some result
    latest,       \* per node: its latest_scan_id
    nodeStatus,   \* per node: its scan status, "" when never scanned
    \* transactions under way in the server and the worker
    request,      \* per scan: its start request
    deletion,     \* per scan: its deletion
    \* agents and the status topic
    poll,         \* per agent: Idle, Booting or the workload it polled with
    commands,     \* commands on their way to the agents
    running,      \* scanner jobs: <<s, k>> is the k-th of the jobs of scan s
    uploaded,     \* the jobs that have enqueued a ScanSBOM task
    tasks,        \* per scan: ScanSBOM tasks queued, running or to be retried
    msgs,         \* the status topic, in order
    restarts,     \* counts the agents' restarts
    \* history, not in the code
    handouts,     \* per scan: start commands handed out so far
    stopped       \* scans whose stop the server has accepted

graph == <<status, retries, newer, stale, detected, latest, nodeStatus>>
scanners == <<running, uploaded, tasks>>
history == <<handouts, stopped>>
vars == <<status, retries, newer, stale, detected, latest, nodeStatus, request,
          deletion, poll, commands, running, uploaded, tasks, msgs, restarts,
          handouts, stopped>>

Command == [kind : {"start", "stop"}, scan : Scan]
Message == [scan : Scan, status : Reported]
Job == Scan \X (1..(MaxRetries + 1))

Exists(s) == status[s] # NoScan
Existing == {s \in Scan : Exists(s)}
ScansOf(n) == {s \in Existing : NodeOf[s] = n}
CommandsTo(a) == {c \in commands : AgentOf[c.scan] = a}
JobsOf(s) == {j \in running : j[1] = s}
RunningOn(a) == {j \in running : AgentOf[j[1]] = a}
Min2(x, y) == IF x < y THEN x ELSE y

\* SET updated_at = TIMESTAMP() on all of T in one statement.
Touched(order, T) ==
    {p \in order : p[1] \notin T /\ p[2] \notin T} \cup (T \X (Existing \ T))

Init ==
    /\ status = [s \in Scan |-> NoScan]
    /\ retries = [s \in Scan |-> 0]
    /\ newer = {}
    /\ stale = {}
    /\ detected = {}
    /\ latest = [n \in Node |-> None]
    /\ nodeStatus = [n \in Node |-> ""]
    /\ request = [s \in Scan |-> "none"]
    /\ deletion = [s \in Scan |-> "none"]
    /\ poll = [a \in Agent |-> Idle]
    /\ commands = {}
    /\ running = {}
    /\ uploaded = {}
    /\ tasks = [s \in Scan |-> 0]
    /\ msgs = <<>>
    /\ restarts = 0
    /\ handouts = [s \in Scan |-> 0]
    /\ stopped = {}

-----------------------------------------------------------------------------
(* Starting a scan: ingesters.AddNewScan inside StartMultiScan.            *)

\* The scans that make AddNewScan answer AlreadyRunningScanError.
ActiveOn(n) == {s \in ScansOf(n) : status[s] \notin Terminal}

\* res.Single fails unless there is exactly one record, and only without an
\* error is the request refused.
MayStart(n) == Cardinality(ActiveOn(n)) # 1

\* The reads at the head of the transaction.
AddNewScanCheck(s) ==
    /\ request[s] = "none"
    /\ Cardinality({t \in Scan : request[t] = "open"}) < MaxTx
    /\ MayStart(NodeOf[s])
    /\ request' = [request EXCEPT ![s] = "open"]
    /\ UNCHANGED <<graph, deletion, poll, commands, scanners, msgs, restarts, history>>

\* The writes and the commit.
AddNewScan(s) ==
    /\ request[s] = "open"
    /\ request' = [request EXCEPT ![s] = "closed"]
    /\ status' = [status EXCEPT ![s] = "STARTING"]
    /\ retries' = [retries EXCEPT ![s] = 0]
    /\ newer' = Touched(newer, {s})
    /\ latest' = [latest EXCEPT ![NodeOf[s]] = s]
    /\ nodeStatus' = [nodeStatus EXCEPT ![NodeOf[s]] = "STARTING"]
    /\ UNCHANGED <<stale, detected, deletion, poll, commands, scanners, msgs,
                   restarts, history>>

\* The transaction of a start request.  A request for several nodes is one
\* per node here: it checks each node and commits them together.
StartMultiScan(s) == AddNewScanCheck(s) \/ AddNewScan(s)

-----------------------------------------------------------------------------
(* The agent's poll: controls.GetAgentActions.                             *)

\* Bug: the jobs that run are not subtracted.
FreeOfIdleAgent(a) == MaxWork

\* getMaxAllocatable of the agent when every scanner answers.
Free(a) ==
    LET free == MaxWork - Cardinality(RunningOn(a))
    IN  IF free <= 0 THEN 0 ELSE free

\* What an agent may poll with.  "busy": jobs of other scan types, an upgrade
\* or the console's ScanSBOM tasks take slots.  "miscount": a job count that
\* fails is 0, and a job whose goroutine has just been launched is not yet
\* counted.
Workload(a) ==
    (IF "busy" \in Ops THEN 0 ELSE Free(a))
        .. (IF "miscount" \in Ops THEN MaxWork ELSE Free(a))

\* Bug: every scan that was handed out matches.
CancelPendingOrRunning(a) ==
    {s \in Scan : AgentOf[s] = a /\ status[s] \in {"CANCEL_PENDING", "IN_PROGRESS"}}

CancelPending(a) == {s \in Scan : AgentOf[s] = a /\ status[s] = "CANCEL_PENDING"}

\* The agent polls once it has applied the commands of the poll before;
\* ExtractStoppingAgentScans is the first transaction of the handler.
ExtractStoppingAgentScans(a) ==
    /\ poll[a] = Idle
    /\ CommandsTo(a) = {}
    /\ \E free \in Workload(a) : poll' = [poll EXCEPT ![a] = free]
    /\ \E stops \in SUBSET CancelPending(a) :
        /\ Cardinality(stops) = Min2(MaxStop, Cardinality(CancelPending(a)))
        /\ status' = [s \in Scan |-> IF s \in stops THEN "CANCELLING" ELSE status[s]]
        /\ newer' = Touched(newer, stops)
        /\ commands' = commands \cup [kind : {"stop"}, scan : stops]
    /\ UNCHANGED <<retries, stale, detected, latest, nodeStatus, request, deletion,
                   scanners, msgs, restarts, history>>

\* Bug: scans handed out before match as well.
StartableOrHandedOut(a) ==
    {s \in Scan : /\ AgentOf[s] = a
                  /\ status[s] \in {"STARTING", "IN_PROGRESS"}
                  /\ retries[s] < MaxRetries}

Startable(a) ==
    {s \in Scan : AgentOf[s] = a /\ status[s] = "STARTING" /\ retries[s] < MaxRetries}

\* ORDER BY is_priority DESC, updated_at ASC
Before(s, t) ==
    \/ s \in Priority /\ t \notin Priority
    \/ (s \in Priority <=> t \in Priority) /\ <<t, s>> \in newer

\* The last transaction of the handler.  A poll without free slots returns
\* before it; the reply then leaves for the agent.
ExtractStartingAgentScans(a) ==
    /\ poll[a] >= 0
    /\ poll' = [poll EXCEPT ![a] = Idle]
    /\ \E starts \in SUBSET Startable(a) :
        /\ Cardinality(starts) = Min2(poll[a], Cardinality(Startable(a)))
        /\ \A s \in starts, t \in Startable(a) \ starts : ~Before(t, s)
        /\ status' = [s \in Scan |-> IF s \in starts THEN "IN_PROGRESS" ELSE status[s]]
        /\ newer' = Touched(newer, starts)
        /\ commands' = commands \cup [kind : {"start"}, scan : starts]
        /\ handouts' = [s \in Scan |-> IF s \in starts THEN handouts[s] + 1
                                                       ELSE handouts[s]]
    /\ UNCHANGED <<retries, stale, detected, latest, nodeStatus, request, deletion,
                   scanners, msgs, restarts, stopped>>

\* GetAgentInitControls of a restarted agent: the scans it had are handed out
\* again, but only if some other scan waits to start (hasPendingAgentScans),
\* and without a limit.
GetPendingAgentScans(a) ==
    LET again == IF Startable(a) = {} THEN {}
                 ELSE {s \in Scan : /\ AgentOf[s] = a
                                    /\ status[s] = "IN_PROGRESS"
                                    /\ retries[s] < MaxRetries}
    IN  /\ poll[a] = Booting
        /\ poll' = [poll EXCEPT ![a] = Idle]
        /\ retries' = [s \in Scan |-> IF s \in again THEN retries[s] + 1 ELSE retries[s]]
        /\ commands' = commands \cup [kind : {"start"}, scan : again]
        /\ handouts' = [s \in Scan |-> IF s \in again THEN handouts[s] + 1
                                                      ELSE handouts[s]]
        /\ UNCHANGED <<status, newer, stale, detected, latest, nodeStatus, request,
                       deletion, scanners, msgs, restarts, stopped>>

-----------------------------------------------------------------------------
(* The agent and its scanner jobs, and the worker's ScanSBOM tasks.        *)

Send(s, st) == msgs' = Append(msgs, [scan |-> s, status |-> st])

\* The reply is complete when the handler has returned.
Deliverable(c) == c \in commands /\ poll[AgentOf[c.scan]] = Idle

\* StartVulnerabilityScan of the bootstrapper, GenerateSbom of the worker: a
\* scan that is handed out again while its job runs gets a second one.
AgentStart(s) ==
    LET c == [kind |-> "start", scan |-> s]
    IN  /\ Deliverable(c)
        /\ commands' = commands \ {c}
        /\ \E k \in 1..(MaxRetries + 1) :
            /\ <<s, k>> \notin running
            /\ \A i \in 1..(k - 1) : <<s, i>> \in running
            /\ running' = running \cup {<<s, k>>}
        /\ UNCHANGED <<graph, request, deletion, poll, uploaded, tasks, msgs,
                       restarts, history>>

JobEnds(j) == running' = running \ {j} /\ uploaded' = uploaded \ {j}

\* StopVulnerabilityScan: a sensor's scanner cancels a job.  In the worker
\* nothing happens: the type assertion on the stored ScanContext panics, and
\* a scan that has no job is only logged.
AgentStop(s) ==
    LET c == [kind |-> "stop", scan |-> s]
    IN  /\ Deliverable(c)
        /\ Len(msgs) < MaxMsgs
        /\ commands' = commands \ {c}
        /\ \/ \E j \in JobsOf(s) : JobEnds(j) /\ Send(s, "CANCELLED")
           \/ UNCHANGED <<running, uploaded, msgs>>
        /\ UNCHANGED <<graph, request, deletion, poll, tasks, restarts, history>>

\* The periodic report of a job's status reporter.
AgentReport(s) ==
    /\ JobsOf(s) # {}
    /\ Len(msgs) < MaxMsgs - 1
    /\ Send(s, "IN_PROGRESS")
    /\ UNCHANGED <<graph, request, deletion, poll, commands, scanners, restarts, history>>

\* The SBOM is stored and the second stage enqueued, by the job itself or by
\* IngestSbomHandler for a sensor; the job's last report is still to come.
EnqueueScanSBOM(s) ==
    /\ "sbom" \in Ops
    /\ \E j \in JobsOf(s) \ uploaded : uploaded' = uploaded \cup {j}
    /\ tasks' = [tasks EXCEPT ![s] = @ + 1]
    /\ UNCHANGED <<graph, request, deletion, poll, commands, running, msgs, restarts,
                   history>>

\* The deferred res <- err: the reporter sends its last message.
AgentFinish(s) ==
    /\ Len(msgs) < MaxMsgs
    /\ \E j \in JobsOf(s) : JobEnds(j)
    /\ \E st \in {"COMPLETE", "ERROR"} : Send(s, st)
    /\ UNCHANGED <<graph, request, deletion, poll, commands, tasks, restarts, history>>

\* The reporter of a ScanSBOM task, while it runs and when it fails and is to
\* be retried.
ScanSBOMReport(s) ==
    /\ tasks[s] > 0
    /\ Len(msgs) < MaxMsgs - 1
    /\ \E st \in {"IN_PROGRESS", "ERROR"} : Send(s, st)
    /\ UNCHANGED <<graph, request, deletion, poll, commands, scanners, restarts, history>>

\* The task is done, or its retries are spent.
ScanSBOMEnd(s) ==
    /\ tasks[s] > 0
    /\ Len(msgs) < MaxMsgs
    /\ tasks' = [tasks EXCEPT ![s] = @ - 1]
    /\ \E st \in {"COMPLETE", "ERROR"} : Send(s, st)
    /\ UNCHANGED <<graph, request, deletion, poll, commands, running, uploaded, restarts,
                   history>>

\* A restart during a poll is one right after it: the handler commits all
\* the same, and its reply is lost.
AgentRestart(a) ==
    /\ poll[a] = Idle
    /\ restarts < MaxRestarts
    /\ restarts' = restarts + 1
    /\ poll' = [poll EXCEPT ![a] = Booting]
    /\ commands' = commands \ CommandsTo(a)
    /\ running' = running \ RunningOn(a)
    /\ uploaded' = uploaded \ RunningOn(a)
    /\ UNCHANGED <<graph, request, deletion, tasks, msgs, history>>

\* The reply of the poll is lost, or the control cannot be applied: both are
\* logged by the agent and not repeated.
LoseCommand ==
    /\ "lose" \in Ops
    /\ \E c \in commands : Deliverable(c) /\ commands' = commands \ {c}
    /\ UNCHANGED <<graph, request, deletion, poll, scanners, msgs, restarts, history>>

-----------------------------------------------------------------------------
(* The worker commits status messages: ingesters.CommitFuncStatus.         *)

\* Bugs: no cancel_states for IN_PROGRESS rows, or the same for all rows.
AppliedInProgressAlways(rows) ==
    {s \in Existing : \E m \in InProgressRows(rows) : m.scan = s}
AppliedOthersUnlessCancelling(rows) ==
    {s \in Existing : /\ status[s] \notin CancelStates
                      /\ \E m \in OtherRows(rows) : m.scan = s}

\* The rows of the batch that change their scan: it must have a row, and
\* IN_PROGRESS is not written over a cancellation under way.
AppliedInProgress(rows) ==
    {s \in Existing : /\ status[s] \notin CancelStates
                      /\ \E m \in InProgressRows(rows) : m.scan = s}
AppliedOthers(rows) == {s \in Existing : \E m \in OtherRows(rows) : m.scan = s}

\* Rows of one query are written in any order, IN_PROGRESS rows before the
\* others: the scans of n that may be written last.
LastWriters(rows, n) ==
    LET others == {s \in AppliedOthers(rows) : NodeOf[s] = n}
    IN  IF others # {} THEN others
        ELSE {s \in AppliedInProgress(rows) : NodeOf[s] = n}

CommitRows(rows) ==
    LET first == AppliedInProgress(rows)
        second == AppliedOthers(rows)
    IN  /\ status' = [s \in Scan |->
                         IF s \in first \cup second
                         THEN (CHOOSE m \in rows : m.scan = s).status
                         ELSE status[s]]
        /\ newer' = Touched(Touched(newer, first), second)
        /\ stale' = stale \ (first \cup second)
        /\ \E last \in [Node -> Scan \cup {None}] :
            /\ \A n \in Node : IF LastWriters(rows, n) = {} THEN last[n] = None
                               ELSE last[n] \in LastWriters(rows, n)
            /\ latest' = [n \in Node |-> IF last[n] = None THEN latest[n] ELSE last[n]]
            /\ nodeStatus' = [n \in Node |-> IF last[n] = None THEN nodeStatus[n]
                                             ELSE status'[last[n]]]
        /\ UNCHANGED <<retries, detected>>

Batches == {SubSeq(msgs, 1, k) : k \in 1..Min2(MaxBatch, Len(msgs))}
Consume(batch) == msgs' = SubSeq(msgs, Len(batch) + 1, Len(msgs))

CommitFuncStatus ==
    /\ \E batch \in Batches : CommitRows(StatusesToMaps(batch)) /\ Consume(batch)
    /\ UNCHANGED <<request, deletion, poll, commands, scanners, restarts, history>>

\* The worker dies after the commit and before its offsets are committed:
\* the same messages are read again.
CommitAndRedeliver ==
    /\ "redeliver" \in Ops
    /\ \E batch \in Batches : CommitRows(StatusesToMaps(batch))
    /\ UNCHANGED <<msgs, request, deletion, poll, commands, scanners, restarts, history>>

\* The bulk processor gives a batch up after its retries, or the worker dies
\* with the batch in memory and the offsets committed.
DropBatch ==
    /\ "lose" \in Ops
    /\ \E batch \in Batches : Consume(batch)
    /\ UNCHANGED <<graph, request, deletion, poll, commands, scanners, restarts, history>>

\* CommitFuncVulnerabilities: results of a scan that was handed out, perhaps
\* long after it ended.
CommitFuncVulnerabilities(s) ==
    /\ "results" \in Ops
    /\ Exists(s)
    /\ handouts[s] > 0
    /\ detected' = detected \cup {s}
    /\ UNCHANGED <<status, retries, newer, stale, latest, nodeStatus, request, deletion,
                   poll, commands, scanners, msgs, restarts, history>>

-----------------------------------------------------------------------------
(* Stopping and deleting: reporters/scan/scan_result_actions.go.           *)

\* Bug: a scan without an agent yet is left to its agent as well.
StopThroughAgent(s) ==
    /\ "stop" \in Ops
    /\ status[s] \in {"STARTING", "IN_PROGRESS"}
    /\ status' = [status EXCEPT ![s] = "CANCEL_PENDING"]
    /\ nodeStatus' = [nodeStatus EXCEPT ![NodeOf[s]] = "CANCEL_PENDING"]
    /\ stale' = stale \ {s}
    /\ stopped' = stopped \cup {s}
    /\ UNCHANGED <<retries, newer, detected, latest, request, deletion, poll, commands,
                   scanners, msgs, restarts, handouts>>

StopScan(s) ==
    /\ "stop" \in Ops
    /\ status[s] \in {"STARTING", "IN_PROGRESS"}
    /\ status' = [status EXCEPT ![s] = IF status[s] = "STARTING" THEN "CANCELLED"
                                       ELSE "CANCEL_PENDING"]
    /\ nodeStatus' = [nodeStatus EXCEPT ![NodeOf[s]] = status'[s]]
    /\ stale' = stale \ {s}
    /\ stopped' = stopped \cup {s}
    /\ UNCHANGED <<retries, newer, detected, latest, request, deletion, poll, commands,
                   scanners, msgs, restarts, handouts>>

\* bulkDeleteScanResults marks the scans and queues a task that deletes them.
MarkScanDeletePending(s) ==
    /\ "bulk_delete" \in Ops
    /\ Exists(s)
    /\ deletion[s] = "none"
    /\ deletion' = [deletion EXCEPT ![s] = "queued"]
    /\ status' = [status EXCEPT ![s] = "DELETE_PENDING"]
    /\ stale' = stale \ {s}
    /\ UNCHANGED <<retries, newer, detected, latest, nodeStatus, request, poll, commands,
                   scanners, msgs, restarts, history>>

\* The first transaction of DeleteScan, called by the queued task or by
\* ScanDeleteHandler: the scan, its edges and its row are gone.
DeleteScan(s) ==
    /\ Exists(s)
    /\ \/ deletion[s] = "queued"
       \/ deletion[s] = "none" /\ "delete" \in Ops
    /\ deletion' = [deletion EXCEPT ![s] = "reset"]
    /\ status' = [status EXCEPT ![s] = NoScan]
    /\ newer' = {p \in newer : p[1] # s /\ p[2] # s}
    /\ stale' = stale \ {s}
    /\ detected' = detected \ {s}
    /\ UNCHANGED <<retries, latest, nodeStatus, request, poll, commands, scanners, msgs,
                   restarts, history>>

MostRecent(S) == {s \in S : \A t \in S : <<t, s>> \notin newer}
SameUpdatedAt(s, t) == <<s, t>> \notin newer /\ <<t, s>> \notin newer

\* The scans the last query of DeleteScan matches: those with results and the
\* updated_at of the node's most recent scan.  WITH max(...) AS most_recent
\* drops m, so the query's second MATCH (m) is any node.
ResetMatches(n) ==
    {s \in detected : \E t \in MostRecent(ScansOf(n)) : SameUpdatedAt(s, t)}

\* Bug: the pointer is not emptied before the previous scan is looked up.
LatestNotEmptied(previous, n) ==
    [m \in Node |-> IF previous[m] # None THEN previous[m] ELSE latest[m]]

\* The pointers after the query: n's is emptied first.
LatestAfterReset(previous, n) ==
    [m \in Node |-> IF previous[m] # None \/ m = n THEN previous[m] ELSE latest[m]]

\* The last transaction of DeleteScan.
DeleteScanReset(s) ==
    LET n == NodeOf[s]
        MatchesOf(m) == {t \in ResetMatches(n) : NodeOf[t] = m}
    IN  /\ deletion[s] = "reset"
        /\ deletion' = [deletion EXCEPT ![s] = "done"]
        /\ \E previous \in [Node -> Scan \cup {None}] :
            /\ \A m \in Node : IF MatchesOf(m) = {} THEN previous[m] = None
                               ELSE previous[m] \in MatchesOf(m)
            /\ latest' = LatestAfterReset(previous, n)
            /\ nodeStatus' = [m \in Node |-> IF previous[m] # None THEN status[previous[m]]
                                             ELSE IF m = n THEN "" ELSE nodeStatus[m]]
        /\ UNCHANGED <<status, retries, newer, stale, detected, request, poll, commands,
                       scanners, msgs, restarts, history>>

\* DeleteScan returns an error, or its process dies, between the two.
DeleteScanAbort(s) ==
    /\ "delete_fails" \in Ops
    /\ deletion[s] = "reset"
    /\ deletion' = [deletion EXCEPT ![s] = "aborted"]
    /\ UNCHANGED <<graph, request, poll, commands, scanners, msgs, restarts, history>>

-----------------------------------------------------------------------------
(* The periodic jobs of the worker: cronjobs/neo4j.go.                     *)

\* A scan in progress has had no update for dbScanTimeout, and so has every
\* scan that was updated no later than it.
TimeOut(s) ==
    /\ "timeout" \in Ops
    /\ status[s] = "IN_PROGRESS"
    /\ s \notin stale
    /\ stale' = stale \cup {t \in Scan : status[t] = "IN_PROGRESS" /\ <<t, s>> \notin newer}
    /\ UNCHANGED <<status, retries, newer, detected, latest, nodeStatus, request, deletion,
                   poll, commands, scanners, msgs, restarts, history>>

\* Bug: no limit on the retries.
RetriableForever == {s \in stale : status[s] = "IN_PROGRESS"}

Retriable == {s \in stale : status[s] = "IN_PROGRESS" /\ retries[s] < MaxRetries}

\* updated_at is left as it was; the next hand-out refreshes it.
RetryScansDB ==
    /\ Retriable # {}
    /\ retries' = [s \in Scan |-> IF s \in Retriable THEN retries[s] + 1 ELSE retries[s]]
    /\ status' = [s \in Scan |-> IF s \in Retriable THEN "STARTING" ELSE status[s]]
    /\ stale' = stale \ Retriable
    /\ UNCHANGED <<newer, detected, latest, nodeStatus, request, deletion, poll, commands,
                   scanners, msgs, restarts, history>>

\* Bug: off by one.
ExhaustedLater == {s \in Existing : retries[s] > MaxRetries}

Exhausted == {s \in Existing : retries[s] >= MaxRetries}

\* Bug: the nodes are not updated.
CleanUpScansOnly ==
    /\ Exhausted # {}
    /\ status' = [s \in Scan |-> IF s \in Exhausted THEN "ERROR" ELSE status[s]]
    /\ stale' = stale \ Exhausted
    /\ UNCHANGED <<retries, newer, detected, latest, nodeStatus, request, deletion, poll,
                   commands, scanners, msgs, restarts, history>>

\* The statement of CleanUpDB about scans: whatever their status is.
CleanUpDB ==
    /\ Exhausted # {}
    /\ status' = [s \in Scan |-> IF s \in Exhausted THEN "ERROR" ELSE status[s]]
    /\ nodeStatus' = [n \in Node |-> IF latest[n] \in Exhausted THEN "ERROR"
                                     ELSE nodeStatus[n]]
    /\ stale' = stale \ Exhausted
    /\ UNCHANGED <<retries, newer, detected, latest, request, deletion, poll, commands,
                   scanners, msgs, restarts, history>>

-----------------------------------------------------------------------------
Server(s) == StartMultiScan(s) \/ StopScan(s)
             \/ MarkScanDeletePending(s) \/ DeleteScan(s) \/ DeleteScanReset(s)
             \/ DeleteScanAbort(s)
Polling(a) == ExtractStoppingAgentScans(a) \/ ExtractStartingAgentScans(a)
              \/ GetPendingAgentScans(a)
Scanner(s) == AgentStart(s) \/ AgentStop(s) \/ AgentReport(s) \/ EnqueueScanSBOM(s)
              \/ AgentFinish(s) \/ ScanSBOMReport(s) \/ ScanSBOMEnd(s)
Ingestion == CommitFuncStatus \/ CommitAndRedeliver \/ DropBatch
             \/ \E s \in Scan : CommitFuncVulnerabilities(s)
CronJobs == RetryScansDB \/ CleanUpDB

Next ==
    \/ \E s \in Scan : Server(s) \/ Scanner(s) \/ TimeOut(s)
    \/ \E a \in Agent : Polling(a) \/ AgentRestart(a)
    \/ LoseCommand
    \/ Ingestion
    \/ CronJobs

Spec == Init /\ [][Next]_vars

(***************************************************************************)
(* The agents keep polling and apply the commands they receive, jobs end   *)
(* (their reporter gives up after 20 minutes of silence), so do ScanSBOM   *)
(* tasks (they have a limit on retries), the worker keeps consuming the    *)
(* topic and the cron jobs keep firing.  Nothing is assumed of users, of   *)
(* deletions, of failures or of how often a running scan reports.          *)
(***************************************************************************)
Fairness ==
    /\ \A a \in Agent : WF_vars(Polling(a))
    /\ \A s \in Scan :
        /\ WF_vars(AddNewScan(s))
        /\ WF_vars(AgentStart(s))
        /\ WF_vars(AgentStop(s))
        /\ WF_vars(AgentFinish(s))
        /\ WF_vars(ScanSBOMEnd(s))
        /\ WF_vars(TimeOut(s))
    /\ WF_vars(CommitFuncStatus)
    /\ WF_vars(RetryScansDB)
    /\ WF_vars(CleanUpDB)

FairSpec == Spec /\ Fairness

-----------------------------------------------------------------------------
(* Properties.                                                             *)

TypeOK ==
    /\ status \in [Scan -> ScanStatuses \cup {NoScan}]
    /\ retries \in [Scan -> 0..MaxRetries]
    /\ newer \in SUBSET (Scan \X Scan)
    /\ stale \in SUBSET Scan
    /\ detected \in SUBSET Scan
    /\ latest \in [Node -> Scan \cup {None}]
    /\ nodeStatus \in [Node -> ScanStatuses \cup {""}]
    /\ request \in [Scan -> {"none", "open", "closed"}]
    /\ deletion \in [Scan -> {"none", "queued", "reset", "done", "aborted"}]
    /\ poll \in [Agent -> {Idle, Booting} \cup 0..MaxWork]
    /\ commands \in SUBSET Command
    /\ running \in SUBSET Job
    /\ uploaded \in SUBSET Job
    /\ tasks \in [Scan -> Nat]
    /\ msgs \in Seq(Message)
    /\ restarts \in 0..MaxRestarts
    /\ handouts \in [Scan -> Nat]
    /\ stopped \in SUBSET Scan

(***************************************************************************)
(* However RetryScansDB, restarts, redelivered status messages and the     *)
(* agents' polls interleave, a scan is handed out to its agent at most     *)
(* 1 + MaxRetries times: each hand-out after the first was paid for with a *)
(* retry, and a scan that waits to start has one unspent.                  *)
(***************************************************************************)
HandoutBudget ==
    \A s \in Scan :
        /\ handouts[s] <= retries[s] + 1
        /\ status[s] = "STARTING" => handouts[s] <= retries[s]
        /\ handouts[s] <= MaxRetries + 1

(***************************************************************************)
(* A node's latest_scan_id points to a scan that exists, unless DeleteScan *)
(* is between its two transactions or gave up there.  Two deletions, a     *)
(* late status message and a new scan of the same node may interleave.     *)
(***************************************************************************)
NoDanglingLatest ==
    \A n \in Node :
        latest[n] # None =>
            /\ NodeOf[latest[n]] = n
            /\ Exists(latest[n]) \/ deletion[latest[n]] \in {"reset", "aborted"}

(***************************************************************************)
(* While no command, no batch and no agent is lost, a scan that is shown   *)
(* in progress or is being cancelled has something under way that will end *)
(* it: its start command, a job, a ScanSBOM task or a last word in the     *)
(* topic.  So a report that overtakes a stop, revives an ended scan or is  *)
(* redelivered never leaves a scan waiting for RetryScansDB, and a batch   *)
(* that CommitFuncStatus reduces to one row per scan never swallows the    *)
(* only answer to a stop.                                                  *)
(***************************************************************************)
UnderWay(s) ==
    \/ [kind |-> "start", scan |-> s] \in commands
    \/ JobsOf(s) # {}
    \/ tasks[s] > 0
    \/ \E i \in 1..Len(msgs) : msgs[i].scan = s /\ msgs[i].status \in Terminal

AnswerUnderWay ==
    \A s \in Scan : status[s] \in CancelStates \cup {"IN_PROGRESS"} => UnderWay(s)

(***************************************************************************)
(* StopScan cancels a scan that waits for its first hand-out at once and   *)
(* for good: no poll that is under way hands it out, and no job, message   *)
(* or RetryScansDB brings it back.  (A stop of a scan that was handed out  *)
(* is best effort: its scanner or ScanSBOM may report on it afterwards.)   *)
(***************************************************************************)
StopBeforeHandout ==
    [][\A s \in stopped :
           handouts[s] = 0 => /\ handouts'[s] = 0
                              /\ status'[s] \in {"CANCELLED", "DELETE_PENDING", NoScan}]_vars

(***************************************************************************)
(* Whatever users, polls, late, lost or repeated reports, restarts and the *)
(* periodic jobs do to a scan, it moves only as ScanContract says.         *)
(***************************************************************************)
PhaseIn(st, rq) ==
    CASE st = NoScan -> IF rq = "closed" THEN "gone" ELSE "new"
      [] st = "STARTING" -> "waiting"
      [] st = "IN_PROGRESS" -> "running"
      [] st \in CancelStates -> "stopping"
      [] st = "DELETE_PENDING" -> "deleting"
      [] OTHER -> st

PhaseOf == [s \in Scan |-> PhaseIn(status[s], request[s])]

Contract == INSTANCE ScanContract WITH phase <- PhaseOf, asked <- stopped

ImplementsContract == Contract!Spec

(***************************************************************************)
(* GetAgentActions never makes an agent run more than MaxWork jobs: the    *)
(* workload an agent polls with is still free when the poll's second       *)
(* transaction hands out scans, and when their commands arrive.  It rests  *)
(* on the agent's count: a failed count ("miscount") claims slots that are *)
(* taken, and GetPendingAgentScans after a restart has no limit.           *)
(***************************************************************************)
WorkloadRespected ==
    \A a \in Agent :
        Cardinality(RunningOn(a))
            + Cardinality({c.scan : c \in {d \in CommandsTo(a) : d.kind = "start"}})
                <= MaxWork

(***************************************************************************)
(* A cancellation under way is never turned back into a scan to run: not   *)
(* by a late IN_PROGRESS message, nor by RetryScansDB, nor by a poll.      *)
(***************************************************************************)
CancelNotUndone ==
    [][\A s \in Scan : status[s] \in CancelStates
                           => status'[s] \notin {"STARTING", "IN_PROGRESS"}]_vars

(***************************************************************************)
(* Every scan that waits to start or is in progress, one that a late       *)
(* report revived included, reaches a terminal status (or is deleted),     *)
(* although commands, messages and agents fail: RetryScansDB requeues it   *)
(* and CleanUpDB ends it when the retries are spent.                       *)
(***************************************************************************)
ScanEnds ==
    \A s \in Scan :
        status[s] \in {"STARTING", "IN_PROGRESS"} ~> status[s] \in Terminal \cup {NoScan}

(***************************************************************************)
(* So does what the node shows: no node is left showing a running scan.    *)
(***************************************************************************)
NodeSettles ==
    \A n \in Node :
        nodeStatus[n] \in {"STARTING", "IN_PROGRESS"}
            ~> nodeStatus[n] \in Terminal \cup {""}

(***************************************************************************)
(* A stop request that finds its scan running is answered in the end, as   *)
(* long as no command and no message is lost.                              *)
(***************************************************************************)
CancelEnds ==
    \A s \in Scan :
        status[s] = "CANCEL_PENDING" ~> status[s] \in Terminal \cup {NoScan}

(***************************************************************************)
(* CleanUpDB gives a scan the message "scan failed to complete": only to   *)
(* scans that did not.  A COMPLETE scan becomes ERROR only on a scanner's  *)
(* report.                                                                 *)
(***************************************************************************)
CompleteNotFailed ==
    [][\A s \in Scan :
           (status[s] = "COMPLETE" /\ status'[s] = "ERROR")
               => \E i \in 1..Len(msgs) : msgs[i] = [scan |-> s, status |-> "ERROR"]]_vars

(***************************************************************************)
(* "Reset node's latest_scan_id to the previous scan id, if any": when the *)
(* last query of DeleteScan runs and the node's other scans are complete,  *)
(* the node gets the most recent of them.                                  *)
(***************************************************************************)
ResetFindsPrevious ==
    [][\A s \in Scan :
           (/\ deletion[s] = "reset" /\ deletion'[s] = "done"
            /\ ScansOf(NodeOf[s]) # {}
            /\ \A t \in ScansOf(NodeOf[s]) : status[t] = "COMPLETE")
               => latest'[NodeOf[s]] \in MostRecent(ScansOf(NodeOf[s]))]_vars

=============================================================================
