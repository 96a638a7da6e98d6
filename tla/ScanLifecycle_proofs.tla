------------------------ MODULE ScanLifecycle_proofs ------------------------
(***************************************************************************)
(* Safety of ScanLifecycle for every set of scans, nodes and agents, every *)
(* bound and every choice of the environment's operations; a theorem that  *)
(* needs a restricted environment assumes it.                              *)
(***************************************************************************)
EXTENDS ScanLifecycle, ScanStatus_proofs, FiniteSetTheorems, TLAPS

USE NodeOfAssumption, AgentOfAssumption, NoneAssumption, BoundAssumption

-----------------------------------------------------------------------------
(* Facts about the operators.                                              *)

\* A batch is a sequence of messages that a scanner has sent.
LEMMA BatchType ==
    ASSUME TypeOK, NEW batch \in Batches
    PROVE  batch \in Seq(Message)
<1>1. PICK k \in 1..Min2(MaxBatch, Len(msgs)) : batch = SubSeq(msgs, 1, k)
  BY DEF Batches
<1>a. msgs \in Seq(Message)
  BY DEF TypeOK
<1>2. msgs \in Seq(Message) /\ Len(msgs) \in Nat
  BY <1>a
<1>3. k \in Nat /\ k <= Len(msgs)
  BY <1>1, <1>2 DEF Min2
<1>4. QED
  BY <1>1, <1>2, <1>3

\* Messages are consumed from the head of the topic.
LEMMA ConsumeType ==
    ASSUME TypeOK, NEW batch \in Batches, Consume(batch)
    PROVE  msgs' \in Seq(Message)
<1>1. batch \in Seq(Message) /\ Len(batch) \in Nat
  BY BatchType
<1>a. msgs \in Seq(Message)
  BY DEF TypeOK
<1>2. msgs \in Seq(Message) /\ Len(msgs) \in Nat
  BY <1>a
<1>3. QED
  BY <1>1, <1>2 DEF Consume

\* Refreshing updated_at keeps the order a relation on scans.
LEMMA TouchedType ==
    ASSUME NEW order \in SUBSET (Scan \X Scan), NEW T \in SUBSET Scan
    PROVE  Touched(order, T) \in SUBSET (Scan \X Scan)
  BY DEF Touched, Existing

\* The rows that change a scan carry a reported status for it.
LEMMA RowStatus ==
    ASSUME NEW rows \in SUBSET Message,
           NEW s \in AppliedInProgress(rows) \cup AppliedOthers(rows)
    PROVE  /\ s \in Scan
           /\ Exists(s)
           /\ (CHOOSE m \in rows : m.scan = s).status \in Reported
           /\ (CHOOSE m \in rows : m.scan = s).status \in ScanStatuses
<1>1. PICK m \in rows : m.scan = s
  BY DEF AppliedInProgress, AppliedOthers, InProgressRows, OtherRows
<1>2. (CHOOSE x \in rows : x.scan = s) \in Message
  BY <1>1
<1>3. Reported \subseteq ScanStatuses
  BY DEF Reported, Terminal, ScanStatuses
<1>4. QED
  BY <1>2, <1>3 DEF Message, AppliedInProgress, AppliedOthers, Existing

\* A scanner's report is a message.
LEMMA SendType ==
    ASSUME msgs \in Seq(Message), NEW s \in Scan, NEW st \in Reported, Send(s, st)
    PROVE  msgs' \in Seq(Message)
<1>1. [scan |-> s, status |-> st] \in Message
  BY DEF Message
<1>2. QED
  BY <1>1 DEF Send

\* There are finitely many jobs, so that those of an agent can be counted.
LEMMA JobsFinite ==
    ASSUME TypeOK, NEW a \in Agent
    PROVE  IsFiniteSet(RunningOn(a)) /\ Cardinality(RunningOn(a)) \in Nat
<1>1. IsFiniteSet(1..(MaxRetries + 1))
  BY FS_Interval
<1>2. IsFiniteSet(Job)
  BY <1>1, ScanAssumption, FS_Product DEF Job
<1>3. RunningOn(a) \in SUBSET Job
  BY DEF TypeOK, RunningOn
<1>4. QED
  BY <1>2, <1>3, FS_Subset, FS_CardinalityType

\* A workload is a number of slots.
LEMMA WorkloadType ==
    ASSUME TypeOK, NEW a \in Agent, NEW free \in Workload(a)
    PROVE  free \in 0..MaxWork
  BY JobsFinite DEF Workload, Free

\* A start command gives its scan one more job.
LEMMA JobStarts ==
    ASSUME NEW s \in Scan, AgentStart(s)
    PROVE  \E j \in Job \ running : j[1] = s /\ running' = running \cup {j}
<1>1. PICK k \in 1..(MaxRetries + 1) :
        <<s, k>> \notin running /\ running' = running \cup {<<s, k>>}
  BY DEF AgentStart
<1>2. <<s, k>> \in Job /\ <<s, k>>[1] = s
  BY DEF Job
<1>3. QED
  BY <1>1, <1>2

\* Counting one more for the scans of S.
LEMMA RetriesStep ==
    ASSUME NEW f \in [Scan -> 0..MaxRetries], NEW S,
           \A s \in Scan : s \in S => f[s] < MaxRetries
    PROVE  [s \in Scan |-> IF s \in S THEN f[s] + 1 ELSE f[s]] \in [Scan -> 0..MaxRetries]
  OBVIOUS

\* Counting hand-outs keeps natural numbers.
LEMMA HandoutsStep ==
    ASSUME NEW f \in [Scan -> Nat], NEW S
    PROVE  [s \in Scan |-> IF s \in S THEN f[s] + 1 ELSE f[s]] \in [Scan -> Nat]
  OBVIOUS

-----------------------------------------------------------------------------
(* Type correctness.  What DeleteScan's reset writes into a node is the    *)
(* status of a scan that has results, so that scan must have a row.        *)

DetectedExist == detected \subseteq Existing

\* The initial state has the types.
LEMMA TypeInit == Init => TypeOK
<1> SUFFICES ASSUME Init
             PROVE  TypeOK
  OBVIOUS
<1>1. /\ status \in [Scan -> ScanStatuses \cup {NoScan}]
      /\ retries \in [Scan -> 0..MaxRetries]
      /\ handouts \in [Scan -> Nat]
      /\ tasks \in [Scan -> Nat]
      /\ restarts \in 0..MaxRestarts
  <2>1. /\ status = [s \in Scan |-> NoScan]
        /\ retries = [s \in Scan |-> 0]
        /\ handouts = [s \in Scan |-> 0]
        /\ tasks = [s \in Scan |-> 0]
        /\ restarts = 0
    BY DEF Init
  <2>2. QED
    BY <2>1
<1>2. /\ newer \in SUBSET (Scan \X Scan)
      /\ stale \in SUBSET Scan
      /\ detected \in SUBSET Scan
      /\ commands \in SUBSET Command
      /\ running \in SUBSET Job
      /\ uploaded \in SUBSET Job
      /\ stopped \in SUBSET Scan
  BY DEF Init
<1>3. /\ latest \in [Node -> Scan \cup {None}]
      /\ nodeStatus \in [Node -> ScanStatuses \cup {""}]
      /\ request \in [Scan -> {"none", "open", "closed"}]
      /\ deletion \in [Scan -> {"none", "queued", "reset", "done", "aborted"}]
      /\ poll \in [Agent -> {Idle, Booting} \cup 0..MaxWork]
  BY DEF Init
<1>4. msgs \in Seq(Message)
  <2>1. msgs = <<>>
    BY DEF Init
  <2>2. QED
    BY <2>1
<1>5. QED
  BY <1>1, <1>2, <1>3, <1>4 DEF TypeOK

\* One step per action.
LEMMA TypeNext == TypeOK /\ DetectedExist /\ [Next]_vars => TypeOK'
<1> SUFFICES ASSUME TypeOK, DetectedExist, [Next]_vars
             PROVE  TypeOK'
  OBVIOUS
<1>c. /\ retries \in [Scan -> 0..MaxRetries]
      /\ handouts \in [Scan -> Nat]
      /\ tasks \in [Scan -> Nat]
      /\ restarts \in 0..MaxRestarts
  BY DEF TypeOK
<1>a. newer \in SUBSET (Scan \X Scan) /\ msgs \in Seq(Message)
  BY DEF TypeOK
<1>b. {"COMPLETE", "ERROR", "CANCELLED", "IN_PROGRESS"} \subseteq Reported
  BY DEF Reported, Terminal
<1> USE DEF TypeOK, graph, history, scanners, Idle, Booting
<1>1. ASSUME NEW s \in Scan, AddNewScanCheck(s)
      PROVE  TypeOK'
  BY <1>1 DEF AddNewScanCheck
<1>2. ASSUME NEW s \in Scan, AddNewScan(s)
      PROVE  TypeOK'
  <2>1. newer' \in SUBSET (Scan \X Scan)
    BY <1>2, <1>a, TouchedType, {s} \in SUBSET Scan DEF AddNewScan
  <2>2. /\ latest' \in [Node -> Scan \cup {None}]
        /\ nodeStatus' \in [Node -> ScanStatuses \cup {""}]
    BY <1>2 DEF AddNewScan, ScanStatuses
  <2>3. /\ status' \in [Scan -> ScanStatuses \cup {NoScan}]
        /\ request' \in [Scan -> {"none", "open", "closed"}]
    BY <1>2 DEF AddNewScan, ScanStatuses
  <2>4. retries' \in [Scan -> 0..MaxRetries]
    <3> HIDE DEF TypeOK
    <3>1. retries' = [retries EXCEPT ![s] = 0] /\ 0 \in 0..MaxRetries
      BY <1>2 DEF AddNewScan
    <3>2. QED
      BY <3>1, <1>c
  <2>5. QED
    BY <1>2, <2>1, <2>2, <2>3, <2>4 DEF AddNewScan
<1>3. ASSUME NEW s \in Scan, StopScan(s)
      PROVE  TypeOK'
  BY <1>3 DEF StopScan, ScanStatuses
<1>4. ASSUME NEW s \in Scan, MarkScanDeletePending(s)
      PROVE  TypeOK'
  BY <1>4 DEF MarkScanDeletePending, ScanStatuses
<1>5. ASSUME NEW s \in Scan, DeleteScan(s)
      PROVE  TypeOK'
  BY <1>5 DEF DeleteScan
<1>6. ASSUME NEW s \in Scan, DeleteScanReset(s)
      PROVE  TypeOK'
  <2> DEFINE n == NodeOf[s]
             MatchesOf(m) == {t \in ResetMatches(n) : NodeOf[t] = m}
  <2>1. PICK previous \in [Node -> Scan \cup {None}] :
          /\ \A m \in Node : IF MatchesOf(m) = {} THEN previous[m] = None
                             ELSE previous[m] \in MatchesOf(m)
          /\ latest' = [m \in Node |-> IF previous[m] # None \/ m = n THEN previous[m]
                                       ELSE latest[m]]
          /\ nodeStatus' = [m \in Node |-> IF previous[m] # None THEN status[previous[m]]
                                           ELSE IF m = n THEN "" ELSE nodeStatus[m]]
    BY <1>6 DEF DeleteScanReset, LatestAfterReset
  <2>2. latest' \in [Node -> Scan \cup {None}]
    BY <2>1
  <2>3. \A m \in Node : previous[m] # None => status[previous[m]] \in ScanStatuses
    <3>1. SUFFICES ASSUME NEW m \in Node, previous[m] # None
                   PROVE  status[previous[m]] \in ScanStatuses
      OBVIOUS
    <3>2. previous[m] \in ResetMatches(n)
      BY <2>1, <3>1
    <3>3. previous[m] \in Existing
      BY <3>2 DEF ResetMatches, DetectedExist
    <3>4. QED
      BY <3>3 DEF Existing, Exists
  <2>4. nodeStatus' \in [Node -> ScanStatuses \cup {""}]
    BY <2>1, <2>3
  <2>5. QED
    BY <1>6, <2>2, <2>4 DEF DeleteScanReset
<1>7. ASSUME NEW s \in Scan, DeleteScanAbort(s)
      PROVE  TypeOK'
  BY <1>7 DEF DeleteScanAbort
<1>8. ASSUME NEW a \in Agent, ExtractStoppingAgentScans(a)
      PROVE  TypeOK'
  <2>1. PICK stops \in SUBSET CancelPending(a) :
          /\ status' = [s \in Scan |-> IF s \in stops THEN "CANCELLING" ELSE status[s]]
          /\ newer' = Touched(newer, stops)
          /\ commands' = commands \cup [kind : {"stop"}, scan : stops]
    BY <1>8 DEF ExtractStoppingAgentScans
  <2>2. stops \in SUBSET Scan
    BY DEF CancelPending
  <2>3. newer' \in SUBSET (Scan \X Scan)
    BY <2>1, <2>2, TouchedType
  <2>4. commands' \in SUBSET Command
    BY <2>1, <2>2 DEF Command
  <2>5. poll' \in [Agent -> {Idle, Booting} \cup 0..MaxWork]
    <3>1. PICK free \in Workload(a) : poll' = [poll EXCEPT ![a] = free]
      BY <1>8 DEF ExtractStoppingAgentScans
    <3>2. free \in 0..MaxWork
      BY WorkloadType
    <3>3. QED
      BY <3>1, <3>2
  <2>6. QED
    BY <1>8, <2>1, <2>2, <2>3, <2>4, <2>5 DEF ExtractStoppingAgentScans, ScanStatuses
<1>9. ASSUME NEW a \in Agent, ExtractStartingAgentScans(a)
      PROVE  TypeOK'
  <2>1. PICK starts \in SUBSET Startable(a) :
          /\ status' = [s \in Scan |-> IF s \in starts THEN "IN_PROGRESS" ELSE status[s]]
          /\ newer' = Touched(newer, starts)
          /\ commands' = commands \cup [kind : {"start"}, scan : starts]
          /\ handouts' = [s \in Scan |-> IF s \in starts THEN handouts[s] + 1
                                                         ELSE handouts[s]]
    BY <1>9 DEF ExtractStartingAgentScans
  <2>2. starts \in SUBSET Scan
    BY DEF Startable
  <2>3. newer' \in SUBSET (Scan \X Scan)
    BY <2>1, <2>2, TouchedType
  <2>4. commands' \in SUBSET Command
    BY <2>1, <2>2 DEF Command
  <2>5. status' \in [Scan -> ScanStatuses \cup {NoScan}]
    BY <2>1 DEF ScanStatuses
  <2>6. handouts' \in [Scan -> Nat]
    <3> HIDE DEF TypeOK
    <3>1. QED
      BY <2>1, <1>c, HandoutsStep
  <2>7. poll' \in [Agent -> {Idle, Booting} \cup 0..MaxWork]
    BY <1>9 DEF ExtractStartingAgentScans
  <2>8. QED
    BY <1>9, <2>3, <2>4, <2>5, <2>6, <2>7 DEF ExtractStartingAgentScans
<1>10. ASSUME NEW a \in Agent, GetPendingAgentScans(a)
       PROVE  TypeOK'
  <2> DEFINE again == IF Startable(a) = {} THEN {}
                      ELSE {s \in Scan : /\ AgentOf[s] = a
                                         /\ status[s] = "IN_PROGRESS"
                                         /\ retries[s] < MaxRetries}
  <2>1. /\ retries' = [s \in Scan |-> IF s \in again THEN retries[s] + 1 ELSE retries[s]]
        /\ commands' = commands \cup [kind : {"start"}, scan : again]
        /\ handouts' = [s \in Scan |-> IF s \in again THEN handouts[s] + 1
                                                      ELSE handouts[s]]
    BY <1>10 DEF GetPendingAgentScans
  <2>2. again \subseteq Scan /\ \A s \in again : retries[s] < MaxRetries
    OBVIOUS
  <2> HIDE DEF again
  <2>3. retries' \in [Scan -> 0..MaxRetries]
    <3> HIDE DEF TypeOK
    <3>1. QED
      BY <2>1, <2>2, <1>c, RetriesStep
  <2>4. commands' \in SUBSET Command
    BY <2>1, <2>2 DEF Command
  <2>5. handouts' \in [Scan -> Nat]
    <3> HIDE DEF TypeOK
    <3>1. QED
      BY <2>1, <1>c, HandoutsStep
  <2>6. poll' \in [Agent -> {Idle, Booting} \cup 0..MaxWork]
    BY <1>10 DEF GetPendingAgentScans
  <2>7. QED
    BY <1>10, <2>3, <2>4, <2>5, <2>6 DEF GetPendingAgentScans
<1>11. ASSUME NEW s \in Scan, AgentStart(s)
       PROVE  TypeOK'
  <2>a. running \in SUBSET Job
    OBVIOUS
  <2>1. running' \in SUBSET Job
    <3> HIDE DEF TypeOK
    <3>1. PICK j \in Job : running' = running \cup {j}
      BY <1>11, JobStarts
    <3>2. QED
      BY <3>1, <2>a
  <2>2. QED
    BY <1>11, <2>1 DEF AgentStart
<1>12. ASSUME NEW s \in Scan, AgentStop(s)
       PROVE  TypeOK'
  <2>1. msgs' \in Seq(Message)
    BY <1>12, <1>a, <1>b, SendType DEF AgentStop
  <2>2. running' \in SUBSET Job /\ uploaded' \in SUBSET Job
    BY <1>12 DEF AgentStop, JobEnds
  <2>3. QED
    BY <1>12, <2>1, <2>2 DEF AgentStop
<1>13. ASSUME NEW s \in Scan, AgentReport(s)
       PROVE  TypeOK'
  <2>1. msgs' \in Seq(Message)
    BY <1>13, <1>a, <1>b, SendType DEF AgentReport
  <2>2. QED
    BY <1>13, <2>1 DEF AgentReport
<1>14. ASSUME NEW s \in Scan, AgentFinish(s)
       PROVE  TypeOK'
  <2>1. msgs' \in Seq(Message)
    BY <1>14, <1>a, <1>b, SendType DEF AgentFinish
  <2>2. QED
    BY <1>14, <2>1 DEF AgentFinish, JobEnds
<1>27. ASSUME NEW s \in Scan, EnqueueScanSBOM(s)
       PROVE  TypeOK'
  <2>1. tasks' \in [Scan -> Nat]
    <3> HIDE DEF TypeOK
    <3>1. tasks' = [tasks EXCEPT ![s] = tasks[s] + 1]
      BY <1>27 DEF EnqueueScanSBOM
    <3>2. QED
      BY <3>1, <1>c
  <2>2. uploaded' \in SUBSET Job
    BY <1>27 DEF EnqueueScanSBOM, JobsOf
  <2>3. QED
    BY <1>27, <2>1, <2>2 DEF EnqueueScanSBOM
<1>28. ASSUME NEW s \in Scan, ScanSBOMReport(s)
       PROVE  TypeOK'
  <2>1. msgs' \in Seq(Message)
    BY <1>28, <1>a, <1>b, SendType DEF ScanSBOMReport
  <2>2. QED
    BY <1>28, <2>1 DEF ScanSBOMReport
<1>29. ASSUME NEW s \in Scan, ScanSBOMEnd(s)
       PROVE  TypeOK'
  <2>1. msgs' \in Seq(Message)
    BY <1>29, <1>a, <1>b, SendType DEF ScanSBOMEnd
  <2>2. tasks' \in [Scan -> Nat]
    <3> HIDE DEF TypeOK
    <3>1. tasks' = [tasks EXCEPT ![s] = tasks[s] - 1] /\ tasks[s] > 0
      BY <1>29 DEF ScanSBOMEnd
    <3>2. QED
      BY <3>1, <1>c
  <2>3. QED
    BY <1>29, <2>1, <2>2 DEF ScanSBOMEnd
<1>15. ASSUME NEW a \in Agent, AgentRestart(a)
       PROVE  TypeOK'
  <2>1. restarts' \in 0..MaxRestarts
    <3> HIDE DEF TypeOK
    <3>1. restarts < MaxRestarts /\ restarts' = restarts + 1
      BY <1>15 DEF AgentRestart
    <3>2. QED
      BY <3>1, <1>c
  <2>a. poll' \in [Agent -> {Idle, Booting} \cup 0..MaxWork]
    BY <1>15 DEF AgentRestart
  <2>2. commands' \in SUBSET Command /\ running' \in SUBSET Job /\ uploaded' \in SUBSET Job
    BY <1>15 DEF AgentRestart
  <2>3. QED
    BY <1>15, <2>1, <2>a, <2>2 DEF AgentRestart
<1>16. CASE LoseCommand
  BY <1>16 DEF LoseCommand
<1>17. ASSUME NEW rows \in SUBSET Message, CommitRows(rows)
       PROVE  /\ status' \in [Scan -> ScanStatuses \cup {NoScan}]
              /\ newer' \in SUBSET (Scan \X Scan)
              /\ stale' \in SUBSET Scan
              /\ latest' \in [Node -> Scan \cup {None}]
              /\ nodeStatus' \in [Node -> ScanStatuses \cup {""}]
              /\ UNCHANGED <<retries, detected>>
  <2> DEFINE first == AppliedInProgress(rows)
             second == AppliedOthers(rows)
  <2>1. first \in SUBSET Scan /\ second \in SUBSET Scan
    BY DEF AppliedInProgress, AppliedOthers, Existing
  <2>2. status' \in [Scan -> ScanStatuses \cup {NoScan}]
    <3>1. \A s \in first \cup second :
             (CHOOSE m \in rows : m.scan = s).status \in ScanStatuses
      BY RowStatus
    <3>2. QED
      BY <1>17, <3>1 DEF CommitRows
  <2>3. newer' \in SUBSET (Scan \X Scan)
    <3>1. Touched(newer, first) \in SUBSET (Scan \X Scan)
      BY <2>1, TouchedType
    <3>2. Touched(Touched(newer, first), second) \in SUBSET (Scan \X Scan)
      BY <2>1, <3>1, TouchedType
    <3>3. QED
      BY <1>17, <3>2 DEF CommitRows
  <2>4. PICK last \in [Node -> Scan \cup {None}] :
          /\ \A n \in Node : IF LastWriters(rows, n) = {} THEN last[n] = None
                             ELSE last[n] \in LastWriters(rows, n)
          /\ latest' = [n \in Node |-> IF last[n] = None THEN latest[n] ELSE last[n]]
          /\ nodeStatus' = [n \in Node |-> IF last[n] = None THEN nodeStatus[n]
                                           ELSE status'[last[n]]]
    BY <1>17 DEF CommitRows
  <2>5. \A n \in Node : last[n] # None => status'[last[n]] \in ScanStatuses
    <3>1. SUFFICES ASSUME NEW n \in Node, last[n] # None
                   PROVE  status'[last[n]] \in ScanStatuses
      OBVIOUS
    <3>2. last[n] \in first \cup second
      BY <2>4, <3>1 DEF LastWriters
    <3> HIDE DEF TypeOK
    <3>3. (CHOOSE m \in rows : m.scan = last[n]).status \in ScanStatuses
      BY <3>2, RowStatus
    <3>4. QED
      BY <1>17, <2>1, <3>2, <3>3 DEF CommitRows
  <2>6. nodeStatus' \in [Node -> ScanStatuses \cup {""}]
    BY <2>4, <2>5
  <2>7. QED
    BY <1>17, <2>2, <2>3, <2>4, <2>6 DEF CommitRows
<1>18. CASE CommitFuncStatus
  <2>1. PICK batch \in Batches : CommitRows(StatusesToMaps(batch)) /\ Consume(batch)
    BY <1>18 DEF CommitFuncStatus
  <2>2. StatusesToMaps(batch) \in SUBSET Message
    BY BatchType, StatusesToMapsType
  <2>3. msgs' \in Seq(Message)
    BY <2>1, ConsumeType
  <2>4. QED
    BY <1>17, <1>18, <2>1, <2>2, <2>3 DEF CommitFuncStatus
<1>19. CASE CommitAndRedeliver
  <2>1. PICK batch \in Batches : CommitRows(StatusesToMaps(batch))
    BY <1>19 DEF CommitAndRedeliver
  <2>2. StatusesToMaps(batch) \in SUBSET Message
    BY BatchType, StatusesToMapsType
  <2>3. QED
    BY <1>17, <1>19, <2>1, <2>2 DEF CommitAndRedeliver
<1>20. CASE DropBatch
  <2>1. msgs' \in Seq(Message)
    BY <1>20, ConsumeType DEF DropBatch
  <2>2. QED
    BY <1>20, <2>1 DEF DropBatch
<1>21. ASSUME NEW s \in Scan, CommitFuncVulnerabilities(s)
       PROVE  TypeOK'
  BY <1>21 DEF CommitFuncVulnerabilities
<1>22. ASSUME NEW s \in Scan, TimeOut(s)
       PROVE  TypeOK'
  BY <1>22 DEF TimeOut
<1>23. CASE RetryScansDB
  <2>1. retries' \in [Scan -> 0..MaxRetries]
    <3> HIDE DEF TypeOK
    <3>1. retries' = [s \in Scan |-> IF s \in Retriable THEN retries[s] + 1
                                                        ELSE retries[s]]
      BY <1>23 DEF RetryScansDB
    <3>2. \A s \in Scan : s \in Retriable => retries[s] < MaxRetries
      BY DEF Retriable
    <3>3. QED
      BY <3>1, <3>2, <1>c, RetriesStep
  <2>2. status' \in [Scan -> ScanStatuses \cup {NoScan}]
    BY <1>23 DEF RetryScansDB, ScanStatuses
  <2>3. QED
    BY <1>23, <2>1, <2>2 DEF RetryScansDB
<1>24. CASE CleanUpDB
  BY <1>24 DEF CleanUpDB, ScanStatuses
<1>25. CASE UNCHANGED vars
  BY <1>25 DEF vars
<1>26. QED
  BY <1>1, <1>2, <1>3, <1>4, <1>5, <1>6, <1>7, <1>8, <1>9, <1>10, <1>11, <1>12,
     <1>13, <1>14, <1>15, <1>16, <1>18, <1>19, <1>20, <1>21, <1>22, <1>23, <1>24,
     <1>25, <1>27, <1>28, <1>29
  DEF Next, Server, StartMultiScan, Polling, Scanner, Ingestion, CronJobs

\* The row of a scan with results goes together with its results.
LEMMA DetectedNext == TypeOK /\ DetectedExist /\ [Next]_vars => DetectedExist'
<1> SUFFICES ASSUME TypeOK, DetectedExist, [Next]_vars
             PROVE  DetectedExist'
  OBVIOUS
<1> USE DEF DetectedExist, Existing, Exists, graph, NoScan
<1>a. detected \subseteq Scan /\ status \in [Scan -> ScanStatuses \cup {NoScan}]
  BY DEF TypeOK
<1>1. ASSUME NEW s \in Scan, AddNewScan(s)
      PROVE  DetectedExist'
  BY <1>1, <1>a DEF AddNewScan
<1>2. ASSUME NEW s \in Scan, StopScan(s)
      PROVE  DetectedExist'
  BY <1>2, <1>a DEF StopScan
<1>3. ASSUME NEW s \in Scan, MarkScanDeletePending(s)
      PROVE  DetectedExist'
  BY <1>3, <1>a DEF MarkScanDeletePending
<1>4. ASSUME NEW s \in Scan, DeleteScan(s)
      PROVE  DetectedExist'
  BY <1>4, <1>a DEF DeleteScan
<1>5. ASSUME NEW a \in Agent, ExtractStoppingAgentScans(a) \/ ExtractStartingAgentScans(a)
      PROVE  DetectedExist'
  BY <1>5, <1>a DEF ExtractStoppingAgentScans, ExtractStartingAgentScans
<1>6. ASSUME NEW batch \in Batches, CommitRows(StatusesToMaps(batch))
      PROVE  DetectedExist'
  <2>1. StatusesToMaps(batch) \in SUBSET Message
    BY BatchType, StatusesToMapsType
  <2>2. \A s \in Scan : status'[s] = NoScan => status[s] = NoScan
    BY <1>6, <2>1, RowStatus DEF CommitRows, ScanStatuses
  <2>3. QED
    BY <1>6, <1>a, <2>2 DEF CommitRows
<1>7. ASSUME NEW s \in Scan, CommitFuncVulnerabilities(s)
      PROVE  DetectedExist'
  BY <1>7, <1>a DEF CommitFuncVulnerabilities
<1>8. CASE RetryScansDB
  BY <1>8, <1>a DEF RetryScansDB
<1>9. CASE CleanUpDB
  BY <1>9, <1>a DEF CleanUpDB
<1>10. CASE UNCHANGED <<status, detected>>
  BY <1>10
<1>11. QED
  BY <1>1, <1>2, <1>3, <1>4, <1>5, <1>6, <1>7, <1>8, <1>9, <1>10
  DEF Next, Server, StartMultiScan, Polling, Scanner, Ingestion, CronJobs, vars,
      AddNewScanCheck,
      DeleteScanReset, DeleteScanAbort, GetPendingAgentScans, AgentStart, AgentStop,
      AgentReport, AgentFinish, EnqueueScanSBOM, ScanSBOMReport, ScanSBOMEnd, AgentRestart,
      LoseCommand, CommitFuncStatus,
      CommitAndRedeliver, DropBatch, TimeOut

\* Every reachable state is well typed; in particular no interleaving of
\* RetryScansDB and GetPendingAgentScans takes retries past MaxRetries.
THEOREM TypeCorrect == Spec => []TypeOK
<1>1. Init => TypeOK /\ DetectedExist
  BY TypeInit DEF Init, DetectedExist
<1>2. QED
  BY <1>1, TypeNext, DetectedNext, PTL DEF Spec

-----------------------------------------------------------------------------
(* The budget of hand-outs.  HandoutBudget is inductive once it is known   *)
(* that a scan whose request has not been committed has no row and was     *)
(* never handed out: AddNewScan sets retries back to 0.                    *)

BudgetInv ==
    \A s \in Scan :
        /\ request[s] # "closed" => status[s] = NoScan /\ handouts[s] = 0
        /\ handouts[s] <= retries[s] + 1
        /\ status[s] = "STARTING" => handouts[s] <= retries[s]

\* A step that neither counts nor starts a scan keeps the budget.
LEMMA QuietStep ==
    ASSUME BudgetInv, UNCHANGED <<retries, handouts, request>>,
           \A s \in Scan : \/ status'[s] \in {status[s], NoScan}
                           \/ Exists(s) /\ status'[s] # "STARTING"
    PROVE  BudgetInv'
  BY DEF BudgetInv, Exists, NoScan

\* One step per action that touches status, retries, handouts or request.
LEMMA BudgetNext == TypeOK /\ BudgetInv /\ [Next]_vars => BudgetInv'
<1> SUFFICES ASSUME TypeOK, BudgetInv, [Next]_vars
             PROVE  BudgetInv'
  OBVIOUS
<1>a. /\ retries \in [Scan -> 0..MaxRetries]
      /\ handouts \in [Scan -> Nat]
      /\ status \in [Scan -> ScanStatuses \cup {NoScan}]
      /\ request \in [Scan -> {"none", "open", "closed"}]
  BY DEF TypeOK
<1> USE DEF graph, history, Exists, NoScan
<1>1. ASSUME NEW s \in Scan, AddNewScanCheck(s)
      PROVE  BudgetInv'
  BY <1>1, <1>a DEF AddNewScanCheck, BudgetInv
<1>2. ASSUME NEW s \in Scan, AddNewScan(s)
      PROVE  BudgetInv'
  BY <1>2, <1>a DEF AddNewScan, BudgetInv
<1>3. ASSUME NEW s \in Scan, StopScan(s)
      PROVE  BudgetInv'
  BY <1>3, <1>a, QuietStep DEF StopScan
<1>4. ASSUME NEW s \in Scan, MarkScanDeletePending(s)
      PROVE  BudgetInv'
  BY <1>4, <1>a, QuietStep DEF MarkScanDeletePending
<1>5. ASSUME NEW s \in Scan, DeleteScan(s)
      PROVE  BudgetInv'
  BY <1>5, <1>a, QuietStep DEF DeleteScan
<1>6. ASSUME NEW a \in Agent, ExtractStoppingAgentScans(a)
      PROVE  BudgetInv'
  BY <1>6, <1>a, QuietStep DEF ExtractStoppingAgentScans, CancelPending
<1>7. ASSUME NEW a \in Agent, ExtractStartingAgentScans(a)
      PROVE  BudgetInv'
  <2>1. PICK starts \in SUBSET Startable(a) :
          /\ status' = [s \in Scan |-> IF s \in starts THEN "IN_PROGRESS" ELSE status[s]]
          /\ handouts' = [s \in Scan |-> IF s \in starts THEN handouts[s] + 1
                                                         ELSE handouts[s]]
    BY <1>7 DEF ExtractStartingAgentScans
  <2>2. UNCHANGED <<retries, request>>
    BY <1>7 DEF ExtractStartingAgentScans
  <2>3. \A s \in starts : status[s] = "STARTING"
    BY DEF Startable
  <2>4. QED
    BY <1>a, <2>1, <2>2, <2>3 DEF BudgetInv
<1>8. ASSUME NEW a \in Agent, GetPendingAgentScans(a)
      PROVE  BudgetInv'
  <2> DEFINE again == IF Startable(a) = {} THEN {}
                      ELSE {s \in Scan : /\ AgentOf[s] = a
                                         /\ status[s] = "IN_PROGRESS"
                                         /\ retries[s] < MaxRetries}
  <2>1. /\ retries' = [s \in Scan |-> IF s \in again THEN retries[s] + 1 ELSE retries[s]]
        /\ handouts' = [s \in Scan |-> IF s \in again THEN handouts[s] + 1
                                                      ELSE handouts[s]]
        /\ UNCHANGED <<status, request>>
    BY <1>8 DEF GetPendingAgentScans
  <2>2. \A s \in again : status[s] = "IN_PROGRESS"
    OBVIOUS
  <2> HIDE DEF again
  <2>3. QED
    BY <1>a, <2>1, <2>2 DEF BudgetInv
<1>9. ASSUME NEW batch \in Batches, CommitRows(StatusesToMaps(batch)),
             UNCHANGED <<request, handouts>>
      PROVE  BudgetInv'
  <2> DEFINE rows == StatusesToMaps(batch)
  <2>1. rows \in SUBSET Message
    BY BatchType, StatusesToMapsType
  <2> HIDE DEF rows
  <2>2. /\ status' = [s \in Scan |-> IF s \in AppliedInProgress(rows) \cup AppliedOthers(rows)
                                     THEN (CHOOSE m \in rows : m.scan = s).status
                                     ELSE status[s]]
        /\ UNCHANGED retries
    BY <1>9 DEF CommitRows, rows
  <2>3. \A s \in AppliedInProgress(rows) \cup AppliedOthers(rows) :
           /\ Exists(s)
           /\ (CHOOSE m \in rows : m.scan = s).status # "STARTING"
    <3>1. SUFFICES ASSUME NEW s \in AppliedInProgress(rows) \cup AppliedOthers(rows)
                   PROVE  /\ Exists(s)
                          /\ (CHOOSE m \in rows : m.scan = s).status # "STARTING"
      OBVIOUS
    <3> HIDE DEF Exists
    <3>2. Exists(s) /\ (CHOOSE m \in rows : m.scan = s).status \in Reported
      BY <2>1, RowStatus
    <3>3. "STARTING" \notin Reported
      BY DEF Reported, Terminal
    <3>4. QED
      BY <3>2, <3>3
  <2>4. \A s \in Scan : \/ status'[s] = status[s]
                        \/ Exists(s) /\ status'[s] # "STARTING"
    BY <2>2, <2>3
  <2>5. QED
    BY <1>9, <2>2, <2>4, QuietStep
<1>10. CASE RetryScansDB
  <2>1. /\ retries' = [s \in Scan |-> IF s \in Retriable THEN retries[s] + 1 ELSE retries[s]]
        /\ status' = [s \in Scan |-> IF s \in Retriable THEN "STARTING" ELSE status[s]]
        /\ UNCHANGED <<handouts, request>>
    BY <1>10 DEF RetryScansDB
  <2>2. \A s \in Retriable : status[s] = "IN_PROGRESS"
    BY DEF Retriable
  <2>3. QED
    BY <1>a, <2>1, <2>2 DEF BudgetInv
<1>11. CASE CleanUpDB
  BY <1>11, <1>a, QuietStep DEF CleanUpDB, Exhausted, Existing
<1>12. CASE UNCHANGED <<status, retries, handouts, request>>
  BY <1>12 DEF BudgetInv
<1>13. QED
  BY <1>1, <1>2, <1>3, <1>4, <1>5, <1>6, <1>7, <1>8, <1>9, <1>10, <1>11, <1>12
  DEF Next, Server, StartMultiScan, Polling, Scanner, Ingestion, CronJobs, vars,
      DeleteScanReset, DeleteScanAbort, AgentStart, AgentStop,
      AgentReport, AgentFinish, EnqueueScanSBOM, ScanSBOMReport, ScanSBOMEnd, AgentRestart,
      LoseCommand, CommitFuncStatus,
      CommitAndRedeliver, DropBatch, CommitFuncVulnerabilities, TimeOut

\* What the proofs below use of every reachable state.
LEMMA Reachable == Spec => [](TypeOK /\ DetectedExist /\ BudgetInv)
<1>1. Init => TypeOK /\ DetectedExist /\ BudgetInv
  <2>1. Init => BudgetInv
    <3>1. SUFFICES ASSUME Init
                   PROVE  BudgetInv
      OBVIOUS
    <3>2. /\ status = [s \in Scan |-> NoScan]
          /\ retries = [s \in Scan |-> 0]
          /\ handouts = [s \in Scan |-> 0]
      BY <3>1 DEF Init
    <3>3. QED
      BY <3>2 DEF BudgetInv, NoScan
  <2>2. QED
    BY <2>1, TypeInit DEF Init, DetectedExist
<1>2. QED
  BY <1>1, TypeNext, DetectedNext, BudgetNext, PTL DEF Spec

\* No interleaving of polls, restarts, retries and redelivered messages hands
\* a scan out more than 1 + MaxRetries times.
THEOREM HandoutsBounded == Spec => []HandoutBudget
<1>1. TypeOK /\ BudgetInv => HandoutBudget
  <2>1. SUFFICES ASSUME TypeOK, BudgetInv
                 PROVE  HandoutBudget
    OBVIOUS
  <2>2. retries \in [Scan -> 0..MaxRetries] /\ handouts \in [Scan -> Nat]
    BY <2>1 DEF TypeOK
  <2>3. QED
    BY <2>1, <2>2 DEF BudgetInv, HandoutBudget
<1>2. QED
  BY <1>1, Reachable, PTL

-----------------------------------------------------------------------------
(* The node's pointer to its latest scan.                                  *)

\* A step that removes no row, moves no pointer and ends no deletion is harmless.
LEMMA PointerStep ==
    ASSUME TypeOK, NoDanglingLatest, UNCHANGED latest,
           \A s \in Scan : /\ Exists(s) => Exists(s)' \/ deletion'[s] = "reset"
                           /\ deletion[s] \in {"reset", "aborted"}
                                  => deletion'[s] \in {"reset", "aborted"}
    PROVE  NoDanglingLatest'
<1>1. latest \in [Node -> Scan \cup {None}]
  BY DEF TypeOK
<1>2. QED
  BY <1>1 DEF NoDanglingLatest, Exists

\* One step per action that touches status, latest or deletion.
LEMMA PointerNext ==
    TypeOK /\ DetectedExist /\ NoDanglingLatest /\ [Next]_vars => NoDanglingLatest'
<1> SUFFICES ASSUME TypeOK, DetectedExist, NoDanglingLatest, [Next]_vars
             PROVE  NoDanglingLatest'
  OBVIOUS
<1>a. /\ latest \in [Node -> Scan \cup {None}]
      /\ status \in [Scan -> ScanStatuses \cup {NoScan}]
      /\ deletion \in [Scan -> {"none", "queued", "reset", "done", "aborted"}]
  BY DEF TypeOK
<1> USE DEF graph, Exists, NoScan
<1>1. ASSUME NEW s \in Scan, AddNewScan(s)
      PROVE  NoDanglingLatest'
  BY <1>1, <1>a DEF AddNewScan, NoDanglingLatest
<1>2. ASSUME NEW s \in Scan, StopScan(s)
      PROVE  NoDanglingLatest'
  BY <1>2, <1>a, PointerStep DEF StopScan
<1>3. ASSUME NEW s \in Scan, MarkScanDeletePending(s)
      PROVE  NoDanglingLatest'
  BY <1>3, <1>a, PointerStep DEF MarkScanDeletePending
<1>4. ASSUME NEW s \in Scan, DeleteScan(s)
      PROVE  NoDanglingLatest'
  BY <1>4, <1>a, PointerStep DEF DeleteScan
<1>5. ASSUME NEW s \in Scan, DeleteScanReset(s)
      PROVE  NoDanglingLatest'
  <2> DEFINE n == NodeOf[s]
             MatchesOf(m) == {t \in ResetMatches(n) : NodeOf[t] = m}
  <2>1. PICK previous \in [Node -> Scan \cup {None}] :
          /\ \A m \in Node : IF MatchesOf(m) = {} THEN previous[m] = None
                             ELSE previous[m] \in MatchesOf(m)
          /\ latest' = [m \in Node |-> IF previous[m] # None \/ m = n THEN previous[m]
                                       ELSE latest[m]]
    BY <1>5 DEF DeleteScanReset, LatestAfterReset
  <2>2. UNCHANGED status /\ deletion' = [deletion EXCEPT ![s] = "done"]
    BY <1>5 DEF DeleteScanReset
  <2>3. SUFFICES ASSUME NEW m \in Node, latest'[m] # None
                 PROVE  /\ NodeOf[latest'[m]] = m
                        /\ \/ status[latest'[m]] # NoScan
                           \/ deletion'[latest'[m]] \in {"reset", "aborted"}
    BY <2>2 DEF NoDanglingLatest
  <2>4. CASE previous[m] # None
    <3>1. latest'[m] = previous[m] /\ previous[m] \in MatchesOf(m)
      BY <2>1, <2>4
    <3>2. QED
      BY <3>1 DEF ResetMatches, DetectedExist, Existing
  <2>5. CASE previous[m] = None
    <3>1. m # n /\ latest'[m] = latest[m]
      BY <2>1, <2>3, <2>5
    <3>2. latest[m] \in Scan /\ NodeOf[latest[m]] = m /\ latest[m] # s
      BY <1>a, <2>3, <3>1 DEF NoDanglingLatest
    <3>3. QED
      BY <1>a, <2>2, <2>3, <3>1, <3>2 DEF NoDanglingLatest
  <2>6. QED
    BY <2>4, <2>5
<1>6. ASSUME NEW s \in Scan, DeleteScanAbort(s)
      PROVE  NoDanglingLatest'
  BY <1>6, <1>a, PointerStep DEF DeleteScanAbort
<1>7. ASSUME NEW a \in Agent, ExtractStoppingAgentScans(a)
      PROVE  NoDanglingLatest'
  BY <1>7, <1>a, PointerStep DEF ExtractStoppingAgentScans
<1>8. ASSUME NEW a \in Agent, ExtractStartingAgentScans(a)
      PROVE  NoDanglingLatest'
  BY <1>8, <1>a, PointerStep DEF ExtractStartingAgentScans
<1>9. ASSUME NEW batch \in Batches, CommitRows(StatusesToMaps(batch)), UNCHANGED deletion
      PROVE  NoDanglingLatest'
  <2> DEFINE rows == StatusesToMaps(batch)
  <2>1. rows \in SUBSET Message
    BY BatchType, StatusesToMapsType
  <2> HIDE DEF rows
  <2>2. /\ status' = [s \in Scan |-> IF s \in AppliedInProgress(rows) \cup AppliedOthers(rows)
                                     THEN (CHOOSE m \in rows : m.scan = s).status
                                     ELSE status[s]]
    BY <1>9 DEF CommitRows, rows
  <2>3. \A s \in Scan : status[s] # NoScan => status'[s] # NoScan
    BY <2>1, <2>2, RowStatus DEF ScanStatuses
  <2>4. PICK last \in [Node -> Scan \cup {None}] :
          /\ \A n \in Node : IF LastWriters(rows, n) = {} THEN last[n] = None
                             ELSE last[n] \in LastWriters(rows, n)
          /\ latest' = [n \in Node |-> IF last[n] = None THEN latest[n] ELSE last[n]]
    BY <1>9 DEF CommitRows, rows
  <2>5. SUFFICES ASSUME NEW n \in Node, latest'[n] # None
                 PROVE  /\ NodeOf[latest'[n]] = n
                        /\ \/ status'[latest'[n]] # NoScan
                           \/ deletion[latest'[n]] \in {"reset", "aborted"}
    BY <1>9 DEF NoDanglingLatest
  <2>6. CASE last[n] = None
    BY <1>a, <2>3, <2>4, <2>5, <2>6 DEF NoDanglingLatest
  <2>7. CASE last[n] # None
    <3>1. latest'[n] = last[n] /\ last[n] \in LastWriters(rows, n)
      BY <2>4, <2>7
    <3>2. /\ last[n] \in AppliedInProgress(rows) \cup AppliedOthers(rows)
          /\ NodeOf[last[n]] = n
      BY <3>1 DEF LastWriters
    <3>3. QED
      BY <2>1, <2>3, <3>1, <3>2, RowStatus
  <2>8. QED
    BY <2>6, <2>7
<1>10. CASE RetryScansDB
  BY <1>10, <1>a, PointerStep DEF RetryScansDB
<1>11. CASE CleanUpDB
  BY <1>11, <1>a, PointerStep DEF CleanUpDB
<1>12. CASE UNCHANGED <<status, latest, deletion>>
  BY <1>12 DEF NoDanglingLatest
<1>13. QED
  BY <1>1, <1>2, <1>3, <1>4, <1>5, <1>6, <1>7, <1>8, <1>9, <1>10, <1>11, <1>12
  DEF Next, Server, StartMultiScan, Polling, Scanner, Ingestion, CronJobs, vars,
      AddNewScanCheck,
      GetPendingAgentScans, AgentStart, AgentStop, AgentReport, AgentFinish,
      EnqueueScanSBOM, ScanSBOMReport, ScanSBOMEnd,
      AgentRestart, LoseCommand, CommitFuncStatus, CommitAndRedeliver, DropBatch,
      CommitFuncVulnerabilities, TimeOut

\* Whatever deletions, late messages and new scans interleave, the
\* latest_scan_id of a node is the id of one of its scans that exists, unless
\* the deletion of that scan has not run its last transaction.
THEOREM LatestNotDangling == Spec => []NoDanglingLatest
<1>1. Init => NoDanglingLatest
  BY DEF Init, NoDanglingLatest
<1>2. QED
  BY <1>1, PointerNext, Reachable, PTL DEF Spec

-----------------------------------------------------------------------------
(* Cancellations.  What protects one from a late IN_PROGRESS message is    *)
(* that a batch is reduced to one row per scan before it is split: no scan *)
(* has a row in both queries of CommitFuncStatus.                          *)

\* A batch never turns a cancellation under way into a running scan.
LEMMA CommitKeepsCancel ==
    ASSUME TypeOK, NEW batch \in Batches, CommitRows(StatusesToMaps(batch)),
           NEW s \in Scan, status[s] \in CancelStates
    PROVE  status'[s] \notin {"STARTING", "IN_PROGRESS"}
<1> DEFINE rows == StatusesToMaps(batch)
           row == CHOOSE m \in rows : m.scan = s
<1>1. batch \in Seq(Message) /\ rows \in SUBSET Message
  BY BatchType, StatusesToMapsType
<1>2. \A x, y \in rows : x.scan = y.scan => x = y
  BY <1>1, OneRowPerScan
<1> HIDE DEF rows
<1>3. status' = [t \in Scan |-> IF t \in AppliedInProgress(rows) \cup AppliedOthers(rows)
                                THEN (CHOOSE m \in rows : m.scan = t).status
                                ELSE status[t]]
  BY DEF CommitRows, rows
<1>4. s \notin AppliedInProgress(rows)
  BY DEF AppliedInProgress
<1>5. CASE s \notin AppliedOthers(rows)
  BY <1>3, <1>4, <1>5 DEF CancelStates
<1>6. CASE s \in AppliedOthers(rows)
  <2>1. PICK m \in rows : m.scan = s /\ m.status # "IN_PROGRESS"
    BY <1>6 DEF AppliedOthers, OtherRows, InProgressRows
  <2>2. row \in rows /\ row.scan = s
    BY <2>1
  <2>3. row.status # "IN_PROGRESS"
    BY <1>2, <2>1, <2>2
  <2>4. row.status \in Reported
    BY <1>1, <1>6, RowStatus
  <2>5. status'[s] = row.status
    BY <1>3, <1>6
  <2>6. QED
    BY <2>3, <2>4, <2>5 DEF Reported, Terminal
<1>7. QED
  BY <1>5, <1>6

\* No step of a poll, a late message, RetryScansDB or a new start request
\* turns a cancellation under way back into a scan to run.
THEOREM CancelIsFinal == Spec => CancelNotUndone
<1>1. ASSUME TypeOK, BudgetInv, [Next]_vars
      PROVE  [\A s \in Scan : status[s] \in CancelStates
                  => status'[s] \notin {"STARTING", "IN_PROGRESS"}]_vars
  <2>1. SUFFICES ASSUME NEW s \in Scan, status[s] \in CancelStates
                 PROVE  status'[s] \notin {"STARTING", "IN_PROGRESS"}
    OBVIOUS
  <2>a. status \in [Scan -> ScanStatuses \cup {NoScan}]
    BY <1>1 DEF TypeOK
  <2> USE DEF graph, CancelStates, NoScan
  <2>2. ASSUME NEW t \in Scan, AddNewScan(t)
        PROVE  status'[s] \notin {"STARTING", "IN_PROGRESS"}
    BY <1>1, <2>1, <2>2, <2>a DEF AddNewScan, BudgetInv
  <2>3. ASSUME NEW t \in Scan, StopScan(t)
        PROVE  status'[s] \notin {"STARTING", "IN_PROGRESS"}
    BY <2>1, <2>3, <2>a DEF StopScan
  <2>4. ASSUME NEW t \in Scan, MarkScanDeletePending(t) \/ DeleteScan(t)
        PROVE  status'[s] \notin {"STARTING", "IN_PROGRESS"}
    BY <2>1, <2>4, <2>a DEF MarkScanDeletePending, DeleteScan
  <2>5. ASSUME NEW a \in Agent, ExtractStoppingAgentScans(a)
        PROVE  status'[s] \notin {"STARTING", "IN_PROGRESS"}
    BY <2>1, <2>5, <2>a DEF ExtractStoppingAgentScans
  <2>6. ASSUME NEW a \in Agent, ExtractStartingAgentScans(a)
        PROVE  status'[s] \notin {"STARTING", "IN_PROGRESS"}
    BY <2>1, <2>6, <2>a DEF ExtractStartingAgentScans, Startable
  <2>7. ASSUME NEW batch \in Batches, CommitRows(StatusesToMaps(batch))
        PROVE  status'[s] \notin {"STARTING", "IN_PROGRESS"}
    BY <1>1, <2>1, <2>7, CommitKeepsCancel
  <2>8. CASE RetryScansDB
    BY <2>1, <2>8, <2>a DEF RetryScansDB, Retriable
  <2>9. CASE CleanUpDB
    BY <2>1, <2>9, <2>a DEF CleanUpDB
  <2>10. CASE UNCHANGED status
    BY <2>1, <2>10
  <2>11. QED
    BY <1>1, <2>2, <2>3, <2>4, <2>5, <2>6, <2>7, <2>8, <2>9, <2>10
    DEF Next, Server, StartMultiScan, Polling, Scanner, Ingestion, CronJobs, vars,
        AddNewScanCheck,
        DeleteScanReset, DeleteScanAbort, GetPendingAgentScans, AgentStart, AgentStop,
        AgentReport, AgentFinish, EnqueueScanSBOM, ScanSBOMReport, ScanSBOMEnd,
        AgentRestart, LoseCommand, CommitFuncStatus,
        CommitAndRedeliver, DropBatch, CommitFuncVulnerabilities, TimeOut
<1>2. QED
  BY <1>1, Reachable, PTL DEF Spec, CancelNotUndone

-----------------------------------------------------------------------------
(* The workload of an agent.  Between the two transactions of a poll the   *)
(* slots it polled with are still free: no start command is on its way,    *)
(* and jobs only end.  It takes an agent that counts its jobs right, and   *)
(* no restarts of the agent, whose GetPendingAgentScans has no limit.      *)

\* Scans whose start command is on its way.
Given(a) == {s \in Scan : AgentOf[s] = a /\ [kind |-> "start", scan |-> s] \in commands}
Jobs(a) == Cardinality(RunningOn(a))

SlotInv ==
    \A a \in Agent :
        /\ poll[a] # Booting
        /\ Jobs(a) + Cardinality(Given(a)) <= MaxWork
        /\ poll[a] >= 0 => Given(a) = {} /\ Jobs(a) + poll[a] <= MaxWork

\* The scans of WorkloadRespected's commands are those given to the agent.
LEMMA GivenIsStarts ==
    ASSUME TypeOK, NEW a \in Agent
    PROVE  {c.scan : c \in {d \in CommandsTo(a) : d.kind = "start"}} = Given(a)
<1>1. ASSUME NEW d \in CommandsTo(a), d.kind = "start" PROVE d.scan \in Given(a)
  <2>1. d \in Command /\ d \in commands /\ AgentOf[d.scan] = a
    BY DEF CommandsTo, TypeOK
  <2>2. d = [kind |-> "start", scan |-> d.scan] /\ d.scan \in Scan
    BY <1>1, <2>1 DEF Command
  <2>3. QED
    BY <2>1, <2>2 DEF Given
<1>2. ASSUME NEW s \in Given(a)
      PROVE  \E d \in CommandsTo(a) : d.kind = "start" /\ d.scan = s
  BY DEF Given, CommandsTo
<1>3. QED
  BY <1>1, <1>2

\* What is given to an agent can be counted.
LEMMA GivenFinite ==
    ASSUME NEW a \in Agent
    PROVE  IsFiniteSet(Given(a)) /\ Cardinality(Given(a)) \in Nat
<1>1. Given(a) \in SUBSET Scan
  BY DEF Given
<1>2. QED
  BY <1>1, ScanAssumption, FS_Subset, FS_CardinalityType

\* A step that gives an agent nothing and leaves its poll alone.
LEMMA SlotsKept ==
    ASSUME TypeOK, SlotInv, poll' = poll,
           \A a \in Agent : RunningOn(a)' \subseteq RunningOn(a) /\ Given(a)' \subseteq Given(a)
    PROVE  SlotInv'
<1> SUFFICES ASSUME NEW a \in Agent
             PROVE  /\ poll'[a] # Booting
                    /\ Jobs(a)' + Cardinality(Given(a)') <= MaxWork
                    /\ poll'[a] >= 0 => Given(a)' = {} /\ Jobs(a)' + poll'[a] <= MaxWork
  BY DEF SlotInv
<1>1. /\ IsFiniteSet(Given(a)) /\ Cardinality(Given(a)) \in Nat
      /\ IsFiniteSet(RunningOn(a)) /\ Cardinality(RunningOn(a)) \in Nat
  BY GivenFinite, JobsFinite
<1>2. /\ Cardinality(Given(a)') <= Cardinality(Given(a)) /\ IsFiniteSet(Given(a)')
      /\ Cardinality(RunningOn(a)') <= Cardinality(RunningOn(a)) /\ IsFiniteSet(RunningOn(a)')
  BY <1>1, FS_Subset
<1>3. Cardinality(Given(a)') \in Nat /\ Cardinality(RunningOn(a)') \in Nat
  BY <1>2, FS_CardinalityType
<1>4. poll[a] \in {Idle, Booting} \cup 0..MaxWork
  BY DEF TypeOK
<1>5. QED
  BY <1>1, <1>2, <1>3, <1>4 DEF SlotInv, Jobs, Idle, Booting

\* A start command becomes a job.
LEMMA SlotStart ==
    ASSUME TypeOK, SlotInv, NEW s \in Scan, AgentStart(s)
    PROVE  SlotInv'
<1> DEFINE a == AgentOf[s]
<1>1. PICK j \in Job \ running : j[1] = s /\ running' = running \cup {j}
  BY JobStarts
<1>2. /\ poll' = poll /\ poll[a] = Idle /\ a \in Agent
      /\ [kind |-> "start", scan |-> s] \in commands
      /\ commands' = commands \ {[kind |-> "start", scan |-> s]}
  BY DEF AgentStart, Deliverable
<1>3. Given(a)' = Given(a) \ {s} /\ s \in Given(a)
  BY <1>2 DEF Given
<1>4. RunningOn(a)' = RunningOn(a) \cup {j} /\ j \notin RunningOn(a)
  BY <1>1 DEF RunningOn
<1>5. /\ IsFiniteSet(Given(a)) /\ Cardinality(Given(a)) \in Nat
      /\ IsFiniteSet(RunningOn(a)) /\ Cardinality(RunningOn(a)) \in Nat
  BY <1>2, GivenFinite, JobsFinite
<1>6. Cardinality(Given(a)') = Cardinality(Given(a)) - 1
  <2>1. /\ Cardinality(Given(a) \ {s}) = IF s \in Given(a) THEN Cardinality(Given(a)) - 1
                                          ELSE Cardinality(Given(a))
    BY <1>5, FS_RemoveElement
  <2>2. QED
    BY <1>3, <2>1
<1>7. Jobs(a)' = Jobs(a) + 1
  BY <1>4, <1>5, FS_AddElement DEF Jobs
<1>8. \A b \in Agent : b # a => Given(b)' = Given(b) /\ Jobs(b)' = Jobs(b)
  BY <1>1, <1>2 DEF Given, RunningOn, Jobs
<1> HIDE DEF a
<1>9. Jobs(a)' + Cardinality(Given(a)') <= MaxWork /\ poll'[a] = Idle
  BY <1>2, <1>5, <1>6, <1>7 DEF SlotInv, Jobs
<1>10. QED
  BY <1>2, <1>8, <1>9 DEF SlotInv, Idle, Booting

\* Without restarts no step gives an agent more than its free slots.
LEMMA SlotNext ==
    ASSUME MaxRestarts = 0, "miscount" \notin Ops, TypeOK, SlotInv, [Next]_vars
    PROVE  SlotInv'
<1> USE DEF Given, RunningOn, scanners
<1>1. ASSUME UNCHANGED <<poll, commands, running>> PROVE SlotInv'
  BY <1>1, SlotsKept
<1>2. ASSUME NEW s \in Scan,
             \/ StartMultiScan(s) \/ StopScan(s) \/ MarkScanDeletePending(s) \/ DeleteScan(s)
             \/ DeleteScanReset(s) \/ DeleteScanAbort(s) \/ AgentReport(s) \/ TimeOut(s)
             \/ CommitFuncVulnerabilities(s) \/ EnqueueScanSBOM(s) \/ ScanSBOMReport(s)
             \/ ScanSBOMEnd(s)
      PROVE  UNCHANGED <<poll, commands, running>>
  BY <1>2 DEF StartMultiScan, AddNewScanCheck, AddNewScan, StopScan, MarkScanDeletePending,
              DeleteScan, DeleteScanReset, DeleteScanAbort, AgentReport, TimeOut,
              CommitFuncVulnerabilities, EnqueueScanSBOM, ScanSBOMReport, ScanSBOMEnd
<1>3. ASSUME CommitFuncStatus \/ CommitAndRedeliver \/ DropBatch \/ CronJobs
      PROVE  UNCHANGED <<poll, commands, running>>
  BY <1>3 DEF CommitFuncStatus, CommitAndRedeliver, DropBatch, CronJobs, RetryScansDB,
              CleanUpDB
<1>4. ASSUME NEW s \in Scan, AgentStart(s) PROVE SlotInv'
  BY <1>4, SlotStart
<1>5. ASSUME NEW s \in Scan, AgentStop(s) \/ AgentFinish(s) PROVE SlotInv'
  <2>1. poll' = poll /\ commands' \subseteq commands /\ running' \subseteq running
    BY <1>5 DEF AgentStop, AgentFinish, JobEnds
  <2>2. QED
    BY <2>1, SlotsKept
<1>6. CASE LoseCommand
  BY <1>6, SlotsKept DEF LoseCommand
<1>7. ASSUME NEW a \in Agent, AgentRestart(a) \/ GetPendingAgentScans(a) PROVE FALSE
  <2>1. restarts \in 0..MaxRestarts
    BY DEF TypeOK
  <2>2. ~AgentRestart(a)
    BY <2>1 DEF AgentRestart
  <2>3. ~GetPendingAgentScans(a)
    BY DEF GetPendingAgentScans, SlotInv
  <2>4. QED
    BY <1>7, <2>2, <2>3
<1>8. ASSUME NEW a \in Agent, ExtractStoppingAgentScans(a) PROVE SlotInv'
  <2>1. poll[a] = Idle /\ CommandsTo(a) = {} /\ running' = running
    BY <1>8 DEF ExtractStoppingAgentScans
  <2>2. PICK stops \in SUBSET CancelPending(a) :
          commands' = commands \cup [kind : {"stop"}, scan : stops]
    BY <1>8 DEF ExtractStoppingAgentScans
  <2>3. PICK free \in Workload(a) : poll' = [poll EXCEPT ![a] = free]
    BY <1>8 DEF ExtractStoppingAgentScans
  <2>4. \A b \in Agent : Given(b)' = Given(b) /\ Jobs(b)' = Jobs(b)
    BY <2>1, <2>2 DEF Jobs
  <2>5. Given(a) = {}
    BY <2>1 DEF CommandsTo
  <2> HIDE DEF Given, RunningOn
  <2>6. Jobs(a) \in Nat /\ Jobs(a) <= MaxWork
    <3>1. Jobs(a) \in Nat
      BY JobsFinite DEF Jobs
    <3>2. Jobs(a) + Cardinality({}) <= MaxWork
      BY <2>5 DEF SlotInv
    <3>3. QED
      BY <3>1, <3>2, FS_EmptySet
  <2>7. Jobs(a) + free <= MaxWork /\ free \in Nat
    <3>1. Free(a) = MaxWork - Jobs(a) /\ Free(a) \in Nat
      BY <2>6 DEF Free, Jobs
    <3>2. QED
      BY <2>6, <3>1 DEF Workload
  <2>8. poll \in [Agent -> {Idle, Booting} \cup 0..MaxWork]
    BY DEF TypeOK
  <2>9. ASSUME NEW b \in Agent
        PROVE  /\ poll'[b] # Booting
               /\ poll'[b] >= 0 => Given(b) = {} /\ Jobs(b) + poll'[b] <= MaxWork
    <3>1. CASE b = a
      BY <2>3, <2>5, <2>7, <2>8, <3>1 DEF Booting
    <3>2. CASE b # a
      BY <2>3, <2>8, <3>2 DEF SlotInv
    <3>3. QED
      BY <3>1, <3>2
  <2>10. QED
    BY <2>4, <2>9 DEF SlotInv
<1>9. ASSUME NEW a \in Agent, ExtractStartingAgentScans(a) PROVE SlotInv'
  <2>1. poll[a] >= 0 /\ poll' = [poll EXCEPT ![a] = Idle] /\ running' = running
    BY <1>9 DEF ExtractStartingAgentScans
  <2>2. PICK starts \in SUBSET Startable(a) :
          /\ Cardinality(starts) = Min2(poll[a], Cardinality(Startable(a)))
          /\ commands' = commands \cup [kind : {"start"}, scan : starts]
    BY <1>9 DEF ExtractStartingAgentScans
  <2>3. starts \subseteq Scan /\ \A s \in starts : AgentOf[s] = a
    BY DEF Startable
  <2>4. /\ \A b \in Agent : b # a => Given(b)' = Given(b)
        /\ \A b \in Agent : Jobs(b)' = Jobs(b)
    BY <2>1, <2>2, <2>3 DEF Jobs
  <2>5. Given(a)' \subseteq Given(a) \cup starts
    BY <2>1, <2>2, <2>3
  <2> HIDE DEF Given, RunningOn
  <2>6. poll \in [Agent -> {Idle, Booting} \cup 0..MaxWork]
    BY DEF TypeOK
  <2>7. Jobs(a)' + Cardinality(Given(a)') <= MaxWork
    <3>1. /\ Given(a)' \in SUBSET starts
          /\ Jobs(a) + poll[a] <= MaxWork
      BY <2>1, <2>5 DEF SlotInv
    <3>2. IsFiniteSet(starts) /\ IsFiniteSet(Startable(a))
      BY <2>3, ScanAssumption, FS_Subset DEF Startable
    <3>3. /\ Cardinality(starts) \in Nat /\ Cardinality(Startable(a)) \in Nat
          /\ Jobs(a) \in Nat
      BY <3>2, JobsFinite, FS_CardinalityType DEF Jobs
    <3>4. poll[a] \in Nat
      BY <2>1, <2>6 DEF Idle, Booting
    <3>5. Cardinality(starts) <= poll[a]
      BY <2>2, <3>3, <3>4 DEF Min2
    <3>6. Cardinality(Given(a)') <= Cardinality(starts) /\ IsFiniteSet(Given(a)')
      BY <3>1, <3>2, FS_Subset
    <3>7. Cardinality(Given(a)') \in Nat
      BY <3>6, FS_CardinalityType
    <3>8. QED
      BY <2>4, <3>1, <3>3, <3>4, <3>5, <3>6, <3>7
  <2>8. poll'[a] = Idle
    BY <2>1, <2>6
  <2>9. ASSUME NEW b \in Agent, b # a
        PROVE  /\ poll'[b] # Booting
               /\ Jobs(b)' + Cardinality(Given(b)') <= MaxWork
               /\ poll'[b] >= 0 => Given(b)' = {} /\ Jobs(b)' + poll'[b] <= MaxWork
    <3>1. poll'[b] = poll[b]
      BY <2>1, <2>6, <2>9
    <3>2. QED
      BY <2>4, <2>9, <3>1 DEF SlotInv
  <2>10. QED
    BY <2>7, <2>8, <2>9 DEF SlotInv, Idle, Booting
<1>10. CASE UNCHANGED vars
  BY <1>1, <1>10 DEF vars
<1>11. QED
  BY <1>1, <1>2, <1>3, <1>4, <1>5, <1>6, <1>7, <1>8, <1>9, <1>10
     DEF Next, Server, Scanner, Polling, Ingestion

(***************************************************************************)
(* GetAgentActions respects MaxAgentWorkload: although the workload an     *)
(* agent polls with is older than the transaction that hands out scans, an *)
(* agent that counts its jobs right and is not restarted never has more    *)
(* than MaxWork jobs running or on their way, for any number of agents,    *)
(* nodes and scans, whatever other scanners take of its slots.             *)
(***************************************************************************)
THEOREM WorkloadIsRespected ==
    ASSUME MaxRestarts = 0, "miscount" \notin Ops
    PROVE  Spec => []WorkloadRespected
<1>1. Init => SlotInv
  <2> SUFFICES ASSUME Init PROVE SlotInv
    OBVIOUS
  <2>1. ASSUME NEW a \in Agent PROVE RunningOn(a) = {} /\ Given(a) = {} /\ poll[a] = Idle
    BY DEF Init, Given, RunningOn
  <2>2. Cardinality({}) = 0
    BY FS_EmptySet
  <2>3. QED
    BY <2>1, <2>2 DEF SlotInv, Jobs, Idle, Booting
<1>2. TypeOK /\ SlotInv /\ [Next]_vars => SlotInv'
  BY SlotNext
<1>3. TypeOK /\ SlotInv => WorkloadRespected
  BY GivenIsStarts DEF SlotInv, WorkloadRespected, Jobs
<1>4. QED
  BY <1>1, <1>2, <1>3, TypeCorrect, PTL DEF Spec

-----------------------------------------------------------------------------
(* What sending a message and committing a batch do to the topic and to    *)
(* the scans.                                                              *)

\* A message is put at the end of the topic.
LEMMA SendEffect ==
    ASSUME TypeOK, NEW s \in Scan, NEW st \in Reported, Send(s, st)
    PROVE  /\ Len(msgs) \in Nat /\ Len(msgs') = Len(msgs) + 1
           /\ \A i \in 1..Len(msgs) : msgs'[i] = msgs[i]
           /\ msgs'[Len(msgs) + 1].scan = s /\ msgs'[Len(msgs) + 1].status = st
<1>1. msgs \in Seq(Message)
  BY DEF TypeOK
<1>2. Len(msgs) \in Nat
  BY <1>1
<1> QED
  BY <1>1, <1>2 DEF Send

\* A batch is the head of the topic and what is left is the rest.
LEMMA BatchEffect ==
    ASSUME TypeOK, NEW batch \in Batches
    PROVE  \E k \in 1..Len(msgs) :
              /\ Len(msgs) \in Nat /\ Len(batch) = k
              /\ \A i \in 1..k : batch[i] = msgs[i]
              /\ Consume(batch) => /\ Len(msgs') = Len(msgs) - k
                                   /\ \A i \in 1..Len(msgs') : msgs'[i] = msgs[i + k]
<1>1. PICK k \in 1..Min2(MaxBatch, Len(msgs)) : batch = SubSeq(msgs, 1, k)
  BY DEF Batches
<1>2. msgs \in Seq(Message)
  BY DEF TypeOK
<1>3. Len(msgs) \in Nat /\ k \in 1..Len(msgs)
  BY <1>1, <1>2 DEF Min2
<1>4. Len(batch) = k /\ \A i \in 1..k : batch[i] = msgs[i]
  BY <1>1, <1>2, <1>3
<1>5. ASSUME Consume(batch)
      PROVE  /\ Len(msgs') = Len(msgs) - k
             /\ \A i \in 1..Len(msgs') : msgs'[i] = msgs[i + k]
  <2>1. msgs' = SubSeq(msgs, k + 1, Len(msgs))
    BY <1>4, <1>5 DEF Consume
  <2> QED
    BY <2>1, <1>2, <1>3
<1> QED
  BY <1>3, <1>4, <1>5

\* A status that a batch changes is one that the batch reports, and it is not
\* IN_PROGRESS if the scan is being cancelled.
LEMMA CommitEffect ==
    ASSUME TypeOK, NEW batch \in Batches, CommitRows(StatusesToMaps(batch)),
           NEW s \in Scan, status'[s] # status[s]
    PROVE  /\ Exists(s)
           /\ status'[s] \in Reported
           /\ status'[s] = "IN_PROGRESS" => status[s] \notin CancelStates
           /\ \E i \in 1..Len(batch) : batch[i].scan = s /\ batch[i].status = status'[s]
<1> DEFINE rows == StatusesToMaps(batch)
           row == CHOOSE m \in rows : m.scan = s
<1>1. batch \in Seq(Message) /\ rows \in SUBSET Message
  BY BatchType, StatusesToMapsType
<1>2. \A x \in rows : \E i \in 1..Len(batch) : x = batch[i]
  BY DEF StatusesToMaps
<1> HIDE DEF rows
<1>3. status' = [t \in Scan |-> IF t \in AppliedInProgress(rows) \cup AppliedOthers(rows)
                                THEN (CHOOSE m \in rows : m.scan = t).status
                                ELSE status[t]]
  BY DEF CommitRows, rows
<1>4. s \in AppliedInProgress(rows) \cup AppliedOthers(rows) /\ status'[s] = row.status
  BY <1>3
<1>5. Exists(s) /\ row.status \in Reported
  BY <1>1, <1>4, RowStatus
<1>6. PICK m \in rows : m.scan = s
  BY <1>4 DEF AppliedInProgress, AppliedOthers, InProgressRows, OtherRows
<1>7. row \in rows /\ row.scan = s
  BY <1>6
<1>8. status'[s] = "IN_PROGRESS" => status[s] \notin CancelStates
  BY CommitKeepsCancel
<1> QED
  BY <1>2, <1>4, <1>5, <1>7, <1>8

-----------------------------------------------------------------------------
(* A stop before the first hand-out.  Nothing of a scan that was never     *)
(* handed out is under way: no command, job, task or message, and no retry *)
(* was spent on it.  So nobody writes its row but users.                   *)

StartOf(s) == [kind |-> "start", scan |-> s]

Fresh(s) ==
    /\ status[s] \in {NoScan, "STARTING", "CANCELLED", "DELETE_PENDING"}
    /\ retries[s] = 0
    /\ StartOf(s) \notin commands
    /\ JobsOf(s) = {}
    /\ tasks[s] = 0
    /\ \A i \in 1..Len(msgs) : msgs[i].scan # s
    /\ s \in stopped => request[s] = "closed" /\ status[s] # "STARTING"

FreshInv == \A s \in Scan : handouts[s] = 0 => Fresh(s)

\* A batch leaves a scan alone that has no message in it.
LEMMA FreshBatch ==
    ASSUME TypeOK, NEW s \in Scan, Fresh(s), NEW batch \in Batches,
           CommitRows(StatusesToMaps(batch)) \/ UNCHANGED <<status, retries>>,
           Consume(batch) \/ UNCHANGED msgs,
           UNCHANGED <<commands, running, tasks, stopped, request>>
    PROVE  Fresh(s)'
<1>1. PICK k \in 1..Len(msgs) :
        /\ Len(msgs) \in Nat /\ Len(batch) = k
        /\ \A i \in 1..k : batch[i] = msgs[i]
        /\ Consume(batch) => /\ Len(msgs') = Len(msgs) - k
                             /\ \A i \in 1..Len(msgs') : msgs'[i] = msgs[i + k]
  BY BatchEffect
<1>2. \A i \in 1..Len(msgs') : \E j \in 1..Len(msgs) : msgs'[i] = msgs[j]
  <2>1. CASE UNCHANGED msgs
    BY <2>1
  <2>2. CASE Consume(batch)
    BY <2>2, <1>1
  <2>3. QED
    BY <2>1, <2>2
<1>3. \A i \in 1..Len(batch) : batch[i].scan # s
  BY <1>1 DEF Fresh
<1>4. status'[s] = status[s]
  BY <1>3, CommitEffect
<1>5. retries' = retries
  BY DEF CommitRows
<1>6. QED
  BY <1>2, <1>4, <1>5 DEF Fresh, JobsOf

\* A message of another scan.
LEMMA FreshSend ==
    ASSUME TypeOK, NEW s \in Scan, Fresh(s), NEW t \in Scan, t # s, NEW st \in Reported,
           Send(t, st)
    PROVE  \A i \in 1..Len(msgs') : msgs'[i].scan # s
<1>1. /\ Len(msgs) \in Nat /\ Len(msgs') = Len(msgs) + 1
      /\ \A i \in 1..Len(msgs) : msgs'[i] = msgs[i]
      /\ msgs'[Len(msgs) + 1].scan = t
  BY SendEffect
<1>2. \A i \in 1..Len(msgs') : i \in 1..Len(msgs) \/ i = Len(msgs) + 1
  BY <1>1
<1>3. QED
  BY <1>1, <1>2 DEF Fresh

\* Nobody but its users changes a scan that is not handed out.
LEMMA FreshNext == TypeOK /\ BudgetInv /\ FreshInv /\ [Next]_vars => FreshInv'
<1> SUFFICES ASSUME TypeOK, BudgetInv, FreshInv, [Next]_vars,
                    NEW s \in Scan, handouts'[s] = 0
             PROVE  Fresh(s)'
  BY DEF FreshInv
<1>a. /\ retries \in [Scan -> 0..MaxRetries] /\ handouts \in [Scan -> Nat]
      /\ tasks \in [Scan -> Nat]
  BY DEF TypeOK
<1>b. /\ status \in [Scan -> ScanStatuses \cup {NoScan}]
      /\ request \in [Scan -> {"none", "open", "closed"}]
  BY DEF TypeOK
<1>c. {"COMPLETE", "ERROR", "CANCELLED", "IN_PROGRESS"} \subseteq Reported
  BY DEF Reported, Terminal
<1> USE DEF graph, history, scanners
<1>1. handouts[s] = 0
  <2>1. ASSUME NEW a \in Agent, ExtractStartingAgentScans(a) PROVE handouts[s] = 0
    <3>1. PICK starts : handouts' = [t \in Scan |-> IF t \in starts THEN handouts[t] + 1
                                                                    ELSE handouts[t]]
      BY <2>1 DEF ExtractStartingAgentScans
    <3>2. QED
      BY <3>1, <1>a
  <2>2. ASSUME NEW a \in Agent, GetPendingAgentScans(a) PROVE handouts[s] = 0
    <3>1. PICK again : handouts' = [t \in Scan |-> IF t \in again THEN handouts[t] + 1
                                                                  ELSE handouts[t]]
      BY <2>2 DEF GetPendingAgentScans
    <3>2. QED
      BY <3>1, <1>a
  <2>3. CASE UNCHANGED handouts
    BY <2>3
  <2>4. QED
    BY <2>1, <2>2, <2>3
    DEF Next, Server, StartMultiScan, Polling, Scanner, Ingestion, CronJobs, vars,
        AddNewScanCheck, AddNewScan, StopScan, MarkScanDeletePending, DeleteScan,
        DeleteScanReset, DeleteScanAbort, ExtractStoppingAgentScans, AgentStart, AgentStop,
        AgentReport, AgentFinish, EnqueueScanSBOM, ScanSBOMReport, ScanSBOMEnd,
        AgentRestart, LoseCommand, CommitFuncStatus, CommitAndRedeliver, DropBatch,
        CommitFuncVulnerabilities, TimeOut, RetryScansDB, CleanUpDB
<1>2. Fresh(s)
  BY <1>1 DEF FreshInv
\* What users, restarts and losses leave alone.
<1>3. ASSUME UNCHANGED <<retries, msgs>>, running' \subseteq running,
             tasks'[s] = tasks[s],
             StartOf(s) \in commands' => StartOf(s) \in commands,
             \/ UNCHANGED <<stopped, request>>
                /\ status'[s] \in {status[s], NoScan, "DELETE_PENDING"}
             \/ stopped \subseteq stopped' /\ UNCHANGED request /\ request[s] = "closed"
                /\ status'[s] = "CANCELLED"
      PROVE  Fresh(s)'
  BY <1>2, <1>3 DEF Fresh, JobsOf, NoScan
<1>4. ASSUME NEW t \in Scan, AddNewScanCheck(t) PROVE Fresh(s)'
  BY <1>2, <1>4, <1>b DEF AddNewScanCheck, Fresh, JobsOf
<1>5. ASSUME NEW t \in Scan, AddNewScan(t) PROVE Fresh(s)'
  BY <1>2, <1>5, <1>a, <1>b DEF AddNewScan, Fresh, JobsOf
<1>6. ASSUME NEW t \in Scan, StopScan(t) PROVE Fresh(s)'
  <2>1. CASE t = s
    <3>1. status[s] = "STARTING" /\ request[s] = "closed"
      BY <1>2, <1>6, <2>1 DEF StopScan, Fresh, NoScan, BudgetInv
    <3>2. QED
      BY <1>3, <1>6, <1>b, <2>1, <3>1 DEF StopScan
  <2>2. CASE t # s
    BY <1>2, <1>6, <1>b, <2>2 DEF StopScan, Fresh, JobsOf
  <2>3. QED
    BY <2>1, <2>2
<1>7. ASSUME NEW t \in Scan,
             \/ MarkScanDeletePending(t) \/ DeleteScan(t) \/ DeleteScanReset(t)
             \/ DeleteScanAbort(t) \/ CommitFuncVulnerabilities(t) \/ TimeOut(t)
      PROVE  Fresh(s)'
  BY <1>3, <1>7, <1>b DEF MarkScanDeletePending, DeleteScan, DeleteScanReset,
     DeleteScanAbort, CommitFuncVulnerabilities, TimeOut
<1>8. ASSUME NEW a \in Agent, ExtractStoppingAgentScans(a) PROVE Fresh(s)'
  <2>1. PICK stops \in SUBSET CancelPending(a) :
          /\ status' = [t \in Scan |-> IF t \in stops THEN "CANCELLING" ELSE status[t]]
          /\ commands' = commands \cup [kind : {"stop"}, scan : stops]
    BY <1>8 DEF ExtractStoppingAgentScans
  <2>2. s \notin stops
    BY <1>2 DEF CancelPending, Fresh, NoScan
  <2>3. StartOf(s) \in commands' => StartOf(s) \in commands
    BY <2>1 DEF StartOf
  <2>4. QED
    BY <1>3, <1>8, <2>1, <2>2, <2>3 DEF ExtractStoppingAgentScans
<1>9. ASSUME NEW a \in Agent, ExtractStartingAgentScans(a) PROVE Fresh(s)'
  <2>1. PICK starts \in SUBSET Startable(a) :
          /\ status' = [t \in Scan |-> IF t \in starts THEN "IN_PROGRESS" ELSE status[t]]
          /\ commands' = commands \cup [kind : {"start"}, scan : starts]
          /\ handouts' = [t \in Scan |-> IF t \in starts THEN handouts[t] + 1
                                                         ELSE handouts[t]]
    BY <1>9 DEF ExtractStartingAgentScans
  <2>2. s \notin starts
    BY <1>1, <1>a, <2>1
  <2>3. StartOf(s) \in commands' => StartOf(s) \in commands
    BY <2>1, <2>2 DEF StartOf
  <2>4. QED
    BY <1>3, <1>9, <2>1, <2>2, <2>3 DEF ExtractStartingAgentScans
<1>10. ASSUME NEW a \in Agent, GetPendingAgentScans(a) PROVE Fresh(s)'
  <2> DEFINE again == IF Startable(a) = {} THEN {}
                      ELSE {t \in Scan : /\ AgentOf[t] = a
                                         /\ status[t] = "IN_PROGRESS"
                                         /\ retries[t] < MaxRetries}
  <2>1. /\ retries' = [t \in Scan |-> IF t \in again THEN retries[t] + 1 ELSE retries[t]]
        /\ commands' = commands \cup [kind : {"start"}, scan : again]
    BY <1>10 DEF GetPendingAgentScans
  <2>2. s \notin again
    BY <1>2 DEF Fresh, NoScan
  <2> HIDE DEF again
  <2>3. StartOf(s) \notin commands'
    BY <1>2, <2>1, <2>2 DEF StartOf, Fresh
  <2>4. retries'[s] = 0
    BY <1>2, <2>1, <2>2 DEF Fresh
  <2>5. QED
    BY <1>2, <1>10, <2>3, <2>4 DEF GetPendingAgentScans, Fresh, JobsOf
<1>11. ASSUME NEW t \in Scan, AgentStart(t) PROVE Fresh(s)'
  <2>1. PICK j \in Job \ running : j[1] = t /\ running' = running \cup {j}
    BY <1>11, JobStarts
  <2>2. t # s
    BY <1>2, <1>11 DEF AgentStart, Deliverable, Fresh, StartOf
  <2>3. JobsOf(s)' = {}
    BY <1>2, <2>1, <2>2 DEF Fresh, JobsOf
  <2>4. QED
    BY <1>2, <1>11, <2>3 DEF AgentStart, Fresh
<1>12. ASSUME NEW t \in Scan, AgentStop(t) PROVE Fresh(s)'
  <2>1. /\ commands' \subseteq commands /\ running' \subseteq running
        /\ UNCHANGED <<status, retries, tasks, request, stopped>>
    BY <1>12 DEF AgentStop, JobEnds
  <2>2. CASE UNCHANGED msgs
    BY <1>3, <2>1, <2>2
  <2>3. CASE JobsOf(t) # {} /\ Send(t, "CANCELLED")
    <3>1. t # s
      BY <1>2, <2>3 DEF Fresh
    <3>2. \A i \in 1..Len(msgs') : msgs'[i].scan # s
      BY <1>2, <1>c, <2>3, <3>1, FreshSend
    <3>3. QED
      BY <1>2, <2>1, <3>2 DEF Fresh, JobsOf
  <2>4. QED
    BY <1>12, <2>2, <2>3 DEF AgentStop
<1>13. ASSUME NEW t \in Scan,
              AgentReport(t) \/ AgentFinish(t) \/ ScanSBOMReport(t) \/ ScanSBOMEnd(t)
       PROVE  Fresh(s)'
  <2>1. PICK st \in {"COMPLETE", "ERROR", "IN_PROGRESS"} : Send(t, st)
    BY <1>13 DEF AgentReport, AgentFinish, ScanSBOMReport, ScanSBOMEnd
  <2>2. t # s
    <3>1. JobsOf(t) # {} \/ tasks[t] > 0
      BY <1>13 DEF AgentReport, AgentFinish, ScanSBOMReport, ScanSBOMEnd
    <3>2. JobsOf(s) = {} /\ tasks[s] = 0
      BY <1>2 DEF Fresh
    <3>3. QED
      BY <3>1, <3>2
  <2>3. \A i \in 1..Len(msgs') : msgs'[i].scan # s
    BY <1>2, <1>c, <2>1, <2>2, FreshSend
  <2>4. /\ running' \subseteq running /\ tasks'[s] = tasks[s]
        /\ UNCHANGED <<status, retries, commands, request, stopped>>
    BY <1>13, <2>2, <1>a
       DEF AgentReport, AgentFinish, ScanSBOMReport, ScanSBOMEnd, JobEnds
  <2>5. QED
    BY <1>2, <2>3, <2>4 DEF Fresh, JobsOf
<1>14. ASSUME NEW t \in Scan, EnqueueScanSBOM(t) PROVE Fresh(s)'
  <2>1. t # s
    BY <1>2, <1>14 DEF EnqueueScanSBOM, Fresh
  <2>2. tasks'[s] = tasks[s]
    BY <1>14, <2>1, <1>a DEF EnqueueScanSBOM
  <2>3. QED
    BY <1>3, <1>14, <2>2 DEF EnqueueScanSBOM
<1>15. ASSUME (\E a \in Agent : AgentRestart(a)) \/ LoseCommand PROVE Fresh(s)'
  BY <1>3, <1>15 DEF AgentRestart, LoseCommand
<1>16. CASE CommitFuncStatus
  <2>1. PICK batch \in Batches : CommitRows(StatusesToMaps(batch)) /\ Consume(batch)
    BY <1>16 DEF CommitFuncStatus
  <2>2. QED
    BY <1>2, <1>16, <2>1, FreshBatch DEF CommitFuncStatus
<1>17. CASE CommitAndRedeliver
  <2>1. PICK batch \in Batches : CommitRows(StatusesToMaps(batch))
    BY <1>17 DEF CommitAndRedeliver
  <2>2. QED
    BY <1>2, <1>17, <2>1, FreshBatch DEF CommitAndRedeliver
<1>18. CASE DropBatch
  <2>1. PICK batch \in Batches : Consume(batch)
    BY <1>18 DEF DropBatch
  <2>2. QED
    BY <1>2, <1>18, <2>1, FreshBatch DEF DropBatch
<1>19. CASE RetryScansDB
  <2>1. s \notin Retriable
    BY <1>2 DEF Retriable, Fresh, NoScan
  <2>2. status'[s] = status[s] /\ retries'[s] = retries[s]
    BY <1>19, <2>1 DEF RetryScansDB
  <2>3. QED
    BY <1>2, <1>19, <2>2 DEF RetryScansDB, Fresh, JobsOf
<1>20. CASE CleanUpDB
  <2>1. s \notin Exhausted
    BY <1>2 DEF Exhausted, Fresh
  <2>2. QED
    BY <1>3, <1>20, <2>1 DEF CleanUpDB
<1>21. CASE UNCHANGED vars
  BY <1>3, <1>21 DEF vars
<1>22. QED
  BY <1>4, <1>5, <1>6, <1>7, <1>8, <1>9, <1>10, <1>11, <1>12, <1>13, <1>14, <1>15, <1>16,
     <1>17, <1>18, <1>19, <1>20, <1>21
  DEF Next, Server, StartMultiScan, Polling, Scanner, Ingestion, CronJobs

(***************************************************************************)
(* StopScan cancels a scan that waits for its first hand-out for good,     *)
(* whatever polls are under way and whatever fails: it is never handed out *)
(* and never becomes active again.                                         *)
(***************************************************************************)
THEOREM StoppedNotHandedOut == Spec => StopBeforeHandout
<1>1. Init => FreshInv
  <2> SUFFICES ASSUME Init, NEW s \in Scan PROVE Fresh(s)
    BY DEF FreshInv
  <2>1. /\ status = [t \in Scan |-> NoScan] /\ retries = [t \in Scan |-> 0]
        /\ commands = {} /\ running = {} /\ tasks = [t \in Scan |-> 0] /\ msgs = <<>>
        /\ stopped = {}
    BY DEF Init
  <2>2. Len(msgs) = 0
    BY <2>1
  <2>3. QED
    BY <2>1, <2>2 DEF Fresh, JobsOf
<1>2. ASSUME TypeOK, BudgetInv, FreshInv, TypeOK', FreshInv', [Next]_vars
      PROVE  [\A s \in stopped :
                 handouts[s] = 0 => /\ handouts'[s] = 0
                                    /\ status'[s] \in {"CANCELLED", "DELETE_PENDING", NoScan}]_vars
  <2>1. SUFFICES ASSUME NEW s \in stopped, handouts[s] = 0
                 PROVE  /\ handouts'[s] = 0
                        /\ status'[s] \in {"CANCELLED", "DELETE_PENDING", NoScan}
    OBVIOUS
  <2>2. s \in Scan /\ stopped \subseteq stopped'
    BY <1>2 DEF TypeOK, Next, Server, StartMultiScan, Polling, Scanner, Ingestion, CronJobs,
        vars, history,
        AddNewScanCheck, AddNewScan, StopScan, MarkScanDeletePending, DeleteScan,
        DeleteScanReset, DeleteScanAbort, ExtractStoppingAgentScans,
        ExtractStartingAgentScans, GetPendingAgentScans, AgentStart, AgentStop,
        AgentReport, AgentFinish, EnqueueScanSBOM, ScanSBOMReport, ScanSBOMEnd,
        AgentRestart, LoseCommand, CommitFuncStatus, CommitAndRedeliver, DropBatch,
        CommitFuncVulnerabilities, TimeOut, RetryScansDB, CleanUpDB
  <2>3. Fresh(s) /\ status[s] # "STARTING"
    BY <1>2, <2>1, <2>2 DEF FreshInv, Fresh
  <2>4. handouts'[s] = 0
    <3>1. ASSUME NEW a \in Agent, ExtractStartingAgentScans(a) PROVE handouts'[s] = 0
      <4>1. PICK starts \in SUBSET Startable(a) :
              handouts' = [t \in Scan |-> IF t \in starts THEN handouts[t] + 1
                                                          ELSE handouts[t]]
        BY <3>1 DEF ExtractStartingAgentScans
      <4>2. s \notin starts
        BY <2>3 DEF Startable
      <4>3. QED
        BY <2>1, <2>2, <4>1, <4>2
    <3>2. ASSUME NEW a \in Agent, GetPendingAgentScans(a) PROVE handouts'[s] = 0
      <4> DEFINE again == IF Startable(a) = {} THEN {}
                          ELSE {t \in Scan : /\ AgentOf[t] = a
                                             /\ status[t] = "IN_PROGRESS"
                                             /\ retries[t] < MaxRetries}
      <4>1. handouts' = [t \in Scan |-> IF t \in again THEN handouts[t] + 1
                                                       ELSE handouts[t]]
        BY <3>2 DEF GetPendingAgentScans
      <4>2. s \notin again
        BY <2>3 DEF Fresh, NoScan
      <4> HIDE DEF again
      <4>3. QED
        BY <2>1, <2>2, <4>1, <4>2
    <3>3. CASE UNCHANGED handouts
      BY <2>1, <3>3
    <3>4. QED
      BY <1>2, <3>1, <3>2, <3>3
      DEF Next, Server, StartMultiScan, Polling, Scanner, Ingestion, CronJobs, vars,
          history,
          AddNewScanCheck, AddNewScan, StopScan, MarkScanDeletePending, DeleteScan,
          DeleteScanReset, DeleteScanAbort, ExtractStoppingAgentScans, AgentStart,
          AgentStop,
          AgentReport, AgentFinish, EnqueueScanSBOM, ScanSBOMReport, ScanSBOMEnd,
          AgentRestart, LoseCommand, CommitFuncStatus, CommitAndRedeliver, DropBatch,
          CommitFuncVulnerabilities, TimeOut, RetryScansDB, CleanUpDB
  <2>5. Fresh(s)' /\ s \in stopped'
    BY <1>2, <2>1, <2>2, <2>4 DEF FreshInv
  <2>6. QED
    BY <2>4, <2>5 DEF Fresh
<1>3. QED
  BY <1>1, <1>2, FreshNext, Reachable, PTL DEF Spec, StopBeforeHandout

-----------------------------------------------------------------------------
(* What is under way for a scan in progress.  A message may revive a scan  *)
(* when it is committed, so every message in the topic needs something     *)
(* under way as well: a job, a task or a last word at or after it.         *)

LastWord(s, i) ==
    \E j \in i..Len(msgs) : msgs[j].scan = s /\ msgs[j].status \in Terminal

Followed ==
    \A s \in Scan : \A i \in 1..Len(msgs) :
        msgs[i].scan = s => JobsOf(s) # {} \/ tasks[s] > 0 \/ LastWord(s, i)

\* A batch with a terminal message of a scan ends the scan.
LEMMA CommitTerminal ==
    ASSUME TypeOK, NEW batch \in Batches, CommitRows(StatusesToMaps(batch)),
           NEW s \in Scan, Exists(s),
           NEW i \in 1..Len(batch), batch[i].scan = s, batch[i].status \in Terminal
    PROVE  status'[s] \in Terminal
<1> DEFINE rows == StatusesToMaps(batch)
           row == CHOOSE m \in rows : m.scan = s
<1>1. batch \in Seq(Message)
  BY BatchType
<1>2. \A x, y \in rows : x.scan = y.scan => x = y
  BY <1>1, OneRowPerScan
<1>3. PICK m \in rows : m.scan = s /\ m.status \in Terminal
  BY <1>1, TerminalRow
<1> HIDE DEF rows
<1>4. row = m
  <2>1. row \in rows /\ row.scan = s
    BY <1>3
  <2>2. QED
    BY <1>2, <1>3, <2>1
<1>5. s \in AppliedOthers(rows)
  BY <1>3 DEF AppliedOthers, OtherRows, InProgressRows, Existing, Terminal
<1>6. status' = [t \in Scan |-> IF t \in AppliedInProgress(rows) \cup AppliedOthers(rows)
                                THEN (CHOOSE x \in rows : x.scan = t).status
                                ELSE status[t]]
  BY DEF CommitRows, rows
<1>7. QED
  BY <1>3, <1>4, <1>5, <1>6

\* A step that sends nothing and ends no job and no task.
LEMMA FollowedKept ==
    ASSUME TypeOK, Followed, UNCHANGED msgs, running \subseteq running',
           \A s \in Scan : tasks[s] > 0 => tasks'[s] > 0
    PROVE  Followed'
  BY DEF Followed, LastWord, JobsOf

\* A sender's message is a last word or its sender goes on.
LEMMA FollowedSend ==
    ASSUME TypeOK, Followed, NEW s \in Scan, NEW st \in Reported, Send(s, st),
           \A t \in Scan \ {s} : JobsOf(t)' = JobsOf(t) /\ tasks'[t] = tasks[t],
           st \in Terminal \/ JobsOf(s)' # {} \/ tasks'[s] > 0
    PROVE  /\ Followed'
           /\ st \in Terminal => LastWord(s, 1)'
           /\ \A t \in Scan \ {s} : LastWord(t, 1) => LastWord(t, 1)'
           /\ LastWord(s, 1) => LastWord(s, 1)'
<1>1. /\ Len(msgs) \in Nat /\ Len(msgs') = Len(msgs) + 1
      /\ \A i \in 1..Len(msgs) : msgs'[i] = msgs[i]
      /\ msgs'[Len(msgs) + 1].scan = s /\ msgs'[Len(msgs) + 1].status = st
  BY SendEffect
<1>3. ASSUME NEW t, NEW i \in 1..Len(msgs), LastWord(t, i) PROVE LastWord(t, i)'
  <2>1. PICK j \in i..Len(msgs) : msgs[j].scan = t /\ msgs[j].status \in Terminal
    BY <1>3 DEF LastWord
  <2>2. j \in 1..Len(msgs) /\ j \in i..Len(msgs') /\ msgs'[j] = msgs[j]
    BY <1>1, <2>1
  <2>3. QED
    BY <2>1, <2>2 DEF LastWord
<1>4. ASSUME NEW i \in 1..Len(msgs'), st \in Terminal PROVE LastWord(s, i)'
  <2>1. Len(msgs) + 1 \in i..Len(msgs')
    BY <1>1
  <2>2. QED
    BY <1>1, <1>4, <2>1 DEF LastWord
<1>5. ASSUME NEW t, LastWord(t, 1) PROVE LastWord(t, 1)'
  <2>1. 1 \in 1..Len(msgs)
    BY <1>1, <1>5 DEF LastWord
  <2>2. QED
    BY <1>3, <1>5, <2>1
<1>6. ASSUME NEW t \in Scan, NEW i \in 1..Len(msgs'), msgs'[i].scan = t
      PROVE  JobsOf(t)' # {} \/ tasks'[t] > 0 \/ LastWord(t, i)'
  <2>1. CASE t = s
    BY <1>4, <2>1
  <2>2. CASE t # s
    <3>1. i \in 1..Len(msgs) /\ msgs'[i] = msgs[i]
      BY <1>1, <1>6, <2>2
    <3>2. JobsOf(t) # {} \/ tasks[t] > 0 \/ LastWord(t, i)
      BY <1>6, <3>1 DEF Followed
    <3>3. LastWord(t, i) => LastWord(t, i)'
      BY <1>3, <3>1
    <3>4. QED
      BY <2>2, <3>2, <3>3
  <2>3. QED
    BY <2>1, <2>2
<1>7. Followed'
  BY <1>6 DEF Followed
<1>8. st \in Terminal => LastWord(s, 1)'
  BY <1>1, <1>4
<1>9. QED
  BY <1>5, <1>7, <1>8

AnswerInv == Followed /\ AnswerUnderWay

\* A step of users, polls or periodic jobs.
LEMMA AnswerKept ==
    ASSUME TypeOK, AnswerInv, UNCHANGED msgs, running \subseteq running',
           \A s \in Scan : tasks[s] > 0 => tasks'[s] > 0,
           \A s \in Scan : StartOf(s) \in commands =>
                              StartOf(s) \in commands' \/ JobsOf(s)' # {},
           \A s \in Scan : \/ status'[s] \notin CancelStates \cup {"IN_PROGRESS"}
                           \/ status[s] \in CancelStates \cup {"IN_PROGRESS"}
                           \/ StartOf(s) \in commands'
    PROVE  AnswerInv'
<1>1. Followed'
  BY FollowedKept DEF AnswerInv
<1>2. ASSUME NEW s \in Scan, UnderWay(s) PROVE UnderWay(s)'
  BY <1>2 DEF UnderWay, JobsOf, StartOf
<1>3. ASSUME NEW s \in Scan, StartOf(s) \in commands' PROVE UnderWay(s)'
  BY <1>3 DEF UnderWay, StartOf
<1>4. QED
  BY <1>1, <1>2, <1>3 DEF AnswerInv, AnswerUnderWay

\* A report, or the end of a job or of a task.
LEMMA AnswerSend ==
    ASSUME TypeOK, AnswerInv, NEW s \in Scan, NEW st \in Reported, Send(s, st),
           \A t \in Scan \ {s} : JobsOf(t)' = JobsOf(t) /\ tasks'[t] = tasks[t],
           st \in Terminal \/ JobsOf(s)' # {} \/ tasks'[s] > 0,
           \A t \in Scan : StartOf(t) \in commands => StartOf(t) \in commands',
           UNCHANGED status
    PROVE  AnswerInv'
<1>1. /\ Followed'
      /\ st \in Terminal => LastWord(s, 1)'
      /\ \A t \in Scan \ {s} : LastWord(t, 1) => LastWord(t, 1)'
  BY FollowedSend DEF AnswerInv
<1>2. UnderWay(s)'
  BY <1>1 DEF UnderWay, LastWord
<1>3. ASSUME NEW t \in Scan \ {s}, UnderWay(t) PROVE UnderWay(t)'
  <2>1. LastWord(t, 1) => LastWord(t, 1)'
    BY <1>1
  <2>2. QED
    BY <1>3, <2>1 DEF UnderWay, StartOf, LastWord
<1>4. QED
  BY <1>1, <1>2, <1>3 DEF AnswerInv, AnswerUnderWay

\* A batch, whether its messages are read again or not.
LEMMA AnswerBatch ==
    ASSUME TypeOK, AnswerInv, NEW batch \in Batches, CommitRows(StatusesToMaps(batch)),
           Consume(batch) \/ UNCHANGED msgs,
           UNCHANGED <<running, tasks, commands>>
    PROVE  AnswerInv'
<1>1. PICK k \in 1..Len(msgs) :
        /\ Len(msgs) \in Nat /\ Len(batch) = k
        /\ \A i \in 1..k : batch[i] = msgs[i]
        /\ Consume(batch) => /\ Len(msgs') = Len(msgs) - k
                             /\ \A i \in 1..Len(msgs') : msgs'[i] = msgs[i + k]
  BY BatchEffect
<1>a. status \in [Scan -> ScanStatuses \cup {NoScan}]
  BY DEF TypeOK
<1>2. ASSUME NEW s, NEW i \in 1..Len(msgs), LastWord(s, i), Consume(batch), i > k
      PROVE  LastWord(s, i - k)'
  <2>1. PICK j \in i..Len(msgs) : msgs[j].scan = s /\ msgs[j].status \in Terminal
    BY <1>2 DEF LastWord
  <2>2. j - k \in (i - k)..Len(msgs') /\ j - k \in 1..Len(msgs') /\ (j - k) + k = j
    BY <1>1, <1>2, <2>1
  <2>3. msgs'[j - k] = msgs[j]
    BY <1>1, <1>2, <2>2
  <2>4. QED
    BY <2>1, <2>2, <2>3 DEF LastWord
<1>3. Followed'
  <2>1. CASE UNCHANGED msgs
    BY <2>1, FollowedKept DEF AnswerInv
  <2>2. CASE Consume(batch)
    <3>1. SUFFICES ASSUME NEW s \in Scan, NEW i \in 1..Len(msgs'), msgs'[i].scan = s
                   PROVE  JobsOf(s)' # {} \/ tasks'[s] > 0 \/ LastWord(s, i)'
      BY DEF Followed
    <3>2. /\ i + k \in 1..Len(msgs) /\ i + k > k /\ (i + k) - k = i
          /\ msgs'[i] = msgs[i + k]
      BY <1>1, <2>2
    <3>3. LastWord(s, i + k) => LastWord(s, i)'
      <4>1. LastWord(s, i + k) => LastWord(s, (i + k) - k)'
        BY <1>2, <2>2, <3>2
      <4>2. QED
        BY <3>2, <4>1
    <3>4. JobsOf(s) # {} \/ tasks[s] > 0 \/ LastWord(s, i + k)
      BY <3>1, <3>2 DEF AnswerInv, Followed
    <3>5. QED
      BY <3>3, <3>4 DEF JobsOf
  <2>3. QED
    BY <2>1, <2>2
<1>4. ASSUME NEW s \in Scan, status'[s] \in CancelStates \cup {"IN_PROGRESS"}
      PROVE  UnderWay(s)'
  <2>1. status'[s] \notin Terminal
    BY <1>4 DEF Terminal, CancelStates
  <2>2. Exists(s)
    <3>1. CASE status'[s] = status[s]
      BY <1>4, <3>1 DEF Exists, NoScan, CancelStates
    <3>2. CASE status'[s] # status[s]
      BY <3>2, CommitEffect
    <3>3. QED
      BY <3>1, <3>2
  <2>3. \A i \in 1..k : msgs[i].scan = s => msgs[i].status \notin Terminal
    BY <1>1, <2>1, <2>2, CommitTerminal
  \* The word that ends the scan is still in the topic.
  <2>4. ASSUME NEW i \in 1..Len(msgs), LastWord(s, i) PROVE LastWord(s, 1)'
    <3>1. PICK j \in i..Len(msgs) : msgs[j].scan = s /\ msgs[j].status \in Terminal
      BY <2>4 DEF LastWord
    <3>2. j \in 1..Len(msgs) /\ j > k
      BY <1>1, <2>3, <3>1
    <3>3. CASE UNCHANGED msgs
      BY <3>1, <3>2, <3>3 DEF LastWord
    <3>4. CASE Consume(batch)
      <4>1. j - k \in 1..Len(msgs') /\ (j - k) + k = j
        BY <1>1, <3>2, <3>4
      <4>2. msgs'[j - k] = msgs[j]
        BY <1>1, <3>4, <4>1
      <4>3. QED
        BY <3>1, <4>1, <4>2 DEF LastWord
    <3>5. QED
      BY <3>3, <3>4
  <2>5. \/ StartOf(s) \in commands \/ JobsOf(s) # {} \/ tasks[s] > 0
        \/ \E i \in 1..Len(msgs) : LastWord(s, i)
    <3>1. CASE status'[s] = status[s]
      <4>1. UnderWay(s)
        BY <1>4, <3>1 DEF AnswerInv, AnswerUnderWay
      <4>2. 1 \in 1..Len(msgs)
        BY <1>1
      <4>3. QED
        BY <4>1, <4>2 DEF UnderWay, StartOf, LastWord
    <3>2. CASE status'[s] # status[s]
      <4>1. PICK i \in 1..Len(batch) : batch[i].scan = s
        BY <3>2, CommitEffect
      <4>2. i \in 1..Len(msgs) /\ msgs[i].scan = s
        BY <1>1, <4>1
      <4>3. QED
        BY <4>2 DEF AnswerInv, Followed
    <3>3. QED
      BY <3>1, <3>2
  <2>6. \/ StartOf(s) \in commands' \/ JobsOf(s)' # {} \/ tasks'[s] > 0 \/ LastWord(s, 1)'
    BY <2>4, <2>5 DEF JobsOf
  <2>7. QED
    BY <2>6 DEF UnderWay, StartOf, LastWord
<1>5. QED
  BY <1>3, <1>4 DEF AnswerInv, AnswerUnderWay

\* One step per action.
LEMMA AnswerNext ==
    ASSUME "lose" \notin Ops, MaxRestarts = 0, TypeOK, AnswerInv, [Next]_vars
    PROVE  AnswerInv'
<1>a. /\ status \in [Scan -> ScanStatuses \cup {NoScan}]
      /\ tasks \in [Scan -> Nat]
  BY DEF TypeOK
<1>b. {"COMPLETE", "ERROR", "CANCELLED", "IN_PROGRESS"} \subseteq Reported
      /\ {"COMPLETE", "ERROR", "CANCELLED"} \subseteq Terminal
  BY DEF Reported, Terminal
<1> USE DEF graph, scanners, CancelStates
<1>1. ASSUME UNCHANGED <<msgs, running, tasks>>, commands \subseteq commands',
             \A s \in Scan : \/ status'[s] = status[s]
                             \/ status'[s] \notin CancelStates \cup {"IN_PROGRESS"}
                             \/ status[s] \in CancelStates \cup {"IN_PROGRESS"}
                             \/ StartOf(s) \in commands'
      PROVE  AnswerInv'
  BY <1>1, AnswerKept
<1>2. ASSUME NEW s \in Scan, AddNewScan(s) PROVE AnswerInv'
  BY <1>1, <1>2, <1>a DEF AddNewScan
<1>3. ASSUME NEW s \in Scan, StopScan(s) PROVE AnswerInv'
  BY <1>1, <1>3, <1>a DEF StopScan
<1>4. ASSUME NEW s \in Scan, MarkScanDeletePending(s) \/ DeleteScan(s) PROVE AnswerInv'
  BY <1>1, <1>4, <1>a DEF MarkScanDeletePending, DeleteScan, NoScan
<1>5. ASSUME NEW a \in Agent, ExtractStoppingAgentScans(a) PROVE AnswerInv'
  <2>1. PICK stops \in SUBSET CancelPending(a) :
          /\ status' = [s \in Scan |-> IF s \in stops THEN "CANCELLING" ELSE status[s]]
          /\ commands' = commands \cup [kind : {"stop"}, scan : stops]
    BY <1>5 DEF ExtractStoppingAgentScans
  <2>2. \A s \in stops : status[s] = "CANCEL_PENDING"
    BY DEF CancelPending
  <2>3. QED
    BY <1>1, <1>5, <2>1, <2>2 DEF ExtractStoppingAgentScans
<1>6. ASSUME NEW a \in Agent, ExtractStartingAgentScans(a) PROVE AnswerInv'
  <2>1. PICK starts \in SUBSET Startable(a) :
          /\ status' = [s \in Scan |-> IF s \in starts THEN "IN_PROGRESS" ELSE status[s]]
          /\ commands' = commands \cup [kind : {"start"}, scan : starts]
    BY <1>6 DEF ExtractStartingAgentScans
  <2>2. \A s \in starts : StartOf(s) \in commands'
    BY <2>1 DEF StartOf
  <2>3. QED
    BY <1>1, <1>6, <2>1, <2>2 DEF ExtractStartingAgentScans
<1>7. ASSUME NEW a \in Agent, GetPendingAgentScans(a) PROVE AnswerInv'
  BY <1>1, <1>7 DEF GetPendingAgentScans
<1>8. ASSUME NEW a \in Agent, AgentRestart(a) PROVE FALSE
  <2>1. restarts \in 0..MaxRestarts
    BY DEF TypeOK
  <2>2. QED
    BY <1>8, <2>1 DEF AgentRestart
<1>9. ~LoseCommand /\ ~DropBatch
  BY DEF LoseCommand, DropBatch
<1>10. ASSUME NEW s \in Scan, AgentStart(s) PROVE AnswerInv'
  <2>1. PICK j \in Job \ running : j[1] = s /\ running' = running \cup {j}
    BY <1>10, JobStarts
  <2>2. /\ commands' = commands \ {StartOf(s)}
        /\ UNCHANGED <<status, msgs, tasks>>
    BY <1>10 DEF AgentStart, StartOf
  <2>3. JobsOf(s)' # {}
    BY <2>1 DEF JobsOf
  <2>4. \A t \in Scan : StartOf(t) \in commands => StartOf(t) \in commands' \/ t = s
    BY <2>2 DEF StartOf
  <2>5. QED
    BY <2>1, <2>2, <2>3, <2>4, AnswerKept
<1>11. ASSUME NEW s \in Scan, AgentStop(s) PROVE AnswerInv'
  <2>1. /\ commands' = commands \ {[kind |-> "stop", scan |-> s]}
        /\ UNCHANGED <<status, tasks>>
    BY <1>11 DEF AgentStop
  <2>2. \A t \in Scan : StartOf(t) \in commands => StartOf(t) \in commands'
    BY <2>1 DEF StartOf
  <2>3. CASE UNCHANGED <<running, msgs>>
    BY <2>1, <2>2, <2>3, AnswerKept
  <2>4. CASE \E j \in JobsOf(s) : JobEnds(j) /\ Send(s, "CANCELLED")
    <3>1. PICK j \in JobsOf(s) : JobEnds(j) /\ Send(s, "CANCELLED")
      BY <2>4
    <3>2. \A t \in Scan \ {s} : JobsOf(t)' = JobsOf(t)
      BY <3>1 DEF JobEnds, JobsOf
    <3>3. QED
      BY <1>b, <2>1, <2>2, <3>1, <3>2, AnswerSend
  <2>5. QED
    BY <1>11, <2>3, <2>4 DEF AgentStop
<1>12. ASSUME NEW s \in Scan, AgentReport(s) PROVE AnswerInv'
  <2>1. Send(s, "IN_PROGRESS") /\ UNCHANGED <<status, commands, running, tasks>>
    BY <1>12 DEF AgentReport
  <2>2. JobsOf(s)' # {} /\ \A t \in Scan : JobsOf(t)' = JobsOf(t)
    BY <1>12, <2>1 DEF AgentReport, JobsOf
  <2>3. QED
    BY <1>b, <2>1, <2>2, AnswerSend
<1>13. ASSUME NEW s \in Scan, AgentFinish(s) PROVE AnswerInv'
  <2>1. PICK st \in {"COMPLETE", "ERROR"} : Send(s, st)
    BY <1>13 DEF AgentFinish
  <2>2. PICK j \in JobsOf(s) : JobEnds(j)
    BY <1>13 DEF AgentFinish
  <2>3. \A t \in Scan \ {s} : JobsOf(t)' = JobsOf(t)
    BY <2>2 DEF JobEnds, JobsOf
  <2>4. UNCHANGED <<status, commands, tasks>>
    BY <1>13 DEF AgentFinish
  <2>5. QED
    BY <1>b, <2>1, <2>3, <2>4, AnswerSend
<1>14. ASSUME NEW s \in Scan, EnqueueScanSBOM(s) PROVE AnswerInv'
  <2>1. tasks' = [tasks EXCEPT ![s] = tasks[s] + 1]
        /\ UNCHANGED <<status, commands, running, msgs>>
    BY <1>14 DEF EnqueueScanSBOM
  <2>2. \A t \in Scan : tasks[t] > 0 => tasks'[t] > 0
    BY <1>a, <2>1
  <2>3. QED
    BY <2>1, <2>2, AnswerKept
<1>15. ASSUME NEW s \in Scan, ScanSBOMReport(s) PROVE AnswerInv'
  <2>1. PICK st \in {"IN_PROGRESS", "ERROR"} : Send(s, st)
    BY <1>15 DEF ScanSBOMReport
  <2>2. tasks[s] > 0 /\ UNCHANGED <<status, commands, running, tasks>>
    BY <1>15 DEF ScanSBOMReport
  <2>3. \A t \in Scan : JobsOf(t)' = JobsOf(t)
    BY <2>2 DEF JobsOf
  <2>4. QED
    BY <1>b, <2>1, <2>2, <2>3, AnswerSend
<1>16. ASSUME NEW s \in Scan, ScanSBOMEnd(s) PROVE AnswerInv'
  <2>1. PICK st \in {"COMPLETE", "ERROR"} : Send(s, st)
    BY <1>16 DEF ScanSBOMEnd
  <2>2. UNCHANGED <<status, commands, running>>
    BY <1>16 DEF ScanSBOMEnd
  <2>3. \A t \in Scan \ {s} : JobsOf(t)' = JobsOf(t) /\ tasks'[t] = tasks[t]
    BY <1>16, <1>a, <2>2 DEF ScanSBOMEnd, JobsOf
  <2>4. QED
    BY <1>b, <2>1, <2>2, <2>3, AnswerSend
<1>17. CASE CommitFuncStatus
  <2>1. PICK batch \in Batches : CommitRows(StatusesToMaps(batch)) /\ Consume(batch)
    BY <1>17 DEF CommitFuncStatus
  <2>2. QED
    BY <1>17, <2>1, AnswerBatch DEF CommitFuncStatus
<1>18. CASE CommitAndRedeliver
  <2>1. PICK batch \in Batches : CommitRows(StatusesToMaps(batch))
    BY <1>18 DEF CommitAndRedeliver
  <2>2. QED
    BY <1>18, <2>1, AnswerBatch DEF CommitAndRedeliver
<1>19. CASE RetryScansDB
  BY <1>1, <1>19, <1>a DEF RetryScansDB
<1>20. CASE CleanUpDB
  BY <1>1, <1>20, <1>a DEF CleanUpDB
<1>21. CASE UNCHANGED <<status, msgs, running, tasks, commands>>
  BY <1>1, <1>21
<1>22. QED
  BY <1>2, <1>3, <1>4, <1>5, <1>6, <1>7, <1>8, <1>9, <1>10, <1>11, <1>12, <1>13, <1>14,
     <1>15, <1>16, <1>17, <1>18, <1>19, <1>20, <1>21
  DEF Next, Server, StartMultiScan, Polling, Scanner, Ingestion, CronJobs, vars,
      AddNewScanCheck, DeleteScanReset, DeleteScanAbort, CommitFuncVulnerabilities, TimeOut

(***************************************************************************)
(* While no command, no batch and no agent is lost, a scan that is shown   *)
(* in progress or is being cancelled is one that something will end,       *)
(* although messages are redelivered, scans are requeued, run twice and    *)
(* are revived by the reports of their second stage: CommitFuncStatus      *)
(* never swallows the only answer.                                         *)
(***************************************************************************)
THEOREM AnswersAreUnderWay ==
    ASSUME "lose" \notin Ops, MaxRestarts = 0
    PROVE  Spec => []AnswerUnderWay
<1>1. Init => AnswerInv
  <2> SUFFICES ASSUME Init PROVE AnswerInv
    OBVIOUS
  <2>1. status = [s \in Scan |-> NoScan] /\ Len(msgs) = 0
    BY DEF Init
  <2>2. QED
    BY <2>1 DEF AnswerInv, Followed, AnswerUnderWay, NoScan, CancelStates
<1>2. TypeOK /\ AnswerInv /\ [Next]_vars => AnswerInv'
  BY AnswerNext
<1>3. AnswerInv => AnswerUnderWay
  BY DEF AnswerInv
<1>4. QED
  BY <1>1, <1>2, <1>3, TypeCorrect, PTL DEF Spec

-----------------------------------------------------------------------------
(* The contract.  Every trace of a cancellation goes back to a stop that   *)
(* was accepted.                                                           *)

StopOf(s) == [kind |-> "stop", scan |-> s]

Asked ==
    \A s \in Scan :
        s \notin stopped =>
            /\ status[s] \notin CancelStates \cup {"CANCELLED"}
            /\ StopOf(s) \notin commands
            /\ \A i \in 1..Len(msgs) : msgs[i].scan = s => msgs[i].status # "CANCELLED"

\* What a sender adds to the topic is a cancellation only after a stop.
LEMMA AskedSend ==
    ASSUME TypeOK, Asked, NEW s \in Scan, NEW st \in Reported, Send(s, st),
           st = "CANCELLED" => s \in stopped,
           commands' \subseteq commands, UNCHANGED <<status, stopped>>
    PROVE  Asked'
<1>1. /\ Len(msgs) \in Nat /\ Len(msgs') = Len(msgs) + 1
      /\ \A i \in 1..Len(msgs) : msgs'[i] = msgs[i]
      /\ msgs'[Len(msgs) + 1].scan = s /\ msgs'[Len(msgs) + 1].status = st
  BY SendEffect
<1>2. \A i \in 1..Len(msgs') : \/ i \in 1..Len(msgs) /\ msgs'[i] = msgs[i]
                               \/ i = Len(msgs) + 1
  BY <1>1
<1> QED
  BY <1>1, <1>2 DEF Asked

\* A batch that is committed, given up or read again reports no cancellation
\* that was not asked for.
LEMMA AskedBatch ==
    ASSUME TypeOK, Asked, NEW batch \in Batches,
           CommitRows(StatusesToMaps(batch)) \/ UNCHANGED status,
           Consume(batch) \/ UNCHANGED msgs,
           UNCHANGED <<commands, stopped>>
    PROVE  Asked'
<1>1. PICK k \in 1..Len(msgs) :
        /\ Len(msgs) \in Nat /\ Len(batch) = k
        /\ \A i \in 1..k : batch[i] = msgs[i]
        /\ Consume(batch) => /\ Len(msgs') = Len(msgs) - k
                             /\ \A i \in 1..Len(msgs') : msgs'[i] = msgs[i + k]
  BY BatchEffect
<1>2. \A i \in 1..Len(msgs') : \E j \in 1..Len(msgs) : msgs'[i] = msgs[j]
  <2>1. CASE UNCHANGED msgs
    BY <2>1
  <2>2. CASE Consume(batch)
    BY <2>2, <1>1
  <2> QED
    BY <2>1, <2>2
<1>3. ASSUME NEW s \in Scan, s \notin stopped
      PROVE  status'[s] \notin CancelStates \cup {"CANCELLED"}
  <2>1. CASE status'[s] = status[s]
    BY <2>1, <1>3 DEF Asked
  <2>2. CASE status'[s] # status[s]
    <3>1. CommitRows(StatusesToMaps(batch))
      BY <2>2
    <3>2. /\ status'[s] \in Reported
          /\ \E i \in 1..Len(batch) : batch[i].scan = s /\ batch[i].status = status'[s]
      BY <3>1, <2>2, CommitEffect
    <3>3. PICK i \in 1..Len(msgs) : msgs[i].scan = s /\ msgs[i].status = status'[s]
      BY <3>2, <1>1
    <3>4. status'[s] # "CANCELLED"
      BY <3>3, <1>3 DEF Asked
    <3> QED
      BY <3>2, <3>4 DEF Reported, Terminal, CancelStates
  <2> QED
    BY <2>1, <2>2
<1> QED
  BY <1>2, <1>3 DEF Asked

\* No step cancels a scan on its own.
LEMMA AskedNext ==
    ASSUME TypeOK, Asked, [Next]_vars
    PROVE  Asked'
<1>a. /\ status \in [Scan -> ScanStatuses \cup {NoScan}] /\ commands \in SUBSET Command
      /\ stopped \in SUBSET Scan
  BY DEF TypeOK
<1> USE DEF graph, history, scanners, CancelStates
<1>1. ASSUME UNCHANGED msgs, stopped \subseteq stopped',
             \A s \in Scan : StopOf(s) \in commands' => StopOf(s) \in commands \/ s \in stopped',
             \A s \in Scan : \/ status'[s] = status[s]
                             \/ status'[s] \notin CancelStates \cup {"CANCELLED"}
                             \/ s \in stopped'
      PROVE  Asked'
  BY <1>1 DEF Asked
<1>2. ASSUME NEW s \in Scan, AddNewScan(s) PROVE Asked'
  BY <1>1, <1>2, <1>a DEF AddNewScan
<1>3. ASSUME NEW s \in Scan, StopScan(s) PROVE Asked'
  BY <1>1, <1>3, <1>a DEF StopScan
<1>4. ASSUME NEW s \in Scan, MarkScanDeletePending(s) PROVE Asked'
  BY <1>1, <1>4, <1>a DEF MarkScanDeletePending
<1>5. ASSUME NEW s \in Scan, DeleteScan(s) PROVE Asked'
  BY <1>1, <1>5, <1>a DEF DeleteScan, NoScan
<1>6. ASSUME NEW a \in Agent, ExtractStoppingAgentScans(a) PROVE Asked'
  <2>1. PICK stops \in SUBSET CancelPending(a) :
          /\ status' = [s \in Scan |-> IF s \in stops THEN "CANCELLING" ELSE status[s]]
          /\ commands' = commands \cup [kind : {"stop"}, scan : stops]
    BY <1>6 DEF ExtractStoppingAgentScans
  <2>2. UNCHANGED <<msgs, stopped>>
    BY <1>6 DEF ExtractStoppingAgentScans
  <2>3. \A s \in stops : s \in Scan /\ s \in stopped
    BY DEF CancelPending, Asked
  <2>4. \A s \in Scan : StopOf(s) \in commands' => StopOf(s) \in commands \/ s \in stops
    BY <2>1 DEF StopOf
  <2>5. \A s \in Scan : status'[s] = status[s] \/ s \in stops
    BY <2>1
  <2> QED
    BY <2>2, <2>3, <2>4, <2>5, <1>1
<1>7. ASSUME NEW a \in Agent, ExtractStartingAgentScans(a) PROVE Asked'
  <2>1. PICK starts \in SUBSET Startable(a) :
          /\ status' = [s \in Scan |-> IF s \in starts THEN "IN_PROGRESS" ELSE status[s]]
          /\ commands' = commands \cup [kind : {"start"}, scan : starts]
    BY <1>7 DEF ExtractStartingAgentScans
  <2>2. UNCHANGED <<msgs, stopped>>
    BY <1>7 DEF ExtractStartingAgentScans
  <2>3. \A s \in Scan : StopOf(s) \in commands' => StopOf(s) \in commands
    BY <2>1 DEF StopOf
  <2>4. \A s \in Scan : status'[s] = status[s] \/ status'[s] = "IN_PROGRESS"
    BY <2>1
  <2> QED
    BY <2>2, <2>3, <2>4, <1>1
<1>8. ASSUME NEW a \in Agent, GetPendingAgentScans(a) PROVE Asked'
  <2>1. UNCHANGED <<status, msgs, stopped>>
    BY <1>8 DEF GetPendingAgentScans
  <2>2. PICK again : commands' = commands \cup [kind : {"start"}, scan : again]
    BY <1>8 DEF GetPendingAgentScans
  <2>3. \A s \in Scan : StopOf(s) \in commands' => StopOf(s) \in commands
    BY <2>2 DEF StopOf
  <2> QED
    BY <2>1, <2>3, <1>1
<1>9. ASSUME NEW s \in Scan, AgentStop(s) PROVE Asked'
  <2>1. StopOf(s) \in commands /\ commands' \subseteq commands /\ UNCHANGED <<status, stopped>>
    BY <1>9 DEF AgentStop, Deliverable, StopOf
  <2>2. s \in stopped
    BY <2>1 DEF Asked
  <2>3. CASE UNCHANGED msgs
    BY <2>1, <2>3, <1>1
  <2>4. CASE Send(s, "CANCELLED")
    BY <2>1, <2>2, <2>4, AskedSend DEF Reported, Terminal
  <2> QED
    BY <1>9, <2>3, <2>4 DEF AgentStop
<1>10. ASSUME NEW s \in Scan, AgentReport(s) PROVE Asked'
  <2>1. Send(s, "IN_PROGRESS") /\ UNCHANGED <<status, stopped, commands>>
    BY <1>10 DEF AgentReport
  <2> QED
    BY <2>1, AskedSend DEF Reported
<1>11. ASSUME NEW s \in Scan, AgentFinish(s) \/ ScanSBOMReport(s) \/ ScanSBOMEnd(s)
       PROVE  Asked'
  <2>1. PICK st \in {"COMPLETE", "ERROR", "IN_PROGRESS"} : Send(s, st)
    BY <1>11 DEF AgentFinish, ScanSBOMReport, ScanSBOMEnd
  <2>2. UNCHANGED <<status, stopped, commands>>
    BY <1>11 DEF AgentFinish, ScanSBOMReport, ScanSBOMEnd
  <2> QED
    BY <2>1, <2>2, AskedSend DEF Reported, Terminal
<1>12. CASE CommitFuncStatus
  <2>1. PICK batch \in Batches : CommitRows(StatusesToMaps(batch)) /\ Consume(batch)
    BY <1>12 DEF CommitFuncStatus
  <2> QED
    BY <1>12, <2>1, AskedBatch DEF CommitFuncStatus
<1>13. CASE CommitAndRedeliver
  <2>1. PICK batch \in Batches : CommitRows(StatusesToMaps(batch))
    BY <1>13 DEF CommitAndRedeliver
  <2> QED
    BY <1>13, <2>1, AskedBatch DEF CommitAndRedeliver
<1>14. CASE DropBatch
  <2>1. PICK batch \in Batches : Consume(batch)
    BY <1>14 DEF DropBatch
  <2> QED
    BY <1>14, <2>1, AskedBatch DEF DropBatch
<1>15. CASE RetryScansDB
  BY <1>1, <1>15, <1>a DEF RetryScansDB
<1>16. CASE CleanUpDB
  BY <1>1, <1>16, <1>a DEF CleanUpDB
<1>17. ASSUME UNCHANGED <<status, msgs, stopped>>, commands' \subseteq commands PROVE Asked'
  BY <1>1, <1>17
<1>18. ASSUME NEW s \in Scan,
              \/ AddNewScanCheck(s) \/ DeleteScanReset(s) \/ DeleteScanAbort(s)
              \/ AgentStart(s) \/ EnqueueScanSBOM(s) \/ CommitFuncVulnerabilities(s)
              \/ TimeOut(s)
       PROVE  Asked'
  BY <1>17, <1>18 DEF AddNewScanCheck, DeleteScanReset, DeleteScanAbort, AgentStart,
     EnqueueScanSBOM, CommitFuncVulnerabilities, TimeOut
<1>19. ASSUME NEW a \in Agent, AgentRestart(a) PROVE Asked'
  BY <1>17, <1>19 DEF AgentRestart
<1>20. CASE LoseCommand
  BY <1>17, <1>20 DEF LoseCommand
<1>21. CASE UNCHANGED vars
  BY <1>17, <1>21 DEF vars
<1> QED
  BY <1>2, <1>3, <1>4, <1>5, <1>6, <1>7, <1>8, <1>9, <1>10, <1>11, <1>12, <1>13, <1>14,
     <1>15, <1>16, <1>18, <1>19, <1>20, <1>21
  DEF Next, Server, StartMultiScan, Polling, Scanner, Ingestion, CronJobs

\* What may happen to the status of a scan that has a row.
StatusMove(old, new) ==
    \/ new \in Terminal \cup {"DELETE_PENDING", NoScan}
    \/ new = "IN_PROGRESS" /\ old \notin CancelStates
    \/ old = "IN_PROGRESS" /\ new \in {"STARTING", "CANCEL_PENDING"}
    \/ old = "CANCEL_PENDING" /\ new = "CANCELLING"

RowMoves(s) ==
    /\ request[s] = "closed" /\ request'[s] = "closed"
    /\ status[s] # NoScan
    /\ StatusMove(status[s], status'[s])

\* A step creates the row of a scan, leaves it, or moves its status.
LEMMA StatusMoves ==
    ASSUME TypeOK, BudgetInv, [Next]_vars, NEW s \in Scan
    PROVE  \/ AddNewScan(s)
           \/ /\ status'[s] = status[s]
              /\ request'[s] = "closed" <=> request[s] = "closed"
           \/ RowMoves(s)
<1> DEFINE Same == /\ status'[s] = status[s]
                   /\ request'[s] = "closed" <=> request[s] = "closed"
           P == AddNewScan(s) \/ Same \/ RowMoves(s)
<1> SUFFICES P
  OBVIOUS
<1>a. /\ status \in [Scan -> ScanStatuses \cup {NoScan}]
      /\ request \in [Scan -> {"none", "open", "closed"}]
  BY DEF TypeOK
<1>b. status[s] # NoScan => request[s] = "closed"
  BY DEF BudgetInv
<1> USE DEF graph, NoScan, CancelStates
<1>c. ASSUME UNCHANGED request,
             \/ status'[s] = status[s]
             \/ status[s] # NoScan /\ StatusMove(status[s], status'[s])
      PROVE  P
  BY <1>b, <1>c DEF RowMoves
<1>1. ASSUME NEW t \in Scan, AddNewScan(t) PROVE P
  <2>1. CASE t = s
    BY <1>1, <2>1
  <2>2. CASE t # s
    BY <1>1, <2>2, <1>a DEF AddNewScan
  <2>3. QED
    BY <2>1, <2>2
<1>2. ASSUME NEW t \in Scan, AddNewScanCheck(t) PROVE P
  BY <1>2, <1>a DEF AddNewScanCheck
<1> HIDE DEF P
<1>3. ASSUME NEW t \in Scan, StopScan(t) PROVE P
  <2>1. UNCHANGED request
    BY <1>3 DEF StopScan
  <2>2. \/ status'[s] = status[s]
        \/ status[s] = "STARTING" /\ status'[s] = "CANCELLED"
        \/ status[s] = "IN_PROGRESS" /\ status'[s] = "CANCEL_PENDING"
    BY <1>3, <1>a DEF StopScan
  <2>3. QED
    BY <1>c, <2>1, <2>2 DEF StatusMove, Terminal
<1>4. ASSUME NEW t \in Scan, MarkScanDeletePending(t) \/ DeleteScan(t) PROVE P
  BY <1>4, <1>a, <1>c DEF MarkScanDeletePending, DeleteScan, Exists, StatusMove
<1>5. ASSUME NEW a \in Agent, ExtractStoppingAgentScans(a) PROVE P
  <2>1. UNCHANGED request
    BY <1>5 DEF ExtractStoppingAgentScans
  <2>2. PICK stops \in SUBSET CancelPending(a) :
          status' = [t \in Scan |-> IF t \in stops THEN "CANCELLING" ELSE status[t]]
    BY <1>5 DEF ExtractStoppingAgentScans
  <2>3. \/ status'[s] = status[s]
        \/ status[s] = "CANCEL_PENDING" /\ status'[s] = "CANCELLING"
    BY <2>2 DEF CancelPending
  <2>4. QED
    BY <1>c, <2>1, <2>3 DEF StatusMove
<1>6. ASSUME NEW a \in Agent, ExtractStartingAgentScans(a) PROVE P
  <2>1. UNCHANGED request
    BY <1>6 DEF ExtractStartingAgentScans
  <2>2. PICK starts \in SUBSET Startable(a) :
          status' = [t \in Scan |-> IF t \in starts THEN "IN_PROGRESS" ELSE status[t]]
    BY <1>6 DEF ExtractStartingAgentScans
  <2>3. \/ status'[s] = status[s]
        \/ status[s] = "STARTING" /\ status'[s] = "IN_PROGRESS"
    BY <2>2 DEF Startable
  <2>4. QED
    BY <1>c, <2>1, <2>3 DEF StatusMove
<1>7. ASSUME NEW batch \in Batches, CommitRows(StatusesToMaps(batch)), UNCHANGED request
      PROVE  P
  <2>1. CASE status'[s] = status[s]
    BY <1>c, <1>7, <2>1
  <2>2. CASE status'[s] # status[s]
    <3>1. /\ status[s] # NoScan /\ status'[s] \in Reported
          /\ status'[s] = "IN_PROGRESS" => status[s] \notin CancelStates
      BY <1>7, <2>2, CommitEffect DEF Exists
    <3>2. QED
      BY <1>c, <1>7, <3>1 DEF StatusMove, Reported
  <2>3. QED
    BY <2>1, <2>2
<1>8. CASE CommitFuncStatus \/ CommitAndRedeliver
  BY <1>7, <1>8 DEF CommitFuncStatus, CommitAndRedeliver
<1>9. CASE RetryScansDB
  <2>1. UNCHANGED request
    BY <1>9 DEF RetryScansDB
  <2>2. \/ status'[s] = status[s]
        \/ status[s] = "IN_PROGRESS" /\ status'[s] = "STARTING"
    BY <1>9 DEF RetryScansDB, Retriable
  <2>3. QED
    BY <1>c, <2>1, <2>2 DEF StatusMove
<1>10. CASE CleanUpDB
  <2>1. UNCHANGED request
    BY <1>10 DEF CleanUpDB
  <2>2. \/ status'[s] = status[s]
        \/ status[s] # NoScan /\ status'[s] = "ERROR"
    BY <1>10 DEF CleanUpDB, Exhausted, Existing, Exists
  <2>3. QED
    BY <1>c, <2>1, <2>2 DEF StatusMove, Terminal
<1>11. CASE UNCHANGED <<status, request>>
  BY <1>c, <1>11
<1>12. QED
  BY <1>1, <1>2, <1>3, <1>4, <1>5, <1>6, <1>8, <1>9, <1>10, <1>11
  DEF Next, Server, StartMultiScan, Polling, Scanner, Ingestion, CronJobs,
      vars, DeleteScanReset, DeleteScanAbort, GetPendingAgentScans, AgentStart, AgentStop,
      AgentReport, AgentFinish, EnqueueScanSBOM, ScanSBOMReport, ScanSBOMEnd, AgentRestart,
      LoseCommand, DropBatch, CommitFuncVulnerabilities, TimeOut

\* A scan has a phase of the contract.
LEMMA PhaseType ==
    ASSUME NEW st \in ScanStatuses \cup {NoScan}, NEW rq
    PROVE  PhaseIn(st, rq) \in Contract!Phase
  BY DEF PhaseIn, ScanStatuses, NoScan, CancelStates, Contract!Phase, Contract!Existing,
         Contract!Live, Contract!Over

\* A move of a status is a move of the contract, or none.
LEMMA MoveOfRow ==
    ASSUME NEW old \in ScanStatuses, NEW new \in ScanStatuses \cup {NoScan},
           StatusMove(old, new), PhaseIn(new, "closed") # PhaseIn(old, "closed")
    PROVE  <<PhaseIn(old, "closed"), PhaseIn(new, "closed")>> \in Contract!Moves
<1> USE DEF Contract!Existing, Contract!Live, Contract!Over
<1>1. PhaseIn(old, "closed") \in Contract!Existing
  BY DEF PhaseIn, ScanStatuses, NoScan, CancelStates
<1>2. CASE new \in Terminal \cup {"DELETE_PENDING", NoScan}
  <2>1. PhaseIn(new, "closed") \in Contract!Over \cup {"deleting", "gone"}
    BY <1>2 DEF PhaseIn, NoScan, CancelStates, Terminal
  <2>2. QED
    BY <1>1, <2>1 DEF Contract!Moves
<1>3. CASE new = "IN_PROGRESS" /\ old \notin CancelStates
  <2>1. PhaseIn(new, "closed") = "running"
    BY <1>3 DEF PhaseIn, NoScan, CancelStates
  <2>2. PhaseIn(old, "closed") # "stopping"
    BY <1>3 DEF PhaseIn, ScanStatuses, NoScan, CancelStates
  <2>3. QED
    BY <1>1, <2>1, <2>2 DEF Contract!Moves
<1>4. CASE old = "IN_PROGRESS" /\ new \in {"STARTING", "CANCEL_PENDING"}
  <2>1. /\ PhaseIn(old, "closed") = "running"
        /\ PhaseIn(new, "closed") \in {"waiting", "stopping"}
    BY <1>4 DEF PhaseIn, NoScan, CancelStates
  <2>2. QED
    BY <2>1 DEF Contract!Moves
<1>5. CASE old = "CANCEL_PENDING" /\ new = "CANCELLING"
  BY <1>5 DEF PhaseIn, NoScan, CancelStates
<1>6. QED
  BY <1>2, <1>3, <1>4, <1>5 DEF StatusMove

\* What a step does to a scan is a move of the contract.
LEMMA PhaseMoves ==
    ASSUME TypeOK, TypeOK', BudgetInv, [Next]_vars, NEW s \in Scan,
           PhaseOf'[s] # PhaseOf[s]
    PROVE  <<PhaseOf[s], PhaseOf'[s]>> \in Contract!Moves
<1>1. /\ PhaseOf[s] = PhaseIn(status[s], request[s])
      /\ PhaseOf'[s] = PhaseIn(status'[s], request'[s])
  BY DEF PhaseOf
<1>2. /\ status[s] \in ScanStatuses \cup {NoScan}
      /\ status'[s] \in ScanStatuses \cup {NoScan}
  BY DEF TypeOK
<1>3. CASE /\ status'[s] = status[s]
           /\ request'[s] = "closed" <=> request[s] = "closed"
  BY <1>1, <1>3 DEF PhaseIn
<1>4. CASE RowMoves(s)
  <2>1. /\ status[s] \in ScanStatuses
        /\ PhaseOf[s] = PhaseIn(status[s], "closed")
        /\ PhaseOf'[s] = PhaseIn(status'[s], "closed")
        /\ StatusMove(status[s], status'[s])
    BY <1>1, <1>2, <1>4 DEF RowMoves
  <2>2. QED
    BY <1>2, <2>1, MoveOfRow
<1>5. CASE AddNewScan(s)
  <2>1. /\ status[s] = NoScan /\ request[s] # "closed"
        /\ status'[s] = "STARTING"
    BY <1>5 DEF AddNewScan, BudgetInv, TypeOK
  <2>2. PhaseOf[s] = "new" /\ PhaseOf'[s] = "waiting"
    BY <1>1, <2>1 DEF PhaseIn, NoScan, CancelStates
  <2>3. QED
    BY <2>2 DEF Contract!Moves
<1>6. QED
  BY <1>3, <1>4, <1>5, StatusMoves

\* Only an accepted stop adds to the scans that were asked to stop.
LEMMA StopAsks ==
    ASSUME [Next]_vars
    PROVE  \/ UNCHANGED stopped
           \/ \E s \in Scan : StopScan(s)
  BY DEF Next, Server, StartMultiScan, Polling, Scanner, Ingestion, CronJobs,
      vars, history, AddNewScanCheck, AddNewScan, MarkScanDeletePending, DeleteScan,
      DeleteScanReset, DeleteScanAbort, ExtractStoppingAgentScans,
      ExtractStartingAgentScans, GetPendingAgentScans, AgentStart, AgentStop, AgentReport,
      AgentFinish, EnqueueScanSBOM, ScanSBOMReport, ScanSBOMEnd, AgentRestart, LoseCommand,
      CommitFuncStatus, CommitAndRedeliver, DropBatch, CommitFuncVulnerabilities, TimeOut,
      RetryScansDB, CleanUpDB

(***************************************************************************)
(* The life cycle keeps its contract, for any number of scans, nodes and   *)
(* agents and whatever the environment does: overlapping requests, lost    *)
(* and repeated commands and messages, restarts, requeues, deletions, and  *)
(* scanners that go on after a stop or after their own last word.          *)
(***************************************************************************)
THEOREM ContractKept == Spec => ImplementsContract
<1>1. Init => Contract!Init /\ Asked
  <2> SUFFICES ASSUME Init PROVE Contract!Init /\ Asked
    OBVIOUS
  <2>1. /\ status = [s \in Scan |-> NoScan] /\ request = [s \in Scan |-> "none"]
        /\ commands = {} /\ Len(msgs) = 0 /\ stopped = {}
    BY DEF Init
  <2>2. Contract!Init
    BY <2>1 DEF Contract!Init, PhaseOf, PhaseIn, NoScan, CancelStates
  <2>3. Asked
    BY <2>1 DEF Asked, NoScan, CancelStates
  <2>4. QED
    BY <2>2, <2>3
<1>2. TypeOK /\ Asked /\ [Next]_vars => Asked'
  BY AskedNext
<1>3. ASSUME TypeOK, TypeOK', BudgetInv, Asked', [Next]_vars
      PROVE  [Contract!Next]_<<PhaseOf, stopped>>
  <2>a. /\ status \in [Scan -> ScanStatuses \cup {NoScan}]
        /\ status' \in [Scan -> ScanStatuses \cup {NoScan}]
    BY <1>3 DEF TypeOK
  <2>1. PhaseOf' \in [Scan -> Contract!Phase]
    BY <2>a, PhaseType DEF PhaseOf
  <2>2. ASSUME NEW s \in Scan, PhaseOf'[s] # PhaseOf[s]
        PROVE  /\ <<PhaseOf[s], PhaseOf'[s]>> \in Contract!Moves
               /\ PhaseOf'[s] \in {"stopping", "CANCELLED"} => s \in stopped'
    <3>1. <<PhaseOf[s], PhaseOf'[s]>> \in Contract!Moves
      BY <1>3, <2>2, PhaseMoves
    <3>2. ASSUME PhaseOf'[s] \in {"stopping", "CANCELLED"}
          PROVE  status'[s] \in CancelStates \cup {"CANCELLED"}
      <4>1. PhaseIn(status'[s], request'[s]) \in {"stopping", "CANCELLED"}
        BY <3>2 DEF PhaseOf
      <4>2. QED
        BY <2>a, <4>1 DEF PhaseIn, ScanStatuses, NoScan, CancelStates
    <3>3. QED
      BY <1>3, <3>1, <3>2 DEF Asked
  <2>3. CASE UNCHANGED stopped
    BY <2>1, <2>2, <2>3 DEF Contract!Next
  <2>4. ASSUME NEW t \in Scan, StopScan(t) PROVE Contract!Next
    <3>1. /\ status[t] \in {"STARTING", "IN_PROGRESS"} /\ stopped' = stopped \cup {t}
          /\ status'[t] = IF status[t] = "STARTING" THEN "CANCELLED" ELSE "CANCEL_PENDING"
      BY <2>4, <2>a DEF StopScan
    <3>2. <<PhaseOf[t], PhaseOf'[t]>> \in Contract!StopMoves
      BY <3>1 DEF PhaseOf, PhaseIn, NoScan, CancelStates, Contract!StopMoves
    <3>3. QED
      BY <2>1, <2>2, <3>1, <3>2 DEF Contract!Next
  <2>5. QED
    BY <1>3, <2>3, <2>4, StopAsks
<1>4. QED
  BY <1>1, <1>2, <1>3, Reachable, PTL DEF Spec, ImplementsContract, Contract!Spec

=============================================================================
