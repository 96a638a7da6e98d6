--------------------------- MODULE IngestPipeline ---------------------------
(***************************************************************************)
(* The worker in ingester mode (deepfence_worker/processors): one consumer *)
(* polls all Kafka topics and puts each record into the channel of its     *)
(* topic's BulkProcessor, whose worker collects records in a buffer and    *)
(* commits the buffer to the graph database.  Records are offsets.         *)
(* Ingester.Stop, BulkProcessor.Close and Flush have no caller: main       *)
(* returns on a signal, so that every stop of the process is a Crash.      *)
(***************************************************************************)
EXTENDS Integers, Sequences, FiniteSets

CONSTANTS
    Topic,
    BulkActions,    \* 1000 in the code
    MaxRetries,     \* 3 in the code
    Poison,         \* [topic, offset] records that do not unmarshal
    MaxRecords,     \* bound: records per topic
    MaxOutages,     \* bound: outages of the database
    MaxCrashes      \* bound: crashes of the worker

ASSUME BulkActionsAssumption == BulkActions \in Nat \ {0}
ASSUME PipelineBoundAssumption ==
    MaxRetries \in Nat /\ MaxRecords \in Nat /\ MaxOutages \in Nat /\ MaxCrashes \in Nat
ASSUME PoisonAssumption == Poison \subseteq [topic : Topic, offset : 1..MaxRecords]

ChannelSize == 2 * BulkActions

VARIABLES
    \* Kafka
    produced,     \* per topic: records in the log
    offset,       \* per topic: the offset the consumer group has committed
    \* the consumer
    position,     \* per topic: records polled
    marked,       \* per topic: records polled before the last poll
    fetched,      \* per topic: records of the last poll not yet delivered
    at,           \* the topic EachRecord is at
    \* per topic: its BulkProcessor with one worker
    requestsC,    \* the channel
    buffer,       \* the worker's buffer
    committing,   \* the worker is in commit
    attempts,     \* backoffs taken by this commit
    breaker,      \* the breaker is open
    \* the graph database
    dbUp,
    outages,
    crashes,
    \* history, not in the code
    settled,      \* per topic: the last record committed or given up
    applied,      \* per topic: the batch the database applied last
    written,      \* per topic: records applied at least once
    dropped,      \* per topic: records given up
    lost          \* per topic: records that a crash lost

kafka == <<produced, offset>>
consumer == <<position, marked, fetched, at>>
processor == <<requestsC, buffer, committing, attempts, breaker>>
db == <<dbUp, outages, crashes>>
history == <<settled, applied, written, dropped, lost>>
vars == <<produced, offset, position, marked, fetched, at, requestsC, buffer, committing,
          attempts, breaker, dbUp, outages, crashes, settled, applied, written, dropped,
          lost>>

\* The offsets that follow from, as far as to.
Run(from, to) == [k \in 1..(to - from) |-> from + k]
Elements(seq) == {seq[k] : k \in 1..Len(seq)}

Zero == [t \in Topic |-> 0]
Empty == [t \in Topic |-> <<>>]
None == [t \in Topic |-> {}]
No == [t \in Topic |-> FALSE]

Init ==
    /\ produced = Zero /\ offset = Zero
    /\ position = Zero /\ marked = Zero /\ fetched = Empty /\ at \in Topic
    /\ requestsC = Empty /\ buffer = Empty /\ committing = No /\ attempts = Zero
    /\ breaker = No
    /\ dbUp = TRUE /\ outages = 0 /\ crashes = 0
    /\ settled = Zero /\ applied = Empty /\ written = None /\ dropped = None /\ lost = None

-----------------------------------------------------------------------------
(* Kafka and its client, modelled from how the ingester uses them.         *)

Produce(t) ==
    /\ produced[t] < MaxRecords
    /\ produced' = [produced EXCEPT ![t] = @ + 1]
    /\ UNCHANGED <<offset, consumer, processor, db, history>>

\* The client commits, now and then, what was returned before the last poll.
AutoCommit ==
    /\ offset # marked
    /\ offset' = marked
    /\ UNCHANGED <<produced, consumer, processor, db, history>>

-----------------------------------------------------------------------------
(* The consumer: Ingester.pollRecords and processRecord.                   *)

\* Bug: EachRecord runs beside the next poll.
PollRecordsAhead ==
    /\ marked' = position
    /\ \E upto \in [Topic -> 0..MaxRecords] :
        /\ \A t \in Topic : position[t] <= upto[t] /\ upto[t] <= produced[t]
        /\ position' = upto
        /\ fetched' = [t \in Topic |-> fetched[t] \o Run(position[t], upto[t])]
    /\ UNCHANGED <<kafka, at, processor, db, history>>

PollRecords ==
    /\ fetched = Empty
    /\ marked' = position
    /\ \E upto \in [Topic -> 0..MaxRecords] :
        /\ \A t \in Topic : position[t] <= upto[t] /\ upto[t] <= produced[t]
        /\ position' = upto
        /\ fetched' = [t \in Topic |-> Run(position[t], upto[t])]
    /\ UNCHANGED <<kafka, at, processor, db, history>>

\* EachRecord: the topics one after the other.  BulkProcessor.Add blocks
\* while the channel is full, and all other topics with it.
ProcessRecord(t) ==
    /\ fetched[t] # <<>>
    /\ at = t \/ fetched[at] = <<>>
    /\ Len(requestsC[t]) < ChannelSize
    /\ at' = t
    /\ fetched' = [fetched EXCEPT ![t] = Tail(@)]
    /\ requestsC' = [requestsC EXCEPT ![t] = Append(@, Head(fetched[t]))]
    /\ UNCHANGED <<kafka, position, marked, buffer, committing, attempts, breaker, db,
                   history>>

-----------------------------------------------------------------------------
(* bulkWorker.work.                                                        *)

\* Bug: off by one.
CommitRequiredLater(seq) == Len(seq) > BulkActions

CommitRequired(seq) == Len(seq) >= BulkActions

\* case req, open := <-w.p.requestsC
Receive(t) ==
    /\ ~committing[t]
    /\ requestsC[t] # <<>>
    /\ requestsC' = [requestsC EXCEPT ![t] = Tail(@)]
    /\ buffer' = [buffer EXCEPT ![t] = Append(@, Head(requestsC[t]))]
    /\ committing' = [committing EXCEPT ![t] = CommitRequired(buffer'[t])]
    /\ UNCHANGED <<kafka, consumer, attempts, breaker, db, history>>

\* case <-ticker.C
Tick(t) ==
    /\ ~committing[t]
    /\ buffer[t] # <<>>
    /\ committing' = [committing EXCEPT ![t] = TRUE]
    /\ UNCHANGED <<kafka, consumer, requestsC, buffer, attempts, breaker, db, history>>

-----------------------------------------------------------------------------
(* bulkWorker.commit.                                                      *)

Unmarshals(t) == \A o \in Elements(buffer[t]) : [topic |-> t, offset |-> o] \notin Poison

\* commitFn is called unless the breaker is open.
Attempt(t) == committing[t] /\ ~breaker[t]

\* Bug: no reset of the buffer.
EndCommitKeepingBuffer(t) ==
    /\ committing' = [committing EXCEPT ![t] = FALSE]
    /\ attempts' = [attempts EXCEPT ![t] = 0]
    /\ settled' = [settled EXCEPT ![t] = buffer[t][Len(buffer[t])]]
    /\ UNCHANGED buffer

\* The end of commit: the buffer is reset whether there was an error or not.
EndCommit(t) ==
    /\ committing' = [committing EXCEPT ![t] = FALSE]
    /\ attempts' = [attempts EXCEPT ![t] = 0]
    /\ buffer' = [buffer EXCEPT ![t] = <<>>]
    /\ settled' = [settled EXCEPT ![t] = buffer[t][Len(buffer[t])]]

\* The transaction of commitFn is committed.
Applied(t) ==
    /\ Unmarshals(t)
    /\ dbUp
    /\ applied' = [applied EXCEPT ![t] = buffer[t]]
    /\ written' = [written EXCEPT ![t] = @ \cup Elements(buffer[t])]

CommitSucceeds(t) ==
    /\ Attempt(t)
    /\ Applied(t)
    /\ EndCommit(t)
    /\ UNCHANGED <<kafka, consumer, requestsC, breaker, db, dropped, lost>>

\* desWrapper fails on one record of the buffer, the database refuses the
\* statement, or transient errors have used up the backoffs: all of the
\* buffer is dropped.
CommitGivesUp(t) ==
    /\ Attempt(t)
    /\ Unmarshals(t) => dbUp
    /\ dropped' = [dropped EXCEPT ![t] = @ \cup Elements(buffer[t])]
    /\ EndCommit(t)
    /\ UNCHANGED <<kafka, consumer, requestsC, breaker, db, applied, written, lost>>

\* Bug: no limit on the backoffs.
TransientErrorForever(t) ==
    /\ Attempt(t)
    /\ Unmarshals(t)
    /\ dbUp
    /\ attempts' = [attempts EXCEPT ![t] = @ + 1]
    /\ UNCHANGED <<kafka, consumer, requestsC, buffer, committing, breaker, db, history>>

TransientError(t) ==
    /\ Attempt(t)
    /\ Unmarshals(t)
    /\ dbUp
    /\ attempts[t] < MaxRetries
    /\ attempts' = [attempts EXCEPT ![t] = @ + 1]
    /\ UNCHANGED <<kafka, consumer, requestsC, buffer, committing, breaker, db, history>>

\* Retried without a limit, once the breaker has closed again.
ConnectivityError(t) ==
    /\ Attempt(t)
    /\ Unmarshals(t)
    /\ ~dbUp
    /\ breaker' = [breaker EXCEPT ![t] = TRUE]
    /\ UNCHANGED <<kafka, consumer, requestsC, buffer, committing, attempts, db, history>>

\* The connection breaks after the database has committed.
AcknowledgementLost(t) ==
    /\ Attempt(t)
    /\ Applied(t)
    /\ outages < MaxOutages
    /\ outages' = outages + 1
    /\ dbUp' = FALSE
    /\ breaker' = [breaker EXCEPT ![t] = TRUE]
    /\ UNCHANGED <<kafka, consumer, requestsC, buffer, committing, attempts, crashes,
                   settled, dropped, lost>>

\* Bug: the lock is not released.
BreakerNeverCloses(t) == breaker[t] /\ FALSE /\ UNCHANGED vars

\* WaitServiceTCPConn returns.
BreakerCloses(t) ==
    /\ breaker[t]
    /\ dbUp
    /\ breaker' = [breaker EXCEPT ![t] = FALSE]
    /\ UNCHANGED <<kafka, consumer, requestsC, buffer, committing, attempts, db, history>>

-----------------------------------------------------------------------------
(* The environment.                                                        *)

DatabaseFails ==
    /\ dbUp
    /\ outages < MaxOutages
    /\ outages' = outages + 1
    /\ dbUp' = FALSE
    /\ UNCHANGED <<kafka, consumer, processor, crashes, history>>

DatabaseRecovers ==
    /\ ~dbUp
    /\ dbUp' = TRUE
    /\ UNCHANGED <<kafka, consumer, processor, outages, crashes, history>>

InMemory(t) == Elements(fetched[t]) \cup Elements(requestsC[t]) \cup Elements(buffer[t])

\* The process ends, with or without a signal, and starts again from the
\* offsets of the consumer group.
Crash ==
    /\ crashes < MaxCrashes
    /\ crashes' = crashes + 1
    /\ lost' = [t \in Topic |-> lost[t] \cup {o \in InMemory(t) : o <= offset[t]}]
    /\ position' = offset /\ marked' = offset /\ fetched' = Empty
    /\ requestsC' = Empty /\ buffer' = Empty /\ committing' = No /\ attempts' = Zero
    /\ breaker' = No
    /\ settled' = offset
    /\ UNCHANGED <<kafka, at, dbUp, outages, applied, written, dropped>>

Worker(t) == Receive(t) \/ Tick(t) \/ CommitSucceeds(t) \/ CommitGivesUp(t)
             \/ TransientError(t) \/ ConnectivityError(t)

Next ==
    \/ \E t \in Topic : \/ Produce(t) \/ ProcessRecord(t) \/ Worker(t)
                        \/ AcknowledgementLost(t) \/ BreakerCloses(t)
    \/ PollRecords \/ AutoCommit \/ DatabaseFails \/ DatabaseRecovers \/ Crash

Spec == Init /\ [][Next]_vars

(***************************************************************************)
(* The consumer polls every 5 seconds and what is in Kafka is returned in  *)
(* the end; goroutines run; the database comes back.                       *)
(***************************************************************************)
Fairness ==
    /\ WF_vars(PollRecords /\ position' = produced)
    /\ WF_vars(DatabaseRecovers)
    /\ \A t \in Topic : /\ WF_vars(ProcessRecord(t))
                        /\ WF_vars(Worker(t))
                        /\ WF_vars(BreakerCloses(t))

FairSpec == Spec /\ Fairness

-----------------------------------------------------------------------------
(* Properties.                                                             *)

FlagsOK ==
    /\ committing \in [Topic -> BOOLEAN]
    /\ breaker \in [Topic -> BOOLEAN]
    /\ dbUp \in BOOLEAN

CountsOK ==
    /\ at \in Topic
    /\ attempts \in [Topic -> 0..MaxRetries]
    /\ outages \in 0..MaxOutages
    /\ crashes \in 0..MaxCrashes

OffsetsOK ==
    /\ produced \in [Topic -> 0..MaxRecords]
    /\ offset \in [Topic -> 0..MaxRecords]
    /\ position \in [Topic -> 0..MaxRecords]
    /\ marked \in [Topic -> 0..MaxRecords]
    /\ settled \in [Topic -> 0..MaxRecords]

RecordsOK ==
    /\ fetched \in [Topic -> Seq(1..MaxRecords)]
    /\ requestsC \in [Topic -> Seq(1..MaxRecords)]
    /\ buffer \in [Topic -> Seq(1..MaxRecords)]
    /\ applied \in [Topic -> Seq(1..MaxRecords)]
    /\ written \in [Topic -> SUBSET (1..MaxRecords)]
    /\ dropped \in [Topic -> SUBSET (1..MaxRecords)]
    /\ lost \in [Topic -> SUBSET (1..MaxRecords)]

\* Every variable has its type: records are offsets that exist, backoffs and
\* faults stay below their limits.
TypeOK == FlagsOK /\ CountsOK /\ OffsetsOK /\ RecordsOK

(***************************************************************************)
(* Between Kafka and the database nothing is reordered, skipped or         *)
(* doubled: buffer, channel and the rest of the poll are, in this order,   *)
(* the records from the last one settled to the last one polled, across    *)
(* full channels, retried commits, open breakers and crashes.              *)
(***************************************************************************)
InFlightContiguous ==
    \A t \in Topic :
        buffer[t] \o requestsC[t] \o fetched[t] = Run(settled[t], position[t])

(***************************************************************************)
(* A crash never loses a record that is still waiting for its channel: the *)
(* offsets that the client commits by itself stay below it.                *)
(***************************************************************************)
UndeliveredNotCommitted ==
    \A t \in Topic : \A o \in Elements(fetched[t]) : offset[t] < o

(***************************************************************************)
(* The pipeline does what TopicDelivery says, which is what ScanLifecycle  *)
(* assumes of the status topic: commitFn is only ever called with the run  *)
(* of at most BulkActions records that follows the last one settled.       *)
(***************************************************************************)
Delivery == INSTANCE TopicDelivery
    WITH BatchSize <- BulkActions, sent <- produced, batch <- applied,
         restarts <- crashes

ImplementsDelivery == Delivery!Spec

(***************************************************************************)
(* Again and again every record produced so far has been written, or given *)
(* up by a commit, or lost in a crash: commits that are retried, full      *)
(* channels that block the consumer, outages and crashes hold no record    *)
(* back for ever.                                                          *)
(***************************************************************************)
RecordSettles ==
    \A t \in Topic : []<>(1..produced[t] \subseteq written[t] \cup dropped[t] \cup lost[t])

=============================================================================
