----------------------- MODULE IngestPipeline_proofs -----------------------
(***************************************************************************)
(* Theorems about IngestPipeline for any number of topics, records, bulk   *)
(* actions, retries, outages and crashes.                                  *)
(*                                                                         *)
(* The inductive invariant says where each record is: buffer, channel and  *)
(* fetched of a topic are three adjacent runs of offsets, whose borders    *)
(* are Mid and End, and the offsets that the client commits stay below     *)
(* End.  It needs that a commit under way has something to commit and that *)
(* a buffer is committed as soon as it is full (Filling).                  *)
(***************************************************************************)
EXTENDS IngestPipeline, SequenceTheorems, TLAPS

-----------------------------------------------------------------------------
(* Runs of offsets. *)

LEMMA RunIsSeq ==
  ASSUME NEW a \in Nat, NEW b \in Nat, a <= b
  PROVE  /\ Run(a, b) \in Seq(Nat) /\ Len(Run(a, b)) = b - a
         /\ \A n \in Nat : b <= n => Run(a, b) \in Seq(1..n)
<1>1. b - a \in Nat /\ \A k \in 1..(b - a) : a + k \in 1..b /\ a + k \in Nat
  OBVIOUS
<1>2. Run(a, b) \in [1..(b - a) -> Nat]
  BY <1>1 DEF Run
<1>3. ASSUME NEW n \in Nat, b <= n PROVE Run(a, b) \in Seq(1..n)
  <2>1. Run(a, b) \in [1..(b - a) -> 1..n]
    BY <1>1, <1>3 DEF Run
  <2> QED
    BY <1>1, <2>1
<1> QED
  BY <1>1, <1>2, <1>3 DEF Run

LEMMA RunEmpty ==
  ASSUME NEW a \in Nat
  PROVE  Run(a, a) = <<>>
<1>1. Len(Run(a, a)) = 0 /\ Run(a, a) \in Seq(Nat)
  BY RunIsSeq
<1> QED
  BY <1>1

LEMMA RunHeadTail ==
  ASSUME NEW a \in Nat, NEW b \in Nat, a < b
  PROVE  Head(Run(a, b)) = a + 1 /\ Tail(Run(a, b)) = Run(a + 1, b)
<1>1. Run(a, b) \in Seq(Nat) /\ Len(Run(a, b)) = b - a
  BY RunIsSeq
<1>2. Run(a + 1, b) \in Seq(Nat) /\ Len(Run(a + 1, b)) = b - (a + 1)
  BY RunIsSeq
<1>3. Run(a, b) # <<>>
  BY <1>1
<1>4. Head(Run(a, b)) = a + 1
  BY <1>1 DEF Run
<1>5. /\ Tail(Run(a, b)) \in Seq(Nat)
      /\ Len(Tail(Run(a, b))) = Len(Run(a, b)) - 1
      /\ \A i \in 1..Len(Tail(Run(a, b))) : Tail(Run(a, b))[i] = Run(a, b)[i + 1]
  BY <1>1, <1>3, HeadTailProperties
<1>6. \A i \in 1..(b - (a + 1)) : Run(a, b)[i + 1] = Run(a + 1, b)[i]
  BY DEF Run
<1>7. /\ Len(Tail(Run(a, b))) = Len(Run(a + 1, b))
      /\ Len(Tail(Run(a, b))) = b - (a + 1)
  BY <1>1, <1>2, <1>5
<1>8. Tail(Run(a, b)) = Run(a + 1, b)
  BY <1>2, <1>5, <1>6, <1>7, SeqEqual
<1> QED
  BY <1>4, <1>8

LEMMA RunAppend ==
  ASSUME NEW a \in Nat, NEW b \in Nat, a <= b
  PROVE  Append(Run(a, b), b + 1) = Run(a, b + 1)
<1>1. Run(a, b) \in Seq(Nat) /\ Len(Run(a, b)) = b - a
  BY RunIsSeq
<1>2. Run(a, b + 1) \in Seq(Nat) /\ Len(Run(a, b + 1)) = b + 1 - a
  BY RunIsSeq
<1>3. /\ Append(Run(a, b), b + 1) \in Seq(Nat)
      /\ Len(Append(Run(a, b), b + 1)) = b - a + 1
      /\ \A i \in 1..(b - a) : Append(Run(a, b), b + 1)[i] = Run(a, b)[i]
      /\ Append(Run(a, b), b + 1)[b - a + 1] = b + 1
  BY <1>1, AppendProperties
<1>4. \A i \in 1..(b - a) : Run(a, b)[i] = Run(a, b + 1)[i]
  BY DEF Run
<1>5. Run(a, b + 1)[b - a + 1] = b + 1
  BY DEF Run
<1>6. \A i \in 1..(b + 1 - a) : i \in 1..(b - a) \/ i = b - a + 1
  OBVIOUS
<1> QED
  BY <1>2, <1>3, <1>4, <1>5, <1>6, SeqEqual

LEMMA RunConcat ==
  ASSUME NEW a \in Nat, NEW b \in Nat, NEW c \in Nat, a <= b, b <= c
  PROVE  Run(a, b) \o Run(b, c) = Run(a, c)
<1>1. Run(a, b) \in Seq(Nat) /\ Len(Run(a, b)) = b - a
  BY RunIsSeq
<1>2. Run(b, c) \in Seq(Nat) /\ Len(Run(b, c)) = c - b
  BY RunIsSeq
<1>3. Run(a, c) \in Seq(Nat) /\ Len(Run(a, c)) = c - a
  BY RunIsSeq
<1>4. /\ Run(a, b) \o Run(b, c) \in Seq(Nat)
      /\ Len(Run(a, b) \o Run(b, c)) = Len(Run(a, b)) + Len(Run(b, c))
      /\ \A i \in 1..(Len(Run(a, b)) + Len(Run(b, c))) : (Run(a, b) \o Run(b, c))[i] =
             IF i <= Len(Run(a, b)) THEN Run(a, b)[i] ELSE Run(b, c)[i - Len(Run(a, b))]
  BY <1>1, <1>2, ConcatProperties
<1>5. \A i \in 1..(c - a) : Run(a, c)[i] =
             IF i <= b - a THEN Run(a, b)[i] ELSE Run(b, c)[i - (b - a)]
  BY DEF Run
<1>6. Len(Run(a, b)) + Len(Run(b, c)) = c - a
  BY <1>1, <1>2
<1>7. \A i \in 1..(c - a) : (Run(a, b) \o Run(b, c))[i] = Run(a, c)[i]
  BY <1>1, <1>4, <1>5, <1>6
<1> QED
  BY <1>3, <1>4, <1>6, <1>7, SeqEqual

LEMMA RunElements ==
  ASSUME NEW a \in Nat, NEW b \in Nat, a <= b
  PROVE  Elements(Run(a, b)) = (a + 1)..b
<1>1. Len(Run(a, b)) = b - a
  BY RunIsSeq
<1>2. \A k \in 1..(b - a) : Run(a, b)[k] = a + k
  BY DEF Run
<1>3. \A o \in (a + 1)..b : o - a \in 1..(b - a) /\ Run(a, b)[o - a] = o
  BY <1>2
<1>4. \A k \in 1..(b - a) : a + k \in (a + 1)..b
  OBVIOUS
<1> QED
  BY <1>1, <1>2, <1>3, <1>4 DEF Elements

LEMMA RunLast ==
  ASSUME NEW a \in Nat, NEW b \in Nat, a < b
  PROVE  Run(a, b)[Len(Run(a, b))] = b
<1>1. Len(Run(a, b)) = b - a
  BY RunIsSeq
<1> QED
  BY <1>1 DEF Run

-----------------------------------------------------------------------------
(* The inductive invariant. *)

Mid(t) == settled[t] + Len(buffer[t])
End(t) == Mid(t) + Len(requestsC[t])

\* The records of a topic in flight, and how far Kafka knows of them.
Lined(t) ==
    /\ buffer[t] = Run(settled[t], Mid(t))
    /\ requestsC[t] = Run(Mid(t), End(t))
    /\ fetched[t] = Run(End(t), position[t])
    /\ offset[t] <= marked[t] /\ marked[t] <= End(t)
    /\ End(t) <= position[t] /\ position[t] <= produced[t]

\* A commit has a buffer to commit, and a full buffer is being committed.
Filling(t) ==
    /\ committing[t] = TRUE => buffer[t] # <<>>
    /\ Len(buffer[t]) <= BulkActions
    /\ committing[t] = FALSE => Len(buffer[t]) < BulkActions

IInv == TypeOK /\ \A t \in Topic : Lined(t) /\ Filling(t)

USE BulkActionsAssumption, PipelineBoundAssumption

\* Three adjacent runs, given by their borders, line up after a step.
LEMMA Line ==
  ASSUME NEW t, NEW s \in Nat, NEW m \in Nat, NEW e \in Nat, NEW p \in Nat,
         s <= m, m <= e, e <= p,
         settled'[t] = s, position'[t] = p, buffer'[t] = Run(s, m),
         requestsC'[t] = Run(m, e), fetched'[t] = Run(e, p),
         offset'[t] <= marked'[t], marked'[t] <= e, p <= produced'[t]
  PROVE  Lined(t)'
<1>1. Mid(t)' = m
  BY RunIsSeq DEF Mid
<1>2. End(t)' = e
  BY <1>1, RunIsSeq DEF End
<1> QED
  BY <1>1, <1>2 DEF Lined

\* The borders are numbers in order.
LEMMA Borders ==
  ASSUME IInv, NEW t \in Topic
  PROVE  /\ settled[t] \in Nat /\ Mid(t) \in Nat /\ End(t) \in Nat
         /\ position[t] \in Nat /\ produced[t] \in Nat
         /\ offset[t] \in Nat /\ marked[t] \in Nat
         /\ settled[t] <= Mid(t) /\ Mid(t) <= End(t) /\ End(t) <= position[t]
         /\ Len(buffer[t]) = Mid(t) - settled[t]
         /\ Len(requestsC[t]) = End(t) - Mid(t)
         /\ Len(fetched[t]) = position[t] - End(t)
         /\ settled[t] <= MaxRecords /\ position[t] <= MaxRecords
<1>1. /\ buffer[t] \in Seq(1..MaxRecords) /\ requestsC[t] \in Seq(1..MaxRecords)
      /\ fetched[t] \in Seq(1..MaxRecords)
  BY DEF IInv, TypeOK, RecordsOK
<1>2. /\ settled[t] \in 0..MaxRecords /\ position[t] \in 0..MaxRecords
      /\ produced[t] \in 0..MaxRecords /\ offset[t] \in 0..MaxRecords
      /\ marked[t] \in 0..MaxRecords
  BY DEF IInv, TypeOK, OffsetsOK
<1>3. Mid(t) \in Nat /\ settled[t] <= Mid(t) /\ Len(buffer[t]) = Mid(t) - settled[t]
  BY <1>1, <1>2 DEF Mid
<1>4. End(t) \in Nat /\ Mid(t) <= End(t) /\ Len(requestsC[t]) = End(t) - Mid(t)
  BY <1>1, <1>3 DEF End
<1>5. End(t) <= position[t] /\ fetched[t] = Run(End(t), position[t])
  BY DEF IInv, Lined
<1>6. Len(fetched[t]) = position[t] - End(t)
  <2>1. position[t] \in Nat
    BY <1>2
  <2> QED
    BY <1>4, <1>5, <2>1, RunIsSeq
<1> QED
  BY <1>2, <1>3, <1>4, <1>5, <1>6

LEMMA InitIInv == Init => IInv
<1> SUFFICES ASSUME Init PROVE IInv
  OBVIOUS
<1> USE DEF Init, Zero, Empty, None, No
<1>1. FlagsOK
  BY DEF FlagsOK
<1>2. CountsOK /\ OffsetsOK /\ RecordsOK
  BY DEF CountsOK, OffsetsOK, RecordsOK
<1>3. ASSUME NEW t \in Topic PROVE Lined(t) /\ Filling(t)
  <2>1. Run(0, 0) = <<>>
    BY RunEmpty
  <2>2. Lined(t)
    BY <2>1 DEF Lined, Mid, End
  <2>3. Filling(t)
    BY DEF Filling
  <2> QED
    BY <2>2, <2>3
<1> QED
  BY <1>1, <1>2, <1>3 DEF IInv, TypeOK

\* A topic that a step does not touch.
LEMMA Untouched ==
  ASSUME NEW t, Lined(t), Filling(t),
         settled'[t] = settled[t], buffer'[t] = buffer[t], requestsC'[t] = requestsC[t],
         fetched'[t] = fetched[t], position'[t] = position[t], offset'[t] = offset[t],
         marked'[t] = marked[t], produced'[t] = produced[t], committing'[t] = committing[t]
  PROVE  Lined(t)' /\ Filling(t)'
  BY DEF Lined, Filling, Mid, End

-----------------------------------------------------------------------------
(* The steps. *)

LEMMA FlagsStep ==
  ASSUME TypeOK, [Next]_vars
  PROVE  FlagsOK'
<1> USE DEF TypeOK, FlagsOK
<1>1. ASSUME NEW t \in Topic, Produce(t) \/ ProcessRecord(t) PROVE FlagsOK'
  BY <1>1 DEF Produce, ProcessRecord, processor, db
<1>2. ASSUME NEW t \in Topic, Receive(t) PROVE FlagsOK'
  <2>1. CommitRequired(buffer'[t]) \in BOOLEAN
    BY DEF CommitRequired
  <2> QED
    BY <1>2, <2>1 DEF Receive, db
<1>3. ASSUME NEW t \in Topic, Tick(t) \/ TransientError(t) \/ ConnectivityError(t)
                              \/ BreakerCloses(t)
      PROVE FlagsOK'
  BY <1>3 DEF Tick, TransientError, ConnectivityError, BreakerCloses, db
<1>4. ASSUME NEW t \in Topic, CommitSucceeds(t) \/ CommitGivesUp(t) PROVE FlagsOK'
  BY <1>4 DEF CommitSucceeds, CommitGivesUp, EndCommit, db
<1>5. ASSUME NEW t \in Topic, AcknowledgementLost(t) PROVE FlagsOK'
  BY <1>5 DEF AcknowledgementLost
<1>6. CASE PollRecords \/ AutoCommit \/ DatabaseFails \/ DatabaseRecovers
  BY <1>6 DEF PollRecords, AutoCommit, DatabaseFails, DatabaseRecovers, processor, db
<1>7. CASE Crash
  BY <1>7 DEF Crash, No
<1>8. CASE UNCHANGED vars
  BY <1>8 DEF vars
<1> QED
  BY <1>1, <1>2, <1>3, <1>4, <1>5, <1>6, <1>7, <1>8 DEF Next, Worker

\* What a step has to re-establish beside FlagsOK.
Rest == CountsOK /\ OffsetsOK /\ RecordsOK /\ \A t \in Topic : Lined(t) /\ Filling(t)

LEMMA ProduceStep ==
  ASSUME IInv, NEW t \in Topic, Produce(t)
  PROVE  Rest'
<1> USE DEF Produce, consumer, processor, db, history
<1>1. CountsOK' /\ RecordsOK'
  BY DEF IInv, TypeOK, CountsOK, RecordsOK
<1>2. OffsetsOK'
  BY DEF IInv, TypeOK, OffsetsOK
<1>3. ASSUME NEW u \in Topic PROVE Lined(u)' /\ Filling(u)'
  <2>1. position[u] <= produced'[u]
    BY DEF IInv, Lined, TypeOK, OffsetsOK
  <2> QED
    BY <2>1 DEF IInv, Lined, Filling, Mid, End
<1> QED
  BY <1>1, <1>2, <1>3 DEF Rest

LEMMA AutoCommitStep ==
  ASSUME IInv, AutoCommit
  PROVE  Rest'
<1> USE DEF AutoCommit, consumer, processor, db, history
<1>1. CountsOK' /\ RecordsOK' /\ OffsetsOK'
  BY DEF IInv, TypeOK, CountsOK, RecordsOK, OffsetsOK
<1>2. ASSUME NEW u \in Topic PROVE Lined(u)' /\ Filling(u)'
  <2>1. marked[u] <= marked[u]
    BY Borders
  <2> QED
    BY <2>1 DEF IInv, Lined, Filling, Mid, End
<1> QED
  BY <1>1, <1>2 DEF Rest

LEMMA PollRecordsStep ==
  ASSUME IInv, PollRecords
  PROVE  Rest'
<1>1. PICK upto \in [Topic -> 0..MaxRecords] :
        /\ \A t \in Topic : position[t] <= upto[t] /\ upto[t] <= produced[t]
        /\ position' = upto
        /\ fetched' = [t \in Topic |-> Run(position[t], upto[t])]
  BY DEF PollRecords
<1>2. /\ fetched = Empty /\ marked' = position
      /\ UNCHANGED <<kafka, at, processor, db, history>>
  BY DEF PollRecords
<1> USE DEF kafka, processor, db, history
<1>3. ASSUME NEW t \in Topic
      PROVE  Run(position[t], upto[t]) \in Seq(1..MaxRecords)
  <2>1. /\ position[t] \in Nat /\ upto[t] \in Nat /\ upto[t] <= MaxRecords
        /\ position[t] <= upto[t]
    BY <1>1, Borders
  <2> QED
    BY <2>1, RunIsSeq
<1>4. CountsOK' /\ OffsetsOK'
  BY <1>1, <1>2 DEF IInv, TypeOK, CountsOK, OffsetsOK
<1>5. RecordsOK'
  BY <1>1, <1>2, <1>3 DEF IInv, TypeOK, RecordsOK
<1>6. ASSUME NEW t \in Topic PROVE Lined(t)' /\ Filling(t)'
  <2>1. End(t) = position[t]
    <3>1. Len(fetched[t]) = 0
      BY <1>2 DEF Empty
    <3> QED
      BY <3>1, Borders
  <2>2. /\ End(t)' = End(t) /\ Mid(t)' = Mid(t)
    BY <1>2 DEF End, Mid
  <2>3. Lined(t)'
    <3>1. offset[t] <= position[t] /\ position[t] <= position[t]
      BY Borders, <2>1 DEF IInv, Lined
    <3>2. /\ marked'[t] = position[t] /\ position'[t] = upto[t]
          /\ fetched'[t] = Run(position[t], upto[t])
      BY <1>1, <1>2
    <3> QED
      BY <1>1, <1>2, <2>1, <2>2, <3>1, <3>2 DEF IInv, Lined
  <2>4. Filling(t)'
    BY <1>2 DEF IInv, Filling
  <2> QED
    BY <2>3, <2>4
<1> QED
  BY <1>4, <1>5, <1>6 DEF Rest

LEMMA ProcessRecordStep ==
  ASSUME IInv, NEW t \in Topic, ProcessRecord(t)
  PROVE  Rest'
<1> USE DEF ProcessRecord, kafka, db, history
<1>1. /\ fetched[t] \in Seq(1..MaxRecords) /\ requestsC[t] \in Seq(1..MaxRecords)
      /\ fetched[t] # <<>>
  BY DEF IInv, TypeOK, RecordsOK
<1>2. CountsOK' /\ OffsetsOK'
  BY DEF IInv, TypeOK, CountsOK, OffsetsOK
<1>3. RecordsOK'
  <2>1. /\ Tail(fetched[t]) \in Seq(1..MaxRecords)
        /\ Append(requestsC[t], Head(fetched[t])) \in Seq(1..MaxRecords)
    BY <1>1, HeadTailProperties, AppendProperties
  <2> QED
    BY <2>1 DEF IInv, TypeOK, RecordsOK
<1>4. ASSUME NEW u \in Topic, u # t PROVE Lined(u)' /\ Filling(u)'
  BY <1>4, Untouched DEF IInv, TypeOK, RecordsOK
<1>5. Lined(t)' /\ Filling(t)'
  <2>1. End(t) < position[t]
    BY <1>1, Borders
  <2>2. /\ fetched[t] = Run(End(t), position[t]) /\ requestsC[t] = Run(Mid(t), End(t))
        /\ buffer[t] = Run(settled[t], Mid(t))
        /\ offset[t] <= marked[t] /\ marked[t] <= End(t) /\ position[t] <= produced[t]
    BY DEF IInv, Lined
  <2>3. Head(fetched[t]) = End(t) + 1 /\ Tail(fetched[t]) = Run(End(t) + 1, position[t])
    BY <2>1, <2>2, Borders, RunHeadTail
  <2>4. Append(requestsC[t], End(t) + 1) = Run(Mid(t), End(t) + 1)
    BY <2>2, Borders, RunAppend
  <2>5. /\ fetched'[t] = Run(End(t) + 1, position[t])
        /\ requestsC'[t] = Run(Mid(t), End(t) + 1)
    BY <2>3, <2>4 DEF IInv, TypeOK, RecordsOK
  <2>6. /\ End(t) + 1 \in Nat /\ Mid(t) <= End(t) + 1 /\ End(t) + 1 <= position[t]
        /\ marked[t] <= End(t) + 1
    BY <2>1, <2>2, Borders
  <2>7. /\ buffer'[t] = buffer[t] /\ settled'[t] = settled[t] /\ position'[t] = position[t]
        /\ offset'[t] = offset[t] /\ marked'[t] = marked[t] /\ produced'[t] = produced[t]
        /\ committing' = committing
    OBVIOUS
  <2>8. Lined(t)'
    BY <2>2, <2>5, <2>6, <2>7, Borders, Line
  <2>9. Filling(t)'
    BY <2>7 DEF IInv, Filling
  <2> QED
    BY <2>8, <2>9
<1> QED
  BY <1>2, <1>3, <1>4, <1>5 DEF Rest

LEMMA ReceiveStep ==
  ASSUME IInv, NEW t \in Topic, Receive(t)
  PROVE  Rest'
<1> USE DEF Receive, kafka, consumer, db, history
<1>1. /\ requestsC[t] \in Seq(1..MaxRecords) /\ buffer[t] \in Seq(1..MaxRecords)
      /\ requestsC[t] # <<>>
  BY DEF IInv, TypeOK, RecordsOK
<1>2. CountsOK' /\ OffsetsOK'
  BY DEF IInv, TypeOK, CountsOK, OffsetsOK
<1>3. RecordsOK'
  <2>1. /\ Tail(requestsC[t]) \in Seq(1..MaxRecords)
        /\ Append(buffer[t], Head(requestsC[t])) \in Seq(1..MaxRecords)
    BY <1>1, HeadTailProperties, AppendProperties
  <2> QED
    BY <2>1 DEF IInv, TypeOK, RecordsOK
<1>4. ASSUME NEW u \in Topic, u # t PROVE Lined(u)' /\ Filling(u)'
  <2>1. committing'[u] = committing[u]
    BY <1>4 DEF IInv, TypeOK, FlagsOK
  <2> QED
    BY <1>4, <2>1, Untouched DEF IInv, TypeOK, RecordsOK
<1>5. Lined(t)'
  <2>1. Mid(t) < End(t)
    BY <1>1, Borders
  <2>2. /\ fetched[t] = Run(End(t), position[t]) /\ requestsC[t] = Run(Mid(t), End(t))
        /\ buffer[t] = Run(settled[t], Mid(t))
        /\ offset[t] <= marked[t] /\ marked[t] <= End(t) /\ position[t] <= produced[t]
    BY DEF IInv, Lined
  <2>3. Head(requestsC[t]) = Mid(t) + 1 /\ Tail(requestsC[t]) = Run(Mid(t) + 1, End(t))
    BY <2>1, <2>2, Borders, RunHeadTail
  <2>4. Append(buffer[t], Mid(t) + 1) = Run(settled[t], Mid(t) + 1)
    BY <2>2, Borders, RunAppend
  <2>5. /\ requestsC'[t] = Run(Mid(t) + 1, End(t))
        /\ buffer'[t] = Run(settled[t], Mid(t) + 1)
    BY <2>3, <2>4 DEF IInv, TypeOK, RecordsOK
  <2>6. Mid(t) + 1 \in Nat /\ settled[t] <= Mid(t) + 1 /\ Mid(t) + 1 <= End(t)
    BY <2>1, Borders
  <2>7. /\ fetched'[t] = fetched[t] /\ settled'[t] = settled[t]
        /\ position'[t] = position[t] /\ offset'[t] = offset[t]
        /\ marked'[t] = marked[t] /\ produced'[t] = produced[t]
    OBVIOUS
  <2> QED
    BY <2>2, <2>5, <2>6, <2>7, Borders, Line
<1>6. Filling(t)'
  <2>1. committing[t] = FALSE
    BY DEF IInv, TypeOK, FlagsOK
  <2>2. Len(buffer[t]) < BulkActions
    BY <2>1 DEF IInv, Filling
  <2>3. buffer'[t] = Append(buffer[t], Head(requestsC[t]))
    BY DEF IInv, TypeOK, RecordsOK
  <2>4. Len(buffer'[t]) = Len(buffer[t]) + 1 /\ buffer'[t] # <<>>
    BY <1>1, <2>3, HeadTailProperties, AppendProperties
  <2>5. Len(buffer[t]) \in Nat
    BY <1>1
  <2>6. CASE Len(buffer'[t]) >= BulkActions
    <3>1. committing'[t] = CommitRequired(buffer'[t])
      BY DEF IInv, TypeOK, FlagsOK
    <3>2. CommitRequired(buffer'[t]) = TRUE
      BY <2>6 DEF CommitRequired
    <3>3. committing'[t] # FALSE
      BY <3>1, <3>2
    <3>4. Len(buffer'[t]) <= BulkActions
      BY <2>2, <2>4, <2>5
    <3> QED
      BY <2>4, <3>3, <3>4 DEF Filling
  <2>7. CASE ~(Len(buffer'[t]) >= BulkActions)
    BY <2>2, <2>4, <2>5, <2>7 DEF Filling
  <2> QED
    BY <2>6, <2>7
<1> QED
  BY <1>2, <1>3, <1>4, <1>5, <1>6 DEF Rest

LEMMA TickStep ==
  ASSUME IInv, NEW t \in Topic, Tick(t)
  PROVE  Rest'
<1>1. /\ UNCHANGED <<kafka, consumer, requestsC, buffer, attempts, db, history>>
      /\ buffer[t] # <<>>
  BY DEF Tick
<1>2. CountsOK' /\ OffsetsOK' /\ RecordsOK'
  BY <1>1 DEF kafka, consumer, db, history, IInv, TypeOK, CountsOK, OffsetsOK, RecordsOK
<1>3. ASSUME NEW u \in Topic PROVE Lined(u)' /\ Filling(u)'
  <2>1. Lined(u) /\ Filling(u)
    BY DEF IInv
  <2>2. Lined(u)'
    BY <1>1, <2>1 DEF kafka, consumer, history, Lined, Mid, End
  <2>3. buffer'[u] = buffer[u]
    BY <1>1
  <2>4. CASE u # t
    <3>1. committing'[u] = committing[u]
      BY <2>4 DEF Tick, IInv, TypeOK, FlagsOK
    <3> QED
      BY <2>1, <2>2, <2>3, <3>1 DEF Filling
  <2>5. CASE u = t
    <3>1. committing'[u] # FALSE
      BY <2>5 DEF Tick, IInv, TypeOK, FlagsOK
    <3> QED
      BY <1>1, <2>1, <2>2, <2>3, <2>5, <3>1 DEF Filling
  <2> QED
    BY <2>4, <2>5
<1> QED
  BY <1>2, <1>3 DEF Rest

\* What a commit works on: the run that follows the last record settled.
LEMMA CommittedRun ==
  ASSUME IInv, NEW t \in Topic, Attempt(t)
  PROVE  /\ settled[t] < Mid(t) /\ Mid(t) <= settled[t] + BulkActions
         /\ buffer[t] = Run(settled[t], Mid(t))
         /\ buffer[t][Len(buffer[t])] = Mid(t)
         /\ Elements(buffer[t]) \subseteq 1..MaxRecords
<1>1. committing[t] = TRUE
  BY DEF Attempt, IInv, TypeOK, FlagsOK
<1>2. buffer[t] # <<>> /\ Len(buffer[t]) <= BulkActions
  BY <1>1 DEF IInv, Filling
<1>3. buffer[t] \in Seq(1..MaxRecords)
  BY DEF IInv, TypeOK, RecordsOK
<1>4. Len(buffer[t]) # 0
  BY <1>2, <1>3
<1>5. settled[t] < Mid(t) /\ Mid(t) <= settled[t] + BulkActions
  BY <1>2, <1>3, <1>4, Borders
<1>6. buffer[t] = Run(settled[t], Mid(t))
  BY DEF IInv, Lined
<1>7. buffer[t][Len(buffer[t])] = Mid(t)
  BY <1>5, <1>6, Borders, RunLast
<1>8. Elements(buffer[t]) \subseteq 1..MaxRecords
  BY <1>3 DEF Elements
<1> QED
  BY <1>5, <1>6, <1>7, <1>8

LEMMA EndCommitStep ==
  ASSUME IInv, NEW t \in Topic, Attempt(t), EndCommit(t),
         UNCHANGED <<kafka, consumer, requestsC, db>>,
         applied' \in [Topic -> Seq(1..MaxRecords)],
         written' \in [Topic -> SUBSET (1..MaxRecords)],
         dropped' \in [Topic -> SUBSET (1..MaxRecords)],
         lost' \in [Topic -> SUBSET (1..MaxRecords)]
  PROVE  Rest'
<1>1. Mid(t) \in 0..MaxRecords
  <2>1. /\ Mid(t) \in Nat /\ End(t) \in Nat /\ position[t] \in Nat
        /\ Mid(t) <= End(t) /\ End(t) <= position[t] /\ position[t] <= MaxRecords
    BY Borders
  <2> QED
    BY <2>1
<1> USE DEF EndCommit, kafka, consumer, db
<1>2. CountsOK'
  BY DEF IInv, TypeOK, CountsOK
<1>3. OffsetsOK'
  BY <1>1, CommittedRun DEF IInv, TypeOK, OffsetsOK
<1>4. RecordsOK'
  <2>1. buffer' = [buffer EXCEPT ![t] = <<>>] /\ <<>> \in Seq(1..MaxRecords)
    OBVIOUS
  <2>2. buffer' \in [Topic -> Seq(1..MaxRecords)]
    BY <2>1 DEF IInv, TypeOK, RecordsOK
  <2>3. UNCHANGED <<fetched, requestsC>>
    OBVIOUS
  <2> QED
    BY <2>2, <2>3 DEF IInv, TypeOK, RecordsOK
<1>5. ASSUME NEW u \in Topic, u # t PROVE Lined(u)' /\ Filling(u)'
  <2>1. committing'[u] = committing[u]
    BY <1>5 DEF IInv, TypeOK, FlagsOK
  <2>2. settled'[u] = settled[u] /\ buffer'[u] = buffer[u]
    BY <1>5 DEF IInv, TypeOK, OffsetsOK, RecordsOK
  <2> QED
    BY <2>1, <2>2, Untouched DEF IInv
<1>6. Lined(t)'
  <2>1. /\ fetched[t] = Run(End(t), position[t]) /\ requestsC[t] = Run(Mid(t), End(t))
        /\ offset[t] <= marked[t] /\ marked[t] <= End(t) /\ position[t] <= produced[t]
    BY DEF IInv, Lined
  <2>2. settled'[t] = Mid(t) /\ buffer'[t] = <<>>
    BY CommittedRun DEF IInv, TypeOK, OffsetsOK, RecordsOK
  <2>3. buffer'[t] = Run(Mid(t), Mid(t)) /\ Mid(t) <= Mid(t)
    BY <2>2, Borders, RunEmpty
  <2>4. /\ fetched'[t] = fetched[t] /\ requestsC'[t] = requestsC[t]
        /\ position'[t] = position[t] /\ offset'[t] = offset[t]
        /\ marked'[t] = marked[t] /\ produced'[t] = produced[t]
    OBVIOUS
  <2> QED
    BY <2>1, <2>2, <2>3, <2>4, Borders, Line
<1>7. Filling(t)'
  <2>1. committing'[t] = FALSE
    BY DEF IInv, TypeOK, FlagsOK
  <2>2. buffer'[t] = <<>> /\ Len(buffer'[t]) = 0
    BY DEF IInv, TypeOK, RecordsOK
  <2> QED
    BY <2>1, <2>2 DEF Filling
<1> QED
  BY <1>2, <1>3, <1>4, <1>5, <1>6, <1>7 DEF Rest

LEMMA CommitStep ==
  ASSUME IInv, NEW t \in Topic, CommitSucceeds(t) \/ CommitGivesUp(t)
  PROVE  Rest'
<1>1. Attempt(t) /\ EndCommit(t) /\ UNCHANGED <<kafka, consumer, requestsC, db>>
  BY DEF CommitSucceeds, CommitGivesUp
<1>2. Elements(buffer[t]) \subseteq 1..MaxRecords
  BY <1>1, CommittedRun
<1>3. /\ applied' \in [Topic -> Seq(1..MaxRecords)]
      /\ written' \in [Topic -> SUBSET (1..MaxRecords)]
      /\ dropped' \in [Topic -> SUBSET (1..MaxRecords)]
      /\ lost' \in [Topic -> SUBSET (1..MaxRecords)]
  BY <1>2 DEF CommitSucceeds, CommitGivesUp, Applied, IInv, TypeOK, RecordsOK
<1> QED
  BY <1>1, <1>3, EndCommitStep

\* Steps that touch neither the records nor whether they are committed.
LEMMA RetryStep ==
  ASSUME IInv, NEW t \in Topic,
         TransientError(t) \/ ConnectivityError(t) \/ BreakerCloses(t)
         \/ AcknowledgementLost(t)
  PROVE  Rest'
<1> USE DEF kafka, consumer, db, history
<1>1. UNCHANGED <<kafka, consumer, requestsC, buffer, committing, settled, crashes>>
  BY DEF TransientError, ConnectivityError, BreakerCloses, AcknowledgementLost
<1>2. CountsOK'
  BY <1>1 DEF TransientError, ConnectivityError, BreakerCloses, AcknowledgementLost,
              IInv, TypeOK, CountsOK
<1>3. OffsetsOK'
  BY <1>1 DEF IInv, TypeOK, OffsetsOK
<1>4. RecordsOK'
  <2>1. CASE AcknowledgementLost(t)
    <3>1. Elements(buffer[t]) \subseteq 1..MaxRecords
      BY <2>1, CommittedRun DEF AcknowledgementLost
    <3> QED
      BY <2>1, <3>1 DEF AcknowledgementLost, Applied, IInv, TypeOK, RecordsOK
  <2>2. CASE TransientError(t) \/ ConnectivityError(t) \/ BreakerCloses(t)
    BY <2>2 DEF TransientError, ConnectivityError, BreakerCloses, IInv, TypeOK, RecordsOK
  <2> QED
    BY <2>1, <2>2
<1>5. ASSUME NEW u \in Topic PROVE Lined(u)' /\ Filling(u)'
  BY <1>1, Untouched DEF IInv
<1> QED
  BY <1>2, <1>3, <1>4, <1>5 DEF Rest

LEMMA DatabaseStep ==
  ASSUME IInv, DatabaseFails \/ DatabaseRecovers
  PROVE  Rest'
<1> USE DEF kafka, consumer, processor, history
<1>1. UNCHANGED <<kafka, consumer, processor, crashes, history>>
  BY DEF DatabaseFails, DatabaseRecovers
<1>2. outages' \in 0..MaxOutages
  BY DEF DatabaseFails, DatabaseRecovers, IInv, TypeOK, CountsOK
<1>3. CountsOK'
  BY <1>1, <1>2 DEF IInv, TypeOK, CountsOK
<1>4. OffsetsOK' /\ RecordsOK'
  BY <1>1 DEF IInv, TypeOK, OffsetsOK, RecordsOK
<1>5. ASSUME NEW u \in Topic PROVE Lined(u)' /\ Filling(u)'
  BY <1>1, Untouched DEF IInv
<1> QED
  BY <1>3, <1>4, <1>5 DEF Rest

LEMMA CrashStep ==
  ASSUME IInv, Crash
  PROVE  Rest'
<1>0. ASSUME NEW t \in Topic
      PROVE  offset[t] <= produced[t] /\ offset[t] <= offset[t] /\ offset[t] \in Nat
  <2>1. /\ offset[t] \in Nat /\ marked[t] \in Nat /\ End(t) \in Nat /\ position[t] \in Nat
        /\ produced[t] \in Nat
    BY Borders
  <2>2. /\ offset[t] <= marked[t] /\ marked[t] <= End(t)
        /\ End(t) <= position[t] /\ position[t] <= produced[t]
    BY DEF IInv, Lined
  <2> QED
    BY <2>1, <2>2
<1> USE DEF Crash, kafka, Empty, No, Zero
<1>1. CountsOK'
  BY DEF IInv, TypeOK, CountsOK
<1>2. OffsetsOK'
  BY DEF IInv, TypeOK, OffsetsOK
<1>3. RecordsOK'
  <2>1. ASSUME NEW t \in Topic PROVE InMemory(t) \subseteq 1..MaxRecords
    BY DEF InMemory, Elements, IInv, TypeOK, RecordsOK
  <2> QED
    BY <2>1 DEF IInv, TypeOK, RecordsOK
<1>4. ASSUME NEW t \in Topic PROVE Lined(t)' /\ Filling(t)'
  <2>1. offset[t] <= produced[t] /\ offset[t] <= offset[t] /\ offset[t] \in Nat
    BY <1>0
  <2>2. Run(offset[t], offset[t]) = <<>>
    BY <2>1, RunEmpty
  <2>3. /\ settled'[t] = offset[t] /\ position'[t] = offset[t] /\ marked'[t] = offset[t]
        /\ offset'[t] = offset[t] /\ produced'[t] = produced[t]
        /\ buffer'[t] = <<>> /\ requestsC'[t] = <<>> /\ fetched'[t] = <<>>
    OBVIOUS
  <2>4. Lined(t)'
    BY <2>1, <2>2, <2>3, Line
  <2>5. Filling(t)'
    <3>1. committing'[t] = FALSE
      OBVIOUS
    <3> QED
      BY <2>3, <3>1 DEF Filling
  <2> QED
    BY <2>4, <2>5
<1> QED
  BY <1>1, <1>2, <1>3, <1>4 DEF Rest

LEMMA Inductive == IInv /\ [Next]_vars => IInv'
<1> SUFFICES ASSUME IInv, [Next]_vars PROVE IInv'
  OBVIOUS
<1>1. FlagsOK'
  BY FlagsStep DEF IInv
<1>2. SUFFICES Rest'
  BY <1>1 DEF Rest, IInv, TypeOK
<1>3. CASE UNCHANGED vars
  BY <1>3 DEF vars, IInv, TypeOK, CountsOK, OffsetsOK, RecordsOK, Lined, Filling, Mid, End,
              Rest
<1> QED
  BY <1>3, ProduceStep, AutoCommitStep, PollRecordsStep, ProcessRecordStep, ReceiveStep,
     TickStep, CommitStep, RetryStep, DatabaseStep, CrashStep DEF Next, Worker

-----------------------------------------------------------------------------
(* The theorems. *)

LEMMA Contiguous == IInv => InFlightContiguous
<1> SUFFICES ASSUME IInv, NEW t \in Topic
             PROVE  buffer[t] \o requestsC[t] \o fetched[t] = Run(settled[t], position[t])
  BY DEF InFlightContiguous
<1>1. /\ buffer[t] = Run(settled[t], Mid(t)) /\ requestsC[t] = Run(Mid(t), End(t))
      /\ fetched[t] = Run(End(t), position[t])
  BY DEF IInv, Lined
<1>2. /\ settled[t] \in Nat /\ Mid(t) \in Nat /\ End(t) \in Nat /\ position[t] \in Nat
      /\ settled[t] <= Mid(t) /\ Mid(t) <= End(t) /\ End(t) <= position[t]
  BY Borders
<1>3. Run(settled[t], Mid(t)) \o Run(Mid(t), End(t)) = Run(settled[t], End(t))
  BY <1>2, RunConcat
<1>4. settled[t] <= End(t)
  BY <1>2
<1>5. Run(settled[t], End(t)) \o Run(End(t), position[t]) = Run(settled[t], position[t])
  BY <1>2, <1>4, RunConcat
<1> QED
  BY <1>1, <1>3, <1>5

LEMMA Undelivered == IInv => UndeliveredNotCommitted
<1> SUFFICES ASSUME IInv, NEW t \in Topic, NEW o \in Elements(fetched[t])
             PROVE  offset[t] < o
  BY DEF UndeliveredNotCommitted
<1>1. /\ offset[t] \in Nat /\ marked[t] \in Nat /\ End(t) \in Nat /\ position[t] \in Nat
      /\ End(t) <= position[t]
  BY Borders
<1>2. /\ offset[t] <= marked[t] /\ marked[t] <= End(t)
      /\ fetched[t] = Run(End(t), position[t])
  BY DEF IInv, Lined
<1>3. Elements(fetched[t]) = (End(t) + 1)..position[t]
  BY <1>1, <1>2, RunElements
<1>4. o \in (End(t) + 1)..position[t]
  BY <1>3
<1> QED
  BY <1>1, <1>2, <1>4

(***************************************************************************)
(* Type correctness: no backoff beyond maxRetries, and every record held   *)
(* anywhere is an offset that was produced.                                *)
(***************************************************************************)
THEOREM TypeCorrect == Spec => []TypeOK
<1>1. Init => IInv
  BY InitIInv
<1>2. IInv /\ [Next]_vars => IInv'
  BY Inductive
<1>3. IInv => TypeOK
  BY DEF IInv
<1> QED
  BY <1>1, <1>2, <1>3, PTL DEF Spec

(***************************************************************************)
(* processRecord, the bulk processor's channel and the worker's buffer     *)
(* never reorder, skip or double a record, whatever commits fail and       *)
(* whenever the worker crashes.                                            *)
(***************************************************************************)
THEOREM NothingReordered == Spec => []InFlightContiguous
<1>1. Init => IInv
  BY InitIInv
<1>2. IInv /\ [Next]_vars => IInv'
  BY Inductive
<1>3. IInv => InFlightContiguous
  BY Contiguous
<1> QED
  BY <1>1, <1>2, <1>3, PTL DEF Spec

(***************************************************************************)
(* The offsets that the Kafka client commits by itself never pass a record *)
(* that pollRecords has not yet put into its channel.                      *)
(***************************************************************************)
THEOREM UndeliveredKept == Spec => []UndeliveredNotCommitted
<1>1. Init => IInv
  BY InitIInv
<1>2. IInv /\ [Next]_vars => IInv'
  BY Inductive
<1>3. IInv => UndeliveredNotCommitted
  BY Undelivered
<1> QED
  BY <1>1, <1>2, <1>3, PTL DEF Spec

-----------------------------------------------------------------------------
(* The pipeline implements TopicDelivery. *)

\* The end of the buffer is an end that TopicDelivery allows.
LEMMA DeliveredRun ==
  ASSUME IInv, NEW t \in Topic, Attempt(t)
  PROVE  /\ Mid(t) \in Delivery!Ends(t)
         /\ buffer[t] = Delivery!Run(settled[t], Mid(t))
         /\ buffer[t][Len(buffer[t])] = Mid(t)
<1>1. /\ settled[t] \in Nat /\ Mid(t) \in Nat /\ End(t) \in Nat /\ position[t] \in Nat
      /\ produced[t] \in Nat /\ Mid(t) <= End(t) /\ End(t) <= position[t]
  BY Borders
<1>2. position[t] <= produced[t]
  BY DEF IInv, Lined
<1>3. /\ settled[t] < Mid(t) /\ Mid(t) <= settled[t] + BulkActions
      /\ buffer[t] = Run(settled[t], Mid(t)) /\ buffer[t][Len(buffer[t])] = Mid(t)
  BY CommittedRun
<1>4. Mid(t) \in (settled[t] + 1)..(settled[t] + BulkActions) /\ Mid(t) <= produced[t]
  BY <1>1, <1>2, <1>3
<1>5. buffer[t] = Delivery!Run(settled[t], Mid(t))
  BY <1>3 DEF Run, Delivery!Run
<1> QED
  BY <1>3, <1>4, <1>5 DEF Delivery!Ends

LEMMA DeliveryStep ==
  ASSUME IInv, [Next]_vars
  PROVE  [Delivery!Next]_(Delivery!vars)
<1> USE DEF Delivery!vars
<1>1. ASSUME NEW t \in Topic, Produce(t) PROVE [Delivery!Next]_(Delivery!vars)
  BY <1>1 DEF Produce, history, db, Delivery!Next, Delivery!Send
<1>2. ASSUME NEW t \in Topic, CommitSucceeds(t) PROVE [Delivery!Next]_(Delivery!vars)
  <2>1. /\ applied' = [applied EXCEPT ![t] = Delivery!Run(settled[t], Mid(t))]
        /\ settled' = [settled EXCEPT ![t] = Mid(t)]
        /\ Mid(t) \in Delivery!Ends(t)
        /\ UNCHANGED <<produced, crashes>>
    BY <1>2, DeliveredRun DEF CommitSucceeds, Applied, EndCommit, kafka, db
  <2> QED
    BY <2>1 DEF Delivery!Next, Delivery!Apply
<1>3. ASSUME NEW t \in Topic, CommitGivesUp(t) PROVE [Delivery!Next]_(Delivery!vars)
  <2>1. /\ settled' = [settled EXCEPT ![t] = Mid(t)]
        /\ Mid(t) \in Delivery!Ends(t)
        /\ UNCHANGED <<produced, applied, crashes>>
    BY <1>3, DeliveredRun DEF CommitGivesUp, EndCommit, kafka, db
  <2> QED
    BY <2>1 DEF Delivery!Next, Delivery!GiveUp
<1>4. ASSUME NEW t \in Topic, AcknowledgementLost(t) PROVE [Delivery!Next]_(Delivery!vars)
  <2>1. /\ applied' = [applied EXCEPT ![t] = Delivery!Run(settled[t], Mid(t))]
        /\ Mid(t) \in Delivery!Ends(t)
        /\ UNCHANGED <<produced, settled, crashes>>
    BY <1>4, DeliveredRun DEF AcknowledgementLost, Applied, kafka
  <2> QED
    BY <2>1 DEF Delivery!Next, Delivery!ApplyUnacknowledged
<1>5. CASE Crash
  <2>1. \A t \in Topic : offset[t] \in Nat /\ offset[t] <= produced[t]
    <3> SUFFICES ASSUME NEW t \in Topic
                 PROVE  offset[t] \in Nat /\ offset[t] <= produced[t]
      OBVIOUS
    <3>1. /\ offset[t] \in Nat /\ marked[t] \in Nat /\ End(t) \in Nat
          /\ position[t] \in Nat /\ produced[t] \in Nat
      BY Borders
    <3>2. /\ offset[t] <= marked[t] /\ marked[t] <= End(t)
          /\ End(t) <= position[t] /\ position[t] <= produced[t]
      BY DEF IInv, Lined
    <3> QED
      BY <3>1, <3>2
  <2>2. /\ crashes' = crashes + 1 /\ settled' = offset
        /\ UNCHANGED <<produced, applied>>
    BY <1>5 DEF Crash, kafka
  <2>3. settled' \in [Topic -> Nat]
    BY <2>1, <2>2 DEF IInv, TypeOK, OffsetsOK
  <2> QED
    BY <2>1, <2>2, <2>3 DEF Delivery!Next, Delivery!Restart
<1>6. ASSUME NEW t \in Topic,
             ProcessRecord(t) \/ Receive(t) \/ Tick(t) \/ TransientError(t)
             \/ ConnectivityError(t) \/ BreakerCloses(t)
      PROVE  UNCHANGED Delivery!vars
  BY <1>6 DEF ProcessRecord, Receive, Tick, TransientError, ConnectivityError,
              BreakerCloses, kafka, db, history
<1>7. CASE PollRecords \/ AutoCommit \/ DatabaseFails \/ DatabaseRecovers
  BY <1>7 DEF PollRecords, AutoCommit, DatabaseFails, DatabaseRecovers, kafka, db, history
<1>8. CASE UNCHANGED vars
  BY <1>8 DEF vars
<1> QED
  BY <1>1, <1>2, <1>3, <1>4, <1>5, <1>6, <1>7, <1>8 DEF Next, Worker

(***************************************************************************)
(* For every topic the ingestion pipeline does what TopicDelivery promises *)
(* and ScanLifecycle assumes: commitFn gets the run of at most BulkActions *)
(* records that follows the last one settled.                              *)
(***************************************************************************)
THEOREM PipelineImplementsDelivery == Spec => ImplementsDelivery
<1>1. Init => IInv
  BY InitIInv
<1>2. IInv /\ [Next]_vars => IInv'
  BY Inductive
<1>3. Init => Delivery!Init
  BY DEF Init, Zero, Empty, Delivery!Init
<1>4. IInv /\ [Next]_vars => [Delivery!Next]_(Delivery!vars)
  BY DeliveryStep
<1> QED
  BY <1>1, <1>2, <1>3, <1>4, PTL DEF Spec, ImplementsDelivery, Delivery!Spec
=============================================================================
