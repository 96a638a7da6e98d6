--------------------------- MODULE TopicDelivery ---------------------------
(***************************************************************************)
(* What the worker's ingestion promises for every Kafka topic, and what    *)
(* ScanLifecycle assumes of the status topic: records are applied in       *)
(* batches, each batch is the run of records that follows the last one     *)
(* settled, and only a restart moves back or skips.                        *)
(***************************************************************************)
EXTENDS Naturals, Sequences

CONSTANTS Topic,
          BatchSize     \* the longest batch

VARIABLES sent,         \* per topic: records in the topic
          settled,      \* per topic: the last record applied or given up
          batch,        \* per topic: the batch applied last
          restarts      \* counts the restarts

vars == <<sent, settled, batch, restarts>>

\* The offsets that follow from, as far as to.
Run(from, to) == [k \in 1..(to - from) |-> from + k]

Init ==
    /\ sent = [t \in Topic |-> 0]
    /\ settled = [t \in Topic |-> 0]
    /\ batch = [t \in Topic |-> <<>>]
    /\ restarts = 0

Send(t) ==
    /\ sent' = [sent EXCEPT ![t] = @ + 1]
    /\ UNCHANGED <<settled, batch, restarts>>

\* The ends of the batches that may come next.
Ends(t) == {e \in (settled[t] + 1)..(settled[t] + BatchSize) : e <= sent[t]}

Apply(t) ==
    \E e \in Ends(t) :
        /\ batch' = [batch EXCEPT ![t] = Run(settled[t], e)]
        /\ settled' = [settled EXCEPT ![t] = e]
        /\ UNCHANGED <<sent, restarts>>

\* Without an acknowledgement: the same records come again.
ApplyUnacknowledged(t) ==
    \E e \in Ends(t) :
        /\ batch' = [batch EXCEPT ![t] = Run(settled[t], e)]
        /\ UNCHANGED <<sent, settled, restarts>>

GiveUp(t) ==
    \E e \in Ends(t) :
        /\ settled' = [settled EXCEPT ![t] = e]
        /\ UNCHANGED <<sent, batch, restarts>>

Restart ==
    /\ restarts' = restarts + 1
    /\ settled' \in [Topic -> Nat]
    /\ \A t \in Topic : settled'[t] <= sent[t]
    /\ UNCHANGED <<sent, batch>>

Next ==
    \/ \E t \in Topic : Send(t) \/ Apply(t) \/ ApplyUnacknowledged(t) \/ GiveUp(t)
    \/ Restart

Spec == Init /\ [][Next]_vars

=============================================================================
