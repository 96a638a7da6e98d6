---------------------------- MODULE StatusBatch ----------------------------
(***************************************************************************)
(* The loop of statusesToMaps (deepfence_worker/ingesters/common.go) over  *)
(* one batch of status messages.  It justifies StatusesToMaps of module    *)
(* ScanStatus, which says in one expression what the loop leaves.  The     *)
(* text that goes with a status is not modelled.                           *)
(***************************************************************************)
EXTENDS ScanStatus

CONSTANTS Scan,       \* scan ids
          Status,     \* the statuses messages carry
          MaxBatch    \* bound: length of a batch

Absent == "absent"

ASSUME StatusAssumption == Status \subseteq ScanStatuses
ASSUME MaxBatchAssumption == MaxBatch \in Nat

StatusMessage == [scan : Scan, status : Status]

VARIABLES data,        \* the batch
          i,           \* messages visited
          statusBuff   \* per scan: the status of its entry

vars == <<data, i, statusBuff>>

Init ==
    /\ data \in UNION {[1..n -> StatusMessage] : n \in 0..MaxBatch}
    /\ i = 0
    /\ statusBuff = [s \in Scan |-> Absent]

\* Bug: the newest status wins.
ReplacesAlways(new, old) == new # old

\* A new entry, or another status that is terminal.
Replaces(new, old) == old = Absent \/ (new # old /\ new \in Terminal)

Visit ==
    LET new == data[i + 1]
    IN  /\ i < Len(data)
        /\ i' = i + 1
        /\ statusBuff' = IF Replaces(new.status, statusBuff[new.scan])
                         THEN [statusBuff EXCEPT ![new.scan] = new.status]
                         ELSE statusBuff
        /\ UNCHANGED data

Spec == Init /\ [][Visit]_vars

Entries == {[scan |-> s, status |-> statusBuff[s]] :
                s \in {t \in Scan : statusBuff[t] # Absent}}

(***************************************************************************)
(* After every message the loop's buffer is StatusesToMaps of the messages *)
(* visited: for each scan the last terminal status if there is one, else   *)
(* the first status, whatever the order in which messages arrived.         *)
(***************************************************************************)
LoopComputesStatusesToMaps == Entries = StatusesToMaps(SubSeq(data, 1, i))

=============================================================================
