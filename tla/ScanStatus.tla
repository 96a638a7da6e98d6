----------------------------- MODULE ScanStatus -----------------------------
(***************************************************************************)
(* The statuses a scan goes through and the way one batch of status        *)
(* messages is reduced before it is written to the graph database          *)
(* (deepfence_utils/utils/constants.go, deepfence_worker/ingesters/        *)
(* common.go).  Every module about scans extends this one.                 *)
(***************************************************************************)
EXTENDS Naturals, Sequences

ScanStatuses == {"COMPLETE", "STARTING", "IN_PROGRESS", "ERROR",
                 "CANCEL_PENDING", "CANCELLING", "CANCELLED", "DELETE_PENDING"}

\* The statuses that let a new scan start on the node, and that replace an
\* earlier status in a batch.
Terminal == {"COMPLETE", "ERROR", "CANCELLED"}

\* cancel_states of the query that commits IN_PROGRESS rows.
CancelStates == {"CANCELLING", "CANCEL_PENDING"}

\* What a scanner reports about the scan it runs.
Reported == Terminal \cup {"IN_PROGRESS"}

-----------------------------------------------------------------------------
(***************************************************************************)
(* statusesToMaps keeps one message per scan: the first one, replaced by   *)
(* every later message with another, terminal status.  So what is left is  *)
(* the last terminal message if there is one, and the first message        *)
(* otherwise.  Module StatusBatch checks this against the loop.            *)
(***************************************************************************)
Superseded(batch, i) ==
    \E j \in 1..Len(batch) :
        /\ batch[j].scan = batch[i].scan
        /\ \/ batch[j].status \in Terminal
              /\ (batch[i].status \in Terminal => i < j)
           \/ batch[i].status \notin Terminal /\ j < i

StatusesToMaps(batch) ==
    {batch[i] : i \in {k \in 1..Len(batch) : ~Superseded(batch, k)}}

\* Bug: no row is split off.
NoRows(rows) == {}

\* splitInprogressStatus: the rows committed first, and the rest.
InProgressRows(rows) == {m \in rows : m.status = "IN_PROGRESS"}
OtherRows(rows) == rows \ InProgressRows(rows)

=============================================================================
