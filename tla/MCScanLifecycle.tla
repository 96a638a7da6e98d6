-------------------------- MODULE MCScanLifecycle --------------------------
(***************************************************************************)
(* Instances of ScanLifecycle for TLC.  Scans of node n1 are called s*,    *)
(* scans of node n2 are called t*; one agent runs them all.                *)
(***************************************************************************)
EXTENDS ScanLifecycle, TLC

CONSTANTS s1, s2, s3, t1, t2, n1, n2, a1

OnOneNode == [s \in Scan |-> n1]
OnTwoNodes == [s \in Scan |-> IF s \in {s1, s2, s3} THEN n1 ELSE n2]
\* Without priorities the scans of one node are interchangeable.
ScanSymmetry == Permutations(Scan)
PairSymmetry == Permutations({s1, s2})
OneAgent == [s \in Scan |-> a1]
=============================================================================
