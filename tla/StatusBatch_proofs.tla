------------------------- MODULE StatusBatch_proofs -------------------------
(***************************************************************************)
(* The loop of statusesToMaps computes StatusesToMaps, for every batch.    *)
(***************************************************************************)
EXTENDS StatusBatch, ScanStatus_proofs

TypeOK ==
    /\ data \in Seq(StatusMessage)
    /\ i \in 0..Len(data)
    /\ statusBuff \in [Scan -> Status \cup {Absent}]

\* Message k, or one with the same content, is what the first n messages
\* leave for its scan.
Kept(k, n) ==
    \A j \in 1..n :
        data[j].scan = data[k].scan =>
            /\ data[j].status \in Terminal
                   => data[k].status \in Terminal /\ j <= k
            /\ data[k].status \notin Terminal => k <= j

(***************************************************************************)
(* The entry of a scan is the content of a message that no other one       *)
(* visited supersedes, and a scan has no entry as long as none of the      *)
(* messages visited is about it.                                           *)
(***************************************************************************)
EntryInv ==
    \A s \in Scan :
        \/ statusBuff[s] = Absent /\ \A k \in 1..i : data[k].scan # s
        \/ \E k \in 1..i : /\ data[k].scan = s
                           /\ data[k].status = statusBuff[s]
                           /\ Kept(k, i)

-----------------------------------------------------------------------------
\* No status is the mark of an absent entry.
LEMMA AbsentIsNoStatus == Absent \notin Status
  BY StatusAssumption DEF Absent, ScanStatuses

LEMMA TypeInit == Init => TypeOK /\ EntryInv
<1> SUFFICES ASSUME Init
             PROVE  TypeOK /\ EntryInv
  OBVIOUS
<1>1. PICK n \in 0..MaxBatch : data \in [1..n -> StatusMessage]
  BY DEF Init
<1>2. data \in Seq(StatusMessage)
  BY <1>1, MaxBatchAssumption
<1>3. i = 0 /\ statusBuff = [s \in Scan |-> Absent]
  BY DEF Init
<1>4. QED
  BY <1>2, <1>3 DEF TypeOK, EntryInv

LEMMA TypeNext == TypeOK /\ [Visit]_vars => TypeOK'
<1> SUFFICES ASSUME TypeOK, [Visit]_vars
             PROVE  TypeOK'
  OBVIOUS
<1>1. CASE Visit
  <2>1. i + 1 \in 1..Len(data) /\ data' = data /\ i' = i + 1
    BY <1>1 DEF Visit, TypeOK
  <2>2. data[i + 1] \in StatusMessage
    BY <2>1 DEF TypeOK
  <2>3. statusBuff' \in [Scan -> Status \cup {Absent}]
    BY <1>1, <2>2 DEF Visit, TypeOK, StatusMessage
  <2>4. QED
    BY <2>1, <2>3 DEF TypeOK
<1>2. CASE UNCHANGED vars
  BY <1>2 DEF vars, TypeOK
<1>3. QED
  BY <1>1, <1>2

\* A message that is kept stays kept when the next one is about another scan
\* or is not terminal; a message that is the first of its scan or terminal is
\* kept itself.
LEMMA EntryNext == TypeOK /\ EntryInv /\ [Visit]_vars => EntryInv'
<1> SUFFICES ASSUME TypeOK, EntryInv, [Visit]_vars
             PROVE  EntryInv'
  OBVIOUS
<1>1. CASE Visit
  <2> DEFINE new == data[i + 1]
  <2>1. /\ data' = data /\ i' = i + 1 /\ i \in Nat /\ i + 1 \in 1..Len(data)
        /\ statusBuff' = IF Replaces(new.status, statusBuff[new.scan])
                         THEN [statusBuff EXCEPT ![new.scan] = new.status]
                         ELSE statusBuff
    BY <1>1 DEF Visit, TypeOK
  <2>2. new.scan \in Scan /\ new.status \in Status
    <3>1. new \in StatusMessage
      BY <2>1 DEF TypeOK
    <3>2. QED
      BY <3>1 DEF StatusMessage
  <2>3. statusBuff \in [Scan -> Status \cup {Absent}]
    BY DEF TypeOK
  <2>4. SUFFICES ASSUME NEW s \in Scan
                 PROVE  \/ statusBuff'[s] = Absent /\ \A k \in 1..(i + 1) : data[k].scan # s
                        \/ \E k \in 1..(i + 1) : /\ data[k].scan = s
                                                 /\ data[k].status = statusBuff'[s]
                                                 /\ Kept(k, i + 1)
    BY <2>1 DEF EntryInv, Kept
  <2>5. CASE s # new.scan
    <3>1. statusBuff'[s] = statusBuff[s]
      BY <2>1, <2>3, <2>5
    <3>2. CASE \A k \in 1..i : data[k].scan # s
      BY <2>1, <2>5, <3>1, <3>2, AbsentIsNoStatus DEF EntryInv
    <3>3. ASSUME NEW k \in 1..i, data[k].scan = s, Kept(k, i)
          PROVE  Kept(k, i + 1)
      BY <2>1, <2>5, <3>3 DEF Kept
    <3>4. QED
      BY <2>1, <3>1, <3>2, <3>3 DEF EntryInv
  <2>6. CASE s = new.scan
    <3>1. CASE statusBuff[s] = Absent
      <4>1. \A k \in 1..i : data[k].scan # s
        <5>1. SUFFICES ASSUME NEW k \in 1..i, data[k].scan = s
                       PROVE  FALSE
          OBVIOUS
        <5>2. \E l \in 1..i : data[l].status = Absent
          BY <3>1, <5>1 DEF EntryInv
        <5>3. PICK l \in 1..i : data[l].status = Absent
          BY <5>2
        <5>4. data[l] \in StatusMessage
          BY <2>1 DEF TypeOK
        <5>5. QED
          BY <5>3, <5>4, AbsentIsNoStatus DEF StatusMessage
      <4>2. Kept(i + 1, i + 1)
        BY <2>1, <2>6, <4>1 DEF Kept
      <4>3. statusBuff'[s] = new.status
        BY <2>1, <2>3, <2>6, <3>1 DEF Replaces
      <4>4. QED
        BY <2>1, <2>6, <4>2, <4>3
    <3>2. CASE new.status \in Terminal
      <4>1. Kept(i + 1, i + 1)
        BY <2>1, <3>2 DEF Kept
      <4>2. statusBuff'[s] = new.status
        BY <2>1, <2>3, <2>6, <3>2 DEF Replaces
      <4>3. QED
        BY <2>1, <2>6, <4>1, <4>2
    <3>3. CASE statusBuff[s] # Absent /\ new.status \notin Terminal
      <4>1. statusBuff'[s] = statusBuff[s]
        BY <2>1, <2>6, <3>3 DEF Replaces
      <4>2. PICK k \in 1..i : /\ data[k].scan = s
                              /\ data[k].status = statusBuff[s]
                              /\ Kept(k, i)
        BY <3>3 DEF EntryInv
      <4>3. Kept(k, i + 1)
        BY <2>1, <3>3, <4>2 DEF Kept
      <4>4. QED
        BY <2>1, <4>1, <4>2, <4>3
    <3>4. QED
      BY <3>1, <3>2, <3>3
  <2>7. QED
    BY <2>5, <2>6
<1>2. CASE UNCHANGED vars
  BY <1>2 DEF vars, EntryInv, Kept
<1>3. QED
  BY <1>1, <1>2

\* The entries are exactly the rows that StatusesToMaps leaves.
LEMMA EntriesAreRows == TypeOK /\ EntryInv => LoopComputesStatusesToMaps
<1> SUFFICES ASSUME TypeOK, EntryInv
             PROVE  LoopComputesStatusesToMaps
  OBVIOUS
<1> DEFINE prefix == SubSeq(data, 1, i)
<1>1. /\ prefix \in Seq(StatusMessage) /\ Len(prefix) = i
      /\ \A k \in 1..i : prefix[k] = data[k]
  BY DEF TypeOK
<1>2. i \in Nat /\ \A k \in 1..i : data[k] \in StatusMessage
  BY DEF TypeOK
<1> HIDE DEF prefix
<1>3. \A k \in 1..i : Kept(k, i) <=> ~Superseded(prefix, k)
  BY <1>1, <1>2 DEF Kept, Superseded
<1>4. ASSUME NEW e \in Entries
      PROVE  e \in StatusesToMaps(prefix)
  <2>1. PICK s \in Scan : statusBuff[s] # Absent /\ e = [scan |-> s, status |-> statusBuff[s]]
    BY DEF Entries
  <2>2. PICK k \in 1..i : data[k].scan = s /\ data[k].status = statusBuff[s] /\ Kept(k, i)
    BY <2>1 DEF EntryInv
  <2>3. e = prefix[k]
    BY <1>1, <1>2, <2>1, <2>2 DEF StatusMessage
  <2>4. QED
    BY <1>1, <1>3, <2>2, <2>3 DEF StatusesToMaps
<1>5. ASSUME NEW r \in StatusesToMaps(prefix)
      PROVE  r \in Entries
  <2>1. PICK k \in 1..i : r = prefix[k]
    BY <1>1 DEF StatusesToMaps
  <2>2. r \in StatusMessage /\ data[k] = r
    BY <1>1, <1>2, <2>1
  <2>3. PICK s \in Scan : s = r.scan
    BY <2>2 DEF StatusMessage
  <2>4. PICK l \in 1..i : data[l].scan = s /\ data[l].status = statusBuff[s] /\ Kept(l, i)
    BY <2>2, <2>3 DEF EntryInv
  <2>5. prefix[l] \in StatusesToMaps(prefix)
    BY <1>1, <1>3, <2>4 DEF StatusesToMaps
  <2>6. r = prefix[l]
    BY <1>1, <2>3, <2>4, <2>5, OneRowPerScan
  <2>7. statusBuff[s] # Absent
    BY <1>2, <2>4, AbsentIsNoStatus DEF StatusMessage
  <2>8. r = [scan |-> s, status |-> statusBuff[s]]
    BY <1>1, <2>2, <2>3, <2>4, <2>6 DEF StatusMessage
  <2>9. QED
    BY <2>7, <2>8 DEF Entries
<1>6. QED
  BY <1>4, <1>5 DEF LoopComputesStatusesToMaps, prefix

\* Whatever batch of messages the worker reads, in whatever order, the loop of
\* statusesToMaps leaves what StatusesToMaps says.
THEOREM LoopCorrect == Spec => []LoopComputesStatusesToMaps
<1>1. Spec => [](TypeOK /\ EntryInv)
  BY TypeInit, TypeNext, EntryNext, PTL DEF Spec
<1>2. QED
  BY <1>1, EntriesAreRows, PTL

=============================================================================
