------------------------- MODULE ScanStatus_proofs -------------------------
(***************************************************************************)
(* What StatusesToMaps leaves of a batch, for batches of any kind of       *)
(* message.                                                                *)
(***************************************************************************)
EXTENDS ScanStatus, Integers, WellFoundedInduction, TLAPS

\* What is left of a batch of messages is messages of the batch.
LEMMA StatusesToMapsType ==
    ASSUME NEW M, NEW batch \in Seq(M)
    PROVE  StatusesToMaps(batch) \subseteq M
  BY DEF StatusesToMaps

\* statusesToMaps leaves one row per scan.
LEMMA OneRowPerScan ==
    ASSUME NEW M, NEW batch \in Seq(M),
           NEW x \in StatusesToMaps(batch), NEW y \in StatusesToMaps(batch),
           x.scan = y.scan
    PROVE  x = y
<1>1. PICK i \in 1..Len(batch) : x = batch[i] /\ ~Superseded(batch, i)
  BY DEF StatusesToMaps
<1>2. PICK j \in 1..Len(batch) : y = batch[j] /\ ~Superseded(batch, j)
  BY DEF StatusesToMaps
<1>3. ASSUME NEW k \in 1..Len(batch), NEW l \in 1..Len(batch), k < l,
             batch[k].scan = batch[l].scan, ~Superseded(batch, l)
      PROVE  Superseded(batch, k)
  <2>1. batch[l].status \in Terminal
    BY <1>3 DEF Superseded
  <2>2. QED
    BY <1>3, <2>1 DEF Superseded
<1>4. i \in Int /\ j \in Int /\ ~(i < j) /\ ~(j < i)
  BY <1>1, <1>2, <1>3
<1>5. QED
  BY <1>1, <1>2, <1>4

\* A set of positions that is not empty has a last one.
LEMMA LastPosition ==
    ASSUME NEW L \in Nat, NEW S \in SUBSET (1..L), S # {}
    PROVE  \E i \in S : \A j \in S : j <= i
<1> DEFINE T == {L - i : i \in S}
<1>1. ASSUME NEW y \in T PROVE y \in Nat
  <2>1. PICK i \in S : y = L - i
    OBVIOUS
  <2>2. i \in Nat /\ i <= L
    OBVIOUS
  <2>3. QED
    BY <2>1, <2>2
<1>2. T # {}
  OBVIOUS
<1>3. PICK x \in T : \A y \in T : ~(<<y, x>> \in OpToRel(<, Nat))
  <2>1. T \subseteq Nat
    BY <1>1
  <2> HIDE DEF T
  <2>2. QED
    BY <1>2, <2>1, NatLessThanWellFounded, WFMin
<1>4. \A y \in T : ~(y < x)
  BY <1>1, <1>3 DEF OpToRel
<1>5. PICK i \in S : x = L - i
  OBVIOUS
<1>6. ASSUME NEW j \in S PROVE j <= i
  <2>1. L - j \in T
    OBVIOUS
  <2>2. ~(L - j < L - i)
    BY <1>4, <1>5, <2>1
  <2>3. QED
    BY <2>2
<1>7. QED
  BY <1>6

\* A terminal message is not swallowed: its scan has a terminal row.
LEMMA TerminalRow ==
    ASSUME NEW M, NEW batch \in Seq(M), NEW i \in 1..Len(batch),
           batch[i].status \in Terminal
    PROVE  \E m \in StatusesToMaps(batch) :
              m.scan = batch[i].scan /\ m.status \in Terminal
<1> DEFINE S == {k \in 1..Len(batch) : /\ batch[k].scan = batch[i].scan
                                       /\ batch[k].status \in Terminal}
<1>1. Len(batch) \in Nat /\ S \in SUBSET (1..Len(batch)) /\ S # {}
  OBVIOUS
<1>2. PICK k \in S : \A j \in S : j <= k
  <2> HIDE DEF S
  <2>1. QED
    BY <1>1, LastPosition
<1>3. ~Superseded(batch, k)
  BY <1>1, <1>2 DEF Superseded
<1>4. batch[k] \in StatusesToMaps(batch)
  BY <1>3 DEF StatusesToMaps
<1>5. QED
  BY <1>4

=============================================================================
