----------------------------- MODULE AgentProofs -----------------------------
(***************************************************************************)
(* Proofs about Agent: any batch size and spool limits, any number of      *)
(* batches, failures, crashes and clock steps.                             *)
(***************************************************************************)
EXTENDS Agent, SequenceTheorems, FiniteSetTheorems, TLAPS

USE AgentAssumption

-----------------------------------------------------------------------------
(* Sequences of rows. *)

(* A nonempty set of natural numbers has a least member. *)
LEMMA LeastNat == ASSUME NEW T \in SUBSET Nat, T # {} PROVE \E x \in T : \A y \in T : x <= y
<1>1. PICK x \in T : \A y \in T : ~(<<y, x>> \in OpToRel(<, Nat))
  BY WFMin, NatLessThanWellFounded, Zenon
<1>2. \A y \in T : ~(y < x)
  BY <1>1 DEF OpToRel
<1>3. QED
  BY <1>2

(* What is left when the first n rows are gone. *)
LEMMA NewerRows ==
  ASSUME NEW S, NEW rows \in Seq(S), NEW n \in 0 .. Len(rows)
  PROVE  /\ Newer(rows, n) \in Seq(S)
         /\ Len(Newer(rows, n)) = Len(rows) - n
         /\ \A i \in 1 .. Len(rows) - n : Newer(rows, n)[i] = rows[n + i]
<1>1. Len(rows) \in Nat /\ \A i \in n + 1 .. Len(rows) : rows[i] \in S
  BY LenProperties
<1> DEFINE t == SubSeq(rows, n + 1, Len(rows))
<1>2. /\ t \in Seq(S)
      /\ Len(t) = IF n + 1 <= Len(rows) THEN Len(rows) - (n + 1) + 1 ELSE 0
      /\ \A i \in 1 .. Len(rows) - (n + 1) + 1 : t[i] = rows[n + 1 + i - 1]
  BY <1>1, SubSeqProperties
<1> HIDE DEF t
<1>3. Len(t) = Len(rows) - n
  BY <1>1, <1>2
<1>4. \A i \in 1 .. Len(rows) - n : t[i] = rows[n + i]
  BY <1>1, <1>2
<1>5. QED
  BY <1>2, <1>3, <1>4, Zenon DEF Newer, t

(* A row put in at a place moves the later ones up. *)
LEMMA InsertRow ==
  ASSUME NEW S, NEW rows \in Seq(S), NEW at \in 1 .. Len(rows) + 1, NEW row \in S
  PROVE  /\ InsertAt(rows, at, row) \in Seq(S)
         /\ Len(InsertAt(rows, at, row)) = Len(rows) + 1
         /\ \A i \in 1 .. Len(rows) + 1 :
              InsertAt(rows, at, row)[i] =
                IF i < at THEN rows[i] ELSE IF i = at THEN row ELSE rows[i - 1]
<1> DEFINE front == SubSeq(rows, 1, at - 1)
           back == SubSeq(rows, at, Len(rows))
<1>0. Len(rows) \in Nat /\ \A i \in 1 .. Len(rows) : rows[i] \in S
  BY LenProperties
<1>1. /\ front \in Seq(S) /\ Len(front) = at - 1
      /\ \A i \in 1 .. at - 1 : front[i] = rows[i]
  BY <1>0, SubSeqProperties
<1>2. /\ back \in Seq(S) /\ Len(back) = Len(rows) - at + 1
      /\ \A i \in 1 .. Len(rows) - at + 1 : back[i] = rows[at + i - 1]
  BY <1>0, SubSeqProperties
<1>3. <<row>> \in Seq(S) /\ Len(<<row>>) = 1 /\ <<row>>[1] = row
  OBVIOUS
<1> DEFINE one == <<row>>
           init == front \o one
           all == init \o back
<1> HIDE DEF front, back, one
<1>4. /\ init \in Seq(S) /\ Len(init) = Len(front) + Len(one)
      /\ \A i \in 1 .. Len(front) + Len(one) :
           init[i] = IF i <= Len(front) THEN front[i] ELSE one[i - Len(front)]
  BY <1>1, <1>3, ConcatProperties DEF one
<1> HIDE DEF init
<1>5. /\ all \in Seq(S) /\ Len(all) = Len(init) + Len(back)
      /\ \A i \in 1 .. Len(init) + Len(back) :
           all[i] = IF i <= Len(init) THEN init[i] ELSE back[i - Len(init)]
  <2>1. init \in Seq(S) /\ back \in Seq(S)
    BY <1>2, <1>4
  <2>2. QED
    BY <2>1, ConcatProperties, Zenon
<1> HIDE DEF all
<1>6. Len(one) = 1 /\ one[1] = row
  BY <1>3 DEF one
<1>7. Len(init) = at /\ Len(all) = Len(rows) + 1
  BY <1>0, <1>1, <1>2, <1>4, <1>5, <1>6
<1>8. ASSUME NEW i \in 1 .. Len(rows) + 1
      PROVE  all[i] = IF i < at THEN rows[i] ELSE IF i = at THEN row ELSE rows[i - 1]
  <2>1. CASE i < at
    BY <1>0, <1>1, <1>2, <1>4, <1>5, <1>6, <1>7, <2>1
  <2>2. CASE i = at
    <3>1. all[i] = init[i] /\ init[i] = one[i - Len(front)] /\ i - Len(front) = 1
      BY <1>0, <1>1, <1>2, <1>4, <1>5, <1>6, <1>7, <2>2
    <3>2. QED
      BY <1>6, <2>2, <3>1
  <2>3. CASE i > at
    <3>1. all[i] = back[i - at]
      BY <1>0, <1>2, <1>5, <1>7, <2>3
    <3>2. i - at \in 1 .. Len(rows) - at + 1 /\ at + (i - at) - 1 = i - 1
      BY <1>0, <2>3
    <3>3. back[i - at] = rows[i - 1]
      BY <1>2, <3>2
    <3>4. QED
      BY <2>3, <3>1, <3>3
  <2>4. QED
    BY <1>0, <2>1, <2>2, <2>3
<1>9. InsertAt(rows, at, row) = all
  BY DEF InsertAt, all, init, front, back, one
<1>10. QED
  BY <1>5, <1>7, <1>8, <1>9, Zenon

(* A row taken out moves the later ones down. *)
LEMMA RemoveRow ==
  ASSUME NEW S, NEW rows \in Seq(S), NEW k \in 1 .. Len(rows)
  PROVE  /\ RemoveAt(rows, k) \in Seq(S)
         /\ Len(RemoveAt(rows, k)) = Len(rows) - 1
         /\ \A i \in 1 .. Len(rows) - 1 :
              RemoveAt(rows, k)[i] = IF i < k THEN rows[i] ELSE rows[i + 1]
<1> DEFINE front == SubSeq(rows, 1, k - 1)
           back == SubSeq(rows, k + 1, Len(rows))
           all == front \o back
<1>0. Len(rows) \in Nat /\ \A i \in 1 .. Len(rows) : rows[i] \in S
  BY LenProperties
<1>1. /\ front \in Seq(S) /\ Len(front) = k - 1
      /\ \A i \in 1 .. k - 1 : front[i] = rows[i]
  BY <1>0, SubSeqProperties
<1>2. /\ back \in Seq(S) /\ Len(back) = Len(rows) - k
      /\ \A i \in 1 .. Len(rows) - k : back[i] = rows[k + i]
  <2>1. /\ back \in Seq(S)
        /\ Len(back) = IF k + 1 <= Len(rows) THEN Len(rows) - (k + 1) + 1 ELSE 0
        /\ \A i \in 1 .. Len(rows) - (k + 1) + 1 : back[i] = rows[k + 1 + i - 1]
    BY <1>0, SubSeqProperties
  <2> HIDE DEF back
  <2>2. QED
    BY <1>0, <2>1
<1> HIDE DEF front, back
<1>3. /\ all \in Seq(S) /\ Len(all) = Len(front) + Len(back)
      /\ \A i \in 1 .. Len(front) + Len(back) :
           all[i] = IF i <= Len(front) THEN front[i] ELSE back[i - Len(front)]
  BY <1>1, <1>2, ConcatProperties
<1> HIDE DEF all
<1>4. Len(all) = Len(rows) - 1
  BY <1>0, <1>1, <1>2, <1>3
<1>5. ASSUME NEW i \in 1 .. Len(rows) - 1
      PROVE  all[i] = IF i < k THEN rows[i] ELSE rows[i + 1]
  <2>0. i \in 1 .. Len(front) + Len(back) /\ (i <= Len(front) <=> i < k)
    BY <1>0, <1>1, <1>2
  <2>a. all[i] = IF i < k THEN front[i] ELSE back[i - (k - 1)]
    BY <1>1, <1>3, <2>0
  <2>1. CASE i < k
    <3>1. i \in 1 .. k - 1
      BY <2>1
    <3>2. QED
      BY <1>1, <2>a, <2>1, <3>1
  <2>2. CASE i >= k
    <3>1. all[i] = back[i - (k - 1)]
      BY <2>a, <2>2
    <3>2. i - (k - 1) \in 1 .. Len(rows) - k /\ k + (i - (k - 1)) = i + 1
      BY <1>0, <2>2
    <3>3. back[i - (k - 1)] = rows[i + 1]
      BY <1>2, <3>2
    <3>4. QED
      BY <2>2, <3>1, <3>3
  <2>3. QED
    BY <1>0, <2>1, <2>2
<1>6. RemoveAt(rows, k) = all
  BY DEF RemoveAt, all, front, back
<1>7. QED
  BY <1>3, <1>4, <1>5, <1>6, Zenon

-----------------------------------------------------------------------------
(* The bytes of the rows. *)

LEMMA SamplesFinite ==
  ASSUME NEW rows \in Seq(Row)
  PROVE  IsFiniteSet(SamplesOf(rows)) /\ TotalBytes(rows) \in Nat
<1>1. SamplesOf(rows) \subseteq BatchIds \X (1 .. BatchSize)
  <2>1. \A i \in DOMAIN rows : rows[i] \in Row
    OBVIOUS
  <2>2. \A i \in DOMAIN rows : rows[i].id \in BatchIds /\ rows[i].bytes \in 1 .. BatchSize
    BY <2>1 DEF Row
  <2>3. \A i \in DOMAIN rows : 1 .. rows[i].bytes \subseteq 1 .. BatchSize
    BY <2>2
  <2>4. \A i \in DOMAIN rows :
          {rows[i].id} \X (1 .. rows[i].bytes) \subseteq BatchIds \X (1 .. BatchSize)
    BY <2>2, <2>3
  <2>5. QED
    BY <2>4, Zenon DEF SamplesOf
<1>2. IsFiniteSet(BatchIds) /\ IsFiniteSet(1 .. BatchSize)
  BY FS_Interval DEF BatchIds
<1>3. IsFiniteSet(BatchIds \X (1 .. BatchSize))
  BY <1>2, FS_Product
<1>4. IsFiniteSet(SamplesOf(rows))
  BY <1>1, <1>3, FS_Subset
<1>5. QED
  BY <1>4, FS_CardinalityType DEF TotalBytes

(* Rows that all appear elsewhere have no more bytes. *)
LEMMA SamplesSubset ==
  ASSUME NEW a \in Seq(Row), NEW b \in Seq(Row),
         \A i \in DOMAIN a : \E j \in DOMAIN b : a[i].id = b[j].id /\ a[i].bytes = b[j].bytes
  PROVE  SamplesOf(a) \subseteq SamplesOf(b) /\ TotalBytes(a) <= TotalBytes(b)
<1>1. SamplesOf(a) \subseteq SamplesOf(b)
  BY DEF SamplesOf
<1>2. QED
  BY <1>1, SamplesFinite, FS_Subset DEF TotalBytes

LEMMA EmptyFits == ASSUME NEW rows \in Seq(Row), Len(rows) = 0 PROVE Fits(rows)
<1>1. DOMAIN rows = {}
  BY LenProperties
<1>2. SamplesOf(rows) = {}
  BY <1>1 DEF SamplesOf
<1>3. TotalBytes(rows) = 0
  BY <1>2, FS_EmptySet DEF TotalBytes
<1>4. QED
  BY <1>3 DEF Fits

(* enqueue deletes until the rest fits, and not one row more. *)
LEMMA DroppedRows ==
  ASSUME NEW rows \in Seq(Row)
  PROVE  /\ Dropped(rows) \in 0 .. Len(rows)
         /\ Fits(Newer(rows, Dropped(rows)))
         /\ \A i \in 0 .. Dropped(rows) - 1 : ~Fits(Newer(rows, i))
<1> DEFINE T == {n \in 0 .. Len(rows) : Fits(Newer(rows, n))}
<1>0. Len(rows) \in Nat
  BY LenProperties
<1>1. Len(rows) \in T
  <2>1. Len(rows) \in 0 .. Len(rows)
    BY <1>0
  <2>2. Newer(rows, Len(rows)) \in Seq(Row) /\ Len(Newer(rows, Len(rows))) = Len(rows) - Len(rows)
    BY <2>1, NewerRows
  <2>3. Len(Newer(rows, Len(rows))) = 0
    BY <1>0, <2>2
  <2>4. QED
    BY <2>1, <2>2, <2>3, EmptyFits
<1>2. T \in SUBSET Nat
  BY <1>0
<1>3. PICK n \in T : \A m \in T : n <= m
  BY <1>1, <1>2, LeastNat, Zenon
<1>4. n \in 0 .. Len(rows) /\ Fits(Newer(rows, n))
  OBVIOUS
<1>5. \A i \in 0 .. n - 1 : ~Fits(Newer(rows, i))
  <2>1. SUFFICES ASSUME NEW i \in 0 .. n - 1, Fits(Newer(rows, i)) PROVE FALSE
    OBVIOUS
  <2>2. i \in 0 .. Len(rows) /\ i < n
    BY <1>0, <1>4
  <2>3. n <= i
    BY <1>3, <2>1, <2>2
  <2>4. QED
    BY <1>4, <2>2, <2>3
<1>6. QED
  BY <1>4, <1>5, Zenon DEF Dropped

(* One row more adds at most a full batch. *)
LEMMA OneRowMore ==
  ASSUME NEW rows \in Seq(Row), NEW k \in 1 .. Len(rows)
  PROVE  TotalBytes(Newer(rows, k - 1)) <= TotalBytes(Newer(rows, k)) + BatchSize
<1>0. Len(rows) \in Nat /\ rows[k] \in Row
  BY LenProperties
<1>1. rows[k].id \in BatchIds /\ rows[k].bytes \in 1 .. BatchSize
  BY <1>0 DEF Row
<1> DEFINE a == Newer(rows, k - 1)
           b == Newer(rows, k)
           extra == {rows[k].id} \X (1 .. rows[k].bytes)
<1>2. k - 1 \in 0 .. Len(rows) /\ k \in 0 .. Len(rows)
  BY <1>0
<1>3. /\ a \in Seq(Row) /\ Len(a) = Len(rows) - (k - 1)
      /\ \A i \in 1 .. Len(rows) - (k - 1) : a[i] = rows[k - 1 + i]
  BY <1>2, NewerRows, Zenon
<1>4. /\ b \in Seq(Row) /\ Len(b) = Len(rows) - k
      /\ \A i \in 1 .. Len(rows) - k : b[i] = rows[k + i]
  BY <1>2, NewerRows, Zenon
<1> HIDE DEF a, b
<1>5. \A i \in DOMAIN a : a[i] = rows[k] \/ \E j \in DOMAIN b : a[i] = b[j]
  <2>1. SUFFICES ASSUME NEW i \in DOMAIN a, i # 1
                 PROVE  a[i] = rows[k] \/ \E j \in DOMAIN b : a[i] = b[j]
    <3>1. Len(rows) - (k - 1) >= 1
      BY <1>0
    <3>2. a[1] = rows[k]
      BY <1>3, <3>1, <1>0
    <3>3. QED
      BY <3>2
  <2>2. i \in 1 .. Len(rows) - (k - 1)
    BY <1>3, LenProperties
  <2>3. i - 1 \in 1 .. Len(rows) - k /\ k + (i - 1) = k - 1 + i
    BY <1>0, <2>1, <2>2
  <2>4. a[i] = b[i - 1] /\ i - 1 \in DOMAIN b
    BY <1>3, <1>4, <2>2, <2>3, LenProperties
  <2>5. QED
    BY <2>4
<1>6. SamplesOf(a) \subseteq SamplesOf(b) \cup extra
  BY <1>5 DEF SamplesOf
<1>7. IsFiniteSet(extra) /\ Cardinality(extra) = rows[k].bytes
  <2>1. IsFiniteSet({rows[k].id}) /\ Cardinality({rows[k].id}) = 1
    BY FS_Singleton
  <2>2. IsFiniteSet(1 .. rows[k].bytes) /\ Cardinality(1 .. rows[k].bytes) = rows[k].bytes
    <3>1. 1 \in Int /\ rows[k].bytes \in Int /\ ~(1 > rows[k].bytes)
      BY <1>1
    <3>2. /\ IsFiniteSet(1 .. rows[k].bytes)
          /\ Cardinality(1 .. rows[k].bytes)
               = IF 1 > rows[k].bytes THEN 0 ELSE rows[k].bytes - 1 + 1
      BY <3>1, FS_Interval, Zenon
    <3>3. QED
      BY <3>1, <3>2
  <2>3. IsFiniteSet(extra) /\ Cardinality(extra) = 1 * rows[k].bytes
    BY <2>1, <2>2, FS_Product
  <2>4. QED
    BY <1>1, <2>3
<1> HIDE DEF extra
<1>8. /\ IsFiniteSet(SamplesOf(b)) /\ Cardinality(SamplesOf(b)) \in Nat
      /\ IsFiniteSet(SamplesOf(a)) /\ Cardinality(SamplesOf(a)) \in Nat
  BY <1>3, <1>4, SamplesFinite DEF TotalBytes
<1>9. /\ IsFiniteSet(SamplesOf(b) \cup extra)
      /\ Cardinality(SamplesOf(b) \cup extra)
           = Cardinality(SamplesOf(b)) + Cardinality(extra) - Cardinality(SamplesOf(b) \cap extra)
  BY <1>7, <1>8, FS_Union
<1>10. Cardinality(SamplesOf(b) \cap extra) \in Nat
  BY <1>8, FS_Intersection, FS_CardinalityType
<1>11. Cardinality(SamplesOf(a)) <= Cardinality(SamplesOf(b) \cup extra)
  BY <1>6, <1>9, FS_Subset
<1>12. TotalBytes(a) <= TotalBytes(b) + BatchSize
  BY <1>1, <1>7, <1>8, <1>9, <1>10, <1>11 DEF TotalBytes
<1>13. QED
  BY <1>12 DEF a, b

-----------------------------------------------------------------------------
(* enqueue keeps every part of the invariant, and gives up the oldest rows *)
(* only.                                                                   *)
LEMMA EnqueueKeeps ==
  ASSUME AgentInv, NEW bytes \in 1 .. BatchSize, created < MaxCreated, Enqueue(bytes)
  PROVE  /\ spool' \in Seq(Row)
         /\ delayed' \subseteq Ids(spool')
         /\ created' = created + 1 /\ created' \in 0 .. MaxCreated
         /\ evicted \subseteq evicted' /\ evicted' \subseteq 1 .. created'
         /\ clockSteps' \in 0 .. MaxClockSteps
         /\ SpoolInv'
         /\ Fits(spool')
         /\ 1 .. created' \subseteq Ids(spool') \cup accepted \cup evicted'
         /\ \A i, j \in DOMAIN spool' : spool'[i].id = spool'[j].id => i = j
         /\ \A b \in evicted' \ evicted :
              /\ clockSteps' = 0 => \A c \in Ids(spool') : b < c
              /\ Len(spool') + 1 > MaxSpoolBatches
                   \/ TotalBytes(spool') + BatchSize > MaxSpoolBytes
<1> DEFINE row == [id |-> created + 1, bytes |-> bytes, attempts |-> 0]
           n == Len(spool)
<1>1. /\ spool \in Seq(Row) /\ created \in 0 .. MaxCreated /\ clockSteps \in 0 .. MaxClockSteps
      /\ evicted \subseteq 1 .. created /\ delayed \subseteq Ids(spool)
      /\ Ids(spool) \subseteq 1 .. created
      /\ 1 .. created \subseteq Ids(spool) \cup accepted \cup evicted
  BY DEF AgentInv, TypeOK, SpoolInv, NoSilentLoss
<1>2. n \in Nat /\ DOMAIN spool = 1 .. n
  BY <1>1, LenProperties
<1>3. row \in Row
  <2>1. created + 1 \in BatchIds
    BY <1>1 DEF BatchIds
  <2>2. QED
    BY <2>1 DEF Row
<1>4. PICK at \in 1 .. n + 1 :
        /\ \/ at = n + 1 /\ UNCHANGED clockSteps
           \/ /\ at <= n /\ clockSteps < MaxClockSteps
              /\ clockSteps' = clockSteps + 1
        /\ LET rows == InsertAt(spool, at, row)
               kept == Evict(rows) IN
            /\ spool' = kept
            /\ evicted' = evicted \cup (Ids(rows) \ Ids(kept))
            /\ delayed' = delayed \cap Ids(kept)
        /\ created' = created + 1
  BY Zenon DEF Enqueue
<1> DEFINE rows == InsertAt(spool, at, row)
           k == Dropped(rows)
           kept == Newer(rows, k)
<1>5. /\ rows \in Seq(Row) /\ Len(rows) = n + 1
      /\ \A i \in 1 .. n + 1 :
           rows[i] = IF i < at THEN spool[i] ELSE IF i = at THEN row ELSE spool[i - 1]
  <2> HIDE DEF row
  <2>1. at \in 1 .. Len(spool) + 1
    OBVIOUS
  <2>2. QED
    BY <1>1, <1>3, <2>1, InsertRow
<1>6. /\ spool' = kept /\ evicted' = evicted \cup (Ids(rows) \ Ids(kept))
      /\ delayed' = delayed \cap Ids(kept)
      /\ created' = created + 1
  BY <1>4, Zenon DEF Evict
<1>7. clockSteps' \in 0 .. MaxClockSteps /\ (clockSteps' = 0 => clockSteps = 0 /\ at = n + 1)
  BY <1>1, <1>4
<1>8. row.id = created + 1
  OBVIOUS
<1> HIDE DEF row
<1>9. DOMAIN rows = 1 .. n + 1
  BY <1>2, <1>5, LenProperties
<1>10. /\ k \in 0 .. n + 1 /\ Fits(kept)
       /\ \A i \in 0 .. k - 1 : ~Fits(Newer(rows, i))
  BY <1>5, DroppedRows, Zenon
<1> HIDE DEF rows, k
<1>11. /\ kept \in Seq(Row) /\ Len(kept) = n + 1 - k
       /\ \A i \in 1 .. n + 1 - k : kept[i] = rows[k + i]
  <2>1. k \in 0 .. Len(rows)
    BY <1>5, <1>10
  <2>2. /\ kept \in Seq(Row) /\ Len(kept) = Len(rows) - k
        /\ \A i \in 1 .. Len(rows) - k : kept[i] = rows[k + i]
    <3>1. rows \in Seq(Row)
      BY <1>5
    <3>2. QED
      BY <2>1, <3>1, NewerRows, Zenon
  <2> HIDE DEF kept
  <2>3. QED
    BY <1>2, <1>5, <1>10, <2>2
<1> HIDE DEF kept
<1>12. DOMAIN kept = 1 .. n + 1 - k
  BY <1>2, <1>10, <1>11, LenProperties
<1>13. \A i \in 1 .. n : spool[i].id \in 1 .. created
  BY <1>1, <1>2 DEF Ids
<1>14. \A i \in 1 .. n : \E j \in 1 .. n + 1 : rows[j] = spool[i]
  <2>1. TAKE i \in 1 .. n
  <2>2. CASE i < at
    BY <1>2, <1>5, <2>2
  <2>3. CASE i >= at
    <3>1. i + 1 \in 1 .. n + 1 /\ ~(i + 1 < at) /\ i + 1 # at /\ i + 1 - 1 = i
      BY <1>2, <2>3
    <3>2. rows[i + 1] = spool[i]
      BY <1>5, <3>1
    <3>3. QED
      BY <3>1, <3>2
  <2>4. QED
    BY <1>2, <2>2, <2>3
<1>15. rows[at] = row
  BY <1>2, <1>5
<1>16. \A i \in 1 .. n + 1 : i # at =>
         \E j \in 1 .. n : rows[i] = spool[j] /\ j = (IF i < at THEN i ELSE i - 1)
  <2>1. SUFFICES ASSUME NEW i \in 1 .. n + 1, i # at
                 PROVE  \E j \in 1 .. n : rows[i] = spool[j] /\ j = (IF i < at THEN i ELSE i - 1)
    OBVIOUS
  <2>2. CASE i < at
    <3>1. i \in 1 .. n
      BY <1>2, <2>2
    <3>2. QED
      BY <1>5, <2>2, <3>1
  <2>3. CASE i > at
    <3>1. i - 1 \in 1 .. n /\ ~(i < at)
      BY <1>2, <2>3
    <3>2. QED
      BY <1>5, <2>1, <3>1
  <2>4. QED
    BY <1>2, <2>1, <2>2, <2>3
<1>17. Ids(rows) = Ids(spool) \cup {created + 1}
  <2>1. Ids(rows) \subseteq Ids(spool) \cup {created + 1}
    BY <1>2, <1>8, <1>9, <1>15, <1>16 DEF Ids
  <2>2. Ids(spool) \subseteq Ids(rows)
    BY <1>2, <1>9, <1>14 DEF Ids
  <2>3. created + 1 \in Ids(rows)
    <3>1. at \in DOMAIN rows /\ rows[at].id = created + 1
      BY <1>8, <1>9, <1>15
    <3>2. QED
      BY <3>1 DEF Ids
  <2>4. QED
    BY <2>1, <2>2, <2>3
<1>18. Ids(rows) \subseteq 1 .. created'
  BY <1>1, <1>6, <1>17
<1>19. \A i, j \in 1 .. n + 1 : rows[i].id = rows[j].id => i = j
  <2>1. \A i, j \in 1 .. n : spool[i].id = spool[j].id => i = j
    BY <1>2 DEF AgentInv, PendingInv
  <2>2. \A i \in 1 .. n + 1 : i # at => rows[i].id \in 1 .. created
    BY <1>13, <1>16
  <2>3. SUFFICES ASSUME NEW i \in 1 .. n + 1, NEW j \in 1 .. n + 1, rows[i].id = rows[j].id
                 PROVE  i = j
    OBVIOUS
  <2>4. rows[at].id = created + 1 /\ created + 1 \notin 1 .. created
    BY <1>1, <1>8, <1>15
  <2>5. CASE i = at \/ j = at
    BY <2>2, <2>3, <2>4, <2>5
  <2>6. CASE i # at /\ j # at
    <3>1. PICK p \in 1 .. n : rows[i] = spool[p] /\ p = (IF i < at THEN i ELSE i - 1)
      BY <1>16, <2>6
    <3>2. PICK q \in 1 .. n : rows[j] = spool[q] /\ q = (IF j < at THEN j ELSE j - 1)
      BY <1>16, <2>6
    <3>3. p = q
      BY <2>1, <2>3, <3>1, <3>2
    <3>4. QED
      BY <2>6, <3>1, <3>2, <3>3
  <2>7. QED
    BY <2>5, <2>6
<1>20. clockSteps' = 0 => \A i, j \in 1 .. n + 1 : i < j => rows[i].id < rows[j].id
  <2>1. SUFFICES ASSUME clockSteps' = 0, NEW i \in 1 .. n + 1, NEW j \in 1 .. n + 1, i < j
                 PROVE  rows[i].id < rows[j].id
    OBVIOUS
  <2>2. at = n + 1 /\ \A x, y \in 1 .. n : x < y => spool[x].id < spool[y].id
    BY <1>2, <1>7, <2>1 DEF AgentInv, SpoolInv
  <2>3. i \in 1 .. n /\ i < at
    BY <1>2, <2>1, <2>2
  <2>4. rows[i] = spool[i]
    BY <1>5, <2>3
  <2>5. CASE j = at
    <3>1. rows[j].id = created + 1 /\ rows[i].id \in 1 .. created
      BY <1>8, <1>13, <1>15, <2>3, <2>4, <2>5
    <3>2. QED
      BY <1>1, <3>1
  <2>6. CASE j # at
    <3>1. j \in 1 .. n /\ j < at
      BY <1>2, <2>2, <2>6
    <3>2. rows[j] = spool[j]
      BY <1>5, <3>1
    <3>3. QED
      BY <2>1, <2>2, <2>3, <2>4, <3>1, <3>2
  <2>7. QED
    BY <2>5, <2>6
<1>21. \A i \in 1 .. n + 1 - k : k + i \in 1 .. n + 1
  BY <1>2, <1>10
<1>22. Ids(kept) \subseteq Ids(rows)
  BY <1>9, <1>11, <1>12, <1>21 DEF Ids
<1>23. \A i \in k + 1 .. n + 1 : rows[i].id \in Ids(kept)
  <2>1. TAKE i \in k + 1 .. n + 1
  <2>2. i - k \in 1 .. n + 1 - k /\ k + (i - k) = i
    BY <1>2, <1>10
  <2>3. kept[i - k] = rows[i] /\ i - k \in DOMAIN kept
    BY <1>11, <1>12, <2>2
  <2>4. QED
    BY <2>3 DEF Ids
<1>24. SpoolInv'
  <2>1. Ids(kept) \subseteq 1 .. created'
    BY <1>18, <1>22
  <2>2. ASSUME clockSteps' = 0, NEW i \in 1 .. n + 1 - k, NEW j \in 1 .. n + 1 - k, i < j
        PROVE  kept[i].id < kept[j].id
    <3>1. k + i \in 1 .. n + 1 /\ k + j \in 1 .. n + 1 /\ k + i < k + j
      BY <1>10, <1>21, <2>2
    <3>2. rows[k + i].id < rows[k + j].id
      BY <1>20, <2>2, <3>1
    <3>3. QED
      BY <1>11, <3>2
  <2>3. QED
    BY <1>6, <1>12, <2>1, <2>2, Zenon DEF SpoolInv, Ids
<1>25. \A i, j \in DOMAIN kept : kept[i].id = kept[j].id => i = j
  <2>1. SUFFICES ASSUME NEW i \in 1 .. n + 1 - k, NEW j \in 1 .. n + 1 - k, kept[i].id = kept[j].id
                 PROVE  i = j
    BY <1>12
  <2>2. rows[k + i].id = rows[k + j].id
    BY <1>11, <2>1
  <2>3. k + i = k + j
    BY <1>19, <1>21, <2>2
  <2>4. QED
    BY <1>10, <2>3
<1>26. ASSUME NEW b \in evicted' \ evicted
       PROVE  /\ clockSteps' = 0 => \A c \in Ids(kept) : b < c
              /\ Len(kept) + 1 > MaxSpoolBatches
                   \/ TotalBytes(kept) + BatchSize > MaxSpoolBytes
  <2>1. b \in Ids(rows) /\ b \notin Ids(kept)
    BY <1>6
  <2>2. PICK i \in 1 .. n + 1 : b = rows[i].id
    BY <1>9, <2>1 DEF Ids
  <2>3. i <= k
    <3>1. i \notin k + 1 .. n + 1
      BY <1>23, <2>1, <2>2
    <3>2. QED
      BY <1>10, <3>1
  <2>4. ASSUME clockSteps' = 0, NEW c \in Ids(kept) PROVE b < c
    <3>1. PICK j \in 1 .. n + 1 - k : c = kept[j].id
      BY <1>12 DEF Ids
    <3>2. i < k + j /\ k + j \in 1 .. n + 1
      BY <1>10, <1>21, <2>3
    <3>3. rows[i].id < rows[k + j].id
      BY <1>20, <2>4, <3>2
    <3>4. QED
      BY <1>11, <2>2, <3>1, <3>3
  <2>5. k - 1 \in 0 .. k - 1 /\ k \in 1 .. n + 1 /\ k - 1 \in 0 .. n + 1
    BY <1>2, <1>10, <2>3
  <2>6. ~Fits(Newer(rows, k - 1))
    BY <1>10, <2>5
  <2>7. Newer(rows, k - 1) \in Seq(Row) /\ Len(Newer(rows, k - 1)) = n + 1 - (k - 1)
    <3>1. k - 1 \in 0 .. Len(rows)
      BY <1>5, <2>5
    <3>2. Newer(rows, k - 1) \in Seq(Row) /\ Len(Newer(rows, k - 1)) = Len(rows) - (k - 1)
      BY <1>5, <3>1, NewerRows, Zenon
    <3>3. QED
      BY <1>2, <1>5, <2>5, <3>2
  <2>8. TotalBytes(Newer(rows, k - 1)) <= TotalBytes(kept) + BatchSize
    BY <1>5, <2>5, OneRowMore, Zenon DEF kept
  <2>9. TotalBytes(Newer(rows, k - 1)) \in Nat /\ TotalBytes(kept) \in Nat
    BY <1>11, <2>7, SamplesFinite, Zenon
  <2>10. Len(Newer(rows, k - 1)) = Len(kept) + 1
    BY <1>2, <1>10, <1>11, <2>7
  <2>11. Len(kept) + 1 > MaxSpoolBatches \/ TotalBytes(kept) + BatchSize > MaxSpoolBytes
    <3>1. Len(kept) \in Nat
      BY <1>11, LenProperties
    <3>2. CASE ~(Len(Newer(rows, k - 1)) <= MaxSpoolBatches)
      BY <2>10, <3>1, <3>2
    <3>3. CASE ~(TotalBytes(Newer(rows, k - 1)) <= MaxSpoolBytes)
      BY <2>8, <2>9, <3>3
    <3>4. QED
      BY <2>6, <3>2, <3>3 DEF Fits
  <2>12. QED
    BY <2>4, <2>11
<1>27. evicted \subseteq evicted' /\ evicted' \subseteq 1 .. created'
  <2>1. evicted \subseteq 1 .. created'
    BY <1>1, <1>6
  <2>2. QED
    BY <1>6, <1>18, <2>1
<1>28. 1 .. created' \subseteq Ids(kept) \cup accepted \cup evicted'
  <2>1. 1 .. created' = 1 .. created \cup {created + 1}
    BY <1>1, <1>6
  <2>2. Ids(rows) \subseteq Ids(kept) \cup evicted'
    BY <1>6
  <2>3. QED
    BY <1>1, <1>17, <1>27, <2>1, <2>2
<1>29. delayed' \subseteq Ids(kept) /\ created' \in 0 .. MaxCreated
  BY <1>1, <1>6
<1>30. QED
  BY <1>6, <1>7, <1>10, <1>11, <1>24, <1>25, <1>26, <1>27, <1>28, <1>29, Zenon

(* mark_sent deletes the row of the batch and leaves the others as they    *)
(* are.                                                                    *)
LEMMA WithoutRow ==
  ASSUME NEW rows \in Seq(Row), NEW b,
         \A i, j \in DOMAIN rows : rows[i].id = rows[j].id => i = j
  PROVE  /\ Without(rows, b) \in Seq(Row)
         /\ Ids(Without(rows, b)) = Ids(rows) \ {b}
         /\ \A i, j \in DOMAIN Without(rows, b) :
              Without(rows, b)[i].id = Without(rows, b)[j].id => i = j
         /\ (\A i, j \in DOMAIN rows : i < j => rows[i].id < rows[j].id) =>
              \A i, j \in DOMAIN Without(rows, b) :
                i < j => Without(rows, b)[i].id < Without(rows, b)[j].id
         /\ Fits(rows) => Fits(Without(rows, b))
<1>1. CASE b \notin Ids(rows)
  <2>1. Without(rows, b) = rows /\ Ids(rows) = Ids(rows) \ {b}
    BY <1>1 DEF Without
  <2>2. QED
    BY <2>1
<1>2. CASE b \in Ids(rows)
  <2> DEFINE k == CHOOSE i \in DOMAIN rows : rows[i].id = b
             rest == RemoveAt(rows, k)
             n == Len(rows)
             at(i) == IF i < k THEN i ELSE i + 1
  <2>1. Without(rows, b) = rest
    BY <1>2 DEF Without
  <2>2. n \in Nat /\ DOMAIN rows = 1 .. n
    BY LenProperties
  <2>3. k \in 1 .. n /\ rows[k].id = b
    BY <1>2, <2>2 DEF Ids
  <2> HIDE DEF k
  <2>4. /\ rest \in Seq(Row) /\ Len(rest) = n - 1
        /\ \A i \in 1 .. n - 1 : rest[i] = IF i < k THEN rows[i] ELSE rows[i + 1]
    BY <2>3, RemoveRow
  <2> HIDE DEF rest
  <2>5. DOMAIN rest = 1 .. n - 1
    BY <2>2, <2>3, <2>4, LenProperties
  <2>6. \A i \in 1 .. n - 1 : rest[i] = rows[at(i)] /\ at(i) \in 1 .. n /\ at(i) # k
    BY <2>2, <2>3, <2>4
  <2>7. \A i, j \in 1 .. n - 1 : (i < j => at(i) < at(j)) /\ (at(i) = at(j) => i = j)
    BY <2>2, <2>3
  <2>8. \A i \in 1 .. n : i # k => \E j \in 1 .. n - 1 : at(j) = i
    <3>1. SUFFICES ASSUME NEW i \in 1 .. n, i # k PROVE \E j \in 1 .. n - 1 : at(j) = i
      OBVIOUS
    <3>2. CASE i < k
      <4>1. i \in 1 .. n - 1 /\ at(i) = i
        BY <2>2, <2>3, <3>2
      <4>2. QED
        BY <4>1
    <3>3. CASE i > k
      <4>1. i - 1 \in 1 .. n - 1 /\ at(i - 1) = i
        BY <2>2, <2>3, <3>3
      <4>2. QED
        BY <4>1
    <3>4. QED
      BY <2>3, <3>1, <3>2, <3>3
  <2> HIDE DEF at
  <2>9. Ids(rest) = Ids(rows) \ {b}
    <3>1. Ids(rest) \subseteq Ids(rows) \ {b}
      BY <2>2, <2>3, <2>5, <2>6 DEF Ids
    <3>2. Ids(rows) \ {b} \subseteq Ids(rest)
      <4>1. SUFFICES ASSUME NEW i \in 1 .. n, rows[i].id # b PROVE rows[i].id \in Ids(rest)
        BY <2>2 DEF Ids
      <4>2. PICK j \in 1 .. n - 1 : at(j) = i
        BY <2>3, <2>8, <4>1
      <4>3. j \in DOMAIN rest /\ rest[j].id = rows[i].id
        BY <2>5, <2>6, <4>2
      <4>4. QED
        BY <4>3 DEF Ids
    <3>3. QED
      BY <3>1, <3>2
  <2>10. \A i, j \in DOMAIN rest : rest[i].id = rest[j].id => i = j
    BY <2>2, <2>5, <2>6, <2>7
  <2>11. (\A i, j \in DOMAIN rows : i < j => rows[i].id < rows[j].id) =>
           \A i, j \in DOMAIN rest : i < j => rest[i].id < rest[j].id
    BY <2>2, <2>5, <2>6, <2>7
  <2>12. Fits(rows) => Fits(rest)
    <3>1. \A i \in DOMAIN rest : \E j \in DOMAIN rows :
            rest[i].id = rows[j].id /\ rest[i].bytes = rows[j].bytes
      BY <2>2, <2>5, <2>6
    <3>2. TotalBytes(rest) <= TotalBytes(rows)
      BY <2>4, <3>1, SamplesSubset
    <3>3. TotalBytes(rest) \in Nat /\ TotalBytes(rows) \in Nat
      BY <2>4, SamplesFinite
    <3>4. QED
      BY <2>2, <2>4, <3>2, <3>3 DEF Fits
  <2>13. QED
    BY <2>1, <2>4, <2>9, <2>10, <2>11, <2>12
<1>3. QED
  BY <1>1, <1>2

(* mark_failed counts the attempt in the row of the batch. *)
LEMMA FailedRow ==
  ASSUME AgentInv, MarkFailed
  PROVE  /\ spool' \in Seq(Row) /\ DOMAIN spool' = DOMAIN spool
         /\ \A i \in DOMAIN spool :
              spool'[i].id = spool[i].id /\ spool'[i].bytes = spool[i].bytes
         /\ Ids(spool') = Ids(spool)
         /\ Fits(spool')
<1> DEFINE b == pending[1].id
           n == Len(spool)
<1>1. spool \in Seq(Row) /\ Fits(spool)
  BY DEF AgentInv, TypeOK, SpoolBounded
<1>2. n \in Nat /\ DOMAIN spool = 1 .. n /\ \A i \in 1 .. n : spool[i] \in Row
  BY <1>1, LenProperties
<1>3. spool' = [i \in 1 .. n |->
                 IF spool[i].id = b
                   THEN [spool[i] EXCEPT !.attempts = @ + 1] ELSE spool[i]]
  BY <1>2 DEF MarkFailed
<1>4. ASSUME NEW i \in 1 .. n
      PROVE  /\ spool'[i] \in Row
             /\ spool'[i].id = spool[i].id /\ spool'[i].bytes = spool[i].bytes
  <2>1. CASE spool[i].id # b
    BY <1>2, <1>3, <2>1
  <2>2. CASE spool[i].id = b
    <3>1. pending # <<>> /\ pc = "failed" /\ pending[1].attempts < OverflowAttempt
      BY DEF MarkFailed, AgentInv, TypeOK
    <3>2. PICK j \in DOMAIN spool : spool[j] = pending[1]
      BY <3>1 DEF AgentInv, PendingInv
    <3>3. j = i
      BY <1>2, <2>2, <3>2 DEF AgentInv, PendingInv
    <3>4. spool[i].attempts < OverflowAttempt
      BY <3>1, <3>2, <3>3
    <3>5. spool'[i] = [spool[i] EXCEPT !.attempts = @ + 1]
      BY <1>3, <2>2
    <3>6. QED
      <4>1. spool[i] \in [id : BatchIds, bytes : 1 .. BatchSize, attempts : 0 .. OverflowAttempt]
        BY <1>2 DEF Row
      <4>2. spool[i].attempts + 1 \in 0 .. OverflowAttempt
        BY <3>4, <4>1
      <4>3. spool'[i] \in [id : BatchIds, bytes : 1 .. BatchSize, attempts : 0 .. OverflowAttempt]
        BY <3>5, <4>1, <4>2
      <4>4. spool'[i].id = spool[i].id /\ spool'[i].bytes = spool[i].bytes
        BY <3>5, <4>1
      <4>5. QED
        BY <4>3, <4>4 DEF Row
  <2>3. QED
    BY <2>1, <2>2
<1>5. spool' \in Seq(Row) /\ Len(spool') = n /\ DOMAIN spool' = 1 .. n
  BY <1>2, <1>3, <1>4
<1>6. Ids(spool') = Ids(spool)
  BY <1>2, <1>4, <1>5 DEF Ids
<1>7. TotalBytes(spool') <= TotalBytes(spool)
  <2>1. \A i \in DOMAIN spool' : \E j \in DOMAIN spool :
          spool'[i].id = spool[j].id /\ spool'[i].bytes = spool[j].bytes
    BY <1>2, <1>4, <1>5
  <2>2. QED
    BY <1>1, <1>5, <2>1, SamplesSubset
<1>8. Fits(spool')
  <2>1. TotalBytes(spool') \in Nat /\ TotalBytes(spool) \in Nat
    BY <1>1, <1>5, SamplesFinite
  <2>2. QED
    BY <1>1, <1>2, <1>5, <1>7, <2>1 DEF Fits
<1>9. QED
  BY <1>2, <1>4, <1>5, <1>6, <1>8

-----------------------------------------------------------------------------
(* The inductive invariant. *)

LEMMA InitAgent == Init => AgentInv
<1> SUFFICES ASSUME Init PROVE AgentInv
  OBVIOUS
<1>1. spool \in Seq(Row) /\ DOMAIN spool = {} /\ Len(spool) = 0
  BY DEF Init
<1>2. Ids(spool) = {}
  BY <1>1 DEF Ids
<1>3. TypeOK
  <2>1. pending \in {<<>>} \cup {<<row>> : row \in Row}
    BY DEF Init
  <2>2. (pending # <<>>) <=> pc \in {"send", "sent", "failed"}
    BY DEF Init
  <2>3. /\ samples \in 0 .. BatchSize - 1 /\ created \in 0 .. MaxCreated
        /\ clockSteps \in 0 .. MaxClockSteps /\ stops \in 0 .. MaxStops
    BY DEF Init
  <2>4. /\ delayed \subseteq Ids(spool) /\ evicted \subseteq 1 .. created
        /\ accepted \subseteq 1 .. created
    BY DEF Init
  <2>5. stop \in BOOLEAN
       /\ pc \in {"down", "collect", "ready", "send", "sent", "failed", "wait", "flush"}
    BY DEF Init
  <2>6. QED
    BY <1>1, <2>1, <2>2, <2>3, <2>4, <2>5 DEF TypeOK
<1>4. SpoolInv /\ PendingInv
  BY <1>1, <1>2 DEF Init, SpoolInv, PendingInv
<1>5. DeliveryInv
  BY DEF Init, DeliveryInv
<1>6. NoSilentLoss
  BY DEF Init, NoSilentLoss
<1>7. SpoolBounded
  BY <1>1, EmptyFits DEF SpoolBounded
<1>8. QED
  BY <1>3, <1>4, <1>5, <1>6, <1>7 DEF AgentInv

(* Steps that leave the spool and what became of the batches alone. *)
LEMMA SpoolUnchanged ==
  ASSUME AgentInv, UNCHANGED <<spool, created, evicted, clockSteps>>,
         accepted \subseteq accepted'
  PROVE  /\ SpoolInv' /\ SpoolBounded' /\ NoSilentLoss'
         /\ spool' \in Seq(Row) /\ Ids(spool') = Ids(spool)
         /\ created' \in 0 .. MaxCreated /\ evicted' \subseteq 1 .. created'
         /\ clockSteps' \in 0 .. MaxClockSteps
         /\ \A i, j \in DOMAIN spool' : spool'[i].id = spool'[j].id => i = j
<1>1. SpoolInv' /\ SpoolBounded' /\ Ids(spool') = Ids(spool)
  BY DEF AgentInv, SpoolInv, SpoolBounded, Fits, TotalBytes, SamplesOf, Ids
<1>2. NoSilentLoss'
  BY <1>1 DEF AgentInv, NoSilentLoss
<1>3. QED
  BY <1>1, <1>2 DEF AgentInv, TypeOK, PendingInv

(* The row being delivered, before and after a step between requests. *)
LEMMA PendingRow ==
  ASSUME AgentInv, pending # <<>>
  PROVE  /\ pending[1] \in Row /\ pending[1].id \in Ids(spool)
         /\ pending[1].id \in 1 .. created
<1>1. PICK i \in DOMAIN spool : spool[i] = pending[1]
  BY DEF AgentInv, PendingInv
<1>2. spool \in Seq(Row) /\ Ids(spool) \subseteq 1 .. created
  BY DEF AgentInv, TypeOK, SpoolInv
<1>3. QED
  BY <1>1, <1>2 DEF Ids

(* A transaction of enqueue between two requests. *)
LEMMA EnqueueStep ==
  ASSUME AgentInv, NEW bytes \in 1 .. BatchSize, created < MaxCreated, Enqueue(bytes),
         pc' \in {"ready", "down"}, pc \in {"collect", "flush"},
         samples' = 0, stop' \in BOOLEAN, UNCHANGED <<pending, accepted, stops>>
  PROVE  AgentInv'
<1>1. pending = <<>> /\ accepted \subseteq 1 .. created /\ created \in 0 .. MaxCreated
        /\ stops \in 0 .. MaxStops
  BY DEF AgentInv, TypeOK
<1>2. /\ spool' \in Seq(Row) /\ delayed' \subseteq Ids(spool')
      /\ created' = created + 1 /\ created' \in 0 .. MaxCreated
      /\ evicted' \subseteq 1 .. created' /\ clockSteps' \in 0 .. MaxClockSteps
      /\ SpoolInv' /\ Fits(spool')
      /\ 1 .. created' \subseteq Ids(spool') \cup accepted \cup evicted'
      /\ \A i, j \in DOMAIN spool' : spool'[i].id = spool'[j].id => i = j
  BY EnqueueKeeps, Zenon
<1>3. accepted' \subseteq 1 .. created'
  BY <1>1, <1>2
<1>4. TypeOK'
  <2>1. samples' \in 0 .. BatchSize - 1 /\ delayed' \subseteq Ids(spool)'
    BY <1>2 DEF Ids
  <2>2. pending' \in {<<>>} \cup {<<row>> : row \in Row}
    BY <1>1
  <2>3. ((pending # <<>>) <=> pc \in {"send", "sent", "failed"})'
    BY <1>1
  <2>4. QED
    BY <1>1, <1>2, <1>3, <2>1, <2>2, <2>3 DEF TypeOK
<1>5. DeliveryInv'
  BY DEF DeliveryInv
<1>6. SpoolBounded'
  BY <1>2 DEF SpoolBounded, Fits, TotalBytes, SamplesOf
<1>7. NoSilentLoss'
  BY <1>2 DEF NoSilentLoss, Ids
<1>8. PendingInv'
  BY <1>1, <1>2 DEF PendingInv
<1>9. QED
  BY <1>2, <1>4, <1>5, <1>6, <1>7, <1>8 DEF AgentInv

(* Every other step changes only where run stands, the delays and what is  *)
(* pending.                                                                *)
LEMMA QuietStep ==
  ASSUME AgentInv, UNCHANGED <<spool, created, evicted, clockSteps>>,
         accepted \subseteq accepted', accepted' \subseteq 1 .. created,
         pc' \in {"down", "collect", "ready", "send", "sent", "failed", "wait", "flush"},
         stop' \in BOOLEAN, stops' \in 0 .. MaxStops,
         samples' \in 0 .. BatchSize - 1, samples' > 0 => created < MaxCreated,
         delayed' \subseteq Ids(spool),
         \/ pending' = <<>> /\ pc' \notin {"send", "sent", "failed"}
         \/ /\ \E i \in DOMAIN spool : pending' = <<spool[i]>>
            /\ pc' \in {"send", "sent", "failed"}
            /\ pc' = "sent" => pending'[1].id \in accepted'
  PROVE  AgentInv'
<1>1. /\ SpoolInv' /\ SpoolBounded' /\ NoSilentLoss'
      /\ spool' \in Seq(Row) /\ Ids(spool') = Ids(spool)
      /\ created' \in 0 .. MaxCreated /\ evicted' \subseteq 1 .. created'
      /\ clockSteps' \in 0 .. MaxClockSteps
      /\ \A i, j \in DOMAIN spool' : spool'[i].id = spool'[j].id => i = j
  BY SpoolUnchanged
<1>2. delayed' \subseteq Ids(spool)' /\ accepted' \subseteq 1 .. created'
  BY DEF Ids
<1>3. CASE pending' = <<>> /\ pc' \notin {"send", "sent", "failed"}
  <2>1. pending' \in {<<>>} \cup {<<row>> : row \in Row}
    BY <1>3
  <2>2. ((pending # <<>>) <=> pc \in {"send", "sent", "failed"})'
    BY <1>3
  <2>3. TypeOK'
    BY <1>1, <1>2, <2>1, <2>2 DEF TypeOK
  <2>4. DeliveryInv' /\ PendingInv'
    BY <1>1, <1>3 DEF DeliveryInv, PendingInv
  <2>5. QED
    BY <1>1, <2>3, <2>4 DEF AgentInv
<1>4. CASE /\ \E i \in DOMAIN spool : pending' = <<spool[i]>>
           /\ pc' \in {"send", "sent", "failed"}
           /\ pc' = "sent" => pending'[1].id \in accepted'
  <2>0. PICK i \in DOMAIN spool : pending' = <<spool[i]>>
    BY <1>4
  <2>a. spool[i] \in Row /\ pending'[1] = spool'[i] /\ i \in DOMAIN spool'
    BY <2>0 DEF AgentInv, TypeOK
  <2>1. pending' \in {<<>>} \cup {<<row>> : row \in Row} /\ pending' # <<>>
    BY <2>0, <2>a
  <2>2. ((pending # <<>>) <=> pc \in {"send", "sent", "failed"})'
    BY <1>4, <2>1
  <2>3. TypeOK'
    BY <1>1, <1>2, <2>1, <2>2 DEF TypeOK
  <2>4. DeliveryInv'
    BY <1>4 DEF DeliveryInv
  <2>5. PendingInv'
    BY <1>1, <2>a DEF PendingInv
  <2>6. QED
    BY <1>1, <2>3, <2>4, <2>5 DEF AgentInv
<1>5. QED
  BY <1>3, <1>4

LEMMA NextAgent == AgentInv /\ [Next]_vars => AgentInv'
<1> SUFFICES ASSUME AgentInv, [Next]_vars PROVE AgentInv'
  OBVIOUS
<1>0. /\ pc \in {"down", "collect", "ready", "send", "sent", "failed", "wait", "flush"}
      /\ stop \in BOOLEAN /\ samples \in 0 .. BatchSize - 1 /\ spool \in Seq(Row)
      /\ delayed \subseteq Ids(spool) /\ created \in 0 .. MaxCreated
      /\ accepted \subseteq 1 .. created /\ stops \in 0 .. MaxStops
      /\ evicted \subseteq 1 .. created /\ clockSteps \in 0 .. MaxClockSteps
      /\ (pending # <<>>) <=> pc \in {"send", "sent", "failed"}
      /\ pending \in {<<>>} \cup {<<row>> : row \in Row}
  BY DEF AgentInv, TypeOK
<1>a. pending # <<>> => \E i \in DOMAIN spool : pending = <<spool[i]>>
  <2>1. SUFFICES ASSUME pending # <<>> PROVE \E i \in DOMAIN spool : pending = <<spool[i]>>
    OBVIOUS
  <2>2. PICK i \in DOMAIN spool : spool[i] = pending[1]
    BY <2>1 DEF AgentInv, PendingInv
  <2>3. PICK row \in Row : pending = <<row>>
    BY <1>0, <2>1
  <2>4. QED
    BY <2>2, <2>3
<1>b. samples > 0 => created < MaxCreated
  BY DEF AgentInv, DeliveryInv
<1>c. pc = "sent" => pending[1].id \in accepted
  BY DEF AgentInv, DeliveryInv
<1>1. CASE Start
  <2>1. pending' = <<>>
    BY <1>0, <1>1 DEF Start
  <2>2. QED
    BY <1>0, <1>1, <1>b, <2>1, QuietStep DEF Start
<1>2. CASE Collect
  <2>0. /\ pc = "collect" /\ pc' = "ready" /\ pending' = pending /\ pending = <<>>
        /\ UNCHANGED <<stop, accepted, stops>>
    BY <1>0, <1>2 DEF Collect
  <2>1. CASE samples + 1 >= BatchSize /\ created < MaxCreated /\ Enqueue(samples + 1) /\ samples' = 0
    <3>1. samples + 1 \in 1 .. BatchSize
      BY <1>0
    <3>2. QED
      BY <1>0, <2>0, <2>1, <3>1, EnqueueStep
  <2>2. CASE /\ created < MaxCreated /\ samples + 1 < BatchSize /\ samples' = samples + 1
             /\ UNCHANGED <<spool, delayed, created, evicted, clockSteps>>
    <3>1. samples' \in 0 .. BatchSize - 1
      BY <1>0, <2>2
    <3>2. QED
      BY <1>0, <2>0, <2>2, <3>1, QuietStep
  <2>3. CASE UNCHANGED <<samples, spool, delayed, created, evicted, clockSteps>>
    BY <1>0, <1>b, <2>0, <2>3, QuietStep
  <2>4. QED
    BY <1>2, <2>1, <2>2, <2>3 DEF Collect
<1>3. CASE CollectFails
  <2>1. pending' = <<>> /\ stops' \in 0 .. MaxStops
    BY <1>0, <1>3 DEF CollectFails
  <2>2. QED
    BY <1>0, <1>3, <1>b, <2>1, QuietStep DEF CollectFails
<1>4. CASE NextReady
  <2>1. \/ pending' = <<>> /\ pc' = "wait"
        \/ (\E i \in DOMAIN spool : pending' = <<spool[i]>>) /\ pc' = "send"
    BY <1>0, <1>4 DEF NextReady
  <2>2. QED
    BY <1>0, <1>4, <1>b, <2>1, QuietStep DEF NextReady
<1>5. CASE SendSucceeds
  <2>1. pending # <<>> /\ pending[1].id \in 1 .. created
    BY <1>0, <1>5, PendingRow DEF SendSucceeds
  <2>2. /\ accepted \subseteq accepted' /\ accepted' \subseteq 1 .. created
        /\ pending' = pending /\ pending[1].id \in accepted'
    BY <1>0, <1>5, <2>1 DEF SendSucceeds
  <2>3. QED
    BY <1>0, <1>5, <1>a, <1>b, <2>1, <2>2, QuietStep DEF SendSucceeds
<1>6. CASE SendFails
  <2>1. pending # <<>> /\ pending[1].id \in 1 .. created
    BY <1>0, <1>6, PendingRow DEF SendFails
  <2>2. accepted \subseteq accepted' /\ accepted' \subseteq 1 .. created /\ pending' = pending
    BY <1>0, <1>6, <2>1 DEF SendFails
  <2>3. QED
    BY <1>0, <1>6, <1>a, <1>b, <2>1, <2>2, QuietStep DEF SendFails
<1>7. CASE MarkSent
  <2> DEFINE b == pending[1].id
             rest == Without(spool, b)
  <2>0. /\ pc' = "wait" /\ pending' = <<>> /\ spool' = rest /\ delayed' = delayed \ {b}
        /\ UNCHANGED <<stop, samples, created, evicted, accepted, clockSteps, stops>>
        /\ b \in accepted
    BY <1>7, <1>c DEF MarkSent
  <2>1. \A i, j \in DOMAIN spool : spool[i].id = spool[j].id => i = j
    BY DEF AgentInv, PendingInv
  <2>2. /\ rest \in Seq(Row) /\ Ids(rest) = Ids(spool) \ {b}
        /\ \A i, j \in DOMAIN rest : rest[i].id = rest[j].id => i = j
        /\ (\A i, j \in DOMAIN spool : i < j => spool[i].id < spool[j].id) =>
             \A i, j \in DOMAIN rest : i < j => rest[i].id < rest[j].id
        /\ Fits(spool) => Fits(rest)
    BY <1>0, <2>1, WithoutRow, Zenon
  <2> HIDE DEF rest
  <2>3. Ids(spool)' = Ids(spool) \ {b}
    BY <2>0, <2>2 DEF Ids
  <2>4. TypeOK'
    <3>1. pending' \in {<<>>} \cup {<<row>> : row \in Row}
      BY <2>0
    <3>2. ((pending # <<>>) <=> pc \in {"send", "sent", "failed"})'
      BY <2>0
    <3>3. spool' \in Seq(Row) /\ delayed' \subseteq Ids(spool)'
      BY <1>0, <2>0, <2>2, <2>3
    <3>4. QED
      BY <1>0, <2>0, <3>1, <3>2, <3>3 DEF TypeOK
  <2>5. SpoolInv'
    <3>1. Ids(spool)' \subseteq 1 .. created'
      BY <2>0, <2>3 DEF AgentInv, SpoolInv
    <3>2. clockSteps' = 0 => \A i, j \in DOMAIN rest : i < j => rest[i].id < rest[j].id
      BY <2>0, <2>2 DEF AgentInv, SpoolInv
    <3>3. QED
      BY <2>0, <3>1, <3>2 DEF SpoolInv
  <2>6. SpoolBounded'
    <3>1. Fits(rest)
      BY <2>2 DEF AgentInv, SpoolBounded
    <3>2. QED
      BY <2>0, <3>1 DEF SpoolBounded, Fits, TotalBytes, SamplesOf
  <2>7. NoSilentLoss'
    BY <2>0, <2>3 DEF AgentInv, NoSilentLoss
  <2>8. DeliveryInv' /\ PendingInv'
    BY <1>b, <2>0, <2>2 DEF DeliveryInv, PendingInv
  <2>9. QED
    BY <2>4, <2>5, <2>6, <2>7, <2>8 DEF AgentInv
<1>8. CASE MarkFailed
  <2>0. /\ pc = "failed" /\ pc' = "wait" /\ pending' = <<>>
        /\ delayed' \in {delayed, delayed \cup {pending[1].id}}
        /\ UNCHANGED <<stop, samples, created, evicted, accepted, clockSteps, stops>>
    BY <1>8 DEF MarkFailed
  <2>1. /\ spool' \in Seq(Row) /\ DOMAIN spool' = DOMAIN spool
        /\ \A i \in DOMAIN spool :
             spool'[i].id = spool[i].id /\ spool'[i].bytes = spool[i].bytes
        /\ Ids(spool') = Ids(spool)
        /\ Fits(spool')
    BY <1>8, FailedRow
  <2>2. pending[1].id \in Ids(spool)
    BY <1>0, <2>0, PendingRow
  <2>3. Ids(spool)' = Ids(spool)
    BY <2>1 DEF Ids
  <2>4. TypeOK'
    <3>1. pending' \in {<<>>} \cup {<<row>> : row \in Row}
      BY <2>0
    <3>2. ((pending # <<>>) <=> pc \in {"send", "sent", "failed"})'
      BY <2>0
    <3>3. delayed' \subseteq Ids(spool)'
      BY <1>0, <2>0, <2>2, <2>3
    <3>4. QED
      BY <1>0, <2>0, <2>1, <3>1, <3>2, <3>3 DEF TypeOK
  <2>5. SpoolInv'
    BY <2>0, <2>1, <2>3 DEF AgentInv, SpoolInv
  <2>6. SpoolBounded'
    BY <2>1 DEF SpoolBounded, Fits, TotalBytes, SamplesOf
  <2>7. NoSilentLoss'
    BY <2>0, <2>3 DEF AgentInv, NoSilentLoss
  <2>8. DeliveryInv' /\ PendingInv'
    BY <1>b, <2>0, <2>1 DEF AgentInv, DeliveryInv, PendingInv
  <2>9. QED
    BY <2>4, <2>5, <2>6, <2>7, <2>8 DEF AgentInv
<1>9. CASE DelayOverflows
  BY <1>0, <1>9, <1>b, QuietStep DEF DelayOverflows
<1>10. CASE Wait
  <2>1. pending' = <<>> /\ pc' \in {"flush", "collect"}
    BY <1>0, <1>10 DEF Wait
  <2>2. QED
    BY <1>0, <1>10, <1>b, <2>1, QuietStep DEF Wait
<1>11. CASE Flush
  <2>0. /\ pc = "flush" /\ pc' = "down" /\ pending' = pending /\ pending = <<>>
        /\ samples' = 0 /\ stop' = FALSE /\ UNCHANGED <<accepted, stops>>
    BY <1>0, <1>11 DEF Flush
  <2>1. CASE samples > 0 /\ Enqueue(samples)
    <3>1. samples \in 1 .. BatchSize /\ created < MaxCreated
      BY <1>0, <1>b, <2>1
    <3>2. QED
      BY <1>0, <2>0, <2>1, <3>1, EnqueueStep
  <2>2. CASE UNCHANGED <<spool, delayed, created, evicted, clockSteps>>
    <3>1. samples' \in 0 .. BatchSize - 1 /\ ~(samples' > 0)
      BY <2>0
    <3>2. QED
      BY <1>0, <2>0, <2>2, <3>1, QuietStep
  <2>3. QED
    BY <1>11, <2>1, <2>2 DEF Flush
<1>12. CASE Terminate
  <2>1. stops' \in 0 .. MaxStops /\ pending' = pending /\ pc' = pc /\ accepted' = accepted
    BY <1>0, <1>12 DEF Terminate
  <2>2. QED
    BY <1>0, <1>12, <1>a, <1>b, <1>c, <2>1, QuietStep DEF Terminate
<1>13. CASE Crash
  <2>1. stops' \in 0 .. MaxStops /\ samples' \in 0 .. BatchSize - 1 /\ ~(samples' > 0)
    BY <1>0, <1>13 DEF Crash
  <2>2. QED
    BY <1>0, <1>13, <2>1, QuietStep DEF Crash
<1>14. CASE \E b \in BatchIds : DelayElapses(b)
  <2>1. PICK b \in BatchIds : DelayElapses(b)
    BY <1>14
  <2>2. delayed' \subseteq Ids(spool) /\ pending' = pending /\ pc' = pc /\ accepted' = accepted
    BY <1>0, <2>1 DEF DelayElapses
  <2>3. QED
    BY <1>0, <1>a, <1>b, <1>c, <2>1, <2>2, QuietStep DEF DelayElapses
<1>15. CASE UNCHANGED vars
  BY <1>0, <1>15, <1>a, <1>b, <1>c, QuietStep DEF vars
<1>16. QED
  BY <1>1, <1>2, <1>3, <1>4, <1>5, <1>6, <1>7, <1>8, <1>9, <1>10, <1>11, <1>12, <1>13,
     <1>14, <1>15 DEF Next, AgentStep

(* The invariant holds in every reachable state. *)
THEOREM AgentInductive == Spec => []AgentInv
  BY InitAgent, NextAgent, PTL DEF Spec

(* The spool never exceeds its two limits at a commit of enqueue,          *)
(* mark_sent or mark_failed, whatever the limits and the batch size.       *)
THEOREM BoundedSpool == Spec => []SpoolBounded
<1>1. AgentInv => SpoolBounded
  BY DEF AgentInv
<1>2. QED
  BY <1>1, AgentInductive, PTL

(* A batch that run created is in the spool, committed by the API or       *)
(* evicted by enqueue: crashes, lost answers and restarts lose none.       *)
THEOREM NothingLost == Spec => []NoSilentLoss
<1>1. AgentInv => NoSilentLoss
  BY DEF AgentInv
<1>2. QED
  BY <1>1, AgentInductive, PTL

(* Only enqueue evicts, it evicts from the oldest end, and no more rows    *)
(* than the limits ask for.                                                *)
THEOREM OldestEvicted == Spec => EvictsOldest
<1> DEFINE Body == \A b \in evicted' \ evicted :
                     /\ clockSteps' = 0 => \A c \in Ids(spool') : b < c
                     /\ Len(spool') + 1 > MaxSpoolBatches
                          \/ TotalBytes(spool') + BatchSize > MaxSpoolBytes
<1>1. AgentInv /\ [Next]_vars => [Body]_vars
  <2> SUFFICES ASSUME AgentInv, Next, evicted' # evicted PROVE Body
    <3>1. evicted' = evicted => Body
      OBVIOUS
    <3>2. QED
      BY <3>1
  <2>0. samples \in 0 .. BatchSize - 1 /\ (samples > 0 => created < MaxCreated)
    BY DEF AgentInv, TypeOK, DeliveryInv
  <2>1. \E bytes \in 1 .. BatchSize : created < MaxCreated /\ Enqueue(bytes)
    <3>1. Collect \/ Flush
      BY DEF Next, AgentStep, Start, NextReady, SendSucceeds, SendFails, MarkSent, MarkFailed,
             DelayOverflows, Wait, CollectFails, Terminate, Crash, DelayElapses
    <3>2. CASE Collect
      <4>1. created < MaxCreated /\ Enqueue(samples + 1)
        BY <3>2 DEF Collect
      <4>2. samples + 1 \in 1 .. BatchSize
        BY <2>0
      <4>3. QED
        BY <4>1, <4>2
    <3>3. CASE Flush
      <4>1. samples > 0 /\ Enqueue(samples)
        BY <3>3 DEF Flush
      <4>2. samples \in 1 .. BatchSize /\ created < MaxCreated
        BY <2>0, <4>1
      <4>3. QED
        BY <4>1, <4>2
    <3>4. QED
      BY <3>1, <3>2, <3>3
  <2>2. QED
    BY <2>1, EnqueueKeeps, Zenon
<1>2. QED
  BY <1>1, AgentInductive, PTL DEF Spec, EvictsOldest
=============================================================================
