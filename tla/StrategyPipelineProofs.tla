------------------------ MODULE StrategyPipelineProofs ------------------------
(***************************************************************************)
(* Proofs about StrategyPipeline and the ResultStore it saves into, for    *)
(* any number of pipelines, timeframes, polls and results and any size of  *)
(* the cache.                                                              *)
(*                                                                         *)
(* The store.  The cache is not part of the argument that a saved result   *)
(* can be read: whatever it evicts, the row decides (Written).  That a     *)
(* deleted result stays gone does need the cache: a delete that is half    *)
(* way must not be overtaken by the Put of the same result (Removable).    *)
(*                                                                         *)
(* Its views.  All of them are lists made by counting what comes before    *)
(* each entry (Ordered), cut or shown in pages (Cut, Paging).  A listing   *)
(* is full because it either has every matching row or is as long as it    *)
(* may be; the pages of trades and curves because turning them reads the   *)
(* list from end to end.                                                   *)
(*                                                                         *)
(* The pipeline.  That a backtest has its bars rests on the event loop:    *)
(* the coroutine that has it keeps it until it sleeps or ends (LoopHeld),  *)
(* so nobody else moves the cursor with which it collects its artifacts    *)
(* (Collected).  That the reported id can be read rests on the store       *)
(* (StoreInv).  That a pipeline keeps the promises of JobLifecycle rests   *)
(* on what is still under way when somebody cancels (Cancels, Outcome).    *)
(***************************************************************************)
EXTENDS StrategyPipeline, FiniteSetTheorems, SequenceTheorems,
        WellFoundedInduction, TLAPS

-----------------------------------------------------------------------------
(* Numbers and sequences. *)

(* Every nonempty set of naturals has a least element.  (Stated for sets,  *)
(* it serves where the library's induction rules, stated for operators,    *)
(* cannot be instantiated.)                                                *)
LEMMA Least ==
    ASSUME NEW T \in SUBSET Nat, T # {}
    PROVE  \E m \in T : \A k \in T : m <= k
  <1>1. PICK m \in T : \A k \in T : ~ (<<k, m>> \in OpToRel(<, Nat))
    BY WFMin, NatLessThanWellFounded
  <1>2. \A k \in T : ~ (k < m)
    BY <1>1 DEF OpToRel
  <1> QED
    BY <1>2

(* What Append adds. *)
LEMMA AppendToSet ==
    ASSUME NEW S, NEW s \in Seq(S), NEW x \in S
    PROVE  /\ Append(s, x) \in Seq(S)
           /\ ToSet(Append(s, x)) = ToSet(s) \cup {x}
  <1>1. /\ Append(s, x) \in Seq(S) /\ Len(s) \in Nat
        /\ DOMAIN Append(s, x) = 1..(Len(s) + 1) /\ DOMAIN s = 1..Len(s)
        /\ \A i \in 1..Len(s) : Append(s, x)[i] = s[i]
        /\ Append(s, x)[Len(s) + 1] = x
    BY AppendProperties
  <1>2. 1..(Len(s) + 1) = (1..Len(s)) \cup {Len(s) + 1}
    BY <1>1
  <1> QED
    BY <1>1, <1>2 DEF ToSet

(* A sequence in which no value occurs twice. *)
Distinct(s) == \A i, k \in DOMAIN s : s[i] = s[k] => i = k

(* Appending an element a sequence does not hold keeps its elements distinct. *)
LEMMA AppendDistinct ==
    ASSUME NEW S, NEW s \in Seq(S), Distinct(s), NEW x \in S, x \notin ToSet(s)
    PROVE  Distinct(Append(s, x))
  BY DEF Distinct, ToSet

(* Taking out position i moves the later ones up by one. *)
LEMMA RemoveAtValues ==
    ASSUME NEW S, NEW s \in Seq(S), NEW i \in 1..Len(s)
    PROVE  /\ RemoveAt(s, i) \in Seq(S)
           /\ Len(RemoveAt(s, i)) = Len(s) - 1
           /\ \A k \in 1..(Len(s) - 1) :
                 RemoveAt(s, i)[k] = IF k < i THEN s[k] ELSE s[k + 1]
  <1> DEFINE a == SubSeq(s, 1, i - 1)
             b == SubSeq(s, i + 1, Len(s))
  <1>1. Len(s) \in Nat /\ \A k \in 1..Len(s) : s[k] \in S
    OBVIOUS
  <1>2. a \in Seq(S) /\ Len(a) = i - 1 /\ \A k \in 1..(i - 1) : a[k] = s[k]
    BY <1>1, SubSeqProperties
  <1>3. /\ b \in Seq(S) /\ Len(b) = Len(s) - i
        /\ \A k \in 1..(Len(s) - i) : b[k] = s[i + k]
    BY <1>1, SubSeqProperties
  <1> HIDE DEF a, b
  <1>4. /\ a \o b \in Seq(S) /\ Len(a \o b) = Len(s) - 1
        /\ \A k \in 1..(Len(s) - 1) :
              (a \o b)[k] = IF k <= i - 1 THEN a[k] ELSE b[k - (i - 1)]
    <2>1. /\ a \o b \in Seq(S) /\ Len(a \o b) = Len(a) + Len(b)
          /\ \A k \in 1..(Len(a) + Len(b)) :
                (a \o b)[k] = IF k <= Len(a) THEN a[k] ELSE b[k - Len(a)]
      BY <1>2, <1>3, ConcatProperties
    <2>2. Len(a) + Len(b) = Len(s) - 1
      BY <1>1, <1>2, <1>3
    <2> QED
      BY <1>2, <2>1, <2>2
  <1>5. ASSUME NEW k \in 1..(Len(s) - 1)
        PROVE  (a \o b)[k] = IF k < i THEN s[k] ELSE s[k + 1]
    <2>1. CASE k < i
      BY <1>2, <1>4, <2>1
    <2>2. CASE ~(k < i)
      <3>1. k - (i - 1) \in 1..(Len(s) - i) /\ i + (k - (i - 1)) = k + 1
        BY <1>1, <2>2
      <3> QED
        BY <1>3, <1>4, <2>2, <3>1
    <2> QED
      BY <2>1, <2>2
  <1> QED
    BY <1>4, <1>5 DEF RemoveAt, a, b

(* Removing a value from a sequence without duplicates leaves exactly the  *)
(* others.                                                                 *)
LEMMA RemoveFirstToSet ==
    ASSUME NEW S, NEW s \in Seq(S), Distinct(s), NEW x
    PROVE  /\ RemoveFirst(s, x) \in Seq(S)
           /\ Distinct(RemoveFirst(s, x))
           /\ ToSet(RemoveFirst(s, x)) = ToSet(s) \ {x}
  <1>1. CASE \A i \in 1..Len(s) : s[i] # x
    <2>1. RemoveFirst(s, x) = s
      BY <1>1 DEF RemoveFirst
    <2>2. x \notin ToSet(s)
      BY <1>1 DEF ToSet
    <2> QED
      BY <2>1, <2>2
  <1>2. CASE \E i \in 1..Len(s) : s[i] = x
    <2> DEFINE I == {i \in 1..Len(s) : s[i] = x}
               at == Min(I)
    <2>1. at \in 1..Len(s) /\ s[at] = x
      <3>1. I \in SUBSET Nat /\ I # {}
        BY <1>2
      <3>2. PICK m \in I : \A k \in I : m <= k
        BY <3>1, Least
      <3>3. at \in I
        BY <3>2 DEF Min
      <3> QED
        BY <3>3
    <2>2. RemoveFirst(s, x) = RemoveAt(s, at)
      BY <1>2 DEF RemoveFirst, SelectInSeq
    <2> HIDE DEF at
    <2> DEFINE t == RemoveAt(s, at)
    <2>3. /\ t \in Seq(S) /\ Len(t) = Len(s) - 1 /\ Len(s) \in Nat
          /\ \A k \in 1..(Len(s) - 1) : t[k] = IF k < at THEN s[k] ELSE s[k + 1]
      BY <2>1, RemoveAtValues
    <2> HIDE DEF t
    <2>4. DOMAIN t = 1..(Len(s) - 1) /\ DOMAIN s = 1..Len(s)
      BY <2>3
    <2>5. Distinct(t)
      BY <2>1, <2>3, <2>4 DEF Distinct
    <2>6. ToSet(t) \subseteq ToSet(s) \ {x}
      BY <2>1, <2>3, <2>4 DEF Distinct, ToSet
    <2>7. ASSUME NEW y \in ToSet(s) \ {x} PROVE y \in ToSet(t)
      <3>1. PICK k \in 1..Len(s) : s[k] = y
        BY <2>4 DEF ToSet
      <3>2. CASE k < at
        BY <2>1, <2>3, <2>4, <3>1, <3>2 DEF ToSet
      <3>3. CASE k > at
        <4>1. k - 1 \in 1..(Len(s) - 1) /\ ~(k - 1 < at) /\ (k - 1) + 1 = k
          BY <2>1, <2>3, <3>1, <3>3
        <4>2. t[k - 1] = s[k]
          BY <2>3, <4>1
        <4> QED
          BY <2>4, <3>1, <4>1, <4>2 DEF ToSet
      <3> QED
        BY <2>1, <3>1, <3>2, <3>3
    <2> QED
      BY <2>2, <2>3, <2>5, <2>6, <2>7 DEF t
  <1> QED
    BY <1>1, <1>2
-----------------------------------------------------------------------------
(* The inductive invariant. *)

(* Whatever is or was in memory, or is half saved, has been stamped. *)
Stamped ==
    /\ memory \subseteq ToSet(created)
    /\ listing # NoListing => listing \subseteq ToSet(created)
    /\ \A r \in Results : saver[r] # "none" => r \in ToSet(created)

(* A row is written once, by the save that then returns the id, and only a *)
(* delete takes it away again.                                             *)
Written ==
    /\ Distinct(rows)
    /\ \A r \in Rows : saver[r] = "saved"
    /\ \A r \in Results : saver[r] = "saved" => r \in Rows \cup deleted

(* Only a result that has been put can be found and deleted, so no Put     *)
(* comes between the two halves of a delete.                               *)
Removable ==
    /\ \A r \in memory : saver[r] \in {"put", "saved", "raised"}
    /\ deleter # NoResult => /\ saver[deleter] \in {"put", "saved", "raised"}
                             /\ deleter \notin memory

(* What is deleted is in neither place. *)
Gone == \A r \in deleted : saver[r] = "saved" /\ r \notin memory /\ r \notin Rows

StoreInv == StoreTypeOK /\ Stamped /\ Written /\ Removable /\ Gone

(* The table holds results and nothing else. *)
LEMMA RowsSubset == StoreTypeOK => Rows \subseteq Results
  BY DEF StoreTypeOK, Rows, ToSet

(* An empty cache over an empty table satisfies the invariant. *)
LEMMA InitStoreInv == StoreInit => StoreInv
  <1> SUFFICES ASSUME StoreInit PROVE StoreInv
    OBVIOUS
  <1> USE DEF StoreInit
  <1>1. ToSet(rows) = {} /\ ToSet(created) = {} /\ Distinct(rows)
    BY DEF ToSet, Distinct
  <1>2. StoreTypeOK
    BY StoreAssumption, FS_EmptySet DEF StoreTypeOK, SaverStates
  <1>3. Stamped /\ Written /\ Removable /\ Gone
    BY <1>1 DEF Stamped, Written, Removable, Gone, Rows
  <1> QED
    BY <1>2, <1>3 DEF StoreInv

-----------------------------------------------------------------------------
(* The steps of a save. *)

LEMMA RecordInv ==
    ASSUME StoreInv, NEW r \in Results, Record(r)
    PROVE  StoreInv'
  <1>1. /\ UNCHANGED <<memory, rows, deleter, listing, deleted>>
        /\ saver[r] = "none" /\ saver' = [saver EXCEPT ![r] = "record"]
        /\ created' = Append(created, r)
    BY DEF Record
  <1>2. created' \in Seq(Results) /\ ToSet(created') = ToSet(created) \cup {r}
    BY <1>1, AppendToSet DEF StoreInv, StoreTypeOK
  <1>3. \A q \in Results : saver'[q] = IF q = r THEN "record" ELSE saver[q]
    BY <1>1 DEF StoreInv, StoreTypeOK
  <1>4. StoreTypeOK'
    BY <1>1, <1>2 DEF StoreInv, StoreTypeOK, SaverStates
  <1>5. Stamped'
    BY <1>1, <1>2, <1>3 DEF StoreInv, Stamped
  <1>6. Written'
    BY <1>1, <1>3, RowsSubset DEF StoreInv, Written, Rows
  <1>7. Removable' /\ Gone'
    BY <1>1, <1>3 DEF StoreInv, StoreTypeOK, Removable, Gone, Rows
  <1> QED
    BY <1>4, <1>5, <1>6, <1>7 DEF StoreInv

(* The age of a stamped result is a position. *)
LEMMA AgeIsPosition ==
    ASSUME created \in Seq(Results), NEW r \in ToSet(created)
    PROVE  Age(r) \in Nat
  <1>1. \E i \in 1..Len(created) : created[i] = r
    BY DEF ToSet
  <1> QED
    BY <1>1 DEF Age

(* What fits, fits: as everything in it is at least as young as its oldest *)
(* member, it is no larger than the limit.                                 *)
LEMMA FittingFits ==
    ASSUME created \in Seq(Results), NEW rs, IsFiniteSet(rs),
           rs \subseteq ToSet(created)
    PROVE  Cardinality(Fitting(rs)) <= MaxResults /\ Fitting(rs) \subseteq rs
  <1> DEFINE F == Fitting(rs)
  <1>1. F \subseteq rs
    BY DEF Fitting
  <1>2. CASE F = {}
    BY <1>1, <1>2, FS_EmptySet, StoreAssumption
  <1>3. CASE F # {}
    <2> DEFINE ages == {Age(q) : q \in F}
    <2>1. \A q \in rs : Age(q) \in Nat
      BY AgeIsPosition
    <2>2. ages \in SUBSET Nat /\ ages # {}
      BY <1>1, <1>3, <2>1
    <2>3. PICK m \in ages : \A k \in ages : m <= k
      BY <2>2, Least
    <2>4. PICK q \in F : Age(q) = m
      BY <2>3
    <2> DEFINE younger == {p \in rs : Age(p) >= Age(q)}
    <2>5. F \in SUBSET younger /\ younger \in SUBSET rs
      BY <1>1, <2>1, <2>3, <2>4
    <2>6. IsFiniteSet(younger)
      BY <2>5, FS_Subset
    <2>7. /\ Cardinality(F) <= Cardinality(younger) /\ Cardinality(F) \in Nat
          /\ Cardinality(younger) \in Nat
      BY <2>5, <2>6, FS_Subset, FS_CardinalityType
    <2>8. Cardinality(younger) <= MaxResults
      BY <2>4 DEF Fitting
    <2> QED
      BY <1>1, <2>7, <2>8, StoreAssumption
  <1> QED
    BY <1>2, <1>3

(* There are finitely many results, since every one of them is numbered. *)
LEMMA ResultsFinite == IsFiniteSet(Results)
  BY StoreAssumption, FS_Interval DEF Results

(* The write to memory, with the eviction of the oldest entry beyond the limit. *)
LEMMA PutInv ==
    ASSUME StoreInv, NEW r \in Results, Put(r)
    PROVE  StoreInv'
  <1>1. /\ UNCHANGED <<created, rows, deleter, listing, deleted>>
        /\ saver[r] = "record" /\ saver' = [saver EXCEPT ![r] = "put"]
        /\ memory' = Fitting(memory \cup {r})
    BY DEF Put
  <1>2. Cardinality(memory') <= MaxResults /\ memory' \subseteq memory \cup {r}
    <2>1. memory \cup {r} \in SUBSET Results
      BY DEF StoreInv, StoreTypeOK
    <2>2. memory \cup {r} \subseteq ToSet(created)
      BY <1>1 DEF StoreInv, Stamped
    <2> QED
      BY <1>1, <2>1, <2>2, ResultsFinite, FS_Subset, FittingFits
         DEF StoreInv, StoreTypeOK
  <1>3. \A q \in Results : saver'[q] = IF q = r THEN "put" ELSE saver[q]
    BY <1>1 DEF StoreInv, StoreTypeOK
  <1>4. StoreTypeOK'
    BY <1>1, <1>2 DEF StoreInv, StoreTypeOK, SaverStates
  <1>5. Stamped'
    BY <1>1, <1>2, <1>3 DEF StoreInv, Stamped
  <1>6. Written'
    BY <1>1, <1>3, RowsSubset DEF StoreInv, Written, Rows
  <1>7. Removable' /\ Gone'
    BY <1>1, <1>2, <1>3 DEF StoreInv, StoreTypeOK, Removable, Gone, Rows
  <1> QED
    BY <1>4, <1>5, <1>6, <1>7 DEF StoreInv

(* The write to the table, which follows the one to memory. *)
LEMMA PersistInv ==
    ASSUME StoreInv, NEW r \in Results, Persist(r)
    PROVE  StoreInv'
  <1>1. /\ UNCHANGED <<created, memory, deleter, listing, deleted>>
        /\ saver[r] = "put" /\ saver' = [saver EXCEPT ![r] = "saved"]
        /\ rows' = Append(rows, r)
    BY DEF Persist
  <1>2. r \notin Rows
    BY <1>1 DEF StoreInv, Written
  <1>3. rows' \in Seq(Results) /\ Rows' = Rows \cup {r} /\ Distinct(rows')
    BY <1>1, <1>2, AppendToSet, AppendDistinct
       DEF StoreInv, StoreTypeOK, Written, Rows
  <1>4. \A q \in Results : saver'[q] = IF q = r THEN "saved" ELSE saver[q]
    BY <1>1 DEF StoreInv, StoreTypeOK
  <1>5. StoreTypeOK'
    BY <1>1, <1>3 DEF StoreInv, StoreTypeOK, SaverStates
  <1>6. Stamped'
    BY <1>1, <1>4 DEF StoreInv, Stamped
  <1>7. Written'
    BY <1>1, <1>3, <1>4, RowsSubset DEF StoreInv, Written
  <1>8. Removable' /\ Gone'
    BY <1>1, <1>3, <1>4 DEF StoreInv, StoreTypeOK, Removable, Gone
  <1> QED
    BY <1>5, <1>6, <1>7, <1>8 DEF StoreInv

(* The write to the table fails: the record in memory is all there is. *)
LEMMA PersistRaisesInv ==
    ASSUME StoreInv, NEW r \in Results, PersistRaises(r)
    PROVE  StoreInv'
  <1>1. /\ UNCHANGED <<created, memory, rows, deleter, listing, deleted>>
        /\ saver[r] = "put" /\ saver' = [saver EXCEPT ![r] = "raised"]
    BY DEF PersistRaises
  <1>2. \A q \in Results : saver'[q] = IF q = r THEN "raised" ELSE saver[q]
    BY <1>1 DEF StoreInv, StoreTypeOK
  <1>3. StoreTypeOK'
    BY <1>1 DEF StoreInv, StoreTypeOK, SaverStates
  <1>4. Stamped'
    BY <1>1, <1>2 DEF StoreInv, Stamped
  <1>5. Written'
    BY <1>1, <1>2, RowsSubset DEF StoreInv, Written, Rows
  <1>6. Removable' /\ Gone'
    BY <1>1, <1>2 DEF StoreInv, StoreTypeOK, Removable, Gone, Rows
  <1> QED
    BY <1>3, <1>4, <1>5, <1>6 DEF StoreInv

-----------------------------------------------------------------------------
(* The two halves of a delete, and a restart. *)

LEMMA DeleteRecordInv ==
    ASSUME StoreInv, NEW r \in Results, DeleteRecord(r)
    PROVE  StoreInv'
  <1>1. /\ UNCHANGED <<created, rows, saver, listing, deleted>>
        /\ r \in memory \cup Rows /\ memory' = memory \ {r} /\ deleter' = r
    BY DEF DeleteRecord
  <1>2. memory \in SUBSET Results /\ memory' \in SUBSET memory
    BY <1>1 DEF StoreInv, StoreTypeOK
  <1>3. Cardinality(memory') <= MaxResults
    <2>1. IsFiniteSet(memory)
      BY <1>2, ResultsFinite, FS_Subset
    <2>2. /\ Cardinality(memory') <= Cardinality(memory)
          /\ Cardinality(memory) \in Nat /\ Cardinality(memory') \in Nat
      BY <1>2, <2>1, FS_Subset, FS_CardinalityType
    <2> QED
      BY <2>2, StoreAssumption DEF StoreInv, StoreTypeOK
  <1>4. StoreTypeOK'
    BY <1>1, <1>2, <1>3 DEF StoreInv, StoreTypeOK
  <1>5. Stamped' /\ Written' /\ Gone'
    BY <1>1 DEF StoreInv, Stamped, Written, Gone, Rows
  <1>6. Removable'
    BY <1>1 DEF StoreInv, Written, Removable, Rows
  <1> QED
    BY <1>4, <1>5, <1>6 DEF StoreInv

(* The second half of a delete removes the row, if there is one. *)
LEMMA DeleteRowInv ==
    ASSUME StoreInv, DeleteRow
    PROVE  StoreInv'
  <1>1. /\ UNCHANGED <<created, memory, saver, listing>>
        /\ deleter \in Results /\ deleter # NoResult /\ deleter' = NoResult
        /\ rows' = RemoveFirst(rows, deleter)
        /\ deleted' = IF saver[deleter] = "saved" THEN deleted \cup {deleter}
                                                  ELSE deleted
    BY DEF DeleteRow, StoreInv, StoreTypeOK
  <1>2. rows' \in Seq(Results) /\ Distinct(rows') /\ Rows' = Rows \ {deleter}
    BY <1>1, RemoveFirstToSet DEF StoreInv, StoreTypeOK, Written, Rows
  <1>3. StoreTypeOK'
    BY <1>1, <1>2 DEF StoreInv, StoreTypeOK
  <1>4. Stamped' /\ Removable'
    BY <1>1 DEF StoreInv, Stamped, Removable
  <1>5. Written'
    BY <1>1, <1>2 DEF StoreInv, Written
  <1>6. Gone'
    BY <1>1, <1>2 DEF StoreInv, Removable, Gone
  <1> QED
    BY <1>3, <1>4, <1>5, <1>6 DEF StoreInv

(* A listing only copies what is in memory. *)
LEMMA ListInv ==
    ASSUME StoreInv, ListRecords \/ ListRows
    PROVE  StoreInv'
  <1>1. /\ UNCHANGED <<created, memory, rows, saver, deleter, deleted>>
        /\ listing' = memory \/ listing' = NoListing
    BY DEF ListRecords, ListRows
  <1>2. StoreTypeOK' /\ Stamped'
    BY <1>1 DEF StoreInv, StoreTypeOK, Stamped
  <1>3. Written' /\ Removable' /\ Gone'
    BY <1>1 DEF StoreInv, Written, Removable, Gone, Rows
  <1> QED
    BY <1>2, <1>3 DEF StoreInv

(* A restart empties memory and leaves the table. *)
LEMMA RestartInv ==
    ASSUME StoreInv, StoreRestart
    PROVE  StoreInv'
  <1>1. /\ UNCHANGED <<created, rows, deleted>>
        /\ memory' = {} /\ listing' = NoListing /\ deleter' = NoResult
        /\ saver' \in [Results -> SaverStates]
        /\ \A r \in Results : saver'[r] =
              IF saver[r] \in {"record", "put"} THEN "raised" ELSE saver[r]
    BY DEF StoreRestart, StoreInv, StoreTypeOK, SaverStates
  <1>2. StoreTypeOK'
    BY <1>1, FS_EmptySet, StoreAssumption DEF StoreInv, StoreTypeOK
  <1>3. Stamped'
    BY <1>1 DEF StoreInv, Stamped
  <1>4. Written'
    BY <1>1, RowsSubset DEF StoreInv, Written, Rows
  <1>5. Removable' /\ Gone'
    BY <1>1 DEF StoreInv, StoreTypeOK, Removable, Gone, Rows
  <1> QED
    BY <1>2, <1>3, <1>4, <1>5 DEF StoreInv

(* A step that leaves the store alone keeps its invariant. *)
LEMMA UnchangedStore == StoreInv /\ UNCHANGED store => StoreInv'
  BY DEF store, StoreInv, StoreTypeOK, Stamped, Written, Removable, Gone, Rows

(* Every operation of the store keeps the invariant. *)
LEMMA NextStoreInv == StoreInv /\ [StoreNext]_store => StoreInv'
  BY RecordInv, PutInv, PersistInv, PersistRaisesInv, DeleteRecordInv,
     DeleteRowInv, ListInv, RestartInv, UnchangedStore DEF StoreNext

-----------------------------------------------------------------------------
(* The invariant holds in every reachable state. *)
THEOREM StoreInvariant == StoreSpec => []StoreInv
  BY InitStoreInv, NextStoreInv, PTL DEF StoreSpec

(* The store keeps its types; above all, the cache never holds more than   *)
(* max_results results, whatever order the saves reach it in.              *)
THEOREM CacheBounded == StoreSpec => []StoreTypeOK
  BY StoreInvariant, PTL DEF StoreInv

(* What the invariant says of cache and table makes every save readable. *)
LEMMA InvReadable == StoreInv => SavedIsReadable
  BY DEF StoreInv, Written, SavedIsReadable, Get

(* For any number of results, any cache size, any restarts: a result whose *)
(* save returned an id can be read until it is deleted.                    *)
THEOREM SavesAreReadable == StoreSpec => []SavedIsReadable
  BY StoreInvariant, InvReadable, PTL

(* A result deleted after its save had returned is in neither the cache    *)
(* nor the table, in that state and in every later one.                    *)
THEOREM DeletesAreFinal == StoreSpec => []DeletedStaysGone
  <1>1. StoreInv => DeletedStaysGone
    BY DEF StoreInv, Gone, DeletedStaysGone, Get
  <1> QED
    BY <1>1, StoreInvariant, PTL

-----------------------------------------------------------------------------
(* Lists made by ranking. *)

(* How many numbers there are up to N. *)
LEMMA IntervalSize ==
    ASSUME NEW N \in Nat
    PROVE  IsFiniteSet(1..N) /\ Cardinality(1..N) = N
  <1>1. 1 \in Int /\ N \in Int
    OBVIOUS
  <1>2. /\ IsFiniteSet(1..N)
        /\ Cardinality(1..N) = IF 1 > N THEN 0 ELSE N - 1 + 1
    BY <1>1, FS_Interval, Zenon
  <1> QED  BY <1>2

(* Distinct ranks up to the number of elements list every element once. *)
LEMMA RankedOnce ==
    ASSUME NEW S, IsFiniteSet(S), NEW rank, DOMAIN rank = S,
           \A x \in S : rank[x] \in 1..Cardinality(S),
           \A x, y \in S : rank[x] = rank[y] => x = y
    PROVE  /\ ByRank(rank) \in Seq(S) /\ Len(ByRank(rank)) = Cardinality(S)
           /\ ToSet(ByRank(rank)) = S /\ Distinct(ByRank(rank))
           /\ Cardinality(S) \in Nat
           /\ \A p \in 1..Cardinality(S) : rank[ByRank(rank)[p]] = p
  <1> DEFINE N == Cardinality(S)
             r == [x \in S |-> rank[x]]
             list == [p \in 1..N |-> CHOOSE x \in S : rank[x] = p]
  <1>1. N \in Nat /\ IsFiniteSet(1..N) /\ Cardinality(1..N) = N
    <2>1. N \in Nat
      BY FS_CardinalityType
    <2> QED  BY <2>1, IntervalSize
  <1> HIDE DEF N
  <1>2. r \in Injection(S, 1..N)
    <2>1. r \in [S -> 1..N]
      BY DEF N
    <2>2. \A x, y \in S : r[x] = r[y] => x = y
      OBVIOUS
    <2> HIDE DEF r
    <2> QED  BY <2>1, <2>2 DEF Injection, IsInjective
  <1>3. r \in Surjection(S, 1..N)
    <2> HIDE DEF r
    <2> QED  BY <1>1, <1>2, FS_Injection DEF N
  <1>4. \A p \in 1..N : \E x \in S : rank[x] = p
    BY <1>3 DEF Surjection
  <1>5. ByRank(rank) = list
    BY DEF ByRank, N
  <1>6. \A p \in 1..N : list[p] \in S /\ rank[list[p]] = p
    BY <1>4
  <1>7. list \in Seq(S) /\ Len(list) = N /\ DOMAIN list = 1..N
    BY <1>1, <1>6
  <1> HIDE DEF list
  <1>8. ToSet(list) = S
    <2>1. ASSUME NEW x \in S
          PROVE  list[rank[x]] = x
      BY <1>6 DEF N
    <2> QED  BY <1>6, <1>7, <2>1 DEF ToSet, N
  <1>9. Distinct(list)
    BY <1>6, <1>7 DEF Distinct
  <1> QED  BY <1>1, <1>5, <1>6, <1>7, <1>8, <1>9 DEF N

(* Where the elements come after larger and larger sets of others, the     *)
(* sizes of these sets rank them, and the ranks list them in their order.  *)
LEMMA Ordered ==
    ASSUME NEW S, IsFiniteSet(S), NEW upto,
           \A x \in S : upto[x] \subseteq S /\ x \in upto[x],
           \A x, y \in S : \/ x = y
                           \/ upto[x] \subseteq upto[y] /\ y \notin upto[x]
                           \/ upto[y] \subseteq upto[x] /\ x \notin upto[y],
           NEW rank, DOMAIN rank = S, \A x \in S : rank[x] = Cardinality(upto[x])
    PROVE  /\ ByRank(rank) \in Seq(S) /\ Len(ByRank(rank)) = Cardinality(S)
           /\ ToSet(ByRank(rank)) = S /\ Distinct(ByRank(rank)) /\ Cardinality(S) \in Nat
           /\ \A p, q \in 1..Cardinality(S) :
                 p < q => ByRank(rank)[p] \in upto[ByRank(rank)[q]]
  <1> DEFINE list == ByRank(rank)
             N    == Cardinality(S)
  <1>1. ASSUME NEW x \in S
        PROVE  IsFiniteSet(upto[x]) /\ rank[x] \in 1..Cardinality(S)
    <2>1. upto[x] \in SUBSET S /\ x \in upto[x] /\ rank[x] = Cardinality(upto[x])
      OBVIOUS
    <2>2. IsFiniteSet(upto[x]) /\ Cardinality(upto[x]) <= Cardinality(S)
      BY <2>1, FS_Subset
    <2>3. /\ Cardinality(upto[x]) \in Nat /\ Cardinality(upto[x]) # 0
          /\ Cardinality(S) \in Nat
      BY <2>1, <2>2, FS_EmptySet, FS_CardinalityType
    <2> QED  BY <2>1, <2>2, <2>3
  <1>2. ASSUME NEW x \in S, NEW y \in S, upto[x] \subseteq upto[y], y \notin upto[x]
        PROVE  rank[x] < rank[y]
    <2>1. upto[x] \in SUBSET upto[y] /\ upto[x] # upto[y]
      BY <1>2
    <2>2. Cardinality(upto[x]) <= Cardinality(upto[y])
          /\ Cardinality(upto[x]) # Cardinality(upto[y])
      BY <1>1, <2>1, FS_Subset
    <2>3. rank[x] = Cardinality(upto[x]) /\ rank[y] = Cardinality(upto[y])
          /\ rank[x] \in Int /\ rank[y] \in Int
      BY <1>1
    <2> QED  BY <2>2, <2>3
  <1>3. \A x, y \in S : rank[x] = rank[y] => x = y
    <2> SUFFICES ASSUME NEW x \in S, NEW y \in S, rank[x] = rank[y], x # y
                 PROVE  FALSE
      OBVIOUS
    <2>1. rank[x] < rank[y] \/ rank[y] < rank[x]
      BY <1>2
    <2>2. rank[x] \in Int /\ rank[y] \in Int
      BY <1>1
    <2> QED  BY <2>1, <2>2
  <1>4. /\ list \in Seq(S) /\ Len(list) = N /\ ToSet(list) = S /\ Distinct(list)
        /\ N \in Nat /\ \A p \in 1..N : rank[list[p]] = p
    BY <1>1, <1>3, RankedOnce
  <1> HIDE DEF list, N
  <1>5. ASSUME NEW p \in 1..N, NEW q \in 1..N, p < q
        PROVE  list[p] \in upto[list[q]]
    <2>1. list[p] \in S /\ list[q] \in S
      BY <1>4
    <2>2. rank[list[p]] = p /\ rank[list[q]] = q
      BY <1>4
    <2>3. ~(rank[list[q]] < rank[list[p]]) /\ list[p] # list[q]
      BY <1>4, <1>5, <2>2
    <2>4. upto[list[p]] \subseteq upto[list[q]]
      BY <1>2, <2>1, <2>3
    <2> QED  BY <2>1, <2>4
  <1> QED  BY <1>4, <1>5 DEF list, N

(* The same for an order given by keys, the largest first. *)
LEMMA Keyed ==
    ASSUME NEW S, IsFiniteSet(S), NEW key, \A x \in S : key[x] \in Int,
           \A x, y \in S : key[x] = key[y] => x = y,
           NEW rank, DOMAIN rank = S,
           \A x \in S : rank[x] = Cardinality({y \in S : key[y] >= key[x]})
    PROVE  /\ ByRank(rank) \in Seq(S) /\ Len(ByRank(rank)) = Cardinality(S)
           /\ ToSet(ByRank(rank)) = S /\ Distinct(ByRank(rank)) /\ Cardinality(S) \in Nat
           /\ \A p, q \in 1..Cardinality(S) :
                 p < q => key[ByRank(rank)[p]] >= key[ByRank(rank)[q]]
  <1> DEFINE upto == [x \in S |-> {y \in S : key[y] >= key[x]}]
  <1>1. \A x \in S : \A y : y \in upto[x] <=> y \in S /\ key[y] >= key[x]
    OBVIOUS
  <1>2. DOMAIN rank = S /\ \A x \in S : rank[x] = Cardinality(upto[x])
    OBVIOUS
  <1> HIDE DEF upto
  <1>3. \A x \in S : upto[x] \subseteq S /\ x \in upto[x]
    BY <1>1
  <1>4. \A x, y \in S : \/ x = y
                        \/ upto[x] \subseteq upto[y] /\ y \notin upto[x]
                        \/ upto[y] \subseteq upto[x] /\ x \notin upto[y]
    <2> SUFFICES ASSUME NEW x \in S, NEW y \in S, x # y
                 PROVE  \/ upto[x] \subseteq upto[y] /\ y \notin upto[x]
                        \/ upto[y] \subseteq upto[x] /\ x \notin upto[y]
      OBVIOUS
    <2>1. key[x] > key[y] \/ key[y] > key[x]
      OBVIOUS
    <2> QED  BY <1>1, <2>1
  <1>5. /\ ByRank(rank) \in Seq(S) /\ Len(ByRank(rank)) = Cardinality(S)
        /\ ToSet(ByRank(rank)) = S /\ Distinct(ByRank(rank)) /\ Cardinality(S) \in Nat
        /\ \A p, q \in 1..Cardinality(S) :
              p < q => ByRank(rank)[p] \in upto[ByRank(rank)[q]]
    BY <1>2, <1>3, <1>4, Ordered
  <1>6. \A p \in 1..Cardinality(S) : ByRank(rank)[p] \in S
    BY <1>5
  <1>7. \A p, q \in 1..Cardinality(S) :
           p < q => key[ByRank(rank)[p]] >= key[ByRank(rank)[q]]
    BY <1>1, <1>5, <1>6
  <1> QED  BY <1>5, <1>7

(* A sequence without repetitions is as long as the set of its elements is large. *)
LEMMA DistinctSize ==
    ASSUME NEW S, NEW s \in Seq(S), Distinct(s)
    PROVE  IsFiniteSet(ToSet(s)) /\ Cardinality(ToSet(s)) = Len(s) /\ Len(s) \in Nat
  <1> DEFINE N == Len(s)
  <1>1. N \in Nat /\ DOMAIN s = 1..N
    OBVIOUS
  <1>2. IsFiniteSet(1..N) /\ Cardinality(1..N) = N
    BY <1>1, IntervalSize
  <1>3. s \in [1..N -> ToSet(s)] /\ \A x \in ToSet(s) : \E i \in 1..N : s[i] = x
    BY DEF ToSet
  <1> HIDE DEF N
  <1>4. s \in Surjection(1..N, ToSet(s))
    BY <1>3 DEF Surjection
  <1>5. \A i, k \in 1..N : s[i] = s[k] => i = k
    BY <1>1 DEF Distinct
  <1>6. s \in Injection(1..N, ToSet(s))
    BY <1>3, <1>5 DEF Injection, IsInjective
  <1>7. IsFiniteSet(ToSet(s)) /\ Cardinality(ToSet(s)) = Cardinality(1..N)
    BY <1>2, <1>4, <1>6, FS_Surjection
  <1> QED  BY <1>1, <1>2, <1>7 DEF N

(* The first n elements, as far as there are any. *)
Upto(s, n) == SubSeq(s, 1, IF n < Len(s) THEN n ELSE Len(s))

(* Cutting a sequence keeps its elements distinct, and keeps all of them   *)
(* unless it is full.                                                      *)
LEMMA Cut ==
    ASSUME NEW S, NEW s \in Seq(S), NEW n \in Nat
    PROVE  /\ Upto(s, n) \in Seq(S) /\ Len(Upto(s, n)) <= n
           /\ Len(Upto(s, n)) = n \/ (n > Len(s) /\ Upto(s, n) = s)
           /\ ToSet(Upto(s, n)) \subseteq ToSet(s)
           /\ Distinct(s) => Distinct(Upto(s, n))
  <1> DEFINE m == IF n < Len(s) THEN n ELSE Len(s)
             t == Upto(s, n)
  <1>1. Len(s) \in Nat /\ m \in Nat /\ m <= Len(s) /\ m <= n
    OBVIOUS
  <1>2. t = SubSeq(s, 1, m)
    BY DEF Upto
  <1>3. m = n \/ (n > Len(s) /\ m = Len(s))
    BY <1>1
  <1> HIDE DEF m, t
  <1>4. t \in Seq(S) /\ Len(t) = m /\ \A i \in 1..m : t[i] = s[i]
    BY <1>1, <1>2, SubSeqProperties
  <1>5. n > Len(s) /\ m = Len(s) => t = s
    BY <1>1, <1>2
  <1>6. DOMAIN t = 1..m /\ DOMAIN s = 1..Len(s)
    BY <1>4
  <1>7. ToSet(t) \subseteq ToSet(s)
    BY <1>1, <1>4, <1>6 DEF ToSet
  <1>8. Distinct(s) => Distinct(t)
    BY <1>1, <1>4, <1>6 DEF Distinct
  <1> QED  BY <1>1, <1>3, <1>4, <1>5, <1>7, <1>8 DEF t

(* Two sequences without repetitions and without a common element have     *)
(* none together.                                                          *)
LEMMA ConcatDistinct ==
    ASSUME NEW S, NEW s \in Seq(S), NEW t \in Seq(S), Distinct(s), Distinct(t),
           ToSet(s) \cap ToSet(t) = {}
    PROVE  /\ s \o t \in Seq(S) /\ Distinct(s \o t)
           /\ ToSet(s \o t) = ToSet(s) \cup ToSet(t)
  <1> DEFINE a == s \o t
             N == Len(s)
             M == Len(t)
  <1>1. /\ a \in Seq(S) /\ DOMAIN a = 1..(N + M) /\ N \in Nat /\ M \in Nat
        /\ DOMAIN s = 1..N /\ DOMAIN t = 1..M
    OBVIOUS
  <1>2. \A i \in 1..(N + M) : (i <= N /\ a[i] = s[i]) \/ (i > N /\ a[i] = t[i - N])
    OBVIOUS
  <1>3. (\A i \in 1..N : a[i] = s[i]) /\ \A i \in 1..M : a[i + N] = t[i]
    OBVIOUS
  <1> HIDE DEF a, N, M
  <1>4. \A i \in 1..(N + M) : /\ i <= N => a[i] \in ToSet(s)
                              /\ i > N => i - N \in 1..M /\ a[i] \in ToSet(t)
    <2>1. \A i \in 1..(N + M) : (i <= N => i \in 1..N) /\ (i > N => i - N \in 1..M)
      BY <1>1
    <2>2. (\A i \in 1..N : s[i] \in ToSet(s)) /\ \A i \in 1..M : t[i] \in ToSet(t)
      BY <1>1 DEF ToSet
    <2>3. \A i \in 1..(N + M) : i \in Int /\ (i <= N => ~(i > N))
      BY <1>1
    <2> QED  BY <1>2, <2>1, <2>2, <2>3
  <1>5. Distinct(a)
    <2> SUFFICES ASSUME NEW i \in 1..(N + M), NEW k \in 1..(N + M), a[i] = a[k]
                 PROVE  i = k
      BY <1>1 DEF Distinct
    <2>1. CASE i <= N /\ k <= N
      BY <1>1, <1>2, <2>1 DEF Distinct
    <2>2. CASE i > N /\ k > N
      <3>1. i - N = k - N
        BY <1>1, <1>2, <1>4, <2>2 DEF Distinct
      <3> QED  BY <1>1, <3>1
    <2> QED  BY <1>1, <1>4, <2>1, <2>2
  <1>6. ToSet(a) = ToSet(s) \cup ToSet(t)
    <2>1. ToSet(a) \subseteq ToSet(s) \cup ToSet(t)
      BY <1>1, <1>4 DEF ToSet
    <2>2. ToSet(s) \subseteq ToSet(a) /\ ToSet(t) \subseteq ToSet(a)
      <3>1. (\A i \in 1..N : i \in 1..(N + M)) /\ \A i \in 1..M : i + N \in 1..(N + M)
        BY <1>1
      <3>2. \A i \in 1..(N + M) : a[i] \in ToSet(a)
        BY <1>1 DEF ToSet
      <3>3. (\A i \in 1..N : s[i] \in ToSet(a)) /\ \A i \in 1..M : t[i] \in ToSet(a)
        BY <1>3, <3>1, <3>2
      <3> QED  BY <1>1, <3>3 DEF ToSet
    <2> QED  BY <2>1, <2>2
  <1> QED  BY <1>1, <1>5, <1>6 DEF a

-----------------------------------------------------------------------------
(* Listings are full. *)

(* No two results have the same age. *)
LEMMA AgesDiffer ==
    ASSUME created \in Seq(Results)
    PROVE  \A q, r \in ToSet(created) : Age(q) = Age(r) => q = r
  <1>1. ASSUME NEW r \in ToSet(created)
        PROVE  created[Age(r)] = r
    <2>1. \E i \in 1..Len(created) : created[i] = r
      BY DEF ToSet
    <2> QED  BY <2>1 DEF Age
  <1> QED  BY <1>1

(* Each of a set of stamped results is in the list of them once. *)
LEMMA YoungestListed ==
    ASSUME StoreInv, NEW rs, rs \subseteq Results, rs \subseteq ToSet(created)
    PROVE  /\ YoungestFirst(rs) \in Seq(rs) /\ ToSet(YoungestFirst(rs)) = rs
           /\ Len(YoungestFirst(rs)) = Cardinality(rs) /\ Cardinality(rs) \in Nat
           /\ Distinct(YoungestFirst(rs)) /\ IsFiniteSet(rs)
  <1> DEFINE key == [r \in rs |-> Age(r)]
             rank == [r \in rs |-> Cardinality({q \in rs : Age(q) >= Age(r)})]
  <1>1. IsFiniteSet(rs)
    BY ResultsFinite, FS_Subset
  <1>2. rs \subseteq ToSet(created) /\ created \in Seq(Results)
    BY DEF StoreInv, StoreTypeOK, Stamped
  <1>3. \A r \in rs : Age(r) \in Nat
    BY <1>2, AgeIsPosition
  <1>4. \A q, r \in rs : Age(q) = Age(r) => q = r
    BY <1>2, AgesDiffer
  <1>5. rank = [r \in rs |-> Cardinality({q \in rs : key[q] >= key[r]})]
    <2>1. \A r \in rs : {q \in rs : Age(q) >= Age(r)} = {q \in rs : key[q] >= key[r]}
      OBVIOUS
    <2> QED  BY <2>1
  <1>6. (\A r \in rs : key[r] \in Int) /\ \A q, r \in rs : key[q] = key[r] => q = r
    BY <1>3, <1>4
  <1>7. YoungestFirst(rs) = ByRank(rank) /\ DOMAIN rank = rs
    BY DEF YoungestFirst
  <1> HIDE DEF key, rank
  <1> QED  BY <1>1, <1>5, <1>6, <1>7, Keyed

(* The rows the filter of list_metadata lets through. *)
Selected(symbol) == {r \in Rows : symbol = AnySymbol \/ Symbol[r] = Upper[symbol]}

(* The table's part of a listing has each matching row once, and all of    *)
(* them unless it is full.                                                 *)
LEMMA MetadataListed ==
    ASSUME StoreInv, NEW symbol, NEW n \in Nat
    PROVE  LET listed == ListMetadata(symbol, n)
           IN  /\ listed \in Seq(Results) /\ Len(listed) <= n /\ Distinct(listed)
               /\ ToSet(listed) \subseteq Selected(symbol)
               /\ Len(listed) = n \/ ToSet(listed) = Selected(symbol)
  <1> DEFINE hits   == {k \in DOMAIN rows : symbol = AnySymbol \/ Symbol[rows[k]] = Upper[symbol]}
             rank   == [k \in hits |-> Cardinality({j \in hits : j >= k})]
             newest == ByRank(rank)
             found  == [p \in DOMAIN newest |-> rows[newest[p]]]
             key    == [k \in hits |-> k]
  <1>1. /\ rows \in Seq(Results) /\ DOMAIN rows = 1..Len(rows) /\ Len(rows) \in Nat
        /\ Distinct(rows)
    BY DEF StoreInv, StoreTypeOK, Written
  <1>2. IsFiniteSet(hits) /\ hits \subseteq DOMAIN rows
    <2>1. hits \in SUBSET (1..Len(rows))
      BY <1>1
    <2>2. IsFiniteSet(1..Len(rows))
      BY <1>1, IntervalSize
    <2> HIDE DEF hits
    <2> QED  BY <1>1, <2>1, <2>2, FS_Subset
  <1>3. \A r : r \in Selected(symbol) <=> \E k \in hits : rows[k] = r
    BY DEF Selected, Rows, ToSet
  <1>4. rank = [k \in hits |-> Cardinality({j \in hits : key[j] >= key[k]})]
    <2>1. \A k \in hits : {j \in hits : j >= k} = {j \in hits : key[j] >= key[k]}
      OBVIOUS
    <2> HIDE DEF hits, key
    <2> QED  BY <2>1
  <1>5. (\A k \in hits : key[k] \in Int) /\ \A j, k \in hits : key[j] = key[k] => j = k
    BY <1>1
  <1>6. ListMetadata(symbol, n) = Upto(found, n)
    BY DEF ListMetadata, Upto
  <1>7. DOMAIN rank = hits
    OBVIOUS
  <1> HIDE DEF hits, key, rank
  <1>9. newest \in Seq(hits) /\ ToSet(newest) = hits /\ Distinct(newest)
    BY <1>2, <1>4, <1>5, Keyed
  <1> HIDE DEF newest
  <1>10. \A p \in DOMAIN newest : newest[p] \in hits /\ newest[p] \in DOMAIN rows
                                  /\ rows[newest[p]] \in Results
    BY <1>1, <1>2, <1>9
  <1>11. found \in Seq(Results) /\ DOMAIN found = DOMAIN newest
    BY <1>9, <1>10
  <1>12. \A p \in DOMAIN newest : found[p] = rows[newest[p]]
    OBVIOUS
  <1> HIDE DEF found
  <1>13. Distinct(found)
    BY <1>1, <1>9, <1>10, <1>11, <1>12 DEF Distinct
  <1>14. ToSet(found) = Selected(symbol)
    <2>1. \A r : r \in ToSet(found) <=> \E p \in DOMAIN newest : found[p] = r
      BY <1>11 DEF ToSet
    <2>2. \A k : k \in hits <=> \E p \in DOMAIN newest : newest[p] = k
      BY <1>9 DEF ToSet
    <2> QED  BY <1>3, <1>12, <2>1, <2>2
  <1>15. /\ Upto(found, n) \in Seq(Results) /\ Len(Upto(found, n)) <= n
         /\ Len(Upto(found, n)) = n \/ (n > Len(found) /\ Upto(found, n) = found)
         /\ ToSet(Upto(found, n)) \subseteq ToSet(found)
         /\ Distinct(Upto(found, n))
    BY <1>11, <1>13, Cut
  <1> QED  BY <1>6, <1>14, <1>15

(* Both clamps leave a positive limit that is at most the size of the cache. *)
LEMMA ClampPositive ==
    ASSUME NEW limit \in Int
    PROVE  ClampLimit(limit) \in Nat /\ ClampLimit(limit) >= 1
  BY StoreAssumption DEF ClampLimit

(* A symbol in upper case stays as it is. *)
LEMMA UpperTwice ==
    ASSUME NEW symbol \in ToSet(Symbol)
    PROVE  Upper[Upper[symbol]] = Upper[symbol]
  <1>1. PICK q \in Results : symbol = Symbol[q]
    BY StoreAssumption DEF ToSet
  <1> QED  BY <1>1, StoreAssumption

(* A listing is full: either the rows already fill it, or it has all that  *)
(* match, followed by what of the copied cache is not among them.          *)
LEMMA ListedFull ==
    ASSUME StoreInv, listing # NoListing, NEW limit \in 0..(MaxResults + 1),
           NEW symbol \in {AnySymbol} \cup ToSet(Symbol)
    PROVE  LET ls      == ListResults(listing, symbol, limit)
               n       == ClampLimit(limit)
               certain == {r \in Rows \cup (listing \cap memory) :
                              symbol = AnySymbol \/ Symbol[r] = Upper[symbol]}
           IN  /\ \A r \in ToSet(ls) : (r \in listing \/ Get(r)) /\ Matches(r, symbol)
               /\ Cardinality(ToSet(ls)) = Len(ls)
               /\ Len(ls) <= n
               /\ Len(ls) >= (IF Cardinality(certain) < n THEN Cardinality(certain) ELSE n)
  <1> DEFINE n       == ClampLimit(limit)
             listed  == ListMetadata(symbol, n)
             matching == {r \in listing : Matches(r, symbol)}
             extra   == matching \ ToSet(listed)
             cached  == YoungestFirst(extra)
             all     == listed \o cached
             ls      == ListResults(listing, symbol, limit)
             certain == {r \in Rows \cup (listing \cap memory) :
                            symbol = AnySymbol \/ Symbol[r] = Upper[symbol]}
  <1>1. n \in Nat /\ n >= 1
    BY ClampPositive, StoreAssumption
  <1>2. ls = Upto(all, n)
    BY DEF ListResults, Upto
  <1>3. /\ listing \subseteq Results /\ Rows \subseteq Results
        /\ listing \subseteq ToSet(created)
        /\ \A r \in Rows : Get(r)
    BY RowsSubset DEF StoreInv, StoreTypeOK, Stamped, Get
  <1>4. matching \subseteq listing /\ \A r \in matching : Matches(r, symbol)
    OBVIOUS
  <1>5. \A r \in Results : symbol = AnySymbol \/ Symbol[r] = Upper[symbol] => Matches(r, symbol)
    BY UpperTwice DEF Matches
  <1>6. \A r \in certain : /\ r \in listing \/ r \in Rows
                           /\ r \in listing => r \in matching
                           /\ r \in Rows => r \in Selected(symbol)
    BY <1>3, <1>5 DEF Selected
  <1>7. \A r \in Selected(symbol) : r \in Rows /\ r \in Results /\ Matches(r, symbol)
    BY <1>3, <1>5 DEF Selected
  <1>8. certain \in SUBSET Results
    BY <1>3
  <1> HIDE DEF n
  <1>9. /\ listed \in Seq(Results) /\ Len(listed) <= n /\ Distinct(listed)
        /\ ToSet(listed) \subseteq Selected(symbol)
        /\ Len(listed) = n \/ ToSet(listed) = Selected(symbol)
    BY <1>1, MetadataListed
  <1> HIDE DEF listed, matching
  <1>10. /\ cached \in Seq(extra) /\ ToSet(cached) = extra /\ Distinct(cached)
    <2>1. extra \subseteq Results /\ extra \subseteq ToSet(created)
      BY <1>3, <1>4
    <2> HIDE DEF extra
    <2> QED  BY <2>1, YoungestListed
  <1>11. cached \in Seq(Results) /\ ToSet(listed) \cap ToSet(cached) = {}
    <2>1. extra \subseteq Results
      BY <1>3, <1>4
    <2> HIDE DEF cached
    <2> QED  BY <1>10, <2>1
  <1> HIDE DEF cached, certain
  <1>12. /\ all \in Seq(Results) /\ Distinct(all)
         /\ ToSet(all) = ToSet(listed) \cup ToSet(cached)
    BY <1>9, <1>10, <1>11, ConcatDistinct
  <1>13. Len(all) >= Len(listed) /\ Len(all) \in Nat /\ Len(listed) \in Nat
    BY <1>9, <1>11
  <1> HIDE DEF all
  <1>14. /\ ls \in Seq(Results) /\ Len(ls) <= n /\ Distinct(ls)
         /\ Len(ls) = n \/ (n > Len(all) /\ ls = all)
         /\ ToSet(ls) \subseteq ToSet(all)
    <2>1. /\ Upto(all, n) \in Seq(Results) /\ Len(Upto(all, n)) <= n
          /\ Len(Upto(all, n)) = n \/ (n > Len(all) /\ Upto(all, n) = all)
          /\ ToSet(Upto(all, n)) \subseteq ToSet(all)
          /\ Distinct(Upto(all, n))
      BY <1>1, <1>12, Cut
    <2> HIDE DEF ls
    <2> QED  BY <1>2, <2>1
  <1> HIDE DEF ls
  <1>15. \A r \in ToSet(ls) : (r \in listing \/ Get(r)) /\ Matches(r, symbol)
    BY <1>3, <1>4, <1>7, <1>9, <1>10, <1>12, <1>14
  <1>16. Cardinality(ToSet(ls)) = Len(ls) /\ Len(ls) \in Nat
    BY <1>14, DistinctSize
  <1>17. IsFiniteSet(certain) /\ Cardinality(certain) \in Nat
    BY <1>8, ResultsFinite, FS_Subset, FS_CardinalityType
  <1>18. Len(ls) >= (IF Cardinality(certain) < n THEN Cardinality(certain) ELSE n)
    <2>1. CASE Len(ls) = n
      BY <1>1, <1>17, <2>1
    <2>2. CASE n > Len(all) /\ ls = all
      <3>1. Len(listed) # n
        BY <1>1, <1>13, <2>2
      <3>2. certain \subseteq ToSet(all)
        <4>1. ToSet(listed) = Selected(symbol)
          BY <1>9, <3>1
        <4> QED  BY <1>6, <1>10, <1>12, <4>1
      <3>3. Cardinality(certain) <= Cardinality(ToSet(all))
        BY <1>12, <3>2, DistinctSize, FS_Subset
      <3> QED  BY <1>1, <1>16, <1>17, <2>2, <3>3
    <2> QED  BY <1>14, <2>1, <2>2
  <1> QED  BY <1>14, <1>15, <1>16, <1>18 DEF n, ls, certain

(* In every state of the store, whatever is cached, evicted or half saved, *)
(* a listing is full (ListingFull: list_results, list_metadata).           *)
THEOREM ListingsAreFull == StoreSpec => []ListingFull
  <1>1. StoreInv => ListingFull
    BY ListedFull DEF ListingFull
  <1> QED
    BY <1>1, StoreInvariant, PTL

-----------------------------------------------------------------------------
(* Pages show a list from its first item to its last. *)

(* How many items come before a page.  The products and quotients of the   *)
(* paging are only looked at in the two lemmas that follow.                *)
Skipped(p, n) == p * n

LEMMA SkippedGrows ==
    \A n \in Nat \ {0}, p, q \in Int :
        /\ Skipped(p, n) \in Int /\ Skipped(0, n) = 0
        /\ Skipped(p + 1, n) = Skipped(p, n) + n
        /\ p < q => Skipped(p, n) + n <= Skipped(q, n)
  <1> SUFFICES ASSUME NEW n \in Nat \ {0}, NEW p \in Int, NEW q \in Int
               PROVE  /\ Skipped(p, n) \in Int /\ Skipped(0, n) = 0
                      /\ Skipped(p + 1, n) = Skipped(p, n) + n
                      /\ p < q => Skipped(p, n) + n <= Skipped(q, n)
    OBVIOUS
  <1>1. p * n \in Int /\ 0 * n = 0 /\ (p + 1) * n = p * n + n
    OBVIOUS
  <1>2. p < q => p * n + n <= q * n
    OBVIOUS
  <1> QED  BY <1>1, <1>2 DEF Skipped

LEMMA SkippedQuotient ==
    \A n \in Nat \ {0}, k \in Int :
        k \div n \in Int /\ Skipped(k \div n, n) <= k /\ k < Skipped(k \div n, n) + n
  BY DEF Skipped

(* The pages of a list are as many as it takes. *)
LEMMA PagesNeeded ==
    ASSUME NEW total \in Nat, NEW n \in Nat \ {0},
           NEW pages, pages = TotalPages(total, n)
    PROVE  /\ pages \in Int
           /\ Skipped(pages, n) <= total + n - 1 /\ total <= Skipped(pages, n)
           /\ \A p \in 0..(pages - 1) : Skipped(p, n) \in 0..(total - 1)
           /\ \A p \in Int : p >= pages => total <= Skipped(p, n)
  <1> DEFINE k == total + n - 1
  <1>1. k \in Int /\ pages = k \div n
    BY DEF TotalPages
  <1> HIDE DEF k
  <1>2. pages \in Int /\ Skipped(pages, n) <= k /\ k < Skipped(pages, n) + n
    BY <1>1, SkippedQuotient
  <1>3. \A p \in Int : /\ Skipped(p, n) \in Int /\ Skipped(0, n) = 0
                       /\ p < pages => Skipped(p, n) + n <= Skipped(pages, n)
                       /\ pages < p => Skipped(pages, n) + n <= Skipped(p, n)
                       /\ 0 < p => Skipped(0, n) + n <= Skipped(p, n)
    <2>1. 0 \in Int /\ pages \in Int
      BY <1>2
    <2> QED  BY <2>1, SkippedGrows
  <1>4. Skipped(pages, n) \in Int /\ k = total + n - 1
    BY <1>2, <1>3 DEF k
  <1>5. ASSUME NEW p \in 0..(pages - 1)
        PROVE  Skipped(p, n) \in 0..(total - 1)
    <2>1. p \in Int /\ p < pages /\ (p = 0 \/ 0 < p)
      BY <1>2
    <2>2. Skipped(p, n) \in Int /\ Skipped(p, n) + n <= Skipped(pages, n)
          /\ Skipped(p, n) >= 0
      BY <1>3, <2>1
    <2> QED  BY <1>2, <1>4, <2>2
  <1>6. ASSUME NEW p \in Int, p >= pages
        PROVE  total <= Skipped(p, n)
    <2>1. p = pages \/ pages < p
      BY <1>2, <1>6
    <2>2. Skipped(p, n) \in Int /\ (p = pages \/ Skipped(pages, n) + n <= Skipped(p, n))
      BY <1>3, <2>1
    <2> QED  BY <1>2, <1>4, <2>2
  <1>7. total <= Skipped(pages, n)
    BY <1>2, <1>4
  <1> QED  BY <1>2, <1>4, <1>5, <1>6, <1>7

(* A stretch of a sequence. *)
LEMMA Slice ==
    ASSUME NEW S, NEW s \in Seq(S), NEW a \in Nat, NEW m \in Nat, a + m <= Len(s)
    PROVE  /\ SubSeq(s, a + 1, a + m) \in Seq(S) /\ Len(SubSeq(s, a + 1, a + m)) = m
           /\ \A i \in 1..m : SubSeq(s, a + 1, a + m)[i] = s[a + i]
  <1>1. \A i \in (a + 1)..(a + m) : s[i] \in S
    <2>1. \A i \in (a + 1)..(a + m) : i \in 1..Len(s)
      OBVIOUS
    <2> QED  BY <2>1
  <1> DEFINE lo == a + 1
             hi == a + m
  <1>2. lo \in Int /\ hi \in Int /\ (lo <= hi \/ m = 0) /\ hi - lo + 1 = m
        /\ \A i \in 1..m : lo + i - 1 = a + i
    OBVIOUS
  <1>5. m = 0 => ~(lo <= hi)
    OBVIOUS
  <1> HIDE DEF lo, hi
  <1>3. \A i \in lo..hi : s[i] \in S
    BY <1>1 DEF lo, hi
  <1>4. /\ SubSeq(s, lo, hi) \in Seq(S)
        /\ Len(SubSeq(s, lo, hi)) = IF lo <= hi THEN hi - lo + 1 ELSE 0
        /\ \A i \in 1..(hi - lo + 1) : SubSeq(s, lo, hi)[i] = s[lo + i - 1]
    BY <1>2, <1>3, SubSeqProperties
  <1> QED  BY <1>2, <1>4, <1>5 DEF lo, hi

(* A page holds the items from its first on, at least one and at most as   *)
(* many as its size.                                                       *)
LEMMA OnePage ==
    ASSUME NEW S, NEW items \in Seq(S), NEW size \in Int, NEW n, n = PageSize(size),
           NEW p \in PageNumbers(Len(items), size), NEW m,
           m = IF Skipped(p, n) + n < Len(items) THEN n ELSE Len(items) - Skipped(p, n)
    PROVE  /\ n \in Nat \ {0} /\ p \in Nat /\ Skipped(p, n) \in Nat
           /\ m \in 1..n /\ Skipped(p, n) + m <= Len(items)
           /\ PageItems(items, p, size) \in Seq(S)
           /\ DOMAIN PageItems(items, p, size) = 1..m
           /\ \A i \in 1..m : PageItems(items, p, size)[i] = items[Skipped(p, n) + i]
  <1> DEFINE total == Len(items)
             pages == TotalPages(total, n)
             at    == Skipped(p, n)
             t     == SubSeq(items, at + 1, at + m)
  <1>1. n \in Nat \ {0} /\ total \in Nat
    BY DEF PageSize
  <1> HIDE DEF total, pages
  <1>2. p \in 0..(pages - 1)
    BY DEF PageNumbers, pages, total
  <1>3. pages \in Int /\ at \in 0..(total - 1) /\ Skipped(p + 1, n) = at + n
    <2>1. pages \in Int /\ \A q \in 0..(pages - 1) : Skipped(q, n) \in 0..(total - 1)
      BY <1>1, PagesNeeded DEF pages
    <2>2. p \in Int
      BY <1>2, <2>1
    <2> QED  BY <1>1, <1>2, <2>1, <2>2, SkippedGrows
  <1>4. p \in Nat /\ ~(p < 0) /\ ~(p > pages - 1) /\ total # 0
    BY <1>1, <1>2, <1>3
  <1>5. at + m = IF Skipped(p + 1, n) < total THEN Skipped(p + 1, n) ELSE total
    <2>1. m = IF at + n < total THEN n ELSE total - at
      BY DEF total
    <2> HIDE DEF at
    <2> QED  BY <1>1, <1>3, <2>1
  <1>6. PageItems(items, p, size) = t
    <2>1. (p + 1) * n = Skipped(p + 1, n) /\ p * n = at
      BY DEF Skipped
    <2> HIDE DEF at
    <2>2. PageItems(items, p, size)
             = SubSeq(items, p * n + 1, IF (p + 1) * n < total THEN (p + 1) * n ELSE total)
      BY <1>4 DEF PageItems, total, pages
    <2> QED  BY <1>5, <2>1, <2>2
  <1>7. m \in 1..n /\ at + m <= total
    <2>1. m = IF at + n < total THEN n ELSE total - at
      BY DEF total
    <2> HIDE DEF at
    <2> QED  BY <1>1, <1>3, <2>1
  <1>8. t \in Seq(S) /\ Len(t) = m /\ \A i \in 1..m : t[i] = items[at + i]
    <2> HIDE DEF at
    <2>1. items \in Seq(S) /\ at \in Nat /\ m \in Nat /\ at + m <= Len(items)
      BY <1>1, <1>3, <1>7 DEF total
    <2> QED  BY <2>1, Slice, SMTT(60)
  <1>9. DOMAIN t = 1..m /\ Skipped(p, n) \in Nat
    BY <1>1, <1>3, <1>8
  <1> QED  BY <1>1, <1>4, <1>6, <1>7, <1>8, <1>9 DEF total

(* The items before a place: those of the pages before and those above it. *)
Rank(a, n) == Skipped(a[1], n) + a[2]

(* Turning the pages of a list reads the list. *)
LEMMA Paging ==
    ASSUME NEW S, NEW items \in Seq(S), NEW size \in Int, NEW n, n = PageSize(size),
           NEW shown, DOMAIN shown = PageNumbers(Len(items), size),
           \A p \in PageNumbers(Len(items), size) : shown[p] = PageItems(items, p, size)
    PROVE  /\ \A a \in Places(shown) : Rank(a, n) \in DOMAIN items
                                       /\ At(shown, a) = items[Rank(a, n)]
           /\ \A a, b \in Places(shown) : Earlier(a, b) => Rank(a, n) < Rank(b, n)
           /\ \A k \in DOMAIN items : \E a \in Places(shown) : Rank(a, n) = k
  <1> DEFINE total   == Len(items)
             Size(p) == IF Skipped(p, n) + n < Len(items) THEN n ELSE Len(items) - Skipped(p, n)
             numbers == PageNumbers(Len(items), size)
  <1>1. n \in Nat \ {0} /\ total \in Nat /\ DOMAIN items = 1..total
    BY DEF PageSize
  <1>2. \A p \in numbers :
          /\ p \in Nat /\ Skipped(p, n) \in Nat
          /\ Size(p) \in 1..n /\ Skipped(p, n) + Size(p) <= total
          /\ DOMAIN shown[p] = 1..Size(p)
          /\ \A i \in 1..Size(p) : shown[p][i] = items[Skipped(p, n) + i]
    <2> TAKE p \in numbers
    <2> DEFINE m == Size(p)
    <2>1. m = IF Skipped(p, n) + n < Len(items) THEN n ELSE Len(items) - Skipped(p, n)
      OBVIOUS
    <2>2. shown[p] = PageItems(items, p, size) /\ p \in PageNumbers(Len(items), size)
      OBVIOUS
    <2> HIDE DEF m
    <2>3. /\ p \in Nat /\ Skipped(p, n) \in Nat /\ m \in 1..n /\ Skipped(p, n) + m <= Len(items)
          /\ DOMAIN PageItems(items, p, size) = 1..m
          /\ \A i \in 1..m : PageItems(items, p, size)[i] = items[Skipped(p, n) + i]
      BY <2>1, <2>2, OnePage
    <2> QED  BY <2>2, <2>3 DEF m
  <1>3. DOMAIN shown = numbers
    OBVIOUS
  <1>0. \A p : Size(p) = IF Skipped(p, n) + n < total THEN n ELSE total - Skipped(p, n)
    OBVIOUS
  <1> HIDE DEF Size, total, numbers
  <1>4. ASSUME NEW a \in Places(shown)
        PROVE  /\ a[1] \in numbers /\ a[1] \in Nat /\ Skipped(a[1], n) \in Nat
               /\ a[2] \in 1..n /\ Rank(a, n) \in DOMAIN items
               /\ At(shown, a) = items[Rank(a, n)]
    <2>1. PICK p \in numbers : \E i \in 1..Size(p) : a = <<p, i>>
      BY <1>2, <1>3 DEF Places
    <2>2. PICK i \in 1..Size(p) : a = <<p, i>>
      BY <2>1
    <2>3. a[1] = p /\ a[2] = i
      BY <2>2
    <2>4. /\ p \in Nat /\ Skipped(p, n) \in Nat
          /\ Size(p) \in 1..n /\ Skipped(p, n) + Size(p) <= total
          /\ shown[p][i] = items[Skipped(p, n) + i]
      BY <1>2
    <2>5. i \in 1..n /\ Skipped(p, n) + i \in 1..total
      BY <1>1, <2>4
    <2> QED  BY <1>1, <2>3, <2>4, <2>5 DEF At, Rank
  <1>5. ASSUME NEW a \in Places(shown), NEW b \in Places(shown), Earlier(a, b)
        PROVE  Rank(a, n) < Rank(b, n)
    <2>1. /\ a[1] \in Nat /\ b[1] \in Nat /\ a[2] \in 1..n /\ b[2] \in 1..n
          /\ Skipped(a[1], n) \in Nat /\ Skipped(b[1], n) \in Nat
      BY <1>4
    <2>2. CASE a[1] < b[1]
      <3>1. Skipped(a[1], n) + n <= Skipped(b[1], n)
        <4>1. a[1] \in Int /\ b[1] \in Int
          BY <2>1
        <4> QED  BY <1>1, <2>2, <4>1, SkippedGrows
      <3> QED  BY <1>1, <2>1, <3>1 DEF Rank
    <2>3. CASE a[1] = b[1] /\ a[2] < b[2]
      BY <1>1, <2>1, <2>3 DEF Rank
    <2> QED  BY <1>5, <2>2, <2>3 DEF Earlier
  <1>6. ASSUME NEW k \in DOMAIN items
        PROVE  \E a \in Places(shown) : Rank(a, n) = k
    <2> DEFINE q == (k - 1) \div n
               i == k - Skipped(q, n)
               pages == TotalPages(total, n)
    <2>1. k \in 1..total /\ k - 1 \in Int
      BY <1>1
    <2>2. q \in Int /\ Skipped(q, n) <= k - 1 /\ k - 1 < Skipped(q, n) + n
      BY <1>1, <2>1, SkippedQuotient
    <2>3. pages \in Int /\ \A p \in Int : p >= pages => total <= Skipped(p, n)
      BY <1>1, PagesNeeded
    <2>4. numbers = 0..(pages - 1)
      BY DEF numbers, PageNumbers, total
    <2> HIDE DEF q, pages
    <2>5. Skipped(q, n) \in Int /\ Skipped(0, n) = 0
          /\ (q < 0 => Skipped(q, n) + n <= Skipped(0, n))
      <3>1. 0 \in Int /\ q \in Int
        BY <2>2
      <3> QED  BY <1>1, <3>1, SkippedGrows
    <2>6. q >= 0
      BY <1>1, <2>1, <2>2, <2>5
    <2>7. q < pages
      BY <1>1, <2>1, <2>2, <2>3, <2>5
    <2>8. q \in numbers
      BY <2>2, <2>3, <2>4, <2>6, <2>7
    <2>9. i \in 1..n /\ i <= total - Skipped(q, n) /\ Skipped(q, n) + i = k
      BY <1>1, <2>1, <2>2, <2>5
    <2>10. i \in 1..Size(q)
      BY <1>0, <1>1, <2>5, <2>9
    <2> HIDE DEF i
    <2>11. <<q, i>> \in Places(shown)
      BY <1>2, <1>3, <2>8, <2>10 DEF Places
    <2>12. Rank(<<q, i>>, n) = k
      BY <2>9 DEF Rank
    <2> QED  BY <2>11, <2>12
  <1> QED  BY <1>4, <1>5, <1>6

(* A page number beyond either end is taken for the nearest page. *)
LEMMA NearestPage ==
    ASSUME NEW S, NEW items \in Seq(S), NEW size \in Int, NEW p \in Int,
           p \notin PageNumbers(Len(items), size)
    PROVE  \/ /\ PageNumbers(Len(items), size) = {}
              /\ PageItems(items, p, size) = <<>>
           \/ \E q \in PageNumbers(Len(items), size) :
                 /\ IF p < 0 THEN q = 0 ELSE q + 1 \notin PageNumbers(Len(items), size)
                 /\ PageItems(items, p, size) = PageItems(items, q, size)
  <1> DEFINE total == Len(items)
             n     == PageSize(size)
             pages == TotalPages(total, n)
             numbers == PageNumbers(Len(items), size)
  <1>1. n \in Nat \ {0} /\ total \in Nat
    BY DEF PageSize
  <1>2. numbers = 0..(pages - 1)
    BY DEF PageNumbers
  <1> HIDE DEF n, total
  <1>3. /\ pages \in Int
        /\ Skipped(pages, n) <= total + n - 1 /\ total <= Skipped(pages, n)
        /\ \A q \in Int : q >= pages => total <= Skipped(q, n)
    BY <1>1, PagesNeeded
  <1>4. Skipped(0, n) = 0 /\ Skipped(pages, n) \in Int
        /\ (pages < 0 => Skipped(pages, n) + n <= Skipped(0, n))
        /\ (0 < pages => Skipped(0, n) + n <= Skipped(pages, n))
    <2>1. 0 \in Int /\ pages \in Int
      BY <1>3
    <2> HIDE DEF pages
    <2> QED  BY <1>1, <2>1, SkippedGrows
  <1>5. CASE total = 0
    <2>1. pages <= 0
      BY <1>1, <1>3, <1>4, <1>5
    <2>2. numbers = {}
      BY <1>2, <1>3, <2>1
    <2>3. items = <<>>
      BY <1>5 DEF total
    <2>4. PageItems(items, p, size) = SubSeq(items, 0 * n + 1, IF (0 + 1) * n < 0 THEN (0 + 1) * n ELSE 0)
      BY <1>5 DEF PageItems, total, n
    <2>5. 0 * n + 1 = 1 /\ (0 + 1) * n = n /\ ~(n < 0)
      BY <1>1
    <2>6. PageItems(items, p, size) = <<>>
      BY <2>3, <2>4, <2>5
    <2> QED  BY <2>2, <2>6
  <1>6. CASE total # 0
    <2>1. pages > 0
      BY <1>1, <1>3, <1>4, <1>6
    <2> DEFINE q == IF p < 0 THEN 0 ELSE pages - 1
    <2>2. q \in numbers /\ (IF p < 0 THEN q = 0 ELSE q + 1 \notin numbers)
      BY <1>2, <1>3, <2>1
    <2>3. p < 0 \/ p > pages - 1
      BY <1>2, <1>3
    <2>4. PageItems(items, p, size) = PageItems(items, q, size)
      <3> DEFINE Cut0(at) == SubSeq(items, at * n + 1, IF (at + 1) * n < total THEN (at + 1) * n ELSE total)
      <3>1. PageItems(items, p, size) = Cut0(q)
        <4>1. CASE p < 0
          BY <1>6, <4>1 DEF PageItems, total, n
        <4>2. CASE ~(p < 0) /\ p > pages - 1
          BY <1>6, <4>2 DEF PageItems, total, n
        <4> QED  BY <2>3, <4>1, <4>2
      <3>2. ~(q < 0) /\ ~(q > pages - 1)
        BY <1>3, <2>1
      <3> HIDE DEF q
      <3>3. PageItems(items, q, size) = Cut0(q)
        BY <1>6, <3>2 DEF PageItems, total, n
      <3> QED  BY <3>1, <3>3
    <2> QED  BY <2>2, <2>4
  <1> QED  BY <1>5, <1>6

-----------------------------------------------------------------------------
(* The pages of the trades and of the equity curve. *)

(* The sort orders trades as its result is read. *)
LEMMA BeforeInOrder ==
    ASSUME NEW trades \in Seq(Int), NEW dir, NEW i \in DOMAIN trades, NEW k \in DOMAIN trades
    PROVE  Before(trades, dir, i, k) <=> InOrder(trades, dir, i, k)
  <1>1. trades[i] \in Int /\ trades[k] \in Int /\ i \in Int /\ k \in Int /\ Missing \in Int
    BY DEF Missing
  <1>2. SortValue(trades[i]) = IF trades[i] = Missing THEN <<1, 0>> ELSE <<0, trades[i]>>
    BY DEF SortValue
  <1>3. SortValue(trades[k]) = IF trades[k] = Missing THEN <<1, 0>> ELSE <<0, trades[k]>>
    BY DEF SortValue
  <1>4. Less(SortValue(trades[i]), SortValue(trades[k]))
          <=> trades[i] # Missing /\ (trades[k] = Missing \/ trades[i] < trades[k])
    BY <1>1, <1>2, <1>3 DEF Less
  <1>5. Less(SortValue(trades[k]), SortValue(trades[i]))
          <=> trades[k] # Missing /\ (trades[i] = Missing \/ trades[k] < trades[i])
    BY <1>1, <1>2, <1>3 DEF Less
  <1>6. SortValue(trades[i]) = SortValue(trades[k]) <=> trades[i] = trades[k]
    BY <1>1, <1>2, <1>3
  <1> QED  BY <1>4, <1>5, <1>6 DEF Before, InOrder

(* That is a strict total order of the places. *)
LEMMA InOrderTotal ==
    ASSUME NEW trades \in Seq(Int), NEW dir
    PROVE  /\ \A i \in DOMAIN trades : ~InOrder(trades, dir, i, i)
           /\ \A i, k \in DOMAIN trades :
                 i = k \/ InOrder(trades, dir, i, k) \/ InOrder(trades, dir, k, i)
           /\ \A h, i, k \in DOMAIN trades :
                 InOrder(trades, dir, h, i) /\ InOrder(trades, dir, i, k)
                    => InOrder(trades, dir, h, k)
  <1>1. Missing \in Int /\ \A i \in DOMAIN trades : i \in Int /\ trades[i] \in Int
    BY DEF Missing
  <1>2. \A i \in DOMAIN trades : ~InOrder(trades, dir, i, i)
    BY <1>1 DEF InOrder
  <1>3. \A i, k \in DOMAIN trades :
           i = k \/ InOrder(trades, dir, i, k) \/ InOrder(trades, dir, k, i)
    BY <1>1 DEF InOrder
  <1>4. \A h, i, k \in DOMAIN trades :
           InOrder(trades, dir, h, i) /\ InOrder(trades, dir, i, k) => InOrder(trades, dir, h, k)
    BY <1>1 DEF InOrder
  <1> QED  BY <1>2, <1>3, <1>4

(* The sorted trades are all the trades, in order. *)
LEMMA TradesSorted ==
    ASSUME NEW trades \in Seq(Int), NEW dir
    PROVE  LET list == SortedTrades(trades, dir)
           IN  /\ list \in Seq(DOMAIN trades) /\ ToSet(list) = DOMAIN trades
               /\ Len(list) = Len(trades)
               /\ \A p, q \in DOMAIN list : p < q => InOrder(trades, dir, list[p], list[q])
  <1> DEFINE S    == DOMAIN trades
             upto == [k \in S |-> {i \in S : i = k \/ Before(trades, dir, i, k)}]
             rank == [k \in S |-> Cardinality({i \in S : i = k \/ Before(trades, dir, i, k)})]
             list == ByRank(rank)
  <1>1. SortedTrades(trades, dir) = list
    BY DEF SortedTrades
  <1>2. DOMAIN rank = S /\ \A k \in S : rank[k] = Cardinality(upto[k])
    OBVIOUS
  <1>3. \A k \in S : \A i : i \in upto[k] <=> i \in S /\ (i = k \/ Before(trades, dir, i, k))
    OBVIOUS
  <1>4. S = 1..Len(trades) /\ Len(trades) \in Nat
    OBVIOUS
  <1>5. IsFiniteSet(S) /\ Cardinality(S) = Len(trades)
    BY <1>4, IntervalSize
  <1> HIDE DEF rank, upto
  <1>6. \A k \in S : \A i : i \in upto[k] <=> i \in S /\ (i = k \/ InOrder(trades, dir, i, k))
    BY <1>3, BeforeInOrder
  <1>7. \A k \in S : upto[k] \subseteq S /\ k \in upto[k]
    BY <1>6
  <1>8. /\ \A i \in S : ~InOrder(trades, dir, i, i)
        /\ \A i, k \in S : i = k \/ InOrder(trades, dir, i, k) \/ InOrder(trades, dir, k, i)
        /\ \A h, i, k \in S :
              InOrder(trades, dir, h, i) /\ InOrder(trades, dir, i, k) => InOrder(trades, dir, h, k)
    BY InOrderTotal
  <1> HIDE DEF S
  <1>9. ASSUME NEW i \in S, NEW k \in S, InOrder(trades, dir, i, k)
        PROVE  upto[i] \subseteq upto[k] /\ k \notin upto[i]
    BY <1>6, <1>8, <1>9
  <1>10. \A i, k \in S : \/ i = k
                         \/ upto[i] \subseteq upto[k] /\ k \notin upto[i]
                         \/ upto[k] \subseteq upto[i] /\ i \notin upto[k]
    BY <1>8, <1>9
  <1>11. /\ list \in Seq(S) /\ Len(list) = Cardinality(S)
         /\ ToSet(list) = S /\ Distinct(list)
         /\ \A p, q \in 1..Cardinality(S) : p < q => list[p] \in upto[list[q]]
    BY <1>2, <1>5, <1>7, <1>10, Ordered
  <1> HIDE DEF list
  <1>12. \A p, q \in DOMAIN list : p < q => InOrder(trades, dir, list[p], list[q])
    <2> SUFFICES ASSUME NEW p \in DOMAIN list, NEW q \in DOMAIN list, p < q
                 PROVE  InOrder(trades, dir, list[p], list[q])
      OBVIOUS
    <2>1. list[p] \in S /\ list[q] \in S /\ p \in 1..Cardinality(S) /\ q \in 1..Cardinality(S)
          /\ list[p] # list[q]
      BY <1>4, <1>5, <1>11 DEF Distinct
    <2> QED  BY <1>6, <1>11, <2>1
  <1> QED  BY <1>1, <1>5, <1>11, <1>12 DEF S

(* Turning the pages of a readable result reads all its trades in order. *)
LEMMA TradesPaged ==
    ASSUME NEW r \in Results, Get(r), NEW dir \in {"asc", "desc"}, NEW size \in PageSizes
    PROVE  LET trades  == Trades[r]
               numbers == PageNumbers(Len(trades), size)
               shown   == [p \in numbers |-> GetBacktestTrades(r, p, size, dir)]
           IN  /\ {At(shown, a) : a \in Places(shown)} = DOMAIN trades
               /\ \A a, b \in Places(shown) :
                     Earlier(a, b) => InOrder(trades, dir, At(shown, a), At(shown, b))
               /\ \A p \in -2..(Len(trades) + 1) :
                     \/ p \in numbers
                     \/ numbers = {} /\ GetBacktestTrades(r, p, size, dir) = <<>>
                     \/ \E q \in numbers :
                           /\ IF p < 0 THEN q = 0 ELSE q + 1 \notin numbers
                           /\ GetBacktestTrades(r, p, size, dir) = shown[q]
  <1> DEFINE trades  == Trades[r]
             numbers == PageNumbers(Len(trades), size)
             shown   == [p \in numbers |-> GetBacktestTrades(r, p, size, dir)]
             list    == SortedTrades(trades, dir)
             n       == PageSize(size)
  <1>1. trades \in Seq(Int) /\ size \in Int /\ n = PageSize(size)
    BY StoreAssumption
  <1>2. \A p : GetBacktestTrades(r, p, size, dir) = PageItems(list, p, size)
    BY DEF GetBacktestTrades
  <1> HIDE DEF trades, n
  <1>3. /\ list \in Seq(DOMAIN trades) /\ ToSet(list) = DOMAIN trades /\ Len(list) = Len(trades)
        /\ \A p, q \in DOMAIN list : p < q => InOrder(trades, dir, list[p], list[q])
    BY <1>1, TradesSorted
  <1>4. /\ DOMAIN shown = PageNumbers(Len(list), size)
        /\ \A p \in PageNumbers(Len(list), size) : shown[p] = PageItems(list, p, size)
    BY <1>2, <1>3
  <1>5. \A p \in numbers : shown[p] = PageItems(list, p, size)
    BY <1>2
  <1> HIDE DEF list, shown
  <1>6. /\ \A a \in Places(shown) : Rank(a, n) \in DOMAIN list /\ At(shown, a) = list[Rank(a, n)]
        /\ \A a, b \in Places(shown) : Earlier(a, b) => Rank(a, n) < Rank(b, n)
        /\ \A k \in DOMAIN list : \E a \in Places(shown) : Rank(a, n) = k
    <2> DEFINE D == DOMAIN trades
    <2>1. list \in Seq(D)
      BY <1>3
    <2>2. size \in Int /\ n = PageSize(size)
      BY <1>1
    <2> HIDE DEF numbers, D
    <2> QED  BY <1>4, <2>1, <2>2, Paging
  <1>7. {At(shown, a) : a \in Places(shown)} = DOMAIN trades
    <2>1. \A x : x \in DOMAIN trades <=> \E k \in DOMAIN list : list[k] = x
      BY <1>3 DEF ToSet
    <2> QED  BY <1>6, <2>1
  <1>8. \A a, b \in Places(shown) :
           Earlier(a, b) => InOrder(trades, dir, At(shown, a), At(shown, b))
    BY <1>3, <1>6
  <1>9. ASSUME NEW p \in -2..(Len(trades) + 1)
        PROVE  \/ p \in numbers
               \/ numbers = {} /\ GetBacktestTrades(r, p, size, dir) = <<>>
               \/ \E q \in numbers :
                     /\ IF p < 0 THEN q = 0 ELSE q + 1 \notin numbers
                     /\ GetBacktestTrades(r, p, size, dir) = shown[q]
    <2>1. p \in Int
      BY <1>1
    <2>2. numbers = PageNumbers(Len(list), size)
      BY <1>3
    <2> HIDE DEF numbers
    <2>3. \/ p \in numbers
          \/ numbers = {} /\ PageItems(list, p, size) = <<>>
          \/ \E q \in numbers :
                /\ IF p < 0 THEN q = 0 ELSE q + 1 \notin numbers
                /\ PageItems(list, p, size) = PageItems(list, q, size)
      BY <1>1, <1>3, <2>1, <2>2, NearestPage
    <2> QED  BY <1>2, <1>5, <2>3
  <1> QED  BY <1>7, <1>8, <1>9 DEF trades, shown

(* Points of an equity curve. *)
Points == [day : Int, drawdown : Int]

(* The first and the last position with a property. *)
LEMMA FirstAndLast ==
    ASSUME NEW N \in Nat, NEW T \in SUBSET (1..N), T # {}
    PROVE  /\ \E k \in T : \A j \in T : k <= j
           /\ \E k \in T : \A j \in T : j <= k
  <1>1. \E k \in T : \A j \in T : k <= j
    <2>1. T \in SUBSET Nat
      OBVIOUS
    <2> QED  BY <2>1, Least
  <1>2. \E k \in T : \A j \in T : j <= k
    <2> DEFINE U == {N - k : k \in T}
    <2>1. U \in SUBSET Nat /\ U # {}
      <3>1. \A k \in T : N - k \in Nat
        OBVIOUS
      <3> QED  BY <3>1
    <2> HIDE DEF U
    <2>2. PICK m \in U : \A u \in U : m <= u
      BY <2>1, Least
    <2>3. PICK k \in T : m = N - k
      BY DEF U
    <2>4. \A j \in T : N - j \in U /\ j \in Int
      BY DEF U
    <2>5. \A j \in T : j <= k
      BY <2>2, <2>3, <2>4
    <2> QED  BY <2>5
  <1> QED  BY <1>1, <1>2

(* The daily view has each day once, as the curve ends it. *)
LEMMA DailyListed ==
    ASSUME NEW curve \in Seq(Points)
    PROVE  LET list == DownsampleByPrefix(curve)
           IN  /\ list \in Seq(Points)
               /\ \A p \in DOMAIN list : \E k \in DOMAIN curve :
                     /\ curve[k] = list[p]
                     /\ \A j \in (k + 1)..Len(curve) : curve[j].day # curve[k].day
               /\ \A k \in DOMAIN curve : \E p \in DOMAIN list : list[p].day = curve[k].day
               /\ \A p, q \in DOMAIN list : p < q => list[p].day # list[q].day
  <1> DEFINE N      == Len(curve)
             firsts == {k \in DOMAIN curve : \A j \in 1..(k - 1) : curve[j].day # curve[k].day}
             rank   == [k \in firsts |-> Cardinality({j \in firsts : j <= k})]
             place  == ByRank(rank)
             key    == [k \in firsts |-> -k]
             LastOn(day) == CHOOSE k \in DOMAIN curve :
                               /\ curve[k].day = day
                               /\ \A j \in (k + 1)..Len(curve) : curve[j].day # day
             list   == [p \in DOMAIN place |-> curve[LastOn(curve[place[p]].day)]]
  <1>1. DownsampleByPrefix(curve) = list
    BY DEF DownsampleByPrefix
  <1>2. /\ N \in Nat /\ DOMAIN curve = 1..N /\ IsFiniteSet(1..N)
        /\ \A k \in 1..N : curve[k] \in Points /\ curve[k].day \in Int
    <2>1. N \in Nat /\ DOMAIN curve = 1..N /\ \A k \in 1..N : curve[k] \in Points
      OBVIOUS
    <2> QED  BY <2>1, IntervalSize DEF Points
  <1>3. firsts \subseteq 1..N /\ IsFiniteSet(firsts)
    <2>1. firsts \in SUBSET (1..N)
      BY <1>2
    <2> HIDE DEF firsts
    <2> QED  BY <1>2, <2>1, FS_Subset
  <1>4. \A k \in 1..N : k \in firsts <=> \A j \in 1..(k - 1) : curve[j].day # curve[k].day
    BY <1>2
  <1>5. DOMAIN rank = firsts /\ \A k \in firsts : rank[k] = Cardinality({j \in firsts : key[j] >= key[k]})
    <2>1. \A k \in firsts : {j \in firsts : j <= k} = {j \in firsts : key[j] >= key[k]}
      BY <1>2
    <2>2. DOMAIN rank = firsts /\ \A k \in firsts : rank[k] = Cardinality({j \in firsts : j <= k})
      OBVIOUS
    <2> HIDE DEF firsts, rank, key
    <2> QED  BY <2>1, <2>2
  <1>6. (\A k \in firsts : key[k] \in Int) /\ \A j, k \in firsts : key[j] = key[k] => j = k
    BY <1>2
  <1> HIDE DEF firsts, rank, key
  <1>7. /\ place \in Seq(firsts) /\ ToSet(place) = firsts /\ Distinct(place)
    <2>1. IsFiniteSet(firsts)
      BY <1>3
    <2> QED  BY <1>5, <1>6, <2>1, Keyed
  <1> HIDE DEF place
  <1>8. ASSUME NEW k \in 1..N
        PROVE  /\ LastOn(curve[k].day) \in 1..N
               /\ curve[LastOn(curve[k].day)].day = curve[k].day
               /\ \A j \in (LastOn(curve[k].day) + 1)..N : curve[j].day # curve[k].day
    <2> DEFINE T == {j \in 1..N : curve[j].day = curve[k].day}
    <2>1. T \in SUBSET (1..N) /\ T # {}
      OBVIOUS
    <2>2. \E m \in T : \A j \in T : j <= m
      BY <1>2, <2>1, FirstAndLast
    <2>3. \E m \in DOMAIN curve :
             /\ curve[m].day = curve[k].day
             /\ \A j \in (m + 1)..Len(curve) : curve[j].day # curve[k].day
      BY <1>2, <2>2
    <2> QED  BY <1>2, <2>3
  <1>9. ASSUME NEW k \in 1..N
        PROVE  \E f \in firsts : curve[f].day = curve[k].day
    <2> DEFINE T == {j \in 1..N : curve[j].day = curve[k].day}
    <2>1. T \in SUBSET (1..N) /\ T # {}
      OBVIOUS
    <2>2. \E m \in T : \A j \in T : m <= j
      BY <1>2, <2>1, FirstAndLast
    <2>3. PICK m \in 1..N : curve[m].day = curve[k].day
                            /\ \A j \in 1..N : curve[j].day = curve[k].day => m <= j
      BY <2>2
    <2>4. \A j \in 1..(m - 1) : j \in 1..N /\ ~(m <= j)
      BY <1>2
    <2>5. m \in firsts
      BY <1>4, <2>3, <2>4
    <2> QED  BY <2>3, <2>5
  <1>10. ASSUME NEW f \in firsts, NEW g \in firsts, curve[f].day = curve[g].day
         PROVE  f = g
    <2>1. f \in 1..N /\ g \in 1..N
      BY <1>3
    <2>2. f < g => f \in 1..(g - 1)
      BY <1>2, <2>1
    <2>3. g < f => g \in 1..(f - 1)
      BY <1>2, <2>1
    <2>4. ~(f < g) /\ ~(g < f)
      BY <1>4, <1>10, <2>1, <2>2, <2>3
    <2> QED  BY <2>1, <2>4
  <1>11. \A p \in DOMAIN place : /\ place[p] \in firsts /\ place[p] \in 1..N
                                 /\ list[p] = curve[LastOn(curve[place[p]].day)]
    <2>1. \A p \in DOMAIN place : list[p] = curve[LastOn(curve[place[p]].day)]
      OBVIOUS
    <2>2. \A p \in DOMAIN place : place[p] \in firsts
      BY <1>7
    <2> HIDE DEF list
    <2> QED  BY <1>3, <2>1, <2>2
  <1>12. DOMAIN list = DOMAIN place /\ \E m \in Nat : DOMAIN place = 1..m
    BY <1>7
  <1> HIDE DEF LastOn
  <1>13. \A p \in DOMAIN place : /\ list[p] \in Points /\ list[p].day = curve[place[p]].day
                                 /\ \E k \in 1..N : /\ curve[k] = list[p]
                                                    /\ \A j \in (k + 1)..N : curve[j].day # curve[k].day
    <2> TAKE p \in DOMAIN place
    <2> DEFINE k == LastOn(curve[place[p]].day)
    <2>1. /\ k \in 1..N /\ curve[k].day = curve[place[p]].day /\ list[p] = curve[k]
          /\ \A j \in (k + 1)..N : curve[j].day # curve[place[p]].day
      BY <1>8, <1>11
    <2> HIDE DEF k, list
    <2> QED  BY <1>2, <2>1
  <1>14. list \in Seq(Points)
    <2>1. PICK m \in Nat : DOMAIN place = 1..m
      BY <1>12
    <2>2. list = [p \in 1..m |-> list[p]] /\ \A p \in 1..m : list[p] \in Points
      BY <1>12, <1>13, <2>1
    <2> HIDE DEF list
    <2> QED  BY <2>1, <2>2
  <1> HIDE DEF list
  <1>15. \A k \in 1..N : \E p \in DOMAIN place : list[p].day = curve[k].day
    <2>1. \A f \in firsts : \E p \in DOMAIN place : place[p] = f
      BY <1>7 DEF ToSet
    <2> QED  BY <1>9, <1>13, <2>1
  <1>16. \A p, q \in DOMAIN place : p < q => list[p].day # list[q].day
    <2> SUFFICES ASSUME NEW p \in DOMAIN place, NEW q \in DOMAIN place, p < q,
                        list[p].day = list[q].day
                 PROVE  FALSE
      OBVIOUS
    <2>1. place[p] = place[q]
      BY <1>10, <1>11, <1>13
    <2>2. p = q
      BY <1>7, <2>1 DEF Distinct
    <2> QED  BY <1>12, <2>2
  <1>17. \A p \in DOMAIN list : \E k \in DOMAIN curve :
            /\ curve[k] = list[p]
            /\ \A j \in (k + 1)..Len(curve) : curve[j].day # curve[k].day
    BY <1>2, <1>12, <1>13
  <1>18. \A k \in DOMAIN curve : \E p \in DOMAIN list : list[p].day = curve[k].day
    BY <1>2, <1>12, <1>15
  <1>19. \A p, q \in DOMAIN list : p < q => list[p].day # list[q].day
    BY <1>12, <1>16
  <1> QED  BY <1>1, <1>14, <1>17, <1>18, <1>19

(* Where elements come after larger and larger sets of others, a finite    *)
(* number of them has a first.                                             *)
LEMMA FirstOfChain ==
    ASSUME NEW S, IsFiniteSet(S), S # {}, NEW upto,
           \A x \in S : upto[x] \subseteq S /\ x \in upto[x],
           \A x, y \in S : \/ x = y
                           \/ upto[x] \subseteq upto[y] /\ y \notin upto[x]
                           \/ upto[y] \subseteq upto[x] /\ x \notin upto[y]
    PROVE  \E x \in S : \A y \in S : x \in upto[y]
  <1> DEFINE rank == [x \in S |-> Cardinality(upto[x])]
             list == ByRank(rank)
             N    == Cardinality(S)
  <1>1. DOMAIN rank = S /\ \A x \in S : rank[x] = Cardinality(upto[x])
    OBVIOUS
  <1> HIDE DEF rank
  <1>2. /\ list \in Seq(S) /\ Len(list) = N /\ ToSet(list) = S /\ N \in Nat
        /\ \A p, q \in 1..N : p < q => list[p] \in upto[list[q]]
    BY <1>1, Ordered
  <1> HIDE DEF list, N
  <1>3. \A y \in S : \E q \in 1..N : list[q] = y
    BY <1>2 DEF ToSet
  <1>4. N >= 1
    BY <1>2, <1>3
  <1>5. list[1] \in S
    BY <1>2, <1>4
  <1>6. \A y \in S : list[1] \in upto[y]
    <2> TAKE y \in S
    <2>1. PICK q \in 1..N : list[q] = y
      BY <1>3
    <2>2. q = 1 \/ 1 < q
      BY <1>2
    <2>3. q = 1 => list[1] \in upto[y]
      BY <1>5, <2>1
    <2>4. 1 < q => list[1] \in upto[y]
      BY <1>2, <1>4, <2>1
    <2> QED  BY <2>2, <2>3, <2>4
  <1> QED  BY <1>5, <1>6

(* The lower of two points, the earlier of equally low ones. *)
Deeper(curve, k, j) == \/ curve[k].drawdown < curve[j].drawdown
                       \/ curve[k].drawdown = curve[j].drawdown /\ k <= j

(* The drawdown events are the days under water in order, each at its      *)
(* lowest point.                                                           *)
LEMMA WorstListed ==
    ASSUME NEW curve \in Seq(Points)
    PROVE  LET list == DrawdownEvents(curve)
           IN  /\ list \in Seq(Points)
               /\ \A p \in DOMAIN list : \E k \in DOMAIN curve :
                     /\ curve[k] = list[p] /\ curve[k].drawdown < 0
                     /\ \A j \in DOMAIN curve : curve[j].day = curve[k].day =>
                                                  curve[k].drawdown <= curve[j].drawdown
               /\ \A k \in DOMAIN curve : curve[k].drawdown < 0 =>
                     \E p \in DOMAIN list : list[p].day = curve[k].day
               /\ \A p, q \in DOMAIN list : p < q => list[p].day < list[q].day
  <1> DEFINE N     == Len(curve)
             worst == {k \in DOMAIN curve :
                          /\ curve[k].drawdown < 0
                          /\ \A j \in DOMAIN curve : curve[j].day = curve[k].day
                                                       => Deeper(curve, k, j)}
             rank  == [k \in worst |-> Cardinality({j \in worst : curve[j].day <= curve[k].day})]
             place == ByRank(rank)
             key   == [k \in worst |-> -curve[k].day]
             list  == [p \in DOMAIN place |-> curve[place[p]]]
  <1>1. DrawdownEvents(curve) = list
    BY DEF DrawdownEvents, Deeper
  <1>2. /\ N \in Nat /\ DOMAIN curve = 1..N /\ IsFiniteSet(1..N)
        /\ \A k \in 1..N : /\ k \in Int /\ curve[k] \in Points /\ curve[k].day \in Int
                           /\ curve[k].drawdown \in Int
    <2>1. N \in Nat /\ DOMAIN curve = 1..N /\ \A k \in 1..N : curve[k] \in Points
      OBVIOUS
    <2> QED  BY <2>1, IntervalSize DEF Points
  <1>3. worst \subseteq 1..N /\ IsFiniteSet(worst)
    <2>1. worst \in SUBSET (1..N)
      BY <1>2
    <2> HIDE DEF worst
    <2> QED  BY <1>2, <2>1, FS_Subset
  <1>4. \A k \in 1..N : k \in worst <=>
           /\ curve[k].drawdown < 0
           /\ \A j \in 1..N : curve[j].day = curve[k].day => Deeper(curve, k, j)
    BY <1>2
  <1>5. DOMAIN rank = worst
        /\ \A k \in worst : rank[k] = Cardinality({j \in worst : curve[j].day <= curve[k].day})
    OBVIOUS
  <1>6. DOMAIN key = worst /\ \A k \in worst : key[k] = -curve[k].day
    OBVIOUS
  <1> HIDE DEF worst, rank, key, N
  <1>7. \A k \in worst : rank[k] = Cardinality({j \in worst : key[j] >= key[k]})
    <2>1. \A j, k \in worst : curve[j].day <= curve[k].day <=> key[j] >= key[k]
      BY <1>2, <1>3, <1>6
    <2>2. \A k \in worst : {j \in worst : curve[j].day <= curve[k].day} = {j \in worst : key[j] >= key[k]}
      BY <2>1
    <2> QED  BY <1>5, <2>2
  <1>8. ASSUME NEW j \in worst, NEW k \in worst, curve[j].day = curve[k].day
        PROVE  j = k
    <2>1. j \in 1..N /\ k \in 1..N
      BY <1>3
    <2>2. Deeper(curve, j, k) /\ Deeper(curve, k, j)
      BY <1>4, <1>8, <2>1
    <2> QED  BY <1>2, <2>1, <2>2 DEF Deeper
  <1>9. /\ \A k \in worst : key[k] \in Int
        /\ \A j, k \in worst : key[j] = key[k] => j = k
    <2>1. \A k \in worst : key[k] \in Int /\ curve[k].day \in Int /\ key[k] = -curve[k].day
      BY <1>2, <1>3, <1>6
    <2> QED  BY <1>8, <2>1
  <1>10. /\ place \in Seq(worst) /\ ToSet(place) = worst /\ Distinct(place)
         /\ Len(place) = Cardinality(worst) /\ Cardinality(worst) \in Nat
         /\ \A p, q \in 1..Cardinality(worst) : p < q => key[place[p]] >= key[place[q]]
    <2>1. IsFiniteSet(worst) /\ DOMAIN rank = worst
      BY <1>3, <1>5
    <2> QED  BY <1>7, <1>9, <2>1, Keyed
  <1>11. DOMAIN list = DOMAIN place /\ \A p \in DOMAIN place : list[p] = curve[place[p]]
    OBVIOUS
  <1> HIDE DEF place
  <1>12. DOMAIN place = 1..Len(place) /\ Len(place) \in Nat
         /\ \A p \in DOMAIN place : place[p] \in worst /\ place[p] \in 1..N
    <2>1. place \in Seq(worst)
      BY <1>10
    <2>2. DOMAIN place = 1..Len(place) /\ Len(place) \in Nat
          /\ \A p \in DOMAIN place : place[p] \in worst
      BY <2>1
    <2> QED  BY <1>3, <2>2
  <1>13. list \in Seq(Points)
    <2>1. list = [p \in 1..Len(place) |-> list[p]] /\ \A p \in 1..Len(place) : list[p] \in Points
      BY <1>2, <1>11, <1>12
    <2> HIDE DEF list
    <2> QED  BY <1>12, <2>1
  <1> HIDE DEF list
  <1>14. \A p \in DOMAIN list : \E k \in DOMAIN curve :
            /\ curve[k] = list[p] /\ curve[k].drawdown < 0
            /\ \A j \in DOMAIN curve : curve[j].day = curve[k].day =>
                                         curve[k].drawdown <= curve[j].drawdown
    <2> TAKE p \in DOMAIN list
    <2>1. place[p] \in worst /\ place[p] \in 1..N /\ curve[place[p]] = list[p]
      BY <1>11, <1>12
    <2>2. \A j \in 1..N : Deeper(curve, place[p], j)
                            => curve[place[p]].drawdown <= curve[j].drawdown
      BY <1>2, <2>1 DEF Deeper
    <2> QED  BY <1>2, <1>4, <2>1, <2>2
  <1>15. ASSUME NEW k \in DOMAIN curve, curve[k].drawdown < 0
         PROVE  \E p \in DOMAIN list : list[p].day = curve[k].day
    <2> DEFINE S    == {j \in 1..N : curve[j].day = curve[k].day}
               upto == [y \in S |-> {x \in S : Deeper(curve, x, y)}]
    <2>1. S \in SUBSET (1..N) /\ k \in S
      BY <1>2
    <2>2. \A y \in S : \A x : x \in upto[y] <=> x \in S /\ Deeper(curve, x, y)
      OBVIOUS
    <2>3. \A x \in S : /\ x \in 1..N /\ x \in Int /\ curve[x].drawdown \in Int
                       /\ curve[x].day = curve[k].day
      BY <1>2
    <2>9. \A x \in 1..N : curve[x].day = curve[k].day => x \in S
      OBVIOUS
    <2> HIDE DEF S, upto
    <2>4. IsFiniteSet(S) /\ S # {}
      BY <1>2, <2>1, FS_Subset
    <2>5. \A x \in S : upto[x] \subseteq S /\ x \in upto[x]
      BY <2>2, <2>3 DEF Deeper
    <2>6. \A x, y \in S : \/ x = y
                          \/ upto[x] \subseteq upto[y] /\ y \notin upto[x]
                          \/ upto[y] \subseteq upto[x] /\ x \notin upto[y]
      <3>1. \A x, y \in S : x # y => \/ Deeper(curve, x, y) /\ ~Deeper(curve, y, x)
                                     \/ Deeper(curve, y, x) /\ ~Deeper(curve, x, y)
        BY <2>3 DEF Deeper
      <3>2. \A x, y, z \in S : Deeper(curve, z, x) /\ Deeper(curve, x, y) => Deeper(curve, z, y)
        BY <2>3 DEF Deeper
      <3> QED  BY <2>2, <3>1, <3>2
    <2>7. PICK x \in S : \A y \in S : x \in upto[y]
      BY <2>4, <2>5, <2>6, FirstOfChain
    <2>8. \A y \in S : Deeper(curve, x, y)
      BY <2>2, <2>7
    <2>10. x \in worst
      <3>1. curve[x].drawdown < 0
        BY <1>15, <2>1, <2>3, <2>8 DEF Deeper
      <3> QED  BY <1>4, <2>3, <2>8, <2>9, <3>1
    <2>11. PICK p \in DOMAIN place : place[p] = x
      BY <1>10, <2>10 DEF ToSet
    <2> QED  BY <1>11, <2>3, <2>11
  <1>16. \A p, q \in DOMAIN list : p < q => list[p].day < list[q].day
    <2> SUFFICES ASSUME NEW p \in DOMAIN place, NEW q \in DOMAIN place, p < q
                 PROVE  curve[place[p]].day < curve[place[q]].day
      BY <1>11
    <2>1. place[p] \in worst /\ place[q] \in worst /\ place[p] \in 1..N /\ place[q] \in 1..N
      BY <1>12
    <2>2. place[p] # place[q]
      BY <1>10, <1>12 DEF Distinct
    <2>3. key[place[p]] >= key[place[q]]
      BY <1>10, <1>12
    <2>4. curve[place[p]].day # curve[place[q]].day
      BY <1>8, <2>1, <2>2
    <2>5. key[place[p]] = -curve[place[p]].day /\ key[place[q]] = -curve[place[q]].day
          /\ curve[place[p]].day \in Int /\ curve[place[q]].day \in Int
      BY <1>2, <1>6, <2>1
    <2> QED  BY <2>3, <2>4, <2>5
  <1> QED  BY <1>1, <1>13, <1>14, <1>15, <1>16

(* A client turns all the pages of an equity view. *)
PagesOf(shown, r, mode, size) ==
    /\ DOMAIN shown = PageNumbers(Len(EquityPoints(Equity[r], mode)), size)
    /\ \A p \in DOMAIN shown : shown[p] = GetBacktestEquity(r, mode, p, size)

(* Pages show each day of a curve once, at its last point. *)
EachDayOnce(daily, curve) ==
    /\ {At(daily, a).day : a \in Places(daily)} = {pt.day : pt \in ToSet(curve)}
    /\ \A a, b \in Places(daily) : Earlier(a, b) => At(daily, a).day # At(daily, b).day
    /\ \A a \in Places(daily) : \E k \in DOMAIN curve :
          /\ curve[k] = At(daily, a)
          /\ \A j \in (k + 1)..Len(curve) : curve[j].day # curve[k].day

(* The views by day do. *)
LEMMA DaysPaged ==
    ASSUME NEW r \in Results, Get(r), NEW size \in PageSizes, NEW mode,
           EquityPoints(Equity[r], mode) = DownsampleByPrefix(Equity[r]),
           NEW daily, PagesOf(daily, r, mode, size)
    PROVE  EachDayOnce(daily, Equity[r])
  <1> DEFINE curve  == Equity[r]
             points == ToSet(curve)
             n      == PageSize(size)
             days   == DownsampleByPrefix(curve)
  <1>1. curve \in Seq(Points)
    BY StoreAssumption DEF Points
  <1>2. EquityPoints(Equity[r], mode) = days /\ n = PageSize(size)
    OBVIOUS
  <1>3. /\ \A pt : pt \in points <=> \E k \in DOMAIN curve : curve[k] = pt
        /\ \A k \in DOMAIN curve : curve[k] \in points
    BY DEF ToSet
  <1> HIDE DEF curve, points
  <1>4. /\ days \in Seq(Points)
        /\ \A p \in DOMAIN days : \E k \in DOMAIN curve :
              /\ curve[k] = days[p]
              /\ \A j \in (k + 1)..Len(curve) : curve[j].day # curve[k].day
        /\ \A k \in DOMAIN curve : \E p \in DOMAIN days : days[p].day = curve[k].day
        /\ \A p, q \in DOMAIN days : p < q => days[p].day # days[q].day
    BY <1>1, DailyListed
  <1> HIDE DEF days, n
  <1>5. /\ \A a \in Places(daily) : Rank(a, n) \in DOMAIN days /\ At(daily, a) = days[Rank(a, n)]
        /\ \A a, b \in Places(daily) : Earlier(a, b) => Rank(a, n) < Rank(b, n)
        /\ \A k \in DOMAIN days : \E a \in Places(daily) : Rank(a, n) = k
    <2>1. days \in Seq(Points) /\ size \in Int
      BY <1>4, StoreAssumption
    <2>2. /\ DOMAIN daily = PageNumbers(Len(days), size)
          /\ \A p \in PageNumbers(Len(days), size) : daily[p] = PageItems(days, p, size)
      BY <1>2 DEF PagesOf, GetBacktestEquity
    <2> QED  BY <1>2, <2>1, <2>2, Paging
  <1>6. {At(daily, a).day : a \in Places(daily)} = {pt.day : pt \in points}
    <2>1. \A a \in Places(daily) : \E pt \in points : At(daily, a) = pt
      BY <1>3, <1>4, <1>5
    <2>2. ASSUME NEW pt \in points
          PROVE  \E a \in Places(daily) : At(daily, a).day = pt.day
      <3>1. PICK k \in DOMAIN curve : curve[k] = pt
        BY <1>3
      <3>2. PICK p \in DOMAIN days : days[p].day = pt.day
        BY <1>4, <3>1
      <3> QED  BY <1>5, <3>2
    <2> QED  BY <2>1, <2>2
  <1>7. \A a, b \in Places(daily) : Earlier(a, b) => At(daily, a).day # At(daily, b).day
    BY <1>4, <1>5
  <1>8. \A a \in Places(daily) : \E k \in DOMAIN curve :
            /\ curve[k] = At(daily, a)
            /\ \A j \in (k + 1)..Len(curve) : curve[j].day # curve[k].day
    BY <1>4, <1>5
  <1> QED  BY <1>6, <1>7, <1>8 DEF curve, points, EachDayOnce

(* The view of the whole curve shows every point. *)
LEMMA WholePaged ==
    ASSUME NEW r \in Results, Get(r), NEW size \in PageSizes, NEW mode,
           EquityPoints(Equity[r], mode) = Equity[r],
           NEW shown, PagesOf(shown, r, mode, size)
    PROVE  {At(shown, a) : a \in Places(shown)} = ToSet(Equity[r])
  <1> DEFINE curve == Equity[r]
             n     == PageSize(size)
  <1>1. curve \in Seq(Points)
    BY StoreAssumption DEF Points
  <1>2. \A pt : pt \in ToSet(Equity[r]) <=> \E k \in DOMAIN curve : curve[k] = pt
    BY DEF ToSet
  <1>3. EquityPoints(Equity[r], mode) = curve /\ n = PageSize(size)
    OBVIOUS
  <1> HIDE DEF curve, n
  <1>4. /\ \A a \in Places(shown) : Rank(a, n) \in DOMAIN curve /\ At(shown, a) = curve[Rank(a, n)]
        /\ \A k \in DOMAIN curve : \E a \in Places(shown) : Rank(a, n) = k
    <2>1. curve \in Seq(Points) /\ size \in Int
      BY <1>1, StoreAssumption
    <2>2. /\ DOMAIN shown = PageNumbers(Len(curve), size)
          /\ \A p \in PageNumbers(Len(curve), size) : shown[p] = PageItems(curve, p, size)
      BY <1>3 DEF PagesOf, GetBacktestEquity
    <2> QED  BY <1>3, <2>1, <2>2, Paging
  <1>5. \A pt : pt \in ToSet(Equity[r]) <=> \E a \in Places(shown) : At(shown, a) = pt
    BY <1>2, <1>4
  <1> QED  BY <1>5

(* The drawdown events show the days under water, at their lowest point. *)
LEMMA WorstPaged ==
    ASSUME NEW r \in Results, Get(r), NEW size \in PageSizes,
           NEW worst, PagesOf(worst, r, "drawdown_events", size)
    PROVE  LET curve  == Equity[r]
               points == ToSet(curve)
               under  == {pt \in points : pt.drawdown < 0}
           IN  /\ {At(worst, a).day : a \in Places(worst)} = {pt.day : pt \in under}
               /\ \A a, b \in Places(worst) : Earlier(a, b) => At(worst, a).day < At(worst, b).day
               /\ \A a \in Places(worst) :
                     /\ At(worst, a) \in under
                     /\ \A pt \in under : pt.day = At(worst, a).day =>
                                             At(worst, a).drawdown <= pt.drawdown
  <1> DEFINE curve  == Equity[r]
             points == ToSet(curve)
             under  == {pt \in points : pt.drawdown < 0}
             n      == PageSize(size)
             events == DrawdownEvents(curve)
  <1>1. curve \in Seq(Points)
    BY StoreAssumption DEF Points
  <1>2. EquityPoints(Equity[r], "drawdown_events") = events /\ n = PageSize(size)
    BY DEF EquityPoints
  <1>3. /\ \A pt : pt \in points <=> \E k \in DOMAIN curve : curve[k] = pt
        /\ \A k \in DOMAIN curve : curve[k] \in points
    BY DEF ToSet
  <1> HIDE DEF curve, points
  <1>5. /\ events \in Seq(Points)
        /\ \A p \in DOMAIN events : \E k \in DOMAIN curve :
              /\ curve[k] = events[p] /\ curve[k].drawdown < 0
              /\ \A j \in DOMAIN curve : curve[j].day = curve[k].day =>
                                           curve[k].drawdown <= curve[j].drawdown
        /\ \A k \in DOMAIN curve : curve[k].drawdown < 0 =>
              \E p \in DOMAIN events : events[p].day = curve[k].day
        /\ \A p, q \in DOMAIN events : p < q => events[p].day < events[q].day
    BY <1>1, WorstListed
  <1> HIDE DEF events, n
  <1>7. /\ \A a \in Places(worst) : Rank(a, n) \in DOMAIN events /\ At(worst, a) = events[Rank(a, n)]
        /\ \A a, b \in Places(worst) : Earlier(a, b) => Rank(a, n) < Rank(b, n)
        /\ \A k \in DOMAIN events : \E a \in Places(worst) : Rank(a, n) = k
    <2>1. events \in Seq(Points) /\ size \in Int
      BY <1>5, StoreAssumption
    <2>2. /\ DOMAIN worst = PageNumbers(Len(events), size)
          /\ \A p \in PageNumbers(Len(events), size) : worst[p] = PageItems(events, p, size)
      BY <1>2 DEF PagesOf, GetBacktestEquity
    <2> QED  BY <1>2, <2>1, <2>2, Paging
  <1>11. \A a \in Places(worst) :
            /\ At(worst, a) \in under
            /\ \A pt \in under : pt.day = At(worst, a).day => At(worst, a).drawdown <= pt.drawdown
    <2> TAKE a \in Places(worst)
    <2>1. PICK k \in DOMAIN curve :
             /\ curve[k] = At(worst, a) /\ curve[k].drawdown < 0
             /\ \A j \in DOMAIN curve : curve[j].day = curve[k].day =>
                                          curve[k].drawdown <= curve[j].drawdown
      BY <1>5, <1>7
    <2> QED  BY <1>3, <2>1
  <1>12. {At(worst, a).day : a \in Places(worst)} = {pt.day : pt \in under}
    <2>1. \A pt \in under : \E a \in Places(worst) : At(worst, a).day = pt.day
      BY <1>3, <1>5, <1>7
    <2> QED  BY <1>11, <2>1
  <1>13. \A a, b \in Places(worst) : Earlier(a, b) => At(worst, a).day < At(worst, b).day
    BY <1>5, <1>7
  <1> QED  BY <1>11, <1>12, <1>13 DEF curve, points

(* Which view a mode gives, for dates in either form. *)
LEMMA Modes ==
    ASSUME NEW curve, NEW mode
    PROVE  LET byDay == IF HasIsoDates(curve) THEN {"daily", "weekly"} ELSE {"weekly"}
           IN  /\ mode \in byDay => EquityPoints(curve, mode) = DownsampleByPrefix(curve)
               /\ mode \in {"full", "daily"} \ byDay => EquityPoints(curve, mode) = curve
  BY DEF EquityPoints

(* Whatever a client asks for, turning the pages of a stored result shows  *)
(* all its trades in order (PagesCover: sorted_trades, page_items).        *)
THEOREM PagesShowAllTrades == StoreSpec => []PagesCover
  <1>1. PagesCover
    BY TradesPaged DEF PagesCover
  <1> QED
    BY <1>1, PTL

(* The equity views show every day and every day under water, on whatever  *)
(* pages (EquityViewsAgree: equity_points, page_items).                    *)
THEOREM CurvesShowAllDays == StoreSpec => []EquityViewsAgree
  <1>1. ASSUME NEW r \in Results, Get(r), NEW size \in PageSizes
        PROVE  EquityViewsAgree!(r, size)
    <2> DEFINE curve       == Equity[r]
               points      == ToSet(curve)
               under       == {pt \in points : pt.drawdown < 0}
               Shown(mode) == [p \in PageNumbers(Len(EquityPoints(curve, mode)), size) |->
                                 GetBacktestEquity(r, mode, p, size)]
               worst       == Shown("drawdown_events")
               byDay       == IF HasIsoDates(curve) THEN {"daily", "weekly"} ELSE {"weekly"}
    <2>1. \A mode : PagesOf(Shown(mode), r, mode, size)
      BY DEF PagesOf
    <2>2. /\ \A mode \in byDay : EquityPoints(Equity[r], mode) = DownsampleByPrefix(Equity[r])
          /\ \A mode \in {"full", "daily"} \ byDay : EquityPoints(Equity[r], mode) = Equity[r]
      BY Modes
    <2> HIDE DEF Shown, byDay, worst
    <2>3. ASSUME NEW mode \in byDay
          PROVE  EachDayOnce(Shown(mode), curve)
      <3>1. EquityPoints(Equity[r], mode) = DownsampleByPrefix(Equity[r])
        BY <2>2
      <3>2. PagesOf(Shown(mode), r, mode, size)
        BY <2>1
      <3> QED  BY <1>1, <3>1, <3>2, DaysPaged
    <2>4. ASSUME NEW mode \in {"full", "daily"} \ byDay
          PROVE  {At(Shown(mode), a) : a \in Places(Shown(mode))} = points
      <3>1. EquityPoints(Equity[r], mode) = Equity[r]
        BY <2>2
      <3>2. PagesOf(Shown(mode), r, mode, size)
        BY <2>1
      <3> QED  BY <1>1, <3>1, <3>2, WholePaged
    <2>5. /\ {At(worst, a).day : a \in Places(worst)} = {pt.day : pt \in under}
          /\ \A a, b \in Places(worst) : Earlier(a, b) => At(worst, a).day < At(worst, b).day
          /\ \A a \in Places(worst) :
                /\ At(worst, a) \in under
                /\ \A pt \in under : pt.day = At(worst, a).day =>
                                        At(worst, a).drawdown <= pt.drawdown
      <3>1. PagesOf(worst, r, "drawdown_events", size)
        BY <2>1 DEF worst
      <3> QED  BY <1>1, <3>1, WorstPaged
    <2> QED  BY <2>3, <2>4, <2>5 DEF Shown, byDay, worst, EachDayOnce
  <1>2. EquityViewsAgree
    BY <1>1 DEF EquityViewsAgree
  <1> QED
    BY <1>2, PTL

(* What the store run checks of the views of stored results (ViewsAgree):  *)
(* list_results, sorted_trades, equity_points and page_items, in every     *)
(* state of the store.                                                     *)
THEOREM ViewsAlwaysAgree == StoreSpec => []ViewsAgree
  <1>1. StoreTypeOK /\ ListingFull /\ PagesCover /\ EquityViewsAgree => ViewsAgree
    BY DEF ViewsAgree
  <1> QED
    BY <1>1, CacheBounded, ListingsAreFull, PagesShowAllTrades, CurvesShowAllDays, PTL

-----------------------------------------------------------------------------
(* The pipeline. *)

(* The coroutine is between two yields. *)
OnLoop == PipelineStates \ {"none", "scheduled", "asleep", "done"}

(* Only one coroutine is, and it has the loop. *)
LoopHeld == \A p \in Pipelines : pc[p] \in OnLoop => loop = p

(* A coroutine only goes to sleep with a poll left. *)
Patient == \A p \in Pipelines : pc[p] = "asleep" => polls[p] < MaxPolls

(* The bars of an indicator job are there, or were deleted. *)
Ready(j) == j \in bars \/ jstatus[j] = "none"

(* The jobs the coroutine has read are ready; at the backtest, all are. *)
Collected ==
    \A p \in Pipelines :
        /\ pc[p] \in {"artifact_job", "artifact_bars"} =>
              \A j \in ChildrenOf(p) : j[2] < cursor => Ready(j)
        /\ pc[p] \in {"engine", "record", "put", "persist"} =>
              \A j \in ChildrenOf(p) : Ready(j)

(* An id that is reported is the pipeline's own, of a save that returned. *)
Reported ==
    \A p \in Pipelines : result[p] # NoResult => result[p] = p /\ saver[p] = "saved"

(* Whoever is being cancelled has been started and asked for; a sweep only *)
(* runs for a task that was asked to stop; a task that will never run      *)
(* because of it is, or is about to be, reported as cancelled.             *)
Cancels ==
    /\ cancelReq \subseteq asked
    /\ canceller # NoPipeline => canceller \in asked
    /\ \A p \in Pipelines :
          /\ p \in known \/ p \in asked => pc[p] # "none"
          /\ pc[p] \in {"sweep_read", "sweep_write"} => p \in cancelReq
          /\ pc[p] = "scheduled" /\ p \in cancelReq =>
                canceller = p \/ status[p] = "cancelled"

(* How a status came about. *)
Outcome ==
    \A p \in Pipelines :
        /\ pc[p] = "done" => status[p] \in Terminal \/ canceller = p
        /\ status[p] = "cancelled" => p \in asked
        /\ status[p] = "completed" => p \in answered
        /\ p \in answered => pc[p] = "done" /\ (status[p] = "completed" \/ p \in asked)

IInv ==
    /\ TypeOK /\ StoreInv /\ LoopHeld /\ Patient /\ Collected /\ Reported
    /\ Cancels /\ Outcome
-----------------------------------------------------------------------------
(* Numbers of pipelines and results stand apart from "none". *)
LEMMA Numbers ==
    /\ Pipelines \subseteq Results /\ NoPipeline \notin Pipelines
    /\ NoResult \notin Results /\ NoAnswer \notin Results /\ NoAnswer # NoResult
    /\ \A p \in Pipelines : Children[p] \in Nat \ {0}
  BY PipelineAssumption, StoreAssumption
     DEF Pipelines, NoPipeline, NoResult, NoAnswer, Results

(* Without a pipeline or an indicator job there is nothing to account for. *)
LEMMA InitIInv == Init => IInv
  <1> SUFFICES ASSUME Init PROVE IInv
    OBVIOUS
  <1>1. StoreInv
    BY InitStoreInv DEF Init
  <1>2. TypeOK
    <2>1. polls \in [Pipelines -> 0..MaxPolls]
      BY PipelineAssumption DEF Init
    <2>2. status \in [Pipelines -> Statuses] /\ pc \in [Pipelines -> PipelineStates]
      BY DEF Init, Statuses, PipelineStates
    <2>3. thread \in [Jobs -> ThreadStates]
      BY DEF Init, ThreadStates
    <2> QED
      BY <1>1, <2>1, <2>2, <2>3 DEF Init, TypeOK, StoreInv
  <1>3. /\ \A p \in Pipelines : /\ pc[p] = "none" /\ status[p] = "queued"
                                /\ result[p] = NoResult
        /\ canceller = NoPipeline /\ cancelReq = {} /\ known = {}
        /\ asked = {} /\ answered = {}
    BY DEF Init
  <1>4. LoopHeld /\ Patient /\ Collected
    BY <1>3 DEF LoopHeld, Patient, Collected, OnLoop
  <1>5. Reported /\ Cancels /\ Outcome
    BY <1>3 DEF Reported, Cancels, Outcome
  <1> QED
    BY <1>1, <1>2, <1>4, <1>5 DEF IInv

-----------------------------------------------------------------------------
(* Steps of the coroutine that has the loop.  Whichever step it is, no     *)
(* other coroutine is between two yields.                                  *)

LEMMA RunLoop ==
    ASSUME IInv, NEW p \in Pipelines, NEW c \in PipelineStates,
           pc[p] \in OnLoop, pc' = [pc EXCEPT ![p] = c],
           c \in OnLoop => loop' = loop,
           \A q \in Pipelines \ {p} : polls'[q] = polls[q],
           c = "asleep" => polls'[p] < MaxPolls,
           c \in {"artifact_job", "artifact_bars"} =>
              \A j \in ChildrenOf(p) : j[2] < cursor' => Ready(j)',
           c \in {"engine", "record", "put", "persist"} =>
              \A j \in ChildrenOf(p) : Ready(j)'
    PROVE  LoopHeld' /\ Patient' /\ Collected'
  <1>1. \A q \in Pipelines : pc'[q] = IF q = p THEN c ELSE pc[q]
    BY DEF IInv, TypeOK
  <1>2. loop = p /\ \A q \in Pipelines \ {p} : pc[q] \notin OnLoop
    BY DEF IInv, LoopHeld
  <1>3. LoopHeld'
    BY <1>1, <1>2 DEF LoopHeld
  <1>4. Patient'
    BY <1>1 DEF IInv, Patient
  <1>5. \A q \in Pipelines \ {p} :
           pc[q] \notin {"artifact_job", "artifact_bars", "engine", "record",
                         "put", "persist"}
    BY <1>2 DEF OnLoop, PipelineStates
  <1>6. Collected'
    BY <1>1, <1>5 DEF Collected, ChildrenOf
  <1> QED
    BY <1>3, <1>4, <1>6

(* A step that neither ends the coroutine nor touches the job. *)
LEMMA RunGoesOn ==
    ASSUME IInv, NEW p \in Pipelines, NEW c \in PipelineStates,
           pc[p] \in OnLoop, pc' = [pc EXCEPT ![p] = c],
           c \notin {"none", "scheduled", "done"},
           c \in {"sweep_read", "sweep_write"} => p \in cancelReq,
           UNCHANGED <<pipelineJobs, cancelReq, canceller, asked>>,
           \A r \in Results : saver[r] = "saved" => saver'[r] = "saved"
    PROVE  Reported' /\ Cancels' /\ Outcome'
  <1>1. UNCHANGED <<status, result, answered, known>>
    BY DEF pipelineJobs
  <1>2. \A q \in Pipelines : pc'[q] = IF q = p THEN c ELSE pc[q]
    BY DEF IInv, TypeOK
  <1>3. pc[p] # "done" /\ pc[p] # "none"
    BY DEF OnLoop
  <1>4. Reported'
    BY <1>1, Numbers DEF IInv, Reported
  <1>5. Cancels'
    BY <1>1, <1>2, <1>3 DEF IInv, Cancels, TypeOK
  <1>6. Outcome'
    BY <1>1, <1>2, <1>3 DEF IInv, Outcome
  <1> QED
    BY <1>4, <1>5, <1>6

(* A step that ends it, with an outcome that the job may have. *)
LEMMA RunEnds ==
    ASSUME IInv, NEW p \in Pipelines, NEW final \in Terminal,
           pc[p] \in OnLoop, Finish(p, final),
           final = "cancelled" => p \in cancelReq,
           \/ UNCHANGED <<result, answered>> /\ final # "completed"
           \/ /\ result' = [result EXCEPT ![p] = IF saver[p] = "saved" THEN p
                                                                ELSE NoResult]
              /\ answered' = answered \cup {p} /\ final = "completed",
           UNCHANGED <<store, indicatorJobs, canceller, asked>>
    PROVE  IInv'
  <1>1. /\ UNCHANGED <<cancelReq, known, canceller, asked, saver>>
        /\ UNCHANGED <<jstatus, thread, jcancel, bars>>
        /\ status' = [status EXCEPT ![p] = final]
        /\ pc' = [pc EXCEPT ![p] = "done"]
        /\ loop' = NoPipeline /\ cursor' = 1 /\ allDone' = TRUE
        /\ anyFailed' = FALSE /\ polls' = [polls EXCEPT ![p] = 0]
    BY DEF Finish, BeginPoll, indicatorJobs, store
  <1>2. StoreInv'
    BY UnchangedStore DEF IInv
  <1>3. TypeOK'
    <2>1. /\ final \in Statuses /\ "done" \in PipelineStates /\ 0 \in 0..MaxPolls
          /\ p \in Results
      BY PipelineAssumption, Numbers DEF Terminal, Statuses, PipelineStates
    <2>2. result' \in [Pipelines -> Results \cup {NoResult}] /\ answered' \subseteq Pipelines
      BY <2>1 DEF IInv, TypeOK
    <2> QED
      BY <1>1, <1>2, <2>1, <2>2 DEF IInv, TypeOK, StoreInv
  <1>4. LoopHeld' /\ Patient' /\ Collected'
    <2>1. "done" \in PipelineStates /\ "done" \notin OnLoop
      BY DEF PipelineStates, OnLoop
    <2>2. \A q \in Pipelines \ {p} : polls'[q] = polls[q]
      BY <1>1 DEF IInv, TypeOK
    <2> QED
      BY <1>1, <2>1, <2>2, RunLoop
  <1>5. /\ \A q \in Pipelines : pc'[q] = IF q = p THEN "done" ELSE pc[q]
        /\ \A q \in Pipelines : status'[q] = IF q = p THEN final ELSE status[q]
    BY <1>1 DEF IInv, TypeOK
  <1>6. Reported'
    BY <1>1 DEF IInv, TypeOK, Reported
  <1>7. Cancels'
    BY <1>1, <1>5 DEF IInv, Cancels, TypeOK
  <1>8. Outcome'
    <2>1. pc[p] # "done"
      BY DEF OnLoop
    <2>2. p \notin answered
      BY <2>1 DEF IInv, Outcome
    <2> QED
      BY <1>1, <1>5, <2>2 DEF IInv, Outcome, Cancels
  <1> QED
    BY <1>2, <1>3, <1>4, <1>6, <1>7, <1>8 DEF IInv

(* A pipeline that ends with an error has no result to be backed. *)
LEMMA FailInv ==
    ASSUME IInv, NEW p \in Pipelines, pc[p] \in OnLoop, Fail(p),
           UNCHANGED <<store, indicatorJobs, canceller, asked>>
    PROVE  IInv'
  BY RunEnds DEF Fail, Terminal

(* The coroutine moves on without writing anything. *)
LEMMA GotoInv ==
    ASSUME IInv, NEW p \in Pipelines, NEW c \in OnLoop, pc[p] \in OnLoop,
           Goto(p, c),
           UNCHANGED <<store, pipelineJobs, indicatorJobs, canceller, asked,
                       allDone, anyFailed, polls>>,
           cursor' \in Nat,
           c \notin {"sweep_read", "sweep_write"},
           c \in {"artifact_job", "artifact_bars"} =>
              \A j \in ChildrenOf(p) : j[2] < cursor' => Ready(j),
           c \in {"engine", "record", "put", "persist"} =>
              \A j \in ChildrenOf(p) : Ready(j)
    PROVE  IInv'
  <1>1. /\ pc' = [pc EXCEPT ![p] = c] /\ UNCHANGED <<cancelReq, loop, saver>>
        /\ UNCHANGED <<jstatus, thread, jcancel, bars>>
        /\ UNCHANGED <<status, result, answered, known>>
    BY DEF Goto, indicatorJobs, pipelineJobs, store
  <1>2. c \in PipelineStates /\ c \notin {"none", "scheduled", "asleep", "done"}
    BY DEF OnLoop
  <1>3. StoreInv'
    BY UnchangedStore DEF IInv
  <1>4. TypeOK'
    BY <1>1, <1>2, <1>3 DEF IInv, TypeOK, StoreInv
  <1>5. LoopHeld' /\ Patient' /\ Collected'
    BY <1>1, <1>2, RunLoop DEF Ready
  <1>6. Reported' /\ Cancels' /\ Outcome'
    BY <1>1, <1>2, RunGoesOn
  <1> QED
    BY <1>3, <1>4, <1>5, <1>6 DEF IInv
(* Validation and the engine change nothing but the stage of the pipeline. *)
LEMMA ValidateInv ==
    ASSUME IInv, NEW p \in Pipelines, Validate(p) \/ RunEngine(p)
    PROVE  IInv'
  <1>1. /\ pc[p] \in OnLoop
        /\ UNCHANGED <<store, indicatorJobs, canceller, asked>>
    BY DEF Validate, RunEngine, OnLoop, PipelineStates
  <1>2. CASE Fail(p)
    BY <1>1, <1>2, FailInv
  <1>3. CASE /\ UNCHANGED <<pipelineJobs, polling>>
             /\ \/ Validate(p) /\ Goto(p, "price_cache")
                \/ RunEngine(p) /\ Goto(p, "record")
    <2>1. UNCHANGED <<allDone, anyFailed, polls>> /\ cursor' \in Nat
      BY <1>3 DEF polling, IInv, TypeOK
    <2>2. "price_cache" \in OnLoop /\ "record" \in OnLoop
      BY DEF OnLoop, PipelineStates
    <2>3. RunEngine(p) => \A j \in ChildrenOf(p) : Ready(j)
      BY DEF RunEngine, IInv, Collected
    <2> QED
      BY <1>1, <1>3, <2>1, <2>2, <2>3, GotoInv
  <1> QED
    BY <1>2, <1>3 DEF Validate, RunEngine

(* The jobs that are started again belong to the coroutine itself, which   *)
(* has not collected anything yet.                                         *)
LEMMA CheckPriceCacheInv ==
    ASSUME IInv, NEW p \in Pipelines, CheckPriceCache(p)
    PROVE  IInv'
  <1>1. /\ pc[p] = "price_cache" /\ pc[p] \in OnLoop
        /\ UNCHANGED <<store, jcancel, bars, canceller, asked>>
    BY DEF CheckPriceCache, OnLoop, PipelineStates
  <1>2. CASE Fail(p) /\ UNCHANGED <<jstatus, thread>>
    BY <1>1, <1>2, FailInv DEF indicatorJobs
  <1>3. CASE /\ ComputeStrategyIndicators(p) /\ Goto(p, "poll")
             /\ UNCHANGED <<pipelineJobs, polling>>
    <2>1. /\ pc' = [pc EXCEPT ![p] = "poll"] /\ UNCHANGED <<cancelReq, loop>>
          /\ UNCHANGED <<status, result, answered, known>>
          /\ UNCHANGED <<cursor, allDone, anyFailed, polls, saver>>
      BY <1>1, <1>3 DEF Goto, pipelineJobs, polling, store
    <2>2. "poll" \in PipelineStates /\ "poll" \in OnLoop
      BY DEF PipelineStates, OnLoop
    <2>3. StoreInv'
      BY <1>1, UnchangedStore DEF IInv
    <2>4. jstatus' \in [Jobs -> Statuses \cup {"none"}] /\ thread' \in [Jobs -> ThreadStates]
      BY <1>3 DEF ComputeStrategyIndicators, IInv, TypeOK, Statuses, ThreadStates
    <2>5. TypeOK'
      BY <1>1, <2>1, <2>2, <2>3, <2>4 DEF IInv, TypeOK, StoreInv
    <2>6. LoopHeld' /\ Patient' /\ Collected'
      BY <1>1, <2>1, <2>2, RunLoop
    <2>7. Reported' /\ Cancels' /\ Outcome'
      BY <1>1, <1>3, <2>1, <2>2, RunGoesOn
    <2> QED
      BY <2>3, <2>5, <2>6, <2>7 DEF IInv
  <1> QED
    BY <1>2, <1>3 DEF CheckPriceCache

(* A poll reads the status of a job; only an active one makes the pipeline wait. *)
LEMMA PollJobInv ==
    ASSUME IInv, NEW p \in Pipelines, PollJob(p)
    PROVE  IInv'
  <1>1. /\ pc[p] = "poll"
        /\ UNCHANGED <<store, status, result, answered, known, pc, cancelReq,
                       loop, polls, jstatus, thread, jcancel, bars,
                       canceller, asked, saver>>
        /\ cursor' \in Nat /\ allDone' \in BOOLEAN /\ anyFailed' \in BOOLEAN
    BY DEF PollJob, pipelineJobs, tasks, indicatorJobs, store, IInv, TypeOK
  <1>2. StoreInv'
    BY <1>1, UnchangedStore DEF IInv
  <1>3. TypeOK'
    BY <1>1, <1>2 DEF IInv, TypeOK, StoreInv
  <1>4. LoopHeld' /\ Patient' /\ Collected'
    <2>1. pc' = [pc EXCEPT ![p] = "poll"] /\ "poll" \in PipelineStates
          /\ pc[p] \in OnLoop
      BY <1>1 DEF IInv, TypeOK, PipelineStates, OnLoop
    <2> QED
      BY <1>1, <2>1, RunLoop
  <1>5. Reported' /\ Cancels' /\ Outcome'
    BY <1>1 DEF IInv, Reported, Cancels, Outcome
  <1> QED
    BY <1>2, <1>3, <1>4, <1>5 DEF IInv

(* After the last answer the pipeline waits, goes on or gives up. *)
LEMMA AfterPollInv ==
    ASSUME IInv, NEW p \in Pipelines, AfterPoll(p)
    PROVE  IInv'
  <1>1. /\ pc[p] = "poll" /\ pc[p] \in OnLoop
        /\ UNCHANGED <<store, indicatorJobs, canceller, asked>>
    BY DEF AfterPoll, OnLoop, PipelineStates
  <1>2. CASE Fail(p)
    BY <1>1, <1>2, FailInv
  <1>3. CASE ~Fail(p)
    <2>1. PICK c \in {"artifact_job", "asleep"} :
             /\ pc' = [pc EXCEPT ![p] = c]
             /\ c = "asleep" => polls[p] < MaxPolls /\ loop' = NoPipeline
             /\ c # "asleep" => loop' = loop
      BY <1>3, PipelineAssumption DEF AfterPoll, Goto, IInv, TypeOK
    <2>2. /\ UNCHANGED <<cancelReq, pipelineJobs, polls, saver>>
          /\ UNCHANGED <<status, result, answered, known>>
          /\ UNCHANGED <<jstatus, thread, jcancel, bars>>
          /\ cursor' = 1 /\ allDone' = TRUE /\ anyFailed' = FALSE
      BY <1>1, <1>3 DEF AfterPoll, Goto, BeginPoll, pipelineJobs, indicatorJobs, store
    <2>3. c \in PipelineStates /\ "asleep" \notin OnLoop
      BY DEF PipelineStates, OnLoop
    <2>4. StoreInv'
      BY <1>1, UnchangedStore DEF IInv
    <2>5. TypeOK'
      BY <1>1, <2>1, <2>2, <2>3, <2>4 DEF IInv, TypeOK, StoreInv
    <2>6. LoopHeld' /\ Patient' /\ Collected'
      <3>1. \A j \in ChildrenOf(p) : ~(j[2] < cursor')
        BY <2>2, PipelineAssumption DEF ChildrenOf, Jobs
      <3> QED
        BY <1>1, <2>1, <2>2, <2>3, <3>1, RunLoop
    <2>7. Reported' /\ Cancels' /\ Outcome'
      BY <1>1, <2>1, <2>2, <2>3, RunGoesOn
    <2> QED
      BY <2>4, <2>5, <2>6, <2>7 DEF IInv
  <1> QED
    BY <1>2, <1>3

(* The pipeline reads the metadata and the bars of its own jobs. *)
LEMMA ReadArtifactInv ==
    ASSUME IInv, NEW p \in Pipelines, ReadArtifactJob(p) \/ ReadArtifactBars(p)
    PROVE  IInv'
  <1>1. /\ pc[p] \in {"artifact_job", "artifact_bars"} /\ pc[p] \in OnLoop
        /\ UNCHANGED <<store, indicatorJobs, canceller, asked>>
        /\ cursor \in Nat
    BY DEF ReadArtifactJob, ReadArtifactBars, OnLoop, PipelineStates, IInv, TypeOK
  <1>2. CASE Fail(p)
    BY <1>1, <1>2, FailInv
  <1>3. \A j \in ChildrenOf(p) : j[2] < cursor => Ready(j)
    BY <1>1 DEF IInv, Collected
  <1>4. {"artifact_job", "artifact_bars", "engine"} \subseteq OnLoop
    BY DEF OnLoop, PipelineStates
  <1>5. CASE ReadArtifactJob(p) /\ ~Fail(p)
    <2>1. Goto(p, "artifact_bars") /\ UNCHANGED <<pipelineJobs, polling>>
      BY <1>5 DEF ReadArtifactJob
    <2>2. UNCHANGED <<cursor, allDone, anyFailed, polls>>
      BY <2>1 DEF polling
    <2> QED
      BY <1>1, <1>3, <1>4, <2>1, <2>2, GotoInv
  <1>6. CASE ReadArtifactBars(p) /\ ~Fail(p)
    <2>1. /\ <<p, cursor>> \in bars
          /\ UNCHANGED <<pipelineJobs, allDone, anyFailed, polls>>
          /\ \/ /\ cursor < Children[p]
                /\ Goto(p, "artifact_job") /\ cursor' = cursor + 1
             \/ /\ ~(cursor < Children[p])
                /\ Goto(p, "engine") /\ cursor' = 1
      BY <1>6 DEF ReadArtifactBars
    <2>2. ASSUME NEW j \in ChildrenOf(p), j[2] <= cursor PROVE Ready(j)
      <3>1. j \in Jobs /\ j[1] = p /\ j[2] \in Nat
        BY PipelineAssumption DEF ChildrenOf, Jobs
      <3>2. CASE j[2] < cursor
        BY <1>3, <3>2
      <3>3. CASE j[2] = cursor
        <4>1. j = <<p, cursor>>
          BY <3>1, <3>3 DEF Jobs
        <4> QED
          BY <2>1, <4>1 DEF Ready
      <3> QED
        BY <1>1, <2>2, <3>1, <3>2, <3>3
    <2>3. CASE Goto(p, "artifact_job") /\ cursor' = cursor + 1
      <3>1. \A j \in ChildrenOf(p) : j[2] < cursor' => j[2] <= cursor
        BY <1>1, <2>3, PipelineAssumption DEF ChildrenOf, Jobs
      <3> QED
        BY <1>1, <1>4, <2>1, <2>2, <2>3, <3>1, GotoInv
    <2>4. CASE ~(cursor < Children[p]) /\ Goto(p, "engine") /\ cursor' = 1
      <3>1. \A j \in ChildrenOf(p) : j[2] <= cursor
        BY <1>1, <2>4, Numbers, PipelineAssumption DEF ChildrenOf, Jobs
      <3> QED
        BY <1>1, <1>4, <2>1, <2>2, <2>4, <3>1, GotoInv
    <2> QED
      BY <2>1, <2>3, <2>4
  <1> QED
    BY <1>2, <1>5, <1>6

(* The three steps of the save are steps of the store. *)
LEMMA SaveInv ==
    ASSUME IInv, NEW p \in Pipelines,
           RecordResult(p) \/ PutResult(p) \/ PersistResult(p)
    PROVE  IInv'
  <1>1. /\ pc[p] \in {"record", "put", "persist"}
        /\ UNCHANGED <<pipelineJobs, polling, indicatorJobs, canceller, asked>>
    BY DEF RecordResult, PutResult, PersistResult
  <1>2. /\ UNCHANGED <<status, result, answered, known>>
        /\ UNCHANGED <<cursor, allDone, anyFailed, polls>>
        /\ UNCHANGED <<jstatus, thread, jcancel, bars>>
    BY <1>1 DEF pipelineJobs, polling, indicatorJobs
  <1>3. PICK c \in {"put", "persist", "complete"} : Goto(p, c)
    BY DEF RecordResult, PutResult, PersistResult
  <1>4. /\ pc[p] \in OnLoop /\ c \in PipelineStates
        /\ pc' = [pc EXCEPT ![p] = c] /\ UNCHANGED <<cancelReq, loop>>
    BY <1>1, <1>3 DEF OnLoop, PipelineStates, Goto
  <1>5. p \in Results
    BY Numbers
  <1>6. StoreInv' /\ \A r \in Results : saver[r] = "saved" => saver'[r] = "saved"
    <2> USE <1>5 DEF IInv, StoreInv, StoreTypeOK
    <2>1. CASE RecordResult(p)
      BY <2>1, RecordInv DEF RecordResult, Record
    <2>2. CASE PutResult(p)
      BY <2>2, PutInv DEF PutResult, Put
    <2>3. CASE PersistResult(p)
      BY <2>3, PersistInv, PersistRaisesInv DEF PersistResult, Persist, PersistRaises
    <2> QED
      BY <2>1, <2>2, <2>3
  <1>7. TypeOK'
    BY <1>1, <1>2, <1>4, <1>6 DEF IInv, TypeOK, StoreInv
  <1>8. LoopHeld' /\ Patient' /\ Collected'
    <2>1. \A j \in ChildrenOf(p) : Ready(j)'
      BY <1>1, <1>2 DEF IInv, Collected, Ready
    <2> QED
      BY <1>2, <1>4, <2>1, RunLoop
  <1>9. Reported' /\ Cancels' /\ Outcome'
    BY <1>1, <1>4, <1>6, RunGoesOn
  <1> QED
    BY <1>6, <1>7, <1>8, <1>9 DEF IInv

(* The pipeline completes with the id of the result it has saved, or without one. *)
LEMMA CompleteInv ==
    ASSUME IInv, NEW p \in Pipelines, Complete(p)
    PROVE  IInv'
  <1>1. pc[p] \in OnLoop /\ "completed" \in Terminal
    BY DEF Complete, OnLoop, PipelineStates, Terminal
  <1> QED
    BY <1>1, RunEnds DEF Complete

(* The sweep only writes status and requests of indicator jobs; a deleted  *)
(* one stays deleted.                                                      *)
LEMMA SweepInv ==
    ASSUME IInv, NEW p \in Pipelines, SweepRead(p) \/ SweepWrite(p)
    PROVE  IInv'
  <1>1. /\ pc[p] \in {"sweep_read", "sweep_write"} /\ pc[p] \in OnLoop
        /\ UNCHANGED <<store, thread, bars, canceller, asked>>
        /\ p \in cancelReq
    BY DEF SweepRead, SweepWrite, OnLoop, PipelineStates, IInv, Cancels
  <1>2. CASE Finish(p, "cancelled") /\ UNCHANGED <<result, answered, jcancel, jstatus>>
    BY <1>1, <1>2, RunEnds DEF Terminal, indicatorJobs
  <1>3. CASE ~(Finish(p, "cancelled") /\ UNCHANGED <<result, answered, jcancel, jstatus>>)
    <2>1. /\ UNCHANGED <<pipelineJobs, allDone, anyFailed, polls>>
          /\ UNCHANGED <<cancelReq, loop, saver>>
      BY <1>1, <1>3 DEF SweepRead, SweepWrite, Goto, tasks, store
    <2>2. PICK c \in {"sweep_read", "sweep_write"} : pc' = [pc EXCEPT ![p] = c]
      <3>1. CASE SweepWrite(p)
        BY <3>1 DEF SweepWrite, Goto
      <3>2. CASE SweepRead(p)
        <4>1. pc[p] = "sweep_read" /\ pc \in [Pipelines -> PipelineStates]
          BY <3>2 DEF SweepRead, IInv, TypeOK
        <4>2. pc = [pc EXCEPT ![p] = "sweep_read"]
          BY <4>1
        <4> QED
          BY <1>3, <3>2, <4>2 DEF SweepRead, Goto, tasks
      <3> QED
        BY <3>1, <3>2
    <2>3. /\ cursor' \in Nat
          /\ jstatus' \in [Jobs -> Statuses \cup {"none"}]
          /\ jcancel' \in [Jobs -> {"no", "asked", "seen"}]
      <3>1. CASE SweepWrite(p)
        <4> DEFINE swept == SweepOrder[cursor]
        <4>1. /\ cursor' \in Nat /\ jcancel' \in [Jobs -> {"no", "asked", "seen"}]
              /\ jstatus' = [jstatus EXCEPT ![swept] =
                    IF @ = "none" \/ thread[swept] = "restored" THEN @ ELSE "cancelled"]
          BY <3>1 DEF SweepWrite, IInv, TypeOK
        <4> HIDE DEF swept
        <4>2. jstatus \in [Jobs -> Statuses \cup {"none"}] /\ "cancelled" \in Statuses
          BY DEF IInv, TypeOK, Statuses
        <4> QED
          BY <4>1, <4>2
      <3>2. CASE SweepRead(p)
        BY <1>3, <3>2 DEF SweepRead, IInv, TypeOK
      <3> QED
        BY <3>1, <3>2
    <2>4. StoreInv' /\ c \in PipelineStates
      BY <1>1, UnchangedStore DEF IInv, PipelineStates
    <2>5. TypeOK'
      BY <1>1, <2>1, <2>2, <2>3, <2>4 DEF IInv, TypeOK, StoreInv, pipelineJobs
    <2>6. LoopHeld' /\ Patient' /\ Collected'
      BY <1>1, <2>1, <2>2, <2>4, RunLoop
    <2>7. Reported' /\ Cancels' /\ Outcome'
      BY <1>1, <2>1, <2>2, <2>4, RunGoesOn
    <2> QED
      BY <2>4, <2>5, <2>6, <2>7 DEF IInv
  <1> QED
    BY <1>2, <1>3

(* Every step of the runner on the event loop keeps the invariant. *)
LEMMA RunInv ==
    ASSUME IInv, NEW p \in Pipelines, Run(p)
    PROVE  IInv'
  BY ValidateInv, CheckPriceCacheInv, PollJobInv, AfterPollInv,
     ReadArtifactInv, SaveInv, CompleteInv, SweepInv DEF Run
-----------------------------------------------------------------------------
(* Steps that need the loop to be free, steps of request threads and steps *)
(* of the indicator jobs.                                                  *)

LEMMA StartInv ==
    ASSUME IInv, NEW p \in Pipelines, Start(p)
    PROVE  IInv' /\ pc[p] = "none"
  <1>1. /\ UNCHANGED <<store, status, result, answered, cancelReq, loop,
                       polling, indicatorJobs, canceller, asked>>
        /\ pc' = [pc EXCEPT ![p] = "scheduled"]
        /\ known' \subseteq known \cup {p}
    BY DEF Start
  <1>2. /\ UNCHANGED <<cursor, allDone, anyFailed, polls, saver>>
        /\ UNCHANGED <<jstatus, thread, jcancel, bars>>
    BY <1>1 DEF polling, indicatorJobs, store
  <1>3. pc[p] = "none"
    <2>1. p \notin 1..(p - 1) /\ Started = 1..(p - 1)
      BY PipelineAssumption DEF Start, Pipelines
    <2> QED
      BY <2>1 DEF Started
  <1>4. \A q \in Pipelines : pc'[q] = IF q = p THEN "scheduled" ELSE pc[q]
    BY <1>1 DEF IInv, TypeOK
  <1>5. StoreInv'
    BY <1>1, UnchangedStore DEF IInv
  <1>6. TypeOK'
    BY <1>1, <1>2, <1>5 DEF IInv, TypeOK, StoreInv, PipelineStates
  <1>7. LoopHeld' /\ Patient' /\ Collected'
    BY <1>1, <1>2, <1>4 DEF IInv, LoopHeld, Patient, Collected, OnLoop, Ready, ChildrenOf
  <1>8. Cancels'
    BY <1>1, <1>3, <1>4 DEF IInv, Cancels
  <1>9. Reported' /\ Outcome'
    BY <1>1, <1>2, <1>3, <1>4 DEF IInv, Reported, Outcome
  <1> QED
    BY <1>3, <1>5, <1>6, <1>7, <1>8, <1>9 DEF IInv

(* The first half of cancel() reads the status and cancels the task. *)
LEMMA CancelRequestInv ==
    ASSUME IInv, NEW p \in Pipelines, CancelRequest(p)
    PROVE  IInv'
  <1>1. /\ UNCHANGED <<store, pipelineJobs, pc, loop, polling, indicatorJobs>>
        /\ canceller = NoPipeline /\ canceller' = p /\ asked' = asked \cup {p}
        /\ cancelReq' \subseteq cancelReq \cup {p} /\ cancelReq \subseteq cancelReq'
        /\ p \in known
    BY DEF CancelRequest
  <1>2. /\ UNCHANGED <<cursor, allDone, anyFailed, polls, saver>>
        /\ UNCHANGED <<jstatus, thread, jcancel, bars>>
        /\ UNCHANGED <<status, result, answered, known>>
    BY <1>1 DEF polling, indicatorJobs, pipelineJobs, store
  <1>3. StoreInv'
    BY <1>1, UnchangedStore DEF IInv
  <1>4. TypeOK'
    BY <1>1, <1>2, <1>3 DEF IInv, TypeOK, StoreInv
  <1>5. LoopHeld' /\ Patient' /\ Collected' /\ Reported'
    BY <1>1, <1>2 DEF IInv, LoopHeld, Patient, Collected, Reported, Ready, ChildrenOf
  <1>6. Cancels'
    BY <1>1, <1>2, Numbers DEF IInv, Cancels
  <1>7. Outcome'
    BY <1>1, <1>2, Numbers DEF IInv, Outcome
  <1> QED
    BY <1>3, <1>4, <1>5, <1>6, <1>7 DEF IInv

(* The second half of cancel() writes the status and sweeps the indicator jobs. *)
LEMMA CancelWriteInv ==
    ASSUME IInv, CancelWrite
    PROVE  IInv'
  <1>1. /\ UNCHANGED <<store, result, answered, known, tasks, polling,
                       indicatorJobs, asked>>
        /\ canceller \in Pipelines /\ canceller # NoPipeline
        /\ canceller' = NoPipeline
        /\ status' = [status EXCEPT ![canceller] = "cancelled"]
    BY DEF CancelWrite, IInv, TypeOK
  <1>2. /\ UNCHANGED <<cursor, allDone, anyFailed, polls, saver>>
        /\ UNCHANGED <<jstatus, thread, jcancel, bars>>
        /\ UNCHANGED <<pc, cancelReq, loop>>
    BY <1>1 DEF polling, indicatorJobs, tasks, store
  <1>3. /\ \A q \in Pipelines :
              status'[q] = IF q = canceller THEN "cancelled" ELSE status[q]
        /\ canceller \in asked
    BY <1>1 DEF IInv, TypeOK, Cancels
  <1>4. StoreInv'
    BY <1>1, UnchangedStore DEF IInv
  <1>5. TypeOK'
    BY <1>1, <1>2, <1>4 DEF IInv, TypeOK, StoreInv, Statuses
  <1>6. LoopHeld' /\ Patient' /\ Collected' /\ Reported'
    BY <1>1, <1>2 DEF IInv, LoopHeld, Patient, Collected, Reported, Ready, ChildrenOf
  <1>7. Cancels'
    BY <1>1, <1>2, <1>3 DEF IInv, Cancels
  <1>8. Outcome'
    BY <1>1, <1>2, <1>3 DEF IInv, Outcome, Terminal
  <1> QED
    BY <1>4, <1>5, <1>6, <1>7, <1>8 DEF IInv

(* CancelledError reaches the coroutine where it waits. *)
LEMMA ResumeInv ==
    ASSUME IInv, NEW p \in Pipelines, Resume(p)
    PROVE  IInv'
  <1>1. /\ UNCHANGED <<store, result, answered, known, cancelReq,
                       indicatorJobs, canceller, asked>>
        /\ loop = NoPipeline /\ pc[p] \in {"scheduled", "asleep"}
    BY DEF Resume
  <1>2. UNCHANGED <<jstatus, thread, jcancel, bars, saver>>
    BY <1>1 DEF indicatorJobs, store
  <1>3. \A q \in Pipelines : pc[q] \notin OnLoop
    BY <1>1, Numbers DEF IInv, LoopHeld
  <1>4. PICK c \in {"done", "sweep_read", "validate", "poll"} :
           /\ pc' = [pc EXCEPT ![p] = c]
           /\ c # "done" => loop' = p
           /\ loop' \in {p, loop}
           /\ c \in {"done", "sweep_read"} => p \in cancelReq /\ UNCHANGED status
           /\ c = "done" => pc[p] = "scheduled"
           /\ status' \in {status, [status EXCEPT ![p] = "running"]}
           /\ c = "validate" \/ UNCHANGED status
           /\ polls' \in {polls, [polls EXCEPT ![p] = @ + 1]}
           /\ pc[p] = "asleep" \/ UNCHANGED polls
           /\ cursor' \in {cursor, 1} /\ allDone' \in {allDone, TRUE}
           /\ anyFailed' \in {anyFailed, FALSE}
    BY <1>1 DEF Resume, BeginPoll
  <1>5. \A q \in Pipelines : pc'[q] = IF q = p THEN c ELSE pc[q]
    BY <1>4 DEF IInv, TypeOK
  <1>6. StoreInv'
    BY <1>1, UnchangedStore DEF IInv
  <1>7. TypeOK'
    <2>1. /\ status' \in [Pipelines -> Statuses] /\ c \in PipelineStates
          /\ pc' \in [Pipelines -> PipelineStates]
      BY <1>4 DEF IInv, TypeOK, Statuses, PipelineStates
    <2>2. polls' \in [Pipelines -> 0..MaxPolls]
      <3>1. pc[p] = "asleep" => polls[p] + 1 \in 0..MaxPolls
        BY PipelineAssumption DEF IInv, TypeOK, Patient
      <3> QED
        BY <1>4, <3>1 DEF IInv, TypeOK
    <2>3. cursor' \in Nat /\ loop' \in Pipelines \cup {NoPipeline}
      BY <1>4 DEF IInv, TypeOK
    <2>4. allDone' \in BOOLEAN /\ anyFailed' \in BOOLEAN
      BY <1>4, Zenon DEF IInv, TypeOK
    <2> QED
      BY <1>1, <1>2, <1>6, <2>1, <2>2, <2>3, <2>4 DEF IInv, TypeOK, StoreInv
  <1>8. LoopHeld'
    BY <1>3, <1>4, <1>5 DEF LoopHeld, OnLoop
  <1>9. Patient'
    <2>1. \A q \in Pipelines \ {p} : polls'[q] = polls[q]
      BY <1>4 DEF IInv, TypeOK
    <2> QED
      BY <1>5, <2>1 DEF IInv, Patient
  <1>10. Collected'
    <2>1. \A q \in Pipelines : pc'[q] \notin {"artifact_job", "artifact_bars",
                                   "engine", "record", "put", "persist"}
      BY <1>3, <1>5 DEF OnLoop, PipelineStates
    <2> QED
      BY <2>1 DEF Collected
  <1>11. \A q \in Pipelines : status'[q] = status[q] \/ (q = p /\ status'[q] = "running")
    BY <1>4 DEF IInv, TypeOK
  <1>12. Reported'
    BY <1>1, <1>2 DEF IInv, Reported
  <1>13. Cancels'
    BY <1>1, <1>4, <1>5, <1>11 DEF IInv, Cancels
  <1>14. Outcome'
    BY <1>1, <1>4, <1>5, <1>11 DEF IInv, Cancels, Outcome, Terminal
  <1> QED
    BY <1>6, <1>7, <1>8, <1>9, <1>10, <1>12, <1>13, <1>14 DEF IInv

(* An indicator job that was ready stays ready: bars only go together with *)
(* the job, and a deleted job only comes back with them.                   *)
LEMMA IndicatorJobInv ==
    ASSUME IInv, NEW j \in Jobs, IndicatorJob(j)
    PROVE  IInv'
  <1> USE DEF IndicatorJob, JobHandOver, JobCancelled, JobWrites, JobStores, JobDeleted
  <1>1. JobUnchanged
    OBVIOUS
  <1>2. /\ UNCHANGED <<status, result, answered, known, pc, cancelReq, loop,
                       cursor, allDone, anyFailed, polls, canceller, asked>>
        /\ UNCHANGED store
    BY <1>1 DEF JobUnchanged, pipelineJobs, tasks, polling
  <1>3. /\ jstatus' \in [Jobs -> Statuses \cup {"none"}] /\ bars' \subseteq Jobs
        /\ thread' \in [Jobs -> ThreadStates]
        /\ jcancel' \in [Jobs -> {"no", "asked", "seen"}]
    BY DEF IInv, TypeOK, Statuses, ThreadStates
  <1>4. \A k \in Jobs : Ready(k) => Ready(k)'
    BY DEF IInv, TypeOK, Ready
  <1>5. StoreInv'
    BY <1>2, UnchangedStore DEF IInv
  <1>6. TypeOK'
    BY <1>2, <1>3, <1>5 DEF IInv, TypeOK, StoreInv
  <1>7. Collected'
    BY <1>2, <1>4 DEF IInv, Collected, ChildrenOf
  <1>8. saver' = saver
    BY <1>2 DEF store
  <1>9. LoopHeld' /\ Patient' /\ Reported' /\ Cancels' /\ Outcome'
    BY <1>2, <1>8 DEF IInv, LoopHeld, Patient, Reported, Cancels, Outcome
  <1> QED
    BY <1>5, <1>6, <1>7, <1>9 DEF IInv

(* Every step of every actor keeps the invariant. *)
LEMMA NextInv == IInv /\ [Next]_vars => IInv'
  <1> SUFFICES ASSUME IInv, [Next]_vars PROVE IInv'
    OBVIOUS
  <1>1. ASSUME NEW p \in Pipelines,
               StartStrategyPipeline(p) \/ CancelRequest(p) \/ Resume(p) \/ Run(p)
        PROVE  IInv'
    BY <1>1, StartInv, CancelRequestInv, ResumeInv, RunInv DEF StartStrategyPipeline
  <1>2. CASE CancelWrite
    BY <1>2, CancelWriteInv
  <1>3. ASSUME NEW j \in Jobs, IndicatorJob(j) PROVE IInv'
    BY <1>3, IndicatorJobInv
  <1>4. CASE UNCHANGED vars
    <2>1. /\ UNCHANGED <<status, result, answered, known, pc, cancelReq, loop,
                         cursor, allDone, anyFailed, polls, canceller, asked,
                         jstatus, thread, jcancel, bars, saver>>
          /\ UNCHANGED store
      BY <1>4 DEF vars, pipelineJobs, tasks, polling, indicatorJobs, store
    <2>2. StoreInv'
      BY <2>1, UnchangedStore DEF IInv
    <2> QED
      BY <2>1, <2>2 DEF IInv, TypeOK, StoreInv, LoopHeld, Patient, Collected,
                        Ready, Reported, Cancels, Outcome
  <1> QED
    BY <1>1, <1>2, <1>3, <1>4 DEF Next

-----------------------------------------------------------------------------
(* The invariant holds in every reachable state. *)
THEOREM InvariantHolds == Spec => []IInv
  BY InitIInv, NextInv, PTL DEF Spec

(* For any number of pipelines and timeframes: the engine only runs on     *)
(* bars of the pipeline's own jobs, and the id reported for a completed    *)
(* pipeline can be read until it is deleted.                               *)
THEOREM ResultsAreBacked == Spec => []ResultsBacked
  <1>1. IInv => ResultsBacked
    <2> SUFFICES ASSUME IInv PROVE ResultsBacked
      OBVIOUS
    <2>1. BacktestsHaveBars
      BY DEF IInv, Collected, Ready, BacktestsHaveBars
    <2>2. ASSUME NEW p \in Pipelines,
                 GetStrategyPipelineResults(p) \in Results \ deleted
          PROVE  Get(GetStrategyPipelineResults(p))
      <3>1. GetStrategyPipelineResults(p) = result[p] /\ result[p] # NoResult
        BY <2>2, Numbers DEF GetStrategyPipelineResults
      <3>2. result[p] \in Results /\ saver[result[p]] = "saved"
        BY <2>2, <3>1 DEF IInv, Reported
      <3>3. SavedIsReadable
        BY InvReadable DEF IInv
      <3> QED
        BY <2>2, <3>1, <3>2, <3>3 DEF SavedIsReadable
    <2> QED
      BY <2>1, <2>2 DEF ResultsBacked, ResultIdReadable, IInv
  <1> QED
    BY <1>1, InvariantHolds, PTL

-----------------------------------------------------------------------------
(* Pipelines implement JobLifecycle.  A pipeline is at rest when its       *)
(* coroutine is done and nobody is half way through cancelling it.         *)

Phase(p) ==
    IF pc[p] = "none" THEN "new" ELSE IF AtRest(p) THEN status[p] ELSE "active"

phases == [p \in Pipelines |-> Phase(p)]

(* A step that a client cannot tell from no step. *)
LEMMA Silent ==
    ASSUME UNCHANGED <<asked, answered>>,
           \A p \in Pipelines : Phase(p)' = Phase(p)
    PROVE  UNCHANGED <<phases, asked, answered>>
  BY DEF phases

(* A step that only changes the phase of one pipeline. *)
LEMMA OnePhase ==
    ASSUME NEW p \in Pipelines, \A q \in Pipelines \ {p} : Phase(q)' = Phase(q)
    PROVE  phases' = [phases EXCEPT ![p] = Phase(p)']
  BY DEF phases

(* While the coroutine is under way its job is active, whatever it does. *)
LEMMA RunningIsActive ==
    ASSUME IInv, NEW p \in Pipelines, NEW c \in PipelineStates,
           pc[p] \notin {"none", "done"}, c \notin {"none", "done"},
           pc' = [pc EXCEPT ![p] = c],
           \A q \in Pipelines \ {p} : status'[q] = status[q],
           UNCHANGED canceller
    PROVE  \A q \in Pipelines : Phase(q)' = Phase(q)
  <1>1. \A q \in Pipelines : pc'[q] = IF q = p THEN c ELSE pc[q]
    BY DEF IInv, TypeOK
  <1> QED
    BY <1>1 DEF Phase, AtRest

(* The end of the coroutine is the end of the job, unless a cancellation   *)
(* is half way: then the job stays active until that has been written.     *)
LEMMA EndOfRun ==
    ASSUME IInv, NEW p \in Pipelines, NEW final \in Terminal,
           pc[p] \notin {"none", "done"},
           pc' = [pc EXCEPT ![p] = "done"],
           \A q \in Pipelines \ {p} : status'[q] = status[q],
           canceller # p => status'[p] = final,
           UNCHANGED <<canceller, asked>>,
           final = "cancelled" /\ canceller # p => p \in asked,
           IF final = "completed" THEN answered' = answered \cup {p}
                                  ELSE UNCHANGED answered
    PROVE  [Lifecycle!Next]_(<<phases, asked, answered>>)
  <1>1. \A q \in Pipelines : pc'[q] = IF q = p THEN "done" ELSE pc[q]
    BY DEF IInv, TypeOK
  <1>2. p \notin answered
    BY DEF IInv, Outcome
  <1>3. Phase(p) = "active" /\ \A q \in Pipelines \ {p} : Phase(q)' = Phase(q)
    BY <1>1 DEF Phase, AtRest
  <1>4. Phase(p)' = IF canceller = p THEN "active" ELSE final
    BY <1>1 DEF Phase, AtRest
  <1>5. phases[p] = "active" /\ phases' = [phases EXCEPT ![p] = Phase(p)']
    BY <1>3, OnePhase DEF phases
  <1>6. CASE canceller = p /\ final # "completed"
    BY <1>3, <1>4, <1>6, Silent
  <1>7. CASE canceller = p /\ final = "completed"
    <2>1. phases' = phases
      BY <1>3, <1>4, <1>7 DEF phases
    <2>2. Lifecycle!Answer(p)
      BY <1>2, <1>5, <1>7, <2>1 DEF Lifecycle!Answer, phases, Phase
    <2> QED
      BY <2>2 DEF Lifecycle!Next
  <1>8. CASE canceller # p /\ final = "completed"
    <2>1. Lifecycle!AnswerAndSettle(p)
      BY <1>2, <1>4, <1>5, <1>8 DEF Lifecycle!AnswerAndSettle, phases, Phase
    <2> QED
      BY <2>1 DEF Lifecycle!Next
  <1>9. CASE canceller # p /\ final # "completed"
    <2>1. Lifecycle!Settle(p)
      BY <1>2, <1>4, <1>5, <1>9
         DEF Lifecycle!Settle, Lifecycle!Outcomes, Terminal, phases, Phase
    <2> QED
      BY <2>1 DEF Lifecycle!Next
  <1> QED
    BY <1>6, <1>7, <1>8, <1>9
(* Every step of a coroutine is a step of the job, or none that a client   *)
(* sees.                                                                   *)
LEMMA RunRefines ==
    ASSUME IInv, NEW p \in Pipelines, Run(p)
    PROVE  [Lifecycle!Next]_(<<phases, asked, answered>>)
  <1>1. /\ pc[p] \notin {"none", "done"} /\ UNCHANGED <<canceller, asked>>
    BY DEF Run, Validate, CheckPriceCache, PollJob, AfterPoll, ReadArtifactJob,
           ReadArtifactBars, RunEngine, RecordResult, PutResult, PersistResult,
           Complete, SweepRead, SweepWrite
  <1>2. CASE Fail(p)
    <2>1. /\ pc' = [pc EXCEPT ![p] = "done"] /\ UNCHANGED answered
          /\ status' = [status EXCEPT ![p] = "failed"]
      BY <1>2 DEF Fail, Finish
    <2>2. status'[p] = "failed" /\ \A q \in Pipelines \ {p} : status'[q] = status[q]
      BY <2>1 DEF IInv, TypeOK
    <2> QED
      BY <1>1, <2>1, <2>2, EndOfRun DEF Terminal
  <1>3. CASE Complete(p)
    <2>1. /\ pc' = [pc EXCEPT ![p] = "done"] /\ answered' = answered \cup {p}
          /\ status' = [status EXCEPT ![p] = "completed"]
      BY <1>3 DEF Complete, Finish
    <2>2. status'[p] = "completed" /\ \A q \in Pipelines \ {p} : status'[q] = status[q]
      BY <2>1 DEF IInv, TypeOK
    <2> QED
      BY <1>1, <2>1, <2>2, EndOfRun DEF Terminal
  <1>4. CASE Finish(p, "cancelled") /\ UNCHANGED answered /\ SweepRead(p)
    <2>1. /\ pc' = [pc EXCEPT ![p] = "done"] /\ UNCHANGED answered
          /\ status' = [status EXCEPT ![p] = "cancelled"]
      BY <1>4 DEF Finish
    <2>2. status'[p] = "cancelled" /\ \A q \in Pipelines \ {p} : status'[q] = status[q]
      BY <2>1 DEF IInv, TypeOK
    <2>3. p \in asked
      BY <1>4 DEF SweepRead, IInv, Cancels
    <2> QED
      BY <1>1, <2>1, <2>2, <2>3, EndOfRun DEF Terminal
  <1>5. CASE /\ ~Fail(p) /\ ~Complete(p)
             /\ ~(Finish(p, "cancelled") /\ UNCHANGED answered /\ SweepRead(p))
    <2>1. UNCHANGED <<status, answered>>
      BY <1>5 DEF Run, Validate, CheckPriceCache, PollJob, AfterPoll,
                  ReadArtifactJob, ReadArtifactBars, RunEngine, RecordResult,
                  PutResult, PersistResult, SweepRead, SweepWrite, pipelineJobs
    <2>2. PICK c \in PipelineStates \ {"none", "done"} : pc' = [pc EXCEPT ![p] = c]
      <3>1. CASE pc' = pc
        <4>1. pc = [pc EXCEPT ![p] = pc[p]] /\ pc[p] \in PipelineStates
          BY DEF IInv, TypeOK
        <4> QED
          BY <1>1, <3>1, <4>1
      <3>2. CASE pc' # pc
        BY <1>5, <3>2
           DEF Run, Validate, CheckPriceCache, PollJob, AfterPoll,
               ReadArtifactJob, ReadArtifactBars, RunEngine, RecordResult,
               PutResult, PersistResult, SweepRead, SweepWrite, Goto, tasks,
               PipelineStates
      <3> QED
        BY <3>1, <3>2
    <2> QED
      BY <1>1, <2>1, <2>2, RunningIsActive, Silent
  <1> QED
    BY <1>2, <1>3, <1>4, <1>5

(* CancelledError ends a pipeline somebody asked to cancel, or one at rest. *)
LEMMA ResumeRefines ==
    ASSUME IInv, NEW p \in Pipelines, Resume(p)
    PROVE  [Lifecycle!Next]_(<<phases, asked, answered>>)
  <1>1. /\ UNCHANGED <<canceller, asked, answered>>
        /\ pc[p] \in {"scheduled", "asleep"}
    BY DEF Resume
  <1>2. CASE p \in cancelReq /\ pc[p] = "scheduled"
    <2>1. pc' = [pc EXCEPT ![p] = "done"] /\ UNCHANGED status
      BY <1>2 DEF Resume
    <2>2. (canceller = p \/ status[p] = "cancelled") /\ p \in asked
      BY <1>2 DEF IInv, Cancels
    <2> QED
      BY <1>1, <2>1, <2>2, EndOfRun DEF Terminal
  <1>3. CASE ~(p \in cancelReq /\ pc[p] = "scheduled")
    <2>1. PICK c \in {"sweep_read", "validate", "poll"} : pc' = [pc EXCEPT ![p] = c]
      BY <1>3 DEF Resume
    <2>2. \A q \in Pipelines \ {p} : status'[q] = status[q]
      BY <1>3 DEF Resume, IInv, TypeOK
    <2>3. c \in PipelineStates
      BY DEF PipelineStates
    <2> QED
      BY <1>1, <2>1, <2>2, <2>3, RunningIsActive, Silent
  <1> QED
    BY <1>2, <1>3

(* Only a job that is active can be asked to stop: one that is done, or    *)
(* that nobody started, is not offered to the canceller.                   *)
LEMMA CancelRequestRefines ==
    ASSUME IInv, NEW p \in Pipelines, CancelRequest(p)
    PROVE  [Lifecycle!Next]_(<<phases, asked, answered>>)
  <1>1. /\ UNCHANGED <<pc, status, answered>> /\ asked' = asked \cup {p}
        /\ canceller = NoPipeline /\ canceller' = p
        /\ p \in known /\ status[p] \notin Terminal
    BY DEF CancelRequest, pipelineJobs
  <1>2. pc[p] # "none" /\ pc[p] # "done"
    BY <1>1, Numbers DEF IInv, Cancels, Outcome
  <1>3. Phase(p) = "active" /\ \A q \in Pipelines : Phase(q)' = Phase(q)
    BY <1>1, <1>2, Numbers DEF Phase, AtRest
  <1>4. phases' = phases /\ phases[p] = "active"
    BY <1>3 DEF phases
  <1>5. CASE p \in asked
    BY <1>1, <1>4, <1>5
  <1>6. CASE p \notin asked
    <2>1. Lifecycle!Ask(p)
      BY <1>1, <1>4, <1>6 DEF Lifecycle!Ask, phases, Phase
    <2> QED
      BY <2>1 DEF Lifecycle!Next
  <1> QED
    BY <1>5, <1>6

(* The late write of a cancellation settles a job that waited for it. *)
LEMMA CancelWriteRefines ==
    ASSUME IInv, CancelWrite
    PROVE  [Lifecycle!Next]_(<<phases, asked, answered>>)
  <1>1. PICK p \in Pipelines : canceller = p
    BY DEF CancelWrite, IInv, TypeOK
  <1>2. /\ UNCHANGED <<pc, asked, answered>> /\ canceller' = NoPipeline
        /\ status' = [status EXCEPT ![p] = "cancelled"]
        /\ p \in asked /\ pc[p] # "none"
    BY <1>1 DEF CancelWrite, tasks, IInv, TypeOK, Cancels
  <1>3. /\ status'[p] = "cancelled"
        /\ \A q \in Pipelines \ {p} : status'[q] = status[q]
    BY <1>2 DEF IInv, TypeOK
  <1>4. \A q \in Pipelines \ {p} : Phase(q)' = Phase(q)
    BY <1>1, <1>2, <1>3, Numbers DEF Phase, AtRest
  <1>5. /\ Phase(p) = "active"
        /\ Phase(p)' = IF pc[p] = "done" THEN "cancelled" ELSE "active"
    BY <1>1, <1>2, <1>3, Numbers DEF Phase, AtRest
  <1>6. phases' = [phases EXCEPT ![p] = Phase(p)'] /\ phases[p] = "active"
    BY <1>4, <1>5, OnePhase DEF phases
  <1>7. CASE pc[p] = "done"
    <2>1. Lifecycle!Settle(p)
      BY <1>2, <1>5, <1>6, <1>7
         DEF Lifecycle!Settle, Lifecycle!Outcomes, phases, Phase
    <2> QED
      BY <2>1 DEF Lifecycle!Next
  <1>8. CASE pc[p] # "done"
    BY <1>2, <1>4, <1>5, <1>8, Silent
  <1> QED
    BY <1>7, <1>8

(* Every step of a pipeline is a step of the abstract job, or none of it. *)
LEMMA StepRefines ==
    IInv /\ [Next]_vars => [Lifecycle!Next]_(<<phases, asked, answered>>)
  <1> SUFFICES ASSUME IInv, [Next]_vars
               PROVE  [Lifecycle!Next]_(<<phases, asked, answered>>)
    OBVIOUS
  <1>1. ASSUME NEW p \in Pipelines, Start(p)
        PROVE  [Lifecycle!Next]_(<<phases, asked, answered>>)
    <2>1. /\ UNCHANGED <<status, canceller, asked, answered>>
          /\ pc' = [pc EXCEPT ![p] = "scheduled"] /\ pc[p] = "none"
      BY <1>1, StartInv DEF Start
    <2>2. \A q \in Pipelines : pc'[q] = IF q = p THEN "scheduled" ELSE pc[q]
      BY <2>1 DEF IInv, TypeOK
    <2>3. /\ Phase(p) = "new" /\ Phase(p)' = "active"
          /\ \A q \in Pipelines \ {p} : Phase(q)' = Phase(q)
      BY <2>1, <2>2 DEF Phase, AtRest
    <2>4. phases' = [phases EXCEPT ![p] = "active"] /\ phases[p] = "new"
      BY <2>3, OnePhase DEF phases
    <2>5. Lifecycle!Submit(p)
      BY <2>1, <2>4 DEF Lifecycle!Submit, phases, Phase
    <2> QED
      BY <2>5 DEF Lifecycle!Next
  <1>2. ASSUME NEW p \in Pipelines, CancelRequest(p) \/ Resume(p) \/ Run(p)
        PROVE  [Lifecycle!Next]_(<<phases, asked, answered>>)
    BY <1>2, CancelRequestRefines, ResumeRefines, RunRefines
  <1>3. CASE CancelWrite
    BY <1>3, CancelWriteRefines
  <1>4. ASSUME NEW j \in Jobs, IndicatorJob(j)
        PROVE  [Lifecycle!Next]_(<<phases, asked, answered>>)
    <2>1. JobUnchanged
      BY <1>4 DEF IndicatorJob, JobHandOver, JobCancelled, JobWrites,
                  JobStores, JobDeleted
    <2>2. UNCHANGED <<pc, status, canceller, asked, answered>>
      BY <2>1 DEF JobUnchanged, pipelineJobs, tasks
    <2> QED
      BY <2>2, Silent DEF Phase, AtRest
  <1>5. CASE UNCHANGED vars
    <2>1. UNCHANGED <<pc, status, canceller, asked, answered>>
      BY <1>5 DEF vars, pipelineJobs, tasks
    <2> QED
      BY <2>1, Silent DEF Phase, AtRest
  <1> QED
    BY <1>1, <1>2, <1>3, <1>4, <1>5 DEF Next, StartStrategyPipeline

(* For any number of pipelines, and whatever cancellations race with the   *)
(* coroutine: a pipeline takes only the steps a background job may take.   *)
(* Its outcome never changes once it is at rest, "cancelled" needs         *)
(* somebody who asked, and "completed" comes with the result.              *)
THEOREM PipelinesRefineLifecycle == Spec => Lifecycle!SafeSpec
  <1>1. Init => Lifecycle!Init
    BY DEF Init, Lifecycle!Init, AtRest
  <1>2. IInv /\ [Next]_vars => [Lifecycle!Next]_(Lifecycle!lifecycle)
    BY StepRefines DEF Lifecycle!lifecycle, phases, Phase
  <1> QED
    BY <1>1, <1>2, InvariantHolds, PTL DEF Spec, Lifecycle!SafeSpec
=============================================================================
