-------------------------- MODULE StreamIdsProofs --------------------------
(***************************************************************************)
(* Proofs about StreamIds, for every limit and every number of streams: no *)
(* stream is created twice, none is refused for its id, and there are      *)
(* never more of them than the settings allow.                             *)
(***************************************************************************)
EXTENDS StreamIds, RangesProofs, FiniteSetTheorems

\* The walk of ngtcp2_idtr_open and ngtcp2_idtr_is_open asks whether the id is
\* in a gap.
LEMMA InUseFacts ==
  ASSUME NEW gaps, GapsOK(gaps), NEW id \in Nat
  PROVE  InUse(gaps, id) <=> ~InGaps(gaps, id)
<1>1. \A g \in gaps : g.begin \in Int /\ g.end \in Int
  BY UINT64_MAXAssumption DEF GapsOK, NgRange, Offset
<1> QED
  BY <1>1 DEF InUse, InGaps

\* ngtcp2_idtr_open marks one id as used, and no other.
LEMMA OpenFacts ==
  ASSUME NEW gaps, GapsOK(gaps), NEW id \in Ids
  PROVE  /\ GapsOK(ngtcp2_idtr_open(gaps, id))
         /\ \A i \in Ids : InUse(ngtcp2_idtr_open(gaps, id), i) <=> InUse(gaps, i) \/ i = id
<1> DEFINE q == Range_(id, id + 1)
<1>1. /\ q \in NgRange /\ q.begin = id /\ q.end = id + 1
      /\ id \in Nat /\ Ids \subseteq Nat
  BY StreamIdsAssumption, UINT64_MAXAssumption DEF Ids, Range_, NgRange, Offset
<1>2. ngtcp2_idtr_open(gaps, id) = ngtcp2_gaptr_push(gaps, q)
  BY Zenon DEF ngtcp2_idtr_open, ngtcp2_gaptr_push
<1> HIDE DEF q
<1>3. GapsOK(ngtcp2_gaptr_push(gaps, q))
  BY <1>1, PushGapsOK, Zenon
<1>4. ASSUME NEW i \in Ids
      PROVE  InUse(ngtcp2_gaptr_push(gaps, q), i) <=> InUse(gaps, i) \/ i = id
  <2>1. i \in Nat /\ i \in Int
    BY <1>1
  <2>2. InGaps(ngtcp2_gaptr_push(gaps, q), i) <=> InGaps(gaps, i) /\ ~(id <= i /\ i < id + 1)
    BY <1>1, <2>1, PushInGaps
  <2>3. (id <= i /\ i < id + 1) <=> i = id
    BY <1>1, <2>1
  <2> QED
    BY <1>3, <2>1, <2>2, <2>3, InUseFacts, Zenon
<1> QED
  BY <1>2, <1>3, <1>4, Zenon

\* A new connection: no id is in use, and the limits are those of the settings.
LEMMA InitStreamIds == Init => StreamIdsInv
<1> SUFFICES ASSUME Init PROVE StreamIdsInv
  OBVIOUS
<1> USE StreamIdsAssumption, UINT64_MAXAssumption
<1>1. GapsOK(gap)
  BY DEF Init, GapsOK, Range_, NgRange, Offset
<1>2. \A id \in Ids : InUse(gap, id) <=> id \in seen
  BY DEF Init, InUse, Range_, Ids
<1>3. TypeOK
  <2>1. err \in BOOLEAN
    BY Zenon DEF Init
  <2> QED
    BY <1>1, <2>1 DEF Init, TypeOK
<1>4. Cardinality(deleted) = 0
  BY FS_EmptySet, Zenon DEF Init
<1> QED
  BY <1>2, <1>3, <1>4 DEF Init, StreamIdsInv, NeverReborn

\* The types of the variables, for the arithmetic of the steps.
LEMMA TypeFacts ==
  ASSUME StreamIdsInv
  PROVE  /\ next_local_stream_id \in Nat /\ max_local_stream_id \in Nat
         /\ max_remote_stream_id \in Nat /\ unsent_max_remote_stream_id \in Nat
         /\ unsent_max_remote_stream_id <= MAX_ID
         /\ IsFiniteSet(Ids) /\ Ids \subseteq Nat
         /\ IsFiniteSet(strms) /\ IsFiniteSet(deleted) /\ Cardinality(deleted) \in Nat
<1> USE StreamIdsAssumption
<1>1. IsFiniteSet(Ids) /\ Ids \subseteq Nat
  BY FS_Interval DEF Ids
<1>2. strms \in SUBSET Ids /\ deleted \in SUBSET Ids
  BY Zenon DEF StreamIdsInv, NeverReborn, TypeOK
<1>3. IsFiniteSet(strms) /\ IsFiniteSet(deleted)
  BY <1>1, <1>2, FS_Subset, Zenon
<1>4. Cardinality(deleted) \in Nat
  BY <1>3, FS_CardinalityType, Zenon
<1> QED
  BY <1>1, <1>3, <1>4 DEF StreamIdsInv, NeverReborn, TypeOK

\* A frame for an id that the opener has opened and the tracker does not know:
\* it is within the limit, and marks its id only.
LEMMA RecvNewIdInv ==
  ASSUME StreamIdsInv, NEW id \in Ids, NEW created \in SUBSET {id},
         ~InUse(gap, id), id < next_local_stream_id, RecvNewId(id, created)
  PROVE  StreamIdsInv'
<1>0. ~(max_remote_stream_id < id)
  BY TypeFacts, StreamIdsAssumption DEF StreamIdsInv, Ids
<1>1. /\ err' = FALSE /\ strms' = strms \cup created
      /\ gap' = ngtcp2_idtr_open(gap, id) /\ seen' = seen \cup {id}
      /\ UNCHANGED <<opener, deleted, window, sent_max>>
  <2>1. err' = (max_remote_stream_id < id)
    BY Zenon DEF RecvNewId
  <2>2. (max_remote_stream_id < id) = FALSE
    BY <1>0
  <2>3. err' = FALSE
    BY <2>1, <2>2, Zenon
  <2> QED
    BY <1>0, <2>3, Zenon DEF RecvNewId
<1>2. id \notin seen /\ id \notin strms /\ id \notin deleted
  BY Zenon DEF StreamIdsInv, NeverReborn
<1>3. GapsOK(gap') /\ \A i \in Ids : InUse(gap', i) <=> InUse(gap, i) \/ i = id
  BY <1>1, OpenFacts, Zenon DEF StreamIdsInv, NeverReborn, TypeOK
<1>4. TypeOK'
  BY <1>1, <1>3, Zenon DEF StreamIdsInv, NeverReborn, TypeOK, opener, window
<1>5. \A i \in Ids : InUse(gap', i) <=> i \in seen'
  BY <1>1, <1>3, Zenon DEF StreamIdsInv, NeverReborn
<1>6. strms' \cap deleted' = {} /\ strms' \cup deleted' \subseteq seen'
  BY <1>1, <1>2, Zenon DEF StreamIdsInv, NeverReborn
<1>7. \A i \in seen' : i <= max_remote_stream_id'
  BY <1>0, <1>1, TypeFacts DEF StreamIdsInv, window
<1> QED
  BY <1>1, <1>4, <1>5, <1>6, <1>7, Zenon DEF StreamIdsInv, NeverReborn, opener, window

\* A stream of the peer is deleted: the limit grows by one at most.
LEMMA CloseInv ==
  ASSUME StreamIdsInv, NEW id \in Ids, ngtcp2_conn_close_stream(id)
  PROVE  StreamIdsInv'
<1>1. /\ id \in strms /\ strms' = strms \ {id} /\ deleted' = deleted \cup {id}
      /\ unsent_max_remote_stream_id' = unsent_max_remote_stream_id + Extension
      /\ UNCHANGED <<opener, gap, seen, max_remote_stream_id, window_start, sent_max, err>>
  BY Zenon DEF ngtcp2_conn_close_stream
<1>2. id \notin deleted
  BY <1>1, Zenon DEF StreamIdsInv, NeverReborn
<1>3. Cardinality(deleted') = Cardinality(deleted) + 1
  BY <1>1, <1>2, TypeFacts, FS_AddElement, Zenon
<1>4. /\ Extension \in {0, 1}
      /\ Extension = 1 => unsent_max_remote_stream_id <= MAX_ID - 1
  BY DEF Extension
<1> HIDE DEF Extension
<1>5. /\ unsent_max_remote_stream_id' \in 0 .. MAX_ID
      /\ unsent_max_remote_stream_id <= unsent_max_remote_stream_id'
      /\ unsent_max_remote_stream_id' <= unsent_max_remote_stream_id + 1
  BY <1>1, <1>4, TypeFacts, StreamIdsAssumption
<1>6. TypeOK'
  BY <1>1, <1>5, Zenon DEF StreamIdsInv, NeverReborn, TypeOK, opener
<1>7. /\ \A i \in Ids : InUse(gap', i) <=> i \in seen'
      /\ strms' \cap deleted' = {} /\ strms' \cup deleted' \subseteq seen'
  BY <1>1, <1>2, Zenon DEF StreamIdsInv, NeverReborn
<1>8. unsent_max_remote_stream_id' <= MaxIds + Cardinality(deleted')
  BY <1>3, <1>5, TypeFacts, StreamIdsAssumption DEF StreamIdsInv
<1>9. max_remote_stream_id' <= unsent_max_remote_stream_id'
  BY <1>1, <1>5, TypeFacts, StreamIdsAssumption DEF StreamIdsInv
<1> QED
  BY <1>1, <1>6, <1>7, <1>8, <1>9, Zenon DEF StreamIdsInv, NeverReborn, opener

\* The opener opens a stream, or learns of a new limit; the acceptor announces
\* one.
LEMMA LimitsInv ==
  ASSUME StreamIdsInv,
         \/ ngtcp2_conn_open_stream
         \/ conn_write_pkt
         \/ \E m \in sent_max : conn_recv_max_stream_id(m)
  PROVE  StreamIdsInv'
<1> USE StreamIdsAssumption
<1>1. CASE ngtcp2_conn_open_stream
  <2>1. /\ next_local_stream_id' = next_local_stream_id + 1 /\ next_local_stream_id \in Ids
        /\ next_local_stream_id <= max_local_stream_id
        /\ UNCHANGED <<max_local_stream_id, told, table, window, sent_max, err>>
    BY <1>1, Zenon DEF ngtcp2_conn_open_stream
  <2>2. TypeOK'
    BY <2>1 DEF StreamIdsInv, NeverReborn, TypeOK, table, window, Ids
  <2> QED
    BY <2>1, <2>2, TypeFacts DEF StreamIdsInv, NeverReborn, table, window
<1>2. CASE conn_write_pkt
  <2>1. /\ max_remote_stream_id' = unsent_max_remote_stream_id
        /\ max_remote_stream_id < unsent_max_remote_stream_id
        /\ sent_max' = sent_max \cup {unsent_max_remote_stream_id}
        /\ UNCHANGED <<opener, table, unsent_max_remote_stream_id, window_start, err>>
    BY <1>2, Zenon DEF conn_write_pkt
  <2>2. TypeOK'
    BY <2>1, Zenon DEF StreamIdsInv, NeverReborn, TypeOK, table, opener
  <2>3. \A m \in sent_max' : m \in 0 .. max_remote_stream_id'
    BY <2>1, TypeFacts DEF StreamIdsInv
  <2>4. \A id \in seen' : id <= max_remote_stream_id'
    <3> SUFFICES ASSUME NEW id \in seen PROVE id <= unsent_max_remote_stream_id
      BY <2>1, Zenon DEF table
    <3>1. id \in Nat /\ id <= max_remote_stream_id
      BY TypeFacts, Zenon DEF StreamIdsInv, NeverReborn, TypeOK
    <3> QED
      BY <2>1, <3>1, TypeFacts
  <2> QED
    BY <2>1, <2>2, <2>3, <2>4, TypeFacts DEF StreamIdsInv, NeverReborn, table, opener
<1>3. ASSUME NEW m \in sent_max, conn_recv_max_stream_id(m) PROVE StreamIdsInv'
  <2>1. /\ max_local_stream_id' = IF m > max_local_stream_id THEN m ELSE max_local_stream_id
        /\ told' = m
        /\ UNCHANGED <<next_local_stream_id, table, window, sent_max, err>>
    BY <1>3, Zenon DEF conn_recv_max_stream_id
  <2>2. m \in Nat /\ m <= max_remote_stream_id /\ m <= MAX_ID
    BY TypeFacts DEF StreamIdsInv
  <2>3. TypeOK'
    BY <2>1, <2>2 DEF StreamIdsInv, NeverReborn, TypeOK, table, window
  <2>4. /\ max_local_stream_id <= max_local_stream_id'
        /\ max_local_stream_id' <= max_remote_stream_id
    BY <2>1, <2>2, TypeFacts DEF StreamIdsInv
  <2>5. next_local_stream_id' <= max_local_stream_id' + 1
    BY <2>1, <2>2, <2>4, TypeFacts DEF StreamIdsInv
  <2> QED
    BY <2>1, <2>3, <2>4, <2>5, Zenon DEF StreamIdsInv, NeverReborn, table, window
<1> QED
  BY <1>1, <1>2, <1>3, Zenon

\* The inductive invariant holds of every behaviour.
THEOREM StreamIdsInvariant == Spec => []StreamIdsInv
<1>1. StreamIdsInv /\ [Next]_vars => StreamIdsInv'
  <2> SUFFICES ASSUME StreamIdsInv, [Next]_vars PROVE StreamIdsInv'
    OBVIOUS
  <2>1. CASE UNCHANGED vars
    BY <2>1, Zenon DEF vars, opener, table, window, StreamIdsInv, NeverReborn, TypeOK
  <2>2. ASSUME NEW id \in Ids, RecvCreates(id) PROVE StreamIdsInv'
    BY <2>2, RecvNewIdInv, Zenon DEF RecvCreates
  <2>3. ASSUME NEW id \in Ids, RecvMarks(id) PROVE StreamIdsInv'
    BY <2>3, RecvNewIdInv, Zenon DEF RecvMarks
  <2>4. ASSUME NEW id \in Ids, ngtcp2_conn_close_stream(id) PROVE StreamIdsInv'
    BY <2>4, CloseInv, Zenon
  <2> QED
    BY <2>1, <2>2, <2>3, <2>4, LimitsInv, Zenon DEF Next
<1> QED
  BY <1>1, InitStreamIds, PTL DEF Spec

\* A stream that was deleted is never created again: conn_recv_stream and
\* conn_recv_max_stream_data find its id in the tracker.
THEOREM StreamsAreNotReborn == Spec => []NeverReborn
<1>1. StreamIdsInv => NeverReborn
  BY Zenon DEF StreamIdsInv
<1> QED
  BY <1>1, StreamIdsInvariant, PTL

\* The number of streams stays within the settings and an opener that respects
\* MAX_STREAM_ID is not accused: open and deleted streams have different ids
\* up to the limit, which has grown by at most the number of the deleted ones.
THEOREM StreamsAreBounded == Spec => []StreamsBounded
<1>1. StreamIdsInv => StreamsBounded
  <2> SUFFICES ASSUME StreamIdsInv
               PROVE  Cardinality(strms) <= MaxIds - FirstId + 1
    BY Zenon DEF StreamIdsInv, StreamsBounded
  <2> DEFINE used == strms \cup deleted
             max  == max_remote_stream_id
  <2>1. /\ IsFiniteSet(strms) /\ IsFiniteSet(deleted) /\ max \in Nat
        /\ Cardinality(deleted) \in Nat /\ unsent_max_remote_stream_id \in Nat
    BY TypeFacts, Zenon
  <2>2. Cardinality(strms) \in Nat
    BY <2>1, FS_CardinalityType, Zenon
  <2>3. strms \cap deleted = {}
    BY Zenon DEF StreamIdsInv, NeverReborn
  <2>4. Cardinality(used) = Cardinality(strms) + Cardinality(deleted)
    BY <2>1, <2>2, <2>3, FS_Union, FS_EmptySet
  <2>5. used \in SUBSET (FirstId .. max)
    <3> SUFFICES ASSUME NEW id \in used PROVE id \in FirstId .. max
      BY Zenon
    <3>1. id \in Ids /\ id <= max
      BY Zenon DEF StreamIdsInv, NeverReborn, TypeOK
    <3> QED
      BY <3>1, <2>1, StreamIdsAssumption DEF Ids
  <2>6. /\ IsFiniteSet(FirstId .. max)
        /\ Cardinality(FirstId .. max) = IF FirstId > max THEN 0 ELSE max - FirstId + 1
    <3>1. FirstId \in Int /\ max \in Int
      BY <2>1, StreamIdsAssumption
    <3> HIDE DEF max
    <3> QED
      BY <3>1, FS_Interval, Zenon
  <2>7. Cardinality(used) <= Cardinality(FirstId .. max)
    BY <2>5, <2>6, FS_Subset, Zenon
  <2>8. max <= MaxIds + Cardinality(deleted)
    BY <2>1, StreamIdsAssumption DEF StreamIdsInv
  <2> HIDE DEF used, max
  <2> QED
    BY <2>1, <2>2, <2>4, <2>6, <2>7, <2>8, StreamIdsAssumption
<1> QED
  BY <1>1, StreamIdsInvariant, PTL
=============================================================================
