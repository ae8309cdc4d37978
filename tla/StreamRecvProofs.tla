-------------------------- MODULE StreamRecvProofs --------------------------
(***************************************************************************)
(* Proofs about Rob and StreamRecv for every set of frames, every chunk    *)
(* size and every window: the reorder buffer keeps every byte until it is  *)
(* delivered, what the application receives is the peer's stream, fin      *)
(* comes once and at the end, no assertion fails, and a stream is deleted  *)
(* only when it was delivered.                                             *)
(***************************************************************************)
EXTENDS StreamRecv, RangesProofs

-----------------------------------------------------------------------------
(* The reorder buffer: BufferIntact is preserved by a push and by an       *)
(* advance, and what an advance hands over is the stream's own bytes.      *)

\* A chunk covers its offsets (rob_write_data: offset / chunk * chunk).
LEMMA ChunkCovers ==
  ASSUME NEW i \in Nat
  PROVE  ChunkOf(i) \in Nat /\ ChunkOf(i) <= i /\ i < ChunkOf(i) + Chunk
<1>1. /\ i \div Chunk \in Nat /\ i % Chunk \in 0 .. Chunk - 1
      /\ i = Chunk * (i \div Chunk) + (i % Chunk)
  BY ChunkAssumption
<1> DEFINE a == i \div Chunk
<1>2. a \in Nat BY <1>1, Zenon
<1>3. a * Chunk = Chunk * a /\ a * Chunk \in Nat
  <2> HIDE DEF a
  <2> QED BY <1>2, ChunkAssumption
<1> QED BY <1>1, <1>3, ChunkAssumption DEF ChunkOf

\* Chunks are aligned: one that ends after i does not begin after i's chunk.
LEMMA ChunkAligned ==
  ASSUME NEW i \in Nat, NEW c \in Nat, c = ChunkOf(c), i < c + Chunk
  PROVE  ChunkOf(i) <= c
<1> DEFINE a == i \div Chunk
           k == c \div Chunk
<1>1. a \in Nat /\ k \in Nat
  BY ChunkAssumption
<1>2. a * Chunk <= i /\ c = k * Chunk
  BY ChunkCovers, Zenon DEF ChunkOf
<1> HIDE DEF a, k
<1>3. a * Chunk < (k + 1) * Chunk
  BY <1>1, <1>2, ChunkAssumption
<1>4. a < k + 1
  BY <1>1, <1>3, ChunkAssumption
<1>5. a <= k BY <1>1, <1>4
<1>6. a * Chunk <= k * Chunk
  BY <1>1, <1>5, ChunkAssumption
<1> QED BY <1>2, <1>6, Zenon DEF ChunkOf, a

\* The chunk of a chunk's offset is that chunk.
LEMMA ChunkIdempotent ==
  ASSUME NEW i \in Nat
  PROVE  ChunkOf(ChunkOf(i)) = ChunkOf(i)
<1> DEFINE a == i \div Chunk
<1>1. a \in Nat BY ChunkAssumption
<1> HIDE DEF a
<1>2. (a * Chunk) \div Chunk = a
  BY <1>1, ChunkAssumption
<1> QED BY <1>2, Zenon DEF ChunkOf, a

\* The initial buffer is intact and waits for the first byte.
LEMMA RobInitIntact ==
  ASSUME RobInit
  PROVE  BufferIntact /\ RxOffset(gap) = 0
<1>1. GapsOK(gap) /\ gap # {}
  BY UINT64_MAXAssumption DEF RobInit, InitGaps, GapsOK, NgRange, Offset, Range_
<1>2. \A i \in Int : InGaps(gap, i) <=> 0 <= i /\ i < UINT64_MAX
  BY DEF RobInit, InitGaps, InGaps, Range_
<1>3. RxOffset(gap) \in Offset /\ RxOffset(gap) < UINT64_MAX
      /\ InGaps(gap, RxOffset(gap))
      /\ \A i \in Int : InGaps(gap, i) => RxOffset(gap) <= i
  BY <1>1, FirstGapFacts, Zenon DEF RxOffset
<1>4. RxOffset(gap) = 0
  BY <1>2, <1>3, UINT64_MAXAssumption DEF Offset
<1> QED BY <1>1, <1>2, <1>4, UINT64_MAXAssumption
        DEF BufferIntact, RobTypeOK, RobInit, Offset, Uninit

\* What BufferIntact says about the first gap.
LEMMA IntactFirstGap ==
  ASSUME BufferIntact
  PROVE  /\ GapsOK(gap) /\ gap # {}
         /\ RxOffset(gap) \in Offset /\ RxOffset(gap) < UINT64_MAX
         /\ InGaps(gap, RxOffset(gap))
         /\ \A i \in Int : InGaps(gap, i) => RxOffset(gap) <= i
<1>1. GapsOK(gap) /\ gap # {}
  BY Zenon DEF BufferIntact, RobTypeOK, InGaps
<1> QED BY <1>1, FirstGapFacts, Zenon DEF RxOffset

\* Two lists with the same open offsets below the last one have the same first
\* gap.
LEMMA FirstGapUnique ==
  ASSUME NEW gaps, GapsOK(gaps), NEW x \in Int, InGaps(gaps, x),
         \A i \in Int : InGaps(gaps, i) => x <= i
  PROVE  RxOffset(gaps) = x
<1>1. gaps # {} BY Zenon DEF InGaps
<1>2. RxOffset(gaps) \in Offset /\ InGaps(gaps, RxOffset(gaps))
      /\ \A i \in Int : InGaps(gaps, i) => RxOffset(gaps) <= i
  BY <1>1, FirstGapFacts, Zenon DEF RxOffset
<1>3. RxOffset(gaps) \in Int BY <1>2, UINT64_MAXAssumption DEF Offset
<1> QED BY <1>2, <1>3

\* ngtcp2_rob_push beyond the first gap keeps the buffer intact and the first
\* gap where it is.
LEMMA RobPushIntact ==
  ASSUME BufferIntact,
         NEW b \in Nat, NEW e \in Nat, RxOffset(gap) < b, b <= e, e < UINT64_MAX,
         NEW payload, payload = Bytes(b, e),
         ngtcp2_rob_push(b, payload)
  PROVE  BufferIntact' /\ RxOffset(gap') = RxOffset(gap)
<1> DEFINE q == Range_(b, e)
           new == Missing(gap, b, e)
           rx == RxOffset(gap)
<1>1. /\ GapsOK(gap) /\ rx \in Offset /\ rx \in Int /\ rx < UINT64_MAX /\ InGaps(gap, rx)
      /\ \A i \in Int : InGaps(gap, i) => rx <= i
  BY IntactFirstGap, UINT64_MAXAssumption DEF Offset
<1>2. q \in NgRange /\ q.begin = b /\ q.end = e
  BY UINT64_MAXAssumption DEF Range_, NgRange, Offset
<1>3. /\ Len(payload) = e - b /\ b + Len(payload) = e
      /\ \A i \in b .. e - 1 : payload[i - b + 1] = i
  BY DEF Bytes
<1>4. /\ gap' = ngtcp2_gaptr_push(gap, q)
      /\ data' = data \cup {ChunkOf(i) : i \in new}
      /\ mem' = [i \in Offset |-> IF i \in new THEN payload[i - b + 1] ELSE mem[i]]
  BY <1>3, Zenon DEF ngtcp2_rob_push
<1>5. /\ GapsOK(gap')
      /\ \A i \in Int : InGaps(gap', i) <=> InGaps(gap, i) /\ ~(b <= i /\ i < e)
  BY <1>1, <1>2, <1>4, PushGapsOK, PushInGaps
<1>6. InGaps(gap', rx) /\ InGaps(gap', UINT64_MAX - 1)
  BY <1>1, <1>5, UINT64_MAXAssumption DEF BufferIntact
<1>7. RxOffset(gap') = rx
  BY <1>1, <1>5, <1>6, FirstGapUnique, Zenon
<1>8. new \subseteq Offset /\ \A i \in new : i \in Nat /\ b <= i /\ i < e /\ payload[i - b + 1] = i
  BY <1>3, UINT64_MAXAssumption DEF Missing, Offset
<1>9. data' \subseteq Nat /\ mem' \in [Offset -> Offset \cup {Uninit}]
  <2> HIDE DEF new
  <2>1. data \subseteq Nat /\ mem \in [Offset -> Offset \cup {Uninit}]
    BY Zenon DEF BufferIntact, RobTypeOK
  <2>2. \A i \in new : ChunkOf(i) \in Nat
    BY <1>8, ChunkCovers, Zenon
  <2>3. data' \subseteq Nat
    BY <1>4, <2>1, <2>2, Zenon
  <2>4. \A i \in Offset : (IF i \in new THEN payload[i - b + 1] ELSE mem[i]) \in Offset \cup {Uninit}
    BY <1>8, <2>1, Zenon
  <2>5. mem' \in [Offset -> Offset \cup {Uninit}]
    BY <1>4, <2>4, Zenon
  <2> QED BY <2>3, <2>5, Zenon
<1>10. ASSUME NEW i \in rx .. UINT64_MAX - 1, ~InGaps(gap', i)
       PROVE  ChunkOf(i) \in data' /\ mem'[i] = i
  <2>1. i \in Int /\ i \in Offset BY <1>1, UINT64_MAXAssumption DEF Offset
  <2>2. CASE i \in new
    BY <1>4, <1>8, <2>1, <2>2, Zenon
  <2>3. CASE i \notin new
    <3>1. ~InGaps(gap, i)
      BY <1>5, <1>10, <2>1, <2>3 DEF Missing
    <3> QED BY <1>4, <2>1, <2>3, <3>1, Zenon DEF BufferIntact
  <2> QED BY <2>2, <2>3, Zenon
<1>11. ASSUME NEW c \in data' PROVE c = ChunkOf(c) /\ rx < c + Chunk
  <2>1. CASE c \in data BY <2>1, Zenon DEF BufferIntact
  <2>2. CASE c \notin data
    <3>1. PICK i \in new : c = ChunkOf(i) BY <1>4, <2>2, Zenon
    <3>2. i \in Nat /\ rx < i BY <1>1, <1>8
    <3>3. ChunkOf(i) \in Nat /\ i < ChunkOf(i) + Chunk /\ ChunkOf(ChunkOf(i)) = ChunkOf(i)
      BY <3>2, ChunkCovers, ChunkIdempotent, Zenon
    <3> QED BY <1>1, <3>1, <3>2, <3>3, ChunkAssumption
  <2> QED BY <2>1, <2>2, Zenon
<1> QED BY <1>5, <1>6, <1>7, <1>9, <1>10, <1>11, Zenon DEF BufferIntact, RobTypeOK

\* Delivering up to an offset at or beyond the first gap hands over exactly the
\* bytes of the stream up to the next gap, violates no assertion of
\* ngtcp2_rob_data_at and keeps the rest of the buffer intact.
LEMMA RobAdvanceIntact ==
  ASSUME BufferIntact,
         NEW offset \in Nat, RxOffset(gap) <= offset, offset < UINT64_MAX,
         RobAdvance(offset)
  PROVE  /\ BufferIntact'
         /\ RxOffset(gap') \in Nat /\ offset <= RxOffset(gap')
         /\ RxOffset(gap') < UINT64_MAX
         /\ Pending(offset) = Bytes(offset, RxOffset(gap'))
         /\ EmitAsserts(offset)
         /\ \A i \in Int : InGaps(gap', i) <=> InGaps(gap, i) /\ offset <= i
<1> DEFINE rx == RxOffset(gap)
           rx2 == RxOffset(gap')
<1>1. /\ GapsOK(gap) /\ rx \in Nat /\ offset \in Offset
      /\ \A i \in Int : InGaps(gap, i) => rx <= i
  BY IntactFirstGap, UINT64_MAXAssumption DEF Offset
<1>2. /\ gap' = RemovePrefixGaps(gap, offset)
      /\ data' = LiveChunks(rx2)
      /\ mem' = [i \in Offset |-> IF ChunkOf(i) \in data' THEN mem[i] ELSE Uninit]
  BY Zenon DEF RobAdvance
<1>3. /\ GapsOK(gap')
      /\ \A i \in Int : InGaps(gap', i) <=> InGaps(gap, i) /\ offset <= i
  BY <1>1, <1>2, PrefixGapsOK, PrefixInGaps, Zenon
<1>4. InGaps(gap', UINT64_MAX - 1) /\ gap' # {}
  <2>1. InGaps(gap', UINT64_MAX - 1)
    BY <1>3, UINT64_MAXAssumption DEF BufferIntact
  <2> QED BY <2>1, Zenon DEF InGaps
<1>5. /\ rx2 \in Offset /\ rx2 < UINT64_MAX /\ InGaps(gap', rx2)
      /\ \A i \in Int : InGaps(gap', i) => rx2 <= i
  BY <1>3, <1>4, FirstGapFacts, Zenon DEF RxOffset
<1>6. rx2 \in Nat /\ offset <= rx2
  BY <1>3, <1>5, UINT64_MAXAssumption DEF Offset
<1>7. \A i \in offset .. rx2 - 1 :
         /\ i \in Nat /\ i \in Offset /\ ~InGaps(gap, i)
         /\ ChunkOf(i) \in data /\ mem[i] = i
  <2> TAKE i \in offset .. rx2 - 1
  <2>1. i \in Int /\ i \in Nat /\ i \in Offset /\ i \in rx .. UINT64_MAX - 1
    BY <1>1, <1>5, <1>6, UINT64_MAXAssumption DEF Offset
  <2>2. ~InGaps(gap, i)
    BY <1>3, <1>5, <1>6, <2>1
  <2> QED BY <2>1, <2>2, Zenon DEF BufferIntact
<1>8. \A i \in offset .. rx2 - 1 : ChunkOf(i) \in LiveChunks(offset)
  <2> TAKE i \in offset .. rx2 - 1
  <2>1. ChunkOf(i) \in Nat /\ i < ChunkOf(i) + Chunk BY <1>7, ChunkCovers, Zenon
  <2> QED BY <1>6, <1>7, <2>1, ChunkAssumption DEF LiveChunks
<1>9. Pending(offset) = Bytes(offset, rx2)
  <2>1. \A k \in 1 .. rx2 - offset :
           (IF ChunkOf(offset + k - 1) \in LiveChunks(offset)
            THEN mem[offset + k - 1] ELSE Uninit) = offset + k - 1
    <3> TAKE k \in 1 .. rx2 - offset
    <3>1. offset + k - 1 \in offset .. rx2 - 1 BY <1>6
    <3> QED BY <1>7, <1>8, <3>1, Zenon
  <2> QED BY <1>2, <2>1, Zenon DEF Pending, Bytes
<1>10. EmitAsserts(offset)
  <2>1. \A c \in LiveChunks(offset) : ChunkOf(offset) <= c
    BY ChunkAligned, Zenon DEF LiveChunks, BufferIntact, RobTypeOK
  <2> QED BY <1>2, <1>8, <2>1, Zenon DEF EmitAsserts
<1>11. data' \subseteq Nat /\ mem' \in [Offset -> Offset \cup {Uninit}]
  BY <1>2, Zenon DEF LiveChunks, BufferIntact, RobTypeOK
<1>12. ASSUME NEW i \in rx2 .. UINT64_MAX - 1, ~InGaps(gap', i)
       PROVE  ChunkOf(i) \in data' /\ mem'[i] = i
  <2>1. i \in Int /\ i \in Nat /\ i \in Offset /\ i \in rx .. UINT64_MAX - 1
    BY <1>1, <1>6, UINT64_MAXAssumption DEF Offset
  <2>2. ~InGaps(gap, i)
    BY <1>3, <1>6, <1>12, <2>1
  <2>3. ChunkOf(i) \in data /\ mem[i] = i
    BY <2>1, <2>2, Zenon DEF BufferIntact
  <2>4. ChunkOf(i) \in Nat /\ i < ChunkOf(i) + Chunk BY <2>1, ChunkCovers, Zenon
  <2>5. ChunkOf(i) \in data'
    BY <1>2, <1>6, <2>3, <2>4, ChunkAssumption DEF LiveChunks
  <2> QED BY <1>2, <2>1, <2>3, <2>5, Zenon
<1>13. \A c \in data' : c = ChunkOf(c) /\ rx2 < c + Chunk
  BY <1>2, Zenon DEF LiveChunks, BufferIntact
<1>14. BufferIntact'
  BY <1>3, <1>4, <1>11, <1>12, <1>13, Zenon DEF BufferIntact, RobTypeOK
<1> QED BY <1>3, <1>5, <1>6, <1>9, <1>10, <1>14, Zenon

-----------------------------------------------------------------------------
(* Receiving on a stream *)

\* Appending the next bytes of the stream to a prefix of it gives a prefix.
LEMMA AppendBytes ==
  ASSUME NEW s \in Seq(Int), NEW n \in Nat, NEW m \in Nat, n <= m,
         Len(s) = n, \A i \in 1 .. n : s[i] = i - 1
  PROVE  /\ s \o Bytes(n, m) \in Seq(Int)
         /\ Len(s \o Bytes(n, m)) = m
         /\ \A i \in 1 .. m : (s \o Bytes(n, m))[i] = i - 1
<1>1. Bytes(n, m) \in Seq(Int) /\ Len(Bytes(n, m)) = m - n
  BY DEF Bytes
<1>2. \A k \in 1 .. m - n : Bytes(n, m)[k] = n + k - 1
  BY Zenon DEF Bytes
<1>3. s \o Bytes(n, m) \in Seq(Int) /\ Len(s \o Bytes(n, m)) = m
  BY <1>1
<1>4. ASSUME NEW i \in 1 .. m PROVE (s \o Bytes(n, m))[i] = i - 1
  <2>1. CASE i <= n
    BY <1>1, <2>1
  <2>2. CASE ~(i <= n)
    <3>1. (s \o Bytes(n, m))[i] = Bytes(n, m)[i - n]
      BY <1>1, <2>2
    <3>2. i - n \in 1 .. m - n BY <2>2
    <3> QED BY <1>2, <3>1, <3>2
  <2> QED BY <2>1, <2>2, Zenon
<1> QED BY <1>3, <1>4, Zenon

\* The part of a frame beyond what was delivered (conn_recv_stream: ncut).
LEMMA CutPayload ==
  ASSUME NEW fr \in [offset : Nat, datalen : Nat, fin : BOOLEAN],
         NEW rx \in Nat, fr.offset <= rx, rx <= End(fr)
  PROVE  SubSeq(Payload(fr), rx - fr.offset + 1, fr.datalen) = Bytes(rx, End(fr))
<1>0. fr.offset \in Nat /\ fr.datalen \in Nat /\ End(fr) \in Nat
  BY DEF End
<1> DEFINE a == rx - fr.offset + 1
           t == SubSeq(Payload(fr), a, fr.datalen)
<1>1. a \in Nat \ {0} /\ End(fr) - rx = fr.datalen - a + 1
  BY <1>0 DEF End
<1>2. \A k \in a .. fr.datalen : Payload(fr)[k] = fr.offset + k - 1 /\ Payload(fr)[k] \in Int
  BY <1>0, <1>1 DEF Payload
<1>3. /\ t \in Seq(Int)
      /\ Len(t) = IF a <= fr.datalen THEN fr.datalen - a + 1 ELSE 0
      /\ \A k \in 1 .. fr.datalen - a + 1 : t[k] = Payload(fr)[a + k - 1]
  BY <1>0, <1>1, <1>2
<1> HIDE DEF t
<1>4. Len(t) = End(fr) - rx
  BY <1>0, <1>1, <1>3
<1>5. \A k \in 1 .. End(fr) - rx : t[k] = rx + k - 1
  <2> TAKE k \in 1 .. End(fr) - rx
  <2>1. k \in 1 .. fr.datalen - a + 1 /\ a + k - 1 \in a .. fr.datalen
    BY <1>0, <1>1
  <2>2. t[k] = fr.offset + (a + k - 1) - 1
    BY <1>2, <1>3, <2>1, Zenon
  <2> QED BY <1>0, <2>1, <2>2
<1>6. /\ Bytes(rx, End(fr)) \in Seq(Int) /\ Len(Bytes(rx, End(fr))) = End(fr) - rx
      /\ \A k \in 1 .. End(fr) - rx : Bytes(rx, End(fr))[k] = rx + k - 1
  BY <1>0, SMTT(30) DEF Bytes
<1>7. t = Bytes(rx, End(fr))
  <2>1. t = [k \in 1 .. End(fr) - rx |-> t[k]]
    BY <1>3, <1>4
  <2>2. t = [k \in 1 .. End(fr) - rx |-> rx + k - 1]
    BY <1>5, <2>1, Zenon
  <2>3. Bytes(rx, End(fr)) = [k \in 1 .. End(fr) - rx |-> rx + k - 1]
    BY Zenon DEF Bytes
  <2> QED BY <2>2, <2>3, Zenon
<1> QED BY <1>7, Zenon DEF t

-----------------------------------------------------------------------------
(* The invariant *)

\* A step that leaves the buffer alone keeps it intact.
LEMMA RobUnchanged ==
  ASSUME BufferIntact, UNCHANGED rob
  PROVE  BufferIntact' /\ gap' = gap
BY DEF BufferIntact, RobTypeOK, rob

\* Types and bounds that every step below uses; in particular nothing is
\* missing beyond the first gap only.
LEMMA InvFacts ==
  ASSUME StreamRecvInv
  PROVE  /\ last_rx_offset \in Nat /\ rx_offset \in Nat /\ nfin \in Nat
         /\ RxOffset(gap) \in Nat /\ RxOffset(gap) <= last_rx_offset
         /\ MaxStreamData \in Nat /\ MaxData \in Nat /\ UINT64_MAX \in Nat
<1>1. last_rx_offset \in Nat /\ rx_offset \in Nat /\ nfin \in Nat /\ UINT64_MAX \in Nat
  BY UINT64_MAXAssumption DEF StreamRecvInv, TypeOK, Offset
<1>2. InGaps(gap, last_rx_offset)
  BY <1>1 DEF StreamRecvInv
<1>3. RxOffset(gap) \in Offset /\ \A i \in Int : InGaps(gap, i) => RxOffset(gap) <= i
  BY IntactFirstGap, Zenon DEF StreamRecvInv
<1> QED BY <1>1, <1>2, <1>3, StreamRecvAssumption DEF Offset

\* The initial state.
LEMMA InitInv == Init => StreamRecvInv
<1> SUFFICES ASSUME Init PROVE StreamRecvInv
  BY Zenon
<1>1. BufferIntact /\ RxOffset(gap) = 0
  BY RobInitIntact, Zenon DEF Init
<1>2. \A i \in 0 .. UINT64_MAX - 1 : InGaps(gap, i)
  BY UINT64_MAXAssumption DEF Init, RobInit, InitGaps, InGaps, Range_
<1>3. TypeOK
  <2>1. app \in Seq(Int) BY DEF Init
  <2>2. flags \subseteq Flags BY Zenon DEF Init, Flags
  <2>3. last_rx_offset \in Offset /\ rx_offset \in Nat /\ nfin \in Nat /\ stop_at \in Nat
    BY UINT64_MAXAssumption DEF Init, Offset
  <2>4. /\ strm \in {"none", "open", "closed"} /\ fin_recv \in BOOLEAN
        /\ assert_ok \in BOOLEAN
        /\ err \in {"none", "FRAME_FORMAT", "FLOW_CONTROL", "FINAL_OFFSET"}
    BY Zenon DEF Init
  <2> QED BY <1>1, <2>1, <2>2, <2>3, <2>4, Zenon DEF TypeOK, BufferIntact
<1> QED
  BY <1>1, <1>2, <1>3, UINT64_MAXAssumption, StreamRecvAssumption
     DEF Init, StreamRecvInv, DeliveredPrefix, NoAssertFails, FinAtEnd

\* Calls of the application outside callbacks, and the acknowledged FIN.
LEMMA AppInv ==
  ASSUME StreamRecvInv,
         ngtcp2_conn_shutdown_stream_read \/ WriteFin \/ AckFin
  PROVE  StreamRecvInv'
<1>1. /\ BufferIntact' /\ gap' = gap /\ last_rx_offset' = last_rx_offset
      /\ rx_offset' = rx_offset /\ app' = app /\ nfin' = nfin
      /\ fin_recv' = fin_recv /\ assert_ok' = assert_ok /\ err' = err
  BY RobUnchanged, Zenon DEF StreamRecvInv, ngtcp2_conn_shutdown_stream_read, WriteFin, AckFin
<1>2. /\ flags \subseteq flags' /\ flags' \subseteq flags \cup {"SHUT_WR", "STOP_SENDING"}
      /\ stop_at' \in Nat
  BY DEF ngtcp2_conn_shutdown_stream_read, ShutdownReadAt, WriteFin, AckFin,
         StreamRecvInv, TypeOK
<1>3. /\ strm = "open"
      /\ \/ strm' = "open"
         \/ /\ strm' = "closed" /\ flags' = flags
            /\ "RECV_RST" \in flags \/ RxOffset(gap) = last_rx_offset
  BY Zenon DEF ngtcp2_conn_shutdown_stream_read, WriteFin, AckFin,
         ngtcp2_conn_close_stream_if_shut_rdwr
<1>4. TypeOK'
  BY <1>1, <1>2, <1>3, Zenon DEF StreamRecvInv, TypeOK, Flags, BufferIntact
<1>5. DeliveredPrefix' /\ NoAssertFails' /\ FinAtEnd'
  BY <1>1, <1>2, Zenon DEF StreamRecvInv, DeliveredPrefix, NoAssertFails, FinAtEnd
<1>6. /\ ("SHUT_RD" \notin flags => nfin = 0)'
      /\ ("SHUT_RD" \in flags /\ flags \cap {"RECV_RST", "STOP_SENDING"} = {}
            => /\ RxOffset(gap) = last_rx_offset => nfin = 1
               /\ strm = "closed" => RxOffset(gap) = last_rx_offset)'
  BY <1>1, <1>2, <1>3, Zenon DEF StreamRecvInv
<1>7. (strm # "closed" /\ "RECV_RST" \notin flags /\ err = "none"
         => rx_offset = last_rx_offset)'
  BY <1>1, <1>2, <1>3, Zenon DEF StreamRecvInv
<1> QED BY <1>1, <1>3, <1>4, <1>5, <1>6, <1>7, Zenon DEF StreamRecvInv

\* RST_STREAM.
LEMMA RstInv ==
  ASSUME StreamRecvInv, NEW final \in RstFrames, conn_recv_rst_stream(final)
  PROVE  StreamRecvInv'
<1>1. /\ BufferIntact' /\ gap' = gap /\ last_rx_offset' = last_rx_offset
      /\ app' = app /\ nfin' = nfin /\ stop_at' = stop_at
      /\ fin_recv' = fin_recv /\ assert_ok' = assert_ok
  BY RobUnchanged, Zenon DEF StreamRecvInv, conn_recv_rst_stream
<1>2. final \in Nat BY StreamRecvAssumption, Zenon
<1>3. \/ /\ strm' = strm /\ flags' = flags /\ rx_offset' = rx_offset
         /\ err' \in {err, "FLOW_CONTROL", "FINAL_OFFSET"}
      \/ /\ strm = "none" /\ strm' = "closed" /\ flags' = flags /\ err' = err
         /\ rx_offset' = rx_offset + final /\ ~(MaxData - rx_offset < final)
      \/ /\ strm' \in {"open", "closed"}
         /\ flags' = flags \cup {"SHUT_RD", "RECV_RST"} /\ err' = err
         /\ last_rx_offset <= final
         /\ rx_offset' = rx_offset + (final - last_rx_offset)
         /\ ~(MaxData - rx_offset < final - last_rx_offset)
  BY <1>2, InvFacts
     DEF conn_recv_rst_stream, RecvRstBeforeStream, RecvRst, RecvRstIgnored,
         ngtcp2_conn_close_stream_if_shut_rdwr
<1>4. TypeOK'
  <2>1. rx_offset' \in Nat BY <1>2, <1>3, InvFacts
  <2>2. /\ strm' \in {"none", "open", "closed"} /\ flags' \subseteq Flags
        /\ err' \in {"none", "FRAME_FORMAT", "FLOW_CONTROL", "FINAL_OFFSET"}
    BY <1>3, Zenon DEF StreamRecvInv, TypeOK, Flags
  <2> QED BY <1>1, <2>1, <2>2, Zenon DEF StreamRecvInv, TypeOK, BufferIntact
<1>5. DeliveredPrefix' /\ NoAssertFails' /\ FinAtEnd'
  BY <1>1, <1>3, Zenon DEF StreamRecvInv, DeliveredPrefix, NoAssertFails, FinAtEnd
<1>6. (rx_offset <= MaxData)'
  BY <1>2, <1>3, InvFacts DEF StreamRecvInv
<1>7. CASE strm = "none" /\ strm' = "closed" /\ flags' = flags
  <2>1. "SHUT_RD" \notin flags
    BY <1>7, Zenon DEF StreamRecvInv
  <2> QED
    BY <1>1, <1>4, <1>5, <1>6, <1>7, <2>1, Zenon DEF StreamRecvInv
<1>8. CASE ~(strm = "none" /\ strm' = "closed" /\ flags' = flags)
  BY <1>1, <1>3, <1>4, <1>5, <1>6, <1>8, Zenon DEF StreamRecvInv
<1> QED BY <1>7, <1>8, Zenon

\* What the checks of conn_recv_stream let through.
LEMMA AcceptedFacts ==
  ASSUME StreamRecvInv, NEW fr \in StreamFrames, err = "none", Accepted(fr)
  PROVE  /\ fr.offset \in Nat /\ fr.datalen \in Nat /\ fr.fin \in BOOLEAN
         /\ End(fr) \in Nat /\ End(fr) < UINT64_MAX /\ fr.offset <= End(fr)
         /\ last_rx_offset' \in Nat /\ last_rx_offset' \in {last_rx_offset, End(fr)}
         /\ last_rx_offset <= last_rx_offset' /\ End(fr) <= last_rx_offset'
         /\ last_rx_offset' < UINT64_MAX /\ last_rx_offset' <= MaxStreamData
         /\ rx_offset' \in Nat /\ rx_offset' <= MaxData
         /\ "RECV_RST" \notin flags => rx_offset' = last_rx_offset'
         /\ "SHUT_RD" \in flags => last_rx_offset' = last_rx_offset
         /\ fr.fin => last_rx_offset' = End(fr)
         /\ strm # "closed" /\ err' = "none"
<1>1. /\ fr.offset \in Nat /\ fr.datalen \in Nat /\ fr.fin \in BOOLEAN
      /\ End(fr) \in Nat /\ End(fr) < UINT64_MAX /\ fr.offset <= End(fr)
  BY StreamRecvAssumption DEF End
<1>2. /\ last_rx_offset' = IF last_rx_offset < End(fr) THEN End(fr) ELSE last_rx_offset
      /\ rx_offset' = IF last_rx_offset < End(fr)
                      THEN rx_offset + (End(fr) - last_rx_offset) ELSE rx_offset
      /\ ~(MaxStreamData < End(fr))
      /\ ~(last_rx_offset < End(fr) /\ MaxData - rx_offset < End(fr) - last_rx_offset)
      /\ strm # "closed" /\ err' = "none"
  BY Zenon DEF Accepted, CountRx, FlowControlError
<1>3. /\ "SHUT_RD" \in flags => ~(last_rx_offset < End(fr))
      /\ fr.fin => ~(last_rx_offset > End(fr))
  BY <1>1, InvFacts DEF Accepted, FinalOffsetError
<1>4. /\ rx_offset <= MaxData /\ last_rx_offset <= MaxStreamData
      /\ last_rx_offset < UINT64_MAX
      /\ "RECV_RST" \notin flags => rx_offset = last_rx_offset
  BY <1>2, Zenon DEF StreamRecvInv
<1> QED BY <1>1, <1>2, <1>3, <1>4, InvFacts

\* Frames that are rejected or ignored, or that only move last_rx_offset.
LEMMA NoDataInv ==
  ASSUME StreamRecvInv, NEW fr \in StreamFrames, err = "none",
         \/ RecvStreamRejected(fr) \/ RecvStreamIgnored(fr)
         \/ RecvStreamNothingNew(fr)
  PROVE  StreamRecvInv'
<1>1. CASE RecvStreamRejected(fr)
  <2>1. /\ BufferIntact' /\ gap' = gap /\ last_rx_offset' = last_rx_offset
        /\ app' = app /\ nfin' = nfin /\ stop_at' = stop_at /\ flags' = flags
        /\ fin_recv' = fin_recv /\ assert_ok' = assert_ok
    BY <1>1, RobUnchanged, Zenon DEF StreamRecvInv, RecvStreamRejected
  <2>2. fr.offset \in Nat /\ fr.datalen \in Nat /\ End(fr) \in Nat
    BY StreamRecvAssumption DEF End
  <2>3. /\ err' \in {"FRAME_FORMAT", "FLOW_CONTROL", "FINAL_OFFSET"}
        /\ strm' = strm \/ (strm = "none" /\ strm' = "open")
    <3>1. strm' = IF strm = "none" /\ (fr.fin \/ fr.datalen > 0) THEN "open" ELSE strm
      BY <1>1, Zenon DEF RecvStreamRejected
    <3>2. err' \in {"FRAME_FORMAT", "FLOW_CONTROL", "FINAL_OFFSET"}
      BY <1>1, Zenon DEF RecvStreamRejected
    <3> QED BY <3>1, <3>2, Zenon
  <2>4. rx_offset' \in Nat /\ rx_offset' <= MaxData
    <3>1. CASE rx_offset' = rx_offset
      BY <3>1, InvFacts, Zenon DEF StreamRecvInv
    <3>2. CASE ~FlowControlError(End(fr)) /\ CountRx(End(fr))
      BY <2>2, <3>2, InvFacts DEF StreamRecvInv, FlowControlError, CountRx
    <3> QED BY <1>1, <3>1, <3>2, Zenon DEF RecvStreamRejected
  <2>5. TypeOK'
    BY <2>1, <2>3, <2>4, Zenon DEF StreamRecvInv, TypeOK, BufferIntact
  <2>6. DeliveredPrefix' /\ NoAssertFails' /\ FinAtEnd'
    BY <2>1, Zenon DEF StreamRecvInv, DeliveredPrefix, NoAssertFails, FinAtEnd
  <2> QED BY <2>1, <2>3, <2>4, <2>5, <2>6, Zenon DEF StreamRecvInv
<1>2. CASE RecvStreamIgnored(fr)
  <2>1. UNCHANGED vars BY <1>2, Zenon DEF RecvStreamIgnored
  <2> QED BY <2>1, Zenon DEF vars, rob, StreamRecvInv, TypeOK, RobTypeOK, BufferIntact,
                      DeliveredPrefix, NoAssertFails, FinAtEnd
<1>3. CASE RecvStreamNothingNew(fr)
  <2>1. /\ BufferIntact' /\ gap' = gap
        /\ app' = app /\ nfin' = nfin /\ stop_at' = stop_at /\ flags' = flags
        /\ fin_recv' = fin_recv /\ assert_ok' = assert_ok /\ strm' = "open"
        /\ Accepted(fr) /\ NothingNew(fr)
    BY <1>3, RobUnchanged, Zenon DEF StreamRecvInv, RecvStreamNothingNew
  <2>2. TypeOK'
    BY <2>1, AcceptedFacts, InvFacts DEF StreamRecvInv, TypeOK, BufferIntact, Offset
  <2>3. DeliveredPrefix' /\ NoAssertFails'
    BY <2>1, Zenon DEF StreamRecvInv, DeliveredPrefix, NoAssertFails
  <2>4. FinAtEnd'
    BY <2>1, AcceptedFacts, Zenon DEF StreamRecvInv, FinAtEnd
  <2>5. (\A i \in last_rx_offset .. UINT64_MAX - 1 : InGaps(gap, i))'
    BY <2>1, AcceptedFacts, InvFacts DEF StreamRecvInv
  <2>6. ("SHUT_RD" \in flags /\ flags \cap {"RECV_RST", "STOP_SENDING"} = {}
            => /\ RxOffset(gap) = last_rx_offset => nfin = 1
               /\ strm = "closed" => RxOffset(gap) = last_rx_offset)'
    BY <2>1, AcceptedFacts, Zenon DEF StreamRecvInv
  <2>7. strm # "none" \/ "SHUT_RD" \notin flags
    BY Zenon DEF StreamRecvInv
  <2> QED BY <2>1, <2>2, <2>3, <2>4, <2>5, <2>6, <2>7, AcceptedFacts, Zenon DEF StreamRecvInv
<1> QED BY <1>1, <1>2, <1>3, Zenon

\* The FIN of a stream that was shut down for reading, or that was delivered.
LEMMA FinInv ==
  ASSUME StreamRecvInv, NEW fr \in StreamFrames, err = "none",
         RecvFinStopped(fr) \/ RecvFinAlone(fr)
  PROVE  StreamRecvInv'
<1>1. /\ BufferIntact' /\ gap' = gap /\ app' = app /\ assert_ok' = assert_ok
      /\ fin_recv' = TRUE /\ Accepted(fr) /\ fr.fin /\ "SHUT_RD" \notin flags
  BY RobUnchanged, Zenon DEF StreamRecvInv, RecvFinStopped, RecvFinAlone, NothingNew
<1>2. nfin = 0
  BY <1>1, Zenon DEF StreamRecvInv
<1>3. /\ flags' = flags \cup {"SHUT_RD"} \/ flags' = flags \cup {"SHUT_RD", "STOP_SENDING"}
      /\ stop_at' \in Nat
  BY <1>1 DEF RecvFinStopped, RecvFinAlone, ShutdownReadAt, FlagsAfter, StreamRecvInv, TypeOK
<1>4. \/ nfin' = 0 /\ "STOP_SENDING" \in flags
      \/ nfin' = 1 /\ RxOffset(gap) = End(fr)
  BY <1>2 DEF RecvFinStopped, RecvFinAlone
<1>5. /\ strm' \in {"open", "closed"}
      /\ strm' = "closed" => "RECV_RST" \in flags' \/ RxOffset(gap') = last_rx_offset'
  BY <1>1, Zenon DEF RecvFinStopped, RecvFinAlone, ngtcp2_conn_close_stream_if_shut_rdwr
<1>6. last_rx_offset' = End(fr) BY <1>1, AcceptedFacts, Zenon
<1>7. TypeOK'
  <2>1. flags' \subseteq Flags /\ "SHUT_RD" \in flags'
    BY <1>3, Zenon DEF StreamRecvInv, TypeOK, Flags
  <2>2. RobTypeOK' BY <1>1, Zenon DEF BufferIntact
  <2>3. last_rx_offset' \in Offset /\ rx_offset' \in Nat /\ err' = "none"
    <3>1. /\ last_rx_offset' \in Nat /\ last_rx_offset' < UINT64_MAX
          /\ rx_offset' \in Nat /\ err' = "none"
      BY <1>1, AcceptedFacts, Zenon
    <3> QED BY <3>1, UINT64_MAXAssumption DEF Offset
  <2>4. app' \in Seq(Int) /\ assert_ok' \in BOOLEAN /\ fin_recv' \in BOOLEAN
    BY <1>1, Zenon DEF StreamRecvInv, TypeOK
  <2>5. nfin' \in Nat BY <1>4
  <2> QED BY <1>3, <1>5, <2>1, <2>2, <2>3, <2>4, <2>5, Zenon DEF TypeOK
<1>8. DeliveredPrefix' /\ NoAssertFails'
  BY <1>1, Zenon DEF StreamRecvInv, DeliveredPrefix, NoAssertFails
<1>9. FinAtEnd'
  BY <1>1, <1>3, <1>4, <1>6 DEF StreamRecvInv, FinAtEnd, DeliveredPrefix
<1>10. (\A i \in last_rx_offset .. UINT64_MAX - 1 : InGaps(gap, i))'
  BY <1>1, AcceptedFacts, InvFacts DEF StreamRecvInv
<1>11. ("SHUT_RD" \in flags /\ flags \cap {"RECV_RST", "STOP_SENDING"} = {}
          => /\ RxOffset(gap) = last_rx_offset => nfin = 1
             /\ strm = "closed" => RxOffset(gap) = last_rx_offset)'
  BY <1>3, <1>4, <1>5, Zenon
<1> QED
  BY <1>1, <1>3, <1>5, <1>7, <1>8, <1>9, <1>10, <1>11, AcceptedFacts, Zenon DEF StreamRecvInv

\* A frame that has to wait for earlier data.
LEMMA ReorderedInv ==
  ASSUME StreamRecvInv, NEW fr \in StreamFrames, err = "none", RecvReordered(fr)
  PROVE  StreamRecvInv'
<1>1. /\ Accepted(fr) /\ ~NothingNew(fr) /\ RxOffset(gap) < fr.offset
      /\ ngtcp2_rob_push(fr.offset, Payload(fr))
      /\ flags' = FlagsAfter(fr) /\ app' = app /\ nfin' = nfin
      /\ stop_at' = stop_at /\ assert_ok' = assert_ok
      /\ fin_recv' = (fin_recv \/ fr.fin)
  BY Zenon DEF RecvReordered, Carries
<1>2. Payload(fr) = Bytes(fr.offset, End(fr))
  BY <1>1, AcceptedFacts DEF Payload, Bytes, End
<1>3. BufferIntact' /\ RxOffset(gap') = RxOffset(gap)
  BY <1>1, <1>2, AcceptedFacts, RobPushIntact, Zenon DEF StreamRecvInv
<1>4. \A i \in Int : InGaps(gap', i) <=> InGaps(gap, i) /\ ~(fr.offset <= i /\ i < End(fr))
  <2>1. Range_(fr.offset, End(fr)) \in NgRange
    BY <1>1, AcceptedFacts, UINT64_MAXAssumption DEF Range_, NgRange, Offset
  <2>2. Len(Payload(fr)) = fr.datalen
    BY <1>1, AcceptedFacts DEF Payload
  <2>3. gap' = ngtcp2_gaptr_push(gap, Range_(fr.offset, End(fr)))
    BY <1>1, <2>2, Zenon DEF ngtcp2_rob_push, End
  <2>4. GapsOK(gap) BY Zenon DEF StreamRecvInv, BufferIntact, RobTypeOK
  <2> QED BY <2>1, <2>3, <2>4, PushInGaps, Zenon DEF Range_
<1>5. nfin = 0
  <2>1. CASE "SHUT_RD" \notin flags BY <2>1, Zenon DEF StreamRecvInv
  <2>2. CASE "SHUT_RD" \in flags
    <3>1. ~fr.fin /\ End(fr) > RxOffset(gap)
      BY <1>1, <2>2, AcceptedFacts, InvFacts DEF NothingNew
    <3>2. last_rx_offset > RxOffset(gap)
      BY <1>1, <2>2, <3>1, AcceptedFacts, InvFacts
    <3> QED BY <3>2, InvFacts DEF StreamRecvInv, FinAtEnd, DeliveredPrefix
  <2> QED BY <2>1, <2>2, Zenon
<1>6. /\ strm' \in {"open", "closed"}
      /\ strm' = "closed" => "RECV_RST" \in flags' \/ RxOffset(gap') = last_rx_offset'
  BY Zenon DEF RecvReordered, ngtcp2_conn_close_stream_if_shut_rdwr
<1>7. flags' = flags \/ flags' = flags \cup {"SHUT_RD"}
  BY <1>1, Zenon DEF FlagsAfter
<1>8. RxOffset(gap') < last_rx_offset'
  BY <1>1, <1>3, AcceptedFacts, InvFacts
<1>9. TypeOK'
  <2>1. flags' \subseteq Flags
    BY <1>7, Zenon DEF StreamRecvInv, TypeOK, Flags
  <2>2. fin_recv' \in BOOLEAN BY <1>1, AcceptedFacts, Zenon DEF StreamRecvInv, TypeOK
  <2>3. RobTypeOK' BY <1>3, Zenon DEF BufferIntact
  <2>4. last_rx_offset' \in Offset /\ rx_offset' \in Nat /\ err' = "none"
    <3>1. /\ last_rx_offset' \in Nat /\ last_rx_offset' < UINT64_MAX
          /\ rx_offset' \in Nat /\ err' = "none"
      BY <1>1, AcceptedFacts, Zenon
    <3> QED BY <3>1, UINT64_MAXAssumption DEF Offset
  <2>5. app' \in Seq(Int) /\ assert_ok' \in BOOLEAN /\ nfin' \in Nat /\ stop_at' \in Nat
    BY <1>1, Zenon DEF StreamRecvInv, TypeOK
  <2> QED BY <1>6, <2>1, <2>2, <2>3, <2>4, <2>5, Zenon DEF TypeOK
<1>10. DeliveredPrefix' /\ NoAssertFails' /\ FinAtEnd'
  BY <1>1, <1>3, <1>5 DEF StreamRecvInv, DeliveredPrefix, NoAssertFails, FinAtEnd
<1>11. (\A i \in last_rx_offset .. UINT64_MAX - 1 : InGaps(gap, i))'
  BY <1>1, <1>4, AcceptedFacts, InvFacts DEF StreamRecvInv
<1>12. ("SHUT_RD" \in flags /\ flags \cap {"RECV_RST", "STOP_SENDING"} = {}
          => /\ RxOffset(gap) = last_rx_offset => nfin = 1
             /\ strm = "closed" => RxOffset(gap) = last_rx_offset)'
  BY <1>1, <1>3, <1>6, <1>8, AcceptedFacts, InvFacts
<1>13. ("RECV_RST" \notin flags => rx_offset = last_rx_offset)'
  BY <1>1, <1>7, AcceptedFacts, Zenon
<1> QED
  BY <1>1, <1>3, <1>5, <1>6, <1>9, <1>10, <1>11, <1>12, <1>13, AcceptedFacts, Zenon
     DEF StreamRecvInv

\* A frame that continues what was delivered.
LEMMA InOrderInv ==
  ASSUME StreamRecvInv, NEW fr \in StreamFrames, err = "none", RecvInOrder(fr)
  PROVE  StreamRecvInv'
<1> DEFINE rx == RxOffset(gap)
           rx2 == RxOffset(gap')
<1>1. /\ Accepted(fr) /\ ~NothingNew(fr) /\ fr.offset <= rx
      /\ fr.fin => End(fr) # rx
      /\ RobAdvance(End(fr))
      /\ fin_recv' = (fin_recv \/ fr.fin)
      /\ app' = app \o SubSeq(Payload(fr), rx - fr.offset + 1, fr.datalen)
                    \o Pending(End(fr))
      /\ nfin' = IF "SHUT_RD" \in FlagsAfter(fr) /\ rx2 = last_rx_offset'
                 THEN nfin + 1 ELSE nfin
      /\ assert_ok' = (assert_ok /\ EmitAsserts(End(fr)))
  BY Zenon DEF RecvInOrder, Carries
<1>a. /\ fr.offset \in Nat /\ fr.datalen \in Nat /\ fr.fin \in BOOLEAN
      /\ End(fr) \in Nat /\ End(fr) < UINT64_MAX
      /\ last_rx_offset' \in Nat /\ last_rx_offset' < UINT64_MAX
      /\ last_rx_offset' <= MaxStreamData
      /\ last_rx_offset <= last_rx_offset' /\ End(fr) <= last_rx_offset'
      /\ rx_offset' \in Nat /\ rx_offset' <= MaxData
      /\ "RECV_RST" \notin flags => rx_offset' = last_rx_offset'
      /\ "SHUT_RD" \in flags => last_rx_offset' = last_rx_offset
      /\ fr.fin => last_rx_offset' = End(fr)
      /\ err' = "none"
  BY <1>1, AcceptedFacts, Zenon
<1>b. /\ rx \in Nat /\ rx <= last_rx_offset /\ last_rx_offset \in Nat
      /\ UINT64_MAX \in Nat
  BY InvFacts, Zenon
<1> HIDE DEF rx
<1>2. rx < End(fr)
  <2>1. CASE fr.fin
    BY <1>1, <1>a, <1>b, <2>1, SMTT(30)
  <2>2. CASE ~fr.fin
    BY <1>1, <1>a, <1>b, <2>2 DEF NothingNew, rx
  <2> QED BY <2>1, <2>2, Zenon
<1>3. /\ BufferIntact' /\ rx2 \in Nat /\ End(fr) <= rx2 /\ rx2 < UINT64_MAX
      /\ Pending(End(fr)) = Bytes(End(fr), rx2) /\ EmitAsserts(End(fr))
      /\ \A i \in Int : InGaps(gap', i) <=> InGaps(gap, i) /\ End(fr) <= i
  <2>1. BufferIntact BY Zenon DEF StreamRecvInv
  <2>2. RobAdvance(End(fr)) /\ End(fr) \in Nat /\ End(fr) < UINT64_MAX /\ RxOffset(gap) <= End(fr)
    BY <1>1, <1>2, <1>a, <1>b DEF rx
  <2> QED BY <2>1, <2>2, RobAdvanceIntact, Zenon
<1>4. /\ app' \in Seq(Int) /\ Len(app') = rx2
      /\ \A i \in 1 .. rx2 : app'[i] = i - 1
  <2>1. SubSeq(Payload(fr), rx - fr.offset + 1, fr.datalen) = Bytes(rx, End(fr))
    BY <1>1, <1>2, <1>a, <1>b, StreamRecvAssumption, CutPayload, SMTT(30)
  <2> DEFINE s1 == app \o Bytes(rx, End(fr))
  <2>2. app \in Seq(Int) /\ Len(app) = rx /\ \A i \in 1 .. rx : app[i] = i - 1
    BY Zenon DEF StreamRecvInv, TypeOK, DeliveredPrefix, rx
  <2>3. s1 \in Seq(Int) /\ Len(s1) = End(fr) /\ \A i \in 1 .. End(fr) : s1[i] = i - 1
    <3>1. rx \in Nat /\ End(fr) \in Nat /\ rx <= End(fr) BY <1>2, <1>a, <1>b
    <3> QED BY <2>2, <3>1, AppendBytes, Zenon
  <2>4. app' = s1 \o Bytes(End(fr), rx2)
    BY <1>1, <1>3, <2>1, Zenon
  <2> HIDE DEF s1
  <2>5. rx2 \in Nat /\ End(fr) \in Nat /\ End(fr) <= rx2 BY <1>3, <1>a, Zenon
  <2> HIDE DEF rx2
  <2> QED BY <2>3, <2>4, <2>5, AppendBytes, Zenon
<1>5. nfin = 0
  <2>1. CASE "SHUT_RD" \notin flags BY <2>1 DEF StreamRecvInv
  <2>2. CASE "SHUT_RD" \in flags
    <3>1. last_rx_offset > rx
      BY <1>1, <1>2, <2>2, <1>a, <1>b, SMTT(30)
    <3> QED BY <3>1, <1>b, InvFacts DEF StreamRecvInv, FinAtEnd, DeliveredPrefix, rx
  <2> QED BY <2>1, <2>2
<1>6. /\ flags' = FlagsAfter(fr) \/ flags' = FlagsAfter(fr) \cup {"STOP_SENDING"}
      /\ stop_at' \in Nat
  <2>1. PICK n \in {NoCall, End(fr)} \cup PieceEnds(End(fr), rx2) :
           ShutdownReadAt(n, FlagsAfter(fr))
    BY Zenon DEF RecvInOrder
  <2>2. n = NoCall \/ n \in Nat
    BY <1>1, <1>3, <2>1, <1>a, SMTT(30) DEF PieceEnds
  <2> QED BY <2>1, <2>2, Zenon DEF ShutdownReadAt, StreamRecvInv, TypeOK
<1>7. FlagsAfter(fr) = flags \/ FlagsAfter(fr) = flags \cup {"SHUT_RD"}
  BY Zenon DEF FlagsAfter
<1>8. /\ strm' \in {"open", "closed"}
      /\ strm' = "closed" => "RECV_RST" \in flags' \/ rx2 = last_rx_offset'
  BY Zenon DEF RecvInOrder, ngtcp2_conn_close_stream_if_shut_rdwr
<1>9. /\ flags' \subseteq Flags
      /\ "SHUT_RD" \in flags' <=> "SHUT_RD" \in FlagsAfter(fr)
      /\ "RECV_RST" \in flags' <=> "RECV_RST" \in flags
  BY <1>6, <1>7, Zenon DEF StreamRecvInv, TypeOK, Flags
<1>10. TypeOK'
  <2>1. fin_recv' \in BOOLEAN /\ assert_ok' \in BOOLEAN
    BY <1>1, <1>3, <1>a, Zenon DEF StreamRecvInv, TypeOK
  <2>2. nfin' \in Nat BY <1>1, <1>5
  <2> QED
    <3>1. RobTypeOK' BY <1>3, Zenon DEF BufferIntact
    <3>2. last_rx_offset' \in Offset BY <1>a, <1>b DEF Offset
    <3> QED BY <1>a, <1>4, <1>6, <1>8, <1>9, <2>1, <2>2, <3>1, <3>2, Zenon DEF TypeOK
<1>11. DeliveredPrefix' BY <1>4, Zenon DEF DeliveredPrefix
<1>12. NoAssertFails' BY <1>1, <1>3, Zenon DEF StreamRecvInv, NoAssertFails
<1>13. FinAtEnd'
  <2>1. /\ nfin' = 0 \/ nfin' = 1
        /\ nfin' = 1 => "SHUT_RD" \in FlagsAfter(fr) /\ rx2 = last_rx_offset'
    <3> HIDE DEF rx2
    <3> QED BY <1>1, <1>5
  <2>2. Len(app') = rx2 BY <1>4, Zenon
  <2> QED BY <1>9, <2>1, <2>2 DEF FinAtEnd
<1>14. (\A i \in last_rx_offset .. UINT64_MAX - 1 : InGaps(gap, i))'
  <2>1. \A i \in last_rx_offset .. UINT64_MAX - 1 : InGaps(gap, i)
    BY Zenon DEF StreamRecvInv
  <2>2. SUFFICES ASSUME NEW i \in last_rx_offset' .. UINT64_MAX - 1
                 PROVE  InGaps(gap', i)
    BY Zenon
  <2>3. i \in Int /\ End(fr) <= i /\ i \in last_rx_offset .. UINT64_MAX - 1
    BY <1>a, <1>b
  <2> QED BY <1>3, <2>1, <2>3, Zenon
<1>15. ("SHUT_RD" \notin flags => nfin = 0)'
  BY <1>1, <1>5, <1>9, Zenon
<1>16. ("SHUT_RD" \in flags /\ flags \cap {"RECV_RST", "STOP_SENDING"} = {}
          => /\ RxOffset(gap) = last_rx_offset => nfin = 1
             /\ strm = "closed" => RxOffset(gap) = last_rx_offset)'
  BY <1>1, <1>5, <1>8, <1>9
<1>17. ("RECV_RST" \notin flags => rx_offset = last_rx_offset)'
  BY <1>1, <1>9, <1>a, Zenon
<1> QED
  BY <1>a, <1>1, <1>3, <1>8, <1>10, <1>11, <1>12, <1>13, <1>14, <1>15, <1>16, <1>17, Zenon
     DEF StreamRecvInv

\* The invariant holds in every state, for every peer: with it
\* DeliveredPrefix, NoAssertFails, FinAtEnd, RxCharged and
\* DeletedWhenDelivered.
THEOREM StreamRecvInvariant == Spec => []StreamRecvInv
<1>1. StreamRecvInv /\ [Next]_vars => StreamRecvInv'
  <2> SUFFICES ASSUME StreamRecvInv, [Next]_vars PROVE StreamRecvInv'
    BY Zenon
  <2>1. CASE UNCHANGED vars
    BY <2>1, Zenon DEF vars, rob, StreamRecvInv, TypeOK, RobTypeOK, BufferIntact,
                DeliveredPrefix, NoAssertFails, FinAtEnd
  <2>2. ASSUME NEW fr \in StreamFrames, conn_recv_stream(fr) PROVE StreamRecvInv'
    BY <2>2, NoDataInv, FinInv, ReorderedInv, InOrderInv, Zenon DEF conn_recv_stream
  <2>3. ASSUME NEW final \in RstFrames, conn_recv_rst_stream(final) PROVE StreamRecvInv'
    BY <2>3, RstInv, Zenon
  <2> QED BY <2>1, <2>2, <2>3, AppInv, Zenon DEF Next
<1> QED BY <1>1, InitInv, PTL DEF Spec

\* What the application receives is the peer's stream, in order, each byte
\* once (conn_recv_stream, conn_emit_pending_stream_data).
THEOREM Delivery == Spec => []DeliveredPrefix
<1>1. StreamRecvInv => DeliveredPrefix BY Zenon DEF StreamRecvInv
<1> QED BY <1>1, StreamRecvInvariant, PTL

\* No assertion of the reorder buffer fails (ngtcp2_rob_data_at).
THEOREM AssertionsHold == Spec => []NoAssertFails
<1>1. StreamRecvInv => NoAssertFails BY Zenon DEF StreamRecvInv
<1> QED BY <1>1, StreamRecvInvariant, PTL

\* fin is reported at most once, with the last byte.
THEOREM FinOnce == Spec => []FinAtEnd
<1>1. StreamRecvInv => FinAtEnd BY Zenon DEF StreamRecvInv
<1> QED BY <1>1, StreamRecvInvariant, PTL

\* A stream that nobody gave up is deleted only when it was delivered.
THEOREM Deletion == Spec => []DeletedWhenDelivered
<1>1. StreamRecvInv => DeletedWhenDelivered
  BY Zenon DEF StreamRecvInv, DeletedWhenDelivered, DeliveredPrefix
<1> QED BY <1>1, StreamRecvInvariant, PTL

\* Each byte is charged to the connection's window once.
THEOREM Charging == Spec => []RxCharged
<1>1. StreamRecvInv => RxCharged BY Zenon DEF StreamRecvInv, RxCharged
<1> QED BY <1>1, StreamRecvInvariant, PTL

\* Nothing is handed over after the application shut reading down.
THEOREM ShutdownReadIsQuiet == Spec => QuietAfterShutdownRead
<1>1. StreamRecvInv /\ [Next]_vars
        => [("STOP_SENDING" \in flags) => (app' = app /\ nfin' = nfin)]_vars
  <2> SUFFICES ASSUME Next, "STOP_SENDING" \in flags PROVE app' = app /\ nfin' = nfin
    BY Zenon
  <2>1. ASSUME NEW fr \in StreamFrames, conn_recv_stream(fr)
        PROVE  app' = app /\ nfin' = nfin
    BY <2>1, Zenon DEF conn_recv_stream, RecvStreamRejected, RecvStreamIgnored, vars,
         RecvStreamNothingNew, RecvFinStopped, RecvFinAlone, RecvInOrder,
         RecvReordered, Carries, NothingNew
  <2>2. ASSUME NEW final \in RstFrames, conn_recv_rst_stream(final)
        PROVE  app' = app /\ nfin' = nfin
    BY <2>2, Zenon DEF conn_recv_rst_stream
  <2> QED
    BY <2>1, <2>2, Zenon DEF Next, ngtcp2_conn_shutdown_stream_read, WriteFin, AckFin
<1> QED BY <1>1, StreamRecvInvariant, PTL DEF Spec, QuietAfterShutdownRead
=============================================================================
