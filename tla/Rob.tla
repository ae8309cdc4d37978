-------------------------------- MODULE Rob --------------------------------
(***************************************************************************)
(* The reorder buffer of a stream (lib/ngtcp2_rob.c), used the way         *)
(* conn_recv_stream and conn_emit_pending_stream_data use it: a frame that *)
(* starts beyond the first gap is pushed, a frame that continues the       *)
(* delivered data advances the buffer past its end and past the buffered   *)
(* data that follows.                                                      *)
(*                                                                         *)
(* Module RobList has the linked lists of the code and implements this     *)
(* specification.                                                          *)
(***************************************************************************)
EXTENDS Ranges, Sequences

CONSTANT Chunk     \* size of a chunk (8 * 1024 in lib/ngtcp2_strm.c)

\* A chunk holds something.
ASSUME ChunkAssumption == Chunk \in Nat \ {0}

VARIABLES
  gap,      \* rob->gap: what has not been received
  data,     \* rob->data: offsets of the allocated chunks
  mem       \* what the chunks hold: mem[i] is the byte at offset i

rob == <<gap, data, mem>>

Uninit == -1                       \* the content of memory nobody wrote

RobInit ==
  /\ gap = InitGaps
  /\ data = {}
  /\ mem = [i \in Offset |-> Uninit]

ChunkOf(i) == (i \div Chunk) * Chunk

\* ngtcp2_rob_first_gap_offset, ngtcp2_strm_rx_offset
RxOffset(gaps) == ngtcp2_gaptr_first_gap_offset(gaps)

\* The offsets of [b, e) that fall into gaps.
Missing(gaps, b, e) == {i \in b .. e - 1 : InGaps(gaps, i)}

\* Mutant: data is copied as if it all began where the first gap begins.
RobPushMisplaced(offset, payload) ==
  LET end == offset + Len(payload)
      new == Missing(gap, offset, end)
  IN  /\ gap' = ngtcp2_gaptr_push(gap, Range_(offset, end))
      /\ data' = data \cup {ChunkOf(i) : i \in new}
      /\ mem' = [i \in Offset |->
                   IF i \in new
                   THEN payload[i - (CHOOSE m \in new : \A n \in new : m <= n) + 1]
                   ELSE mem[i]]

\* ngtcp2_rob_push, with rob_write_data: only the parts of the payload that
\* fall into gaps are copied, each into the chunks that cover it.
ngtcp2_rob_push(offset, payload) ==
  LET end == offset + Len(payload)
      new == Missing(gap, offset, end)
  IN  /\ gap' = ngtcp2_gaptr_push(gap, Range_(offset, end))
      /\ data' = data \cup {ChunkOf(i) : i \in new}
      /\ mem' = [i \in Offset |-> IF i \in new THEN payload[i - offset + 1]
                                               ELSE mem[i]]

\* ngtcp2_rob_remove_prefix, the loop over the chunks, and ngtcp2_rob_pop.
LiveChunks(offset) == {c \in data : offset < c + Chunk}

\* Everything below offset was handed over by the caller of
\* ngtcp2_rob_remove_prefix, and conn_emit_pending_stream_data then hands over
\* what is buffered up to the next gap.
RobAdvance(offset) ==
  /\ gap' = RemovePrefixGaps(gap, offset)
  /\ data' = LiveChunks(RxOffset(gap'))
  /\ mem' = [i \in Offset |-> IF ChunkOf(i) \in data' THEN mem[i] ELSE Uninit]

\* What conn_emit_pending_stream_data hands over: it reads the chunks that
\* ngtcp2_rob_remove_prefix left.
Pending(offset) ==
  [k \in 1 .. RxOffset(RemovePrefixGaps(gap, offset)) - offset |->
     IF ChunkOf(offset + k - 1) \in LiveChunks(offset)
     THEN mem[offset + k - 1] ELSE Uninit]

\* The assertions of ngtcp2_rob_data_at and ngtcp2_rob_pop in the loop of
\* conn_emit_pending_stream_data: the first chunk of the list is the one that
\* covers the next byte.
EmitAsserts(offset) ==
  \A i \in offset .. RxOffset(RemovePrefixGaps(gap, offset)) - 1 :
     /\ ChunkOf(i) \in LiveChunks(offset)
     /\ \A c \in LiveChunks(offset) : ChunkOf(offset) <= c

\* The offsets at which ngtcp2_rob_data_at ends a piece between a and b.
PieceEnds(a, b) == {x \in a + 1 .. b : x = b \/ x % Chunk = 0}

RobTypeOK ==
  /\ GapsOK(gap)
  /\ data \subseteq Nat
  /\ mem \in [Offset -> Offset \cup {Uninit}]

\* Every byte received and not yet delivered is in an allocated chunk, where
\* ngtcp2_rob_push wrote it; no chunk lies wholly below the first gap; and the
\* gap at the end of the offsets never closes.
BufferIntact ==
  /\ RobTypeOK
  /\ InGaps(gap, UINT64_MAX - 1)
  /\ \A i \in RxOffset(gap) .. UINT64_MAX - 1 :
        ~InGaps(gap, i) => ChunkOf(i) \in data /\ mem[i] = i
  /\ \A c \in data : c = ChunkOf(c) /\ RxOffset(gap) < c + Chunk

-----------------------------------------------------------------------------
(* The buffer on its own, for the refinement by RobList *)

\* The bytes of the stream in [b, e); the byte at offset i is the number i.
Bytes(b, e) == [k \in 1 .. e - b |-> b + k - 1]

RobNext ==
  \E b, e \in 0 .. UINT64_MAX - 1 :
     /\ b < e
     /\ \/ RxOffset(gap) < b /\ ngtcp2_rob_push(b, Bytes(b, e))
        \/ RxOffset(gap) < e /\ b = RxOffset(gap) /\ RobAdvance(e)

RobSpec == RobInit /\ [][RobNext]_rob
=============================================================================
