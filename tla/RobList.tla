------------------------------ MODULE RobList ------------------------------
(***************************************************************************)
(* The reorder buffer as lib/ngtcp2_rob.c has it: a list of gaps and a list *)
(* of chunks, and loops that walk them, stop early and insert or remove    *)
(* elements on the way.  The walk over the gaps is also the one of         *)
(* ngtcp2_gaptr_push and, for a single id, of ngtcp2_idtr_open.  Rob and   *)
(* Ranges describe the results of these loops; this module shows that the  *)
(* loops compute them.                                                     *)
(***************************************************************************)
EXTENDS Ranges, Sequences, SequencesExt

CONSTANT Chunk

VARIABLES
  gaps,      \* rob->gap, a sequence of ranges
  chunks,    \* rob->data, a sequence of [offset, bytes]
  assert_ok  \* no assertion of ngtcp2_rob_data_at and _pop has failed

listVars == <<gaps, chunks, assert_ok>>

Uninit == -1

Bytes(b, e) == [k \in 1 .. e - b |-> b + k - 1]

\* ngtcp2_rob_init
Init ==
  /\ gaps = <<Range_(0, UINT64_MAX)>>
  /\ chunks = <<>>
  /\ assert_ok = TRUE

\* ngtcp2_rob_first_gap_offset
FirstGap(gs) == IF gs = <<>> THEN UINT64_MAX ELSE Head(gs).begin

\* Mutant: the walk stops at the first gap the data reaches.
RangeNotAfterBegin(a, b) == a.begin <= b.end

ngtcp2_range_not_after(a, b) == a.end <= b.end

\* Mutant: the two sides of a gap that is split are linked in the wrong order.
RECURSIVE PushWalkSwapped(_, _)
PushWalkSwapped(gs, q) ==
  IF gs = <<>> THEN <<>>
  ELSE LET g == Head(gs)
           m == ngtcp2_range_intersect(q, g)
       IN  (IF ngtcp2_range_len(m) = 0 THEN <<g>>
            ELSE SelectSeq(<<Range_(m.end, g.end), Range_(g.begin, m.begin)>>,
                           LAMBDA x : ngtcp2_range_len(x) > 0))
           \o PushWalkSwapped(Tail(gs), q)

\* The loop of ngtcp2_rob_push and of ngtcp2_gaptr_push over the gaps.
RECURSIVE PushWalk(_, _)
PushWalk(gs, q) ==
  IF gs = <<>> THEN <<>>
  ELSE LET g    == Head(gs)
           m    == ngtcp2_range_intersect(q, g)
           l    == Range_(g.begin, m.begin)
           r    == Range_(m.end, g.end)
           kept == IF ngtcp2_range_len(m) = 0 THEN <<g>>
                   ELSE SelectSeq(<<l, r>>, LAMBDA x : ngtcp2_range_len(x) > 0)
       IN  IF g = m THEN PushWalk(Tail(gs), q)
           ELSE IF ngtcp2_range_not_after(q, Last(kept)) THEN kept \o Tail(gs)
           ELSE kept \o PushWalk(Tail(gs), q)

\* ngtcp2_rob_data_new
NewChunk(offset) ==
  [offset |-> (offset \div Chunk) * Chunk,
   bytes  |-> [k \in 0 .. Chunk - 1 |-> Uninit]]

\* rob_write_data: bytes is what is left to copy, for the given offset.
RECURSIVE rob_write_data(_, _, _)
rob_write_data(cs, offset, bytes) ==
  IF cs # <<>> /\ Head(cs).offset + Chunk < offset
  THEN <<Head(cs)>> \o rob_write_data(Tail(cs), offset, bytes)
  ELSE LET list == IF cs = <<>> \/ offset < Head(cs).offset
                   THEN <<NewChunk(offset)>> \o cs ELSE cs
           d    == Head(list)
           room == d.offset + Chunk - offset
           n    == IF Len(bytes) < room THEN Len(bytes) ELSE room
           at   == offset - d.offset
           d2   == [d EXCEPT !.bytes = [k \in 0 .. Chunk - 1 |->
                      IF at <= k /\ k < at + n THEN bytes[k - at + 1] ELSE @[k]]]
           rest == SubSeq(bytes, n + 1, Len(bytes))
       IN  <<d2>> \o (IF rest = <<>> THEN Tail(list)
                      ELSE rob_write_data(Tail(list), offset + n, rest))

\* The pieces of [b, e) that fall into gaps, in order, are copied.
ngtcp2_rob_push(b, e) ==
  LET q      == Range_(b, e)
      pieces == SelectSeq([i \in 1 .. Len(gaps) |-> ngtcp2_range_intersect(q, gaps[i])],
                          LAMBDA m : ngtcp2_range_len(m) > 0)
      copy(cs, m) == rob_write_data(cs, m.begin,
                        SubSeq(Bytes(b, e), m.begin - b + 1, m.end - b))
  IN  /\ gaps' = PushWalk(gaps, q)
      /\ chunks' = FoldLeft(copy, chunks, pieces)
      /\ UNCHANGED assert_ok

\* ngtcp2_rob_remove_prefix, the loop over the gaps.
RECURSIVE PrefixWalk(_, _)
PrefixWalk(gs, offset) ==
  IF gs = <<>> \/ offset <= Head(gs).begin THEN gs
  ELSE IF offset < Head(gs).end
  THEN <<Range_(offset, Head(gs).end)>> \o Tail(gs)
  ELSE PrefixWalk(Tail(gs), offset)

\* Mutant: a chunk that ends exactly at the offset stays.
RECURSIVE DropChunksOffByOne(_, _)
DropChunksOffByOne(cs, offset) ==
  IF cs = <<>> \/ offset <= Head(cs).offset + Chunk THEN cs
  ELSE DropChunksOffByOne(Tail(cs), offset)

\* ngtcp2_rob_remove_prefix, the loop over the chunks.
RECURSIVE DropChunks(_, _)
DropChunks(cs, offset) ==
  IF cs = <<>> \/ offset < Head(cs).offset + Chunk THEN cs
  ELSE DropChunks(Tail(cs), offset)

\* The loop of conn_emit_pending_stream_data with ngtcp2_rob_data_at and
\* ngtcp2_rob_pop: [list, ok] after handing over all data from offset on.
RECURSIVE EmitWalk(_, _, _)
EmitWalk(gs, cs, offset) ==
  IF FirstGap(gs) <= offset THEN [list |-> cs, ok |-> offset = FirstGap(gs)]
  ELSE IF \/ cs = <<>> \/ Head(cs).offset > offset
          \/ offset >= Head(cs).offset + Chunk
  THEN [list |-> cs, ok |-> FALSE]
  ELSE LET end == Head(cs).offset + Chunk
           to  == IF FirstGap(gs) < end THEN FirstGap(gs) ELSE end
       IN  EmitWalk(gs, IF to < end THEN cs ELSE Tail(cs), to)

\* A frame that continues the delivered data ends at offset.
RobAdvance(offset) ==
  LET emit == EmitWalk(PrefixWalk(gaps, offset), DropChunks(chunks, offset), offset)
  IN  /\ gaps' = PrefixWalk(gaps, offset)
      /\ chunks' = emit.list
      /\ assert_ok' = (assert_ok /\ emit.ok)

Next ==
  \E b, e \in 0 .. UINT64_MAX - 1 :
     /\ b < e
     /\ \/ FirstGap(gaps) < b /\ ngtcp2_rob_push(b, e)
        \/ FirstGap(gaps) = b /\ RobAdvance(e)

Spec == Init /\ [][Next]_listVars

-----------------------------------------------------------------------------
(* Properties *)

TypeOK ==
  /\ \A i \in DOMAIN gaps : gaps[i] \in NgRange /\ gaps[i].begin < gaps[i].end
  /\ \A i \in DOMAIN chunks :
        /\ chunks[i].offset \in Nat /\ chunks[i].offset % Chunk = 0
        /\ chunks[i].bytes \in [0 .. Chunk - 1 -> Offset \cup {Uninit}]
  /\ assert_ok \in BOOLEAN

\* Both lists are well typed and in increasing order of their offsets, without
\* overlap: the early exits of the loops (ngtcp2_range_not_after in the push
\* loop, the returns of ngtcp2_rob_remove_prefix) rely on it.  No assertion of
\* ngtcp2_rob_data_at, ngtcp2_rob_pop and conn_emit_pending_stream_data fails.
ListsSorted ==
  /\ TypeOK /\ assert_ok
  /\ \A i \in 1 .. Len(gaps) - 1 : gaps[i].end < gaps[i + 1].begin
  /\ \A i \in 1 .. Len(chunks) - 1 :
        chunks[i].offset + Chunk <= chunks[i + 1].offset

ByteAt(i) ==
  LET at == {k \in DOMAIN chunks :
                chunks[k].offset <= i /\ i < chunks[k].offset + Chunk}
  IN  IF at = {} THEN Uninit
      ELSE LET k == CHOOSE x \in at : TRUE
           IN  chunks[k].bytes[i - chunks[k].offset]

R == INSTANCE Rob WITH
       gap  <- ToSet(gaps),
       data <- {chunks[i].offset : i \in DOMAIN chunks},
       mem  <- [i \in Offset |-> ByteAt(i)]

\* The list-walking code computes what Rob says: the same gaps, the same
\* chunks, the same bytes in them, after every push and every delivery.
RefinesRob == R!RobSpec
=============================================================================
