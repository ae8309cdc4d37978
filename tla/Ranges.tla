------------------------------- MODULE Ranges -------------------------------
(***************************************************************************)
(* Half-open ranges of 64-bit offsets (lib/ngtcp2_range.c) and the         *)
(* operations that the gap tracker (lib/ngtcp2_gaptr.c), the stream id     *)
(* tracker (lib/ngtcp2_idtr.c) and the reorder buffer (lib/ngtcp2_rob.c)   *)
(* perform on their lists of gaps.  All three keep the offsets that have   *)
(* NOT been seen yet, as a list of ranges sorted by offset.  The list is a *)
(* set here: its order is the order of the offsets (module RobList has the *)
(* list and the walk over it, and shows that both agree).                  *)
(***************************************************************************)
EXTENDS Integers

CONSTANT UINT64_MAX     \* the end of the gap of a new tracker

\* The largest unsigned 64-bit integer is a positive number.
ASSUME UINT64_MAXAssumption == UINT64_MAX \in Nat \ {0}

Offset == 0 .. UINT64_MAX

Range_(b, e) == [begin |-> b, end |-> e]

\* ngtcp2_range
NgRange == [begin : Offset, end : Offset]

ngtcp2_range_len(r) == r.end - r.begin

ngtcp2_range_intersect(a, b) ==
  LET begin == IF a.begin > b.begin THEN a.begin ELSE b.begin
      end   == IF a.end < b.end THEN a.end ELSE b.end
  IN  IF begin < end THEN Range_(begin, end) ELSE Range_(0, 0)

\* ngtcp2_range_cut: what lies in a to the left and to the right of its
\* sub-range b; an empty side is dropped from the list by every caller.
ngtcp2_range_cut(a, b) ==
  {r \in {Range_(a.begin, b.begin), Range_(b.end, a.end)} :
      ngtcp2_range_len(r) > 0}

\* What the body of the loops of ngtcp2_gaptr_push, ngtcp2_idtr_open and
\* ngtcp2_rob_push leaves of the gap g when the range q has been seen.
CutGap(g, q) ==
  LET m == ngtcp2_range_intersect(q, g)
  IN  IF ngtcp2_range_len(m) > 0 THEN ngtcp2_range_cut(g, m) ELSE {g}

InitGaps == {Range_(0, UINT64_MAX)}

\* The range q = [offset, offset + datalen) has been seen.
ngtcp2_gaptr_push(gaps, q) == UNION {CutGap(g, q) : g \in gaps}

\* ngtcp2_rob_remove_prefix, the loop over the gaps: everything below offset
\* is forgotten.
RemovePrefixGaps(gaps, offset) ==
  {Range_(IF g.begin < offset THEN offset ELSE g.begin, g.end) :
      g \in {h \in gaps : offset < h.end}}

\* ngtcp2_gaptr_first_gap_offset, ngtcp2_rob_first_gap_offset and
\* ngtcp2_idtr_first_gap: where the list's head begins.
IsFirstGap(gaps, b) ==
  /\ \E g \in gaps : g.begin = b
  /\ \A g \in gaps : b <= g.begin

ngtcp2_gaptr_first_gap_offset(gaps) ==
  IF gaps = {} THEN UINT64_MAX ELSE CHOOSE b \in Offset : IsFirstGap(gaps, b)

-----------------------------------------------------------------------------
\* The offsets that a set of gaps leaves open.
InGaps(gaps, i) == \E g \in gaps : g.begin <= i /\ i < g.end

\* A list of gaps is well formed: no gap is empty, and two different gaps
\* neither overlap nor touch (between them lies something already seen).
GapsOK(gaps) ==
  /\ gaps \subseteq NgRange
  /\ \A g \in gaps : g.begin < g.end
  /\ \A g, h \in gaps : g = h \/ g.end < h.begin \/ h.end < g.begin
=============================================================================
