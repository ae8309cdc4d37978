---------------------------- MODULE RangesProofs ----------------------------
(***************************************************************************)
(* Facts about the lists of gaps of Ranges, for every value of UINT64_MAX  *)
(* and every list: what a push and the removal of a prefix leave open, and *)
(* where the first gap is.                                                 *)
(***************************************************************************)
EXTENDS Ranges, TLAPS, WellFoundedInduction

\* A cut gap consists of non-empty ranges inside the gap, outside what was
\* seen, and together they are all of the gap that was not seen
\* (the body of the loop of ngtcp2_gaptr_push).
LEMMA CutGapFacts ==
  ASSUME NEW g \in NgRange, g.begin < g.end,
         NEW q \in NgRange
  PROVE  /\ CutGap(g, q) \subseteq NgRange
         /\ \A r \in CutGap(g, q) :
               /\ r.begin < r.end /\ g.begin <= r.begin /\ r.end <= g.end
               /\ r.end <= q.begin \/ q.end <= r.begin \/ q.end <= q.begin
         /\ \A i \in Int :
               (\E r \in CutGap(g, q) : r.begin <= i /\ i < r.end)
                 <=> g.begin <= i /\ i < g.end /\ ~(q.begin <= i /\ i < q.end)
         /\ \A r, s \in CutGap(g, q) : r = s \/ r.end < s.begin \/ s.end < r.begin
<1> DEFINE b == IF q.begin > g.begin THEN q.begin ELSE g.begin
           e == IF q.end < g.end THEN q.end ELSE g.end
<1>1. CASE b < e
  <2>1. ngtcp2_range_intersect(q, g) = Range_(b, e)
    BY <1>1, Zenon DEF ngtcp2_range_intersect
  <2>2. CutGap(g, q) = {r \in {Range_(g.begin, b), Range_(e, g.end)} : r.end - r.begin > 0}
    BY <1>1, <2>1, UINT64_MAXAssumption
       DEF CutGap, ngtcp2_range_cut, ngtcp2_range_len, Range_, NgRange, Offset
  <2>3. /\ g.begin \in Int /\ g.end \in Int /\ q.begin \in Int /\ q.end \in Int
        /\ b \in Offset /\ e \in Offset
    BY UINT64_MAXAssumption DEF NgRange, Offset
  <2>4. \A r \in CutGap(g, q) :
           \/ r = Range_(g.begin, b) /\ g.begin < b
           \/ r = Range_(e, g.end) /\ e < g.end
    BY <2>2, <2>3, UINT64_MAXAssumption DEF Range_, Offset
  <2>5. /\ g.begin < b => Range_(g.begin, b) \in CutGap(g, q)
        /\ e < g.end => Range_(e, g.end) \in CutGap(g, q)
    BY <2>2, <2>3, UINT64_MAXAssumption DEF Range_, Offset
  <2>6. CutGap(g, q) \subseteq NgRange
    BY <2>3, <2>4 DEF Range_, NgRange
  <2>7. \A r \in CutGap(g, q) :
          /\ r.begin < r.end /\ g.begin <= r.begin /\ r.end <= g.end
          /\ r.end <= q.begin \/ q.end <= r.begin \/ q.end <= q.begin
    BY <1>1, <2>3, <2>4 DEF Range_, Offset
  <2>8. ASSUME NEW i \in Int
        PROVE  (\E r \in CutGap(g, q) : r.begin <= i /\ i < r.end)
                 <=> g.begin <= i /\ i < g.end /\ ~(q.begin <= i /\ i < q.end)
    <3>1. ASSUME NEW r \in CutGap(g, q), r.begin <= i, i < r.end
          PROVE  g.begin <= i /\ i < g.end /\ ~(q.begin <= i /\ i < q.end)
      BY <1>1, <2>3, <2>4, <3>1 DEF Range_, Offset
    <3>2. ASSUME g.begin <= i, i < g.end, ~(q.begin <= i /\ i < q.end)
          PROVE  \E r \in CutGap(g, q) : r.begin <= i /\ i < r.end
      <4>1. CASE i < b
        <5>1. /\ Range_(g.begin, b) \in CutGap(g, q)
              /\ Range_(g.begin, b).begin <= i /\ i < Range_(g.begin, b).end
          BY <2>3, <2>5, <3>2, <4>1 DEF Range_, Offset
        <5> QED BY <5>1, Zenon
      <4>2. CASE ~(i < b)
        <5>1. /\ Range_(e, g.end) \in CutGap(g, q)
              /\ Range_(e, g.end).begin <= i /\ i < Range_(e, g.end).end
          BY <1>1, <2>3, <2>5, <3>2, <4>2 DEF Range_, Offset
        <5> QED BY <5>1, Zenon
      <4> QED BY <4>1, <4>2, Zenon
    <3> QED BY <3>1, <3>2, Zenon
  <2>9. \A r, s \in CutGap(g, q) : r = s \/ r.end < s.begin \/ s.end < r.begin
    BY <1>1, <2>3, <2>4 DEF Range_, Offset
  <2> QED BY <2>6, <2>7, <2>8, <2>9, Zenon
<1>2. CASE ~(b < e)
  <2>1. CutGap(g, q) = {g}
    BY <1>2 DEF CutGap, ngtcp2_range_intersect, ngtcp2_range_len, Range_
  <2> QED
    BY <1>2, <2>1, UINT64_MAXAssumption DEF NgRange, Offset
<1> QED BY <1>1, <1>2, Zenon

\* ngtcp2_gaptr_push keeps the list well formed.
LEMMA PushGapsOK ==
  ASSUME NEW gaps, GapsOK(gaps), NEW q \in NgRange
  PROVE  GapsOK(ngtcp2_gaptr_push(gaps, q))
<1>1. \A g \in gaps : g \in NgRange /\ g.begin < g.end
  BY Zenon DEF GapsOK
<1>2. ASSUME NEW r \in ngtcp2_gaptr_push(gaps, q),
             NEW s \in ngtcp2_gaptr_push(gaps, q)
      PROVE  /\ r \in NgRange /\ r.begin < r.end
             /\ r = s \/ r.end < s.begin \/ s.end < r.begin
  <2>1. PICK g \in gaps : r \in CutGap(g, q)
    BY Zenon DEF ngtcp2_gaptr_push
  <2>2. PICK h \in gaps : s \in CutGap(h, q)
    BY Zenon DEF ngtcp2_gaptr_push
  <2>3. r \in NgRange /\ r.begin < r.end /\ g.begin <= r.begin /\ r.end <= g.end
    BY <1>1, <2>1, CutGapFacts, Zenon
  <2>4. s \in NgRange /\ s.begin < s.end /\ h.begin <= s.begin /\ s.end <= h.end
    BY <1>1, <2>2, CutGapFacts, Zenon
  <2>5. CASE g = h
    BY <1>1, <2>1, <2>2, <2>3, <2>5, CutGapFacts, Zenon
  <2>6. CASE g # h
    <3>1. g.end < h.begin \/ h.end < g.begin
      BY <2>6, Zenon DEF GapsOK
    <3> QED BY <1>1, <2>3, <2>4, <3>1 DEF NgRange, Offset
  <2> QED BY <2>3, <2>5, <2>6, Zenon
<1> QED BY <1>2, Zenon DEF GapsOK

\* After ngtcp2_gaptr_push an offset is open if it was and is not in the range
\* pushed.
LEMMA PushInGaps ==
  ASSUME NEW gaps, GapsOK(gaps), NEW q \in NgRange, NEW i \in Int
  PROVE  InGaps(ngtcp2_gaptr_push(gaps, q), i)
           <=> InGaps(gaps, i) /\ ~(q.begin <= i /\ i < q.end)
<1>1. \A g \in gaps :
        (\E r \in CutGap(g, q) : r.begin <= i /\ i < r.end)
          <=> g.begin <= i /\ i < g.end /\ ~(q.begin <= i /\ i < q.end)
  <2> TAKE g \in gaps
  <2> g \in NgRange /\ g.begin < g.end BY Zenon DEF GapsOK
  <2> QED BY CutGapFacts, Zenon
<1> QED BY <1>1, Zenon DEF InGaps, ngtcp2_gaptr_push

\* ngtcp2_rob_remove_prefix keeps the list well formed.
LEMMA PrefixGapsOK ==
  ASSUME NEW gaps, GapsOK(gaps), NEW offset \in Offset
  PROVE  GapsOK(RemovePrefixGaps(gaps, offset))
BY UINT64_MAXAssumption DEF GapsOK, RemovePrefixGaps, Range_, NgRange, Offset

\* After ngtcp2_rob_remove_prefix an offset is open if it was and is not below
\* the prefix removed.
LEMMA PrefixInGaps ==
  ASSUME NEW gaps, GapsOK(gaps), NEW offset \in Offset, NEW i \in Int
  PROVE  InGaps(RemovePrefixGaps(gaps, offset), i)
           <=> InGaps(gaps, i) /\ offset <= i
<1> DEFINE Trim(g) == Range_(IF g.begin < offset THEN offset ELSE g.begin, g.end)
<1>1. /\ \A g \in gaps : g.begin \in Int /\ g.end \in Int
      /\ offset \in Int
  BY UINT64_MAXAssumption DEF GapsOK, NgRange, Offset
<1>2. ASSUME NEW r \in RemovePrefixGaps(gaps, offset), r.begin <= i, i < r.end
      PROVE  InGaps(gaps, i) /\ offset <= i
  <2>1. PICK g \in gaps : r = Trim(g)
    BY Zenon DEF RemovePrefixGaps
  <2> QED BY <1>1, <1>2, <2>1 DEF InGaps, Range_
<1>3. ASSUME NEW g \in gaps, g.begin <= i, i < g.end, offset <= i
      PROVE  InGaps(RemovePrefixGaps(gaps, offset), i)
  <2>1. Trim(g) \in RemovePrefixGaps(gaps, offset)
    BY <1>1, <1>3 DEF RemovePrefixGaps
  <2>2. Trim(g).begin <= i /\ i < Trim(g).end
    BY <1>1, <1>3, Zenon DEF Range_
  <2> QED BY <2>1, <2>2, Zenon DEF InGaps
<1> QED BY <1>2, <1>3, Zenon DEF InGaps

\* A non-empty set of naturals has a least element.
LEMMA LeastNat ==
  ASSUME NEW S \in SUBSET Nat, S # {}
  PROVE  \E b \in S : \A x \in S : b <= x
<1>1. IsWellFoundedOn(OpToRel(<, Nat), Nat)
  BY NatLessThanWellFounded, Zenon
<1>2. PICK b \in S : \A x \in S : ~(<<x, b>> \in OpToRel(<, Nat))
  BY <1>1, WFMin, Zenon
<1>3. ASSUME NEW x \in S PROVE b <= x
  <2>1. ~(x < b) BY <1>2, Zenon DEF OpToRel
  <2> QED BY <2>1
<1> QED BY <1>3, Zenon

\* The first gap: it is open, and everything before it has been seen.
LEMMA FirstGapFacts ==
  ASSUME NEW gaps, GapsOK(gaps), gaps # {}
  PROVE  /\ ngtcp2_gaptr_first_gap_offset(gaps) \in Offset
         /\ ngtcp2_gaptr_first_gap_offset(gaps) < UINT64_MAX
         /\ InGaps(gaps, ngtcp2_gaptr_first_gap_offset(gaps))
         /\ \A i \in Int : InGaps(gaps, i) => ngtcp2_gaptr_first_gap_offset(gaps) <= i
<1> DEFINE S == {g.begin : g \in gaps}
<1>1. S \in SUBSET Nat /\ S # {}
  BY UINT64_MAXAssumption DEF GapsOK, NgRange, Offset
<1>2. PICK b \in S : \A x \in S : b <= x
  BY <1>1, LeastNat, Zenon
<1>3. b \in Offset /\ IsFirstGap(gaps, b)
  BY <1>2, Zenon DEF GapsOK, NgRange, IsFirstGap
<1>4. /\ ngtcp2_gaptr_first_gap_offset(gaps) \in Offset
      /\ IsFirstGap(gaps, ngtcp2_gaptr_first_gap_offset(gaps))
  BY <1>3, Zenon DEF ngtcp2_gaptr_first_gap_offset
<1> QED
  BY <1>4, UINT64_MAXAssumption DEF IsFirstGap, InGaps, GapsOK, NgRange, Offset
=============================================================================
