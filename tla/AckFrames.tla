----------------------------- MODULE AckFrames -----------------------------
(***************************************************************************)
(* ACK frames: how conn_create_ack_frame (lib/ngtcp2_conn.c) builds one    *)
(* from the list of received packets, what ngtcp2_pkt_validate_ack and     *)
(* ngtcp2_pkt_decode_ack_frame (lib/ngtcp2_pkt.c) make of it, and the walk *)
(* over a list of packets in decreasing order that ngtcp2_rtb_recv_ack     *)
(* (lib/ngtcp2_rtb.c), ngtcp2_acktr_recv_ack and acktr_on_ack              *)
(* (lib/ngtcp2_acktr.c) have in common.                                    *)
(*                                                                         *)
(* A frame is [largest_ack, first_ack_blklen, blks], blks being the        *)
(* additional blocks [gap, blklen].  The ACK delay is left out.            *)
(***************************************************************************)
EXTENDS Integers, Sequences, FiniteSets, SequencesExt, FiniteSetsExt

CONSTANT MAX_ACK_BLKS     \* NGTCP2_MAX_ACK_BLKS

NoBlk == -1               \* no block has been written yet (initial)

-----------------------------------------------------------------------------
(* Reference: the packets that a frame acknowledges *)

RECURSIVE BlkRanges(_, _)
BlkRanges(min_ack, blks) ==
  IF blks = <<>> THEN {}
  ELSE LET largest == min_ack - Head(blks).gap - 2
           min     == largest - Head(blks).blklen
       IN  (min .. largest) \cup BlkRanges(min, Tail(blks))

Acked(fr) ==
  LET min == fr.largest_ack - fr.first_ack_blklen
  IN  (min .. fr.largest_ack) \cup BlkRanges(min, fr.blks)

-----------------------------------------------------------------------------
(* conn_create_ack_frame *)

\* The run of packets first, first - 1, .., last becomes the first block, or an
\* additional one that the given gap separates from the block before.
CloseBlk(fr, gap, first, last) ==
  IF fr.first_ack_blklen = NoBlk
  THEN [fr EXCEPT !.first_ack_blklen = first - last]
  ELSE [fr EXCEPT !.blks = Append(@, [gap |-> gap, blklen |-> first - last])]

\* Mutant: the gap is one too large.
BlkGapOffByOne(last, n) == last - n - 1

\* The gap field between a block that ends with last and one that begins at n.
BlkGap(last, n) == last - n - 2

\* The loop over the packets after the largest; left is what the loop leaves
\* when it stops at NGTCP2_MAX_ACK_BLKS, and what is forgotten.
RECURSIVE CreateLoop(_, _, _, _, _)
CreateLoop(fr, gap, first, last, rest) ==
  IF rest = <<>> THEN [fr |-> CloseBlk(fr, gap, first, last), left |-> <<>>]
  ELSE LET n == Head(rest)
           closed == CloseBlk(fr, gap, first, last)
           ngap   == BlkGap(last, n)
       IN  IF n + 1 = last THEN CreateLoop(fr, gap, first, n, Tail(rest))
           ELSE IF Len(closed.blks) = MAX_ACK_BLKS
           THEN [fr |-> CloseBlk(closed, ngap, n, n), left |-> rest]
           ELSE CreateLoop(closed, ngap, n, n, Tail(rest))

\* nums: the packets to acknowledge in decreasing order, not empty.
conn_create_ack_frame(nums) ==
  CreateLoop([largest_ack |-> Head(nums), first_ack_blklen |-> NoBlk, blks |-> <<>>],
             0, Head(nums), Head(nums), Tail(nums))

-----------------------------------------------------------------------------
(* The receiver of a frame *)

\* ngtcp2_pkt_decode_ack_frame keeps the first NGTCP2_MAX_ACK_BLKS blocks.
ngtcp2_pkt_decode_ack_frame(fr) ==
  [fr EXCEPT !.blks = SubSeq(@, 1, Min({Len(@), MAX_ACK_BLKS}))]

RECURSIVE BlksValid(_, _)
BlksValid(largest, blks) ==
  IF blks = <<>> THEN TRUE
  ELSE LET b == Head(blks)
       IN  /\ largest >= b.gap + 2
           /\ largest - (b.gap + 2) >= b.blklen
           /\ BlksValid(largest - (b.gap + 2) - b.blklen, Tail(blks))

ngtcp2_pkt_validate_ack(fr) ==
  /\ fr.largest_ack >= fr.first_ack_blklen
  /\ BlksValid(fr.largest_ack - fr.first_ack_blklen, fr.blks)

-----------------------------------------------------------------------------
(* The walk.  nums is a list of packet numbers; the result is the set of the *)
(* indices of the elements that the loops find acknowledged.  Each loop goes *)
(* on where the one before it stopped.                                      *)

\* The loop within the block [min, largest]: i is where it starts; it passes
\* by what is above the block and stops at the first element below it.
RECURSIVE WalkBlk(_, _, _, _)
WalkBlk(nums, i, min, largest) ==
  IF i > Len(nums) \/ nums[i] < min THEN [i |-> i, hits |-> {}]
  ELSE LET next == WalkBlk(nums, i + 1, min, largest)
       IN  IF nums[i] > largest THEN next
           ELSE [next EXCEPT !.hits = @ \cup {i}]

RECURSIVE WalkBlks(_, _, _, _)
WalkBlks(nums, i, min_ack, blks) ==
  IF blks = <<>> \/ i > Len(nums) THEN {}
  ELSE LET largest == min_ack - Head(blks).gap - 2
           min     == largest - Head(blks).blklen
           blk     == WalkBlk(nums, i, min, largest)
       IN  blk.hits \cup WalkBlks(nums, blk.i, min, Tail(blks))

\* The first block ends at the first element outside it, above or below.
RECURSIVE WalkFirst(_, _, _, _)
WalkFirst(nums, i, min, largest) ==
  IF i > Len(nums) \/ nums[i] < min \/ nums[i] > largest
  THEN [i |-> i, hits |-> {}]
  ELSE LET next == WalkFirst(nums, i + 1, min, largest)
       IN  [next EXCEPT !.hits = @ \cup {i}]

Walk(nums, fr) ==
  LET from  == {i \in DOMAIN nums : fr.largest_ack >= nums[i]}
      min   == fr.largest_ack - fr.first_ack_blklen
      first == WalkFirst(nums, Min(from), min, fr.largest_ack)
  IN  IF from = {} THEN {}
      ELSE first.hits \cup WalkBlks(nums, first.i, min, fr.blks)
=============================================================================
