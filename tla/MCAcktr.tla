------------------------------ MODULE MCAcktr ------------------------------
(* Instances of Acktr for TLC. *)
EXTENDS Acktr

CONSTANT N       \* the largest packet number of the peer

AllNums == 0 .. N
LowNums == {n \in AllNums : n < 3}
EvenNums == {n \in AllNums : n % 2 = 0}

\* Packets 1 and 3 get lost, so that an ACK frame has more blocks than it may
\* and the tracker more entries; and a ring of two frames that a third one
\* wraps.  The ring of one frame wraps in the first course as well.
MCPlans ==
  {[rx |-> AllNums \ {1, 3}, tx |-> 2, nmemb |-> 1],
   [rx |-> 0 .. 2, tx |-> 3, nmemb |-> 2]}
=============================================================================
