------------------------------- MODULE PktNum -------------------------------
(***************************************************************************)
(* Truncated packet numbers.  The sender of a short packet writes 1, 2 or  *)
(* 4 bytes of its number, as many as conn_select_pkt_type                  *)
(* (lib/ngtcp2_conn.c) finds enough given the largest number acknowledged  *)
(* so far; the receiver restores the number with ngtcp2_pkt_adjust_pkt_num *)
(* (lib/ngtcp2_pkt.c) from the largest number it has decrypted.  Between   *)
(* them packets are lost and reordered.                                    *)
(***************************************************************************)
EXTENDS Integers, FiniteSets

CONSTANTS
  UINT64_MAX,
  Win01, Win02, Win03,   \* 2^8, 2^16, 2^32: numbers that a field tells apart
  First,                 \* the first packet number, chosen at random
  MaxUnacked,            \* bound: packets sent beyond the largest acknowledged
  MaxNet                 \* bound: packets in the network at a time

Even(w) == w % 2 = 0

\* The fields are powers of two, shorter than a number; 2^31 packets are never
\* outstanding.
ASSUME PktNumAssumption ==
  /\ UINT64_MAX \in Nat /\ First \in 1 .. UINT64_MAX
  /\ Win01 \in Nat /\ Win02 \in Nat /\ Win03 \in Nat
  /\ Even(Win01) /\ Even(Win02) /\ Even(Win03) /\ Even(UINT64_MAX + 1)
  /\ 2 <= Win01 /\ Win01 <= Win02 /\ Win02 <= Win03 /\ 3 * Win03 <= UINT64_MAX
  /\ MaxUnacked \in Nat /\ 2 * MaxUnacked < Win03
  /\ MaxNet \in Nat

VARIABLES
  last_tx,        \* sender: conn->last_tx_pkt_num
  largest_acked,  \* sender: conn->rtb.largest_acked
  max_rx,         \* receiver: conn->max_rx_pkt_num
  net             \* packets in the network: [num, field, win]

vars == <<last_tx, largest_acked, max_rx, net>>

\* conn_select_pkt_type, as the window of the packet type it returns.
conn_select_pkt_type(pkt_num, acked) ==
  LET n == (pkt_num - acked) * 2 + 1
  IN  IF UINT64_MAX \div 2 <= pkt_num THEN Win03
      ELSE IF n > Win02 - 1 THEN Win03
      ELSE IF n > Win01 - 1 THEN Win02
      ELSE Win01

Distance(a, b) == IF a < b THEN b - a ELSE a - b

\* Mutant: the next window is not considered.
AdjustSameWindow(max_pkt_num, pkt_num, w) ==
  LET k == IF max_pkt_num = UINT64_MAX THEN max_pkt_num ELSE max_pkt_num + 1
  IN  k - (k % w) + pkt_num

\* The field has no bit in common with u: | is +.
ngtcp2_pkt_adjust_pkt_num(max_pkt_num, pkt_num, w) ==
  LET k == IF max_pkt_num = UINT64_MAX THEN max_pkt_num ELSE max_pkt_num + 1
      u == k - (k % w)
      a == u + pkt_num
      b == ((u + w) % (UINT64_MAX + 1)) + pkt_num
  IN  IF Distance(k, a) < Distance(k, b) THEN a ELSE b

-----------------------------------------------------------------------------
Init ==
  /\ last_tx = First /\ largest_acked = First /\ max_rx = First
  /\ net = {}

\* ngtcp2_pkt_encode_hd_short truncates the number.
ngtcp2_pkt_encode_hd_short(num) ==
  LET win == conn_select_pkt_type(num, largest_acked)
  IN  [num |-> num, field |-> num % win, win |-> win]

Send ==
  /\ last_tx # UINT64_MAX
  /\ last_tx - largest_acked < MaxUnacked /\ Cardinality(net) < MaxNet
  /\ last_tx' = last_tx + 1
  /\ net' = net \cup {ngtcp2_pkt_encode_hd_short(last_tx + 1)}
  /\ UNCHANGED <<largest_acked, max_rx>>

Lose(p) ==
  /\ net' = net \ {p}
  /\ UNCHANGED <<last_tx, largest_acked, max_rx>>

\* conn_recv_pkt: the number of the packet, from the field.
Restored(p) == ngtcp2_pkt_adjust_pkt_num(max_rx, p.field, p.win)

\* The number is part of the nonce: with another one than the sender's the
\* packet does not decrypt and is discarded (Lose).
Decrypts(p) == Restored(p) = p.num

\* Repeated packets are left out: they do not change the largest number
\* received.
Receive(p) ==
  /\ Decrypts(p)
  /\ max_rx' = IF max_rx < p.num THEN p.num ELSE max_rx
  /\ net' = net \ {p}
  /\ UNCHANGED <<last_tx, largest_acked>>

\* ngtcp2_rtb_recv_ack
RecvAck(n) ==
  /\ largest_acked < n /\ n <= max_rx
  /\ largest_acked' = n
  /\ UNCHANGED <<last_tx, max_rx, net>>

Next ==
  \/ Send
  \/ \E p \in net : Lose(p) \/ Receive(p)
  \/ \E n \in largest_acked .. max_rx : RecvAck(n)

Spec == Init /\ [][Next]_vars

-----------------------------------------------------------------------------
(* Properties *)

Pkts == [num : First .. last_tx, field : Nat, win : {Win01, Win02, Win03}]

TypeOK ==
  /\ last_tx \in First .. UINT64_MAX
  /\ largest_acked \in First .. max_rx
  /\ max_rx \in First .. last_tx
  /\ net \subseteq Pkts

\* A packet with a larger number than all that were received has its number
\* restored, however many packets before it were lost or overtaken, and
\* whatever the receiver has received since the sender chose the packet type.
NewerRestored == \A p \in net : max_rx < p.num => Restored(p) = p.num

\* The first number of the window of the next expected number.
WindowStart(w) ==
  LET k == IF max_rx = UINT64_MAX THEN max_rx ELSE max_rx + 1 IN k - (k % w)

\* ngtcp2_pkt_adjust_pkt_num restores the number of every newer packet, and
\* that of a late packet, less than half a window old, exactly if it lies in
\* the window of the next expected number; the number of one in the window
\* before becomes one window too large.
NumbersRestored ==
  /\ NewerRestored
  /\ \A p \in net : p.num <= max_rx /\ 2 * (max_rx + 1 - p.num) < p.win =>
        Restored(p) = IF WindowStart(p.win) <= p.num THEN p.num ELSE p.num + p.win

\* The inductive invariant: the field tells a number from those up to half a
\* window beyond the largest one received.
FieldSuffices ==
  /\ TypeOK
  /\ \A p \in net : p.field = p.num % p.win /\ 2 * (p.num - max_rx) < p.win

\* Every packet's number is restored, late ones included, as long as it is
\* within half a window of the next expected number (lib/ngtcp2_pkt.h:607).
NearRestored ==
  \A p \in net : 2 * (max_rx + 1 - p.num) < p.win => Restored(p) = p.num
=============================================================================
