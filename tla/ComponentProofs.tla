-------------------------- MODULE ComponentProofs --------------------------
(***************************************************************************)
(* Proofs about three components that stand for themselves, for every      *)
(* value of their constants: the number of a packet is restored (PktNum),  *)
(* the ring holds the newest elements in order (Ringbuf), and the maps of  *)
(* the example server agree (Handlers).                                    *)
(***************************************************************************)
EXTENDS PktNum, Ringbuf, Handlers, TLAPS

-----------------------------------------------------------------------------
(* Packet numbers: the number of a packet newer than all received ones, or *)
(* less than half a window older, is restored.                             *)

\* Division with remainder.
LEMMA DivMod ==
  ASSUME NEW x \in Nat, NEW w \in Nat \ {0}
  PROVE  /\ x \div w \in Nat /\ x % w \in 0 .. w - 1
         /\ x = w * (x \div w) + (x % w)
  OBVIOUS

\* Multiplication is monotonic.
LEMMA MultMono ==
  ASSUME NEW w \in Nat, NEW i \in Int, NEW j \in Int, i <= j
  PROVE  w * i <= w * j
  OBVIOUS

\* A number less than half a window beyond k lies in k's window or in the next.
LEMMA SameOrNextWindow ==
  ASSUME NEW w \in Nat \ {0}, NEW k \in Nat, NEW p \in Nat, k <= p, 2 * (p - k) < w
  PROVE  LET u == k - (k % w)
         IN  p = u + (p % w) \/ p = u + w + (p % w)
  <1> DEFINE q == k \div w
             r == p \div w
  <1>1. /\ q \in Nat /\ k % w \in 0 .. w - 1 /\ k = w * q + (k % w)
        /\ r \in Nat /\ p % w \in 0 .. w - 1 /\ p = w * r + (p % w)
    BY DivMod, Zenon
  <1> HIDE DEF q, r
  <1>2. r >= q
    <2>1. SUFFICES ASSUME r + 1 <= q PROVE FALSE
      BY <1>1
    <2>2. w * (r + 1) <= w * q
      BY <1>1, <2>1, MultMono
    <2>3. w * (r + 1) = w * r + w
      BY <1>1
    <2> QED
      BY <1>1, <2>2, <2>3
  <1>3. r <= q + 1
    <2>1. SUFFICES ASSUME q + 2 <= r PROVE FALSE
      BY <1>1
    <2>2. w * (q + 2) <= w * r
      BY <1>1, <2>1, MultMono
    <2>3. w * (q + 2) = w * q + w + w
      BY <1>1
    <2> QED
      BY <1>1, <2>2, <2>3
  <1>4. CASE r = q
    BY <1>1, <1>4
  <1>5. CASE r = q + 1
    <2>1. w * (q + 1) = w * q + w
      BY <1>1
    <2> QED
      BY <1>1, <1>5, <2>1
  <1> QED
    BY <1>1, <1>2, <1>3, <1>4, <1>5

\* What ngtcp2_pkt_adjust_pkt_num returns for a number less than half a window
\* beyond the largest one received.
LEMMA AdjustNewer ==
  ASSUME NEW w \in Nat, 2 <= w, 2 * w <= UINT64_MAX,
         NEW max \in Nat, NEW p \in Nat, max < p, p <= UINT64_MAX, 2 * (p - max) < w
  PROVE  ngtcp2_pkt_adjust_pkt_num(max, p % w, w) = p
  <1> DEFINE M == UINT64_MAX + 1
             k == max + 1
             u == k - (k % w)
             f == p % w
             a == u + f
             b == ((u + w) % M) + f
  <1>0. UINT64_MAX \in Nat
    BY PktNumAssumption, Zenon
  <1>1. max # UINT64_MAX /\ w \in Nat \ {0} /\ k \in Nat
    BY <1>0
  <1>2. k % w \in 0 .. w - 1 /\ f \in 0 .. w - 1
    BY <1>1, DivMod, Zenon
  <1>3. p = a \/ p = u + w + f
    BY SameOrNextWindow
  <1>4. ngtcp2_pkt_adjust_pkt_num(max, f, w)
          = IF Distance(k, a) < Distance(k, b) THEN a ELSE b
    BY <1>1, Zenon DEF ngtcp2_pkt_adjust_pkt_num
  <1>5. u \in Int /\ u <= k /\ u + w > k
    BY <1>2
  <1>6. u \in Nat
    <2>1. k \in Nat /\ k = w * (k \div w) + (k % w) /\ k \div w \in Nat
      BY <1>1, DivMod, Zenon
    <2>2. w * (k \div w) \in Nat
      BY <2>1
    <2> QED
      BY <2>1, <2>2, <1>2
  <1> HIDE DEF u, f
  <1>7. u + w < M => (u + w) % M = u + w
    BY <1>0, <1>6
  <1>8. u + w >= M => (u + w) % M = u + w - M
    <2>1. u + w < 2 * M
      BY <1>0, <1>5, <1>6
    <2> QED
      BY <2>1, <1>0, <1>6
  <1>9. ASSUME p = a PROVE Distance(k, a) < Distance(k, b)
    <2>1. Distance(k, a) = p - k
      BY <1>9, <1>0, <1>2, <1>6 DEF Distance
    <2>2. CASE u + w < M
      <3>1. b = p + w
        BY <2>2, <1>2, <1>6, <1>7, <1>9
      <3>2. Distance(k, b) = p + w - k
        BY <3>1 DEF Distance
      <3> QED
        BY <2>1, <3>2
    <2>3. CASE u + w >= M
      <3>1. b = p + w - M
        BY <2>3, <1>0, <1>2, <1>6, <1>8, <1>9
      <3>2. b < k /\ b \in Int
        BY <3>1, <1>0
      <3>3. Distance(k, b) = k - b
        BY <3>2 DEF Distance
      <3> QED
        BY <2>1, <3>1, <3>3, <1>0
    <2> QED
      BY <2>2, <2>3, <1>0, <1>6
  <1>10. ASSUME p = u + w + f PROVE b = p /\ ~(Distance(k, a) < Distance(k, b))
    <2>1. u + w < M
      BY <1>10, <1>0, <1>2, <1>6
    <2>2. b = p
      BY <2>1, <1>7, <1>10, Zenon
    <2>3. Distance(k, b) = p - k
      BY <2>2, <1>0, <1>2, <1>6 DEF Distance
    <2>4. a = p - w
      BY <1>10, <1>2, <1>6
    <2>5. Distance(k, a) = k - a
      BY <2>4, <1>0, <1>2, <1>6 DEF Distance
    <2> QED
      BY <2>2, <2>3, <2>4, <2>5
  <1>11. ngtcp2_pkt_adjust_pkt_num(max, f, w) = p
    BY <1>3, <1>4, <1>9, <1>10
  <1> QED
    BY <1>11, Zenon DEF f

\* A number less than half a window before k lies in k's window or in the one
\* before.
LEMMA SameOrPreviousWindow ==
  ASSUME NEW w \in Nat \ {0}, NEW k \in Nat, NEW p \in Nat, p <= k, 2 * (k - p) < w
  PROVE  LET u == k - (k % w)
         IN  /\ u <= p => p = u + (p % w)
             /\ p < u  => p = u - w + (p % w)
  <1> DEFINE q == k \div w
             r == p \div w
  <1>1. /\ q \in Nat /\ k % w \in 0 .. w - 1 /\ k = w * q + (k % w)
        /\ r \in Nat /\ p % w \in 0 .. w - 1 /\ p = w * r + (p % w)
    BY DivMod, Zenon
  <1> HIDE DEF q, r
  <1>2. r <= q
    <2>1. SUFFICES ASSUME q + 1 <= r PROVE FALSE
      BY <1>1
    <2>2. w * (q + 1) <= w * r
      BY <1>1, <2>1, MultMono
    <2>3. w * (q + 1) = w * q + w
      BY <1>1
    <2> QED
      BY <1>1, <2>2, <2>3
  <1>3. q <= r + 1
    <2>1. SUFFICES ASSUME r + 2 <= q PROVE FALSE
      BY <1>1
    <2>2. w * (r + 2) <= w * q
      BY <1>1, <2>1, MultMono
    <2>3. w * (r + 2) = w * r + w + w
      BY <1>1
    <2> QED
      BY <1>1, <2>2, <2>3
  <1>4. CASE r = q
    BY <1>1, <1>4
  <1>5. CASE q = r + 1
    <2>1. w * (r + 1) = w * r + w
      BY <1>1
    <2> QED
      BY <1>1, <1>5, <2>1
  <1> QED
    BY <1>1, <1>2, <1>3, <1>4, <1>5

\* What ngtcp2_pkt_adjust_pkt_num returns for a number less than half a window
\* before the next expected one.
LEMMA AdjustLate ==
  ASSUME NEW w \in Nat, 2 <= w, 3 * w <= UINT64_MAX,
         NEW max \in Nat, max <= UINT64_MAX,
         NEW p \in Nat, p <= max, 2 * (max + 1 - p) < w
  PROVE  LET k == IF max = UINT64_MAX THEN max ELSE max + 1
         IN  ngtcp2_pkt_adjust_pkt_num(max, p % w, w)
               = IF k - (k % w) <= p THEN p ELSE p + w
  <1> DEFINE M == UINT64_MAX + 1
             k == IF max = UINT64_MAX THEN max ELSE max + 1
             u == k - (k % w)
             f == p % w
             a == u + f
             b == ((u + w) % M) + f
  <1>0. UINT64_MAX \in Nat
    BY PktNumAssumption, Zenon
  <1>1. w \in Nat \ {0} /\ k \in Nat /\ p <= k /\ 2 * (k - p) < w /\ k <= UINT64_MAX
    BY <1>0
  <1>2. k % w \in 0 .. w - 1 /\ f \in 0 .. w - 1
    BY <1>1, DivMod, Zenon
  <1>3. (u <= p => p = u + f) /\ (p < u => p = u - w + f)
    BY <1>1, SameOrPreviousWindow, Zenon
  <1>4. ngtcp2_pkt_adjust_pkt_num(max, f, w)
          = IF Distance(k, a) < Distance(k, b) THEN a ELSE b
    BY Zenon DEF ngtcp2_pkt_adjust_pkt_num
  <1>5. u \in Int /\ u <= k /\ u + w > k
    BY <1>1, <1>2
  <1>6. u \in Nat
    <2>1. k = w * (k \div w) + (k % w) /\ k \div w \in Nat
      BY <1>1, DivMod, Zenon
    <2>2. w * (k \div w) \in Nat
      BY <2>1
    <2> QED
      BY <1>1, <1>2, <2>1, <2>2
  <1> HIDE DEF k, u, f
  <1>7. u + w < M => (u + w) % M = u + w
    BY <1>0, <1>6
  <1>8. u + w >= M => (u + w) % M = u + w - M
    <2>1. u + w < 2 * M
      BY <1>0, <1>1, <1>5, <1>6
    <2> QED
      BY <2>1, <1>0, <1>6
  <1>9. ASSUME u <= p PROVE a = p /\ Distance(k, a) < Distance(k, b)
    <2>1. a = p
      BY <1>3, <1>9, Zenon
    <2>2. Distance(k, a) = k - p
      BY <2>1, <1>1 DEF Distance
    <2>3. CASE u + w < M
      <3>1. b = p + w
        BY <2>1, <2>3, <1>2, <1>6, <1>7
      <3>2. Distance(k, b) = p + w - k
        BY <3>1, <1>1 DEF Distance
      <3> QED
        BY <2>1, <2>2, <3>2, <1>1
    <2>4. CASE u + w >= M
      <3>1. b = p + w - M
        BY <2>1, <2>4, <1>0, <1>2, <1>6, <1>8
      <3>2. b < k /\ b \in Int
        BY <3>1, <1>0, <1>1
      <3>3. Distance(k, b) = k - b
        BY <3>2, <1>1 DEF Distance
      <3> QED
        BY <2>1, <2>2, <3>1, <3>3, <1>0, <1>1
    <2> QED
      BY <2>3, <2>4, <1>0, <1>6
  <1>10. ASSUME p < u PROVE a = p + w /\ Distance(k, a) < Distance(k, b)
    <2>1. a = p + w
      BY <1>3, <1>10, <1>2, <1>6
    <2>2. Distance(k, a) = p + w - k
      BY <2>1, <1>1 DEF Distance
    <2>3. CASE u + w < M
      <3>1. b = p + w + w
        BY <2>1, <2>3, <1>2, <1>6, <1>7
      <3>2. Distance(k, b) = p + w + w - k
        BY <3>1, <1>1 DEF Distance
      <3> QED
        BY <2>1, <2>2, <3>2, <1>1
    <2>4. CASE u + w >= M
      <3>1. b = p + w + w - M
        BY <2>1, <2>4, <1>0, <1>2, <1>6, <1>8
      <3>2. b < k /\ b \in Int
        BY <3>1, <1>0, <1>1
      <3>3. Distance(k, b) = k - b
        BY <3>2, <1>1 DEF Distance
      <3> QED
        BY <2>1, <2>2, <3>1, <3>3, <1>0, <1>1
    <2> QED
      BY <2>3, <2>4, <1>0, <1>6
  <1>11. ngtcp2_pkt_adjust_pkt_num(max, f, w) = IF u <= p THEN p ELSE p + w
    BY <1>4, <1>9, <1>10, <1>1, <1>6
  <1> QED
    BY <1>11, Zenon DEF f, u, k

\* conn_select_pkt_type leaves room for twice the distance to the largest
\* acknowledged number.
LEMMA SelectSuffices ==
  ASSUME NEW p \in Nat, NEW acked \in Nat, acked < p, p - acked <= MaxUnacked
  PROVE  LET w == conn_select_pkt_type(p, acked)
         IN  w \in {Win01, Win02, Win03} /\ 2 * (p - acked) < w
  BY PktNumAssumption DEF conn_select_pkt_type

\* The invariant holds at the start and is kept by every step.
LEMMA FieldInvariant == Spec => []FieldSuffices
  <1> USE PktNumAssumption
  <1>1. Init => FieldSuffices
    BY DEF Init, FieldSuffices, TypeOK
  <1>2. FieldSuffices /\ [Next]_vars => FieldSuffices'
    <2> SUFFICES ASSUME FieldSuffices, [Next]_vars PROVE FieldSuffices'
      BY Zenon
    <2>t. /\ last_tx \in First .. UINT64_MAX /\ max_rx \in First .. last_tx
          /\ largest_acked \in First .. max_rx
          /\ \A p \in net : /\ p \in Pkts /\ p.num \in First .. last_tx
                            /\ p.win \in {Win01, Win02, Win03}
                            /\ p.field = p.num % p.win
                            /\ 2 * (p.num - max_rx) < p.win
      BY Zenon DEF FieldSuffices, TypeOK, Pkts
    <2>1. CASE Send
      <3> DEFINE n == last_tx + 1
                 w == conn_select_pkt_type(n, largest_acked)
                 p == ngtcp2_pkt_encode_hd_short(n)
      <3>1. w \in {Win01, Win02, Win03} /\ 2 * (n - largest_acked) < w
        BY <2>1, <2>t, SelectSuffices DEF Send
      <3>2. p = [num |-> n, field |-> n % w, win |-> w]
        BY Zenon DEF ngtcp2_pkt_encode_hd_short
      <3>3. net' = net \cup {p} /\ last_tx' = n /\ max_rx' = max_rx
            /\ largest_acked' = largest_acked
        BY <2>1, Zenon DEF Send
      <3>4. n \in First .. UINT64_MAX
        BY <2>1, <2>t DEF Send
      <3> HIDE DEF w, p
      <3>5. w \in Nat \ {0}
        BY <3>1
      <3>6. n % w \in Nat
        BY <3>4, <3>5, DivMod
      <3>7. p.num = n /\ p.field = n % w /\ p.win = w /\ p \in Pkts'
        BY <3>1, <3>2, <3>3, <3>4, <3>6 DEF Pkts
      <3>8. 2 * (n - max_rx) < w
        BY <3>1, <3>4, <3>5, <2>t
      <3>9. \A x \in net : x \in Pkts'
        BY <3>3, <3>4, <2>t DEF Pkts
      <3>10. TypeOK'
        BY <3>3, <3>4, <3>7, <3>9, <2>t DEF TypeOK
      <3>11. \A x \in net' : x.field = x.num % x.win /\ 2 * (x.num - max_rx') < x.win
        BY <3>3, <3>7, <3>8, <2>t, Zenon
      <3> QED
        BY <3>10, <3>11, Zenon DEF FieldSuffices
    <2>2. ASSUME NEW p \in net, Lose(p) PROVE FieldSuffices'
      BY <2>2, Zenon DEF Lose, FieldSuffices, TypeOK, Pkts
    <2>3. ASSUME NEW p \in net, Receive(p) PROVE FieldSuffices'
      <3>1. max_rx <= max_rx' /\ max_rx' \in First .. last_tx
        BY <2>3, <2>t DEF Receive
      <3>2. \A x \in net : 2 * (x.num - max_rx') < x.win
        <4> SUFFICES ASSUME NEW x \in net PROVE 2 * (x.num - max_rx') < x.win
          BY Zenon
        <4>1. x.num \in Nat /\ x.win \in Nat /\ 2 * (x.num - max_rx) < x.win
          BY <2>t
        <4> QED
          BY <4>1, <3>1, <2>t
      <3>3. TypeOK'
        BY <2>3, <2>t, <3>1 DEF Receive, TypeOK, Pkts
      <3> QED
        BY <2>3, <2>t, <3>2, <3>3, Zenon DEF Receive, FieldSuffices
    <2>4. ASSUME NEW n \in largest_acked .. max_rx, RecvAck(n) PROVE FieldSuffices'
      BY <2>4, <2>t DEF RecvAck, FieldSuffices, TypeOK, Pkts
    <2>5. CASE UNCHANGED vars
      BY <2>5, Zenon DEF vars, FieldSuffices, TypeOK, Pkts
    <2> QED
      BY <2>1, <2>2, <2>3, <2>4, <2>5, Zenon DEF Next
  <1> QED
    BY <1>1, <1>2, PTL DEF Spec

\* For all widths of the number field: whatever the loss and the reordering, a
\* packet newer than all received ones has its number restored by
\* ngtcp2_pkt_adjust_pkt_num, and so has a late one, unless a new window has
\* begun since.
THEOREM NumbersAreRestored == Spec => []NumbersRestored
  <1>1. FieldSuffices => NewerRestored
    <2> SUFFICES ASSUME FieldSuffices, NEW p \in net, max_rx < p.num
                 PROVE  Restored(p) = p.num
      BY Zenon DEF NewerRestored
    <2>1. /\ p.num \in Nat /\ p.num <= UINT64_MAX /\ max_rx \in Nat
          /\ p.win \in {Win01, Win02, Win03} /\ p.field = p.num % p.win
          /\ 2 * (p.num - max_rx) < p.win
      BY PktNumAssumption DEF FieldSuffices, TypeOK, Pkts
    <2>2. p.win \in Nat /\ 2 <= p.win /\ 2 * p.win <= UINT64_MAX
      BY <2>1, PktNumAssumption
    <2> QED
      BY <2>1, <2>2, AdjustNewer, Zenon DEF Restored
  <1>2. FieldSuffices => NumbersRestored
    <2> SUFFICES ASSUME FieldSuffices, NEW p \in net, p.num <= max_rx,
                        2 * (max_rx + 1 - p.num) < p.win
                 PROVE  Restored(p) = IF WindowStart(p.win) <= p.num THEN p.num
                                      ELSE p.num + p.win
      BY <1>1, Zenon DEF NumbersRestored
    <2>1. /\ p.num \in Nat /\ max_rx \in Nat /\ max_rx <= UINT64_MAX
          /\ p.win \in {Win01, Win02, Win03} /\ p.field = p.num % p.win
      BY PktNumAssumption DEF FieldSuffices, TypeOK, Pkts
    <2>2. p.win \in Nat /\ 2 <= p.win /\ 3 * p.win <= UINT64_MAX
      BY <2>1, PktNumAssumption
    <2> QED
      BY <2>1, <2>2, AdjustLate DEF Restored, WindowStart
  <1> QED
    BY <1>2, FieldInvariant, PTL

-----------------------------------------------------------------------------
(* The ring *)

\* A place of the ring, at most once round from another one.
LEMMA MaskFacts ==
  ASSUME NEW x \in Int, 0 - nmemb <= x, x < 2 * nmemb
  PROVE  Mask(x) = IF x < 0 THEN x + nmemb ELSE IF x < nmemb THEN x ELSE x - nmemb
BY RingAssumption DEF Mask

\* Whatever number is masked, the result is a place of the ring.
LEMMA MaskType ==
  ASSUME NEW x \in Int
  PROVE  Mask(x) \in 0 .. nmemb - 1
BY RingAssumption DEF Mask

\* ngtcp2_ringbuf_push_front: the place written is the one before first, and no
\* other element that counts has it.
LEMMA PushInv ==
  ASSUME RingInv, NEW x \in Elems, ngtcp2_ringbuf_push_front(x)
  PROVE  RingInv'
<1> USE RingAssumption
<1> DEFINE first == Mask(rb.first - 1)
           len   == IF rb.len + 1 < nmemb THEN rb.len + 1 ELSE nmemb
           kept  == IF Len(newest) < nmemb THEN newest ELSE SubSeq(newest, 1, nmemb - 1)
<1>0. /\ rb.first \in Nat /\ rb.len \in 0 .. nmemb /\ newest \in Seq(Elems)
      /\ Len(newest) = rb.len
      /\ rb.buf \in [0 .. nmemb - 1 -> Elems \cup {"uninitialized"}]
  BY Zenon DEF RingInv, RingNewestFirst
<1>1. first \in 0 .. nmemb - 1
  <2>1. rb.first - 1 \in Int
    BY <1>0
  <2> QED
    BY <2>1, MaskType, Zenon
<1>2. /\ rb' = [buf |-> [rb.buf EXCEPT ![first] = x], first |-> first, len |-> len]
      /\ newest' = <<x>> \o kept
  BY Zenon DEF ngtcp2_ringbuf_push_front
<1>3. rb'.buf = [rb.buf EXCEPT ![first] = x] /\ rb'.first = first /\ rb'.len = len
  BY <1>2, Zenon
<1>4. /\ kept \in Seq(Elems) /\ Len(kept) = len - 1
      /\ \A i \in 1 .. len - 1 : kept[i] = newest[i]
  <2>1. CASE Len(newest) < nmemb
    BY <1>0, <2>1
  <2>2. CASE ~(Len(newest) < nmemb)
    BY <1>0, <2>2
  <2> QED
    BY <2>1, <2>2, Zenon
<1> HIDE DEF kept
<1>5. /\ newest' \in Seq(Elems) /\ Len(newest') = len
      /\ newest'[1] = x /\ \A i \in 2 .. len : newest'[i] = newest[i - 1]
  BY <1>0, <1>2, <1>4
<1>6. len \in 1 .. nmemb /\ len <= rb.len + 1
  BY <1>0
<1> HIDE DEF first, len
<1>7. ASSUME NEW i \in 0 .. len - 1
      PROVE  rb'.buf[Mask(first + i)] = newest'[i + 1]
  <2>1. CASE i = 0
    <3>1. Mask(first + i) = first
      BY <1>1, <2>1, MaskFacts
    <3> QED
      BY <1>0, <1>1, <1>3, <1>5, <2>1, <3>1
  <2>2. CASE i > 0
    <3>1. i - 1 \in 0 .. rb.len - 1 /\ rb.len > 0 /\ rb.first < nmemb
      BY <1>0, <1>6, <2>2 DEF RingInv
    <3>2. first = IF rb.first = 0 THEN nmemb - 1 ELSE rb.first - 1
      BY <1>0, <3>1, MaskFacts DEF first
    <3>3. Mask(first + i) = Mask(rb.first + (i - 1))
      <4>1. first + i \in Int /\ first + i < 2 * nmemb /\ 0 <= first + i /\ 0 - nmemb <= first + i
        BY <1>1, <1>6
      <4>2. rb.first + (i - 1) \in Int /\ rb.first + (i - 1) < 2 * nmemb /\ 0 <= rb.first + (i - 1)
        <5>1. rb.first \in Nat
          BY <1>0, Zenon
        <5>2. i - 1 \in 0 .. nmemb - 1
          BY <1>6, <2>2
        <5> QED
          BY <5>1, <5>2, <3>1
      <4>3. Mask(first + i) = IF first + i < nmemb THEN first + i ELSE first + i - nmemb
        BY <4>1, <1>1, MaskFacts
      <4>4. Mask(rb.first + (i - 1))
              = IF rb.first + (i - 1) < nmemb THEN rb.first + (i - 1)
                ELSE rb.first + (i - 1) - nmemb
        BY <4>2, <1>0, MaskFacts
      <4> QED
        BY <1>0, <1>6, <2>2, <3>1, <3>2, <4>3, <4>4
    <3>4. Mask(first + i) # first /\ Mask(first + i) \in 0 .. nmemb - 1
      <4>1. first + i \in Int /\ first + i < 2 * nmemb /\ 0 <= first + i /\ 0 - nmemb <= first + i
        BY <1>1, <1>6
      <4>2. Mask(first + i) = IF first + i < nmemb THEN first + i ELSE first + i - nmemb
        BY <4>1, <1>1, MaskFacts
      <4> QED
        BY <1>1, <1>6, <2>2, <4>2
    <3>5. rb'.buf[Mask(first + i)] = rb.buf[Mask(rb.first + (i - 1))]
      BY <1>0, <1>1, <1>3, <3>3, <3>4, Zenon
    <3>6. rb.buf[Mask(rb.first + (i - 1))] = newest[i]
      <4>1. \A j \in 0 .. rb.len - 1 : rb.buf[Mask(rb.first + j)] = newest[j + 1]
        BY Zenon DEF RingInv, RingNewestFirst, ngtcp2_ringbuf_get
      <4>2. rb.buf[Mask(rb.first + (i - 1))] = newest[(i - 1) + 1]
        BY <3>1, <4>1, Zenon
      <4>3. (i - 1) + 1 = i
        BY <1>6
      <4> QED
        BY <4>2, <4>3, Zenon
    <3>7. newest'[i + 1] = newest[i]
      BY <1>5, <1>6, <2>2
    <3> QED
      BY <3>5, <3>6, <3>7, Zenon
  <2> QED
    BY <1>6, <2>1, <2>2
<1>8. RingNewestFirst'
  BY <1>3, <1>5, <1>6, <1>7 DEF RingNewestFirst, ngtcp2_ringbuf_get
<1>9. rb'.buf \in [0 .. nmemb - 1 -> Elems \cup {"uninitialized"}]
  BY <1>0, <1>1, <1>3, Zenon
<1>10. rb' = [buf |-> rb'.buf, first |-> rb'.first, len |-> rb'.len]
  BY <1>2, Zenon
<1> QED
  BY <1>1, <1>3, <1>5, <1>6, <1>8, <1>9, <1>10 DEF RingInv

\* ngtcp2_ringbuf_resize cuts off the oldest elements.
LEMMA ResizeInv ==
  ASSUME RingInv, NEW len \in 0 .. nmemb, ngtcp2_ringbuf_resize(len)
  PROVE  RingInv'
<1> USE RingAssumption
<1>0. /\ rb.first \in Nat /\ rb.len \in 0 .. nmemb /\ newest \in Seq(Elems)
      /\ Len(newest) = rb.len
      /\ rb = [buf |-> rb.buf, first |-> rb.first, len |-> rb.len]
      /\ len < rb.len
  BY Zenon DEF RingInv, RingNewestFirst, ngtcp2_ringbuf_resize
<1>1. rb' = [buf |-> rb.buf, first |-> rb.first, len |-> len] /\ newest' = SubSeq(newest, 1, len)
  BY <1>0, Zenon DEF ngtcp2_ringbuf_resize
<1>2. /\ newest' \in Seq(Elems) /\ Len(newest') = len
      /\ \A i \in 1 .. len : newest'[i] = newest[i]
  BY <1>0, <1>1
<1>3. rb'.buf = rb.buf /\ rb'.first = rb.first /\ rb'.len = len
  BY <1>1, Zenon
<1>4. ASSUME NEW i \in 0 .. len - 1
      PROVE  rb.buf[Mask(rb.first + i)] = newest'[i + 1]
  <2>1. \A j \in 0 .. rb.len - 1 : rb.buf[Mask(rb.first + j)] = newest[j + 1]
    BY Zenon DEF RingInv, RingNewestFirst, ngtcp2_ringbuf_get
  <2>2. i \in 0 .. rb.len - 1 /\ i + 1 \in 1 .. len
    BY <1>0
  <2>3. rb.buf[Mask(rb.first + i)] = newest[i + 1]
    BY <2>1, <2>2, Zenon
  <2>4. newest'[i + 1] = newest[i + 1]
    BY <1>2, <2>2, Zenon
  <2> QED
    BY <2>3, <2>4, Zenon
<1>5. RingNewestFirst'
  BY <1>0, <1>2, <1>3, <1>4 DEF RingNewestFirst, ngtcp2_ringbuf_get
<1> QED
  BY <1>0, <1>1, <1>2, <1>3, <1>5 DEF RingInv

\* For every number of elements and every element size, from which the code
\* derives the initial first, the ring that has gone round and been cut any number of times holds the newest elements in order.
THEOREM RingKeepsNewest == RingSpec => []RingNewestFirst
<1>1. ngtcp2_ringbuf_init => RingInv
  BY RingAssumption DEF ngtcp2_ringbuf_init, RingInv, RingNewestFirst
<1>2. RingInv /\ [RingNext]_ring_vars => RingInv'
  <2> SUFFICES ASSUME RingInv, [RingNext]_ring_vars PROVE RingInv'
    BY Zenon
  <2>1. CASE UNCHANGED ring_vars
    BY <2>1, Zenon DEF ring_vars, RingInv, RingNewestFirst, ngtcp2_ringbuf_get
  <2>2. ASSUME NEW x \in Elems, ngtcp2_ringbuf_push_front(x) PROVE RingInv'
    BY <2>2, PushInv, Zenon
  <2>3. ASSUME NEW len \in 0 .. nmemb, ngtcp2_ringbuf_resize(len) PROVE RingInv'
    BY <2>3, ResizeInv, Zenon
  <2> QED
    BY <2>1, <2>2, <2>3, Zenon DEF RingNext
<1>3. RingInv => RingNewestFirst
  BY Zenon DEF RingInv
<1> QED
  BY <1>1, <1>2, <1>3, PTL DEF RingSpec

-----------------------------------------------------------------------------
(* The connections of the example server *)

\* A Handler of c in a state that it can be in between two callbacks.
Good(c, h) == h \in HandlerState /\ h.client = c /\ Prepared(h)

\* Handler::send_packet leaves a handler that is prepared for every callback.
LEMMA SendPacketGood ==
  ASSUME NEW c, NEW h, Good(c, h), NEW r \in SendPacket(h)
  PROVE  Good(c, r.h) /\ r.h.conn = h.conn
BY DEF Good, HandlerState, Prepared, SendPacket, Result

\* The same for Handler::send_conn_close.
LEMMA SendConnCloseGood ==
  ASSUME NEW c, NEW h, Good(c, h), NEW r \in send_conn_close(h)
  PROVE  Good(c, r.h)
<1> DEFINE g == [h EXCEPT !.sendbuf = IF @ = "empty" THEN "close" ELSE @]
<1>1. Good(c, g)
  BY Zenon DEF Good, HandlerState, Prepared
<1> QED
  BY <1>1, SendPacketGood, Zenon DEF send_conn_close

\* The same for Handler::start_closing_period.
LEMMA StartClosingGood ==
  ASSUME NEW c, NEW h, Good(c, h), NEW r \in start_closing_period(h)
  PROVE  Good(c, r.h)
<1> DEFINE g == [h EXCEPT !.rttimer = FALSE, !.timer = TRUE, !.sendbuf = "empty"]
           f == [g EXCEPT !.conn = "closing", !.closebuf = TRUE]
<1>1. h.conn # "closing" => Good(c, g)
  BY Zenon DEF Good, HandlerState, Prepared
<1>2. g \in HandlerState /\ g.client = c /\ g.timer = TRUE /\ g.rttimer = FALSE /\ g.sendbuf = "empty"
  BY Zenon DEF Good, HandlerState
<1>3. Good(c, f)
  <2> HIDE DEF g
  <2> QED
    BY <1>2, Zenon DEF Good, HandlerState, Prepared
<1>4. \/ r = Result(h, "OK")
      \/ h.conn # "closing" /\ r = Result(g, "ERR")
      \/ r = Result(f, "OK")
  BY Zenon DEF start_closing_period
<1> HIDE DEF g, f
<1> QED
  BY <1>1, <1>3, <1>4 DEF Result

\* The same for Handler::start_draining_period.
LEMMA StartDrainingGood ==
  ASSUME NEW c, NEW h, Good(c, h)
  PROVE  Good(c, start_draining_period(h))
BY Zenon DEF Good, HandlerState, Prepared, start_draining_period

\* Handler::handle_error
LEMMA HandleErrorGood ==
  ASSUME NEW c, NEW h, Good(c, h), NEW r \in handle_error(h)
  PROVE  Good(c, r.h)
<1>1. PICK q \in start_closing_period(h) :
        r \in IF q.rv # "OK" THEN {q}
              ELSE {[s EXCEPT !.rv = IF @ = "OK" THEN "CLOSE_WAIT" ELSE @] : s \in send_conn_close(q.h)}
  BY Zenon DEF handle_error
<1>2. Good(c, q.h)
  BY StartClosingGood, Zenon
<1>3. CASE q.rv # "OK"
  BY <1>1, <1>2, <1>3, Zenon
<1>4. CASE q.rv = "OK"
  <2>1. PICK s \in send_conn_close(q.h) : r = [s EXCEPT !.rv = IF @ = "OK" THEN "CLOSE_WAIT" ELSE @]
    BY <1>1, <1>4, Zenon
  <2>2. Good(c, s.h)
    BY <1>2, SendConnCloseGood, Zenon
  <2>3. PICK g, rv : s = Result(g, rv)
    BY Zenon DEF send_conn_close, SendPacket
  <2>4. r.h = s.h
    BY <2>1, <2>3, Zenon DEF Result
  <2> QED
    BY <2>2, <2>4, Zenon
<1> QED
  BY <1>3, <1>4, Zenon

\* Handler::on_write, after sendbuf_ was flushed.
LEMMA WritePacketsGood ==
  ASSUME NEW c, NEW h, Good(c, h), h.conn # "closing", NEW r \in WritePackets(h)
  PROVE  Good(c, r.h)
<1>1. CASE r \in handle_error(h)
  BY <1>1, HandleErrorGood, Zenon
<1>2. ASSUME NEW b \in {"empty", "packet"}, NEW t \in {h.rttimer, TRUE},
             r = Result([h EXCEPT !.sendbuf = b, !.rttimer = t], "OK")
      PROVE  Good(c, r.h)
  <2>1. t \in BOOLEAN
    BY Zenon DEF Good, HandlerState
  <2> QED
    BY <1>2, <2>1, Zenon DEF Good, HandlerState, Prepared, Result
<1>3. ASSUME NEW rv \in {"SEND_NON_FATAL", "SEND_FATAL"}, r = Result([h EXCEPT !.sendbuf = "packet"], rv)
      PROVE  Good(c, r.h)
  BY <1>3, Zenon DEF Good, HandlerState, Prepared, Result
<1> QED
  BY <1>1, <1>2, <1>3 DEF WritePackets

\* Handler::on_write
LEMMA OnWriteGood ==
  ASSUME NEW c, NEW h, Good(c, h), NEW r \in handler_on_write(h)
  PROVE  Good(c, r.h)
<1>1. CASE h.conn = "closing"
  BY <1>1 DEF handler_on_write, Result
<1>2. CASE h.conn # "closing"
  <2>1. PICK q \in IF h.sendbuf = "empty" THEN {Result(h, "OK")} ELSE SendPacket(h) :
          r \in IF q.rv = "OK" THEN WritePackets(q.h) ELSE {q}
    BY <1>2, Zenon DEF handler_on_write
  <2>2. Good(c, q.h) /\ q.h.conn = h.conn
    <3>1. CASE h.sendbuf = "empty"
      BY <2>1, <3>1 DEF Result
    <3>2. CASE h.sendbuf # "empty"
      BY <2>1, <3>2, SendPacketGood, Zenon
    <3> QED
      BY <3>1, <3>2, Zenon
  <2>3. CASE q.rv = "OK"
    BY <1>2, <2>1, <2>2, <2>3, WritePacketsGood, Zenon
  <2>4. CASE q.rv # "OK"
    BY <2>1, <2>2, <2>4, Zenon
  <2> QED
    BY <2>3, <2>4, Zenon
<1> QED
  BY <1>1, <1>2, Zenon

\* Handler::on_read, which is not called in the closing period.
LEMMA OnReadGood ==
  ASSUME NEW c, NEW h, Good(c, h), h.conn # "closing", NEW r \in handler_on_read(h)
  PROVE  Good(c, r.h)
<1>1. CASE r \in handle_error(h)
  BY <1>1, HandleErrorGood
<1>2. ASSUME NEW d \in {"handshake", "post", h.conn},
             r = Result([h EXCEPT !.conn = d, !.timer = TRUE], "OK")
      PROVE  Good(c, r.h)
  <2>1. d # "closing" /\ d \in {"handshake", "post", "closing", "draining"}
    BY Zenon DEF Good, HandlerState
  <2> QED
    BY <1>2, <2>1, Zenon DEF Good, HandlerState, Prepared, Result
<1>3. CASE r = Result(start_draining_period([h EXCEPT !.conn = "draining"]), "CLOSE_WAIT")
  <2>1. Good(c, [h EXCEPT !.conn = "draining"])
    BY Zenon DEF Good, HandlerState, Prepared
  <2> QED
    BY <1>3, <2>1, StartDrainingGood, Zenon DEF Result
<1> QED
  BY <1>1, <1>2, <1>3, Zenon DEF handler_on_read

-----------------------------------------------------------------------------
\* Every Handler of the server is good.
LEMMA HandlersGood ==
  ASSUME HandlersInv, NEW i \in DOMAIN handlers
  PROVE  Good(handlers[i].client, handlers[i])
BY DEF HandlersInv, RoutesAgree, Good

\* Some Handlers change, keeping their clients, and some are removed together with
\* their entries in ctos_: Server::on_write, and with one Handler the other
\* callbacks.
LEMMA ManyInv ==
  ASSUME HandlersInv, NEW removed \in SUBSET DOMAIN handlers, NEW f,
         \A i \in DOMAIN handlers \ removed : Good(handlers[i].client, f[i]),
         handlers' = [i \in DOMAIN handlers \ removed |-> f[i]],
         ctos' = [c \in DOMAIN ctos \ {handlers[i].client : i \in removed} |-> ctos[c]],
         drawn' = drawn
  PROVE  HandlersInv'
<1>1. DOMAIN handlers' = DOMAIN handlers \ removed
  BY Zenon
<1>2. DOMAIN ctos' = DOMAIN ctos \ {handlers[i].client : i \in removed}
  BY Zenon
<1>3. \A i \in DOMAIN handlers' : handlers'[i] \in HandlerState /\ handlers'[i].client = handlers[i].client
                                   /\ Prepared(handlers'[i])
  BY <1>1, Zenon DEF Good
<1>4. handlers' \in [DOMAIN handlers' -> HandlerState]
  BY <1>1, <1>3, Zenon
<1>5. ctos' \in [DOMAIN ctos' -> ConnIds]
  BY <1>2, Zenon DEF HandlersInv
<1>6. DOMAIN handlers' \subseteq drawn' /\ drawn' \subseteq ConnIds
  BY <1>1, Zenon DEF HandlersInv
<1>7. ASSUME NEW c \in DOMAIN ctos'
      PROVE  ctos'[c] \in DOMAIN handlers' /\ handlers'[ctos'[c]].client = c
  <2>1. c \in DOMAIN ctos /\ ctos'[c] = ctos[c]
    BY <1>2, Zenon
  <2>2. ctos[c] \in DOMAIN handlers /\ handlers[ctos[c]].client = c
    BY <2>1, Zenon DEF HandlersInv, RoutesAgree
  <2>3. ctos[c] \notin removed
    BY <1>2, <2>2, Zenon
  <2> QED
    BY <1>1, <1>3, <2>1, <2>2, <2>3, Zenon
<1>8. ASSUME NEW i \in DOMAIN handlers'
      PROVE  handlers'[i].client \in DOMAIN ctos' /\ ctos'[handlers'[i].client] = i
  <2>1. i \in DOMAIN handlers /\ i \notin removed /\ handlers'[i].client = handlers[i].client
    BY <1>1, <1>3, Zenon
  <2>2. handlers[i].client \in DOMAIN ctos /\ ctos[handlers[i].client] = i
    BY <2>1, Zenon DEF HandlersInv, RoutesAgree
  <2>3. ASSUME NEW j \in removed, handlers[j].client = handlers[i].client PROVE FALSE
    <3>1. ctos[handlers[j].client] = j
      BY Zenon DEF HandlersInv, RoutesAgree
    <3> QED
      BY <2>1, <2>2, <2>3, <3>1, Zenon
  <2> QED
    BY <1>2, <2>1, <2>2, <2>3, Zenon
<1>9. RoutesAgree'
  BY <1>3, <1>7, <1>8, Zenon DEF RoutesAgree, Prepared
<1> QED
  BY <1>4, <1>5, <1>6, <1>9, Zenon DEF HandlersInv, HandlerState

\* One Handler changes.
LEMMA ChangeInv ==
  ASSUME HandlersInv, NEW i \in DOMAIN handlers, NEW g, Good(handlers[i].client, g),
         handlers' = [handlers EXCEPT ![i] = g], ctos' = ctos, drawn' = drawn
  PROVE  HandlersInv'
<1> DEFINE f == [j \in DOMAIN handlers |-> IF j = i THEN g ELSE handlers[j]]
<1>1. handlers' = [j \in DOMAIN handlers \ {} |-> f[j]]
  BY Zenon DEF HandlersInv
<1>2. ctos' = [c \in DOMAIN ctos \ {handlers[j].client : j \in {}} |-> ctos[c]]
  BY Zenon DEF HandlersInv
<1>3. \A j \in DOMAIN handlers \ {} : Good(handlers[j].client, f[j])
  BY HandlersGood, Zenon
<1> HIDE DEF f
<1> QED
  BY <1>1, <1>2, <1>3, ManyInv, Zenon

\* Server::remove
LEMMA RemoveInv ==
  ASSUME HandlersInv, NEW i \in DOMAIN handlers, remove(i), drawn' = drawn
  PROVE  HandlersInv'
<1>1. handlers' = [j \in DOMAIN handlers \ {i} |-> handlers[j]]
  BY Zenon DEF remove
<1>2. ctos' = [c \in DOMAIN ctos \ {handlers[j].client : j \in {i}} |-> ctos[c]]
  BY Zenon DEF remove
<1>3. \A j \in DOMAIN handlers \ {i} : Good(handlers[j].client, handlers[j])
  BY HandlersGood, Zenon
<1> QED
  BY <1>1, <1>2, <1>3, ManyInv, Zenon

\* What is done after Handler::on_write.
LEMMA WrittenInv ==
  ASSUME HandlersInv, NEW i \in DOMAIN handlers, NEW r, Good(handlers[i].client, r.h),
         Written(i, r), drawn' = drawn
  PROVE  HandlersInv'
BY ChangeInv, RemoveInv DEF Written

\* Server::on_read for an unknown connection id.
LEMMA RecvNewInv ==
  ASSUME HandlersInv, NEW c \in Clients, NEW i \in ConnIds, RecvNew(c, i)
  PROVE  HandlersInv'
<1>1. drawn' = drawn \cup {i} /\ i \notin drawn /\ c \notin DOMAIN ctos
  BY Zenon DEF RecvNew
<1>2. CASE UNCHANGED <<handlers, ctos>>
  BY <1>1, <1>2, Zenon DEF HandlersInv, RoutesAgree, HandlerState
<1>3. ASSUME NEW h, Good(c, h),
             handlers' = [j \in DOMAIN handlers \cup {i} |-> IF j = i THEN h ELSE handlers[j]],
             ctos' = [d \in DOMAIN ctos \cup {c} |-> IF d = c THEN i ELSE ctos[d]]
      PROVE  HandlersInv'
  <2>1. DOMAIN handlers' = DOMAIN handlers \cup {i} /\ DOMAIN ctos' = DOMAIN ctos \cup {c}
    BY <1>3, Zenon
  <2>2. i \notin DOMAIN handlers
    BY <1>1, Zenon DEF HandlersInv
  <2>3. handlers'[i] = h /\ \A j \in DOMAIN handlers : handlers'[j] = handlers[j]
    BY <1>3, <2>2, Zenon
  <2>4. ctos'[c] = i /\ \A d \in DOMAIN ctos : ctos'[d] = ctos[d]
    BY <1>1, <1>3, Zenon
  <2>5. handlers' \in [DOMAIN handlers' -> HandlerState]
    BY <1>3, <2>1, Zenon DEF HandlersInv, Good
  <2>6. ctos' \in [DOMAIN ctos' -> ConnIds]
    BY <1>3, <2>1, Zenon DEF HandlersInv
  <2>7. DOMAIN handlers' \subseteq drawn' /\ drawn' \subseteq ConnIds
    BY <1>1, <2>1, Zenon DEF HandlersInv
  <2>8. \A d \in DOMAIN ctos' : ctos'[d] \in DOMAIN handlers' /\ handlers'[ctos'[d]].client = d
    BY <1>3, <2>1, <2>3, <2>4, Zenon DEF HandlersInv, RoutesAgree, Good
  <2>9. \A j \in DOMAIN handlers' : handlers'[j].client \in DOMAIN ctos' /\ ctos'[handlers'[j].client] = j
    BY <1>3, <2>1, <2>3, <2>4, Zenon DEF HandlersInv, RoutesAgree, Good
  <2>10. \A j \in DOMAIN handlers' : Prepared(handlers'[j])
    BY <1>3, <2>1, <2>3, Zenon DEF HandlersInv, RoutesAgree, Good
  <2>11. RoutesAgree'
    BY <2>8, <2>9, <2>10, Zenon DEF RoutesAgree, Prepared
  <2> QED
    BY <2>5, <2>6, <2>7, <2>11, Zenon DEF HandlersInv, HandlerState
<1>4. Good(c, Handler(c)) /\ Handler(c).conn # "closing"
  BY Zenon DEF Good, Handler, HandlerState, Prepared
<1>5. CASE ~UNCHANGED <<handlers, ctos>>
  <2>1. PICK r \in handler_on_read(Handler(c)) :
          \E w \in handler_on_write(r.h) :
            /\ handlers' = [j \in DOMAIN handlers \cup {i} |-> IF j = i THEN w.h ELSE handlers[j]]
            /\ ctos' = [d \in DOMAIN ctos \cup {c} |-> IF d = c THEN i ELSE ctos[d]]
    BY <1>5, Zenon DEF RecvNew
  <2>2. Good(c, r.h)
    BY <1>4, OnReadGood, Zenon
  <2> QED
    BY <1>3, <2>1, <2>2, OnWriteGood, Zenon
<1> QED
  BY <1>2, <1>5, Zenon

\* Server::on_read for a Handler.
LEMMA RecvKnownInv ==
  ASSUME HandlersInv, NEW i \in DOMAIN handlers, RecvKnown(i)
  PROVE  HandlersInv'
<1> DEFINE h == handlers[i]
<1>1. drawn' = drawn /\ Good(h.client, h)
  BY HandlersGood, Zenon DEF RecvKnown
<1>2. ASSUME h.conn = "closing" PROVE HandlersInv'
  <2>1. PICK r \in send_conn_close(h) :
          \/ remove(i)
          \/ handlers' = [handlers EXCEPT ![i] = r.h] /\ UNCHANGED ctos
    BY <1>2, Zenon DEF RecvKnown
  <2>2. Good(h.client, r.h)
    BY <1>1, SendConnCloseGood, Zenon
  <2> QED
    BY <1>1, <2>1, <2>2, ChangeInv, RemoveInv, Zenon
<1>3. ASSUME h.conn # "closing", h.draining PROVE HandlersInv'
  BY <1>1, <1>3 DEF RecvKnown, HandlersInv, RoutesAgree, Prepared, HandlerState
<1>4. ASSUME h.conn # "closing", ~h.draining PROVE HandlersInv'
  <2>1. PICK r \in handler_on_read(h) :
          \/ \E w \in handler_on_write(r.h) : Written(i, w)
          \/ handlers' = [handlers EXCEPT ![i] = r.h] /\ UNCHANGED ctos
          \/ remove(i)
    BY <1>4, Zenon DEF RecvKnown
  <2>2. Good(h.client, r.h)
    BY <1>1, <1>4, OnReadGood, Zenon
  <2>3. ASSUME NEW w \in handler_on_write(r.h), Written(i, w) PROVE HandlersInv'
    BY <1>1, <2>2, <2>3, OnWriteGood, WrittenInv, Zenon
  <2> QED
    BY <1>1, <2>1, <2>2, <2>3, ChangeInv, RemoveInv, Zenon
<1> QED
  BY <1>2, <1>3, <1>4, Zenon

\* timeoutcb and retransmitcb
LEMMA TimersInv ==
  ASSUME HandlersInv, NEW i \in DOMAIN handlers, timeoutcb(i) \/ retransmitcb(i)
  PROVE  HandlersInv'
<1>1. Good(handlers[i].client, handlers[i])
  BY HandlersGood, Zenon
<1>2. CASE timeoutcb(i)
  <2>1. Good(handlers[i].client, start_draining_period(handlers[i]))
    BY <1>1, StartDrainingGood, Zenon
  <2>2. \/ remove(i)
        \/ handlers' = [handlers EXCEPT ![i] = start_draining_period(handlers[i])] /\ ctos' = ctos
    BY <1>2, Zenon DEF timeoutcb
  <2>3. drawn' = drawn
    BY <1>2, Zenon DEF timeoutcb
  <2> QED
    BY <2>1, <2>2, <2>3, ChangeInv, RemoveInv, Zenon
<1>3. CASE retransmitcb(i)
  <2>1. Good(handlers[i].client, [handlers[i] EXCEPT !.rttimer = FALSE])
    BY <1>1, Zenon DEF Good, HandlerState, Prepared
  <2>2. PICK w \in handler_on_write([handlers[i] EXCEPT !.rttimer = FALSE]) : Written(i, w)
    BY <1>3, Zenon DEF retransmitcb
  <2>3. drawn' = drawn
    BY <1>3, Zenon DEF retransmitcb
  <2>4. Good(handlers[i].client, w.h)
    BY <2>1, OnWriteGood, Zenon
  <2> QED
    BY <2>2, <2>3, <2>4, WrittenInv, Zenon
<1> QED
  BY <1>2, <1>3, Zenon

\* swritecb
LEMMA WritableInv ==
  ASSUME HandlersInv, ServerWritable
  PROVE  HandlersInv'
<1>1. PICK w :
        /\ \A i \in DOMAIN handlers : w[i] \in handler_on_write(handlers[i])
        /\ LET refused == {i \in DOMAIN handlers : w[i].rv = "SEND_NON_FATAL"}
               called  == {i \in DOMAIN handlers : \A j \in refused : i <= j}
               removed == {i \in called : w[i].rv \notin {"OK", "CLOSE_WAIT", "SEND_NON_FATAL"}}
           IN  /\ handlers' = [i \in DOMAIN handlers \ removed |->
                                 IF i \in called THEN w[i].h ELSE handlers[i]]
               /\ ctos' = [c \in DOMAIN ctos \ {handlers[i].client : i \in removed} |-> ctos[c]]
  BY Zenon DEF ServerWritable
<1> DEFINE refused == {i \in DOMAIN handlers : w[i].rv = "SEND_NON_FATAL"}
           called  == {i \in DOMAIN handlers : \A j \in refused : i <= j}
           removed == {i \in called : w[i].rv \notin {"OK", "CLOSE_WAIT", "SEND_NON_FATAL"}}
           f == [i \in DOMAIN handlers |-> IF i \in called THEN w[i].h ELSE handlers[i]]
<1>2. handlers' = [i \in DOMAIN handlers \ removed |-> IF i \in called THEN w[i].h ELSE handlers[i]]
  BY <1>1, Zenon
<1>3. ctos' = [c \in DOMAIN ctos \ {handlers[i].client : i \in removed} |-> ctos[c]]
  BY <1>1, Zenon
<1>4. removed \in SUBSET DOMAIN handlers
  BY Zenon
<1>5. drawn' = drawn
  BY Zenon DEF ServerWritable
<1> HIDE DEF removed, called
<1>6. handlers' = [i \in DOMAIN handlers \ removed |-> f[i]]
  BY <1>2, <1>4, Zenon
<1>7. ASSUME NEW i \in DOMAIN handlers PROVE Good(handlers[i].client, f[i])
  <2>1. Good(handlers[i].client, handlers[i])
    BY HandlersGood, Zenon
  <2>2. Good(handlers[i].client, w[i].h)
    BY <1>1, <2>1, OnWriteGood, Zenon
  <2> QED
    BY <2>1, <2>2, Zenon
<1> HIDE DEF f
<1> QED
  BY <1>3, <1>4, <1>5, <1>6, <1>7, ManyInv, Zenon

\* The inductive invariant of the server.
THEOREM HandlersInvariant == ServerSpec => []HandlersInv
<1>1. ServerInit => HandlersInv
  BY DEF ServerInit, HandlersInv, RoutesAgree
<1>2. HandlersInv /\ [ServerLoop]_server_vars => HandlersInv'
  <2> SUFFICES ASSUME HandlersInv, [ServerLoop]_server_vars PROVE HandlersInv'
    OBVIOUS
  <2>1. CASE UNCHANGED server_vars
    BY <2>1, Zenon DEF server_vars, HandlersInv, RoutesAgree, Prepared, HandlerState
  <2>2. ASSUME NEW c \in Clients, RecvForwarded(c) PROVE HandlersInv'
    <3>1. ctos[c] \in DOMAIN handlers
      BY <2>2, Zenon DEF RecvForwarded, HandlersInv, RoutesAgree
    <3> QED
      BY <2>2, <3>1, RecvKnownInv, Zenon DEF RecvForwarded
  <2>3. ASSUME NEW c \in Clients, NEW i \in ConnIds, RecvNew(c, i) PROVE HandlersInv'
    BY <2>3, RecvNewInv, Zenon
  <2>4. ASSUME NEW i \in DOMAIN handlers, RecvKnown(i) PROVE HandlersInv'
    BY <2>4, RecvKnownInv, Zenon
  <2>5. ASSUME NEW i \in DOMAIN handlers, timeoutcb(i) \/ retransmitcb(i) PROVE HandlersInv'
    BY <2>5, TimersInv, Zenon
  <2>6. CASE ServerWritable
    BY <2>6, WritableInv, Zenon
  <2>7. CASE ServerDisconnect
    BY <2>7 DEF ServerDisconnect, HandlersInv, RoutesAgree
  <2> QED
    BY <2>1, <2>2, <2>3, <2>4, <2>5, <2>6, <2>7, Zenon DEF ServerLoop
<1> QED
  BY <1>1, <1>2, PTL DEF ServerSpec

\* For any number of clients, and whatever fails: the maps handlers_ and ctos_
\* agree, every Handler has a running timer, and one in the closing period has
\* its CONNECTION_CLOSE to repeat and sends nothing else.
THEOREM PacketsFindTheirHandler == ServerSpec => []RoutesAgree
<1>1. HandlersInv => RoutesAgree
  BY Zenon DEF HandlersInv
<1> QED
  BY <1>1, HandlersInvariant, PTL
=============================================================================
