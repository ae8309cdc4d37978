------------------------- MODULE FlowControlProofs -------------------------
(***************************************************************************)
(* Proofs about FlowControl, for any number of streams, any settings and   *)
(* any width of the limits: the windows are accounted for to the last byte *)
(* and, where the server keeps the limits that the client remembers, the   *)
(* sender is never accused of having violated them.                        *)
(***************************************************************************)
EXTENDS FlowControl, FiniteSetTheorems, TLAPS

-----------------------------------------------------------------------------
(* The operators of the model *)

\* The greater and the smaller of two numbers (ngtcp2_max, ngtcp2_min).
LEMMA MaxOfTwo ==
  ASSUME NEW a \in Int, NEW b \in Int
  PROVE  Max({a, b}) = IF a >= b THEN a ELSE b
<1> DEFINE m == IF a >= b THEN a ELSE b
<1>1. m \in {a, b} /\ \A y \in {a, b} : m >= y
  OBVIOUS
<1>2. \A x \in {a, b} : (\A y \in {a, b} : x >= y) => x = m
  OBVIOUS
<1> HIDE DEF m
<1>3. Max({a, b}) = m
  BY <1>1, <1>2, Zenon DEF Max
<1> QED BY <1>3, Zenon DEF m

\* The least of two numbers, as NGTCP2_MAX_VARINT caps the connection limit.
LEMMA MinOfTwo ==
  ASSUME NEW a \in Int, NEW b \in Int
  PROVE  Min({a, b}) = IF a <= b THEN a ELSE b
<1> DEFINE m == IF a <= b THEN a ELSE b
<1>1. m \in {a, b} /\ \A y \in {a, b} : m <= y
  OBVIOUS
<1>2. \A x \in {a, b} : (\A y \in {a, b} : x <= y) => x = m
  OBVIOUS
<1> HIDE DEF m
<1>3. Min({a, b}) = m
  BY <1>1, <1>2, Zenon DEF Min
<1> QED BY <1>3, Zenon DEF m

\* A non-empty set of naturals has a least element, which is its Min.
LEMMA MinOfNats ==
  ASSUME NEW S \in SUBSET Nat, S # {}
  PROVE  Min(S) \in S /\ \A x \in S : Min(S) <= x
<1>1. IsWellFoundedOn(OpToRel(<, Nat), Nat)
  BY NatLessThanWellFounded, Zenon
<1>2. PICK b \in S : \A x \in S : ~(<<x, b>> \in OpToRel(<, Nat))
  BY <1>1, WFMin, Zenon
<1>3. ASSUME NEW x \in S PROVE b <= x
  <2>1. ~(x < b) BY <1>2, Zenon DEF OpToRel
  <2> QED BY <2>1
<1> QED BY <1>2, <1>3, Zenon DEF Min

\* ngtcp2_strm_rx_offset is the first byte that has not arrived.
LEMMA RxOffsetFacts ==
  ASSUME NEW b \in SUBSET (0 .. Total - 1)
  PROVE  /\ RxOffset(b) \in 0 .. Total /\ RxOffset(b) \notin b
         /\ \A i \in 0 .. RxOffset(b) - 1 : i \in b
<1> DEFINE S == (0 .. Total) \ b
<1>1. S \in SUBSET Nat /\ Total \in S
  BY FlowAssumption
<1>2. RxOffset(b) \in S /\ \A x \in S : RxOffset(b) <= x
  BY <1>1, MinOfNats, Zenon DEF RxOffset
<1>3. ASSUME NEW i \in 0 .. RxOffset(b) - 1 PROVE i \in b
  <2>1. i \in 0 .. Total BY <1>2, FlowAssumption
  <2> QED BY <1>2, <2>1
<1> QED BY <1>2, <1>3, Zenon

\* It grows with the bytes that have arrived.
LEMMA RxOffsetGrows ==
  ASSUME NEW b \in SUBSET (0 .. Total - 1), NEW c \in SUBSET (0 .. Total - 1), b \subseteq c
  PROVE  RxOffset(b) <= RxOffset(c)
<1>1. /\ RxOffset(b) \in Int /\ RxOffset(c) \in Int /\ 0 <= RxOffset(c)
      /\ RxOffset(c) \notin b
  BY RxOffsetFacts, FlowAssumption
<1> QED BY <1>1, RxOffsetFacts

\* The sum of some offsets is a number of bytes.
LEMMA SumIsNat ==
  ASSUME NEW f
  PROVE  IsFiniteSet(BytesBelow(f)) /\ SumOver(f) \in Nat
<1>1. IsFiniteSet(0 .. Total - 1)
  BY FS_Interval, FlowAssumption
<1>2. IsFiniteSet(Streams \X (0 .. Total - 1))
  BY <1>1, FS_Product, FlowAssumption, Zenon
<1>3. BytesBelow(f) \in SUBSET (Streams \X (0 .. Total - 1))
  BY Zenon DEF BytesBelow
<1>4. IsFiniteSet(BytesBelow(f))
  BY <1>2, <1>3, FS_Subset, Zenon
<1> QED BY <1>4, FS_CardinalityType, Zenon DEF SumOver

\* Raising one offset raises the sum by as much.
LEMMA SumRaise ==
  ASSUME NEW f \in [Streams -> 0 .. Total], NEW s \in Streams, NEW v \in f[s] .. Total
  PROVE  SumOver([f EXCEPT ![s] = v]) = SumOver(f) + (v - f[s])
<1> DEFINE g == [f EXCEPT ![s] = v]
           N == {s} \X (f[s] .. v - 1)
<1>1. f[s] \in Nat /\ v \in Nat /\ f[s] <= v /\ v <= Total /\ Total \in Nat
  BY FlowAssumption
<1>2. BytesBelow(g) = BytesBelow(f) \cup N
  <2>1. ASSUME NEW b \in BytesBelow(g) PROVE b \in BytesBelow(f) \cup N
    BY <1>1, <2>1, FlowAssumption DEF BytesBelow
  <2>2. ASSUME NEW b \in BytesBelow(f) PROVE b \in BytesBelow(g)
    BY <1>1, <2>2, FlowAssumption DEF BytesBelow
  <2>3. ASSUME NEW b \in N PROVE b \in BytesBelow(g)
    BY <1>1, <2>3, FlowAssumption DEF BytesBelow
  <2> QED BY <2>1, <2>2, <2>3, Zenon
<1>3. BytesBelow(f) \cap N = {}
  BY <1>1, FlowAssumption DEF BytesBelow
<1>4. IsFiniteSet(f[s] .. v - 1) /\ Cardinality(f[s] .. v - 1) = v - f[s]
  <2>1. f[s] \in Int /\ v - 1 \in Int
    BY <1>1
  <2>2. /\ IsFiniteSet(f[s] .. v - 1)
        /\ Cardinality(f[s] .. v - 1) = IF f[s] > v - 1 THEN 0 ELSE v - 1 - f[s] + 1
    BY <2>1, FS_Interval, Zenon
  <2> QED BY <1>1, <2>2
<1>5. IsFiniteSet(N) /\ Cardinality(N) = v - f[s]
  <2>1. IsFiniteSet({s}) /\ Cardinality({s}) = 1
    BY FS_Singleton, Zenon
  <2>2. IsFiniteSet(N) /\ Cardinality(N) = 1 * (v - f[s])
    BY <1>4, <2>1, FS_Product
  <2> QED BY <1>1, <2>2
<1>6. Cardinality(BytesBelow(f) \cup N) = Cardinality(BytesBelow(f)) + Cardinality(N) - Cardinality({})
  BY <1>3, <1>5, SumIsNat, FS_Union
<1>7. Cardinality(BytesBelow(f)) \in Nat /\ Cardinality({}) = 0
  BY SumIsNat, FS_EmptySet, Zenon DEF SumOver
<1> HIDE DEF g, N
<1>8. Cardinality(BytesBelow(g)) = Cardinality(BytesBelow(f)) + (v - f[s])
  BY <1>1, <1>2, <1>5, <1>6, <1>7
<1> QED BY <1>8, Zenon DEF SumOver, g

\* Greater offsets have a greater sum.
LEMMA SumMonotone ==
  ASSUME NEW f \in [Streams -> 0 .. Total], NEW g \in [Streams -> 0 .. Total],
         \A s \in Streams : f[s] <= g[s]
  PROVE  SumOver(f) <= SumOver(g)
<1>1. BytesBelow(f) \in SUBSET BytesBelow(g)
  BY FlowAssumption DEF BytesBelow
<1> QED BY <1>1, SumIsNat, FS_Subset, Zenon DEF SumOver

-----------------------------------------------------------------------------
(* The inductive invariant *)

FlowTypes ==
  /\ params \in BOOLEAN /\ err \in BOOLEAN
  /\ opened \subseteq Streams /\ fc_strms \subseteq Streams
  /\ tx_offset \in [Streams -> 0 .. Total] /\ last_rx_offset \in [Streams -> 0 .. Total]
  /\ max_tx_offset \in [Streams -> Nat]
  /\ rx \in [Streams -> SUBSET (0 .. Total - 1)]
  /\ shut \in [Streams -> SUBSET {"SHUT_RD", "STOP_SENDING"}]
  /\ credit \in [Streams -> Nat] /\ conn_credit \in Nat
  /\ max_rx_offset \in [Streams -> Nat] /\ unsent_max_rx_offset \in [Streams -> Nat]
  /\ conn_tx_offset \in Nat /\ conn_max_tx_offset \in Nat /\ conn_rx_offset \in Nat
  /\ conn_max_rx_offset \in Nat /\ conn_unsent_max_rx_offset \in Nat
  /\ sent_max \in [Streams -> SUBSET Nat] /\ conn_sent_max \subseteq Nat

\* A stream counts what was sent, has not given the application more than is
\* in order, and grants its window on top of what was returned.
StreamAccount(s) ==
  /\ last_rx_offset[s] <= tx_offset[s] /\ last_rx_offset[s] <= max_rx_offset[s]
  /\ rx[s] \subseteq 0 .. last_rx_offset[s] - 1
  /\ credit[s] <= RxOffset(rx[s])
  /\ max_rx_offset[s] <= unsent_max_rx_offset[s]
  /\ unsent_max_rx_offset[s] <= MAX_VARINT
  /\ unsent_max_rx_offset[s] <= MaxStreamData + (RxOffset(rx[s]) - credit[s])

\* So does the connection, for all its streams.
ConnAccount ==
  /\ conn_tx_offset = SumOver(tx_offset)
  /\ conn_rx_offset = SumOver(last_rx_offset)
  /\ conn_rx_offset <= conn_max_rx_offset
  /\ conn_max_rx_offset <= conn_unsent_max_rx_offset
  /\ conn_unsent_max_rx_offset = Min({MAX_VARINT, MaxData - conn_credit + SumOver(InOrder)})

AccountInv == FlowTypes /\ (\A s \in Streams : StreamAccount(s)) /\ ConnAccount

\* A server that takes 0-RTT data keeps the limits that the client remembers.
RememberedLimitsKept == EarlyData <= MaxData /\ EarlyStreamData <= MaxStreamData

\* The limits that the sender knows are limits that the receiver has granted,
\* and the sender has kept to them; so are the ones under way to it.
LimitInv ==
  /\ ~err
  /\ conn_tx_offset <= conn_max_tx_offset /\ conn_max_tx_offset <= conn_max_rx_offset
  /\ MaxData <= conn_max_rx_offset
  /\ ~params => conn_max_tx_offset = EarlyData
  /\ \A m \in conn_sent_max : m <= conn_max_rx_offset
  /\ \A s \in Streams :
        /\ tx_offset[s] <= max_tx_offset[s] /\ max_tx_offset[s] <= max_rx_offset[s]
        /\ MaxStreamData <= max_rx_offset[s]
        /\ s \notin opened => tx_offset[s] = 0
        /\ \A m \in sent_max[s] : m <= max_rx_offset[s]

-----------------------------------------------------------------------------
(* The accounts *)

\* At the start nothing was sent, granted or consumed.
LEMMA AccountInit == Init => AccountInv
<1> SUFFICES ASSUME Init PROVE AccountInv
  BY Zenon
<1> USE FlowAssumption
<1>1. FlowTypes
  <2>1. /\ params \in BOOLEAN /\ err \in BOOLEAN
        /\ opened \subseteq Streams /\ fc_strms \subseteq Streams
        /\ rx \in [Streams -> SUBSET (0 .. Total - 1)]
        /\ shut \in [Streams -> SUBSET {"SHUT_RD", "STOP_SENDING"}]
        /\ sent_max \in [Streams -> SUBSET Nat] /\ conn_sent_max \subseteq Nat
    BY Zenon DEF Init
  <2>2. Zero \in [Streams -> 0 .. Total] /\ Zero \in [Streams -> Nat]
    BY DEF Zero
  <2> QED BY <2>1, <2>2, Zenon DEF Init, FlowTypes
<1>2. RxOffset({}) = 0
  <2>1. {} \in SUBSET (0 .. Total - 1)
    BY Zenon
  <2>2. RxOffset({}) \in 0 .. Total /\ \A i \in 0 .. RxOffset({}) - 1 : i \in {}
    BY <2>1, RxOffsetFacts, Zenon
  <2> QED BY <2>2
<1>3. \A s \in Streams : StreamAccount(s)
  BY <1>2 DEF Init, StreamAccount, Zero
<1>4. SumOver(Zero) = 0
  <2>1. BytesBelow(Zero) = {}
    BY DEF BytesBelow, Zero
  <2> QED BY <2>1, FS_EmptySet, Zenon DEF SumOver
<1>5. InOrder = Zero
  BY <1>2, Zenon DEF Init, InOrder, Zero
<1>6. Min({MAX_VARINT, MaxData}) = MaxData
  BY MinOfTwo
<1>7. ConnAccount
  <2>1. MaxData - 0 + 0 = MaxData
    OBVIOUS
  <2> QED BY <1>4, <1>5, <1>6, <2>1 DEF Init, ConnAccount
<1> QED BY <1>1, <1>3, <1>7, Zenon DEF AccountInv

\* What the receiver knows is its own: the accounts are not touched by the
\* steps of the sender that send nothing.
LEMMA AccountKept ==
  ASSUME AccountInv, FlowTypes',
         UNCHANGED <<tx_offset, conn_tx_offset, rxVars, limits, app>>
  PROVE  AccountInv'
<1>1. ASSUME NEW s \in Streams PROVE StreamAccount(s)'
  BY Zenon DEF AccountInv, StreamAccount, rxVars, limits, app
<1>2. InOrder' = InOrder
  BY Zenon DEF InOrder, rxVars
<1>3. SumOver(tx_offset)' = SumOver(tx_offset) /\ SumOver(last_rx_offset)' = SumOver(last_rx_offset)
      /\ SumOver(InOrder)' = SumOver(InOrder)
  BY <1>2, Zenon DEF SumOver, BytesBelow, rxVars
<1>4. ConnAccount'
  BY <1>3, Zenon DEF AccountInv, ConnAccount, rxVars, limits, app
<1> QED BY <1>1, <1>4, Zenon DEF AccountInv

\* ngtcp2_conn_write_stream: one more byte is counted at the sender.
LEMMA AccountWriteStream ==
  ASSUME AccountInv, NEW s \in Streams, ngtcp2_conn_write_stream(s)
  PROVE  AccountInv'
<1> USE FlowAssumption
<1>1. FlowTypes
  BY Zenon DEF AccountInv
<1>2. /\ tx_offset[s] \in 0 .. Total /\ tx_offset[s] < Total
      /\ tx_offset' = [tx_offset EXCEPT ![s] = tx_offset[s] + 1]
      /\ conn_tx_offset' = conn_tx_offset + 1
      /\ UNCHANGED <<rxVars, limits, app>>
  BY <1>1, Zenon DEF FlowTypes, ngtcp2_conn_write_stream
<1>3. FlowTypes'
  BY <1>1, <1>2 DEF FlowTypes, ngtcp2_conn_write_stream, rxVars, limits, app, frames
<1>4. ASSUME NEW r \in Streams PROVE StreamAccount(r)'
  BY <1>1, <1>2 DEF AccountInv, StreamAccount, FlowTypes, rxVars, limits, app
<1>5. SumOver(tx_offset') = SumOver(tx_offset) + 1
  <2> DEFINE v == tx_offset[s] + 1
  <2>1. v \in tx_offset[s] .. Total /\ v - tx_offset[s] = 1
    BY <1>2
  <2>2. tx_offset \in [Streams -> 0 .. Total] /\ tx_offset' = [tx_offset EXCEPT ![s] = v]
    BY <1>1, <1>2, Zenon DEF FlowTypes
  <2> HIDE DEF v
  <2> QED BY <2>1, <2>2, SumRaise, Zenon
<1>6. conn_tx_offset' = SumOver(tx_offset')
  BY <1>2, <1>5, SumIsNat, Zenon DEF AccountInv, ConnAccount
<1>7. InOrder' = InOrder /\ last_rx_offset' = last_rx_offset
  BY <1>2, Zenon DEF InOrder, rxVars
<1>8. ConnAccount'
  BY <1>2, <1>6, <1>7, Zenon DEF AccountInv, ConnAccount, rxVars, limits, app, SumOver, BytesBelow
<1> QED BY <1>3, <1>4, <1>8, Zenon DEF AccountInv

\* A byte that arrives is counted, and given to the application, once.
LEMMA AccountRecvStream ==
  ASSUME AccountInv, NEW s \in Streams, NEW i \in 0 .. tx_offset[s] - 1, conn_recv_stream(s, i)
  PROVE  AccountInv'
<1> USE FlowAssumption
<1> DEFINE datalen == NewBytes(s, i + 1)
           violated == \/ max_rx_offset[s] < i + 1
                       \/ datalen > 0 /\ conn_max_data_violated(datalen)
<1>1. FlowTypes /\ StreamAccount(s) /\ ConnAccount
  BY Zenon DEF AccountInv
<1>2. /\ tx_offset[s] \in 0 .. Total /\ last_rx_offset[s] \in 0 .. Total
      /\ i \in Nat /\ i < tx_offset[s] /\ i < Total
  BY <1>1 DEF FlowTypes
<1>3. /\ datalen = Max({0, i + 1 - last_rx_offset[s]})
      /\ Max({0, i + 1 - last_rx_offset[s]}) =
           IF 0 >= i + 1 - last_rx_offset[s] THEN 0 ELSE i + 1 - last_rx_offset[s]
      /\ Max({last_rx_offset[s], i + 1}) =
           IF last_rx_offset[s] >= i + 1 THEN last_rx_offset[s] ELSE i + 1
  BY <1>2, MaxOfTwo DEF NewBytes
<1>4. CASE violated
  <2>1. err' = TRUE /\ UNCHANGED <<rxVars, app, fc_strms, sender, frames, max_rx_offset,
            unsent_max_rx_offset, conn_max_rx_offset, conn_unsent_max_rx_offset>>
    BY <1>4, Zenon DEF conn_recv_stream
  <2>2. FlowTypes'
    BY <1>1, <2>1, Zenon DEF FlowTypes, rxVars, app, sender, frames
  <2> QED BY <2>1, <2>2, AccountKept, Zenon DEF rxVars, app, sender, limits
<1>5. CASE ~violated
  <2> DEFINE last == IF last_rx_offset[s] >= i + 1 THEN last_rx_offset[s] ELSE i + 1
             got == IF "STOP_SENDING" \in shut[s] THEN rx[s] ELSE rx[s] \cup {i}
             given == RxOffset(got) - RxOffset(rx[s])
  <2>1. /\ err' = FALSE
        /\ rx' = [rx EXCEPT ![s] = got]
        /\ last_rx_offset' = [last_rx_offset EXCEPT ![s] = last]
        /\ conn_rx_offset' = conn_rx_offset + datalen
        /\ credit' = [credit EXCEPT ![s] = credit[s] + Given(s, i)]
        /\ conn_credit' = conn_credit + Given(s, i)
        /\ shut' = [shut EXCEPT ![s] = IF i + 1 = Total THEN shut[s] \cup {"SHUT_RD"} ELSE shut[s]]
        /\ fc_strms' = IF i + 1 = Total THEN fc_strms \ {s} ELSE fc_strms
        /\ UNCHANGED <<sender, frames, max_rx_offset, unsent_max_rx_offset,
                       conn_max_rx_offset, conn_unsent_max_rx_offset>>
    BY <1>1, <1>3, <1>5, Zenon DEF conn_recv_stream, FlowTypes
  <2>2. /\ rx[s] \in SUBSET (0 .. Total - 1) /\ got \in SUBSET (0 .. Total - 1)
        /\ rx[s] \subseteq got
    BY <1>1, <1>2 DEF FlowTypes
  <2>3. /\ RxOffset(rx[s]) \in 0 .. Total /\ RxOffset(got) \in 0 .. Total
        /\ RxOffset(rx[s]) <= RxOffset(got)
    BY <2>2, RxOffsetFacts, RxOffsetGrows, Zenon
  <2>4. Given(s, i) = given /\ given \in Nat
    BY <2>3 DEF Given
  <2>5. /\ last \in last_rx_offset[s] .. Total /\ last - last_rx_offset[s] = datalen
        /\ last <= tx_offset[s] /\ i + 1 <= last /\ datalen \in Nat
    <3>1. last_rx_offset[s] <= tx_offset[s]
      BY <1>1, Zenon DEF StreamAccount
    <3> QED BY <1>2, <1>3, <3>1
  <2> HIDE DEF last, got, given, datalen
  <2>6. FlowTypes'
    <3>1. /\ rx' \in [Streams -> SUBSET (0 .. Total - 1)]
          /\ shut' \in [Streams -> SUBSET {"SHUT_RD", "STOP_SENDING"}]
          /\ fc_strms' \subseteq Streams
      BY <1>1, <2>1, <2>2, Zenon DEF FlowTypes
    <3>2. /\ last_rx_offset' \in [Streams -> 0 .. Total] /\ conn_rx_offset' \in Nat
      <4>1. last \in 0 .. Total
        BY <1>2, <2>5
      <4> QED BY <1>1, <2>1, <2>5, <4>1 DEF FlowTypes
    <3>3. credit' \in [Streams -> Nat] /\ conn_credit' \in Nat
      BY <1>1, <2>1, <2>4 DEF FlowTypes
    <3> QED BY <1>1, <2>1, <3>1, <3>2, <3>3, Zenon DEF FlowTypes, sender, frames
  <2>7. ASSUME NEW r \in Streams PROVE StreamAccount(r)'
    <3>1. CASE r # s
      <4>1. StreamAccount(r)
        BY Zenon DEF AccountInv
      <4> QED BY <1>1, <2>1, <3>1, <4>1, Zenon DEF StreamAccount, FlowTypes, sender
    <3>2. CASE r = s
      <4>1. /\ rx'[s] = got /\ last_rx_offset'[s] = last /\ credit'[s] = credit[s] + given
            /\ credit[s] \in Nat /\ unsent_max_rx_offset[s] \in Nat
            /\ max_rx_offset[s] \in Nat
        BY <1>1, <2>1, <2>4, Zenon DEF FlowTypes
      <4>2. got \subseteq 0 .. last - 1
        <5>1. rx[s] \subseteq 0 .. last_rx_offset[s] - 1
          BY <1>1, Zenon DEF StreamAccount
        <5> QED BY <1>2, <2>5, <5>1 DEF got
      <4>0. /\ last_rx_offset[s] <= max_rx_offset[s] /\ credit[s] <= RxOffset(rx[s])
            /\ unsent_max_rx_offset[s] <= MaxStreamData + (RxOffset(rx[s]) - credit[s])
        BY <1>1, Zenon DEF StreamAccount
      <4>3. last <= max_rx_offset[s]
        BY <1>2, <1>5, <4>0, <4>1 DEF last
      <4>4. credit'[s] <= RxOffset(rx'[s])
        BY <2>3, <4>0, <4>1 DEF given
      <4>5. unsent_max_rx_offset[s] <= MaxStreamData + (RxOffset(rx'[s]) - credit'[s])
        BY <2>3, <4>0, <4>1 DEF given
      <4> QED
        BY <1>1, <2>1, <2>5, <3>2, <4>1, <4>2, <4>3, <4>4, <4>5, Zenon DEF StreamAccount, sender
    <3> QED BY <3>1, <3>2, Zenon
  <2>8. SumOver(last_rx_offset') = SumOver(last_rx_offset) + (last - last_rx_offset[s])
    BY <1>1, <2>1, <2>5, SumRaise, Zenon DEF FlowTypes
  <2>9. SumOver(InOrder') = SumOver(InOrder) + given
    <3>1. InOrder' = [InOrder EXCEPT ![s] = RxOffset(got)]
      BY <1>1, <2>1, Zenon DEF InOrder, FlowTypes
    <3>2. InOrder \in [Streams -> 0 .. Total] /\ InOrder[s] = RxOffset(rx[s])
      <4>1. \A t \in Streams : rx[t] \in SUBSET (0 .. Total - 1) BY <1>1, Zenon DEF FlowTypes
      <4>2. \A t \in Streams : RxOffset(rx[t]) \in 0 .. Total BY <4>1, RxOffsetFacts, Zenon
      <4> QED BY <4>2, Zenon DEF InOrder
    <3>3. RxOffset(got) \in InOrder[s] .. Total
      BY <2>3, <3>2
    <3> QED BY <3>1, <3>2, <3>3, SumRaise, Zenon DEF given
  <2>10. datalen > 0 => conn_rx_offset + datalen <= conn_max_rx_offset
    <3> SUFFICES ASSUME datalen > 0 PROVE conn_rx_offset + datalen <= conn_max_rx_offset
      BY <2>5, Zenon
    <3>1. /\ conn_max_rx_offset \in Nat /\ conn_rx_offset \in Nat
          /\ conn_unsent_max_rx_offset \in Nat
      BY <1>1, Zenon DEF FlowTypes
    <3>2. conn_unsent_max_rx_offset <= MAX_VARINT
      <4>1. conn_credit \in Nat /\ SumOver(InOrder) \in Nat
        BY <1>1, SumIsNat, Zenon DEF FlowTypes
      <4> QED BY <1>1, <4>1, MinOfTwo DEF ConnAccount
    <3>3. conn_max_rx_offset - conn_rx_offset \in 0 .. U64 - 1
      BY <1>1, <3>1, <3>2 DEF ConnAccount
    <3>4. (conn_max_rx_offset - conn_rx_offset) % U64 = conn_max_rx_offset - conn_rx_offset
      BY <3>3
    <3> QED BY <1>5, <2>5, <3>1, <3>4 DEF conn_max_data_violated
  <2>11. ConnAccount'
    <3>1. conn_tx_offset' = SumOver(tx_offset')
      BY <1>1, <2>1, Zenon DEF ConnAccount, sender
    <3>2. conn_rx_offset' = SumOver(last_rx_offset')
      BY <1>1, <2>1, <2>5, <2>8, Zenon DEF ConnAccount
    <3>3. conn_rx_offset' <= conn_max_rx_offset'
      BY <1>1, <2>1, <2>5, <2>10 DEF ConnAccount, FlowTypes
    <3>4. MaxData - conn_credit' + SumOver(InOrder') = MaxData - conn_credit + SumOver(InOrder)
      BY <1>1, <2>1, <2>4, <2>9, SumIsNat DEF FlowTypes
    <3> QED BY <1>1, <2>1, <3>1, <3>2, <3>3, <3>4, Zenon DEF ConnAccount
  <2> QED BY <2>6, <2>7, <2>11, Zenon DEF AccountInv
<1> QED BY <1>4, <1>5, Zenon

\* Credit that is returned for a stream is granted again, unless the limit
\* would leave the range of a varint.
LEMMA AccountExtendStream ==
  ASSUME AccountInv, NEW s \in Streams, NEW datalen \in 1 .. credit[s],
         ngtcp2_conn_extend_max_stream_offset(s, datalen)
  PROVE  AccountInv'
<1> USE FlowAssumption
<1> DEFINE unsent == ExtendStream(unsent_max_rx_offset[s], datalen)
<1>1. FlowTypes /\ StreamAccount(s) /\ ConnAccount
  BY Zenon DEF AccountInv
<1>2. /\ credit' = [credit EXCEPT ![s] = credit[s] - datalen]
      /\ unsent_max_rx_offset' = [unsent_max_rx_offset EXCEPT ![s] = unsent]
      /\ fc_strms' \in {fc_strms, fc_strms \cup {s}}
      /\ UNCHANGED <<sender, rxVars, frames, shut, conn_credit, err, max_rx_offset,
                     conn_max_rx_offset, conn_unsent_max_rx_offset>>
  BY <1>1, Zenon DEF ngtcp2_conn_extend_max_stream_offset, FlowTypes
<1>3. /\ credit[s] \in Nat /\ datalen \in Nat /\ datalen <= credit[s]
      /\ unsent_max_rx_offset[s] \in Nat /\ max_rx_offset[s] \in Nat
  BY <1>1 DEF FlowTypes
<1>4. RxOffset(rx[s]) \in 0 .. Total
  BY <1>1, RxOffsetFacts, Zenon DEF FlowTypes
<1>5. /\ unsent \in Nat /\ unsent_max_rx_offset[s] <= unsent /\ unsent <= MAX_VARINT
      /\ unsent <= unsent_max_rx_offset[s] + datalen
  <2>1. unsent_max_rx_offset[s] <= MAX_VARINT BY <1>1, Zenon DEF StreamAccount
  <2> QED BY <1>3, <2>1 DEF ExtendStream
<1> HIDE DEF unsent
<1>6. FlowTypes'
  <2>1. credit' \in [Streams -> Nat] /\ unsent_max_rx_offset' \in [Streams -> Nat]
    BY <1>1, <1>2, <1>3, <1>5 DEF FlowTypes
  <2> QED BY <1>1, <1>2, <2>1, Zenon DEF FlowTypes, sender, rxVars, frames
<1>7. ASSUME NEW r \in Streams PROVE StreamAccount(r)'
  <2>1. CASE r # s
    <3>1. StreamAccount(r)
      BY Zenon DEF AccountInv
    <3> QED BY <1>1, <1>2, <2>1, <3>1, Zenon DEF StreamAccount, FlowTypes, sender, rxVars
  <2>2. CASE r = s
    <3>1. credit'[s] = credit[s] - datalen /\ unsent_max_rx_offset'[s] = unsent
      BY <1>1, <1>2, Zenon DEF FlowTypes
    <3>0. /\ credit[s] <= RxOffset(rx[s]) /\ max_rx_offset[s] <= unsent_max_rx_offset[s]
          /\ unsent_max_rx_offset[s] <= MaxStreamData + (RxOffset(rx[s]) - credit[s])
      BY <1>1, Zenon DEF StreamAccount
    <3>2. /\ credit'[s] <= RxOffset(rx[s])
          /\ unsent <= MaxStreamData + (RxOffset(rx[s]) - credit'[s])
      BY <1>3, <1>4, <1>5, <3>0, <3>1, FlowAssumption
    <3>3. max_rx_offset[s] <= unsent
      BY <1>3, <1>5, <3>0
    <3>4. /\ last_rx_offset[s] <= tx_offset[s] /\ last_rx_offset[s] <= max_rx_offset[s]
          /\ rx[s] \subseteq 0 .. last_rx_offset[s] - 1
      BY <1>1, Zenon DEF StreamAccount
    <3>5. UNCHANGED <<last_rx_offset, tx_offset, max_rx_offset, rx>>
      BY <1>2, Zenon DEF sender, rxVars
    <3>6. RxOffset(rx[s])' = RxOffset(rx[s]) BY <3>5, Zenon DEF RxOffset
    <3> QED BY <1>5, <2>2, <3>1, <3>2, <3>3, <3>4, <3>5, <3>6, Zenon DEF StreamAccount
  <2> QED BY <2>1, <2>2, Zenon
<1>8. ConnAccount'
  <2>1. InOrder' = InOrder /\ last_rx_offset' = last_rx_offset /\ tx_offset' = tx_offset
    BY <1>2, Zenon DEF InOrder, rxVars, sender
  <2> QED BY <1>1, <1>2, <2>1, Zenon DEF ConnAccount, sender, rxVars
<1> QED BY <1>6, <1>7, <1>8, Zenon DEF AccountInv

\* Credit that is returned for the connection is granted again, up to the
\* largest varint.
LEMMA AccountExtendConn ==
  ASSUME AccountInv, NEW datalen \in 1 .. conn_credit, ngtcp2_conn_extend_max_offset(datalen)
  PROVE  AccountInv'
<1> USE FlowAssumption
<1> DEFINE due == MaxData - conn_credit + SumOver(InOrder)
           unsent == IF MAX_VARINT < datalen \/ conn_unsent_max_rx_offset > MAX_VARINT - datalen
                     THEN MAX_VARINT ELSE conn_unsent_max_rx_offset + datalen
<1>1. FlowTypes /\ ConnAccount /\ \A s \in Streams : StreamAccount(s)
  BY Zenon DEF AccountInv
<1>2. /\ conn_credit' = conn_credit - datalen
      /\ conn_unsent_max_rx_offset' = unsent
      /\ UNCHANGED <<sender, rxVars, frames, shut, credit, err, max_rx_offset,
                     unsent_max_rx_offset, conn_max_rx_offset, fc_strms>>
  BY Zenon DEF ngtcp2_conn_extend_max_offset
<1>3. /\ conn_credit \in Nat /\ datalen \in Nat /\ datalen <= conn_credit
      /\ conn_unsent_max_rx_offset \in Nat /\ conn_max_rx_offset \in Nat
      /\ SumOver(InOrder) \in Nat /\ due \in Int
  BY <1>1, SumIsNat DEF FlowTypes
<1>4. conn_unsent_max_rx_offset = IF MAX_VARINT <= due THEN MAX_VARINT ELSE due
  BY <1>1, <1>3, MinOfTwo DEF ConnAccount
<1>5. /\ unsent \in Nat /\ conn_unsent_max_rx_offset <= unsent
      /\ unsent = IF MAX_VARINT <= due + datalen THEN MAX_VARINT ELSE due + datalen
  BY <1>3, <1>4
<1>6. MaxData - conn_credit' + SumOver(InOrder) = due + datalen
  BY <1>2, <1>3
<1>7. InOrder' = InOrder /\ last_rx_offset' = last_rx_offset /\ tx_offset' = tx_offset
  BY <1>2, Zenon DEF InOrder, rxVars, sender
<1> HIDE DEF due, unsent
<1>8. unsent = Min({MAX_VARINT, due + datalen})
  BY <1>3, <1>5, MinOfTwo
<1>9. FlowTypes'
  BY <1>1, <1>2, <1>3, <1>5 DEF FlowTypes, sender, rxVars, frames
<1>10. \A s \in Streams : StreamAccount(s)'
  BY <1>1, <1>2, Zenon DEF StreamAccount, sender, rxVars
<1>11. ConnAccount'
  BY <1>1, <1>2, <1>3, <1>5, <1>6, <1>7, <1>8 DEF ConnAccount, sender, rxVars
<1> QED BY <1>9, <1>10, <1>11, Zenon DEF AccountInv

\* A packet that carries MAX frames grants what was due.
LEMMA AccountWritePkt ==
  ASSUME AccountInv, NEW other \in BOOLEAN, conn_write_pkt(other)
  PROVE  AccountInv'
<1> USE FlowAssumption
<1>1. FlowTypes /\ ConnAccount /\ \A s \in Streams : StreamAccount(s)
  BY Zenon DEF AccountInv
<1>2. /\ conn_sent_max' \subseteq conn_sent_max \cup {conn_unsent_max_rx_offset}
      /\ conn_max_rx_offset' \in {conn_max_rx_offset, conn_unsent_max_rx_offset}
      /\ sent_max' = [s \in Streams |-> sent_max[s] \cup
                        (IF s \in fc_strms THEN {unsent_max_rx_offset[s]} ELSE {})]
      /\ max_rx_offset' = [s \in Streams |-> IF s \in fc_strms THEN unsent_max_rx_offset[s]
                                             ELSE max_rx_offset[s]]
      /\ fc_strms' = {}
      /\ UNCHANGED <<sender, rxVars, app, err, unsent_max_rx_offset,
                     conn_unsent_max_rx_offset>>
  BY Zenon DEF conn_write_pkt
<1>3. FlowTypes'
  BY <1>1, <1>2, Zenon DEF FlowTypes, sender, rxVars, app
<1>4. ASSUME NEW s \in Streams PROVE StreamAccount(s)'
  <2>1. StreamAccount(s) /\ last_rx_offset[s] \in Nat /\ max_rx_offset[s] \in Nat
        /\ unsent_max_rx_offset[s] \in Nat
    BY <1>1 DEF FlowTypes
  <2>2. max_rx_offset'[s] \in {max_rx_offset[s], unsent_max_rx_offset[s]}
    BY <1>2, Zenon
  <2> QED BY <1>2, <2>1, <2>2 DEF StreamAccount, sender, rxVars, app
<1>5. InOrder' = InOrder /\ last_rx_offset' = last_rx_offset /\ tx_offset' = tx_offset
  BY <1>2, Zenon DEF InOrder, rxVars, sender
<1>6. ConnAccount'
  BY <1>1, <1>2, <1>5 DEF ConnAccount, FlowTypes, sender, rxVars, app
<1> QED BY <1>3, <1>4, <1>6, Zenon DEF AccountInv

\* Every step keeps the accounts.
LEMMA AccountStep == AccountInv /\ [Next]_vars => AccountInv'
<1> SUFFICES ASSUME AccountInv, [Next]_vars PROVE AccountInv'
  BY Zenon
<1> USE FlowAssumption
<1>0. FlowTypes
  BY Zenon DEF AccountInv
<1>1. CASE ngtcp2_conn_set_remote_transport_params
  <2>1. FlowTypes'
    BY <1>0, <1>1, Zenon DEF FlowTypes, ngtcp2_conn_set_remote_transport_params, rxVars, limits, app, frames
  <2> QED BY <1>1, <2>1, AccountKept, Zenon DEF ngtcp2_conn_set_remote_transport_params
<1>2. ASSUME NEW m \in conn_sent_max, conn_recv_max_data(m) PROVE AccountInv'
  <2>1. Max({conn_max_tx_offset, m}) \in Nat
    BY <1>0, MaxOfTwo DEF FlowTypes
  <2>2. FlowTypes'
    BY <1>0, <1>2, <2>1, Zenon DEF FlowTypes, conn_recv_max_data, rxVars, limits, app, frames
  <2> QED BY <1>2, <2>2, AccountKept, Zenon DEF conn_recv_max_data
<1>3. ASSUME NEW s \in Streams, ngtcp2_conn_open_bidi_stream(s) PROVE AccountInv'
  <2>1. FlowTypes'
    BY <1>0, <1>3, Zenon DEF FlowTypes, ngtcp2_conn_open_bidi_stream, rxVars, limits, app, frames
  <2> QED BY <1>3, <2>1, AccountKept, Zenon DEF ngtcp2_conn_open_bidi_stream
<1>4. ASSUME NEW s \in Streams, NEW m \in sent_max[s], conn_recv_max_stream_data(s, m)
      PROVE  AccountInv'
  <2>1. Max({max_tx_offset[s], m}) \in Nat
    BY <1>0, MaxOfTwo DEF FlowTypes
  <2>2. max_tx_offset' = [max_tx_offset EXCEPT ![s] = Max({max_tx_offset[s], m})]
    BY <1>0, <1>4, Zenon DEF conn_recv_max_stream_data, FlowTypes
  <2>3. FlowTypes'
    BY <1>0, <1>4, <2>1, <2>2, Zenon
       DEF FlowTypes, conn_recv_max_stream_data, rxVars, limits, app, frames
  <2> QED BY <1>4, <2>3, AccountKept, Zenon DEF conn_recv_max_stream_data
<1>5. ASSUME NEW s \in Streams, ngtcp2_conn_shutdown_stream_read(s) PROVE AccountInv'
  <2>1. FlowTypes'
    BY <1>0, <1>5, Zenon DEF FlowTypes, ngtcp2_conn_shutdown_stream_read, sender, rxVars, frames
  <2>2. ASSUME NEW r \in Streams PROVE StreamAccount(r)'
    BY <1>5, Zenon DEF AccountInv, StreamAccount, ngtcp2_conn_shutdown_stream_read, sender, rxVars
  <2>3. InOrder' = InOrder /\ last_rx_offset' = last_rx_offset /\ tx_offset' = tx_offset
    BY <1>5, Zenon DEF InOrder, ngtcp2_conn_shutdown_stream_read, rxVars, sender
  <2>4. ConnAccount'
    BY <1>5, <2>3, Zenon DEF AccountInv, ConnAccount, ngtcp2_conn_shutdown_stream_read, sender, rxVars
  <2> QED BY <2>1, <2>2, <2>4, Zenon DEF AccountInv
<1>6. CASE UNCHANGED vars
  <2>1. FlowTypes'
    BY <1>0, <1>6, Zenon DEF FlowTypes, vars, sender, rxVars, limits, app, frames
  <2> QED BY <1>6, <2>1, AccountKept, Zenon DEF vars, sender
<1> QED
  BY <1>1, <1>2, <1>3, <1>4, <1>5, <1>6, AccountWriteStream, AccountRecvStream,
     AccountExtendStream, AccountExtendConn, AccountWritePkt, Zenon DEF Next

\* The invariant of the accounts.
THEOREM AccountsInvariant == Spec => []AccountInv
BY AccountInit, AccountStep, PTL DEF Spec

\* The accounts of all streams and of the connection are those of Accounted.
LEMMA AccountsAdd == AccountInv => Accounted
<1> SUFFICES ASSUME AccountInv PROVE Accounted
  BY Zenon
<1> USE FlowAssumption
<1>1. FlowTypes /\ ConnAccount /\ \A s \in Streams : StreamAccount(s)
  BY Zenon DEF AccountInv
<1>2. ASSUME NEW s \in Streams
      PROVE  /\ last_rx_offset[s] \in 0 .. Total /\ tx_offset[s] \in 0 .. Total
             /\ RxOffset(rx[s]) \in 0 .. Total /\ credit[s] \in Nat
             /\ max_rx_offset[s] \in Nat /\ unsent_max_rx_offset[s] \in Nat
  BY <1>1, RxOffsetFacts, Zenon DEF FlowTypes
<1>3. TypeOK
  <2>1. ASSUME NEW s \in Streams
        PROVE  /\ last_rx_offset[s] \in 0 .. tx_offset[s] /\ tx_offset[s] \in 0 .. Total
               /\ rx[s] \subseteq 0 .. last_rx_offset[s] - 1
               /\ credit[s] \in 0 .. RxOffset(rx[s])
               /\ max_tx_offset[s] \in Nat /\ shut[s] \subseteq {"SHUT_RD", "STOP_SENDING"}
    BY <1>1, <1>2 DEF FlowTypes, StreamAccount
  <2> QED BY <1>1, <2>1, Zenon DEF TypeOK, FlowTypes
<1>4. conn_rx_offset <= conn_tx_offset
  <2>1. SumOver(last_rx_offset) <= SumOver(tx_offset)
    BY <1>1, SumMonotone, Zenon DEF FlowTypes, StreamAccount
  <2> QED BY <1>1, <2>1, Zenon DEF ConnAccount
<1>5. ASSUME NEW s \in Streams
      PROVE  Cardinality(rx[s]) - (RxOffset(rx[s]) - credit[s]) <= MaxStreamData
  <2>1. rx[s] \in SUBSET (0 .. last_rx_offset[s] - 1)
    BY <1>1, Zenon DEF StreamAccount
  <2>2. /\ IsFiniteSet(0 .. last_rx_offset[s] - 1)
        /\ Cardinality(0 .. last_rx_offset[s] - 1) = last_rx_offset[s]
    <3>1. last_rx_offset[s] - 1 \in Int /\ 0 \in Int /\ last_rx_offset[s] >= 0
      BY <1>2
    <3>2. /\ IsFiniteSet(0 .. last_rx_offset[s] - 1)
          /\ Cardinality(0 .. last_rx_offset[s] - 1) =
               IF 0 > last_rx_offset[s] - 1 THEN 0 ELSE last_rx_offset[s] - 1 - 0 + 1
      BY <3>1, FS_Interval, Zenon
    <3> QED BY <1>2, <3>2
  <2>3. Cardinality(rx[s]) <= last_rx_offset[s] /\ Cardinality(rx[s]) \in Nat
    BY <2>1, <2>2, FS_Subset, FS_CardinalityType, Zenon
  <2> QED BY <1>1, <1>2, <2>3 DEF StreamAccount
<1>6. Cardinality(Arrived) - (SumOver(InOrder) - conn_credit) <= MaxData
  <2>1. Arrived \in SUBSET BytesBelow(last_rx_offset)
    <3>1. ASSUME NEW s \in Streams, NEW i \in rx[s] PROVE i < last_rx_offset[s]
      BY <1>1, <1>2 DEF StreamAccount
    <3> QED BY <3>1, Zenon DEF Arrived, BytesBelow
  <2>2. Cardinality(Arrived) <= conn_rx_offset /\ Cardinality(Arrived) \in Nat
    BY <1>1, <2>1, SumIsNat, FS_Subset, FS_CardinalityType, Zenon DEF ConnAccount, SumOver
  <2>3. SumOver(InOrder) \in Nat /\ conn_credit \in Nat
    BY <1>1, SumIsNat, Zenon DEF FlowTypes
  <2>4. conn_unsent_max_rx_offset <= MaxData - conn_credit + SumOver(InOrder)
    BY <1>1, <2>3, MinOfTwo DEF ConnAccount
  <2> QED BY <1>1, <2>2, <2>3, <2>4 DEF ConnAccount, FlowTypes
<1> QED BY <1>1, <1>3, <1>4, <1>5, <1>6, Zenon DEF Accounted, ConnAccount, StreamAccount

\* For any streams and settings: the window of the connection and those of the
\* streams are accounted for to the last byte, and what is held fits into them
\* (conn_recv_stream, ngtcp2_conn_extend_max_offset,
\* conn_extend_max_stream_offset, conn_write_pkt).
THEOREM WindowsAccountedFor == Spec => []Accounted
BY AccountsInvariant, AccountsAdd, PTL

-----------------------------------------------------------------------------
(* The limits *)

\* A sender within a limit sees the room that is left.
LEMMA RoomLeft ==
  ASSUME NEW max \in Nat, NEW used \in Nat, used <= max, max <= MAX_VARINT
  PROVE  (max - used) % U64 = max - used
<1>1. max - used \in 0 .. U64 - 1
  BY FlowAssumption
<1> QED BY <1>1, FlowAssumption

\* The limits known at the start are those of the settings, or remembered.
LEMMA LimitInit == RememberedLimitsKept /\ Init => LimitInv
BY FlowAssumption DEF RememberedLimitsKept, Init, LimitInv, Zero

\* What the limits of the connection and of a stream are when they are known
\* to be numbers.
LEMMA LimitsSmall ==
  ASSUME AccountInv
  PROVE  /\ conn_max_rx_offset <= MAX_VARINT
         /\ \A s \in Streams : max_rx_offset[s] <= MAX_VARINT
<1>1. FlowTypes /\ ConnAccount /\ \A s \in Streams : StreamAccount(s)
  BY Zenon DEF AccountInv
<1>2. SumOver(InOrder) \in Nat /\ conn_credit \in Nat /\ conn_max_rx_offset \in Nat
      /\ conn_unsent_max_rx_offset \in Nat
  BY <1>1, SumIsNat, Zenon DEF FlowTypes
<1>3. conn_unsent_max_rx_offset <= MAX_VARINT
  BY <1>1, <1>2, MinOfTwo, FlowAssumption DEF ConnAccount
<1> QED BY <1>1, <1>2, <1>3, FlowAssumption DEF ConnAccount, StreamAccount, FlowTypes

\* Every step keeps the sender within limits that were granted.
LEMMA LimitStep ==
  RememberedLimitsKept /\ AccountInv /\ LimitInv /\ [Next]_vars => LimitInv'
<1> SUFFICES ASSUME RememberedLimitsKept, AccountInv, LimitInv, [Next]_vars PROVE LimitInv'
  BY Zenon
<1> USE FlowAssumption
<1>0. FlowTypes /\ ConnAccount /\ \A s \in Streams : StreamAccount(s)
  BY Zenon DEF AccountInv
<1>1. CASE ngtcp2_conn_set_remote_transport_params
  BY <1>0, <1>1 DEF ngtcp2_conn_set_remote_transport_params, LimitInv, RememberedLimitsKept,
                    FlowTypes, rxVars, limits, app, frames
<1>2. ASSUME NEW m \in conn_sent_max, conn_recv_max_data(m) PROVE LimitInv'
  <2>1. Max({conn_max_tx_offset, m}) = IF conn_max_tx_offset >= m THEN conn_max_tx_offset ELSE m
    BY <1>0, MaxOfTwo DEF FlowTypes
  <2> QED BY <1>0, <1>2, <2>1 DEF conn_recv_max_data, LimitInv, FlowTypes, rxVars, limits, app, frames
<1>3. ASSUME NEW s \in Streams, ngtcp2_conn_open_bidi_stream(s) PROVE LimitInv'
  <2>1. ASSUME NEW r \in Streams
        PROVE  /\ tx_offset[r] <= max_tx_offset'[r] /\ max_tx_offset'[r] <= max_rx_offset[r]
               /\ r \notin opened' => tx_offset[r] = 0
    BY <1>0, <1>3 DEF ngtcp2_conn_open_bidi_stream, LimitInv, RememberedLimitsKept, FlowTypes
  <2> QED BY <1>3, <2>1, Zenon DEF ngtcp2_conn_open_bidi_stream, LimitInv, rxVars, limits, app, frames
<1>4. ASSUME NEW s \in Streams, ngtcp2_conn_write_stream(s) PROVE LimitInv'
  <2>1. /\ max_tx_offset[s] \in Nat /\ tx_offset[s] \in Nat /\ tx_offset[s] <= max_tx_offset[s]
        /\ max_tx_offset[s] <= MAX_VARINT
        /\ conn_max_tx_offset \in Nat /\ conn_tx_offset \in Nat
        /\ conn_tx_offset <= conn_max_tx_offset /\ conn_max_tx_offset <= MAX_VARINT
    <3>1. max_rx_offset[s] \in Nat /\ conn_max_rx_offset \in Nat
      BY <1>0, Zenon DEF FlowTypes
    <3> QED BY <1>0, <3>1, LimitsSmall DEF LimitInv, FlowTypes
  <2>2. tx_offset[s] < max_tx_offset[s] /\ conn_tx_offset < conn_max_tx_offset
    BY <1>4, <2>1, RoomLeft DEF ngtcp2_conn_write_stream, Room
  <2>3. ASSUME NEW r \in Streams
        PROVE  tx_offset'[r] <= max_tx_offset[r] /\ (r \notin opened => tx_offset'[r] = 0)
    BY <1>0, <1>4, <2>1, <2>2 DEF ngtcp2_conn_write_stream, LimitInv, FlowTypes
  <2>4. conn_tx_offset' <= conn_max_tx_offset
    BY <1>4, <2>1, <2>2 DEF ngtcp2_conn_write_stream
  <2> QED BY <1>4, <2>3, <2>4, Zenon DEF ngtcp2_conn_write_stream, LimitInv, rxVars, limits, app, frames
<1>5. ASSUME NEW s \in Streams, NEW m \in sent_max[s], conn_recv_max_stream_data(s, m)
      PROVE  LimitInv'
  <2>1. /\ max_tx_offset[s] \in Nat /\ m \in Nat /\ m <= max_rx_offset[s]
        /\ Max({max_tx_offset[s], m}) = IF max_tx_offset[s] >= m THEN max_tx_offset[s] ELSE m
    BY <1>0, MaxOfTwo DEF FlowTypes, LimitInv
  <2>2. ASSUME NEW r \in Streams
        PROVE  tx_offset[r] <= max_tx_offset'[r] /\ max_tx_offset'[r] <= max_rx_offset[r]
    <3>1. max_tx_offset' = [max_tx_offset EXCEPT ![s] = Max({max_tx_offset[s], m})]
      BY <1>0, <1>5, Zenon DEF conn_recv_max_stream_data, FlowTypes
    <3> QED BY <1>0, <2>1, <3>1 DEF LimitInv, FlowTypes
  <2> QED BY <1>5, <2>2, Zenon DEF conn_recv_max_stream_data, LimitInv, rxVars, limits, app, frames
<1>6. ASSUME NEW s \in Streams, NEW i \in 0 .. tx_offset[s] - 1, conn_recv_stream(s, i)
      PROVE  LimitInv'
  <2> DEFINE datalen == NewBytes(s, i + 1)
  <2>1. /\ tx_offset[s] \in Nat /\ last_rx_offset[s] \in 0 .. Total /\ i \in Nat
        /\ max_tx_offset[s] \in Nat /\ max_rx_offset[s] \in Nat
        /\ conn_rx_offset \in Nat /\ conn_tx_offset \in Nat
        /\ conn_max_tx_offset \in Nat /\ conn_max_rx_offset \in Nat
    BY <1>0 DEF FlowTypes
  <2>2. ~(max_rx_offset[s] < i + 1)
    BY <2>1 DEF LimitInv
  <2>3. ASSUME datalen > 0 PROVE ~conn_max_data_violated(datalen)
    <3>1. datalen = i + 1 - last_rx_offset[s] /\ i + 1 > last_rx_offset[s]
      <4>1. Max({0, i + 1 - last_rx_offset[s]}) =
              IF 0 >= i + 1 - last_rx_offset[s] THEN 0 ELSE i + 1 - last_rx_offset[s]
        BY <2>1, MaxOfTwo
      <4> QED BY <2>1, <2>3, <4>1 DEF NewBytes
    <3>2. conn_rx_offset + datalen <= conn_tx_offset
      <4> DEFINE end == i + 1
                 g == [last_rx_offset EXCEPT ![s] = end]
      <4>1. end \in last_rx_offset[s] .. Total /\ end <= tx_offset[s] /\ end \in Nat
        BY <1>0, <2>1, <3>1 DEF FlowTypes
      <4>2. last_rx_offset \in [Streams -> 0 .. Total] /\ tx_offset \in [Streams -> 0 .. Total]
        BY <1>0, Zenon DEF FlowTypes
      <4>3. datalen = end - last_rx_offset[s]
        BY <2>1, <3>1
      <4> HIDE DEF end, datalen
      <4>4. SumOver(g) = SumOver(last_rx_offset) + (end - last_rx_offset[s])
        BY <4>1, <4>2, SumRaise, Zenon
      <4>5. g \in [Streams -> 0 .. Total] /\ \A r \in Streams : g[r] <= tx_offset[r]
        BY <1>0, <2>1, <4>1, <4>2 DEF StreamAccount
      <4> HIDE DEF g
      <4>6. SumOver(g) <= SumOver(tx_offset)
        BY <4>2, <4>5, SumMonotone, Zenon
      <4> QED BY <1>0, <4>3, <4>4, <4>6, Zenon DEF ConnAccount
    <3>3. conn_tx_offset <= conn_max_rx_offset /\ conn_rx_offset <= conn_max_rx_offset
      BY <1>0, <2>1 DEF LimitInv, ConnAccount
    <3>4. (conn_max_rx_offset - conn_rx_offset) % U64 = conn_max_rx_offset - conn_rx_offset
      BY <2>1, <3>3, LimitsSmall, RoomLeft, Zenon
    <3>5. datalen \in Int
      BY <2>1, <3>1
    <3> QED BY <2>1, <3>2, <3>3, <3>4, <3>5 DEF conn_max_data_violated
  <2>4. err' = FALSE
    BY <1>6, <2>2, <2>3, Zenon DEF conn_recv_stream
  <2>5. UNCHANGED <<sender, frames, max_rx_offset, conn_max_rx_offset>>
    BY <1>6, Zenon DEF conn_recv_stream
  <2> QED BY <2>4, <2>5, Zenon DEF LimitInv, sender, frames
<1>7. ASSUME NEW other \in BOOLEAN, conn_write_pkt(other) PROVE LimitInv'
  <2>1. /\ conn_sent_max' \subseteq conn_sent_max \cup {conn_max_rx_offset'}
        /\ conn_max_rx_offset' \in Nat /\ conn_max_rx_offset <= conn_max_rx_offset'
    BY <1>0, <1>7 DEF conn_write_pkt, FlowTypes, ConnAccount
  <2>2. ASSUME NEW s \in Streams
        PROVE  /\ max_rx_offset'[s] \in Nat /\ max_rx_offset[s] <= max_rx_offset'[s]
               /\ sent_max'[s] \subseteq sent_max[s] \cup {max_rx_offset'[s]}
               /\ max_rx_offset[s] \in Nat /\ sent_max[s] \subseteq Nat
    BY <1>0, <1>7 DEF conn_write_pkt, FlowTypes, StreamAccount
  <2>3. UNCHANGED <<sender, err>>
    BY <1>7, Zenon DEF conn_write_pkt
  <2>4. /\ conn_max_tx_offset <= conn_max_rx_offset' /\ MaxData <= conn_max_rx_offset'
        /\ \A m \in conn_sent_max' : m <= conn_max_rx_offset'
    BY <1>0, <2>1 DEF LimitInv, FlowTypes
  <2>5. ASSUME NEW s \in Streams
        PROVE  /\ max_tx_offset[s] <= max_rx_offset'[s] /\ MaxStreamData <= max_rx_offset'[s]
               /\ \A m \in sent_max'[s] : m <= max_rx_offset'[s]
    BY <1>0, <2>2 DEF LimitInv, FlowTypes
  <2> QED BY <2>3, <2>4, <2>5, Zenon DEF LimitInv, sender
<1>8. CASE UNCHANGED <<sender, frames, max_rx_offset, conn_max_rx_offset, err>>
  BY <1>8, Zenon DEF LimitInv, sender, frames
<1>9. ASSUME NEW s \in Streams, NEW datalen \in 1 .. credit[s],
             ngtcp2_conn_extend_max_stream_offset(s, datalen)
      PROVE  UNCHANGED <<sender, frames, max_rx_offset, conn_max_rx_offset, err>>
  BY <1>9, Zenon DEF ngtcp2_conn_extend_max_stream_offset
<1>10. ASSUME NEW datalen \in 1 .. conn_credit, ngtcp2_conn_extend_max_offset(datalen)
       PROVE  UNCHANGED <<sender, frames, max_rx_offset, conn_max_rx_offset, err>>
  BY <1>10, Zenon DEF ngtcp2_conn_extend_max_offset
<1>11. ASSUME NEW s \in Streams, ngtcp2_conn_shutdown_stream_read(s)
       PROVE  UNCHANGED <<sender, frames, max_rx_offset, conn_max_rx_offset, err>>
  BY <1>11, Zenon DEF ngtcp2_conn_shutdown_stream_read
<1>12. UNCHANGED vars => UNCHANGED <<sender, frames, max_rx_offset, conn_max_rx_offset, err>>
  BY Zenon DEF vars, limits
<1> QED
  BY <1>1, <1>2, <1>3, <1>4, <1>5, <1>6, <1>7, <1>8, <1>9, <1>10, <1>11, <1>12, Zenon DEF Next

\* For any streams and any settings that keep the limits of an earlier
\* connection: the sender stays within the limits it knows, those are limits
\* that the receiver has granted, and conn_recv_stream never finds
\* NGTCP2_ERR_FLOW_CONTROL.
THEOREM SenderNeverAccused == RememberedLimitsKept => (Spec => []NeverAccused)
<1> SUFFICES ASSUME RememberedLimitsKept PROVE Spec => []NeverAccused
  BY Zenon
<1>1. Init => LimitInv
  BY LimitInit, Zenon
<1>2. AccountInv /\ LimitInv /\ [Next]_vars => LimitInv'
  BY LimitStep, Zenon
<1>3. AccountInv /\ LimitInv => NeverAccused
  BY Zenon DEF LimitInv, NeverAccused, AccountInv, FlowTypes
<1> QED BY <1>1, <1>2, <1>3, AccountsInvariant, PTL DEF Spec
=============================================================================
