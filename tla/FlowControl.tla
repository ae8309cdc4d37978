---------------------------- MODULE FlowControl ----------------------------
(***************************************************************************)
(* Flow control of the data that one endpoint sends on streams that it has *)
(* opened: the limits of the streams and of the connection at the sender   *)
(* and at the receiver, MAX_STREAM_DATA and MAX_DATA frames, and the limits *)
(* remembered for 0-RTT data (lib/ngtcp2_conn.c).                          *)
(*                                                                         *)
(* Data is sent in frames of one byte, which arrive in any order, once or  *)
(* more often.  The MAX frames that were sent are kept in sets: an old one *)
(* may arrive after a newer one.  Resets are left to StreamRecv.           *)
(***************************************************************************)
EXTENDS Integers, FiniteSets, FiniteSetsExt

CONSTANTS
  Streams,
  Total,             \* bound: bytes that the sender has for every stream
  MaxData,           \* settings.max_data of the receiver
  MaxStreamData,     \* settings.max_stream_data of the receiver
  EarlyData,         \* the same settings as the sender remembers them from
  EarlyStreamData,   \* an earlier connection, for its 0-RTT data
  MAX_VARINT,        \* NGTCP2_MAX_VARINT, 2^62 - 1
  U64                \* 2^64

\* The settings are 32 bits wide, a varint has 62 bits.
ASSUME FlowAssumption ==
  /\ IsFiniteSet(Streams)
  /\ Total \in Nat /\ MaxData \in Nat /\ MaxStreamData \in Nat
  /\ EarlyData \in Nat /\ EarlyStreamData \in Nat /\ MAX_VARINT \in Nat /\ U64 \in Nat
  /\ MaxData <= MAX_VARINT /\ MaxStreamData <= MAX_VARINT /\ MAX_VARINT < U64

VARIABLES
  params,       \* sender: NGTCP2_CONN_FLAG_TRANSPORT_PARAM_RECVED
  opened,       \* sender: streams in conn->strms
  tx_offset, max_tx_offset,             \* sender: of every stream
  conn_tx_offset, conn_max_tx_offset,   \* sender: of the connection
  rx,                                   \* receiver: bytes that have arrived
  last_rx_offset, max_rx_offset, unsent_max_rx_offset,
                                        \* receiver: of every stream
  conn_rx_offset, conn_max_rx_offset, conn_unsent_max_rx_offset,
                                        \* receiver: of the connection
  fc_strms,     \* receiver: streams that wait for a MAX_STREAM_DATA
  shut,         \* receiver: flags SHUT_RD, STOP_SENDING of every stream
  credit, conn_credit,
                \* receiver: bytes that the application has been given and
                \* has not returned with ngtcp2_conn_extend_max_*
  sent_max,     \* MAX_STREAM_DATA frames of every stream that were sent
  conn_sent_max,\* MAX_DATA frames that were sent
  err           \* the receiver found NGTCP2_ERR_FLOW_CONTROL

sender == <<params, opened, tx_offset, max_tx_offset, conn_tx_offset, conn_max_tx_offset>>
rxVars == <<rx, last_rx_offset, conn_rx_offset>>
limits == <<max_rx_offset, unsent_max_rx_offset, conn_max_rx_offset,
            conn_unsent_max_rx_offset, fc_strms>>
app    == <<shut, credit, conn_credit>>
frames == <<sent_max, conn_sent_max>>
vars   == <<sender, rxVars, limits, app, frames, err>>

Zero == [s \in Streams |-> 0]

\* conn_new, ngtcp2_conn_init_stream,
\* ngtcp2_conn_set_early_remote_transport_params
Init ==
  /\ params = FALSE /\ opened = {}
  /\ tx_offset = Zero /\ max_tx_offset = Zero
  /\ conn_tx_offset = 0 /\ conn_max_tx_offset = EarlyData
  /\ rx = [s \in Streams |-> {}] /\ last_rx_offset = Zero /\ conn_rx_offset = 0
  /\ max_rx_offset = [s \in Streams |-> MaxStreamData]
  /\ unsent_max_rx_offset = max_rx_offset
  /\ conn_max_rx_offset = MaxData /\ conn_unsent_max_rx_offset = MaxData
  /\ fc_strms = {} /\ shut = [s \in Streams |-> {}]
  /\ credit = Zero /\ conn_credit = 0
  /\ sent_max = [s \in Streams |-> {}] /\ conn_sent_max = {}
  /\ err = FALSE

-----------------------------------------------------------------------------
(* The sender *)

\* ngtcp2_conn_open_bidi_stream, ngtcp2_conn_init_stream
ngtcp2_conn_open_bidi_stream(s) ==
  /\ ~err /\ s \notin opened
  /\ opened' = opened \cup {s}
  /\ max_tx_offset' = [max_tx_offset EXCEPT ![s] =
                         IF params THEN MaxStreamData ELSE EarlyStreamData]
  /\ UNCHANGED <<params, tx_offset, conn_tx_offset, conn_max_tx_offset>>
  /\ UNCHANGED <<rxVars, limits, app, frames, err>>

\* ngtcp2_conn_set_remote_transport_params
ngtcp2_conn_set_remote_transport_params ==
  /\ ~err /\ ~params
  /\ params' = TRUE
  /\ conn_max_tx_offset' = MaxData
  /\ UNCHANGED <<opened, tx_offset, max_tx_offset, conn_tx_offset>>
  /\ UNCHANGED <<rxVars, limits, app, frames, err>>

\* Mutant: the limit of the connection is not looked at.
RoomInStream(s) == (max_tx_offset[s] - tx_offset[s]) % U64 > 0

\* ngtcp2_conn_write_stream: what its two ngtcp2_min leave is not 0.
Room(s) ==
  /\ (max_tx_offset[s] - tx_offset[s]) % U64 > 0
  /\ (conn_max_tx_offset - conn_tx_offset) % U64 > 0

\* ngtcp2_conn_write_stream; the last byte of a stream carries FIN.
ngtcp2_conn_write_stream(s) ==
  /\ ~err /\ s \in opened /\ tx_offset[s] < Total
  /\ Room(s)
  /\ tx_offset' = [tx_offset EXCEPT ![s] = @ + 1]
  /\ conn_tx_offset' = conn_tx_offset + 1
  /\ UNCHANGED <<params, opened, max_tx_offset, conn_max_tx_offset>>
  /\ UNCHANGED <<rxVars, limits, app, frames, err>>

\* MAX frames travel in protected packets, which the client processes after
\* the handshake, in which it has got the transport parameters.

conn_recv_max_stream_data(s, m) ==
  /\ ~err /\ params /\ m \in sent_max[s] /\ s \in opened
  /\ max_tx_offset' = [max_tx_offset EXCEPT ![s] = Max({@, m})]
  /\ UNCHANGED <<params, opened, tx_offset, conn_tx_offset, conn_max_tx_offset>>
  /\ UNCHANGED <<rxVars, limits, app, frames, err>>

conn_recv_max_data(m) ==
  /\ ~err /\ params /\ m \in conn_sent_max
  /\ conn_max_tx_offset' = Max({conn_max_tx_offset, m})
  /\ UNCHANGED <<params, opened, tx_offset, max_tx_offset, conn_tx_offset>>
  /\ UNCHANGED <<rxVars, limits, app, frames, err>>

-----------------------------------------------------------------------------
(* The receiver *)

\* ngtcp2_strm_rx_offset
RxOffset(bytes) == Min((0 .. Total) \ bytes)

conn_max_data_violated(datalen) == (conn_max_rx_offset - conn_rx_offset) % U64 < datalen

\* Mutant: a byte that fills a gap is counted again.
CountsEveryByte(s, end) == 1

\* conn_recv_stream: how much of a frame that ends at end counts.
NewBytes(s, end) == Max({0, end - last_rx_offset[s]})

\* conn_recv_stream: how much the application gets when byte i arrives.
Given(s, i) ==
  IF "STOP_SENDING" \in shut[s] THEN 0
  ELSE RxOffset(rx[s] \cup {i}) - RxOffset(rx[s])

\* conn_recv_stream: byte i of stream s arrives.
conn_recv_stream(s, i) ==
  LET end     == i + 1
      fin     == end = Total
      datalen == NewBytes(s, end)
      violated == max_rx_offset[s] < end \/ (datalen > 0 /\ conn_max_data_violated(datalen))
  IN  /\ ~err /\ i < tx_offset[s]
      /\ err' = violated
      /\ IF violated THEN UNCHANGED <<rxVars, app, fc_strms>>
         ELSE /\ rx' = [rx EXCEPT ![s] = IF "STOP_SENDING" \in shut[s] THEN @ ELSE @ \cup {i}]
              /\ last_rx_offset' = [last_rx_offset EXCEPT ![s] = Max({@, end})]
              /\ conn_rx_offset' = conn_rx_offset + datalen
              /\ credit' = [credit EXCEPT ![s] = @ + Given(s, i)]
              /\ conn_credit' = conn_credit + Given(s, i)
              /\ shut' = [shut EXCEPT ![s] = IF fin THEN @ \cup {"SHUT_RD"} ELSE @]
              /\ fc_strms' = IF fin THEN fc_strms \ {s} ELSE fc_strms
      /\ UNCHANGED <<sender, frames, max_rx_offset, unsent_max_rx_offset,
                     conn_max_rx_offset, conn_unsent_max_rx_offset>>

\* ngtcp2_conn_shutdown_stream_read, conn_stop_sending
ngtcp2_conn_shutdown_stream_read(s) ==
  /\ ~err /\ rx[s] # {} /\ "STOP_SENDING" \notin shut[s]
  /\ shut' = [shut EXCEPT ![s] = @ \cup {"STOP_SENDING"}]
  /\ fc_strms' = fc_strms \ {s}
  /\ UNCHANGED <<sender, rxVars, frames, credit, conn_credit, err, max_rx_offset,
                 unsent_max_rx_offset, conn_max_rx_offset, conn_unsent_max_rx_offset>>

\* Mutant: MAX_STREAM_DATA is due when more than the window could be granted.
ShouldSendWholeWindow(unsent, max) == MaxStreamData < unsent - max

conn_should_send_max_stream_data(unsent, max) == MaxStreamData \div 2 < unsent - max

\* conn_extend_max_stream_offset: how unsent_max_rx_offset grows.
ExtendStream(unsent, datalen) ==
  IF unsent <= MAX_VARINT - datalen THEN unsent + datalen ELSE unsent

\* ngtcp2_conn_extend_max_stream_offset, conn_extend_max_stream_offset
ngtcp2_conn_extend_max_stream_offset(s, datalen) ==
  LET unsent == ExtendStream(unsent_max_rx_offset[s], datalen)
      due    == conn_should_send_max_stream_data(unsent, max_rx_offset[s])
  IN  /\ ~err /\ datalen \in 1 .. credit[s]
      /\ credit' = [credit EXCEPT ![s] = @ - datalen]
      /\ unsent_max_rx_offset' = [unsent_max_rx_offset EXCEPT ![s] = unsent]
      /\ fc_strms' = IF shut[s] = {} /\ due THEN fc_strms \cup {s} ELSE fc_strms
      /\ UNCHANGED <<sender, rxVars, frames, shut, conn_credit, err, max_rx_offset,
                     conn_max_rx_offset, conn_unsent_max_rx_offset>>

\* ngtcp2_conn_extend_max_offset
ngtcp2_conn_extend_max_offset(datalen) ==
  /\ ~err /\ datalen \in 1 .. conn_credit
  /\ conn_credit' = conn_credit - datalen
  /\ conn_unsent_max_rx_offset' =
       IF MAX_VARINT < datalen \/ conn_unsent_max_rx_offset > MAX_VARINT - datalen
       THEN MAX_VARINT ELSE conn_unsent_max_rx_offset + datalen
  /\ UNCHANGED <<sender, rxVars, frames, shut, credit, err, max_rx_offset,
                 unsent_max_rx_offset, conn_max_rx_offset, fc_strms>>

conn_should_send_max_data ==
  MaxData \div 2 < conn_unsent_max_rx_offset - conn_max_rx_offset

\* conn_write_pkt, as far as flow control goes; other is true when there is
\* an ACK or another frame to send.
conn_write_pkt(other) ==
  LET max_data == (other \/ conn_should_send_max_data)
                    /\ conn_unsent_max_rx_offset > conn_max_rx_offset
  IN  /\ ~err /\ (max_data \/ fc_strms # {})
      /\ conn_sent_max' = conn_sent_max \cup
                            (IF max_data THEN {conn_unsent_max_rx_offset} ELSE {})
      /\ conn_max_rx_offset' = IF max_data THEN conn_unsent_max_rx_offset
                                           ELSE conn_max_rx_offset
      /\ sent_max' = [s \in Streams |-> sent_max[s] \cup
                        (IF s \in fc_strms THEN {unsent_max_rx_offset[s]} ELSE {})]
      /\ max_rx_offset' = [s \in Streams |-> IF s \in fc_strms THEN unsent_max_rx_offset[s]
                                             ELSE max_rx_offset[s]]
      /\ fc_strms' = {}
      /\ UNCHANGED <<sender, rxVars, app, err, unsent_max_rx_offset,
                     conn_unsent_max_rx_offset>>

-----------------------------------------------------------------------------
Next ==
  \/ ngtcp2_conn_set_remote_transport_params
  \/ \E m \in conn_sent_max : conn_recv_max_data(m)
  \/ \E datalen \in 1 .. conn_credit : ngtcp2_conn_extend_max_offset(datalen)
  \/ \E other \in BOOLEAN : conn_write_pkt(other)
  \/ \E s \in Streams :
        \/ ngtcp2_conn_open_bidi_stream(s)
        \/ ngtcp2_conn_write_stream(s)
        \/ \E m \in sent_max[s] : conn_recv_max_stream_data(s, m)
        \/ \E i \in 0 .. tx_offset[s] - 1 : conn_recv_stream(s, i)
        \/ \E datalen \in 1 .. credit[s] : ngtcp2_conn_extend_max_stream_offset(s, datalen)
        \/ ngtcp2_conn_shutdown_stream_read(s)

Spec == Init /\ [][Next]_vars

\* The applications write what they have and return credit for what they
\* read, conn_write_pkt is called without anything else to send, and data and
\* the newest MAX frames, which are retransmitted, arrive.
FairSpec ==
  /\ Spec
  /\ WF_vars(ngtcp2_conn_set_remote_transport_params)
  /\ WF_vars(conn_write_pkt(FALSE))
  /\ WF_vars(conn_recv_max_data(conn_max_rx_offset))
  /\ WF_vars(\E datalen \in 1 .. conn_credit : ngtcp2_conn_extend_max_offset(datalen))
  /\ \A s \in Streams :
        /\ WF_vars(ngtcp2_conn_open_bidi_stream(s))
        /\ WF_vars(ngtcp2_conn_write_stream(s))
        /\ WF_vars(conn_recv_max_stream_data(s, max_rx_offset[s]))
        /\ WF_vars(\E i \in 0 .. tx_offset[s] - 1 : conn_recv_stream(s, i))
        /\ WF_vars(\E datalen \in 1 .. credit[s] :
                      ngtcp2_conn_extend_max_stream_offset(s, datalen))

-----------------------------------------------------------------------------
(* Properties *)

TypeOK ==
  /\ params \in BOOLEAN /\ err \in BOOLEAN
  /\ opened \subseteq Streams /\ fc_strms \subseteq Streams
  /\ \A s \in Streams :
        /\ last_rx_offset[s] \in 0 .. tx_offset[s] /\ tx_offset[s] \in 0 .. Total
        /\ rx[s] \subseteq 0 .. last_rx_offset[s] - 1
        /\ credit[s] \in 0 .. RxOffset(rx[s])
        /\ max_tx_offset[s] \in Nat /\ shut[s] \subseteq {"SHUT_RD", "STOP_SENDING"}
  /\ conn_credit \in Nat /\ conn_max_tx_offset \in Nat

\* The bytes of all streams below offset f[s] of every stream s.  Their number
\* is the sum of these offsets.
BytesBelow(f) == {b \in Streams \X (0 .. Total - 1) : b[2] < f[b[1]]}
SumOver(f) == Cardinality(BytesBelow(f))

\* The bytes that have arrived, and those of them that were in order.
Arrived == {b \in Streams \X (0 .. Total - 1) : b[2] \in rx[b[1]]}
InOrder == [s \in Streams |-> RxOffset(rx[s])]

\* A sender that respects the limits it knows is never accused of having
\* violated flow control (conn_recv_stream, conn_max_data_violated), however
\* data and MAX frames are reordered and delayed: no late MAX_STREAM_DATA
\* lowers a limit below what was sent, where the unsigned difference of
\* ngtcp2_conn_write_stream would grant everything.
NeverAccused == ~err /\ \A s \in opened : tx_offset[s] <= max_tx_offset[s]

\* The window of the connection is accounted for to the last byte: rx_offset
\* is the sum of what every stream counts, and the limit of the connection,
\* up to saturation at NGTCP2_MAX_VARINT, is settings.max_data and what the
\* application was given and has returned.  So nothing is granted twice, data
\* held fits into both windows, and the window shrinks by the data discarded
\* after STOP_SENDING and by nothing else.  Every limit can be encoded.
Accounted ==
  /\ TypeOK
  /\ conn_rx_offset = SumOver(last_rx_offset) /\ conn_rx_offset <= conn_tx_offset
  /\ conn_unsent_max_rx_offset =
       Min({MAX_VARINT, MaxData - conn_credit + SumOver(InOrder)})
  /\ conn_max_rx_offset <= conn_unsent_max_rx_offset
  /\ \A s \in Streams :
        /\ Cardinality(rx[s]) - (RxOffset(rx[s]) - credit[s]) <= MaxStreamData
        /\ max_rx_offset[s] <= unsent_max_rx_offset[s]
        /\ unsent_max_rx_offset[s] <= MAX_VARINT
  /\ Cardinality(Arrived) - (SumOver(InOrder) - conn_credit) <= MaxData

\* As long as the receiving application reads all streams, the sender gets rid
\* of all its data: nobody waits for a MAX frame that is never sent.
EverythingSent ==
  <>(\/ \E s \in Streams : "STOP_SENDING" \in shut[s]
     \/ \A s \in Streams : Cardinality(rx[s]) = Total)

\* conn->max_tx_offset is the maximum offset that the local endpoint can send
\* (lib/ngtcp2_conn.h:218).
WithinLimit == conn_tx_offset <= conn_max_tx_offset

\* strm->max_tx_offset is the maximum offset that the local endpoint can send
\* for a stream (lib/ngtcp2_strm.h:70): once the transport parameters of the
\* peer are known, at least what they grant.
StreamLimitKnown ==
  params => \A s \in opened : max_tx_offset[s] >= MaxStreamData
=============================================================================
