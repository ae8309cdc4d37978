----------------------------- MODULE Handshake -----------------------------
(***************************************************************************)
(* The states of a connection, from NGTCP2_CS_*_INITIAL to the draining    *)
(* period, at a client and a server: ngtcp2_conn_recv and                  *)
(* ngtcp2_conn_write_pkt with what they call while the handshake runs, the *)
(* buffer for protected packets that come too early, 0-RTT packets,        *)
(* stateless retry, failure of the TLS handshake, and closing              *)
(* (lib/ngtcp2_conn.c).                                                    *)
(*                                                                         *)
(* Stream 0 carries chunks.  The client's are the ClientHello and Finished, *)
(* the server's the ServerFlight chunks of its flight; a failed TLS session *)
(* sends an alert in place of its next chunk.  net is the set of the        *)
(* contents of packets: one that arrives again stands for a retransmission *)
(* with a packet number of its own.  (A copy with the same number is an    *)
(* error, NGTCP2_ERR_PROTO of ngtcp2_acktr_add; it is left out here.)  ACK *)
(* frames are the action conn_recv_ack: Acktr and RtbList have the rest.   *)
(***************************************************************************)
EXTENDS Integers, Sequences

CONSTANTS
  ServerFlight,   \* number of chunks of the server's flight
  Data,           \* packets of stream data that the client sends
  MaxBuffed,      \* NGTCP2_MAX_NUM_BUFFED_RX_PPKTS, 16 in the code
  Scenarios       \* the sets of events from which one is chosen

\* What a connection may meet: the client has 0-RTT keys, the server answers
\* the first Initial packet with Retry, a TLS session fails, an application
\* closes the connection, packets get lost, a packet is not acknowledged by its
\* deadline.
Events == {"early", "retry", "fail", "close", "lose", "timeout"}

ASSUME ScenariosAssumption == Scenarios \subseteq SUBSET Events

\* The server answers with at least one chunk.
ASSUME SizesAssumption == ServerFlight \in Nat \ {0} /\ MaxBuffed \in Nat

VARIABLES
  events,             \* those that may happen
  state, completed, recv_protected,   \* of each endpoint
  connid, retry,      \* client: conn_id, NGTCP2_CONN_FLAG_STATELESS_RETRY
  negotiated,         \* NGTCP2_CONN_FLAG_CONN_ID_NEGOTIATED
  rx0, tx0,           \* chunks of stream 0: received, number written
  tls,                \* "ok", "failed", or "alerted" by the peer
  rtb, early_rtb,     \* chunks and data that were sent and are not acked
  buffed_rx_ppkts,
  app_tx, app_rx,     \* stream data that the client wrote, that was processed
  early_ok,           \* the server's TLS session accepts 0-RTT data
  got_close,          \* a CONNECTION_CLOSE frame was processed
  fatal,              \* error that made the application delete the connection
  net

End == {"client", "server"}
Peer(e) == IF e = "client" THEN "server" ELSE "client"

keys  == <<events, early_ok, retry, connid, negotiated, app_tx>>
local == <<state, completed, recv_protected, rx0, tx0, tls, rtb, early_rtb,
           buffed_rx_ppkts, app_rx, got_close, fatal>>
vars  == <<keys, local, net>>

Set(f, e, v) == [f EXCEPT ![e] = v]

\* What a packet carries and the retransmission buffer keeps: a chunk of
\* stream 0, or data of another stream.
Chunk(off, alert) == [off |-> off, alert |-> alert, data |-> "none"]
DataItem(d) == [off |-> 0, alert |-> FALSE, data |-> d]
Nothing == Chunk(0, FALSE)

\* A packet.  A chunk with an alert is followed by CONNECTION_CLOSE.
Packet(from, type, cid, item) ==
  [from |-> from, type |-> type, cid |-> cid, item |-> item,
   cookie |-> FALSE, close |-> item.alert]

\* The packet for a chunk of stream 0: conn_write_handshake_pkt, and
\* conn_retransmit_unprotected with the connection id of the moment.
HandshakePkt(e, chunk) ==
  IF e = "client" /\ chunk.off = 1
  THEN [Packet(e, "INITIAL", connid, chunk) EXCEPT !.cookie = retry]
  ELSE Packet(e, "HANDSHAKE", IF e = "server" THEN "s" ELSE connid, chunk)

ShortPkt(e, item) == Packet(e, "SHORT", "s", item)

Send(p) == net' = net \cup {p}

\* conn_new, ngtcp2_conn_client_new, ngtcp2_conn_server_new
Init ==
  /\ events \in Scenarios
  /\ state = [e \in End |-> IF e = "client" THEN "CLIENT_INITIAL" ELSE "SERVER_INITIAL"]
  /\ completed = [e \in End |-> FALSE] /\ recv_protected = [e \in End |-> FALSE]
  /\ connid = "c" /\ retry = FALSE /\ negotiated = [e \in End |-> FALSE]
  /\ rx0 = [e \in End |-> {}] /\ tx0 = [e \in End |-> 0] /\ tls = [e \in End |-> "ok"]
  /\ rtb = [e \in End |-> {}] /\ early_rtb = {} /\ app_tx = {}
  /\ buffed_rx_ppkts = [e \in End |-> <<>>]
  /\ app_rx = [e \in End |-> {}] /\ early_ok \in (IF "early" \in events THEN BOOLEAN ELSE {FALSE})
  /\ got_close = [e \in End |-> FALSE] /\ fatal = [e \in End |-> "none"]
  /\ net = {}

-----------------------------------------------------------------------------
(* TLS *)

\* The first n chunks of stream 0 have arrived.
HasFirst(chunks, n) == \A k \in 1 .. n : \E c \in chunks : c.off = k

\* conn_emit_pending_stream0_data: how many chunks the TLS session has got,
\* which is all before the first gap.
Prefix(chunks) ==
  CHOOSE n \in 0 .. ServerFlight + 1 :
    HasFirst(chunks, n) /\ \A m \in 0 .. ServerFlight + 1 : HasFirst(chunks, m) => m <= n

\* The peer's stream is complete.
FlightEnd(e) == IF e = "client" THEN ServerFlight ELSE 2

\* How many chunks the TLS session has produced for stream 0.
TlsOut(e) ==
  IF tls[e] = "alerted" THEN tx0[e]
  ELSE IF e = "client" THEN IF completed[e] \/ tls[e] = "failed" THEN 2 ELSE 1
  ELSE IF Prefix(rx0[e]) = 0 THEN 0
  ELSE IF tls[e] = "ok" THEN ServerFlight
  ELSE IF Prefix(rx0[e]) = 1 THEN 1 ELSE ServerFlight + 1

NextChunk(e) ==
  Chunk(tx0[e] + 1, tls[e] = "failed" /\ tx0[e] + 1 = TlsOut(e))

\* The key for 0-RTT packets is set when the ClientHello has been accepted.
early_ckm ==
  /\ early_ok /\ Prefix(rx0["server"]) > 0
  /\ tls["server"] = "ok" \/ Prefix(rx0["server"]) > 1

-----------------------------------------------------------------------------
(* Writing *)

\* conn_write_handshake_pkt: the next chunk of stream 0.
WriteChunk(e, next) ==
  /\ tx0[e] < TlsOut(e)
  /\ Send(HandshakePkt(e, NextChunk(e)))
  /\ tx0' = Set(tx0, e, tx0[e] + 1)
  /\ rtb' = Set(rtb, e, rtb[e] \cup {NextChunk(e)})
  /\ state' = Set(state, e, next)
  /\ UNCHANGED <<keys, completed, recv_protected, rx0, tls, early_rtb,
                 buffed_rx_ppkts, app_rx, got_close, fatal>>

Fail(e, error) ==
  /\ fatal' = Set(fatal, e, error)
  /\ UNCHANGED <<keys, state, completed, recv_protected, rx0, tx0, tls, rtb,
                 early_rtb, buffed_rx_ppkts, app_rx, got_close, net>>

\* ngtcp2_conn_write_pkt, case NGTCP2_CS_CLIENT_INITIAL
WriteClientInitial ==
  /\ state["client"] = "CLIENT_INITIAL"
  /\ WriteChunk("client", "CLIENT_WAIT_HANDSHAKE")

\* NGTCP2_CS_CLIENT_HANDSHAKE_ALMOST_FINISHED, Finished is not written yet
WriteClientFinished ==
  /\ state["client"] = "ALMOST_FINISHED"
  /\ WriteChunk("client", "ALMOST_FINISHED")

\* The same, and nothing is left to write: conn_process_early_rtb
ClientPostHandshake ==
  /\ state["client"] = "ALMOST_FINISHED" /\ tx0["client"] = TlsOut("client")
  /\ state' = Set(state, "client", "POST_HANDSHAKE")
  /\ rtb' = Set(rtb, "client", rtb["client"] \cup early_rtb)
  /\ early_rtb' = {}
  /\ UNCHANGED <<keys, completed, recv_protected, rx0, tx0, tls,
                 buffed_rx_ppkts, app_rx, got_close, fatal, net>>

\* NGTCP2_CS_SERVER_INITIAL
WriteServerInitial ==
  /\ state["server"] = "SERVER_INITIAL"
  /\ IF TlsOut("server") = 0 THEN Fail("server", "CALLBACK_FAILURE")
     ELSE WriteChunk("server", "SERVER_WAIT_HANDSHAKE")

\* NGTCP2_CS_SERVER_WAIT_HANDSHAKE
WriteServerHandshake ==
  /\ state["server"] = "SERVER_WAIT_HANDSHAKE"
  /\ WriteChunk("server", "SERVER_WAIT_HANDSHAKE")

\* NGTCP2_CS_CLIENT_TLS_HANDSHAKE_FAILED, NGTCP2_CS_SERVER_TLS_HANDSHAKE_FAILED
WriteFailed(e) ==
  /\ state[e] = "TLS_HANDSHAKE_FAILED"
  /\ \/ WriteChunk(e, "TLS_HANDSHAKE_FAILED")
     \/ tx0[e] = TlsOut(e) /\ Fail(e, "TLS_HANDSHAKE")

\* NGTCP2_CS_POST_HANDSHAKE: conn_write_pkt has an ACK to send.
WritePostHandshake(e) ==
  /\ state[e] = "POST_HANDSHAKE" /\ (e = "server" \/ app_rx[e] # {})
  /\ Send(ShortPkt(e, Nothing))
  /\ UNCHANGED <<keys, local>>

\* ngtcp2_conn_write_pkt is called, and conn_retransmit has written nothing.
\* The server's object exists once a packet of the client has arrived.
ngtcp2_conn_write_pkt(e) ==
  /\ fatal[e] = "none"
  /\ \/ e = "client" /\ (WriteClientInitial \/ WriteClientFinished \/ ClientPostHandshake)
     \/ /\ e = "server" /\ (rx0[e] # {} \/ buffed_rx_ppkts[e] # <<>>)
        /\ (WriteServerInitial \/ WriteServerHandshake)
     \/ WriteFailed(e)
     \/ WritePostHandshake(e)

\* NGTCP2_ERR_PKT_TIMEOUT: the entry has reached its deadline.  It is deleted,
\* and the call fails.
PktTimeout(e, ent) ==
  /\ "timeout" \in events
  /\ rtb' = Set(rtb, e, rtb[e] \ {ent})
  /\ fatal' = Set(fatal, e, "PKT_TIMEOUT")
  /\ UNCHANGED <<keys, state, completed, recv_protected, rx0, tx0, tls, early_rtb,
                 buffed_rx_ppkts, app_rx, got_close, net>>

\* What conn_retransmit leaves alone when it succeeds.
retransmitUnchanged ==
  <<keys, state, completed, recv_protected, rx0, tx0, tls, early_rtb,
    buffed_rx_ppkts, app_rx, got_close, fatal>>

\* Mutant: an Initial or Handshake packet is put back as if it did not fit.
RetransmitPutsBack(e, ent) ==
  /\ IF ent.off = 0 THEN Send(ShortPkt(e, ent)) /\ UNCHANGED rtb
     ELSE IF recv_protected[e] THEN rtb' = Set(rtb, e, rtb[e] \ {ent}) /\ UNCHANGED net
     ELSE UNCHANGED <<rtb, net>>
  /\ UNCHANGED retransmitUnchanged

\* The entry is sent again.  One of the handshake is dropped instead when a
\* protected packet has been processed.
Resend(e, ent) ==
  /\ IF ent.off = 0 THEN Send(ShortPkt(e, ent)) /\ UNCHANGED rtb
     ELSE IF recv_protected[e] THEN rtb' = Set(rtb, e, rtb[e] \ {ent}) /\ UNCHANGED net
     ELSE Send(HandshakePkt(e, ent)) /\ UNCHANGED rtb
  /\ UNCHANGED retransmitUnchanged

\* conn_retransmit: an entry has expired.  Any entry may have reached its
\* deadline by then, NGTCP2_PKT_DEADLINE_PERIOD after it was first sent.
conn_retransmit(e, ent) ==
  /\ fatal[e] = "none" /\ ent \in rtb[e]
  /\ PktTimeout(e, ent) \/ Resend(e, ent)

\* ngtcp2_conn_write_stream of the client: protected once there is a key,
\* otherwise in a 0-RTT packet.
ngtcp2_conn_write_stream(d) ==
  /\ fatal["client"] = "none" /\ d \notin app_tx
  /\ app_tx' = app_tx \cup {d}
  /\ IF completed["client"]
     THEN /\ Send(ShortPkt("client", DataItem(d)))
          /\ rtb' = Set(rtb, "client", rtb["client"] \cup {DataItem(d)})
          /\ UNCHANGED early_rtb
     ELSE /\ "early" \in events /\ (state["client"] # "CLIENT_INITIAL" \/ retry)
          /\ Send(Packet("client", "0RTT_PROTECTED", "c", DataItem(d)))
          /\ early_rtb' = early_rtb \cup {DataItem(d)}
          /\ UNCHANGED rtb
  /\ UNCHANGED <<events, early_ok, retry, connid, negotiated, state, completed,
                 recv_protected, rx0, tx0, tls, buffed_rx_ppkts, app_rx,
                 got_close, fatal>>

\* ngtcp2_conn_write_connection_close, ngtcp2_conn_write_application_close
ngtcp2_conn_write_connection_close(e) ==
  /\ "close" \in events /\ fatal[e] = "none" /\ state[e] = "POST_HANDSHAKE"
  /\ Send([ShortPkt(e, Nothing) EXCEPT !.close = TRUE])
  /\ state' = Set(state, e, "CLOSING")
  /\ UNCHANGED <<keys, completed, recv_protected, rx0, tx0, tls, rtb, early_rtb,
                 buffed_rx_ppkts, app_rx, got_close, fatal>>

-----------------------------------------------------------------------------
(* Receiving *)

DataOf(pkts) == {p.item.data : p \in pkts} \ {"none"}

\* conn_buffer_protected_pkt
conn_buffer_protected_pkt(e, p) ==
  /\ buffed_rx_ppkts' = Set(buffed_rx_ppkts, e,
        IF Len(buffed_rx_ppkts[e]) = MaxBuffed THEN buffed_rx_ppkts[e]
        ELSE Append(buffed_rx_ppkts[e], p))
  /\ UNCHANGED <<keys, state, completed, recv_protected, rx0, tx0, tls, rtb,
                 early_rtb, app_rx, got_close, fatal, net>>

\* conn_recv_pkt: protected packets, when there is a key.
conn_recv_pkt(e, p) ==
  /\ recv_protected' = Set(recv_protected, e, recv_protected[e] \/ p.type = "SHORT")
  /\ app_rx' = Set(app_rx, e, app_rx[e] \cup DataOf({p}))
  /\ got_close' = Set(got_close, e, got_close[e] \/ p.close)
  /\ state' = Set(state, e, IF p.close THEN "DRAINING" ELSE state[e])
  /\ UNCHANGED <<keys, completed, rx0, tx0, tls, rtb, early_rtb,
                 buffed_rx_ppkts, fatal, net>>

\* Mutant: buffered packets wait for the end of the handshake.
ReleasesBufferLate(e, done, failed) == done

\* The buffered packets are processed when the handshake is completed
\* (conn_process_buffered_protected_pkt) and, for 0-RTT packets, when the
\* Initial packet has arrived (conn_process_buffered_0rtt_pkt).
ReleasesBuffer(e, done, failed) ==
  done \/ (state[e] = "SERVER_INITIAL" /\ ~failed)

\* conn_recv_handshake_pkt for a packet that is accepted, and what
\* ngtcp2_conn_recv does after it.  fails: the TLS session fails when it gets
\* the new data.  The loop over the buffered packets goes on after a
\* CONNECTION_CLOSE.
conn_recv_handshake_pkt(e, p, fails) ==
  LET chunks  == rx0[e] \cup {p.item}
      new     == Prefix(chunks) > Prefix(rx0[e])
      alerted == \E c \in chunks : c.alert /\ c.off <= Prefix(chunks)
      failed  == new /\ (alerted \/ fails \/ tls[e] # "ok")
      done    == new /\ ~failed /\ Prefix(chunks) = FlightEnd(e)
      release == ReleasesBuffer(e, done, failed)
      used    == IF release /\ (done \/ early_ok)
                 THEN {buffed_rx_ppkts[e][i] : i \in DOMAIN buffed_rx_ppkts[e]} ELSE {}
      closed  == \E x \in used : x.close
  IN  /\ rx0' = Set(rx0, e, chunks)
      /\ tls' = Set(tls, e, IF ~failed THEN tls[e] ELSE IF alerted THEN "alerted" ELSE "failed")
      /\ completed' = Set(completed, e, completed[e] \/ done)
      /\ negotiated' = Set(negotiated, e, TRUE)
      /\ connid' = IF e = "client" THEN p.cid ELSE connid
      /\ got_close' = Set(got_close, e, got_close[e] \/ p.close \/ closed)
      /\ state' = Set(state, e,
            IF failed /\ state[e] # "TLS_HANDSHAKE_FAILED" THEN "TLS_HANDSHAKE_FAILED"
            ELSE IF closed \/ p.close THEN "DRAINING"
            ELSE IF done THEN IF e = "client" THEN "ALMOST_FINISHED" ELSE "POST_HANDSHAKE"
            ELSE state[e])
      /\ fatal' = IF failed /\ state[e] = "TLS_HANDSHAKE_FAILED"
                  THEN Set(fatal, e, "TLS_HANDSHAKE") ELSE fatal
      /\ app_rx' = Set(app_rx, e, app_rx[e] \cup DataOf(used))
      /\ recv_protected' = Set(recv_protected, e,
                               recv_protected[e] \/ \E x \in used : x.type = "SHORT")
      /\ buffed_rx_ppkts' = IF release THEN Set(buffed_rx_ppkts, e, <<>>)
                            ELSE buffed_rx_ppkts
      /\ UNCHANGED <<events, early_ok, retry, app_tx, tx0, rtb, early_rtb, net>>

Handshaking(e) ==
  state[e] \in {"CLIENT_WAIT_HANDSHAKE", "SERVER_INITIAL", "SERVER_WAIT_HANDSHAKE",
                "TLS_HANDSHAKE_FAILED"}

\* ngtcp2_conn_recv for a packet with a short header.
RecvShort(e, p) ==
  \/ Handshaking(e) /\ state[e] # "SERVER_INITIAL" /\ conn_buffer_protected_pkt(e, p)
  \/ state[e] \in {"ALMOST_FINISHED", "POST_HANDSHAKE"} /\ conn_recv_pkt(e, p)

\* 0-RTT packets, at the server.
Recv0rtt(p) ==
  \/ Handshaking("server") /\ ~negotiated["server"] /\ conn_buffer_protected_pkt("server", p)
  \/ /\ Handshaking("server") \/ state["server"] = "POST_HANDSHAKE"
     /\ early_ckm /\ conn_recv_pkt("server", p)

\* Mutant: the object of stream 0 is not replaced.
RetryKeepsStream0 ==
  /\ retry' = TRUE
  /\ rtb' = Set(rtb, "client", {})
  /\ negotiated' = Set(negotiated, "client", FALSE)
  /\ state' = Set(state, "client", "CLIENT_INITIAL")
  /\ UNCHANGED <<events, early_ok, connid, app_tx, completed, recv_protected, rx0, tx0, tls,
                 early_rtb, buffed_rx_ppkts, app_rx, got_close, fatal, net>>

\* conn_recv_server_stateless_retry
conn_recv_server_stateless_retry ==
  /\ retry' = TRUE
  /\ rx0' = Set(rx0, "client", {}) /\ tx0' = Set(tx0, "client", 0)
  /\ rtb' = Set(rtb, "client", {})
  /\ negotiated' = Set(negotiated, "client", FALSE)
  /\ state' = Set(state, "client", "CLIENT_INITIAL")
  /\ UNCHANGED <<events, early_ok, connid, app_tx, completed, recv_protected, tls, early_rtb,
                 buffed_rx_ppkts, app_rx, got_close, fatal, net>>

\* A Retry packet, at the client.
RecvRetry(p) ==
  /\ Handshaking("client")
  /\ IF rx0["client"] # {} THEN Fail("client", "PROTO")
     ELSE connid = p.cid /\ conn_recv_server_stateless_retry

\* Initial and Handshake packets.
RecvHandshake(e, p) ==
  /\ Handshaking(e)
  /\ IF e = "server" THEN p.type = "HANDSHAKE" => p.cid = "s"
                     ELSE negotiated[e] => p.cid = connid
  /\ \E fails \in (IF "fail" \in events THEN BOOLEAN ELSE {FALSE}) :
        conn_recv_handshake_pkt(e, p, fails)

\* Mutant: a packet of the handshake is an error when the handshake is over.
DelayedIsError(e, p) ==
  /\ state[e] \in {"ALMOST_FINISHED", "POST_HANDSHAKE"}
  /\ Fail(e, "PROTO")

\* conn_recv_delayed_handshake_pkt: an alert makes the TLS session fail after
\* the handshake, everything else is old data.
conn_recv_delayed_handshake_pkt(e, p) ==
  /\ state[e] \in {"ALMOST_FINISHED", "POST_HANDSHAKE"} /\ p.close
  /\ Fail(e, "TLS_FATAL_ALERT_RECEIVED")

\* The server takes the Initial packet that its retry policy asks for.
ngtcp2_conn_recv(e, p) ==
  /\ fatal[e] = "none" /\ p \in net /\ p.from # e
  /\ \/ p.type = "SHORT" /\ RecvShort(e, p)
     \/ p.type = "0RTT_PROTECTED" /\ Recv0rtt(p)
     \/ p.type = "RETRY" /\ RecvRetry(p)
     \/ p.type = "INITIAL" /\ p.cookie = ("retry" \in events) /\ RecvHandshake(e, p)
     \/ p.type = "HANDSHAKE" /\ (RecvHandshake(e, p) \/ conn_recv_delayed_handshake_pkt(e, p))

\* conn_recv_ack: what the peer has processed is released.
conn_recv_ack(e, ent) ==
  /\ fatal[e] = "none" /\ ent \in rtb[e]
  /\ state[e] \notin {"CLIENT_INITIAL", "SERVER_INITIAL", "CLOSING", "DRAINING"}
  /\ IF ent.off = 0 THEN ent.data \in app_rx[Peer(e)] ELSE ent \in rx0[Peer(e)]
  /\ rtb' = Set(rtb, e, rtb[e] \ {ent})
  /\ UNCHANGED <<keys, state, completed, recv_protected, rx0, tx0, tls, early_rtb,
                 buffed_rx_ppkts, app_rx, got_close, fatal, net>>

\* A server without state answers an Initial packet.
StatelessRetry(p) ==
  /\ "retry" \in events /\ p \in net /\ p.type = "INITIAL" /\ ~p.cookie
  /\ Send(Packet("server", "RETRY", p.cid, Nothing))
  /\ UNCHANGED <<keys, local>>

Lose(p) ==
  /\ "lose" \in events /\ p \in net
  /\ net' = net \ {p}
  /\ UNCHANGED <<keys, local>>

-----------------------------------------------------------------------------
Next ==
  \/ \E e \in End :
        \/ ngtcp2_conn_write_pkt(e)
        \/ \E ent \in rtb[e] : conn_retransmit(e, ent) \/ conn_recv_ack(e, ent)
        \/ ngtcp2_conn_write_connection_close(e)
        \/ \E p \in net : ngtcp2_conn_recv(e, p)
  \/ \E d \in Data : ngtcp2_conn_write_stream(d)
  \/ \E p \in net : StatelessRetry(p) \/ Lose(p)

Spec == Init /\ [][Next]_vars

Items == {DataItem(d) : d \in Data} \cup {Chunk(k, FALSE) : k \in 1 .. ServerFlight + 1}

\* The application writes when there is something to write and when an entry
\* expires, and the network does not lose every copy of a packet.
FairSpec ==
  /\ Spec
  /\ \A d \in Data : WF_vars(ngtcp2_conn_write_stream(d))
  /\ \A e \in End :
        /\ WF_vars(ngtcp2_conn_write_pkt(e))
        /\ \A ent \in Items : WF_vars(conn_retransmit(e, ent))
        /\ SF_vars(\E p \in net : ngtcp2_conn_recv(e, p))

-----------------------------------------------------------------------------
(* Properties *)

States ==
  {"CLIENT_INITIAL", "CLIENT_WAIT_HANDSHAKE", "ALMOST_FINISHED", "SERVER_INITIAL",
   "SERVER_WAIT_HANDSHAKE", "TLS_HANDSHAKE_FAILED", "POST_HANDSHAKE", "CLOSING", "DRAINING"}

TypeOK ==
  /\ state \in [End -> States]
  /\ completed \in [End -> BOOLEAN] /\ recv_protected \in [End -> BOOLEAN]
  /\ connid \in {"c", "s"} /\ negotiated \in [End -> BOOLEAN]
  /\ tx0 \in [End -> 0 .. ServerFlight + 1]
  /\ app_tx \subseteq Data /\ \A e \in End : app_rx[e] \subseteq app_tx
  /\ \A e \in End : Len(buffed_rx_ppkts[e]) <= MaxBuffed

\* A chunk of stream 0 that was sent is retransmitted until the peer has it, as
\* long as no call has failed: NGTCP2_CONN_FLAG_RECV_PROTECTED_PKT, which ends
\* the retransmission of the handshake, is never set while the peer still waits
\* for a part of it.
HandshakeDataKept ==
  \A e \in End : fatal[e] = "none" =>
     \A k \in 1 .. tx0[e] : \E c \in rtb[e] \cup rx0[Peer(e)] : c.off = k

\* The buffer of protected packets never exceeds its limit, and no packet is
\* forgotten in it when the state it waited for is reached; nor does data
\* overtake the keys by way of the buffer: the server processes 0-RTT data only
\* if it accepted it, all other data after the handshake.  CONNECTION_CLOSE
\* starts the draining period, whatever else ngtcp2_conn_recv has to record,
\* except that the TLS session has failed.
NothingStranded ==
  /\ TypeOK
  /\ \A e \in End : got_close[e] => state[e] = "DRAINING" \/ tls[e] # "ok"
  /\ app_rx["server"] # {} => completed["server"] \/ early_ckm
  /\ \A e \in End : completed[e] => buffed_rx_ppkts[e] = <<>>
  /\ state["server"] = "SERVER_WAIT_HANDSHAKE" =>
        \A i \in DOMAIN buffed_rx_ppkts["server"] : buffed_rx_ppkts["server"][i].type = "SHORT"

\* Reordering, loss and retransmission make no call of ngtcp2_conn_recv or
\* ngtcp2_conn_write_pkt fail but the one that finds an entry at its deadline
\* (NGTCP2_ERR_PKT_TIMEOUT), as long as no packet number repeats: an endpoint
\* meets every order of the packets of its peer in a state that has a use for
\* each, buffers it or ignores it.
OnlyTimeoutFails ==
  events \subseteq {"close", "lose", "timeout"} =>
    \A e \in End : fatal[e] \in {"none", "PKT_TIMEOUT"}

\* Every handshake ends at both endpoints, and all data arrives, although
\* packets get lost, protected packets come early and the buffer for them is
\* full, unless a packet has not been acknowledged by its deadline.
Connected ==
  events \subseteq {"lose", "timeout"} =>
    \/ <>[](/\ app_rx["server"] = Data
            /\ \A e \in End : state[e] = "POST_HANDSHAKE")
    \/ <>(\E e \in End : fatal[e] = "PKT_TIMEOUT")

\* ngtcp2_conn_write_pkt: "If there is no packet to send, this function
\* returns 0." (lib/includes/ngtcp2/ngtcp2.h:955)
NothingToSend == \A e \in End : fatal[e] # "CALLBACK_FAILURE"

\* An endpoint that has received CONNECTION_CLOSE is in the draining period,
\* and ngtcp2_conn_in_draining_period says so
\* (lib/includes/ngtcp2/ngtcp2.h:1359).
ClosedIsDraining == \A e \in End : got_close[e] => state[e] = "DRAINING"

\* A successful call of ngtcp2_conn_write_connection_close makes the
\* connection close (lib/includes/ngtcp2/ngtcp2.h:1301): no packet is written
\* after it.
ClosedSendsNothing ==
  [][\A e \in End : state[e] = "CLOSING" =>
        \A p \in net' : p.from = e => p \in net]_vars
=============================================================================
