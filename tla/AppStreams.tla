----------------------------- MODULE AppStreams -----------------------------
(***************************************************************************)
(* The streams of the example programs: the buffers that Handler           *)
(* (examples/server.cc) and Client (examples/client.cc) fill, hand to      *)
(* ngtcp2_conn_write_stream, send as datagrams, and free when the peer has *)
(* acknowledged them.                                                      *)
(*                                                                         *)
(* One connection of one program, after the handshake or, for a client     *)
(* that resumes a session, with 0-RTT keys.  The library underneath is cut *)
(* down to what the programs see of it: what a call returns, which         *)
(* callbacks it makes, which bytes are in flight.  A packet carries at     *)
(* most one unit of data, and a packet without data counts 0 in            *)
(* bytes_in_flight.  A packet that was sent arrives in the end, before its *)
(* deadline: RtbList has the retransmission.  The peer of the client is    *)
(* the server of this module, which resets a stream only when it is asked  *)
(* to; the peer of the server is any client: its frames come in any order, *)
(* reset streams, break the protocol, or close the connection.             *)
(***************************************************************************)
EXTENDS Integers, SequencesExt, FiniteSetsExt

CONSTANTS
  Plans,                \* connections, as records:
                        \*   role, ids (all stream ids), win (stream window),
                        \*   sends (how many sendto calls of one callback succeed
                        \*   before EAGAIN),
                        \*   greeting, responses, plain (server: the streams it opens,
                        \*   the buffers of a response as sequences of lengths, a
                        \*   client that only sends requests, the pieces in order,
                        \*   and answers STOP_SENDING),
                        \*   nstreams, allowed, resumption, interactive, file (client)
  MAX_BYTES_IN_FLIGHT,  \* in units
  MaxInput              \* bound: pieces of interactive input

VARIABLES
  plan,        \* the program, its configuration and its streams
  streams,     \* streams_: Stream objects by stream id
  strms,       \* the library's streams
  allowed,     \* ids that may be opened (max_local_stream_id_bidi)
  nstreams_done,
  early,       \* client: "off", "on" (0-RTT keys), "rejected"
  stdin,       \* client: stdinrev_ is active; input: pieces read so far
  input,
  pkts,        \* packets sent or to be sent that are not acknowledged
  sendbuf,     \* sendbuf_: the packets in it
  ctl,         \* the library has an ACK, a control frame or a lost frame to send
  wev,         \* an EV_WRITE event of the socket is waited for or fed
  rttimer,     \* rttimer_ is active
  over         \* "no", or how the connection ended

app_vars == <<plan, streams, strms, allowed, nstreams_done, early, stdin, input,
              pkts, sendbuf, ctl, wev, rttimer, over>>

Server == plan.role = "server"

Buffer(len) == [len |-> len, head |-> 0]
Size(b) == b.len - b.head

Stream ==
  [streambuf |-> <<>>, idx |-> 0, tx_stream_offset |-> 0, should_send_fin |-> FALSE,
   resp_state |-> "IDLE", htp |-> "reading"]

\* Streams with a file, or with the greeting of the server.
WithBuffers(lens) ==
  [Stream EXCEPT !.streambuf = [i \in DOMAIN lens |-> Buffer(lens[i])],
                 !.should_send_fin = TRUE, !.resp_state = "COMPLETED"]

\* An ngtcp2_strm: flags SHUT_RD, SHUT_WR, STOP_SENDING, SENT_RST, RECV_RST, and
\* GAP: rob holds data, or a FIN, that came before the first data; history CALLED:
\* recv_stream_data has been called.
Strm(st, flags, win) ==
  [st |-> st, flags |-> flags, tx |-> 0, win |-> win, acked |-> {}]

CtlPkt == [id |-> 0, off |-> 0, len |-> 0, fin |-> FALSE, out |-> FALSE]

\* Server: handshake_completed has called send_greeting.  Client: keys for
\* 0-RTT packets if the session is resumed, nothing opened yet.
AppInit ==
  /\ plan \in Plans
  /\ streams = [id \in plan.greeting |-> WithBuffers(<<1>>)]
  /\ strms = [id \in plan.ids |-> IF id \in plan.greeting THEN Strm("open", {"SHUT_RD"}, plan.win)
                                  ELSE Strm("none", {}, plan.win)]
  /\ allowed = plan.allowed /\ nstreams_done = 0
  /\ early = IF plan.resumption THEN "on" ELSE "off"
  /\ stdin = FALSE /\ input = 0
  /\ pkts = {} /\ sendbuf = <<>> /\ ctl = FALSE
  /\ wev = FALSE /\ rttimer = FALSE /\ over = "no"

-----------------------------------------------------------------------------
(* What one callback of the event loop changes, step by step: h has the    *)
(* state, sends, the sendto calls that will succeed before EAGAIN, and rv, *)
(* what the last call returned.                                            *)

Now(n) ==
  [streams |-> streams, strms |-> strms, pkts |-> pkts, sendbuf |-> sendbuf, ctl |-> ctl,
   stdin |-> stdin, rttimer |-> rttimer, over |-> over, sends |-> n, rv |-> "OK"]

Become(h) ==
  /\ streams' = h.streams /\ strms' = h.strms /\ pkts' = h.pkts /\ sendbuf' = h.sendbuf
  /\ ctl' = h.ctl /\ stdin' = h.stdin /\ rttimer' = h.rttimer

InFlight(h) == MapThenSumSet(LAMBDA p : p.len, h.pkts)

\* Server::send_packet, Client::send_packet.  A datagram that is dropped on
\* purpose is one that the network loses.
send_packet(h) ==
  IF h.sends = 0 THEN [h EXCEPT !.rv = "SEND_NON_FATAL"]
  ELSE [h EXCEPT !.sends = @ - 1, !.rv = "OK", !.sendbuf = <<>>,
                 !.pkts = {IF p \in ToSet(h.sendbuf) THEN [p EXCEPT !.out = TRUE] ELSE p : p \in @}]

\* A packet is written at sendbuf_.wpos() with max_pktlen_ bytes of room.  If
\* sendbuf_ holds one already there is less: nothing is said of what follows.
Put(h, p) ==
  IF h.sendbuf = <<>> THEN [h EXCEPT !.sendbuf = <<p>>]
  ELSE [h EXCEPT !.over = "overrun"]

\* ngtcp2_conn_write_stream: how much is written, or an error.
ngtcp2_conn_write_stream(h, id, datalen) ==
  LET s == h.strms[id]
      n == Min({datalen, 1, s.win - s.tx})
  IN  [ndatalen |-> n,
       rv |-> IF s.st # "open" THEN "STREAM_NOT_FOUND"
              ELSE IF "SHUT_WR" \in s.flags THEN "STREAM_SHUT_WR"
              ELSE IF early = "rejected" THEN "EARLY_DATA_REJECTED"
              ELSE IF datalen > 0 /\ n = 0 THEN "STREAM_DATA_BLOCKED" ELSE "OK"]

\* Mutant: a stream that was shut down is an error.
IgnoredBlockedOnly == {"STREAM_DATA_BLOCKED"}

\* Errors after which a program goes on with the next stream.
Ignored == {"STREAM_DATA_BLOCKED", "STREAM_SHUT_WR"}
             \cup (IF Server THEN {} ELSE {"EARLY_DATA_REJECTED", "STREAM_NOT_FOUND"})

\* The library keeps the frame; the buffer and the stream move on by n.
Taken(h, id, i, fin, n) ==
  LET s == h.strms[id]
      b == h.streams[id].streambuf[i]
      last == fin /\ (i = 0 \/ n = Size(b))
      p == [id |-> id, off |-> s.tx, len |-> n, fin |-> last, out |-> FALSE]
      h1 == [h EXCEPT !.pkts = @ \cup {p},
                      !.strms[id].tx = @ + n,
                      !.strms[id].flags = @ \cup (IF last THEN {"SHUT_WR"} ELSE {})]
      h2 == IF i = 0 THEN h1 ELSE [h1 EXCEPT !.streams[id].streambuf[i].head = @ + n]
  IN  Put(h2, p)

\* Handler::write_stream_data, Client::on_write_stream: buffer i of the stream,
\* or no data at all if i is 0.
RECURSIVE write_stream_data(_, _, _, _)
write_stream_data(h, id, i, fin) ==
  LET size(g) == IF i = 0 THEN 0 ELSE Size(g.streams[id].streambuf[i])
      w == ngtcp2_conn_write_stream(h, id, size(h))
  IN  IF InFlight(h) >= MAX_BYTES_IN_FLIGHT \/ w.rv \in Ignored THEN [h EXCEPT !.rv = "OK"]
      ELSE IF w.rv # "OK" THEN [h EXCEPT !.over = "error", !.rv = "CLOSE_WAIT"]
      ELSE LET g == send_packet(Taken(h, id, i, fin, w.ndatalen))
           IN  IF g.over # "no" \/ g.rv # "OK" \/ size(g) = 0 THEN g
               ELSE write_stream_data(g, id, i, fin)

\* A buffer is done; only the server clears should_send_fin.
Advance(h, id, fin) ==
  IF Size(h.streams[id].streambuf[h.streams[id].idx + 1]) > 0 THEN h
  ELSE [h EXCEPT !.streams[id].idx = @ + 1, !.streams[id].should_send_fin = @ /\ ~(fin /\ Server)]

\* The loop over the buffers of a stream from streambuf_idx.
RECURSIVE WriteBuffers(_, _)
WriteBuffers(h, id) ==
  LET s == h.streams[id]
      fin == s.should_send_fin /\ s.idx = Len(s.streambuf) - 1
      g == write_stream_data(h, id, s.idx + 1, fin)
      a == Advance(g, id, fin)
  IN  IF s.idx = Len(s.streambuf) THEN h
      ELSE IF s.idx < 0 THEN [h EXCEPT !.over = "wrapped"]
      ELSE IF g.rv # "OK" \/ g.over # "no" THEN g
      ELSE IF a = g THEN g ELSE WriteBuffers(a, id)

\* Handler::on_write_stream.  The server sends a FIN without a buffer too; if
\* that fails, also for the moment only, the handler is given up.
on_write_stream(h, id) ==
  LET s == h.streams[id]
      bare == Server /\ s.idx = Len(s.streambuf) /\ s.should_send_fin
      g == write_stream_data([h EXCEPT !.streams[id].should_send_fin = FALSE], id, 0, TRUE)
  IN  IF ~bare THEN WriteBuffers(h, id)
      ELSE IF InFlight(h) >= MAX_BYTES_IN_FLIGHT THEN h
      ELSE IF g.rv = "OK" THEN g ELSE [g EXCEPT !.over = "removed"]

\* The streams, in the order of their ids, until one cannot be written.
RECURSIVE WriteStreams(_, _)
WriteStreams(h, ids) ==
  IF ids = {} \/ h.rv # "OK" \/ h.over # "no" THEN h
  ELSE WriteStreams(on_write_stream(h, Min(ids)), ids \ {Min(ids)})

\* The loop over ngtcp2_conn_write_pkt: EAGAIN ends it, and on_write goes on.
WritePkt(h) ==
  IF ~h.ctl THEN h
  ELSE [send_packet(Put([h EXCEPT !.ctl = FALSE], CtlPkt)) EXCEPT !.rv = "OK"]

\* schedule_retransmit, at the end of on_write.
schedule_retransmit(h) == IF h.rv = "OK" /\ h.pkts # {} THEN [h EXCEPT !.rttimer = TRUE] ELSE h

\* Handler::on_write, Client::on_write
on_write(h) ==
  LET f == IF h.sendbuf = <<>> THEN h ELSE send_packet(h)
  IN  IF h.over # "no" \/ f.rv # "OK" THEN f
      ELSE schedule_retransmit(WriteStreams(WritePkt(f), DOMAIN h.streams))

-----------------------------------------------------------------------------
(* Callbacks of the library *)

\* Client::on_stream_close, and Handler::on_stream_close, which asserts that
\* the stream is known.
on_stream_close(h, id) ==
  IF id \notin DOMAIN h.streams THEN [h EXCEPT !.over = IF Server THEN "assert" ELSE @]
  ELSE [h EXCEPT !.streams = [x \in DOMAIN @ \ {id} |-> @[x]],
                 !.stdin = @ /\ ~plan.interactive]

FirstGap(S) == CHOOSE n \in 0 .. Cardinality(S) : n \notin S /\ \A k \in 0 .. n - 1 : k \in S

\* ngtcp2_conn_close_stream_if_shut_rdwr
CloseIfShut(h, id) ==
  LET s == h.strms[id]
  IN  IF /\ s.st = "open" /\ {"SHUT_RD", "SHUT_WR"} \subseteq s.flags
         /\ "RECV_RST" \in s.flags \/ "GAP" \notin s.flags
         /\ "SENT_RST" \in s.flags \/ FirstGap(s.acked) = s.tx
      THEN on_stream_close([h EXCEPT !.strms[id].st = "closed"], id)
      ELSE h

\* Mutant: a buffer is freed when its last byte is acknowledged.
RECURSIVE PopByLastByte(_, _)
PopByLastByte(s, offset) ==
  IF s.streambuf = <<>> \/ s.tx_stream_offset + Head(s.streambuf).len > offset + 1 THEN s
  ELSE PopByLastByte([s EXCEPT !.idx = @ - 1, !.streambuf = Tail(@),
                               !.tx_stream_offset = @ + Head(s.streambuf).len], offset)

\* remove_tx_stream_data: free the buffers before offset.  idx may pass 0.
RECURSIVE remove_tx_stream_data(_, _)
remove_tx_stream_data(s, offset) ==
  IF s.streambuf = <<>> \/ s.tx_stream_offset + Head(s.streambuf).len > offset THEN s
  ELSE remove_tx_stream_data([s EXCEPT !.idx = @ - 1, !.streambuf = Tail(@),
                                       !.tx_stream_offset = @ + Head(s.streambuf).len], offset)

\* acked_stream_data_offset: Client::remove_tx_stream_data ignores a stream
\* that is closed.  Handler::remove_tx_stream_data asks the peer to stop when
\* the response is acknowledged: ngtcp2_conn_shutdown_stream_read.
acked_stream_data_offset(h, id, offset) ==
  IF id \notin DOMAIN h.streams THEN [h EXCEPT !.over = IF Server THEN "assert" ELSE @]
  ELSE LET s == remove_tx_stream_data(h.streams[id], offset)
       IN  [h EXCEPT !.streams[id] = s,
                     !.strms[id].flags =
                        @ \cup (IF Server /\ s.streambuf = <<>> /\ s.resp_state = "COMPLETED"
                                THEN {"STOP_SENDING"} ELSE {})]

\* The packet p is acknowledged: call_acked_stream_offset.
RecvAck(h, p) ==
  LET s == h.strms[p.id]
      acked == s.acked \cup (p.off .. p.off + p.len - 1)
      g == [h EXCEPT !.pkts = @ \ {p}, !.strms[p.id].acked = acked]
  IN  IF s.st # "open" \/ (FirstGap(acked) = FirstGap(s.acked) /\ ~p.fin) THEN
         [h EXCEPT !.pkts = @ \ {p}, !.strms[p.id].acked = acked]
      ELSE CloseIfShut(acked_stream_data_offset(g, p.id, FirstGap(acked)), p.id)

\* Stream::send_status_response, start_response: the response has these
\* buffers.
start_response(s, lens) ==
  [s EXCEPT !.streambuf = @ \o [i \in DOMAIN lens |-> Buffer(lens[i])],
            !.should_send_fin = TRUE, !.resp_state = "COMPLETED"]

\* Stream::recv_data: what http_parser_execute makes of a piece of the request:
\* "more" is to come, the "headers" are complete, "both" that and an error, or
\* just an "error".  A second request on the stream is one (on_msg_begin), and so
\* is anything after an error but a FIN without data.
Pieces == {"more", "headers", "both", "error"}
Parses(s) == IF s.htp = "reading" THEN Pieces ELSE {"more", "error"}

\* Handler::recv_stream_data with the result of the parser.
recv_stream_data(h, id, parse, lens) ==
  LET s == IF id \in DOMAIN h.streams THEN h.streams[id] ELSE Stream
      t == IF parse \in {"headers", "both"} THEN start_response(s, lens) ELSE s
      put(u) == [h EXCEPT !.streams = (id :> u) @@ @]
  IN  CASE parse = "more"    -> put(s)
        [] parse = "headers" -> put([t EXCEPT !.htp = "done"])
        [] parse = "error" /\ s.resp_state = "IDLE" ->
             put([start_response(s, <<1>>) EXCEPT !.htp = "error"])
        [] OTHER ->
             [put([t EXCEPT !.htp = "error"]) EXCEPT
                !.strms[id].flags = @ \cup {"STOP_SENDING", "SHUT_WR", "SENT_RST"}]

-----------------------------------------------------------------------------
(* Server *)

\* Mutant: start_wev is not called.
NoStartWev(h, waiting) ==
  /\ Become(h)
  /\ over' = h.over
  /\ wev' = waiting
  /\ UNCHANGED <<plan, allowed, nstreams_done, early, input>>

\* What Server::on_read, retransmitcb and swritecb do with the result of
\* Handler::on_write.
ServerWritten(h, waiting) ==
  /\ Become(h)
  /\ over' = h.over
  /\ wev' = (waiting \/ h.rv = "SEND_NON_FATAL")
  /\ UNCHANGED <<plan, allowed, nstreams_done, early, input>>

ServerWrites(h) == ServerWritten(on_write(h), wev)

Running == over = "no"

\* STREAM frames of a request: the library opens the stream, shuts it down
\* with the FIN, hands over what waits behind the gap that they fill (emit_pending:
\* late), and closes the stream when both directions are done.
RecvRequest(id, parse, late, lens, fin, n) ==
  LET s == strms[id]
      opened == [Now(n) EXCEPT
                   !.ctl = TRUE, !.strms[id].st = "open",
                   !.strms[id].flags = (@ \ {"GAP"}) \cup {"CALLED"}
                                         \cup (IF fin THEN {"SHUT_RD"} ELSE {})]
      first == recv_stream_data(opened, id, parse, lens)
  IN  /\ Server /\ Running
      /\ s.st # "closed" /\ "STOP_SENDING" \notin s.flags
      /\ "GAP" \in s.flags \/ "SHUT_RD" \notin s.flags
      /\ parse \in Parses(IF id \in DOMAIN streams THEN streams[id] ELSE Stream)
      /\ late = "none" \/ ("GAP" \in s.flags /\ late \in Parses(first.streams[id]))
      /\ lens \in IF {parse, late} \cap {"headers", "both"} # {} THEN plan.responses ELSE {<<>>}
      /\ ServerWrites(CloseIfShut(IF late = "none" THEN first
                                  ELSE recv_stream_data(first, id, late, lens), id))

\* A STREAM frame that comes before the first one of its stream: the library
\* opens the stream and makes no callback.
RecvAhead(id, fin, n) ==
  /\ Server /\ Running /\ strms[id].st = "none"
  /\ ServerWrites([Now(n) EXCEPT !.ctl = TRUE, !.strms[id].st = "open",
                     !.strms[id].flags = {"GAP"} \cup (IF fin THEN {"SHUT_RD"} ELSE {})])

\* The FIN that answers STOP_SENDING.
RecvRequestEnd(id, n) ==
  LET s == strms[id]
      ended == [Now(n) EXCEPT !.ctl = TRUE, !.strms[id].flags = @ \cup {"SHUT_RD"}]
  IN  /\ Server /\ Running /\ s.st = "open"
      /\ "STOP_SENDING" \in s.flags /\ "SHUT_RD" \notin s.flags
      /\ ServerWrites(CloseIfShut(ended, id))

\* A RST_STREAM or a STOP_SENDING frame, asked for or not.  A stream that it
\* comes before is never opened.
RecvReset(id, flags, n) ==
  LET s == strms[id]
      h == [Now(n) EXCEPT !.ctl = TRUE]
  IN  /\ Server /\ Running /\ s.st # "closed" /\ ~(flags \subseteq s.flags)
      /\ ServerWrites(IF s.st = "none" THEN [h EXCEPT !.strms[id].st = "closed"]
                      ELSE CloseIfShut([h EXCEPT !.strms[id].flags = @ \cup flags], id))

\* Handler::feed_data: ngtcp2_conn_recv fails, or the client has closed the
\* connection.
feed_data(how) ==
  /\ Server /\ Running
  /\ over' = how
  /\ UNCHANGED <<plan, streams, strms, allowed, nstreams_done, early, stdin, input, pkts,
                 sendbuf, ctl, wev, rttimer>>

ServerRecvAck(p, n) ==
  /\ Server /\ Running /\ p.out
  /\ ServerWrites(RecvAck(Now(n), p))

\* A MAX_STREAM_DATA frame, which may open the stream.
ServerRecvMaxStreamData(id, n) ==
  /\ Server /\ Running /\ strms[id].win = plan.win
  /\ strms[id].st = "open" \/ (strms[id].st = "none" /\ ~plan.plain)
  /\ ServerWrites([Now(n) EXCEPT !.strms[id].st = "open", !.strms[id].win = @ + 1, !.ctl = TRUE])

\* swritecb: the socket is writable.
swritecb(n) ==
  /\ Server /\ Running /\ wev /\ n > 0
  /\ ServerWritten(on_write(Now(n)), FALSE)

\* retransmitcb: a packet is taken for lost and sent again.
ServerRetransmit(n) ==
  /\ Server /\ Running /\ rttimer
  /\ ServerWrites([Now(n) EXCEPT !.rttimer = FALSE, !.ctl = TRUE])

-----------------------------------------------------------------------------
(* Client *)

\* readcb and writecb: an error of the library has called disconnect, and
\* EAGAIN is not looked at.
ClientWrites(h) ==
  /\ \E g \in {on_write(h)} : Become(g) /\ over' = g.over
  /\ UNCHANGED <<plan, input>>

\* The ids that Client may still open, in order.
Unopened == {id \in allowed : strms[id].st = "none"}
OpenIn(st, ids) == [id \in DOMAIN st |-> IF id \in ids THEN [st[id] EXCEPT !.st = "open"] ELSE st[id]]

\* Mutant: a stream is counted before it is opened.
CountsFirst ==
  LET ids == {id \in Unopened : Cardinality({x \in Unopened : x <= id}) <= plan.nstreams - nstreams_done}
  IN  [ids |-> ids, done |-> plan.nstreams]

\* Client::on_extend_max_stream_id: the streams that it opens, in order of
\* their ids, until nstreams are opened or no id is left.
on_extend_max_stream_id ==
  LET ids == {id \in Unopened : Cardinality({x \in Unopened : x <= id}) <= plan.nstreams - nstreams_done}
  IN  [ids |-> ids, done |-> nstreams_done + Cardinality(ids)]

\* The handshake completes, or MAX_STREAM_ID arrives.  In an interactive
\* session start_interactive_input waits for input even if the stream could
\* not be opened, and is called again until one is.
ExtendMaxStreamId(more, n) ==
  LET ext == on_extend_max_stream_id
      first == {id \in Unopened : \A x \in Unopened : id <= x}
      ids == IF ~plan.interactive THEN ext.ids
             ELSE IF \E id \in plan.ids : strms[id].st # "none" THEN {} ELSE first
      new == IF plan.interactive THEN Stream ELSE WithBuffers(plan.file)
  IN  /\ ~Server /\ Running
      /\ more \subseteq plan.ids /\ allowed \subseteq more
      /\ early = "on" => plan.interactive \/ nstreams_done > 0
      /\ \/ early # "off" /\ more = allowed
         \/ more # allowed
      /\ allowed' = more /\ early' = "off"
      /\ nstreams_done' = IF plan.interactive THEN nstreams_done ELSE ext.done
      /\ ClientWrites([Now(n) EXCEPT
            !.strms = OpenIn(@, ids), !.ctl = TRUE,
            !.streams = [id \in ids |-> new] @@ @,
            !.stdin = @ \/ (plan.interactive /\ \A id \in plan.ids : strms[id].st = "none")])
      /\ UNCHANGED wev

\* Client::handle_early_data, make_stream_early: the first stream is counted,
\* opened or not.  The first Initial packet is being written.
make_stream_early(n) ==
  LET ids == {id \in Unopened : \A x \in Unopened : id <= x}
  IN  /\ ~Server /\ Running /\ early = "on" /\ ~plan.interactive /\ nstreams_done = 0
      /\ nstreams_done' = 1
      /\ ClientWrites([Now(n) EXCEPT !.strms = OpenIn(@, ids),
                                     !.streams = [id \in ids |-> WithBuffers(plan.file)] @@ @])
      /\ UNCHANGED <<allowed, early, wev>>

\* Client::tls_handshake finds that the server has refused 0-RTT.
early_data_rejected(n) ==
  /\ ~Server /\ Running /\ early = "on" /\ nstreams_done > 0
  /\ early' = "rejected"
  /\ ClientWrites([Now(n) EXCEPT !.ctl = TRUE])
  /\ UNCHANGED <<allowed, nstreams_done, wev>>

ClientRecvAck(p, n) ==
  /\ ~Server /\ Running /\ p.out /\ early = "off"
  /\ ClientWrites(RecvAck(Now(n), p))
  /\ UNCHANGED <<allowed, nstreams_done, early, wev>>

\* The end of the response, or STOP_SENDING.
ClientRecv(id, flags, n) ==
  /\ ~Server /\ Running /\ early = "off" /\ strms[id].st = "open"
  /\ ~(flags \subseteq strms[id].flags)
  /\ ClientWrites(CloseIfShut([Now(n) EXCEPT !.strms[id].flags = @ \cup flags, !.ctl = TRUE], id))
  /\ UNCHANGED <<allowed, nstreams_done, early, wev>>

ClientRecvMaxStreamData(id, n) ==
  /\ ~Server /\ Running /\ early = "off" /\ strms[id].st = "open" /\ strms[id].win = plan.win
  /\ ClientWrites([Now(n) EXCEPT !.strms[id].win = @ + 1, !.ctl = TRUE])
  /\ UNCHANGED <<allowed, nstreams_done, early, wev>>

\* stdin_readcb, Client::send_interactive_input: input goes to the stream that
\* was opened last.  The end of the input, stop_interactive_input, ends the
\* first stream.
send_interactive_input(eof) ==
  LET id == Max(DOMAIN streams)
      first == Min(DOMAIN streams)
      s == streams[first]
  IN  /\ ~Server /\ Running /\ stdin
      /\ ~eof => input < MaxInput
      /\ input' = IF eof THEN input ELSE input + 1
      /\ IF DOMAIN streams = {} THEN over' = "assert" /\ UNCHANGED <<streams, stdin, wev>>
         ELSE /\ streams' = IF eof
                    THEN [streams EXCEPT ![first] =
                            [s EXCEPT !.should_send_fin = TRUE,
                                      !.streambuf = IF @ = <<>> THEN <<Buffer(0)>> ELSE @]]
                    ELSE [streams EXCEPT ![id].streambuf = Append(@, Buffer(1))]
              /\ stdin' = (stdin /\ ~eof) /\ wev' = TRUE /\ UNCHANGED over
      /\ UNCHANGED <<plan, strms, allowed, nstreams_done, early, pkts, sendbuf, ctl, rttimer>>

\* writecb, for the event that ev_feed_event has fed.
writecb(n) ==
  /\ ~Server /\ Running /\ wev
  /\ ClientWrites(Now(n)) /\ wev' = FALSE
  /\ UNCHANGED <<allowed, nstreams_done, early>>

\* retransmitcb: whatever on_write returns but 0 ends the connection.
ClientRetransmit(n) ==
  /\ ~Server /\ Running /\ rttimer
  /\ \E g \in {on_write([Now(n) EXCEPT !.rttimer = FALSE, !.ctl = TRUE])} :
         /\ Become(g)
         /\ over' = IF g.over = "no" /\ g.rv # "OK" THEN "disconnected" ELSE g.over
  /\ UNCHANGED <<plan, allowed, nstreams_done, early, input, wev>>

\* The peer has something to do: acknowledge, extend a window, grant ids.
PeerPending ==
  /\ Running
  /\ \/ early = "off" /\ \E p \in pkts : p.out
     \/ early = "off" /\ \E id \in plan.ids : strms[id].st = "open" /\ strms[id].win = plan.win
     \/ ~Server /\ (early # "off" \/ allowed # plan.ids)

\* timeoutcb: the idle timeout is longer than all else takes.
ClientTimeout ==
  /\ ~Server /\ Running
  /\ ~wev /\ ~rttimer /\ ~PeerPending
  /\ over' = "disconnected"
  /\ UNCHANGED <<plan, streams, strms, allowed, nstreams_done, early, stdin, input, pkts,
                 sendbuf, ctl, wev, rttimer>>

-----------------------------------------------------------------------------
ServerNext ==
  \/ \E n \in plan.sends :
       \/ \E id \in plan.ids :
            \/ \E parse \in Pieces, late \in Pieces \cup {"none"},
                 lens \in plan.responses \cup {<<>>}, fin \in BOOLEAN :
                   RecvRequest(id, parse, late, lens, fin, n)
            \/ RecvRequestEnd(id, n)
            \/ ServerRecvMaxStreamData(id, n)
            \/ /\ ~plan.plain
               /\ \/ \E fin \in BOOLEAN : RecvAhead(id, fin, n)
                  \/ RecvReset(id, {"SHUT_RD", "RECV_RST"}, n)
                  \/ RecvReset(id, {"SHUT_WR", "SENT_RST"}, n)
       \/ \E p \in pkts : ServerRecvAck(p, n)
       \/ swritecb(n)
       \/ ServerRetransmit(n)
  \/ \E how \in {"failed", "draining"} : feed_data(how)

ClientNext ==
  \/ \E n \in plan.sends :
       \/ \E more \in SUBSET plan.ids : ExtendMaxStreamId(more, n)
       \/ make_stream_early(n)
       \/ early_data_rejected(n)
       \/ \E p \in pkts : ClientRecvAck(p, n)
       \/ \E id \in plan.ids :
            \/ ClientRecv(id, {"SHUT_RD"}, n)
            \/ ClientRecv(id, {"SHUT_WR", "SENT_RST"}, n)
            \/ ClientRecvMaxStreamData(id, n)
       \/ writecb(n)
       \/ ClientRetransmit(n)
  \/ \E eof \in BOOLEAN : send_interactive_input(eof)
  \/ ClientTimeout

AppNext == ServerNext \/ ClientNext

\* The peer does what it has to do.
PeerActs ==
  \/ \E p \in pkts : p.out /\ p \notin pkts'
  \/ \E id \in plan.ids : strms'[id].win > strms[id].win
  \/ allowed' # allowed \/ early' # early

\* A peer that works, a socket that takes what sendbuf_ holds if it is waited for
\* (swritecb, writecb) or tried again when the timer fires (retransmitcb), and
\* an idle timer.  Each is the weak fairness of the actions named, stated by their
\* effect.
AppFairness ==
  /\ []<>(~PeerPending) \/ []<><<PeerActs>>_app_vars
  /\ []<>(wev \/ rttimer) => []<>((sendbuf = <<>> /\ (Server \/ ~wev)) \/ ~Running)
  /\ []<>(~Running \/ Server \/ wev \/ rttimer \/ PeerPending)

-----------------------------------------------------------------------------
(* Properties *)

\* Some sendto call may return EAGAIN: a callback never writes 9 packets.
MayRefuse == \E n \in plan.sends : n < 9

Heads(s) == FoldLeft(LAMBDA n, b : n + b.head, 0, s.streambuf)

\* The memory of a frame that may have to be sent again is there, and nothing is
\* sent twice or skipped: while the connection runs, a stream of the program is
\* one of the library, what the library has taken is what was freed and what is
\* used up of the buffers, streambuf_idx separates the used buffers from the
\* others, and no byte of an unacknowledged packet has been freed
\* (write_stream_data, remove_tx_stream_data, on_stream_close).
BuffersMatchStream ==
  over = "no" =>
    \A id \in DOMAIN streams :
      LET s == streams[id]
      IN  /\ strms[id].st = "open"
          /\ strms[id].tx = s.tx_stream_offset + Heads(s)
          /\ \A i \in DOMAIN s.streambuf :
               /\ i <= s.idx => Size(s.streambuf[i]) = 0
               /\ i > s.idx + 1 => s.streambuf[i].head = 0
          /\ \A p \in pkts : p.id = id /\ p.len > 0 => p.off >= s.tx_stream_offset

\* How the client of a server ends the connection: ngtcp2_conn_recv refuses a
\* frame, CONNECTION_CLOSE, or both ends reset a stream none of whose data was
\* handed to the Handler, so that on_stream_close does not find it (server.cc:1629).
EndedByClient ==
  /\ Server
  /\ \/ over \in {"failed", "draining"}
     \/ over = "assert" /\ \E id \in plan.ids :
          /\ strms[id].st = "closed" /\ "CALLED" \notin strms[id].flags
          /\ {"RECV_RST", "SENT_RST"} \subseteq strms[id].flags

\* A connection whose socket takes every packet is given up by the server only
\* because of what the client has sent (EndedByClient), and by the client only in
\* the end or if input comes before a stream could be opened: requests that the
\* parser refuses, frames in any order, resets at any point, the in-flight limit,
\* closed windows, refused 0-RTT data and streams that were shut down are no errors
\* (on_write_stream, write_stream_data, feed_data, the asserts on streams_).
OnlyRefusedSends ==
  over # "no" =>
    \/ MayRefuse
    \/ EndedByClient
    \/ ~Server /\ over = "disconnected"
    \/ plan.interactive /\ over = "assert" /\ \A id \in plan.ids : strms[id].st = "none"

\* The client opens as many streams as it was asked to and counts, and never
\* one too many, however the ids are granted; the one exception is a stream for
\* 0-RTT data that no stored transport parameter allows: it is counted and never
\* opened (make_stream_early, on_extend_max_stream_id).
StreamsCounted ==
  ~Server /\ ~plan.interactive =>
    /\ nstreams_done <= plan.nstreams
    /\ \/ nstreams_done = Cardinality({id \in plan.ids : strms[id].st # "none"})
       \/ plan.resumption /\ plan.allowed = {}

\* All that was put into the buffers of a stream has been acknowledged, or the
\* stream was reset or is closed.
Delivered(id) ==
  \/ id \notin DOMAIN streams
  \/ "SENT_RST" \in strms[id].flags
  \/ /\ \A i \in DOMAIN streams[id].streambuf : Size(streams[id].streambuf[i]) = 0
     /\ FirstGap(strms[id].acked) = strms[id].tx

\* Nothing stays behind in a buffer: a stream's data are delivered in the end,
\* across the in-flight limit, closed windows, 0-RTT data that were refused and
\* EAGAIN at any packet, unless EAGAIN or the client ends the connection first
\* (on_write, start_wev, schedule_retransmit).
StreamsDelivered ==
  \A id \in UNION {c.ids : c \in Plans} :
    id \in DOMAIN streams ~> Delivered(id) \/ (over # "no" /\ (MayRefuse \/ EndedByClient))

\* server.h: should_send_fin is set to false "After sending fin": a response that
\* is complete has its FIN sent or still to be sent.
FinWritten ==
  \A id \in DOMAIN streams :
    /\ over = "no" /\ Server
    /\ streams[id].resp_state = "COMPLETED" /\ ~streams[id].should_send_fin
    => "SHUT_WR" \in strms[id].flags
=============================================================================
