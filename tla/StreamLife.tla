----------------------------- MODULE StreamLife -----------------------------
(***************************************************************************)
(* The life of one bidirectional stream at both of its endpoints: the      *)
(* application calls that write, finish, reset and stop it, the frames     *)
(* that travel between the endpoints, and the deletion of the stream       *)
(* (lib/ngtcp2_conn.c, call_acked_stream_offset of lib/ngtcp2_rtb.c).      *)
(*                                                                         *)
(* A frame that has been sent may arrive at any time, any number of times  *)
(* (it is retransmitted) or never.  It is acknowledged once it has         *)
(* arrived.  A frame that expires is sent again, which changes nothing     *)
(* here, unless conn_retransmit_protected finds it useless and drops it.   *)
(* Packet numbers, the order of the queue and equal frames in it are left  *)
(* to module Rtb, windows to FlowControl, stream data to StreamRecv.       *)
(***************************************************************************)
EXTENDS Integers, FiniteSetsExt

CONSTANTS
  MaxTx,     \* bound: bytes that each endpoint writes
  OpenerCalls, AcceptorCalls
             \* the calls that each application makes besides writing data:
             \* "fin_alone", "shutdown_write", "shutdown_read", "shutdown"

ASSUME MaxTxAssumption == MaxTx \in Nat

Ends == {"opener", "acceptor"}
Peer(e) == IF e = "opener" THEN "acceptor" ELSE "opener"
Calls(e) == IF e = "opener" THEN OpenerCalls ELSE AcceptorCalls

VARIABLES
  ep,     \* the ngtcp2_strm of each endpoint
  frq,    \* conn->frq: frames to send
  rtb,    \* conn->rtb: frames sent and not acknowledged
  net,    \* frames that have been sent
  got,    \* frames that have arrived
  err     \* a frame was answered with an error: the connection is over

vars == <<ep, frq, rtb, net, got, err>>

STREAM(offset, datalen, fin) ==
  [type |-> "STREAM", offset |-> offset, datalen |-> datalen, fin |-> fin]
RST_STREAM(final, code) ==
  [type |-> "RST_STREAM", final |-> final, code |-> code]
STOP_SENDING == [type |-> "STOP_SENDING"]

\* ngtcp2_strm_init; "none" before the stream exists, "closed" once it is
\* deleted, "refused" if its id was marked as used before it was created.
NewStrm ==
  [strm |-> "none", flags |-> {}, tx |-> 0, acked |-> {}, rx |-> {}, last_rx |-> 0]

Init ==
  /\ ep = [e \in Ends |-> [NewStrm EXCEPT !.strm = IF e = "opener" THEN "open" ELSE "none"]]
  /\ frq = [e \in Ends |-> {}] /\ rtb = [e \in Ends |-> {}]
  /\ net = [e \in Ends |-> {}] /\ got = [e \in Ends |-> {}]
  /\ err = FALSE

\* ngtcp2_gaptr_first_gap_offset, ngtcp2_rob_first_gap_offset
FirstGap(S) == Min((0 .. MaxTx) \ S)

\* Mutant: what is still unacknowledged is not looked at.
CloseIgnoresAcks(p) ==
  IF /\ {"SHUT_RD", "SHUT_WR"} \subseteq p.flags
     /\ "RECV_RST" \in p.flags \/ FirstGap(p.rx) = p.last_rx
  THEN [p EXCEPT !.strm = "closed"] ELSE p

ngtcp2_conn_close_stream_if_shut_rdwr(p) ==
  IF /\ {"SHUT_RD", "SHUT_WR"} \subseteq p.flags
     /\ "RECV_RST" \in p.flags \/ FirstGap(p.rx) = p.last_rx
     /\ "SENT_RST" \in p.flags \/ FirstGap(p.acked) = p.tx
  THEN [p EXCEPT !.strm = "closed"] ELSE p

-----------------------------------------------------------------------------
(* Calls of the application *)

CanCall(e) == ~err /\ ep[e].strm = "open"

\* ngtcp2_conn_write_stream
ngtcp2_conn_write_stream(e, datalen, fin) ==
  LET fr == STREAM(ep[e].tx, datalen, fin)
  IN  /\ CanCall(e) /\ "SHUT_WR" \notin ep[e].flags
      /\ ep[e].tx + datalen <= MaxTx
      /\ datalen = 0 => fin /\ "fin_alone" \in Calls(e)
      /\ net' = [net EXCEPT ![e] = @ \cup {fr}]
      /\ rtb' = [rtb EXCEPT ![e] = @ \cup {fr}]
      /\ ep' = [ep EXCEPT ![e].tx = @ + datalen,
                          ![e].flags = IF fin THEN @ \cup {"SHUT_WR"} ELSE @]
      /\ UNCHANGED <<frq, got, err>>

\* conn_shutdown_stream_write, conn_rst_stream: the flags and the frame.
ShutWrite(p) ==
  IF "SENT_RST" \in p.flags THEN p.flags ELSE p.flags \cup {"SHUT_WR", "SENT_RST"}
ShutWriteFrames(p) ==
  IF "SENT_RST" \in p.flags THEN {} ELSE {RST_STREAM(p.tx, "APP")}

\* conn_shutdown_stream_read, conn_stop_sending: the flags and the frame.
ShutRead(p) == p.flags \cup {"STOP_SENDING"}
ShutReadFrames(p) == IF "STOP_SENDING" \in p.flags THEN {} ELSE {STOP_SENDING}

Shutdown(e, flags, frames) ==
  /\ CanCall(e)
  /\ ep' = [ep EXCEPT ![e].flags = flags]
  /\ frq' = [frq EXCEPT ![e] = @ \cup frames]
  /\ UNCHANGED <<rtb, net, got, err>>

ngtcp2_conn_shutdown_stream_write(e) ==
  /\ "shutdown_write" \in Calls(e)
  /\ Shutdown(e, ShutWrite(ep[e]), ShutWriteFrames(ep[e]))

ngtcp2_conn_shutdown_stream_read(e) ==
  /\ "shutdown_read" \in Calls(e)
  /\ Shutdown(e, ShutRead(ep[e]), ShutReadFrames(ep[e]))

ngtcp2_conn_shutdown_stream(e) ==
  /\ "shutdown" \in Calls(e)
  /\ Shutdown(e, ShutRead(ep[e]) \cup ShutWrite(ep[e]),
              ShutReadFrames(ep[e]) \cup ShutWriteFrames(ep[e]))

-----------------------------------------------------------------------------
(* Sending *)

\* conn_write_pkt: what the loop over conn->frq drops.
Cancelled(p, f) ==
  \/ f.type = "RST_STREAM" /\ p.strm # "open" /\ f.code # "STOPPING"
  \/ f.type = "STOP_SENDING" /\ (p.strm # "open" \/ "SHUT_RD" \in p.flags)

\* conn_write_pkt: the frames F of the queue are written or dropped.
conn_write_pkt(e, F) ==
  LET written == {f \in F : ~Cancelled(ep[e], f)}
  IN  /\ ~err /\ F # {}
      /\ frq' = [frq EXCEPT ![e] = @ \ F]
      /\ net' = [net EXCEPT ![e] = @ \cup written]
      /\ rtb' = [rtb EXCEPT ![e] = @ \cup written]
      /\ UNCHANGED <<ep, got, err>>

\* Mutant: data is dropped as soon as the application has sent FIN.
DroppedAfterFin(p, f) ==
  \/ f.type = "STREAM" /\ (p.strm # "open" \/ "SHUT_WR" \in p.flags)
  \/ f.type = "STOP_SENDING" /\ (p.strm # "open" \/ "SHUT_RD" \in p.flags)

\* conn_retransmit_protected: what is dropped instead of being sent again.
Dropped(p, f) ==
  \/ f.type = "STREAM" /\ (p.strm # "open" \/ "SENT_RST" \in p.flags)
  \/ f.type = "STOP_SENDING" /\ (p.strm # "open" \/ "SHUT_RD" \in p.flags)

conn_retransmit(e, f) ==
  /\ ~err /\ f \in rtb[e] /\ Dropped(ep[e], f)
  /\ rtb' = [rtb EXCEPT ![e] = @ \ {f}]
  /\ UNCHANGED <<ep, frq, net, got, err>>

\* conn_recv_ack, ngtcp2_rtb_recv_ack and call_acked_stream_offset: the peer
\* acknowledges the frame f.
conn_recv_ack(e, f) ==
  LET acked == ep[e].acked \cup (f.offset .. f.offset + f.datalen - 1)
      p     == [ep[e] EXCEPT !.acked = acked]
  IN  /\ ~err /\ f \in rtb[e] \cap got[e]
      /\ rtb' = [rtb EXCEPT ![e] = @ \ {f}]
      /\ IF f.type # "STREAM" \/ ep[e].strm # "open" THEN UNCHANGED ep
         ELSE ep' = [ep EXCEPT ![e] =
                       IF FirstGap(acked) = FirstGap(@.acked) /\ ~f.fin THEN p
                       ELSE ngtcp2_conn_close_stream_if_shut_rdwr(p)]
      /\ UNCHANGED <<frq, net, got, err>>

-----------------------------------------------------------------------------
(* Receiving *)

\* conn_recv_stream: the frame contradicts the final offset.
StreamError(p, fr) ==
  LET end == fr.offset + fr.datalen
  IN  /\ p.strm = "open"
      /\ IF fr.fin THEN IF "SHUT_RD" \in p.flags THEN p.last_rx # end ELSE p.last_rx > end
         ELSE "SHUT_RD" \in p.flags /\ p.last_rx < end

\* conn_recv_stream; the first frame creates the stream.
conn_recv_stream(p, fr) ==
  LET end == fr.offset + fr.datalen
      q   == [p EXCEPT !.strm = "open",
                       !.last_rx = IF fr.fin THEN end ELSE Max({@, end}),
                       !.flags = IF fr.fin THEN @ \cup {"SHUT_RD"} ELSE @]
  IN  IF \/ p.strm \in {"closed", "refused"}
         \/ fr.fin /\ "SHUT_RD" \in p.flags
      THEN p
      ELSE IF ~fr.fin /\ (end <= FirstGap(p.rx) \/ "STOP_SENDING" \in p.flags)
      THEN q
      ELSE IF "STOP_SENDING" \in p.flags
      THEN ngtcp2_conn_close_stream_if_shut_rdwr(q)
      ELSE ngtcp2_conn_close_stream_if_shut_rdwr(
             [q EXCEPT !.rx = @ \cup (fr.offset .. end - 1)])

RstError(p, fr) ==
  /\ p.strm = "open"
  /\ IF "SHUT_RD" \in p.flags THEN p.last_rx # fr.final ELSE p.last_rx > fr.final

\* conn_recv_rst_stream
conn_recv_rst_stream(p, fr) ==
  CASE p.strm = "none" -> [p EXCEPT !.strm = "refused"]
    [] p.strm = "open" -> ngtcp2_conn_close_stream_if_shut_rdwr(
                            [p EXCEPT !.flags = @ \cup {"SHUT_RD", "RECV_RST"}])
    [] OTHER -> p

\* Mutant: RST_STREAM announces what has been acknowledged.
StopAnswerAcked(p) ==
  IF p.strm = "open" THEN {RST_STREAM(FirstGap(p.acked), "STOPPING")} ELSE {}

\* conn_recv_stop_sending: the RST_STREAM that answers it.
StopAnswer(p) == IF p.strm = "open" THEN {RST_STREAM(p.tx, "STOPPING")} ELSE {}

conn_recv_stop_sending(p) ==
  CASE p.strm = "none" -> [p EXCEPT !.strm = "refused"]
    [] p.strm = "open" -> ngtcp2_conn_close_stream_if_shut_rdwr(
                            [p EXCEPT !.flags = @ \cup {"SHUT_WR", "SENT_RST"}])
    [] OTHER -> p

\* conn_recv_pkt: frame f of the endpoint e arrives at its peer.
conn_recv_pkt(e, f) ==
  LET r   == Peer(e)
      bad == \/ f.type = "STREAM" /\ StreamError(ep[r], f)
             \/ f.type = "RST_STREAM" /\ RstError(ep[r], f)
  IN  /\ ~err /\ f \in net[e]
      /\ got' = [got EXCEPT ![e] = @ \cup {f}]
      /\ err' = bad
      /\ ep' = IF bad THEN ep
               ELSE [ep EXCEPT ![r] =
                       CASE f.type = "STREAM" -> conn_recv_stream(@, f)
                         [] f.type = "RST_STREAM" -> conn_recv_rst_stream(@, f)
                         [] OTHER -> conn_recv_stop_sending(@)]
      /\ frq' = IF f.type = "STOP_SENDING"
                THEN [frq EXCEPT ![r] = @ \cup StopAnswer(ep[r])] ELSE frq
      /\ UNCHANGED <<rtb, net>>

-----------------------------------------------------------------------------
Next ==
  \E e \in Ends :
     \/ \E datalen \in 0 .. MaxTx, fin \in BOOLEAN : ngtcp2_conn_write_stream(e, datalen, fin)
     \/ ngtcp2_conn_shutdown_stream_write(e)
     \/ ngtcp2_conn_shutdown_stream_read(e)
     \/ ngtcp2_conn_shutdown_stream(e)
     \/ \E F \in SUBSET frq[e] : conn_write_pkt(e, F)
     \/ \E f \in rtb[e] : conn_retransmit(e, f)
     \/ \E f \in rtb[e] : conn_recv_ack(e, f)
     \/ \E f \in net[e] : conn_recv_pkt(e, f)

Spec == Init /\ [][Next]_vars

\* The application keeps calling ngtcp2_conn_write_pkt, a frame that is
\* retransmitted for ever arrives, and so does an ACK frame for the data that
\* has arrived.
FairSpec ==
  /\ Spec
  /\ \A e \in Ends :
        /\ WF_vars(conn_write_pkt(e, frq[e]))
        /\ WF_vars(\E f \in rtb[e] \ got[e] : conn_recv_pkt(e, f))
        /\ WF_vars(\E f \in rtb[e] : f.type = "STREAM" /\ conn_recv_ack(e, f))

-----------------------------------------------------------------------------
(* Properties *)

Flags == {"SHUT_RD", "SHUT_WR", "SENT_RST", "RECV_RST", "STOP_SENDING"}

Strm ==
  [strm : {"none", "open", "closed", "refused"}, flags : SUBSET Flags, tx : 0 .. MaxTx,
   acked : SUBSET (0 .. MaxTx - 1), rx : SUBSET (0 .. MaxTx - 1), last_rx : 0 .. MaxTx]

TypeOK ==
  /\ ep \in [Ends -> Strm]
  /\ \A e \in Ends : rtb[e] \subseteq net[e] /\ got[e] \subseteq net[e]
  /\ err \in BOOLEAN

GotBytes(e) ==
  UNION {f.offset .. f.offset + f.datalen - 1 : f \in {g \in got[e] : g.type = "STREAM"}}

\* The last bytes of a stream are not lost with it.  A stream that was not
\* reset is deleted (ngtcp2_conn_close_stream_if_shut_rdwr) only after every
\* byte its endpoint wrote has arrived at the peer; a stream that the peer did
\* not reset, only when the peer will write nothing more and every byte it
\* wrote was accepted.  A stream is refused unseen (conn_recv_rst_stream,
\* conn_recv_stop_sending) only if its opener gave up writing or reading it.
DeletedWhenDone ==
  \A e \in Ends :
     /\ ep[e].strm = "closed" =>
          /\ "SENT_RST" \notin ep[e].flags => 0 .. ep[e].tx - 1 \subseteq GotBytes(e)
          /\ "RECV_RST" \notin ep[e].flags => /\ "SHUT_WR" \in ep[Peer(e)].flags
                                             /\ ep[e].rx = 0 .. ep[Peer(e)].tx - 1
     /\ ep[e].strm = "refused" =>
          ep[Peer(e)].flags \cap {"SENT_RST", "STOP_SENDING"} # {} /\ ep[e].rx = {}

\* Whatever the order of FIN, RST_STREAM of the application and RST_STREAM in
\* answer to STOP_SENDING, all announce the same final offset, and no data is
\* sent beyond it; so the peer does not object (NGTCP2_ERR_FINAL_OFFSET),
\* however FIN and data are reordered and repeated, as long as no RST_STREAM
\* has been received.  A stream that was reset announces it, unless it is
\* deleted before conn_write_pkt gets to the frame.
FinalOffsetAgreed ==
  /\ TypeOK
  /\ \A e \in Ends : \A f \in net[e] :
        /\ f.type = "RST_STREAM" => f.final = ep[e].tx
        /\ f.type = "STREAM" => \/ f.offset + f.datalen = ep[e].tx
                                \/ ~f.fin /\ f.offset + f.datalen < ep[e].tx
  /\ \A e \in Ends : ep[e].strm = "open" /\ "SENT_RST" \in ep[e].flags =>
        \E f \in net[e] \cup frq[e] : f.type = "RST_STREAM"
  /\ err => \E e \in Ends : "RECV_RST" \in ep[e].flags

\* Both applications only write data, FIN with the last of it.
Undisturbed ==
  \A e \in Ends : /\ ep[e].flags \cap {"STOP_SENDING", "SENT_RST"} = {}
                  /\ \A f \in net[e] : f.type = "STREAM" /\ f.datalen > 0

\* When both applications have finished writing, and neither resets the stream
\* or sends FIN alone, both endpoints delete the stream: the state of a
\* finished stream is not kept for ever.
BothDelete ==
  (\A e \in Ends : "SHUT_WR" \in ep[e].flags)
     ~> (~Undisturbed \/ \A e \in Ends : ep[e].strm = "closed")

\* A stream that was not reset is deleted only after all STREAM frames it
\* sent, the one with FIN included, have arrived at the peer
\* (lib/ngtcp2_conn.h:305).
FinArrived ==
  \A e \in Ends : ep[e].strm = "closed" /\ "SENT_RST" \notin ep[e].flags
                    => \E f \in got[e] : f.type = "STREAM" /\ f.fin

\* NGTCP2_STRM_FLAG_SENT_RST: RST_STREAM is sent from the local endpoint
\* (lib/ngtcp2_strm.h:49), or will be.
RstSent ==
  \A e \in Ends : "SENT_RST" \in ep[e].flags
                    => \E f \in net[e] \cup frq[e] : f.type = "RST_STREAM"

\* A stream shut down with ngtcp2_conn_shutdown_stream is deleted when the
\* remote endpoint has acknowledged it (lib/includes/ngtcp2/ngtcp2.h:1183).
ShutdownDeletes ==
  \A e \in Ends :
     {"STOP_SENDING", "SENT_RST"} \subseteq ep[e].flags ~> (ep[e].strm = "closed" \/ err)

\* STREAM frames are ignored because the stream has been closed
\* (lib/ngtcp2_conn.c:2870): its id is not marked as used before, unless the
\* peer has reset the stream.
IgnoredIsClosed ==
  \A e \in Ends : ep[e].strm = "refused" => "SENT_RST" \in ep[Peer(e)].flags
=============================================================================
