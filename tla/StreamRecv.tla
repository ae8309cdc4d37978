----------------------------- MODULE StreamRecv -----------------------------
(***************************************************************************)
(* The receiving half of one stream opened by the remote endpoint:         *)
(* conn_recv_stream, conn_recv_rst_stream and conn_shutdown_stream_read    *)
(* (lib/ngtcp2_conn.c), the reorder buffer they use (lib/ngtcp2_rob.c) and *)
(* the deletion of the stream.                                             *)
(*                                                                         *)
(* The network loses, duplicates and reorders packets, so that any frame   *)
(* of StreamFrames and any RST_STREAM of RstFrames may arrive at any time, *)
(* any number of times or never.  The byte at offset i of the stream is    *)
(* the number i: a byte that is misplaced, repeated, skipped or read from  *)
(* memory nobody wrote shows in what the application gets.                 *)
(*                                                                         *)
(* The send half is reduced to what the deletion of the stream looks at:   *)
(* the application sends FIN and no data, and the FIN is acknowledged.     *)
(***************************************************************************)
EXTENDS Rob

CONSTANTS
  StreamFrames,   \* STREAM frames that may arrive: [offset, datalen, fin]
  RstFrames,      \* final offsets of the RST_STREAM frames that may arrive
  Bidi,           \* whether the stream is bidirectional
  MaxStreamData,  \* local_settings.max_stream_data: stream-level window
  MaxData         \* local_settings.max_data: connection-level window

\* Frames are below NGTCP2_MAX_VARINT, which is below UINT64_MAX.
ASSUME StreamRecvAssumption ==
  /\ StreamFrames \subseteq [offset : Nat, datalen : Nat, fin : BOOLEAN]
  /\ \A fr \in StreamFrames : fr.offset + fr.datalen < UINT64_MAX
  /\ RstFrames \subseteq Nat
  /\ Bidi \in BOOLEAN
  /\ MaxStreamData \in Nat
  /\ MaxData \in Nat

VARIABLES
  strm,            \* "none", "open" (an ngtcp2_strm exists) or "closed"
  flags,           \* strm->flags
  last_rx_offset,  \* strm->last_rx_offset
  rx_offset,       \* conn->rx_offset, the part this stream contributes
  app,             \* bytes handed to the application, in order
  nfin,            \* number of times the application was told fin
  stop_at,         \* Len(app) when ngtcp2_conn_shutdown_stream_read returned
  fin_recv,        \* whether a FIN of the peer was accepted
  assert_ok,       \* no assertion of the library has failed
  err              \* error returned by the last call; the connection is over

vars == <<strm, flags, last_rx_offset, rx_offset, rob, app, nfin, stop_at,
          fin_recv, assert_ok, err>>

Flags == {"SHUT_RD", "SHUT_WR", "RECV_RST", "STOP_SENDING"}

Init ==
  /\ strm = "none"
  /\ flags = IF Bidi THEN {} ELSE {"SHUT_WR"}
  /\ last_rx_offset = 0
  /\ rx_offset = 0
  /\ RobInit
  /\ app = <<>>
  /\ nfin = 0
  /\ stop_at = 0
  /\ fin_recv = FALSE
  /\ assert_ok = TRUE
  /\ err = "none"

-----------------------------------------------------------------------------
(* Frames *)

End(fr) == fr.offset + fr.datalen

\* The bytes of the peer's stream that a frame carries.
Payload(fr) == [k \in 1 .. fr.datalen |-> fr.offset + k - 1]

-----------------------------------------------------------------------------
(* Shutting down and deleting the stream *)

\* Mutant: data still missing does not keep the stream.
CloseStreamEarly(fl, gaps, last) ==
  IF {"SHUT_RD", "SHUT_WR"} \subseteq fl THEN "closed" ELSE "open"

ngtcp2_conn_close_stream_if_shut_rdwr(fl, gaps, last) ==
  IF /\ {"SHUT_RD", "SHUT_WR"} \subseteq fl
     /\ "RECV_RST" \in fl \/ RxOffset(gaps) = last
  THEN "closed" ELSE "open"

\* conn_shutdown_stream_read, called by the application when Len(app) = n;
\* NoCall: it is not called.
NoCall == -1

ShutdownReadAt(n, fl) ==
  IF n = NoCall \/ "STOP_SENDING" \in fl
  THEN flags' = fl /\ UNCHANGED stop_at
  ELSE flags' = fl \cup {"STOP_SENDING"} /\ stop_at' = n

ngtcp2_conn_shutdown_stream_read ==
  /\ err = "none" /\ strm = "open"
  /\ ShutdownReadAt(Len(app), flags)
  /\ UNCHANGED <<strm, last_rx_offset, rx_offset, rob, app, nfin, fin_recv,
                 assert_ok, err>>

\* ngtcp2_conn_write_stream with fin and no data.
WriteFin ==
  /\ err = "none" /\ strm = "open" /\ "SHUT_WR" \notin flags
  /\ flags' = flags \cup {"SHUT_WR"}
  /\ UNCHANGED <<strm, last_rx_offset, rx_offset, rob, app, nfin, stop_at,
                 fin_recv, assert_ok, err>>

\* call_acked_stream_offset for the packet with that FIN (rtb.c).
AckFin ==
  /\ err = "none" /\ strm = "open" /\ Bidi /\ "SHUT_WR" \in flags
  /\ strm' = ngtcp2_conn_close_stream_if_shut_rdwr(flags, gap, last_rx_offset)
  /\ UNCHANGED <<flags, last_rx_offset, rx_offset, rob, app, nfin, stop_at,
                 fin_recv, assert_ok, err>>

-----------------------------------------------------------------------------
(* conn_recv_stream *)

\* The frame goes beyond the window of the stream or of the connection.
FlowControlError(end) ==
  \/ MaxStreamData < end
  \/ last_rx_offset < end /\ MaxData - rx_offset < end - last_rx_offset

\* The frame contradicts the final offset, or the data already received.
FinalOffsetError(fr) ==
  IF fr.fin
  THEN IF "SHUT_RD" \in flags THEN last_rx_offset # End(fr)
                              ELSE last_rx_offset > End(fr)
  ELSE "SHUT_RD" \in flags /\ last_rx_offset < End(fr)

\* conn->rx_offset grows by the part of the frame beyond last_rx_offset.
CountRx(end) ==
  rx_offset' = IF last_rx_offset < end
               THEN rx_offset + (end - last_rx_offset) ELSE rx_offset

\* Mutant: STOP_SENDING does not stop the delivery of data.
NothingNewIgnoresStop(fr) ==
  IF fr.fin THEN "SHUT_RD" \in flags ELSE End(fr) <= RxOffset(gap)

\* The frame adds nothing: a repeated FIN, data already received, or data of
\* a stream whose reading the application has shut down.
NothingNew(fr) ==
  IF fr.fin THEN "SHUT_RD" \in flags
            ELSE End(fr) <= RxOffset(gap) \/ "STOP_SENDING" \in flags

RecvStreamRejected(fr) ==
  /\ strm' = IF strm = "none" /\ (fr.fin \/ fr.datalen > 0) THEN "open" ELSE strm
  /\ \/ /\ ~fr.fin /\ fr.datalen = 0
        /\ err' = "FRAME_FORMAT"
        /\ UNCHANGED rx_offset
     \/ /\ fr.fin \/ fr.datalen > 0
        /\ strm # "closed"
        /\ \/ /\ FlowControlError(End(fr))
              /\ err' = "FLOW_CONTROL"
              /\ UNCHANGED rx_offset
           \/ /\ ~FlowControlError(End(fr))
              /\ FinalOffsetError(fr)
              /\ err' = "FINAL_OFFSET"
              /\ CountRx(End(fr))
  /\ UNCHANGED <<flags, last_rx_offset, rob, app, nfin, stop_at, fin_recv,
                 assert_ok>>

\* ngtcp2_idtr_open reports that the id is in use: the stream was deleted.
RecvStreamIgnored(fr) ==
  /\ fr.fin \/ fr.datalen > 0
  /\ strm = "closed"
  /\ UNCHANGED vars

Accepted(fr) ==
  /\ fr.fin \/ fr.datalen > 0
  /\ strm # "closed"
  /\ ~FlowControlError(End(fr)) /\ ~FinalOffsetError(fr)
  /\ CountRx(End(fr))
  /\ last_rx_offset' = IF last_rx_offset < End(fr) THEN End(fr)
                                                   ELSE last_rx_offset
  /\ UNCHANGED err

\* Early returns that only update last_rx_offset.
RecvStreamNothingNew(fr) ==
  /\ Accepted(fr) /\ NothingNew(fr)
  /\ strm' = "open"
  /\ UNCHANGED <<flags, rob, app, nfin, stop_at, fin_recv, assert_ok>>

\* The peer's FIN on a stream whose reading was shut down: no data and no fin
\* is forwarded.
RecvFinStopped(fr) ==
  /\ Accepted(fr) /\ ~NothingNew(fr)
  /\ fr.fin /\ "STOP_SENDING" \in flags
  /\ fin_recv' = TRUE
  /\ flags' = flags \cup {"SHUT_RD"}
  /\ strm' = ngtcp2_conn_close_stream_if_shut_rdwr(flags', gap, last_rx_offset')
  /\ UNCHANGED <<rob, app, nfin, stop_at, assert_ok>>

FlagsAfter(fr) == IF fr.fin THEN flags \cup {"SHUT_RD"} ELSE flags

\* The FIN arrives when all data has been delivered.  In the callback, as in
\* those below, the application may call ngtcp2_conn_shutdown_stream_read.
RecvFinAlone(fr) ==
  /\ Accepted(fr) /\ ~NothingNew(fr)
  /\ fr.fin /\ "STOP_SENDING" \notin flags /\ End(fr) = RxOffset(gap)
  /\ fin_recv' = TRUE
  /\ nfin' = nfin + 1
  /\ \E n \in {NoCall, Len(app)} : ShutdownReadAt(n, FlagsAfter(fr))
  /\ strm' = ngtcp2_conn_close_stream_if_shut_rdwr(flags', gap, last_rx_offset')
  /\ UNCHANGED <<rob, app, assert_ok>>

Carries(fr) ==
  /\ Accepted(fr) /\ ~NothingNew(fr)
  /\ fr.fin => "STOP_SENDING" \notin flags /\ End(fr) # RxOffset(gap)
  /\ fin_recv' = (fin_recv \/ fr.fin)

\* The frame continues what was delivered: its new part is handed over, and
\* after it what conn_emit_pending_stream_data finds in the reorder buffer,
\* one piece per chunk, fin being set on the piece that ends the stream.
RecvInOrder(fr) ==
  LET rx == RxOffset(gap)
      rx1 == End(fr)
      rx2 == RxOffset(gap')
  IN  /\ Carries(fr) /\ fr.offset <= rx
      /\ RobAdvance(rx1)
      /\ app' = app \o SubSeq(Payload(fr), rx - fr.offset + 1, fr.datalen)
                    \o Pending(rx1)
      /\ nfin' = IF "SHUT_RD" \in FlagsAfter(fr) /\ rx2 = last_rx_offset'
                 THEN nfin + 1 ELSE nfin
      /\ assert_ok' = (assert_ok /\ EmitAsserts(rx1))
      /\ \E n \in {NoCall, rx1} \cup PieceEnds(rx1, rx2) :
            ShutdownReadAt(n, FlagsAfter(fr))
      /\ strm' = ngtcp2_conn_close_stream_if_shut_rdwr(flags', gap', last_rx_offset')

\* Something before the frame is missing: the frame goes to the reorder buffer.
RecvReordered(fr) ==
  /\ Carries(fr) /\ RxOffset(gap) < fr.offset
  /\ ngtcp2_rob_push(fr.offset, Payload(fr))
  /\ flags' = FlagsAfter(fr)
  /\ strm' = ngtcp2_conn_close_stream_if_shut_rdwr(flags', gap', last_rx_offset')
  /\ UNCHANGED <<app, nfin, stop_at, assert_ok>>

conn_recv_stream(fr) ==
  /\ err = "none"
  /\ \/ RecvStreamRejected(fr) \/ RecvStreamIgnored(fr)
     \/ RecvStreamNothingNew(fr) \/ RecvFinStopped(fr) \/ RecvFinAlone(fr)
     \/ RecvInOrder(fr) \/ RecvReordered(fr)

-----------------------------------------------------------------------------
(* conn_recv_rst_stream *)

\* RST_STREAM before any other frame of the stream: the id is marked used and
\* no ngtcp2_strm is created.
RecvRstBeforeStream(final) ==
  /\ strm = "none"
  /\ IF MaxStreamData < final \/ MaxData - rx_offset < final
     THEN err' = "FLOW_CONTROL" /\ UNCHANGED <<strm, rx_offset>>
     ELSE strm' = "closed" /\ rx_offset' = rx_offset + final /\ UNCHANGED err
  /\ UNCHANGED flags

RecvRst(final) ==
  /\ strm = "open"
  /\ IF \/ "SHUT_RD" \in flags /\ last_rx_offset # final
        \/ last_rx_offset > final
     THEN err' = "FINAL_OFFSET" /\ UNCHANGED <<strm, flags, rx_offset>>
     ELSE IF \/ MaxStreamData < final
             \/ MaxData - rx_offset < final - last_rx_offset
     THEN err' = "FLOW_CONTROL" /\ UNCHANGED <<strm, flags, rx_offset>>
     ELSE /\ rx_offset' = rx_offset + (final - last_rx_offset)
          /\ flags' = flags \cup {"SHUT_RD", "RECV_RST"}
          /\ strm' = ngtcp2_conn_close_stream_if_shut_rdwr(flags', gap, last_rx_offset)
          /\ UNCHANGED err

RecvRstIgnored ==
  /\ strm = "closed"
  /\ UNCHANGED <<strm, flags, rx_offset, err>>

conn_recv_rst_stream(final) ==
  /\ err = "none"
  /\ RecvRstBeforeStream(final) \/ RecvRst(final) \/ RecvRstIgnored
  /\ UNCHANGED <<last_rx_offset, rob, app, nfin, stop_at, fin_recv, assert_ok>>

-----------------------------------------------------------------------------
Next ==
  \/ \E fr \in StreamFrames : conn_recv_stream(fr)
  \/ \E final \in RstFrames : conn_recv_rst_stream(final)
  \/ ngtcp2_conn_shutdown_stream_read
  \/ WriteFin
  \/ AckFin

Spec == Init /\ [][Next]_vars

-----------------------------------------------------------------------------
(* Properties *)

TypeOK ==
  /\ strm \in {"none", "open", "closed"}
  /\ flags \subseteq Flags
  /\ last_rx_offset \in Offset
  /\ rx_offset \in Nat
  /\ RobTypeOK
  /\ app \in Seq(Int)
  /\ nfin \in Nat /\ stop_at \in Nat
  /\ fin_recv \in BOOLEAN /\ assert_ok \in BOOLEAN
  /\ err \in {"none", "FRAME_FORMAT", "FLOW_CONTROL", "FINAL_OFFSET"}

\* What the application got is the stream itself from its first byte up to
\* the first gap: conn_recv_stream never skips, repeats or misplaces a byte,
\* whatever the order, the overlap and the repetition of the frames.
DeliveredPrefix ==
  /\ Len(app) = RxOffset(gap)
  /\ \A i \in 1 .. Len(app) : app[i] = i - 1

\* No assertion in ngtcp2_rob_data_at or ngtcp2_rob_pop fails: the chunk at
\* the head of the list is always the one that holds the next byte.
NoAssertFails == assert_ok

\* The application is told fin at most once, and only together with the last
\* byte before the final offset.
FinAtEnd ==
  /\ nfin <= 1
  /\ nfin = 1 => "SHUT_RD" \in flags /\ Len(app) = last_rx_offset

\* ngtcp2_conn_close_stream_if_shut_rdwr deletes the stream only after all of
\* its data and fin were handed over, unless one side gave the stream up.
DeletedWhenDelivered ==
  strm = "closed" /\ "SHUT_RD" \in flags /\ flags \cap {"RECV_RST", "STOP_SENDING"} = {}
    => nfin = 1 /\ Len(app) = last_rx_offset

\* The flow control of the connection charges each byte of the stream once,
\* however often and in whatever order it arrives, and within the windows.
RxCharged ==
  /\ rx_offset <= MaxData /\ last_rx_offset <= MaxStreamData
  /\ strm = "open" /\ "RECV_RST" \notin flags /\ err = "none"
       => rx_offset = last_rx_offset

\* Once ngtcp2_conn_shutdown_stream_read has returned to an application that
\* was not in a callback, no later call hands over data or fin.
QuietAfterShutdownRead ==
  [][("STOP_SENDING" \in flags) => (app' = app /\ nfin' = nfin)]_vars

\* The invariant from which the ones above follow, whatever the frames: the
\* buffer is intact; nothing at or beyond last_rx_offset has been received; fin
\* has been reported exactly when the read side is shut and all is delivered
\* (unless one side gave the stream up); and a deleted stream was complete.
StreamRecvInv ==
  /\ TypeOK /\ BufferIntact /\ DeliveredPrefix /\ NoAssertFails /\ FinAtEnd
  /\ last_rx_offset < UINT64_MAX
  /\ \A i \in last_rx_offset .. UINT64_MAX - 1 : InGaps(gap, i)
  /\ "SHUT_RD" \notin flags => nfin = 0
  /\ strm = "none" => "SHUT_RD" \notin flags
  /\ "SHUT_RD" \in flags /\ flags \cap {"RECV_RST", "STOP_SENDING"} = {}
       => /\ RxOffset(gap) = last_rx_offset => nfin = 1
          /\ strm = "closed" => RxOffset(gap) = last_rx_offset
  /\ rx_offset <= MaxData /\ last_rx_offset <= MaxStreamData
  /\ strm # "closed" /\ "RECV_RST" \notin flags /\ err = "none"
       => rx_offset = last_rx_offset

-----------------------------------------------------------------------------
(* What the repository's comments say and the code does not do *)

\* ngtcp2.h on ngtcp2_conn_shutdown_stream_read: "If this function succeeds,
\* no application data is forwarded to an application layer."  That includes
\* a call made in the recv_stream_data callback.
ShutdownReadForwardsNothing ==
  "STOP_SENDING" \in flags => Len(app) = stop_at

\* NGTCP2_ERR_FINAL_OFFSET is for frames that disagree on the final offset; a
\* peer whose frames all agree never makes the connection fail.
NoErrorFromConformingPeer == err = "none"
=============================================================================
