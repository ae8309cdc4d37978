------------------------------ MODULE RtbList ------------------------------
(***************************************************************************)
(* The retransmission buffer as lib/ngtcp2_rtb.c has it, with the loops of *)
(* lib/ngtcp2_conn.c that fill and empty it: the list of entries that      *)
(* ngtcp2_rtb_recv_ack walks, the expiry of the entries, the frames that   *)
(* are dropped, written or left when an entry is retransmitted into a      *)
(* buffer of limited size, and the list of 0-RTT packets that joins the    *)
(* buffer when the handshake ends.                                         *)
(*                                                                         *)
(* Timers are relative: expiry and deadline are what is left, and Tick     *)
(* counts them down to 0.  Which of several expired entries comes first is *)
(* open.  ACK frames in the packets sent are module Acktr's.               *)
(***************************************************************************)
EXTENDS AckFrames

CONSTANTS
  Frames,             \* retransmittable frames
  Kind,               \* their types
  INITIAL_EXPIRY,     \* NGTCP2_INITIAL_EXPIRY, in ticks
  DEADLINE_PERIOD,    \* NGTCP2_PKT_DEADLINE_PERIOD, in ticks
  MAX_PKT_NUM,        \* packet numbers are exhausted (UINT64_MAX)
  Plans               \* the courses of a connection from which one is chosen:
                      \* hs, where it starts ("post", or "wait" for a client
                      \* with 0-RTT keys); frames, those it sends; rooms, how
                      \* many frames may fit into the caller's buffer; max,
                      \* the last packet number that is looked at

Kinds == {"STREAM", "RST_STREAM", "STOP_SENDING", "MAX_DATA", "HANDSHAKE"}

ASSUME RtbListAssumption ==
  /\ Kind \in [Frames -> Kinds]
  /\ INITIAL_EXPIRY \in Nat \ {0} /\ DEADLINE_PERIOD \in Nat \ {0}
  /\ \A p \in Plans :
        /\ p.hs \in {"wait", "post"} /\ p.frames \subseteq Frames
        /\ p.rooms \subseteq Nat /\ p.max <= MAX_PKT_NUM

VARIABLES
  plan,
  given, frq,        \* as in Rtb; frq is a sequence
  head,              \* rtb->head: the entries, the first one of the list first
  bytes_in_flight,   \* rtb->bytes_in_flight
  largest_acked,     \* rtb->largest_acked
  early,             \* conn->early_rtb
  last_tx,           \* conn->last_tx_pkt_num
  hs,                \* "wait", "almost" (NGTCP2_CS_CLIENT_HANDSHAKE_ALMOST_FINISHED)
                     \* or "post"
  rejected,          \* NGTCP2_CONN_FLAG_EARLY_DATA_REJECTED
  recv_protected,    \* NGTCP2_CONN_FLAG_RECV_PROTECTED_PKT
  sent, rcvd, gone,  \* as in Rtb; a packet has a type
  ack_missed,        \* an ACK frame left a packet it acknowledges in the list
  err                \* "none", "PKT_TIMEOUT", or "NULL" for a null pointer read

buffer == <<head, bytes_in_flight, largest_acked>>
vars == <<plan, given, frq, buffer, early, last_tx, hs, rejected, recv_protected,
          sent, rcvd, gone, ack_missed, err>>

HandshakeFrames == {f \in plan.frames : Kind[f] = "HANDSHAKE"}

Init ==
  /\ plan \in Plans
  /\ given = {} /\ frq = <<>> /\ head = <<>> /\ bytes_in_flight = 0
  /\ largest_acked = 0 /\ early = <<>> /\ last_tx = 0 /\ hs = plan.hs
  /\ rejected = FALSE /\ recv_protected = FALSE
  /\ sent = {} /\ rcvd = {} /\ gone = {} /\ ack_missed = FALSE /\ err = "none"

PktLen(frc) == Len(frc) + 1

\* ngtcp2_rtb_entry_new
Entry(frc, unprot) ==
  [num |-> last_tx + 1, frc |-> frc, expiry |-> INITIAL_EXPIRY,
   deadline |-> DEADLINE_PERIOD, count |-> 0, pktlen |-> PktLen(frc),
   unprot |-> unprot]

\* ngtcp2_rtb_entry_extend_expiry
Extended(ent) ==
  [ent EXCEPT !.expiry = INITIAL_EXPIRY * 2^(ent.count + 1), !.count = @ + 1]

\* ngtcp2_rtb_add
RtbAdd(h, ent) == <<ent>> \o h

-----------------------------------------------------------------------------
(* conn_retransmit *)

\* conn_retransmit_protected, the loop over the entry's frames: w are those
\* written, rest those left when the buffer is full, null a read of a null
\* pointer.  A STOP_SENDING without purpose is removed without continue: what
\* follows it is written, or read when nothing follows it.
RECURSIVE ScanProtected(_, _, _)
ScanProtected(frc, room, checked) ==
  IF frc = <<>> THEN [w |-> <<>>, rest |-> <<>>, null |-> checked]
  ELSE IF /\ ~checked /\ Head(frc) \in gone
          /\ Kind[Head(frc)] \in {"STREAM", "STOP_SENDING", "MAX_DATA"}
  THEN ScanProtected(Tail(frc), room, Kind[Head(frc)] = "STOP_SENDING")
  ELSE IF room = 0 THEN [w |-> <<>>, rest |-> frc, null |-> FALSE]
  ELSE LET s == ScanProtected(Tail(frc), room - 1, FALSE)
       IN  [s EXCEPT !.w = <<Head(frc)>> \o @]

\* conn_retransmit_unprotected, the loop over the entry's frames.
ScanUnprotected(frc, room) ==
  LET n == Min({room, Len(frc)})
  IN  [w |-> SubSeq(frc, 1, n), rest |-> SubSeq(frc, n + 1, Len(frc)), null |-> FALSE]

Scan(ent, room) ==
  IF ent.unprot THEN ScanUnprotected(ent.frc, room)
  ELSE ScanProtected(ent.frc, room, FALSE)

Outcome(h, bytes, w, unprot, rv) ==
  [head |-> h, bytes |-> bytes, w |-> w, unprot |-> unprot, rv |-> rv]

\* Mutant: ent->pktlen is set after ngtcp2_rtb_add.
ResentLateLen(h, bytes, ent, s) ==
  LET len == PktLen(s.w)
      new == [Extended(ent) EXCEPT !.num = last_tx + 1, !.frc = s.w, !.pktlen = len]
      old == [ent EXCEPT !.frc = s.rest, !.pktlen = len]
  IN  IF s.rest = <<>>
      THEN Outcome(RtbAdd(h, new), bytes + ent.pktlen, s.w, ent.unprot, "sent")
      ELSE Outcome(RtbAdd(RtbAdd(h, new), old), bytes + len + ent.pktlen, s.w,
                   ent.unprot, "sent")

\* A packet with the frames s.w was written.  When frames are left they stay
\* in ent, which keeps its number and its expiry, and those written get a new
\* entry.  ent->pktlen is set to the length of the new packet in both cases.
Resent(h, bytes, ent, s) ==
  LET len == PktLen(s.w)
      new == [Extended(ent) EXCEPT !.num = last_tx + 1, !.frc = s.w, !.pktlen = len]
      old == [ent EXCEPT !.frc = s.rest, !.pktlen = len]
  IN  IF s.rest = <<>>
      THEN Outcome(RtbAdd(h, new), bytes + len, s.w, ent.unprot, "sent")
      ELSE Outcome(RtbAdd(RtbAdd(h, new), old), bytes + 2 * len, s.w, ent.unprot, "sent")

\* Mutant: an entry that was sent again is not put back into the heap.
DueOnce(h) == {i \in DOMAIN h : h[i].expiry = 0 /\ h[i].count = 0}

\* The entries that may be at the top of rtb->pq when it has expired.
Due(h) == {i \in DOMAIN h : h[i].expiry = 0}

\* The set of outcomes of conn_retransmit: one for each entry that
\* ngtcp2_rtb_top may return.
RECURSIVE conn_retransmit(_, _, _)
conn_retransmit(h, bytes, room) ==
  LET Popped(i) ==
        LET ent  == h[i]
            hp   == RemoveAt(h, i)
            left == bytes - ent.pktlen
            s    == Scan(ent, room)
        IN  IF ent.deadline = 0 THEN {Outcome(hp, left, <<>>, FALSE, "PKT_TIMEOUT")}
            ELSE IF ent.unprot /\ recv_protected THEN conn_retransmit(hp, left, room)
            ELSE IF s.null THEN {Outcome(hp, left, <<>>, FALSE, "NULL")}
            ELSE IF s.w # <<>> THEN {Resent(hp, left, ent, s)}
            ELSE IF s.rest = <<>> THEN conn_retransmit(hp, left, room)
            ELSE {Outcome(RtbAdd(hp, [ent EXCEPT !.frc = s.rest]), bytes, <<>>, FALSE, "NOBUF")}
  IN  IF Due(h) = {} THEN {Outcome(h, bytes, <<>>, FALSE, "nothing")}
      ELSE UNION {Popped(i) : i \in Due(h)}

-----------------------------------------------------------------------------
(* Sending *)

Sent(F, type) ==
  /\ last_tx' = last_tx + 1
  /\ sent' = sent \cup {[num |-> last_tx + 1, frc |-> F, type |-> type]}

NotSent == UNCHANGED <<last_tx, sent>>

Apply(o) ==
  /\ head' = o.head /\ bytes_in_flight' = o.bytes
  /\ err' = IF o.rv \in {"PKT_TIMEOUT", "NULL"} THEN o.rv ELSE "none"
  /\ IF o.rv = "sent" THEN Sent(ToSet(o.w), IF o.unprot THEN "unprot" ELSE "short")
     ELSE NotSent

\* ngtcp2_conn_shutdown_stream and others: the frame goes in front of conn->frq.
Queue(f) ==
  /\ err = "none" /\ f \notin given
  /\ Kind[f] \in {"RST_STREAM", "STOP_SENDING", "MAX_DATA"}
  /\ given' = given \cup {f}
  /\ frq' = <<f>> \o frq
  /\ UNCHANGED <<buffer, early, last_tx, hs, rejected, recv_protected, sent, rcvd,
                 gone, ack_missed, err>>

\* ngtcp2_conn_write_stream: a packet with one STREAM frame; a 0-RTT packet
\* while there is no other key, until the rejection is known.  The 0-RTT key is
\* there once the TLS stack has made the first handshake message.
ngtcp2_conn_write_stream(f) ==
  /\ err = "none" /\ f \notin given /\ Kind[f] = "STREAM"
  /\ last_tx # plan.max
  /\ hs = "wait" => ~rejected /\ HandshakeFrames \cap given # {}
  /\ given' = given \cup {f}
  /\ IF hs = "wait"
     THEN /\ early' = Append(early, Entry(<<f>>, FALSE))
          /\ Sent({f}, "0rtt")
          /\ UNCHANGED <<head, bytes_in_flight>>
     ELSE /\ head' = RtbAdd(head, Entry(<<f>>, FALSE))
          /\ bytes_in_flight' = bytes_in_flight + PktLen(<<f>>)
          /\ Sent({f}, "short")
          /\ UNCHANGED early
  /\ UNCHANGED <<frq, largest_acked, hs, rejected, recv_protected, rcvd, gone,
                 ack_missed, err>>

\* Mutant: what does not fit is freed.
RECURSIVE ScanFrqDropsRest(_, _)
ScanFrqDropsRest(frc, room) ==
  IF frc = <<>> \/ room = 0 THEN [w |-> <<>>, rest |-> <<>>]
  ELSE LET s == ScanFrqDropsRest(Tail(frc), room - 1)
       IN  [s EXCEPT !.w = <<Head(frc)>> \o @]

\* conn_write_pkt, the loop over conn->frq.
RECURSIVE ScanFrq(_, _)
ScanFrq(frc, room) ==
  IF frc = <<>> THEN [w |-> <<>>, rest |-> <<>>]
  ELSE IF Head(frc) \in gone /\ Kind[Head(frc)] \in {"RST_STREAM", "STOP_SENDING"}
  THEN ScanFrq(Tail(frc), room)
  ELSE IF room = 0 THEN [w |-> <<>>, rest |-> frc]
  ELSE LET s == ScanFrq(Tail(frc), room - 1)
       IN  [s EXCEPT !.w = <<Head(frc)>> \o @]

\* o is what conn_retransmit has left.
conn_write_pkt(o, room) ==
  LET s == ScanFrq(frq, room)
  IN  /\ frq' = s.rest
      /\ IF s.w = <<>> THEN Apply(o)
         ELSE /\ head' = RtbAdd(o.head, Entry(s.w, FALSE))
              /\ bytes_in_flight' = o.bytes + PktLen(s.w)
              /\ Sent(ToSet(s.w), "short")
              /\ UNCHANGED err
      /\ UNCHANGED <<given, early, hs>>

\* conn_write_client_initial, conn_write_client_handshake and
\* conn_write_handshake_pkt: the next piece of the handshake, if any.
WriteHandshake(o, room) ==
  LET f == CHOOSE g \in HandshakeFrames \ given : TRUE
  IN  /\ HandshakeFrames \ given # {}
      /\ IF room = 0 THEN Apply(o) /\ UNCHANGED given
         ELSE /\ given' = given \cup {f}
              /\ head' = RtbAdd(o.head, Entry(<<f>>, TRUE))
              /\ bytes_in_flight' = o.bytes + PktLen(<<f>>)
              /\ Sent({f}, "unprot")
              /\ UNCHANGED err
      /\ UNCHANGED <<frq, early, hs>>

RECURSIVE SumLen(_)
SumLen(h) == IF h = <<>> THEN 0 ELSE Head(h).pktlen + SumLen(Tail(h))

\* conn_process_early_rtb adds the 0-RTT packets to the list, one by one.
conn_process_early_rtb(h) ==
  LET ents == [i \in DOMAIN early |->
                 IF rejected THEN [early[i] EXCEPT !.expiry = 0] ELSE early[i]]
  IN  Reverse(ents) \o h

FinishHandshake(o, room) ==
  /\ hs = "almost" /\ HandshakeFrames \subseteq given
  /\ hs' = "post" /\ early' = <<>>
  /\ IF early = <<>> THEN Apply(o)
     ELSE \E o2 \in conn_retransmit(conn_process_early_rtb(o.head),
                                    o.bytes + SumLen(early), room) : Apply(o2)
  /\ UNCHANGED <<given, frq>>

NothingToWrite(o) ==
  /\ hs = "wait" /\ HandshakeFrames \subseteq given
  /\ Apply(o)
  /\ UNCHANGED <<given, frq, early, hs>>

ngtcp2_conn_write_pkt(room) ==
  /\ err = "none" /\ last_tx # plan.max
  /\ \E o \in conn_retransmit(head, bytes_in_flight, room) :
        IF o.rv # "nothing" THEN Apply(o) /\ UNCHANGED <<given, frq, early, hs>>
        ELSE IF hs = "post" THEN conn_write_pkt(o, room)
        ELSE \/ WriteHandshake(o, room)
             \/ FinishHandshake(o, room)
             \/ NothingToWrite(o)
  /\ UNCHANGED <<largest_acked, rejected, recv_protected, rcvd, gone, ack_missed>>

-----------------------------------------------------------------------------
(* Receiving *)

\* ngtcp2_rtb_recv_ack: unprotected if the ACK came in an unprotected packet.
ngtcp2_rtb_recv_ack(fr, unprotected) ==
  LET hits  == {i \in Walk([i \in DOMAIN head |-> head[i].num], fr) :
                   unprotected => head[i].unprot}
      taken == SetToSortSeq(hits, <)
      keep  == SetToSortSeq(DOMAIN head \ hits, <)
      Part(ix) == [i \in DOMAIN ix |-> head[ix[i]]]
  IN  /\ head' = Part(keep)
      /\ bytes_in_flight' = bytes_in_flight - SumLen(Part(taken))
      /\ largest_acked' = Max({largest_acked} \cup {head[i].num : i \in hits})

\* conn_recv_ack.  The peer acknowledges some of the packets it has.
RecvAck ==
  \E S \in SUBSET rcvd \ {{}}, unprotected \in BOOLEAN :
     /\ err = "none"
     /\ unprotected => \E p \in sent : p.num \in S /\ p.type = "unprot"
     /\ ngtcp2_rtb_recv_ack(conn_create_ack_frame(SetToSortSeq(S, >)).fr, unprotected)
     /\ ack_missed' = (ack_missed \/ \E e \in ToSet(head') :
                          e.num \in S /\ (unprotected => e.unprot))
     /\ UNCHANGED <<given, frq, early, last_tx, hs, rejected, recv_protected, sent,
                    rcvd, gone, err>>

\* A server that rejects 0-RTT data drops the packets, as the network may.
Receive(p) ==
  /\ err = "none" /\ p.num \notin rcvd
  /\ rcvd' = rcvd \cup {p.num}
  /\ UNCHANGED <<given, frq, buffer, early, last_tx, hs, rejected, recv_protected,
                 sent, gone, ack_missed, err>>

\* Client::tls_handshake asks the TLS stack about its early data with every part of
\* the server's answer, and calls ngtcp2_conn_early_data_rejected unless it is
\* known to be accepted.
early_data_rejected == rejected' \in {rejected, TRUE}

\* A part of the server's answer to the handshake packets, the last one or not.
RecvHandshake ==
  /\ err = "none" /\ hs = "wait"
  /\ \E p \in sent : p.type = "unprot" /\ p.num \in rcvd
  /\ hs' \in {"wait", "almost"}
  /\ early_data_rejected
  /\ UNCHANGED <<given, frq, buffer, early, last_tx, recv_protected, sent, rcvd,
                 gone, ack_missed, err>>

RecvProtected ==
  /\ err = "none" /\ hs # "wait" /\ ~recv_protected
  /\ HandshakeFrames # {}
  /\ recv_protected' = TRUE
  /\ UNCHANGED <<given, frq, buffer, early, last_tx, hs, rejected, sent, rcvd,
                 gone, ack_missed, err>>

\* A stream is closed or reset, or a window is extended further.
LosePurpose(f) ==
  /\ err = "none" /\ f \in given \ gone /\ Kind[f] # "HANDSHAKE"
  /\ gone' = gone \cup {f}
  /\ UNCHANGED <<given, frq, buffer, early, last_tx, hs, rejected, recv_protected,
                 sent, rcvd, ack_missed, err>>

Count(t) == IF t = 0 THEN 0 ELSE t - 1
Aged(h) == [i \in DOMAIN h |-> [h[i] EXCEPT !.expiry = Count(@), !.deadline = Count(@)]]

\* Time passes; the caller may be late.
Tick ==
  /\ err = "none"
  /\ head' = Aged(head) /\ early' = Aged(early)
  /\ <<head, early>>' # <<head, early>>
  /\ UNCHANGED <<given, frq, bytes_in_flight, largest_acked, last_tx, hs, rejected,
                 recv_protected, sent, rcvd, gone, ack_missed, err>>

Next ==
  \/ \E f \in plan.frames : Queue(f) \/ ngtcp2_conn_write_stream(f) \/ LosePurpose(f)
  \/ \E room \in plan.rooms : ngtcp2_conn_write_pkt(room)
  \/ RecvAck
  \/ \E p \in sent : Receive(p)
  \/ RecvHandshake
  \/ RecvProtected
  \/ Tick

Spec == Init /\ [][Next /\ UNCHANGED plan]_vars

\* The caller keeps asking for packets with a buffer of full size, and time
\* goes on.
FairSpec ==
  /\ Spec
  /\ WF_vars(ngtcp2_conn_write_pkt(Max(plan.rooms)) /\ UNCHANGED plan)
  /\ WF_vars(Tick /\ UNCHANGED plan)

-----------------------------------------------------------------------------
(* Properties *)

TypeOK ==
  /\ given \subseteq Frames /\ ToSet(frq) \subseteq given /\ gone \subseteq given
  /\ \A e \in ToSet(head) \cup ToSet(early) :
        /\ e.num \in 1 .. last_tx
        /\ ToSet(e.frc) \subseteq given
        /\ e.expiry \in Nat /\ e.deadline \in 0 .. DEADLINE_PERIOD
        /\ e.count \in Nat /\ e.pktlen \in Nat
  /\ largest_acked \in 0 .. last_tx
  /\ {p.num : p \in sent} = 1 .. last_tx /\ rcvd \subseteq 1 .. last_tx
  /\ hs \in {"wait", "almost", "post"}
  /\ err \in {"none", "PKT_TIMEOUT", "NULL"}

Bare(ents) == {[num |-> e.num, frc |-> ToSet(e.frc)] : e \in ents}

R == INSTANCE Rtb WITH
       frq  <- ToSet(frq),
       ents <- Bare(ToSet(head) \cup ToSet(early)),
       sent <- {[num |-> p.num, frc |-> p.frc] : p \in sent},
       gone <- gone \cup (IF recv_protected THEN HandshakeFrames ELSE {}),
       over <- err # "none"

\* The lists, timers and loops implement Rtb: whatever the order in which
\* packets expire, fit, are acknowledged or cancelled, frames move between the
\* queue, the entries and the packets as Rtb says.  So none is lost, and none
\* is in two chains and freed twice: FramesNeverLost and FramesInOnePlace of
\* RtbProofs hold of every behaviour of Rtb.
RefinesRtb == R!RtbSpec

\* rtb->bytes_in_flight is the sum of the lengths of the packets linked from
\* head (lib/ngtcp2_rtb.h:147), so that the assertions of ngtcp2_rtb_pop and
\* rtb_remove hold.  conn_retransmit_protected runs past the end of an entry's
\* chain in one case only, when it cancels a STOP_SENDING there.
BytesInFlight ==
  /\ TypeOK
  /\ bytes_in_flight = SumLen(head)
  /\ err = "NULL" => \E f \in gone : Kind[f] = "STOP_SENDING"

\* The list is sorted by decreasing packet number (lib/ngtcp2_rtb.h:143).
RtbSorted == \A i \in 1 .. Len(head) - 1 : head[i].num > head[i + 1].num

\* An acknowledged packet leaves the buffer with the ACK frame that
\* acknowledges it: ngtcp2_rtb_recv_ack finds it on its walk.
AckReleases == ~ack_missed

\* conn_retransmit_protected reads no null pointer.
NoNullRead == err # "NULL"

\* A frame is not kept for ever: the peer acknowledges the packet, the frame
\* loses its purpose, or conn_retransmit gives up after
\* NGTCP2_PKT_DEADLINE_PERIOD (or reads the null pointer of NoNullRead).
Settles ==
  \A f \in Frames :
     (plan.hs = "post" /\ f \in given) ~> (~R!Held(f) \/ f \in gone \/ err # "none")
=============================================================================
