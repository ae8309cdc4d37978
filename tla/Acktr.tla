------------------------------- MODULE Acktr -------------------------------
(***************************************************************************)
(* The acknowledgement tracker of one endpoint (lib/ngtcp2_acktr.c), the   *)
(* ring of ACK frames it has sent (lib/ngtcp2_ringbuf.c), and the functions *)
(* of lib/ngtcp2_conn.c that feed it and turn it into ACK frames:          *)
(* ngtcp2_conn_sched_ack, conn_create_ack_frame, conn_commit_tx_ack and    *)
(* the delayed-ACK timer.                                                  *)
(*                                                                         *)
(* Packets of the peer arrive in any order, any number of times or never.  *)
(* A packet that carries an ACK frame reaches the peer or is lost; the     *)
(* peer acknowledges any of those that reached it, at any time.            *)
(***************************************************************************)
EXTENDS AckFrames

CONSTANTS
  RxNums,       \* packet numbers of the peer
  Unprotected,  \* those sent as Initial, Handshake or Retry packets
  Active,       \* those with a frame that requires an acknowledgement
  MAX_ENT,      \* NGTCP2_ACKTR_MAX_ENT
  Plans         \* the courses of a connection from which one is chosen: rx, the
                \* packets of the peer that may arrive; tx, how many this
                \* endpoint sends; nmemb, the capacity of the ring (128 in
                \* ngtcp2_acktr_init)

ASSUME AcktrAssumption ==
  /\ RxNums \subseteq Nat /\ Unprotected \subseteq RxNums /\ Active \subseteq RxNums
  /\ MAX_ENT \in Nat \ {0}
  /\ \A p \in Plans : p.rx \subseteq RxNums /\ p.tx \in Nat /\ p.nmemb \in Nat \ {0}

VARIABLES
  plan,
  ent,         \* acktr->ent: packet numbers, in list order
  acks,        \* acktr->acks: [pkt_num, ack, unprotected], newest first
  active_ack,  \* acktr->active_ack
  timer,       \* conn->next_ack_expiry: "off" (0), "set" or "expired"
  immediate_ack,
  last_tx,     \* conn->last_tx_pkt_num, counted from 0
  post,        \* POST_HANDSHAKE: ACK frames go into protected packets
  err,
  \* What happened so far:
  recvd,       \* packets of the peer that arrived
  early,       \* protected packets among them, before the handshake completed
  covered,     \* packets that some ACK frame sent so far acknowledges
  forgot,      \* packets dropped from ent because of a limit
  sent,        \* ACK frames sent, by packet number
  arrived,     \* packets of this endpoint that reached the peer
  known,       \* packets that the peer knows to have arrived
  allocated,   \* ACK frames in acks or pushed out of it, not freed: pkt_num
  dropped      \* ACK frames that a full ring pushed out

acktr == <<ent, acks, active_ack>>
expiry == <<timer, immediate_ack>>
history == <<recvd, early, covered, forgot, sent, arrived, known>>
frames == <<allocated, dropped>>
vars == <<plan, acktr, expiry, last_tx, post, err, history, frames>>

Init ==
  /\ plan \in Plans
  /\ ent = <<>> /\ acks = <<>> /\ active_ack = FALSE
  /\ timer = "off" /\ immediate_ack = FALSE
  /\ last_tx = 0 /\ post \in BOOLEAN /\ err = "none"
  /\ recvd = {} /\ early = {} /\ covered = {} /\ forgot = {}
  /\ sent = <<>> /\ arrived = {} /\ known = {}
  /\ allocated = {} /\ dropped = {}

-----------------------------------------------------------------------------
(* Receiving packets *)

\* ngtcp2_acktr_add: the place of n in the list, whose order is decreasing.
AddEntry(list, n) == SelectSeq(list, LAMBDA x : x > n) \o <<n>>
                     \o SelectSeq(list, LAMBDA x : x < n)

\* Mutant: only the first packet of a list starts the timer.
ArmTimerWhenEmpty(active) == IF ent = <<>> /\ active THEN "set" ELSE timer

\* The end of ngtcp2_conn_sched_ack: conn_set_next_ack_expiry.
ArmTimer(active) ==
  IF ~immediate_ack /\ timer = "off" /\ active THEN "set" ELSE timer

ngtcp2_conn_sched_ack(n) ==
  LET list == AddEntry(ent, n)
      full == Len(list) > MAX_ENT
  IN  /\ err = "none"
      \* Protected packets are buffered until the first Handshake packet.
      /\ ~post /\ recvd = {} => n \in Unprotected
      /\ recvd' = recvd \cup {n}
      /\ early' = IF post THEN early ELSE early \cup ({n} \ Unprotected)
      /\ IF n \in ToSet(ent)
         THEN err' = "PROTO" /\ UNCHANGED <<acktr, timer, forgot>>
         ELSE /\ ent' = IF full THEN Front(list) ELSE list
              /\ forgot' = IF full THEN forgot \cup {Last(list)} ELSE forgot
              /\ active_ack' = (active_ack \/ n \in Active)
              /\ timer' = ArmTimer(active_ack')
              /\ UNCHANGED <<acks, err>>
      /\ UNCHANGED <<immediate_ack, last_tx, post, covered, sent, arrived, known,
                     frames>>

\* ngtcp2_conn_close_stream calls conn_immediate_ack.
conn_immediate_ack ==
  /\ err = "none"
  /\ immediate_ack' = TRUE
  /\ UNCHANGED <<acktr, timer, last_tx, post, err, history, frames>>

\* The delayed-ACK timeout passes.
Expire ==
  /\ timer = "set"
  /\ timer' = "expired"
  /\ UNCHANGED <<acktr, immediate_ack, last_tx, post, err, history, frames>>

\* The handshake completes.
BecomePost ==
  /\ err = "none" /\ ~post
  /\ post' = TRUE
  /\ UNCHANGED <<acktr, expiry, last_tx, err, history, frames>>

-----------------------------------------------------------------------------
(* Writing ACK frames *)

conn_next_ack_expired == immediate_ack \/ timer = "expired"

conn_invalidate_next_ack_expiry == timer' = "off" /\ immediate_ack' = FALSE

\* The packets that conn_create_ack_frame acknowledges.
ToAck == IF post THEN ent ELSE SelectSeq(ent, LAMBDA n : n \in Unprotected)

\* conn_create_ack_frame finds nothing to acknowledge.
NothingToAck ==
  /\ err = "none" /\ conn_next_ack_expired
  /\ ~active_ack \/ ToAck = <<>>
  /\ conn_invalidate_next_ack_expiry
  /\ UNCHANGED <<acktr, last_tx, post, err, history, frames>>

\* ngtcp2_acktr_forget: the list is cut at the first element left.
ngtcp2_acktr_forget(list, left) ==
  IF left = <<>> THEN list ELSE SelectSeq(list, LAMBDA n : n > Head(left))

conn_commit_tx_ack == conn_invalidate_next_ack_expiry /\ active_ack' = FALSE

\* ngtcp2_acktr_add_ack: ngtcp2_ringbuf_push_front makes room in a full ring by
\* giving up its oldest element.  The frame in it is not freed.
ngtcp2_acktr_add_ack(e) ==
  LET ring == <<e>> \o acks
      full == Len(ring) > plan.nmemb
  IN  /\ acks' = IF full THEN Front(ring) ELSE ring
      /\ dropped' = IF full THEN dropped \cup {Last(ring).pkt_num} ELSE dropped
      /\ allocated' = allocated \cup {e.pkt_num}

\* An ACK frame is created and goes out, alone or with other frames, in a
\* packet of conn_write_handshake_pkt, conn_write_handshake_ack_pkt,
\* conn_write_pkt, conn_write_protected_ack_pkt or conn_retransmit_protected.
WriteAck ==
  LET made == conn_create_ack_frame(ToAck)
  IN  /\ err = "none" /\ conn_next_ack_expired /\ last_tx < plan.tx
      /\ active_ack /\ ToAck # <<>>
      /\ ent' = ngtcp2_acktr_forget(ent, made.left)
      /\ conn_commit_tx_ack
      /\ ngtcp2_acktr_add_ack([pkt_num |-> last_tx + 1, ack |-> made.fr,
                               unprotected |-> ~post])
      /\ last_tx' = last_tx + 1
      /\ sent' = Append(sent, made.fr)
      /\ covered' = covered \cup Acked(made.fr)
      /\ forgot' = forgot \cup (ToSet(ent) \ ToSet(ent'))
      /\ UNCHANGED <<post, err, recvd, early, arrived, known>>

\* The frame is created and does not fit: it is freed, and the timer stays.
WriteAckNoBuf ==
  LET made == conn_create_ack_frame(ToAck)
  IN  /\ err = "none" /\ conn_next_ack_expired
      /\ active_ack /\ ToAck # <<>>
      /\ ent' = ngtcp2_acktr_forget(ent, made.left)
      /\ forgot' = forgot \cup (ToSet(ent) \ ToSet(ent'))
      /\ UNCHANGED <<acks, active_ack, expiry, last_tx, post, err, recvd, early,
                     covered, sent, arrived, known, frames>>

-----------------------------------------------------------------------------
(* The peer *)

\* A packet with an ACK frame arrives.
PeerReceives(n) ==
  /\ n \in 1 .. last_tx \ arrived
  /\ arrived' = arrived \cup {n}
  /\ known' = known \cup Acked(ngtcp2_pkt_decode_ack_frame(sent[n]))
  /\ UNCHANGED <<acktr, expiry, last_tx, post, err, recvd, early, covered,
                 forgot, sent, frames>>

\* Mutant: everything up to the largest acknowledged packet is released.
AcktrOnAckAll(list, fr) == SelectSeq(list, LAMBDA n : n > fr.largest_ack)

\* acktr_on_ack, the loops over the entries.
acktr_on_ack(list, fr) ==
  LET hits == Walk(list, fr)
  IN  [k \in 1 .. Len(list) - Cardinality(hits) |->
         list[CHOOSE i \in DOMAIN list \ hits :
                Cardinality({j \in DOMAIN list \ hits : j <= i}) = k]]

\* The ring is cut at the acknowledged ACK frame; it and the older ones are freed.
FreedAcks(j) == {acks[i].pkt_num : i \in j .. Len(acks)}

\* An ACK frame of the peer: the newest of the sent ACK frames that it
\* acknowledges releases its packets, and the older ones with it.
ngtcp2_acktr_recv_ack(fr, unprotected) ==
  LET hits == {j \in Walk([j \in DOMAIN acks |-> acks[j].pkt_num], fr) :
                  ~(unprotected /\ ~acks[j].unprotected)}
      j    == Min(hits)
  IN  /\ err = "none" /\ ngtcp2_pkt_validate_ack(fr)
      /\ IF hits = {} THEN UNCHANGED <<ent, acks, allocated>>
         ELSE /\ ent' = acktr_on_ack(ent, acks[j].ack)
              /\ acks' = SubSeq(acks, 1, j - 1)
              /\ allocated' = allocated \ FreedAcks(j)
      /\ UNCHANGED <<active_ack, expiry, last_tx, post, err, history, dropped>>

\* Packet numbers in decreasing order.
Descending(S) == SetToSortSeq(S, LAMBDA a, b : a > b)

Next ==
  \/ \E n \in plan.rx : ngtcp2_conn_sched_ack(n)
  \/ conn_immediate_ack \/ Expire \/ BecomePost
  \/ NothingToAck \/ WriteAck \/ WriteAckNoBuf
  \/ \E n \in 1 .. plan.tx : PeerReceives(n)
  \/ \E S \in SUBSET arrived \ {{}}, u \in BOOLEAN :
        ngtcp2_acktr_recv_ack(conn_create_ack_frame(Descending(S)).fr, u)

Spec == Init /\ [][Next /\ UNCHANGED plan]_vars

\* The application calls the library when a timer expires, with room for the
\* frame.
FairSpec ==
  /\ Spec
  /\ WF_vars(Expire /\ UNCHANGED plan)
  /\ WF_vars(NothingToAck /\ UNCHANGED plan)
  /\ WF_vars(WriteAck /\ UNCHANGED plan)

-----------------------------------------------------------------------------
(* Properties *)

\* Includes the order of both lists, decreasing in the packet number, which
\* the walks of an ACK frame rely on.
TypeOK ==
  /\ \A i \in DOMAIN ent : ent[i] \in RxNums /\ (i > 1 => ent[i] < ent[i - 1])
  /\ Len(ent) <= MAX_ENT /\ Len(acks) <= plan.nmemb
  /\ \A i \in DOMAIN acks : i > 1 => acks[i].pkt_num < acks[i - 1].pkt_num
  /\ active_ack \in BOOLEAN /\ immediate_ack \in BOOLEAN /\ post \in BOOLEAN
  /\ timer \in {"off", "set", "expired"} /\ last_tx \in 0 .. plan.tx
  /\ err \in {"none", "PROTO"} /\ dropped \subseteq allocated

\* An ACK frame acknowledges packets that arrived and no others, whatever the
\* gaps between them, and is one that its receiver accepts.
AckTruthful ==
  /\ TypeOK
  /\ \A n \in DOMAIN sent : Acked(sent[n]) \subseteq recvd /\ ngtcp2_pkt_validate_ack(sent[n])

\* The packets that require an acknowledgement and wait for their first one.
Pending == (ToSet(ent) \cap Active) \ covered

AckScheduled == active_ack /\ (timer # "off" \/ immediate_ack)

\* A packet leaves the tracker only when the peer knows that it arrived, or
\* because of one of the limits: losing ACK frames never loses an entry.  One
\* that requires an acknowledgement keeps active_ack, and with it a running
\* timer, until an ACK frame acknowledges it, unless it is a 0-RTT packet that
\* arrived during the handshake: that one keeps its entry, and may lose the
\* timer (ActiveAckKept).  The ACK frames whose ownership ngtcp2_acktr_add_ack
\* took (lib/ngtcp2_acktr.h) and that are not freed are those in the ring and
\* those that a full ring pushed out.  So no frame in the ring has been freed,
\* and one is lost in no other way.
KeptUntilKnown ==
  /\ recvd \subseteq ToSet(ent) \cup known \cup forgot
  /\ Pending \ early # {} => AckScheduled
  /\ allocated = {acks[i].pkt_num : i \in DOMAIN acks} \cup dropped

\* Every packet that requires it is acknowledged in some ACK frame, however
\* the arrival of further packets and of ACK frames is interleaved with it.
EventuallyAcked ==
  \A n \in Active : (n \in ToSet(ent) \ early) ~>
     (n \in covered \cup forgot \/ err # "none" \/ last_tx = plan.tx)

\* acktr.h: "active_ack is nonzero if ACK frame should be sent actively".
ActiveAckKept == Pending # {} => AckScheduled

\* pkt.h: "the maximum number of Additional ACK blocks which this library can
\* create, or decode".
BlocksWithinLimit == \A n \in DOMAIN sent : Len(sent[n].blks) <= MAX_ACK_BLKS
=============================================================================
