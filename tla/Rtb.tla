-------------------------------- MODULE Rtb --------------------------------
(***************************************************************************)
(* What the retransmission buffer (lib/ngtcp2_rtb.c) and the functions     *)
(* that fill and empty it (ngtcp2_conn_write_pkt, conn_retransmit,         *)
(* ngtcp2_conn_write_stream, conn_recv_ack) do with frames: which frames   *)
(* each packet carries, and which frames each entry still holds.           *)
(*                                                                         *)
(* Entries are a set here.  Which of the acknowledged entries an ACK frame *)
(* releases, which entry expires first and how many frames fit into a      *)
(* packet is left open.  Module RtbList has the list, the timers and the   *)
(* loops, and implements this specification.                               *)
(***************************************************************************)
EXTENDS Integers

CONSTANTS
  Frames,       \* retransmittable frames
  MAX_PKT_NUM   \* packet numbers are exhausted (UINT64_MAX)

VARIABLES
  given,     \* frames handed to the library so far
  frq,       \* conn->frq: those that wait for a packet
  ents,      \* entries of conn->rtb and conn->early_rtb: [num, frc]
  last_tx,   \* conn->last_tx_pkt_num, counted from 0
  sent,      \* packets sent: [num, frc]
  rcvd,      \* numbers of the packets that the peer has received
  gone,      \* frames without purpose: their stream is closed or reset, their
             \* window superseded, or the handshake is over
  over       \* an error of conn_retransmit has ended the connection

rtbVars == <<given, frq, ents, last_tx, sent, rcvd, gone, over>>

RtbInit ==
  /\ given = {} /\ frq = {} /\ ents = {} /\ last_tx = 0
  /\ sent = {} /\ rcvd = {} /\ gone = {} /\ over = FALSE

Pkt(n, F) == [num |-> n, frc |-> F]

-----------------------------------------------------------------------------
(* Sending *)

\* A control frame is queued.
Queue(f) ==
  /\ ~over /\ f \notin given
  /\ given' = given \cup {f}
  /\ frq' = frq \cup {f}
  /\ UNCHANGED <<ents, last_tx, sent, rcvd, gone, over>>

SendNew(F) ==
  /\ last_tx # MAX_PKT_NUM
  /\ last_tx' = last_tx + 1
  /\ sent' = sent \cup {Pkt(last_tx + 1, F)}
  /\ UNCHANGED <<rcvd, gone, over>>

\* conn_retransmit deletes the expired entries D that have no frame left to
\* send before it comes to one that has.
Useless(D) == D \subseteq ents /\ \A d \in D : d.frc \subseteq gone

\* ngtcp2_conn_write_stream, conn_write_handshake_pkt: a new frame, alone.
WriteNew ==
  \E f \in Frames \ given, D \in SUBSET ents :
     /\ ~over /\ Useless(D)
     /\ given' = given \cup {f}
     /\ ents' = (ents \ D) \cup {Pkt(last_tx + 1, {f})}
     /\ SendNew({f})
     /\ UNCHANGED frq

\* conn_write_pkt: queued frames; those without purpose may be dropped.
WriteQueued ==
  \E F \in SUBSET frq, drop \in SUBSET frq, D \in SUBSET ents :
     /\ ~over /\ Useless(D)
     /\ F # {} /\ drop \subseteq gone \ F
     /\ frq' = frq \ (F \cup drop)
     /\ ents' = (ents \ D) \cup {Pkt(last_tx + 1, F)}
     /\ SendNew(F)
     /\ UNCHANGED given

WriteNothing ==
  \E drop \in SUBSET frq, D \in SUBSET ents :
     /\ ~over /\ Useless(D) /\ drop \subseteq gone
     /\ frq' = frq \ drop
     /\ ents' = ents \ D
     /\ UNCHANGED <<given, last_tx, sent, rcvd, gone, over>>

\* The entry e is retransmitted: F goes into the packet, K stays, and what has
\* no purpose any more is dropped.
Split(e, F, K) ==
  /\ F \cap K = {} /\ F \cup K \subseteq e.frc
  /\ e.frc \ (F \cup K) \subseteq gone

\* All of the entry fits: the entry gets the new packet's number.  Otherwise
\* the frames sent get an entry of their own and the rest keeps the old one.
Retransmit ==
  \E D \in SUBSET ents : \E e \in ents \ D : \E F, K \in SUBSET e.frc :
     /\ ~over /\ Useless(D)
     /\ F # {} /\ Split(e, F, K)
     /\ ents' = (ents \ (D \cup {e})) \cup {Pkt(last_tx + 1, F)}
                \cup (IF K = {} THEN {} ELSE {Pkt(e.num, K)})
     /\ SendNew(F)
     /\ UNCHANGED <<given, frq>>

\* Not even one frame fits: the entry is put back.
RetransmitNoBuf ==
  \E D \in SUBSET ents : \E e \in ents \ D : \E K \in SUBSET e.frc :
     /\ ~over /\ Useless(D)
     /\ K # {} /\ Split(e, {}, K)
     /\ ents' = (ents \ (D \cup {e})) \cup {Pkt(e.num, K)}
     /\ UNCHANGED <<given, frq, last_tx, sent, rcvd, gone, over>>

\* NGTCP2_ERR_PKT_TIMEOUT
GiveUp ==
  \E D \in SUBSET ents : \E e \in ents \ D :
     /\ ~over /\ Useless(D)
     /\ ents' = ents \ (D \cup {e})
     /\ over' = TRUE
     /\ UNCHANGED <<given, frq, last_tx, sent, rcvd, gone>>

-----------------------------------------------------------------------------
(* The network, the peer and the rest of the connection *)

Receive ==
  /\ ~over
  /\ UNCHANGED <<given, frq, ents, last_tx, sent, gone, over>>
  /\ \E p \in sent : rcvd' = rcvd \cup {p.num}

\* conn_recv_ack: only packets that arrived are acknowledged.
RecvAck ==
  /\ ~over
  /\ UNCHANGED <<given, frq, last_tx, sent, rcvd, gone, over>>
  /\ \E R \in SUBSET ents :
        /\ \A e \in R : e.num \in rcvd
        /\ ents' = ents \ R

LosePurpose ==
  /\ ~over
  /\ \E F \in SUBSET Frames : gone' = gone \cup F
  /\ UNCHANGED <<given, frq, ents, last_tx, sent, rcvd, over>>

RtbNext ==
  \/ Receive \/ RecvAck
  \/ \E f \in Frames : Queue(f)
  \/ WriteNew \/ WriteQueued \/ WriteNothing
  \/ Retransmit \/ RetransmitNoBuf \/ GiveUp
  \/ LosePurpose

RtbSpec == RtbInit /\ [][RtbNext]_rtbVars

-----------------------------------------------------------------------------
(* Properties *)

RtbTypeOK ==
  /\ given \subseteq Frames /\ frq \subseteq given /\ gone \subseteq Frames
  /\ last_tx \in Nat
  /\ ents \subseteq [num : 1 .. last_tx, frc : SUBSET given]
  /\ sent \subseteq [num : 1 .. last_tx, frc : SUBSET given]
  /\ rcvd \subseteq 1 .. last_tx
  /\ over \in BOOLEAN

\* The peer has received a packet with the frame.
Delivered(f) == \E p \in sent : p.num \in rcvd /\ f \in p.frc

Held(f) == f \in frq \/ \E e \in ents : f \in e.frc

\* No frame is lost: as long as the connection lives, a frame that was handed
\* over is queued or in an entry of the buffer, unless the peer has received
\* it or it has lost its purpose.  Splitting and renumbering entries, and
\* releasing an entry by an acknowledgement of its old number, keep that.
NothingLost ==
  ~over => \A f \in given : Held(f) \/ Delivered(f) \/ f \in gone

\* A frame is in one place only: conn_retransmit moves frames between chains,
\* and a frame in two chains would be freed twice.
OnePlace ==
  /\ \A e \in ents : e.frc \cap frq = {}
  /\ \A d, e \in ents : d = e \/ d.frc \cap e.frc = {}

\* An entry holds frames of the packet whose number it has.
EntriesSent ==
  \A e \in ents : \E p \in sent : p.num = e.num /\ e.frc \subseteq p.frc

\* The inductive invariant: no two entries and no two packets have the same
\* number, so an acknowledged number says what was received.
RtbInv ==
  /\ RtbTypeOK /\ NothingLost /\ OnePlace /\ EntriesSent
  /\ \A d, e \in ents : d.num = e.num => d = e
  /\ \A p, q \in sent : p.num = q.num => p = q
=============================================================================
