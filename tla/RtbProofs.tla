----------------------------- MODULE RtbProofs -----------------------------
(***************************************************************************)
(* Proof that the retransmission buffer loses no frame and keeps every     *)
(* frame in one chain only, for any set of frames and any number of        *)
(* packets.                                                                *)
(***************************************************************************)
EXTENDS Rtb, TLAPS

\* E is what a step leaves of the entries: each of them is an entry of before,
\* or has the number and some of the frames of one.
Descends(E) ==
  /\ \A e \in E : \E d \in ents : /\ e.num = d.num /\ e.frc \subseteq d.frc
                                 /\ e = Pkt(d.num, e.frc)
  /\ \A d, e \in E : d.num = e.num => d = e

\* The invariant holds in a new connection.
LEMMA InitInv == RtbInit => RtbInv
  <1> SUFFICES ASSUME RtbInit PROVE RtbInv
    BY Zenon
  <1>1. over \in BOOLEAN
    BY Zenon DEF RtbInit
  <1>2. RtbTypeOK
    BY <1>1, Zenon DEF RtbInit, RtbTypeOK
  <1>3. NothingLost /\ OnePlace /\ EntriesSent
    BY Zenon DEF RtbInit, NothingLost, OnePlace, EntriesSent
  <1> QED
    BY <1>2, <1>3, Zenon DEF RtbInit, RtbInv

\* What a step that sends the packet F under a new number does to the packets.
LEMMA SendFacts ==
  ASSUME RtbInv, NEW F \in SUBSET given', SendNew(F), given \subseteq given'
  PROVE  /\ last_tx' \in Nat
         /\ sent' \subseteq [num : 1 .. last_tx', frc : SUBSET given']
         /\ rcvd' \subseteq 1 .. last_tx'
         /\ \A p, q \in sent' : p.num = q.num => p = q
         /\ Pkt(last_tx + 1, F) \in sent'
         /\ \A p \in sent : p \in sent'
         /\ \A e \in ents : e.num < last_tx + 1
  <1> USE DEF RtbInv, RtbTypeOK, SendNew, Pkt
  <1>1. last_tx' \in Nat /\ last_tx' = last_tx + 1
    OBVIOUS
  <1>2. \A e \in ents \cup sent : e.num \in Nat /\ e.num < last_tx + 1
    OBVIOUS
  <1>3. Pkt(last_tx + 1, F) \in [num : 1 .. last_tx', frc : SUBSET given']
    BY <1>1
  <1>4. sent \subseteq [num : 1 .. last_tx', frc : SUBSET given']
    BY <1>1
  <1>5. \A p, q \in sent' : p.num = q.num => p = q
    BY <1>2
  <1> QED
    BY <1>1, <1>2, <1>3, <1>4, <1>5

\* What descends from the entries has their types, and is in one place.
LEMMA DescendsFacts ==
  ASSUME RtbInv, NEW E, Descends(E)
  PROVE  /\ E \subseteq [num : 1 .. last_tx, frc : SUBSET given]
         /\ \A d, e \in E : d = e \/ d.frc \cap e.frc = {}
         /\ \A e \in E : \E p \in sent : p.num = e.num /\ e.frc \subseteq p.frc
  <1>1. E \subseteq [num : 1 .. last_tx, frc : SUBSET given]
    <2> SUFFICES ASSUME NEW e \in E PROVE e \in [num : 1 .. last_tx, frc : SUBSET given]
      BY Zenon
    <2>1. PICK d \in ents : e.frc \subseteq d.frc /\ e = Pkt(d.num, e.frc)
      BY Zenon DEF Descends
    <2>2. d \in [num : 1 .. last_tx, frc : SUBSET given]
      BY Zenon DEF RtbInv, RtbTypeOK
    <2>3. e.frc \in SUBSET given
      BY <2>1, <2>2, Zenon
    <2> QED
      BY <2>1, <2>2, <2>3 DEF Pkt
  <1>2. ASSUME NEW d \in E, NEW e \in E, d # e PROVE d.frc \cap e.frc = {}
    <2>1. PICK dd \in ents : d.num = dd.num /\ d.frc \subseteq dd.frc
      BY Zenon DEF Descends
    <2>2. PICK ee \in ents : e.num = ee.num /\ e.frc \subseteq ee.frc
      BY Zenon DEF Descends
    <2>3. dd # ee
      BY <1>2, <2>1, <2>2, Zenon DEF Descends
    <2>4. dd.frc \cap ee.frc = {}
      BY <2>3, Zenon DEF RtbInv, OnePlace
    <2> QED
      BY <2>1, <2>2, <2>4, Zenon
  <1>3. ASSUME NEW e \in E PROVE \E p \in sent : p.num = e.num /\ e.frc \subseteq p.frc
    <2>1. PICK d \in ents : e.num = d.num /\ e.frc \subseteq d.frc
      BY Zenon DEF Descends
    <2>2. PICK p \in sent : p.num = d.num /\ d.frc \subseteq p.frc
      BY Zenon DEF RtbInv, EntriesSent
    <2> QED
      BY <2>1, <2>2, Zenon
  <1> QED
    BY <1>1, <1>2, <1>3, Zenon

\* A step that sends the frames F in a new packet keeps the invariant, if every
\* frame held before is sent, queued, without purpose, or left in an entry.
LEMMA SendInv ==
  ASSUME RtbInv, NEW E, Descends(E), NEW F \in SUBSET given', SendNew(F),
         given \subseteq given', given' \subseteq Frames, frq' \subseteq given',
         ents' = E \cup {Pkt(last_tx + 1, F)},
         F \cap frq' = {}, \A e \in E : e.frc \cap F = {} /\ e.frc \cap frq' = {},
         \A g \in given' \ given : g \in F \cup frq',
         \A g \in given : Held(g) =>
            g \in F \cup frq' \cup gone \/ \E e \in E : g \in e.frc,
         ~over
  PROVE  RtbInv'
  <1> DEFINE n == Pkt(last_tx + 1, F)
  <1>n. n.num = last_tx + 1 /\ n.frc = F /\ n \in ents'
    BY Zenon DEF Pkt
  <1>s. /\ last_tx' \in Nat
        /\ sent' \subseteq [num : 1 .. last_tx', frc : SUBSET given']
        /\ rcvd' \subseteq 1 .. last_tx'
        /\ \A p, q \in sent' : p.num = q.num => p = q
        /\ n \in sent'
        /\ \A p \in sent : p \in sent'
        /\ \A e \in ents : e.num < last_tx + 1
    BY SendFacts, Zenon
  <1>t. last_tx \in Nat /\ last_tx' = last_tx + 1 /\ gone' = gone /\ over' = over /\ rcvd' = rcvd
    BY Zenon DEF RtbInv, RtbTypeOK, SendNew
  <1>d. /\ E \subseteq [num : 1 .. last_tx, frc : SUBSET given]
        /\ \A d, e \in E : d = e \/ d.frc \cap e.frc = {}
        /\ \A e \in E : \E p \in sent : p.num = e.num /\ e.frc \subseteq p.frc
    BY DescendsFacts, Zenon
  <1>e. \A e \in ents' : e = n \/ e \in E
    BY Zenon
  <1>1. RtbTypeOK'
    <2>1. \A e \in E : e \in [num : 1 .. last_tx', frc : SUBSET given']
      BY <1>d, <1>t
    <2>2. n \in [num : 1 .. last_tx', frc : SUBSET given']
      BY <1>s, Zenon
    <2>3. ents' \subseteq [num : 1 .. last_tx', frc : SUBSET given']
      BY <1>e, <2>1, <2>2, Zenon
    <2> QED
      BY <2>3, <1>s, <1>t, Zenon DEF RtbInv, RtbTypeOK
  <1>2. NothingLost'
    <2> SUFFICES ASSUME NEW g \in given' PROVE Held(g)' \/ Delivered(g)' \/ g \in gone'
      BY Zenon DEF NothingLost
    <2>1. ASSUME g \in F \cup frq' PROVE Held(g)'
      BY <2>1, <1>n, Zenon DEF Held
    <2>2. ASSUME NEW e \in E, g \in e.frc PROVE Held(g)'
      BY <2>2, Zenon DEF Held
    <2>3. Delivered(g) => Delivered(g)'
      BY <1>s, <1>t, Zenon DEF Delivered
    <2>4. g \in given => Held(g) \/ Delivered(g) \/ g \in gone
      BY Zenon DEF RtbInv, NothingLost
    <2> QED
      BY <2>1, <2>2, <2>3, <2>4, <1>t, Zenon
  <1>3. OnePlace'
    <2>1. \A e \in ents' : e.frc \cap frq' = {}
      BY <1>e, <1>n, Zenon
    <2>2. ASSUME NEW d \in ents', NEW e \in ents' PROVE d = e \/ d.frc \cap e.frc = {}
      BY <1>e, <1>n, <1>d, Zenon
    <2> QED
      BY <2>1, <2>2, Zenon DEF OnePlace
  <1>4. EntriesSent'
    <2> SUFFICES ASSUME NEW e \in ents'
                 PROVE  \E p \in sent' : p.num = e.num /\ e.frc \subseteq p.frc
      BY Zenon DEF EntriesSent
    <2>1. CASE e = n
      BY <2>1, <1>s, Zenon
    <2>2. CASE e \in E
      BY <2>2, <1>d, <1>s, Zenon
    <2> QED
      BY <2>1, <2>2, <1>e, Zenon
  <1>5. ASSUME NEW d \in ents', NEW e \in ents', d.num = e.num PROVE d = e
    <2>1. \A x \in E : x.num # last_tx + 1
      BY <1>d, <1>t
    <2> QED
      BY <1>5, <2>1, <1>e, <1>n, Zenon DEF Descends
  <1> QED
    BY <1>1, <1>2, <1>3, <1>4, <1>5, <1>s, Zenon DEF RtbInv

\* A step that sends nothing keeps the invariant under the same condition.
LEMMA QuietInv ==
  ASSUME RtbInv, NEW E, Descends(E), ents' = E,
         UNCHANGED <<last_tx, sent>>, over' \in BOOLEAN, over' = FALSE => ~over,
         given \subseteq given', given' \subseteq Frames, frq' \subseteq given',
         gone \subseteq gone', gone' \subseteq Frames,
         rcvd \subseteq rcvd', rcvd' \subseteq 1 .. last_tx,
         \A e \in E : e.frc \cap frq' = {},
         ~over' => \A g \in given' \ given : g \in frq',
         ~over' => \A g \in given : Held(g) =>
            g \in frq' \cup gone' \/ Delivered(g)' \/ \E e \in E : g \in e.frc
  PROVE  RtbInv'
  <1>d. /\ E \subseteq [num : 1 .. last_tx, frc : SUBSET given]
        /\ \A d, e \in E : d = e \/ d.frc \cap e.frc = {}
        /\ \A e \in E : \E p \in sent : p.num = e.num /\ e.frc \subseteq p.frc
    BY DescendsFacts, Zenon
  <1>t. last_tx' = last_tx /\ sent' = sent
    BY Zenon
  <1>1. RtbTypeOK'
    <2>1. ents' \subseteq [num : 1 .. last_tx', frc : SUBSET given']
      BY <1>d, <1>t, Zenon
    <2>2. sent' \subseteq [num : 1 .. last_tx', frc : SUBSET given']
      BY <1>t, Zenon DEF RtbInv, RtbTypeOK
    <2> QED
      BY <2>1, <2>2, <1>t, Zenon DEF RtbInv, RtbTypeOK
  <1>2. NothingLost'
    <2> SUFFICES ASSUME ~over', NEW g \in given'
                 PROVE  Held(g)' \/ Delivered(g)' \/ g \in gone'
      BY Zenon DEF NothingLost
    <2>0. ~over
      BY Zenon
    <2>1. g \in frq' => Held(g)'
      BY Zenon DEF Held
    <2>2. (\E e \in E : g \in e.frc) => Held(g)'
      BY Zenon DEF Held
    <2>3. Delivered(g) => Delivered(g)'
      BY <1>t, Zenon DEF Delivered
    <2>4. g \in given => Held(g) \/ Delivered(g) \/ g \in gone
      BY <2>0, Zenon DEF RtbInv, NothingLost
    <2> QED
      BY <2>1, <2>2, <2>3, <2>4, Zenon
  <1>3. OnePlace'
    BY <1>d, Zenon DEF OnePlace
  <1>4. EntriesSent'
    BY <1>d, <1>t, Zenon DEF EntriesSent
  <1>5. \A d, e \in ents' : d.num = e.num => d = e
    BY Zenon DEF Descends
  <1>6. \A p, q \in sent' : p.num = q.num => p = q
    BY <1>t, Zenon DEF RtbInv
  <1> QED
    BY <1>1, <1>2, <1>3, <1>4, <1>5, <1>6, Zenon DEF RtbInv

\* Some of the entries descend from the entries.
LEMMA KeepDescends ==
  ASSUME RtbInv, NEW E \in SUBSET ents
  PROVE  Descends(E)
  <1>1. \A e \in ents : e = Pkt(e.num, e.frc)
    BY DEF RtbInv, RtbTypeOK, Pkt
  <1> QED
    BY <1>1, Zenon DEF Descends, RtbInv

\* The same when one entry keeps only the frames K.
LEMMA RestDescends ==
  ASSUME RtbInv, NEW e \in ents, NEW E \in SUBSET (ents \ {e}), NEW K \in SUBSET e.frc
  PROVE  Descends(E \cup {Pkt(e.num, K)})
  <1> DEFINE o == Pkt(e.num, K)
  <1>0. o.num = e.num /\ o.frc = K /\ o = Pkt(e.num, o.frc)
    BY Zenon DEF Pkt
  <1>1. Descends(E)
    BY KeepDescends, Zenon
  <1>2. \A x \in E : x.num # e.num
    BY Zenon DEF RtbInv
  <1> HIDE DEF o
  <1>3. \A x \in E \cup {o} : \E d \in ents :
           x.num = d.num /\ x.frc \subseteq d.frc /\ x = Pkt(d.num, x.frc)
    BY <1>0, <1>1, Zenon DEF Descends
  <1>4. \A d, x \in E \cup {o} : d.num = x.num => d = x
    BY <1>0, <1>1, <1>2, Zenon DEF Descends
  <1>5. Descends(E \cup {o})
    BY <1>3, <1>4, Zenon DEF Descends
  <1> QED
    BY <1>5, Zenon DEF o

\* A frame of a deleted entry has no purpose any more.
LEMMA UselessHeld ==
  ASSUME RtbInv, NEW D, Useless(D), NEW g, Held(g)
  PROVE  g \in frq \/ g \in gone \/ \E e \in ents \ D : g \in e.frc
  BY Zenon DEF Held, Useless

\* A new frame alone in a packet (ngtcp2_conn_write_stream).
LEMMA WriteNewInv == RtbInv /\ WriteNew => RtbInv'
  <1> SUFFICES ASSUME RtbInv, NEW f \in Frames \ given, NEW D \in SUBSET ents,
                      ~over, Useless(D), given' = given \cup {f},
                      ents' = (ents \ D) \cup {Pkt(last_tx + 1, {f})},
                      SendNew({f}), frq' = frq
               PROVE  RtbInv'
    BY Zenon DEF WriteNew
  <1>1. Descends(ents \ D)
    BY KeepDescends, Zenon
  <1>2. f \notin frq /\ \A e \in ents : f \notin e.frc
    BY Zenon DEF RtbInv, RtbTypeOK
  <1>3. given \subseteq Frames /\ frq \subseteq given /\ \A e \in ents : e.frc \cap frq = {}
    BY Zenon DEF RtbInv, RtbTypeOK, OnePlace
  <1>4. \A g \in given : Held(g) =>
           g \in {f} \cup frq' \cup gone \/ \E e \in ents \ D : g \in e.frc
    BY UselessHeld, Zenon
  <1>5. \A e \in ents \ D : e.frc \cap {f} = {} /\ e.frc \cap frq' = {}
    BY <1>2, <1>3, Zenon
  <1>6. {f} \in SUBSET given' /\ {f} \cap frq' = {} /\ given' \subseteq Frames
    BY <1>2, <1>3, Zenon
  <1> QED
    BY <1>1, <1>3, <1>4, <1>5, <1>6, SendInv, Zenon

\* Queued frames in a packet (conn_write_pkt).
LEMMA WriteQueuedInv == RtbInv /\ WriteQueued => RtbInv'
  <1> SUFFICES ASSUME RtbInv, NEW F \in SUBSET frq, NEW drop \in SUBSET frq,
                      NEW D \in SUBSET ents, ~over, Useless(D),
                      drop \subseteq gone \ F, frq' = frq \ (F \cup drop),
                      ents' = (ents \ D) \cup {Pkt(last_tx + 1, F)},
                      SendNew(F), given' = given
               PROVE  RtbInv'
    BY Zenon DEF WriteQueued
  <1>1. Descends(ents \ D)
    BY KeepDescends, Zenon
  <1>2. given \subseteq Frames /\ frq \subseteq given /\ \A e \in ents : e.frc \cap frq = {}
    BY Zenon DEF RtbInv, RtbTypeOK, OnePlace
  <1>3. \A g \in given : Held(g) =>
           g \in F \cup frq' \cup gone \/ \E e \in ents \ D : g \in e.frc
    BY UselessHeld, Zenon
  <1>4. \A e \in ents \ D : e.frc \cap F = {} /\ e.frc \cap frq' = {}
    BY <1>2, Zenon
  <1> QED
    BY <1>1, <1>2, <1>3, <1>4, SendInv

\* A call that writes no packet.
LEMMA WriteNothingInv == RtbInv /\ WriteNothing => RtbInv'
  <1> SUFFICES ASSUME RtbInv, NEW drop \in SUBSET frq, NEW D \in SUBSET ents,
                      ~over, Useless(D), drop \subseteq gone,
                      frq' = frq \ drop, ents' = ents \ D,
                      UNCHANGED <<given, last_tx, sent, rcvd, gone, over>>
               PROVE  RtbInv'
    BY Zenon DEF WriteNothing
  <1>1. Descends(ents \ D)
    BY KeepDescends, Zenon
  <1>2. /\ given \subseteq Frames /\ frq \subseteq given /\ gone \subseteq Frames
        /\ rcvd \subseteq 1 .. last_tx /\ over \in BOOLEAN
        /\ \A e \in ents : e.frc \cap frq = {}
    BY Zenon DEF RtbInv, RtbTypeOK, OnePlace
  <1>3. \A g \in given : Held(g) =>
           g \in frq' \cup gone' \/ \E e \in ents \ D : g \in e.frc
    BY UselessHeld, Zenon
  <1>4. \A e \in ents \ D : e.frc \cap frq' = {}
    BY <1>2, Zenon
  <1> QED
    BY <1>1, <1>2, <1>3, <1>4, QuietInv, Zenon

\* A retransmission, complete or in part (conn_retransmit_protected).
LEMMA RetransmitInv == RtbInv /\ Retransmit => RtbInv'
  <1> SUFFICES ASSUME RtbInv, NEW D \in SUBSET ents, NEW e \in ents \ D,
                      NEW F \in SUBSET e.frc, NEW K \in SUBSET e.frc,
                      ~over, Useless(D), Split(e, F, K),
                      ents' = (ents \ (D \cup {e})) \cup {Pkt(last_tx + 1, F)}
                              \cup (IF K = {} THEN {} ELSE {Pkt(e.num, K)}),
                      SendNew(F), UNCHANGED <<given, frq>>
               PROVE  RtbInv'
    BY Zenon DEF Retransmit
  <1> DEFINE O == IF K = {} THEN {} ELSE {Pkt(e.num, K)}
             E == (ents \ (D \cup {e})) \cup O
  <1>1. Descends(E)
    <2>1. CASE K = {}
      BY <2>1, KeepDescends, Zenon
    <2>2. CASE K # {}
      BY <2>2, RestDescends, Zenon
    <2> QED
      BY <2>1, <2>2, Zenon
  <1>2. /\ given \subseteq Frames /\ frq \subseteq given
        /\ \A x \in ents : x.frc \cap frq = {}
        /\ \A x \in ents : x = e \/ x.frc \cap e.frc = {}
        /\ e.frc \subseteq given
    BY Zenon DEF RtbInv, RtbTypeOK, OnePlace
  <1>3. \A o \in O : o.frc = K
    BY DEF Pkt
  <1>4. \A x \in E : x.frc \cap F = {} /\ x.frc \cap frq' = {}
    <2> SUFFICES ASSUME NEW x \in E PROVE x.frc \cap F = {} /\ x.frc \cap frq' = {}
      BY Zenon
    <2>1. CASE x \in O
      BY <2>1, <1>2, <1>3, Zenon DEF Split
    <2>2. CASE x \in ents \ (D \cup {e})
      BY <2>2, <1>2, Zenon
    <2> QED
      BY <2>1, <2>2, Zenon
  <1>5. ASSUME NEW g \in given, Held(g)
        PROVE  g \in F \cup frq' \cup gone \/ \E x \in E : g \in x.frc
    <2>1. g \in frq \/ g \in gone \/ \E x \in ents \ D : g \in x.frc
      BY <1>5, UselessHeld, Zenon
    <2>2. ASSUME g \in e.frc PROVE g \in F \cup gone \/ \E x \in E : g \in x.frc
      <3>1. g \in F \/ g \in K \/ g \in gone
        BY <2>2, Zenon DEF Split
      <3>2. CASE g \in K
        <4>1. PICK o \in O : o.frc = K
          BY <3>2, <1>3, Zenon
        <4> QED
          BY <4>1, <3>2, Zenon
      <3> QED
        BY <3>1, <3>2, Zenon
    <2> QED
      BY <2>1, <2>2, Zenon
  <1>6. ents' = E \cup {Pkt(last_tx + 1, F)}
    BY Zenon
  <1>7. F \in SUBSET given' /\ F \cap frq' = {}
    BY <1>2, Zenon
  <1> HIDE DEF E
  <1> QED
    BY <1>1, <1>2, <1>4, <1>5, <1>6, <1>7, SendInv, Zenon

\* An entry that does not fit and is put back.
LEMMA RetransmitNoBufInv == RtbInv /\ RetransmitNoBuf => RtbInv'
  <1> SUFFICES ASSUME RtbInv, NEW D \in SUBSET ents, NEW e \in ents \ D,
                      NEW K \in SUBSET e.frc, ~over, Useless(D), Split(e, {}, K),
                      ents' = (ents \ (D \cup {e})) \cup {Pkt(e.num, K)},
                      UNCHANGED <<given, frq, last_tx, sent, rcvd, gone, over>>
               PROVE  RtbInv'
    BY Zenon DEF RetransmitNoBuf
  <1> DEFINE o == Pkt(e.num, K)
             E == (ents \ (D \cup {e})) \cup {o}
  <1>0. o.frc = K
    BY Zenon DEF Pkt
  <1>1. Descends(E)
    BY RestDescends, Zenon
  <1>2. /\ given \subseteq Frames /\ frq \subseteq given /\ gone \subseteq Frames
        /\ rcvd \subseteq 1 .. last_tx /\ over \in BOOLEAN
        /\ \A x \in ents : x.frc \cap frq = {}
    BY Zenon DEF RtbInv, RtbTypeOK, OnePlace
  <1> HIDE DEF o
  <1>3. \A x \in E : x.frc \cap frq' = {}
    BY <1>0, <1>2, Zenon
  <1>4. ASSUME NEW g \in given, Held(g)
        PROVE  g \in frq' \cup gone' \/ \E x \in E : g \in x.frc
    <2>1. g \in frq \/ g \in gone \/ \E x \in ents \ D : g \in x.frc
      BY <1>4, UselessHeld, Zenon
    <2>2. g \in e.frc => g \in o.frc \/ g \in gone
      BY <1>0, Zenon DEF Split
    <2> QED
      BY <2>1, <2>2, Zenon
  <1>5. ents' = E
    BY Zenon DEF o
  <1> HIDE DEF E
  <1> QED
    BY <1>1, <1>2, <1>3, <1>4, <1>5, QuietInv, Zenon

\* NGTCP2_ERR_PKT_TIMEOUT ends the connection.
LEMMA GiveUpInv == RtbInv /\ GiveUp => RtbInv'
  <1> SUFFICES ASSUME RtbInv, NEW D \in SUBSET ents, NEW e \in ents \ D,
                      ents' = ents \ (D \cup {e}), over' = TRUE,
                      UNCHANGED <<given, frq, last_tx, sent, rcvd, gone>>
               PROVE  RtbInv'
    BY Zenon DEF GiveUp
  <1>1. Descends(ents \ (D \cup {e}))
    BY KeepDescends, Zenon
  <1>2. /\ given \subseteq Frames /\ frq \subseteq given /\ gone \subseteq Frames
        /\ rcvd \subseteq 1 .. last_tx
        /\ \A x \in ents : x.frc \cap frq = {}
    BY Zenon DEF RtbInv, RtbTypeOK, OnePlace
  <1>3. \A x \in ents \ (D \cup {e}) : x.frc \cap frq' = {}
    BY <1>2, Zenon
  <1> QED
    BY <1>1, <1>2, <1>3, QuietInv, Zenon

\* Acknowledged entries leave the buffer: the peer has their frames.
LEMMA RecvAckInv == RtbInv /\ RecvAck => RtbInv'
  <1> SUFFICES ASSUME RtbInv, NEW R \in SUBSET ents, ~over,
                      \A e \in R : e.num \in rcvd, ents' = ents \ R,
                      UNCHANGED <<given, frq, last_tx, sent, rcvd, gone, over>>
               PROVE  RtbInv'
    BY Zenon DEF RecvAck
  <1>1. Descends(ents \ R)
    BY KeepDescends, Zenon
  <1>2. /\ given \subseteq Frames /\ frq \subseteq given /\ gone \subseteq Frames
        /\ rcvd \subseteq 1 .. last_tx /\ over \in BOOLEAN
        /\ \A x \in ents : x.frc \cap frq = {}
    BY Zenon DEF RtbInv, RtbTypeOK, OnePlace
  <1>3. ASSUME NEW g \in given, Held(g)
        PROVE  g \in frq' \/ Delivered(g)' \/ \E e \in ents \ R : g \in e.frc
    <2>1. ASSUME NEW e \in R, g \in e.frc PROVE Delivered(g)'
      <3>1. PICK p \in sent : p.num = e.num /\ e.frc \subseteq p.frc
        BY Zenon DEF RtbInv, EntriesSent
      <3> QED
        BY <2>1, <3>1, Zenon DEF Delivered
    <2> QED
      BY <1>3, <2>1, Zenon DEF Held
  <1>4. \A x \in ents \ R : x.frc \cap frq' = {}
    BY <1>2, Zenon
  <1> QED
    BY <1>1, <1>2, <1>3, <1>4, QuietInv, Zenon

\* The steps that leave the entries alone.
LEMMA OtherInv ==
  RtbInv /\ ((\E f \in Frames : Queue(f)) \/ Receive \/ LosePurpose) => RtbInv'
  <1> SUFFICES ASSUME RtbInv, (\E f \in Frames : Queue(f)) \/ Receive \/ LosePurpose
               PROVE  RtbInv'
    BY Zenon
  <1>1. Descends(ents)
    BY KeepDescends, Zenon
  <1>2. /\ given \subseteq Frames /\ frq \subseteq given /\ gone \subseteq Frames
        /\ rcvd \subseteq 1 .. last_tx /\ over \in BOOLEAN
        /\ \A x \in ents : x.frc \cap frq = {} /\ x.frc \subseteq given
    BY Zenon DEF RtbInv, RtbTypeOK, OnePlace
  <1>3. \A g \in given : Held(g) => g \in frq \/ \E e \in ents : g \in e.frc
    BY Zenon DEF Held
  <1>4. ASSUME NEW f \in Frames, Queue(f) PROVE RtbInv'
    <2>1. \A x \in ents : x.frc \cap frq' = {}
      BY <1>2, <1>4, Zenon DEF Queue
    <2> QED
      BY <1>1, <1>2, <1>3, <1>4, <2>1, QuietInv, Zenon DEF Queue
  <1>5. CASE Receive
    <2>1. rcvd \subseteq rcvd' /\ rcvd' \subseteq 1 .. last_tx
      BY <1>5, Zenon DEF Receive, RtbInv, RtbTypeOK
    <2> QED
      BY <1>1, <1>2, <1>3, <1>5, <2>1, QuietInv, Zenon DEF Receive
  <1>6. CASE LosePurpose
    BY <1>1, <1>2, <1>3, <1>6, QuietInv, Zenon DEF LosePurpose
  <1> QED
    BY <1>4, <1>5, <1>6, Zenon

\* Every step keeps the invariant, for any frames and any packet numbers.
THEOREM RtbInvariant == RtbSpec => []RtbInv
  <1>1. RtbInv /\ [RtbNext]_rtbVars => RtbInv'
    <2> SUFFICES ASSUME RtbInv, [RtbNext]_rtbVars PROVE RtbInv'
      BY Zenon
    <2>1. CASE UNCHANGED rtbVars
      BY <2>1, Zenon DEF rtbVars, RtbInv, RtbTypeOK, NothingLost, Held, Delivered, OnePlace,
                  EntriesSent
    <2>2. CASE RtbNext
      BY <2>2, WriteNewInv, WriteQueuedInv, WriteNothingInv, RetransmitInv,
         RetransmitNoBufInv, GiveUpInv, RecvAckInv, OtherInv, Zenon DEF RtbNext
    <2> QED
      BY <2>1, <2>2, Zenon
  <1> QED
    BY <1>1, InitInv, PTL DEF RtbSpec

\* No frame is lost: conn_retransmit may split, renumber, put back and cancel,
\* and ACK frames may arrive for old numbers.
THEOREM FramesNeverLost == RtbSpec => []NothingLost
  <1>1. RtbInv => NothingLost
    BY Zenon DEF RtbInv
  <1> QED
    BY <1>1, RtbInvariant, PTL

\* No frame is ever in two chains.
THEOREM FramesInOnePlace == RtbSpec => []OnePlace
  <1>1. RtbInv => OnePlace
    BY Zenon DEF RtbInv
  <1> QED
    BY <1>1, RtbInvariant, PTL
=============================================================================
