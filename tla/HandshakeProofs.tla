-------------------------- MODULE HandshakeProofs --------------------------
(***************************************************************************)
(* Proofs about Handshake, for flights of any length, buffers of any size, *)
(* any data and every set of events: no chunk of the handshake is given up *)
(* before the peer has it, no packet is stranded in the buffer of          *)
(* protected packets, and when packets are only reordered, lost and        *)
(* retransmitted no call fails but for a deadline.                         *)
(***************************************************************************)
EXTENDS Handshake, WellFoundedInduction, TLAPS

Item == [off : Nat, alert : BOOLEAN, data : Data \cup {"none"}]
Types == {"INITIAL", "HANDSHAKE", "0RTT_PROTECTED", "RETRY", "SHORT"}
Pkt == [from : End, type : Types, cid : {"c", "s"}, item : Item,
        cookie : BOOLEAN, close : BOOLEAN]

\* Packets with chunks of stream 0.
InClear(p) == p.type \in {"INITIAL", "HANDSHAKE"}

\* The type of every variable.
HsTypes ==
  /\ events \subseteq Events /\ early_ok \in BOOLEAN /\ retry \in BOOLEAN
  /\ state \in [End -> States] /\ completed \in [End -> BOOLEAN]
  /\ recv_protected \in [End -> BOOLEAN] /\ negotiated \in [End -> BOOLEAN]
  /\ connid \in {"c", "s"} /\ tx0 \in [End -> 0 .. ServerFlight + 1]
  /\ tls \in [End -> {"ok", "failed", "alerted"}]
  /\ rx0 \in [End -> SUBSET Item]
  /\ rtb \in [End -> SUBSET Item] /\ early_rtb \subseteq Item
  /\ app_tx \subseteq Data /\ app_rx \in [End -> SUBSET Data]
  /\ buffed_rx_ppkts \in [End -> Seq(Pkt)]
  /\ got_close \in [End -> BOOLEAN]
  /\ fatal \in [End -> {"none", "CALLBACK_FAILURE", "TLS_HANDSHAKE", "PROTO",
                        "TLS_FATAL_ALERT_RECEIVED", "PKT_TIMEOUT"}]
  /\ net \subseteq Pkt

\* What the state of an endpoint says about its TLS session, and about the key
\* for protected packets.
EndInv(e) ==
  /\ tls[e] # "ok" => rx0[e] # {} /\ state[e] # "SERVER_INITIAL"
  /\ state[e] = "TLS_HANDSHAKE_FAILED" => tls[e] # "ok"
  /\ state[e] \in {"ALMOST_FINISHED", "POST_HANDSHAKE", "CLOSING"} => completed[e]
  /\ completed[e] =>
        /\ state[e] \in {"ALMOST_FINISHED", "POST_HANDSHAKE", "CLOSING", "DRAINING"}
        /\ tls[e] = "ok"
        /\ \A k \in 1 .. FlightEnd(e) : \E c \in rx0[e] : c.off = k

\* The same for what the two endpoints know of each other.
StateInv ==
  /\ state["client"] \notin {"SERVER_INITIAL", "SERVER_WAIT_HANDSHAKE"}
  /\ state["server"] \notin {"CLIENT_INITIAL", "CLIENT_WAIT_HANDSHAKE", "ALMOST_FINISHED"}
  /\ connid = "s" \/ rtb["server"] # {} => state["server"] # "SERVER_INITIAL"
  /\ state["server"] = "SERVER_INITIAL" => \A c \in rx0["server"] : c.off = 1
  /\ state["server"] = "SERVER_WAIT_HANDSHAKE" \/ rx0["server"] # {} => negotiated["server"]
  /\ \A e \in End : EndInv(e)
  /\ \A e \in End : recv_protected[e] => completed["client"] /\ completed["server"]

\* What is true of every packet from the moment it is sent.
PktInv(p) ==
  /\ p.item.data \in app_tx \cup {"none"}
  /\ p.type = "SHORT" => completed[p.from]
  /\ p.type = "HANDSHAKE" /\ p.cid = "s" => state["server"] # "SERVER_INITIAL"
  /\ p.from = "server" => p.type \in {"HANDSHAKE", "RETRY", "SHORT"}
  /\ p.from = "server" /\ p.type = "HANDSHAKE" => p.cid = "s"
  /\ p.from = "client" => p.type # "RETRY"
  /\ p.type = "INITIAL" => p.item.off = 1
  /\ InClear(p) => p.close = p.item.alert

\* The packets on the network and in the buffers.
PacketsInv ==
  /\ \A p \in net : PktInv(p)
  /\ \A e \in End : \A i \in DOMAIN buffed_rx_ppkts[e] :
        LET p == buffed_rx_ppkts[e][i]
        IN  /\ PktInv(p) /\ p.from = Peer(e)
            /\ p.type \in {"SHORT", "0RTT_PROTECTED"}
            /\ state[e] = "SERVER_INITIAL" => p.type = "0RTT_PROTECTED"
            /\ e = "server" /\ negotiated[e]
                 /\ state[e] \in {"SERVER_INITIAL", "SERVER_WAIT_HANDSHAKE"} => p.type = "SHORT"

ClientHello == Chunk(1, FALSE)

\* x is a chunk that e has sent and that is still somewhere.
SentChunk(e, x) ==
  \/ \E p \in net : p.from = e /\ InClear(p) /\ p.item = x
  \/ x \in rtb[e] /\ x.off # 0
  \/ x \in rx0[Peer(e)]

\* One chunk for every offset; only the ClientHello is ever written again.
ChunksInv ==
  /\ \A e \in End : \A x \in Item : SentChunk(e, x) =>
        /\ x.off > 0 /\ x.data = "none"
        /\ x.off <= tx0[e] \/ (e = "client" /\ x.off = 1)
        /\ e = "client" /\ x.off = 1 => x = ClientHello
        /\ \A y \in Item : SentChunk(e, y) /\ y.off = x.off => y = x
  /\ tx0["client"] > 1 => rx0["client"] # {}
  /\ tx0["client"] <= 2
  /\ tls["server"] = "ok" => tx0["server"] <= ServerFlight

\* What the endpoints keep to send it again.
KeptInv ==
  /\ HandshakeDataKept
  /\ \A x \in early_rtb : x.off = 0 /\ x.data \in app_tx /\ ~x.alert
  /\ \A e \in End : \A x \in rtb[e] :
        /\ x.data \in app_tx \cup {"none"}
        /\ x.off = 0 => e = "client" /\ completed[e] /\ ~x.alert

\* Nothing is stranded, with what it takes.
StrandedInv ==
  /\ \A e \in End : got_close[e] => state[e] = "DRAINING" \/ tls[e] # "ok"
  /\ app_rx["server"] # {} => completed["server"] \/ early_ckm
  /\ \A e \in End : completed[e] => buffed_rx_ppkts[e] = <<>>
  /\ \A e \in End : app_rx[e] \subseteq app_tx
  /\ \A e \in End : Len(buffed_rx_ppkts[e]) <= MaxBuffed

\* Without retry, 0-RTT packets and failing TLS sessions nothing fails but for
\* a deadline.
QuietInv ==
  events \subseteq {"close", "lose", "timeout"} =>
    /\ \A e \in End : fatal[e] \in {"none", "PKT_TIMEOUT"} /\ tls[e] = "ok"
    /\ early_rtb = {}
    /\ \A p \in net : p.type \notin {"RETRY", "0RTT_PROTECTED"} /\ ~p.item.alert
    /\ \A e \in End :
          /\ \A i \in DOMAIN buffed_rx_ppkts[e] : buffed_rx_ppkts[e][i].type # "0RTT_PROTECTED"
          /\ \A x \in rx0[e] \cup rtb[e] : ~x.alert

HsInv ==
  HsTypes /\ StateInv /\ PacketsInv /\ ChunksInv /\ KeptInv /\ StrandedInv /\ QuietInv

-----------------------------------------------------------------------------
(* The operators of the model *)

\* A set of naturals up to b has a greatest element.
LEMMA GreatestNat ==
  ASSUME NEW b \in Nat, NEW S \in SUBSET (0 .. b), S # {}
  PROVE  \E n \in S : \A m \in S : m <= n
<1> DEFINE D == {b - n : n \in S}
<1>1. D \in SUBSET Nat /\ D # {}
  <2>1. ASSUME NEW x \in D PROVE x \in Nat
    <3>1. PICK n \in S : x = b - n BY Zenon
    <3>2. n \in 0 .. b BY Zenon
    <3> QED BY <3>1, <3>2
  <2>2. PICK n : n \in S BY Zenon
  <2>3. b - n \in D BY <2>2, Zenon
  <2> HIDE DEF D
  <2> QED BY <2>1, <2>3, Zenon
<1>2. IsWellFoundedOn(OpToRel(<, Nat), Nat)
  BY NatLessThanWellFounded, Zenon
<1> HIDE DEF D
<1>3. PICK d \in D : \A x \in D : ~(<<x, d>> \in OpToRel(<, Nat))
  BY <1>1, <1>2, WFMin, Zenon
<1>4. \A x \in D : ~(x < d)
  BY <1>1, <1>3, Zenon DEF OpToRel
<1>5. PICK n \in S : d = b - n
  BY DEF D
<1>6. ASSUME NEW m \in S PROVE m <= n
  <2>1. b - m \in D BY Zenon DEF D
  <2> QED BY <1>4, <1>5, <2>1
<1> QED BY <1>6, Zenon

\* How many chunks the TLS session gets.
LEMMA PrefixFacts ==
  ASSUME NEW S
  PROVE  /\ Prefix(S) \in 0 .. ServerFlight + 1 /\ HasFirst(S, Prefix(S))
         /\ \A m \in 0 .. ServerFlight + 1 : HasFirst(S, m) => m <= Prefix(S)
<1> DEFINE N == {n \in 0 .. ServerFlight + 1 : HasFirst(S, n)}
<1>1. ServerFlight + 1 \in Nat /\ N \in SUBSET (0 .. ServerFlight + 1)
  BY SizesAssumption
<1>2. 0 \in N
  BY SizesAssumption DEF HasFirst
<1>3. \E n \in N : \A m \in N : m <= n
  <2> HIDE DEF N
  <2> QED BY <1>1, <1>2, GreatestNat, Zenon
<1> QED BY <1>3, Zenon DEF Prefix

\* The number grows with the chunks that have arrived, from 0 when there are
\* none, and is positive when the first has.
LEMMA PrefixGrows ==
  ASSUME NEW S, NEW T, S \subseteq T
  PROVE  /\ Prefix(S) \in Nat /\ Prefix(T) \in Nat /\ Prefix(S) <= Prefix(T)
         /\ S = {} => Prefix(S) = 0
         /\ (\E c \in S : c.off = 1) => Prefix(S) > 0
<1>1. /\ Prefix(S) \in 0 .. ServerFlight + 1 /\ HasFirst(S, Prefix(S))
      /\ Prefix(T) \in 0 .. ServerFlight + 1
      /\ \A m \in 0 .. ServerFlight + 1 : HasFirst(S, m) => m <= Prefix(S)
      /\ \A m \in 0 .. ServerFlight + 1 : HasFirst(T, m) => m <= Prefix(T)
  BY PrefixFacts, Zenon
<1>2. HasFirst(T, Prefix(S)) BY <1>1, Zenon DEF HasFirst
<1>3. S = {} => Prefix(S) = 0
  <2> SUFFICES ASSUME S = {}, Prefix(S) # 0 PROVE FALSE BY Zenon
  <2>1. 1 \in 1 .. Prefix(S) BY <1>1, SizesAssumption
  <2> QED BY <1>1, <2>1, Zenon DEF HasFirst
<1>4. ASSUME NEW c \in S, c.off = 1 PROVE Prefix(S) > 0
  <2>1. HasFirst(S, 1) BY <1>4 DEF HasFirst
  <2>2. 1 \in 0 .. ServerFlight + 1 BY SizesAssumption
  <2>3. 1 <= Prefix(S) BY <1>1, <2>1, <2>2, Zenon
  <2> QED BY <1>1, <2>3, SizesAssumption
<1>5. Prefix(S) \in Nat /\ Prefix(T) \in Nat BY <1>1, SizesAssumption
<1> QED BY <1>1, <1>2, <1>3, <1>4, <1>5, Zenon

\* What HandshakePkt builds from a chunk.
LEMMA HandshakePktFacts ==
  ASSUME NEW e \in End, NEW x \in Item, connid \in {"c", "s"}, retry \in BOOLEAN
  PROVE  LET p == HandshakePkt(e, x)
         IN  /\ p \in Pkt /\ p.from = e /\ p.item = x /\ p.close = x.alert
             /\ p.type = IF e = "client" /\ x.off = 1 THEN "INITIAL" ELSE "HANDSHAKE"
             /\ p.cid = IF e = "client" THEN connid ELSE "s"
<1>1. CASE e = "client" /\ x.off = 1
  BY <1>1, Zenon DEF HandshakePkt, Packet, Pkt, Item, Types, End
<1>2. CASE ~(e = "client" /\ x.off = 1)
  BY <1>2, Zenon DEF HandshakePkt, Packet, Pkt, Item, Types, End
<1> QED BY <1>1, <1>2, Zenon

\* Chunks and frames of data are items.
LEMMA ItemFacts ==
  /\ \A off \in Nat, alert \in BOOLEAN : Chunk(off, alert) \in Item
  /\ \A d \in Data : DataItem(d) \in Item
  /\ Nothing \in Item
BY DEF Chunk, DataItem, Nothing, Item

\* What the packets that an endpoint builds consist of.
LEMMA PacketFacts ==
  ASSUME NEW e \in End, NEW x \in Item, NEW t \in Types, NEW c \in {"c", "s"}
  PROVE  LET p == Packet(e, t, c, x)
         IN  /\ p \in Pkt /\ p.from = e /\ p.item = x /\ p.close = x.alert
             /\ p.type = t /\ p.cid = c
BY DEF Packet, Pkt, Item

\* How many chunks the TLS session has produced.
LEMMA TlsOutFacts ==
  ASSUME HsTypes, NEW e \in End, tls[e] # "alerted"
  PROVE  /\ TlsOut(e) \in 0 .. ServerFlight + 1
         /\ e = "client" => TlsOut(e) = IF completed[e] \/ tls[e] = "failed" THEN 2 ELSE 1
         /\ e = "server" /\ TlsOut(e) # 0 => rx0[e] # {}
         /\ e = "server" /\ tls[e] = "ok" => TlsOut(e) <= ServerFlight
         /\ e = "server" /\ tls[e] = "ok" /\ (\E c \in rx0[e] : c.off = 1) => TlsOut(e) > 0
<1>1. Prefix(rx0[e]) \in Nat
  BY PrefixGrows, Zenon
<1>2. rx0[e] = {} => Prefix(rx0[e]) = 0
  BY PrefixGrows, Zenon
<1>3. (\E c \in rx0[e] : c.off = 1) => Prefix(rx0[e]) # 0
  BY PrefixGrows
<1>4. tls[e] \in {"ok", "failed"}
  BY Zenon DEF HsTypes
<1>5. CASE e = "client"
  BY <1>4, <1>5, SizesAssumption DEF TlsOut
<1>6. CASE e = "server"
  <2>1. TlsOut(e) = IF Prefix(rx0[e]) = 0 THEN 0
                    ELSE IF tls[e] = "ok" THEN ServerFlight
                    ELSE IF Prefix(rx0[e]) = 1 THEN 1 ELSE ServerFlight + 1
    BY <1>4, <1>6, Zenon DEF TlsOut
  <2> QED BY <2>1, <1>1, <1>2, <1>3, <1>6, SizesAssumption
<1> QED BY <1>5, <1>6, Zenon DEF End

-----------------------------------------------------------------------------
(* The inductive invariant holds initially *)

\* The invariant holds at the start.
LEMMA HsInit == Init => HsInv
<1> SUFFICES ASSUME Init PROVE HsInv BY Zenon
<1>1. HsTypes
  <2>1. events \subseteq Events /\ early_ok \in BOOLEAN
    BY ScenariosAssumption, Zenon DEF Init
  <2>2. buffed_rx_ppkts \in [End -> Seq(Pkt)]
    BY DEF Init
  <2>3. tx0 \in [End -> 0 .. ServerFlight + 1]
    BY SizesAssumption DEF Init
  <2>4. state \in [End -> States]
    BY Zenon DEF Init, States
  <2> QED BY <2>1, <2>2, <2>3, <2>4, Zenon DEF Init, HsTypes
<1>2. StateInv
  BY Zenon DEF Init, StateInv, EndInv, End
<1>3. PacketsInv
  BY DEF Init, PacketsInv, End
<1>4. ChunksInv
  BY SizesAssumption DEF Init, ChunksInv, SentChunk, End, Peer
<1>5. KeptInv
  BY DEF Init, KeptInv, HandshakeDataKept, End
<1>6. StrandedInv
  BY SizesAssumption DEF Init, StrandedInv, End
<1>7. QuietInv
  BY DEF Init, QuietInv, End
<1> QED BY <1>1, <1>2, <1>3, <1>4, <1>5, <1>6, <1>7, Zenon DEF HsInv

-----------------------------------------------------------------------------
(* Every step preserves it *)

\* What was true of a packet when it was sent stays true: the handshake does
\* not go back, and what the application wrote is not forgotten.
LEMMA PktInvStays ==
  ASSUME NEW p, PktInv(p), app_tx \subseteq app_tx',
         p.type = "SHORT" /\ completed[p.from] => completed'[p.from],
         state'["server"] = "SERVER_INITIAL" => state["server"] = "SERVER_INITIAL"
  PROVE  PktInv(p)'
BY DEF PktInv, InClear

\* An endpoint that does not take part in a step.
LEMMA EndStays ==
  ASSUME NEW d, EndInv(d), state'[d] = state[d], tls'[d] = tls[d], rx0'[d] = rx0[d],
         completed'[d] = completed[d]
  PROVE  EndInv(d)'
BY DEF EndInv, FlightEnd

\* Steps that leave alone what a part of the invariant is about.
LEMMA StateStays ==
  ASSUME StateInv,
         UNCHANGED <<state, connid, rtb, rx0, negotiated, tls, completed, recv_protected>>
  PROVE  StateInv'
<1>1. \A e \in End : EndInv(e)' BY EndStays, Zenon DEF StateInv
<1> QED BY <1>1, Zenon DEF StateInv

\* Packets stay true when they do, and when endpoints only leave the
\* states that the buffers depend on.
LEMMA PacketsStay ==
  ASSUME PacketsInv, \A q \in net' : q \in net \/ PktInv(q)',
         \A q : PktInv(q) => PktInv(q)', UNCHANGED buffed_rx_ppkts,
         negotiated'["server"] = negotiated["server"],
         \A e \in End : state'[e] \in {"SERVER_INITIAL", "SERVER_WAIT_HANDSHAKE"} =>
                          state'[e] = state[e]
  PROVE  PacketsInv'
<1>1. \A q \in net' : PktInv(q)' BY Zenon DEF PacketsInv
<1>2. ASSUME NEW e \in End, NEW i \in DOMAIN buffed_rx_ppkts[e], NEW q, q = buffed_rx_ppkts[e][i]
      PROVE  /\ PktInv(q)' /\ q.from = Peer(e)
             /\ q.type \in {"SHORT", "0RTT_PROTECTED"}
             /\ state'[e] = "SERVER_INITIAL" => q.type = "0RTT_PROTECTED"
             /\ e = "server" /\ negotiated'[e]
                  /\ state'[e] \in {"SERVER_INITIAL", "SERVER_WAIT_HANDSHAKE"} => q.type = "SHORT"
  <2>1. /\ PktInv(q) /\ q.from = Peer(e)
        /\ q.type \in {"SHORT", "0RTT_PROTECTED"}
        /\ state[e] = "SERVER_INITIAL" => q.type = "0RTT_PROTECTED"
        /\ e = "server" /\ negotiated[e]
             /\ state[e] \in {"SERVER_INITIAL", "SERVER_WAIT_HANDSHAKE"} => q.type = "SHORT"
    BY <1>2, Zenon DEF PacketsInv
  <2> QED BY <2>1
<1> QED BY <1>1, <1>2 DEF PacketsInv, Peer

\* Chunks stay unique while no new one is sent.
LEMMA ChunksStay ==
  ASSUME ChunksInv, \A d \in End, y \in Item : SentChunk(d, y)' => SentChunk(d, y),
         UNCHANGED tx0, tls'["server"] = "ok" => tls["server"] = "ok",
         rx0'["client"] = {} => rx0["client"] = {}
  PROVE  ChunksInv'
BY DEF ChunksInv

\* What is known of packets depends on these variables.
LEMMA PacketsFrame ==
  ASSUME PacketsInv,
         UNCHANGED <<net, buffed_rx_ppkts, app_tx, completed, state, negotiated>>
  PROVE  PacketsInv'
<1>1. \A q : PktInv(q) => PktInv(q)' BY PktInvStays, Zenon
<1> QED BY <1>1, PacketsStay, Zenon

\* What is known of chunks depends on these variables.
LEMMA ChunksFrame ==
  ASSUME ChunksInv, UNCHANGED <<net, rtb, rx0, tx0, tls>>
  PROVE  ChunksInv'
<1>1. \A d \in End, y \in Item : SentChunk(d, y)' => SentChunk(d, y) BY Zenon DEF SentChunk, Peer
<1> QED BY <1>1, ChunksStay, Zenon

\* What is kept stays kept while neither endpoint gives a chunk up.
LEMMA DataKeptGrows ==
  ASSUME HandshakeDataKept, tx0' = tx0,
         \A d \in End : fatal'[d] = "none" => fatal[d] = "none",
         \A d \in End : rtb[d] \subseteq rtb'[d] /\ rx0[d] \subseteq rx0'[d]
  PROVE  HandshakeDataKept'
<1> SUFFICES ASSUME NEW d \in End, fatal[d] = "none", NEW k \in 1 .. tx0[d]
             PROVE  \E c \in rtb'[d] \cup rx0'[Peer(d)] : c.off = k
  BY Zenon DEF HandshakeDataKept, Peer
<1>1. Peer(d) \in End BY Zenon DEF Peer, End
<1>2. PICK c \in rtb[d] \cup rx0[Peer(d)] : c.off = k BY Zenon DEF HandshakeDataKept
<1> QED BY <1>1, <1>2, Zenon

\* What is kept depends on these variables.
LEMMA KeptStays ==
  ASSUME KeptInv, UNCHANGED <<rtb, rx0, tx0, early_rtb, app_tx, completed>>,
         \A d \in End : fatal'[d] = "none" => fatal[d] = "none"
  PROVE  KeptInv'
<1>1. HandshakeDataKept' BY DataKeptGrows, Zenon DEF KeptInv
<1> QED BY <1>1, Zenon DEF KeptInv

\* That nothing is stranded depends on these variables.
LEMMA StrandedStays ==
  ASSUME StrandedInv,
         UNCHANGED <<got_close, state, tls, app_rx, completed, early_ok, rx0,
                     buffed_rx_ppkts, app_tx>>
  PROVE  StrandedInv'
<1>1. early_ckm' = early_ckm BY Zenon DEF early_ckm
<1> QED BY <1>1, Zenon DEF StrandedInv

\* A new packet or kept chunk that is no alert, retry or 0-RTT packet keeps
\* the connection quiet.
LEMMA QuietStays ==
  ASSUME QuietInv, UNCHANGED <<events, fatal, tls, early_rtb, buffed_rx_ppkts, rx0>>,
         events \subseteq {"close", "lose", "timeout"} =>
           \A q \in net' : q \in net \/ (q.type \notin {"RETRY", "0RTT_PROTECTED"} /\ ~q.item.alert),
         events \subseteq {"close", "lose", "timeout"} =>
           \A e \in End : \A x \in rtb'[e] : x \in rtb[e] \/ ~x.alert
  PROVE  QuietInv'
BY DEF QuietInv

\* conn_write_handshake_pkt, in the states in which it is called
LEMMA HsWriteChunk ==
  ASSUME HsInv, NEW e \in End, NEW next, WriteChunk(e, next),
         \/ next = state[e] /\ state[e] \in {"ALMOST_FINISHED", "SERVER_WAIT_HANDSHAKE",
                                              "TLS_HANDSHAKE_FAILED"}
         \/ next = "CLIENT_WAIT_HANDSHAKE" /\ state[e] = "CLIENT_INITIAL"
         \/ next = "SERVER_WAIT_HANDSHAKE" /\ state[e] = "SERVER_INITIAL"
  PROVE  HsInv'
<1>0. PICK x, p : x = NextChunk(e) /\ p = HandshakePkt(e, x)
  BY Zenon
<1>1. tls[e] # "alerted" /\ tx0[e] < TlsOut(e)
  <2>1. tx0[e] \in Nat BY SizesAssumption DEF HsInv, HsTypes
  <2> QED BY <2>1 DEF WriteChunk, TlsOut
<1>2. /\ TlsOut(e) \in 0 .. ServerFlight + 1
      /\ e = "client" => TlsOut(e) = IF completed[e] \/ tls[e] = "failed" THEN 2 ELSE 1
      /\ e = "server" /\ TlsOut(e) # 0 => rx0[e] # {}
      /\ e = "server" /\ tls[e] = "ok" => TlsOut(e) <= ServerFlight
  BY <1>1, TlsOutFacts, Zenon DEF HsInv
<1>3. tx0[e] \in Nat /\ tx0[e] + 1 \in 1 .. ServerFlight + 1
  BY <1>1, <1>2, SizesAssumption DEF HsInv, HsTypes
<1>4. /\ x \in Item /\ x.off = tx0[e] + 1 /\ x.data = "none"
      /\ x.alert => tls[e] = "failed" /\ x.off = TlsOut(e)
  <2> DEFINE n == tx0[e] + 1
             a == tls[e] = "failed" /\ n = TlsOut(e)
  <2>1. n \in Nat /\ a \in BOOLEAN /\ x = Chunk(n, a) BY <1>0, <1>3 DEF NextChunk
  <2>2. a => tls[e] = "failed" /\ n = TlsOut(e) BY Zenon
  <2> HIDE DEF a
  <2> QED BY <2>1, <2>2, ItemFacts, Zenon DEF Chunk
<1>5. /\ p \in Pkt /\ p.from = e /\ p.item = x /\ p.close = x.alert
      /\ p.type = IF e = "client" /\ x.off = 1 THEN "INITIAL" ELSE "HANDSHAKE"
      /\ p.cid = IF e = "client" THEN connid ELSE "s"
  BY <1>0, <1>4, HandshakePktFacts DEF HsInv, HsTypes
<1>6. /\ net' = net \cup {p}
      /\ tx0' = [tx0 EXCEPT ![e] = tx0[e] + 1]
      /\ rtb' = [rtb EXCEPT ![e] = rtb[e] \cup {x}]
      /\ state' = [state EXCEPT ![e] = next]
      /\ UNCHANGED <<events, early_ok, retry, connid, negotiated, app_tx, completed,
                     recv_protected, rx0, tls, early_rtb, buffed_rx_ppkts, app_rx,
                     got_close, fatal>>
  BY <1>0, Zenon DEF WriteChunk, Send, Set, keys
<1>7. HsTypes'
  BY <1>3, <1>4, <1>5, <1>6 DEF HsInv, HsTypes, States
<1>8. StateInv'
  <2>1. e = "server" => rx0["server"] # {} BY <1>1, <1>2, <1>3
  <2>2. state'["server"] = "SERVER_INITIAL" => e # "server" /\ state["server"] = "SERVER_INITIAL"
    BY <1>6, Zenon DEF HsInv, HsTypes, StateInv, EndInv, End
  <2>3. \A d \in End : rtb'[d] # {} => d = e \/ rtb[d] # {}
    BY <1>6, Zenon DEF HsInv, HsTypes
  <2>4. \A d \in End : d # e => state'[d] = state[d] BY <1>6, Zenon DEF HsInv, HsTypes
  <2>5. state'[e] = next BY <1>6, Zenon DEF HsInv, HsTypes
  <2>6. EndInv(e)'
    BY <1>6, <2>5, Zenon DEF HsInv, StateInv, EndInv, FlightEnd
  <2>7. \A d \in End : EndInv(d)'
    BY <1>6, <2>4, <2>6, EndStays, Zenon DEF HsInv, StateInv
  <2> QED BY <1>6, <2>1, <2>2, <2>3, <2>4, <2>5, <2>7, Zenon DEF HsInv, StateInv, End
<1>9. PacketsInv'
  <2>1. state'["server"] = "SERVER_INITIAL" => e # "server" /\ state["server"] = "SERVER_INITIAL"
    BY <1>6 DEF HsInv, HsTypes, StateInv, EndInv, End
  <2>2. \A q : PktInv(q) => PktInv(q)'
    BY <1>6, <2>1, PktInvStays, Zenon
  <2>3. PktInv(p)'
    <3>1. connid = "s" => state["server"] # "SERVER_INITIAL" BY Zenon DEF HsInv, StateInv, EndInv
    <3>2. p.type # "SHORT" /\ (p.type = "INITIAL" => p.from = "client" /\ p.item.off = 1)
      BY <1>5, Zenon
    <3>3. p.type = "HANDSHAKE" /\ p.cid = "s" => state'["server"] # "SERVER_INITIAL"
      BY <1>5, <2>1, <3>1, Zenon DEF End
    <3> QED BY <1>4, <1>5, <3>2, <3>3, Zenon DEF PktInv, InClear, End
  <2>4. \A d \in End : d # e => state'[d] = state[d] BY <1>6 DEF HsInv, HsTypes
  <2>5. state'[e] = next BY <1>6 DEF HsInv, HsTypes
  <2>6. e = "server" => negotiated["server"]
    BY <1>1, <1>2, <1>3 DEF HsInv, StateInv, EndInv
  <2>7. \A q \in net' : PktInv(q)'
    BY <1>6, <2>2, <2>3, Zenon DEF HsInv, PacketsInv
  <2>8. state'[e] # "SERVER_INITIAL"
    BY <2>5, Zenon
  <2>9. state[e] \notin {"SERVER_INITIAL", "SERVER_WAIT_HANDSHAKE"} => state'[e] # "SERVER_WAIT_HANDSHAKE"
    BY <2>5, Zenon
  <2> HIDE DEF PktInv
  <2> QED BY <1>6, <2>2, <2>4, <2>6, <2>7, <2>8, <2>9 DEF HsInv, PacketsInv
<1>10. ChunksInv'
  <2>1. \A d \in End, y \in Item : SentChunk(d, y)' => SentChunk(d, y) \/ (d = e /\ y = x)
    BY <1>5, <1>6, Zenon DEF SentChunk, HsInv, HsTypes
  <2>0. e = "client" /\ x.off = 1 => x = ClientHello
    <3>1. x = Chunk(x.off, x.alert) BY <1>0, Zenon DEF NextChunk, Chunk
    <3>2. e = "client" /\ x.off = 1 => x.alert = FALSE BY <1>1, <1>2, <1>4 DEF Item
    <3> QED BY <3>1, <3>2, Zenon DEF ClientHello
  <2>2. \A y \in Item : SentChunk(e, y) /\ y.off = x.off => y = x
    <3> SUFFICES ASSUME NEW y \in Item, SentChunk(e, y), y.off = x.off PROVE y = x
      BY Zenon
    <3>1. /\ y.off <= tx0[e] \/ (e = "client" /\ y.off = 1)
          /\ e = "client" /\ y.off = 1 => y = ClientHello
      BY Zenon DEF HsInv, ChunksInv
    <3> QED BY <3>1, <2>0, <1>3, <1>4
  <2>3. tx0'[e] = tx0[e] + 1 /\ \A d \in End : d # e => tx0'[d] = tx0[d]
    BY <1>6, Zenon DEF HsInv, HsTypes
  <2>4. \A d \in End : tx0[d] \in Nat /\ tx0[d] <= tx0'[d]
    <3>1. \A d \in End : tx0[d] \in 0 .. ServerFlight + 1 BY Zenon DEF HsInv, HsTypes
    <3> QED BY <3>1, <2>3, SizesAssumption
  <2>5. \A d \in End : \A y \in Item : SentChunk(d, y)' =>
          /\ y.off > 0 /\ y.data = "none"
          /\ y.off <= tx0'[d] \/ (d = "client" /\ y.off = 1)
          /\ d = "client" /\ y.off = 1 => y = ClientHello
          /\ \A z \in Item : SentChunk(d, z)' /\ z.off = y.off => z = y
    <3> SUFFICES ASSUME NEW d \in End, NEW y \in Item, SentChunk(d, y)'
                 PROVE  /\ y.off > 0 /\ y.data = "none"
                        /\ y.off <= tx0'[d] \/ (d = "client" /\ y.off = 1)
                        /\ d = "client" /\ y.off = 1 => y = ClientHello
                        /\ \A z \in Item : SentChunk(d, z)' /\ z.off = y.off => z = y
      BY Zenon
    <3>1. CASE d = e /\ y = x
      <4>1. \A z \in Item : SentChunk(d, z)' /\ z.off = y.off => z = y
        BY <3>1, <2>1, <2>2, Zenon
      <4> QED BY <3>1, <4>1, <2>0, <2>3, <1>3, <1>4
    <3>2. CASE ~(d = e /\ y = x)
      <4>1. SentChunk(d, y) BY <3>2, <2>1, Zenon
      <4>2. /\ y.off > 0 /\ y.data = "none"
            /\ y.off <= tx0[d] \/ (d = "client" /\ y.off = 1)
            /\ d = "client" /\ y.off = 1 => y = ClientHello
            /\ \A z \in Item : SentChunk(d, z) /\ z.off = y.off => z = y
        BY <4>1, Zenon DEF HsInv, ChunksInv
      <4>3. y.off \in Nat BY Zenon DEF Item
      <4>4. \A z \in Item : SentChunk(d, z)' /\ z.off = y.off => z = y
        BY <4>1, <4>2, <2>1, <2>2, Zenon
      <4>5. y.off <= tx0'[d] \/ (d = "client" /\ y.off = 1)
        <5>1. tx0'[d] \in Nat BY <2>3, <2>4
        <5> QED BY <5>1, <4>2, <4>3, <2>4
      <4> QED BY <4>2, <4>4, <4>5, Zenon
    <3> QED BY <3>1, <3>2, Zenon
  <2>6. tx0'["client"] > 1 => rx0'["client"] # {}
    <3>1. e = "client" /\ TlsOut(e) = 2 => rx0["client"] # {}
      <4>1. completed["client"] => rx0["client"] # {}
        BY SizesAssumption DEF HsInv, StateInv, EndInv, FlightEnd, End
      <4>2. tls["client"] = "failed" => rx0["client"] # {}
        BY Zenon DEF HsInv, StateInv, EndInv, End
      <4> QED BY <4>1, <4>2, <1>2
    <3> QED BY <3>1, <1>1, <1>2, <1>3, <1>6, <2>3 DEF HsInv, ChunksInv, End
  <2>7. tx0'["client"] <= 2
    BY <1>1, <1>2, <1>3, <2>3 DEF HsInv, ChunksInv, End
  <2>8. tls'["server"] = "ok" => tx0'["server"] <= ServerFlight
    BY <1>1, <1>2, <1>3, <1>6, <2>3, SizesAssumption DEF HsInv, ChunksInv, End
  <2> QED BY <2>5, <2>6, <2>7, <2>8, Zenon DEF ChunksInv
<1>11. KeptInv'
  <2>1. \A d \in End : rtb[d] \subseteq rtb'[d] /\ rx0'[d] = rx0[d]
    BY <1>6, Zenon DEF HsInv, HsTypes
  <2>2. x \in rtb'[e] /\ \A d \in End : rtb'[d] \subseteq rtb[d] \cup {x}
    BY <1>6, Zenon DEF HsInv, HsTypes
  <2>3. HandshakeDataKept'
    <3> SUFFICES ASSUME NEW d \in End, fatal'[d] = "none", NEW k \in 1 .. tx0'[d]
                 PROVE  \E c \in rtb'[d] \cup rx0'[Peer(d)] : c.off = k
      BY Zenon DEF HandshakeDataKept, Peer
    <3>1. CASE d = e /\ k = tx0[e] + 1 BY <3>1, <2>2, <1>4, Zenon
    <3>2. CASE ~(d = e /\ k = tx0[e] + 1)
      <4>1. k \in 1 .. tx0[d] BY <3>2, <1>3, <1>6, SizesAssumption DEF HsInv, HsTypes
      <4>2. Peer(d) \in End BY Zenon DEF Peer, End
      <4>3. fatal[d] = "none" BY <1>6, Zenon
      <4> QED BY <4>1, <4>2, <4>3, <2>1 DEF HsInv, KeptInv, HandshakeDataKept
    <3> QED BY <3>1, <3>2, Zenon
  <2> QED BY <2>2, <2>3, <1>3, <1>4, <1>6 DEF HsInv, KeptInv
<1>12. StrandedInv'
  <2>1. \A d \in End : d # e => state'[d] = state[d] BY <1>6 DEF HsInv, HsTypes
  <2>2. state[e] # "DRAINING" BY Zenon DEF HsInv
  <2>3. early_ckm' = early_ckm BY <1>6, Zenon DEF early_ckm
  <2> QED BY <1>6, <2>1, <2>2, <2>3, Zenon DEF HsInv, StrandedInv
<1>13. QuietInv'
  <2>1. \A d \in End : \A y \in rtb'[d] : y \in rtb[d] \/ y = x BY <1>6, Zenon DEF HsInv, HsTypes
  <2>2. events \subseteq {"close", "lose", "timeout"} => ~x.alert
    BY <1>4, Zenon DEF HsInv, QuietInv
  <2>3. p.type \notin {"RETRY", "0RTT_PROTECTED"} BY <1>5, Zenon
  <2> QED BY <1>5, <1>6, <2>1, <2>2, <2>3, QuietStays, Zenon DEF HsInv
<1> QED BY <1>7, <1>8, <1>9, <1>10, <1>11, <1>12, <1>13, Zenon DEF HsInv

\* A call fails: it leaves everything else alone.
LEMMA HsFail ==
  ASSUME HsInv, NEW e \in End, NEW error, Fail(e, error),
         error \in {"CALLBACK_FAILURE", "TLS_HANDSHAKE", "PROTO", "TLS_FATAL_ALERT_RECEIVED"},
         ~(events \subseteq {"close", "lose", "timeout"})
  PROVE  HsInv'
<1>1. /\ fatal' = [fatal EXCEPT ![e] = error]
      /\ UNCHANGED <<events, early_ok, retry, connid, negotiated, app_tx, state, completed,
                     recv_protected, rx0, tx0, tls, rtb, early_rtb, buffed_rx_ppkts, app_rx,
                     got_close, net>>
  BY Zenon DEF Fail, Set, keys
<1>2. HsTypes' BY <1>1, Zenon DEF HsInv, HsTypes
<1>3. StateInv' BY <1>1, StateStays, Zenon DEF HsInv
<1>4. PacketsInv' BY <1>1, PacketsFrame, Zenon DEF HsInv
<1>5. ChunksInv' BY <1>1, ChunksFrame, Zenon DEF HsInv
<1>6. KeptInv'
  <2>1. \A d \in End : fatal'[d] = "none" => fatal[d] = "none"
    BY <1>1, Zenon DEF HsInv, HsTypes
  <2> QED BY <1>1, <2>1, KeptStays, Zenon DEF HsInv
<1>7. StrandedInv' BY <1>1, StrandedStays, Zenon DEF HsInv
<1>8. QuietInv' BY <1>1, Zenon DEF QuietInv
<1> QED BY <1>2, <1>3, <1>4, <1>5, <1>6, <1>7, <1>8, Zenon DEF HsInv

\* Only the network changes: packets disappear and p is sent.
LEMMA HsSend ==
  ASSUME HsInv, UNCHANGED <<keys, local>>, NEW p \in Pkt, net' \subseteq net \cup {p},
         PktInv(p), InClear(p) => SentChunk(p.from, p.item),
         events \subseteq {"close", "lose", "timeout"} =>
           p.type \notin {"RETRY", "0RTT_PROTECTED"} /\ ~p.item.alert
  PROVE  HsInv'
<1>1. UNCHANGED <<events, early_ok, retry, connid, negotiated, app_tx, state, completed,
                  recv_protected, rx0, tx0, tls, rtb, early_rtb, buffed_rx_ppkts, app_rx,
                  got_close, fatal>>
  BY Zenon DEF keys, local
<1>2. HsTypes' BY <1>1, Zenon DEF HsInv, HsTypes
<1>3. StateInv' BY <1>1, StateStays, Zenon DEF HsInv
<1>4. PacketsInv'
  <2>1. \A q : PktInv(q) => PktInv(q)' BY <1>1, PktInvStays, Zenon
  <2>2. \A q \in net' : q \in net \/ PktInv(q)' BY <2>1, Zenon
  <2> QED BY <1>1, <2>1, <2>2, PacketsStay, Zenon DEF HsInv
<1>5. ChunksInv'
  <2>1. \A d \in End, y \in Item : SentChunk(d, y)' => SentChunk(d, y)
    BY <1>1, Zenon DEF SentChunk
  <2> QED BY <1>1, <2>1, ChunksStay, Zenon DEF HsInv
<1>6. KeptInv' BY <1>1, KeptStays, Zenon DEF HsInv
<1>7. StrandedInv' BY <1>1, StrandedStays, Zenon DEF HsInv
<1>8. QuietInv' BY <1>1, QuietStays, Zenon DEF HsInv
<1> QED BY <1>2, <1>3, <1>4, <1>5, <1>6, <1>7, <1>8, Zenon DEF HsInv

\* An entry of the retransmission buffer is released that is not data of the
\* handshake, or that the peer has.
LEMMA HsRelease ==
  ASSUME HsInv, NEW e \in End, NEW ent \in rtb[e],
         ent.off = 0 \/ \E c \in rx0[Peer(e)] : c.off = ent.off,
         rtb' = Set(rtb, e, rtb[e] \ {ent}), UNCHANGED net, UNCHANGED retransmitUnchanged
  PROVE  HsInv'
<1>1. /\ rtb' = [rtb EXCEPT ![e] = rtb[e] \ {ent}]
      /\ UNCHANGED <<events, early_ok, retry, connid, negotiated, app_tx, state, completed,
                     recv_protected, rx0, tx0, tls, early_rtb, buffed_rx_ppkts, app_rx,
                     got_close, fatal, net>>
  BY Zenon DEF Set, keys, retransmitUnchanged
<1>2. \A d \in End : rtb'[d] \subseteq rtb[d] /\ (d # e => rtb'[d] = rtb[d])
  BY <1>1, Zenon DEF HsInv, HsTypes
<1>3. HsTypes'
  <2>1. rtb' \in [End -> SUBSET Item]
    <3>1. rtb \in [End -> SUBSET Item] BY Zenon DEF HsInv, HsTypes
    <3> QED BY <1>1, <3>1, Zenon
  <2> QED BY <1>1, <2>1, Zenon DEF HsInv, HsTypes
<1>4. StateInv'
  <2>1. \A d \in End : EndInv(d)' BY <1>1, EndStays, Zenon DEF HsInv, StateInv
  <2>2. rtb'["server"] # {} => rtb["server"] # {} BY <1>2, Zenon DEF End
  <2> QED BY <1>1, <2>1, <2>2, Zenon DEF HsInv, StateInv
<1>5. PacketsInv' BY <1>1, PacketsFrame, Zenon DEF HsInv
<1>6. ChunksInv'
  <2>1. \A d \in End, y \in Item : SentChunk(d, y)' => SentChunk(d, y)
    BY <1>1, <1>2, Zenon DEF SentChunk
  <2> QED BY <1>1, <2>1, ChunksStay, Zenon DEF HsInv
<1>7. KeptInv'
  <2>1. HandshakeDataKept'
    <3> SUFFICES ASSUME NEW d \in End, fatal[d] = "none", NEW k \in 1 .. tx0[d]
                 PROVE  \E c \in rtb'[d] \cup rx0[Peer(d)] : c.off = k
      BY <1>1, Zenon DEF HandshakeDataKept
    <3>1. PICK c \in rtb[d] \cup rx0[Peer(d)] : c.off = k
      BY DEF HsInv, KeptInv, HandshakeDataKept
    <3>2. rtb'[e] = rtb[e] \ {ent} BY <1>1, Zenon DEF HsInv, HsTypes
    <3>3. k # 0 OBVIOUS
    <3> QED BY <1>2, <3>1, <3>2, <3>3, Zenon
  <2> QED BY <1>1, <1>2, <2>1, Zenon DEF HsInv, KeptInv
<1>8. StrandedInv' BY <1>1, StrandedStays, Zenon DEF HsInv
<1>9. QuietInv' BY <1>1, <1>2, QuietStays, Zenon DEF HsInv
<1> QED BY <1>3, <1>4, <1>5, <1>6, <1>7, <1>8, <1>9, Zenon DEF HsInv

\* conn_retransmit deletes an entry and fails: the endpoint does nothing more.
LEMMA HsPktTimeout ==
  ASSUME HsInv, NEW e \in End, NEW ent \in rtb[e], PktTimeout(e, ent)
  PROVE  HsInv'
<1>1. /\ rtb' = [rtb EXCEPT ![e] = rtb[e] \ {ent}]
      /\ fatal' = [fatal EXCEPT ![e] = "PKT_TIMEOUT"]
      /\ UNCHANGED <<events, early_ok, retry, connid, negotiated, app_tx, state, completed,
                     recv_protected, rx0, tx0, tls, early_rtb, buffed_rx_ppkts, app_rx,
                     got_close, net>>
  BY Zenon DEF PktTimeout, Set, keys
<1>2. /\ \A d \in End : rtb'[d] \subseteq rtb[d] /\ (d # e => rtb'[d] = rtb[d])
      /\ fatal'[e] = "PKT_TIMEOUT" /\ \A d \in End : d # e => fatal'[d] = fatal[d]
  BY <1>1, Zenon DEF HsInv, HsTypes
<1>3. HsTypes'
  <2>1. rtb' \in [End -> SUBSET Item]
    <3>1. rtb \in [End -> SUBSET Item] BY Zenon DEF HsInv, HsTypes
    <3> QED BY <1>1, <3>1, Zenon
  <2> QED BY <1>1, <2>1, Zenon DEF HsInv, HsTypes
<1>4. StateInv'
  <2>1. \A d \in End : EndInv(d)' BY <1>1, EndStays, Zenon DEF HsInv, StateInv
  <2>2. rtb'["server"] # {} => rtb["server"] # {} BY <1>2, Zenon DEF End
  <2> QED BY <1>1, <2>1, <2>2, Zenon DEF HsInv, StateInv
<1>5. PacketsInv' BY <1>1, PacketsFrame, Zenon DEF HsInv
<1>6. ChunksInv'
  <2>1. \A d \in End, y \in Item : SentChunk(d, y)' => SentChunk(d, y)
    BY <1>1, <1>2, Zenon DEF SentChunk
  <2> QED BY <1>1, <2>1, ChunksStay, Zenon DEF HsInv
<1>7. KeptInv'
  <2>1. HandshakeDataKept'
    <3>1. tx0' = tx0 /\ rx0' = rx0 BY <1>1, Zenon
    <3> SUFFICES ASSUME NEW d \in End, fatal'[d] = "none", NEW k \in 1 .. tx0'[d]
                 PROVE  \E c \in rtb'[d] \cup rx0'[Peer(d)] : c.off = k
      BY SMT DEF HandshakeDataKept
    <3>2. d # e BY <1>2
    <3>3. fatal[d] = "none" /\ rtb'[d] = rtb[d] BY <1>2, <3>2, Zenon
    <3>4. k \in 1 .. tx0[d] BY <3>1, Zenon
    <3>5. \E c \in rtb[d] \cup rx0[Peer(d)] : c.off = k
      BY <3>3, <3>4 DEF HsInv, KeptInv, HandshakeDataKept
    <3> QED BY <3>1, <3>3, <3>5, Zenon
  <2>2. \A d \in End : \A x \in rtb'[d] :
          /\ x.data \in app_tx \cup {"none"}
          /\ x.off = 0 => d = "client" /\ completed[d] /\ ~x.alert
    <3>1. \A d \in End : rtb'[d] \subseteq rtb[d] BY <1>2, Zenon
    <3> QED BY <3>1, Zenon DEF HsInv, KeptInv
  <2> QED BY <1>1, <2>1, <2>2, Zenon DEF HsInv, KeptInv
<1>8. StrandedInv' BY <1>1, StrandedStays, Zenon DEF HsInv
<1>9. QuietInv' BY <1>1, <1>2, Zenon DEF HsInv, QuietInv
<1> QED BY <1>3, <1>4, <1>5, <1>6, <1>7, <1>8, <1>9, Zenon DEF HsInv

\* conn_process_early_rtb: data of 0-RTT packets is now protected data.
LEMMA HsClientPostHandshake ==
  ASSUME HsInv, ClientPostHandshake
  PROVE  HsInv'
<1>1. /\ state["client"] = "ALMOST_FINISHED"
      /\ state' = [state EXCEPT !["client"] = "POST_HANDSHAKE"]
      /\ rtb' = [rtb EXCEPT !["client"] = rtb["client"] \cup early_rtb]
      /\ early_rtb' = {}
      /\ UNCHANGED <<events, early_ok, retry, connid, negotiated, app_tx, completed,
                     recv_protected, rx0, tx0, tls, buffed_rx_ppkts, app_rx,
                     got_close, fatal, net>>
  BY Zenon DEF ClientPostHandshake, Set, keys
<1>2. /\ state'["client"] = "POST_HANDSHAKE" /\ state'["server"] = state["server"]
      /\ rtb'["client"] = rtb["client"] \cup early_rtb /\ rtb'["server"] = rtb["server"]
  BY <1>1, Zenon DEF HsInv, HsTypes, End
<1>3. completed["client"] BY <1>1, Zenon DEF HsInv, StateInv, EndInv, End
<1>4. HsTypes' BY <1>1, Zenon DEF HsInv, HsTypes, States
<1>5. StateInv'
  <2>1. EndInv("client")' BY <1>1, <1>2, <1>3, Zenon DEF HsInv, StateInv, EndInv, FlightEnd, End
  <2>2. EndInv("server")' BY <1>1, <1>2, EndStays, Zenon DEF HsInv, StateInv, End
  <2> QED BY <1>1, <1>2, <2>1, <2>2, Zenon DEF HsInv, StateInv, End
<1>6. PacketsInv'
  <2>1. \A q : PktInv(q) => PktInv(q)' BY <1>1, <1>2, PktInvStays, Zenon
  <2>2. \A d \in End : state'[d] = state[d] \/ state'[d] = "POST_HANDSHAKE" BY <1>2, Zenon DEF End
  <2> QED BY <1>1, <2>1, <2>2, PacketsStay, Zenon DEF HsInv
<1>7. ChunksInv'
  <2>1. \A x \in early_rtb : x.off = 0 BY Zenon DEF HsInv, KeptInv
  <2>2. \A d \in End, y \in Item : SentChunk(d, y)' => SentChunk(d, y)
    BY <1>1, <1>2, <2>1, Zenon DEF SentChunk, End
  <2> QED BY <1>1, <2>2, ChunksStay, Zenon DEF HsInv
<1>8. KeptInv'
  BY <1>1, <1>2, <1>3 DEF HsInv, KeptInv, HandshakeDataKept, End, Peer
<1>9. StrandedInv' BY <1>1, <1>2, Zenon DEF HsInv, StrandedInv, early_ckm, End
<1>10. QuietInv' BY <1>1, <1>2, Zenon DEF HsInv, KeptInv, QuietInv, End
<1> QED BY <1>4, <1>5, <1>6, <1>7, <1>8, <1>9, <1>10, Zenon DEF HsInv

\* Packets with a short header are sent when the handshake is completed.
LEMMA ShortPktInv ==
  ASSUME NEW e \in End, NEW x \in Item, completed[e], x.data \in app_tx \cup {"none"}
  PROVE  LET p == ShortPkt(e, x)
         IN  p \in Pkt /\ PktInv(p) /\ ~InClear(p) /\ p.type = "SHORT" /\ p.item = x
<1> DEFINE p == ShortPkt(e, x)
<1>1. /\ p \in Pkt /\ p.from = e /\ p.item = x /\ p.type = "SHORT"
  BY PacketFacts DEF ShortPkt, Types
<1> HIDE DEF p
<1>2. PktInv(p) /\ ~InClear(p) BY <1>1, Zenon DEF PktInv, InClear
<1> QED BY <1>1, <1>2, Zenon DEF p

\* ngtcp2_conn_write_pkt
LEMMA HsWritePkt ==
  ASSUME HsInv, NEW e \in End, ngtcp2_conn_write_pkt(e)
  PROVE  HsInv'
<1>1. CASE WriteClientInitial
  BY <1>1, HsWriteChunk, Zenon DEF WriteClientInitial, End
<1>2. CASE WriteClientFinished
  <2>1. WriteChunk("client", "ALMOST_FINISHED") /\ state["client"] = "ALMOST_FINISHED"
    BY <1>2, Zenon DEF WriteClientFinished
  <2> QED BY <2>1, HsWriteChunk, Zenon DEF End
<1>3. CASE ClientPostHandshake
  BY <1>3, HsClientPostHandshake, Zenon
<1>4. CASE e = "server" /\ WriteServerInitial /\ (rx0[e] # {} \/ buffed_rx_ppkts[e] # <<>>)
  <2>1. CASE TlsOut("server") = 0
    <3>1. Fail("server", "CALLBACK_FAILURE") /\ state["server"] = "SERVER_INITIAL"
      BY <1>4, <2>1, Zenon DEF WriteServerInitial
    <3>2. ASSUME events \subseteq {"close", "lose", "timeout"} PROVE FALSE
      <4>1. tls[e] = "ok" BY <1>4, <3>2, Zenon DEF HsInv, QuietInv
      <4>2. rx0[e] = {}
        <5>1. (\E c \in rx0[e] : c.off = 1) => TlsOut(e) > 0
          BY <1>4, <4>1, TlsOutFacts, Zenon DEF HsInv
        <5> QED BY <1>4, <2>1, <3>1, <5>1 DEF HsInv, StateInv, EndInv
      <4>3. buffed_rx_ppkts[e] \in Seq(Pkt) BY Zenon DEF HsInv, HsTypes
      <4>4. 1 \in DOMAIN buffed_rx_ppkts[e]
        BY <1>4, <4>2, <4>3
      <4>5. buffed_rx_ppkts[e][1].type = "0RTT_PROTECTED"
        BY <1>4, <3>1, <4>4, Zenon DEF HsInv, PacketsInv
      <4> QED BY <3>2, <4>4, <4>5, Zenon DEF HsInv, QuietInv
    <3> QED BY <3>1, <3>2, HsFail, Zenon DEF End
  <2>2. CASE TlsOut("server") # 0
    BY <1>4, <2>2, HsWriteChunk, Zenon DEF WriteServerInitial, End
  <2> QED BY <2>1, <2>2, Zenon
<1>5. CASE WriteServerHandshake
  <2>1. WriteChunk("server", "SERVER_WAIT_HANDSHAKE") /\ state["server"] = "SERVER_WAIT_HANDSHAKE"
    BY <1>5, Zenon DEF WriteServerHandshake
  <2> QED BY <2>1, HsWriteChunk, Zenon DEF End
<1>6. CASE WriteFailed(e)
  <2>1. state[e] = "TLS_HANDSHAKE_FAILED" BY <1>6, Zenon DEF WriteFailed
  <2>2. CASE WriteChunk(e, "TLS_HANDSHAKE_FAILED")
    BY <2>1, <2>2, HsWriteChunk, Zenon
  <2>3. CASE Fail(e, "TLS_HANDSHAKE")
    <3>1. ~(events \subseteq {"close", "lose", "timeout"})
      BY <2>1, Zenon DEF HsInv, StateInv, EndInv, QuietInv
    <3> QED BY <2>3, <3>1, HsFail, Zenon
  <2> QED BY <1>6, <2>2, <2>3, Zenon DEF WriteFailed
<1>7. CASE WritePostHandshake(e)
  <2>1. completed[e] BY <1>7, Zenon DEF WritePostHandshake, HsInv, StateInv, EndInv
  <2>2. PICK p : p = ShortPkt(e, Nothing) BY Zenon
  <2>3. p \in Pkt /\ PktInv(p) /\ ~InClear(p) /\ p.type = "SHORT" /\ ~p.item.alert
    <3>1. Nothing \in Item /\ Nothing.data = "none" /\ ~Nothing.alert
      BY ItemFacts, Zenon DEF Nothing, Chunk
    <3> QED BY <2>1, <2>2, <3>1, ShortPktInv, Zenon
  <2>4. UNCHANGED <<keys, local>> /\ net' = net \cup {p}
    BY <1>7, <2>2, Zenon DEF WritePostHandshake, Send
  <2> QED BY <2>3, <2>4, HsSend, Zenon
<1> QED BY <1>1, <1>2, <1>3, <1>4, <1>5, <1>6, <1>7, Zenon DEF ngtcp2_conn_write_pkt

\* conn_retransmit sends an entry again.  An endpoint that has processed a protected packet has
\* completed the handshake, and so has its peer, which sent it.
LEMMA HsResend ==
  ASSUME HsInv, NEW e \in End, NEW ent \in rtb[e], Resend(e, ent)
  PROVE  HsInv'
<1>0. ent \in Item BY Zenon DEF HsInv, HsTypes
<1>1. CASE ent.off = 0
  <2>1. completed[e] /\ ent.data \in app_tx \cup {"none"} /\ ~ent.alert
    BY <1>1, Zenon DEF HsInv, KeptInv
  <2>2. PICK p : p = ShortPkt(e, ent) BY Zenon
  <2>3. p \in Pkt /\ PktInv(p) /\ ~InClear(p) /\ p.type = "SHORT" /\ ~p.item.alert
    BY <1>0, <2>1, <2>2, ShortPktInv, Zenon
  <2>4. UNCHANGED <<keys, local>> /\ net' = net \cup {p}
    BY <1>1, <2>2, Zenon DEF Resend, retransmitUnchanged, Send, local, keys
  <2> QED BY <2>3, <2>4, HsSend, Zenon
<1>2. CASE ent.off # 0 /\ recv_protected[e]
  <2>1. ent.off \in Nat /\ SentChunk(e, ent) BY <1>0, <1>2, Zenon DEF SentChunk, Item
  <2>2. ent.off > 0 /\ (ent.off <= tx0[e] \/ (e = "client" /\ ent.off = 1))
    BY <1>0, <2>1, Zenon DEF HsInv, ChunksInv
  <2>3. completed[e] /\ completed[Peer(e)] /\ Peer(e) \in End
    BY <1>2, Zenon DEF HsInv, StateInv, EndInv, Peer, End
  <2>4. \A k \in 1 .. FlightEnd(Peer(e)) : \E c \in rx0[Peer(e)] : c.off = k
    BY <2>3, Zenon DEF HsInv, StateInv, EndInv
  <2>5. tx0[e] \in Nat /\ tx0[e] <= FlightEnd(Peer(e)) /\ FlightEnd(Peer(e)) \in Nat \ {0}
    <3>1. tls[e] = "ok" BY <2>3, Zenon DEF HsInv, StateInv, EndInv
    <3>2. tx0[e] \in Nat BY SizesAssumption DEF HsInv, HsTypes
    <3> QED BY <3>1, <3>2, SizesAssumption DEF HsInv, ChunksInv, FlightEnd, Peer, End
  <2>6. ent.off \in 1 .. FlightEnd(Peer(e))
    BY <2>1, <2>2, <2>5
  <2>7. \E c \in rx0[Peer(e)] : c.off = ent.off BY <2>4, <2>6, Zenon
  <2>8. /\ rtb' = Set(rtb, e, rtb[e] \ {ent}) /\ UNCHANGED net
        /\ UNCHANGED retransmitUnchanged
    BY <1>2, Zenon DEF Resend
  <2> QED BY <2>7, <2>8, HsRelease, Zenon
<1>3. CASE ent.off # 0 /\ ~recv_protected[e]
  <2>1. SentChunk(e, ent) BY <1>3, Zenon DEF SentChunk
  <2>2. PICK p : p = HandshakePkt(e, ent) BY Zenon
  <2>3. /\ p \in Pkt /\ p.from = e /\ p.item = ent /\ p.close = ent.alert
        /\ p.type = IF e = "client" /\ ent.off = 1 THEN "INITIAL" ELSE "HANDSHAKE"
        /\ p.cid = IF e = "client" THEN connid ELSE "s"
    <3>1. connid \in {"c", "s"} /\ retry \in BOOLEAN BY Zenon DEF HsInv, HsTypes
    <3> QED BY <1>0, <2>2, <3>1, HandshakePktFacts
  <2>4. ent.data \in app_tx \cup {"none"} BY Zenon DEF HsInv, KeptInv
  <2>5. p.cid = "s" => state["server"] # "SERVER_INITIAL"
    BY <2>3, Zenon DEF HsInv, StateInv, EndInv, End
  <2>6. PktInv(p) BY <2>3, <2>4, <2>5, Zenon DEF PktInv, InClear, End
  <2>7. events \subseteq {"close", "lose", "timeout"} => ~ent.alert BY Zenon DEF HsInv, QuietInv
  <2>8. UNCHANGED <<keys, local>> /\ net' = net \cup {p}
    BY <1>3, <2>2, Zenon DEF Resend, retransmitUnchanged, Send, local, keys
  <2> QED BY <2>1, <2>3, <2>6, <2>7, <2>8, HsSend, Zenon
<1> QED BY <1>1, <1>2, <1>3, Zenon

\* conn_retransmit: an entry is sent again or has reached its deadline.
LEMMA HsRetransmit ==
  ASSUME HsInv, NEW e \in End, NEW ent \in rtb[e], conn_retransmit(e, ent)
  PROVE  HsInv'
BY HsPktTimeout, HsResend, Zenon DEF conn_retransmit

\* conn_recv_ack
LEMMA HsRecvAck ==
  ASSUME HsInv, NEW e \in End, NEW ent \in rtb[e], conn_recv_ack(e, ent)
  PROVE  HsInv'
<1>1. ent.off = 0 \/ \E c \in rx0[Peer(e)] : c.off = ent.off
  BY Zenon DEF conn_recv_ack
<1>2. /\ rtb' = Set(rtb, e, rtb[e] \ {ent}) /\ UNCHANGED net
      /\ UNCHANGED retransmitUnchanged
  BY Zenon DEF conn_recv_ack, retransmitUnchanged, keys
<1> QED BY <1>1, <1>2, HsRelease, Zenon

\* The stateless answer to an Initial packet, and loss.
LEMMA HsNetwork ==
  ASSUME HsInv, NEW p \in net, StatelessRetry(p) \/ Lose(p)
  PROVE  HsInv'
<1>0. p \in Pkt /\ PktInv(p) BY Zenon DEF HsInv, HsTypes, PacketsInv
<1>1. CASE StatelessRetry(p)
  <2>1. PICK q : q = Packet("server", "RETRY", p.cid, Nothing) BY Zenon
  <2>2. /\ q \in Pkt /\ q.from = "server" /\ q.item = Nothing /\ q.type = "RETRY"
    <3>1. p.cid \in {"c", "s"} BY <1>0, Zenon DEF Pkt
    <3>2. Nothing \in Item /\ "server" \in End /\ "RETRY" \in Types
      BY ItemFacts, Zenon DEF End, Types
    <3> QED BY <2>1, <3>1, <3>2, PacketFacts
  <2>3. PktInv(q) BY <2>2 DEF PktInv, InClear, Nothing, Chunk
  <2>4. UNCHANGED <<keys, local>> /\ net' = net \cup {q} /\ "retry" \in events
    BY <1>1, <2>1, Zenon DEF StatelessRetry, Send
  <2>5. ~InClear(q) BY <2>2, Zenon DEF InClear
  <2> QED BY <2>2, <2>3, <2>4, <2>5, HsSend, Zenon
<1>2. CASE Lose(p)
  <2>1. UNCHANGED <<keys, local>> /\ net' \subseteq net \cup {p} BY <1>2, Zenon DEF Lose
  <2>2. InClear(p) => SentChunk(p.from, p.item) BY Zenon DEF SentChunk
  <2>3. events \subseteq {"close", "lose", "timeout"} =>
           p.type \notin {"RETRY", "0RTT_PROTECTED"} /\ ~p.item.alert
    BY Zenon DEF HsInv, QuietInv
  <2> QED BY <1>0, <2>1, <2>2, <2>3, HsSend, Zenon
<1> QED BY <1>1, <1>2, Zenon

\* ngtcp2_conn_write_connection_close
LEMMA HsWriteClose ==
  ASSUME HsInv, NEW e \in End, ngtcp2_conn_write_connection_close(e)
  PROVE  HsInv'
<1>0. PICK p : p = [ShortPkt(e, Nothing) EXCEPT !.close = TRUE] BY Zenon
<1>1. /\ state[e] = "POST_HANDSHAKE" /\ state' = [state EXCEPT ![e] = "CLOSING"]
      /\ net' = net \cup {p}
      /\ UNCHANGED <<events, early_ok, retry, connid, negotiated, app_tx, completed,
                     recv_protected, rx0, tx0, tls, rtb, early_rtb, buffed_rx_ppkts, app_rx,
                     got_close, fatal>>
  BY <1>0, Zenon DEF ngtcp2_conn_write_connection_close, Set, Send, keys
<1>2. completed[e] BY <1>1, Zenon DEF HsInv, StateInv, EndInv
<1>3. /\ p \in Pkt /\ p.from = e /\ p.type = "SHORT" /\ p.item = Nothing
  BY <1>0, ItemFacts, Zenon DEF ShortPkt, Packet, Pkt, Types
<1>4. state'[e] = "CLOSING" /\ \A d \in End : d # e => state'[d] = state[d]
  BY <1>1, Zenon DEF HsInv, HsTypes
<1>5. HsTypes' BY <1>1, <1>3, Zenon DEF HsInv, HsTypes, States
<1>6. StateInv'
  <2>1. EndInv(e)' BY <1>1, <1>2, <1>4, Zenon DEF HsInv, StateInv, EndInv, FlightEnd
  <2>2. \A d \in End : EndInv(d)' BY <1>1, <1>4, <2>1, EndStays, Zenon DEF HsInv, StateInv
  <2>3. \A d \in End : state'[d] = state[d] \/ state'[d] = "CLOSING" BY <1>4, Zenon
  <2> QED BY <1>1, <2>2, <2>3, Zenon DEF HsInv, StateInv, End
<1>7. PacketsInv'
  <2>1. \A q : PktInv(q) => PktInv(q)' BY <1>1, <1>4, PktInvStays, Zenon DEF End
  <2>2. PktInv(p)'
    <3>0. p.item = Nothing BY <1>3, Zenon
    <3>1. p.item.data = "none" BY <3>0 DEF Nothing, Chunk
    <3>2. completed'[p.from] BY <1>1, <1>2, <1>3, Zenon
    <3> QED BY <1>3, <3>1, <3>2, Zenon DEF PktInv, InClear
  <2>3. \A d \in End : state'[d] = state[d] \/ state'[d] = "CLOSING" BY <1>4
  <2>4. \A q \in net' : q \in net \/ PktInv(q)' BY <1>1, <2>2, Zenon
  <2> QED BY <1>1, <2>1, <2>3, <2>4, PacketsStay, Zenon DEF HsInv
<1>8. ChunksInv'
  <2>1. \A d \in End, y \in Item : SentChunk(d, y)' => SentChunk(d, y)
    BY <1>1, <1>3, Zenon DEF SentChunk, InClear
  <2> QED BY <1>1, <2>1, ChunksStay, Zenon DEF HsInv
<1>9. KeptInv' BY <1>1, KeptStays, Zenon DEF HsInv
<1>10. StrandedInv'
  <2>1. early_ckm' = early_ckm BY <1>1, Zenon DEF early_ckm
  <2> QED BY <1>1, <1>4, <2>1, Zenon DEF HsInv, StrandedInv
<1>11. QuietInv'
  <2>1. p.type \notin {"RETRY", "0RTT_PROTECTED"} /\ ~p.item.alert
    BY <1>3 DEF Nothing, Chunk
  <2> QED BY <1>1, <2>1, QuietStays, Zenon DEF HsInv
<1> QED BY <1>5, <1>6, <1>7, <1>8, <1>9, <1>10, <1>11, Zenon DEF HsInv

\* ngtcp2_conn_write_stream
LEMMA HsWriteStream ==
  ASSUME HsInv, NEW d \in Data, ngtcp2_conn_write_stream(d)
  PROVE  HsInv'
<1>0. PICK x : x = DataItem(d) BY Zenon
<1>1. x \in Item /\ x.off = 0 /\ x.data = d /\ ~x.alert
  BY <1>0, ItemFacts, Zenon DEF DataItem
<1>2. PICK p : p = IF completed["client"] THEN ShortPkt("client", x)
                   ELSE Packet("client", "0RTT_PROTECTED", "c", x)
  BY Zenon
<1>3. /\ p \in Pkt /\ p.from = "client" /\ p.item = x
      /\ p.type = IF completed["client"] THEN "SHORT" ELSE "0RTT_PROTECTED"
  <2>1. "client" \in End /\ {"SHORT", "0RTT_PROTECTED"} \subseteq Types BY Zenon DEF End, Types
  <2>2. CASE completed["client"] BY <1>1, <1>2, <2>1, <2>2, PacketFacts DEF ShortPkt
  <2>3. CASE ~completed["client"] BY <1>1, <1>2, <2>1, <2>3, PacketFacts
  <2> QED BY <2>2, <2>3, Zenon
<1>4. /\ app_tx' = app_tx \cup {d} /\ net' = net \cup {p}
      /\ UNCHANGED <<events, early_ok, retry, connid, negotiated, state, completed,
                     recv_protected, rx0, tx0, tls, buffed_rx_ppkts, app_rx,
                     got_close, fatal>>
  BY <1>0, <1>2, Zenon DEF ngtcp2_conn_write_stream, Send
<1>5. \/ /\ completed["client"] /\ UNCHANGED early_rtb
         /\ rtb' = [rtb EXCEPT !["client"] = rtb["client"] \cup {x}]
      \/ /\ ~completed["client"] /\ "early" \in events /\ UNCHANGED rtb
         /\ early_rtb' = early_rtb \cup {x}
  BY <1>0, Zenon DEF ngtcp2_conn_write_stream, Set
<1>6. /\ rtb["client"] \subseteq rtb'["client"] /\ rtb'["server"] = rtb["server"]
      /\ rtb'["client"] \subseteq rtb["client"] \cup {x}
      /\ x \in rtb'["client"] => completed["client"] \/ x \in rtb["client"]
  BY <1>5 DEF HsInv, HsTypes, End
<1>7. HsTypes'
  <2>1. rtb' \in [End -> SUBSET Item] /\ early_rtb' \subseteq Item
    BY <1>1, <1>5 DEF HsInv, HsTypes, End
  <2> QED BY <1>3, <1>4, <2>1, Zenon DEF HsInv, HsTypes
<1>8. StateInv'
  <2>1. \A e \in End : EndInv(e)' BY <1>4, EndStays, Zenon DEF HsInv, StateInv
  <2> QED BY <1>4, <1>6, <2>1, Zenon DEF HsInv, StateInv
<1>9. PacketsInv'
  <2>1. \A q : PktInv(q) => PktInv(q)' BY <1>4, PktInvStays, Zenon
  <2>2. PktInv(p)' BY <1>1, <1>3, <1>4, Zenon DEF PktInv, InClear
  <2>3. \A q \in net' : q \in net \/ PktInv(q)' BY <1>4, <2>2, Zenon
  <2> QED BY <1>4, <2>1, <2>3, PacketsStay, Zenon DEF HsInv
<1>10. ChunksInv'
  <2>1. \A c \in End, y \in Item : SentChunk(c, y)' => SentChunk(c, y)
    BY <1>1, <1>3, <1>4, <1>6, Zenon DEF SentChunk, InClear, End
  <2> QED BY <1>4, <2>1, ChunksStay, Zenon DEF HsInv
<1>11. KeptInv'
  <2>1. HandshakeDataKept'
    <3>1. \A e \in End : rtb[e] \subseteq rtb'[e] BY <1>6, Zenon DEF End
    <3> QED BY <1>4, <3>1, DataKeptGrows, Zenon DEF HsInv, KeptInv
  <2>2. \A y \in early_rtb' : y.off = 0 /\ y.data \in app_tx' /\ ~y.alert
    BY <1>1, <1>4, <1>5, Zenon DEF HsInv, KeptInv
  <2> QED BY <1>1, <1>4, <1>6, <2>1, <2>2, Zenon DEF HsInv, KeptInv, End
<1>12. StrandedInv' BY <1>4, Zenon DEF HsInv, StrandedInv, early_ckm
<1>13. QuietInv'
  BY <1>1, <1>3, <1>4, <1>5, <1>6, Zenon DEF HsInv, QuietInv, End
<1> QED BY <1>7, <1>8, <1>9, <1>10, <1>11, <1>12, <1>13, Zenon DEF HsInv

\* conn_buffer_protected_pkt: a protected packet that comes before the key.
LEMMA HsBuffer ==
  ASSUME HsInv, NEW e \in End, NEW p \in net, p.from = Peer(e), Handshaking(e),
         \/ p.type = "SHORT" /\ state[e] # "SERVER_INITIAL"
         \/ p.type = "0RTT_PROTECTED" /\ e = "server" /\ ~negotiated[e],
         conn_buffer_protected_pkt(e, p)
  PROVE  HsInv'
<1>0. p \in Pkt /\ PktInv(p) BY Zenon DEF HsInv, HsTypes, PacketsInv
<1>1. PICK b : b = IF Len(buffed_rx_ppkts[e]) = MaxBuffed THEN buffed_rx_ppkts[e]
                   ELSE Append(buffed_rx_ppkts[e], p)
  BY Zenon
<1>2. /\ buffed_rx_ppkts' = [buffed_rx_ppkts EXCEPT ![e] = b]
      /\ UNCHANGED <<events, early_ok, retry, connid, negotiated, app_tx, state, completed,
                     recv_protected, rx0, tx0, tls, rtb, early_rtb, app_rx, got_close,
                     fatal, net>>
  BY <1>1, Zenon DEF conn_buffer_protected_pkt, Set, keys
<1>3. ~completed[e] BY Zenon DEF HsInv, StateInv, EndInv, Handshaking
<1>4. /\ b \in Seq(Pkt) /\ Len(b) <= MaxBuffed
      /\ \A i \in DOMAIN b : b[i] = p \/ (i \in DOMAIN buffed_rx_ppkts[e] /\ b[i] = buffed_rx_ppkts[e][i])
  <2>1. buffed_rx_ppkts[e] \in Seq(Pkt) /\ Len(buffed_rx_ppkts[e]) <= MaxBuffed
    BY Zenon DEF HsInv, HsTypes, StrandedInv
  <2>2. CASE Len(buffed_rx_ppkts[e]) = MaxBuffed BY <1>1, <2>1, <2>2, Zenon
  <2>3. CASE Len(buffed_rx_ppkts[e]) # MaxBuffed
    <3> DEFINE old == buffed_rx_ppkts[e]
    <3>1. b = Append(old, p) BY <1>1, <2>3, Zenon
    <3>2. old \in Seq(Pkt) /\ Len(old) \in Nat /\ DOMAIN old = 1 .. Len(old)
      BY <2>1
    <3> HIDE DEF old
    <3>3. /\ b \in Seq(Pkt) /\ Len(b) = Len(old) + 1
          /\ \A i \in 1 .. Len(old) : b[i] = old[i]
          /\ b[Len(old) + 1] = p
      BY <1>0, <3>1, <3>2
    <3>4. DOMAIN b = 1 .. Len(old) + 1 BY <3>3
    <3>5. Len(old) + 1 <= MaxBuffed BY <2>1, <2>3, <3>2, SizesAssumption DEF old
    <3>6. ASSUME NEW i \in DOMAIN b PROVE b[i] = p \/ (i \in DOMAIN old /\ b[i] = old[i])
      BY <3>2, <3>3, <3>4, <3>6
    <3> QED BY <3>3, <3>5, <3>6, Zenon DEF old
  <2> QED BY <2>2, <2>3, Zenon
<1>5. buffed_rx_ppkts'[e] = b /\ \A d \in End : d # e => buffed_rx_ppkts'[d] = buffed_rx_ppkts[d]
  BY <1>2, Zenon DEF HsInv, HsTypes
<1>6. HsTypes' BY <1>2, <1>4, Zenon DEF HsInv, HsTypes
<1>7. StateInv' BY <1>2, StateStays, Zenon DEF HsInv
<1>8. PacketsInv'
  <2>1. \A q : PktInv(q) => PktInv(q)' BY <1>2, PktInvStays, Zenon
  <2>2. /\ state[e] = "SERVER_INITIAL" => p.type = "0RTT_PROTECTED"
        /\ e = "server" /\ negotiated[e]
             /\ state[e] \in {"SERVER_INITIAL", "SERVER_WAIT_HANDSHAKE"} => p.type = "SHORT"
    BY Zenon
  <2>3. \A q \in net' : PktInv(q)' BY <1>2, <2>1, Zenon DEF HsInv, PacketsInv
  <2> HIDE DEF PktInv
  <2>4. ASSUME NEW d \in End, NEW i \in DOMAIN buffed_rx_ppkts'[d], NEW q, q = buffed_rx_ppkts'[d][i]
        PROVE  /\ PktInv(q)' /\ q.from = Peer(d)
               /\ q.type \in {"SHORT", "0RTT_PROTECTED"}
               /\ state'[d] = "SERVER_INITIAL" => q.type = "0RTT_PROTECTED"
               /\ d = "server" /\ negotiated'[d]
                    /\ state'[d] \in {"SERVER_INITIAL", "SERVER_WAIT_HANDSHAKE"} => q.type = "SHORT"
    <3>0. state' = state /\ negotiated' = negotiated BY <1>2, Zenon
    <3>1. CASE d = e /\ b[i] = p
      BY <1>0, <1>5, <2>1, <2>2, <2>4, <3>0, <3>1, Zenon
    <3>2. CASE i \in DOMAIN buffed_rx_ppkts[d] /\ q = buffed_rx_ppkts[d][i]
      <4>1. /\ PktInv(q) /\ q.from = Peer(d)
            /\ q.type \in {"SHORT", "0RTT_PROTECTED"}
            /\ state[d] = "SERVER_INITIAL" => q.type = "0RTT_PROTECTED"
            /\ d = "server" /\ negotiated[d]
                 /\ state[d] \in {"SERVER_INITIAL", "SERVER_WAIT_HANDSHAKE"} => q.type = "SHORT"
        BY <3>2, Zenon DEF HsInv, PacketsInv
      <4> QED BY <2>1, <3>0, <4>1, Zenon
    <3> QED BY <1>4, <1>5, <2>4, <3>1, <3>2, Zenon
  <2> QED BY <2>3, <2>4, Zenon DEF PacketsInv, Peer
<1>9. ChunksInv' BY <1>2, ChunksFrame, Zenon DEF HsInv
<1>10. KeptInv' BY <1>2, KeptStays, Zenon DEF HsInv
<1>11. StrandedInv' BY <1>2, <1>3, <1>4, <1>5, Zenon DEF HsInv, StrandedInv, early_ckm
<1>12. QuietInv'
  <2>1. events \subseteq {"close", "lose", "timeout"} => p.type # "0RTT_PROTECTED" BY Zenon DEF HsInv, QuietInv
  <2>2. events \subseteq {"close", "lose", "timeout"} => \A i \in DOMAIN b : b[i].type # "0RTT_PROTECTED"
    BY <1>4, <2>1, Zenon DEF HsInv, QuietInv
  <2>3. ASSUME NEW d \in End, events \subseteq {"close", "lose", "timeout"}
        PROVE  \A i \in DOMAIN buffed_rx_ppkts'[d] : buffed_rx_ppkts'[d][i].type # "0RTT_PROTECTED"
    <3>1. \A i \in DOMAIN buffed_rx_ppkts[d] : buffed_rx_ppkts[d][i].type # "0RTT_PROTECTED"
      BY <2>3, Zenon DEF HsInv, QuietInv
    <3> QED BY <1>5, <2>2, <2>3, <3>1, Zenon
  <2> QED BY <1>2, <2>3, Zenon DEF HsInv, QuietInv
<1> QED BY <1>6, <1>7, <1>8, <1>9, <1>10, <1>11, <1>12, Zenon DEF HsInv

\* conn_recv_pkt: a protected packet, when there is a key for it.
LEMMA HsRecvProtected ==
  ASSUME HsInv, NEW e \in End, NEW p \in net, p.from = Peer(e), conn_recv_pkt(e, p),
         \/ p.type = "SHORT" /\ completed[e]
         \/ p.type = "0RTT_PROTECTED" /\ e = "server" /\ early_ckm,
         state[e] \in {"ALMOST_FINISHED", "POST_HANDSHAKE"} \/ Handshaking(e)
  PROVE  HsInv'
<1>0. p \in Pkt /\ PktInv(p) BY Zenon DEF HsInv, HsTypes, PacketsInv
<1>1. /\ recv_protected' = [recv_protected EXCEPT ![e] = recv_protected[e] \/ p.type = "SHORT"]
      /\ app_rx' = [app_rx EXCEPT ![e] = app_rx[e] \cup DataOf({p})]
      /\ got_close' = [got_close EXCEPT ![e] = got_close[e] \/ p.close]
      /\ state' = [state EXCEPT ![e] = IF p.close THEN "DRAINING" ELSE state[e]]
      /\ UNCHANGED <<events, early_ok, retry, connid, negotiated, app_tx, completed, rx0, tx0,
                     tls, rtb, early_rtb, buffed_rx_ppkts, fatal, net>>
  BY Zenon DEF conn_recv_pkt, Set, keys
<1>2. DataOf({p}) \subseteq app_tx BY <1>0, Zenon DEF DataOf, PktInv
<1>3. /\ state'[e] = (IF p.close THEN "DRAINING" ELSE state[e])
      /\ \A d \in End : d # e => state'[d] = state[d]
  BY <1>1, Zenon DEF HsInv, HsTypes
<1>4. HsTypes'
  <2>1. p.close \in BOOLEAN BY <1>0, Zenon DEF Pkt
  <2>2. app_rx' \in [End -> SUBSET Data]
    <3>1. app_rx \in [End -> SUBSET Data] /\ app_tx \subseteq Data BY Zenon DEF HsInv, HsTypes
    <3> QED BY <1>1, <1>2, <3>1, Zenon
  <2>3. state' \in [End -> States] BY <1>1, Zenon DEF HsInv, HsTypes, States
  <2>4. recv_protected' \in [End -> BOOLEAN] /\ got_close' \in [End -> BOOLEAN]
    BY <1>1, <2>1, Zenon DEF HsInv, HsTypes
  <2> QED BY <1>1, <2>2, <2>3, <2>4, Zenon DEF HsInv, HsTypes
<1>5. StateInv'
  <2>0. p.type = "SHORT" => completed["client"] /\ completed["server"]
    BY <1>0, Zenon DEF PktInv, Peer, End
  <2>1. \A d \in End : recv_protected'[d] => recv_protected[d] \/ p.type = "SHORT"
    BY <1>1, Zenon DEF HsInv, HsTypes
  <2>2. EndInv(e)'
    <3>1. EndInv(e) BY Zenon DEF HsInv, StateInv
    <3>2. UNCHANGED <<tls, rx0, completed>> BY <1>1, Zenon
    <3>3. state'[e] = state[e] \/ state'[e] = "DRAINING" BY <1>3, Zenon
    <3> QED BY <3>1, <3>2, <3>3, Zenon DEF EndInv, FlightEnd
  <2>3. \A d \in End : EndInv(d)' BY <1>1, <1>3, <2>2, EndStays, Zenon DEF HsInv, StateInv
  <2>4. \A d \in End : state'[d] = state[d] \/ state'[d] = "DRAINING" BY <1>3, Zenon
  <2> QED BY <1>1, <2>0, <2>1, <2>3, <2>4, Zenon DEF HsInv, StateInv, End
<1>6. PacketsInv'
  <2>1. \A q : PktInv(q) => PktInv(q)' BY <1>1, <1>3, PktInvStays DEF End
  <2>2. \A d \in End : state'[d] = state[d] \/ state'[d] = "DRAINING" BY <1>3
  <2> QED BY <1>1, <2>1, <2>2, PacketsStay, Zenon DEF HsInv
<1>7. ChunksInv' BY <1>1, ChunksFrame, Zenon DEF HsInv
<1>8. KeptInv' BY <1>1, KeptStays, Zenon DEF HsInv
<1>9. StrandedInv'
  <2>1. state[e] # "DRAINING" BY Zenon DEF Handshaking
  <2>2. early_ckm' = early_ckm BY <1>1, Zenon DEF early_ckm
  <2>3. \A d \in End : app_rx'[d] \subseteq app_tx /\ (d # e => app_rx'[d] = app_rx[d])
    BY <1>1, <1>2, Zenon DEF HsInv, HsTypes, StrandedInv
  <2>4. \A d \in End : got_close'[d] => state'[d] = "DRAINING" \/ tls[d] # "ok"
    BY <1>1, <1>3, <2>1, Zenon DEF HsInv, HsTypes, StrandedInv
  <2>5. e = "server" => completed["server"] \/ early_ckm BY Zenon
  <2>6. app_rx'["server"] # {} => completed["server"] \/ early_ckm
    BY <2>3, <2>5, Zenon DEF HsInv, StrandedInv, End
  <2> QED BY <1>1, <2>2, <2>3, <2>4, <2>6, Zenon DEF HsInv, StrandedInv
<1>10. QuietInv' BY <1>1, QuietStays, Zenon DEF HsInv
<1> QED BY <1>4, <1>5, <1>6, <1>7, <1>8, <1>9, <1>10, Zenon DEF HsInv

\* conn_recv_server_stateless_retry: stream 0 starts again, and the peer has
\* not sent anything yet that would be lost by that.
LEMMA HsRetry ==
  ASSUME HsInv, Handshaking("client"), rx0["client"] = {}, conn_recv_server_stateless_retry
  PROVE  HsInv'
<1>1. /\ retry' = TRUE
      /\ rx0' = [rx0 EXCEPT !["client"] = {}] /\ tx0' = [tx0 EXCEPT !["client"] = 0]
      /\ rtb' = [rtb EXCEPT !["client"] = {}]
      /\ negotiated' = [negotiated EXCEPT !["client"] = FALSE]
      /\ state' = [state EXCEPT !["client"] = "CLIENT_INITIAL"]
      /\ UNCHANGED <<events, early_ok, connid, app_tx, completed, recv_protected, tls, early_rtb,
                     buffed_rx_ppkts, app_rx, got_close, fatal, net>>
  BY Zenon DEF conn_recv_server_stateless_retry, Set
<1>2. /\ rx0' = rx0 /\ tx0'["client"] = 0 /\ tx0'["server"] = tx0["server"]
      /\ rtb'["client"] = {} /\ rtb'["server"] = rtb["server"]
      /\ negotiated'["server"] = negotiated["server"]
      /\ state'["client"] = "CLIENT_INITIAL" /\ state'["server"] = state["server"]
  BY <1>1, Zenon DEF HsInv, HsTypes, End
<1>3. ~completed["client"] /\ tls["client"] = "ok"
  <2>1. EndInv("client") BY Zenon DEF HsInv, StateInv, End
  <2>2. state["client"] \notin {"ALMOST_FINISHED", "POST_HANDSHAKE", "CLOSING", "DRAINING"}
    BY Zenon DEF Handshaking
  <2> QED BY <2>1, <2>2, Zenon DEF EndInv
<1>4. HsTypes'
  <2>1. tx0' \in [End -> 0 .. ServerFlight + 1]
    <3>1. 0 \in 0 .. ServerFlight + 1 BY SizesAssumption
    <3> QED BY <1>1, <3>1, Zenon DEF HsInv, HsTypes
  <2> QED BY <1>1, <1>2, <2>1, Zenon DEF HsInv, HsTypes, States
<1>5. StateInv'
  <2>1. EndInv("client")' BY <1>1, <1>2, <1>3, Zenon DEF HsInv, StateInv, EndInv
  <2>2. EndInv("server")' BY <1>1, <1>2, EndStays, Zenon DEF HsInv, StateInv, End
  <2> QED BY <1>1, <1>2, <2>1, <2>2, Zenon DEF HsInv, StateInv, End
<1>6. PacketsInv'
  <2>1. \A q : PktInv(q) => PktInv(q)' BY <1>1, <1>2, PktInvStays, Zenon
  <2>2. \A d \in End : state'[d] = state[d] \/ state'[d] = "CLIENT_INITIAL" BY <1>2, Zenon DEF End
  <2> QED BY <1>1, <1>2, <2>1, <2>2, PacketsStay, Zenon DEF HsInv
<1>7. ChunksInv'
  <2>1. \A d \in End, y \in Item : SentChunk(d, y)' => SentChunk(d, y)
    BY <1>1, <1>2, Zenon DEF SentChunk, End
  <2>2. \A y \in Item : SentChunk("client", y) => y.off = 1
    <3> SUFFICES ASSUME NEW y \in Item, SentChunk("client", y) PROVE y.off = 1
      BY Zenon
    <3>1. y.off > 0 /\ (y.off <= tx0["client"] \/ y.off = 1) BY Zenon DEF HsInv, ChunksInv, End
    <3>2. ~(tx0["client"] > 1) BY Zenon DEF HsInv, ChunksInv
    <3>3. tx0["client"] \in Nat /\ y.off \in Nat
      BY SizesAssumption DEF HsInv, HsTypes, End, Item
    <3> QED BY <3>1, <3>2, <3>3
  <2>3. ASSUME NEW d \in End, NEW y \in Item, SentChunk(d, y)'
        PROVE  /\ y.off > 0 /\ y.data = "none"
               /\ y.off <= tx0'[d] \/ (d = "client" /\ y.off = 1)
               /\ d = "client" /\ y.off = 1 => y = ClientHello
               /\ \A z \in Item : SentChunk(d, z)' /\ z.off = y.off => z = y
    <3>1. SentChunk(d, y) BY <2>1, <2>3, Zenon
    <3>2. /\ y.off > 0 /\ y.data = "none"
          /\ y.off <= tx0[d] \/ (d = "client" /\ y.off = 1)
          /\ d = "client" /\ y.off = 1 => y = ClientHello
          /\ \A z \in Item : SentChunk(d, z) /\ z.off = y.off => z = y
      BY <3>1, Zenon DEF HsInv, ChunksInv
    <3> QED BY <1>2, <2>1, <2>2, <3>1, <3>2, Zenon DEF End
  <2>4. /\ ~(tx0'["client"] > 1) /\ tx0'["client"] <= 2
        /\ tls'["server"] = "ok" => tx0'["server"] <= ServerFlight
    BY <1>1, <1>2 DEF HsInv, ChunksInv
  <2> QED BY <2>3, <2>4, Zenon DEF ChunksInv
<1>8. KeptInv'
  <2>1. HandshakeDataKept'
    <3>1. \A k \in 1 .. tx0'["client"] : FALSE BY <1>2
    <3>2. fatal' = fatal BY <1>1, Zenon
    <3> SUFFICES ASSUME NEW d \in End, fatal'[d] = "none", NEW k \in 1 .. tx0'[d]
                 PROVE  \E c \in rtb'[d] \cup rx0'[Peer(d)] : c.off = k
      BY SMT DEF HandshakeDataKept
    <3>3. d = "server" BY <3>1, Zenon DEF End
    <3>4. fatal[d] = "none" /\ k \in 1 .. tx0[d] BY <1>2, <3>2, <3>3, Zenon
    <3>5. \E c \in rtb[d] \cup rx0[Peer(d)] : c.off = k
      BY <3>4 DEF HsInv, KeptInv, HandshakeDataKept
    <3>6. rtb'[d] = rtb[d] /\ rx0' = rx0 BY <1>2, <3>3, Zenon
    <3> QED BY <3>5, <3>6, Zenon
  <2> QED BY <1>1, <1>2, <2>1, Zenon DEF HsInv, KeptInv, End
<1>9. StrandedInv'
  <2>1. state["client"] # "DRAINING" BY Zenon DEF Handshaking
  <2>2. early_ckm' = early_ckm BY <1>1, <1>2, Zenon DEF early_ckm
  <2> QED BY <1>1, <1>2, <2>1, <2>2, Zenon DEF HsInv, StrandedInv, End
<1>10. QuietInv'
  <2>1. \A d \in End : rtb'[d] \subseteq rtb[d] BY <1>2, Zenon DEF End
  <2> QED BY <1>1, <1>2, <2>1, QuietStays, Zenon DEF HsInv
<1> QED BY <1>4, <1>5, <1>6, <1>7, <1>8, <1>9, <1>10, Zenon DEF HsInv

\* conn_recv_handshake_pkt and what ngtcp2_conn_recv does after it
LEMMA HsRecvHandshake ==
  ASSUME HsInv, NEW e \in End, NEW p \in net, p.from = Peer(e), InClear(p), Handshaking(e),
         e = "server" /\ p.type = "HANDSHAKE" => p.cid = "s",
         NEW fails \in BOOLEAN, fails => "fail" \in events,
         conn_recv_handshake_pkt(e, p, fails)
  PROVE  HsInv'
<1>0. p \in Pkt /\ PktInv(p) /\ p.item \in Item
  BY Zenon DEF HsInv, HsTypes, PacketsInv, Pkt
<1>1. PICK chunks, new, alerted, failed, done, release, used, closed :
        /\ chunks = rx0[e] \cup {p.item}
        /\ new = (Prefix(chunks) > Prefix(rx0[e]))
        /\ alerted = (\E c \in chunks : c.alert /\ c.off <= Prefix(chunks))
        /\ failed = (new /\ (alerted \/ fails \/ tls[e] # "ok"))
        /\ done = (new /\ ~failed /\ Prefix(chunks) = FlightEnd(e))
        /\ release = (done \/ (state[e] = "SERVER_INITIAL" /\ ~failed))
        /\ used = IF release /\ (done \/ early_ok)
                  THEN {buffed_rx_ppkts[e][i] : i \in DOMAIN buffed_rx_ppkts[e]} ELSE {}
        /\ closed = (\E x \in used : x.close)
  BY ZenonT(40)
<1>2. /\ rx0' = [rx0 EXCEPT ![e] = chunks]
      /\ tls' = [tls EXCEPT ![e] = IF ~failed THEN tls[e] ELSE IF alerted THEN "alerted" ELSE "failed"]
      /\ completed' = [completed EXCEPT ![e] = completed[e] \/ done]
      /\ negotiated' = [negotiated EXCEPT ![e] = TRUE]
      /\ connid' = IF e = "client" THEN p.cid ELSE connid
      /\ got_close' = [got_close EXCEPT ![e] = got_close[e] \/ p.close \/ closed]
      /\ state' = [state EXCEPT ![e] =
            IF failed /\ state[e] # "TLS_HANDSHAKE_FAILED" THEN "TLS_HANDSHAKE_FAILED"
            ELSE IF closed \/ p.close THEN "DRAINING"
            ELSE IF done THEN IF e = "client" THEN "ALMOST_FINISHED" ELSE "POST_HANDSHAKE"
            ELSE state[e]]
      /\ fatal' = IF failed /\ state[e] = "TLS_HANDSHAKE_FAILED"
                  THEN [fatal EXCEPT ![e] = "TLS_HANDSHAKE"] ELSE fatal
      /\ app_rx' = [app_rx EXCEPT ![e] = app_rx[e] \cup DataOf(used)]
      /\ recv_protected' = [recv_protected EXCEPT ![e] =
                              recv_protected[e] \/ \E x \in used : x.type = "SHORT"]
      /\ buffed_rx_ppkts' = IF release THEN [buffed_rx_ppkts EXCEPT ![e] = <<>>]
                            ELSE buffed_rx_ppkts
      /\ UNCHANGED <<events, early_ok, retry, app_tx, tx0, rtb, early_rtb, net>>
  BY <1>1, Zenon DEF conn_recv_handshake_pkt, ReleasesBuffer, Set
\* The chunks, and what they tell the TLS session.
<1>3. /\ chunks \in SUBSET Item /\ rx0[e] \subseteq chunks /\ chunks # {}
      /\ Prefix(rx0[e]) \in Nat /\ Prefix(chunks) \in Nat
      /\ Prefix(rx0[e]) <= Prefix(chunks)
  <2>1. rx0[e] \in SUBSET Item BY Zenon DEF HsInv, HsTypes
  <2> QED BY <1>0, <1>1, <2>1, PrefixGrows, Zenon
<1>4. \A c \in chunks : SentChunk(Peer(e), c)
  <2>1. Peer(Peer(e)) = e BY Zenon DEF Peer, End
  <2> QED BY <1>1, <2>1, Zenon DEF SentChunk
<1>5. /\ done => ~failed /\ tls[e] = "ok"
      /\ failed => Prefix(rx0[e]) < Prefix(chunks)
      /\ failed \in BOOLEAN /\ done \in BOOLEAN /\ release \in BOOLEAN /\ closed \in BOOLEAN
      /\ done => release
      /\ release => done \/ (state[e] = "SERVER_INITIAL" /\ ~failed)
      /\ state[e] = "SERVER_INITIAL" => release \/ failed
  BY <1>1, <1>3, Zenon
<1>6. done => \A k \in 1 .. FlightEnd(e) : \E c \in chunks : c.off = k
  <2>1. HasFirst(chunks, Prefix(chunks)) BY PrefixFacts, Zenon
  <2>2. done => Prefix(chunks) = FlightEnd(e) BY <1>1, Zenon
  <2> QED BY <2>1, <2>2, Zenon DEF HasFirst
<1>7. ~completed[e] /\ ~recv_protected[e] BY Zenon DEF HsInv, StateInv, EndInv, Handshaking, End
\* The Initial packet is the first one that the server takes.
<1>8. state["server"] = "SERVER_INITIAL" => e = "server" /\ p.item.off = 1
  BY <1>0, Zenon DEF PktInv, InClear, End, Peer
<1>9. e = "client" => p.cid = "s" BY <1>0, Zenon DEF PktInv, InClear, Peer
\* The packets that were buffered.
<1>10. \A x \in used : /\ PktInv(x) /\ x.from = Peer(e)
                       /\ done \/ (x.type = "0RTT_PROTECTED" /\ e = "server" /\ early_ok)
  <2> HIDE DEF PktInv
  <2> SUFFICES ASSUME NEW x \in used
               PROVE  /\ PktInv(x) /\ x.from = Peer(e)
                      /\ done \/ (x.type = "0RTT_PROTECTED" /\ e = "server" /\ early_ok)
    BY Zenon
  <2>1. release /\ (done \/ early_ok) BY <1>1, Zenon
  <2>2. PICK i \in DOMAIN buffed_rx_ppkts[e] : x = buffed_rx_ppkts[e][i] BY <1>1, <2>1, Zenon
  <2>3. /\ PktInv(x) /\ x.from = Peer(e)
        /\ state[e] = "SERVER_INITIAL" => x.type = "0RTT_PROTECTED"
    BY <2>2, Zenon DEF HsInv, PacketsInv
  <2>4. state[e] = "SERVER_INITIAL" => e = "server" BY Zenon DEF HsInv, StateInv, EndInv, End
  <2> QED BY <1>5, <2>1, <2>3, <2>4, Zenon
<1>11. DataOf(used) \subseteq app_tx BY <1>10, Zenon DEF DataOf, PktInv
<1>12. events \subseteq {"close", "lose", "timeout"} => ~failed /\ ~p.item.alert
  <2>1. events \subseteq {"close", "lose", "timeout"} =>
          ~fails /\ tls[e] = "ok" /\ ~p.item.alert /\ \A c \in rx0[e] : ~c.alert
    BY Zenon DEF HsInv, QuietInv
  <2> QED BY <1>1, <2>1, Zenon
\* The functions that change, point by point.
<1>13. /\ state'[e] = IF failed /\ state[e] # "TLS_HANDSHAKE_FAILED" THEN "TLS_HANDSHAKE_FAILED"
                      ELSE IF closed \/ p.close THEN "DRAINING"
                      ELSE IF done THEN IF e = "client" THEN "ALMOST_FINISHED" ELSE "POST_HANDSHAKE"
                      ELSE state[e]
       /\ tls'[e] = IF ~failed THEN tls[e] ELSE IF alerted THEN "alerted" ELSE "failed"
       /\ completed'[e] = done /\ rx0'[e] = chunks /\ negotiated'[e] = TRUE
       /\ got_close'[e] = (got_close[e] \/ p.close \/ closed)
       /\ app_rx'[e] = app_rx[e] \cup DataOf(used)
       /\ recv_protected'[e] = (\E x \in used : x.type = "SHORT")
       /\ buffed_rx_ppkts'[e] = IF release THEN <<>> ELSE buffed_rx_ppkts[e]
  BY <1>2, <1>5, <1>7, Zenon DEF HsInv, HsTypes
<1>14. \A d \in End : d # e =>
         /\ state'[d] = state[d] /\ tls'[d] = tls[d] /\ completed'[d] = completed[d]
         /\ rx0'[d] = rx0[d] /\ negotiated'[d] = negotiated[d]
         /\ got_close'[d] = got_close[d] /\ app_rx'[d] = app_rx[d]
         /\ recv_protected'[d] = recv_protected[d]
         /\ buffed_rx_ppkts'[d] = buffed_rx_ppkts[d]
  BY <1>2, Zenon DEF HsInv, HsTypes
<1>15. HsTypes'
  <2>1. rx0' \in [End -> SUBSET Item]
    BY <1>2, <1>3, <1>13, <1>14, Zenon DEF HsInv, HsTypes
  <2>2. tls' \in [End -> {"ok", "failed", "alerted"}] BY <1>2, Zenon DEF HsInv, HsTypes
  <2>3. completed' \in [End -> BOOLEAN] /\ negotiated' \in [End -> BOOLEAN]
    BY <1>2, <1>5, Zenon DEF HsInv, HsTypes
  <2>4. got_close' \in [End -> BOOLEAN] /\ recv_protected' \in [End -> BOOLEAN]
    BY <1>2, Zenon DEF HsInv, HsTypes
  <2>5. connid' \in {"c", "s"} BY <1>0, <1>2, Zenon DEF HsInv, HsTypes, Pkt
  <2>6. state' \in [End -> States] BY <1>2, Zenon DEF HsInv, HsTypes, States
  <2>7. fatal' \in [End -> {"none", "CALLBACK_FAILURE", "TLS_HANDSHAKE", "PROTO",
                            "TLS_FATAL_ALERT_RECEIVED", "PKT_TIMEOUT"}]
    BY <1>2, Zenon DEF HsInv, HsTypes
  <2>8. app_rx' \in [End -> SUBSET Data]
    <3>1. app_rx \in [End -> SUBSET Data] /\ app_tx \subseteq Data BY Zenon DEF HsInv, HsTypes
    <3> QED BY <1>2, <1>11, <3>1, Zenon
  <2>9. buffed_rx_ppkts' \in [End -> Seq(Pkt)]
    <3>1. <<>> \in Seq(Pkt) OBVIOUS
    <3> QED BY <1>2, <3>1, Zenon DEF HsInv, HsTypes
  <2> QED BY <1>2, <2>1, <2>2, <2>3, <2>4, <2>5, <2>6, <2>7, <2>8, <2>9, Zenon DEF HsInv, HsTypes
<1>16. StateInv'
  <2>0. state[e] \in {"CLIENT_WAIT_HANDSHAKE", "SERVER_INITIAL", "SERVER_WAIT_HANDSHAKE",
                      "TLS_HANDSHAKE_FAILED"}
    BY Zenon DEF Handshaking
  <2>1. /\ state'["client"] \notin {"SERVER_INITIAL", "SERVER_WAIT_HANDSHAKE"}
        /\ state'["server"] \notin {"CLIENT_INITIAL", "CLIENT_WAIT_HANDSHAKE", "ALMOST_FINISHED"}
    <3>1. \/ state'[e] \in {"TLS_HANDSHAKE_FAILED", "DRAINING", state[e]}
          \/ e = "client" /\ state'[e] = "ALMOST_FINISHED"
          \/ e # "client" /\ state'[e] = "POST_HANDSHAKE"
      BY <1>13, Zenon
    <3>2. \A d \in End : d # e => state'[d] = state[d] BY <1>14, Zenon
    <3>3. /\ state["client"] \notin {"SERVER_INITIAL", "SERVER_WAIT_HANDSHAKE"}
          /\ state["server"] \notin {"CLIENT_INITIAL", "CLIENT_WAIT_HANDSHAKE", "ALMOST_FINISHED"}
      BY Zenon DEF HsInv, StateInv
    <3> QED BY <3>1, <3>2, <3>3, Zenon DEF End
  <2>2. connid' = "s" \/ rtb'["server"] # {} => state'["server"] # "SERVER_INITIAL"
    <3>1. state'["server"] = "SERVER_INITIAL" => state["server"] = "SERVER_INITIAL"
      BY <1>13, <1>14, Zenon DEF End
    <3>2. state["server"] = "SERVER_INITIAL" => connid' = connid BY <1>2, <1>8, Zenon
    <3> QED BY <1>2, <3>1, <3>2, Zenon DEF HsInv, StateInv
  <2>3. state'["server"] = "SERVER_INITIAL" => \A c \in rx0'["server"] : c.off = 1
    <3>1. state'["server"] = "SERVER_INITIAL" =>
            /\ state["server"] = "SERVER_INITIAL" /\ e = "server" /\ p.item.off = 1
      BY <1>8, <1>13, <1>14, Zenon DEF End
    <3>2. state["server"] = "SERVER_INITIAL" => \A c \in rx0["server"] : c.off = 1
      BY Zenon DEF HsInv, StateInv
    <3>3. rx0'[e] = rx0[e] \cup {p.item} BY <1>1, <1>13, Zenon
    <3> QED BY <3>1, <3>2, <3>3, Zenon
  <2>4. state'["server"] = "SERVER_WAIT_HANDSHAKE" \/ rx0'["server"] # {} => negotiated'["server"]
    BY <1>13, <1>14, Zenon DEF HsInv, StateInv, EndInv, End
  <2>5. EndInv(e)'
    <3>1. /\ tls[e] # "ok" => state[e] # "SERVER_INITIAL"
          /\ state[e] = "TLS_HANDSHAKE_FAILED" => tls[e] # "ok"
      BY Zenon DEF HsInv, StateInv, EndInv
    <3>2. failed => tls'[e] # "ok" BY <1>13, Zenon
    <3>3. ~failed => tls'[e] = tls[e] BY <1>13, Zenon
    <3>4. tls'[e] # "ok" => rx0'[e] # {} /\ state'[e] # "SERVER_INITIAL"
      BY <1>3, <1>13, <2>0, <3>1, Zenon
    <3>5. state'[e] = "TLS_HANDSHAKE_FAILED" => tls'[e] # "ok"
      BY <1>13, <3>1, <3>2, <3>3, Zenon
    <3>6. state'[e] \in {"ALMOST_FINISHED", "POST_HANDSHAKE", "CLOSING"} => completed'[e]
      BY <1>13, <2>0, Zenon
    <3>7. ASSUME done
          PROVE  /\ state'[e] \in {"ALMOST_FINISHED", "POST_HANDSHAKE", "CLOSING", "DRAINING"}
                 /\ tls'[e] = "ok"
      BY <1>5, <1>13, <3>7, Zenon
    <3>8. done => \A k \in 1 .. FlightEnd(e) : \E c \in rx0'[e] : c.off = k
      <4>1. rx0'[e] = chunks BY <1>13, Zenon
      <4> QED BY <1>6, <4>1, Zenon
    <3>9. completed'[e] = done BY <1>13, Zenon
    <3> QED BY <3>4, <3>5, <3>6, <3>7, <3>8, <3>9, Zenon DEF EndInv, FlightEnd
  <2>6. \A d \in End : EndInv(d)'
    BY <1>14, <2>5, EndStays, Zenon DEF HsInv, StateInv
  <2>7. ASSUME NEW d \in End, recv_protected'[d]
        PROVE  completed'["client"] /\ completed'["server"]
    <3>0. /\ Peer(e) # e /\ Peer(e) \in End /\ \A c \in End : c = e \/ c = Peer(e)
          /\ Peer(Peer(e)) = e
      BY Zenon DEF Peer, End
    <3>1. CASE d = e
      <4>1. PICK x \in used : x.type = "SHORT" BY <1>13, <2>7, <3>1, Zenon
      <4>2. completed[Peer(e)] BY <1>10, <4>1, Zenon DEF PktInv
      <4>3. done BY <1>10, <4>1, Zenon
      <4>4. completed'[e] /\ completed'[Peer(e)] BY <1>13, <1>14, <3>0, <4>2, <4>3, Zenon
      <4> QED BY <4>4, Zenon DEF Peer, End
    <3>2. CASE d # e
      <4>1. recv_protected[d] BY <1>14, <2>7, <3>2, Zenon
      <4>2. completed["client"] /\ completed["server"] BY <4>1, Zenon DEF HsInv, StateInv
      <4> QED BY <1>7, <4>2, Zenon DEF End
    <3> QED BY <3>1, <3>2, Zenon
  <2> QED BY <2>1, <2>2, <2>3, <2>4, <2>6, <2>7, Zenon DEF StateInv
<1>17. PacketsInv'
  <2>1. state'["server"] = "SERVER_INITIAL" => state["server"] = "SERVER_INITIAL"
    BY <1>13, <1>14 DEF End
  <2>2. ASSUME NEW q, q \in Pkt, PktInv(q) PROVE PktInv(q)'
    <3>1. q.from \in End BY <2>2, Zenon DEF Pkt
    <3>2. completed[q.from] => completed'[q.from] BY <1>7, <1>14, <3>1, Zenon
    <3> QED BY <1>2, <2>1, <2>2, <3>2, PktInvStays, Zenon
  <2> HIDE DEF PktInv
  <2>3. \A q \in net' : PktInv(q)' BY <1>2, <2>2, Zenon DEF HsInv, HsTypes, PacketsInv
  <2>4. ASSUME NEW d \in End, NEW i \in DOMAIN buffed_rx_ppkts'[d], NEW q, q = buffed_rx_ppkts'[d][i]
        PROVE  /\ PktInv(q)' /\ q.from = Peer(d)
               /\ q.type \in {"SHORT", "0RTT_PROTECTED"}
               /\ state'[d] = "SERVER_INITIAL" => q.type = "0RTT_PROTECTED"
               /\ d = "server" /\ negotiated'[d]
                    /\ state'[d] \in {"SERVER_INITIAL", "SERVER_WAIT_HANDSHAKE"} => q.type = "SHORT"
    <3>1. i \in DOMAIN buffed_rx_ppkts[d] /\ q = buffed_rx_ppkts[d][i] /\ (d = e => ~release)
      <4>1. d = e /\ release => buffed_rx_ppkts'[d] = <<>> BY <1>13, Zenon
      <4>2. DOMAIN <<>> = {} OBVIOUS
      <4>3. d = e => ~release BY <2>4, <4>1, <4>2, Zenon
      <4> QED BY <1>13, <1>14, <2>4, <4>3, Zenon
    <3>2. q \in Pkt
      <4>1. buffed_rx_ppkts[d] \in Seq(Pkt) BY Zenon DEF HsInv, HsTypes
      <4>2. i \in DOMAIN buffed_rx_ppkts[d] /\ q = buffed_rx_ppkts[d][i] BY <3>1, Zenon
      <4> QED BY <4>1, <4>2
    <3>3. /\ PktInv(q) /\ q.from = Peer(d)
          /\ q.type \in {"SHORT", "0RTT_PROTECTED"}
          /\ state[d] = "SERVER_INITIAL" => q.type = "0RTT_PROTECTED"
          /\ d = "server" /\ negotiated[d]
               /\ state[d] \in {"SERVER_INITIAL", "SERVER_WAIT_HANDSHAKE"} => q.type = "SHORT"
      BY <3>1, Zenon DEF HsInv, PacketsInv
    <3>4. CASE d = e
      <4>1. state'[d] \notin {"SERVER_INITIAL", "SERVER_WAIT_HANDSHAKE"} \/ state'[d] = state[d]
        BY <1>13, <3>4, Zenon
      <4>2. state'[d] # "SERVER_INITIAL" BY <1>5, <1>13, <3>1, <3>4, Zenon
      <4>3. state[d] = "SERVER_WAIT_HANDSHAKE" /\ d = "server" => negotiated[d]
        BY Zenon DEF HsInv, StateInv, EndInv
      <4> QED BY <2>2, <3>2, <3>3, <4>1, <4>2, <4>3, Zenon
    <3>5. CASE d # e BY <1>14, <2>2, <3>2, <3>3, <3>5, Zenon
    <3> QED BY <3>4, <3>5, Zenon
  <2> QED BY <2>3, <2>4, Zenon DEF PacketsInv, Peer
<1>18. ChunksInv'
  <2>1. \A d \in End, y \in Item : SentChunk(d, y)' => SentChunk(d, y)
    <3> SUFFICES ASSUME NEW d \in End, NEW y \in Item, SentChunk(d, y)' PROVE SentChunk(d, y)
      BY Zenon
    <3>1. CASE y \in rx0'[Peer(d)]
      <4>1. Peer(d) \in End /\ (Peer(d) = e => d = Peer(e)) BY Zenon DEF Peer, End
      <4>2. CASE Peer(d) = e BY <1>4, <1>13, <3>1, <4>1, <4>2, Zenon
      <4>3. CASE Peer(d) # e BY <1>14, <3>1, <4>1, <4>3, Zenon DEF SentChunk
      <4> QED BY <4>2, <4>3, Zenon
    <3>2. CASE y \notin rx0'[Peer(d)] BY <1>2, <3>2, Zenon DEF SentChunk, Peer
    <3> QED BY <3>1, <3>2, Zenon
  <2>2. tls'["server"] = "ok" => tls["server"] = "ok"
    BY <1>13, <1>14, Zenon DEF End
  <2>3. rx0'["client"] = {} => rx0["client"] = {}
    BY <1>3, <1>13, <1>14, Zenon DEF End
  <2> QED BY <1>2, <2>1, <2>2, <2>3, ChunksStay, Zenon DEF HsInv
<1>19. KeptInv'
  <2>1. \A d \in End : rx0[d] \subseteq rx0'[d] /\ (completed[d] => completed'[d])
    BY <1>3, <1>7, <1>13, <1>14, Zenon
  <2>2. \A d \in End : fatal'[d] = "none" => fatal[d] = "none"
    BY <1>2, Zenon DEF HsInv, HsTypes
  <2>3. HandshakeDataKept' BY <1>2, <2>1, <2>2, DataKeptGrows, Zenon DEF HsInv, KeptInv
  <2> QED BY <1>2, <2>1, <2>3, Zenon DEF HsInv, KeptInv
<1>20. StrandedInv'
  <2>0. state[e] # "DRAINING" BY Zenon DEF Handshaking
  <2>1. ASSUME NEW d \in End, got_close'[d] PROVE state'[d] = "DRAINING" \/ tls'[d] # "ok"
    <3>1. CASE d = e
      <4>1. got_close[e] => tls[e] # "ok" BY <2>0, Zenon DEF HsInv, StrandedInv
      <4>2. failed => tls'[e] # "ok" BY <1>13, Zenon
      <4>3. ~failed /\ (closed \/ p.close) => state'[e] = "DRAINING" BY <1>13, Zenon
      <4>4. ~failed => tls'[e] = tls[e] BY <1>13, Zenon
      <4>5. got_close[e] \/ p.close \/ closed BY <1>13, <2>1, <3>1, Zenon
      <4> QED BY <3>1, <4>1, <4>2, <4>3, <4>4, <4>5, Zenon
    <3>2. CASE d # e
      <4>1. got_close[d] => state[d] = "DRAINING" \/ tls[d] # "ok" BY Zenon DEF HsInv, StrandedInv
      <4> QED BY <1>14, <2>1, <3>2, <4>1, Zenon
    <3> QED BY <3>1, <3>2, Zenon
  <2>2. e = "server" /\ early_ckm => early_ckm'
    <3> SUFFICES ASSUME e = "server", early_ckm PROVE early_ckm'
      BY Zenon
    <3>1. /\ early_ok /\ Prefix(rx0["server"]) > 0
          /\ tls["server"] = "ok" \/ Prefix(rx0["server"]) > 1
      BY Zenon DEF early_ckm
    <3>2. tls'["server"] = tls["server"] \/ Prefix(chunks) > 1
      <4>1. failed => Prefix(rx0["server"]) < Prefix(chunks) BY <1>5, Zenon
      <4>2. Prefix(rx0["server"]) \in Nat /\ Prefix(chunks) \in Nat BY <1>3, Zenon
      <4>3. ~failed => tls'["server"] = tls["server"] BY <1>13, Zenon
      <4>4. failed => Prefix(chunks) > 1 BY <3>1, <4>1, <4>2
      <4> QED BY <4>3, <4>4, Zenon
    <3>3. Prefix(chunks) > 0 /\ (Prefix(rx0["server"]) > 1 => Prefix(chunks) > 1)
      <4>1. /\ Prefix(rx0["server"]) \in Nat /\ Prefix(chunks) \in Nat
            /\ Prefix(rx0["server"]) <= Prefix(chunks)
        BY <1>3, Zenon
      <4> QED BY <3>1, <4>1
    <3>4. rx0'["server"] = chunks /\ early_ok' BY <1>2, <1>13, <3>1, Zenon
    <3> QED BY <3>1, <3>2, <3>3, <3>4, Zenon DEF early_ckm, Prefix
  <2>3. ASSUME e = "server", DataOf(used) # {} PROVE completed'["server"] \/ early_ckm'
    <3>1. CASE done BY <1>13, <2>3, <3>1, Zenon
    <3>2. CASE ~done
      <4>1. used # {} BY <2>3, Zenon DEF DataOf
      <4>2. early_ok /\ state[e] = "SERVER_INITIAL" /\ ~failed BY <1>1, <1>5, <3>2, <4>1, Zenon
      <4>3. Prefix(chunks) > 0 BY <1>1, <1>3, <1>8, <2>3, <4>2, PrefixGrows, Zenon
      <4>4. tls'["server"] = "ok" BY <1>13, <2>3, <4>2, Zenon DEF HsInv, StateInv, EndInv
      <4>5. rx0'["server"] = chunks /\ early_ok' BY <1>2, <1>13, <2>3, <4>2, Zenon
      <4> QED BY <4>3, <4>4, <4>5, Zenon DEF early_ckm, Prefix
    <3> QED BY <3>1, <3>2, Zenon
  <2>4. app_rx'["server"] # {} => completed'["server"] \/ early_ckm'
    <3>1. CASE e = "server"
      BY <1>7, <1>13, <2>2, <2>3, <3>1, Zenon DEF HsInv, StrandedInv
    <3>2. CASE e # "server"
      <4>1. early_ckm' = early_ckm
        BY <1>2, <1>14, <3>2, Zenon DEF early_ckm, End
      <4> QED BY <1>14, <3>2, <4>1, Zenon DEF HsInv, StrandedInv, End
    <3> QED BY <3>1, <3>2, Zenon
  <2>5. ASSUME NEW d \in End
        PROVE  /\ completed'[d] => buffed_rx_ppkts'[d] = <<>>
               /\ app_rx'[d] \subseteq app_tx'
               /\ Len(buffed_rx_ppkts'[d]) <= MaxBuffed
    <3>0. Len(<<>>) = 0 BY Zenon
    <3>1. CASE d = e
      <4>1. app_rx[e] \subseteq app_tx /\ Len(buffed_rx_ppkts[e]) <= MaxBuffed
        BY Zenon DEF HsInv, StrandedInv
      <4>2. buffed_rx_ppkts'[e] = IF release THEN <<>> ELSE buffed_rx_ppkts[e] BY <1>13, Zenon
      <4>3. Len(buffed_rx_ppkts'[e]) <= MaxBuffed
        <5>1. buffed_rx_ppkts'[e] \in {<<>>, buffed_rx_ppkts[e]} BY <4>2, Zenon
        <5> QED BY <3>0, <4>1, <5>1, SizesAssumption
      <4>4. completed'[e] => release BY <1>5, <1>13, Zenon
      <4>5. app_rx'[e] \subseteq app_tx' BY <1>2, <1>11, <1>13, <4>1, Zenon
      <4> QED BY <3>1, <4>2, <4>3, <4>4, <4>5, Zenon
    <3>2. CASE d # e BY <1>2, <1>14, <3>2, Zenon DEF HsInv, StrandedInv
    <3> QED BY <3>1, <3>2, Zenon
  <2> HIDE DEF early_ckm
  <2> QED BY <2>1, <2>4, <2>5, Zenon DEF StrandedInv
<1>21. QuietInv'
  <2> SUFFICES ASSUME events \subseteq {"close", "lose", "timeout"} PROVE QuietInv'
    BY <1>2, Zenon DEF QuietInv
  <2>1. ~failed /\ ~p.item.alert BY <1>12, Zenon
  <2>2. \A d \in End : fatal'[d] \in {"none", "PKT_TIMEOUT"} /\ tls'[d] = "ok"
    <3>1. \A d \in End : fatal[d] \in {"none", "PKT_TIMEOUT"} /\ tls[d] = "ok" BY Zenon DEF HsInv, QuietInv
    <3>2. fatal' = fatal BY <1>2, <2>1, Zenon
    <3>3. tls'[e] = tls[e] BY <1>13, <2>1, Zenon
    <3>4. \A d \in End : d # e => tls'[d] = tls[d] BY <1>14, Zenon
    <3> QED BY <3>1, <3>2, <3>3, <3>4, Zenon
  <2>3. \A d \in End : \A x \in rx0'[d] : ~x.alert
    <3>1. \A d \in End : \A x \in rx0[d] : ~x.alert BY Zenon DEF HsInv, QuietInv
    <3>2. chunks = rx0[e] \cup {p.item} BY <1>1, Zenon
    <3>3. rx0'[e] = chunks BY <1>13, Zenon
    <3>4. \A d \in End : d # e => rx0'[d] = rx0[d] BY <1>14, Zenon
    <3> QED BY <3>1, <3>2, <3>3, <3>4, <2>1, Zenon
  <2>4. ASSUME NEW d \in End, NEW i \in DOMAIN buffed_rx_ppkts'[d]
        PROVE  buffed_rx_ppkts'[d][i].type # "0RTT_PROTECTED"
    <3>1. buffed_rx_ppkts'[d] = buffed_rx_ppkts[d] \/ buffed_rx_ppkts'[d] = <<>>
      BY <1>13, <1>14, Zenon
    <3>2. DOMAIN <<>> = {} OBVIOUS
    <3> QED BY <3>1, <3>2, <2>4, Zenon DEF HsInv, QuietInv
  <2> QED BY <1>2, <2>2, <2>3, <2>4, Zenon DEF HsInv, QuietInv
<1> QED BY <1>15, <1>16, <1>17, <1>18, <1>19, <1>20, <1>21, Zenon DEF HsInv

\* ngtcp2_conn_recv
LEMMA HsRecv ==
  ASSUME HsInv, NEW e \in End, NEW p \in net, ngtcp2_conn_recv(e, p)
  PROVE  HsInv'
<1>0. /\ p \in Pkt /\ PktInv(p) /\ p.from # e
  BY Zenon DEF ngtcp2_conn_recv, HsInv, HsTypes, PacketsInv
<1>1. p.from = Peer(e) BY <1>0, Zenon DEF Pkt, Peer, End
<1>2. CASE p.type = "SHORT" /\ RecvShort(e, p)
  <2>1. CASE Handshaking(e) /\ state[e] # "SERVER_INITIAL" /\ conn_buffer_protected_pkt(e, p)
    BY <1>1, <1>2, <2>1, HsBuffer, Zenon
  <2>2. CASE state[e] \in {"ALMOST_FINISHED", "POST_HANDSHAKE"} /\ conn_recv_pkt(e, p)
    <3>1. completed[e] BY <2>2, Zenon DEF HsInv, StateInv, EndInv
    <3> QED BY <1>1, <1>2, <2>2, <3>1, HsRecvProtected, Zenon
  <2> QED BY <1>2, <2>1, <2>2, Zenon DEF RecvShort
<1>3. CASE p.type = "0RTT_PROTECTED" /\ Recv0rtt(p)
  <2>0. e = "server" BY <1>0, <1>1, <1>3, Zenon DEF PktInv, Peer, End
  <2>1. CASE Handshaking("server") /\ ~negotiated["server"] /\ conn_buffer_protected_pkt("server", p)
    BY <1>1, <1>3, <2>0, <2>1, HsBuffer, Zenon
  <2>2. CASE /\ Handshaking("server") \/ state["server"] = "POST_HANDSHAKE"
             /\ early_ckm /\ conn_recv_pkt("server", p)
    BY <1>1, <1>3, <2>0, <2>2, HsRecvProtected, Zenon
  <2> QED BY <1>3, <2>1, <2>2, Zenon DEF Recv0rtt
<1>4. CASE p.type = "RETRY" /\ RecvRetry(p)
  <2>1. CASE rx0["client"] # {}
    <3>1. ~(events \subseteq {"close", "lose", "timeout"}) BY <1>4, Zenon DEF HsInv, QuietInv
    <3>2. Fail("client", "PROTO") BY <1>4, <2>1, Zenon DEF RecvRetry
    <3> QED BY <3>1, <3>2, HsFail, Zenon DEF End
  <2>2. CASE rx0["client"] = {}
    BY <1>4, <2>2, HsRetry, Zenon DEF RecvRetry
  <2> QED BY <2>1, <2>2, Zenon
<1>5. CASE InClear(p) /\ RecvHandshake(e, p)
  <2>1. PICK fails \in (IF "fail" \in events THEN BOOLEAN ELSE {FALSE}) :
          conn_recv_handshake_pkt(e, p, fails)
    BY <1>5, Zenon DEF RecvHandshake
  <2>2. fails \in BOOLEAN /\ (fails => "fail" \in events) BY Zenon
  <2>3. Handshaking(e) /\ (e = "server" /\ p.type = "HANDSHAKE" => p.cid = "s")
    BY <1>5, Zenon DEF RecvHandshake
  <2> QED BY <1>1, <1>5, <2>1, <2>2, <2>3, HsRecvHandshake, Zenon
<1>6. CASE p.type = "HANDSHAKE" /\ conn_recv_delayed_handshake_pkt(e, p)
  <2>1. p.close /\ Fail(e, "TLS_FATAL_ALERT_RECEIVED")
    BY <1>6, Zenon DEF conn_recv_delayed_handshake_pkt
  <2>2. p.item.alert BY <1>0, <1>6, <2>1, Zenon DEF PktInv, InClear
  <2>3. ~(events \subseteq {"close", "lose", "timeout"}) BY <2>2, Zenon DEF HsInv, QuietInv
  <2> QED BY <2>1, <2>3, HsFail, Zenon
<1> QED BY <1>2, <1>3, <1>4, <1>5, <1>6, Zenon DEF ngtcp2_conn_recv, InClear

\* Every step keeps the invariant.
LEMMA HsStep == HsInv /\ [Next]_vars => HsInv'
<1> SUFFICES ASSUME HsInv, [Next]_vars PROVE HsInv' BY Zenon
<1>1. ASSUME NEW e \in End, ngtcp2_conn_write_pkt(e) PROVE HsInv'
  BY <1>1, HsWritePkt, Zenon
<1>2. ASSUME NEW e \in End, NEW ent \in rtb[e], conn_retransmit(e, ent) PROVE HsInv'
  BY <1>2, HsRetransmit, Zenon
<1>3. ASSUME NEW e \in End, NEW ent \in rtb[e], conn_recv_ack(e, ent) PROVE HsInv'
  BY <1>3, HsRecvAck, Zenon
<1>4. ASSUME NEW e \in End, ngtcp2_conn_write_connection_close(e) PROVE HsInv'
  BY <1>4, HsWriteClose
<1>5. ASSUME NEW e \in End, NEW p \in net, ngtcp2_conn_recv(e, p) PROVE HsInv'
  BY <1>5, HsRecv, Zenon
<1>6. ASSUME NEW d \in Data, ngtcp2_conn_write_stream(d) PROVE HsInv'
  BY <1>6, HsWriteStream, Zenon
<1>7. ASSUME NEW p \in net, StatelessRetry(p) \/ Lose(p) PROVE HsInv'
  BY <1>7, HsNetwork, Zenon
<1>8. CASE UNCHANGED vars
  <2>1. UNCHANGED <<events, early_ok, retry, connid, negotiated, app_tx, state, completed,
                    recv_protected, rx0, tx0, tls, rtb, early_rtb, buffed_rx_ppkts, app_rx,
                    got_close, fatal, net>>
    BY <1>8, Zenon DEF vars, keys, local
  <2>2. HsTypes' BY <2>1, Zenon DEF HsInv, HsTypes
  <2>3. StateInv' BY <2>1, StateStays, Zenon DEF HsInv
  <2>4. PacketsInv' BY <2>1, PacketsFrame, Zenon DEF HsInv
  <2>5. ChunksInv' BY <2>1, ChunksFrame, Zenon DEF HsInv
  <2>6. KeptInv' BY <2>1, KeptStays, Zenon DEF HsInv
  <2>7. StrandedInv' BY <2>1, StrandedStays, Zenon DEF HsInv
  <2>8. QuietInv' BY <2>1, QuietStays, Zenon DEF HsInv
  <2> QED BY <2>2, <2>3, <2>4, <2>5, <2>6, <2>7, <2>8, Zenon DEF HsInv
<1> QED BY <1>1, <1>2, <1>3, <1>4, <1>5, <1>6, <1>7, <1>8, Zenon DEF Next

\* The invariant of the handshake: how the states of the two endpoints, the
\* chunks of stream 0, the packets under way and the buffers belong together.
THEOREM HandshakeInvariant == Spec => []HsInv
BY HsInit, HsStep, PTL DEF Spec

\* While no call has failed, nothing of the handshake is given up before the
\* peer has it
\* (conn_retransmit drops it once a protected packet has been processed,
\* conn_recv_server_stateless_retry starts again), whatever is lost, repeated
\* or reordered, whoever fails or closes.
THEOREM NothingGivenUp == Spec => []HandshakeDataKept
<1>1. HsInv => HandshakeDataKept BY Zenon DEF HsInv, KeptInv
<1> QED BY <1>1, HandshakeInvariant, PTL

\* The buffer of protected packets keeps its limit, holds nothing when the
\* handshake is completed and lets no data pass before its key
\* (conn_process_buffered_protected_pkt, conn_process_buffered_0rtt_pkt), and
\* CONNECTION_CLOSE is never overlooked unless the TLS session has failed.
THEOREM BufferNeverStrands == Spec => []NothingStranded
<1>1. HsInv => TypeOK BY Zenon DEF HsInv, HsTypes, StrandedInv, TypeOK
<1>2. ASSUME HsInv, state["server"] = "SERVER_WAIT_HANDSHAKE",
             NEW i \in DOMAIN buffed_rx_ppkts["server"]
      PROVE  buffed_rx_ppkts["server"][i].type = "SHORT"
  <2>1. negotiated["server"] BY <1>2, Zenon DEF HsInv, StateInv, EndInv
  <2> QED BY <1>2, <2>1, Zenon DEF HsInv, PacketsInv, End
<1>3. HsInv => NothingStranded
  BY <1>1, <1>2, Zenon DEF HsInv, StrandedInv, NothingStranded
<1> QED BY <1>3, HandshakeInvariant, PTL

\* Without Retry, 0-RTT packets and failing TLS sessions, and as long as no
\* packet number repeats, a call of ngtcp2_conn_recv or ngtcp2_conn_write_pkt
\* fails for one reason only: a packet was not acknowledged by its deadline.
THEOREM OnlyDeadlinesFail == Spec => []OnlyTimeoutFails
<1>1. HsInv => OnlyTimeoutFails BY Zenon DEF HsInv, QuietInv, OnlyTimeoutFails
<1> QED BY <1>1, HandshakeInvariant, PTL
=============================================================================
