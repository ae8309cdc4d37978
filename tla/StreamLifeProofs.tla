-------------------------- MODULE StreamLifeProofs --------------------------
(***************************************************************************)
(* Proofs about StreamLife, for streams of any length, frames of any size  *)
(* and any calls of the two applications: both endpoints agree on the      *)
(* final offset, and a stream is deleted only when it is done.             *)
(***************************************************************************)
EXTENDS StreamLife, WellFoundedInduction, TLAPS

-----------------------------------------------------------------------------
(* The inductive invariant *)

\* A frame that an endpoint whose ngtcp2_strm is p has sent or may send: data
\* lies before the final offset, FIN and RST_STREAM announce it, and after
\* them it does not move.
ControlFrame(p, f) ==
  \/ /\ \E code \in {"APP", "STOPPING"} : f = RST_STREAM(p.tx, code)
     /\ {"SHUT_WR", "SENT_RST"} \subseteq p.flags
  \/ f = STOP_SENDING /\ "STOP_SENDING" \in p.flags

DataFrame(p, f) ==
  \E offset, datalen \in 0 .. MaxTx, fin \in BOOLEAN :
     /\ f = STREAM(offset, datalen, fin)
     /\ offset + datalen <= p.tx
     /\ fin => offset + datalen = p.tx /\ "SHUT_WR" \in p.flags

SentFrame(p, f) == ControlFrame(p, f) \/ DataFrame(p, f)

\* What p has sent: bytes are acknowledged only if they were written, and the
\* stream is deleted only if they all are, or it was reset.
Sends(p) ==
  /\ p.acked \subseteq 0 .. p.tx - 1
  /\ "SENT_RST" \in p.flags => "SHUT_WR" \in p.flags
  /\ p.strm = "closed" => "SENT_RST" \in p.flags \/ 0 .. p.tx - 1 \subseteq p.acked

\* What p has received from an endpoint with q: nothing that was not sent, and
\* the end only after it was fixed.
Receives(p, q) ==
  /\ p.last_rx <= q.tx /\ p.rx \subseteq 0 .. p.last_rx - 1
  /\ "SHUT_RD" \in p.flags => "SHUT_WR" \in q.flags
  /\ "RECV_RST" \in p.flags => "SHUT_RD" \in p.flags /\ "SENT_RST" \in q.flags
  /\ "SHUT_RD" \in p.flags /\ "RECV_RST" \notin p.flags => p.last_rx = q.tx
  /\ p.strm \in {"none", "refused"} => p.flags = {} /\ p.rx = {}
  /\ p.strm = "refused" => q.flags \cap {"SENT_RST", "STOP_SENDING"} # {}
  /\ p.strm = "closed" /\ "RECV_RST" \notin p.flags
       => "SHUT_RD" \in p.flags /\ 0 .. p.last_rx - 1 \subseteq p.rx

\* The frames of the endpoint e: those in its queue and in the network are
\* true, only what has arrived is acknowledged, and a stream that was reset
\* has a frame that says so.
EndOK(e) ==
  /\ \A f \in frq[e] : ControlFrame(ep[e], f)
  /\ \A f \in net[e] : SentFrame(ep[e], f)
  /\ rtb[e] \subseteq net[e] /\ got[e] \subseteq net[e]
  /\ ep[e].acked \subseteq GotBytes(e)
  /\ ep[e].strm = "open" /\ "SENT_RST" \in ep[e].flags
       => \E f \in net[e] \cup frq[e] : f.type = "RST_STREAM"

LifeInv ==
  /\ err \in BOOLEAN
  /\ ep \in [Ends -> Strm] /\ DOMAIN frq = Ends /\ DOMAIN rtb = Ends
  /\ DOMAIN net = Ends /\ DOMAIN got = Ends
  /\ \A e \in Ends : Sends(ep[e]) /\ Receives(ep[e], ep[Peer(e)]) /\ EndOK(e)
  /\ err => \E e \in Ends : "RECV_RST" \in ep[e].flags

-----------------------------------------------------------------------------
(* The operators of the model *)

\* The greater of two numbers, as last_rx_offset is computed.
LEMMA MaxOfTwo ==
  ASSUME NEW a \in Int, NEW b \in Int
  PROVE  Max({a, b}) = IF a >= b THEN a ELSE b
<1> DEFINE m == IF a >= b THEN a ELSE b
<1>1. m \in {a, b} /\ \A y \in {a, b} : m >= y
  OBVIOUS
<1>2. \A x \in {a, b} : (\A y \in {a, b} : x >= y) => x = m
  OBVIOUS
<1> HIDE DEF m
<1>3. Max({a, b}) = m
  BY <1>1, <1>2, Zenon DEF Max
<1> QED BY <1>3, Zenon DEF m

\* A non-empty set of naturals has a least element, which is its Min.
LEMMA MinOfNats ==
  ASSUME NEW S \in SUBSET Nat, S # {}
  PROVE  Min(S) \in S /\ \A x \in S : Min(S) <= x
<1>1. IsWellFoundedOn(OpToRel(<, Nat), Nat)
  BY NatLessThanWellFounded, Zenon
<1>2. PICK b \in S : \A x \in S : ~(<<x, b>> \in OpToRel(<, Nat))
  BY <1>1, WFMin, Zenon
<1>3. ASSUME NEW x \in S PROVE b <= x
  <2>1. ~(x < b) BY <1>2, Zenon DEF OpToRel
  <2> QED BY <2>1
<1> QED BY <1>2, <1>3, Zenon DEF Min

\* Everything before the first gap is there.
LEMMA FirstGapFacts ==
  ASSUME NEW S \in SUBSET (0 .. MaxTx - 1)
  PROVE  FirstGap(S) \in 0 .. MaxTx /\ \A i \in 0 .. FirstGap(S) - 1 : i \in S
<1> DEFINE T == (0 .. MaxTx) \ S
<1>1. T \in SUBSET Nat /\ MaxTx \in T
  BY MaxTxAssumption
<1>2. FirstGap(S) \in T /\ \A x \in T : FirstGap(S) <= x
  BY <1>1, MinOfNats, Zenon DEF FirstGap
<1>3. ASSUME NEW i \in 0 .. FirstGap(S) - 1 PROVE i \in S
  <2>1. i \in 0 .. MaxTx BY <1>2, MaxTxAssumption
  <2> QED BY <1>2, <2>1
<1> QED BY <1>2, <1>3, Zenon

-----------------------------------------------------------------------------
(* What the steps of an endpoint keep *)

\* p2 is a later state of the endpoint with p: flags are not taken back, and
\* nothing is written after FIN or RST_STREAM.
Later(p, p2) ==
  /\ p.flags \subseteq p2.flags /\ p.tx <= p2.tx
  /\ "SHUT_WR" \in p.flags => p2.tx = p.tx

\* Frames that are under way stay true.
LEMMA FramesStay ==
  ASSUME NEW p \in Strm, NEW p2 \in Strm, Later(p, p2), NEW f
  PROVE  /\ ControlFrame(p, f) => ControlFrame(p2, f)
         /\ SentFrame(p, f) => SentFrame(p2, f)
<1>1. ControlFrame(p, f) => ControlFrame(p2, f)
  BY Zenon DEF ControlFrame, Later
<1>2. ASSUME DataFrame(p, f) PROVE DataFrame(p2, f)
  <2>1. PICK offset \in 0 .. MaxTx, datalen \in 0 .. MaxTx, fin \in BOOLEAN :
          /\ f = STREAM(offset, datalen, fin)
          /\ offset + datalen <= p.tx
          /\ fin => offset + datalen = p.tx /\ "SHUT_WR" \in p.flags
    BY <1>2, Zenon DEF DataFrame
  <2>2. p.tx \in Int /\ p2.tx \in Int
    BY MaxTxAssumption DEF Strm
  <2>3. /\ offset + datalen <= p2.tx
        /\ fin => offset + datalen = p2.tx /\ "SHUT_WR" \in p2.flags
    BY <2>1, <2>2, MaxTxAssumption DEF Later
  <2> QED BY <2>1, <2>3, Zenon DEF DataFrame
<1> QED BY <1>1, <1>2, Zenon DEF SentFrame

\* So does what the peer has made of them.
LEMMA ReceivesStays ==
  ASSUME NEW r \in Strm, NEW p \in Strm, NEW p2 \in Strm, Later(p, p2), Receives(r, p)
  PROVE  Receives(r, p2)
<1>1. p.tx \in Int /\ p2.tx \in Int /\ r.last_rx \in Int
  BY MaxTxAssumption DEF Strm
<1> QED BY <1>1 DEF Later, Receives

\* ngtcp2_conn_close_stream_if_shut_rdwr deletes a stream that is done.
LEMMA CloseFacts ==
  ASSUME NEW p \in Strm, NEW q \in Strm, p.strm = "open", Sends(p), Receives(p, q)
  PROVE  LET c == ngtcp2_conn_close_stream_if_shut_rdwr(p)
         IN  /\ c \in Strm /\ Sends(c) /\ Receives(c, q)
             /\ c.flags = p.flags /\ c.tx = p.tx /\ c.acked = p.acked
<1>1. /\ p.rx \in SUBSET (0 .. MaxTx - 1) /\ p.acked \in SUBSET (0 .. MaxTx - 1)
      /\ p.tx \in 0 .. MaxTx /\ p.last_rx \in 0 .. MaxTx
  BY Zenon DEF Strm
<1>2. /\ \A i \in 0 .. FirstGap(p.rx) - 1 : i \in p.rx
      /\ \A i \in 0 .. FirstGap(p.acked) - 1 : i \in p.acked
  BY <1>1, FirstGapFacts, Zenon
<1>3. CASE ngtcp2_conn_close_stream_if_shut_rdwr(p) = p
  BY <1>3, Zenon
<1>4. CASE ngtcp2_conn_close_stream_if_shut_rdwr(p) # p
  <2> DEFINE c == [p EXCEPT !.strm = "closed"]
  <2>1. /\ {"SHUT_RD", "SHUT_WR"} \subseteq p.flags
        /\ "RECV_RST" \in p.flags \/ FirstGap(p.rx) = p.last_rx
        /\ "SENT_RST" \in p.flags \/ FirstGap(p.acked) = p.tx
        /\ ngtcp2_conn_close_stream_if_shut_rdwr(p) = c
    BY <1>4, Zenon DEF ngtcp2_conn_close_stream_if_shut_rdwr
  <2>2. /\ c \in Strm /\ c.strm = "closed" /\ c.flags = p.flags /\ c.tx = p.tx
        /\ c.acked = p.acked /\ c.rx = p.rx /\ c.last_rx = p.last_rx
    BY Zenon DEF Strm
  <2> HIDE DEF c
  <2>3. Sends(c)
    BY <1>2, <2>1, <2>2, Zenon DEF Sends
  <2>4. Receives(c, q)
    BY <1>2, <2>1, <2>2, Zenon DEF Receives
  <2> QED BY <2>1, <2>2, <2>3, <2>4, Zenon
<1> QED BY <1>3, <1>4, Zenon

\* conn_recv_stream takes data that the peer has sent.
LEMMA RecvStreamFacts ==
  ASSUME NEW p \in Strm, NEW q \in Strm, Sends(p), Receives(p, q),
         NEW fr, DataFrame(q, fr), ~StreamError(p, fr)
  PROVE  LET c == conn_recv_stream(p, fr)
         IN  /\ c \in Strm /\ Sends(c) /\ Receives(c, q)
             /\ p.flags \subseteq c.flags /\ c.tx = p.tx /\ c.acked = p.acked
             /\ c.strm = "open" /\ "SENT_RST" \in c.flags
                  => p.strm = "open" /\ "SENT_RST" \in p.flags
<1> DEFINE end == fr.offset + fr.datalen
           last == IF fr.fin THEN end ELSE Max({p.last_rx, end})
           flags == IF fr.fin THEN p.flags \cup {"SHUT_RD"} ELSE p.flags
           u == [p EXCEPT !.strm = "open", !.last_rx = last, !.flags = flags]
           rx == p.rx \cup (fr.offset .. end - 1)
           v == [u EXCEPT !.rx = rx]
<1>1. /\ p.rx \in SUBSET (0 .. MaxTx - 1) /\ p.acked \in SUBSET (0 .. MaxTx - 1)
      /\ p.tx \in 0 .. MaxTx /\ p.last_rx \in 0 .. MaxTx /\ q.tx \in 0 .. MaxTx
      /\ p.flags \subseteq Flags /\ p.strm \in {"none", "open", "closed", "refused"}
  BY Zenon DEF Strm
<1>2. /\ fr.offset \in 0 .. MaxTx /\ fr.datalen \in 0 .. MaxTx /\ fr.fin \in BOOLEAN
      /\ end <= q.tx /\ (fr.fin => end = q.tx /\ "SHUT_WR" \in q.flags)
  BY DEF DataFrame, STREAM
<1>3. CASE p.strm \in {"closed", "refused"} \/ (fr.fin /\ "SHUT_RD" \in p.flags)
  <2>1. conn_recv_stream(p, fr) = p
    BY <1>3, Zenon DEF conn_recv_stream
  <2> QED BY <2>1, Zenon
<1>4. CASE p.strm \in {"none", "open"} /\ ~(fr.fin /\ "SHUT_RD" \in p.flags)
  <2>1. Max({p.last_rx, end}) = IF p.last_rx >= end THEN p.last_rx ELSE end
    BY <1>1, <1>2, MaxTxAssumption, MaxOfTwo
  <2>2. p.last_rx <= q.tx
    BY Zenon DEF Receives
  <2>3. ~(fr.fin /\ p.last_rx > end)
    BY <1>1, <1>2, <1>4, <2>2, MaxTxAssumption
  <2>4. last \in 0 .. MaxTx /\ end <= last /\ last <= q.tx /\ p.last_rx <= last
    BY <1>1, <1>2, <2>1, <2>2, <2>3, MaxTxAssumption
  <2>5. fr.fin => last = q.tx
    BY <1>2, Zenon
  <2>6. "SHUT_RD" \in p.flags => ~fr.fin /\ p.strm = "open" /\ last = p.last_rx
    <3>1. ASSUME "SHUT_RD" \in p.flags PROVE ~fr.fin /\ p.strm = "open"
      BY <1>4, <3>1, Zenon DEF Receives
    <3> QED BY <1>1, <1>2, <2>1, <3>1, MaxTxAssumption DEF StreamError
  <2>7. /\ u \in Strm /\ u.strm = "open" /\ u.flags = flags /\ u.tx = p.tx
        /\ u.acked = p.acked /\ u.rx = p.rx /\ u.last_rx = last
    BY <1>1, <2>4, Zenon DEF Strm, Flags
  <2>8. fr.offset .. end - 1 \subseteq 0 .. last - 1
    BY <1>1, <1>2, <2>4, MaxTxAssumption
  <2>9. p.rx \subseteq 0 .. last - 1
    BY <1>1, <2>4, MaxTxAssumption DEF Receives
  <2>10. /\ v \in Strm /\ v.strm = "open" /\ v.flags = flags /\ v.tx = p.tx
         /\ v.acked = p.acked /\ v.rx = rx /\ v.last_rx = last
    <3>1. 0 .. last - 1 \subseteq 0 .. MaxTx - 1
      BY <2>4, MaxTxAssumption
    <3>2. rx \in SUBSET (0 .. MaxTx - 1)
      BY <1>1, <2>8, <3>1, Zenon
    <3> HIDE DEF u, rx
    <3> QED BY <2>7, <3>2, Zenon DEF Strm
  <2>11. /\ conn_recv_stream(p, fr) \in {u, ngtcp2_conn_close_stream_if_shut_rdwr(u),
                                        ngtcp2_conn_close_stream_if_shut_rdwr(v)}
    BY <1>4, Zenon DEF conn_recv_stream
  <2>12. /\ p.flags \subseteq flags /\ flags \subseteq p.flags \cup {"SHUT_RD"}
         /\ ("SHUT_RD" \in flags => "SHUT_WR" \in q.flags)
         /\ ("SHUT_RD" \in flags /\ "RECV_RST" \notin p.flags => last = q.tx)
    BY <1>2, <2>5, <2>6, Zenon DEF Receives
  <2> HIDE DEF u, v, last, flags
  <2>13. Sends(u) /\ Sends(v)
    BY <2>7, <2>10, <2>12 DEF Sends
  <2>14. Receives(u, q)
    BY <2>4, <2>7, <2>9, <2>12, Zenon DEF Receives
  <2>15. Receives(v, q)
    BY <2>4, <2>8, <2>9, <2>10, <2>12, Zenon DEF Receives
  <2>16. "SENT_RST" \in flags => p.strm = "open" /\ "SENT_RST" \in p.flags
    BY <1>4, <2>12, Zenon DEF Receives
  <2> QED BY <2>7, <2>10, <2>11, <2>12, <2>13, <2>14, <2>15, <2>16, CloseFacts
<1> QED BY <1>1, <1>3, <1>4, Zenon

\* conn_recv_rst_stream takes the RST_STREAM of the peer.
LEMMA RecvRstFacts ==
  ASSUME NEW p \in Strm, NEW q \in Strm, Sends(p), Receives(p, q),
         NEW fr, ControlFrame(q, fr), fr.type = "RST_STREAM"
  PROVE  LET c == conn_recv_rst_stream(p, fr)
         IN  /\ c \in Strm /\ Sends(c) /\ Receives(c, q)
             /\ p.flags \subseteq c.flags /\ c.tx = p.tx /\ c.acked = p.acked
             /\ c.strm = "open" /\ "SENT_RST" \in c.flags
                  => p.strm = "open" /\ "SENT_RST" \in p.flags
<1>1. {"SHUT_WR", "SENT_RST"} \subseteq q.flags
  BY DEF ControlFrame, STOP_SENDING
<1>2. CASE p.strm = "none"
  <2> DEFINE c == [p EXCEPT !.strm = "refused"]
  <2>1. conn_recv_rst_stream(p, fr) = c
    BY <1>2, Zenon DEF conn_recv_rst_stream
  <2>2. /\ c \in Strm /\ c.strm = "refused" /\ c.flags = p.flags /\ c.tx = p.tx
        /\ c.acked = p.acked /\ c.rx = p.rx /\ c.last_rx = p.last_rx
    BY Zenon DEF Strm
  <2> HIDE DEF c
  <2>3. Sends(c) /\ Receives(c, q)
    BY <1>1, <1>2, <2>2, Zenon DEF Sends, Receives
  <2> QED BY <2>1, <2>2, <2>3, Zenon
<1>3. CASE p.strm = "open"
  <2> DEFINE u == [p EXCEPT !.flags = p.flags \cup {"SHUT_RD", "RECV_RST"}]
  <2>1. conn_recv_rst_stream(p, fr) = ngtcp2_conn_close_stream_if_shut_rdwr(u)
    BY <1>3, Zenon DEF conn_recv_rst_stream
  <2>2. /\ u \in Strm /\ u.strm = p.strm /\ u.flags = p.flags \cup {"SHUT_RD", "RECV_RST"}
        /\ u.tx = p.tx /\ u.acked = p.acked /\ u.rx = p.rx /\ u.last_rx = p.last_rx
    BY Zenon DEF Strm, Flags
  <2> HIDE DEF u
  <2>3. Sends(u) /\ Receives(u, q)
    BY <1>1, <1>3, <2>2, Zenon DEF Sends, Receives
  <2> QED BY <1>3, <2>1, <2>2, <2>3, CloseFacts
<1>4. CASE p.strm \in {"closed", "refused"}
  <2>1. conn_recv_rst_stream(p, fr) = p
    BY <1>4, Zenon DEF conn_recv_rst_stream
  <2> QED BY <2>1, Zenon
<1> QED BY <1>2, <1>3, <1>4, Zenon DEF Strm

\* conn_recv_stop_sending gives up writing and answers with RST_STREAM.
LEMMA RecvStopFacts ==
  ASSUME NEW p \in Strm, NEW q \in Strm, Sends(p), Receives(p, q), ControlFrame(q, STOP_SENDING)
  PROVE  LET c == conn_recv_stop_sending(p)
         IN  /\ c \in Strm /\ Sends(c) /\ Receives(c, q)
             /\ p.flags \subseteq c.flags /\ c.tx = p.tx /\ c.acked = p.acked
             /\ c.strm = "open" => p.strm = "open"
             /\ p.strm = "open" => {"SHUT_WR", "SENT_RST"} \subseteq c.flags
<1>1. "STOP_SENDING" \in q.flags
  BY Zenon DEF ControlFrame, STOP_SENDING, RST_STREAM
<1>2. CASE p.strm = "none"
  <2> DEFINE c == [p EXCEPT !.strm = "refused"]
  <2>1. conn_recv_stop_sending(p) = c
    BY <1>2, Zenon DEF conn_recv_stop_sending
  <2>2. /\ c \in Strm /\ c.strm = "refused" /\ c.flags = p.flags /\ c.tx = p.tx
        /\ c.acked = p.acked /\ c.rx = p.rx /\ c.last_rx = p.last_rx
    BY Zenon DEF Strm
  <2> HIDE DEF c
  <2>3. Sends(c) /\ Receives(c, q)
    BY <1>1, <1>2, <2>2, Zenon DEF Sends, Receives
  <2> QED BY <1>2, <2>1, <2>2, <2>3, Zenon
<1>3. CASE p.strm = "open"
  <2> DEFINE u == [p EXCEPT !.flags = p.flags \cup {"SHUT_WR", "SENT_RST"}]
  <2>1. conn_recv_stop_sending(p) = ngtcp2_conn_close_stream_if_shut_rdwr(u)
    BY <1>3, Zenon DEF conn_recv_stop_sending
  <2>2. /\ u \in Strm /\ u.strm = p.strm /\ u.flags = p.flags \cup {"SHUT_WR", "SENT_RST"}
        /\ u.tx = p.tx /\ u.acked = p.acked /\ u.rx = p.rx /\ u.last_rx = p.last_rx
    BY Zenon DEF Strm, Flags
  <2> HIDE DEF u
  <2>3. Sends(u) /\ Receives(u, q)
    BY <1>1, <1>3, <2>2, Zenon DEF Sends, Receives
  <2> QED BY <1>3, <2>1, <2>2, <2>3, CloseFacts, Zenon
<1>4. CASE p.strm \in {"closed", "refused"}
  <2>1. conn_recv_stop_sending(p) = p
    BY <1>4, Zenon DEF conn_recv_stop_sending
  <2> QED BY <1>4, <2>1, Zenon
<1> QED BY <1>2, <1>3, <1>4, Zenon DEF Strm

\* One endpoint moves on: both keep what they have sent and received.
EndsMove ==
  /\ ep' \in [Ends -> Strm]
  /\ \A x \in Ends : /\ Sends(ep'[x]) /\ Receives(ep'[x], ep'[Peer(x)])
                     /\ \A f : /\ ControlFrame(ep[x], f) => ControlFrame(ep'[x], f)
                               /\ SentFrame(ep[x], f) => SentFrame(ep'[x], f)

\* An endpoint that moves on keeps its frames true, and the peer consistent.
LEMMA EndpointMoves ==
  ASSUME LifeInv, NEW e \in Ends, NEW c \in Strm, ep' = [ep EXCEPT ![e] = c],
         Later(ep[e], c), Sends(c), Receives(c, ep[Peer(e)])
  PROVE  ep'[e] = c /\ EndsMove
<1>1. /\ ep \in [Ends -> Strm]
      /\ \A x \in Ends : Sends(ep[x]) /\ Receives(ep[x], ep[Peer(x)])
  BY Zenon DEF LifeInv
<1>2. Peer(e) \in Ends /\ Peer(e) # e /\ Peer(Peer(e)) = e /\ \A x \in Ends : x \in {e, Peer(e)}
  BY Zenon DEF Ends, Peer
<1>3. /\ ep' \in [Ends -> Strm] /\ ep'[e] = c /\ ep'[Peer(e)] = ep[Peer(e)]
  BY <1>1, <1>2, Zenon
<1>4. Receives(ep[Peer(e)], ep[e])
  BY <1>1, <1>2, Zenon
<1>5. Receives(ep[Peer(e)], c)
  BY <1>1, <1>2, <1>4, ReceivesStays, Zenon
<1>6. \A f : /\ ControlFrame(ep[e], f) => ControlFrame(c, f)
             /\ SentFrame(ep[e], f) => SentFrame(c, f)
  BY <1>1, FramesStay, Zenon
<1> QED BY <1>1, <1>2, <1>3, <1>5, <1>6, Zenon DEF EndsMove

-----------------------------------------------------------------------------
(* The steps *)

\* The invariant holds at the start.
LEMMA LifeInit == Init => LifeInv
<1> SUFFICES ASSUME Init PROVE LifeInv
  BY Zenon
<1>1. ASSUME NEW e \in Ends
      PROVE  /\ ep[e] \in Strm /\ ep[e].flags = {} /\ ep[e].tx = 0 /\ ep[e].acked = {}
             /\ ep[e].rx = {} /\ ep[e].last_rx = 0 /\ ep[e].strm \in {"none", "open"}
  BY MaxTxAssumption DEF Init, NewStrm, Strm
<1>2. ep \in [Ends -> Strm]
  BY <1>1, Zenon DEF Init
<1>3. \A e \in Ends : Peer(e) \in Ends
  BY Zenon DEF Ends, Peer
<1>4. \A e \in Ends : Sends(ep[e]) /\ Receives(ep[e], ep[Peer(e)])
  BY <1>1, <1>3 DEF Sends, Receives
<1> QED BY <1>1, <1>2, <1>4, Zenon DEF Init, LifeInv, EndOK

\* What has arrived stays arrived.
LEMMA GotBytesGrow ==
  ASSUME NEW e \in Ends, got[e] \subseteq got'[e]
  PROVE  GotBytes(e) \subseteq GotBytes(e)'
BY DEF GotBytes

\* ngtcp2_conn_write_stream: more data, or FIN, or both.
LEMMA LifeWriteStream ==
  ASSUME LifeInv, NEW e \in Ends, NEW datalen \in 0 .. MaxTx, NEW fin \in BOOLEAN,
         ngtcp2_conn_write_stream(e, datalen, fin)
  PROVE  LifeInv'
<1> DEFINE p == ep[e]
           fr == STREAM(p.tx, datalen, fin)
           tx == p.tx + datalen
           flags == IF fin THEN p.flags \cup {"SHUT_WR"} ELSE p.flags
           c == [p EXCEPT !.tx = tx, !.flags = flags]
<1>1. /\ ep \in [Ends -> Strm] /\ p \in Strm /\ p.tx \in 0 .. MaxTx /\ p.flags \subseteq Flags
      /\ p.last_rx \in 0 .. MaxTx
  BY Zenon DEF LifeInv, Strm
<1>2. /\ p.strm = "open" /\ "SHUT_WR" \notin p.flags /\ tx <= MaxTx
      /\ net' = [net EXCEPT ![e] = net[e] \cup {fr}]
      /\ rtb' = [rtb EXCEPT ![e] = rtb[e] \cup {fr}]
      /\ ep' = [ep EXCEPT ![e] = c]
      /\ UNCHANGED <<frq, got, err>>
  BY <1>1, Zenon DEF ngtcp2_conn_write_stream, CanCall, LifeInv
<1>3. tx \in 0 .. MaxTx /\ p.tx <= tx
  BY <1>1, <1>2, MaxTxAssumption
<1>4. /\ c \in Strm /\ c.strm = "open" /\ c.flags = flags /\ c.tx = tx
      /\ c.acked = p.acked /\ c.rx = p.rx /\ c.last_rx = p.last_rx
  BY <1>1, <1>2, <1>3, Zenon DEF Strm, Flags
<1>5. Sends(p) /\ Receives(p, ep[Peer(e)])
  BY Zenon DEF LifeInv
<1>6. DataFrame(c, fr)
  BY <1>1, <1>3, <1>4, MaxTxAssumption DEF DataFrame
<1>7. p.flags \subseteq flags /\ flags \subseteq p.flags \cup {"SHUT_WR"} /\ "SENT_RST" \notin p.flags
  BY <1>2, <1>5, Zenon DEF Sends
<1>8. p.acked \subseteq 0 .. tx - 1
  BY <1>1, <1>3, <1>5, MaxTxAssumption DEF Sends
<1> HIDE DEF c, flags, tx, fr
<1>9. Later(p, c) /\ Sends(c) /\ Receives(c, ep[Peer(e)])
  BY <1>2, <1>3, <1>4, <1>5, <1>7, <1>8, Zenon DEF Later, Sends, Receives
<1>10. ep'[e] = c /\ EndsMove
  BY <1>2, <1>4, <1>9, EndpointMoves, Zenon
<1>11. ASSUME NEW x \in Ends
       PROVE  EndOK(x)'
  <2>1. \A f \in frq'[x] : ControlFrame(ep'[x], f)
    BY <1>2, <1>10, Zenon DEF LifeInv, EndOK, EndsMove
  <2>2. \A f \in net'[x] : SentFrame(ep'[x], f)
    BY <1>2, <1>6, <1>10, Zenon DEF LifeInv, EndOK, EndsMove, SentFrame
  <2>3. rtb'[x] \subseteq net'[x] /\ got'[x] \subseteq net'[x]
    BY <1>2, Zenon DEF LifeInv, EndOK
  <2>4. ep'[x].acked = ep[x].acked /\ GotBytes(x)' = GotBytes(x)
    BY <1>1, <1>2, <1>4, Zenon DEF GotBytes
  <2>5. ep'[x].strm = "open" /\ "SENT_RST" \in ep'[x].flags => x # e
    BY <1>4, <1>7, <1>10
  <2>6. x # e => ep'[x] = ep[x] /\ net'[x] = net[x] /\ frq'[x] = frq[x]
    BY <1>1, <1>2, Zenon DEF LifeInv
  <2> QED BY <2>1, <2>2, <2>3, <2>4, <2>5, <2>6, Zenon DEF LifeInv, EndOK
<1>12. err' => \E x \in Ends : "RECV_RST" \in ep'[x].flags
  BY <1>1, <1>2, <1>4, <1>7, Zenon DEF LifeInv
<1>13. /\ err' \in BOOLEAN /\ DOMAIN frq' = Ends /\ DOMAIN rtb' = Ends
       /\ DOMAIN net' = Ends /\ DOMAIN got' = Ends
  BY <1>2, Zenon DEF LifeInv
<1> QED BY <1>10, <1>11, <1>12, <1>13, Zenon DEF LifeInv, EndsMove

\* A shutdown sets flags for which it queues the frames.
LEMMA LifeShutdown ==
  ASSUME LifeInv, NEW e \in Ends, NEW flags, NEW frames, Shutdown(e, flags, frames),
         ep[e].flags \subseteq flags,
         flags \subseteq ep[e].flags \cup {"SHUT_WR", "SENT_RST", "STOP_SENDING"},
         "SENT_RST" \in flags => "SHUT_WR" \in flags,
         \A f \in frames : \/ f = RST_STREAM(ep[e].tx, "APP") /\ "SENT_RST" \in flags
                           \/ f = STOP_SENDING /\ "STOP_SENDING" \in flags,
         "SENT_RST" \in flags => "SENT_RST" \in ep[e].flags \/ RST_STREAM(ep[e].tx, "APP") \in frames
  PROVE  LifeInv'
<1> DEFINE p == ep[e]
           c == [p EXCEPT !.flags = flags]
<1>1. /\ ep \in [Ends -> Strm] /\ p \in Strm /\ p.flags \subseteq Flags
      /\ p.tx \in Int
  BY MaxTxAssumption DEF LifeInv, Strm
<1>2. /\ p.strm = "open"
      /\ frq' = [frq EXCEPT ![e] = frq[e] \cup frames]
      /\ ep' = [ep EXCEPT ![e] = c]
      /\ UNCHANGED <<rtb, net, got, err>>
  BY <1>1, Zenon DEF Shutdown, CanCall, LifeInv
<1>3. /\ c \in Strm /\ c.strm = "open" /\ c.flags = flags /\ c.tx = p.tx
      /\ c.acked = p.acked /\ c.rx = p.rx /\ c.last_rx = p.last_rx
  BY <1>1, <1>2, Zenon DEF Strm, Flags
<1>4. Sends(p) /\ Receives(p, ep[Peer(e)])
  BY Zenon DEF LifeInv
<1> HIDE DEF c
<1>5. Later(p, c) /\ Sends(c) /\ Receives(c, ep[Peer(e)])
  BY <1>1, <1>2, <1>3, <1>4 DEF Later, Sends, Receives
<1>6. \A f \in frames : ControlFrame(c, f)
  BY <1>3, Zenon DEF ControlFrame
<1>7. ep'[e] = c /\ EndsMove
  BY <1>2, <1>3, <1>5, EndpointMoves, Zenon
<1>8. ASSUME NEW x \in Ends
      PROVE  EndOK(x)'
  <2>1. \A f \in frq'[x] : ControlFrame(ep'[x], f)
    BY <1>2, <1>6, <1>7, Zenon DEF LifeInv, EndOK, EndsMove
  <2>2. /\ \A f \in net'[x] : SentFrame(ep'[x], f)
        /\ rtb'[x] \subseteq net'[x] /\ got'[x] \subseteq net'[x]
    BY <1>2, <1>7, Zenon DEF LifeInv, EndOK, EndsMove
  <2>3. ep'[x].acked = ep[x].acked /\ GotBytes(x)' = GotBytes(x)
    BY <1>1, <1>2, <1>3, Zenon DEF GotBytes
  <2>4. frq[x] \subseteq frq'[x] /\ (x = e => frames \subseteq frq'[x])
    BY <1>2, Zenon DEF LifeInv
  <2>5. RST_STREAM(p.tx, "APP").type = "RST_STREAM"
    BY Zenon DEF RST_STREAM
  <2>6. x # e => ep'[x] = ep[x]
    BY <1>1, <1>2, Zenon
  <2>7. ep'[x].strm = "open" /\ "SENT_RST" \in ep'[x].flags
          => \E f \in net'[x] \cup frq'[x] : f.type = "RST_STREAM"
    BY <1>2, <1>3, <1>7, <2>4, <2>5, <2>6, Zenon DEF LifeInv, EndOK
  <2> QED BY <2>1, <2>2, <2>3, <2>7, Zenon DEF LifeInv, EndOK
<1>9. err' => \E x \in Ends : "RECV_RST" \in ep'[x].flags
  BY <1>1, <1>2, <1>3, Zenon DEF LifeInv
<1>10. /\ err' \in BOOLEAN /\ DOMAIN frq' = Ends /\ DOMAIN rtb' = Ends
       /\ DOMAIN net' = Ends /\ DOMAIN got' = Ends
  BY <1>2, Zenon DEF LifeInv
<1> QED BY <1>7, <1>8, <1>9, <1>10, Zenon DEF LifeInv, EndsMove

\* conn_write_pkt: queued frames are sent, or dropped with their stream.
LEMMA LifeWritePkt ==
  ASSUME LifeInv, NEW e \in Ends, NEW F \in SUBSET frq[e], conn_write_pkt(e, F)
  PROVE  LifeInv'
<1> DEFINE written == {f \in F : ~Cancelled(ep[e], f)}
<1>1. /\ frq' = [frq EXCEPT ![e] = frq[e] \ F]
      /\ net' = [net EXCEPT ![e] = net[e] \cup written]
      /\ rtb' = [rtb EXCEPT ![e] = rtb[e] \cup written]
      /\ UNCHANGED <<ep, got, err>>
  BY Zenon DEF conn_write_pkt, LifeInv
<1>2. ASSUME NEW x \in Ends PROVE EndOK(x)'
  <2>1. EndOK(x)
    BY Zenon DEF LifeInv
  <2>2. CASE x # e
    <3>1. frq'[x] = frq[x] /\ net'[x] = net[x] /\ rtb'[x] = rtb[x] /\ GotBytes(x)' = GotBytes(x)
      BY <1>1, <2>2, Zenon DEF LifeInv, GotBytes
    <3> QED BY <1>1, <2>1, <3>1, Zenon DEF EndOK
  <2>3. CASE x = e
    <3>1. /\ frq'[x] = frq[x] \ F /\ net'[x] = net[x] \cup written
          /\ rtb'[x] = rtb[x] \cup written /\ GotBytes(x)' = GotBytes(x)
      BY <1>1, <2>3, Zenon DEF LifeInv, GotBytes
    <3>2. \A f \in written : SentFrame(ep[x], f)
      BY <2>1, <2>3, Zenon DEF EndOK, SentFrame
    <3>3. ASSUME ep[x].strm = "open", NEW f \in frq[x], f.type = "RST_STREAM"
          PROVE  f \in net'[x] \cup frq'[x]
      BY <2>3, <3>1, <3>3, Zenon DEF Cancelled
    <3>4. net[x] \subseteq net'[x]
      BY <3>1, Zenon
    <3> HIDE DEF written
    <3> QED BY <1>1, <2>1, <3>1, <3>2, <3>3, <3>4, Zenon DEF EndOK
  <2> QED BY <2>2, <2>3, Zenon
<1> QED BY <1>1, <1>2, Zenon DEF LifeInv

\* conn_retransmit: a frame is sent again.
LEMMA LifeRetransmit ==
  ASSUME LifeInv, NEW e \in Ends, NEW f \in rtb[e], conn_retransmit(e, f)
  PROVE  LifeInv'
<1>1. rtb' = [rtb EXCEPT ![e] = rtb[e] \ {f}] /\ UNCHANGED <<ep, frq, net, got, err>>
  BY Zenon DEF conn_retransmit, LifeInv
<1>2. ASSUME NEW x \in Ends PROVE EndOK(x)'
  <2>1. EndOK(x) /\ GotBytes(x)' = GotBytes(x) /\ rtb'[x] \subseteq rtb[x]
    BY <1>1, Zenon DEF LifeInv, GotBytes
  <2> QED BY <1>1, <2>1, Zenon DEF EndOK
<1> QED BY <1>1, <1>2, Zenon DEF LifeInv

\* Only what has arrived is acknowledged.
LEMMA LifeRecvAck ==
  ASSUME LifeInv, NEW e \in Ends, NEW f \in rtb[e], conn_recv_ack(e, f)
  PROVE  LifeInv'
<1> DEFINE p == ep[e]
           acked == p.acked \cup (f.offset .. f.offset + f.datalen - 1)
           u == [p EXCEPT !.acked = acked]
<1>1. /\ ep \in [Ends -> Strm] /\ p \in Strm /\ p.tx \in 0 .. MaxTx
      /\ p.acked \in SUBSET (0 .. MaxTx - 1) /\ Sends(p) /\ Receives(p, ep[Peer(e)])
      /\ Peer(e) \in Ends /\ ep[Peer(e)] \in Strm
  BY Zenon DEF LifeInv, Strm, Ends, Peer
<1>2. /\ rtb' = [rtb EXCEPT ![e] = rtb[e] \ {f}] /\ UNCHANGED <<frq, net, got, err>>
      /\ f \in got[e]
  BY Zenon DEF conn_recv_ack, LifeInv
<1>3. \A x \in Ends : GotBytes(x)' = GotBytes(x) /\ rtb'[x] \subseteq rtb[x]
  BY <1>2, Zenon DEF GotBytes, LifeInv
<1>4. CASE UNCHANGED ep
  <2>1. ASSUME NEW x \in Ends PROVE EndOK(x)'
    <3>1. EndOK(x)
      BY Zenon DEF LifeInv
    <3> QED BY <1>2, <1>3, <1>4, <3>1, Zenon DEF EndOK
  <2> QED BY <1>2, <1>4, <2>1, Zenon DEF LifeInv
<1>5. CASE f.type = "STREAM" /\ p.strm = "open"
  <2>1. PICK c : /\ c \in {u, ngtcp2_conn_close_stream_if_shut_rdwr(u)}
                 /\ ep' = [ep EXCEPT ![e] = c]
    BY <1>1, <1>5, Zenon DEF conn_recv_ack
  <2>2. DataFrame(p, f)
    <3>1. SentFrame(p, f)
      BY Zenon DEF LifeInv, EndOK
    <3> QED BY <1>5, <3>1 DEF SentFrame, ControlFrame, RST_STREAM, STOP_SENDING
  <2>3. /\ f.offset \in 0 .. MaxTx /\ f.datalen \in 0 .. MaxTx /\ f.offset + f.datalen <= p.tx
    BY <2>2 DEF DataFrame, STREAM
  <2>4. acked \subseteq 0 .. p.tx - 1
    BY <1>1, <2>3, MaxTxAssumption DEF Sends
  <2>5. 0 .. p.tx - 1 \subseteq 0 .. MaxTx - 1
    BY <1>1, MaxTxAssumption
  <2>6. acked \subseteq GotBytes(e)
    <3>1. f.offset .. f.offset + f.datalen - 1 \subseteq GotBytes(e)
      BY <1>2, <1>5, Zenon DEF GotBytes
    <3> QED BY <3>1, Zenon DEF LifeInv, EndOK
  <2>7. /\ u \in Strm /\ u.strm = "open" /\ u.flags = p.flags /\ u.tx = p.tx
        /\ u.acked = acked /\ u.rx = p.rx /\ u.last_rx = p.last_rx
    <3> HIDE DEF acked
    <3> QED BY <1>1, <1>5, <2>4, <2>5, Zenon DEF Strm
  <2> HIDE DEF u, acked
  <2>8. Sends(u) /\ Receives(u, ep[Peer(e)])
    BY <1>1, <1>5, <2>4, <2>7, Zenon DEF Sends, Receives
  <2>9. /\ c \in Strm /\ Sends(c) /\ Receives(c, ep[Peer(e)])
        /\ c.flags = p.flags /\ c.tx = p.tx /\ c.acked = acked
    BY <1>1, <2>1, <2>7, <2>8, CloseFacts, Zenon
  <2>10. Later(p, c)
    BY <1>1, <2>9, MaxTxAssumption DEF Later
  <2>11. ep'[e] = c /\ EndsMove
    BY <2>1, <2>9, <2>10, EndpointMoves, Zenon
  <2>12. ASSUME NEW x \in Ends PROVE EndOK(x)'
    <3>1. EndOK(x)
      BY DEF LifeInv
    <3>2. /\ \A g \in frq'[x] : ControlFrame(ep'[x], g)
          /\ \A g \in net'[x] : SentFrame(ep'[x], g)
      BY <1>2, <2>11, <3>1, Zenon DEF EndOK, EndsMove
    <3>3. x # e => ep'[x] = ep[x]
      BY <1>1, <2>1, Zenon
    <3>4. ep'[x].acked \subseteq GotBytes(x)
      BY <2>6, <2>9, <2>11, <3>1, <3>3, Zenon DEF EndOK
    <3>5. ep'[x].strm = "open" /\ "SENT_RST" \in ep'[x].flags
            => \E g \in net[x] \cup frq[x] : g.type = "RST_STREAM"
      BY <1>5, <2>9, <2>11, <3>1, <3>3, Zenon DEF EndOK
    <3> QED BY <1>2, <1>3, <3>1, <3>2, <3>4, <3>5, Zenon DEF EndOK
  <2>13. err' => \E x \in Ends : "RECV_RST" \in ep'[x].flags
    BY <1>1, <1>2, <2>1, <2>9, <2>11, Zenon DEF LifeInv
  <2> QED BY <1>2, <2>11, <2>12, <2>13, Zenon DEF LifeInv, EndsMove
<1> QED BY <1>4, <1>5, Zenon DEF conn_recv_ack

\* Frames contradict each other only where RST_STREAM was received.
LEMMA NoContradiction ==
  ASSUME NEW p \in Strm, NEW q \in Strm, Receives(p, q), NEW f, SentFrame(q, f),
         \/ f.type = "STREAM" /\ StreamError(p, f)
         \/ f.type = "RST_STREAM" /\ RstError(p, f)
  PROVE  "RECV_RST" \in p.flags
<1>1. p.last_rx \in 0 .. MaxTx /\ q.tx \in 0 .. MaxTx /\ p.last_rx <= q.tx
  BY Zenon DEF Strm, Receives
<1>2. CASE f.type = "STREAM" /\ StreamError(p, f)
  <2>1. DataFrame(q, f)
    BY <1>2 DEF SentFrame, ControlFrame, RST_STREAM, STOP_SENDING
  <2>2. /\ f.offset \in 0 .. MaxTx /\ f.datalen \in 0 .. MaxTx /\ f.fin \in BOOLEAN
        /\ f.offset + f.datalen <= q.tx /\ (f.fin => f.offset + f.datalen = q.tx)
    BY <2>1 DEF DataFrame, STREAM
  <2>3. f.fin => "SHUT_RD" \in p.flags /\ p.last_rx # q.tx
    BY <1>1, <1>2, <2>2, MaxTxAssumption DEF StreamError
  <2>4. ~f.fin => "SHUT_RD" \in p.flags /\ p.last_rx < q.tx
    BY <1>1, <1>2, <2>2, MaxTxAssumption DEF StreamError
  <2> QED BY <1>1, <2>3, <2>4, MaxTxAssumption DEF Receives
<1>3. CASE f.type = "RST_STREAM" /\ RstError(p, f)
  <2>1. f.final = q.tx
    BY <1>3 DEF SentFrame, ControlFrame, DataFrame, RST_STREAM, STOP_SENDING, STREAM
  <2>2. "SHUT_RD" \in p.flags /\ p.last_rx # q.tx
    BY <1>1, <1>3, <2>1, MaxTxAssumption DEF RstError
  <2> QED BY <2>2, Zenon DEF Receives
<1> QED BY <1>2, <1>3, Zenon

\* The type of a frame says which of the two kinds it is.
LEMMA FrameTypes ==
  ASSUME NEW p, NEW f
  PROVE  /\ ControlFrame(p, f) => f.type \in {"RST_STREAM", "STOP_SENDING"}
         /\ DataFrame(p, f) => f.type = "STREAM"
<1>1. ControlFrame(p, f) => f.type \in {"RST_STREAM", "STOP_SENDING"}
  BY DEF ControlFrame, RST_STREAM, STOP_SENDING
<1>2. DataFrame(p, f) => f.type = "STREAM"
  BY DEF DataFrame, STREAM
<1> QED BY <1>1, <1>2, Zenon

\* conn_recv_pkt: any frame that was ever sent arrives.
LEMMA LifeRecvPkt ==
  ASSUME LifeInv, NEW e \in Ends, NEW f \in net[e], conn_recv_pkt(e, f)
  PROVE  LifeInv'
<1> DEFINE r == Peer(e)
           p == ep[r]
           q == ep[e]
           bad == \/ f.type = "STREAM" /\ StreamError(p, f)
                  \/ f.type = "RST_STREAM" /\ RstError(p, f)
           c == CASE f.type = "STREAM" -> conn_recv_stream(p, f)
                  [] f.type = "RST_STREAM" -> conn_recv_rst_stream(p, f)
                  [] OTHER -> conn_recv_stop_sending(p)
           answer == IF f.type = "STOP_SENDING" THEN StopAnswer(p) ELSE {}
<1>1. /\ ep \in [Ends -> Strm] /\ r \in Ends /\ Peer(r) = e /\ p \in Strm /\ q \in Strm
      /\ Sends(p) /\ Receives(p, q) /\ SentFrame(q, f)
  BY Zenon DEF LifeInv, EndOK, Ends, Peer
<1>2. /\ got' = [got EXCEPT ![e] = got[e] \cup {f}]
      /\ err' = bad
      /\ ep' = IF bad THEN ep ELSE [ep EXCEPT ![r] = c]
      /\ DOMAIN frq' = Ends
      /\ \A x \in Ends : frq'[x] = IF x = r THEN frq[r] \cup answer ELSE frq[x]
      /\ UNCHANGED <<rtb, net>>
  BY <1>1, Zenon DEF conn_recv_pkt, LifeInv
<1>3. ASSUME NEW x \in Ends
      PROVE  /\ got'[x] \subseteq net[x] /\ got[x] \subseteq got'[x] /\ frq[x] \subseteq frq'[x]
             /\ GotBytes(x) \subseteq GotBytes(x)'
  BY <1>2, GotBytesGrow, Zenon DEF LifeInv, EndOK
<1>4. /\ DOMAIN frq' = Ends /\ DOMAIN rtb' = Ends /\ DOMAIN net' = Ends /\ DOMAIN got' = Ends
  BY <1>2, Zenon DEF LifeInv
<1>5. CASE bad
  <2>1. "RECV_RST" \in p.flags
    BY <1>1, <1>5, NoContradiction, Zenon
  <2>2. answer = {}
    BY <1>5, Zenon
  <2>3. ASSUME NEW x \in Ends PROVE EndOK(x)'
    <3>1. EndOK(x) /\ frq'[x] = frq[x] /\ ep'[x] = ep[x]
      BY <1>2, <1>5, <2>2, Zenon DEF LifeInv
    <3> QED BY <1>2, <1>3, <3>1, Zenon DEF EndOK
  <2> QED BY <1>1, <1>2, <1>4, <1>5, <2>1, <2>3, Zenon DEF LifeInv
<1>6. CASE ~bad
  <2>1. /\ c \in Strm /\ Sends(c) /\ Receives(c, q)
        /\ p.flags \subseteq c.flags /\ c.tx = p.tx /\ c.acked = p.acked
        /\ c.strm = "open" /\ "SENT_RST" \in c.flags
             => \/ p.strm = "open" /\ "SENT_RST" \in p.flags
                \/ \E g \in answer : g.type = "RST_STREAM"
        /\ \A g \in answer : ControlFrame(c, g)
    <3>1. CASE f.type = "STREAM"
      <4>1. c = conn_recv_stream(p, f) /\ answer = {}
        BY <3>1, Zenon
      <4>2. DataFrame(q, f)
        BY <1>1, <3>1, FrameTypes, Zenon DEF SentFrame
      <4> HIDE DEF c, answer, p, q
      <4> QED BY <1>1, <1>6, <3>1, <4>1, <4>2, RecvStreamFacts, Zenon
    <3>2. CASE f.type = "RST_STREAM"
      <4>1. c = conn_recv_rst_stream(p, f) /\ answer = {}
        BY <3>2, Zenon
      <4>2. ControlFrame(q, f)
        BY <1>1, <3>2, FrameTypes, Zenon DEF SentFrame
      <4> HIDE DEF c, answer, p, q
      <4> QED BY <1>1, <3>2, <4>1, <4>2, RecvRstFacts, Zenon
    <3>3. CASE f.type \notin {"STREAM", "RST_STREAM"}
      <4>1. f = STOP_SENDING /\ ControlFrame(q, f)
        BY <1>1, <3>3 DEF SentFrame, DataFrame, ControlFrame, STREAM, RST_STREAM
      <4>2. c = conn_recv_stop_sending(p) /\ answer = StopAnswer(p)
        BY <3>3, <4>1, Zenon DEF STOP_SENDING
      <4> HIDE DEF c, answer
      <4>3. /\ c \in Strm /\ Sends(c) /\ Receives(c, q)
            /\ p.flags \subseteq c.flags /\ c.tx = p.tx /\ c.acked = p.acked
            /\ c.strm = "open" => p.strm = "open"
            /\ p.strm = "open" => {"SHUT_WR", "SENT_RST"} \subseteq c.flags
        BY <1>1, <4>1, <4>2, RecvStopFacts, Zenon
      <4>4. p.strm = "open" => RST_STREAM(p.tx, "STOPPING") \in answer
        BY <4>2, Zenon DEF StopAnswer
      <4>5. \A g \in answer : g = RST_STREAM(p.tx, "STOPPING") /\ p.strm = "open"
        BY <4>2, Zenon DEF StopAnswer
      <4>6. RST_STREAM(p.tx, "STOPPING").type = "RST_STREAM"
        BY Zenon DEF RST_STREAM
      <4> QED BY <4>3, <4>4, <4>5, <4>6, Zenon DEF ControlFrame
    <3> QED BY <3>1, <3>2, <3>3, Zenon
  <2> HIDE DEF c, answer
  <2>2. Later(p, c)
    BY <1>1, <2>1, MaxTxAssumption DEF Later, Strm
  <2>3. ep' = [ep EXCEPT ![r] = c] /\ err' = FALSE
    BY <1>2, <1>6, Zenon
  <2>4. ep'[r] = c /\ EndsMove
    BY <1>1, <2>1, <2>2, <2>3, EndpointMoves, Zenon
  <2>5. ASSUME NEW x \in Ends PROVE EndOK(x)'
    <3>1. EndOK(x)
      BY Zenon DEF LifeInv
    <3>2. \A g \in net'[x] : SentFrame(ep'[x], g)
      BY <1>2, <2>4, <3>1, Zenon DEF EndOK, EndsMove
    <3>3. ASSUME NEW g \in frq'[x] PROVE ControlFrame(ep'[x], g)
      <4>1. g \in frq[x] \/ (x = r /\ g \in answer) BY <1>2, Zenon
      <4>2. CASE g \in frq[x] BY <2>4, <3>1, <4>2, Zenon DEF EndOK, EndsMove
      <4>3. CASE x = r /\ g \in answer BY <2>1, <2>4, <4>3, Zenon
      <4> QED BY <4>1, <4>2, <4>3, Zenon
    <3>4. x # r => ep'[x] = ep[x]
      BY <1>1, <2>3, Zenon
    <3>5. ep'[x].acked \subseteq GotBytes(x)'
      BY <1>3, <2>1, <2>4, <3>1, <3>4, Zenon DEF EndOK
    <3>6. x = r => answer \subseteq frq'[x]
      BY <1>2, Zenon DEF LifeInv
    <3>7. ep'[x].strm = "open" /\ "SENT_RST" \in ep'[x].flags
            => \E g \in net[x] \cup frq'[x] : g.type = "RST_STREAM"
      BY <1>3, <2>1, <2>4, <3>1, <3>4, <3>6, Zenon DEF EndOK
    <3> QED BY <1>2, <1>3, <3>1, <3>2, <3>3, <3>5, <3>7, Zenon DEF EndOK
  <2> QED BY <1>4, <2>3, <2>4, <2>5, Zenon DEF LifeInv, EndsMove
<1> QED BY <1>5, <1>6, Zenon

\* Every step keeps the invariant.
LEMMA LifeStep == LifeInv /\ [Next]_vars => LifeInv'
<1> SUFFICES ASSUME LifeInv, [Next]_vars PROVE LifeInv'
  BY Zenon
<1>1. \A e \in Ends : "SENT_RST" \in ep[e].flags => "SHUT_WR" \in ep[e].flags
  BY Zenon DEF LifeInv, Sends
<1>2. ASSUME NEW e \in Ends, ngtcp2_conn_shutdown_stream_write(e) PROVE LifeInv'
  BY <1>1, <1>2, LifeShutdown DEF ngtcp2_conn_shutdown_stream_write, ShutWrite, ShutWriteFrames
<1>3. ASSUME NEW e \in Ends, ngtcp2_conn_shutdown_stream_read(e) PROVE LifeInv'
  BY <1>1, <1>3, LifeShutdown DEF ngtcp2_conn_shutdown_stream_read, ShutRead, ShutReadFrames
<1>4. ASSUME NEW e \in Ends, ngtcp2_conn_shutdown_stream(e) PROVE LifeInv'
  <2> DEFINE flags == ShutRead(ep[e]) \cup ShutWrite(ep[e])
             frames == ShutReadFrames(ep[e]) \cup ShutWriteFrames(ep[e])
  <2>1. Shutdown(e, flags, frames)
    BY <1>4, Zenon DEF ngtcp2_conn_shutdown_stream
  <2>2. /\ ep[e].flags \subseteq flags
        /\ flags \subseteq ep[e].flags \cup {"SHUT_WR", "SENT_RST", "STOP_SENDING"}
        /\ "SENT_RST" \in flags => "SHUT_WR" \in flags
        /\ \A f \in frames : \/ f = RST_STREAM(ep[e].tx, "APP") /\ "SENT_RST" \in flags
                             \/ f = STOP_SENDING /\ "STOP_SENDING" \in flags
        /\ "SENT_RST" \in flags =>
             "SENT_RST" \in ep[e].flags \/ RST_STREAM(ep[e].tx, "APP") \in frames
    BY <1>1, Zenon DEF ShutWrite, ShutWriteFrames, ShutRead, ShutReadFrames
  <2> HIDE DEF flags, frames
  <2> QED BY <2>1, <2>2, LifeShutdown, Zenon
<1>5. CASE UNCHANGED vars
  <2>1. ASSUME NEW e \in Ends PROVE EndOK(e)'
    BY <1>5, Zenon DEF vars, LifeInv, EndOK, GotBytes
  <2> QED BY <1>5, <2>1, Zenon DEF vars, LifeInv
<1> QED
  BY <1>2, <1>3, <1>4, <1>5, LifeWriteStream, LifeWritePkt, LifeRetransmit, LifeRecvAck,
     LifeRecvPkt, Zenon DEF Next

\* The invariant of both ends of a stream.
THEOREM LifeInvariant == Spec => []LifeInv
BY LifeInit, LifeStep, PTL DEF Spec

\* For streams of any length and any calls of the applications: FIN and every
\* RST_STREAM announce the same final offset, and the peer objects to a frame
\* (conn_recv_stream, conn_recv_rst_stream) only after it has received a
\* RST_STREAM.
THEOREM FinalOffsets == Spec => []FinalOffsetAgreed
<1>1. LifeInv => FinalOffsetAgreed
  <2> SUFFICES ASSUME LifeInv PROVE FinalOffsetAgreed
    BY Zenon
  <2>1. TypeOK
    BY Zenon DEF LifeInv, EndOK, TypeOK
  <2>2. ASSUME NEW e \in Ends, NEW f \in net[e]
        PROVE  /\ f.type = "RST_STREAM" => f.final = ep[e].tx
               /\ f.type = "STREAM" => \/ f.offset + f.datalen = ep[e].tx
                                       \/ ~f.fin /\ f.offset + f.datalen < ep[e].tx
    <3>1. SentFrame(ep[e], f) /\ ep[e].tx \in 0 .. MaxTx
      BY Zenon DEF LifeInv, EndOK, Strm
    <3>2. CASE ControlFrame(ep[e], f)
      BY <3>2 DEF ControlFrame, RST_STREAM, STOP_SENDING
    <3>3. CASE DataFrame(ep[e], f)
      <4>1. /\ f.type = "STREAM" /\ f.offset \in 0 .. MaxTx /\ f.datalen \in 0 .. MaxTx
            /\ f.offset + f.datalen <= ep[e].tx
            /\ f.fin => f.offset + f.datalen = ep[e].tx
        BY <3>3 DEF DataFrame, STREAM
      <4> QED BY <3>1, <4>1, MaxTxAssumption
    <3> QED BY <3>1, <3>2, <3>3, Zenon DEF SentFrame
  <2>3. ASSUME NEW e \in Ends, ep[e].strm = "open", "SENT_RST" \in ep[e].flags
        PROVE  \E f \in net[e] \cup frq[e] : f.type = "RST_STREAM"
    BY <2>3, Zenon DEF LifeInv, EndOK
  <2>4. err => \E e \in Ends : "RECV_RST" \in ep[e].flags
    BY Zenon DEF LifeInv
  <2> QED BY <2>1, <2>2, <2>3, <2>4, Zenon DEF FinalOffsetAgreed
<1> QED BY <1>1, LifeInvariant, PTL

\* For streams of any length and any calls of the applications: a stream is
\* deleted (ngtcp2_conn_close_stream_if_shut_rdwr) only when what was written
\* has arrived or was given up, in both directions.
THEOREM DeletedOnlyWhenDone == Spec => []DeletedWhenDone
<1>1. LifeInv => DeletedWhenDone
  <2> SUFFICES ASSUME LifeInv, NEW e \in Ends
               PROVE  /\ ep[e].strm = "closed" =>
                           /\ "SENT_RST" \notin ep[e].flags => 0 .. ep[e].tx - 1 \subseteq GotBytes(e)
                           /\ "RECV_RST" \notin ep[e].flags =>
                                 /\ "SHUT_WR" \in ep[Peer(e)].flags
                                 /\ ep[e].rx = 0 .. ep[Peer(e)].tx - 1
                      /\ ep[e].strm = "refused" =>
                           /\ ep[Peer(e)].flags \cap {"SENT_RST", "STOP_SENDING"} # {}
                           /\ ep[e].rx = {}
    BY Zenon DEF DeletedWhenDone
  <2>1. Sends(ep[e]) /\ Receives(ep[e], ep[Peer(e)]) /\ ep[e].acked \subseteq GotBytes(e)
    BY Zenon DEF LifeInv, EndOK
  <2>2. ASSUME ep[e].strm = "closed", "RECV_RST" \notin ep[e].flags
        PROVE  "SHUT_WR" \in ep[Peer(e)].flags /\ ep[e].rx = 0 .. ep[Peer(e)].tx - 1
    BY <2>1, <2>2, Zenon DEF Receives
  <2>3. ep[e].strm = "closed" /\ "SENT_RST" \notin ep[e].flags
          => 0 .. ep[e].tx - 1 \subseteq GotBytes(e)
    BY <2>1, Zenon DEF Sends
  <2> QED BY <2>1, <2>2, <2>3, Zenon DEF Receives
<1> QED BY <1>1, LifeInvariant, PTL
=============================================================================
