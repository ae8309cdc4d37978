------------------------------- MODULE Codec -------------------------------
(***************************************************************************)
(* Packet headers and frames as octets: the encoders and decoders of       *)
(* lib/ngtcp2_pkt.c, and a packet on its way from ngtcp2_ppe               *)
(* (lib/ngtcp2_ppe.c), which fills a buffer with frames, to the loop of    *)
(* conn_recv_pkt, which takes them apart again.                            *)
(*                                                                         *)
(* A frame is [type, v], v being its fields in the order of the octets.    *)
(* Encoders and decoders are translated separately, each as the sequence   *)
(* of the kinds of field that it writes or expects.  Encryption is left    *)
(* out: the overhead is accounted for, the octets are not changed.         *)
(***************************************************************************)
EXTENDS Conv, FiniteSets, SequencesExt, TLC

CONSTANTS
  MAX_ACK_BLKS,       \* NGTCP2_MAX_ACK_BLKS
  Headers,            \* headers of packets
  Frames,             \* frames that are written
  Foreign,            \* payloads that another implementation may have written
  BufLen,             \* sizes of the buffer
  aead_overhead,      \* ctx->aead_overhead
  SvLen,              \* versions that sv in conn_on_version_negotiation holds
  VersionLists,       \* lists of versions that a server supports
  RandomOctets,       \* octets that the application draws at random
  Resets,             \* stateless resets: [hd, token, rand, destlen]
  MaxFrames           \* bound: frames written into a packet

CONN_IDLEN == 8
TOKENLEN == 16      \* NGTCP2_STATELESS_RESET_TOKENLEN

-----------------------------------------------------------------------------
(* Encoders *)

\* The length that an encoder reckons with for a field, and what it writes.
FieldLen(kind, x) ==
  CASE kind = "varint"  -> ngtcp2_put_varint_len(x)
    [] kind = "uint16"  -> 2
    [] kind = "uint64"  -> CONN_IDLEN
    [] kind = "token"   -> TOKENLEN
    [] kind = "padding" -> x - 1
    [] kind = "octet_data"  -> 1 + Len(x)
    [] kind = "varint_data" -> ngtcp2_put_varint_len(Len(x)) + Len(x)

PutField(kind, x) ==
  CASE kind = "varint"  -> ngtcp2_put_varint(x)
    [] kind = "uint16"  -> ngtcp2_put_uint(x, 2)
    [] kind = "uint64"  -> ngtcp2_put_uint(x, CONN_IDLEN)
    [] kind = "token"   -> x
    [] kind = "padding" -> [i \in 1 .. x - 1 |-> 0]
    [] kind = "octet_data"  -> ngtcp2_put_uint(Len(x), 1) \o x
    [] kind = "varint_data" -> ngtcp2_put_varint(Len(x)) \o x

\* What an encoder writes: the octet of the type and fields.
Layout(octet, kinds, v) == [octet |-> octet, kinds |-> kinds, v |-> v]

\* Mutant: the bit that says an offset follows is set whenever there is data.
StreamOffBitOnData(v) ==
  LET off == v[3] # 0
  IN  Layout(16 + 2 + (IF v[1] THEN 1 ELSE 0) + (IF v[4] # <<>> THEN 4 ELSE 0),
             IF off THEN <<"varint", "varint", "varint_data">>
                    ELSE <<"varint", "varint_data">>,
             IF off THEN <<v[2], v[3], v[4]>> ELSE <<v[2], v[4]>>)

\* v: fin, stream_id, offset, data
ngtcp2_pkt_encode_stream_frame(v) ==
  LET off == v[3] # 0
  IN  Layout(16 + 2 + (IF v[1] THEN 1 ELSE 0) + (IF off THEN 4 ELSE 0),
             IF off THEN <<"varint", "varint", "varint_data">>
                    ELSE <<"varint", "varint_data">>,
             IF off THEN <<v[2], v[3], v[4]>> ELSE <<v[2], v[4]>>)

\* v: largest_ack, ack_delay, num_blks, first_ack_blklen, and gap and blklen
\* of each block
ngtcp2_pkt_encode_ack_frame(v) == Layout(14, [i \in DOMAIN v |-> "varint"], v)

ngtcp2_pkt_encode_padding_frame(v) == Layout(0, <<"padding">>, v)
ngtcp2_pkt_encode_rst_stream_frame(v) == Layout(1, <<"varint", "uint16", "varint">>, v)
ngtcp2_pkt_encode_connection_close_frame(v) == Layout(2, <<"uint16", "varint_data">>, v)
ngtcp2_pkt_encode_application_close_frame(v) == Layout(3, <<"uint16", "varint_data">>, v)
ngtcp2_pkt_encode_max_data_frame(v) == Layout(4, <<"varint">>, v)
ngtcp2_pkt_encode_max_stream_data_frame(v) == Layout(5, <<"varint", "varint">>, v)
ngtcp2_pkt_encode_max_stream_id_frame(v) == Layout(6, <<"varint">>, v)
ngtcp2_pkt_encode_ping_frame(v) == Layout(7, <<"octet_data">>, v)
ngtcp2_pkt_encode_blocked_frame(v) == Layout(8, <<"varint">>, v)
ngtcp2_pkt_encode_stream_blocked_frame(v) == Layout(9, <<"varint", "varint">>, v)
ngtcp2_pkt_encode_stream_id_blocked_frame(v) == Layout(10, <<"varint">>, v)
ngtcp2_pkt_encode_new_connection_id_frame(v) == Layout(11, <<"varint", "uint64", "token">>, v)
ngtcp2_pkt_encode_stop_sending_frame(v) == Layout(12, <<"varint", "uint16">>, v)
ngtcp2_pkt_encode_pong_frame(v) == Layout(13, <<"octet_data">>, v)

EncodeLayout(fr) ==
  CASE fr.type = "STREAM"             -> ngtcp2_pkt_encode_stream_frame(fr.v)
    [] fr.type = "ACK"                -> ngtcp2_pkt_encode_ack_frame(fr.v)
    [] fr.type = "PADDING"            -> ngtcp2_pkt_encode_padding_frame(fr.v)
    [] fr.type = "RST_STREAM"         -> ngtcp2_pkt_encode_rst_stream_frame(fr.v)
    [] fr.type = "CONNECTION_CLOSE"   -> ngtcp2_pkt_encode_connection_close_frame(fr.v)
    [] fr.type = "APPLICATION_CLOSE"  -> ngtcp2_pkt_encode_application_close_frame(fr.v)
    [] fr.type = "MAX_DATA"           -> ngtcp2_pkt_encode_max_data_frame(fr.v)
    [] fr.type = "MAX_STREAM_DATA"    -> ngtcp2_pkt_encode_max_stream_data_frame(fr.v)
    [] fr.type = "MAX_STREAM_ID"      -> ngtcp2_pkt_encode_max_stream_id_frame(fr.v)
    [] fr.type = "PING"               -> ngtcp2_pkt_encode_ping_frame(fr.v)
    [] fr.type = "BLOCKED"            -> ngtcp2_pkt_encode_blocked_frame(fr.v)
    [] fr.type = "STREAM_BLOCKED"     -> ngtcp2_pkt_encode_stream_blocked_frame(fr.v)
    [] fr.type = "STREAM_ID_BLOCKED"  -> ngtcp2_pkt_encode_stream_id_blocked_frame(fr.v)
    [] fr.type = "NEW_CONNECTION_ID"  -> ngtcp2_pkt_encode_new_connection_id_frame(fr.v)
    [] fr.type = "STOP_SENDING"       -> ngtcp2_pkt_encode_stop_sending_frame(fr.v)
    [] fr.type = "PONG"               -> ngtcp2_pkt_encode_pong_frame(fr.v)

\* The length that the encoder compares with the room in the buffer; the
\* encoders assert that it is the length of what they wrote.
FrameLen(fr) ==
  LET l == EncodeLayout(fr)
  IN  FoldLeftDomain(LAMBDA n, i : n + FieldLen(l.kinds[i], l.v[i]), 1, l.kinds)

FrameOctets(fr) ==
  LET l == EncodeLayout(fr)
  IN  FoldLeftDomain(LAMBDA s, i : s \o PutField(l.kinds[i], l.v[i]),
                     <<l.octet>>, l.kinds)

-----------------------------------------------------------------------------
(* Decoders *)

\* A decoder on its way through the payload: p is the index of the next octet,
\* len the length of the frame as far as it is known, v the fields read so
\* far, rv the error; "OVERREAD" stands for a read beyond the payload.
Fail(d, rv) == IF d.rv = "ok" THEN [d EXCEPT !.rv = rv] ELSE d

\* if (payloadlen < len) return NGTCP2_ERR_FRAME_FORMAT
CheckLen(pl, d) == IF Len(pl) < d.len THEN Fail(d, "FRAME_FORMAT") ELSE d

\* Reads n octets, as a value of the given kind.
Read(pl, d, n, kind) ==
  LET octets == SubSeq(pl, d.p, d.p + n - 1)
      x == CASE kind = "varint" -> ngtcp2_get_varint(octets, 1)
             [] kind = "uint"   -> ngtcp2_get_uint(octets, 1, n)
             [] kind = "octets" -> octets
  IN  IF d.rv # "ok" THEN d
      ELSE IF d.p + n - 1 > Len(pl) THEN Fail(d, "OVERREAD")
      ELSE [d EXCEPT !.p = @ + n, !.v = Append(@, x)]

\* Mutant: the further octets of an integer are not checked.
VarintNotChecked(pl, d) ==
  LET n == ngtcp2_get_varint_len(pl[d.p])
  IN  IF d.rv # "ok" THEN d
      ELSE IF d.p > Len(pl) THEN Fail(d, "OVERREAD")
      ELSE Read(pl, [d EXCEPT !.len = @ + n - 1], n, "varint")

\* len already counts the first octet; it grows by the others and is checked.
GetVarint(pl, d) ==
  LET n == ngtcp2_get_varint_len(pl[d.p])
  IN  IF d.rv # "ok" THEN d
      ELSE IF d.p > Len(pl) THEN Fail(d, "OVERREAD")
      ELSE Read(pl, CheckLen(pl, [d EXCEPT !.len = @ + n - 1]), n, "varint")

\* An integer that len does not count yet.
GetOptVarint(pl, d) == GetVarint(pl, CheckLen(pl, [d EXCEPT !.len = @ + 1]))

\* Data takes the place of its length, which was read last.
GetData(pl, d) ==
  IF d.rv # "ok" THEN d
  ELSE Read(pl, CheckLen(pl, [d EXCEPT !.len = @ + Last(d.v), !.v = Front(@)]),
            Last(d.v), "octets")

GetField(pl, kind, d) ==
  CASE kind = "varint" -> GetVarint(pl, d)
    [] kind = "uint16" -> Read(pl, d, 2, "uint")
    [] kind = "uint64" -> Read(pl, d, CONN_IDLEN, "uint")
    [] kind = "token"  -> Read(pl, d, TOKENLEN, "octets")
    [] kind = "octet_data"      -> GetData(pl, Read(pl, d, 1, "uint"))
    [] kind = "varint_data"     -> GetData(pl, GetVarint(pl, d))
    [] kind = "opt_varint"      -> GetOptVarint(pl, d)
    [] kind = "opt_varint_data" -> GetData(pl, GetOptVarint(pl, d))
    [] kind = "rest" -> Read(pl, [d EXCEPT !.len = Len(pl)], Len(pl) + 1 - d.p, "octets")
    [] kind = "count" ->
         LET c == GetVarint(pl, d)
         IN  IF c.rv # "ok" THEN c
             ELSE CheckLen(pl, [c EXCEPT !.len = @ + 2 * Last(c.v)])
    [] kind = "blks" ->
         IF d.rv # "ok" THEN d
         ELSE FoldLeft(LAMBDA e, i : GetVarint(pl, e), d, [i \in 1 .. 2 * d.v[3] |-> i])

\* What a decoder's first check asks for.
MinLen(kind) ==
  CASE kind \in {"varint", "count", "varint_data", "octet_data"} -> 1
    [] kind = "uint16" -> 2
    [] kind = "uint64" -> CONN_IDLEN
    [] kind = "token"  -> TOKENLEN
    [] kind \in {"opt_varint", "opt_varint_data", "rest", "blks"} -> 0

\* The decoders assert that they stop after len octets.
Stops(d) == IF d.p = d.len + 1 THEN d ELSE Fail(d, "ASSERT")

GetFields(pl, kinds) ==
  LET min == FoldLeft(LAMBDA n, k : n + MinLen(k), 1, kinds)
  IN  Stops(FoldLeft(LAMBDA e, k : GetField(pl, k, e),
                     CheckLen(pl, [rv |-> "ok", p |-> 2, len |-> min, v |-> <<>>]), kinds))

Bit(octet, b) == (octet \div b) % 2 = 1

\* The fields that each decoder reads.  Without the bit for the length the data
\* goes on to the end of the payload; without the bit for the offset, it begins
\* the stream.
ngtcp2_pkt_decode_stream_frame(pl) ==
  <<"varint">> \o (IF Bit(pl[1], 4) THEN <<"opt_varint">> ELSE <<>>)
               \o (IF Bit(pl[1], 2) THEN <<"opt_varint_data">> ELSE <<"rest">>)
ngtcp2_pkt_decode_ack_frame == <<"varint", "varint", "count", "varint", "blks">>
ngtcp2_pkt_decode_rst_stream_frame == <<"varint", "uint16", "varint">>
ngtcp2_pkt_decode_connection_close_frame == <<"uint16", "varint_data">>
ngtcp2_pkt_decode_application_close_frame == <<"uint16", "varint_data">>
ngtcp2_pkt_decode_max_data_frame == <<"varint">>
ngtcp2_pkt_decode_max_stream_data_frame == <<"varint", "varint">>
ngtcp2_pkt_decode_max_stream_id_frame == <<"varint">>
ngtcp2_pkt_decode_ping_frame == <<"octet_data">>
ngtcp2_pkt_decode_blocked_frame == <<"varint">>
ngtcp2_pkt_decode_stream_blocked_frame == <<"varint", "varint">>
ngtcp2_pkt_decode_stream_id_blocked_frame == <<"varint">>
ngtcp2_pkt_decode_new_connection_id_frame == <<"varint", "uint64", "token">>
ngtcp2_pkt_decode_stop_sending_frame == <<"varint", "uint16">>
ngtcp2_pkt_decode_pong_frame == <<"octet_data">>

\* STREAM and ACK are recognised by a mask, the others by their octet.
DecodeLayout(pl) ==
  LET t == pl[1]
  IN
  CASE Bit(t, 16) -> <<"STREAM", ngtcp2_pkt_decode_stream_frame(pl)>>
    [] ~Bit(t, 16) /\ Bit(t, 8) /\ Bit(t, 4) /\ Bit(t, 2) -> <<"ACK", ngtcp2_pkt_decode_ack_frame>>
    [] t = 0  -> <<"PADDING", <<>>>>
    [] t = 1  -> <<"RST_STREAM", ngtcp2_pkt_decode_rst_stream_frame>>
    [] t = 2  -> <<"CONNECTION_CLOSE", ngtcp2_pkt_decode_connection_close_frame>>
    [] t = 3  -> <<"APPLICATION_CLOSE", ngtcp2_pkt_decode_application_close_frame>>
    [] t = 4  -> <<"MAX_DATA", ngtcp2_pkt_decode_max_data_frame>>
    [] t = 5  -> <<"MAX_STREAM_DATA", ngtcp2_pkt_decode_max_stream_data_frame>>
    [] t = 6  -> <<"MAX_STREAM_ID", ngtcp2_pkt_decode_max_stream_id_frame>>
    [] t = 7  -> <<"PING", ngtcp2_pkt_decode_ping_frame>>
    [] t = 8  -> <<"BLOCKED", ngtcp2_pkt_decode_blocked_frame>>
    [] t = 9  -> <<"STREAM_BLOCKED", ngtcp2_pkt_decode_stream_blocked_frame>>
    [] t = 10 -> <<"STREAM_ID_BLOCKED", ngtcp2_pkt_decode_stream_id_blocked_frame>>
    [] t = 11 -> <<"NEW_CONNECTION_ID", ngtcp2_pkt_decode_new_connection_id_frame>>
    [] t = 12 -> <<"STOP_SENDING", ngtcp2_pkt_decode_stop_sending_frame>>
    [] t = 13 -> <<"PONG", ngtcp2_pkt_decode_pong_frame>>
    [] OTHER -> <<"none", <<>>>>

\* What is kept of the fields: the FIN bit of STREAM, no more ACK blocks than
\* NGTCP2_MAX_ACK_BLKS, and the sequence number of a connection id, a varint, as
\* a uint16_t.
Kept(type, octet, v) ==
  CASE type = "STREAM" -> <<Bit(octet, 1), v[1], IF Bit(octet, 4) THEN v[2] ELSE 0, Last(v)>>
    [] type = "ACK" /\ v[3] > MAX_ACK_BLKS ->
         SubSeq([v EXCEPT ![3] = MAX_ACK_BLKS], 1, 4 + 2 * MAX_ACK_BLKS)
    [] type = "NEW_CONNECTION_ID" -> [v EXCEPT ![1] = @ % 65536]
    [] OTHER -> v

Frame(d, type, octet) ==
  [rv |-> d.rv, len |-> d.len,
   fr |-> [type |-> type, v |-> IF d.rv = "ok" THEN Kept(type, octet, d.v) ELSE d.v]]

ngtcp2_pkt_decode_padding_frame(pl) ==
  LET n == SelectInSeq(pl, LAMBDA octet : octet # 0) - 1
      len == IF n < 0 THEN Len(pl) ELSE n
  IN  [rv |-> "ok", p |-> len + 1, len |-> len, v |-> <<len>>]

ngtcp2_pkt_decode_frame(pl) ==
  LET l == DecodeLayout(pl)
  IN  CASE l[1] = "PADDING" -> Frame(ngtcp2_pkt_decode_padding_frame(pl), l[1], pl[1])
        [] l[1] = "none"    -> [rv |-> "FRAME_FORMAT", len |-> 0, fr |-> [type |-> l[1], v |-> <<>>]]
        [] OTHER            -> Frame(GetFields(pl, l[2]), l[1], pl[1])

-----------------------------------------------------------------------------
(* Headers: [long, type, conn_id, version, pkt_num, omit_conn_id, key_phase].  *)
(* An encoder returns <<>> for NGTCP2_ERR_NOBUF.                               *)

NOBUF == <<>>
LONG_HEADERLEN == 17
LongTypes == {127, 126, 125, 124}      \* INITIAL, RETRY, HANDSHAKE, 0RTT_PROTECTED
PktNumLen == (31 :> 1) @@ (30 :> 2) @@ (29 :> 4)

EncodeHdLong(hd, outlen) ==
  IF outlen < LONG_HEADERLEN THEN NOBUF
  ELSE <<128 + hd.type>> \o ngtcp2_put_uint(hd.conn_id, CONN_IDLEN)
       \o ngtcp2_put_uint(hd.version, 4) \o ngtcp2_put_uint(hd.pkt_num, 4)

EncodeHdShort(hd, outlen) ==
  LET idlen == IF hd.omit_conn_id THEN 0 ELSE CONN_IDLEN
  IN  IF outlen < 1 + idlen + PktNumLen[hd.type] THEN NOBUF
      ELSE <<hd.type + (IF hd.omit_conn_id THEN 64 ELSE 0) + (IF hd.key_phase THEN 32 ELSE 0)>>
           \o ngtcp2_put_uint(hd.conn_id, idlen)
           \o ngtcp2_put_uint(hd.pkt_num, PktNumLen[hd.type])

NoHd(rv) == [rv |-> rv]
Hd(long, type, conn_id, version, pkt_num, omit, phase) ==
  [long |-> long, type |-> type, conn_id |-> conn_id, version |-> version,
   pkt_num |-> pkt_num, omit_conn_id |-> omit, key_phase |-> phase]

DecodeHdLong(pkt) ==
  LET type    == pkt[1] % 128
      version == ngtcp2_get_uint(pkt, 10, 4)
  IN  IF Len(pkt) < LONG_HEADERLEN \/ ~Bit(pkt[1], 128) THEN NoHd("INVALID_ARGUMENT")
      ELSE IF type \notin LongTypes /\ version # 0 THEN NoHd("UNKNOWN_PKT_TYPE")
      ELSE [rv |-> "ok", len |-> LONG_HEADERLEN,
            hd |-> Hd(TRUE, IF type \in LongTypes THEN type ELSE 0,
                      ngtcp2_get_uint(pkt, 2, CONN_IDLEN), version,
                      ngtcp2_get_uint(pkt, 14, 4), FALSE, FALSE)]

DecodeHdShort(pkt) ==
  LET type  == pkt[1] % 32
      omit  == Bit(pkt[1], 64)
      idlen == IF omit THEN 0 ELSE CONN_IDLEN
      len   == 1 + idlen + PktNumLen[type]
  IN  IF Bit(pkt[1], 128) THEN NoHd("INVALID_ARGUMENT")
      ELSE IF type \notin DOMAIN PktNumLen THEN NoHd("UNKNOWN_PKT_TYPE")
      ELSE IF Len(pkt) < len THEN NoHd("INVALID_ARGUMENT")
      ELSE [rv |-> "ok", len |-> len,
            hd |-> Hd(FALSE, type, ngtcp2_get_uint(pkt, 2, idlen), 0,
                      ngtcp2_get_uint(pkt, 2 + idlen, PktNumLen[type]),
                      omit, Bit(pkt[1], 32))]

ngtcp2_pkt_decode_hd(pkt) ==
  IF pkt = <<>> THEN NoHd("INVALID_ARGUMENT")
  ELSE IF Bit(pkt[1], 128) THEN DecodeHdLong(pkt) ELSE DecodeHdShort(pkt)

-----------------------------------------------------------------------------
(* Version Negotiation and stateless reset *)

ngtcp2_pkt_write_version_negotiation(random, conn_id, sv, destlen) ==
  IF destlen < 1 + CONN_IDLEN + 4 + 4 * Len(sv) THEN NOBUF
  ELSE <<128 + (random % 128)>> \o ngtcp2_put_uint(conn_id, CONN_IDLEN) \o ngtcp2_put_uint(0, 4)
       \o FoldLeft(LAMBDA s, v : s \o ngtcp2_put_uint(v, 4), <<>>, sv)

ngtcp2_pkt_decode_version_negotiation(pl) ==
  [i \in 1 .. Len(pl) \div 4 |-> ngtcp2_get_uint(pl, 4 * i - 3, 4)]

\* What recv_version_negotiation is called with: the list is decoded into
\* allocated memory when it is longer than sv, and the callback is given sv
\* all the same.
conn_on_version_negotiation(pl) ==
  LET versions == ngtcp2_pkt_decode_version_negotiation(pl)
  IN  IF Len(pl) % 4 # 0 THEN "ERR_PROTO"
      ELSE IF Len(versions) > SvLen THEN "uninitialized" ELSE versions

\* Mutant: the versions are looked for after a packet number.
VersionsAfterNumber(pkt) ==
  LET d == DecodeHdLong(pkt)
  IN  IF d.rv # "ok" \/ d.hd.version # 0 THEN "discarded"
      ELSE conn_on_version_negotiation(SubSeq(pkt, d.len + 1, Len(pkt)))

\* conn_recv_handshake_pkt: a long header with version 0 is Version
\* Negotiation, whatever its type; it has no packet number, and the list of
\* versions begins where the number would be.
RecvVersionNegotiation(pkt) ==
  LET d == DecodeHdLong(pkt)
  IN  IF d.rv # "ok" \/ d.hd.version # 0 THEN "discarded"
      ELSE conn_on_version_negotiation(SubSeq(pkt, LONG_HEADERLEN - 4 + 1, Len(pkt)))

ngtcp2_pkt_write_stateless_reset(hd, token, rand, destlen) ==
  LET h    == EncodeHdShort(hd, destlen)
      left == destlen - Len(h)
  IN  IF h = NOBUF \/ left < TOKENLEN THEN NOBUF
      ELSE h \o SubSeq(rand, 1, IF left - TOKENLEN < Len(rand) THEN left - TOKENLEN ELSE Len(rand))
             \o token

\* conn_on_stateless_reset: the token of a packet that did not decrypt.
ngtcp2_pkt_decode_stateless_reset(pl) ==
  IF Len(pl) < TOKENLEN THEN <<>> ELSE SubSeq(pl, Len(pl) - TOKENLEN + 1, Len(pl))

-----------------------------------------------------------------------------
(* A packet, from the writer's buffer to the reader's loop *)

VARIABLES
  st,      \* "idle", "writing", "reading", "read", "vn", "reset" or the reader's error
  cap,     \* ppe->buf: its size
  hd,      \* the header written
  buf,     \* ppe->buf: the octets written
  sent,    \* the frames written
  got,     \* the header read
  pl,      \* the payload that has not been read
  rcvd     \* the frames read

codec_vars == <<st, cap, hd, buf, sent, got, pl, rcvd>>

CodecInit ==
  /\ st = "idle" /\ cap = 0 /\ hd = NoHd("none") /\ got = NoHd("none")
  /\ buf = <<>> /\ sent = <<>> /\ pl = <<>> /\ rcvd = <<>>

Left == IF cap - Len(buf) < aead_overhead THEN 0 ELSE cap - Len(buf) - aead_overhead

\* A buffer that is too small for the header leaves everything as it is.
ngtcp2_ppe_encode_hd(h, n) ==
  LET octets == IF h.long THEN EncodeHdLong(h, n - aead_overhead)
                ELSE EncodeHdShort(h, n - aead_overhead)
  IN  /\ st = "idle"
      /\ aead_overhead <= n /\ octets # NOBUF
      /\ st' = "writing" /\ cap' = n /\ hd' = h /\ buf' = octets
      /\ UNCHANGED <<sent, got, pl, rcvd>>

\* NGTCP2_ERR_NOBUF leaves the buffer as it is.
ngtcp2_ppe_encode_frame(fr) ==
  /\ st = "writing" /\ Len(sent) < MaxFrames
  /\ FrameLen(fr) <= Left
  /\ buf' = buf \o FrameOctets(fr) /\ sent' = Append(sent, fr)
  /\ UNCHANGED <<st, cap, hd, got, pl, rcvd>>

ngtcp2_ppe_padding ==
  /\ st = "writing" /\ Left > 0
  /\ buf' = buf \o [i \in 1 .. Left |-> 0]
  /\ sent' = Append(sent, [type |-> "PADDING", v |-> <<Left>>])
  /\ UNCHANGED <<st, cap, hd, got, pl, rcvd>>

\* ngtcp2_ppe_final; the reader takes the header off.
Deliver ==
  LET d == ngtcp2_pkt_decode_hd(buf)
  IN  /\ st = "writing" /\ sent # <<>>
      /\ IF d.rv = "ok"
         THEN st' = "reading" /\ got' = d.hd /\ pl' = SubSeq(buf, d.len + 1, Len(buf))
         ELSE st' = d.rv /\ UNCHANGED <<got, pl>>
      /\ UNCHANGED <<cap, hd, buf, sent, rcvd>>

\* A payload from somewhere else.
Arrive(foreign) ==
  /\ st = "idle"
  /\ st' = "reading" /\ pl' = foreign
  /\ UNCHANGED <<cap, hd, buf, sent, got, rcvd>>

\* The loop of conn_recv_pkt, as far as frames are decoded.
ReadFrame ==
  /\ st = "reading"
  /\ IF pl = <<>> THEN st' = "read" /\ UNCHANGED <<pl, rcvd>>
     ELSE \E d \in {ngtcp2_pkt_decode_frame(pl)} :
            IF d.rv # "ok" THEN st' = d.rv /\ UNCHANGED <<pl, rcvd>>
            ELSE /\ pl' = SubSeq(pl, d.len + 1, Len(pl))
                 /\ rcvd' = Append(rcvd, d.fr)
                 /\ st' = IF d.len > 0 THEN "reading" ELSE "STUCK"
  /\ UNCHANGED <<cap, hd, buf, sent, got>>

\* ngtcp2_accept's caller answers with the versions it supports.
VersionNegotiation(random, sv) ==
  LET pkt == ngtcp2_pkt_write_version_negotiation(random, 1, sv, 4 * Len(sv) + 13)
  IN  /\ st = "idle"
      /\ st' = "vn" /\ sent' = sv /\ rcvd' = RecvVersionNegotiation(pkt)
      /\ UNCHANGED <<cap, hd, buf, got, pl>>

\* conn_recv_pkt takes the header off, and does not find a payload it can
\* decrypt.
StatelessReset(r) ==
  LET pkt == ngtcp2_pkt_write_stateless_reset(r.hd, r.token, r.rand, r.destlen)
      d   == ngtcp2_pkt_decode_hd(pkt)
  IN  /\ st = "idle" /\ pkt # NOBUF
      /\ st' = "reset" /\ sent' = r.token
      /\ cap' = r.destlen /\ buf' = pkt
      /\ rcvd' = IF d.rv # "ok" THEN d.rv
                 ELSE ngtcp2_pkt_decode_stateless_reset(SubSeq(pkt, d.len + 1, Len(pkt)))
      /\ UNCHANGED <<hd, got, pl>>

CodecNext ==
  \/ \E random \in RandomOctets, sv \in VersionLists : VersionNegotiation(random, sv)
  \/ \E r \in Resets : StatelessReset(r)
  \/ \E h \in Headers, n \in BufLen : ngtcp2_ppe_encode_hd(h, n)
  \/ \E fr \in Frames : ngtcp2_ppe_encode_frame(fr)
  \/ ngtcp2_ppe_padding
  \/ Deliver
  \/ \E foreign \in Foreign : Arrive(foreign)
  \/ ReadFrame

-----------------------------------------------------------------------------
(* Properties *)

\* The reader cannot tell where one PADDING frame ends and the next begins.
MergePadding(frames) ==
  FoldLeft(LAMBDA s, fr :
             IF s # <<>> /\ fr.type = "PADDING" /\ Last(s).type = "PADDING"
             THEN Append(Front(s), [fr EXCEPT !.v[1] = @ + Last(s).v[1]])
             ELSE Append(s, fr),
           <<>>, frames)

\* The header as the reader sees it: the packet number is cut to the width of
\* its field, and what a form of header does not carry is 0.
Carried(h) ==
  IF h.long THEN [h EXCEPT !.omit_conn_id = FALSE, !.key_phase = FALSE]
  ELSE [h EXCEPT !.version = 0,
                 !.conn_id = IF h.omit_conn_id THEN 0 ELSE @,
                 !.pkt_num = IF PktNumLen[h.type] = 4 THEN @ ELSE @ % 256 ^ PktNumLen[h.type]]

\* Whatever frames are put into a packet, in whatever order and however little
\* room the buffer leaves, the reader gets the header and exactly those frames
\* back, in that order; the packet never outgrows its buffer, and each encoder
\* reckoned with the length it then wrote (its assertion).
PacketRestored ==
  st \notin {"vn", "reset"} =>
  /\ buf # <<>> => Len(buf) + aead_overhead <= cap
  /\ st = "writing" /\ sent # <<>> => FrameLen(Last(sent)) = Len(FrameOctets(Last(sent)))
  /\ sent # <<>> =>
       /\ st \in {"writing", "reading", "read"}
       /\ st # "writing" => got = Carried(hd)
       /\ st = "read" => rcvd = MergePadding(sent)

\* A decoder never reads beyond the payload and never fails its assertion,
\* whoever wrote the payload; every frame it returns takes the loop forward;
\* and a frame cut short at any octet is refused (PADDING excepted, which is
\* then a shorter PADDING).
DecodersKeepBounds ==
  /\ st \notin {"OVERREAD", "ASSERT", "STUCK"}
  /\ st = "writing" /\ Len(sent) = 1 /\ Last(sent).type # "PADDING" =>
       LET octets == FrameOctets(Last(sent))
       IN  \A n \in 1 .. Len(octets) - 1 :
             ngtcp2_pkt_decode_frame(SubSeq(octets, 1, n)).rv = "FRAME_FORMAT"

\* Whatever the random octets are, a Version Negotiation packet is recognised
\* and its versions reach the callback, none read from the packet's header and
\* none left out (as many as sv holds: with more the callback gets sv, which
\* nothing was written to); and the token of a stateless reset, of whatever
\* length, is found at its end.
ControlPacketsUnderstood ==
  /\ st = "vn" /\ Len(sent) <= SvLen => rcvd = sent
  /\ st = "reset" => rcvd = sent /\ Len(buf) <= cap
=============================================================================
