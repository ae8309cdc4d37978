------------------------------ MODULE MCCodec ------------------------------
(***************************************************************************)
(* What goes over the wire, for model checking: truncated packet numbers   *)
(* (PktNum), headers and frames (Codec) and transport parameters           *)
(* (TransportParams).  The three share no state; layer says which of them  *)
(* a behaviour is about.                                                   *)
(***************************************************************************)
EXTENDS PktNum, Codec, TransportParams

VARIABLE layer

wireVars == <<layer, vars, codec_vars, tp_vars>>

Data(n) == [i \in 1 .. n |-> i % 256]
Token == [i \in 1 .. 16 |-> 16 + i]

Fr(type, v) == [type |-> type, v |-> v]

\* One frame of each type and a few more; the values are the boundaries of the
\* lengths of a varint.
MCFrames ==
  {Fr("STREAM", <<TRUE, 4, 0, Data(1)>>), Fr("STREAM", <<TRUE, 4, 64, Data(0)>>),
   Fr("STREAM", <<FALSE, 64, 1, Data(64)>>),
   Fr("ACK", <<0, 0, 0, 0>>), Fr("ACK", <<300, 64, 1, 2, 3, 4>>),
   Fr("PADDING", <<2>>), Fr("RST_STREAM", <<4, 65535, 16383>>),
   Fr("CONNECTION_CLOSE", <<258, Data(63)>>), Fr("APPLICATION_CLOSE", <<1, Data(0)>>),
   Fr("MAX_DATA", <<1073741823>>), Fr("MAX_STREAM_DATA", <<64, 63>>),
   Fr("MAX_STREAM_ID", <<16384>>), Fr("PING", <<Data(0)>>), Fr("PONG", <<Data(2)>>),
   Fr("BLOCKED", <<1073741824>>), Fr("STREAM_BLOCKED", <<16383, 16384>>),
   Fr("STREAM_ID_BLOCKED", <<63>>), Fr("NEW_CONNECTION_ID", <<65535, 513, Token>>),
   Fr("STOP_SENDING", <<64, 257>>)}

\* Payloads of up to four octets, and ACK frames with more blocks than are
\* kept and with fewer than they announce.
MCForeign ==
  LET o == {0, 1, 64, 192}
  IN  {<<t>> : t \in 0 .. 31}
      \cup {<<t, a>> : t \in 0 .. 31, a \in o}
      \cup {<<t, a, b>> : t \in 0 .. 31, a \in o, b \in o}
      \cup {<<t, a, b, c>> : t \in 0 .. 31, a \in o, b \in o, c \in {0, 64}}
      \cup {<<14, 60, 0, 3, 0, 1, 1, 1, 1, 1, 1>>, <<14, 60, 0, 3, 0, 1, 1, 64>>,
            <<14, 60, 0, 1, 0, 0>>, <<14, 60, 0, 1, 64, 0, 0>>}

MCHeaders ==
  {Hd(TRUE, 127, 513, 8, 65537, FALSE, FALSE),
   Hd(FALSE, 31, 513, 0, 300, TRUE, FALSE),
   Hd(FALSE, 29, 513, 0, 65537, FALSE, TRUE)}

MCVersionLists == {<<1>>, <<8, 9>>, <<8, 9, 10>>}

MCResets ==
  {[hd |-> Hd(FALSE, 30, 513, 0, 65537, omit, FALSE), token |-> Token, rand |-> Data(r),
    destlen |-> n] : omit \in BOOLEAN, r \in {0, 4}, n \in {18, 21, 27, 29, 40}}

\* Settings of the example programs, and others that the library takes.
Params(data, bidi, uni, omit, size, exponent, token, ip) ==
  (MAX_STREAM_DATA :> data) @@ (MAX_DATA :> 1048576) @@ (ID_BIDI :> bidi)
  @@ (IDLE_TIMEOUT :> 30) @@ (OMIT_CONN_ID :> omit) @@ (MAX_PKT_SIZE :> size)
  @@ (RESET_TOKEN :> token) @@ (ACK_EXPONENT :> exponent) @@ (ID_UNI :> uni)
  @@ (UNICAST_IP :> ip)

MCClientSettings ==
  {Params(262144, bidi, uni, omit, size, exponent, Zero16, Zero16) :
     bidi \in {0, 1}, uni \in {3}, omit \in {0, 1}, size \in {1200, 65527}, exponent \in {20}}
  \cup {Params(0, 5, 0, 0, 65527, 3, Zero16, Zero16)}

\* The last server has no unicast address to tell.
MCServerSettings ==
  {Params(262144, 0, 2, 0, 65527, 3, Token, Data(16)),
   Params(0, 400, 0, 1, 1200, 0, Token, Data(16)),
   Params(1073741823, 4, 6, 0, 65527, 20, Token, Data(16)),
   Params(262144, 400, 0, 0, 65527, 3, Token, Zero16)}

D8 == 8

\* Extensions of other implementations: without a parameter that is required,
\* with one twice, with one that is unknown, with values that are not allowed,
\* and Encrypted Extensions without an address or for another version.
MCForeignExts ==
  LET Req   == ParamOctets(0, <<0, 0, 1, 0>>) \o ParamOctets(1, <<0, 0, 2, 0>>)
               \o ParamOctets(3, <<0, 30>>)
      Tok   == ParamOctets(6, Token)
      Ver(s) == <<0, 0, 0, s[1], 4 * (Len(s) - 1)>>
                \o FoldLeft(LAMBDA o, x : o \o <<0, 0, 0, x>>, <<>>, Tail(s))
      Ext(e, ver, body) == [ext |-> e, data |-> ver \o ngtcp2_put_uint(Len(body), 2) \o body]
  IN  {Ext(CH, <<0, 0, 0, 8>>, body) :
         body \in {Req, Tail(Req), Req \o Tok, Req \o ParamOctets(2, <<0, 0, 0, 0>>),
                   Req \o ParamOctets(2, <<0, 0, 0, 5>>), Req \o ParamOctets(8, <<0, 0, 0, 5>>),
                   Req \o ParamOctets(7, <<21>>), Req \o ParamOctets(99, <<1>>),
                   Req \o ParamOctets(5, <<1>>), Req \o Req \o ParamOctets(7, <<20>>)}}
      \cup {Ext(EE, Ver(s), Req \o Tok) : s \in {<<8, 8>>, <<8>>, <<8, 9>>, <<9, 8>>, <<8, 9, 8>>}}
      \cup {Ext(EE, Ver(<<8, 8>>), body) :
              body \in {Req, Req \o Tok \o ParamOctets(2, <<0, 0, 0, 1>>),
                        Req \o Tok \o ParamOctets(8, <<0, 0, 0, 6>>),
                        Req \o Tok \o ParamOctets(9, Token)}}
      \cup {Ext(NST, <<>>, Req \o Tok), Ext(NST, <<>>, Req)}

WireInit ==
  /\ layer \in {"number", "packet", "extension"}
  /\ Init /\ CodecInit
  /\ IF layer = "extension" THEN TpInit
     ELSE TpInit /\ local0 = [client |-> CHOOSE s \in ClientSettings : TRUE,
                              server |-> CHOOSE s \in ServerSettings : TRUE]

WireNext ==
  \/ layer = "number" /\ Next /\ UNCHANGED <<layer, codec_vars, tp_vars>>
  \/ layer = "packet" /\ CodecNext /\ UNCHANGED <<layer, vars, tp_vars>>
  \/ layer = "extension" /\ TpNext /\ UNCHANGED <<layer, vars, codec_vars>>

WireSpec == WireInit /\ [][WireNext]_wireVars
=============================================================================
