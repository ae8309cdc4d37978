-------------------------- MODULE TransportParams --------------------------
(***************************************************************************)
(* Transport parameters: what a connection puts into the TLS extension     *)
(* (ngtcp2_conn_get_local_transport_params, lib/ngtcp2_conn.c), its octets *)
(* (lib/ngtcp2_crypto.c), and what the peer makes of it                    *)
(* (ngtcp2_conn_set_remote_transport_params).                              *)
(*                                                                         *)
(* Parameters are a function of their identifiers,                         *)
(* NGTCP2_TRANSPORT_PARAM_*; v is the version part that precedes them.     *)
(***************************************************************************)
EXTENDS Conv, SequencesExt, TLC

CONSTANTS
  ClientSettings, ServerSettings,   \* local settings: the parameters 0 .. 9
  VER_D8,         \* NGTCP2_PROTO_VER_D8: conn->version of both
  ForeignExts,    \* [ext, data] that another implementation may send
  MaxTickets      \* bound: New Session Ticket messages

MAX_STREAM_DATA == 0
MAX_DATA == 1
ID_BIDI == 2
IDLE_TIMEOUT == 3
OMIT_CONN_ID == 4
MAX_PKT_SIZE == 5
RESET_TOKEN == 6
ACK_EXPONENT == 7
ID_UNI == 8
UNICAST_IP == 9

ParamIds == 0 .. 9
ParamLen == (0 :> 4) @@ (1 :> 4) @@ (2 :> 4) @@ (3 :> 2) @@ (4 :> 0) @@ (5 :> 2)
            @@ (6 :> 16) @@ (7 :> 1) @@ (8 :> 4) @@ (9 :> 16)
Required == {MAX_STREAM_DATA, MAX_DATA, IDLE_TIMEOUT}

\* What a parameter is taken to be when it is absent; what an encoder leaves out.
Default == (ID_BIDI :> 0) @@ (ID_UNI :> 0) @@ (OMIT_CONN_ID :> 0)
           @@ (MAX_PKT_SIZE :> 65527) @@ (ACK_EXPONENT :> 3)

CH == "CLIENT_HELLO"
EE == "ENCRYPTED_EXTENSIONS"
NST == "NEW_SESSION_TICKET"

Zero16 == [i \in 1 .. 16 |-> 0]

\* Memory that nothing was written to: it stands for any value.
Uninit == <<"uninitialized">>

-----------------------------------------------------------------------------
(* Octets *)

EncodeOrder == <<MAX_STREAM_DATA, MAX_DATA, IDLE_TIMEOUT, RESET_TOKEN, ID_BIDI, ID_UNI,
                 OMIT_CONN_ID, MAX_PKT_SIZE, UNICAST_IP, ACK_EXPONENT>>

Sends(ext, params, id) ==
  CASE id \in Required -> TRUE
    [] id = RESET_TOKEN -> ext # CH
    [] id = UNICAST_IP -> params[id] # Zero16
    [] id \in DOMAIN Default -> params[id] # Default[id]

ParamOctets(id, value) == ngtcp2_put_uint(id, 2) \o ngtcp2_put_uint(Len(value), 2) \o value

ValueOctets(id, x) ==
  IF id \in {RESET_TOKEN, UNICAST_IP} THEN x ELSE ngtcp2_put_uint(x, ParamLen[id])

VersionOctets(ext, v) ==
  CASE ext = CH -> ngtcp2_put_uint(v.version, 4)
    [] ext = EE -> ngtcp2_put_uint(v.version, 4) \o <<(4 * Len(v.supported)) % 256>>
                   \o FoldLeft(LAMBDA s, x : s \o ngtcp2_put_uint(x, 4), <<>>, v.supported)
    [] ext = NST -> <<>>

\* The length of the parameters is reckoned before they are written: that of
\* each value and 4 octets before it.
ParamsLen(ext, params) ==
  FoldLeft(LAMBDA n, id : IF Sends(ext, params, id) THEN n + 4 + ParamLen[id] ELSE n,
           0, EncodeOrder)

ngtcp2_encode_transport_params(ext, v, params) ==
  VersionOctets(ext, v) \o ngtcp2_put_uint(ParamsLen(ext, params), 2)
  \o FoldLeft(LAMBDA s, id : IF Sends(ext, params, id)
                             THEN s \o ParamOctets(id, ValueOctets(id, params[id])) ELSE s,
              <<>>, EncodeOrder)

\* The length that is compared with the room for the extension.
EncodedLen(ext, v, params) == Len(VersionOctets(ext, v)) + 2 + ParamsLen(ext, params)

\* Mutant: the classes of the client's and the server's streams are swapped.
StreamIdSwapped(n, ext) == n % 4 = (IF ext = CH THEN 0 ELSE 1)

valid_stream_id_bidi(n, ext) == n % 4 = (IF ext = CH THEN 1 ELSE 0)
valid_stream_id_uni(n, ext) == n % 4 = (IF ext = CH THEN 3 ELSE 2)

ValidValue(ext, id, x) ==
  CASE id = ID_BIDI -> valid_stream_id_bidi(x, ext)
    [] id = ID_UNI -> valid_stream_id_uni(x, ext)
    [] id = ACK_EXPONENT -> x <= 20
    [] id = RESET_TOKEN -> ext # CH
    [] OTHER -> TRUE

\* The loop over the parameters: p is the next octet, seen the set of the
\* parameters met so far.
RECURSIVE DecodeLoop(_, _, _, _, _)
DecodeLoop(ext, data, p, params, seen) ==
  LET id    == ngtcp2_get_uint(data, p, 2)
      len   == ngtcp2_get_uint(data, p + 2, 2)
      value == SubSeq(data, p + 4, p + 3 + len)
      x     == CASE id = OMIT_CONN_ID -> 1
                 [] id \in {RESET_TOKEN, UNICAST_IP} -> value
                 [] OTHER -> ngtcp2_get_uint(value, 1, len)
  IN  IF Len(data) + 1 - p < 4
      THEN [rv |-> IF p = Len(data) + 1 THEN "ok" ELSE "MALFORMED",
            params |-> params, seen |-> seen]
      ELSE IF p + 3 + len > Len(data) \/ (id \in ParamIds /\ len # ParamLen[id])
      THEN [rv |-> "MALFORMED", params |-> params, seen |-> seen]
      ELSE IF id \notin ParamIds THEN DecodeLoop(ext, data, p + 4 + len, params, seen)
      ELSE IF ~ValidValue(ext, id, x)
      THEN [rv |-> "MALFORMED", params |-> params, seen |-> seen]
      ELSE DecodeLoop(ext, data, p + 4 + len, [params EXCEPT ![id] = x], seen \cup {id})

\* The version part: its length and its value.
DecodeVersions(ext, data) ==
  LET n == data[5]
  IN  CASE ext = NST -> [ok |-> TRUE, len |-> 0, v |-> Uninit]
        [] ext = CH ->
             IF Len(data) < 4 THEN [ok |-> FALSE]
             ELSE [ok |-> TRUE, len |-> 4, v |-> [version |-> ngtcp2_get_uint(data, 1, 4)]]
        [] ext = EE ->
             IF Len(data) < 5 \/ Len(data) - 5 < n \/ n % 4 # 0 THEN [ok |-> FALSE]
             ELSE [ok |-> TRUE, len |-> 5 + n,
                   v |-> [version |-> ngtcp2_get_uint(data, 1, 4),
                          supported |-> [i \in 1 .. n \div 4 |->
                                           ngtcp2_get_uint(data, 4 * i + 2, 4)]]]

\* params: what the memory of the result holds before the call.  Absent
\* parameters get their defaults; the unicast address and, from a client, the
\* token have none.
ngtcp2_decode_transport_params(ext, data, params) ==
  LET ver  == DecodeVersions(ext, data)
      size == Len(data) - ver.len
      d    == DecodeLoop(ext, data, ver.len + 3, params, {})
      required == Required \cup (IF ext = CH THEN {} ELSE {RESET_TOKEN})
  IN  IF ~ver.ok \/ size < 2 \/ 2 + ngtcp2_get_uint(data, ver.len + 1, 2) # size
      THEN [rv |-> "MALFORMED"]
      ELSE IF d.rv # "ok" THEN [rv |-> d.rv]
      ELSE IF ~(required \subseteq d.seen) THEN [rv |-> "REQUIRED"]
      ELSE [rv |-> "ok", v |-> ver.v,
            params |-> [id \in ParamIds |-> IF id \in DOMAIN Default \ d.seen
                                            THEN Default[id] ELSE d.params[id]]]

-----------------------------------------------------------------------------
(* The connections, and the TLS callbacks of examples/client.cc and         *)
(* examples/server.cc that hand extensions over.                            *)

ExtBufSize == 128    \* bufsize in transport_params_add_cb

\* remote_settings of a connection that has just been allocated.
NoSettings == [id \in ParamIds |-> IF id \in {RESET_TOKEN, UNICAST_IP} THEN Zero16 ELSE 0]

\* A local variable of type ngtcp2_transport_params.
UninitParams == [id \in ParamIds |-> Uninit]

VARIABLES
  phase,      \* what is to happen next, or the error that ended the handshake
  local0,     \* the settings that the connections were made with
  local,      \* conn->local_settings
  remote,     \* conn->remote_settings
  ext,        \* the extension on its way: [ext, data, own]
  peer,       \* remote_addr_ of the client
  tickets,    \* New Session Ticket messages written
  tp_file     \* the client's file of parameters: key to digits

tp_vars == <<phase, local0, local, remote, ext, peer, tickets, tp_file>>

NoFile == <<>>
Anycast == <<"anycast">>     \* the address that the client was started with

TpInit ==
  /\ phase = "new"
  /\ local0 \in [client : ClientSettings, server : ServerSettings]
  /\ local = local0
  /\ remote = [client |-> NoSettings, server |-> NoSettings]
  /\ ext = [ext |-> "none", data |-> <<>>, own |-> FALSE] /\ peer = Anycast /\ tickets = 0 /\ tp_file = NoFile

\* transport_params_copy_from_settings takes the address out of the settings.
transport_params_copy_from_settings(role) ==
  local' = [local EXCEPT ![role][UNICAST_IP] = Zero16]

\* ngtcp2_conn_get_local_transport_params and ngtcp2_encode_transport_params.
transport_params_add_cb(role, e, v, next) ==
  /\ transport_params_copy_from_settings(role)
  /\ IF EncodedLen(e, v, local[role]) > ExtBufSize
     THEN phase' = "NOBUF" /\ UNCHANGED ext
     ELSE /\ phase' = next
          /\ ext' = [ext |-> e, own |-> TRUE,
                     data |-> ngtcp2_encode_transport_params(e, v, local[role])]

WriteClientHello ==
  /\ phase = "new"
  /\ transport_params_add_cb("client", CH, [version |-> VER_D8], "ch")
  /\ UNCHANGED <<local0, remote, peer, tickets, tp_file>>

WriteEncryptedExtensions ==
  /\ phase = "accepted"
  /\ transport_params_add_cb("server", EE, [version |-> VER_D8, supported |-> <<VER_D8>>], "ee")
  /\ UNCHANGED <<local0, remote, peer, tickets, tp_file>>

WriteNewSessionTicket ==
  /\ phase = "connected" /\ tickets < MaxTickets
  /\ transport_params_add_cb("server", NST, Uninit, "nst")
  /\ tickets' = tickets + 1
  /\ UNCHANGED <<local0, remote, peer, tp_file>>

\* The peer is another implementation.
ForeignExtension(f) ==
  /\ phase \in {"ch", "ee", "nst"} /\ ext.own
  /\ ext.ext = f.ext
  /\ ext' = [ext |-> f.ext, data |-> f.data, own |-> FALSE]
  /\ UNCHANGED <<phase, local0, local, remote, peer, tickets, tp_file>>

\* settings_copy_from_transport_params: the address is not among the settings.
settings_copy_from_transport_params(role, params) ==
  [remote EXCEPT ![role] = [params EXCEPT ![UNICAST_IP] = remote[role][UNICAST_IP]]]

\* Mutant: the versions that the server supports are not looked at.
ValidateNegotiatedOnly(v) == v.version = VER_D8

conn_client_validate_transport_params(v) ==
  /\ v.version = VER_D8
  /\ \E i \in DOMAIN v.supported : v.supported[i] = VER_D8

\* The server: ngtcp2_conn_set_remote_transport_params checks nothing more.
ParseClientHello ==
  LET d == ngtcp2_decode_transport_params(CH, ext.data, UninitParams)
  IN  /\ phase = "ch"
      /\ IF d.rv = "ok"
         THEN /\ phase' = "accepted"
              /\ remote' = settings_copy_from_transport_params("server", d.params)
         ELSE phase' = d.rv /\ UNCHANGED remote
      /\ UNCHANGED <<local0, local, ext, peer, tickets, tp_file>>

\* The client: OnMigration is called whether or not the server named an
\* address, since params.server_unicast_ip is an array, and never a null
\* pointer; the parameters are validated after that.
ParseEncryptedExtensions ==
  LET d == ngtcp2_decode_transport_params(EE, ext.data, UninitParams)
  IN  /\ phase = "ee"
      /\ peer' = IF d.rv = "ok" THEN d.params[UNICAST_IP] ELSE peer
      /\ IF d.rv = "ok" /\ conn_client_validate_transport_params(d.v)
         THEN /\ phase' = "connected"
              /\ remote' = settings_copy_from_transport_params("client", d.params)
         ELSE /\ phase' = IF d.rv = "ok" THEN "VERSION_NEGOTIATION" ELSE d.rv
              /\ UNCHANGED remote
      /\ UNCHANGED <<local0, local, ext, tickets, tp_file>>

\* write_transport_params and read_transport_params: decimal digits.
RECURSIVE Decimal(_)
Decimal(n) == IF n < 10 THEN <<n>> ELSE Append(Decimal(n \div 10), n % 10)

strtoul(digits) == FoldLeft(LAMBDA n, digit : 10 * n + digit, 0, digits)

FileIds == {ID_BIDI, ID_UNI, MAX_STREAM_DATA, MAX_DATA}

ParseNewSessionTicket ==
  LET d == ngtcp2_decode_transport_params(NST, ext.data, UninitParams)
  IN  /\ phase = "nst"
      /\ IF d.rv = "ok"
         THEN phase' = "connected" /\ tp_file' = [id \in FileIds |-> Decimal(d.params[id])]
         ELSE phase' = d.rv /\ UNCHANGED tp_file
      /\ UNCHANGED <<local0, local, remote, ext, peer, tickets>>

\* handle_early_data of a new connection between the two programs: what the
\* file does not hold is uninitialized, and copied all the same.
ngtcp2_conn_set_early_remote_transport_params ==
  LET params == [id \in ParamIds |-> IF id \in FileIds THEN strtoul(tp_file[id]) ELSE Uninit]
  IN  /\ phase = "connected" /\ tp_file # NoFile
      /\ phase' = "new"
      /\ local' = local0 /\ peer' = Anycast
      /\ remote' = [client |-> [params EXCEPT ![UNICAST_IP] = Zero16], server |-> NoSettings]
      /\ UNCHANGED <<local0, ext, tickets, tp_file>>

TpNext ==
  \/ WriteClientHello
  \/ WriteEncryptedExtensions
  \/ WriteNewSessionTicket
  \/ \E f \in ForeignExts : ForeignExtension(f)
  \/ ParseClientHello
  \/ ParseEncryptedExtensions
  \/ ParseNewSessionTicket
  \/ ngtcp2_conn_set_early_remote_transport_params

-----------------------------------------------------------------------------
(* Properties *)

\* Two connections of this library understand each other: neither refuses the
\* other's extension, each ends up with the settings that the other was made
\* with (the client's token excepted, which it does not send), and a later
\* connection's 0-RTT limits are those of the server that wrote the ticket.
\* The client moves to the address that the server named, which is told once
\* and not again with a ticket.  When the server named none the client moves
\* all the same, to whatever its uninitialized params held
\* (examples/client.cc:1658).
SettingsAgreed ==
  LET Agree(role, by, ids) == \A id \in ids : remote[role][id] = local0[by][id]
  IN
  ext.own =>
    /\ phase \in {"new", "ch", "accepted", "ee", "connected", "nst"}
    /\ phase = "accepted" => Agree("server", "client", ParamIds \ {RESET_TOKEN, UNICAST_IP})
    /\ phase = "connected" /\ ext.ext = EE =>
         /\ Agree("client", "server", ParamIds \ {UNICAST_IP})
         /\ LET named == local0["server"][UNICAST_IP]
            IN  peer = IF named = Zero16 THEN Uninit ELSE named
    /\ phase = "nst" =>
         ngtcp2_decode_transport_params(NST, ext.data, UninitParams).params[UNICAST_IP] = Uninit
    /\ phase = "new" /\ ext.ext = NST => Agree("client", "server", FileIds)

\* Whatever extension arrives, limits are taken over only if they are of the
\* sender's kind of stream, an exponent only up to 20, and the parameters of a
\* server only if it supports the version in use; and an extension that was
\* cut short is refused.
ParamsChecked ==
  LET Checked(settings, e) ==
        /\ settings[ID_BIDI] # 0 => settings[ID_BIDI] % 4 = (IF e = CH THEN 1 ELSE 0)
        /\ settings[ID_UNI] # 0 => settings[ID_UNI] % 4 = (IF e = CH THEN 3 ELSE 2)
        /\ settings[ACK_EXPONENT] <= 20
  IN
  /\ phase = "accepted" => Checked(remote["server"], CH)
  /\ phase = "connected" /\ ext.ext = EE =>
       /\ Checked(remote["client"], EE)
       /\ LET d == ngtcp2_decode_transport_params(EE, ext.data, UninitParams)
          IN  d.v.version = VER_D8 /\ VER_D8 \in Range(d.v.supported)
  /\ phase \in {"ch", "ee", "nst"} /\ ext.own =>
       \A n \in 0 .. Len(ext.data) - 1 :
         ngtcp2_decode_transport_params(ext.ext, SubSeq(ext.data, 1, n), UninitParams).rv # "ok"
=============================================================================
