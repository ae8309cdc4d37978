# Verification of the ngtcp2 QUIC library

TLA+ models of the library in `src/lib` (QUIC draft-8) and of the example client
and server in `src/examples`, the TLC runs that check them on small instances,
and TLAPS proofs that establish the main results for all instances.
`PROJECT.json` lists the components, the runs, the source lines behind every
definition, the findings, the hazards and the theorems.

## The system

ngtcp2 has no threads, sockets or clock of its own. The application calls it
with packets that arrived (`ngtcp2_conn_recv`), asks it for packets to send
(`ngtcp2_conn_write_pkt`, `ngtcp2_conn_write_stream`, ...), passes the time in,
and gets callbacks, from which it may call the library again. Concurrency is
between the two endpoints and a network that loses, repeats, delays and
reorders packets, and between the calls of the application and what arrives.
The example programs are such applications. Each is one thread with a libev
event loop: sockets, timers and signals call it back in any order.

### Inventory

| Component | State | Operations | What is hard | What must hold |
|---|---|---|---|---|
| Ranges, gap tracker (`range.c`, `gaptr.c`) | sorted list of gaps | push, first gap | walks that stop early, splits | the gaps are what has not been seen |
| Reorder buffer (`rob.c`) | gaps, chunks | push, remove prefix, data at, pop | chunk boundaries, overlap | bytes stay intact until delivered; no assertion fails |
| Stream receive path (`conn.c`, `strm.c`) | offsets, flags, reorder buffer | STREAM, RST_STREAM, shutdown of reading | order of frames, calls in callbacks | in-order delivery, once; FIN at the end |
| ACK tracker (`acktr.c`, `ringbuf.c`) | received packets, sent ACK frames, timer | add, create ACK, process ACK | lost ACKs, full list and ring | ACK frames are true; entries stay until the peer knows |
| Retransmission buffer (`rtb.c`) | entries with frames, expiry, deadline | write, retransmit, split, ACK, give up | partial retransmission, renumbering, 0-RTT entries | no frame is lost or held twice |
| Packet numbers (`pkt.c`) | largest received and acknowledged | select field, restore | stale acknowledgements, wrap-around | the number is restored |
| Stream lifecycle (`conn.c`) | flags and offsets of both ends | FIN, resets, STOP_SENDING, deletion | crossing frames | deletion loses nothing; both ends delete |
| Flow control (`conn.c`) | limits of streams and connection, both ends | write, MAX frames, return of credit | old MAX frames, 0-RTT limits, saturation | no conforming sender is accused or stuck |
| Stream ids (`idtr.c`, `conn.c`) | used ids, limits | open, create, delete, MAX_STREAM_ID | late frames, resets before creation | no stream is created twice; bounded number |
| Connection states (`conn.c`) | `NGTCP2_CS_*`, stream 0, buffered packets | the handshake, retry, close | early and late packets, failure | the handshake ends; nothing is stranded |
| Packet and frame codec (`pkt.c`, `conv.c`, `ppe.c`) | a packet being built or read | write header, add frames, finish; decode | lengths at the limit, foreign payloads | what was written is read; no decoder leaves its input |
| Version negotiation, stateless reset (`conn.c`, `pkt.c`) | none beyond the packet | write, recognise, read | telling a reset from noise | what was written is understood |
| Transport parameters (`crypto.c`, `conn.c`) | settings, session ticket | encode, decode, check, remember | missing, repeated, forbidden values | both ends use the same settings |
| Priority queue, hash map, ring (`pq.c`, `map.c`, `ringbuf.c`) | heap, table, ring | push, pop, remove; insert, resize; push, cut | index upkeep, chains, wrap-around | what the users of each rely on |
| Example streams (`client.cc`, `server.cc`) | stream buffers, packets to be sent again | write, retransmit, free acknowledged data | EAGAIN at any packet, in-flight limit, rejected 0-RTT data | buffers match the library's streams; all is delivered |
| Example server connections (`server.cc`) | `handlers_`, `ctos_`, timers | read, write, timeouts, removal | two maps, failing sends | packets find their handler; no handler stays for ever |
| Example client event loop (`client.cc`) | watchers | callbacks, disconnect | events that were queued before disconnect | the client ends |

### How the parts interact

`ngtcp2_conn_recv` decodes a packet and feeds the ACK tracker, the receive path,
the limits and the retransmission buffer. `ngtcp2_conn_write_pkt` takes from the
ACK tracker, the queue of frames and the retransmission buffer, and encodes.
Deletion of a stream needs the receive path (all delivered) and the
retransmission buffer (all acknowledged), and extends the limit on stream ids.
The examples call both from their callbacks, keep the data of a stream until the
library says that it was acknowledged, and keep a packet that the socket refused
until it is writable.

## Modules

| Module | Models |
|---|---|
| `Ranges` | lists of gaps as sets, shared by `gaptr.c`, `idtr.c` and `rob.c` |
| `Rob` | the reorder buffer: gaps, allocated chunks, their content |
| `RobList` | the linked lists and loops of `rob.c`; implements `Rob` |
| `StreamRecv` | the receiving half of a stream, on top of `Rob` |
| `AckFrames` | building, validating and walking ACK frames |
| `Acktr` | the ACK tracker, the ring, the delayed-ACK timer |
| `Rtb` | which frames each packet carried and each entry still holds |
| `RtbList` | list, timers, splits and 0-RTT packets; implements `Rtb` |
| `PktNum` | truncated packet numbers, a sender and a receiver |
| `StreamLife` | both ends of one stream, from first frame to deletion |
| `FlowControl` | limits on data at a sender and a receiver |
| `StreamIds` | ids of streams at an opener and an acceptor |
| `Handshake` | the states of a client and a server |
| `Conv`, `Codec` | integers, headers, frames, the packet writer, control packets |
| `TransportParams` | transport parameters from settings to settings, session tickets |
| `Pq`, `Map`, `Ringbuf` | the data structures of the same names |
| `AppStreams` | stream buffers and sending of the example programs |
| `Handlers` | the connections of the example server |
| `ClientLoop` | the watchers of the example client |
| `MC*` | values of the constants for TLC, and compositions that share a run |
| `*Proofs` | lemmas, theorems and their proofs |

Variables keep the names of the C fields and actions the names of the C
functions. Where one C function has several outcomes, each is an action or a
disjunct of its own, and its comment names the function. An operator whose
comment begins with "Mutant" is a deliberately wrong variant of the definition
after it; it is used to confirm that a property can fail.

### Abstractions

- A byte of a stream is its offset, so a misplaced or repeated byte is visible.
  Payloads, keys and error reasons are members of small sets.
- Memory exhaustion and failing callbacks are left out. The code returns the
  error at once and the application deletes the connection.
- ACK frames inside packets are left to `Acktr`; the other modules have an
  action for "the peer acknowledged this".
- Which of several expired entries is retransmitted first is left open in
  `RtbList`.
- `ngtcp2_conn_write_stream` is not called with neither data nor FIN.
- `Handshake` treats TLS as external: chunks of stream 0, completion, failure
  with an alert. A packet that arrives again is a retransmission with a new
  number. A copy with the same number makes `ngtcp2_acktr_add` return
  `NGTCP2_ERR_PROTO`; `Acktr` has that case, and `OnlyTimeoutFails` is not about
  it. There is no clock: in a scenario with `timeout` any entry that expires may
  have reached its deadline (`PktTimeout`).
- `RtbList` has a client that asks its TLS stack with every part of the server's
  answer whether 0-RTT data is accepted, as `Client::tls_handshake` does: 0-RTT
  packets may be sent before, or be on their way when, they are rejected.
- In `TransportParams` a member of a C struct that nothing was written to has the
  value `Uninit`, which stands for any value.
- `FlowControl` leaves stream 0 and resets out; `StreamRecv` has the resets.
- `Codec` works on octets. Encryption adds a tag of `aead_overhead` octets, and
  numbers of more than 31 bits are not used (TLC's integers have 32).
- `Map` has a hash function into small tables, so that chains get long.
- `AppStreams` has one connection of one program. A packet carries at most one
  unit of data. Only the window of the stream blocks a writer, not that of the
  connection (`FlowControl` has both). What was sent arrives in the end
  before its deadline (`RtbList` has the retransmission). The peer of the client
  is the example server. The peer of the server is any client: `RecvAhead`,
  `RecvReset` and `ServerRecvMaxStreamData` are frames that come before the first
  data of their stream or reset it, and `feed_data` is a call of
  `ngtcp2_conn_recv` that fails (whatever the client did wrong) or finds the
  connection closed. Frames that are out of order later in a stream are left to
  `StreamRecv`.
- In `Handlers` and `ClientLoop` a call of the library or of `sendto` is the set
  of its possible outcomes. Connection ids that the server draws do not collide.
  A `Handler` whose `init` fails was never in a map and is left out.
- `MCContainers`, `MCCodec` and `MCExamples` put modules without common state
  into one run: a variable chosen in the initial state says which one moves.

## Runs

"Holds" means TLC explored every reachable state of the instance. The last column
is the number of distinct states.

| Run | Result | What it shows | States |
|---|---|---|---|
| `stream_recv` | holds | any frames in any order: prefix delivery, deletion only after all was delivered, silence after reading was shut down | 15,480 |
| `containers` | holds | the loops of `rob.c` implement `Rob`; the heap has its order and its least key on top after removals from the middle; the table finds what is in it across enlargements; the ring holds the newest elements | 13,341 |
| `acktr` | holds | ACKs are true, entries are kept until the peer knows, everything is acknowledged, with the list, the ring and the blocks at their limits; a frame is lost only by a full ring | 287,508 |
| `rtb_list` | holds | splits, renumbering, cancelled frames and 0-RTT packets, accepted or rejected, lose no frame, and the count of bytes in flight is right; `RtbList` implements `Rtb`; nothing is retransmitted for ever | 99,189 |
| `codec` | holds | packet numbers are restored; every frame, header and control packet that was written is read; decoders stay within their input; settings agree after the exchange and after resumption, and where the client moves with and without an address from the server; parameters that break the rules are refused | 318,559 |
| `stream_life` | holds | deletion loses nothing, final offsets agree, both ends delete | 282,485 |
| `stream_life_fin_alone` | differs | a stream is deleted while its FIN is in flight and will not be sent again | |
| `flow_control` | holds | nobody is accused, every byte of the window is accounted for, no stuck sender | 22,923 |
| `stream_ids` | holds | no stream is created twice, bounded number, every stream can be opened | 26,759 |
| `handshake` | holds | handshake data is kept, no data without keys, nothing is stranded, only deadlines make a call fail, lossy handshakes end unless one does | 169,877 |
| `examples` | holds | stream buffers match the library's streams, only refused sends and what the client sends end a connection, streams are counted, maps agree; all data is delivered, handlers and the client end | 68,147 |
| `server_fin` | differs | the FIN of an empty response is taken for sent while the in-flight limit is reached | |

### Where the code differs from its documentation

Two differences are runs of their own, because they leave the peer waiting.

- `stream_life_fin_alone`: `ngtcp2_conn_close_stream_if_shut_rdwr` waits until
  "the transmitted data are acked" (`lib/ngtcp2_conn.h:305`), but compares
  offsets only. A STREAM frame with FIN and no data is not waited for. If it is
  lost after the stream was deleted, it is not sent again.
- `server_fin`: `should_send_fin` becomes false "after sending fin"
  (`examples/server.h:127`), but `Handler::on_write_stream` clears it too when
  the in-flight limit kept an empty buffer from being written.

The modules state the other properties below too, at their end, with the line of
the repository that says so. TLC finds a counterexample to each when its
definition is added to the configuration of the module with these changes.

| Property | Configuration | What happens |
|---|---|---|
| `StreamRecv!NoErrorFromConformingPeer` | `ResetFrames`, `ResetRst`, `MaxData` = 8 | RST_STREAM leaves `last_rx_offset` alone; a second copy or a delayed frame below the final offset is answered with FINAL_OFFSET (`conn.c:3133`) |
| `StreamRecv!ShutdownReadForwardsNothing` | `ConformingFrames`, `NoRst` | reading is shut down in the callback, and the loop goes on handing over buffered data (`conn.c:2785`) |
| `Acktr!ActiveAckKept` | as it is | the ACK frame of a Handshake packet clears `active_ack` for packets it leaves out (`conn.c:593`) |
| `Acktr!BlocksWithinLimit` | as it is | one block more than the limit is written (`conn.c:555`) |
| `RtbList!RtbSorted` | as it is | an entry that is put back or split keeps its number and goes to the head (`conn.c:1050`) |
| `RtbList!AckReleases` | as it is | an acknowledged 0-RTT packet is missed by the walk over the list (`conn.c:1894`) |
| `RtbList!NoNullRead` | as it is | the case STOP_SENDING has no `continue` (`conn.c:842`) |
| `PktNum!NearRestored` | as it is | a late packet from the window before gets a number one window too large (`pkt.c:1472`) |
| `StreamLife!RstSent` | as it is | a queued RST_STREAM is dropped because the stream was deleted on the strength of SENT_RST (`conn.c:1640`) |
| `StreamLife!ShutdownDeletes` | as it is | the peer does not know the stream yet and never answers (`conn.c:3179`) |
| `StreamLife!IgnoredIsClosed` | as it is | STOP_SENDING before the first frame marks the id as used; all data is ignored (`conn.c:3179`) |
| `FlowControl!WithinLimit` | `EarlyData` = `EarlyStreamData` = 3, `MaxData` = 2 | the new limit is below what 0-RTT data used and the difference wraps around (`conn.c:4094`) |
| `FlowControl!StreamLimitKnown` | `MaxStreamData` = 2 | streams opened before keep the remembered limit (`conn.c:4100`) |
| `StreamIds!WindowKept` | as it is | the pointer is incremented and not `window_start` (`conn.c:4459`) |
| `StreamIds!StrictlyExtended` | as it is | the callback runs for every MAX_STREAM_ID (`conn.c:3375`) |
| `Handshake!NothingToSend` | as it is | a server that got a 0-RTT packet first cannot write (`conn.c:1482`) |
| `Handshake!ClosedIsDraining` | as it is | the draining state is overwritten by the failed handshake (`conn.c:3785`) |
| `Handshake!ClosedSendsNothing` | as it is | `ngtcp2_conn_write_stream` does not look at the state (`conn.c:4249`) |

Four more are part of properties that hold, which say what the code does:

- A full ring of sent ACK frames drops the oldest without freeing it
  (`acktr.c:181`): `dropped` in `KeptUntilKnown`.
- When the server names no address (`crypto.c:119`), the client moves to whatever
  its `params` held, because the test of `client.cc:1658` compares an array with
  a null pointer: `Uninit` in `SettingsAgreed`.
- The assertion of `Handler::on_stream_close` (`server.cc:1629`) fails when both
  ends reset a stream of which no data was handed over. Data that is ahead of a
  gap and MAX_STREAM_DATA open a stream without a callback (`conn.c:2880`):
  `EndedByClient` in `OnlyRefusedSends`.
- Any error of `ngtcp2_conn_recv` but TLS_DECRYPT ends the connection
  (`server.cc:1264`): `EndedByClient` too.

### Bounds

Every limit of the code (chunk size, list, ring and block limits, the windows of
packet number fields, the buffer of early packets, `NGTCP2_MAX_VARINT`) is a
constant. The runs make each small enough to be reached and crossed: chunks of
2 or 3 bytes with up to 8 offsets give frames that begin, end on and span
boundaries; `MAX_ENT = 3` and one additional block overflow with four packets and the gaps of two more; a number
field of 4, 8 or 16 values wraps; `MaxBuffed` is 1, and a retransmission
overflows it; `MAX_VARINT = 7` is less than what two streams of three bytes can
be granted. Two streams are the fewest that compete for the connection window.
Two frames are the fewest that can be split. Frames and parameters in `codec`
have values on both sides of each length of a varint, foreign payloads are all
of up to four octets from the values that change a decoder's course, and buffers
end before, in and after a frame. The table in `containers` starts with two
buckets and is enlarged by the second and by the fourth entry; the ring has four
elements and goes round. In `examples` two units may be in flight, a socket refuses the first,
the second, the third or no packet of a callback, and two clients with two
connection ids send five datagrams, so that a client may come back after its
handler is gone. `MAX_PKT_NUM`, `MaxTx`, `Total`, `LastId`, `MaxUnacked`,
`MaxNet`, `MaxOps`, `MaxFrames`, `MaxTickets`, `MaxDatagrams`, `MaxReads`,
`MaxLines` and `MaxInput` bound the length of behaviours, and say so where they
are declared. `Handshake`, `RtbList`, `Acktr` and `AppStreams` choose one of several
`Scenarios` or `Plans` at the start, each a set of events that may happen together.
The two of `Acktr` fill the list and the blocks with a ring of one frame, and wrap a
ring of two. The servers of `AppStreams` with one request have a client that does all
of the above, the one with two requests a `plain` client.

### Deadlock

TLC's deadlock check is on in `flow_control`. The other models reach states in
which they rightly stop: the connection failed, was closed or was given up
(`stream_recv`, `rtb_list`, `stream_life`, `handshake`, `examples`), or all
packets, offsets, ids or operations of the instance are used (`containers`,
`acktr`, `codec`, `stream_ids`). Where something has to go on, a liveness
property says so.

### Fairness

- The application writes while there is something to write and when a timer
  expires: weak fairness of the writing actions. The event loops of
  `examples/client.cc` and `examples/server.cc` do this.
- What is retransmitted arrives in the end: weak fairness of reception where
  packets stay available for ever, strong fairness in `handshake`, where
  `Lose` takes packets away and `conn_retransmit` brings them back.
- The application returns credit (`flow_control`) and time goes on (`rtb_list`).

- The event loop of an example runs callbacks whose event is there: a writable
  socket, an expired timer, an event that was fed; and the peer program answers.
  `AppStreams` says so by effect (what a callback or the peer has to do is done
  in the end), because TLC cannot decide in reasonable time whether its actions
  are enabled. Datagrams are bounded in number, so they put the idle timer off
  only so often.

No fairness is assumed of shutdown calls, resets, closing or losses. The
liveness properties say which of these they exclude: `BothDelete` streams that
are reset or ended by FIN alone, `EverythingSent` streams that are not read,
`EveryStreamOpened` ids that are marked as used before the stream exists,
`Connected` all events but loss and deadlines (it says that the handshake ends or a
packet reaches its deadline; a deadline is one of the outcomes that fairness of
`conn_retransmit` admits, so the run has scenarios with loss alone too, in which
the handshake has to end), `StreamsDelivered` connections that ended on a
socket that refuses packets or because of what the client sent.

## Proofs

TLAPS checks all of these for every value of the constants.

- **Receiving** (`RangesProofs`, `StreamRecvProofs`; assumptions
  `UINT64_MAXAssumption`, `ChunkAssumption`, `StreamRecvAssumption`). That the
  application has got a prefix of the stream (`DeliveredPrefix`) is not
  inductive: what is delivered next comes from the buffer. `StreamRecvInv` adds
  `BufferIntact` (every byte received and not delivered is in an allocated
  chunk, unchanged), that nothing at or beyond `last_rx_offset` was received,
  and when FIN was reported. `RangesProofs` shows what a push and the removal of
  a prefix do to gaps; `StreamRecvProofs` shows that both preserve
  `BufferIntact`, and has one lemma per path of `conn_recv_stream`. Theorems:
  `StreamRecvInvariant`, `Delivery`, `AssertionsHold`, `FinOnce`, `Deletion`,
  `Charging`, `ShutdownReadIsQuiet`.
- **Retransmission** (`RtbProofs`). `NothingLost` needs to know that an
  acknowledged number tells what was received: `RtbInv` adds that numbers of
  entries and of packets are unique and that an entry holds frames of the
  packet whose number it has. One lemma per action. Theorems: `RtbInvariant`,
  `FramesNeverLost`, `FramesInOnePlace`.
- **Packet numbers** (`ComponentProofs`; assumption `PktNumAssumption`: even
  windows of increasing size, fewer unacknowledged packets than half of the
  largest). `FieldSuffices` says that the field chosen from an old
  acknowledgement still tells the number from all that the receiver may expect.
  Theorem `NumbersAreRestored`: the number of a packet newer than all received
  ones is restored. That of a packet less than half a window late is restored
  if it lies in the window of the next expected number; otherwise it comes out
  one window too large, which is the difference `NearRestored` above.
- **Stream ids** (`StreamIdsProofs`; assumption `StreamIdsAssumption`). That the
  number of streams is bounded is a counting argument: `StreamIdsInv` says that
  the limits that the opener knows, that are under way, enforced and still to be
  announced are in this order, that every id in use is within the one enforced,
  and that it has grown by at most one for each deleted stream. Open and deleted
  streams are different ids below the limit, so the open ones are at most as
  many as the settings allow. Theorems: `StreamIdsInvariant`,
  `StreamsAreNotReborn`, `StreamsAreBounded`.
- **Stream lifecycle** (`StreamLifeProofs`; assumption `MaxTxAssumption`).
  `DeletedWhenDone` compares one end with the other, and what the other end knows
  it has from frames that may be old. `LifeInv` therefore says of every frame
  that was ever sent or is queued that it agrees with its sender as it is now
  (`ControlFrame`, `DataFrame`: data lies before the final offset, FIN and
  RST_STREAM name it and came with the end of writing), of each end that only
  bytes that arrived are acknowledged (`Sends`), and of each receiver that it
  knows nothing that the sender did not fix (`Receives`). Offsets and flags only
  grow (`Later`), so frames stay true. There is a lemma for each handler of a
  frame, and `NoContradiction`: a frame that agrees with its sender is an error
  to a receiver only after RST_STREAM. Theorems: `LifeInvariant`,
  `FinalOffsets`, `DeletedOnlyWhenDone`.
- **Flow control** (`FlowControlProofs`; assumption `FlowAssumption`: finitely
  many streams, settings that a varint can hold). The counters of the connection
  are sums over its streams. The model writes such a sum as the number of bytes
  below the offsets (`SumOver`), so that the lemmas about finite sets give what
  a sum does when one offset grows (`SumRaise`, `SumMonotone`) without induction
  over the streams. `AccountInv` has the accounts of each stream and of the
  connection, and holds for all settings. That no sender is accused rests in
  addition on `LimitInv`: every limit that the sender knows, or that is under
  way to it in a MAX frame however old, was granted by the receiver, and the
  sender keeps to it, so the unsigned difference of `ngtcp2_conn_write_stream`
  does not wrap around. `SenderNeverAccused` has the hypothesis
  `RememberedLimitsKept`, that a server does not announce less than what its
  client remembers for 0-RTT data; without it `WithinLimit` in the table above
  fails. Theorems: `AccountsInvariant`, `WindowsAccountedFor`,
  `SenderNeverAccused`.
- **Handshake** (`HandshakeProofs`; assumptions `ScenariosAssumption`,
  `SizesAssumption`: the server's flight has a chunk). For flights and buffers of
  any size and for every combination of the events, which the run explores only
  in the combinations of `Scenarios`. `HsInv` has a part for each thing that the
  properties rest on: `StateInv` (what the state of an endpoint says about its
  TLS session and about its peer), `PacketsInv` (what is true of a packet from
  the moment it is sent, on the network and in the buffers), `ChunksInv` (one
  chunk for each offset of stream 0: only the ClientHello is ever written again,
  after a stateless retry, and it is the same), `KeptInv`, `StrandedInv` and
  `QuietInv` (what cannot happen while packets are only lost, reordered and
  retransmitted, up to their deadline).
  A TLS session gets the chunks before the first gap (`Prefix`); that there is a
  first gap, and that it only moves forward, is the least-element property of
  the naturals (`PrefixFacts`, `PrefixGrows`). A session that has completed has
  therefore got the chunk of every offset, and by `ChunksInv` the one that was
  sent. There is a lemma for each action, and one for each part that says which
  variables it depends on. Theorems: `HandshakeInvariant`,
  `NothingGivenUp`, `BufferNeverStrands`, `OnlyDeadlinesFail`.
- **Ring** (`ComponentProofs`; assumption `RingAssumption`). `first` starts from
  the size of an element, which may lie outside the ring; `RingInv` says that it
  is a place of the ring as soon as there is an element, so that the place
  written by a push is no other element's. Theorem `RingKeepsNewest`.
- **Server connections** (`ComponentProofs`, no assumption). `HandlersInv` adds
  to `RoutesAgree` the states of a handler and that ids in use were drawn, so a
  new one replaces no handler. There is a lemma for each method of `Handler`
  (it leaves a handler that is prepared for every callback), one for any set of
  handlers that change or are removed, and one per callback of the server.
  Theorems: `HandlersInvariant`, `PacketsFindTheirHandler`.

Only model-checked:

- liveness and everything under fairness, which the proof system cannot express;
- the refinements of `Rob` by `RobList` and of `Rtb` by `RtbList`, the heap and
  the table (`Pq`, `Map`), the formats (`Conv`, `Codec`, `TransportParams`) and
  the stream buffers of the examples (`AppStreams`): their loops are recursive
  operators, and what a recursive definition computes would need induction over
  data;
- `Acktr`, whose ACK frames are built and walked by recursive operators too
  (`AckFrames`), and `BytesInFlight` of `RtbList`, a sum over a list;
- `ClientLoop`, whose property is a liveness property.

## Not modelled

- Ping and pong: PING queues one PONG frame and there is no other state. `Codec`
  has both formats.
- Buffers, memory, strings and errors (`buf.c`, `mem.c`, `str.c`, `err.c`):
  wrappers of libc calls and pointer arithmetic.
- TLS and key derivation of the examples: calls of OpenSSL without state to
  explore. The TLS sessions of `Handshake` are external.
- Printing, command lines, logs and the third-party HTTP parser of the examples.
  `AppStreams` takes the parser's result.
- In modelled parts: allocation failures; the limits of stream 0; missing
  transport parameters and packets that repeat a number in `Handshake`; a
  Version Negotiation packet with more than 16 versions, for which
  `conn.c:2053` hands the callback an array that was not filled.

A hazard in `PROJECT.json` that its properties do not cover entirely has a note
that says why.
