------------------------------ MODULE Handlers ------------------------------
(***************************************************************************)
(* The connections of the example server (examples/server.cc): the maps    *)
(* handlers_ and ctos_, the timers of a Handler, and its way through the   *)
(* closing or the draining period.  AppStreams has what a Handler sends.   *)
(*                                                                         *)
(* The library is what it answers: a packet is fine, is an error, or       *)
(* closes the connection.  A call of sendto succeeds, is refused for the   *)
(* moment (EAGAIN) or fails for good.  The connection ids that the server  *)
(* draws at random are different.                                          *)
(***************************************************************************)
EXTENDS Integers

CONSTANTS
  Clients,       \* client connection ids
  ConnIds,       \* the connection ids that the server draws
  MaxDatagrams   \* bound: datagrams that arrive

VARIABLES
  handlers,      \* handlers_: Handlers by connection id
  ctos,          \* ctos_: client connection id -> connection id
  swev,          \* wev_ is active
  drawn,         \* connection ids drawn
  ndatagrams,    \* datagrams received
  serving        \* rev_ is active

server_vars == <<handlers, ctos, swev, drawn, ndatagrams, serving>>

\* conn: what ngtcp2_conn_in_closing_period and _in_draining_period see; sendbuf
\* holds nothing, a packet, or the CONNECTION_CLOSE that closebuf keeps.
Handler(c) ==
  [client |-> c, conn |-> "handshake", draining |-> FALSE, timer |-> TRUE, rttimer |-> FALSE,
   sendbuf |-> "empty", closebuf |-> FALSE]

ServerInit ==
  /\ handlers = <<>> /\ ctos = <<>> /\ swev = FALSE
  /\ drawn = {} /\ ndatagrams = 0 /\ serving = TRUE

\* The ways an operation on a Handler can go: what it leaves, what it returns.
Result(h, rv) == [h |-> h, rv |-> rv]

\* Server::send_packet with what is in sendbuf_.
SendPacket(h) ==
  {Result([h EXCEPT !.sendbuf = "empty"], "OK"), Result(h, "SEND_NON_FATAL"), Result(h, "SEND_FATAL")}

\* Handler::send_conn_close
send_conn_close(h) == SendPacket([h EXCEPT !.sendbuf = IF @ = "empty" THEN "close" ELSE @])

\* Handler::start_draining_period
start_draining_period(h) == [h EXCEPT !.draining = TRUE, !.rttimer = FALSE, !.timer = TRUE]

\* Handler::start_closing_period.  CONNECTION_CLOSE can be written after the
\* handshake only, and not if the packet numbers are used up.
start_closing_period(h) ==
  LET g == [h EXCEPT !.rttimer = FALSE, !.timer = TRUE, !.sendbuf = "empty"]
  IN  IF h.conn = "closing" THEN {Result(h, "OK")}
      ELSE {Result(g, "ERR")}
           \cup (IF h.conn = "post" THEN {Result([g EXCEPT !.conn = "closing", !.closebuf = TRUE], "OK")}
                 ELSE {})

\* Handler::handle_error
handle_error(h) ==
  UNION {IF r.rv # "OK" THEN {r}
         ELSE {[s EXCEPT !.rv = IF @ = "OK" THEN "CLOSE_WAIT" ELSE @] : s \in send_conn_close(r.h)} :
         r \in start_closing_period(h)}

\* Handler::on_write after sendbuf_ was flushed: the library reports an error, or
\* packets are written until one is refused.  A refused packet that is not of a
\* stream ends the loop only, and on_write returns 0.  A connection in the
\* library's draining period writes no new control packet, but on_write does not
\* ask for it: lost packets and stream data still go out.
WritePackets(h) ==
  handle_error(h)
    \cup {Result([h EXCEPT !.sendbuf = b, !.rttimer = t], "OK") : b \in {"empty", "packet"},
                                                                 t \in {h.rttimer, TRUE}}
    \cup {Result([h EXCEPT !.sendbuf = "packet"], rv) : rv \in {"SEND_NON_FATAL", "SEND_FATAL"}}

\* Handler::on_write, schedule_retransmit
handler_on_write(h) ==
  IF h.conn = "closing" THEN {Result(h, "OK")}
  ELSE UNION {IF r.rv = "OK" THEN WritePackets(r.h) ELSE {r} :
              r \in IF h.sendbuf = "empty" THEN {Result(h, "OK")} ELSE SendPacket(h)}

\* Handler::on_read, feed_data: ngtcp2_conn_recv takes the packet, which may
\* complete the handshake, fails, or finds the peer's CONNECTION_CLOSE.
handler_on_read(h) ==
  handle_error(h)
    \cup {Result([h EXCEPT !.conn = c, !.timer = TRUE], "OK") :
          c \in IF h.conn = "handshake" THEN {"handshake", "post"} ELSE {h.conn}}
    \cup {Result(start_draining_period([h EXCEPT !.conn = "draining"]), "CLOSE_WAIT")}

-----------------------------------------------------------------------------
\* Mutant: Server::remove forgets ctos_.
RemoveHandlerOnly(i) ==
  /\ handlers' = [j \in DOMAIN handlers \ {i} |-> handlers[j]]
  /\ UNCHANGED ctos

\* Server::remove
remove(i) ==
  /\ handlers' = [j \in DOMAIN handlers \ {i} |-> handlers[j]]
  /\ ctos' = [c \in DOMAIN ctos \ {handlers[i].client} |-> ctos[c]]

\* What Server::on_read and retransmitcb do with what Handler::on_write returned.
Written(i, r) ==
  IF r.rv \in {"OK", "CLOSE_WAIT", "SEND_NON_FATAL"}
  THEN /\ handlers' = [handlers EXCEPT ![i] = r.h] /\ UNCHANGED ctos
       /\ swev' = (swev \/ r.rv = "SEND_NON_FATAL")
  ELSE remove(i) /\ UNCHANGED swev

Datagram ==
  /\ serving /\ ndatagrams < MaxDatagrams
  /\ ndatagrams' = ndatagrams + 1
  /\ UNCHANGED serving

\* Server::on_read, a packet with a connection id that is in neither map: a new
\* Handler is kept if it takes the packet and can write.
RecvNew(c, i) ==
  /\ Datagram
  /\ c \notin DOMAIN ctos /\ i \notin drawn
  /\ drawn' = drawn \cup {i}
  /\ \E r \in handler_on_read(Handler(c)) :
       IF r.rv # "OK" THEN UNCHANGED <<handlers, ctos, swev>>
       ELSE \E w \in handler_on_write(r.h) :
              IF w.rv \notin {"OK", "SEND_NON_FATAL"} THEN UNCHANGED <<handlers, ctos, swev>>
              ELSE /\ handlers' = [j \in DOMAIN handlers \cup {i} |-> IF j = i THEN w.h ELSE handlers[j]]
                   /\ ctos' = [d \in DOMAIN ctos \cup {c} |-> IF d = c THEN i ELSE ctos[d]]
                   /\ swev' = (swev \/ w.rv = "SEND_NON_FATAL")

\* The Handler that handlers_ or ctos_ finds: the closing period repeats
\* CONNECTION_CLOSE, the draining period ignores the packet.
RecvKnown(i) ==
  /\ Datagram
  /\ LET h == handlers[i]
     IN  CASE h.conn = "closing" ->
                \E r \in send_conn_close(h) :
                  /\ UNCHANGED swev
                  /\ IF r.rv = "SEND_FATAL" THEN remove(i)
                     ELSE handlers' = [handlers EXCEPT ![i] = r.h] /\ UNCHANGED ctos
           [] h.draining /\ h.conn # "closing" -> UNCHANGED <<handlers, ctos, swev>>
           [] OTHER ->
                \E r \in handler_on_read(h) :
                  CASE r.rv = "OK" -> \E w \in handler_on_write(r.h) : Written(i, w)
                    [] r.rv = "CLOSE_WAIT" ->
                         handlers' = [handlers EXCEPT ![i] = r.h] /\ UNCHANGED <<ctos, swev>>
                    [] OTHER -> remove(i) /\ UNCHANGED swev
  /\ UNCHANGED drawn

\* Server::on_read: a client that still uses its own connection id is found
\* through ctos_, and the Handler found there exists.
RecvForwarded(c) ==
  /\ c \in DOMAIN ctos
  /\ RecvKnown(ctos[c])

\* Mutant: the draining period starts again and again.
DrainsAgain(i) ==
  /\ serving /\ handlers[i].timer
  /\ IF handlers[i].conn = "closing" THEN remove(i)
     ELSE handlers' = [handlers EXCEPT ![i] = start_draining_period(@)] /\ UNCHANGED ctos
  /\ UNCHANGED <<swev, drawn, ndatagrams, serving>>

\* timeoutcb: the idle timeout, or the end of the closing or draining period.
timeoutcb(i) ==
  /\ serving /\ handlers[i].timer
  /\ IF handlers[i].conn = "closing" \/ handlers[i].draining THEN remove(i)
     ELSE handlers' = [handlers EXCEPT ![i] = start_draining_period(@)] /\ UNCHANGED ctos
  /\ UNCHANGED <<swev, drawn, ndatagrams, serving>>

\* retransmitcb
retransmitcb(i) ==
  /\ serving /\ handlers[i].rttimer
  /\ \E w \in handler_on_write([handlers[i] EXCEPT !.rttimer = FALSE]) : Written(i, w)
  /\ UNCHANGED <<drawn, ndatagrams, serving>>

\* swritecb, Server::on_write: the Handlers in the order of their ids, up to the
\* first whose packet is refused; the rest waits for the next time.
ServerWritable ==
  /\ serving /\ swev
  /\ LET ways == [i \in DOMAIN handlers |-> handler_on_write(handlers[i])]
     IN  \E w \in [DOMAIN handlers -> UNION {ways[i] : i \in DOMAIN handlers}] :
           /\ \A i \in DOMAIN handlers : w[i] \in ways[i]
           /\ LET refused == {i \in DOMAIN handlers : w[i].rv = "SEND_NON_FATAL"}
                  called  == {i \in DOMAIN handlers : \A j \in refused : i <= j}
                  removed == {i \in called : w[i].rv \notin {"OK", "CLOSE_WAIT", "SEND_NON_FATAL"}}
              IN  /\ handlers' = [i \in DOMAIN handlers \ removed |->
                                    IF i \in called THEN w[i].h ELSE handlers[i]]
                  /\ ctos' = [c \in DOMAIN ctos \ {handlers[i].client : i \in removed} |-> ctos[c]]
                  /\ swev' = (refused # {})
  /\ UNCHANGED <<drawn, ndatagrams, serving>>

\* SIGINT: Server::disconnect closes and removes all Handlers, Server::close.
ServerDisconnect ==
  /\ serving
  /\ serving' = FALSE /\ handlers' = <<>> /\ ctos' = <<>> /\ swev' = FALSE
  /\ UNCHANGED <<drawn, ndatagrams>>

ServerLoop ==
  \/ \E c \in Clients : RecvForwarded(c) \/ \E i \in ConnIds : RecvNew(c, i)
  \/ \E i \in DOMAIN handlers : RecvKnown(i) \/ timeoutcb(i) \/ retransmitcb(i)
  \/ ServerWritable
  \/ ServerDisconnect

ServerSpec == ServerInit /\ [][ServerLoop]_server_vars

\* The event loop calls timeoutcb for a timer that is active: datagrams, which
\* may put it off, end.
ServerFairness == WF_server_vars(\E i \in DOMAIN handlers : timeoutcb(i))

-----------------------------------------------------------------------------
(* Properties *)

\* A Handler's timer runs, so it is not there for ever; one that is closing has its
\* CONNECTION_CLOSE to repeat (the assert in send_conn_close), will send nothing
\* else, and retransmits nothing.
Prepared(h) ==
  /\ h.timer
  /\ h.conn = "closing" => h.closebuf /\ h.sendbuf # "packet" /\ ~h.rttimer

\* Packets find their connection: every entry of ctos_ leads to the Handler of
\* that client and every Handler has one (the assert in Server::on_read), which
\* will end, and can answer while it is closing.
RoutesAgree ==
  /\ \A c \in DOMAIN ctos : ctos[c] \in DOMAIN handlers /\ handlers[ctos[c]].client = c
  /\ \A i \in DOMAIN handlers :
       /\ handlers[i].client \in DOMAIN ctos /\ ctos[handlers[i].client] = i
       /\ Prepared(handlers[i])

\* The states of a Handler.
HandlerState ==
  [client : Clients, conn : {"handshake", "post", "closing", "draining"}, draining : BOOLEAN,
   timer : BOOLEAN, rttimer : BOOLEAN, sendbuf : {"empty", "packet", "close"}, closebuf : BOOLEAN]

\* The invariant from which it follows: connection ids in use have been drawn, so
\* that a new one replaces no Handler.
HandlersInv ==
  /\ handlers \in [DOMAIN handlers -> HandlerState] /\ ctos \in [DOMAIN ctos -> ConnIds]
  /\ DOMAIN handlers \subseteq drawn /\ drawn \subseteq ConnIds
  /\ RoutesAgree

\* No Handler is kept for ever, whatever fails and whatever the peer does:
\* timeoutcb, the closing period and the draining period.
HandlersEnd == \A i \in ConnIds : i \in DOMAIN handlers ~> i \notin DOMAIN handlers
=============================================================================
