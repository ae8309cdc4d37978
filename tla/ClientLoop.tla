----------------------------- MODULE ClientLoop -----------------------------
(***************************************************************************)
(* The event loop of the example client (examples/client.cc): its watchers *)
(* and timers, and Client::disconnect, after which nothing but ev_run's    *)
(* own end is left to happen.  AppStreams has what the client sends.       *)
(*                                                                         *)
(* A call of sendto succeeds, is refused for the moment or fails.  The     *)
(* oldest packet in flight is sent again until its deadline has passed:    *)
(* then the library gives up with NGTCP2_ERR_PKT_TIMEOUT.                  *)
(***************************************************************************)
EXTENDS Integers, FiniteSets

CONSTANTS
  Deadline,      \* retransmissions before NGTCP2_ERR_PKT_TIMEOUT
  MaxReads,      \* bound: times that datagrams are read
  MaxLines       \* bound: times that input is read

VARIABLES
  interactive,   \* config.interactive
  client,        \* the Client, see Connecting
  reads,
  lines,
  ended          \* ev_run has returned

client_vars == <<interactive, client, reads, lines, ended>>

Outcome(c, rv) == [c |-> c, rv |-> rv]

\* Client::send_packet
client_send_packet(c) ==
  {Outcome([c EXCEPT !.sendbuf = "empty"], "OK"), Outcome(c, "SEND_NON_FATAL"),
   Outcome(c, "SEND_FATAL")}

\* Client::handle_error: CONNECTION_CLOSE is written after the handshake only, and
\* what becomes of it is not looked at.
client_handle_error(c) ==
  CASE c.conn = "closing" -> {c}
    [] c.conn = "post"    ->
         {o.c : o \in client_send_packet([c EXCEPT !.conn = "closing", !.sendbuf = "close"])}
    [] OTHER              -> {[c EXCEPT !.sendbuf = "empty"]}

\* Client::disconnect.  An event that was fed to wev_ is not taken back.
disconnect(c) == client_handle_error([c EXCEPT !.active = @ \ {"rttimer", "timer", "stdin", "rev"}])

\* Client::schedule_retransmit
client_schedule_retransmit(c) ==
  IF c.tries = 0 THEN c ELSE [c EXCEPT !.active = @ \cup {"rttimer"}]

\* Client::on_write after sendbuf_ was flushed.  Stream data go out in any state
\* of the connection, and what is refused by the socket ends in sendbuf_.
ClientWritePackets(c) ==
  {Outcome(d, "ERR") : d \in disconnect(c)}
    \cup {Outcome(client_schedule_retransmit([c EXCEPT !.sendbuf = b, !.tries = t]), "OK") :
          b \in {"empty", "packet"}, t \in {c.tries, IF c.tries = 0 THEN 1 ELSE c.tries}}
    \cup {Outcome([c EXCEPT !.sendbuf = "packet", !.tries = IF @ = 0 THEN 1 ELSE @], rv) :
          rv \in {"SEND_NON_FATAL", "SEND_FATAL"}}

\* Client::on_write
client_on_write(c) ==
  UNION {IF o.rv = "OK" THEN ClientWritePackets(o.c) ELSE {o} :
         o \in IF c.sendbuf = "empty" THEN {Outcome(c, "OK")} ELSE client_send_packet(c)}

\* active: the watchers that run; fed: an event that ev_feed_event queued for
\* wev_; tries: 0 if nothing is in flight, or one more than the retransmissions
\* of the oldest packet.
Connecting ==
  [active |-> {"rev", "timer"}, fed |-> FALSE, conn |-> "handshake", sendbuf |-> "empty", tries |-> 0]

\* Client::init, then run calls on_write, whose result it ignores.
ClientInit ==
  /\ interactive \in BOOLEAN
  /\ client \in {o.c : o \in client_on_write(Connecting)}
  /\ reads = 0 /\ lines = 0 /\ ended = FALSE

\* readcb and writecb: only a fatal error of sendto ends the connection here.
ClientWritten(c) ==
  \E o \in client_on_write(c) :
    IF o.rv = "SEND_FATAL" THEN client' \in disconnect(o.c) ELSE client' = o.c

-----------------------------------------------------------------------------
\* readcb, Client::on_read, feed_data: packets are taken, and may complete the
\* handshake, which starts the interactive input, and acknowledge what is in
\* flight; or the library fails; or the peer has closed the connection.
client_readcb ==
  /\ ~ended /\ "rev" \in client.active /\ reads < MaxReads
  /\ reads' = reads + 1
  /\ \/ client' \in disconnect(client)
     \/ client' \in disconnect([client EXCEPT !.conn = "draining"])
     \/ \E conn \in IF client.conn = "handshake" THEN {"handshake", "post"} ELSE {client.conn},
           tries \in {client.tries, 0} \cup (IF client.tries > 0 THEN {1} ELSE {}) :
          ClientWritten([client EXCEPT
            !.conn = conn, !.tries = tries,
            !.active = @ \cup {"timer"}
                         \cup (IF interactive /\ conn # client.conn THEN {"stdin"} ELSE {})])
  /\ UNCHANGED <<interactive, lines, ended>>

\* stdin_readcb: input or its end.
client_stdin_readcb ==
  /\ ~ended /\ "stdin" \in client.active /\ lines < MaxLines
  /\ lines' = lines + 1
  /\ \E a \in {client.active, client.active \ {"stdin"}} :
       client' = [client EXCEPT !.active = a, !.fed = TRUE]
  /\ UNCHANGED <<interactive, reads, ended>>

\* writecb
client_writecb ==
  /\ ~ended /\ client.fed
  /\ ClientWritten([client EXCEPT !.fed = FALSE])
  /\ UNCHANGED <<interactive, reads, lines, ended>>

\* Mutant: the deadline of a packet is not looked at.
RetransmitForEver(c) == client_on_write([c EXCEPT !.tries = IF @ = 0 THEN 0 ELSE 1])

\* The library sends the oldest packet again, or gives up.
ClientRetransmitted(c) ==
  IF c.tries > Deadline THEN {Outcome(d, "ERR") : d \in disconnect([c EXCEPT !.tries = 0])}
  ELSE client_on_write([c EXCEPT !.tries = IF @ = 0 THEN 0 ELSE @ + 1])

\* retransmitcb: everything but success ends the connection.
client_retransmitcb ==
  /\ ~ended /\ "rttimer" \in client.active
  /\ \E o \in ClientRetransmitted([client EXCEPT !.active = @ \ {"rttimer"}]) :
       IF o.rv = "OK" THEN client' = o.c ELSE client' \in disconnect(o.c)
  /\ UNCHANGED <<interactive, reads, lines, ended>>

\* timeoutcb: the idle timeout.
client_timeoutcb ==
  /\ ~ended /\ "timer" \in client.active
  /\ client' \in disconnect(client)
  /\ UNCHANGED <<interactive, reads, lines, ended>>

\* SIGINT, or ev_run finds nothing to wait for; Client::close.
client_close ==
  /\ ~ended
  /\ ended' = TRUE
  /\ \/ client.active = {} /\ ~client.fed
     \/ "rev" \in client.active
  /\ client' \in {[c EXCEPT !.fed = FALSE] : c \in disconnect(client)}
  /\ UNCHANGED <<interactive, reads, lines>>

ClientLoopNext ==
  \/ client_readcb \/ client_stdin_readcb \/ client_writecb
  \/ client_retransmitcb \/ client_timeoutcb \/ client_close

\* The event loop runs timers and queued events, and ends when there are none.
ClientLoopFairness ==
  /\ WF_client_vars(client_writecb)
  /\ WF_client_vars(client_retransmitcb)
  /\ WF_client_vars(client_timeoutcb)
  /\ WF_client_vars(client_close /\ client.active = {})

-----------------------------------------------------------------------------
(* Properties *)

\* The client comes to its end: no watcher keeps ev_run going once the peer is
\* silent, because the idle timer disconnects, and a retransmission that was
\* started afterwards ends with the deadline of the packet.
ClientEnds == <>ended
=============================================================================
