----------------------------- MODULE MCExamples -----------------------------
(***************************************************************************)
(* The example programs for TLC: the streams of a connection, the server's *)
(* connections, and the client's event loop are explored one by one, in    *)
(* one run: program says which, and the other two have nothing to do.      *)
(***************************************************************************)
EXTENDS AppStreams, Handlers, ClientLoop

VARIABLE program

examples_vars == <<app_vars, server_vars, client_vars, program>>

MCServer(ids, greeting, sends, plain, responses) ==
  [role |-> "server", ids |-> ids, win |-> 2, sends |-> sends, greeting |-> greeting,
   responses |-> responses, plain |-> plain, nstreams |-> 0, allowed |-> {}, resumption |-> FALSE,
   interactive |-> FALSE, file |-> <<>>]

MCClient(ids, sends, ok, resumption, tty, file) ==
  [role |-> "client", ids |-> ids, win |-> 1, sends |-> sends, greeting |-> {}, responses |-> {},
   plain |-> TRUE,
   nstreams |-> Cardinality(ids), allowed |-> ok, resumption |-> resumption,
   interactive |-> tty, file |-> file]

\* A greeting and a request on a socket that takes all; one request, and two, on
\* one that does not, two from a plain client; an upload on two streams; 0-RTT with and without stored
\* transport parameters; interactive input.
MCPlans ==
  {MCServer({3, 4}, {3}, {9}, FALSE, {<<1>>, <<1, 0>>, <<>>, <<1, 2>>}),
   MCServer({4}, {}, {0, 1, 2}, FALSE, {<<2>>, <<>>, <<1, 0>>}),
   MCServer({4, 8}, {}, {0, 1, 2}, TRUE, {<<1>>}),
   MCClient({4, 8}, {9}, {}, FALSE, FALSE, <<2>>),
   MCClient({4}, {0, 1, 9}, {4}, TRUE, FALSE, <<2>>),
   MCClient({4}, {9}, {}, TRUE, FALSE, <<0>>),
   MCClient({4}, {0, 9}, {}, FALSE, TRUE, <<>>)}

AppIdle ==
  /\ plan = MCClient({4}, {0}, {}, FALSE, FALSE, <<>>)
  /\ streams = <<>> /\ strms = [id \in {4} |-> Strm("none", {}, 1)] /\ allowed = {} /\ nstreams_done = 0
  /\ early = "off" /\ stdin = FALSE /\ input = 0 /\ pkts = {} /\ sendbuf = <<>> /\ ctl = FALSE
  /\ wev = FALSE /\ rttimer = FALSE /\ over = "idle"

ServerIdle ==
  /\ handlers = <<>> /\ ctos = <<>> /\ swev = FALSE /\ drawn = {} /\ ndatagrams = 0 /\ serving = FALSE

ClientIdle ==
  /\ interactive = FALSE /\ client = [Connecting EXCEPT !.active = {}]
  /\ reads = 0 /\ lines = 0 /\ ended = TRUE

ExamplesInit ==
  \/ program = "streams" /\ AppInit /\ ServerIdle /\ ClientIdle
  \/ program = "server" /\ AppIdle /\ ServerInit /\ ClientIdle
  \/ program = "client" /\ AppIdle /\ ServerIdle /\ ClientInit

ExamplesNext ==
  \/ program = "streams" /\ AppNext /\ UNCHANGED <<server_vars, client_vars, program>>
  \/ program = "server" /\ ServerLoop /\ UNCHANGED <<app_vars, client_vars, program>>
  \/ program = "client" /\ ClientLoopNext /\ UNCHANGED <<app_vars, server_vars, program>>

ExamplesSpec ==
  /\ ExamplesInit /\ [][ExamplesNext]_examples_vars
  /\ AppFairness /\ ServerFairness /\ ClientLoopFairness
=============================================================================
