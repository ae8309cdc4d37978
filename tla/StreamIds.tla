----------------------------- MODULE StreamIds -----------------------------
(***************************************************************************)
(* Stream ids of one kind (bidirectional or unidirectional), of streams    *)
(* that one endpoint opens and the other accepts: the tracker of used ids  *)
(* (lib/ngtcp2_idtr.c), the limits that MAX_STREAM_ID frames extend, and    *)
(* the frames that create a stream or find it deleted (lib/ngtcp2_conn.c). *)
(*                                                                         *)
(* An id here is the number that id_from_stream_id makes of a stream id;   *)
(* consecutive stream ids of one kind differ by 4, consecutive ids by 1.   *)
(* Once a stream is open, any frame for it may arrive at any time.         *)
(***************************************************************************)
EXTENDS Ranges, FiniteSets

CONSTANTS
  FirstId,   \* the first id: 1 for bidirectional streams of a client, whose
             \* stream 0 is in use from the start, otherwise 0
  MaxIds,    \* settings.max_stream_id_*: the last id that may be opened first
  MAX_ID,    \* the id of the largest stream id, NGTCP2_MAX_VARINT
  LastId     \* bound: the last id that is opened

\* The first stream that may be opened is at most the one behind the limit, and
\* the ids that are used lie below the end of the tracker's last gap.
ASSUME StreamIdsAssumption ==
  /\ FirstId \in Nat /\ LastId \in Nat /\ MaxIds \in Nat /\ MAX_ID \in Nat
  /\ FirstId <= MaxIds + 1 /\ MaxIds <= MAX_ID
  /\ FirstId <= LastId /\ LastId < UINT64_MAX

Ids == FirstId .. LastId

VARIABLES
  next_local_stream_id, max_local_stream_id,   \* opener
  told,                 \* opener: argument of the last extend_max_stream_id
  gap,                  \* acceptor: remote_*_idtr, the ids that are not used
  strms,                \* acceptor: conn->strms
  deleted,              \* acceptor: streams that were deleted
  seen,                 \* acceptor: ids for which a frame has been processed
  unsent_max_remote_stream_id, max_remote_stream_id,
  window_start,         \* acceptor: remote_stream_id_*_window_start
  sent_max,             \* MAX_STREAM_ID frames that were sent
  err                   \* the acceptor found NGTCP2_ERR_STREAM_ID

opener == <<next_local_stream_id, max_local_stream_id, told>>
table  == <<gap, strms, deleted, seen>>
window == <<unsent_max_remote_stream_id, max_remote_stream_id, window_start>>
vars   == <<opener, table, window, sent_max, err>>

\* ngtcp2_idtr_open, for an id that is not in use.
ngtcp2_idtr_open(gaps, id) == UNION {CutGap(g, Range_(id, id + 1)) : g \in gaps}

\* ngtcp2_idtr_open fails with NGTCP2_ERR_STREAM_IN_USE, and
\* ngtcp2_idtr_is_open returns nonzero: the walk comes to a gap behind the id.
InUse(gaps, id) ==
  \A g \in gaps : id < g.end => id < g.begin

\* ngtcp2_idtr_init; ngtcp2_conn_server_new, which opens stream 0; conn_new
Init ==
  /\ next_local_stream_id = FirstId /\ max_local_stream_id = MaxIds /\ told = MaxIds
  /\ gap = {Range_(FirstId, UINT64_MAX)}
  /\ strms = {} /\ deleted = {} /\ seen = {}
  /\ unsent_max_remote_stream_id = MaxIds /\ max_remote_stream_id = MaxIds
  /\ window_start = 0
  /\ sent_max = {} /\ err = FALSE

-----------------------------------------------------------------------------
(* The opener *)

\* ngtcp2_conn_open_bidi_stream, ngtcp2_conn_open_uni_stream
ngtcp2_conn_open_stream ==
  /\ ~err /\ next_local_stream_id \in Ids
  /\ next_local_stream_id <= max_local_stream_id
  /\ next_local_stream_id' = next_local_stream_id + 1
  /\ UNCHANGED <<max_local_stream_id, told, table, window, sent_max, err>>

\* conn_recv_max_stream_id, with the callback extend_max_stream_id
conn_recv_max_stream_id(m) ==
  /\ ~err /\ m \in sent_max
  /\ max_local_stream_id' = IF m > max_local_stream_id THEN m ELSE max_local_stream_id
  /\ told' = m
  /\ UNCHANGED <<next_local_stream_id, table, window, sent_max, err>>

-----------------------------------------------------------------------------
(* The acceptor *)

\* conn_recv_stream, conn_recv_max_stream_data, conn_recv_rst_stream and
\* conn_recv_stop_sending find no stream and ask the tracker whether the id is
\* new.  created is the set of streams they create; an id beyond the limit is
\* an error.
RecvNewId(id, created) ==
  LET beyond == max_remote_stream_id < id
  IN  /\ err' = beyond
      /\ strms' = IF beyond THEN strms ELSE strms \cup created
      /\ gap' = IF beyond THEN gap ELSE ngtcp2_idtr_open(gap, id)
      /\ seen' = IF beyond THEN seen ELSE seen \cup {id}
      /\ UNCHANGED <<opener, deleted, window, sent_max>>

\* Mutant: only the table of streams is asked whether the stream is new.
RecvCreatesUnlessFound(id) ==
  /\ ~err /\ id < next_local_stream_id /\ id \notin strms
  /\ RecvNewId(id, {id})

\* conn_recv_stream, conn_recv_max_stream_data: the first frame creates the
\* stream, a frame for a deleted stream is ignored.
RecvCreates(id) ==
  /\ ~err /\ id < next_local_stream_id /\ id \notin strms /\ ~InUse(gap, id)
  /\ RecvNewId(id, {id})

\* conn_recv_rst_stream, conn_recv_stop_sending: a frame that comes before
\* the stream is created marks the id as used.
RecvMarks(id) ==
  /\ ~err /\ id < next_local_stream_id /\ id \notin strms /\ ~InUse(gap, id)
  /\ RecvNewId(id, {})

\* Mutant: every deletion grants two ids.
ExtensionTwice == IF window_start < ngtcp2_gaptr_first_gap_offset(gap) THEN 2 ELSE 0

\* Mutant: the window is not extended before all ids of it have been used.
ExtensionLate ==
  IF max_remote_stream_id + 1 < ngtcp2_gaptr_first_gap_offset(gap) THEN 1 ELSE 0

\* handle_remote_stream_id_extension: by how much the limit grows.  The
\* function increments its parameter and not window_start.
Extension ==
  IF /\ unsent_max_remote_stream_id <= MAX_ID - 1
     /\ window_start < ngtcp2_gaptr_first_gap_offset(gap)
  THEN 1 ELSE 0

\* ngtcp2_conn_close_stream, for a stream of the peer.
ngtcp2_conn_close_stream(id) ==
  /\ ~err /\ id \in strms
  /\ strms' = strms \ {id} /\ deleted' = deleted \cup {id}
  /\ unsent_max_remote_stream_id' = unsent_max_remote_stream_id + Extension
  /\ UNCHANGED <<opener, gap, seen, max_remote_stream_id, window_start, sent_max, err>>

\* conn_write_pkt: MAX_STREAM_ID
conn_write_pkt ==
  /\ ~err /\ unsent_max_remote_stream_id > max_remote_stream_id
  /\ sent_max' = sent_max \cup {unsent_max_remote_stream_id}
  /\ max_remote_stream_id' = unsent_max_remote_stream_id
  /\ UNCHANGED <<opener, table, unsent_max_remote_stream_id, window_start, err>>

-----------------------------------------------------------------------------
Next ==
  \/ ngtcp2_conn_open_stream
  \/ conn_write_pkt
  \/ \E m \in sent_max : conn_recv_max_stream_id(m)
  \/ \E id \in Ids :
        \/ RecvCreates(id)
        \/ RecvMarks(id)
        \/ ngtcp2_conn_close_stream(id)

Spec == Init /\ [][Next]_vars

\* The opener opens a stream when it may, its data arrives, every stream is
\* finished at some time, and the newest MAX_STREAM_ID, which is
\* retransmitted, arrives.
FairSpec ==
  /\ Spec
  /\ WF_vars(ngtcp2_conn_open_stream)
  /\ WF_vars(conn_write_pkt)
  /\ WF_vars(conn_recv_max_stream_id(max_remote_stream_id))
  /\ \A id \in Ids : WF_vars(RecvCreates(id)) /\ WF_vars(ngtcp2_conn_close_stream(id))

-----------------------------------------------------------------------------
(* Properties *)

TypeOK ==
  /\ next_local_stream_id \in FirstId .. LastId + 1
  /\ max_local_stream_id \in 0 .. MAX_ID /\ told \in 0 .. MAX_ID
  /\ GapsOK(gap)
  /\ strms \subseteq Ids /\ deleted \subseteq Ids /\ seen \subseteq Ids
  /\ max_remote_stream_id \in 0 .. MAX_ID /\ window_start \in Nat
  /\ unsent_max_remote_stream_id \in 0 .. MAX_ID
  /\ err \in BOOLEAN

\* A stream that was deleted is never created again, however late a copy of
\* one of its frames arrives: ngtcp2_idtr holds exactly the ids for which no
\* frame has been processed, in whatever order frames have arrived.
NeverReborn ==
  /\ TypeOK
  /\ \A id \in Ids : InUse(gap, id) <=> id \in seen
  /\ strms \cap deleted = {}

\* The acceptor never has more streams of the peer than its settings allow,
\* although the limit on the ids grows with every stream that is deleted; and
\* an opener that respects MAX_STREAM_ID is never accused of having used an id
\* beyond the limit.
StreamsBounded == ~err /\ Cardinality(strms) <= MaxIds - FirstId + 1

\* The invariant from which both follow: the limits that the opener knows, that
\* are on their way, that are enforced and that are still to be announced are in
\* this order; every id for which a frame was processed lies within the limit
\* enforced; and the limit has grown by at most the number of deleted streams.
StreamIdsInv ==
  /\ NeverReborn /\ ~err
  /\ next_local_stream_id <= max_local_stream_id + 1
  /\ max_local_stream_id <= max_remote_stream_id
  /\ \A m \in sent_max : m \in 0 .. max_remote_stream_id
  /\ max_remote_stream_id <= unsent_max_remote_stream_id
  /\ strms \cup deleted \subseteq seen
  /\ \A id \in seen : id <= max_remote_stream_id
  /\ unsent_max_remote_stream_id <= MaxIds + Cardinality(deleted)

\* The ids that RST_STREAM or STOP_SENDING has marked as used.
Refused == seen \ (strms \cup deleted)

\* The opener can go on for ever: it gets to open every stream it wants, as
\* long as streams are finished and not reset before they are created.
EveryStreamOpened == <>(next_local_stream_id > LastId \/ Refused # {})

\* remote_stream_id_*_window_start is the left edge of the window of remote
\* stream ids (lib/ngtcp2_conn.h:175): the window keeps its size when its
\* right edge is enlarged.
WindowKept == unsent_max_remote_stream_id - window_start = MaxIds

\* ngtcp2_extend_max_stream_id is called every time the maximum stream id is
\* strictly extended (lib/includes/ngtcp2/ngtcp2.h:837), and at no other time.
StrictlyExtended == [][told' # told => told' > told]_vars
=============================================================================
