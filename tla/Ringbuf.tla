------------------------------ MODULE Ringbuf ------------------------------
(***************************************************************************)
(* The ring of lib/ngtcp2_ringbuf.c, in which ngtcp2_acktr keeps the ACK   *)
(* frames it has sent: the newest is in front, and when the ring is full   *)
(* it takes the place of the oldest.                                       *)
(***************************************************************************)
EXTENDS Integers, Sequences

CONSTANTS
  nmemb,       \* elements of the ring, a power of 2
  ElemSize,    \* rb->size: the size of an element
  Elems        \* what is stored

\* A ring has elements, and an element a size.
ASSUME RingAssumption == nmemb \in Nat \ {0} /\ ElemSize \in Nat \ {0}

VARIABLES
  rb,          \* [buf, first, len]
  newest       \* the elements pushed and not cut off, the newest first

ring_vars == <<rb, newest>>

\* x & (nmemb - 1)
Mask(x) == x % nmemb

\* first is derived from the size of an element, and not from nmemb.
ngtcp2_ringbuf_init ==
  /\ rb = [buf |-> [i \in 0 .. nmemb - 1 |-> "uninitialized"], first |-> ElemSize - 1, len |-> 0]
  /\ newest = <<>>

ngtcp2_ringbuf_get(offset) == rb.buf[Mask(rb.first + offset)]

\* Mutant: the length is not bounded by the number of elements.
PushUnbounded(x) ==
  LET first == Mask(rb.first - 1)
  IN  /\ rb' = [buf |-> [rb.buf EXCEPT ![first] = x], first |-> first, len |-> rb.len + 1]
      /\ newest' = IF Len(newest) < nmemb THEN <<x>> \o newest
                   ELSE <<x>> \o SubSeq(newest, 1, nmemb - 1)

\* The caller fills the element.
ngtcp2_ringbuf_push_front(x) ==
  LET first == Mask(rb.first - 1)
  IN  /\ rb' = [buf |-> [rb.buf EXCEPT ![first] = x], first |-> first,
                len |-> IF rb.len + 1 < nmemb THEN rb.len + 1 ELSE nmemb]
      /\ newest' = IF Len(newest) < nmemb THEN <<x>> \o newest
                   ELSE <<x>> \o SubSeq(newest, 1, nmemb - 1)

\* ngtcp2_acktr_recv_ack cuts at an element that it has found.
ngtcp2_ringbuf_resize(len) ==
  /\ len < rb.len
  /\ rb' = [rb EXCEPT !.len = len] /\ newest' = SubSeq(newest, 1, len)

RingNext ==
  \/ \E x \in Elems : ngtcp2_ringbuf_push_front(x)
  \/ \E len \in 0 .. nmemb : ngtcp2_ringbuf_resize(len)

RingSpec == ngtcp2_ringbuf_init /\ [][RingNext]_ring_vars

-----------------------------------------------------------------------------
(* Properties *)

\* However often the ring has gone round and been cut, it holds the newest
\* elements in order, and as many of them as it says.
RingNewestFirst ==
  /\ rb.len = Len(newest) /\ rb.len <= nmemb
  /\ \A i \in 0 .. rb.len - 1 : ngtcp2_ringbuf_get(i) = newest[i + 1]

\* The invariant from which it follows: first is a place of the ring as soon as
\* there is an element, whatever size it was derived from.
RingInv ==
  /\ rb.buf \in [0 .. nmemb - 1 -> Elems \cup {"uninitialized"}]
  /\ rb = [buf |-> rb.buf, first |-> rb.first, len |-> rb.len]
  /\ rb.first \in Nat /\ rb.len \in 0 .. nmemb /\ newest \in Seq(Elems)
  /\ rb.len > 0 => rb.first < nmemb
  /\ RingNewestFirst
=============================================================================
