--------------------------------- MODULE Pq ---------------------------------
(***************************************************************************)
(* The priority queue of lib/ngtcp2_pq.c, in which ngtcp2_rtb keeps its    *)
(* packets by the time they expire: a binary heap in an array, whose       *)
(* entries know their index, so that an entry can be removed from anywhere.*)
(***************************************************************************)
EXTENDS Integers, Sequences, SequencesExt

CONSTANTS
  Entries,     \* ngtcp2_pq_entry objects
  Keys,        \* what pq->less compares
  MaxOps       \* bound: calls other than ngtcp2_pq_push

VARIABLES
  pq,          \* [q, index, key]: pq->q up to pq->length, each entry's index and key
  held,        \* the entries that the caller has put in and not taken out
  ops,         \* calls other than ngtcp2_pq_push
  pq_assert    \* the assertion of ngtcp2_pq_remove has never failed

pq_vars == <<pq, held, ops, pq_assert>>

PqInit ==
  /\ pq = [q |-> <<>>, index |-> [e \in Entries |-> 0], key |-> [e \in Entries |-> 0]]
  /\ held = {} /\ ops = 0 /\ pq_assert = TRUE

\* Positions are those of C, from 0; h is the queue on its way.
Length(h) == Len(h.q)
At(h, i) == h.q[i + 1]
less(h, i, j) == h.key[At(h, i)] < h.key[At(h, j)]
Put(h, i, e) == [h EXCEPT !.q[i + 1] = e, !.index[e] = i]
Shrink(h) == [h EXCEPT !.q = Front(@)]

swap(h, i, j) == Put(Put(h, i, At(h, j)), j, At(h, i))

RECURSIVE bubble_up(_, _)
bubble_up(h, i) ==
  LET parent == (i - 1) \div 2
  IN  IF i = 0 \/ ~less(h, i, parent) THEN h ELSE bubble_up(swap(h, parent, i), parent)

RECURSIVE bubble_down(_, _)
bubble_down(h, i) ==
  LET l   == 2 * i + 1
      ml  == IF l < Length(h) /\ less(h, l, i) THEN l ELSE i
      min == IF l + 1 < Length(h) /\ less(h, l + 1, ml) THEN l + 1 ELSE ml
  IN  IF min = i THEN h ELSE bubble_down(swap(h, i, min), min)

Pop(h) == bubble_down(Shrink(Put(h, 0, At(h, Length(h) - 1))), 0)

\* Mutant: the entry that takes the place of the removed one only sinks.
TakeOutSinks(h, e) ==
  LET i == h.index[e]
  IN  IF i = 0 THEN Pop(h)
      ELSE IF i = Length(h) - 1 THEN Shrink(h)
      ELSE bubble_down(Shrink(Put(h, i, At(h, Length(h) - 1))), i)

\* The last entry takes the place of the removed one, and sinks or rises.
TakeOut(h, e) ==
  LET i     == h.index[e]
      moved == Shrink(Put(h, i, At(h, Length(h) - 1)))
  IN  IF i = 0 THEN Pop(h)
      ELSE IF i = Length(h) - 1 THEN Shrink(h)
      ELSE IF h.key[e] < h.key[At(moved, i)] THEN bubble_down(moved, i)
      ELSE bubble_up(moved, i)

\* The caller is done with an entry that it has taken out.
Freed(h, e) == [h EXCEPT !.index[e] = 0, !.key[e] = 0]

-----------------------------------------------------------------------------
\* Growing the array may fail; nothing has changed then.
ngtcp2_pq_push(e, k) ==
  LET h == [pq EXCEPT !.q = Append(@, e), !.key[e] = k, !.index[e] = Length(pq)]
  IN  /\ e \notin held
      /\ pq' = bubble_up(h, Length(pq))
      /\ held' = held \cup {e}
      /\ UNCHANGED <<ops, pq_assert>>

ngtcp2_pq_pop ==
  /\ Length(pq) > 0
  /\ held' = held \ {At(pq, 0)} /\ pq' = Freed(Pop(pq), At(pq, 0))
  /\ UNCHANGED pq_assert

ngtcp2_pq_remove(e) ==
  /\ e \in held
  /\ IF pq.index[e] < Length(pq) /\ At(pq, pq.index[e]) = e
     THEN pq' = Freed(TakeOut(pq, e), e) /\ UNCHANGED pq_assert
     ELSE pq_assert' = FALSE /\ UNCHANGED pq
  /\ held' = held \ {e}

\* The callback gives every entry the key that f makes of its own.
ngtcp2_pq_update(f) ==
  LET h    == [pq EXCEPT !.key = [e \in Entries |-> IF e \in held THEN f[@[e]] ELSE @[e]]]
      last == Length(pq)
  IN  /\ Length(pq) > 0 /\ h # pq
      /\ pq' = FoldLeft(LAMBDA g, i : bubble_down(g, last - i), h, [i \in 1 .. last |-> i])
      /\ UNCHANGED <<held, pq_assert>>

\* Entries that are not in the queue are all alike: any one will do.
NewEntry == IF held = Entries THEN {} ELSE {CHOOSE e \in Entries : e \notin held}

PqNext ==
  \/ \E e \in NewEntry, k \in Keys : ngtcp2_pq_push(e, k)
  \/ /\ ops < MaxOps /\ ops' = ops + 1
     /\ \/ ngtcp2_pq_pop
        \/ \E e \in Entries : ngtcp2_pq_remove(e)
        \/ \E f \in [Keys -> Keys] : ngtcp2_pq_update(f)

-----------------------------------------------------------------------------
(* Properties *)

\* Whatever was pushed, popped, removed from the middle or given another key,
\* the queue holds exactly the entries that the caller put in, no entry comes
\* before its parent, so that ngtcp2_pq_top is one with the least key, now and
\* after further pops, and every entry's index is its place, so that the
\* assertion of ngtcp2_pq_remove holds.
TopIsLeast ==
  /\ pq_assert
  /\ Length(pq) > 0 => \A e \in held : pq.key[At(pq, 0)] <= pq.key[e]
  /\ \A i \in 1 .. Length(pq) - 1 : ~less(pq, i, (i - 1) \div 2)
  /\ ToSet(pq.q) = held /\ IsInjective(pq.q)
  /\ \A i \in 0 .. Length(pq) - 1 : pq.index[At(pq, i)] = i
=============================================================================
