-------------------------------- MODULE Map --------------------------------
(***************************************************************************)
(* The hash map of lib/ngtcp2_map.c, in which a connection keeps its       *)
(* streams by their identifiers: chains of entries that are linked through *)
(* a field of their own, in a table that doubles when it is three quarters *)
(* full.                                                                   *)
(***************************************************************************)
EXTENDS Integers, FiniteSets, Sequences, Bitwise, Conv, TLC

CONSTANTS
  Nodes,          \* ngtcp2_map_entry objects
  MapKeys,        \* keys
  TableLen0,      \* INITIAL_TABLE_LENGTH
  NULL

VARIABLES
  map,            \* [tablelen, table, size]
  node,           \* entry->key and entry->next
  stored          \* the entries that the caller has in the map

map_vars == <<map, node, stored>>

FreeNode == [key |-> 0, next |-> NULL]
EmptyTable(len) == [h \in 0 .. len - 1 |-> NULL]

\* ngtcp2_map_init
MapInit ==
  /\ map = [tablelen |-> TableLen0, table |-> EmptyTable(TableLen0), size |-> 0]
  /\ node = [e \in Nodes |-> FreeNode]
  /\ stored = {}

\* FNV1a over the octets of the key.  Only the lowest bits matter, and they
\* depend on no others: 2166136261 and 16777619 are 453 and 403 modulo 1024.
Fnv1a ==
  [k \in MapKeys |->
     LET octets == ngtcp2_put_uint(k, 8)
         Fnv[i \in 0 .. 8] ==
           IF i = 0 THEN 453 ELSE ((Fnv[i - 1] ^^ octets[i]) * 403) % 1024
     IN  Fnv[8]]

hash(key, mod) == Fnv1a[key] % mod

\* The entries of a chain, in order.
RECURSIVE Chain(_, _)
Chain(nd, e) == IF e = NULL THEN <<>> ELSE <<e>> \o Chain(nd, nd[e].next)

\* t is [table, node, rv].  An entry that is put into an empty place keeps the
\* next that it has.
insert(t, tablelen, e) ==
  LET h == hash(t.node[e].key, tablelen)
      c == Chain(t.node, t.table[h])
  IN  IF t.table[h] = NULL THEN [t EXCEPT !.table[h] = e]
      ELSE IF \E i \in DOMAIN c : t.node[c[i]].key = t.node[e].key
      THEN [t EXCEPT !.rv = "INVALID_ARGUMENT"]
      ELSE [t EXCEPT !.node[e].next = t.table[h], !.table[h] = e]

\* Mutant: the chains are moved over without being taken apart.
ResizeKeepsLinks(t, len, new) ==
  LET RECURSIVE Move(_, _)
      Move(s, es) == IF es = <<>> THEN s ELSE Move(insert(s, new, Head(es)), Tail(es))
      RECURSIVE Slots(_, _)
      Slots(s, h) == IF h = len THEN s ELSE Slots(Move(s, Chain(t.node, t.table[h])), h + 1)
  IN  Slots([t EXCEPT !.table = EmptyTable(new)], 0)

resize(t, len, new) ==
  LET Unlinked(s, e) == [s EXCEPT !.node[e].next = NULL]
      RECURSIVE Move(_, _)
      Move(s, es) == IF es = <<>> THEN s
                     ELSE Move(insert(Unlinked(s, Head(es)), new, Head(es)), Tail(es))
      RECURSIVE Slots(_, _)
      Slots(s, h) == IF h = len THEN s ELSE Slots(Move(s, Chain(t.node, t.table[h])), h + 1)
  IN  Slots([t EXCEPT !.table = EmptyTable(new)], 0)

\* The table is enlarged before the key is looked for.
Insert(t, e) ==
  LET full == (map.size + 1) * 4 > map.tablelen * 3
      len  == IF full THEN 2 * map.tablelen ELSE map.tablelen
  IN  [len |-> len, t |-> insert(IF full THEN resize(t, map.tablelen, len) ELSE t, len, e)]

-----------------------------------------------------------------------------
\* ngtcp2_strm_init has called ngtcp2_map_entry_init; a stream whose entry is
\* refused is freed.
ngtcp2_map_insert(e, k) ==
  LET nd == [node EXCEPT ![e] = [key |-> k, next |-> NULL]]
      r  == Insert([table |-> map.table, node |-> nd, rv |-> "ok"], e)
  IN  /\ e \notin stored
      /\ map' = [tablelen |-> r.len, table |-> r.t.table,
                 size |-> IF r.t.rv = "ok" THEN map.size + 1 ELSE map.size]
      /\ node' = IF r.t.rv = "ok" THEN r.t.node ELSE [r.t.node EXCEPT ![e] = FreeNode]
      /\ stored' = IF r.t.rv = "ok" THEN stored \cup {e} ELSE stored

ngtcp2_map_find(k) ==
  LET c == Chain(node, map.table[hash(k, map.tablelen)])
      I == {i \in DOMAIN c : node[c[i]].key = k}
  IN  IF I = {} THEN NULL ELSE c[CHOOSE i \in I : \A j \in I : i <= j]

\* dst is the place that points to the entry: the table, or the entry before.
\* The stream is then freed.
ngtcp2_map_remove(k) ==
  LET h == hash(k, map.tablelen)
      c == Chain(node, map.table[h])
  IN  \E i \in DOMAIN c :
        /\ node[c[i]].key = k
        /\ \A j \in 1 .. i - 1 : node[c[j]].key # k
        /\ map' = [map EXCEPT !.size = @ - 1,
                              !.table[h] = IF i = 1 THEN node[c[1]].next ELSE @]
        /\ node' = IF i = 1 THEN [node EXCEPT ![c[i]] = FreeNode]
                   ELSE [node EXCEPT ![c[i - 1]].next = node[c[i]].next, ![c[i]] = FreeNode]
        /\ stored' = stored \ {c[i]}

\* Entries that are not in the map are all alike: any one will do.
NewNode == IF stored = Nodes THEN {} ELSE {CHOOSE e \in Nodes : e \notin stored}

MapNext ==
  \/ \E e \in NewNode, k \in MapKeys : ngtcp2_map_insert(e, k)
  \/ \E k \in MapKeys : ngtcp2_map_remove(k)

\* ngtcp2_map_each, ngtcp2_map_each_free
ngtcp2_map_each ==
  LET RECURSIVE Slots(_)
      Slots(h) == IF h = map.tablelen THEN <<>>
                  ELSE Chain(node, map.table[h]) \o Slots(h + 1)
  IN  Slots(0)

-----------------------------------------------------------------------------
(* Properties *)

\* Through insertions, refused insertions, removals and enlargements of the
\* table, a stream is found by its identifier exactly as long as it is in the
\* map, no two have the same one, ngtcp2_map_each visits each stream once, so
\* that ngtcp2_conn_del frees it once, and the size is right.
StreamsFound ==
  LET each == ngtcp2_map_each
  IN  /\ \A k \in MapKeys :
           LET e == ngtcp2_map_find(k)
           IN  IF e = NULL THEN \A s \in stored : node[s].key # k
               ELSE \A s \in stored : node[s].key = k <=> s = e
      /\ {each[i] : i \in DOMAIN each} = stored
      /\ Len(each) = Cardinality(stored) /\ map.size = Cardinality(stored)
=============================================================================
