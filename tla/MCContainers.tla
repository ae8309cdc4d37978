---------------------------- MODULE MCContainers ----------------------------
(***************************************************************************)
(* The library's data structures, for model checking: the reorder buffer   *)
(* (RobList), the priority queue (Pq), the hash map (Map) and the ring     *)
(* (Ringbuf).  They share no state; structure says which of them a         *)
(* behaviour is about.                                                     *)
(***************************************************************************)
EXTENDS RobList, Pq, Map, Ringbuf

VARIABLE structure

containerVars == <<structure, listVars, pq_vars, map_vars, ring_vars>>

ContainersInit ==
  /\ structure \in {"rob", "pq", "map", "ringbuf"}
  /\ Init /\ PqInit /\ MapInit /\ ngtcp2_ringbuf_init

ContainersNext ==
  \/ structure = "rob" /\ Next /\ UNCHANGED <<structure, pq_vars, map_vars, ring_vars>>
  \/ structure = "pq" /\ PqNext /\ UNCHANGED <<structure, listVars, map_vars, ring_vars>>
  \/ structure = "map" /\ MapNext /\ UNCHANGED <<structure, listVars, pq_vars, ring_vars>>
  \/ structure = "ringbuf" /\ RingNext /\ UNCHANGED <<structure, listVars, pq_vars, map_vars>>

ContainersSpec == ContainersInit /\ [][ContainersNext]_containerVars
=============================================================================
