------------------------------ MODULE LruCache ------------------------------
(***************************************************************************)
(* The LRU cache of index and dictionary tables, from a value to a primary *)
(* key (crate lru, as table_index_write.rs and table_dict_write.rs use it).*)
(* pk is the mapping, recent the cached values, most recently used first.  *)
(* A capacity of 0 stands for a table without cache.                       *)
(***************************************************************************)
EXTENDS Naturals, Sequences, SequencesExt

CONSTANTS Value, None, LruCapacity

EmptyCache == [pk |-> [v \in Value |-> None], recent |-> <<>>]

MoveToFront(s, v) == <<v>> \o RemoveFirst(s, v)

\* get: a hit makes the entry the most recent one.
CacheGet(c, v) ==
  IF c.pk[v] = None THEN c ELSE [c EXCEPT !.recent = MoveToFront(c.recent, v)]

\* put: a new entry in a full cache replaces the least recent one.
CachePut(c, v, k) ==
  LET full == c.pk[v] = None /\ Len(c.recent) = LruCapacity
      pk == IF full THEN [c.pk EXCEPT ![Last(c.recent)] = None] ELSE c.pk
      recent == IF full THEN Front(c.recent) ELSE c.recent
  IN  IF LruCapacity = 0 THEN c
      ELSE [pk |-> [pk EXCEPT ![v] = k], recent |-> MoveToFront(recent, v)]

CachePop(c, v) ==
  [pk |-> [c.pk EXCEPT ![v] = None], recent |-> RemoveFirst(c.recent, v)]
=============================================================================
