----------------------------- MODULE IndexTable -----------------------------
(***************************************************************************)
(* The table of an indexed column (redbit/src/storage/table_index_write.rs *)
(* and table_index_read.rs): primary key -> value, value -> primary keys   *)
(* and a cache from a value to one of its keys.  A batch of a flush is     *)
(* inserted pair by pair in key order (Run 1); the reverse rows follow in  *)
(* one go, in value order (Run 2).                                         *)
(***************************************************************************)
EXTENDS CachedTable

ASSUME IndexAssumption ==
  /\ Key \subseteq Nat /\ None \notin Key /\ None \notin Value
  /\ LruCapacity \in Nat

VARIABLES
  cache,         \* Value -> a key that has it
  index_by_pk,   \* Key -> Value
  pk_by_index    \* Value -> set of keys

vars == <<index_by_pk, pk_by_index, cache, batch, todo>>

-----------------------------------------------------------------------------
get_value(k) == index_by_pk[k]

index_keys(v) == pk_by_index[v]

\* The key a query by value resolves to: cached, or the first one in the table.
AnyForIndex(v) ==
  IF cache.pk[v] # None THEN cache.pk[v]
  ELSE IF pk_by_index[v] = {} THEN None ELSE Min(pk_by_index[v])

Init ==
  /\ index_by_pk = NoBatch /\ pk_by_index = [v \in Value |-> {}]
  /\ cache = EmptyCache
  /\ batch = NoBatch /\ todo = {}

\* A write transaction opens the tables with a cache of its own.
NewTransaction ==
  /\ idle
  /\ cache' = EmptyCache
  /\ UNCHANGED <<index_by_pk, pk_by_index, batch, todo>>

\* A restriction of the callers, not of the table: rows are written under keys that
\* are free.  An overwrite would leave the reverse row of the old value; callers
\* delete a block before they store another one under its height.
insert_kv(k, v) ==
  /\ idle /\ index_by_pk[k] = None
  /\ index_by_pk' = [index_by_pk EXCEPT ![k] = v]
  /\ pk_by_index' = [pk_by_index EXCEPT ![v] = @ \cup {k}]
  /\ cache' = CachePut(cache, v, k)
  /\ UNCHANGED <<batch, todo>>

\* Mutant: the pass over the batch visits keys that have no row in it.
InsertManyAllKeys(pairs) ==
  /\ idle
  /\ \A k \in Key : pairs[k] # None => index_by_pk[k] = None
  /\ batch' = pairs
  /\ todo' = Key
  /\ UNCHANGED <<index_by_pk, pk_by_index, cache>>

\* A flush hands over a batch whose keys are in strict order.
insert_many_sorted_by_key(pairs) ==
  /\ idle
  /\ \A k \in Key : pairs[k] # None => index_by_pk[k] = None
  /\ batch' = pairs
  /\ todo' = {k \in Key : pairs[k] # None}
  /\ UNCHANGED <<index_by_pk, pk_by_index, cache>>

\* Run 1, one pair.
InsertPair ==
  /\ todo # {}
  /\ LET k == Min(todo)
     IN  /\ index_by_pk' = [index_by_pk EXCEPT ![k] = batch[k]]
         /\ cache' = CachePut(cache, batch[k], k)
         /\ todo' = todo \ {k}
  /\ UNCHANGED <<pk_by_index, batch>>

\* Mutant: a value keeps the last row of the batch only.
InsertReverseLast ==
  /\ ~idle /\ todo = {}
  /\ pk_by_index' = [v \in Value |-> LET ks == {k \in Key : batch[k] = v}
                                     IN  pk_by_index[v] \cup (IF ks = {} THEN {} ELSE {Max(ks)})]
  /\ batch' = NoBatch
  /\ UNCHANGED <<index_by_pk, cache, todo>>

\* Run 2.
InsertReverse ==
  /\ ~idle /\ todo = {}
  /\ pk_by_index' = [v \in Value |-> pk_by_index[v] \cup {k \in Key : batch[k] = v}]
  /\ batch' = NoBatch
  /\ UNCHANGED <<index_by_pk, cache, todo>>

\* Mutant: the value stays cached when one of its keys goes.
DeleteKeepsCache(k) ==
  /\ idle
  /\ LET v == index_by_pk[k]
     IN  /\ v # None
         /\ index_by_pk' = [index_by_pk EXCEPT ![k] = None]
         /\ pk_by_index' = [pk_by_index EXCEPT ![v] = @ \ {k}]
         /\ UNCHANGED <<cache, batch, todo>>

\* The row and its reverse go; the value's cache entry goes with a reverse row.
delete_kv(k) ==
  /\ idle
  /\ LET v == index_by_pk[k]
     IN  /\ v # None
         /\ index_by_pk' = [index_by_pk EXCEPT ![k] = None]
         /\ pk_by_index' = [pk_by_index EXCEPT ![v] = @ \ {k}]
         /\ cache' = IF k \in pk_by_index[v] THEN CachePop(cache, v) ELSE cache
  /\ UNCHANGED <<batch, todo>>

get_any_for_index(v) ==
  /\ idle
  /\ cache' = CacheGet(cache, v)
  /\ UNCHANGED <<index_by_pk, pk_by_index, batch, todo>>

Next ==
  \/ NewTransaction
  \/ \E k \in Key : delete_kv(k) \/ \E v \in Value : insert_kv(k, v)
  \/ \E pairs \in [Key -> Value \cup {None}] \ {NoBatch} : insert_many_sorted_by_key(pairs)
  \/ InsertPair \/ InsertReverse
  \/ \E v \in Value : get_any_for_index(v)

Spec == Init /\ [][Next]_vars

-----------------------------------------------------------------------------
\* The tables and the cache map keys and values to each other, and Run 1 only
\* has keys of the batch left.
TypeOK ==
  /\ index_by_pk \in [Key -> Value \cup {None}]
  /\ pk_by_index \in [Value -> SUBSET Key]
  /\ cache.pk \in [Value -> Key \cup {None}]
  /\ batch \in [Key -> Value \cup {None}]
  /\ todo \subseteq {k \in Key : batch[k] # None}

\* Between operations the two directions of the index are inverse to each
\* other: a query by value finds exactly the keys that have the value, however
\* inserts, batches and deletes followed each other.
IndexInverse ==
  idle => \A v \in Value : index_keys(v) = {k \in Key : get_value(k) = v}

\* get_any_for_index answers None exactly for values no key has, and otherwise
\* with a key that has the value at that moment: a cached key is never one that
\* was deleted or given another value, evictions and reopened caches included.
AnyIsAKey ==
  idle => \A v \in Value :
            LET any == AnyForIndex(v)
            IN  IF any = None THEN index_keys(v) = {} ELSE any \in index_keys(v)

=============================================================================
