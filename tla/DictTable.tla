----------------------------- MODULE DictTable -----------------------------
(***************************************************************************)
(* The table of a dictionary column (redbit/src/storage/                   *)
(* table_dict_write.rs and table_dict_read.rs): every value is stored once,*)
(* under the first key that had it, its birth id, and every key points to  *)
(* the birth id of its value.  Four tables of redb and a cache from a      *)
(* value to its birth id are kept in step.  A batch of a flush is inserted *)
(* pair by pair in key order (Run 1); the rows that are not keyed by the   *)
(* pair's key follow at the end (Run 2).                                   *)
(***************************************************************************)
EXTENDS CachedTable

ASSUME DictAssumption ==
  /\ Key \subseteq Nat /\ IsFiniteSet(Key) /\ None \notin Key /\ None \notin Value
  /\ LruCapacity \in Nat

VARIABLES
  birth_cache,        \* value -> birth id
  dict_pk_to_keys,    \* birth id -> keys that have its value
  value_by_dict_pk,   \* birth id -> value
  value_to_dict_pk,   \* value -> birth id
  dict_pk_by_key,     \* key -> birth id
  pk_to_keys_batch,   \* deferred rows <<birth id, key>>
  value_to_pk_batch,  \* deferred rows value -> birth id, the last one pushed
  written             \* history: the value last written under each key

tableVars == <<dict_pk_to_keys, value_by_dict_pk, value_to_dict_pk, dict_pk_by_key>>
batchVars == <<batch, todo, pk_to_keys_batch, value_to_pk_batch>>
dictVars == <<tableVars, birth_cache, batchVars, written>>

-----------------------------------------------------------------------------
dict_value(k) ==
  IF dict_pk_by_key[k] = None THEN None ELSE value_by_dict_pk[dict_pk_by_key[k]]

dict_keys(v) ==
  IF value_to_dict_pk[v] = None THEN {} ELSE dict_pk_to_keys[value_to_dict_pk[v]]

\* The birth id of a value: cached or in the table.
BirthOf(v) == IF birth_cache.pk[v] # None THEN birth_cache.pk[v] ELSE value_to_dict_pk[v]

DictInit ==
  /\ dict_pk_to_keys = [k \in Key |-> {}] /\ value_by_dict_pk = NoBatch
  /\ value_to_dict_pk = [v \in Value |-> None] /\ dict_pk_by_key = NoBatch
  /\ birth_cache = EmptyCache
  /\ batch = NoBatch /\ todo = {}
  /\ pk_to_keys_batch = {} /\ value_to_pk_batch = [v \in Value |-> None]
  /\ written = NoBatch

\* A write transaction opens the tables with a cache of its own.
NewDictTransaction ==
  /\ idle
  /\ birth_cache' = EmptyCache
  /\ UNCHANGED <<tableVars, batchVars, written>>

\* A restriction of the callers, not of the table: keys are handed out in increasing
\* order, above every key that is present; nothing here overwrites a row.
Fresh(k) == \A other \in Key : dict_pk_by_key[other] # None => other < k

\* The cache after a pair: a hit is touched, a miss stored.
Seed(v, id) ==
  IF birth_cache.pk[v] # None THEN CacheGet(birth_cache, v) ELSE CachePut(birth_cache, v, id)

\* A known value gets a key more; a new one makes the key its birth id.
dict_insert_kv(k, v) ==
  /\ idle /\ Fresh(k)
  /\ LET birth == BirthOf(v)
         id == IF birth = None THEN k ELSE birth
     IN  /\ dict_pk_by_key' = [dict_pk_by_key EXCEPT ![k] = id]
         /\ dict_pk_to_keys' = [dict_pk_to_keys EXCEPT ![id] = @ \cup {k}]
         /\ value_by_dict_pk' = IF birth = None THEN [value_by_dict_pk EXCEPT ![k] = v]
                                                ELSE value_by_dict_pk
         /\ value_to_dict_pk' = IF birth = None THEN [value_to_dict_pk EXCEPT ![v] = k]
                                                ELSE value_to_dict_pk
         /\ birth_cache' = Seed(v, id)
  /\ written' = [written EXCEPT ![k] = v]
  /\ UNCHANGED batchVars

\* A flush hands over a batch whose keys are in strict order.
dict_insert_many_sorted_by_key(pairs) ==
  LET ks == {k \in Key : pairs[k] # None}
  IN  /\ idle /\ \A k \in ks : Fresh(k)
      /\ batch' = pairs /\ todo' = ks
      /\ UNCHANGED <<tableVars, birth_cache, pk_to_keys_batch, value_to_pk_batch, written>>

\* Run 1, one pair: rows keyed by the key are written, the others deferred.
InsertDictPair ==
  /\ todo # {}
  /\ LET k == Min(todo)
         v == batch[k]
         birth == BirthOf(v)
         id == IF birth = None THEN k ELSE birth
     IN  /\ dict_pk_by_key' = [dict_pk_by_key EXCEPT ![k] = id]
         /\ value_by_dict_pk' = IF birth = None THEN [value_by_dict_pk EXCEPT ![k] = v]
                                                ELSE value_by_dict_pk
         /\ pk_to_keys_batch' = pk_to_keys_batch \cup {<<id, k>>}
         /\ value_to_pk_batch' = IF birth = None THEN [value_to_pk_batch EXCEPT ![v] = k]
                                                 ELSE value_to_pk_batch
         /\ birth_cache' = Seed(v, id)
         /\ todo' = todo \ {k}
         /\ written' = [written EXCEPT ![k] = v]
  /\ UNCHANGED <<dict_pk_to_keys, value_to_dict_pk, batch>>

\* Mutant: a birth id has one deferred row, as a table without duplicates would.
DeferredOne(id) ==
  LET ks == {k \in Key : <<id, k>> \in pk_to_keys_batch} IN IF ks = {} THEN {} ELSE {Max(ks)}

Deferred(id) == {k \in Key : <<id, k>> \in pk_to_keys_batch}

\* Run 2a and 2b.
InsertDeferred ==
  /\ ~idle /\ todo = {}
  /\ dict_pk_to_keys' = [id \in Key |-> dict_pk_to_keys[id] \cup Deferred(id)]
  /\ value_to_dict_pk' =
       [v \in Value |-> IF value_to_pk_batch[v] # None THEN value_to_pk_batch[v]
                                                       ELSE value_to_dict_pk[v]]
  /\ batch' = NoBatch
  /\ pk_to_keys_batch' = {} /\ value_to_pk_batch' = [v \in Value |-> None]
  /\ UNCHANGED <<value_by_dict_pk, dict_pk_by_key, birth_cache, todo, written>>

\* Mutant: the value goes with its birth key, whoever else has it.
LastOfBirth(id, k) == id = k

\* Mutant: the cache keeps the birth id of a value that is gone.
PopNothing(v) == birth_cache

PopValue(v) == CachePop(birth_cache, v)

\* Whether k is the last key that has the value of the birth id.
IsLast(id, k) == dict_pk_to_keys[id] \ {k} = {}

\* The key goes; with the last key of a value the value goes as well.
dict_delete_kv(k) ==
  /\ idle /\ dict_pk_by_key[k] # None
  /\ LET id == dict_pk_by_key[k]
         v == value_by_dict_pk[id]
         gone == IsLast(id, k) /\ v # None
     IN  /\ dict_pk_by_key' = [dict_pk_by_key EXCEPT ![k] = None]
         /\ dict_pk_to_keys' = [dict_pk_to_keys EXCEPT ![id] = @ \ {k}]
         /\ value_by_dict_pk' = IF gone THEN [value_by_dict_pk EXCEPT ![id] = None]
                                        ELSE value_by_dict_pk
         /\ value_to_dict_pk' = IF gone THEN [value_to_dict_pk EXCEPT ![v] = None]
                                        ELSE value_to_dict_pk
         /\ birth_cache' = IF gone THEN PopValue(v) ELSE birth_cache
  /\ written' = [written EXCEPT ![k] = None]
  /\ UNCHANGED batchVars

DictNext ==
  \/ NewDictTransaction
  \/ \E k \in Key : dict_delete_kv(k) \/ \E v \in Value : dict_insert_kv(k, v)
  \/ \E pairs \in [Key -> Value \cup {None}] \ {NoBatch} : dict_insert_many_sorted_by_key(pairs)
  \/ InsertDictPair \/ InsertDeferred

DictSpec == DictInit /\ [][DictNext]_dictVars

-----------------------------------------------------------------------------
\* The four tables and the cache map keys, birth ids and values to each other,
\* and Run 1 only has keys of the batch left.
DictTypeOK ==
  /\ dict_pk_to_keys \in [Key -> SUBSET Key]
  /\ value_by_dict_pk \in [Key -> Value \cup {None}]
  /\ value_to_dict_pk \in [Value -> Key \cup {None}]
  /\ dict_pk_by_key \in [Key -> Key \cup {None}]
  /\ birth_cache.pk \in [Value -> Key \cup {None}]
  /\ batch \in [Key -> Value \cup {None}]
  /\ todo \subseteq {k \in Key : batch[k] # None}
  /\ pk_to_keys_batch \subseteq Key \X Key
  /\ value_to_pk_batch \in [Value -> Key \cup {None}]
  /\ written \in [Key -> Value \cup {None}]

\* Through the birth ids every key reads back the value last written under it,
\* in the middle of a batch as well: writing or deleting a key never changes
\* what the keys that share its value, or once did, read.
ReadsBack == \A k \in Key : dict_value(k) = written[k]

\* Between operations a birth id leads to exactly the keys that point to it, so that
\* a delete takes the value with the last of them and not before; and the id a value
\* is found under has that value, whatever was deferred, evicted and deleted.
BirthKeysExact ==
  idle => /\ \A id \in Key : dict_pk_to_keys[id] = {k \in Key : dict_pk_by_key[k] = id}
          /\ \A v \in Value : \A k \in dict_keys(v) : dict_value(k) = v

\* A cached birth id is the one the table has: an insert never points a key at
\* an id whose value was deleted or stored again under another one.
CacheCoherent ==
  idle => \A v \in Value : birth_cache.pk[v] # None => birth_cache.pk[v] = value_to_dict_pk[v]

\* A value is stored once: the keys that have it share one birth id, without a
\* cache as well.
Deduplicated ==
  idle => \A j, k \in Key :
            dict_value(j) = dict_value(k) /\ dict_value(k) # None
              => dict_pk_by_key[j] = dict_pk_by_key[k]
=============================================================================
