---------------------------- MODULE CachedTable ----------------------------
(***************************************************************************)
(* What the writers of index and dictionary tables have in common          *)
(* (redbit/src/storage/table_index_write.rs, table_dict_write.rs): a cache *)
(* from a value to a key (LruCache), and batches that are inserted pair by *)
(* pair, with rows left for the end of the batch.                          *)
(***************************************************************************)
EXTENDS LruCache, FiniteSets, FiniteSetsExt

CONSTANTS Key

VARIABLES
  batch,   \* pairs of the running insert_many_sorted_by_key: Key -> Value
  todo     \* keys of the batch that the first pass has not reached

NoBatch == [k \in Key |-> None]

idle == batch = NoBatch
=============================================================================
