--------------------------- MODULE BufferedIndex ---------------------------
(***************************************************************************)
(* An indexed column behind the buffer of its writer (storage/tx_fsm.rs,   *)
(* table_writer.rs): the inserts of a transaction are collected in a       *)
(* SortBuffer, and the flush drains it into the table as one sorted batch. *)
(* Bound: rows are collected in front of an empty table; what happens to a *)
(* filled table (deletes, single inserts, queries, further batches) is     *)
(* explored with an empty buffer.                                          *)
(***************************************************************************)
EXTENDS IndexTable

CONSTANTS
  RowKey,    \* bound: keys of the rows that are collected
  MaxRun,    \* bound: pairs of one command
  MaxPairs   \* bound: pairs of one transaction

VARIABLES levels, pushed

B == INSTANCE SortBuffer WITH Keys <- RowKey

allVars == <<vars, levels, pushed>>

TableEmpty == idle /\ index_by_pk = NoBatch /\ cache = EmptyCache
BufferEmpty == levels = <<>> /\ pushed = <<>>

\* The batch a drained run of distinct keys stands for: some value for each key.
BatchesOf(run) ==
  LET ks == {run[i].key : i \in DOMAIN run}
  IN  {pairs \in [Key -> Value \cup {None}] : \A k \in Key : (pairs[k] # None) <=> (k \in ks)}

DistinctKeys(run) == \A i, j \in DOMAIN run : i # j => run[i].key # run[j].key

\* flush: the buffer is taken and its rows go to the table, keys in order.
Flush ==
  LET run == B!TakeSorted(levels)
  IN  /\ run # <<>> /\ DistinctKeys(run)
      /\ \E pairs \in BatchesOf(run) : insert_many_sorted_by_key(pairs)
      /\ B!take_sorted

Collect ==
  /\ TableEmpty
  /\ B!merge_unsorted \/ B!append_sorted \/ B!from_sorted \/ B!take_sorted
  /\ UNCHANGED vars

Operate ==
  /\ BufferEmpty
  /\ Next
  /\ UNCHANGED <<levels, pushed>>

BufferedInit == Init /\ B!Init

BufferedNext == Collect \/ Flush \/ Operate

BufferedSpec == BufferedInit /\ [][BufferedNext]_allVars

-----------------------------------------------------------------------------
\* Whatever mixture of appends and merges filled the writer's buffer, a flush
\* (take_sorted) gets every pair of the transaction exactly once, in key order;
\* the galloping merge of any two runs is the baseline merge, equal keys of the
\* first run before those of the second.
BufferSound == B!DrainsSortedAll /\ B!GallopMatchesBaseline
=============================================================================
