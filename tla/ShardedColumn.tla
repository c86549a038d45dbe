--------------------------- MODULE ShardedColumn ---------------------------
(***************************************************************************)
(* One column whose table is spread over several databases                 *)
(* (redbit/src/storage: router.rs, table_writer.rs, tx_fsm.rs,             *)
(* table_*_read.rs).  The caller routes rows, deletes and queries to the   *)
(* writer threads of the shards, each with a FIFO queue of its own; plain  *)
(* columns are partitioned by key, indexed and dictionary columns by       *)
(* value.  Deletes and ranges wait for an answer, inserts and queries do   *)
(* not, and the shards answer a query through a sink in any order.         *)
(***************************************************************************)
EXTENDS Partitioning, FiniteSets, Functions

CONSTANTS
  Key, KeyBytes,   \* keys and their encodings
  Value, Hash,     \* values and their hashes
  None,
  Shards,          \* numbers of shards
  Queries,         \* lists of values a hook queries
  MaxCalls,        \* bound: calls of all transactions
  MaxTransactions, \* bound
  Overwrites       \* TRUE: callers may store a key that is present

ASSUME ShardedAssumption ==
  /\ Key \subseteq Nat /\ IsFiniteSet(Key) /\ KeyBytes \in [Key -> Seq(0..255)]
  /\ Hash \in [Value -> Nat] /\ None \notin Key \cup Value
  /\ Shards \subseteq Nat \ {0} /\ Queries \subseteq Seq(Value)
  /\ {MaxCalls, MaxTransactions} \subseteq Nat /\ Overwrites \in BOOLEAN

VARIABLES
  kind,      \* "plain" or "index": a dictionary is routed and read as an index
  n,         \* number of shards
  phase,     \* "idle", "open" or "flushing"
  call,      \* the call that waits for an answer
  sync_buf,  \* rows stored by insert_on_flush
  queue,     \* commands of a shard's writer thread
  forward,   \* by shard: key -> value
  reverse,   \* by shard: value -> keys
  flushed,   \* shards that have committed
  sink,      \* answers: [q, pos, key], None for no key
  ready,     \* shards that reported that the last query is answered
  asked,     \* queries sent: [q, values, last, seen], seen the rows then
  logical,   \* the map the calls of the caller amount to
  calls, txs

vars == <<kind, n, phase, call, sync_buf, queue, forward, reverse, flushed,
          sink, ready, asked, logical, calls, txs>>

Shard == 0..n - 1
EmptyMap == [k \in Key |-> None]
NoCall == [op |-> "none"]
KeysOf(map, v) == {k \in Key : map[k] = v}

\* The shard of a row, by the partitioning of the column.
PartitionOf(k, v) ==
  IF kind = "plain" THEN partition_bytes_le(n, KeyBytes[k]) ELSE Xxh3Partition(n, Hash[v])

-----------------------------------------------------------------------------
(* The readers.                                                            *)

\* Mutant: the reader of an indexed column looks the key up by key partition.
GetValueByKey(k) == forward[partition_bytes_le(n, KeyBytes[k])][k]

\* A plain column reads the shard of the key; a column partitioned by value
\* asks the shards in order and takes the first that has the key.
get_value(k) ==
  IF kind = "plain" THEN forward[IF n = 1 THEN 0 ELSE partition_bytes_le(n, KeyBytes[k])][k]
  ELSE LET having == {s \in Shard : forward[s][k] # None}
       IN  IF having = {} THEN None
           ELSE forward[CHOOSE s \in having : \A t \in having : s <= t][k]

\* The keys of a value are read from the value's shard alone.
index_keys(v) == reverse[IF n = 1 THEN 0 ELSE Xxh3Partition(n, Hash[v])][v]

\* Rows of the column, summed over the shards.
StatsTotal ==
  LET rows(s) == Cardinality({k \in Key : forward[s][k] # None})
  IN  FoldLeft(+, 0, [i \in 1..n |-> rows(i - 1)])

-----------------------------------------------------------------------------
(* The router and the writer.                                              *)

Init ==
  /\ kind \in {"plain", "index"} /\ n \in Shards
  /\ phase = "idle" /\ call = NoCall /\ sync_buf = <<>>
  /\ queue = [s \in Shard |-> <<>>]
  /\ forward = [s \in Shard |-> EmptyMap]
  /\ reverse = [s \in Shard |-> [v \in Value |-> {}]]
  /\ flushed = {} /\ sink = {} /\ ready = {} /\ asked = {}
  /\ logical = EmptyMap /\ calls = 0 /\ txs = 0

sinkVars == <<sink, ready, asked>>
tableVars == <<forward, reverse>>

\* The caller is in a transaction and waits for nothing.
Calling ==
  /\ phase = "open" /\ call = NoCall /\ calls < MaxCalls
  /\ calls' = calls + 1
  /\ UNCHANGED <<kind, n, phase, tableVars, flushed, txs>>

Send(s, cmd) == queue' = [queue EXCEPT ![s] = Append(@, cmd)]

begin ==
  /\ phase = "idle" /\ txs < MaxTransactions
  /\ phase' = "open" /\ txs' = txs + 1
  /\ flushed' = {} /\ sink' = {} /\ ready' = {} /\ asked' = {}
  /\ UNCHANGED <<kind, n, call, sync_buf, queue, tableVars, logical, calls>>

\* A caller stores a key once: it is neither in the column nor buffered.
MayStore(k) ==
  Overwrites \/ (logical[k] = None /\ \A i \in DOMAIN sync_buf : sync_buf[i].k # k)

\* Rows stored on flush wait with the caller.
insert_on_flush(k, v) ==
  /\ Calling /\ MayStore(k)
  /\ sync_buf' = Append(sync_buf, [k |-> k, v |-> v])
  /\ UNCHANGED <<call, queue, sinkVars, logical>>

\* Rows of a column a hook queries are written at once.
insert_now(k, v) ==
  /\ Calling /\ MayStore(k)
  /\ Send(IF n = 1 THEN 0 ELSE PartitionOf(k, v), [op |-> "insert", k |-> k, v |-> v])
  /\ logical' = [logical EXCEPT ![k] = v]
  /\ UNCHANGED <<call, sync_buf, sinkVars>>

\* Mutant: a delete is always sent to the first shard.
DeleteAtFirstShard(k) ==
  /\ Calling
  /\ \A i \in DOMAIN sync_buf : sync_buf[i].k # k
  /\ Send(0, [op |-> "remove", k |-> k])
  /\ call' = [op |-> "remove", k |-> k, shard |-> 0, expected |-> logical[k] # None]
  /\ logical' = [logical EXCEPT ![k] = None]
  /\ UNCHANGED <<sync_buf, sinkVars>>

\* The key's shard is known when the column is partitioned by key; otherwise
\* the shards are asked one after the other until one had the key.
delete_kv(k) ==
  /\ Calling
  /\ \A i \in DOMAIN sync_buf : sync_buf[i].k # k
  /\ LET first == IF kind = "plain" /\ n > 1 THEN partition_bytes_le(n, KeyBytes[k]) ELSE 0
     IN  /\ Send(first, [op |-> "remove", k |-> k])
         /\ call' = [op |-> "remove", k |-> k, shard |-> first,
                     expected |-> logical[k] # None]
  /\ logical' = [logical EXCEPT ![k] = None]
  /\ UNCHANGED <<sync_buf, sinkVars>>

\* The shard that was asked has answered: the call returns, or the next shard
\* is asked.
DeleteAnswered ==
  /\ call.op = "removed"
  /\ IF call.found \/ kind = "plain" \/ call.shard = n - 1
     THEN call' = NoCall /\ UNCHANGED queue
     ELSE /\ call' = [op |-> "remove", k |-> call.k, shard |-> call.shard + 1,
                      expected |-> call.expected]
          /\ Send(call.shard + 1, [op |-> "remove", k |-> call.k])
  /\ UNCHANGED <<kind, n, phase, sync_buf, tableVars, flushed, sinkVars, logical, calls, txs>>

\* The rows of a half-open interval of keys.
RowsIn(map, from, until) ==
  {<<k, map[k]>> : k \in {k \in Key : from <= k /\ k < until /\ map[k] # None}}

\* A restriction of the callers: only a plain table of one shard answers ranges, one
\* of several shards and an index panic (unimplemented!).
range(from, until) ==
  /\ Calling /\ n = 1 /\ kind = "plain"
  /\ Send(0, [op |-> "range", from |-> from, until |-> until])
  /\ call' = [op |-> "range",
              expected |-> RowsIn(logical, from, until)]
  /\ UNCHANGED <<sync_buf, sinkVars, logical>>

RangeAnswered ==
  /\ call.op = "ranged"
  /\ call' = NoCall
  /\ UNCHANGED <<kind, n, phase, sync_buf, queue, tableVars, flushed, sinkVars, logical, calls, txs>>

\* Positions of the values that go to shard s.
PositionsOf(values, s) == {i \in DOMAIN values : n = 1 \/ Xxh3Partition(n, Hash[values[i]]) = s}

\* Mutant: the answers are numbered by their place among those of the shard.
BucketRenumbered(values, s) ==
  LET ps == PositionsOf(values, s)
  IN  {[pos |-> Cardinality(ps \cap 1..i), v |-> values[i]] : i \in ps}

\* The values of a query with their positions, those of one shard.
BucketOf(values, s) == {[pos |-> i, v |-> values[i]] : i \in PositionsOf(values, s)}

\* Mutant: shards without a value of the last query are not told that it was.
LastToAskedOnly(values, last, s) == BucketOf(values, s) # {}

\* A shard without a value of the query is skipped, unless the query is the
\* last one: then every shard has to report.
Asked(values, last, s) == n = 1 \/ BucketOf(values, s) # {} \/ last

query_and_write(values, last) ==
  /\ Calling /\ kind = "index"
  /\ \A q \in asked : ~q.last
  /\ LET q == Cardinality(asked) + 1
     IN  /\ asked' = asked \cup {[q |-> q, values |-> values, last |-> last, seen |-> logical]}
         /\ queue' = [s \in Shard |->
                        IF Asked(values, last, s)
                        THEN Append(queue[s], [op |-> "query", q |-> q, last |-> last,
                                               items |-> BucketOf(values, s)])
                        ELSE queue[s]]
  /\ UNCHANGED <<call, sync_buf, sink, ready, logical>>

\* The rows of a shard, at the places they were stored in.
RowsOf(rows, s) == Restrict(rows, {i \in DOMAIN rows : n = 1 \/ PartitionOf(rows[i].k, rows[i].v) = s})

\* A table after its rows were written in their order: the last one of a key stays.
Stored(map, rows) ==
  [k \in Key |-> LET at == {i \in DOMAIN rows : rows[i].k = k}
                 IN  IF at = {} THEN map[k] ELSE rows[CHOOSE i \in at : \A j \in at : j <= i].v]

\* The buffered rows go to their shards, and every shard is told to flush.
flush ==
  /\ phase = "open" /\ call = NoCall
  /\ phase' = "flushing"
  /\ queue' = [s \in Shard |->
                 queue[s]
                   \o (IF DOMAIN RowsOf(sync_buf, s) = {} THEN <<>>
                       ELSE <<[op |-> "write", rows |-> RowsOf(sync_buf, s)]>>)
                   \o <<[op |-> "flush"]>>]
  /\ logical' = Stored(logical, sync_buf)
  /\ sync_buf' = <<>>
  /\ UNCHANGED <<kind, n, call, tableVars, flushed, sinkVars, calls, txs>>

\* Every shard has acknowledged its flush.
FlushAcked ==
  /\ phase = "flushing" /\ flushed = Shard
  /\ phase' = "idle"
  /\ UNCHANGED <<kind, n, call, sync_buf, queue, tableVars, flushed, sinkVars, logical, calls, txs>>

-----------------------------------------------------------------------------
(* A writer thread takes its next command.                                 *)

InsertRows(s, rows) ==
  /\ forward' = [forward EXCEPT ![s] = Stored(@, rows)]
  /\ reverse' = IF kind = "plain" THEN reverse
                ELSE [reverse EXCEPT ![s] = [v \in Value |->
                        @[v] \cup {rows[i].k : i \in {i \in DOMAIN rows : rows[i].v = v}}]]

RemoveRow(s, k) ==
  /\ forward' = [forward EXCEPT ![s][k] = None]
  /\ reverse' = IF kind = "plain" THEN reverse
                ELSE [reverse EXCEPT ![s] = [v \in Value |->
                        IF forward[s][k] = v THEN @[v] \ {k} ELSE @[v]]]

\* The row a query by value resolves to is any one with the value.
AnyForIndex(s, v, key) ==
  IF reverse[s][v] = {} THEN key = None ELSE key \in reverse[s][v]

step(s) ==
  /\ queue[s] # <<>>
  /\ LET cmd == Head(queue[s])
     IN  CASE cmd.op = "insert" ->
                /\ InsertRows(s, <<cmd>>)
                /\ UNCHANGED <<call, flushed, sink, ready>>
           [] cmd.op = "write" ->
                /\ InsertRows(s, cmd.rows)
                /\ UNCHANGED <<call, flushed, sink, ready>>
           [] cmd.op = "remove" ->
                /\ RemoveRow(s, cmd.k)
                /\ call' = [op |-> "removed", k |-> cmd.k, shard |-> s,
                            found |-> forward[s][cmd.k] # None, expected |-> call.expected]
                /\ UNCHANGED <<flushed, sink, ready>>
           [] cmd.op = "range" ->
                /\ call' = [op |-> "ranged", expected |-> call.expected,
                            found |-> RowsIn(forward[s], cmd.from, cmd.until)]
                /\ UNCHANGED <<tableVars, flushed, sink, ready>>
           [] cmd.op = "query" ->
                /\ \E answer \in [cmd.items -> Key \cup {None}] :
                     /\ \A e \in cmd.items : AnyForIndex(s, e.v, answer[e])
                     /\ sink' = sink \cup {[q |-> cmd.q, pos |-> e.pos, key |-> answer[e]] : e \in cmd.items}
                /\ ready' = IF cmd.last THEN ready \cup {s} ELSE ready
                /\ UNCHANGED <<call, tableVars, flushed>>
           [] cmd.op = "flush" ->
                /\ flushed' = flushed \cup {s}
                /\ UNCHANGED <<call, tableVars, sink, ready>>
  /\ queue' = [queue EXCEPT ![s] = Tail(@)]
  /\ UNCHANGED <<kind, n, phase, sync_buf, asked, logical, calls, txs>>

Next ==
  \/ begin
  \/ \E k \in Key : delete_kv(k) \/ \E v \in Value : insert_on_flush(k, v) \/ insert_now(k, v)
  \/ \E from, until \in Key : from < until /\ range(from, until)
  \/ \E values \in Queries, last \in BOOLEAN : query_and_write(values, last)
  \/ DeleteAnswered \/ RangeAnswered \/ flush \/ FlushAcked
  \/ \E s \in Shard : step(s)

Spec == Init /\ [][Next]_vars

-----------------------------------------------------------------------------
\* The shard of a key is the number its bytes encode, modulo the shards: no
\* shard is left out and neighbouring keys go to different shards, whatever the
\* length of the key.
KeyShardIsResidue ==
  \A k \in Key : partition_bytes_le(n, KeyBytes[k]) = LeValue(KeyBytes[k]) % n

\* After a flush every reader agrees with the calls that were made, in the
\* order they were made, though each shard only saw its own part of them: a key
\* reads as its value, a value has exactly its keys, no row is in two shards.
ReadsBack ==
  phase = "idle" =>
    /\ \A k \in Key : get_value(k) = logical[k]
    /\ kind = "index" => \A v \in Value : index_keys(v) = KeysOf(logical, v)
    /\ StatsTotal = Cardinality({k \in Key : logical[k] # None})

\* A delete answers whether the key was there and a range the rows in it,
\* inserts still on their way to the shards included.
AnswersExact ==
  call.op \in {"removed", "ranged"} =>
    \/ call.found = call.expected
    \/ call.op = "removed" /\ ~call.found /\ kind = "index" /\ call.shard < n - 1

\* Once every shard has reported, each position of each query was answered
\* exactly once, with a key that had the value when the query was made, and
\* with None only if there was none.  The dependent columns commit on these
\* reports, and the shards answer at different times.
QueriesAnswered ==
  ready = Shard =>
    \A q \in asked : \A pos \in DOMAIN q.values :
      LET keys == KeysOf(q.seen, q.values[pos])
          got == {a \in sink : a.q = q.q /\ a.pos = pos}
      IN  \E a \in got : got = {a} /\ IF keys = {} THEN a.key = None ELSE a.key \in keys

\* A transaction's flush finds every shard that a last query was made to
\* reported: none is left waiting.
AllShardsReport ==
  phase = "idle" /\ (\E q \in asked : q.last) => ready = Shard

\* Writers and readers agree on the shard of a row, for keys of any length.
RowsFound == KeyShardIsResidue /\ ReadsBack

\* A query is answered in the places of its values, and every shard says when it
\* is done, whether it was asked for a value or not.
QueriesSettled == QueriesAnswered /\ AllShardsReport
=============================================================================
