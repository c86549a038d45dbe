------------------------------ MODULE WriteTx ------------------------------
(***************************************************************************)
(* One write transaction over the many databases of an entity              *)
(* (redbit/src/storage: context.rs, table_writer.rs, router.rs, tx_fsm.rs, *)
(* table_writer_api.rs).  Every column, and every shard of a column, has a *)
(* database and a writer thread of its own with an unbounded command       *)
(* queue.  The master thread begins a transaction on all of them, sends    *)
(* the rows, lets all but the root key commit and flushes the root last.   *)
(* A hook queries an index column and its sink, run by the index threads,  *)
(* writes the rows of the dependent columns, whose flush is deferred until *)
(* every index shard has reported ReadyForFlush.                           *)
(***************************************************************************)
EXTENDS Integers, Sequences, FiniteSets

CONSTANTS
  Order,        \* writer_refs: the writers of a context, the root key last
  Header,       \* the writer of the table get_last_header reads
  QueryShards,  \* writers of the index the hook queries
  Dependents,   \* writers of the columns the hook's sink writes
  MaxHeight,    \* bound: heights stored
  MaxForks, MaxFailures, MaxCrashes, MaxContexts   \* bounds

Writer == {Order[i] : i \in DOMAIN Order}
Root == Order[Len(Order)]

ASSUME WriteTxAssumption ==
  /\ Order \in Seq(Writer) /\ Order # <<>>
  /\ \A i, j \in DOMAIN Order : Order[i] = Order[j] => i = j
  /\ QueryShards \subseteq Writer \ {Root} /\ QueryShards # {}
  /\ Dependents \subseteq Writer \ ({Root} \cup QueryShards)
  /\ Header \in Writer \ ({Root} \cup QueryShards \cup Dependents)
  /\ {MaxHeight, MaxForks, MaxFailures, MaxCrashes, MaxContexts} \subseteq Nat

VARIABLES
  \* the master thread and its context
  pc,        \* where the master is
  op,        \* "store" or "delete": the closure of the running transaction
  target,    \* heights of the blocks being written
  pos,       \* position in Order of the future being awaited
  durability,
  next,      \* next height to store
  oneshot,   \* the context serves one transaction and is closed after it
  deferred,  \* AtomicBool of the dependent tables, set by acquire_router
  \* the writer threads, by writer
  queue, thread, ack,
  work,      \* contents of the write transaction's table
  buf,       \* async_merge_buf
  failed,    \* write_error
  flushing,  \* FlushState: [sender, sum, shards]
  held,      \* databases whose write transaction an orphaned thread holds
  \* the databases, by writer
  db, safe,  \* contents, and the contents that survive a crash
  \* bounds and histories
  forks, failures, crashes, contexts,
  acked,     \* heights whose store has returned Ok since the process started
  replaced   \* heights an update has ever deleted

masterVars == <<pc, op, target, pos, durability, next, oneshot, deferred>>
txVars == <<work, buf, failed, flushing>>
threadVars == <<queue, thread, ack, txVars, held>>
dbVars == <<db, safe>>
boundVars == <<forks, failures, crashes, contexts>>
vars == <<masterVars, threadVars, dbVars, boundVars, acked, replaced>>

-----------------------------------------------------------------------------
Height == 1 .. MaxHeight

\* A block has one row for each index shard that resolves a part of its inputs.
Row == Height \X QueryShards
Rows(hs) == hs \X QueryShards

Command(c, rows) == [cmd |-> c, rows |-> rows]

NoFlush == [sender |-> FALSE, sum |-> 0, shards |-> 0]

\* The heights a table holds completely, and the last header.
Complete(rows) == {h \in Height : Rows({h}) \subseteq rows}
get_last_header == LET hs == Complete(db[Header])
                   IN  IF hs = {} THEN 0 ELSE CHOOSE h \in hs : \A k \in hs : k <= h

Fail == failures < MaxFailures /\ failures' = failures + 1

\* The same commands appended to the queue of every writer.
SendAll(cmds) == queue' = [w \in Writer |-> queue[w] \o cmds[w]]

Await(p) == pc' = p /\ pos' = 1 /\ ack' = [w \in Writer |-> "none"]

\* The transaction of these writers and its TxState are dropped.
DropTx(ws) ==
  /\ work' = [w \in Writer |-> IF w \in ws THEN {} ELSE work[w]]
  /\ buf' = [w \in Writer |-> IF w \in ws THEN {} ELSE buf[w]]
  /\ failed' = [w \in Writer |-> IF w \in ws THEN FALSE ELSE failed[w]]
  /\ flushing' = [w \in Writer |-> IF w \in ws THEN NoFlush ELSE flushing[w]]

Init ==
  /\ pc = "down" /\ op = "store" /\ target = {} /\ pos = 1 /\ durability = FALSE
  /\ next = 1 /\ oneshot = FALSE /\ deferred = FALSE
  /\ queue = [w \in Writer |-> <<>>]
  /\ thread = [w \in Writer |-> "dead"]
  /\ ack = [w \in Writer |-> "none"]
  /\ work = [w \in Writer |-> {}] /\ buf = [w \in Writer |-> {}]
  /\ failed = [w \in Writer |-> FALSE]
  /\ flushing = [w \in Writer |-> NoFlush]
  /\ held = {}
  /\ db = [w \in Writer |-> {}] /\ safe = [w \in Writer |-> {}]
  /\ forks = 0 /\ failures = 0 /\ crashes = 0 /\ contexts = 0
  /\ acked = {} /\ replaced = {}

-----------------------------------------------------------------------------
(* The master: WriteTxContext and BlockChain. *)

\* new_write_ctx spawns a thread for every writer.  A thread of the previous
\* context that never left its transaction keeps the database's write lock.
new_write_ctx ==
  /\ pc \in {"down", "failed", "closed"}
  /\ contexts < MaxContexts
  /\ \A w \in Writer : queue[w] = <<>> /\ thread[w] # "outer"
  /\ held' = held \cup {w \in Writer : thread[w] = "intx"}
  /\ DropTx(Writer)
  /\ thread' = [w \in Writer |-> "outer"]
  /\ ack' = [w \in Writer |-> "none"]
  /\ deferred' = FALSE
  /\ oneshot' \in BOOLEAN
  /\ next' = get_last_header + 1
  /\ pc' = "idle"
  /\ op' = "store" /\ target' = {} /\ pos' = 1 /\ durability' = FALSE
  /\ contexts' = contexts + 1
  /\ UNCHANGED <<queue, dbVars, forks, failures, crashes, acked, replaced>>

\* begin_writing of store_blocks.
StoreBegin ==
  /\ pc = "idle" /\ next <= MaxHeight
  /\ op' = "store" /\ target' = {next}
  /\ durability' \in BOOLEAN
  /\ SendAll([w \in Writer |-> <<Command("Begin", {})>>])
  /\ Await("begin")
  /\ UNCHANGED <<next, oneshot, deferred, thread, txVars, held, dbVars, boundVars,
                 acked, replaced>>

\* begin_writing of the delete with which update_blocks starts: the block does
\* not link to the last one stored, which is replaced together with it.
UpdateBegin ==
  /\ pc = "idle" /\ 1 < next /\ next <= MaxHeight /\ forks < MaxForks /\ ~oneshot
  /\ forks' = forks + 1
  /\ op' = "delete" /\ target' = {next - 1, next}
  /\ durability' = TRUE
  /\ acked' = acked \ target' /\ replaced' = replaced \cup target'
  /\ SendAll([w \in Writer |-> <<Command("Begin", {})>>])
  /\ Await("begin")
  /\ UNCHANGED <<next, oneshot, deferred, thread, txVars, held, dbVars, failures,
                 crashes, contexts>>

\* StartFuture::wait, one writer after the other.
BeginWait ==
  LET w == Order[pos]
  IN  /\ pc = "begin" /\ ack[w] # "none"
      /\ IF ack[w] = "err" THEN pc' = "failed" /\ UNCHANGED pos
         ELSE IF pos = Len(Order) THEN pc' = "body" /\ UNCHANGED pos
         ELSE pos' = pos + 1 /\ UNCHANGED pc
      /\ UNCHANGED <<op, target, durability, next, oneshot, deferred, threadVars,
                     dbVars, boundVars, acked, replaced>>

\* store_many: rows of the used index are written now and queried by the hook,
\* the other rows wait in sync_buf.  acquire_router marks the dependents.
StoreBody ==
  /\ pc = "body" /\ op = "store"
  /\ SendAll([w \in Writer |-> IF w \in QueryShards
                               THEN <<Command("Insert", Rows(target)),
                                      Command("Query", target \X {w})>>
                               ELSE <<>>])
  /\ deferred' = TRUE
  /\ pc' = "commit"
  /\ UNCHANGED <<op, target, pos, durability, next, oneshot, thread, ack, txVars,
                 held, dbVars, boundVars, acked, replaced>>

\* The closure fails (a double spend) before the commit.
BodyFails ==
  /\ pc = "body" /\ op = "store"
  /\ Fail
  /\ \/ /\ ~oneshot /\ pc' = "failed"
        /\ UNCHANGED <<queue, pos, ack>>
     \/ /\ oneshot
        /\ SendAll([w \in Writer |-> <<Command("Shutdown", {})>>])
        /\ Await("stop")
  /\ UNCHANGED <<op, target, durability, next, oneshot, deferred, thread, txVars,
                 held, dbVars, forks, crashes, contexts, acked, replaced>>

\* Block::delete of every target; each delete_kv waits for its ack.
DeleteBody ==
  /\ pc = "body" /\ op = "delete"
  /\ SendAll([w \in Writer |-> <<Command("Remove", Rows(target))>>])
  /\ pc' = "removing"
  /\ UNCHANGED <<op, target, pos, durability, next, oneshot, deferred, thread, ack,
                 txVars, held, dbVars, boundVars, acked, replaced>>

RemoveWait ==
  /\ pc = "removing" /\ \A w \in Writer : queue[w] = <<>>
  /\ pc' = IF \E w \in Writer : failed[w] THEN "failed" ELSE "commit"
  /\ UNCHANGED <<op, target, pos, durability, next, oneshot, deferred, threadVars,
                 dbVars, boundVars, acked, replaced>>

\* Mutant: the root is flushed together with the others.
FlushCommandEager(w) ==
  IF w \in Dependents /\ deferred THEN <<Command("FlushWhenReady", {})>>
  ELSE <<Command("Flush", {})>>

\* Mutant: dependents are flushed without waiting for the index shards.
FlushCommandNow(w) == IF w = Root THEN <<>> ELSE <<Command("Flush", {})>>

\* flush_async of every table: its sync_buf, then the flush command; the root's
\* flush is only prepared.
FlushCommand(w) ==
  IF w = Root THEN <<>>
  ELSE IF w \in Dependents /\ deferred THEN <<Command("FlushWhenReady", {})>>
  ELSE <<Command("Flush", {})>>

commit_ctx_async ==
  /\ pc = "commit"
  /\ SendAll([w \in Writer |->
       (IF op = "store" /\ w \notin QueryShards \cup Dependents
        THEN <<Command("Sorted", Rows(target))>> ELSE <<>>) \o FlushCommand(w)])
  /\ Await("flush")
  /\ UNCHANGED <<op, target, durability, next, oneshot, deferred, thread, txVars,
                 held, dbVars, boundVars, acked, replaced>>

\* The master reaches the root's future: its flush is sent now.
FlushRoot ==
  /\ pc = "flush" /\ Order[pos] = Root
  /\ queue' = [queue EXCEPT ![Root] = Append(@, Command("Flush", {}))]
  /\ pc' = "root"
  /\ UNCHANGED <<op, target, pos, durability, next, oneshot, deferred, thread, ack,
                 txVars, held, dbVars, boundVars, acked, replaced>>

\* FlushFuture::wait for the writers before the root; the first error returns.
FlushWait ==
  LET w == Order[pos]
  IN  /\ pc = "flush" /\ w # Root /\ ack[w] # "none"
      /\ IF ack[w] = "err" THEN pc' = "failed" /\ UNCHANGED pos
                           ELSE pos' = pos + 1 /\ UNCHANGED pc
      /\ UNCHANGED <<op, target, durability, next, oneshot, deferred, threadVars,
                     dbVars, boundVars, acked, replaced>>

\* The root has answered: the transaction is over.  update_blocks goes on to
\* store what it deleted; a one-shot context stops its writers.
RootWait ==
  /\ pc = "root" /\ ack[Root] # "none"
  /\ \/ /\ ack[Root] = "err"
        /\ pc' = "failed"
        /\ UNCHANGED <<op, pos, durability, next, queue, ack, acked>>
     \/ /\ ack[Root] = "ok" /\ op = "delete"
        /\ op' = "store" /\ durability' = TRUE
        /\ SendAll([w \in Writer |-> <<Command("Begin", {})>>])
        /\ Await("begin")
        /\ UNCHANGED <<next, acked>>
     \/ /\ ack[Root] = "ok" /\ op = "store"
        /\ next' = next + 1
        /\ acked' = acked \cup target
        /\ IF oneshot
           THEN /\ SendAll([w \in Writer |-> <<Command("Shutdown", {})>>])
                /\ Await("stop")
           ELSE pc' = "idle" /\ UNCHANGED <<pos, queue, ack>>
        /\ UNCHANGED <<op, durability>>
  /\ UNCHANGED <<target, oneshot, deferred, thread, txVars, held, dbVars, boundVars,
                 replaced>>

\* The persist loop ends: stop_writing.
StopWriting ==
  /\ pc = "idle"
  /\ SendAll([w \in Writer |-> <<Command("Shutdown", {})>>])
  /\ Await("stop")
  /\ UNCHANGED <<op, target, durability, next, oneshot, deferred, thread, txVars,
                 held, dbVars, boundVars, acked, replaced>>

StopWait ==
  /\ pc = "stop" /\ \A w \in Writer : ack[w] = "ok" /\ thread[w] = "dead"
  /\ pc' = "closed"
  /\ UNCHANGED <<op, target, pos, durability, next, oneshot, deferred, threadVars,
                 dbVars, boundVars, acked, replaced>>

-----------------------------------------------------------------------------
(* The writer threads: TxFSM and TxState::step. *)

Receives(w, c) == queue[w] # <<>> /\ Head(queue[w]).cmd = c /\ thread[w] # "dead"

Received(w) == Head(queue[w]).rows

Consume(w) == queue' = [queue EXCEPT ![w] = Tail(@)]

\* A step that returns Err: the error is kept until the flush.
StepFails(w) ==
  /\ Fail
  /\ failed' = [failed EXCEPT ![w] = TRUE]
  /\ UNCHANGED <<work, buf, flushing>>

\* Begin outside a transaction: begin_write waits for the database's lock.
WriterBegin(w) ==
  /\ Receives(w, "Begin") /\ thread[w] = "outer" /\ w \notin held
  /\ Consume(w)
  /\ \/ /\ thread' = [thread EXCEPT ![w] = "intx"]
        /\ ack' = [ack EXCEPT ![w] = "ok"]
        /\ work' = [work EXCEPT ![w] = db[w]]
        /\ UNCHANGED <<buf, failed, flushing, failures>>
     \/ /\ Fail
        /\ ack' = [ack EXCEPT ![w] = "err"]
        /\ UNCHANGED <<thread, txVars>>
  /\ UNCHANGED <<masterVars, held, dbVars, forks, crashes, contexts, acked, replaced>>

\* WriteInsertNow.
WriterInsert(w) ==
  /\ Receives(w, "Insert") /\ thread[w] = "intx"
  /\ Consume(w)
  /\ \/ StepFails(w)
     \/ /\ work' = [work EXCEPT ![w] = @ \cup Received(w)]
        /\ UNCHANGED <<buf, failed, flushing, failures>>
  /\ UNCHANGED <<masterVars, thread, ack, held, dbVars, forks, crashes, contexts,
                 acked, replaced>>

\* Remove.
WriterRemove(w) ==
  /\ Receives(w, "Remove") /\ thread[w] = "intx"
  /\ Consume(w)
  /\ \/ StepFails(w)
     \/ /\ work' = [work EXCEPT ![w] = @ \ Received(w)]
        /\ UNCHANGED <<buf, failed, flushing, failures>>
  /\ UNCHANGED <<masterVars, thread, ack, held, dbVars, forks, crashes, contexts,
                 acked, replaced>>

\* MergeUnsortedInserts, and WriteSortedInsertsOnFlush, which refuses to be mixed
\* with other buffered rows.
WriterBuffer(w) ==
  /\ Receives(w, "Merge") \/ Receives(w, "Sorted")
  /\ thread[w] = "intx"
  /\ Consume(w)
  /\ IF Head(queue[w]).cmd = "Sorted" /\ buf[w] # {}
     THEN failed' = [failed EXCEPT ![w] = TRUE] /\ UNCHANGED buf
     ELSE buf' = [buf EXCEPT ![w] = @ \cup Received(w)] /\ UNCHANGED failed
  /\ UNCHANGED <<masterVars, thread, ack, work, flushing, held, dbVars, boundVars,
                 acked, replaced>>

\* QueryAndWrite: the lookups, then the sink, which routes the resolved rows to
\* the dependents and tells them that this shard is through.
WriterQuery(w) ==
  /\ Receives(w, "Query") /\ thread[w] = "intx"
  /\ \/ /\ StepFails(w)
        /\ Consume(w)
     \/ /\ queue' = [v \in Writer |->
             IF v = w THEN Tail(queue[v])
             ELSE IF v \in Dependents
             THEN queue[v] \o <<Command("Merge", Received(w)), Command("Ready", {})>>
             ELSE queue[v]]
        /\ UNCHANGED <<txVars, failures>>
  /\ UNCHANGED <<masterVars, thread, ack, held, dbVars, forks, crashes, contexts,
                 acked, replaced>>

\* flush and what the thread does with its result: commit, or drop the
\* transaction; either way it is back outside.
FlushTx(w) ==
  /\ thread' = [thread EXCEPT ![w] = "outer"]
  /\ DropTx({w})
  /\ \/ /\ ~failed[w]
        /\ ack' = [ack EXCEPT ![w] = "ok"]
        /\ db' = [db EXCEPT ![w] = work[w] \cup buf[w]]
        /\ safe' = [safe EXCEPT ![w] = IF durability THEN db'[w] ELSE @]
        /\ UNCHANGED failures
     \/ /\ failed[w]
        /\ ack' = [ack EXCEPT ![w] = "err"]
        /\ UNCHANGED <<dbVars, failures>>
     \/ /\ ~failed[w] /\ Fail
        /\ ack' = [ack EXCEPT ![w] = "err"]
        /\ UNCHANGED dbVars

WriterFlush(w) ==
  /\ Receives(w, "Flush") /\ thread[w] = "intx"
  /\ Consume(w)
  /\ FlushTx(w)
  /\ UNCHANGED <<masterVars, held, forks, crashes, contexts, acked, replaced>>

\* Mutant: the first shard that is ready triggers the flush.
HandshakeFirst(w, state) ==
  IF state.sender /\ state.shards > 0
  THEN FlushTx(w)
  ELSE /\ flushing' = [flushing EXCEPT ![w] = state]
       /\ UNCHANGED <<thread, ack, work, buf, failed, dbVars, failures>>

\* ReadyForFlush and FlushWhenReady meet: the later of them flushes.
Handshake(w, state) ==
  IF state.sender /\ state.shards > 0 /\ state.sum = state.shards
  THEN FlushTx(w)
  ELSE /\ flushing' = [flushing EXCEPT ![w] = state]
       /\ UNCHANGED <<thread, ack, work, buf, failed, dbVars, failures>>

\* Mutant: shards that are ready before the flush command are not counted.
WriterReadyForgets(w) ==
  /\ Receives(w, "Ready") /\ thread[w] = "intx"
  /\ Consume(w)
  /\ Handshake(w, IF flushing[w].sender
                  THEN [flushing[w] EXCEPT !.sum = @ + 1,
                                           !.shards = Cardinality(QueryShards)]
                  ELSE flushing[w])
  /\ UNCHANGED <<masterVars, held, forks, crashes, contexts, acked, replaced>>

WriterReady(w) ==
  /\ Receives(w, "Ready") /\ thread[w] = "intx"
  /\ Consume(w)
  /\ Handshake(w, [flushing[w] EXCEPT !.sum = @ + 1,
                                      !.shards = Cardinality(QueryShards)])
  /\ UNCHANGED <<masterVars, held, forks, crashes, contexts, acked, replaced>>

WriterFlushWhenReady(w) ==
  /\ Receives(w, "FlushWhenReady") /\ thread[w] = "intx"
  /\ Consume(w)
  /\ Handshake(w, [flushing[w] EXCEPT !.sender = TRUE])
  /\ UNCHANGED <<masterVars, held, forks, crashes, contexts, acked, replaced>>

\* Shutdown, inside or outside a transaction, which is aborted.
WriterShutdown(w) ==
  /\ Receives(w, "Shutdown")
  /\ Consume(w)
  /\ thread' = [thread EXCEPT ![w] = "dead"]
  /\ ack' = [ack EXCEPT ![w] = "ok"]
  /\ DropTx({w})
  /\ UNCHANGED <<masterVars, held, dbVars, boundVars, acked, replaced>>

\* The context is gone and the queue drained: recv fails.  Outside a transaction
\* the thread ends; inside one it keeps looping and never ends the transaction.
WriterDisconnected(w) ==
  /\ pc = "failed" /\ queue[w] = <<>> /\ thread[w] = "outer"
  /\ thread' = [thread EXCEPT ![w] = "dead"]
  /\ UNCHANGED <<masterVars, queue, ack, txVars, held, dbVars, boundVars, acked,
                 replaced>>

\* The process dies.  Every database recovers its last durable commit.
Crash ==
  /\ pc # "down" /\ crashes < MaxCrashes
  /\ crashes' = crashes + 1
  /\ pc' = "down"
  /\ queue' = [w \in Writer |-> <<>>]
  /\ thread' = [w \in Writer |-> "dead"]
  /\ held' = {}
  /\ db' = safe
  /\ acked' = {}
  /\ DropTx(Writer)
  /\ ack' = [w \in Writer |-> "none"]
  /\ op' = "store" /\ target' = {} /\ pos' = 1 /\ durability' = FALSE
  /\ next' = 1 /\ oneshot' = FALSE /\ deferred' = FALSE
  /\ UNCHANGED <<safe, forks, failures, contexts, replaced>>

-----------------------------------------------------------------------------
Master ==
  \/ BeginWait \/ StoreBody \/ DeleteBody \/ RemoveWait \/ commit_ctx_async
  \/ FlushRoot \/ FlushWait \/ RootWait \/ StopWait

WriterStep(w) ==
  \/ WriterBegin(w) \/ WriterInsert(w) \/ WriterRemove(w) \/ WriterBuffer(w)
  \/ WriterQuery(w) \/ WriterFlush(w) \/ WriterReady(w) \/ WriterFlushWhenReady(w)
  \/ WriterShutdown(w) \/ WriterDisconnected(w)

Next ==
  \/ new_write_ctx \/ StoreBegin \/ UpdateBegin \/ BodyFails \/ StopWriting
  \/ Master
  \/ \E w \in Writer : WriterStep(w)
  \/ Crash

Spec == Init /\ [][Next]_vars

\* The threads run: a command that can be handled is handled.
FairSpec == Spec /\ WF_vars(Master) /\ \A w \in Writer : WF_vars(WriterStep(w))

-----------------------------------------------------------------------------
\* The master is at a step of its protocol with the writer it waits for in
\* range, and every writer has rows, an answer and a thread state (tx_fsm.rs).
TypeOK ==
  /\ pc \in {"down", "idle", "begin", "body", "removing", "commit", "flush", "root",
             "stop", "failed", "closed"}
  /\ op \in {"store", "delete"} /\ target \subseteq Height
  /\ pos \in DOMAIN Order /\ next \in 1 .. (MaxHeight + 1)
  /\ durability \in BOOLEAN /\ oneshot \in BOOLEAN /\ deferred \in BOOLEAN
  /\ thread \in [Writer -> {"outer", "intx", "dead"}]
  /\ ack \in [Writer -> {"none", "ok", "err"}]
  /\ work \in [Writer -> SUBSET Row] /\ buf \in [Writer -> SUBSET Row]
  /\ failed \in [Writer -> BOOLEAN]
  /\ db \in [Writer -> SUBSET Row] /\ safe \in [Writer -> SUBSET Row]

\* "two_phased_commit": the root key is flushed after everybody else, so a block
\* whose root key is in the database has all of its columns there, whatever
\* fails and whenever the process dies; except blocks an update is replacing,
\* whose columns go before their root key does.
RootBacked ==
  \A w \in Writer :
    /\ db[Root] \subseteq db[w] \cup Rows(replaced)
    /\ safe[Root] \subseteq safe[w] \cup Rows(replaced)

\* A store that returned Ok has written every row of every column: no deferred
\* flush overtook the rows an index shard was still resolving.
AckedIsStored == \A w \in Writer : Rows(acked) \subseteq db[w]

\* Commands arrive inside the <Begin - Flush> scope they belong to: a thread
\* outside a transaction sees only Begin and Shutdown (anything else ends it) and
\* one inside never sees Begin (which panics).
CommandsInScope ==
  \A w \in Writer : queue[w] # <<>> =>
    /\ thread[w] = "outer" => Head(queue[w]).cmd \in {"Begin", "Shutdown"}
    /\ thread[w] = "intx" => Head(queue[w]).cmd # "Begin"

InTransaction == pc \in {"begin", "body", "removing", "commit", "flush", "root", "stop"}

\* Every transaction ends: the master never waits for ever for a writer's ack.
CommitCompletes == InTransaction ~> (pc \in {"idle", "failed", "closed", "down"})

\* Short of a fork's deletes and of a lock left behind by a failed commit, a
\* transaction never gets stuck: some thread can take its next step, whichever
\* writer the master waits for and whatever has failed. Every step uses up a
\* command or an acknowledgement, so that the transaction ends.
NeverStuck ==
  InTransaction /\ forks = 0 /\ held = {} => ENABLED (Master \/ \E w \in Writer : WriterStep(w))

\* When indexing resumes after the last header in the database, nothing below it
\* is missing from any column.
ResumesComplete ==
  (pc = "idle" /\ replaced = {}) => \A w \in Writer : Rows(1 .. (next - 1)) \subseteq db[w]
=============================================================================
