---------------------------- MODULE SyncPipeline ----------------------------
(***************************************************************************)
(* One sync of the indexer after another (chain/src/syncer.rs, sync): the  *)
(* fetch, process and sort tasks and the persist thread, connected by      *)
(* bounded channels, with the scheduler's ticks, the shutdown signal, the  *)
(* abort of the workers and the failures each task survives or dies of.    *)
(* Blocks are their heights; the node's chain only grows here (module      *)
(* ForkSync has the reorganisations), so every block links to its parent.  *)
(***************************************************************************)
EXTENDS Integers, Sequences, FiniteSets

CONSTANTS
  MaxHeight,             \* bound: the highest tip the node reaches
  WeightOf,              \* weight of the block at a height
  SizeOf,                \* raw size of the block at a height
  MinEntityBatchSize,    \* min_entity_batch_size
  ProcessRatio,          \* process_persist_batch_size_ratio
  ForkDetectionHeights,  \* fork_detection_heights
  NonDurableBatches,     \* non_durable_batches
  FetchPar,              \* fetching_par of the block stream
  ProcPar,               \* processing_parallelism
  FetchCap, ProcCap, SortCap,   \* channel capacities
  SafetyCap,             \* safety_cap of the reorder buffer and the batcher
  ByteLimit,             \* bytes in a raw batch
  UsizeMax,              \* usize::MAX
  U32,                   \* 2^32, the modulus of height arithmetic
  StoreMayFail,          \* whether a commit to the databases may fail
  MaxFailures            \* bound: failures injected in a behaviour

ASSUME PipelineAssumption ==
  /\ MaxHeight \in Nat \ {0}
  /\ WeightOf \in [1 .. MaxHeight -> Nat]
  /\ SizeOf \in [1 .. MaxHeight -> Nat]
  /\ MinEntityBatchSize \in Nat
  /\ ProcessRatio \in Nat \ {0}
  /\ ForkDetectionHeights \in Nat
  /\ NonDurableBatches \in Nat \ {0}
  /\ FetchPar \in Nat \ {0} /\ ProcPar \in Nat \ {0}
  /\ FetchCap \in Nat \ {0} /\ ProcCap \in Nat \ {0} /\ SortCap \in Nat \ {0}
  /\ SafetyCap \in Nat \ {0}
  /\ ByteLimit \in Nat /\ UsizeMax \in Nat
  /\ U32 \in Nat /\ U32 > MaxHeight
  /\ MaxFailures \in Nat /\ StoreMayFail \in BOOLEAN

VARIABLES
  node_tip,         \* height of the node's chain tip
  sync,             \* the sync future: "idle", "running", "aborting", "stopped"
  shutdown,         \* the watch channel
  batching,         \* mode of the current sync
  fork_height,      \* fork_detection_height of the current sync
  failures,         \* failures injected so far
  \* fetch task
  fetch_st, todo, immediate, sbuf, bytes, sout, fetch_chan,
  \* process task
  proc_st, procs, proc_cur, proc_buf, proc_weight, proc_out, proc_chan,
  \* sort task
  sort_st, sort_cur, next_height, pending, max_seen, dropped_too_low, ready,
  wmode, wbuf, weight, wout, sort_chan,
  \* persist thread
  persist_st, batch_counter, undurable, persisted,
  wedged            \* a writer thread of a dropped context holds a write lock

syncVars == <<node_tip, sync, shutdown, batching, fork_height, failures>>
rawVars == <<immediate, sbuf, bytes, sout>>
fetchVars == <<fetch_st, todo, rawVars>>
procVars == <<proc_st, procs, proc_cur, proc_buf, proc_weight, proc_out>>
bufferVars == <<next_height, pending, max_seen, dropped_too_low>>
batcherVars == <<wmode, wbuf, weight>>
sortVars == <<sort_st, sort_cur, bufferVars, ready, batcherVars, wout>>
persistVars == <<persist_st, batch_counter, undurable, persisted, wedged>>
vars == <<syncVars, fetchVars, fetch_chan, procVars, proc_chan,
          sortVars, sort_chan, persistVars>>

Height == 1 .. MaxHeight

Raw == INSTANCE SizeBatcher
Reorder == INSTANCE ReorderBuffer
             WITH Start <- 1, Block <- Height, MaxBufferHint <- SafetyCap,
                  MaxDropped <- U32 - 1, emitted <- <<>>, first <- <<>>
Batch == INSTANCE WeightBatcher
           WITH MinWeight <- MinEntityBatchSize, Cap <- SafetyCap

last_height == Len(persisted)

\* min_entity_process_batch_size
ProcessThreshold == MinEntityBatchSize \div ProcessRatio

SubU32(a, b) == (a - b) % U32

\* A failure the code meets and the model may inject.
Fail == failures < MaxFailures /\ failures' = failures + 1

-----------------------------------------------------------------------------
Init ==
  /\ node_tip \in 0 .. MaxHeight
  /\ sync = "idle" /\ shutdown = FALSE
  /\ batching = FALSE /\ fork_height = 0 /\ failures = 0
  /\ fetch_st = "done" /\ todo = {} /\ Raw!new(TRUE) /\ fetch_chan = <<>>
  /\ proc_st = "done" /\ procs = {} /\ proc_cur = <<>> /\ proc_buf = <<>>
  /\ proc_weight = 0 /\ proc_out = <<>> /\ proc_chan = <<>>
  /\ sort_st = "done" /\ sort_cur = <<>> /\ Reorder!new(1)
  /\ Batch!new("Immediate") /\ sort_chan = <<>>
  /\ persist_st = "done" /\ batch_counter = 0 /\ undurable = 0
  /\ persisted = <<>> /\ wedged = FALSE

\* The node appends a block.
NodeGrows ==
  /\ node_tip < MaxHeight
  /\ node_tip' = node_tip + 1
  /\ UNCHANGED <<sync, shutdown, batching, fork_height, failures, fetchVars,
                 fetch_chan, procVars, proc_chan, sortVars, sort_chan, persistVars>>

\* sync up to the spawning of its tasks, with fresh channels and buffers.  Tasks
\* a previous sync left behind share nothing with them.  When no height is
\* missing sync returns at once.
SyncStart ==
  LET missing == SubU32(node_tip, last_height)
      batch == missing > ForkDetectionHeights
  IN  /\ sync = "idle"
      /\ missing >= 1
      /\ sync' = "running"
      /\ batching' = batch
      /\ fork_height' = SubU32(node_tip, ForkDetectionHeights)
      /\ fetch_st' = "run" /\ todo' = (last_height + 1) .. node_tip
      /\ immediate' = ~batch /\ sbuf' = <<>> /\ bytes' = 0 /\ sout' = <<>>
      /\ fetch_chan' = <<>>
      /\ proc_st' = "run" /\ procs' = {} /\ proc_cur' = <<>> /\ proc_buf' = <<>>
      /\ proc_weight' = 0 /\ proc_out' = <<>> /\ proc_chan' = <<>>
      /\ sort_st' = "run" /\ sort_cur' = <<>> /\ next_height' = last_height + 1
      /\ pending' = [k \in {} |-> 0] /\ max_seen' = -1 /\ dropped_too_low' = 0
      /\ ready' = <<>> /\ wmode' = (IF batch THEN "None" ELSE "Immediate")
      /\ wbuf' = <<>> /\ weight' = 0 /\ wout' = <<>> /\ sort_chan' = <<>>
      /\ persist_st' = "run" /\ batch_counter' = 0
      /\ UNCHANGED <<node_tip, shutdown, failures, undurable, persisted, wedged>>

-----------------------------------------------------------------------------
(* fetch: RestBlockStream::stream. *)

\* Requests in flight: the FetchPar lowest heights not yielded yet; in
\* continuous mode (buffered) they are yielded in order.
InFlight ==
  {h \in todo : Cardinality({k \in todo : k < h}) < (IF batching THEN FetchPar ELSE 1)}

\* The stream yields a block and the size batcher takes it.  The shutdown branch
\* of the select is biased, so this branch runs only when there is none.
FetchYield ==
  /\ fetch_st = "run" /\ sout = <<>> /\ ~shutdown
  /\ \E h \in InFlight :
       /\ Raw!push(h, SizeOf[h])
       /\ todo' = todo \ {h}
  /\ UNCHANGED <<syncVars, fetch_st, fetch_chan, procVars, proc_chan, sortVars,
                 sort_chan, persistVars>>

\* A request fails: expect panics, the task dies and drops what it holds.
FetchPanics ==
  /\ fetch_st = "run" /\ sout = <<>> /\ ~shutdown /\ todo # {}
  /\ Fail
  /\ fetch_st' = "done" /\ sbuf' = <<>>
  /\ UNCHANGED <<node_tip, sync, shutdown, batching, fork_height, todo, immediate,
                 bytes, sout, fetch_chan, procVars, proc_chan, sortVars, sort_chan,
                 persistVars>>

\* End of the stream, or shutdown: the tail is sent and the task ends.
FetchFinish ==
  /\ fetch_st = "run" /\ sout = <<>> /\ (shutdown \/ todo = {})
  /\ Raw!take_all
  /\ fetch_st' = IF sout' = <<>> THEN "done" ELSE "tail"
  /\ UNCHANGED <<syncVars, todo, fetch_chan, procVars, proc_chan, sortVars,
                 sort_chan, persistVars>>

\* tx.send(batch).await: waits for room; fails when the receiver is gone.
FetchSend ==
  /\ fetch_st \in {"run", "tail"} /\ sout # <<>>
  /\ \/ /\ proc_st = "done"
        /\ fetch_st' = "done"
        /\ UNCHANGED fetch_chan
     \/ /\ proc_st # "done" /\ Len(fetch_chan) < FetchCap
        /\ fetch_chan' = Append(fetch_chan, sout)
        /\ fetch_st' = IF fetch_st = "tail" THEN "done" ELSE "run"
  /\ sout' = <<>>
  /\ UNCHANGED <<syncVars, todo, immediate, sbuf, bytes, procVars, proc_chan,
                 sortVars, sort_chan, persistVars>>

-----------------------------------------------------------------------------
(* process: buffer_unordered over spawn_blocking, then accumulation by weight. *)

ProcAtLoopHead == proc_st = "run" /\ proc_cur = <<>> /\ proc_out = <<>>

\* The stream pulls a raw batch and spawns its processing.
ProcTake ==
  /\ ProcAtLoopHead /\ ~shutdown
  /\ fetch_chan # <<>> /\ Cardinality(procs) < ProcPar
  /\ procs' = procs \cup {Head(fetch_chan)}
  /\ fetch_chan' = Tail(fetch_chan)
  /\ UNCHANGED <<syncVars, fetchVars, proc_st, proc_cur, proc_buf, proc_weight,
                 proc_out, proc_chan, sortVars, sort_chan, persistVars>>

\* Any of the batches in flight completes first.
ProcYield ==
  /\ ProcAtLoopHead /\ ~shutdown
  /\ \E b \in procs : procs' = procs \ {b} /\ proc_cur' = b
  /\ UNCHANGED <<syncVars, fetchVars, fetch_chan, proc_st, proc_buf, proc_weight,
                 proc_out, proc_chan, sortVars, sort_chan, persistVars>>

\* A spawn_blocking join error is logged and its batch is gone.
ProcJoinError ==
  /\ ProcAtLoopHead /\ ~shutdown
  /\ Fail
  /\ \E b \in procs : procs' = procs \ {b}
  /\ UNCHANGED <<node_tip, sync, shutdown, batching, fork_height, fetchVars,
                 fetch_chan, proc_st, proc_cur, proc_buf, proc_weight, proc_out,
                 proc_chan, sortVars, sort_chan, persistVars>>

\* A processed block is accumulated; the buffer goes out once it is heavy enough.
ProcAccumulate ==
  LET h == Head(proc_cur)
      w == proc_weight + WeightOf[h]
      buf == Append(proc_buf, h)
  IN  /\ proc_st = "run" /\ proc_cur # <<>> /\ proc_out = <<>>
      /\ proc_cur' = Tail(proc_cur)
      /\ IF w > ProcessThreshold
         THEN proc_out' = buf /\ proc_buf' = <<>> /\ proc_weight' = 0
         ELSE proc_out' = <<>> /\ proc_buf' = buf /\ proc_weight' = w
      /\ UNCHANGED <<syncVars, fetchVars, fetch_chan, proc_st, procs, proc_chan,
                     sortVars, sort_chan, persistVars>>

\* A block that fails to process is logged and skipped.
ProcBlockError ==
  /\ proc_st = "run" /\ proc_cur # <<>> /\ proc_out = <<>>
  /\ Fail
  /\ proc_cur' = Tail(proc_cur)
  /\ UNCHANGED <<node_tip, sync, shutdown, batching, fork_height, fetchVars,
                 fetch_chan, proc_st, procs, proc_buf, proc_weight, proc_out,
                 proc_chan, sortVars, sort_chan, persistVars>>

\* proc_tx.send(...).await, whose error is ignored.
ProcSend ==
  /\ proc_st = "run" /\ proc_out # <<>>
  /\ \/ sort_st = "done" /\ UNCHANGED proc_chan
     \/ sort_st # "done" /\ Len(proc_chan) < ProcCap /\ proc_chan' = Append(proc_chan, proc_out)
  /\ proc_out' = <<>>
  /\ UNCHANGED <<syncVars, fetchVars, fetch_chan, proc_st, procs, proc_cur, proc_buf,
                 proc_weight, sortVars, sort_chan, persistVars>>

\* Shutdown, or the end of the stream: the task ends as it is; the blocks still
\* in proc_buf are not sent.
ProcFinish ==
  /\ ProcAtLoopHead
  /\ shutdown \/ (fetch_st = "done" /\ fetch_chan = <<>> /\ procs = {})
  /\ proc_st' = "done" /\ procs' = {} /\ proc_buf' = <<>> /\ proc_weight' = 0
  /\ fetch_chan' = <<>>
  /\ UNCHANGED <<syncVars, fetchVars, proc_cur, proc_out, proc_chan, sortVars,
                 sort_chan, persistVars>>

-----------------------------------------------------------------------------
(* sort: strict reordering, then batching by weight. *)

SortAtLoopHead == sort_st = "run" /\ sort_cur = <<>> /\ ready = <<>> /\ wout = <<>>

SortRecv ==
  /\ SortAtLoopHead /\ proc_chan # <<>>
  /\ sort_cur' = Head(proc_chan)
  /\ proc_chan' = Tail(proc_chan)
  /\ UNCHANGED <<syncVars, fetchVars, fetch_chan, procVars, sort_st, bufferVars,
                 ready, batcherVars, wout, sort_chan, persistVars>>

\* Mutant: blocks go to the batcher in the order they arrive.
SortUnordered ==
  /\ sort_st = "run" /\ sort_cur # <<>> /\ ready = <<>> /\ wout = <<>>
  /\ ready' = <<Head(sort_cur)>>
  /\ sort_cur' = Tail(sort_cur)
  /\ UNCHANGED <<syncVars, fetchVars, fetch_chan, procVars, proc_chan, sort_st,
                 bufferVars, batcherVars, wout, sort_chan, persistVars>>

SortInsert ==
  /\ sort_st = "run" /\ sort_cur # <<>> /\ ready = <<>> /\ wout = <<>>
  /\ Reorder!insert(Head(sort_cur), Head(sort_cur))
  /\ sort_cur' = Tail(sort_cur)
  /\ UNCHANGED <<syncVars, fetchVars, fetch_chan, procVars, proc_chan, sort_st,
                 batcherVars, wout, sort_chan, persistVars>>

SortPush ==
  /\ sort_st = "run" /\ ready # <<>> /\ wout = <<>>
  /\ Batch!push_with(Head(ready), WeightOf[Head(ready)])
  /\ ready' = Tail(ready)
  /\ UNCHANGED <<syncVars, fetchVars, fetch_chan, procVars, proc_chan, sort_st,
                 sort_cur, bufferVars, sort_chan, persistVars>>

\* Mutant: the process task keeps a sender alive, so the channel never closes.
SortNeverDrained ==
  /\ SortAtLoopHead
  /\ shutdown
  /\ Batch!flush
  /\ sort_st' = IF wout' = <<>> THEN "done" ELSE "tail"
  /\ UNCHANGED <<syncVars, fetchVars, fetch_chan, procVars, proc_chan, sort_cur,
                 bufferVars, ready, sort_chan, persistVars>>

\* Closed and drained, or shutdown: the rest of the batcher is flushed.
SortFinish ==
  /\ SortAtLoopHead
  /\ shutdown \/ (proc_st = "done" /\ proc_chan = <<>>)
  /\ Batch!flush
  /\ sort_st' = IF wout' = <<>> THEN "done" ELSE "tail"
  /\ UNCHANGED <<syncVars, fetchVars, fetch_chan, procVars, proc_chan, sort_cur,
                 bufferVars, ready, sort_chan, persistVars>>

\* sort_tx.send(out).await: waits for room; the task ends when persist is gone.
SortSend ==
  /\ sort_st \in {"run", "tail"} /\ wout # <<>>
  /\ \/ /\ persist_st = "done"
        /\ sort_st' = "done"
        /\ UNCHANGED sort_chan
     \/ /\ persist_st # "done" /\ Len(sort_chan) < SortCap
        /\ sort_chan' = Append(sort_chan, wout)
        /\ sort_st' = IF sort_st = "tail" THEN "done" ELSE "run"
  /\ wout' = <<>>
  /\ UNCHANGED <<syncVars, fetchVars, fetch_chan, procVars, proc_chan, sort_cur,
                 bufferVars, ready, batcherVars, persistVars>>

-----------------------------------------------------------------------------
(* persist: a blocking thread that polls the channel. *)

\* Mutant: the counter of batches is ignored.
DurableOnlyAtTip == ~batching

\* Whether the batch is committed durably.
Durable ==
  \/ batch_counter > 0 /\ batch_counter % NonDurableBatches = 0
  \/ ~batching

\* store_blocks of a sequence of blocks.  A durable commit makes the earlier
\* non-durable ones durable with it.
Store(blocks) ==
  /\ persisted' = persisted \o blocks
  /\ undurable' = IF Durable THEN 0 ELSE undurable + 1

PersistReceives == persist_st = "run" /\ ~shutdown /\ sort_chan # <<>>

\* persist_or_link of a batch whose blocks all link: one commit below the fork
\* detection height, one commit a block above it.
PersistBatch ==
  /\ PersistReceives /\ ~wedged
  /\ Store(Head(sort_chan))
  /\ sort_chan' = Tail(sort_chan)
  /\ batch_counter' = batch_counter + 1
  /\ UNCHANGED <<syncVars, fetchVars, fetch_chan, procVars, proc_chan, sortVars,
                 persist_st, wedged>>

\* persist_or_link returns an error after the first n blocks of the batch: the
\* thread returns, dropping the channel and its write context.
PersistReturns(n) ==
  /\ PersistReceives /\ ~wedged
  /\ Fail
  /\ IF n = 0 THEN UNCHANGED <<persisted, undurable>>
              ELSE Store(SubSeq(Head(sort_chan), 1, n))
  /\ persist_st' = "done"
  /\ sort_chan' = <<>>
  /\ UNCHANGED <<node_tip, sync, shutdown, batching, fork_height, fetchVars,
                 fetch_chan, procVars, proc_chan, sortVars, batch_counter>>

AboveFork(b) == b[Len(b)] > fork_height

\* Above the fork detection height the lookup of a parent fails between commits.
LinkFails ==
  /\ sort_chan # <<>> /\ AboveFork(Head(sort_chan))
  /\ \E n \in 0 .. (Len(Head(sort_chan)) - 1) : PersistReturns(n)
  /\ UNCHANGED wedged

\* A commit fails.  The header table may have taken it or not (module WriteTx);
\* unless it was the root that failed, the root's thread stays in its
\* transaction for ever.
StoreFails ==
  /\ StoreMayFail /\ sort_chan # <<>>
  /\ LET len == Len(Head(sort_chan))
     IN  \E n \in (IF AboveFork(Head(sort_chan)) THEN 0 .. len ELSE {0, len}) :
           /\ PersistReturns(n)
           /\ wedged' \in (IF n = 0 THEN {TRUE} ELSE BOOLEAN)

\* begin_writing waits for the held lock; nothing ends the wait.
PersistBlocks ==
  /\ PersistReceives /\ wedged
  /\ persist_st' = "blocked"
  /\ sort_chan' = Tail(sort_chan)
  /\ UNCHANGED <<syncVars, fetchVars, fetch_chan, procVars, proc_chan, sortVars,
                 batch_counter, undurable, persisted, wedged>>

\* Shutdown is seen, or the channel is drained and disconnected.
PersistFinish ==
  /\ persist_st = "run"
  /\ shutdown \/ (sort_chan = <<>> /\ sort_st = "done")
  /\ persist_st' = "done"
  /\ sort_chan' = <<>>
  /\ UNCHANGED <<syncVars, fetchVars, fetch_chan, procVars, proc_chan, sortVars,
                 batch_counter, undurable, persisted, wedged>>

-----------------------------------------------------------------------------
(* The sync future, the scheduler around it and the shutdown. *)

\* The persist thread ended: sync returns to the scheduler.
SyncReturn ==
  /\ \/ sync = "running" /\ persist_st = "done" /\ sync' = "idle"
     \/ sync = "aborting" /\ fetch_st = "done" /\ proc_st = "done"
        /\ sort_st = "done" /\ persist_st = "done" /\ sync' = "idle"
  /\ UNCHANGED <<node_tip, shutdown, batching, fork_height, failures, fetchVars,
                 fetch_chan, procVars, proc_chan, sortVars, sort_chan, persistVars>>

\* sync observes the shutdown: it aborts the three tasks and waits for all four.
SyncAbort ==
  /\ sync = "running" /\ shutdown
  /\ sync' = "aborting"
  /\ UNCHANGED <<node_tip, shutdown, batching, fork_height, failures, fetchVars,
                 fetch_chan, procVars, proc_chan, sortVars, sort_chan, persistVars>>

\* An aborted task is cancelled at one of its await points and drops its state.
FetchAborted ==
  /\ sync = "aborting" /\ fetch_st # "done"
  /\ fetch_st' = "done" /\ sbuf' = <<>> /\ sout' = <<>>
  /\ UNCHANGED <<syncVars, todo, immediate, bytes, fetch_chan, procVars, proc_chan,
                 sortVars, sort_chan, persistVars>>

ProcAborted ==
  /\ sync = "aborting" /\ proc_st # "done"
  /\ ProcAtLoopHead \/ proc_out # <<>>
  /\ proc_st' = "done" /\ procs' = {} /\ proc_cur' = <<>> /\ proc_buf' = <<>>
  /\ proc_weight' = 0 /\ proc_out' = <<>> /\ fetch_chan' = <<>>
  /\ UNCHANGED <<syncVars, fetchVars, proc_chan, sortVars, sort_chan, persistVars>>

SortAborted ==
  /\ sync = "aborting" /\ sort_st # "done"
  /\ SortAtLoopHead \/ wout # <<>>
  /\ sort_st' = "done" /\ sort_cur' = <<>> /\ ready' = <<>> /\ wout' = <<>>
  /\ UNCHANGED <<syncVars, fetchVars, fetch_chan, procVars, proc_chan, bufferVars,
                 batcherVars, sort_chan, persistVars>>

\* Somebody who holds the sender requests the shutdown.
ShutdownRequested ==
  /\ ~shutdown
  /\ shutdown' = TRUE
  /\ UNCHANGED <<node_tip, sync, batching, fork_height, failures, fetchVars,
                 fetch_chan, procVars, proc_chan, sortVars, sort_chan, persistVars>>

\* SIGINT or SIGTERM: combine::futures drops the sync future (or the scheduler
\* that awaits it) and then sets the flag; the spawned tasks stay behind.
SignalReceived ==
  /\ ~shutdown
  /\ shutdown' = TRUE
  /\ sync' = "stopped"
  /\ UNCHANGED <<node_tip, batching, fork_height, failures, fetchVars, fetch_chan,
                 procVars, proc_chan, sortVars, sort_chan, persistVars>>

\* Mutant: the shutdown branch of the scheduler does not break.
SchedulerLoops == sync = "idle" /\ shutdown /\ UNCHANGED vars

\* Scheduler::schedule leaves its loop.
SchedulerStops ==
  /\ sync = "idle" /\ shutdown
  /\ sync' = "stopped"
  /\ UNCHANGED <<node_tip, shutdown, batching, fork_height, failures, fetchVars,
                 fetch_chan, procVars, proc_chan, sortVars, sort_chan, persistVars>>

-----------------------------------------------------------------------------
Fetch == FetchYield \/ FetchFinish \/ FetchSend
Process == ProcTake \/ ProcYield \/ ProcAccumulate \/ ProcSend \/ ProcFinish
Sort == SortRecv \/ SortInsert \/ SortPush \/ SortFinish \/ SortSend
Persist == PersistBatch \/ PersistBlocks \/ PersistFinish

Next ==
  \/ NodeGrows
  \/ SyncStart \/ SyncReturn \/ SyncAbort
  \/ FetchYield \/ FetchPanics \/ FetchFinish \/ FetchSend \/ FetchAborted
  \/ ProcTake \/ ProcYield \/ ProcJoinError \/ ProcAccumulate \/ ProcBlockError
  \/ ProcSend \/ ProcFinish \/ ProcAborted
  \/ SortRecv \/ SortInsert \/ SortPush \/ SortFinish \/ SortSend \/ SortAborted
  \/ PersistBatch \/ LinkFails \/ StoreFails \/ PersistBlocks \/ PersistFinish
  \/ ShutdownRequested \/ SignalReceived \/ SchedulerStops

Spec == Init /\ [][Next]_vars

\* Tokio and the OS run every task that can step; the node answers or fails;
\* the scheduler ticks every second; select! polls its branches in random
\* order, so a pending shutdown is not passed over for ever.
Fairness ==
  /\ WF_vars(Fetch) /\ WF_vars(Process) /\ WF_vars(Sort) /\ WF_vars(Persist)
  /\ WF_vars(SyncStart) /\ WF_vars(SyncReturn) /\ WF_vars(SyncAbort)
  /\ WF_vars(FetchAborted) /\ WF_vars(ProcAborted) /\ WF_vars(SortAborted)
  /\ SF_vars(SchedulerStops)

FairSpec == Spec /\ Fairness

-----------------------------------------------------------------------------
TaskState == {"run", "tail", "done"}

Blocks == Seq(Height)
Channel == Seq(Blocks)

\* Every task, channel and buffer of a sync holds heights of the chain,
\* and fork_detection_height stays a u32 even when it wraps (syncer.rs, sync).
TypeOK ==
  /\ node_tip \in 0 .. MaxHeight
  /\ sync \in {"idle", "running", "aborting", "stopped"}
  /\ shutdown \in BOOLEAN /\ batching \in BOOLEAN
  /\ fork_height \in 0 .. (U32 - 1)
  /\ failures \in 0 .. MaxFailures
  /\ fetch_st \in TaskState /\ todo \subseteq Height
  /\ sbuf \in Blocks /\ sout \in Blocks /\ fetch_chan \in Channel
  /\ proc_st \in {"run", "done"} /\ procs \subseteq Blocks
  /\ proc_cur \in Blocks /\ proc_buf \in Blocks /\ proc_out \in Blocks
  /\ proc_chan \in Channel
  /\ sort_st \in TaskState /\ sort_cur \in Blocks /\ ready \in Blocks
  /\ next_height \in 1 .. (MaxHeight + 1) /\ DOMAIN pending \subseteq Height
  /\ wbuf \in Blocks /\ wout \in Blocks /\ sort_chan \in Channel
  /\ persist_st \in {"run", "blocked", "done"} /\ batch_counter \in Nat /\ undurable \in Nat
  /\ persisted \in Blocks

\* The DB holds a gapless, duplicate-free prefix of the chain after every commit,
\* whatever order blocks were fetched and processed in, whichever of them were
\* dropped on the way, and wherever a failure, an abort or a shutdown cut the
\* sync short; the next sync resumes from its last height.
PersistedIsPrefix == \A i \in DOMAIN persisted : persisted[i] = i

\* Once a sync has committed more than non_durable_batches batches, fewer than
\* that many of the latest ones can be lost in a crash.
DurableEveryN ==
  batch_counter > NonDurableBatches => undurable < NonDurableBatches

\* Nothing deadlocks on a full channel or on a task that died: every sync ends,
\* unless a failed commit has left the lock of a database held (PersistBlocks).
SyncCompletes == (sync = "running") ~> (sync # "running" \/ wedged)

AllTasksDone ==
  fetch_st = "done" /\ proc_st = "done" /\ sort_st = "done" /\ persist_st = "done"

\* After a shutdown the scheduler and every task stop for good, also the tasks
\* that outlive the sync future dropped by a signal, unless a lock is held.
ShutdownStops == shutdown ~> (wedged \/ [](sync = "stopped" /\ AllTasksDone))

\* The tip is eventually consistent with the node's: once the node is idle, the
\* indexer catches up with it.
TipIndexed == <>[](shutdown \/ last_height = node_tip)

\* No task or sync goes on for ever.
TasksEnd == SyncCompletes /\ ShutdownStops
=============================================================================
