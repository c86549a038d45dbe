------------------------- MODULE SyncPipelineProofs -------------------------
(***************************************************************************)
(* For every chain, every weight and size of its blocks, every capacity    *)
(* and parallelism and any number of failures, the indexer stores the      *)
(* chain's blocks one after the other without a gap or a duplicate, and    *)
(* loses only a bounded number of commits in a crash.  The fetch and       *)
(* process tasks may hand over any heights in any order, so the argument   *)
(* starts at the reorder buffer: as long as the persist thread listens,    *)
(* what is stored, queued, handed out, batched and released is one run of  *)
(* consecutive heights that ends right before next_height.                 *)
(***************************************************************************)
EXTENDS SyncPipeline, SequenceTheorems, TLAPS

\* s holds the heights lo, lo + 1, ...
Consecutive(s, lo) == \A i \in DOMAIN s : s[i] = lo + i - 1

\* The height before the i-th queued batch, p being stored and ch queued.
EndBefore(p, ch, i) == IF i = 1 THEN Len(p) ELSE ch[i - 1][Len(ch[i - 1])]

Queued == EndBefore(persisted, sort_chan, Len(sort_chan) + 1)

\* The queued batches continue the stored blocks ...
QueueInv ==
  persist_st = "run" =>
    \A i \in 1 .. Len(sort_chan) :
      /\ sort_chan[i] # <<>>
      /\ Consecutive(sort_chan[i], EndBefore(persisted, sort_chan, i) + 1)

\* ... and the sort task continues the queue.
SortInv ==
  persist_st = "run" /\ sort_st # "done" =>
    /\ Consecutive(wout, Queued + 1)
    /\ Consecutive(wbuf, Queued + Len(wout) + 1)
    /\ Consecutive(ready, Queued + Len(wout) + Len(wbuf) + 1)
    /\ next_height = Queued + Len(wout) + Len(wbuf) + Len(ready) + 1

BatcherInv ==
  /\ wmode \in {"Immediate", "None"}
  /\ wmode = "Immediate" => wbuf = <<>>

PendingInv == \A k \in DOMAIN pending : pending[k] = k

IInv ==
  TypeOK /\ PersistedIsPrefix /\ QueueInv /\ SortInv /\ BatcherInv /\ PendingInv

-----------------------------------------------------------------------------
(* Runs of consecutive heights. *)

\* Append, Tail and SubSeq keep a run; its ends are known.
LEMMA RunFacts ==
  ASSUME NEW s \in Seq(Int), NEW lo \in Int, Consecutive(s, lo)
  PROVE  /\ Consecutive(Append(s, lo + Len(s)), lo)
         /\ s # <<>> => /\ Head(s) = lo /\ Consecutive(Tail(s), lo + 1)
                        /\ s[Len(s)] = lo + Len(s) - 1
                        /\ Len(Tail(s)) = Len(s) - 1
         /\ \A n \in 0 .. Len(s) : Consecutive(SubSeq(s, 1, n), lo)
<1>1. Consecutive(Append(s, lo + Len(s)), lo)
  BY DEF Consecutive
<1>2. ASSUME s # <<>>
      PROVE  /\ Head(s) = lo /\ Consecutive(Tail(s), lo + 1)
             /\ s[Len(s)] = lo + Len(s) - 1
             /\ Len(Tail(s)) = Len(s) - 1
  <2>1. Len(s) \in Nat /\ Len(s) >= 1 /\ DOMAIN s = 1 .. Len(s)
    BY <1>2
  <2>2. Head(s) = s[1] /\ Tail(s) \in Seq(Int) /\ Len(Tail(s)) = Len(s) - 1
    BY <1>2, <2>1
  <2>3. \A i \in 1 .. Len(s) - 1 : Tail(s)[i] = s[i + 1]
    BY <1>2, <2>1
  <2>4. Head(s) = lo /\ s[Len(s)] = lo + Len(s) - 1
    BY <2>1, <2>2 DEF Consecutive
  <2>5. Consecutive(Tail(s), lo + 1)
    BY <2>1, <2>2, <2>3 DEF Consecutive
  <2>. QED  BY <2>2, <2>4, <2>5
<1>3. \A n \in 0 .. Len(s) : Consecutive(SubSeq(s, 1, n), lo)
  BY DEF Consecutive
<1>. QED  BY <1>1, <1>2, <1>3

\* A run that follows another one extends it.
LEMMA RunConcat ==
  ASSUME NEW s \in Seq(Int), NEW t \in Seq(Int), NEW lo \in Int,
         Consecutive(s, lo), Consecutive(t, lo + Len(s))
  PROVE  Consecutive(s \o t, lo)
BY DEF Consecutive

\* Sequences of blocks, and channels of such sequences, are closed under what
\* the tasks do with them.
LEMMA BlocksFacts ==
  /\ <<>> \in Blocks
  /\ \A h \in Height : <<h>> \in Blocks
  /\ \A b \in Blocks, h \in Height : Append(b, h) \in Blocks
  /\ \A b \in Blocks : b # <<>> => Head(b) \in Height /\ Tail(b) \in Blocks
  /\ \A b, c \in Blocks : b \o c \in Blocks
  /\ \A b \in Blocks : \A n \in 0 .. Len(b) : SubSeq(b, 1, n) \in Blocks
  /\ \A b \in Blocks : b \in Seq(Int) /\ Len(b) \in Nat
<1>1. Height \subseteq Int
  BY DEF Height
<1>2. ASSUME NEW b \in Blocks PROVE b \in Seq(Int)
  BY <1>1, <1>2, SeqMonotonic DEF Blocks
<1>. QED  BY <1>2 DEF Blocks

\* The same for the bounded channels between the tasks.
LEMMA ChannelFacts ==
  /\ <<>> \in Channel
  /\ \A q \in Channel, b \in Blocks : Append(q, b) \in Channel
  /\ \A q \in Channel : q # <<>> => Head(q) \in Blocks /\ Tail(q) \in Channel
BY DEF Channel

\* The stored blocks are a run from the first height, within the chain.
LEMMA PrefixFacts ==
  ASSUME TypeOK, PersistedIsPrefix
  PROVE  Consecutive(persisted, 1) /\ last_height \in 0 .. MaxHeight
<1>1. persisted \in Seq(Height) /\ \A i \in DOMAIN persisted : persisted[i] = i
  BY DEF TypeOK, Blocks, PersistedIsPrefix
<1>2. Consecutive(persisted, 1)
  BY <1>1 DEF Consecutive
<1>3. ASSUME persisted # <<>> PROVE Len(persisted) \in Height
  <2>1. Len(persisted) \in DOMAIN persisted
    BY <1>1, <1>3
  <2>. QED  BY <1>1, <2>1
<1>. QED  BY <1>1, <1>2, <1>3, PipelineAssumption DEF last_height, Height

-----------------------------------------------------------------------------
(* The type invariant by task. *)

ControlTypes ==
  /\ node_tip \in 0 .. MaxHeight
  /\ sync \in {"idle", "running", "aborting", "stopped"}
  /\ shutdown \in BOOLEAN /\ batching \in BOOLEAN
  /\ fork_height \in 0 .. (U32 - 1)
  /\ failures \in 0 .. MaxFailures

FetchTypes ==
  fetch_st \in TaskState /\ todo \subseteq Height /\ sbuf \in Blocks /\ sout \in Blocks

ProcTypes ==
  /\ proc_st \in {"run", "done"} /\ procs \subseteq Blocks
  /\ proc_cur \in Blocks /\ proc_buf \in Blocks /\ proc_out \in Blocks

SortTypes ==
  /\ sort_st \in TaskState /\ sort_cur \in Blocks /\ ready \in Blocks
  /\ next_height \in 1 .. (MaxHeight + 1) /\ DOMAIN pending \subseteq Height
  /\ wbuf \in Blocks /\ wout \in Blocks

PersistTypes ==
  /\ persist_st \in {"run", "blocked", "done"}
  /\ batch_counter \in Nat /\ undurable \in Nat /\ persisted \in Blocks

ChannelTypes == fetch_chan \in Channel /\ proc_chan \in Channel /\ sort_chan \in Channel

\* The parts make up the type invariant, before a step and after it.
LEMMA TypeParts ==
  TypeOK <=> /\ ControlTypes /\ FetchTypes /\ ProcTypes /\ SortTypes /\ PersistTypes
             /\ ChannelTypes
BY DEF TypeOK, ControlTypes, FetchTypes, ProcTypes, SortTypes, PersistTypes, ChannelTypes

\* The direction needed for the state after a step.
LEMMA TypePartsNext ==
  ControlTypes' /\ FetchTypes' /\ ProcTypes' /\ SortTypes' /\ PersistTypes' /\ ChannelTypes'
    => TypeOK'
BY DEF TypeOK, ControlTypes, FetchTypes, ProcTypes, SortTypes, PersistTypes, ChannelTypes

\* What the proofs need of the constants.
LEMMA Bounds ==
  /\ MaxHeight \in Nat /\ MaxHeight >= 1 /\ U32 \in Nat /\ U32 > MaxHeight
  /\ MaxFailures \in Nat
BY PipelineAssumption

\* A part whose variables do not change stays as it is.
LEMMA TypesKept ==
  /\ ControlTypes /\ UNCHANGED syncVars => ControlTypes'
  /\ FetchTypes /\ UNCHANGED fetchVars => FetchTypes'
  /\ ProcTypes /\ UNCHANGED procVars => ProcTypes'
  /\ SortTypes /\ UNCHANGED sortVars => SortTypes'
  /\ PersistTypes /\ UNCHANGED persistVars => PersistTypes'
<1>1. ControlTypes /\ UNCHANGED syncVars => ControlTypes'
  BY DEF ControlTypes, syncVars
<1>2. FetchTypes /\ UNCHANGED fetchVars => FetchTypes'
  BY DEF FetchTypes, fetchVars, rawVars
<1>3. ProcTypes /\ UNCHANGED procVars => ProcTypes'
  BY DEF ProcTypes, procVars
<1>4. SortTypes /\ UNCHANGED sortVars => SortTypes'
  BY DEF SortTypes, sortVars, bufferVars, batcherVars
<1>5. PersistTypes /\ UNCHANGED persistVars => PersistTypes'
  BY DEF PersistTypes, persistVars
<1>. QED  BY <1>1, <1>2, <1>3, <1>4, <1>5

\* An injected failure is counted within its bound.
LEMMA FailTypes ==
  ASSUME ControlTypes, Fail, UNCHANGED <<node_tip, sync, shutdown, batching, fork_height>>
  PROVE  ControlTypes'
BY PipelineAssumption DEF ControlTypes, Fail

-----------------------------------------------------------------------------
(* One lemma for each group of actions. *)

\* Nothing is stored and no task runs before the first sync (Init).
LEMMA InitIInv == Init => IInv
<1>. SUFFICES ASSUME Init PROVE IInv
  OBVIOUS
<1>. USE DEF Init, Raw!new, Reorder!new, Batch!new
<1>1. ControlTypes
  <2>1. 0 \in 0 .. (U32 - 1) /\ 0 \in 0 .. MaxFailures
    BY Bounds
  <2>. QED  BY <2>1 DEF ControlTypes
<1>2. FetchTypes /\ ProcTypes /\ ChannelTypes
  BY BlocksFacts, ChannelFacts DEF FetchTypes, ProcTypes, ChannelTypes, TaskState
<1>3. SortTypes /\ PersistTypes
  BY BlocksFacts, PipelineAssumption DEF SortTypes, PersistTypes, TaskState
<1>4. PersistedIsPrefix /\ QueueInv /\ SortInv /\ BatcherInv /\ PendingInv
  BY DEF PersistedIsPrefix, QueueInv, SortInv, BatcherInv, PendingInv
<1>. QED  BY <1>1, <1>2, <1>3, <1>4, TypeParts DEF IInv

\* What the invariant says depends on nothing before the reorder buffer.
LEMMA Frame ==
  ASSUME IInv, TypeOK', UNCHANGED <<sortVars, sort_chan, persistVars>>
  PROVE  IInv'
BY DEF IInv, PersistedIsPrefix, QueueInv, SortInv, Queued, BatcherInv, PendingInv,
       sortVars, bufferVars, batcherVars, persistVars

\* The node, the scheduler and the shutdown touch no block.
LEMMA ControlKeepsIInv ==
  ASSUME IInv,
         NodeGrows \/ SyncReturn \/ SyncAbort \/ ShutdownRequested \/ SignalReceived
           \/ SchedulerStops
  PROVE  IInv'
<1>1. UNCHANGED <<fetchVars, fetch_chan, procVars, proc_chan, sortVars, sort_chan,
                  persistVars>>
  BY DEF NodeGrows, SyncReturn, SyncAbort, ShutdownRequested, SignalReceived,
         SchedulerStops
<1>2. ControlTypes'
  <2>1. ControlTypes
    BY TypeParts DEF IInv
  <2>2. CASE NodeGrows
    BY <2>1, <2>2, Bounds DEF ControlTypes, NodeGrows
  <2>3. CASE SyncReturn \/ SyncAbort \/ SchedulerStops
    BY <2>1, <2>3 DEF ControlTypes, SyncReturn, SyncAbort, SchedulerStops
  <2>4. CASE ShutdownRequested \/ SignalReceived
    BY <2>1, <2>4 DEF ControlTypes, ShutdownRequested, SignalReceived
  <2>. QED  BY <2>2, <2>3, <2>4
<1>3. ChannelTypes'
  BY <1>1, TypeParts DEF IInv, ChannelTypes
<1>4. FetchTypes' /\ ProcTypes' /\ SortTypes' /\ PersistTypes'
  BY <1>1, TypeParts, TypesKept DEF IInv
<1>5. TypeOK'
  BY <1>2, <1>3, <1>4, TypePartsNext
<1>. QED  BY <1>1, <1>5, Frame

\* The fetch task and its size batcher (RestBlockStream::stream, SizeBatcher).
LEMMA FetchKeepsIInv ==
  ASSUME IInv,
         FetchYield \/ FetchPanics \/ FetchFinish \/ FetchSend \/ FetchAborted
  PROVE  IInv'
<1>1. UNCHANGED <<procVars, proc_chan, sortVars, sort_chan, persistVars>>
  BY DEF FetchYield, FetchPanics, FetchFinish, FetchSend, FetchAborted
<1>2. ProcTypes' /\ SortTypes' /\ PersistTypes'
  BY <1>1, TypeParts, TypesKept DEF IInv
<1>3. FetchTypes /\ ControlTypes /\ ChannelTypes
  BY TypeParts DEF IInv
<1>4. ControlTypes'
  <2>1. CASE FetchPanics
    BY <1>3, <2>1, FailTypes DEF FetchPanics
  <2>2. CASE FetchYield \/ FetchFinish \/ FetchSend \/ FetchAborted
    <3>1. UNCHANGED syncVars
      BY <2>2 DEF FetchYield, FetchFinish, FetchSend, FetchAborted
    <3>. QED  BY <1>3, <3>1, TypesKept
  <2>. QED  BY <2>1, <2>2
<1>5. FetchTypes' /\ ChannelTypes'
  <2>1. CASE FetchYield
    <3>1. PICK h \in todo : Raw!push(h, SizeOf[h]) /\ todo' = todo \ {h}
      BY <2>1 DEF FetchYield, InFlight
    <3>2. h \in Height /\ todo' \subseteq Height
      BY <1>3, <3>1 DEF FetchTypes
    <3>3. sbuf' \in Blocks /\ sout' \in Blocks
      BY <1>3, <3>1, <3>2, BlocksFacts DEF FetchTypes, Raw!push
    <3>. QED  BY <1>1, <1>3, <2>1, <3>2, <3>3 DEF FetchYield, FetchTypes, ChannelTypes
  <2>2. CASE FetchPanics
    BY <1>1, <1>3, <2>2, BlocksFacts DEF FetchPanics, FetchTypes, ChannelTypes, TaskState
  <2>3. CASE FetchFinish
    BY <1>1, <1>3, <2>3, BlocksFacts
       DEF FetchFinish, Raw!take_all, FetchTypes, ChannelTypes, TaskState
  <2>4. CASE FetchSend
    BY <1>1, <1>3, <2>4, BlocksFacts, ChannelFacts
       DEF FetchSend, FetchTypes, ChannelTypes, TaskState
  <2>5. CASE FetchAborted
    BY <1>1, <1>3, <2>5, BlocksFacts DEF FetchAborted, FetchTypes, ChannelTypes, TaskState
  <2>. QED  BY <2>1, <2>2, <2>3, <2>4, <2>5
<1>. QED  BY <1>1, <1>2, <1>4, <1>5, TypePartsNext, Frame

\* The process task, its workers and its buffer (syncer.rs, process).
LEMMA ProcessKeepsIInv ==
  ASSUME IInv,
         ProcTake \/ ProcYield \/ ProcJoinError \/ ProcAccumulate \/ ProcBlockError
           \/ ProcSend \/ ProcFinish \/ ProcAborted
  PROVE  IInv'
<1>1. UNCHANGED <<fetchVars, sortVars, sort_chan, persistVars>>
  BY DEF ProcTake, ProcYield, ProcJoinError, ProcAccumulate, ProcBlockError, ProcSend,
         ProcFinish, ProcAborted
<1>2. FetchTypes' /\ SortTypes' /\ PersistTypes'
  BY <1>1, TypeParts, TypesKept DEF IInv
<1>3. ProcTypes /\ ControlTypes /\ ChannelTypes
  BY TypeParts DEF IInv
<1>4. ControlTypes'
  <2>1. CASE ProcJoinError \/ ProcBlockError
    BY <1>3, <2>1, FailTypes DEF ProcJoinError, ProcBlockError
  <2>2. CASE ProcTake \/ ProcYield \/ ProcAccumulate \/ ProcSend \/ ProcFinish \/ ProcAborted
    <3>1. UNCHANGED syncVars
      BY <2>2 DEF ProcTake, ProcYield, ProcAccumulate, ProcSend, ProcFinish, ProcAborted
    <3>. QED  BY <1>3, <3>1, TypesKept
  <2>. QED  BY <2>1, <2>2
<1>5. ProcTypes' /\ ChannelTypes'
  <2>. USE <1>1, <1>3, BlocksFacts, ChannelFacts DEF ProcTypes, ChannelTypes
  <2>1. CASE ProcTake
    BY <2>1 DEF ProcTake
  <2>2. CASE ProcYield
    BY <2>2 DEF ProcYield
  <2>3. CASE ProcJoinError
    BY <2>3 DEF ProcJoinError
  <2>4. CASE ProcAccumulate
    BY <2>4 DEF ProcAccumulate
  <2>5. CASE ProcBlockError
    BY <2>5 DEF ProcBlockError
  <2>6. CASE ProcSend
    BY <2>6 DEF ProcSend
  <2>7. CASE ProcFinish
    BY <2>7 DEF ProcFinish, ProcAtLoopHead
  <2>8. CASE ProcAborted
    BY <2>8 DEF ProcAborted
  <2>. QED  BY <2>1, <2>2, <2>3, <2>4, <2>5, <2>6, <2>7, <2>8
<1>. QED  BY <1>1, <1>2, <1>4, <1>5, TypePartsNext, Frame

-----------------------------------------------------------------------------
\* The end of the queue is a number once its batches are runs.
LEMMA EndFacts ==
  ASSUME NEW p \in Blocks, NEW ch \in Channel,
         \A i \in 1 .. Len(ch) :
           ch[i] # <<>> /\ Consecutive(ch[i], EndBefore(p, ch, i) + 1)
  PROVE  \A i \in 1 .. Len(ch) + 1 : EndBefore(p, ch, i) \in Int
<1>. SUFFICES ASSUME NEW i \in 1 .. Len(ch) + 1 PROVE EndBefore(p, ch, i) \in Int
  OBVIOUS
<1>0. ch \in Seq(Blocks) /\ Len(ch) \in Nat
  BY DEF Channel
<1>1. CASE i = 1
  BY <1>1, BlocksFacts DEF EndBefore
<1>2. CASE i # 1
  <2>1. i - 1 \in 1 .. Len(ch)
    BY <1>0, <1>2
  <2>2. ch[i - 1] \in Seq(Height) /\ ch[i - 1] # <<>>
    BY <1>0, <2>1 DEF Blocks
  <2>3. ch[i - 1][Len(ch[i - 1])] \in Height
    BY <2>2
  <2>. QED  BY <1>2, <2>3 DEF EndBefore, Height
<1>. QED  BY <1>1, <1>2

\* While the persist thread listens, the queue ends at a height.
LEMMA QueuedInt ==
  ASSUME IInv, persist_st = "run"
  PROVE  Queued \in Int
<1>1. persisted \in Blocks /\ sort_chan \in Channel /\ QueueInv
  BY TypeParts DEF IInv, PersistTypes, ChannelTypes
<1>2. Len(sort_chan) \in Nat
  BY <1>1 DEF Channel
<1>. QED  BY <1>1, <1>2, EndFacts DEF QueueInv, Queued

\* A sync starts right after the stored blocks, with everything else empty
\* (sync up to the spawning of its tasks).
LEMMA SyncStartKeepsIInv ==
  ASSUME IInv, SyncStart
  PROVE  IInv'
<1>1. last_height \in 0 .. MaxHeight /\ Consecutive(persisted, 1)
  BY PrefixFacts DEF IInv
<1>2. ControlTypes /\ PersistTypes
  BY TypeParts DEF IInv
<1>3. ControlTypes'
  <2>1. SubU32(node_tip, ForkDetectionHeights) \in 0 .. (U32 - 1)
    BY <1>2, Bounds, PipelineAssumption DEF ControlTypes, SubU32
  <2>2. batching' \in BOOLEAN
    BY DEF SyncStart
  <2>. QED  BY <1>2, <2>1, <2>2 DEF ControlTypes, SyncStart
<1>4. FetchTypes' /\ ProcTypes' /\ ChannelTypes'
  <2>1. (last_height + 1) .. node_tip \subseteq Height
    BY <1>1, <1>2, Bounds DEF ControlTypes, Height
  <2>. QED  BY <2>1, BlocksFacts, ChannelFacts
            DEF SyncStart, FetchTypes, ProcTypes, ChannelTypes, TaskState
<1>5. SortTypes' /\ PersistTypes'
  <2>1. last_height + 1 \in 1 .. (MaxHeight + 1)
    BY <1>1, Bounds
  <2>2. DOMAIN pending' = {}
    BY DEF SyncStart
  <2>. QED  BY <1>2, <2>1, <2>2, BlocksFacts
            DEF SyncStart, SortTypes, PersistTypes, TaskState
<1>6. PersistedIsPrefix'
  BY DEF IInv, PersistedIsPrefix, SyncStart
<1>7. QueueInv' /\ SortInv'
  <2>1. /\ sort_chan' = <<>> /\ wout' = <<>> /\ wbuf' = <<>> /\ ready' = <<>>
        /\ next_height' = Len(persisted) + 1 /\ persisted' = persisted
    BY DEF SyncStart, last_height
  <2>2. Queued' = Len(persisted)
    BY <2>1 DEF Queued, EndBefore
  <2>. QED  BY <1>1, <2>1, <2>2 DEF QueueInv, SortInv, Consecutive, last_height
<1>8. BatcherInv' /\ PendingInv'
  BY DEF SyncStart, BatcherInv, PendingInv
<1>. QED  BY <1>3, <1>4, <1>5, <1>6, <1>7, <1>8, TypePartsNext DEF IInv

\* What a step of the sort task that sends nothing has to keep.
LEMMA SortFrame ==
  ASSUME IInv, TypeOK', SortInv', BatcherInv', PendingInv',
         UNCHANGED <<sort_chan, persistVars>>
  PROVE  IInv'
BY DEF IInv, PersistedIsPrefix, QueueInv, persistVars

\* The parts of the type invariant that the sort task leaves alone.
LEMMA SortTypeFrame ==
  ASSUME IInv, SortTypes', ChannelTypes',
         UNCHANGED <<syncVars, fetchVars, procVars, persistVars>>
  PROVE  TypeOK'
BY TypeParts, TypesKept, TypePartsNext DEF IInv

\* A batch arrives from the process task.
LEMMA SortRecvKeepsIInv ==
  ASSUME IInv, SortRecv
  PROVE  IInv'
<1>1. SortTypes' /\ ChannelTypes'
  BY TypeParts, ChannelFacts
     DEF IInv, SortRecv, SortTypes, ChannelTypes, bufferVars, batcherVars
<1>2. UNCHANGED <<syncVars, fetchVars, procVars, persistVars, sort_chan>>
  BY DEF SortRecv
<1>3. TypeOK'
  BY <1>1, <1>2, SortTypeFrame
<1>4. SortInv' /\ BatcherInv' /\ PendingInv'
  BY DEF IInv, SortRecv, SortInv, Queued, BatcherInv, PendingInv, bufferVars,
         batcherVars, persistVars
<1>. QED  BY <1>2, <1>3, <1>4, SortFrame

\* The reorder buffer drops a late block, or releases a run from next_height
\* (ReorderBuffer::insert).
LEMMA SortInsertKeepsIInv ==
  ASSUME IInv, SortInsert
  PROVE  IInv'
<1>. DEFINE h == Head(sort_cur)
<1>1. SortTypes /\ ChannelTypes /\ SortInv /\ BatcherInv /\ PendingInv
  BY TypeParts DEF IInv
<1>2. /\ UNCHANGED <<syncVars, fetchVars, procVars, persistVars, fetch_chan, proc_chan,
                     sort_chan, sort_st, wmode, wbuf, wout>>
      /\ sort_cur # <<>> /\ ready = <<>> /\ wout = <<>>
      /\ sort_cur' = Tail(sort_cur)
      /\ Reorder!InsertTooLow(h) \/ Reorder!InsertOrdered(h, h)
  BY DEF SortInsert, batcherVars, Reorder!insert
<1>3. h \in Height /\ sort_cur' \in Blocks /\ next_height \in 1 .. (MaxHeight + 1)
  BY <1>1, <1>2, BlocksFacts DEF SortTypes
<1>4. ASSUME Reorder!InsertTooLow(h)
      PROVE  ready' = <<>> /\ UNCHANGED <<next_height, pending>>
  BY <1>4 DEF Reorder!InsertTooLow
<1>5. ASSUME Reorder!InsertOrdered(h, h)
      PROVE  /\ next_height' \in next_height .. (MaxHeight + 1)
             /\ DOMAIN pending' \subseteq Height
             /\ \A k \in DOMAIN pending' : pending'[k] = k
             /\ ready' \in Blocks /\ Len(ready') = next_height' - next_height
             /\ Consecutive(ready', next_height)
  <2>. DEFINE q == Reorder!FirstComeWins(pending, h, h)
  <2>1. /\ DOMAIN q = DOMAIN pending \cup {h}
        /\ \A k \in DOMAIN q : q[k] = k
    BY <1>1 DEF Reorder!FirstComeWins, PendingInv
  <2>2. PICK m \in next_height .. (MaxHeight + 1) :
          /\ \A k \in next_height .. (m - 1) : k \in DOMAIN q
          /\ ready' = [i \in 1 .. (m - next_height) |-> q[next_height + i - 1]]
          /\ pending' = [k \in DOMAIN q \ (next_height .. (m - 1)) |-> q[k]]
          /\ next_height' = m
    BY <1>5 DEF Reorder!InsertOrdered, Reorder!DrainStopsAt
  <2>. HIDE DEF q, h
  <2>3. DOMAIN q \subseteq Height
    BY <1>1, <1>3, <2>1 DEF SortTypes
  <2>4. m \in Nat /\ next_height \in Nat /\ m >= next_height
    BY <1>3, <2>2
  <2>5. \A i \in 1 .. (m - next_height) :
          /\ next_height + i - 1 \in next_height .. (m - 1)
          /\ next_height + i - 1 \in Height
          /\ q[next_height + i - 1] = next_height + i - 1
    <3>. SUFFICES ASSUME NEW i \in 1 .. (m - next_height)
                  PROVE  /\ next_height + i - 1 \in next_height .. (m - 1)
                         /\ next_height + i - 1 \in Height
                         /\ q[next_height + i - 1] = next_height + i - 1
      OBVIOUS
    <3>1. next_height + i - 1 \in next_height .. (m - 1)
      BY <2>4
    <3>2. next_height + i - 1 \in DOMAIN q
      BY <2>2, <3>1
    <3>. QED  BY <2>1, <2>3, <3>1, <3>2
  <2>6. /\ DOMAIN ready' = 1 .. (m - next_height)
        /\ \A i \in DOMAIN ready' : ready'[i] = next_height + i - 1
    BY <2>2, <2>5
  <2>7. ready' \in Blocks /\ Len(ready') = m - next_height
    <3>1. m - next_height \in Nat
      BY <2>4
    <3>2. ready' \in [1 .. (m - next_height) -> Height]
      BY <2>2, <2>5
    <3>. QED  BY <3>1, <3>2 DEF Blocks
  <2>8. DOMAIN pending' \subseteq Height /\ \A k \in DOMAIN pending' : pending'[k] = k
    BY <2>1, <2>2, <2>3
  <2>. QED  BY <2>2, <2>6, <2>7, <2>8 DEF Consecutive
<1>6. SortTypes' /\ ChannelTypes'
  <2>1. /\ next_height' \in 1 .. (MaxHeight + 1) /\ DOMAIN pending' \subseteq Height
        /\ ready' \in Blocks
    <3>1. CASE Reorder!InsertTooLow(h)
      BY <1>1, <1>4, <3>1, BlocksFacts DEF SortTypes
    <3>2. CASE Reorder!InsertOrdered(h, h)
      <4>1. next_height' \in next_height .. (MaxHeight + 1)
        BY <1>5, <3>2
      <4>2. next_height' \in 1 .. (MaxHeight + 1)
        BY <1>3, <4>1, Bounds
      <4>. QED  BY <1>5, <3>2, <4>2
    <3>. QED  BY <1>2, <3>1, <3>2
  <2>. QED  BY <1>1, <1>2, <1>3, <2>1 DEF SortTypes, ChannelTypes
<1>7. TypeOK'
  BY <1>2, <1>6, SortTypeFrame
<1>8. SortInv'
  <2>. SUFFICES ASSUME persist_st = "run", sort_st # "done"
                PROVE  /\ Consecutive(wout, Queued + 1)
                       /\ Consecutive(wbuf, Queued + Len(wout) + 1)
                       /\ Consecutive(ready', Queued + Len(wout) + Len(wbuf) + 1)
                       /\ next_height' = Queued + Len(wout) + Len(wbuf) + Len(ready') + 1
    BY <1>2 DEF SortInv, Queued, persistVars
  <2>1. /\ Consecutive(wout, Queued + 1)
        /\ Consecutive(wbuf, Queued + Len(wout) + 1)
        /\ Consecutive(ready, Queued + Len(wout) + Len(wbuf) + 1)
        /\ next_height = Queued + Len(wout) + Len(wbuf) + Len(ready) + 1
    BY <1>1 DEF SortInv
  <2>2. Len(ready) = 0 /\ Len(wout) = 0 /\ Len(wbuf) \in Nat /\ Queued \in Int
    BY <1>1, <1>2, QueuedInt, BlocksFacts DEF SortTypes
  <2>3. next_height = Queued + Len(wout) + Len(wbuf) + 1
    BY <2>1, <2>2
  <2>4. CASE Reorder!InsertTooLow(h)
    BY <1>2, <1>4, <2>1, <2>4
  <2>5. CASE Reorder!InsertOrdered(h, h)
    <3>1. next_height' = next_height + Len(ready') /\ Len(ready') \in Nat
      BY <1>3, <1>5, <2>5, BlocksFacts
    <3>. QED  BY <1>5, <2>1, <2>2, <2>3, <2>5, <3>1
  <2>. QED  BY <1>2, <2>4, <2>5
<1>9. BatcherInv' /\ PendingInv'
  BY <1>1, <1>2, <1>4, <1>5 DEF BatcherInv, PendingInv
<1>. QED  BY <1>2, <1>7, <1>8, <1>9, SortFrame

\* The batcher takes the first released block and passes on what is full
\* (WeightBatcher::push_with).
LEMMA SortPushKeepsIInv ==
  ASSUME IInv, SortPush
  PROVE  IInv'
<1>. DEFINE h == Head(ready)
<1>1. SortTypes /\ ChannelTypes /\ SortInv /\ BatcherInv /\ PendingInv
  BY TypeParts DEF IInv
<1>2. /\ UNCHANGED <<syncVars, fetchVars, procVars, persistVars, fetch_chan, proc_chan,
                     sort_chan, sort_st, sort_cur, next_height, pending, wmode>>
      /\ ready # <<>> /\ wout = <<>> /\ ready' = Tail(ready)
      /\ \/ wmode = "Immediate" /\ wout' = <<h>> /\ wbuf' = wbuf
         \/ wout' = Append(wbuf, h) /\ wbuf' = <<>>
         \/ wout' = <<>> /\ wbuf' = Append(wbuf, h)
  BY DEF SortPush, bufferVars, Batch!push_with
<1>3. h \in Height /\ ready' \in Blocks
  BY <1>1, <1>2, BlocksFacts DEF SortTypes
<1>4. wbuf' \in Blocks /\ wout' \in Blocks
  BY <1>1, <1>2, <1>3, BlocksFacts DEF SortTypes
<1>5. SortTypes' /\ ChannelTypes'
  BY <1>1, <1>2, <1>3, <1>4 DEF SortTypes, ChannelTypes
<1>6. TypeOK'
  BY <1>2, <1>5, SortTypeFrame
<1>7. SortInv'
  <2>. SUFFICES ASSUME persist_st = "run", sort_st # "done"
                PROVE  /\ Consecutive(wout', Queued + 1)
                       /\ Consecutive(wbuf', Queued + Len(wout') + 1)
                       /\ Consecutive(ready', Queued + Len(wout') + Len(wbuf') + 1)
                       /\ next_height = Queued + Len(wout') + Len(wbuf') + Len(ready') + 1
    BY <1>2 DEF SortInv, Queued, persistVars
  <2>. DEFINE lo == Queued + 1
              n == Len(wbuf)
              l == Len(ready)
  <2>0. Queued \in Int
    BY QueuedInt
  <2>1. lo \in Int /\ n \in Nat /\ l \in Nat /\ Queued + 1 = lo
    BY <1>1, <2>0, BlocksFacts DEF SortTypes
  <2>2. Len(wout) = 0 /\ wbuf \in Seq(Int) /\ ready \in Seq(Int)
    BY <1>1, <1>2, BlocksFacts DEF SortTypes
  <2>3. /\ Consecutive(wbuf, Queued + 0 + 1)
        /\ Consecutive(ready, Queued + 0 + n + 1)
        /\ next_height = Queued + 0 + n + l + 1
    BY <1>1, <2>2 DEF SortInv
  <2>. HIDE DEF lo, n, l
  <2>4. /\ Queued + 0 + 1 = lo /\ Queued + 0 + n + 1 = lo + n
        /\ Queued + 0 + n + l + 1 = lo + n + l
    BY <2>0, <2>1
  <2>5. /\ Consecutive(wbuf, lo) /\ Consecutive(ready, lo + n)
        /\ next_height = lo + n + l /\ lo + n \in Int
    BY <2>1, <2>3, <2>4
  <2>6. /\ h = lo + n /\ Consecutive(ready', lo + n + 1) /\ Len(ready') = l - 1
    <3>1. /\ Head(ready) = lo + n /\ Consecutive(Tail(ready), lo + n + 1)
          /\ Len(Tail(ready)) = Len(ready) - 1
      BY <1>2, <2>2, <2>5, RunFacts
    <3>. QED  BY <1>2, <3>1 DEF l
  <2>7. Consecutive(Append(wbuf, h), lo) /\ Len(Append(wbuf, h)) = n + 1
    <3>1. Consecutive(Append(wbuf, lo + Len(wbuf)), lo)
      BY <2>1, <2>2, <2>5, RunFacts
    <3>2. Len(Append(wbuf, h)) = Len(wbuf) + 1
      BY <2>2
    <3>. QED  BY <2>6, <3>1, <3>2 DEF n
  <2>8. /\ Consecutive(<<>>, lo) /\ Consecutive(<<>>, lo + n + 1) /\ Consecutive(<<lo>>, lo)
        /\ Len(<<>>) = 0 /\ Len(<<h>>) = 1
    BY <2>1 DEF Consecutive
  <2>. HIDE DEF h
  <2>9. CASE wmode = "Immediate" /\ wout' = <<h>> /\ wbuf' = wbuf
    <3>1. wbuf = <<>> /\ n = 0
      BY <1>1, <2>9 DEF BatcherInv, n
    <3>2. wout' = <<lo>> /\ Len(wout') = 1 /\ Len(wbuf') = 0 /\ wbuf' = <<>>
      <4>1. h = lo
        BY <2>1, <2>6, <3>1
      <4>. QED  BY <2>8, <2>9, <3>1, <4>1
    <3>3. /\ Queued + 1 + 1 = lo + n + 1 /\ Queued + 1 + 0 + 1 = lo + n + 1
          /\ lo + n + l = Queued + 1 + 0 + (l - 1) + 1
      BY <2>0, <2>1, <3>1
    <3>. QED  BY <2>1, <2>5, <2>6, <2>8, <3>2, <3>3
  <2>10. CASE wout' = Append(wbuf, h) /\ wbuf' = <<>>
    <3>1. Len(wout') = n + 1 /\ Len(wbuf') = 0
      BY <2>7, <2>8, <2>10
    <3>2. /\ Queued + (n + 1) + 1 = lo + n + 1 /\ Queued + (n + 1) + 0 + 1 = lo + n + 1
          /\ lo + n + l = Queued + (n + 1) + 0 + (l - 1) + 1
      BY <2>0, <2>1
    <3>. QED  BY <2>1, <2>5, <2>6, <2>7, <2>8, <2>10, <3>1, <3>2
  <2>11. CASE wout' = <<>> /\ wbuf' = Append(wbuf, h)
    <3>1. Len(wout') = 0 /\ Len(wbuf') = n + 1
      BY <2>7, <2>8, <2>11
    <3>2. /\ Queued + 0 + 1 = lo /\ Queued + 0 + (n + 1) + 1 = lo + n + 1
          /\ lo + n + l = Queued + 0 + (n + 1) + (l - 1) + 1
      BY <2>0, <2>1
    <3>. QED  BY <2>1, <2>5, <2>6, <2>7, <2>8, <2>11, <3>1, <3>2
  <2>. QED  BY <1>2, <2>9, <2>10, <2>11 DEF h
<1>8. BatcherInv'
  <2>1. wmode = "Immediate" => wbuf' = <<>>
    BY <1>1 DEF SortPush, Batch!push_with, BatcherInv
  <2>. QED  BY <1>1, <1>2, <2>1 DEF BatcherInv
<1>9. PendingInv'
  BY <1>1, <1>2 DEF PendingInv
<1>. QED  BY <1>2, <1>6, <1>7, <1>8, <1>9, SortFrame

\* The rest of the batcher is flushed, or the task is aborted between two steps.
LEMMA SortEndsKeepsIInv ==
  ASSUME IInv, SortFinish \/ SortAborted
  PROVE  IInv'
<1>1. SortTypes /\ ChannelTypes /\ SortInv /\ BatcherInv /\ PendingInv
  BY TypeParts DEF IInv
<1>2. UNCHANGED <<syncVars, fetchVars, procVars, persistVars, fetch_chan, proc_chan,
                  sort_chan, next_height, pending, wmode>>
  BY DEF SortFinish, SortAborted, bufferVars, batcherVars, Batch!flush
<1>3. CASE SortAborted
  <2>1. SortTypes' /\ ChannelTypes'
    BY <1>1, <1>3, BlocksFacts
       DEF SortAborted, SortTypes, ChannelTypes, bufferVars, batcherVars, TaskState
  <2>2. TypeOK'
    BY <1>2, <2>1, SortTypeFrame
  <2>3. SortInv' /\ BatcherInv' /\ PendingInv'
    BY <1>1, <1>2, <1>3 DEF SortAborted, SortInv, BatcherInv, PendingInv, batcherVars
  <2>. QED  BY <1>2, <2>2, <2>3, SortFrame
<1>4. CASE SortFinish
  <2>1. /\ ready = <<>> /\ wout = <<>> /\ UNCHANGED <<sort_cur, ready>>
        /\ sort_st = "run" /\ sort_st' \in TaskState
        /\ wout' = wbuf /\ wbuf' = <<>>
    BY <1>1, <1>4
       DEF SortFinish, SortAtLoopHead, Batch!flush, BatcherInv, TaskState
  <2>2. SortTypes' /\ ChannelTypes'
    BY <1>1, <1>2, <2>1, BlocksFacts DEF SortTypes, ChannelTypes
  <2>3. TypeOK'
    BY <1>2, <2>2, SortTypeFrame
  <2>4. BatcherInv' /\ PendingInv'
    BY <1>1, <1>2, <2>1 DEF BatcherInv, PendingInv
  <2>5. SortInv'
    <3>. SUFFICES ASSUME persist_st = "run"
                  PROVE  /\ Consecutive(wbuf, Queued + 1)
                         /\ Consecutive(<<>>, Queued + Len(wbuf) + 1)
                         /\ Consecutive(<<>>, Queued + Len(wbuf) + Len(<<>>) + 1)
                         /\ next_height = Queued + Len(wbuf) + Len(<<>>) + Len(<<>>) + 1
      BY <1>2, <2>1 DEF SortInv, Queued, persistVars
    <3>1. Queued \in Int /\ Len(wbuf) \in Nat /\ Len(<<>>) = 0
      BY <1>1, QueuedInt, BlocksFacts DEF SortTypes
    <3>2. /\ Consecutive(wbuf, Queued + 0 + 1)
          /\ next_height = Queued + 0 + Len(wbuf) + 0 + 1
      BY <1>1, <2>1, <3>1 DEF SortInv
    <3>3. /\ Queued + 0 + 1 = Queued + 1
          /\ Queued + 0 + Len(wbuf) + 0 + 1 = Queued + Len(wbuf) + 0 + 0 + 1
      BY <3>1
    <3>. QED  BY <3>1, <3>2, <3>3 DEF Consecutive
  <2>. QED  BY <1>2, <2>3, <2>4, <2>5, SortFrame
<1>. QED  BY <1>3, <1>4

\* A batch joins the queue, or is dropped because nobody listens any more.
LEMMA SortSendKeepsIInv ==
  ASSUME IInv, SortSend
  PROVE  IInv'
<1>1. /\ SortTypes /\ ChannelTypes /\ SortInv /\ BatcherInv /\ PendingInv /\ QueueInv
      /\ PersistTypes
  BY TypeParts DEF IInv
<1>2. /\ UNCHANGED <<syncVars, fetchVars, procVars, persistVars, fetch_chan, proc_chan,
                     sort_cur, ready, next_height, pending, wmode, wbuf>>
      /\ wout # <<>> /\ wout' = <<>>
      /\ sort_st # "done" /\ sort_st' \in TaskState
      /\ \/ persist_st = "done" /\ sort_chan' = sort_chan
         \/ sort_chan' = Append(sort_chan, wout)
  BY DEF SortSend, bufferVars, batcherVars, TaskState
<1>3. SortTypes' /\ ChannelTypes'
  BY <1>1, <1>2, BlocksFacts, ChannelFacts DEF SortTypes, ChannelTypes
<1>4. TypeOK'
  BY <1>2, <1>3, SortTypeFrame
<1>5. PersistedIsPrefix' /\ BatcherInv' /\ PendingInv'
  BY <1>1, <1>2 DEF IInv, PersistedIsPrefix, BatcherInv, PendingInv, persistVars
<1>6. QueueInv' /\ SortInv'
  <2>. DEFINE ch == sort_chan
              nch == Append(sort_chan, wout)
              k == Len(sort_chan)
  <2>1. CASE persist_st # "run"
    BY <1>2, <2>1 DEF QueueInv, SortInv, persistVars
  <2>2. CASE persist_st = "run"
    <3>1. sort_chan' = nch /\ persist_st' = "run" /\ persisted' = persisted
      BY <1>2, <2>2 DEF persistVars
    <3>2. ch \in Seq(Blocks) /\ k \in Nat /\ wout \in Blocks
      BY <1>1 DEF SortTypes, ChannelTypes, Channel
    <3>3. /\ Len(nch) = k + 1 /\ nch[k + 1] = wout
          /\ \A i \in 1 .. k : nch[i] = ch[i]
      BY <3>2
    <3>. HIDE DEF ch, nch, k
    <3>4. \A i \in 1 .. k + 1 : EndBefore(persisted, nch, i) = EndBefore(persisted, ch, i)
      <4>. SUFFICES ASSUME NEW i \in 1 .. k + 1
                    PROVE  EndBefore(persisted, nch, i) = EndBefore(persisted, ch, i)
        OBVIOUS
      <4>1. i # 1 => i - 1 \in 1 .. k
        BY <3>2
      <4>. QED  BY <3>3, <4>1 DEF EndBefore
    <3>5. /\ \A i \in 1 .. k :
               ch[i] # <<>> /\ Consecutive(ch[i], EndBefore(persisted, ch, i) + 1)
          /\ Queued = EndBefore(persisted, ch, k + 1)
      BY <1>1, <2>2 DEF QueueInv, Queued, ch, k
    <3>6. /\ Consecutive(wout, Queued + 1)
          /\ Consecutive(wbuf, Queued + Len(wout) + 1)
          /\ Consecutive(ready, Queued + Len(wout) + Len(wbuf) + 1)
          /\ next_height = Queued + Len(wout) + Len(wbuf) + Len(ready) + 1
      BY <1>1, <1>2, <2>2 DEF SortInv
    <3>7. ASSUME NEW i \in 1 .. k + 1
          PROVE  nch[i] # <<>> /\ Consecutive(nch[i], EndBefore(persisted, nch, i) + 1)
      <4>1. CASE i = k + 1
        BY <1>2, <3>3, <3>4, <3>5, <3>6, <4>1
      <4>2. CASE i # k + 1
        <5>1. i \in 1 .. k
          BY <3>2, <4>2
        <5>. QED  BY <3>3, <3>4, <3>5, <5>1
      <4>. QED  BY <4>1, <4>2
    <3>8. QueueInv'
      BY <3>1, <3>3, <3>7 DEF QueueInv
    <3>9. Queued \in Int /\ wout \in Seq(Int) /\ Len(wout) \in Nat /\ Len(wbuf) \in Nat
          /\ Len(ready) \in Nat
      BY <1>1, <2>2, QueuedInt, BlocksFacts DEF SortTypes
    <3>10. Queued' = Queued + Len(wout)
      <4>1. Queued' = EndBefore(persisted, nch, k + 1 + 1)
        BY <3>1, <3>3 DEF Queued
      <4>2. k + 1 + 1 # 1 /\ k + 1 + 1 - 1 = k + 1
        BY <3>2
      <4>3. EndBefore(persisted, nch, k + 1 + 1) = wout[Len(wout)]
        BY <3>3, <4>2 DEF EndBefore
      <4>4. wout[Len(wout)] = Queued + 1 + Len(wout) - 1
        BY <1>2, <3>6, <3>9, RunFacts
      <4>. QED  BY <3>9, <4>1, <4>3, <4>4
    <3>11. SortInv'
      <4>1. Consecutive(<<>>, Queued + Len(wout) + 1) /\ Len(<<>>) = 0
        BY DEF Consecutive
      <4>2. /\ Queued + Len(wout) + 0 + 1 = Queued + Len(wout) + 1
            /\ Queued + Len(wout) + 0 + Len(wbuf) + 1 = Queued + Len(wout) + Len(wbuf) + 1
            /\ Queued + Len(wout) + 0 + Len(wbuf) + Len(ready) + 1
                 = Queued + Len(wout) + Len(wbuf) + Len(ready) + 1
        BY <3>9
      <4>. QED  BY <1>2, <3>6, <3>10, <4>1, <4>2 DEF SortInv
    <3>. QED  BY <3>8, <3>11
  <2>. QED  BY <2>1, <2>2
<1>. QED  BY <1>4, <1>5, <1>6 DEF IInv

-----------------------------------------------------------------------------
(* The persist thread. *)

\* What is stored next continues what is stored.
LEMMA StoredRun ==
  ASSUME IInv, PersistReceives, NEW n \in 0 .. Len(Head(sort_chan))
  PROVE  /\ Head(sort_chan) \in Blocks /\ SubSeq(Head(sort_chan), 1, n) \in Blocks
         /\ Consecutive(persisted \o SubSeq(Head(sort_chan), 1, n), 1)
         /\ Consecutive(persisted \o Head(sort_chan), 1)
         /\ persisted \o SubSeq(Head(sort_chan), 1, n) \in Blocks
         /\ persisted \o Head(sort_chan) \in Blocks
<1>. DEFINE b == Head(sort_chan)
<1>1. /\ persisted \in Blocks /\ sort_chan \in Channel /\ QueueInv
      /\ persist_st = "run" /\ sort_chan # <<>>
  BY TypeParts DEF IInv, PersistTypes, ChannelTypes, PersistReceives
<1>2. b \in Blocks /\ SubSeq(b, 1, n) \in Blocks
  BY <1>1, BlocksFacts, ChannelFacts
<1>3. Consecutive(b, Len(persisted) + 1)
  <2>1. 1 \in 1 .. Len(sort_chan) /\ b = sort_chan[1]
    BY <1>1 DEF Channel
  <2>2. EndBefore(persisted, sort_chan, 1) = Len(persisted)
    BY DEF EndBefore
  <2>. QED  BY <1>1, <2>1, <2>2 DEF QueueInv
<1>4. Len(persisted) \in Nat /\ persisted \in Seq(Int) /\ b \in Seq(Int)
      /\ SubSeq(b, 1, n) \in Seq(Int)
  BY <1>1, <1>2, BlocksFacts
<1>. HIDE DEF b
<1>5. Consecutive(SubSeq(b, 1, n), Len(persisted) + 1)
  <2>1. Len(persisted) + 1 \in Int
    BY <1>4
  <2>. QED  BY <1>3, <1>4, <2>1, RunFacts DEF b
<1>6. 1 + Len(persisted) = Len(persisted) + 1 /\ Consecutive(persisted, 1)
  BY <1>4, PrefixFacts DEF IInv
<1>7. Consecutive(persisted \o b, 1) /\ Consecutive(persisted \o SubSeq(b, 1, n), 1)
  <2>1. /\ Consecutive(b, 1 + Len(persisted))
        /\ Consecutive(SubSeq(b, 1, n), 1 + Len(persisted))
    BY <1>3, <1>5, <1>6
  <2>2. 1 \in Int /\ Consecutive(persisted, 1)
    BY <1>6
  <2>3. Consecutive(persisted \o b, 1)
    BY <1>4, <2>1, <2>2, RunConcat
  <2>4. Consecutive(persisted \o SubSeq(b, 1, n), 1)
    BY <1>4, <2>1, <2>2, RunConcat
  <2>. QED  BY <2>3, <2>4
<1>. QED  BY <1>1, <1>2, <1>7, BlocksFacts DEF b

\* A run from the first height is a prefix of the chain.
LEMMA RunIsPrefix ==
  ASSUME NEW p \in Blocks, Consecutive(p, 1)
  PROVE  \A i \in DOMAIN p : p[i] = i
BY DEF Consecutive, Blocks

\* A batch is committed and leaves the queue (persist_or_link).
LEMMA PersistBatchKeepsIInv ==
  ASSUME IInv, PersistBatch
  PROVE  IInv'
<1>. DEFINE b == Head(sort_chan)
            ch == sort_chan
            k == Len(sort_chan)
<1>1. /\ PersistReceives /\ persisted' = persisted \o b /\ sort_chan' = Tail(ch)
      /\ undurable' \in {0, undurable + 1}
      /\ batch_counter' = batch_counter + 1
      /\ UNCHANGED <<syncVars, fetchVars, fetch_chan, procVars, proc_chan, sortVars,
                     persist_st>>
  BY DEF PersistBatch, Store
<1>2. /\ persisted \in Blocks /\ ch \in Channel /\ QueueInv /\ SortInv
      /\ persist_st = "run" /\ ch # <<>> /\ PersistTypes /\ ChannelTypes
  BY <1>1, TypeParts DEF IInv, PersistTypes, ChannelTypes, PersistReceives
<1>3. b \in Blocks /\ Len(b) \in Nat
  BY <1>2, BlocksFacts, ChannelFacts
<1>4. Consecutive(persisted \o b, 1) /\ persisted \o b \in Blocks
  <2>1. 0 \in 0 .. Len(b)
    BY <1>3
  <2>. QED  BY <1>1, <2>1, StoredRun
<1>5. TypeOK'
  <2>1. PersistTypes' /\ ChannelTypes'
    BY <1>1, <1>2, <1>4, ChannelFacts DEF PersistTypes, ChannelTypes
  <2>. QED  BY <1>1, <2>1, TypeParts, TypesKept, TypePartsNext DEF IInv
<1>6. PersistedIsPrefix'
  BY <1>1, <1>4, RunIsPrefix DEF PersistedIsPrefix
<1>7. /\ k \in Nat /\ k >= 1 /\ Len(Tail(ch)) = k - 1 /\ b = ch[1]
      /\ \A i \in 1 .. k - 1 : Tail(ch)[i] = ch[i + 1]
  BY <1>2 DEF Channel
<1>8. /\ \A i \in 1 .. k :
           ch[i] # <<>> /\ Consecutive(ch[i], EndBefore(persisted, ch, i) + 1)
      /\ Queued = EndBefore(persisted, ch, k + 1)
  BY <1>2 DEF QueueInv, Queued
<1>. HIDE DEF b, ch, k
<1>9. ASSUME NEW i \in 1 .. k
      PROVE  EndBefore(persisted \o b, Tail(ch), i) = EndBefore(persisted, ch, i + 1)
  <2>1. CASE i = 1
    <3>1. b \in Seq(Int) /\ b # <<>> /\ Consecutive(b, Len(persisted) + 1)
      BY <1>3, <1>7, <1>8, <2>1, BlocksFacts DEF EndBefore
    <3>2. Len(persisted) \in Nat /\ Len(persisted \o b) = Len(persisted) + Len(b)
      BY <1>2, <1>3 DEF Blocks
    <3>3. b[Len(b)] = Len(persisted) + 1 + Len(b) - 1
      <4>1. Len(persisted) + 1 \in Int
        BY <3>2
      <4>. QED  BY <3>1, <4>1, RunFacts
    <3>4. b[Len(b)] = Len(persisted) + Len(b)
      BY <1>3, <3>2, <3>3
    <3>5. EndBefore(persisted, ch, 1 + 1) = b[Len(b)]
      BY <1>7 DEF EndBefore
    <3>6. EndBefore(persisted \o b, Tail(ch), 1) = Len(persisted \o b)
      BY DEF EndBefore
    <3>. QED  BY <2>1, <3>2, <3>4, <3>5, <3>6
  <2>2. CASE i # 1
    <3>1. i - 1 \in 1 .. k - 1 /\ i + 1 # 1 /\ i - 1 + 1 = i /\ i + 1 - 1 = i
      BY <1>7, <2>2
    <3>2. Tail(ch)[i - 1] = ch[i]
      BY <1>7, <3>1
    <3>3. EndBefore(persisted, ch, i + 1) = ch[i][Len(ch[i])]
      BY <3>1 DEF EndBefore
    <3>4. EndBefore(persisted \o b, Tail(ch), i) = ch[i][Len(ch[i])]
      BY <2>2, <3>2 DEF EndBefore
    <3>. QED  BY <3>3, <3>4
  <2>. QED  BY <2>1, <2>2
<1>10. QueueInv'
  <2>. SUFFICES ASSUME NEW i \in 1 .. k - 1
                PROVE  /\ Tail(ch)[i] # <<>>
                       /\ Consecutive(Tail(ch)[i], EndBefore(persisted \o b, Tail(ch), i) + 1)
    BY <1>1, <1>7 DEF QueueInv
  <2>1. i \in 1 .. k /\ i + 1 \in 1 .. k
    BY <1>7
  <2>. QED  BY <1>7, <1>8, <1>9, <2>1
<1>11. SortInv'
  <2>1. Queued' = Queued
    <3>1. k - 1 + 1 = k /\ k \in 1 .. k
      BY <1>7
    <3>2. Queued' = EndBefore(persisted \o b, Tail(ch), k)
      BY <1>1, <1>7, <3>1 DEF Queued
    <3>. QED  BY <1>8, <1>9, <3>1, <3>2
  <2>. QED  BY <1>1, <1>2, <2>1 DEF SortInv, sortVars, bufferVars, batcherVars
<1>12. BatcherInv' /\ PendingInv'
  BY <1>1 DEF IInv, BatcherInv, PendingInv, sortVars, bufferVars, batcherVars
<1>. QED  BY <1>5, <1>6, <1>10, <1>11, <1>12 DEF IInv

\* The thread returns with an error, having stored a part of the batch: a prefix
\* of a run is a run, and nothing more is stored by this sync.
LEMMA PersistReturnsKeepsIInv ==
  ASSUME IInv, NEW n \in 0 .. Len(Head(sort_chan)), PersistReturns(n)
  PROVE  IInv'
<1>. DEFINE b == SubSeq(Head(sort_chan), 1, n)
<1>1. /\ PersistReceives /\ persist_st' = "done" /\ sort_chan' = <<>>
      /\ \/ persisted' = persisted /\ undurable' = undurable
         \/ persisted' = persisted \o b /\ undurable' \in {0, undurable + 1}
      /\ Fail
      /\ UNCHANGED <<node_tip, sync, shutdown, batching, fork_height, fetchVars,
                     fetch_chan, procVars, proc_chan, sortVars, batch_counter>>
  BY DEF PersistReturns, Store
<1>2. ControlTypes /\ PersistTypes /\ ChannelTypes
  BY TypeParts DEF IInv
<1>3. Consecutive(persisted \o b, 1) /\ persisted \o b \in Blocks
  BY <1>1, StoredRun
<1>. HIDE DEF b
<1>4. ControlTypes' /\ PersistTypes' /\ ChannelTypes'
  <2>1. ControlTypes'
    BY <1>1, <1>2, FailTypes
  <2>2. PersistTypes'
    <3>1. undurable \in Nat /\ persisted \in Blocks /\ batch_counter' \in Nat
      BY <1>1, <1>2 DEF PersistTypes
    <3>2. undurable' \in Nat
      BY <1>1, <3>1
    <3>3. persisted' \in Blocks
      BY <1>1, <1>3, <3>1
    <3>. QED  BY <1>1, <3>1, <3>2, <3>3 DEF PersistTypes
  <2>3. ChannelTypes'
    BY <1>1, <1>2, ChannelFacts DEF ChannelTypes
  <2>. QED  BY <2>1, <2>2, <2>3
<1>5. TypeOK'
  BY <1>1, <1>4, TypeParts, TypesKept, TypePartsNext DEF IInv
<1>6. PersistedIsPrefix'
  BY <1>1, <1>3, RunIsPrefix DEF IInv, PersistedIsPrefix
<1>7. QueueInv' /\ SortInv' /\ BatcherInv' /\ PendingInv'
  BY <1>1 DEF IInv, QueueInv, SortInv, BatcherInv, PendingInv, sortVars, bufferVars,
              batcherVars
<1>. QED  BY <1>5, <1>6, <1>7 DEF IInv

\* A lookup or a commit fails on the way.
LEMMA PersistFailsKeepsIInv ==
  ASSUME IInv, LinkFails \/ StoreFails
  PROVE  IInv'
<1>. DEFINE b == Head(sort_chan)
<1>1. Len(b) \in Nat
  BY TypeParts, BlocksFacts, ChannelFacts
     DEF IInv, ChannelTypes, LinkFails, StoreFails
<1>2. \E n \in 0 .. Len(b) : PersistReturns(n)
  <2>1. CASE LinkFails
    <3>1. PICK n \in 0 .. (Len(b) - 1) : PersistReturns(n)
      BY <2>1 DEF LinkFails
    <3>. QED  BY <1>1, <3>1
  <2>2. CASE StoreFails
    <3>1. PICK n \in (IF AboveFork(b) THEN 0 .. Len(b) ELSE {0, Len(b)}) : PersistReturns(n)
      BY <2>2 DEF StoreFails
    <3>2. n \in 0 .. Len(b)
      BY <1>1, <3>1
    <3>. QED  BY <3>1, <3>2
  <2>. QED  BY <2>1, <2>2
<1>. QED  BY <1>2, PersistReturnsKeepsIInv

\* The thread blocks on a lock, or leaves its loop: nothing is stored any more.
LEMMA PersistEndsKeepsIInv ==
  ASSUME IInv, PersistBlocks \/ PersistFinish
  PROVE  IInv'
<1>1. /\ UNCHANGED <<syncVars, fetchVars, fetch_chan, procVars, proc_chan, sortVars,
                     batch_counter, undurable, persisted>>
      /\ persist_st' \in {"blocked", "done"}
      /\ sort_chan' = <<>> \/ (sort_chan # <<>> /\ sort_chan' = Tail(sort_chan))
  BY DEF PersistBlocks, PersistFinish, PersistReceives
<1>2. PersistTypes' /\ ChannelTypes'
  BY <1>1, TypeParts, ChannelFacts DEF IInv, PersistTypes, ChannelTypes
<1>3. TypeOK'
  BY <1>1, <1>2, TypeParts, TypesKept, TypePartsNext DEF IInv
<1>4. /\ PersistedIsPrefix' /\ QueueInv' /\ SortInv' /\ BatcherInv' /\ PendingInv'
  BY <1>1 DEF IInv, PersistedIsPrefix, QueueInv, SortInv, BatcherInv, PendingInv,
              sortVars, bufferVars, batcherVars
<1>. QED  BY <1>3, <1>4 DEF IInv

\* Every step keeps the invariant.
LEMMA NextIInv == IInv /\ [Next]_vars => IInv'
<1>. SUFFICES ASSUME IInv, [Next]_vars PROVE IInv'
  OBVIOUS
<1>1. CASE UNCHANGED vars
  <2>1. TypeOK'
    BY <1>1 DEF IInv, TypeOK, vars, syncVars, fetchVars, rawVars, procVars, sortVars,
                bufferVars, batcherVars, persistVars
  <2>. QED  BY <1>1, <2>1, Frame DEF vars
<1>2. CASE Next
  BY <1>2, ControlKeepsIInv, SyncStartKeepsIInv, FetchKeepsIInv, ProcessKeepsIInv,
     SortRecvKeepsIInv, SortInsertKeepsIInv, SortPushKeepsIInv, SortEndsKeepsIInv,
     SortSendKeepsIInv, PersistBatchKeepsIInv, PersistFailsKeepsIInv,
     PersistEndsKeepsIInv
     DEF Next
<1>. QED  BY <1>1, <1>2
\* The type invariant, with next_height within one past the chain and every
\* channel and buffer filled with heights of the chain.
THEOREM TypeCorrect == Spec => []TypeOK
<1>1. IInv => TypeOK
  BY DEF IInv
<1>. QED  BY <1>1, InitIInv, NextIInv, PTL DEF Spec

\* The database holds a gapless, duplicate-free prefix of the chain, however the
\* tasks interleave, whatever fails and wherever a shutdown cuts a sync short.
THEOREM StoresAPrefix == Spec => []PersistedIsPrefix
<1>1. IInv => PersistedIsPrefix
  BY DEF IInv
<1>. QED  BY <1>1, InitIInv, NextIInv, PTL DEF Spec

-----------------------------------------------------------------------------
(* Durability. *)

\* A number that is q times n and r more leaves r.
LEMMA Remainder ==
  ASSUME NEW n \in Nat, n > 0, NEW c \in Nat, NEW q \in Nat, NEW r \in 0 .. (n - 1),
         c = n * q + r
  PROVE  c % n = r
OBVIOUS

\* While batches are committed, the non-durable ones are those since the last
\* multiple of non_durable_batches.
CountInv ==
  /\ ~batching /\ batch_counter > 0 => undurable = 0
  /\ batching /\ batch_counter > NonDurableBatches /\ persist_st = "run" =>
       /\ undurable < NonDurableBatches
       /\ \E q \in Nat : batch_counter = NonDurableBatches * q + (undurable + 1)

DInv == TypeOK /\ CountInv /\ DurableEveryN

\* What a commit does to the count (Durable, Store): after the batch whose number
\* is a multiple of non_durable_batches nothing is non-durable, after any other
\* one batch more.
LEMMA CommitCount ==
  ASSUME DInv, PersistReceives, NEW blocks, Store(blocks)
  PROVE  /\ ~batching => undurable' = 0
         /\ batching /\ batch_counter >= NonDurableBatches =>
              /\ undurable' < NonDurableBatches
              /\ \E q \in Nat : batch_counter + 1 = NonDurableBatches * q + (undurable' + 1)
<1>. DEFINE n == NonDurableBatches
            c == batch_counter
<1>1. c \in Nat /\ undurable \in Nat /\ n \in Nat /\ n > 0
  BY PipelineAssumption DEF DInv, TypeOK
<1>2. undurable' = IF (c > 0 /\ c % n = 0) \/ ~batching THEN 0 ELSE undurable + 1
  BY DEF Store, Durable
<1>3. ASSUME batching, c >= n
      PROVE  undurable' < n /\ \E q \in Nat : c + 1 = n * q + (undurable' + 1)
  <2>1. undurable' = IF c % n = 0 THEN 0 ELSE undurable + 1
    BY <1>1, <1>2, <1>3
  <2>2. undurable' \in Nat
    BY <1>1, <2>1
  <2>3. c > n => undurable < n /\ \E q \in Nat : c = n * q + (undurable + 1)
    BY <1>3 DEF DInv, CountInv, PersistReceives
  <2>. DEFINE u == undurable
              d == undurable'
  <2>4. n \in Nat /\ n > 0 /\ c \in Nat /\ u \in Nat /\ d \in Nat /\ c >= n
    BY <1>1, <1>3, <2>2
  <2>5. (c % n = 0 => d = 0) /\ (c % n # 0 => d = u + 1)
    BY <2>1
  <2>6. c > n => u < n /\ \E q \in Nat : c = n * q + (u + 1)
    BY <2>3
  <2>. HIDE DEF n, c, u, d
  <2>7. d < n /\ \E q \in Nat : c + 1 = n * q + (d + 1)
    <3>1. CASE c = n
      <4>1. c % n = 0
        <5>1. c = n * 1 + 0 /\ 0 \in 0 .. (n - 1)
          BY <2>4, <3>1
        <5>. QED  BY <2>4, <5>1, Remainder
      <4>2. d = 0 /\ c + 1 = n * 1 + (0 + 1)
        BY <2>4, <2>5, <3>1, <4>1
      <4>. QED  BY <2>4, <4>2
    <3>2. CASE c > n
      <4>1. PICK q \in Nat : c = n * q + (u + 1)
        BY <2>4, <2>6, <3>2
      <4>2. u + 1 <= n
        BY <2>4, <2>6, <3>2
      <4>3. CASE u + 1 = n
        <5>1. n * (q + 1) = n * q + n /\ q + 1 \in Nat
          BY <2>4, <4>1
        <5>2. c = n * (q + 1) + 0
          BY <2>4, <4>1, <4>3, <5>1
        <5>3. c % n = 0
          <6>1. 0 \in 0 .. (n - 1)
            BY <2>4
          <6>. QED  BY <2>4, <5>1, <5>2, <6>1, Remainder
        <5>4. d = 0 /\ c + 1 = n * (q + 1) + (0 + 1)
          BY <2>4, <2>5, <5>2, <5>3
        <5>. QED  BY <2>4, <5>1, <5>4
      <4>4. CASE u + 1 < n
        <5>1. c % n = u + 1
          <6>1. u + 1 \in 0 .. (n - 1)
            BY <2>4, <4>4
          <6>. QED  BY <2>4, <4>1, <6>1, Remainder
        <5>2. d = u + 1
          BY <2>4, <2>5, <5>1
        <5>3. c + 1 = n * q + (d + 1)
          BY <2>4, <4>1, <5>2
        <5>. QED  BY <2>4, <4>4, <5>2, <5>3
      <4>. QED  BY <2>4, <4>2, <4>3, <4>4
    <3>. QED  BY <2>4, <3>1, <3>2
  <2>. QED  BY <2>7 DEF d
<1>. QED  BY <1>2, <1>3

\* Every step keeps the count; only the persist thread and a new sync touch it.
LEMMA NextDInv == DInv /\ TypeOK' /\ [Next]_vars => DInv'
<1>. SUFFICES ASSUME DInv, TypeOK', [Next]_vars PROVE CountInv' /\ DurableEveryN'
  BY DEF DInv
<1>. DEFINE n == NonDurableBatches
<1>0. /\ batch_counter \in Nat /\ undurable \in Nat /\ n \in Nat /\ n > 0
      /\ batch_counter' \in Nat /\ undurable' \in Nat /\ batching \in BOOLEAN
  BY PipelineAssumption DEF DInv, TypeOK
<1>1. CASE UNCHANGED <<batching, batch_counter, undurable, persist_st>>
  BY <1>1 DEF DInv, CountInv, DurableEveryN
<1>2. CASE SyncStart
  BY <1>0, <1>2 DEF SyncStart, CountInv, DurableEveryN
<1>3. CASE PersistBatch
  <2>1. /\ PersistReceives /\ Store(Head(sort_chan))
        /\ batch_counter' = batch_counter + 1 /\ batching' = batching
    BY <1>3 DEF PersistBatch, syncVars
  <2>2. /\ ~batching => undurable' = 0
        /\ batching /\ batch_counter >= n =>
             /\ undurable' < n
             /\ \E q \in Nat : batch_counter + 1 = n * q + (undurable' + 1)
    BY <2>1, CommitCount
  <2>3. batch_counter' > n <=> batch_counter >= n
    BY <1>0, <2>1
  <2>4. CountInv'
    BY <2>1, <2>2, <2>3 DEF CountInv
  <2>5. DurableEveryN'
    <3>1. undurable' = 0 => undurable' < n
      BY <1>0
    <3>. QED  BY <1>0, <2>2, <2>3, <3>1 DEF DurableEveryN
  <2>. QED  BY <2>4, <2>5
<1>4. CASE LinkFails \/ StoreFails
  <2>1. PICK m : PersistReturns(m)
    BY <1>4 DEF LinkFails, StoreFails
  <2>2. /\ PersistReceives /\ persist_st' = "done"
        /\ UNCHANGED <<batch_counter, batching>>
        /\ undurable' = undurable \/ Store(SubSeq(Head(sort_chan), 1, m))
    BY <2>1 DEF PersistReturns
  <2>3. ASSUME Store(SubSeq(Head(sort_chan), 1, m))
        PROVE  /\ ~batching => undurable' = 0
               /\ batching /\ batch_counter >= n => undurable' < n
    BY <2>2, <2>3, CommitCount
  <2>4. CountInv'
    BY <2>2, <2>3 DEF DInv, CountInv
  <2>5. DurableEveryN'
    BY <1>0, <2>2, <2>3 DEF DInv, DurableEveryN
  <2>. QED  BY <2>4, <2>5
<1>5. CASE PersistBlocks \/ PersistFinish
  BY <1>5 DEF PersistBlocks, PersistFinish, DInv, CountInv, DurableEveryN, syncVars
<1>6. CASE Next
  <2>1. \/ UNCHANGED <<batching, batch_counter, undurable, persist_st>>
        \/ SyncStart \/ PersistBatch \/ LinkFails \/ StoreFails \/ PersistBlocks
        \/ PersistFinish
    BY <1>6
       DEF Next, NodeGrows, SyncReturn, SyncAbort, FetchYield, FetchPanics, FetchFinish,
           FetchSend, FetchAborted, ProcTake, ProcYield, ProcJoinError, ProcAccumulate,
           ProcBlockError, ProcSend, ProcFinish, ProcAborted, SortRecv, SortInsert,
           SortPush, SortFinish, SortSend, SortAborted, ShutdownRequested,
           SignalReceived, SchedulerStops, syncVars, persistVars
  <2>. QED  BY <1>1, <1>2, <1>3, <1>4, <1>5, <2>1
<1>7. CASE UNCHANGED vars
  BY <1>1, <1>7 DEF vars, syncVars, persistVars
<1>. QED  BY <1>6, <1>7

\* Once a sync has committed more than non_durable_batches batches, a crash loses
\* fewer than that many of the latest ones, whatever the batches were and also
\* when the last commit went wrong half way.
THEOREM BoundedLoss == Spec => []DurableEveryN
<1>1. Init => DInv
  <2>. SUFFICES ASSUME Init PROVE DInv
    OBVIOUS
  <2>1. TypeOK
    BY InitIInv DEF IInv
  <2>2. batch_counter = 0 /\ NonDurableBatches \in Nat /\ NonDurableBatches > 0
    BY PipelineAssumption DEF Init
  <2>. QED  BY <2>1, <2>2 DEF DInv, CountInv, DurableEveryN
<1>2. DInv /\ TypeOK' /\ [Next]_vars => DInv'
  BY NextDInv
<1>3. DInv => DurableEveryN
  BY DEF DInv
<1>. QED  BY <1>1, <1>2, <1>3, TypeCorrect, PTL DEF Spec
=============================================================================
