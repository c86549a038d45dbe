------------------------------ MODULE SortTask ------------------------------
(***************************************************************************)
(* The sort task of a sync (chain/src/syncer.rs): processed blocks go      *)
(* through the reorder buffer, what it releases through the weight batcher *)
(* block by block, and every batch that fills up to the persist thread.    *)
(* When the process task closes its channel, or at a shutdown, the open    *)
(* batch is flushed; blocks still waiting for a gap to close are dropped.  *)
(***************************************************************************)
EXTENDS ReorderBuffer, SequencesExt

CONSTANTS
  WeightOf,        \* weight of a block
  MinWeight, Cap, UsizeMax

ASSUME SortAssumption ==
  /\ WeightOf \in [Block -> Nat]
  /\ UsizeMax \in Nat /\ MinWeight \in 0 .. UsizeMax /\ Cap \in Nat \ {0}

VARIABLES
  wmode, wbuf, weight, wout,  \* WeightBatcher
  between,                    \* released blocks the batcher has not been given
  batches,                    \* history: batches sent to the persist thread
  closed                      \* the task has ended

Blk == INSTANCE WeightBatcher

sortVars == <<wmode, wbuf, weight, wout, between, batches, closed>>
taskVars == <<vars, sortVars>>

TaskInit ==
  /\ Init
  /\ \E mode \in {"None", "Immediate"} : Blk!new(mode)
  /\ between = <<>> /\ batches = <<>> /\ closed = FALSE

Receive(h, b) ==
  /\ ~closed /\ between = <<>>
  /\ Offer(h, b)
  /\ between' = ready'
  /\ UNCHANGED <<wmode, wbuf, weight, wout, batches, closed>>

\* Mutant: what was released from behind the gap is batched newest first.
PushNewest ==
  /\ between # <<>>
  /\ Blk!push_with(Last(between), WeightOf[Last(between)])
  /\ between' = Front(between)
  /\ batches' = IF wout' = <<>> THEN batches ELSE Append(batches, wout')
  /\ UNCHANGED <<vars, closed>>

PushReady ==
  /\ between # <<>>
  /\ Blk!push_with(Head(between), WeightOf[Head(between)])
  /\ between' = Tail(between)
  /\ batches' = IF wout' = <<>> THEN batches ELSE Append(batches, wout')
  /\ UNCHANGED <<vars, closed>>

Close ==
  /\ ~closed /\ between = <<>>
  /\ Blk!flush
  /\ batches' = IF wout' = <<>> THEN batches ELSE Append(batches, wout')
  /\ closed' = TRUE
  /\ UNCHANGED <<vars, between>>

TaskNext == (\E h \in Height, b \in Block : Receive(h, b)) \/ PushReady \/ Close

TaskSpec == TaskInit /\ [][TaskNext]_taskVars

-----------------------------------------------------------------------------
Weigh(s) == FoldLeft(LAMBDA acc, b : acc + WeightOf[b], 0, s)

\* Nothing the reorder buffer released is lost, doubled or moved on its way into
\* batches: they are, with the open one, the released blocks in their order, and
\* all of them once the task has ended.
BatchesAreReleased ==
  /\ FlattenSeq(batches) \o wbuf \o between = emitted
  /\ closed => wbuf = <<>>

\* Persist batches are cut exactly at the threshold: one that push_with releases
\* is heavy or long enough and was neither before its last block (a block alone
\* may be one, min_weight = 0 flushes on every push); the running weight is that
\* of the open batch, so a batch never inherits another's weight.
CutAtThreshold ==
  /\ weight = Weigh(wbuf)
  /\ wmode = "None" =>
       \A k \in DOMAIN batches :
         /\ batches[k] # <<>> /\ Len(Front(batches[k])) < Cap
         /\ Len(batches[k]) = 1 \/ Weigh(Front(batches[k])) < MinWeight
         /\ Weigh(batches[k]) >= MinWeight \/ Len(batches[k]) = Cap \/ (closed /\ k = Len(batches))

\* The open batch is still below both limits, and empty in Immediate mode.
OpenBatchSmall ==
  /\ wmode = "None" =>
       /\ wbuf = <<>> \/ Weigh(wbuf) < MinWeight
       /\ Len(wbuf) < Cap
  /\ wmode = "Immediate" => wbuf = <<>>

\* What reaches the persist thread: all that the reorder buffer has released, in
\* order, in batches cut where the weight says.
BatchesExact == BatchesAreReleased /\ CutAtThreshold /\ OpenBatchSmall
=============================================================================
