--------------------------- MODULE ReorderBuffer ---------------------------
(***************************************************************************)
(* The reorder buffer of the sort task (chain/src/reorder_buffer.rs).      *)
(* Blocks are fetched and processed in parallel and arrive in any order,   *)
(* possibly twice; insert releases them contiguously from next_height.     *)
(* The module is used on its own (Spec below) and by SyncPipeline, which   *)
(* instantiates it and feeds what insert returns into the weight batcher.  *)
(***************************************************************************)
EXTENDS Integers, Sequences, FiniteSets

CONSTANTS
  Start,          \* start_lower_bound given to ReorderBuffer::new
  MaxHeight,      \* bound: the largest height ever offered
  Block,          \* block payloads
  MaxBufferHint,  \* max_buffer_hint, a soft limit that changes no result
  MaxDropped      \* u32::MAX, where dropped_too_low saturates

ASSUME ReorderAssumption ==
  /\ Start \in Nat
  /\ MaxHeight \in Nat
  /\ MaxBufferHint \in Nat
  /\ MaxDropped \in Nat

VARIABLES
  next_height,      \* smallest height not yet released
  pending,          \* HashMap<Height, TB> of blocks waiting for a gap to close
  max_seen,         \* Option<Height>
  dropped_too_low,  \* late arrivals, saturating
  ready             \* the Vec the last insert returned

bufferVars == <<next_height, pending, max_seen, dropped_too_low, ready>>

Height == 0 .. MaxHeight

None == -1

\* A buffer created for the first missing height s.
new(s) ==
  /\ next_height = s
  /\ pending = [k \in {} |-> s]
  /\ max_seen = None
  /\ dropped_too_low = 0
  /\ ready = <<>>

\* Entry::Vacant inserts, Entry::Occupied keeps what is there.
FirstComeWins(p, h, b) ==
  [k \in DOMAIN p \cup {h} |-> IF k \in DOMAIN p THEN p[k] ELSE b]

\* Mutant: the drain releases one block and stops.
DrainOnce(p, n, m) == m = IF n \in DOMAIN p THEN n + 1 ELSE n

\* The drain loop removes heights n, n + 1, ... and stops at the first, m,
\* that p does not hold.
DrainStopsAt(p, n, m) ==
  /\ m \notin DOMAIN p
  /\ \A k \in n .. (m - 1) : k \in DOMAIN p

\* Mutant: the counter of late arrivals does not saturate.
InsertTooLowUnbounded(h) ==
  /\ h < next_height
  /\ dropped_too_low' = dropped_too_low + 1
  /\ ready' = <<>>
  /\ UNCHANGED <<next_height, pending, max_seen>>

\* insert of a height below next_height: the block is counted and dropped.
InsertTooLow(h) ==
  /\ h < next_height
  /\ dropped_too_low' =
       IF dropped_too_low < MaxDropped THEN dropped_too_low + 1 ELSE MaxDropped
  /\ ready' = <<>>
  /\ UNCHANGED <<next_height, pending, max_seen>>

\* Mutant: pending.insert, so that the last block offered for a height wins.
InsertOrderedLastWins(h, b) ==
  /\ h >= next_height
  /\ max_seen' = IF max_seen = None \/ h > max_seen THEN h ELSE max_seen
  /\ LET p == [k \in DOMAIN pending \cup {h} |-> IF k = h THEN b ELSE pending[k]]
     IN  \E m \in next_height .. (MaxHeight + 1) :
           /\ DrainStopsAt(p, next_height, m)
           /\ ready' = [i \in 1 .. (m - next_height) |-> p[next_height + i - 1]]
           /\ pending' = [k \in DOMAIN p \ (next_height .. (m - 1)) |-> p[k]]
           /\ next_height' = m
  /\ UNCHANGED dropped_too_low

\* insert of any other height: keep the block unless the height is taken, then
\* release the contiguous run that starts at next_height.
InsertOrdered(h, b) ==
  /\ h >= next_height
  /\ max_seen' = IF max_seen = None \/ h > max_seen THEN h ELSE max_seen
  /\ LET p == FirstComeWins(pending, h, b)
     IN  \E m \in next_height .. (MaxHeight + 1) :
           /\ DrainStopsAt(p, next_height, m)
           /\ ready' = [i \in 1 .. (m - next_height) |-> p[next_height + i - 1]]
           /\ pending' = [k \in DOMAIN p \ (next_height .. (m - 1)) |-> p[k]]
           /\ next_height' = m
  /\ UNCHANGED dropped_too_low

insert(h, b) == InsertTooLow(h) \/ InsertOrdered(h, b)

is_saturated == Cardinality(DOMAIN pending) >= MaxBufferHint

\* (next_height, max_seen) when a height at or above next_height was seen.
gap_span ==
  IF max_seen # None /\ max_seen >= next_height
  THEN <<next_height, max_seen>>
  ELSE <<>>

-----------------------------------------------------------------------------
(***************************************************************************)
(* The buffer on its own: any height may be offered at any time, any       *)
(* number of times, with any payload.                                      *)
(***************************************************************************)
VARIABLES
  emitted,  \* history: everything insert has returned, in order
  first     \* history: the first block offered for each height >= Start

vars == <<bufferVars, emitted, first>>

Init ==
  /\ new(Start)
  /\ emitted = <<>>
  /\ first = [k \in {} |-> Start]

Offer(h, b) ==
  /\ insert(h, b)
  /\ emitted' = emitted \o ready'
  /\ first' = IF h >= Start THEN FirstComeWins(first, h, b) ELSE first

Next == \E h \in Height, b \in Block : Offer(h, b)

Spec == Init /\ [][Next]_vars

-----------------------------------------------------------------------------
PartialFcn(S, T) == UNION {[D -> T] : D \in SUBSET S}

\* The state of the buffer is well formed, and next_height moves between the
\* start bound and one past the last height (ReorderBuffer in reorder_buffer.rs).
TypeOK ==
  /\ next_height \in Start .. (IF Start > MaxHeight THEN Start ELSE MaxHeight + 1)
  /\ pending \in PartialFcn(Height, Block)
  /\ max_seen \in Height \cup {None}
  /\ dropped_too_low \in 0 .. MaxDropped
  /\ ready \in Seq(Block)
  /\ emitted \in Seq(Block)
  /\ first \in PartialFcn(Height, Block)

\* "Global order is guaranteed": what has been released is, height by height
\* from Start, the first block that was offered for that height, however
\* arrivals were ordered and duplicated.
ReleasedInOrder ==
  /\ Len(emitted) = next_height - Start
  /\ \A i \in 1 .. Len(emitted) :
       /\ (Start + i - 1) \in DOMAIN first
       /\ emitted[i] = first[Start + i - 1]

\* Nothing is withheld and nothing is lost: the buffer never waits for a height
\* that has been offered, and what it retains is exactly the offered blocks
\* above the gap.
WaitsOnlyForMissing ==
  /\ next_height \notin DOMAIN first
  /\ DOMAIN pending = {h \in DOMAIN first : h >= next_height}
  /\ \A h \in DOMAIN pending : pending[h] = first[h]

\* The diagnostics the sort task logs are right: gap_span reports a gap exactly
\* when blocks are waiting, its upper end is the highest of them, and the
\* window it spans bounds the memory held.
GapSpanExact ==
  /\ (gap_span # <<>>) <=> (DOMAIN pending # {})
  /\ gap_span # <<>> =>
       /\ max_seen \in DOMAIN pending
       /\ DOMAIN pending \subseteq (next_height + 1) .. max_seen
=============================================================================
