----------------------------- MODULE SortBuffer -----------------------------
(***************************************************************************)
(* MergeBuffer of redbit/src/storage/sort_buffer.rs: the buffer in which a *)
(* writer collects the rows of a transaction until the flush.  It keeps at *)
(* most one sorted run per level; a run that overlaps the run of its level *)
(* is merged with it and carried one level up, like a binary counter.      *)
(* A pair is a key and the moment it arrived, which stands for the value.  *)
(***************************************************************************)
EXTENDS Integers, Sequences, FiniteSets, SequencesExt

CONSTANTS
  Keys,      \* keys, ordered as their bytes
  MaxRun,    \* bound: pairs of one command
  MaxPairs   \* bound: pairs of one transaction

VARIABLES
  levels,    \* Vec<Option<run>>; None is the empty run
  pushed     \* history: every pair of the transaction, in arrival order

vars == <<levels, pushed>>

-----------------------------------------------------------------------------
first_key(r) == r[1].key
last_key(r) == r[Len(r)].key

Sorted(r) == \A i \in 1 .. Len(r) - 1 : r[i].key <= r[i + 1].key

\* sort_by of the standard library is stable.
StableSort(s, K(_)) ==
  LET Before(i, j) == K(s[i]) < K(s[j]) \/ (K(s[i]) = K(s[j]) /\ i < j)
  IN  [n \in DOMAIN s |->
        s[CHOOSE i \in DOMAIN s : Cardinality({j \in DOMAIN s : Before(j, i)}) = n - 1]]

Drop(s, n) == SubSeq(s, n + 1, Len(s))
Take(s, n) == SubSeq(s, 1, n)

\* Exponential search for the last position, counted from 0, that is below the
\* pivot: the position and the offset at which the search stopped.
RECURSIVE Exponential(_, _, _)
Exponential(below, last, ofs) ==
  IF last + ofs < Len(below) /\ below[last + ofs + 1]
  THEN Exponential(below, last + ofs, 2 * ofs)
  ELSE <<last, ofs>>

RECURSIVE Bisect(_, _, _)
Bisect(below, lo, hi) ==
  LET mid == lo + (hi - lo) \div 2
  IN  IF lo >= hi THEN lo
      ELSE IF below[mid + 1] THEN Bisect(below, mid + 1, hi)
      ELSE Bisect(below, lo, mid)

Bound(below) ==
  IF below = <<>> \/ ~below[1] THEN 0
  ELSE LET found == Exponential(below, 0, 1)
           last == found[1]
           stop == found[1] + found[2]
       IN  Bisect(below, last + 1, IF stop < Len(below) THEN stop ELSE Len(below))

\* Mutant: the upper bound, so that equal keys of the second run come first.
gallop_right_loose(s, pivot) == Bound([i \in DOMAIN s |-> s[i].key <= pivot])

\* Lower bound: how many keys of s are smaller than the pivot.
gallop_right_slice(s, pivot) == Bound([i \in DOMAIN s |-> s[i].key < pivot])

\* Upper bound: how many keys of s are not greater than the pivot.
gallop_left_slice(s, pivot) == Bound([i \in DOMAIN s |-> s[i].key <= pivot])

\* The loop of the merge: a block of a up to the head of b, then a block of b
\* below the head of what is left of a.
RECURSIVE Gallop(_, _, _)
Gallop(a, b, out) ==
  IF a = <<>> \/ b = <<>> THEN out \o a \o b
  ELSE LET endA == gallop_left_slice(a, first_key(b))
           restA == Drop(a, endA)
           outA == out \o Take(a, endA)
       IN  IF restA = <<>> THEN outA \o b
           ELSE LET endB == gallop_right_slice(b, first_key(restA))
                IN  Gallop(restA, Drop(b, endB), outA \o Take(b, endB))

merge_sorted_by_key_gallop(a, b) ==
  IF a = <<>> THEN b
  ELSE IF b = <<>> THEN a
  ELSE IF last_key(a) <= first_key(b) THEN a \o b
  ELSE IF last_key(b) < first_key(a) THEN b \o a
  ELSE Gallop(a, b, <<>>)

-----------------------------------------------------------------------------
\* merge_sorted from a level upwards: the levels afterwards.
RECURSIVE Carry(_, _, _)
Carry(ls, run, lvl) ==
  IF lvl > Len(ls) THEN Append(ls, run)
  ELSE LET existing == ls[lvl]
       IN  IF existing = <<>> THEN [ls EXCEPT ![lvl] = run]
           ELSE IF last_key(existing) <= first_key(run)
                THEN [ls EXCEPT ![lvl] = existing \o run]
           ELSE IF last_key(run) < first_key(existing)
                THEN [ls EXCEPT ![lvl] = run \o existing]
           ELSE Carry([ls EXCEPT ![lvl] = <<>>],
                      merge_sorted_by_key_gallop(existing, run), lvl + 1)

MergeSorted(ls, run) == IF run = <<>> THEN ls ELSE Carry(ls, run, 1)

MergeUnsorted(ls, run) == MergeSorted(ls, StableSort(run, LAMBDA p : p.key))

\* The run with the greatest last key, the lowest level among equals.
MaxRunOf(ls) ==
  LET occupied == {i \in DOMAIN ls : ls[i] # <<>>}
  IN  CHOOSE i \in occupied : \A j \in occupied :
        \/ last_key(ls[j]) < last_key(ls[i])
        \/ last_key(ls[j]) = last_key(ls[i]) /\ i <= j

\* Mutant: the run is appended without looking at the boundary.
AppendSortedBlind(ls, run) ==
  IF run = <<>> THEN ls
  ELSE IF \A i \in DOMAIN ls : ls[i] = <<>> THEN <<run>>
  ELSE [ls EXCEPT ![MaxRunOf(ls)] = @ \o run]

\* append_sorted: into an empty buffer, after the run with the greatest key (the
\* only run, if there is one), or merged.
AppendSorted(ls, run) ==
  IF run = <<>> THEN ls
  ELSE IF \A i \in DOMAIN ls : ls[i] = <<>> THEN <<run>>
  ELSE LET mx == MaxRunOf(ls)
       IN  IF last_key(ls[mx]) <= first_key(run)
           THEN [ls EXCEPT ![mx] = @ \o run]
           ELSE MergeSorted(ls, run)

\* BinaryHeap of (Reverse(len), index): the shortest run, the last among equals.
Shortest(pool, live) ==
  CHOOSE i \in live : \A j \in live :
    Len(pool[i]) < Len(pool[j]) \/ (Len(pool[i]) = Len(pool[j]) /\ i >= j)

\* Balanced reduction: the two shortest runs are merged until one is left.
RECURSIVE Reduce(_, _)
Reduce(pool, live) ==
  LET ia == Shortest(pool, live)
  IN  IF live = {ia} THEN pool[ia]
      ELSE LET ib == Shortest(pool, live \ {ia})
           IN  Reduce(Append(pool, merge_sorted_by_key_gallop(pool[ia], pool[ib])),
                      (live \ {ia, ib}) \cup {Len(pool) + 1})

\* take_sorted: what is drained from the levels.
TakeSorted(ls) ==
  LET runs == StableSort(SelectSeq(ls, LAMBDA r : r # <<>>), first_key)
      disjoint == \A i \in 1 .. Len(runs) - 1 : last_key(runs[i]) <= first_key(runs[i + 1])
  IN  IF runs = <<>> THEN <<>>
      ELSE IF disjoint THEN FlattenSeq(runs)
      ELSE Reduce(runs, DOMAIN runs)

is_empty(ls) == \A i \in DOMAIN ls : ls[i] = <<>>

-----------------------------------------------------------------------------
\* The runs a command can carry: keys, stamped with their arrival.
Runs(n) == UNION {[1 .. k -> Keys] : k \in 0 .. n}
Stamp(ks) == [i \in DOMAIN ks |-> [key |-> ks[i], at |-> Len(pushed) + i]]

Room(ks) == Len(pushed) + Len(ks) <= MaxPairs

Init == levels = <<>> /\ pushed = <<>>

merge_unsorted ==
  \E ks \in Runs(MaxRun) :
    /\ Room(ks)
    /\ levels' = MergeUnsorted(levels, Stamp(ks))
    /\ pushed' = pushed \o Stamp(ks)

append_sorted ==
  \E ks \in Runs(MaxRun) :
    /\ Room(ks) /\ Sorted(Stamp(ks))
    /\ levels' = AppendSorted(levels, Stamp(ks))
    /\ pushed' = pushed \o Stamp(ks)

\* WriteSortedInsertsOnFlush replaces the buffer, only when it is empty.
from_sorted ==
  \E ks \in Runs(MaxRun) :
    /\ is_empty(levels) /\ Room(ks) /\ Sorted(Stamp(ks))
    /\ levels' = IF ks = <<>> THEN <<>> ELSE <<Stamp(ks)>>
    /\ pushed' = pushed \o Stamp(ks)

\* The flush drains the buffer, and clears it whether or not the write succeeds.
take_sorted == levels' = <<>> /\ pushed' = <<>>

Next == merge_unsorted \/ append_sorted \/ from_sorted \/ take_sorted

Spec == Init /\ [][Next]_vars

-----------------------------------------------------------------------------
\* Whatever mixture of appends and merges filled the buffer, a flush
\* (take_sorted) gets every pair of the transaction exactly once, in key order.
DrainsSortedAll ==
  LET out == TakeSorted(levels)
  IN  /\ Sorted(out)
      /\ Len(out) = Len(pushed) /\ ToSet(out) = ToSet(pushed)

\* Reference merge: a stable sort of the two runs one after the other.
Baseline(a, b) == StableSort(a \o b, LAMBDA p : p.key)

\* The galloping merge of any two runs the buffer holds equals the baseline merge,
\* equal keys of the first run before those of the second.
GallopMatchesBaseline ==
  \A i, j \in DOMAIN levels :
    i # j => merge_sorted_by_key_gallop(levels[i], levels[j])
               = Baseline(levels[i], levels[j])
=============================================================================
