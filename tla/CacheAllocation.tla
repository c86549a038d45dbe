-------------------------- MODULE CacheAllocation --------------------------
(***************************************************************************)
(* How the database cache is split over the columns                        *)
(* (redbit/src/storage/cache.rs): in proportion to their weights, the      *)
(* megabytes lost to rounding to the largest remainders, and a column's    *)
(* share in equal parts to its shards.  A column is [weight, shards].      *)
(***************************************************************************)
EXTENDS Integers, FiniteSets, SequencesExt

Cols(defs) == DOMAIN defs

SumOf(numbers) == FoldLeft(+, 0, numbers)

sum_positive_weights(defs) == SumOf([i \in Cols(defs) |-> defs[i].weight])

\* compute_shares_mb: the floor of a column's quota, and what the floor loses.
\* (The product saturates at 2^64, which no cache in megabytes times a weight
\* comes near.)
base_mb(defs, total, i) == (total * defs[i].weight) \div sum_positive_weights(defs)
rem_num(defs, total, i) == (total * defs[i].weight) % sum_positive_weights(defs)

\* The megabytes lost to rounding.
remainder(defs, total) == total - SumOf([i \in Cols(defs) |-> base_mb(defs, total, i)])

\* Mutant: the rest is given out from the largest share on, zero weights included.
ExtraToAll(defs, total, i) == IF remainder(defs, total) > 0 THEN 1 ELSE 0

\* The columns that are served before column i.
Before(defs, total, i) ==
  {j \in Cols(defs) :
     /\ defs[j].weight > 0
     /\ \/ rem_num(defs, total, j) > rem_num(defs, total, i)
        \/ rem_num(defs, total, j) = rem_num(defs, total, i) /\ j < i}

\* distribute_remainder_mb: one more megabyte for the columns with the largest
\* remainders, the earlier column among equals, columns of weight zero skipped.
Extra(defs, total, i) ==
  IF defs[i].weight > 0 /\ Cardinality(Before(defs, total, i)) < remainder(defs, total)
  THEN 1 ELSE 0

NoCache(defs, total) == defs = <<>> \/ total = 0 \/ sum_positive_weights(defs) = 0

\* collect_allocations_mb asserts that a column has a shard.
allocation_panics(defs, total) ==
  ~NoCache(defs, total) /\ \E i \in Cols(defs) : defs[i].shards = 0

\* Megabytes per shard, by column.
allocate_cache_mb(defs, total) ==
  [i \in Cols(defs) |->
     IF NoCache(defs, total) THEN 0
     ELSE (base_mb(defs, total, i) + Extra(defs, total, i)) \div defs[i].shards]
=============================================================================
