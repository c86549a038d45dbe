---------------------------- MODULE Partitioning ----------------------------
(***************************************************************************)
(* How the rows of a column are spread over the shards of its table        *)
(* (redbit/src/storage/partitioning.rs): by the bytes of the key read as a *)
(* little-endian number, or by a hash of the value.                        *)
(***************************************************************************)
EXTENDS Naturals, Sequences, SequencesExt, TLC

\* The bytes from the lowest to the highest, with the weight of the byte and
\* the sum both kept modulo m.
le_mod_fold_chunk(m, bytes) ==
  FoldLeft(LAMBDA s, b : [acc |-> (s.acc + b * s.pow) % m, pow |-> (s.pow * 256) % m],
           [acc |-> 0, pow |-> 1], bytes)

\* Mutant: only the lowest byte of the key is looked at.
PartitionByLowByte(n, bytes) == bytes[1] % n

partition_bytes_le(n, bytes) == IF n = 1 THEN 0 ELSE le_mod_fold_chunk(n, bytes).acc % n

\* The hash xxh3_64 of the bytes of a value is a fixed number.
Xxh3Partition(n, hash) == hash % n

\* The number the bytes of a key encode.
LeValue(bytes) == FoldRight(LAMBDA b, s : b + 256 * s, bytes, 0)

=============================================================================
