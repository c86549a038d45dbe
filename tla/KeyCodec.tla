------------------------------ MODULE KeyCodec ------------------------------
(* Keys and column values as the tables keep them: bytes, their comparison,    *)
(* the keys of the caches, and the text of a key in a path                     *)
(* (redbit/src/macro_rules.rs, lib.rs; macros/src/column, pk).                 *)
(* A pointer is the sequence of its indexes from the root's on. Its text, the  *)
(* indexes joined by dashes, is the sequence of the parts between the dashes,  *)
(* where a negative number stands for a part that is no number.                *)
EXTENDS Integers, Sequences, SequencesExt, Functions, FiniteSets

CONSTANTS Base,        \* values of a byte (256)
          RootBytes,   \* bytes of the root's index (u32: 4)
          ChildBytes   \* bytes of a child's index (u16: 2)

ASSUME CodecAssumption == Base \in Nat \ {0, 1} /\ RootBytes \in Nat \ {0} /\ ChildBytes \in Nat \ {0}

BytesAt(level) == IF level = 1 THEN RootBytes ELSE ChildBytes
MaxIndex(level) == Base ^ BytesAt(level) - 1

to_le_bytes(v, n) == [i \in 1 .. n |-> ((v % Base ^ n) \div Base ^ (i - 1)) % Base]
from_le_bytes(bs) == FoldRight(LAMBDA b, acc : b + Base * acc, bs, 0)
from_le_bytes_signed(bs) ==
  LET v == from_le_bytes(bs) IN IF 2 * v < Base ^ Len(bs) THEN v ELSE v - Base ^ Len(bs)

(* Slices and derived Ord: by the first difference, a prefix before the whole. *)
SeqLess(a, b) ==
  \/ \E i \in DOMAIN a \intersect DOMAIN b : a[i] < b[i] /\ \A j \in 1 .. i - 1 : a[j] = b[j]
  \/ Len(a) < Len(b) /\ IsPrefix(a, b)

-----------------------------------------------------------------------------
(* Pointers. A child's keys lie between the parent's index 0 and index 0 of    *)
(* the next parent; the index after the largest is 0.                          *)

KeyLess(a, b) == \E i \in DOMAIN a : a[i] < b[i] /\ \A j \in 1 .. i - 1 : a[j] = b[j]
next_index(k) == [k EXCEPT ![Len(k)] = (@ + 1) % (MaxIndex(Len(k)) + 1)]
rollback_or_init(k, n) == [i \in DOMAIN k |-> IF i > 1 \/ k[1] < n THEN 0 ELSE k[1] - n]
from_parent(k, i) == Append(k, i)
parent(k) == Front(k)

(* Mutant: the children up to the largest index, which the range leaves out.   *)
FkRangeWithin(k) == [from |-> from_parent(k, 0), until |-> from_parent(k, MaxIndex(Len(k) + 1))]

fk_range(k) == [from |-> from_parent(k, 0), until |-> from_parent(next_index(k), 0)]
InRange(k, r) == ~KeyLess(k, r.from) /\ KeyLess(k, r.until)

(* BinaryCodec: the bytes of the parent, then those of the index.              *)
size(n) == IF n = 0 THEN 0 ELSE RootBytes + (n - 1) * ChildBytes
as_le_bytes(k) == FlattenSeq([i \in DOMAIN k |-> to_le_bytes(k[i], BytesAt(i))])
PointerOf(bs) ==
  LET n == CHOOSE n \in 1 .. Len(bs) : size(n) = Len(bs)
  IN  [i \in 1 .. n |-> from_le_bytes(SubSeq(bs, size(i - 1) + 1, size(i)))]

(* The text of a key back to the key of n indexes, <<>> for an error.          *)
RECURSIVE try_from(_, _)
try_from(parts, n) ==
  IF n = 1 THEN IF Len(parts) = 1 /\ parts[1] \in 0 .. MaxIndex(1) THEN parts ELSE <<>>
  ELSE IF Len(parts) < 2 \/ Last(parts) \notin 0 .. MaxIndex(n) \/ try_from(Front(parts), n - 1) = <<>> THEN <<>>
  ELSE from_parent(try_from(Front(parts), n - 1), Last(parts))

-----------------------------------------------------------------------------
(* The codec of a column goes by its inner type; a pointer has its own.        *)

CodecOf(inner) ==
  CASE inner = "ByteArray" -> "array"
    [] inner = "VecU8"     -> "vec"
    [] inner \in {"Unsigned", "Signed"} -> "integer"
    [] inner \in {"String", "Bool", "Uuid", "Time"} -> "bincode"
    [] inner = "Pointer"   -> "binary"

bincode_encode(v) == <<Len(v)>> \o v
bincode_decode(bs) == Tail(bs)

as_bytes(inner, v) ==
  CASE CodecOf(inner) \in {"array", "vec"} -> v
    [] CodecOf(inner) = "integer" -> to_le_bytes(v, RootBytes)
    [] CodecOf(inner) = "bincode" -> bincode_encode(v)
    [] CodecOf(inner) = "binary"  -> as_le_bytes(v)

from_bytes(inner, bs) ==
  CASE CodecOf(inner) \in {"array", "vec"} -> bs
    [] CodecOf(inner) = "integer" -> IF inner = "Signed" THEN from_le_bytes_signed(bs) ELSE from_le_bytes(bs)
    [] CodecOf(inner) = "bincode" -> bincode_decode(bs)
    [] CodecOf(inner) = "binary"  -> PointerOf(bs)

(* Mutant: bytes are compared as they lie in the file, whatever they encode.   *)
CompareBytes(inner, a, b) == SeqLess(a, b)

(* Key::compare, as "before".                                                  *)
compare(inner, a, b) ==
  CASE CodecOf(inner) = "array"   -> SeqLess(a, b)
    [] CodecOf(inner) = "vec"     -> SeqLess(a, b)
    [] CodecOf(inner) = "integer" -> from_bytes(inner, a) < from_bytes(inner, b)
    [] CodecOf(inner) = "bincode" -> SeqLess(bincode_decode(a), bincode_decode(b))
    [] CodecOf(inner) = "binary"  -> KeyLess(PointerOf(a), PointerOf(b))

(* CacheKey::cache_key                                                         *)
cache_key(inner, v) == IF CodecOf(inner) \in {"array", "vec", "integer"} THEN v ELSE as_bytes(inner, v)

-----------------------------------------------------------------------------
ByteStrings == UNION {[1 .. n -> 0 .. Base - 1] : n \in 0 .. 2}
SomeRoots == {0, 1, Base - 1, Base, MaxIndex(1)}
KeysOf(n) == {k \in [1 .. n -> 0 .. MaxIndex(1)] : k[1] \in SomeRoots /\ \A i \in 2 .. n : k[i] <= MaxIndex(2)}
InnerValues(inner) ==
  CASE inner = "Unsigned"  -> 0 .. MaxIndex(1)
    [] inner = "Signed"    -> -(Base ^ RootBytes \div 2) .. Base ^ RootBytes \div 2 - 1
    [] inner = "ByteArray" -> [1 .. 2 -> 0 .. Base - 1]
    [] inner = "Pointer"   -> KeysOf(2)
    [] OTHER               -> ByteStrings
Before(inner, v, w) == IF CodecOf(inner) = "integer" THEN v < w ELSE SeqLess(v, w)

(* What a column stores is read back, kept in the order of its values (range   *)
(* queries, the end of the key table and the merge of sorted runs rely on it), *)
(* and no two values share a cache entry.                                      *)
CodecSound ==
  \A inner \in {"ByteArray", "VecU8", "Unsigned", "Signed", "String", "Pointer"} :
    \A v, w \in InnerValues(inner) :
      /\ from_bytes(inner, as_bytes(inner, v)) = v
      /\ compare(inner, as_bytes(inner, v), as_bytes(inner, w)) = Before(inner, v, w)
      /\ cache_key(inner, v) = cache_key(inner, w) => v = w

(* The range of a key holds exactly its children, the last index of its type   *)
(* excepted, and a text names a key only if it has its depth and its indexes.  *)
PointersSound ==
  \A n \in 1 .. 2 :
    /\ \A k \in KeysOf(n) : k[n] < MaxIndex(n) =>
         {c \in KeysOf(n + 1) : InRange(c, fk_range(k))} = {c \in KeysOf(n + 1) : parent(c) = k}
    /\ \A m \in 1 .. 3 : \A parts \in [1 .. m -> {-1, 0, MaxIndex(2), MaxIndex(1), MaxIndex(1) + 1}] :
         try_from(parts, n) = IF m = n /\ \A i \in 1 .. m : parts[i] \in 0 .. MaxIndex(i) THEN parts ELSE <<>>

=============================================================================
