------------------------------- MODULE Entity -------------------------------
(* What the code generated for an entity does with its tables: storing,        *)
(* deleting and composing an instance, and the queries over keys and columns.  *)
(* (macros/src/entity, pk, column, relationship)                               *)
(*                                                                             *)
(* Schema[e] is the sequence of the fields of entity e after its key, in the   *)
(* order of the struct: [name, kind, of], where kind is "column" or a          *)
(* relationship "one", "opt", "many", or "from": a one-to-many relationship    *)
(* that write_from_using fills from the references "of" belongs to. A table is *)
(* <<e, field>>; the key table of e is <<e, "pk">>. A view of the storage maps *)
(* each table to its rows, a function from keys to values. A key is a sequence *)
(* of indexes, <<height>> for the root and the parent's key with one index     *)
(* more for a child of a one-to-many relationship.                             *)
EXTENDS KeyCodec

CONSTANTS Schema, Root

Fields(e) == Range(Schema[e])
PkTable(e) == <<e, "pk">>
Column(e, f) == <<e, f.name>>

(* The tables of e and of what it owns, in the order a context opens them: a   *)
(* child's key table before its columns, the root's after everything else.     *)
RECURSIVE Context(_)
Context(e) ==
  LET OfField(f) == IF f.kind = "column" THEN <<Column(e, f)>> ELSE Context(f.of)
      ofFields == FoldLeft(LAMBDA ts, f : ts \o OfField(f), <<>>, Schema[e])
  IN  IF e = Root THEN Append(ofFields, PkTable(e)) ELSE <<PkTable(e)>> \o ofFields

Tables == Range(Context(Root))
NoRows == [t \in Tables |-> <<>>]

-----------------------------------------------------------------------------
(* Keys in a table, in order.                                                  *)

RECURSIVE SortedKeys(_)
SortedKeys(S) ==
  IF S = {} THEN <<>>
  ELSE LET m == CHOOSE k \in S : \A o \in S \ {k} : KeyLess(k, o) IN <<m>> \o SortedKeys(S \ {m})

pk_range(view, e, r) == {k \in DOMAIN view[PkTable(e)] : InRange(k, r)}

-----------------------------------------------------------------------------
(* Storing. The references of a one-to-many relationship filled by a hook are  *)
(* collected over all instances of one store_many; a second one is an error.   *)

RECURSIVE RowsOf(_, _)
RowsOf(e, x) ==
  {<<PkTable(e), x.pk, TRUE>>} \union
  UNION { CASE f.kind = "column" -> {<<Column(e, f), x.pk, x[f.name]>>}
            [] f.kind = "one"    -> RowsOf(f.of, x[f.name])
            [] f.kind = "from"   ->
                 UNION {RowsOf(f.of, [pk |-> from_parent(x.pk, i - 1), utxo |-> x[f.name][i]]) : i \in DOMAIN x[f.name]}
            [] OTHER             -> UNION {RowsOf(f.of, c) : c \in Range(x[f.name])}
          : f \in Fields(e) }

RECURSIVE DoubleSpend(_, _)
DoubleSpend(e, xs) ==
  \E f \in Fields(e) :
     \/ f.kind = "from" /\ ~IsInjective(FoldLeft(LAMBDA rs, x : rs \o x[f.name], <<>>, xs))
     \/ f.kind \in {"one", "opt", "many"} /\
          \E i \in DOMAIN xs : DoubleSpend(f.of, IF f.kind = "one" THEN <<xs[i][f.name]>> ELSE xs[i][f.name])

Insert(view, rows) ==
  [t \in Tables |->
     [k \in DOMAIN view[t] \union {r[2] : r \in {r \in rows : r[1] = t}} |->
        IF \E r \in rows : r[1] = t /\ r[2] = k
        THEN (CHOOSE r \in rows : r[1] = t /\ r[2] = k)[3] ELSE view[t][k]]]

store_many(view, e, xs) == FoldLeft(LAMBDA v, x : Insert(v, RowsOf(e, x)), view, xs)

-----------------------------------------------------------------------------
(* Deleting. Every table of the entity loses the keys; a one-to-many child     *)
(* loses the keys in the parents' ranges. The result flags a missing row       *)
(* except below an optional child.                                             *)

(* Mutant: the children of a one-to-many relationship are left behind.         *)
DoomedOwnOnly(view, e, pks, flagged) ==
  {[table |-> PkTable(e), keys |-> pks, flagged |-> flagged]} \union
  {[table |-> Column(e, f), keys |-> pks, flagged |-> flagged] : f \in {f \in Fields(e) : f.kind = "column"}}

(* Mutant: an optional child that is absent counts as a missing row.           *)
RECURSIVE DoomedFlagsAll(_, _, _, _)
DoomedFlagsAll(view, e, pks, flagged) ==
  {[table |-> PkTable(e), keys |-> pks, flagged |-> flagged]} \union
  UNION { CASE f.kind = "column"         -> {[table |-> Column(e, f), keys |-> pks, flagged |-> flagged]}
            [] f.kind \in {"one", "opt"} -> DoomedFlagsAll(view, f.of, pks, flagged)
            [] OTHER -> DoomedFlagsAll(view, f.of, UNION {pk_range(view, f.of, fk_range(k)) : k \in pks}, flagged)
          : f \in Fields(e) }

RECURSIVE Doomed(_, _, _, _)
Doomed(view, e, pks, flagged) ==
  {[table |-> PkTable(e), keys |-> pks, flagged |-> flagged]} \union
  UNION { CASE f.kind = "column" -> {[table |-> Column(e, f), keys |-> pks, flagged |-> flagged]}
            [] f.kind = "one"    -> Doomed(view, f.of, pks, flagged)
            [] f.kind = "opt"    -> Doomed(view, f.of, pks, FALSE)
            [] OTHER             -> Doomed(view, f.of, UNION {pk_range(view, f.of, fk_range(k)) : k \in pks}, flagged)
          : f \in Fields(e) }

DeleteRows(view, doomed) ==
  [t \in Tables |-> Restrict(view[t], DOMAIN view[t] \ UNION {d.keys : d \in {d \in doomed : d.table = t}})]

(* What delete and remove return: no flagged row was missing.                  *)
Removed(view, doomed) == \A d \in doomed : d.flagged => d.keys \subseteq DOMAIN view[d.table]

=============================================================================
