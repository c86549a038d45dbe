---------------------------- MODULE EntityQuery ----------------------------
(* Reading entities back: composing an instance from its rows, with or without *)
(* a filter, and the queries over keys and columns the macros generate.        *)
(* An answer is [err, items]: an error, or the entities (none or one for an    *)
(* Option). An optional filter is <<>> or <<q>>, where q.ops maps columns to a *)
(* FilterOp and q.subs maps relationships to the filter of the child.          *)
EXTENDS Entity

Answer(items) == [err |-> FALSE, items |-> items]
Error == [err |-> TRUE, items |-> <<>>]

(* FilterOp::matches                                                           *)
Matches(op, v) ==
  CASE op.kind = "Eq" -> v = op.than
    [] op.kind = "Ne" -> v # op.than
    [] op.kind = "Lt" -> v < op.than
    [] op.kind = "Le" -> v <= op.than
    [] op.kind = "Gt" -> v > op.than
    [] op.kind = "Ge" -> v >= op.than
    [] op.kind = "In" -> v \in op.than

(* The filter of a child within an optional filter.                            *)
Sub(oq, name) == IF oq # <<>> /\ name \in DOMAIN oq[1].subs THEN <<oq[1].subs[name]>> ELSE <<>>

(* Going on with one more field, or stopping at the first field that is        *)
(* missing (error) or does not match (none).                                   *)
Go(val) == [state |-> "go", val |-> val]
None == [state |-> "none", val |-> <<>>]
Failed == [state |-> "error", val |-> <<>>]

RECURSIVE Compose(_, _, _, _)

(* get and filter: nothing when the key is not in the key table.               *)
GetWith(view, e, pk, oq) ==
  IF pk \notin DOMAIN view[PkTable(e)] THEN Answer(<<>>) ELSE Compose(view, e, pk, oq)

(* Without a filter the first error ends the query; with one, an entity that   *)
(* cannot be composed is passed over like one that does not match.             *)
Items(answers) == FoldLeft(LAMBDA s, a : s \o a.items, <<>>, answers)
AnyError(answers) == \E i \in DOMAIN answers : answers[i].err
Collect(answers, oq) == IF oq = <<>> /\ AnyError(answers) THEN Error ELSE Answer(Items(answers))
ComposeMany(view, e, pks, oq) == Collect([i \in DOMAIN pks |-> Compose(view, e, pks[i], oq)], oq)

range(view, e, r, oq) == ComposeMany(view, e, SortedKeys(pk_range(view, e, r)), oq)

ColumnInit(view, e, f, pk, oq) ==
  LET rows == view[Column(e, f)]
  IN  IF pk \notin DOMAIN rows THEN Failed
      ELSE IF oq # <<>> /\ f.name \in DOMAIN oq[1].ops /\ ~Matches(oq[1].ops[f.name], rows[pk]) THEN None
      ELSE Go(rows[pk])

(* A child that must be there, an optional child and children, as answered     *)
(* under the filter sub on them.                                               *)
OneInit(child, sub) ==
  CASE child.err -> Failed
    [] ~child.err /\ child.items = <<>> -> IF sub # <<>> THEN None ELSE Failed
    [] OTHER -> Go(child.items[1])

OptInit(child, sub) ==
  CASE child.err -> Failed
    [] ~child.err /\ child.items = <<>> /\ sub # <<>> -> None
    [] OTHER -> Go(child.items)

(* Mutant: a filter on the children keeps a parent none of whose children      *)
(* match.                                                                      *)
ManyInitKeepsEmpty(children, oq) == IF children.err THEN Failed ELSE Go(children.items)

(* Under any filter on the parent, one without children does not match.        *)
ManyInit(children, oq) ==
  CASE children.err -> Failed
    [] ~children.err /\ children.items = <<>> /\ oq # <<>> -> None
    [] OTHER -> Go(children.items)

FieldInit(view, e, f, pk, oq) ==
  CASE f.kind = "column" -> ColumnInit(view, e, f, pk, oq)
    [] f.kind = "one"    -> OneInit(GetWith(view, f.of, pk, Sub(oq, f.name)), Sub(oq, f.name))
    [] f.kind = "opt"    -> OptInit(GetWith(view, f.of, pk, Sub(oq, f.name)), Sub(oq, f.name))
    [] OTHER             -> ManyInit(range(view, f.of, fk_range(pk), Sub(oq, f.name)), oq)

With(acc, name, init) ==
  IF init.state # "go" THEN init
  ELSE Go([n \in DOMAIN acc.val \union {name} |-> IF n = name THEN init.val ELSE acc.val[n]])

Composed(made) ==
  CASE made.state = "go"   -> Answer(<<made.val>>)
    [] made.state = "none" -> Answer(<<>>)
    [] OTHER               -> Error

Compose(view, e, pk, oq) ==
  LET Step(acc, f) == IF acc.state # "go" THEN acc ELSE With(acc, f.name, FieldInit(view, e, f, pk, oq))
  IN  Composed(FoldLeft(Step, Go([pk |-> pk]), Schema[e]))

(* compose_many_stream: the entities and the errors met on the way.            *)
Streaming(answers) == [err |-> AnyError(answers), items |-> Items(answers)]
ComposeStream(view, e, pks, oq) == Streaming([i \in DOMAIN pks |-> Compose(view, e, pks[i], oq)])

-----------------------------------------------------------------------------
(* Queries over the key table.                                                 *)

Keys(view, e) == SortedKeys(DOMAIN view[PkTable(e)])
get(view, e, pk) == GetWith(view, e, pk, <<>>)
filter(view, e, pk, q) == GetWith(view, e, pk, <<q>>)
exists(view, e, pk) == pk \in DOMAIN view[PkTable(e)]
first(view, e) == IF Keys(view, e) = <<>> THEN Answer(<<>>) ELSE Compose(view, e, Head(Keys(view, e)), <<>>)
last(view, e) == IF Keys(view, e) = <<>> THEN Answer(<<>>) ELSE Compose(view, e, Last(Keys(view, e)), <<>>)

CONSTANT MaxTake  \* 100

(* Mutant: the limit itself is refused.                                        *)
take_below(view, e, n) ==
  IF n >= MaxTake THEN Error
  ELSE ComposeMany(view, e, SubSeq(Keys(view, e), 1, IF n < Len(Keys(view, e)) THEN n ELSE Len(Keys(view, e))), <<>>)

take(view, e, n) ==
  IF n > MaxTake THEN Error
  ELSE ComposeMany(view, e, SubSeq(Keys(view, e), 1, IF n < Len(Keys(view, e)) THEN n ELSE Len(Keys(view, e))), <<>>)

(* Mutant: the range starts n indexes before the last key, not before its end. *)
tail_from_last(view, e, n) ==
  IF n = 0 THEN Answer(<<>>)
  ELSE IF n > MaxTake THEN Error
  ELSE IF Keys(view, e) = <<>> THEN Answer(<<>>)
  ELSE LET end == Last(Keys(view, e))
           keys == SortedKeys(pk_range(view, e, [from |-> rollback_or_init(end, n), until |-> end]))
       IN  ComposeMany(view, e, IF Len(keys) > n THEN SubSeq(keys, Len(keys) - n + 1, Len(keys)) ELSE keys, <<>>)

(* The last n keys between n indexes (of the root) before the end and the end. *)
tail(view, e, n) ==
  IF n = 0 THEN Answer(<<>>)
  ELSE IF n > MaxTake THEN Error
  ELSE IF Keys(view, e) = <<>> THEN Answer(<<>>)
  ELSE LET until == next_index(Last(Keys(view, e)))
           keys == SortedKeys(pk_range(view, e, [from |-> rollback_or_init(until, n), until |-> until]))
       IN  ComposeMany(view, e, IF Len(keys) > n THEN SubSeq(keys, Len(keys) - n + 1, Len(keys)) ELSE keys, <<>>)

stream_range(view, e, r, oq) == ComposeStream(view, e, SortedKeys(pk_range(view, e, r)), oq)

(* get_<child>: the child, the optional child, the children of a key.          *)
get_child(view, f, pk) ==
  CASE f.kind = "one" -> LET a == get(view, f.of, pk) IN IF a.items = <<>> THEN Error ELSE a
    [] f.kind = "opt" -> get(view, f.of, pk)
    [] OTHER          -> range(view, f.of, fk_range(pk), <<>>)

-----------------------------------------------------------------------------
(* Queries over an indexed or a dictionary column: the keys of a value in the  *)
(* order of the keys, the keys of a range in the order of the values.          *)

get_keys_by(view, t, v) == SortedKeys({k \in DOMAIN view[t] : view[t][k] = v})
get_by(view, e, t, v) == ComposeMany(view, e, get_keys_by(view, t, v), <<>>)
stream_by(view, e, t, v, oq) == ComposeStream(view, e, get_keys_by(view, t, v), oq)

(* index_range is unimplemented for a column in more than one database.        *)
CONSTANT IndexShards  \* the shards of the column with a range index
RangePanics == IndexShards > 1

RangeKeys(view, t, lo, hi) ==
  FoldLeft(LAMBDA ks, v : ks \o get_keys_by(view, t, v), <<>>, [i \in 1 .. (IF lo < hi THEN hi - lo ELSE 0) |-> lo + i - 1])
range_by(view, e, t, lo, hi) ==
  IF RangePanics THEN Error ELSE ComposeMany(view, e, RangeKeys(view, t, lo, hi), <<>>)
stream_range_by(view, e, t, lo, hi, oq) ==
  IF RangePanics THEN Error ELSE ComposeStream(view, e, RangeKeys(view, t, lo, hi), oq)

(* Mutant: a parent is repeated for each of its children.                      *)
EveryParent(keys) == FoldLeft(LAMBDA ps, k : Append(ps, parent(k)), <<>>, keys)

(* The parents of the keys of a value, each at its first child.                *)
UniqueParents(keys) ==
  FoldLeft(LAMBDA ps, k : IF parent(k) \in Range(ps) THEN ps ELSE Append(ps, parent(k)), <<>>, keys)

stream_parents_by(view, p, t, v, oq) == ComposeStream(view, p, UniqueParents(get_keys_by(view, t, v)), oq)

=============================================================================
