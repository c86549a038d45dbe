---------------------------- MODULE EntityStore ----------------------------
(* The life of an entity's tables: persist, store_many and remove each run in  *)
(* one write context, whose tables commit one by one, the root's key table     *)
(* last; a read context opens a read transaction per table, one after another, *)
(* while commits go on.                                                        *)
EXTENDS EntityRest

CONSTANTS Batches,      \* the sequences of instances store_many is called with
          Filters,      \* the filters the queries are asked with
          Values,       \* the values of the indexed column, naturals
          Overwrites,   \* whether an instance is stored over one with its key
          MaxOps        \* bound on the write operations

ASSUME EntityAssumption == Root \in DOMAIN Schema /\ Overwrites \in BOOLEAN /\ MaxOps \in Nat

VARIABLES
  db,      \* the committed rows of each table
  tx,      \* the write context: op, the rows it commits, the tables left, the instances then stored
  stored,  \* the instances stored, by key
  reader,  \* the read context: rows of the tables opened so far, instances stored at its start, writers met
  said,    \* the status the last write answered, and the one that was due
  ops      \* operations so far

vars == <<db, tx, stored, reader, said, ops>>

RootTable == PkTable(Root)
Idle == [op |-> "none", view |-> NoRows, left |-> {}, stored |-> <<>>]
Closed == [ctx |-> <<>>, stored |-> <<>>, met |-> {}]
Opened == DOMAIN reader.ctx
IsOpen == Opened = Tables

(* An instance as it is read back: the references of a hook are its children.  *)
RECURSIVE Loaded(_, _)
Loaded(e, x) ==
  [n \in {"pk"} \union {f.name : f \in Fields(e)} |->
     IF n = "pk" THEN x.pk
     ELSE LET f == CHOOSE f \in Fields(e) : f.name = n
          IN  CASE f.kind = "column" -> x[n]
                [] f.kind = "one"    -> Loaded(f.of, x[n])
                [] f.kind = "from"   -> [i \in DOMAIN x[n] |-> [pk |-> from_parent(x.pk, i - 1), utxo |-> x[n][i]]]
                [] OTHER             -> [i \in DOMAIN x[n] |-> Loaded(f.of, x[n][i])]]

AfterStore(xs) ==
  [k \in DOMAIN stored \union {xs[i].pk : i \in DOMAIN xs} |->
     IF \E i \in DOMAIN xs : xs[i].pk = k THEN (CHOOSE x \in Range(xs) : x.pk = k) ELSE stored[k]]

-----------------------------------------------------------------------------
Init ==
  /\ db = NoRows
  /\ tx = Idle
  /\ stored = <<>>
  /\ reader = Closed
  /\ said = [status |-> OK, due |-> OK]
  /\ ops = 0

(* persist and store_many. An error of the body rolls every table back.        *)
Store(xs) ==
  /\ tx.op = "none" /\ ops < MaxOps /\ ~IsOpen
  /\ Overwrites \/ \A i \in DOMAIN xs : xs[i].pk \notin DOMAIN stored
  /\ ops' = ops + 1
  /\ said' = [status |-> entity_persist(~DoubleSpend(Root, xs)).status,
              due |-> IF \A i \in DOMAIN xs : IsInjective(FlattenSeq([j \in DOMAIN xs[i].txs |-> xs[i].txs[j].inputs]))
                      THEN OK ELSE INTERNAL]
  /\ tx' = IF DoubleSpend(Root, xs) THEN Idle
           ELSE [op |-> "store", view |-> store_many(db, Root, xs), left |-> Tables, stored |-> AfterStore(xs)]
  /\ UNCHANGED <<db, stored, reader>>

(* remove. What is missing does not keep the rest from being deleted.          *)
RemoveEntity(pk) ==
  /\ tx.op = "none" /\ ops < MaxOps /\ ~IsOpen
  /\ ops' = ops + 1
  /\ LET doomed == Doomed(db, Root, {pk}, TRUE) IN
       /\ said' = [status |-> entity_remove(Removed(db, doomed)).status,
                   due |-> IF pk \in DOMAIN stored THEN OK ELSE NOT_FOUND]
       /\ tx' = [op |-> "remove", view |-> DeleteRows(db, doomed), left |-> Tables,
                 stored |-> Restrict(stored, DOMAIN stored \ {pk})]
  /\ UNCHANGED <<db, stored, reader>>

(* Mutant: the tables commit in any order.                                     *)
CommitsAnyTime(t) == TRUE

(* The commit of one table, the root's key table after all others.             *)
MayCommit(t) == t = RootTable => tx.left = {t}

Commit(t) ==
  /\ t \in tx.left /\ MayCommit(t) /\ ~IsOpen
  /\ db' = [db EXCEPT ![t] = tx.view[t]]
  /\ IF tx.left = {t} THEN tx' = Idle /\ stored' = tx.stored
     ELSE tx' = [tx EXCEPT !.left = @ \ {t}] /\ UNCHANGED stored
  /\ reader' = IF Opened = {} THEN reader ELSE [reader EXCEPT !.met = @ \union {tx.op}]
  /\ UNCHANGED <<said, ops>>

(* begin_read_ctx: the next table of the context is opened. One context is     *)
(* followed, opened at any time: contexts do not affect each other or the      *)
(* writer, and nothing after its opening affects one (so ~IsOpen above).       *)
OpenOrder == Context(Root)

(* The instances whose key is committed.                                       *)
Visible == IF tx.op = "store" THEN Restrict(tx.stored, DOMAIN db[RootTable]) ELSE stored

OpenNext ==
  /\ ~IsOpen
  /\ LET t == OpenOrder[Cardinality(Opened) + 1] IN
       reader' = [ctx |-> [u \in Opened \union {t} |-> IF u = t THEN db[t] ELSE reader.ctx[u]],
                  stored |-> IF Opened = {} THEN Visible ELSE reader.stored,
                  met |-> IF tx.op = "none" THEN reader.met ELSE reader.met \union {tx.op}]
  /\ UNCHANGED <<db, tx, stored, said, ops>>

RemovableKeys == {xs[1].pk : xs \in Batches}

Next ==
  \/ \E xs \in Batches : Store(xs)
  \/ \E pk \in RemovableKeys : RemoveEntity(pk)
  \/ \E t \in Tables : Commit(t)
  \/ OpenNext

Spec == Init /\ [][Next]_vars

-----------------------------------------------------------------------------
Blocks == [i \in DOMAIN SortedKeys(DOMAIN reader.stored) |-> Loaded(Root, reader.stored[SortedKeys(DOMAIN reader.stored)[i]])]
Undisturbed == IsOpen /\ reader.met = {}

(* The meaning of a filter on instances, the AND of its constraints: every     *)
(* column op holds, a filtered child is there and selected, and of filtered    *)
(* one-to-many children the selected ones are kept, at least one. Where the    *)
(* filter says nothing, everything is kept.                                    *)
RECURSIVE Select(_, _, _)
Select(e, x, oq) ==
  LET Kept(f) == IF f.kind = "one" THEN Select(f.of, x[f.name], Sub(oq, f.name))
                 ELSE FlattenSeq([i \in DOMAIN x[f.name] |-> Select(f.of, x[f.name][i], Sub(oq, f.name))])
      Good(f) == CASE f.kind = "column" -> f.name \notin DOMAIN oq[1].ops \/ Matches(oq[1].ops[f.name], x[f.name])
                   [] f.kind = "one"    -> Kept(f) # <<>>
                   [] OTHER             -> Sub(oq, f.name) = <<>> \/ Kept(f) # <<>>
  IN  IF oq = <<>> THEN <<x>>
      ELSE IF \E f \in Fields(e) : ~Good(f) THEN <<>>
      ELSE <<[n \in DOMAIN x |->
                IF \E f \in Fields(e) : f.name = n /\ f.kind # "column"
                THEN LET f == CHOOSE f \in Fields(e) : f.name = n
                     IN  IF f.kind = "one" THEN Kept(f)[1] ELSE Kept(f)
                ELSE x[n]]>>

(* An instance with an empty one-to-many relationship somewhere in its tree.   *)
RECURSIVE Childless(_, _)
Childless(e, x) ==
  \E f \in Fields(e) :
    \/ f.kind \in {"many", "from"} /\ x[f.name] = <<>>
    \/ f.kind = "one" /\ Childless(f.of, x[f.name])
    \/ f.kind \in {"opt", "many", "from"} /\ \E i \in DOMAIN x[f.name] : Childless(f.of, x[f.name][i])

Chosen(r, oq) ==
  FlattenSeq([n \in DOMAIN Blocks |-> IF InRange(Blocks[n].pk, r) THEN Select(Root, Blocks[n], oq) ELSE <<>>])

(* The codecs of keys and values keep order and identity (CodecSound), and the *)
(* range of a key holds its children (PointersSound): asked once, at the start.*)
KeysKeepOrder == ops = 0 /\ Opened = {} /\ tx.op = "none" => CodecSound
RangesHoldChildren == ops = 0 /\ Opened = {} /\ tx.op = "none" => PointersSound

(* A store or a remove leaves in the tables exactly the rows of the instances  *)
(* stored: nothing of a removed instance, of its children or of theirs stays   *)
(* behind (delete_many over fk_range, optional children included).             *)
TablesHoldTheStored ==
  tx.op = "none" =>
    db = store_many(NoRows, Root, [i \in DOMAIN SortedKeys(DOMAIN stored) |-> stored[SortedKeys(DOMAIN stored)[i]]])

(* DELETE answers 200 exactly when the instance was stored, absent optional    *)
(* and to-many children aside, else 404; a store is refused exactly when two   *)
(* inputs of a block spend the same output (Double spend not supported).       *)
AnswersTruthful == said.status = said.due

(* Whatever is stored while a context opens its tables one by one, the context *)
(* holds every block whose key was committed before its first table was        *)
(* opened, and composes it whole: the key of a block commits after its rows,   *)
(* and a later store adds rows without touching those of another block.        *)
ReadsAreWhole ==
  IsOpen /\ "remove" \notin reader.met =>
    \A pk \in DOMAIN reader.stored :
      get(reader.ctx, Root, pk) = Answer(<<Loaded(Root, reader.stored[pk])>>)

(* The answer to a query with filter oq, where expected are the instances it   *)
(* means: each of them whole and in the order of the keys, and none else. Of   *)
(* those with an empty one-to-many relationship the filter drops some, or      *)
(* parts of them (ManyInit): only that none comes that was not meant.          *)
Faithful(items, expected, oq) ==
  LET Exact(s) == SelectSeq(s, LAMBDA x : oq = <<>> \/ ~Childless(Root, reader.stored[x.pk]))
      Pks(s) == [i \in DOMAIN s |-> s[i].pk]
  IN  /\ Exact(items) = Exact(expected)
      /\ IsInjective(Pks(items)) /\ Range(Pks(items)) \subseteq Range(Pks(expected))
      /\ Pks(items) = SortedKeys(Range(Pks(items)))

(* Filters and ranges select what their meaning on instances selects, in the   *)
(* order of the keys, whatever is nested in them, and never fail on whole data.*)
FiltersExact ==
  Undisturbed =>
    \A oq \in {<<>>} \union {<<q>> : q \in Filters} :
      /\ \A i, j \in 0 .. Len(Blocks) :
           LET r == [from |-> <<i>>, until |-> <<j>>]
               answer == range(reader.ctx, Root, r, oq)
           IN  /\ ~answer.err /\ Faithful(answer.items, Chosen(r, oq), oq)
               /\ Serve(reader.ctx, [Request("POST", <<Word(Root), Word("pk")>>)
                                       EXCEPT !.range = r, !.body = Json(oq)]) = Response(OK, answer.items)
      /\ \A pk \in RemovableKeys :
           LET answer == GetWith(reader.ctx, Root, pk, oq)
           IN  ~answer.err /\ Faithful(answer.items, Chosen([from |-> pk, until |-> next_index(pk)], oq), oq)

(* A filter is the AND of its constraints: what meets them all is answered,    *)
(* whether or not it has children the filter says nothing about.               *)
FiltersAreConjunctions ==
  Undisturbed =>
    \A q \in Filters, i, j \in 0 .. Len(Blocks) :
      LET r == [from |-> <<i>>, until |-> <<j>>]
      IN  range(reader.ctx, Root, r, <<q>>) = Answer(Chosen(r, <<q>>))

(* tail(n) is the last n entities, in order, as long as heights have no gaps.  *)
TailIsTheEnd ==
  Undisturbed /\ (\A i \in DOMAIN Blocks : Blocks[i].pk = <<i - 1>>) =>
    \A n \in 0 .. MaxTake + 1 :
      Serve(reader.ctx, [Request("GET", <<Word(Root), Word("tail")>>) EXCEPT !.n = n]) =
        IF n > MaxTake THEN Response(INTERNAL, <<>>)
        ELSE Response(OK, SubSeq(Blocks, IF n < Len(Blocks) THEN Len(Blocks) - n + 1 ELSE 1, Len(Blocks)))

(* A query by an indexed value finds each entity with the value once, in key   *)
(* order; a range of values groups them by value; the parents of the children  *)
(* with the value come once each, composed whole. The same over REST, where    *)
(* the query of each kind has a route of its own.                              *)
ByValueExact ==
  Undisturbed =>
    LET e == IndexedTable[1]
        children == FlattenSeq([i \in DOMAIN Blocks |-> Blocks[i].txs])
        Having(v) == SelectSeq(children, LAMBDA c : c.hash = v)
        at(v) == <<Word(e), Word(IndexedTable[2]), Value(v)>>
    IN  \A v \in Values :
          /\ get_by(reader.ctx, e, IndexedTable, v) = Answer(Having(v))
          /\ Serve(reader.ctx, Request("POST", at(v))) = Response(OK, Having(v))
          /\ Serve(reader.ctx, Request("GET", Append(at(v), Word("pk")))).items = [i \in DOMAIN Having(v) |-> Having(v)[i].pk]
          /\ \A w \in Values :
               LET grouped == IF v < w THEN FlattenSeq([i \in 1 .. w - v |-> Having(v + i - 1)]) ELSE <<>> IN
               /\ range_by(reader.ctx, e, IndexedTable, v, w) = Answer(grouped)
               /\ Serve(reader.ctx, [Request("POST", <<Word(e), Word(IndexedTable[2])>>)
                                       EXCEPT !.range = [from |-> v, until |-> w]]) = Response(OK, grouped)
          /\ Serve(reader.ctx, Request("POST", Append(at(v), Word(Root))))
               = Response(OK, SelectSeq(Blocks, LAMBDA b : \E i \in DOMAIN b.txs : b.txs[i].hash = v))

(* The handlers agree on what is there: GET and HEAD of a key, the child of a  *)
(* key, first, last and take answer 200 exactly when the entity is stored, and *)
(* no request falls between two routes. A filter that does not parse is        *)
(* refused, never dropped.                                                     *)
StatusesAgree ==
  Undisturbed =>
    LET Get(path) == Serve(reader.ctx, Request("GET", path)) IN
    /\ \A pk \in RemovableKeys :
         LET there == pk \in DOMAIN reader.stored
             at == <<Word(Root), Word("pk"), Value(pk)>> IN
         /\ (Get(at).status = OK) = there
         /\ (Serve(reader.ctx, Request("HEAD", at)).status = OK) = there
         /\ \A f \in Fields(Root) :
              LET r == Get(<<Word(Root), Value(pk), Word(f.name)>>) IN
              CASE f.kind = "one" -> (r.status = OK) = there
                [] f.kind = "opt" -> (r.status = OK) = (there /\ reader.stored[pk][f.name] # <<>>)
                [] OTHER          -> r.status = OK /\ (~there => r.items = <<>>)
         /\ LET rows == SelectSeq(Blocks, LAMBDA b : b.pk = pk)
                children == [i \in DOMAIN rows |-> rows[i].txs]
            IN  \A i \in DOMAIN FlattenSeq(children) :
                  Get(<<Word("Tx"), Word("pk"), Value(FlattenSeq(children)[i].pk), Word("parent_key")>>) = Response(OK, <<pk>>)
    /\ Get(<<Word(Root), Word("table_info")>>).items[RootTable] = Len(Blocks)
    /\ Get(<<Word(Root), Word("first")>>).items = SubSeq(Blocks, 1, IF Blocks = <<>> THEN 0 ELSE 1)
    /\ Get(<<Word(Root), Word("last")>>).items = SubSeq(Blocks, IF Blocks = <<>> THEN 1 ELSE Len(Blocks), Len(Blocks))
    /\ \A n \in 0 .. MaxTake + 1 :
         Serve(reader.ctx, [Request("GET", <<Word(Root), Word("take")>>) EXCEPT !.n = n]).status
           = IF n > MaxTake THEN INTERNAL ELSE OK
    /\ Serve(reader.ctx, [Request("POST", <<Word(Root), Word("pk")>>)
                            EXCEPT !.range = [from |-> <<0>>, until |-> <<1>>], !.body = Malformed]).status # OK

(* Keys compare as their indexes do, and a range of keys holds the children.   *)
KeysSound == KeysKeepOrder /\ RangesHoldChildren

(* The tables and the answers of the writes tell what was stored and removed.  *)
StoreExact == TablesHoldTheStored /\ AnswersTruthful

(* What the queries and their endpoints answer about the committed tables.     *)
QueriesExact == FiltersExact /\ TailIsTheEnd /\ ByValueExact /\ StatusesAgree
=============================================================================
