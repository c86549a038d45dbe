---------------------------- MODULE EntityMacro ----------------------------
(* derive(Entity): from the fields of a struct to the columns of the entity,   *)
(* their order and the databases they live in (macros/src/field_parser.rs,     *)
(* field.rs, table.rs, storage.rs).                                            *)
(* A field is [name, words, shape, inner, plural, pointer, attrs]: words are   *)
(* those of the name; its type is "Vec", "Option", a plain "Type" or another   *)
(* "Generic" one, of the type inner; plural says that the name is the plural   *)
(* of inner, pointer that the type is InnerPointer. An attribute is [is, opts] *)
(* and an option [opt, val, good], good unless it fails to parse.              *)
EXTENDS Naturals, Sequences, SequencesExt, FiniteSets

Opt(o) == [opt |-> o, val |-> 1, good |-> TRUE]
OptVal(o, v) == [opt |-> o, val |-> v, good |-> TRUE]

(* parse_nested_meta stops at the first error, which its callers drop: the     *)
(* options before it count.                                                    *)
Read(opts) ==
  LET bad == {i \in DOMAIN opts : ~opts[i].good}
  IN  IF bad = {} THEN opts ELSE SubSeq(opts, 1, (CHOOSE i \in bad : \A j \in bad : i <= j) - 1)

(* An option that is not known is an error too.                                *)
ReadKnown(opts, known) == Read([i \in DOMAIN opts |-> [opts[i] EXCEPT !.good = @ /\ opts[i].opt \in known]])

Has(opts, o) == \E i \in DOMAIN Read(opts) : Read(opts)[i].opt = o
ValueOf(opts, o, default) ==
  FoldLeft(LAMBDA v, x : IF x.opt = o THEN x.val ELSE v, default, Read(opts))

Blank(f) ==
  [kind |-> "error", name |-> f.name, words |-> f.words, root |-> FALSE, parent |-> "", multiplicity |-> "", of |-> "", using |-> "",
   indexing |-> "", shards |-> 1, cache |-> 0, lru |-> 0, used |-> FALSE, from |-> ""]

-----------------------------------------------------------------------------
(* Keys.                                                                       *)

(* get_column_usize_attr: an indexing option sets the weight back to zero.     *)
KeyCache(opts) ==
  FoldLeft(LAMBDA v, x : IF x.opt = "db_cache" THEN x.val ELSE 0, 0,
           ReadKnown(opts, {"db_cache", "dictionary", "range", "index", "transient"}))

ParsePk(f, attr) == [Blank(f) EXCEPT !.kind = "key", !.root = TRUE, !.cache = KeyCache(attr.opts)]

(* extract_base_type_from_pointer: the type of a one2many key names the parent.*)
base_type(f) == IF f.pointer THEN f.inner ELSE ""

(* An unknown option, and one2many on a type that is no pointer, are errors;   *)
(* the multiplicity is set before the second of them.                          *)
ParseFk(f, attr) ==
  LET opts == ReadKnown(attr.opts, {"db_cache", "one2many", "one2one", "one2opt"})
      stops == {i \in DOMAIN opts : opts[i].opt = "one2many" /\ base_type(f) = ""}
      read == IF stops = {} THEN opts ELSE SubSeq(opts, 1, CHOOSE i \in stops : \A j \in stops : i <= j)
      mult == FoldLeft(LAMBDA m, x : IF x.opt = "db_cache" THEN m ELSE x.opt, "", read)
  IN  IF mult = "" THEN Blank(f)
      ELSE [Blank(f) EXCEPT !.kind = "key", !.multiplicity = mult, !.cache = ValueOf(read, "db_cache", 0),
                                 !.parent = IF Has(read, "one2many") THEN base_type(f) ELSE ""]

-----------------------------------------------------------------------------
(* Relationships and columns.                                                  *)

(* parse_write_from_using: two names, or it is as if the attribute were absent.*)
WriteFrom(f) ==
  LET attrs == SelectSeq(f.attrs, LAMBDA a : a.is = "write_from_using")
  IN  IF attrs = <<>> \/ Len(attrs[1].opts) # 2 \/ Read(attrs[1].opts) # attrs[1].opts THEN <<"", "">>
      ELSE <<attrs[1].opts[1].opt, attrs[1].opts[2].opt>>

get_relationship(f, transient, readFrom) ==
  LET rel == [Blank(f) EXCEPT !.kind = "relationship", !.of = f.inner]
  IN  CASE f.shape = "Vec" /\ transient -> [rel EXCEPT !.kind = "transient_rel", !.from = readFrom]
        [] f.shape = "Vec" /\ ~transient /\ f.plural ->
             [rel EXCEPT !.multiplicity = "one2many", !.from = WriteFrom(f)[1], !.using = WriteFrom(f)[2]]
        [] f.shape = "Option" /\ ~transient -> [rel EXCEPT !.multiplicity = "one2opt"]
        [] f.shape = "Type" /\ ~transient -> [rel EXCEPT !.multiplicity = "one2one"]
        [] OTHER -> Blank(f)

(* transient before dictionary before range before index.                      *)
IndexingType(opts) ==
  IF Has(opts, "dictionary") THEN "Dict" ELSE IF Has(opts, "range") THEN "Range"
  ELSE IF Has(opts, "index") THEN "Index" ELSE "Off"

ParseColumn(f, attr) ==
  LET rel == get_relationship(f, TRUE, ValueOf(attr.opts, "read_from", ""))
  IN  IF Has(attr.opts, "transient")
      THEN IF rel.kind = "error" THEN [rel EXCEPT !.kind = "transient"] ELSE rel
      ELSE [Blank(f) EXCEPT !.kind = "plain", !.indexing = IndexingType(attr.opts),
              !.used = Has(attr.opts, "used"), !.shards = ValueOf(attr.opts, "shards", 1),
              !.cache = ValueOf(attr.opts, "db_cache", 0), !.lru = ValueOf(attr.opts, "lru_cache", 0)]

(* The first pk, fk or column attribute decides; without one the field is a    *)
(* relationship or an error.                                                   *)
parse_entity_field(f) ==
  LET attrs == SelectSeq(f.attrs, LAMBDA a : a.is \in {"pk", "fk", "column"})
  IN  IF attrs = <<>> THEN get_relationship(f, FALSE, "")
      ELSE CASE attrs[1].is = "pk"     -> ParsePk(f, attrs[1])
             [] attrs[1].is = "fk"     -> ParseFk(f, attrs[1])
             [] attrs[1].is = "column" -> ParseColumn(f, attrs[1])

-----------------------------------------------------------------------------
(* The order of the columns: in this order they are stored and opened.         *)

NotFound == [err |-> TRUE, cols |-> <<>>]
First(S) == CHOOSE i \in S : \A j \in S : i <= j

(* Mutant: a relationship stays before the column it is written from.          *)
ChainInPlace(cols) == [err |-> FALSE, cols |-> cols]

(* take_and_chain_relation_with_plain: the first relationship written from a   *)
(* reference and the column it uses go to the end, the column first.           *)
take_and_chain_relation_with_plain(cols) ==
  LET deps == {i \in DOMAIN cols : cols[i].kind = "relationship" /\ cols[i].using # ""}
      dep == First(deps)
      used == {i \in DOMAIN cols \ {dep} : cols[i].kind \in {"plain", "relationship"} /\ cols[i].name = cols[dep].using}
      rest == [i \in DOMAIN cols |-> IF i \in {dep, First(used)} THEN <<>> ELSE <<cols[i]>>]
  IN  IF deps = {} THEN [err |-> FALSE, cols |-> cols]
      ELSE IF used = {} THEN NotFound
      ELSE [err |-> FALSE, cols |-> FlattenSeq(rest) \o <<[cols[First(used)] EXCEPT !.used = TRUE], cols[dep]>>]

(* The key of a child comes first, the root's last, transients before it.      *)
Of(parsed, kinds) == SelectSeq(parsed, LAMBDA c : c.kind \in kinds)
Finish(chained, last) == IF chained.err THEN NotFound ELSE [chained EXCEPT !.cols = @ \o last]

Arrange(parsed, keys, transients) ==
  IF Of(parsed, {"error"}) # <<>> \/ Len(keys) # 1 THEN NotFound
  ELSE IF keys[1].root
  THEN Finish(take_and_chain_relation_with_plain(Of(parsed, {"plain", "relationship"})), transients \o keys)
  ELSE Finish(take_and_chain_relation_with_plain(keys \o Of(parsed, {"plain", "relationship"})), transients)

Columns(parsed) == Arrange(parsed, Of(parsed, {"key"}), Of(parsed, {"transient", "transient_rel"}))
get_field_macros(struct) == Columns([i \in DOMAIN struct |-> parse_entity_field(struct[i])])

-----------------------------------------------------------------------------
(* The databases: one per key or column, each with the tables of its kind.     *)

PkOf(cols) == CHOOSE i \in DOMAIN cols : cols[i].kind = "key"

(* A name is the words of the entity, of the column and of the key, joined.    *)
TablesOf(e, pk, c) ==
  LET Column(suffix) == e \o c.words \o suffix
  IN  CASE c.kind = "key" -> {e \o pk}
        [] c.indexing = "Off" -> {Column(<<"by">> \o pk)}
        [] c.indexing \in {"Index", "Range"} -> {Column(<<"by">> \o pk), Column(<<"index">>)}
        [] c.indexing = "Dict" -> {Column(<<"dict", "index">>), Column(<<"by", "dict", "pk">>),
                                   Column(<<"to", "dict", "pk">>), Column(<<"dict", "pk", "by">> \o pk)}

DbName(e, pk, c) ==
  CASE c.kind = "key" -> e \o pk
    [] c.indexing = "Off" -> e \o c.words \o <<"by">> \o pk
    [] c.indexing \in {"Index", "Range"} -> e \o c.words \o <<"index">>
    [] c.indexing = "Dict" -> e \o c.words \o <<"dict">>

(* A plain table is partitioned by key, an indexed one by value.               *)
DbDef(e, pk, c) ==
  [name |-> DbName(e, pk, c), tables |-> TablesOf(e, pk, c), shards |-> c.shards, weight |-> c.cache, lru |-> c.lru * 1000000,
   by |-> IF c.kind = "key" \/ c.indexing = "Off" THEN "key" ELSE "value", root_pk |-> c.kind = "key" /\ c.root]

(* get_db_defs: plain tables and the key, then indexes, then dictionaries.     *)
get_db_defs(e, cols) ==
  LET pk == cols[PkOf(cols)].words
      Plain == SelectSeq(cols, LAMBDA c : c.kind = "key" \/ (c.kind = "plain" /\ c.indexing = "Off"))
      Index == SelectSeq(cols, LAMBDA c : c.kind = "plain" /\ c.indexing \in {"Index", "Range"})
      Dict == SelectSeq(cols, LAMBDA c : c.kind = "plain" /\ c.indexing = "Dict")
      all == Plain \o Index \o Dict
  IN  [i \in DOMAIN all |-> DbDef(e, pk, all[i])]

-----------------------------------------------------------------------------
(* The schema of the entity as its tables are read and written: the stored     *)
(* columns and relationships in order, without the key.                        *)
SchemaOf(cols) ==
  LET Kind(c) == CASE c.kind = "plain" -> "column"
                   [] c.multiplicity = "one2one" -> "one"
                   [] c.multiplicity = "one2opt" -> "opt"
                   [] c.using # "" -> "from"
                   [] OTHER -> "many"
      stored == SelectSeq(cols, LAMBDA c : c.kind \in {"plain", "relationship"})
  IN  [i \in DOMAIN stored |-> [name |-> stored[i].name, kind |-> Kind(stored[i]), of |-> stored[i].of]]

(* Every order of the fields of a struct gives the same columns, each once:    *)
(* the root's key after all others, so that a store commits it when the rows   *)
(* are there (a read context opens its tables in this order too, so a key that *)
(* is committed while it opens them is seen without its rows), a child's       *)
(* before all others, and a relationship written from a reference right after  *)
(* the column it uses.                                                         *)
InOrder(struct, cols) ==
  LET stored == Of(cols, {"key", "plain", "relationship"})
  IN  /\ Len(cols) = Len(struct) /\ {cols[i].name : i \in DOMAIN cols} = {struct[i].name : i \in DOMAIN struct}
      /\ cols[PkOf(cols)].root => PkOf(cols) = Len(cols)
      /\ ~cols[PkOf(cols)].root => PkOf(cols) = 1
      /\ \A i \in DOMAIN stored : stored[i].using # "" =>
           i > 1 /\ stored[i - 1].name = stored[i].using /\ (stored[i - 1].kind = "plain" => stored[i - 1].used)

OrderSound(struct) ==
  \A p \in {p \in [DOMAIN struct -> DOMAIN struct] : \A i, j \in DOMAIN struct : i # j => p[i] # p[j]} :
    InOrder(struct, get_field_macros([i \in DOMAIN struct |-> struct[p[i]]]).cols)

(* No two databases of the entities share a name (they would share a file), a  *)
(* column's database has as many tables as its kind needs, and only the root's *)
(* key, which is not sharded, is committed last. An entity is its words and    *)
(* its fields.                                                                 *)
OwnDatabases(defs) ==
  /\ \A i, j \in DOMAIN defs : i # j => defs[i].name # defs[j].name
  /\ \A i \in DOMAIN defs : defs[i].by = "key" <=> Cardinality(defs[i].tables) = 1
  /\ {defs[i].shards : i \in {i \in DOMAIN defs : defs[i].root_pk}} = {1}

DatabasesSound(entities) ==
  OwnDatabases(FlattenSeq([i \in DOMAIN entities |->
                             get_db_defs(entities[i][1], get_field_macros(entities[i][2]).cols)]))

=============================================================================
