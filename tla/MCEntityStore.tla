--------------------------- MODULE MCEntityStore ---------------------------
(* Blocks with a header, an optional note and transactions with inputs: three  *)
(* heights, one of them in variants with no transactions, with two inputs that *)
(* spend the same output and with a second transaction less.                   *)
EXTENDS EntityStore, EntityMacro

FieldOf(name, words, shape, inner, attrs) ==
  [name |-> name, words |-> words, shape |-> shape, inner |-> inner, plural |-> shape = "Vec",
   pointer |-> shape = "Type" /\ inner \in {"Block", "Tx"}, attrs |-> attrs]
Column1(opts) == <<[is |-> "column", opts |-> opts]>>
Fk(mult) == <<[is |-> "fk", opts |-> <<Opt(mult), OptVal("db_cache", 2)>>]>>

MCStructs ==
  [Block  |-> << FieldOf("height", <<"height">>, "Type", "Height", <<[is |-> "pk", opts |-> <<OptVal("db_cache", 1)>>]>>),
                 FieldOf("header", <<"header">>, "Type", "Header", <<>>),
                 FieldOf("note", <<"note">>, "Option", "Note", <<>>),
                 FieldOf("txs", <<"txs">>, "Vec", "Tx", <<>>),
                 FieldOf("weight", <<"weight">>, "Type", "Weight", Column1(<<Opt("transient")>>)) >>,
   Header |-> << FieldOf("height", <<"height">>, "Type", "Height", Fk("one2one")),
                 FieldOf("nonce", <<"nonce">>, "Type", "Nonce", Column1(<<>>)) >>,
   Note   |-> << FieldOf("height", <<"height">>, "Type", "Height", Fk("one2opt")) >>,
   Tx     |-> << FieldOf("id", <<"id">>, "Type", "Block", Fk("one2many")),
                 FieldOf("hash", <<"hash">>, "Type", "Hash", Column1(<<Opt("range"), OptVal("shards", IndexShards)>>)),
                 FieldOf("inputs", <<"inputs">>, "Vec", "Input",
                         <<[is |-> "write_from_using", opts |-> <<Opt("input_refs"), Opt("hash")>>]>>),
                 FieldOf("input_refs", <<"input", "refs">>, "Vec", "InputRef", Column1(<<Opt("transient")>>)) >>,
   Input  |-> << FieldOf("id", <<"id">>, "Type", "Tx", Fk("one2many")),
                 FieldOf("utxo", <<"utxo">>, "Type", "Utxo", Column1(<<OptVal("shards", 2)>>)) >>]

MCEntities == << <<(<<"block">>), MCStructs.Block>>, <<(<<"header">>), MCStructs.Header>>,
                 <<(<<"note">>), MCStructs.Note>>, <<(<<"tx">>), MCStructs.Tx>>, <<(<<"input">>), MCStructs.Input>> >>

Field(name, kind, of) == [name |-> name, kind |-> kind, of |-> of]

MCSchema ==
  [Block  |-> <<Field("header", "one", "Header"), Field("note", "opt", "Note"), Field("txs", "many", "Tx")>>,
   Header |-> <<Field("nonce", "column", "")>>,
   Note   |-> <<>>,
   Tx     |-> <<Field("hash", "column", ""), Field("inputs", "from", "Input")>>,
   Input  |-> <<Field("utxo", "column", "")>>]

(* derive(Entity) gives the structs the schema the store works with and,       *)
(* whatever the order of the fields, the columns in the order its writers rely *)
(* on (the root's key is committed last), each in a database of its own        *)
(* (get_field_macros).                                                         *)
SchemaKept ==
  ops = 0 /\ Opened = {} /\ tx.op = "none" =>
    /\ \A e \in DOMAIN MCStructs : SchemaOf(get_field_macros(MCStructs[e]).cols) = MCSchema[e] /\ OrderSound(MCStructs[e])
    /\ DatabasesSound(MCEntities)

Block(h, nonce, note, txs) ==
  [pk |-> <<h>>, header |-> [pk |-> <<h>>, nonce |-> nonce],
   note |-> IF note THEN <<[pk |-> <<h>>]>> ELSE <<>>,
   txs |-> [i \in DOMAIN txs |-> [pk |-> <<h, i - 1>>, hash |-> txs[i][1], inputs |-> txs[i][2]]]]

B0 == Block(0, 1, FALSE, << <<1, <<5>>>> >>)
B1 == Block(1, 2, TRUE, << <<2, <<7>>>>, <<1, <<8, 9>>>> >>)
B2 == Block(2, 1, TRUE, << <<2, <<7>>>>, <<2, <<>>>> >>)
Empty == Block(2, 2, FALSE, <<>>)
DoubleSpent == Block(1, 2, TRUE, << <<2, <<7>>>>, <<1, <<7>>>> >>)

MCBatches == {<<B0, B1>>, <<B2>>, <<Empty>>, <<DoubleSpent>>}

NoOps == [x \in {} |-> 0]
Op(kind, than) == [kind |-> kind, than |-> than]
MCFilters ==
  { [ops |-> NoOps, subs |-> NoOps],
    [ops |-> NoOps, subs |-> [header |-> [ops |-> [nonce |-> Op("Ge", 2)], subs |-> NoOps]]],
    [ops |-> NoOps, subs |-> [note |-> [ops |-> NoOps, subs |-> NoOps]]],
    [ops |-> NoOps, subs |-> [txs |-> [ops |-> [hash |-> Op("In", {2})], subs |-> NoOps]]],
    [ops |-> NoOps, subs |-> [txs |-> [ops |-> [hash |-> Op("Ne", 2)],
                                       subs |-> [inputs |-> [ops |-> [utxo |-> Op("Lt", 9)], subs |-> NoOps]]]]] }
MCIndexed == <<"Tx", "hash">>
=============================================================================
