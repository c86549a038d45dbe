------------------------------ MODULE MCTables ------------------------------
(***************************************************************************)
(* A column is declared with an index or with a dictionary.  Both kinds of *)
(* tables in one instance: the tables of the other kind stay empty.        *)
(***************************************************************************)
EXTENDS BufferedIndex, DictTable

VARIABLE column   \* the kind of the column

indexOnly == <<cache, index_by_pk, pk_by_index, levels, pushed>>
dictOnly == <<tableVars, birth_cache, pk_to_keys_batch, value_to_pk_batch, written>>

TablesInit == column \in {"index", "dictionary"} /\ BufferedInit /\ DictInit

IndexNext == column = "index" /\ BufferedNext /\ UNCHANGED <<column, dictOnly>>

DictionaryNext == column = "dictionary" /\ DictNext /\ UNCHANGED <<column, indexOnly>>

TablesNext == IndexNext \/ DictionaryNext

TablesSpec == TablesInit /\ [][TablesNext]_<<column, allVars, dictVars>>
=============================================================================
