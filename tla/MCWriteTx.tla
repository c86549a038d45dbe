----------------------------- MODULE MCWriteTx -----------------------------
(* A header table, two shards of the queried index, one dependent column and *)
(* the root key, in the order write contexts list them.                      *)
EXTENDS WriteTx

MCOrder == <<"header", "hash0", "hash1", "input", "root">>

MCQueryShards == {"hash0", "hash1"}

MCDependents == {"input"}
=============================================================================
