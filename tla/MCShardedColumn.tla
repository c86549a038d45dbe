-------------------------- MODULE MCShardedColumn --------------------------
(* Keys of two bytes in different shards, and values two of which share one. *)
EXTENDS ShardedColumn

CONSTANTS a, b, c

MCKeyBytes == 1 :> <<0, 0>> @@ 2 :> <<255, 4>>
MCValue == {a, b, c}
MCHash == a :> 6 @@ b :> 12 @@ c :> 7
MCQueries == {<<>>, <<a>>, <<c, a, b>>}
=============================================================================
