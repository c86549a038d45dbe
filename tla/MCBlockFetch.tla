--------------------------- MODULE MCBlockFetch ---------------------------
(* Small instance of BlockFetch.  Blocks of three sizes, so that batches     *)
(* close for either reason.  The blocks below are numbered by height: each   *)
(* has a coinbase, and a transaction that spends outputs of the block below, *)
(* of its own block and of a block that is not stored.                       *)
EXTENDS BlockFetch

MCSizeOf == [h \in 0 .. MaxHeight |-> CASE h = 0 -> 1 [] h % 3 = 1 -> 2 [] h % 3 = 2 -> 1 [] OTHER -> 5]

Hash(h, n) == 10 * h + n

MCTxsOf ==
  [h \in 1 .. MaxHeight |->
    << [hash |-> Hash(h, 1), ins |-> <<[tx |-> 0, vout |-> U32 - 1]>>, outs |-> <<0, 2>>],
       [hash |-> Hash(h, 2),
        ins |-> <<[tx |-> Hash(h - 1, 1), vout |-> 1], [tx |-> Hash(h, 1), vout |-> 0],
                  [tx |-> 7, vout |-> 1]>>,
        outs |-> <<1, 0, 3>>] >>]
=============================================================================
