-------------------------- MODULE BlockProcessing --------------------------
(***************************************************************************)
(* What the providers make of a raw block (process_block_pure in           *)
(* chains/*/src/block_provider.rs): a header, and transactions, outputs,   *)
(* assets and inputs whose keys are pointers built from their positions;   *)
(* and what the write hook makes of the references of inputs to earlier    *)
(* outputs (chains/*/src/hook.rs).  A pointer is the sequence of its       *)
(* indices, the height first.  A raw block is a sequence of transactions   *)
(* [hash, ins, outs]: ins are references [tx, vout], outs the number of    *)
(* assets of each output.                                                  *)
(***************************************************************************)
EXTENDS Integers, Sequences, FiniteSets, SequencesExt

CONSTANTS
  U8, U16, U32    \* how many values the index types have

\* `as u16`, `as u8`: the low bits.
Cast(i, width) == i % width

from_parent(parent, index) == Append(parent, index)

\* What differs between the providers: the weight a block starts from, whether
\* assets are rows and how wide their index is, how wide the index of a
\* reference to an output is, and whether hashes are kept in the byte order of
\* the library ("internal") or in the one the node displays.
BtcBlocks ==
  [base |-> 6, assets |-> FALSE, assetIndex |-> U8, refIndex |-> U16, hashes |-> "internal"]
LtcBlocks ==
  [base |-> 6, assets |-> FALSE, assetIndex |-> U8, refIndex |-> U16, hashes |-> "internal"]
BchBlocks ==
  [base |-> 6, assets |-> FALSE, assetIndex |-> U8, refIndex |-> U16, hashes |-> "internal"]
ErgoBlocks ==
  [base |-> 6, assets |-> TRUE, assetIndex |-> U8, refIndex |-> U32, hashes |-> "display"]
CardanoBlocks ==
  [base |-> 25, assets |-> TRUE, assetIndex |-> U16, refIndex |-> U16, hashes |-> "display"]

Blocks(chain) ==
  CASE chain = "btc"  -> BtcBlocks  [] chain = "ltc"     -> LtcBlocks
    [] chain = "bch"  -> BchBlocks
    [] chain = "ergo" -> ErgoBlocks [] chain = "cardano" -> CardanoBlocks

\* The hooks: what a reference is looked up by, and whether the largest output
\* index of an unknown transaction marks a coinbase input.
BtcHook == [by |-> "hash", coinbase |-> TRUE]
LtcHook == [by |-> "hash", coinbase |-> TRUE]
BchHook == [by |-> "hash", coinbase |-> TRUE]
ErgoHook == [by |-> "box_id", coinbase |-> FALSE]
CardanoHook == [by |-> "hash", coinbase |-> FALSE]

Hook(chain) ==
  CASE chain = "btc"  -> BtcHook  [] chain = "ltc"     -> LtcHook
    [] chain = "bch"  -> BchHook
    [] chain = "ergo" -> ErgoHook [] chain = "cardano" -> CardanoHook

-----------------------------------------------------------------------------
SumOf(s) == FoldLeft(LAMBDA acc, n : acc + n, 0, s)

process_inputs(b, ins) ==
  [i \in DOMAIN ins |-> [tx |-> ins[i].tx, index |-> Cast(ins[i].vout, b.refIndex)]]

\* Keys of the outputs and of their assets.
process_outputs(b, outs, tx_pointer) ==
  LET utxo(o) == from_parent(tx_pointer, Cast(o - 1, U16))
  IN  [utxos |-> [o \in DOMAIN outs |-> utxo(o)],
       assets |-> IF ~b.assets THEN <<>>
                  ELSE FlattenSeq([o \in DOMAIN outs |->
                         [a \in 1 .. outs[o] |-> from_parent(utxo(o), Cast(a - 1, b.assetIndex))]])]

\* Mutant: outputs are numbered from the position of the transaction.
ProcessTxShifted(b, height, n, tx) ==
  LET id == from_parent(<<height>>, Cast(n - 1, U16))
      outs == process_outputs(b, tx.outs, from_parent(<<height>>, 0))
  IN  [id |-> id, hash |-> tx.hash, utxos |-> outs.utxos, assets |-> outs.assets,
       input_refs |-> process_inputs(b, tx.ins)]

process_tx(b, height, n, tx) ==
  LET id == from_parent(<<height>>, Cast(n - 1, U16))
      outs == process_outputs(b, tx.outs, id)
  IN  [id |-> id, hash |-> tx.hash, utxos |-> outs.utxos, assets |-> outs.assets,
       input_refs |-> process_inputs(b, tx.ins)]

TxWeight(t) == Len(t.input_refs) + Len(t.utxos) + Len(t.assets) + 1

\* Transactions and weight of a block.
process_block(b, height, txs) ==
  LET transactions == [n \in DOMAIN txs |-> process_tx(b, height, n, txs[n])]
  IN  [transactions |-> transactions,
       weight |-> b.base + SumOf([n \in DOMAIN txs |-> TxWeight(transactions[n])])]

-----------------------------------------------------------------------------
\* The rows the reference leads to in the stored blocks: the transaction of that
\* hash, or the output of that box id, which transaction and position determine.
FindTx(stored, hash) ==
  SelectSeq(FlattenSeq([k \in DOMAIN stored |-> stored[k].transactions]),
            LAMBDA t : t.hash = hash)

Found(hook, stored, ref) ==
  LET txs == FindTx(stored, ref.tx)
  IN  IF txs = <<>> THEN <<>>
      ELSE IF hook.by = "hash" THEN from_parent(txs[1].id, ref.index)
      ELSE txs[1].utxos[ref.index + 1]

\* What an input points at when nothing is found: a pointer below every key.
Unknown(hook, ref) ==
  from_parent(<<0, 0>>, IF hook.coinbase /\ ref.index = U16 - 1 THEN ref.index ELSE 0)

\* Mutant: every input of a transaction is resolved like its first one.
HookFirstRef(hook, stored, t, i) ==
  LET found == Found(hook, stored, t.input_refs[1])
  IN  [id |-> from_parent(t.id, Cast(i - 1, U16)),
       utxo_pointer |-> IF found = <<>> THEN Unknown(hook, t.input_refs[1]) ELSE found]

\* The input row the hook writes for the i-th reference of a transaction.
write_from_input_refs(hook, stored, t, i) ==
  LET found == Found(hook, stored, t.input_refs[i])
  IN  [id |-> from_parent(t.id, Cast(i - 1, U16)),
       utxo_pointer |-> IF found = <<>> THEN Unknown(hook, t.input_refs[i]) ELSE found]

-----------------------------------------------------------------------------
RowKeys(t) ==
  {<<"tx", t.id>>}
    \cup {<<"utxo", t.utxos[o]>> : o \in DOMAIN t.utxos}
    \cup {<<"asset", t.assets[a]>> : a \in DOMAIN t.assets}
    \cup {<<"input", from_parent(t.id, Cast(i - 1, U16))>> : i \in DOMAIN t.input_refs}

\* No two rows of a block share a key, and the weight the batchers go by is the
\* number of its rows: neither is lost to an index that wraps around.
RowsDistinct(b, blk) ==
  Cardinality(UNION {RowKeys(blk.transactions[n]) : n \in DOMAIN blk.transactions})
    = blk.weight - b.base

Outputs(stored) ==
  UNION {UNION {ToSet(t.utxos) : t \in ToSet(stored[k].transactions)} : k \in DOMAIN stored}

\* An input points at the very output it spends when that is stored, and at no
\* output at all when it is not.
Resolved(hook, stored, t, i, spends) ==
  LET p == write_from_input_refs(hook, stored, t, i).utxo_pointer
      txs == FindTx(stored, spends.tx)
  IN  IF txs = <<>> THEN p \notin Outputs(stored) ELSE p = txs[1].utxos[spends.vout + 1]
=============================================================================
