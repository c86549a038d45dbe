--------------------------- MODULE ForkSyncProofs ---------------------------
(***************************************************************************)
(* For every tree of blocks, with any number of failed commits, refused    *)
(* parents and crashes: a reorganisation deletes superseded blocks only.   *)
(* When the branches part above the fork detection height and no write was *)
(* cut short, every table is one chain at every moment, also between the   *)
(* commits of the databases, and between transactions the databases agree  *)
(* and the hash index leads to exactly the stored blocks.                  *)
(***************************************************************************)
EXTENDS ForkSync, FiniteSetTheorems, WellFoundedInduction, TLAPS

\* The first n blocks of the chain of b.
Cut(b, n) == [h \in 1 .. n |-> ChainOf[b][h]]

IsCut(table) == \E x \in Block : \E n \in 0 .. HeightOf(x) : table = Cut(x, n)

\* What the tables will hold when the transaction has committed everywhere, and
\* what the reverse table of the hash index will.
headers == IF "root" \in pending THEN Written(db["root"]) ELSE db["root"]

indexed == IF "hash" \in pending THEN IndexWritten ELSE index

\* What the delete of a fork leaves of the blocks of a table.
Kept(table, fork) == Blocks(table) \ {table[h] : h \in Heights(fork) \cap DOMAIN table}

\* What makes the types hold: answers have the height they were asked for, and a
\* process that is down has no transaction.
FetchOK ==
  /\ next >= 1 /\ (syncing => up) /\ (~up => pending = {})
  /\ syncing => target <= HeightOf(node_tip)
  /\ \A h \in DOMAIN fetched : fetched[h] \in Block /\ HeightOf(fetched[h]) = h

TypeInv == TypeOK /\ FetchOK

\* The reverse table leads to every stored block; a delete that the hash index has
\* not committed reaches no block of the branch it makes room for, its tip apart.
Superseded(fork) ==
  fork # <<>> /\
  LET tip == fork[Len(fork)]
  IN  \A h \in Heights(fork) \cap DOMAIN db["hash"] :
        h < HeightOf(tip) => db["hash"][h] # ChainOf[tip][h]

RollbackInv ==
  /\ Blocks(db["hash"]) \subseteq index
  /\ "hash" \in pending /\ tx.op = "delete" => Superseded(tx.blocks)

\* The databases that have committed the transaction hold the new tables, the
\* others the old ones; the root is among these until the end.
TxInv ==
  /\ pending # {} => "root" \in pending
  /\ \A d \in Db : db[d] = IF d \in pending THEN db["root"] ELSE headers
  /\ "hash" \in pending => index = Blocks(db["root"])
  /\ IsCut(db["root"]) /\ LastOf(db["root"]) <= HeightOf(node_tip)

ChainInv == IsCut(headers)

Exact == indexed = Blocks(headers)

\* What a sync fetched up to the fork detection height is on the branch of the
\* tip it found, whatever the node did since.
FetchInv ==
  syncing =>
    /\ next <= target + 1
    /\ \A h \in DOMAIN fetched : h \in next .. target
    /\ \E t \in Block :
         /\ target = HeightOf(t) /\ fork_height = SubU32(target, ForkDetectionHeights)
         /\ \A h \in DOMAIN fetched : h <= fork_height => fetched[h] = ChainOf[t][h]

\* The height below the block that is linked next.
LinkedTo == next - 1 - Len(linking)

\* The batch that is linked ends below next, and no header is stored at its
\* heights; as long as nothing was linked, next follows the last header.
LinkInv ==
  /\ \A i \in 1 .. Len(linking) : HeightOf(linking[i]) = LinkedTo + i
  /\ LastOf(headers) <= HeightOf(node_tip) /\ LinkedTo >= 0
  /\ ~syncing => linking = <<>> /\ update = <<>>
  /\ syncing => LastOf(headers) <= LinkedTo
  /\ syncing /\ next - 1 <= fork_height
       => linking = <<>> /\ update = <<>> /\ LastOf(headers) = next - 1

\* Between the two transactions of update_blocks the table ends where the fork
\* that is about to be stored begins.
UpdateInv ==
  update # <<>> =>
    \E b \in Block : \E i \in 1 .. HeightOf(b) :
      /\ update = SubSeq(ChainOf[b], i, HeightOf(b))
      /\ headers = Cut(b, i - 1)
      /\ HeightOf(b) = LinkedTo

SafeInv == TxInv /\ ChainInv /\ Exact /\ FetchInv /\ LinkInv /\ UpdateInv

IInv == TypeInv /\ (~cut => SafeInv)
-----------------------------------------------------------------------------
\* A bounded set of numbers that is not empty has a greatest element.
LEMMA MaxInSet ==
  ASSUME NEW n \in Nat, NEW S \in SUBSET (1 .. n), S # {}
  PROVE  Max(S) \in S /\ \A y \in S : y <= Max(S)
<1>. DEFINE R == {p \in Nat \X Nat : p[1] < p[2]}
            T == {n - y : y \in S}
<1>1. IsWellFoundedOn(R, Nat)
  BY NatLessThanWellFounded, Zenon DEF OpToRel
<1>2. ASSUME NEW y \in Nat, NEW x \in Nat, y < x PROVE <<y, x>> \in R
  BY <1>2
<1>. HIDE DEF R
<1>3. T \subseteq Nat /\ T # {}
  <2>1. \A y \in S : y \in 1 .. n /\ n - y \in Nat
    OBVIOUS
  <2>2. T \subseteq Nat
    BY <2>1
  <2>. QED  BY <2>2
<1>. HIDE DEF T
<1>4. PICK m \in T : \A y \in T : ~ (<<y, m>> \in R)
  BY <1>1, <1>3, WFMin
<1>5. PICK x \in S : m = n - x
  BY DEF T
<1>6. ASSUME NEW y \in S PROVE y <= x
  <2>1. n - y \in T
    BY DEF T
  <2>2. ~ (n - y < m)
    BY <1>2, <1>3, <1>4, <2>1
  <2>. QED  BY <1>5, <2>2
<1>. QED  BY <1>6 DEF Max

\* A block's chain has the chains of the blocks on it as its beginnings.
LEMMA CutFacts ==
  ASSUME NEW b \in Block
  PROVE  /\ HeightOf(b) \in Nat /\ HeightOf(b) >= 1 /\ HeightOf(b) < U32
         /\ ChainOf[b] = Cut(b, HeightOf(b))
         /\ \A h \in 1 .. HeightOf(b) :
              /\ ChainOf[b][h] \in Block /\ HeightOf(ChainOf[b][h]) = h
              /\ ChainOf[ChainOf[b][h]] = Cut(b, h)
<1>1. /\ ChainOf[b] \in Seq(Block) /\ HeightOf(b) >= 1 /\ HeightOf(b) < U32 /\ U32 \in Nat
      /\ \A h \in 1 .. HeightOf(b) : ChainOf[ChainOf[b][h]] = SubSeq(ChainOf[b], 1, h)
  BY ForkAssumption
<1>2. HeightOf(b) \in Nat
  BY <1>1 DEF HeightOf
<1>3. ChainOf[b] = Cut(b, HeightOf(b))
  BY <1>1 DEF Cut, HeightOf
<1>4. ASSUME NEW h \in 1 .. HeightOf(b)
      PROVE  /\ ChainOf[b][h] \in Block /\ HeightOf(ChainOf[b][h]) = h
             /\ ChainOf[ChainOf[b][h]] = Cut(b, h)
  <2>1. ChainOf[b][h] \in Block
    BY <1>1 DEF HeightOf
  <2>2. SubSeq(ChainOf[b], 1, h) = Cut(b, h) /\ Len(SubSeq(ChainOf[b], 1, h)) = h
    BY <1>1 DEF HeightOf, Cut
  <2>. QED  BY <1>1, <2>1, <2>2 DEF HeightOf
<1>. QED  BY <1>1, <1>2, <1>3, <1>4

\* Two chains that share a block share everything below it.
LEMMA SharedBelow ==
  ASSUME NEW b \in Block, NEW c \in Block, NEW h \in 1 .. HeightOf(b),
         h <= HeightOf(c), ChainOf[b][h] = ChainOf[c][h]
  PROVE  Cut(b, h) = Cut(c, h)
BY CutFacts

\* A table that is the beginning of a chain holds at every height a block of that
\* height, and LastOf is where it ends.
LEMMA CutTable ==
  ASSUME NEW x \in Block, NEW n \in 0 .. HeightOf(x), NEW table, table = Cut(x, n)
  PROVE  /\ n \in Nat /\ DOMAIN table = 1 .. n
         /\ \A h \in 1 .. n : /\ table[h] = ChainOf[x][h] /\ table[h] \in Block
                             /\ HeightOf(table[h]) = h
         /\ LastOf(table) = n
<1>1. n \in Nat
  BY CutFacts
<1>2. DOMAIN table = 1 .. n
  BY DEF Cut
<1>3. ASSUME NEW h \in 1 .. n
      PROVE  table[h] = ChainOf[x][h] /\ table[h] \in Block /\ HeightOf(table[h]) = h
  <2>1. table[h] = ChainOf[x][h]
    BY DEF Cut
  <2>2. h \in 1 .. HeightOf(x)
    BY <1>1, CutFacts
  <2>. QED  BY <2>1, <2>2, CutFacts
<1>4. LastOf(table) = n
  <2>1. CASE n = 0
    BY <1>2, <2>1 DEF LastOf
  <2>2. CASE n > 0
    <3>1. DOMAIN table # {} /\ DOMAIN table \in SUBSET (1 .. n) /\ n \in DOMAIN table
      BY <1>1, <1>2, <2>2
    <3>2. Max(DOMAIN table) \in 1 .. n /\ n <= Max(DOMAIN table)
      BY <1>1, <3>1, MaxInSet
    <3>. QED  BY <1>1, <1>2, <3>1, <3>2 DEF LastOf
  <2>. QED  BY <1>1, <2>1, <2>2
<1>. QED  BY <1>1, <1>2, <1>3, <1>4

\* A set of positive numbers that is not empty has a least element.
LEMMA MinInSet ==
  ASSUME NEW S \in SUBSET Nat, S # {}
  PROVE  Min(S) \in S
<1>. DEFINE R == {p \in Nat \X Nat : p[1] < p[2]}
<1>1. IsWellFoundedOn(R, Nat)
  BY NatLessThanWellFounded, Zenon DEF OpToRel
<1>2. ASSUME NEW y \in Nat, NEW x \in Nat, y < x PROVE <<y, x>> \in R
  BY <1>2
<1>. HIDE DEF R
<1>3. PICK m \in S : \A y \in S : ~ (<<y, m>> \in R)
  BY <1>1, WFMin
<1>4. ASSUME NEW y \in S PROVE m <= y
  <2>1. ~ (y < m)
    BY <1>2, <1>3
  <2>. QED  BY <2>1
<1>. QED  BY <1>4 DEF Min

\* The last height of a table of blocks is a number.
LEMMA LastInNat ==
  ASSUME NEW table, \A h \in DOMAIN table : table[h] \in Block /\ HeightOf(table[h]) = h
  PROVE  LastOf(table) \in Nat /\ DOMAIN table \subseteq 1 .. U32
<1>1. \A h \in DOMAIN table : h \in 1 .. U32
  BY CutFacts, ForkAssumption
<1>2. CASE DOMAIN table = {}
  BY <1>2 DEF LastOf
<1>3. CASE DOMAIN table # {}
  <2>1. U32 \in Nat /\ DOMAIN table \in SUBSET (1 .. U32)
    BY <1>1, ForkAssumption
  <2>2. Max(DOMAIN table) \in DOMAIN table
    BY <1>3, <2>1, MaxInSet
  <2>. QED  BY <1>1, <1>3, <2>2 DEF LastOf
<1>. QED  BY <1>1, <1>2, <1>3

\* What a transaction writes are blocks at their heights.
LEMMA WrittenType ==
  ASSUME NEW blocks \in Seq(Block),
         NEW table, \A h \in DOMAIN table : table[h] \in Block /\ HeightOf(table[h]) = h
  PROVE  /\ \A h \in DOMAIN Stored(table, blocks) :
              /\ Stored(table, blocks)[h] \in Block
              /\ HeightOf(Stored(table, blocks)[h]) = h
              /\ Stored(table, blocks)[h] \in Blocks(table) \cup Blocks(blocks)
         /\ \A h \in DOMAIN Deleted(table, blocks) :
              /\ h \in DOMAIN table \ Heights(blocks)
              /\ Deleted(table, blocks)[h] = table[h]
         /\ Blocks(blocks) \subseteq Block
<1>1. Blocks(blocks) \subseteq Block
  BY DEF Blocks
<1>2. ASSUME NEW h \in DOMAIN Stored(table, blocks)
      PROVE  /\ Stored(table, blocks)[h] \in Block
             /\ HeightOf(Stored(table, blocks)[h]) = h
             /\ Stored(table, blocks)[h] \in Blocks(table) \cup Blocks(blocks)
  <2>1. CASE h \in Heights(blocks)
    <3>. DEFINE c == CHOOSE b \in Blocks(blocks) : HeightOf(b) = h
    <3>1. \E b \in Blocks(blocks) : HeightOf(b) = h
      BY <2>1 DEF Heights
    <3>2. c \in Blocks(blocks) /\ HeightOf(c) = h
      BY <3>1
    <3>3. Stored(table, blocks)[h] = c
      BY <2>1 DEF Stored
    <3>. QED  BY <1>1, <3>2, <3>3
  <2>2. CASE h \notin Heights(blocks)
    <3>1. h \in DOMAIN table /\ Stored(table, blocks)[h] = table[h]
      BY <2>2 DEF Stored
    <3>. QED  BY <3>1 DEF Blocks
  <2>. QED  BY <2>1, <2>2
<1>3. \A h \in DOMAIN Deleted(table, blocks) :
        h \in DOMAIN table \ Heights(blocks) /\ Deleted(table, blocks)[h] = table[h]
  BY DEF Deleted
<1>. QED  BY <1>1, <1>2, <1>3

\* Every transaction that begins is one of blocks.
LEMMA BeginType ==
  ASSUME TypeInv, NEW op \in {"store", "delete"}, NEW blocks \in Seq(Block), syncing,
         Begin(op, blocks), UNCHANGED <<node_tip, up>>
  PROVE  /\ tx' \in [op : {"store", "delete"}, blocks : Seq(Block)]
         /\ pending' \subseteq Db /\ used' \in BOOLEAN
         /\ (~up' => pending' = {}) /\ UNCHANGED <<db, index>>
<1>1. up
  BY DEF TypeInv, FetchOK
<1>. QED  BY <1>1 DEF Begin

\* persist_or_link keeps the types, whatever part of a chain it is given.
LEMMA LinkedType ==
  ASSUME TypeInv, Idle, linking # <<>>, NEW fork \in Seq(Block), PersistLinked(fork),
         cut' \in BOOLEAN
  PROVE  TypeInv'
<1>1. linking' = Tail(linking) /\ linking' \in Seq(Block)
  BY DEF PersistLinked, TypeInv, TypeOK
<1>2. UNCHANGED <<node_tip, up, syncing, target, fork_height, batching, next, fetched>>
  BY DEF PersistLinked
<1>3. syncing
  BY DEF Idle
<1>4. /\ tx' \in [op : {"store", "delete"}, blocks : Seq(Block)]
      /\ pending' \subseteq Db /\ used' \in BOOLEAN
      /\ (~up' => pending' = {}) /\ UNCHANGED <<db, index>> /\ update' \in Seq(Block)
  <2>1. CASE Len(fork) = 0 /\ UNCHANGED <<db, index, tx, pending, used, update>>
    BY <1>2, <2>1 DEF TypeInv, TypeOK, FetchOK
  <2>2. CASE Len(fork) = 1 /\ store_blocks(fork) /\ UNCHANGED update
    BY <1>2, <1>3, <2>2, BeginType DEF store_blocks, TypeInv, TypeOK
  <2>3. CASE Len(fork) > 1 /\ DeleteBlocks(fork) /\ update' = fork
    BY <1>2, <1>3, <2>3, BeginType DEF DeleteBlocks
  <2>. QED  BY <2>1, <2>2, <2>3 DEF PersistLinked
<1>5. TypeOK'
  BY <1>1, <1>2, <1>4 DEF TypeInv, TypeOK
<1>6. FetchOK'
  BY <1>2, <1>4 DEF TypeInv, FetchOK
<1>. QED  BY <1>5, <1>6 DEF TypeInv

\* A sync starts after a height up to the node's tip.
LEMMA SyncFromType ==
  ASSUME TypeInv, NEW last \in Nat, SyncFrom(last), up' = TRUE, UNCHANGED <<node_tip, dbVars>>
  PROVE  TypeInv'
<1>. DEFINE tip == HeightOf(node_tip)
<1>1. node_tip \in Block /\ tip \in Nat /\ U32 \in Nat /\ tip < U32
  BY CutFacts, ForkAssumption DEF TypeInv, TypeOK
<1>2. /\ syncing' \in BOOLEAN /\ batching' \in BOOLEAN /\ used' = FALSE
      /\ target' = tip /\ fork_height' = SubU32(tip, ForkDetectionHeights)
      /\ next' = last + 1 /\ fetched' = [h \in {} |-> Start]
      /\ linking' = <<>> /\ update' = <<>>
  BY DEF SyncFrom, NoBlocks
<1>. HIDE DEF tip
<1>3. SubU32(tip, ForkDetectionHeights) \in 0 .. (U32 - 1)
  <2>1. tip - ForkDetectionHeights \in Int /\ U32 > 0
    BY <1>1, ForkAssumption
  <2>. QED  BY <1>1, <2>1 DEF SubU32
<1>4. /\ linking' \in Seq(Block) /\ update' \in Seq(Block) /\ DOMAIN fetched' = {}
      /\ next' \in Nat /\ next' >= 1
  BY <1>2
<1>5. UNCHANGED <<db, index, tx, pending, cut, node_tip>>
  BY DEF dbVars
<1>6. TypeOK'
  BY <1>1, <1>2, <1>3, <1>4, <1>5 DEF TypeInv, TypeOK
<1>7. target' <= HeightOf(node_tip')
  BY <1>1, <1>2, <1>5 DEF tip
<1>8. FetchOK'
  BY <1>4, <1>7 DEF FetchOK
<1>. QED  BY <1>6, <1>8 DEF TypeInv

\* The parts of a chain that are linked are sequences of blocks.
LEMMA ForkType ==
  ASSUME NEW b \in Block, NEW i \in Int, i >= 1
  PROVE  SubSeq(ChainOf[b], i, HeightOf(b)) \in Seq(Block)
<1>1. ChainOf[b] \in Seq(Block) /\ HeightOf(b) = Len(ChainOf[b])
  BY ForkAssumption DEF HeightOf
<1>. QED  BY <1>1

\* The walk stops at a height of the chain, and at none above.
LEMMA LinkHeightFacts ==
  ASSUME NEW b \in Block
  PROVE  /\ LinkHeight(b) \in 1 .. HeightOf(b) /\ LinksAt(b, LinkHeight(b))
         /\ \A i \in 1 .. HeightOf(b) : LinksAt(b, i) => i <= LinkHeight(b)
<1>. DEFINE S == {i \in 1 .. HeightOf(b) : LinksAt(b, i)}
<1>1. HeightOf(b) \in Nat /\ HeightOf(b) >= 1
  BY CutFacts
<1>2. S \in SUBSET (1 .. HeightOf(b)) /\ 1 \in S
  BY <1>1 DEF LinksAt
<1>3. LinkHeight(b) = Max(S)
  BY DEF LinkHeight
<1>4. LinkHeight(b) \in S /\ \A i \in S : i <= LinkHeight(b)
  <2>. HIDE DEF S
  <2>. QED  BY <1>1, <1>2, <1>3, MaxInSet
<1>. QED  BY <1>4

\* One database commits: it gets rows of blocks.
LEMMA CommitType ==
  ASSUME TypeInv, NEW d \in Db, CommitDb(d)
  PROVE  TypeInv'
<1>1. /\ tx.blocks \in Seq(Block) /\ DOMAIN db = Db /\ d \in Db
      /\ \A e \in Db : \A h \in DOMAIN db[e] : db[e][h] \in Block /\ HeightOf(db[e][h]) = h
  BY DEF TypeInv, TypeOK
<1>2. /\ db' = [db EXCEPT ![d] = Written(db[d])] /\ pending' = pending \ {d}
      /\ index' = IF d = "hash" THEN IndexWritten ELSE index
      /\ UNCHANGED <<node_tip, tx, cut, up, syncing, target, fork_height, batching, used, next,
                     fetched, linking, update>>
  BY DEF CommitDb, syncVars
<1>3. DOMAIN db' = Db /\ db'[d] = Written(db[d]) /\ \A e \in Db : e # d => db'[e] = db[e]
  BY <1>1, <1>2
<1>4. \A h \in DOMAIN Written(db[d]) :
        Written(db[d])[h] \in Block /\ HeightOf(Written(db[d])[h]) = h
  <2>1. CASE tx.op = "store"
    BY <1>1, <2>1, WrittenType DEF Written
  <2>2. CASE tx.op # "store"
    BY <1>1, <2>2, WrittenType DEF Written
  <2>. QED  BY <2>1, <2>2
<1>5. \A e \in Db : \A h \in DOMAIN db'[e] : db'[e][h] \in Block /\ HeightOf(db'[e][h]) = h
  BY <1>1, <1>3, <1>4
<1>6. index' \subseteq Block
  <2>1. index \subseteq Block
    BY DEF TypeInv, TypeOK
  <2>2. Blocks(tx.blocks) \subseteq Block
    BY <1>1 DEF Blocks
  <2>3. IndexWritten \subseteq Block
    BY <2>1, <2>2 DEF IndexWritten
  <2>. QED  BY <1>2, <2>1, <2>3
<1>7. TypeOK'
  BY <1>2, <1>3, <1>5, <1>6 DEF TypeInv, TypeOK
<1>8. FetchOK'
  BY <1>2 DEF TypeInv, FetchOK
<1>. QED  BY <1>7, <1>8 DEF TypeInv

\* A sync that returns drops what it had not persisted.
LEMMA AbandonType ==
  ASSUME TypeInv, Abandon, UNCHANGED <<db, index, tx>>, pending' \subseteq pending,
         cut' \in BOOLEAN, up' \in BOOLEAN, ~up' => pending' = {}
  PROVE  TypeInv'
<1>1. /\ syncing' = FALSE /\ DOMAIN fetched' = {} /\ linking' = <<>> /\ update' = <<>>
      /\ UNCHANGED <<node_tip, target, fork_height, batching, used, next>>
  BY DEF Abandon, NoBlocks
<1>2. linking' \in Seq(Block) /\ update' \in Seq(Block)
  BY <1>1
<1>3. TypeOK'
  BY <1>1, <1>2 DEF TypeInv, TypeOK
<1>4. FetchOK'
  BY <1>1 DEF TypeInv, FetchOK
<1>. QED  BY <1>3, <1>4 DEF TypeInv

\* The blocks of a batch, at the heights that follow next.
LEMMA BatchType ==
  ASSUME TypeInv, NEW n \in Nat, n >= 1, next .. (next + n - 1) \subseteq DOMAIN fetched
  PROVE  /\ [i \in 1 .. n |-> fetched[next + i - 1]] \in Seq(Block)
         /\ Len([i \in 1 .. n |-> fetched[next + i - 1]]) = n
         /\ \A i \in 1 .. n : next - 1 + i \in DOMAIN fetched
                              /\ HeightOf(fetched[next + i - 1]) = next - 1 + i
<1>1. next \in Nat
  BY DEF TypeInv, TypeOK
<1>2. ASSUME NEW i \in 1 .. n
      PROVE  /\ next + i - 1 \in DOMAIN fetched /\ fetched[next + i - 1] \in Block
             /\ HeightOf(fetched[next + i - 1]) = next + i - 1
             /\ next + i - 1 = next - 1 + i
  <2>1. next + i - 1 \in next .. (next + n - 1) /\ next + i - 1 = next - 1 + i
    BY <1>1
  <2>. QED  BY <2>1 DEF TypeInv, FetchOK
<1>. DEFINE batch == [i \in 1 .. n |-> fetched[next + i - 1]]
<1>3. batch \in [1 .. n -> Block]
  BY <1>2
<1>4. batch \in Seq(Block) /\ Len(batch) = n
  <2>. HIDE DEF batch
  <2>. QED  BY <1>3
<1>. QED  BY <1>2, <1>4

\* Every step keeps the types.
LEMMA NextType ==
  ASSUME TypeInv, [Next]_vars
  PROVE  TypeInv'
<1>1. CASE NodeMoves
  <2>1. PICK b \in Block : HeightOf(b) > HeightOf(node_tip) /\ node_tip' = b
    BY <1>1 DEF NodeMoves
  <2>2. UNCHANGED <<db, index, tx, pending, cut, up, syncing, target, fork_height, batching,
                    used, next, fetched, linking, update>>
    BY <1>1 DEF NodeMoves, dbVars, syncVars
  <2>3. HeightOf(b) \in Nat /\ HeightOf(node_tip) \in Nat /\ target \in Nat
    BY CutFacts DEF TypeInv, TypeOK
  <2>4. TypeOK'
    BY <2>1, <2>2 DEF TypeInv, TypeOK
  <2>5. FetchOK'
    BY <2>1, <2>2, <2>3 DEF TypeInv, FetchOK
  <2>. QED  BY <2>4, <2>5 DEF TypeInv
<1>2. CASE Launch
  <2>1. last_height \in Nat /\ DOMAIN db["key"] \subseteq 1 .. U32
    BY LastInNat DEF TypeInv, TypeOK, last_height, Db, Eager
  <2>2. Unlinked \subseteq Nat
    BY <2>1 DEF Unlinked
  <2>3. Unlinked # {} => Min(Unlinked) \in Nat
    BY <2>2, MinInSet
  <2>4. PICK last \in Nat : SyncFrom(last) /\ up' = TRUE /\ UNCHANGED <<node_tip, dbVars>>
    BY <1>2, <2>1, <2>3 DEF Launch
  <2>. QED  BY <2>4, SyncFromType
<1>3. CASE SyncStart
  <2>1. last_height \in Nat
    BY LastInNat DEF TypeInv, TypeOK, last_height, Db, Eager
  <2>2. SyncFrom(last_height) /\ up' = TRUE /\ UNCHANGED <<node_tip, dbVars>>
    BY <1>3 DEF SyncStart, TypeInv, TypeOK
  <2>. QED  BY <2>1, <2>2, SyncFromType
<1>4. CASE Fetch
  <2>1. PICK h \in next .. target :
          /\ h \notin DOMAIN fetched
          /\ fetched' = [k \in DOMAIN fetched \cup {h} |->
                           IF k = h THEN ChainOf[node_tip][h] ELSE fetched[k]]
    BY <1>4 DEF Fetch
  <2>2. /\ syncing
        /\ UNCHANGED <<node_tip, db, index, tx, pending, cut, up, syncing, target, fork_height,
                       batching, used, next, linking, update>>
    BY <1>4 DEF Fetch, dbVars
  <2>3. /\ next \in Nat /\ next >= 1 /\ target \in Nat /\ target <= HeightOf(node_tip)
        /\ node_tip \in Block /\ HeightOf(node_tip) \in Nat
    BY <2>2, CutFacts DEF TypeInv, TypeOK, FetchOK
  <2>4. h \in 1 .. HeightOf(node_tip)
    BY <2>3
  <2>5. ChainOf[node_tip][h] \in Block /\ HeightOf(ChainOf[node_tip][h]) = h
    BY <2>3, <2>4, CutFacts
  <2>6. TypeOK'
    BY <2>1, <2>2, <2>3 DEF TypeInv, TypeOK
  <2>7. FetchOK'
    BY <2>1, <2>2, <2>5 DEF TypeInv, FetchOK
  <2>. QED  BY <2>6, <2>7 DEF TypeInv
<1>5. CASE PersistBatch
  <2>. DEFINE B(n) == [i \in 1 .. n |-> fetched[next + i - 1]]
  <2>1. PICK n \in 1 .. (IF batching THEN Cardinality(DOMAIN fetched) ELSE 1) :
          /\ next .. (next + n - 1) \subseteq DOMAIN fetched
          /\ \/ next + n - 1 <= fork_height /\ store_blocks(B(n)) /\ UNCHANGED linking
             \/ next + n - 1 > fork_height /\ linking' = B(n)
                /\ UNCHANGED <<db, index, tx, pending, used>>
          /\ next' = next + n - 1 + 1
          /\ fetched' = [h \in DOMAIN fetched \ (next .. (next + n - 1)) |-> fetched[h]]
    BY <1>5 DEF PersistBatch, BatchEnd
  <2>2. /\ syncing
        /\ UNCHANGED <<node_tip, cut, up, syncing, target, fork_height, batching, update>>
    BY <1>5 DEF PersistBatch, Idle
  <2>3. n \in Nat /\ n >= 1 /\ next \in Nat /\ next >= 1
    BY <2>1 DEF TypeInv, TypeOK, FetchOK
  <2>4. B(n) \in Seq(Block)
    BY <2>1, <2>3, BatchType
  <2>. HIDE DEF B
  <2>5. /\ tx' \in [op : {"store", "delete"}, blocks : Seq(Block)]
        /\ pending' \subseteq Db /\ used' \in BOOLEAN
        /\ (~up' => pending' = {}) /\ UNCHANGED <<db, index>> /\ linking' \in Seq(Block)
    <3>1. CASE store_blocks(B(n)) /\ UNCHANGED linking
      <4>1. Begin("store", B(n))
        BY <3>1 DEF store_blocks
      <4>. QED  BY <2>2, <2>4, <3>1, <4>1, BeginType DEF TypeInv, TypeOK
    <3>2. CASE linking' = B(n) /\ UNCHANGED <<db, index, tx, pending, used>>
      BY <2>2, <2>4, <3>2 DEF TypeInv, TypeOK, FetchOK
    <3>. QED  BY <2>1, <3>1, <3>2
  <2>6. next' \in Nat /\ next' >= 1 /\ DOMAIN fetched' \subseteq DOMAIN fetched
        /\ \A h \in DOMAIN fetched' : fetched'[h] = fetched[h]
    BY <2>1, <2>3
  <2>7. TypeOK'
    BY <2>2, <2>5, <2>6 DEF TypeInv, TypeOK
  <2>8. FetchOK'
    BY <2>2, <2>5, <2>6 DEF TypeInv, FetchOK
  <2>. QED  BY <2>7, <2>8 DEF TypeInv
<1>6. CASE LinkNext
  <2>. DEFINE b == Head(linking)
  <2>1. Idle /\ linking # <<>> /\ PersistLinked(chain_link(b)) /\ cut' = cut
    BY <1>6 DEF LinkNext
  <2>2. b \in Block /\ cut \in BOOLEAN
    BY <2>1 DEF TypeInv, TypeOK
  <2>. HIDE DEF b
  <2>3. chain_link(b) \in Seq(Block)
    BY <2>2, LinkHeightFacts, CutFacts, ForkType DEF chain_link
  <2>. QED  BY <2>1, <2>2, <2>3, LinkedType
<1>7. CASE LinkRefused
  <2>. DEFINE b == Head(linking)
  <2>1. Idle /\ linking # <<>>
    BY <1>7 DEF LinkRefused
  <2>2. b \in Block /\ cut \in BOOLEAN
    BY <2>1 DEF TypeInv, TypeOK
  <2>3. PICK j \in LinkHeight(b) .. (HeightOf(b) - 1) :
          PersistLinked(RefusedAt(b, j)) /\ cut' = (cut \/ RefusedAt(b, j) # <<>>)
    BY <1>7 DEF LinkRefused
  <2>. HIDE DEF b
  <2>4. j + 2 \in Int /\ j + 2 >= 1
    BY <2>2, LinkHeightFacts, CutFacts
  <2>5. RefusedAt(b, j) \in Seq(Block)
    BY <2>2, <2>4, ForkType DEF RefusedAt
  <2>. QED  BY <2>1, <2>2, <2>3, <2>5, LinkedType
<1>8. CASE StoreFork
  <2>1. /\ syncing /\ Begin("store", update) /\ update' = <<>>
        /\ UNCHANGED <<node_tip, cut, up, syncing, target, fork_height, batching, next, fetched,
                       linking>>
    BY <1>8 DEF StoreFork, store_blocks, Idle
  <2>2. update \in Seq(Block) /\ update' \in Seq(Block)
    BY <2>1 DEF TypeInv, TypeOK
  <2>3. /\ tx' \in [op : {"store", "delete"}, blocks : Seq(Block)]
        /\ pending' \subseteq Db /\ used' \in BOOLEAN
        /\ (~up' => pending' = {}) /\ UNCHANGED <<db, index>>
    BY <2>1, <2>2, BeginType
  <2>4. TypeOK'
    BY <2>1, <2>2, <2>3 DEF TypeInv, TypeOK
  <2>5. FetchOK'
    BY <2>1, <2>3 DEF TypeInv, FetchOK
  <2>. QED  BY <2>4, <2>5 DEF TypeInv
<1>9. CASE \E d \in Db : CommitDb(d)
  BY <1>9, CommitType
<1>10. CASE \E d \in Db : CommitFails(d)
  <2>1. /\ Abandon /\ UNCHANGED <<db, index, tx, up>> /\ pending' \subseteq pending /\ cut' = TRUE
    BY <1>10 DEF CommitFails
  <2>2. up' \in BOOLEAN /\ (~up' => pending' = {})
    BY <2>1 DEF TypeInv, TypeOK, FetchOK
  <2>. QED  BY <2>1, <2>2, AbandonType
<1>11. CASE SyncEnds
  <2>1. /\ syncing' = FALSE
        /\ UNCHANGED <<node_tip, db, index, tx, pending, cut, up, target, fork_height, batching,
                       used, next, fetched, linking, update>>
    BY <1>11 DEF SyncEnds, dbVars
  <2>2. TypeOK'
    BY <2>1 DEF TypeInv, TypeOK
  <2>3. FetchOK'
    BY <2>1 DEF TypeInv, FetchOK
  <2>. QED  BY <2>2, <2>3 DEF TypeInv
<1>12. CASE LinkFails \/ SyncFails
  <2>1. Abandon /\ UNCHANGED <<db, index, tx, pending, cut, up>>
    BY <1>12 DEF LinkFails, SyncFails, dbVars
  <2>2. pending' \subseteq pending /\ cut' \in BOOLEAN /\ up' \in BOOLEAN /\ (~up' => pending' = {})
    BY <2>1 DEF TypeInv, TypeOK, FetchOK
  <2>. QED  BY <2>1, <2>2, AbandonType
<1>13. CASE Crash
  <2>1. /\ Abandon /\ UNCHANGED <<db, index, tx>> /\ up' = FALSE /\ pending' = {}
        /\ cut' = (cut \/ pending \notin {{}, Db})
    BY <1>13 DEF Crash
  <2>2. cut' \in BOOLEAN
    BY <2>1 DEF TypeInv, TypeOK
  <2>. QED  BY <2>1, <2>2, AbandonType
<1>14. CASE UNCHANGED vars
  BY <1>14 DEF vars, dbVars, syncVars, TypeInv, TypeOK, FetchOK
<1>. QED  BY <1>1, <1>2, <1>3, <1>4, <1>5, <1>6, <1>7, <1>8, <1>9, <1>10, <1>11, <1>12, <1>13,
             <1>14 DEF Next

\* Node and indexer start from the same chain, in every table.
LEMMA InitType == Init => TypeInv /\ RollbackInv
<1>. SUFFICES ASSUME Init PROVE TypeInv /\ RollbackInv
  OBVIOUS
<1>1. Start \in Block /\ U32 \in Nat /\ HeightOf(Start) \in Nat /\ HeightOf(Start) < U32
  BY ForkAssumption, CutFacts
<1>2. /\ node_tip = Start /\ db = [d \in Db |-> ChainOf[Start]] /\ index = Blocks(ChainOf[Start])
      /\ tx = [op |-> "store", blocks |-> <<>>] /\ pending = {} /\ cut = FALSE
      /\ up = FALSE /\ syncing = FALSE /\ target = 0 /\ fork_height = 0 /\ batching = FALSE
      /\ used = FALSE /\ next = 1 /\ fetched = [h \in {} |-> Start]
      /\ linking = <<>> /\ update = <<>>
  BY DEF Init, NoBlocks
<1>3. /\ DOMAIN ChainOf[Start] = 1 .. HeightOf(Start)
      /\ \A h \in 1 .. HeightOf(Start) :
           ChainOf[Start][h] \in Block /\ HeightOf(ChainOf[Start][h]) = h
  BY <1>1, CutFacts DEF Cut
<1>4. index \subseteq Block
  BY <1>2, <1>3 DEF Blocks
<1>5. DOMAIN fetched = {} /\ linking \in Seq(Block) /\ update \in Seq(Block)
  BY <1>2
<1>6. tx \in [op : {"store", "delete"}, blocks : Seq(Block)]
  BY <1>2
<1>7. TypeOK
  <2>1. DOMAIN db = Db /\ \A d \in Db : db[d] = ChainOf[Start]
    BY <1>2
  <2>2. /\ node_tip \in Block /\ target \in Nat /\ next \in Nat /\ fork_height \in 0 .. (U32 - 1)
        /\ DOMAIN fetched \subseteq Nat /\ pending \subseteq Db
    BY <1>1, <1>2, <1>5
  <2>3. /\ up \in BOOLEAN /\ syncing \in BOOLEAN /\ batching \in BOOLEAN /\ used \in BOOLEAN
        /\ cut \in BOOLEAN
    BY <1>2
  <2>4. \A d \in Db : \A h \in DOMAIN db[d] : db[d][h] \in Block /\ HeightOf(db[d][h]) = h
    BY <1>3, <2>1
  <2>. QED  BY <1>4, <1>5, <1>6, <2>1, <2>2, <2>3, <2>4 DEF TypeOK
<1>8. FetchOK
  BY <1>2, <1>5 DEF FetchOK
<1>9. RollbackInv
  BY <1>2 DEF RollbackInv, Db, Eager
<1>. QED  BY <1>7, <1>8, <1>9 DEF TypeInv

\* No block that chain_link walked past is in the reverse table, so none of the
\* rows that the delete of the fork reaches holds one.
LEMMA ForkSuperseded ==
  ASSUME TypeInv, RollbackInv, NEW b \in Block,
         NEW i \in LinkHeight(b) .. HeightOf(b)
  PROVE  Superseded(SubSeq(ChainOf[b], i, HeightOf(b)))
<1>. DEFINE H == HeightOf(b)
            fork == SubSeq(ChainOf[b], i, H)
<1>1. /\ LinkHeight(b) \in 1 .. H /\ H \in Nat
      /\ \A k \in 1 .. H : LinksAt(b, k) => k <= LinkHeight(b)
  BY LinkHeightFacts, CutFacts
<1>2. ChainOf[b] \in Seq(Block) /\ H = Len(ChainOf[b]) /\ ChainOf[b][H] = b
  BY ForkAssumption DEF HeightOf
<1>3. i \in Nat /\ i >= 1 /\ i <= H /\ i >= LinkHeight(b)
  BY <1>1
<1>. HIDE DEF H
<1>4. /\ Len(fork) = H - i + 1 /\ DOMAIN fork = 1 .. (H - i + 1)
      /\ \A j \in 1 .. (H - i + 1) : fork[j] = ChainOf[b][i - 1 + j]
  BY <1>1, <1>2, <1>3
<1>. HIDE DEF fork
<1>5. fork # <<>> /\ fork[Len(fork)] = b
  <2>1. H - i + 1 \in 1 .. (H - i + 1) /\ i - 1 + (H - i + 1) = H
    BY <1>1, <1>3
  <2>. QED  BY <1>2, <1>4, <2>1
<1>6. \A h \in Heights(fork) : h \in i .. H
  <2>1. ASSUME NEW j \in 1 .. (H - i + 1) PROVE HeightOf(fork[j]) \in i .. H
    <3>1. i - 1 + j \in 1 .. HeightOf(b) /\ i - 1 + j \in i .. H
      BY <1>1, <1>3 DEF H
    <3>2. HeightOf(ChainOf[b][i - 1 + j]) = i - 1 + j
      BY <3>1, CutFacts
    <3>. QED  BY <1>4, <3>1, <3>2
  <2>. QED  BY <1>4, <2>1 DEF Heights, Blocks
<1>7. ASSUME NEW h \in Heights(fork) \cap DOMAIN db["hash"], h < H,
             db["hash"][h] = ChainOf[b][h]
      PROVE  FALSE
  <2>1. h \in i .. H /\ h + 1 \in 1 .. H /\ ~(h + 1 <= LinkHeight(b)) /\ h + 1 # 1
    BY <1>1, <1>3, <1>6, <1>7
  <2>2. ChainOf[b][h] \in index
    BY <1>7 DEF RollbackInv, Blocks
  <2>3. PICK k : k = h + 1
    OBVIOUS
  <2>4. k - 1 = h
    BY <2>1, <2>3
  <2>5. LinksAt(b, k)
    BY <2>2, <2>4 DEF LinksAt
  <2>. QED  BY <1>1, <2>1, <2>3, <2>5
<1>8. \A h \in Heights(fork) \cap DOMAIN db["hash"] :
        h < HeightOf(b) => db["hash"][h] # ChainOf[b][h]
  BY <1>7 DEF H
<1>9. Superseded(fork)
  BY <1>5, <1>8 DEF Superseded
<1>. QED  BY <1>9 DEF fork, H

\* Every step keeps what a rollback rests on.
LEMMA NextRollback ==
  ASSUME TypeInv, RollbackInv, [Next]_vars
  PROVE  RollbackInv'
<1>1. ASSUME UNCHANGED <<db, index, tx>>, pending' \subseteq pending PROVE RollbackInv'
  BY <1>1 DEF RollbackInv, Superseded
<1>2. ASSUME NEW blocks, store_blocks(blocks) PROVE RollbackInv'
  BY <1>2 DEF store_blocks, Begin, RollbackInv
<1>3. ASSUME NEW fork, PersistLinked(fork), Len(fork) > 1 => Superseded(fork)
      PROVE  RollbackInv'
  <2>1. CASE UNCHANGED <<db, index, tx, pending>>
    BY <1>1, <2>1
  <2>2. CASE store_blocks(fork)
    BY <1>2, <2>2
  <2>3. CASE Len(fork) > 1 /\ DeleteBlocks(fork)
    <3>1. Superseded(fork) /\ tx' = [op |-> "delete", blocks |-> fork] /\ UNCHANGED <<db, index>>
      BY <1>3, <2>3 DEF DeleteBlocks, Begin
    <3>2. Superseded(fork)'
      BY <3>1 DEF Superseded
    <3>. QED  BY <3>1, <3>2 DEF RollbackInv
  <2>. QED  BY <1>3, <2>1, <2>2, <2>3 DEF PersistLinked
<1>4. CASE NodeMoves \/ Launch \/ SyncStart \/ Fetch \/ SyncEnds \/ LinkFails \/ SyncFails
  BY <1>1, <1>4 DEF NodeMoves, Launch, SyncStart, Fetch, SyncEnds, LinkFails, SyncFails, dbVars
<1>5. CASE PersistBatch
  <2>1. \/ \E blocks : store_blocks(blocks)
        \/ UNCHANGED <<db, index, tx, pending>>
    BY <1>5 DEF PersistBatch
  <2>. QED  BY <1>1, <1>2, <2>1
<1>6. CASE LinkNext
  <2>. DEFINE b == Head(linking)
  <2>1. linking # <<>> /\ PersistLinked(chain_link(b))
    BY <1>6 DEF LinkNext
  <2>2. b \in Block
    BY <2>1 DEF TypeInv, TypeOK
  <2>. HIDE DEF b
  <2>3. LinkHeight(b) \in LinkHeight(b) .. HeightOf(b)
    BY <2>2, LinkHeightFacts, CutFacts
  <2>4. Superseded(chain_link(b))
    BY <2>2, <2>3, ForkSuperseded DEF chain_link
  <2>. QED  BY <1>3, <2>1, <2>4
<1>7. CASE LinkRefused
  <2>. DEFINE b == Head(linking)
  <2>1. linking # <<>>
    BY <1>7 DEF LinkRefused
  <2>2. b \in Block
    BY <2>1 DEF TypeInv, TypeOK
  <2>3. PICK j \in LinkHeight(b) .. (HeightOf(b) - 1) : PersistLinked(RefusedAt(b, j))
    BY <1>7 DEF LinkRefused
  <2>. HIDE DEF b
  <2>4. /\ LinkHeight(b) \in 1 .. HeightOf(b) /\ HeightOf(b) \in Nat
        /\ ChainOf[b] \in Seq(Block) /\ HeightOf(b) = Len(ChainOf[b])
    BY <2>2, LinkHeightFacts, CutFacts, ForkAssumption DEF HeightOf
  <2>5. CASE j + 2 <= HeightOf(b)
    <3>1. j + 2 \in LinkHeight(b) .. HeightOf(b)
      BY <2>4, <2>5
    <3>2. Superseded(RefusedAt(b, j))
      BY <2>2, <3>1, ForkSuperseded DEF RefusedAt
    <3>. QED  BY <1>3, <2>3, <3>2
  <2>6. CASE ~(j + 2 <= HeightOf(b))
    <3>1. Len(SubSeq(ChainOf[b], j + 2, HeightOf(b))) = 0
      BY <2>4, <2>6
    <3>2. Len(RefusedAt(b, j)) = 0
      BY <3>1, Zenon DEF RefusedAt
    <3>3. ~(Len(RefusedAt(b, j)) > 1)
      BY <3>2
    <3>. QED  BY <1>3, <2>3, <3>3
  <2>. QED  BY <2>5, <2>6
<1>8. CASE StoreFork
  BY <1>2, <1>8 DEF StoreFork
<1>9. CASE \E d \in Db : CommitDb(d)
  <2>1. PICK d \in Db : CommitDb(d)
    BY <1>9
  <2>2. /\ db' = [db EXCEPT ![d] = Written(db[d])] /\ pending' = pending \ {d} /\ tx' = tx
        /\ index' = IF d = "hash" THEN IndexWritten ELSE index
    BY <2>1 DEF CommitDb
  <2>3. /\ DOMAIN db = Db /\ "hash" \in Db /\ tx.blocks \in Seq(Block)
        /\ \A h \in DOMAIN db["hash"] : db["hash"][h] \in Block /\ HeightOf(db["hash"][h]) = h
    BY DEF TypeInv, TypeOK, Db, Eager
  <2>4. CASE d # "hash"
    <3>1. db'["hash"] = db["hash"] /\ index' = index
      BY <2>2, <2>3, <2>4
    <3>. QED  BY <2>2, <3>1 DEF RollbackInv, Superseded
  <2>5. CASE d = "hash"
    <3>1. db'["hash"] = Written(db["hash"]) /\ "hash" \notin pending' /\ index' = IndexWritten
      BY <2>2, <2>3, <2>5
    <3>2. ASSUME NEW h \in DOMAIN Written(db["hash"])
          PROVE  Written(db["hash"])[h] \in IndexWritten
      <4>1. CASE tx.op = "store"
        <5>1. Stored(db["hash"], tx.blocks)[h] \in Blocks(db["hash"]) \cup Blocks(tx.blocks)
          BY <2>3, <3>2, <4>1, WrittenType DEF Written
        <5>. QED  BY <4>1, <5>1 DEF RollbackInv, Written, IndexWritten
      <4>2. CASE tx.op # "store"
        <5>1. /\ h \in DOMAIN db["hash"] \ Heights(tx.blocks)
              /\ Deleted(db["hash"], tx.blocks)[h] = db["hash"][h]
          BY <2>3, <3>2, <4>2, WrittenType DEF Written
        <5>2. db["hash"][h] \in index
          BY <5>1 DEF RollbackInv, Blocks
        <5>3. \A k \in Heights(tx.blocks) \cap DOMAIN db["hash"] : db["hash"][k] # db["hash"][h]
          BY <2>3, <5>1
        <5>. QED  BY <4>2, <5>1, <5>2, <5>3 DEF Written, IndexWritten
      <4>. QED  BY <4>1, <4>2
    <3>3. Blocks(db'["hash"]) \subseteq index'
      BY <3>1, <3>2 DEF Blocks
    <3>. QED  BY <3>1, <3>3 DEF RollbackInv
  <2>. QED  BY <2>4, <2>5
<1>10. CASE \E d \in Db : CommitFails(d)
  BY <1>1, <1>10 DEF CommitFails
<1>11. CASE Crash
  BY <1>1, <1>11 DEF Crash
<1>12. CASE UNCHANGED vars
  BY <1>1, <1>12 DEF vars, dbVars
<1>. QED  BY <1>4, <1>5, <1>6, <1>7, <1>8, <1>9, <1>10, <1>11, <1>12 DEF Next

\* The state of node, databases and sync keeps its type, whatever fails
\* (chain/src/syncer.rs).
THEOREM TypeCorrect == Spec => []TypeOK
<1>1. TypeInv /\ [Next]_vars => TypeInv'
  BY NextType
<1>2. TypeInv => TypeOK
  BY DEF TypeInv
<1>. QED  BY InitType, <1>1, <1>2, PTL DEF Spec

\* A reorganisation deletes superseded blocks only, for every tree of blocks and
\* with any failures, crashes, refused parents and partial commits on the way
\* (chain/src/syncer.rs, chain_link; macros/src/entity/chain.rs, update_blocks).
THEOREM RollbackSound == Spec => RollbackOnlySuperseded
<1>. DEFINE Lost == DOMAIN db["hash"] \ DOMAIN db'["hash"]
            Only == \A h \in Lost :
                      /\ tx.op = "delete"
                      /\ LET tip == tx.blocks[Len(tx.blocks)]
                         IN  h < HeightOf(tip) => db["hash"][h] # ChainOf[tip][h]
<1>1. TypeInv /\ RollbackInv /\ [Next]_vars => TypeInv' /\ RollbackInv'
  BY NextType, NextRollback
<1>2. ASSUME TypeInv, RollbackInv, [Next]_vars PROVE [Only]_vars
  <2>1. CASE db'["hash"] = db["hash"]
    BY <2>1
  <2>2. CASE db'["hash"] # db["hash"]
    <3>1. PICK d \in Db : CommitDb(d)
      BY <1>2, <2>2 DEF Next, vars, NodeMoves, Launch, SyncStart, Fetch, PersistBatch, LinkNext,
         LinkRefused, LinkFails, StoreFork, SyncEnds, SyncFails, CommitFails, Crash, dbVars,
         PersistLinked, store_blocks, DeleteBlocks, Begin
    <3>2. /\ DOMAIN db = Db /\ "hash" \in Db /\ tx.op \in {"store", "delete"}
      BY <1>2 DEF TypeInv, TypeOK, Db, Eager
    <3>3. d = "hash" /\ db'["hash"] = Written(db["hash"]) /\ "hash" \in pending
      BY <2>2, <3>1, <3>2 DEF CommitDb, MayCommit
    <3>4. CASE tx.op = "store"
      <4>1. DOMAIN db["hash"] \subseteq DOMAIN db'["hash"]
        BY <3>3, <3>4 DEF Written, Stored
      <4>. QED  BY <4>1
    <3>5. CASE tx.op = "delete"
      <4>1. Lost \subseteq Heights(tx.blocks) \cap DOMAIN db["hash"]
        BY <3>3, <3>5 DEF Written, Deleted
      <4>2. Superseded(tx.blocks)
        BY <1>2, <3>3, <3>5 DEF RollbackInv
      <4>. QED  BY <3>5, <4>1, <4>2 DEF Superseded
    <3>. QED  BY <3>2, <3>4, <3>5
  <2>. QED  BY <2>1, <2>2
<1>. HIDE DEF Only
<1>3. TypeInv /\ RollbackInv /\ [Next]_vars => [Only]_vars
  BY <1>2
<1>4. Spec => [][Only]_vars
  BY InitType, <1>1, <1>3, PTL DEF Spec
<1>. QED  BY <1>4 DEF Only, RollbackOnlySuperseded

-----------------------------------------------------------------------------
\* The n blocks that follow height a in the chain of y.
Follow(y, a, n, blocks) ==
  a + n <= HeightOf(y) /\ DOMAIN blocks = 1 .. n /\ \A i \in 1 .. n : blocks[i] = ChainOf[y][a + i]

\* Storing blocks of consecutive heights that continue a table on one branch
\* extends the table along that branch, and the index with it.
LEMMA StoreOn ==
  ASSUME NEW y \in Block, NEW a \in Nat, NEW n \in Nat, NEW blocks, Follow(y, a, n, blocks)
  PROVE  /\ Stored(Cut(y, a), blocks) = Cut(y, a + n)
         /\ Blocks(Cut(y, a)) \cup Blocks(blocks) = Blocks(Cut(y, a + n))
<1>0. /\ a + n <= HeightOf(y) /\ DOMAIN blocks = 1 .. n
      /\ \A i \in 1 .. n : blocks[i] = ChainOf[y][a + i]
  BY DEF Follow
<1>. USE <1>0
<1>. DEFINE table == Cut(y, a)
            hs == Heights(blocks)
            B == Blocks(blocks)
            At(h) == CHOOSE b \in B : HeightOf(b) = h
<1>1. ASSUME NEW i \in 1 .. n
      PROVE  a + i \in 1 .. HeightOf(y) /\ HeightOf(blocks[i]) = a + i
  <2>1. a + i \in 1 .. HeightOf(y)
    BY CutFacts
  <2>. QED  BY <2>1, CutFacts
<1>2. hs = (a + 1) .. (a + n)
  <2>1. ASSUME NEW h \in (a + 1) .. (a + n) PROVE h \in hs
    <3>1. h - a \in 1 .. n /\ HeightOf(blocks[h - a]) = h
      BY <1>1
    <3>. QED  BY <3>1 DEF Heights, Blocks
  <2>2. ASSUME NEW h \in hs PROVE h \in (a + 1) .. (a + n)
    <3>1. PICK i \in 1 .. n : h = HeightOf(blocks[i])
      BY DEF Heights, Blocks
    <3>. QED  BY <1>1, <3>1
  <2>. QED  BY <2>1, <2>2
<1>3. DOMAIN table = 1 .. a /\ \A h \in 1 .. a : table[h] = ChainOf[y][h]
  BY DEF Cut
<1>4. ASSUME NEW h \in (a + 1) .. (a + n)
      PROVE  At(h) = ChainOf[y][h]
  <2>1. h - a \in 1 .. n /\ blocks[h - a] = ChainOf[y][h] /\ HeightOf(blocks[h - a]) = h
    BY <1>1
  <2>2. blocks[h - a] \in B
    BY <2>1 DEF Blocks
  <2>3. ASSUME NEW b \in B, HeightOf(b) = h PROVE b = ChainOf[y][h]
    <3>1. PICK i \in 1 .. n : b = blocks[i]
      BY DEF Blocks
    <3>2. a + i = h
      BY <1>1, <2>3, <3>1
    <3>. QED  BY <3>1, <3>2
  <2>. HIDE DEF B
  <2>4. \E b \in B : HeightOf(b) = h
    BY <2>1, <2>2
  <2>5. At(h) \in B /\ HeightOf(At(h)) = h
    BY <2>4
  <2>. HIDE DEF At
  <2>. QED  BY <2>3, <2>5
<1>5. Stored(table, blocks) = [h \in DOMAIN table \cup hs |->
                                 IF h \in hs THEN At(h) ELSE table[h]]
  BY DEF Stored
<1>6. B = {ChainOf[y][h] : h \in (a + 1) .. (a + n)}
  <2>1. ASSUME NEW h \in (a + 1) .. (a + n) PROVE ChainOf[y][h] \in B
    <3>1. h - a \in 1 .. n /\ blocks[h - a] = ChainOf[y][h]
      OBVIOUS
    <3>. QED  BY <3>1 DEF Blocks
  <2>2. ASSUME NEW i \in 1 .. n PROVE blocks[i] \in {ChainOf[y][h] : h \in (a + 1) .. (a + n)}
    BY a + i \in (a + 1) .. (a + n)
  <2>. QED  BY <2>1, <2>2 DEF Blocks
<1>. HIDE DEF hs, At, B, table
<1>7. Stored(table, blocks) = Cut(y, a + n)
  <2>1. DOMAIN table \cup hs = 1 .. (a + n)
    BY <1>2, <1>3
  <2>2. ASSUME NEW h \in 1 .. (a + n)
        PROVE  (IF h \in hs THEN At(h) ELSE table[h]) = ChainOf[y][h]
    BY <1>2, <1>3, <1>4
  <2>. QED  BY <1>5, <2>1, <2>2 DEF Cut
<1>8. Blocks(table) \cup B = Blocks(Cut(y, a + n))
  <2>1. Blocks(table) = {ChainOf[y][h] : h \in 1 .. a}
    BY <1>3 DEF Blocks
  <2>2. Blocks(Cut(y, a + n)) = {ChainOf[y][h] : h \in 1 .. (a + n)}
    BY DEF Cut, Blocks
  <2>3. 1 .. (a + n) = (1 .. a) \cup ((a + 1) .. (a + n))
    OBVIOUS
  <2>. QED  BY <1>6, <2>1, <2>2, <2>3
<1>. QED  BY <1>7, <1>8 DEF B, table

\* Deleting the heights of a fork that leaves the table at height i cuts the
\* table back to below i, and the index with it.
LEMMA DeleteFrom ==
  ASSUME NEW x \in Block, NEW n \in 0 .. HeightOf(x),
         NEW b \in Block, NEW i \in 1 .. HeightOf(b), n < HeightOf(b), i - 1 <= n,
         Cut(x, i - 1) = Cut(b, i - 1)
  PROVE  /\ Deleted(Cut(x, n), SubSeq(ChainOf[b], i, HeightOf(b))) = Cut(b, i - 1)
         /\ Kept(Cut(x, n), SubSeq(ChainOf[b], i, HeightOf(b))) = Blocks(Cut(b, i - 1))
<1>0. PICK fork : fork = SubSeq(ChainOf[b], i, HeightOf(b))
  OBVIOUS
<1>. DEFINE table == Cut(x, n)
            H == HeightOf(b)
            hs == Heights(fork)
<1>1. /\ n \in Nat /\ DOMAIN table = 1 .. n
      /\ \A h \in 1 .. n : table[h] = ChainOf[x][h] /\ HeightOf(table[h]) = h
  BY CutTable
<1>2. H \in Nat /\ i \in Nat /\ i <= H /\ i >= 1 /\ ChainOf[b] \in Seq(Block) /\ H = Len(ChainOf[b])
  BY CutFacts, ForkAssumption DEF HeightOf
<1>3. DOMAIN fork = 1 .. (H - i + 1) /\ \A j \in 1 .. (H - i + 1) : fork[j] = ChainOf[b][i - 1 + j]
  BY <1>0, <1>2
<1>4. hs = i .. H
  <2>1. ASSUME NEW j \in 1 .. (H - i + 1) PROVE HeightOf(fork[j]) = i - 1 + j
    <3>1. i - 1 + j \in 1 .. H
      BY <1>2
    <3>. QED  BY <1>3, <3>1, CutFacts
  <2>2. ASSUME NEW h \in i .. H PROVE h \in hs
    <3>1. PICK j : j = h - i + 1
      OBVIOUS
    <3>2. j \in 1 .. (H - i + 1) /\ i - 1 + j = h
      BY <1>2, <3>1
    <3>3. HeightOf(fork[j]) = h
      BY <2>1, <3>2
    <3>. QED  BY <1>3, <3>2, <3>3 DEF Heights, Blocks
  <2>3. ASSUME NEW h \in hs PROVE h \in i .. H
    <3>1. PICK j \in 1 .. (H - i + 1) : h = HeightOf(fork[j])
      BY <1>3 DEF Heights, Blocks
    <3>. QED  BY <1>2, <2>1, <3>1
  <2>. QED  BY <2>2, <2>3
<1>5. Deleted(table, fork) = [h \in DOMAIN table \ hs |-> table[h]]
  BY DEF Deleted
<1>. HIDE DEF H, hs, table
<1>6. DOMAIN table \ hs = 1 .. (i - 1)
  BY <1>1, <1>2, <1>4 DEF H
<1>7. \A h \in 1 .. (i - 1) : table[h] = ChainOf[b][h]
  <2>1. \A h \in 1 .. (i - 1) : ChainOf[x][h] = ChainOf[b][h]
    BY DEF Cut
  <2>. QED  BY <1>1, <1>2, <2>1
<1>8. Deleted(table, fork) = Cut(b, i - 1)
  BY <1>5, <1>6, <1>7 DEF Cut
<1>9. Blocks(table) \ {table[h] : h \in hs \cap DOMAIN table} = Blocks(Cut(b, i - 1))
  <2>1. Blocks(Cut(b, i - 1)) = {table[h] : h \in 1 .. (i - 1)}
    BY <1>7 DEF Blocks, Cut
  <2>2. ASSUME NEW h \in DOMAIN table, NEW k \in DOMAIN table, table[h] = table[k]
        PROVE  h = k
    BY <1>1, <2>2
  <2>3. Blocks(table) \ {table[h] : h \in hs \cap DOMAIN table}
          = {table[h] : h \in DOMAIN table \ hs}
    BY <2>2 DEF Blocks
  <2>. QED  BY <1>6, <2>1, <2>3
<1>. QED  BY <1>0, <1>8, <1>9 DEF hs, table, Kept

\* The same for a fork that is the end of a chain from height i on.
LEMMA StoreSuffix ==
  ASSUME NEW b \in Block, NEW i \in 1 .. HeightOf(b)
  PROVE  /\ Stored(Cut(b, i - 1), SubSeq(ChainOf[b], i, HeightOf(b))) = Cut(b, HeightOf(b))
         /\ Blocks(Cut(b, i - 1)) \cup Blocks(SubSeq(ChainOf[b], i, HeightOf(b)))
              = Blocks(Cut(b, HeightOf(b)))
<1>1. HeightOf(b) \in Nat /\ i \in Nat /\ i <= HeightOf(b) /\ i >= 1 /\ ChainOf[b] \in Seq(Block)
      /\ HeightOf(b) = Len(ChainOf[b])
  BY CutFacts, ForkAssumption DEF HeightOf
<1>2. PICK H : H = HeightOf(b)
  OBVIOUS
<1>3. PICK a : a = i - 1
  OBVIOUS
<1>4. PICK n : n = H - a
  OBVIOUS
<1>5. PICK fork : fork = SubSeq(ChainOf[b], i, H)
  OBVIOUS
<1>6. a \in Nat /\ n \in Nat /\ a + n = H /\ a + n <= HeightOf(b)
  BY <1>1, <1>2, <1>3, <1>4
<1>7. Follow(b, a, n, fork)
  BY <1>1, <1>2, <1>3, <1>4, <1>5 DEF Follow
<1>8. /\ Stored(Cut(b, a), fork) = Cut(b, a + n)
      /\ Blocks(Cut(b, a)) \cup Blocks(fork) = Blocks(Cut(b, a + n))
  BY <1>6, <1>7, StoreOn
<1>. QED  BY <1>2, <1>3, <1>5, <1>6, <1>8

\* Between transactions every database holds the table.
LEMMA AtRest ==
  ASSUME TxInv, pending = {}
  PROVE  /\ headers = db["root"] /\ indexed = index /\ last_height = LastOf(headers)
         /\ \A d \in Db : db[d] = headers
BY DEF TxInv, headers, indexed, last_height, Db, Eager

\* Steps that touch no database and no transaction leave both views as they are.
LEMMA SameTables ==
  ASSUME UNCHANGED <<db, index, tx, pending>>
  PROVE  headers' = headers /\ indexed' = indexed
BY DEF headers, indexed, Written, IndexWritten

\* A transaction that begins: what will be stored, and the old tables behind it.
LEMMA BeginEffect ==
  ASSUME SafeInv, pending = {}, NEW op \in {"store", "delete"}, NEW blocks, Begin(op, blocks),
         UNCHANGED node_tip
  PROVE  /\ TxInv'
         /\ headers' = IF op = "store" THEN Stored(headers, blocks) ELSE Deleted(headers, blocks)
         /\ indexed' = IF op = "store" THEN indexed \cup Blocks(blocks)
                       ELSE indexed \ {headers[h] : h \in Heights(blocks) \cap DOMAIN headers}
<1>1. /\ headers = db["root"] /\ indexed = index
      /\ \A d \in Db : db[d] = headers
  BY AtRest DEF SafeInv
<1>2. /\ tx' = [op |-> op, blocks |-> blocks] /\ pending' = Db /\ UNCHANGED <<db, index>>
  BY DEF Begin
<1>3. "root" \in Db /\ "hash" \in Db
  BY DEF Db, Eager
<1>4. /\ tx'.op = op /\ tx'.blocks = blocks
  BY <1>2
<1>5. headers' = IF op = "store" THEN Stored(headers, blocks) ELSE Deleted(headers, blocks)
  BY <1>1, <1>2, <1>3, <1>4 DEF headers, Written
<1>6. indexed' = IF op = "store" THEN indexed \cup Blocks(blocks)
                 ELSE indexed \ {headers[h] : h \in Heights(blocks) \cap DOMAIN headers}
  <2>1. indexed' = IndexWritten'
    BY <1>2, <1>3 DEF indexed
  <2>2. db["hash"] = headers
    BY <1>1, <1>3
  <2>3. IndexWritten' = IF op = "store" THEN index \cup Blocks(blocks)
                 ELSE index \ {db["hash"][h] : h \in Heights(blocks) \cap DOMAIN db["hash"]}
    BY <1>2, <1>4 DEF IndexWritten
  <2>. QED  BY <1>1, <2>1, <2>2, <2>3
<1>7. TxInv'
  <2>1. index = Blocks(db["root"]) /\ IsCut(db["root"]) /\ LastOf(db["root"]) <= HeightOf(node_tip)
    BY <1>1 DEF SafeInv, Exact, ChainInv, LinkInv
  <2>2. \A d \in Db : db[d] = db["root"]
    BY <1>1
  <2>. QED  BY <1>2, <1>3, <2>1, <2>2 DEF TxInv
<1>. QED  BY <1>5, <1>6, <1>7

\* chain_link stops where the fork leaves the header table: the two share all
\* blocks below.
LEMMA LinkPoint ==
  ASSUME index = Blocks(headers), NEW x \in Block, NEW n \in 0 .. HeightOf(x),
         headers = Cut(x, n), NEW b \in Block
  PROVE  /\ LinkHeight(b) \in 1 .. HeightOf(b) /\ LinkHeight(b) - 1 <= n
         /\ Cut(x, LinkHeight(b) - 1) = Cut(b, LinkHeight(b) - 1)
<1>. DEFINE i == LinkHeight(b)
<1>1. HeightOf(b) \in Nat /\ HeightOf(b) >= 1
  BY CutFacts
<1>2. i \in 1 .. HeightOf(b) /\ LinksAt(b, i)
  BY LinkHeightFacts
<1>3. /\ n \in Nat /\ DOMAIN headers = 1 .. n
      /\ \A h \in 1 .. n : headers[h] = ChainOf[x][h] /\ HeightOf(headers[h]) = h
  BY CutTable
<1>. HIDE DEF i
<1>4. i - 1 <= n /\ Cut(x, i - 1) = Cut(b, i - 1)
  <2>1. CASE i = 1
    BY <1>3, <2>1 DEF Cut
  <2>2. CASE i # 1
    <3>1. ChainOf[b][i - 1] \in index /\ i - 1 \in 1 .. HeightOf(b)
      <4>1. i - 1 \in 1 .. HeightOf(b)
        BY <1>1, <1>2, <2>2
      <4>. QED  BY <1>2, <2>2, <4>1 DEF LinksAt
    <3>2. PICK h \in 1 .. n : ChainOf[b][i - 1] = headers[h]
      BY <1>3, <3>1 DEF Blocks
    <3>3. HeightOf(ChainOf[b][i - 1]) = i - 1
      BY <3>1, CutFacts
    <3>4. h = i - 1 /\ h <= HeightOf(x)
      <4>1. h = i - 1
        BY <1>3, <3>2, <3>3
      <4>2. HeightOf(x) \in Nat
        BY CutFacts
      <4>. QED  BY <1>3, <4>1, <4>2
    <3>5. ChainOf[b][i - 1] = ChainOf[x][i - 1]
      BY <1>3, <3>2, <3>4
    <3>6. Cut(b, i - 1) = Cut(x, i - 1)
      BY <3>1, <3>4, <3>5, SharedBelow
    <3>. QED  BY <1>3, <3>4, <3>6
  <2>. QED  BY <2>1, <2>2
<1>. QED  BY <1>2, <1>4 DEF i

\* A view that is the beginning of a chain, after a step.
LEMMA TableAfter ==
  ASSUME NEW y \in Block, NEW m \in 0 .. HeightOf(y), headers' = Cut(y, m)
  PROVE  ChainInv' /\ LastOf(headers') = m /\ m \in Nat
<1>1. m \in Nat /\ LastOf(headers') = m
  BY CutTable
<1>2. IsCut(headers')
  BY DEF IsCut
<1>. QED  BY <1>1, <1>2 DEF ChainInv, IsCut

\* The store of the fork of a reorganisation ends on its branch.
LEMMA StoreForkKeeps ==
  ASSUME TypeInv, SafeInv, StoreFork
  PROVE  SafeInv'
<1>1. PICK b \in Block : \E i \in 1 .. HeightOf(b) :
        /\ update = SubSeq(ChainOf[b], i, HeightOf(b))
        /\ headers = Cut(b, i - 1)
        /\ HeightOf(b) = LinkedTo
  BY DEF StoreFork, SafeInv, UpdateInv
<1>2. PICK i \in 1 .. HeightOf(b) :
        /\ update = SubSeq(ChainOf[b], i, HeightOf(b))
        /\ headers = Cut(b, i - 1)
        /\ HeightOf(b) = LinkedTo
  BY <1>1
<1>. DEFINE H == HeightOf(b)
            n == H - i + 1
<1>3. H \in Nat /\ i \in Nat /\ i <= H /\ i >= 1 /\ ChainOf[b] \in Seq(Block)
  BY CutFacts, ForkAssumption
<1>4. DOMAIN update = 1 .. n /\ \A j \in 1 .. n : update[j] = ChainOf[b][(i - 1) + j]
  BY <1>2, <1>3 DEF HeightOf
<1>5. /\ syncing /\ pending = {} /\ update # <<>> /\ Begin("store", update) /\ update' = <<>>
      /\ UNCHANGED <<node_tip, up, syncing, target, fork_height, batching, next, fetched, linking>>
  BY DEF StoreFork, Idle, store_blocks
<1>6. TxInv' /\ headers' = Cut(b, H) /\ Exact'
  <2>2. /\ TxInv' /\ headers' = Stored(headers, update)
        /\ indexed' = indexed \cup Blocks(update)
    BY <1>5, BeginEffect
  <2>3. /\ Stored(Cut(b, i - 1), update) = Cut(b, H)
        /\ Blocks(Cut(b, i - 1)) \cup Blocks(update) = Blocks(Cut(b, H))
    BY <1>2, StoreSuffix
  <2>4. indexed = Blocks(headers)
    BY DEF SafeInv, Exact
  <2>. QED  BY <1>2, <2>2, <2>3, <2>4 DEF Exact
<1>7. ChainInv' /\ LastOf(headers') = H
  <2>1. H \in 0 .. H
    BY <1>3
  <2>. QED  BY <1>6, <2>1, TableAfter
<1>8. FetchInv' /\ UpdateInv'
  BY <1>5 DEF SafeInv, FetchInv, UpdateInv
<1>9. LinkInv'
  <2>1. ~ (next - 1 <= fork_height)
    BY <1>5 DEF SafeInv, LinkInv
  <2>2. H = LinkedTo /\ LinkedTo' = LinkedTo
    BY <1>2, <1>5 DEF LinkedTo
  <2>3. H <= HeightOf(node_tip)
    <3>1. next <= target + 1 /\ target <= HeightOf(node_tip) /\ HeightOf(node_tip) \in Nat
      BY <1>5, CutFacts DEF SafeInv, FetchInv, TypeInv, FetchOK, TypeOK
    <3>2. linking \in Seq(Block) /\ next \in Nat /\ target \in Nat
      BY DEF TypeInv, TypeOK
    <3>. QED  BY <1>3, <2>2, <3>1, <3>2 DEF LinkedTo
  <2>. QED  BY <1>3, <1>5, <1>7, <2>1, <2>2, <2>3 DEF SafeInv, LinkInv
<1>. QED  BY <1>6, <1>7, <1>8, <1>9 DEF SafeInv

\* While a batch is linked its next block is one height above all headers.
LEMMA LinkingFacts ==
  ASSUME TypeInv, SafeInv, linking # <<>>
  PROVE  /\ syncing /\ Head(linking) \in Block /\ Tail(linking) \in Seq(Block)
         /\ Len(Tail(linking)) = Len(linking) - 1 /\ Len(linking) \in Nat
         /\ HeightOf(Head(linking)) = LinkedTo + 1
         /\ LinkedTo \in Nat /\ LastOf(headers) <= LinkedTo /\ next \in Nat
         /\ ~(next - 1 <= fork_height)
         /\ LinkedTo + 1 <= HeightOf(node_tip)
         /\ \A j \in 1 .. Len(Tail(linking)) : HeightOf(Tail(linking)[j]) = LinkedTo + 1 + j
<1>1. linking \in Seq(Block) /\ next \in Nat /\ target \in Nat /\ node_tip \in Block
  BY DEF TypeInv, TypeOK
<1>2. /\ Len(linking) \in Nat /\ Len(linking) >= 1 /\ Head(linking) = linking[1]
      /\ linking[1] \in Block
      /\ Tail(linking) \in Seq(Block) /\ Len(Tail(linking)) = Len(linking) - 1
      /\ \A j \in 1 .. Len(Tail(linking)) : Tail(linking)[j] = linking[j + 1]
  BY <1>1
<1>3. syncing /\ LastOf(headers) <= LinkedTo /\ LinkedTo >= 0 /\ ~(next - 1 <= fork_height)
  BY DEF SafeInv, LinkInv
<1>4. LinkedTo \in Nat /\ LinkedTo + 1 <= next - 1
  BY <1>1, <1>2, <1>3 DEF LinkedTo
<1>5. \A j \in 1 .. Len(linking) : HeightOf(linking[j]) = LinkedTo + j
  BY DEF SafeInv, LinkInv
<1>6. \A j \in 1 .. Len(Tail(linking)) : HeightOf(Tail(linking)[j]) = LinkedTo + 1 + j
  <2>. SUFFICES ASSUME NEW j \in 1 .. Len(Tail(linking))
                PROVE  HeightOf(Tail(linking)[j]) = LinkedTo + 1 + j
    OBVIOUS
  <2>1. j + 1 \in 1 .. Len(linking) /\ Tail(linking)[j] = linking[j + 1]
    BY <1>2
  <2>. QED  BY <1>4, <1>5, <2>1
<1>7. HeightOf(node_tip) \in Nat /\ next <= target + 1 /\ target <= HeightOf(node_tip)
  BY <1>1, <1>3, CutFacts DEF SafeInv, FetchInv, TypeInv, FetchOK
<1>8. HeightOf(Head(linking)) = LinkedTo + 1
  BY <1>2, <1>5
<1>. QED  BY <1>1, <1>2, <1>3, <1>4, <1>6, <1>7, <1>8

\* persist_or_link moves on to the next block of the batch: what the transaction
\* will leave is a chain of at most its height.
LEMMA LinkedKeeps ==
  ASSUME TypeInv, SafeInv, linking # <<>>, linking' = Tail(linking),
         UNCHANGED <<node_tip, up, syncing, target, fork_height, batching, next, fetched>>,
         TxInv', Exact', NEW y \in Block, NEW m \in 0 .. HeightOf(y), headers' = Cut(y, m),
         m <= LinkedTo + 1, UpdateInv'
  PROVE  SafeInv'
<1>1. /\ syncing /\ Tail(linking) \in Seq(Block)
      /\ Len(Tail(linking)) = Len(linking) - 1 /\ Len(linking) \in Nat
      /\ LinkedTo \in Nat /\ next \in Nat
      /\ ~(next - 1 <= fork_height) /\ LinkedTo + 1 <= HeightOf(node_tip)
      /\ \A j \in 1 .. Len(Tail(linking)) : HeightOf(Tail(linking)[j]) = LinkedTo + 1 + j
  BY LinkingFacts
<1>2. ChainInv' /\ LastOf(headers') = m /\ m \in Nat
  BY TableAfter
<1>3. FetchInv'
  BY DEF SafeInv, FetchInv
<1>4. LinkInv'
  <2>1. LinkedTo' = LinkedTo + 1
    BY <1>1 DEF LinkedTo
  <2>2. HeightOf(node_tip) \in Nat
    BY CutFacts DEF TypeInv, TypeOK
  <2>3. m <= HeightOf(node_tip)
    BY <1>1, <1>2, <2>2
  <2>. QED  BY <1>1, <1>2, <2>1, <2>3 DEF LinkInv
<1>. QED  BY <1>2, <1>3, <1>4 DEF SafeInv

\* chain_link finds the block's parent at the end of the table and the block is
\* stored, or finds where its branch left the table and the blocks above go.
LEMMA LinkNextKeeps ==
  ASSUME TypeInv, SafeInv, LinkNext
  PROVE  SafeInv'
<1>. DEFINE b == Head(linking)
            H == HeightOf(b)
            i == LinkHeight(b)
            fork == SubSeq(ChainOf[b], i, H)
<1>1. linking # <<>> /\ update = <<>> /\ pending = {} /\ PersistLinked(fork)
  BY DEF LinkNext, chain_link, Idle
<1>2. /\ b \in Block /\ H = LinkedTo + 1 /\ LinkedTo \in Nat /\ LastOf(headers) <= LinkedTo
  BY <1>1, LinkingFacts
<1>3. PICK x \in Block : \E n \in 0 .. HeightOf(x) : headers = Cut(x, n)
  BY DEF SafeInv, ChainInv, IsCut
<1>4. PICK n \in 0 .. HeightOf(x) : headers = Cut(x, n)
  BY <1>3
<1>5. n \in Nat /\ LastOf(headers) = n
  BY <1>4, CutTable
<1>6. indexed = Blocks(headers) /\ index = Blocks(headers)
  BY <1>1, AtRest DEF SafeInv, Exact
<1>7. i \in 1 .. H /\ i - 1 <= n /\ Cut(x, i - 1) = Cut(b, i - 1)
  BY <1>2, <1>4, <1>6, LinkPoint
<1>8. H \in Nat /\ ChainOf[b] \in Seq(Block) /\ H = Len(ChainOf[b]) /\ n < H
  BY <1>2, <1>5, ForkAssumption DEF HeightOf
<1>9. /\ fork \in Seq(Block) /\ Len(fork) = H - i + 1
      /\ DOMAIN fork = 1 .. (H - i + 1) /\ \A j \in 1 .. (H - i + 1) : fork[j] = ChainOf[b][i - 1 + j]
  BY <1>7, <1>8
<1>10. /\ linking' = Tail(linking)
       /\ \/ Len(fork) = 1 /\ Begin("store", fork) /\ UNCHANGED update
          \/ Len(fork) > 1 /\ Begin("delete", fork) /\ update' = fork
       /\ UNCHANGED <<node_tip, up, syncing, target, fork_height, batching, next, fetched>>
  BY <1>1, <1>7, <1>8, <1>9 DEF PersistLinked, store_blocks, DeleteBlocks
<1>11. LinkedTo' = H
  BY <1>1, <1>2, <1>10, LinkingFacts DEF LinkedTo
<1>. HIDE DEF b, H, i, fork
<1>12. CASE Len(fork) = 1
  <2>1. i = H /\ n = H - 1 /\ Cut(x, n) = Cut(b, n)
    <3>1. H - i + 1 = 1
      BY <1>9, <1>12
    <3>2. i = H /\ n = i - 1
      BY <1>5, <1>7, <1>8, <3>1
    <3>. QED  BY <1>7, <3>2
  <2>2. headers = Cut(b, n) /\ n + 1 <= HeightOf(b) /\ n + 1 = H
    BY <1>4, <1>8, <2>1 DEF H
  <2>3. DOMAIN fork = 1 .. 1 /\ \A j \in 1 .. 1 : fork[j] = ChainOf[b][n + j]
    BY <1>5, <1>9, <2>1, <1>8
  <2>4. Begin("store", fork) /\ update' = <<>>
    BY <1>1, <1>10, <1>12
  <2>5. TxInv' /\ headers' = Cut(b, n + 1) /\ Exact'
    <3>1. /\ TxInv' /\ headers' = Stored(headers, fork)
          /\ indexed' = indexed \cup Blocks(fork)
      BY <1>1, <1>10, <2>4, BeginEffect
    <3>2. Follow(b, n, 1, fork)
      BY <2>2, <2>3 DEF Follow
    <3>3. /\ Stored(Cut(b, n), fork) = Cut(b, n + 1)
          /\ Blocks(Cut(b, n)) \cup Blocks(fork) = Blocks(Cut(b, n + 1))
      BY <1>2, <1>5, <3>2, StoreOn
    <3>. QED  BY <1>6, <2>2, <3>1, <3>3 DEF Exact
  <2>6. UpdateInv'
    BY <2>4 DEF UpdateInv
  <2>7. H \in 0 .. HeightOf(b) /\ H <= LinkedTo + 1 /\ headers' = Cut(b, H)
    BY <1>2, <1>8, <2>2, <2>5 DEF H
  <2>. QED  BY <1>1, <1>2, <1>10, <2>5, <2>6, <2>7, LinkedKeeps
<1>13. CASE Len(fork) > 1
  <2>1. Begin("delete", fork) /\ update' = fork
    <3>1. Len(fork) # 1
      BY <1>7, <1>8, <1>9, <1>13
    <3>. QED  BY <1>10, <3>1
  <2>2. fork = SubSeq(ChainOf[b], i, HeightOf(b))
    BY DEF fork, H
  <2>3. i \in 1 .. HeightOf(b) /\ n < HeightOf(b)
    BY <1>7, <1>8 DEF H
  <2>4. TxInv' /\ headers' = Cut(b, i - 1) /\ Exact'
    <3>1. /\ TxInv' /\ headers' = Deleted(headers, fork)
          /\ indexed' = indexed \ {headers[h] : h \in Heights(fork) \cap DOMAIN headers}
      BY <1>1, <1>10, <2>1, BeginEffect
    <3>2. /\ Deleted(Cut(x, n), fork) = Cut(b, i - 1)
          /\ Kept(Cut(x, n), fork) = Blocks(Cut(b, i - 1))
      <4>1. PICK c : c = b
        OBVIOUS
      <4>2. PICK k : k = i
        OBVIOUS
      <4>3. /\ c \in Block /\ k \in 1 .. HeightOf(c) /\ n < HeightOf(c) /\ k - 1 <= n
            /\ Cut(x, k - 1) = Cut(c, k - 1)
        BY <1>2, <1>7, <2>2, <2>3, <4>1, <4>2
      <4>4. /\ Deleted(Cut(x, n), SubSeq(ChainOf[c], k, HeightOf(c))) = Cut(c, k - 1)
            /\ Kept(Cut(x, n), SubSeq(ChainOf[c], k, HeightOf(c))) = Blocks(Cut(c, k - 1))
        BY <4>3, DeleteFrom
      <4>. QED  BY <2>2, <4>1, <4>2, <4>4
    <3>3. indexed' = Kept(headers, fork)
      BY <1>6, <3>1 DEF Kept
    <3>. QED  BY <1>4, <3>1, <3>2, <3>3 DEF Exact
  <2>5. UpdateInv'
    <3>1. HeightOf(b) = LinkedTo'
      BY <1>11 DEF H
    <3>. QED  BY <1>2, <2>1, <2>2, <2>3, <2>4, <3>1 DEF UpdateInv
  <2>6. i - 1 \in 0 .. HeightOf(b) /\ i - 1 <= LinkedTo + 1
    BY <1>2, <1>7, <1>8 DEF H
  <2>. QED  BY <1>1, <1>2, <1>10, <2>4, <2>5, <2>6, LinkedKeeps
<1>. QED  BY <1>10, <1>12, <1>13

\* A refused parent of which no caller pushes a block leaves the databases as they
\* are: the block is skipped.
LEMMA LinkRefusedKeeps ==
  ASSUME TypeInv, SafeInv, LinkRefused, ~cut'
  PROVE  SafeInv'
<1>. DEFINE b == Head(linking)
<1>1. linking # <<>> /\ update = <<>>
  BY DEF LinkRefused
<1>2. PICK j \in LinkHeight(b) .. (HeightOf(b) - 1) :
        PersistLinked(RefusedAt(b, j)) /\ cut' = (cut \/ RefusedAt(b, j) # <<>>)
  BY DEF LinkRefused
<1>3. LinkedTo \in Nat /\ LastOf(headers) <= LinkedTo
  BY <1>1, LinkingFacts
<1>4. RefusedAt(b, j) = <<>>
  BY <1>2
<1>5. Len(RefusedAt(b, j)) = 0
  BY <1>4
<1>6. /\ linking' = Tail(linking) /\ UNCHANGED <<db, index, tx, pending, update>>
      /\ UNCHANGED <<node_tip, up, syncing, target, fork_height, batching, next, fetched>>
  <2>1. ~(Len(RefusedAt(b, j)) = 1) /\ ~(Len(RefusedAt(b, j)) > 1)
    BY <1>5
  <2>. QED  BY <1>2, <2>1, Zenon DEF PersistLinked
<1>7. headers' = headers /\ indexed' = indexed
  BY <1>6, SameTables
<1>8. PICK x \in Block : \E n \in 0 .. HeightOf(x) : headers = Cut(x, n)
  BY DEF SafeInv, ChainInv, IsCut
<1>9. PICK n \in 0 .. HeightOf(x) : headers = Cut(x, n)
  BY <1>8
<1>10. n \in Nat /\ n <= LinkedTo + 1
  <2>1. n \in Nat /\ LastOf(headers) = n
    BY <1>9, CutTable
  <2>. QED  BY <1>3, <2>1
<1>11. TxInv' /\ Exact' /\ UpdateInv'
  BY <1>1, <1>6, <1>7 DEF SafeInv, TxInv, Exact, UpdateInv
<1>. QED  BY <1>1, <1>6, <1>7, <1>9, <1>10, <1>11, LinkedKeeps

\* A table that is the beginning of a chain passes validate_chain.
LEMMA NothingUnlinked ==
  ASSUME NEW x \in Block, NEW n \in 0 .. HeightOf(x), \A d \in Db : db[d] = Cut(x, n)
  PROVE  Unlinked = {}
<1>. DEFINE table == Cut(x, n)
<1>1. /\ n \in Nat /\ DOMAIN table = 1 .. n
      /\ \A h \in 1 .. n : /\ table[h] = ChainOf[x][h] /\ table[h] \in Block
                          /\ HeightOf(table[h]) = h
  BY CutTable
<1>2. HeightOf(x) \in Nat
  BY CutFacts
<1>3. db["key"] = table /\ db["hash"] = table /\ db["prev"] = table
  BY DEF Db, Eager
<1>. HIDE DEF table
<1>. SUFFICES ASSUME NEW h \in 1 .. n, NEW k \in 1 .. n, h < k,
                     \A m \in 1 .. n : m <= h \/ k <= m,
                     table[h] \notin Parent(table[k])
              PROVE  FALSE
  BY <1>1, <1>3 DEF Unlinked
<1>4. k = h + 1
  <2>1. h + 1 \in 1 .. n
    BY <1>1
  <2>. QED  BY <1>1, <2>1
<1>5. k \in 1 .. HeightOf(x) /\ h \in 1 .. k
  BY <1>1, <1>2, <1>4
<1>6. ChainOf[table[k]] = Cut(x, k)
  BY <1>1, <1>5, CutFacts
<1>7. ChainOf[table[k]][h] = ChainOf[x][h]
  BY <1>5, <1>6 DEF Cut
<1>8. HeightOf(table[k]) = k /\ k # 1 /\ k - 1 = h
  BY <1>1, <1>4
<1>9. Parent(table[k]) = {ChainOf[table[k]][h]}
  BY <1>8 DEF Parent
<1>. QED  BY <1>1, <1>7, <1>9

\* A sync starts after the last header, up to the node's tip.
LEMMA SyncFromKeeps ==
  ASSUME TypeInv, SafeInv, SyncFrom(LastOf(headers)), linking = <<>>, update = <<>>,
         UNCHANGED <<node_tip, db, index, tx, pending>>
  PROVE  SafeInv'
<1>1. PICK x \in Block : \E n \in 0 .. HeightOf(x) : headers = Cut(x, n)
  BY DEF SafeInv, ChainInv, IsCut
<1>2. PICK n \in 0 .. HeightOf(x) : headers = Cut(x, n)
  BY <1>1
<1>3. n \in Nat /\ LastOf(headers) = n
  BY <1>2, CutTable
<1>. DEFINE tip == HeightOf(node_tip)
<1>4. node_tip \in Block /\ tip \in Nat /\ n <= tip
  BY <1>3, CutFacts DEF TypeInv, TypeOK, SafeInv, LinkInv
<1>5. /\ target' = tip /\ fork_height' = SubU32(tip, ForkDetectionHeights)
      /\ next' = n + 1 /\ DOMAIN fetched' = {}
      /\ linking' = <<>> /\ update' = <<>>
  BY <1>3 DEF SyncFrom, NoBlocks
<1>6. headers' = headers /\ indexed' = indexed
  BY SameTables
<1>7. TxInv' /\ ChainInv' /\ Exact' /\ UpdateInv'
  BY <1>5, <1>6 DEF SafeInv, TxInv, ChainInv, Exact, UpdateInv
<1>8. FetchInv'
  <2>1. target' = HeightOf(node_tip) /\ fork_height' = SubU32(target', ForkDetectionHeights)
    BY <1>5
  <2>2. next' <= target' + 1
    BY <1>3, <1>4, <1>5
  <2>. QED  BY <1>4, <1>5, <2>1, <2>2 DEF FetchInv
<1>9. LinkInv'
  <2>1. LinkedTo' = n /\ LastOf(headers') = n /\ Len(linking') = 0
    BY <1>3, <1>5, <1>6 DEF LinkedTo
  <2>2. n <= HeightOf(node_tip') /\ n = next' - 1
    BY <1>3, <1>4, <1>5
  <2>. QED  BY <1>3, <1>5, <2>1, <2>2 DEF LinkInv
<1>. QED  BY <1>7, <1>8, <1>9 DEF SafeInv

\* An answer for a height up to the fork detection height is the block of the tip
\* the sync started from, whatever branch the node has moved to.
LEMMA FetchKeeps ==
  ASSUME ShallowForks, TypeInv, SafeInv, Fetch
  PROVE  SafeInv'
<1>1. PICK h \in next .. target :
        /\ h \notin DOMAIN fetched
        /\ fetched' = [k \in DOMAIN fetched \cup {h} |->
                         IF k = h THEN ChainOf[node_tip][h] ELSE fetched[k]]
  BY DEF Fetch
<1>2. /\ syncing
      /\ UNCHANGED <<node_tip, db, index, tx, pending, up, syncing, target, fork_height, batching,
                     next, linking, update>>
  BY DEF Fetch, dbVars
<1>3. /\ next \in Nat /\ target \in Nat /\ target <= HeightOf(node_tip) /\ node_tip \in Block
      /\ next >= 1 /\ HeightOf(node_tip) \in Nat
  BY <1>2, CutFacts DEF TypeInv, TypeOK, FetchOK
<1>4. h \in 1 .. target /\ h \in 1 .. HeightOf(node_tip)
  BY <1>3
<1>5. FetchInv'
  <2>1. PICK t \in Block :
          /\ target = HeightOf(t) /\ fork_height = SubU32(target, ForkDetectionHeights)
          /\ \A k \in DOMAIN fetched : k <= fork_height => fetched[k] = ChainOf[t][k]
    BY <1>2 DEF SafeInv, FetchInv
  <2>2. h <= fork_height => ChainOf[node_tip][h] = ChainOf[t][h]
    BY <1>3, <1>4, <2>1 DEF ShallowForks
  <2>3. \A k \in DOMAIN fetched' : k <= fork_height => fetched'[k] = ChainOf[t][k]
    BY <1>1, <2>1, <2>2
  <2>4. \A k \in DOMAIN fetched' : k \in next .. target
    BY <1>1, <1>2 DEF SafeInv, FetchInv
  <2>. QED  BY <1>2, <2>1, <2>3, <2>4 DEF SafeInv, FetchInv
<1>6. headers' = headers /\ indexed' = indexed
  BY <1>2, SameTables
<1>7. LinkInv'
  BY <1>2, <1>6 DEF SafeInv, LinkInv, LinkedTo
<1>8. TxInv' /\ ChainInv' /\ Exact' /\ UpdateInv'
  BY <1>2, <1>6 DEF SafeInv, TxInv, ChainInv, Exact, UpdateInv, LinkedTo
<1>. QED  BY <1>5, <1>7, <1>8 DEF SafeInv

\* A batch that ends at or below the fork detection height continues the table on
\* the branch of the tip; a later one is handed over to be linked.
LEMMA PersistBatchKeeps ==
  ASSUME ShallowForks, TypeInv, SafeInv, PersistBatch
  PROVE  SafeInv'
<1>. DEFINE B(n) == [i \in 1 .. n |-> fetched[next + i - 1]]
<1>1. PICK n \in 1 .. (IF batching THEN Cardinality(DOMAIN fetched) ELSE 1) :
        /\ next .. (next + n - 1) \subseteq DOMAIN fetched
        /\ \/ next + n - 1 <= fork_height /\ Begin("store", B(n)) /\ UNCHANGED linking
           \/ next + n - 1 > fork_height /\ linking' = B(n) /\ UNCHANGED <<db, index, tx, pending>>
        /\ next' = next + n - 1 + 1
        /\ fetched' = [h \in DOMAIN fetched \ (next .. (next + n - 1)) |-> fetched[h]]
  BY DEF PersistBatch, BatchEnd, store_blocks
<1>. DEFINE end == next + n - 1
            batch == B(n)
<1>2. /\ syncing /\ pending = {} /\ linking = <<>> /\ update = <<>>
      /\ UNCHANGED <<node_tip, up, syncing, target, fork_height, batching, update>>
  BY DEF PersistBatch, Idle
<1>3. /\ next \in Nat /\ target \in Nat /\ fork_height \in Int /\ node_tip \in Block /\ next >= 1
      /\ target <= HeightOf(node_tip) /\ HeightOf(node_tip) \in Nat
      /\ \A h \in DOMAIN fetched :
           h \in next .. target /\ fetched[h] \in Block /\ HeightOf(fetched[h]) = h
  BY <1>2, CutFacts, ForkAssumption DEF TypeInv, TypeOK, FetchOK, SafeInv, FetchInv
<1>4. PICK t \in Block :
        /\ target = HeightOf(t) /\ fork_height = SubU32(target, ForkDetectionHeights)
        /\ \A k \in DOMAIN fetched : k <= fork_height => fetched[k] = ChainOf[t][k]
  BY <1>2 DEF SafeInv, FetchInv
<1>5. LinkedTo = next - 1
  BY <1>2, <1>3 DEF LinkedTo
<1>6. n \in Nat /\ n >= 1 /\ end \in Nat /\ end >= next /\ next' = end + 1
  BY <1>1, <1>3
<1>7. end <= target
  <2>1. end \in DOMAIN fetched
    BY <1>1, <1>3, <1>6
  <2>. QED  BY <1>3, <1>6, <2>1
<1>8. ASSUME NEW i \in 1 .. n
      PROVE  /\ batch[i] = fetched[next - 1 + i] /\ next - 1 + i \in DOMAIN fetched
             /\ batch[i] \in Block /\ HeightOf(batch[i]) = next - 1 + i
  <2>1. next + i - 1 \in next .. (next + n - 1) /\ next + i - 1 = next - 1 + i
    BY <1>3, <1>6
  <2>2. batch[i] = fetched[next + i - 1]
    OBVIOUS
  <2>. QED  BY <1>1, <1>3, <2>1, <2>2
<1>9. batch \in Seq(Block) /\ Len(batch) = n /\ DOMAIN batch = 1 .. n
  <2>1. batch \in [1 .. n -> Block]
    BY <1>8
  <2>. HIDE DEF batch
  <2>. QED  BY <1>6, <2>1
<1>10. FetchInv'
  <2>1. \A h \in DOMAIN fetched' : h \in DOMAIN fetched /\ h \notin next .. end /\ fetched'[h] = fetched[h]
    BY <1>1
  <2>2. \A h \in DOMAIN fetched' : h \in next' .. target
    BY <1>3, <1>6, <2>1
  <2>3. next' <= target + 1
    BY <1>3, <1>6, <1>7
  <2>4. \A h \in DOMAIN fetched' : h <= fork_height => fetched'[h] = ChainOf[t][h]
    BY <1>4, <2>1
  <2>. QED  BY <1>2, <1>3, <1>4, <2>2, <2>3, <2>4 DEF FetchInv
<1>12. PICK x \in Block : \E l \in 0 .. HeightOf(x) : headers = Cut(x, l)
  BY DEF SafeInv, ChainInv, IsCut
<1>13. PICK l \in 0 .. HeightOf(x) : headers = Cut(x, l)
  BY <1>12
<1>14. l \in Nat /\ LastOf(headers) = l
  BY <1>13, CutTable
<1>. HIDE DEF B, end, batch
<1>15. CASE end <= fork_height /\ Begin("store", batch) /\ UNCHANGED linking
  <2>1. l = next - 1
    BY <1>2, <1>3, <1>6, <1>14, <1>15 DEF SafeInv, LinkInv
  <2>2. headers = Cut(t, l)
    <3>1. CASE l = 0
      BY <1>13, <3>1 DEF Cut
    <3>2. CASE l # 0
      <4>1. l \in 1 .. HeightOf(t) /\ l <= HeightOf(x) /\ l <= fork_height
        BY <1>3, <1>4, <1>6, <1>7, <1>13, <1>14, <1>15, <2>1, <3>2, CutFacts
      <4>2. ChainOf[t][l] = ChainOf[x][l]
        BY <1>4, <4>1 DEF ShallowForks
      <4>. QED  BY <1>13, <4>1, <4>2, SharedBelow
    <3>. QED  BY <3>1, <3>2
  <2>3. l + n = end /\ l + n <= HeightOf(t)
    BY <1>3, <1>4, <1>6, <1>7, <2>1 DEF end
  <2>4. \A i \in 1 .. n : batch[i] = ChainOf[t][l + i]
    <3>. SUFFICES ASSUME NEW i \in 1 .. n PROVE batch[i] = ChainOf[t][l + i]
      OBVIOUS
    <3>1. l + i \in DOMAIN fetched /\ batch[i] = fetched[l + i]
      BY <1>8, <2>1
    <3>2. l + i <= fork_height
      BY <1>3, <1>6, <1>14, <1>15, <2>3
    <3>. QED  BY <1>4, <3>1, <3>2
  <2>5. TxInv' /\ headers' = Cut(t, l + n) /\ Exact'
    <3>1. /\ TxInv' /\ headers' = Stored(headers, batch)
          /\ indexed' = indexed \cup Blocks(batch)
      BY <1>2, <1>15, BeginEffect
    <3>2. Follow(t, l, n, batch)
      BY <1>9, <2>3, <2>4 DEF Follow
    <3>3. n \in Nat /\ l \in Nat
      BY <1>6, <1>14
    <3>4. /\ Stored(Cut(t, l), batch) = Cut(t, l + n)
          /\ Blocks(Cut(t, l)) \cup Blocks(batch) = Blocks(Cut(t, l + n))
      BY <3>2, <3>3, StoreOn
    <3>5. indexed = Blocks(headers)
      BY DEF SafeInv, Exact
    <3>. QED  BY <2>2, <3>1, <3>4, <3>5 DEF Exact
  <2>6. ChainInv' /\ LastOf(headers') = end
    <3>1. end \in 0 .. HeightOf(t)
      BY <1>4, <1>3, <1>6, <1>7
    <3>. QED  BY <2>3, <2>5, <3>1, TableAfter
  <2>7. LinkInv' /\ UpdateInv'
    <3>1. linking' = <<>> /\ Len(linking') = 0 /\ LinkedTo' = end
      BY <1>2, <1>6, <1>15 DEF LinkedTo
    <3>2. end <= HeightOf(node_tip) /\ next' - 1 = end
      BY <1>3, <1>6, <1>7
    <3>. QED  BY <1>2, <1>6, <2>6, <3>1, <3>2 DEF LinkInv, UpdateInv
  <2>. QED  BY <1>10, <2>5, <2>6, <2>7 DEF SafeInv
<1>16. CASE end > fork_height /\ linking' = batch /\ UNCHANGED <<db, index, tx, pending>>
  <2>1. headers' = headers /\ indexed' = indexed
    BY <1>16, SameTables
  <2>2. TxInv' /\ ChainInv' /\ Exact' /\ UpdateInv'
    BY <1>2, <1>16, <2>1 DEF SafeInv, TxInv, ChainInv, Exact, UpdateInv
  <2>3. LinkInv'
    <3>1. LinkedTo' = next - 1 /\ Len(linking') = n
      BY <1>3, <1>6, <1>9, <1>16 DEF LinkedTo, end
    <3>2. \A i \in 1 .. n : HeightOf(linking'[i]) = next - 1 + i
      BY <1>8, <1>16
    <3>3. ~(next' - 1 <= fork_height)
      BY <1>3, <1>6, <1>16
    <3>4. l <= next - 1 /\ l <= HeightOf(node_tip) /\ LastOf(headers') = l
      BY <1>2, <1>5, <1>14, <2>1 DEF SafeInv, LinkInv
    <3>. QED  BY <1>2, <1>3, <1>5, <3>1, <3>2, <3>3, <3>4 DEF LinkInv
  <2>. QED  BY <1>10, <2>2, <2>3 DEF SafeInv
<1>. QED  BY <1>1, <1>15, <1>16 DEF end, batch

\* One database commits: what the transaction will leave is the same.
LEMMA CommitKeeps ==
  ASSUME TypeInv, SafeInv, NEW d \in Db, CommitDb(d)
  PROVE  SafeInv'
<1>1. /\ d \in pending /\ (d = "root" => pending = {"root"})
      /\ db' = [db EXCEPT ![d] = Written(db[d])] /\ DOMAIN db = Db
      /\ index' = IF d = "hash" THEN IndexWritten ELSE index
      /\ pending' = pending \ {d} /\ pending \subseteq Db
      /\ UNCHANGED <<node_tip, tx, syncing, target, fork_height, next, fetched, linking, update>>
  BY DEF CommitDb, MayCommit, syncVars, TypeInv, TypeOK
<1>2. /\ "root" \in pending /\ "root" \in Db /\ "hash" \in Db
      /\ \A e \in Db : db[e] = IF e \in pending THEN db["root"] ELSE headers
      /\ "hash" \in pending => index = Blocks(db["root"])
      /\ IsCut(db["root"]) /\ LastOf(db["root"]) <= HeightOf(node_tip)
  BY <1>1 DEF SafeInv, TxInv, Db, Eager
<1>3. headers = Written(db["root"]) /\ db[d] = db["root"] /\ db'[d] = headers
  BY <1>1, <1>2 DEF headers
<1>4. \A e \in Db : e # d => db'[e] = db[e]
  BY <1>1
<1>5. headers' = headers
  <2>1. CASE d = "root"
    BY <1>1, <1>3, <2>1 DEF headers
  <2>2. CASE d # "root"
    <3>1. "root" \in pending' /\ db'["root"] = db["root"]
      BY <1>1, <1>2, <1>4, <2>2
    <3>2. Written(db["root"])' = Written(db["root"])
      BY <1>1, <3>1 DEF Written
    <3>. QED  BY <1>3, <3>1, <3>2 DEF headers
  <2>. QED  BY <2>1, <2>2
<1>6. indexed' = indexed
  <2>1. CASE d = "hash"
    BY <1>1, <2>1 DEF indexed
  <2>2. CASE d # "hash"
    <3>1. db'["hash"] = db["hash"] /\ index' = index /\ ("hash" \in pending' <=> "hash" \in pending)
      BY <1>1, <1>2, <1>4, <2>2
    <3>. QED  BY <1>1, <3>1 DEF indexed, IndexWritten
  <2>. QED  BY <2>1, <2>2
<1>7. TxInv'
  <2>1. CASE d = "root"
    <3>1. pending' = {} /\ db'["root"] = headers
      BY <1>1, <1>3, <2>1
    <3>2. \A e \in Db : db'[e] = headers
      BY <1>1, <1>2, <1>3, <1>4, <2>1
    <3>3. IsCut(headers) /\ LastOf(headers) <= HeightOf(node_tip)
      BY DEF SafeInv, ChainInv, LinkInv
    <3>. QED  BY <1>1, <1>5, <3>1, <3>2, <3>3 DEF TxInv
  <2>2. CASE d # "root"
    <3>1. "root" \in pending' /\ db'["root"] = db["root"]
      BY <1>1, <1>2, <1>4, <2>2
    <3>2. \A e \in Db : db'[e] = IF e \in pending' THEN db'["root"] ELSE headers'
      BY <1>1, <1>2, <1>3, <1>4, <1>5, <3>1
    <3>3. "hash" \in pending' => index' = Blocks(db'["root"])
      BY <1>1, <1>2, <3>1
    <3>. QED  BY <1>1, <1>2, <3>1, <3>2, <3>3 DEF TxInv
  <2>. QED  BY <2>1, <2>2
<1>8. ChainInv' /\ Exact' /\ FetchInv' /\ LinkInv' /\ UpdateInv'
  BY <1>1, <1>5, <1>6 DEF SafeInv, ChainInv, Exact, FetchInv, LinkInv, UpdateInv, LinkedTo
<1>. QED  BY <1>7, <1>8 DEF SafeInv

\* A sync that ends, fails or dies with the process keeps nothing of its own.
LEMMA StopKeeps ==
  ASSUME TypeInv, SafeInv, syncing' = FALSE, linking' = <<>>, update' = <<>>,
         UNCHANGED <<node_tip, next>>,
         TxInv', ChainInv', Exact', LastOf(headers') <= HeightOf(node_tip)
  PROVE  SafeInv'
<1>1. Len(linking') = 0
  OBVIOUS
<1>2. FetchInv' /\ UpdateInv'
  BY DEF FetchInv, UpdateInv
<1>3. LinkInv'
  <2>1. next \in Nat /\ next >= 1
    BY DEF TypeInv, TypeOK, FetchOK
  <2>2. LinkedTo' >= 0
    BY <1>1, <2>1 DEF LinkedTo
  <2>. QED  BY <1>1, <2>2 DEF LinkInv
<1>. QED  BY <1>2, <1>3 DEF SafeInv

\* The same when the databases are left as they are.
LEMMA RestKeeps ==
  ASSUME TypeInv, SafeInv, syncing' = FALSE, linking' = <<>>, update' = <<>>,
         UNCHANGED <<node_tip, next, db, index, tx, pending>>
  PROVE  SafeInv'
<1>1. headers' = headers /\ indexed' = indexed
  BY SameTables
<1>2. TxInv' /\ ChainInv' /\ Exact'
  BY <1>1 DEF SafeInv, TxInv, ChainInv, Exact
<1>3. LastOf(headers') <= HeightOf(node_tip)
  BY <1>1 DEF SafeInv, LinkInv
<1>. QED  BY <1>2, <1>3, StopKeeps

\* The process dies before the first database commits the transaction, or after
\* the last one: the tables are the old ones or the new ones.
LEMMA CrashKeeps ==
  ASSUME TypeInv, SafeInv, Crash, ~cut'
  PROVE  SafeInv'
<1>1. /\ syncing' = FALSE /\ linking' = <<>> /\ update' = <<>>
      /\ UNCHANGED <<node_tip, next, db, index, tx>> /\ pending' = {} /\ pending \in {{}, Db}
  BY DEF Crash, Abandon
<1>2. CASE pending = {}
  BY <1>1, <1>2, RestKeeps
<1>3. CASE pending = Db
  <2>1. "root" \in Db /\ "hash" \in Db
    BY DEF Db, Eager
  <2>2. /\ \A d \in Db : db[d] = db["root"]
        /\ index = Blocks(db["root"]) /\ IsCut(db["root"])
        /\ LastOf(db["root"]) <= HeightOf(node_tip)
    BY <1>3, <2>1 DEF SafeInv, TxInv
  <2>3. headers' = db["root"] /\ indexed' = index
    BY <1>1 DEF headers, indexed
  <2>4. TxInv' /\ ChainInv' /\ Exact'
    BY <1>1, <2>2, <2>3 DEF TxInv, ChainInv, Exact
  <2>. QED  BY <1>1, <2>2, <2>3, <2>4, StopKeeps
<1>. QED  BY <1>1, <1>2, <1>3

\* Node and indexer start from the same chain.
LEMMA InitSafe == Init => SafeInv
<1>. SUFFICES ASSUME Init PROVE SafeInv
  OBVIOUS
<1>1. Start \in Block
  BY ForkAssumption
<1>. DEFINE H == HeightOf(Start)
<1>2. H \in Nat /\ H >= 1 /\ ChainOf[Start] = Cut(Start, H) /\ H \in 0 .. H
  BY <1>1, CutFacts
<1>3. /\ node_tip = Start /\ db = [d \in Db |-> ChainOf[Start]] /\ index = Blocks(ChainOf[Start])
      /\ pending = {} /\ syncing = FALSE /\ next = 1 /\ linking = <<>> /\ update = <<>>
  BY DEF Init
<1>4. "root" \in Db
  BY DEF Db
<1>5. (\A d \in Db : db[d] = Cut(Start, H)) /\ headers = Cut(Start, H)
  BY <1>2, <1>3, <1>4 DEF headers
<1>. HIDE DEF H
<1>6. LastOf(Cut(Start, H)) = H /\ IsCut(Cut(Start, H))
  BY <1>1, <1>2, CutTable DEF H, IsCut
<1>7. TxInv /\ ChainInv
  BY <1>2, <1>3, <1>4, <1>5, <1>6 DEF TxInv, ChainInv, H
<1>8. Exact
  BY <1>2, <1>3, <1>5 DEF Exact, indexed
<1>9. FetchInv /\ UpdateInv
  BY <1>3 DEF FetchInv, UpdateInv
<1>10. LinkInv
  <2>1. Len(linking) = 0 /\ ~syncing
    BY <1>3
  <2>2. LinkedTo = 0
    <3>1. next = 1
      BY <1>3
    <3>. QED  BY <2>1, <3>1 DEF LinkedTo
  <2>3. LastOf(headers) = H /\ HeightOf(node_tip) = H
    BY <1>3, <1>5, <1>6 DEF H
  <2>. QED  BY <1>2, <1>3, <2>1, <2>2, <2>3 DEF LinkInv
<1>. QED  BY <1>7, <1>8, <1>9, <1>10 DEF SafeInv

\* The node moves on under the sync.
LEMMA NodeMovesKeeps ==
  ASSUME TypeInv, SafeInv, NodeMoves
  PROVE  SafeInv'
<1>1. PICK b \in Block : HeightOf(b) > HeightOf(node_tip) /\ node_tip' = b
  BY DEF NodeMoves
<1>2. UNCHANGED <<db, index, tx, pending, up, syncing, target, fork_height, batching, next, fetched,
                  linking, update>>
  BY DEF NodeMoves, dbVars, syncVars
<1>3. headers' = headers /\ indexed' = indexed
  BY <1>2, SameTables
<1>4. HeightOf(b) \in Nat /\ HeightOf(node_tip) \in Nat
  BY CutFacts DEF TypeInv, TypeOK
<1>5. ASSUME NEW table, IsCut(table) PROVE LastOf(table) \in Nat
  BY <1>5, CutTable DEF IsCut
<1>6. LastOf(headers) \in Nat /\ LastOf(db["root"]) \in Nat
  BY <1>5 DEF SafeInv, ChainInv, TxInv
<1>7. ChainInv' /\ Exact' /\ FetchInv' /\ UpdateInv'
  BY <1>2, <1>3 DEF SafeInv, ChainInv, Exact, FetchInv, UpdateInv, LinkedTo
<1>8. LastOf(headers) <= HeightOf(b) /\ LastOf(db["root"]) <= HeightOf(b)
  BY <1>1, <1>4, <1>6 DEF SafeInv, LinkInv, TxInv
<1>9. TxInv'
  BY <1>1, <1>2, <1>3, <1>8 DEF SafeInv, TxInv
<1>10. LinkInv'
  BY <1>1, <1>2, <1>3, <1>8 DEF SafeInv, LinkInv, LinkedTo
<1>. QED  BY <1>7, <1>9, <1>10 DEF SafeInv

\* Every step that cuts no write short keeps the invariant.
LEMMA NextSafe ==
  ASSUME ShallowForks, TypeInv, SafeInv, [Next]_vars, ~cut'
  PROVE  SafeInv'
<1>1. CASE NodeMoves
  BY <1>1, NodeMovesKeeps
<1>2. CASE Launch
  <2>1. pending = {} /\ ~syncing
    BY <1>2 DEF Launch, TypeInv, FetchOK
  <2>2. last_height = LastOf(headers) /\ \A d \in Db : db[d] = headers
    BY <2>1, AtRest DEF SafeInv
  <2>3. PICK x \in Block : \E n \in 0 .. HeightOf(x) : headers = Cut(x, n)
    BY DEF SafeInv, ChainInv, IsCut
  <2>4. PICK n \in 0 .. HeightOf(x) : headers = Cut(x, n)
    BY <2>3
  <2>5. \A d \in Db : db[d] = Cut(x, n)
    BY <2>2, <2>4
  <2>6. Unlinked = {}
    BY <2>5, NothingUnlinked
  <2>7. SyncFrom(LastOf(headers)) /\ UNCHANGED <<node_tip, db, index, tx, pending>>
    BY <1>2, <2>2, <2>6 DEF Launch, dbVars
  <2>8. linking = <<>> /\ update = <<>>
    BY <2>1 DEF SafeInv, LinkInv
  <2>. QED  BY <2>7, <2>8, SyncFromKeeps
<1>3. CASE SyncStart
  <2>1. pending = {} /\ ~syncing /\ SyncFrom(last_height) /\ UNCHANGED <<node_tip, db, index, tx, pending>>
    BY <1>3 DEF SyncStart, dbVars
  <2>2. last_height = LastOf(headers)
    BY <2>1, AtRest DEF SafeInv
  <2>3. linking = <<>> /\ update = <<>>
    BY <2>1 DEF SafeInv, LinkInv
  <2>. QED  BY <2>1, <2>2, <2>3, SyncFromKeeps
<1>4. CASE Fetch
  BY <1>4, FetchKeeps
<1>5. CASE PersistBatch
  BY <1>5, PersistBatchKeeps
<1>6. CASE LinkNext
  BY <1>6, LinkNextKeeps
<1>7. CASE LinkRefused
  BY <1>7, LinkRefusedKeeps
<1>8. CASE LinkFails
  BY <1>8, RestKeeps DEF LinkFails, Abandon, dbVars
<1>9. CASE StoreFork
  BY <1>9, StoreForkKeeps
<1>10. ASSUME NEW d \in Db, CommitDb(d) PROVE SafeInv'
  BY <1>10, CommitKeeps
<1>11. ASSUME NEW d \in Db, CommitFails(d) PROVE FALSE
  BY <1>11 DEF CommitFails
<1>12. CASE SyncEnds
  BY <1>12, RestKeeps DEF SyncEnds, dbVars
<1>13. CASE SyncFails
  BY <1>13, RestKeeps DEF SyncFails, Abandon, dbVars
<1>14. CASE Crash
  BY <1>14, CrashKeeps
<1>15. CASE UNCHANGED vars
  <2>1. UNCHANGED <<node_tip, db, index, tx, pending, up, syncing, target, fork_height, batching,
                    next, fetched, linking, update>>
    BY <1>15 DEF vars, dbVars, syncVars
  <2>2. headers' = headers /\ indexed' = indexed
    BY <2>1, SameTables
  <2>. QED  BY <2>1, <2>2 DEF SafeInv, TxInv, ChainInv, Exact, FetchInv, LinkInv, UpdateInv, LinkedTo
<1>. QED  BY <1>1, <1>2, <1>3, <1>4, <1>5, <1>6, <1>7, <1>8, <1>9, <1>10, <1>11, <1>12, <1>13, <1>14,
             <1>15 DEF Next

\* A write that was cut short stays so.
LEMMA CutStays ==
  ASSUME TypeInv, [Next]_vars, cut
  PROVE  cut'
BY DEF TypeInv, TypeOK, Next, vars, dbVars, NodeMoves, Launch, SyncStart, Fetch, PersistBatch, LinkNext,
       LinkRefused, LinkFails, StoreFork, CommitDb, CommitFails, SyncEnds, SyncFails, Crash

\* The inductive invariant holds in every reachable state.
LEMMA SpecIInv ==
  ASSUME ShallowForks
  PROVE  Spec => []IInv
<1>1. Init => IInv
  BY InitType, InitSafe DEF IInv
<1>2. IInv /\ [Next]_vars => IInv'
  <2>. SUFFICES ASSUME IInv, [Next]_vars PROVE IInv'
    OBVIOUS
  <2>1. TypeInv'
    BY NextType DEF IInv
  <2>2. ~cut' => SafeInv'
    <3>. SUFFICES ASSUME ~cut' PROVE SafeInv'
      OBVIOUS
    <3>1. ~cut
      BY CutStays DEF IInv
    <3>. QED  BY <3>1, NextSafe DEF IInv
  <2>. QED  BY <2>1, <2>2 DEF IInv
<1>. QED  BY <1>1, <1>2, PTL DEF Spec

\* As long as no write was cut short, every table is one chain without gaps at every
\* moment: through reorganisations, fetches from several branches, databases that
\* commit one after the other, failures and crashes (chain/src/syncer.rs,
\* persist_or_link; macros/src/entity/chain.rs, update_blocks).
THEOREM OneChain ==
  ASSUME ShallowForks
  PROVE  Spec => []HeadersAreAChain
<1>1. ASSUME NEW table, IsCut(table), DOMAIN table # {}
      PROVE  table = ChainOf[table[LastOf(table)]]
  <2>1. PICK x \in Block : \E n \in 0 .. HeightOf(x) : table = Cut(x, n)
    BY <1>1 DEF IsCut
  <2>2. PICK n \in 0 .. HeightOf(x) : table = Cut(x, n)
    BY <2>1
  <2>3. /\ n \in Nat /\ DOMAIN table = 1 .. n /\ LastOf(table) = n
        /\ \A h \in 1 .. n : table[h] = ChainOf[x][h]
    BY <2>2, CutTable
  <2>4. n \in 1 .. n /\ n \in 1 .. HeightOf(x)
    BY <1>1, <2>3
  <2>5. ChainOf[table[n]] = Cut(x, n)
    BY <2>3, <2>4, CutFacts
  <2>. QED  BY <2>2, <2>3, <2>5
<1>2. IInv => HeadersAreAChain
  <2>. SUFFICES ASSUME IInv, ~cut, NEW d \in Db PROVE IsChain(db[d])
    BY DEF HeadersAreAChain
  <2>1. IsCut(db[d])
    BY DEF IInv, SafeInv, TxInv, ChainInv
  <2>. QED  BY <1>1, <2>1 DEF IsChain
<1>. QED  BY SpecIInv, <1>2, PTL

\* Between transactions, as long as no write was cut short, the databases agree and
\* the hash index knows exactly the stored headers, so that chain_link never takes a
\* superseded block for a parent (macros/src/entity/chain.rs).
THEOREM IndexCorrect ==
  ASSUME ShallowForks
  PROVE  Spec => []IndexExact
<1>1. IInv => IndexExact
  <2>. SUFFICES ASSUME IInv, ~cut, pending = {}
                PROVE  (\A d \in Db : db[d] = db["key"]) /\ index = Blocks(db["hash"])
    BY DEF IndexExact
  <2>1. (\A d \in Db : db[d] = headers) /\ indexed = index /\ indexed = Blocks(headers)
    BY AtRest DEF IInv, SafeInv, Exact
  <2>2. "key" \in Db /\ "hash" \in Db
    BY DEF Db, Eager
  <2>. QED  BY <2>1, <2>2
<1>. QED  BY SpecIInv, <1>1, PTL
=============================================================================
