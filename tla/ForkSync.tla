------------------------------ MODULE ForkSync ------------------------------
(***************************************************************************)
(* Reorganisations of the node's chain and how the indexer follows them:   *)
(* chain_link and persist_or_link (chain/src/syncer.rs), store_blocks,     *)
(* update_blocks and validate_chain (macros/src/entity/chain.rs) and the   *)
(* validation a launch starts with (chain/src/launcher.rs).                *)
(*                                                                         *)
(* A transaction spans several redb databases that commit one by one: the  *)
(* columns of a header in any order, the key of the block last.  A commit  *)
(* can fail and the process can die between two of them.  The stages of    *)
(* the pipeline are in SyncPipeline, the writer threads in WriteTx; what   *)
(* a crash takes back of commits without durability is SyncPipeline's too. *)
(***************************************************************************)
EXTENDS Integers, Sequences, FiniteSets, FiniteSetsExt

CONSTANTS
  Block,                 \* the blocks of every branch
  ChainOf,               \* a block's chain, from height 1 to the block itself
  Start,                 \* the tip both sides agree on at first
  ForkDetectionHeights,  \* fork_detection_heights
  U32,                   \* 2^32, the modulus of height arithmetic
  MaxRefusals,           \* bound: lookups of a parent that the node refuses
  MaxFailures, MaxCrashes   \* bounds

HeightOf(b) == Len(ChainOf[b])

ASSUME ForkAssumption ==
  /\ \A b \in Block :
       /\ ChainOf[b] \in Seq(Block)
       /\ HeightOf(b) >= 1 /\ ChainOf[b][HeightOf(b)] = b
       /\ \A h \in 1 .. HeightOf(b) : ChainOf[ChainOf[b][h]] = SubSeq(ChainOf[b], 1, h)
       /\ HeightOf(b) < U32
  /\ Start \in Block
  /\ {ForkDetectionHeights, U32, MaxRefusals, MaxFailures, MaxCrashes} \subseteq Nat

\* The databases: key column, hash index and the other columns of the header,
\* and the key column of the block.
Eager == {"key", "hash", "prev"}
Db == Eager \cup {"root"}

VARIABLES
  node_tip,
  \* the databases
  db,           \* committed rows: database -> height -> block
  index,        \* blocks the reverse table of the hash index leads to a height
  tx,           \* the write transaction: what it does with which blocks
  pending,      \* databases that have not committed it
  cut,          \* history: a fork was written in part, or a transaction committed in part
  \* the process and its current sync
  up, syncing, target, fork_height, batching,
  used,         \* the sync's writing context has stored before
  next,         \* first height not persisted yet
  fetched,      \* blocks fetched and not persisted: height -> block
  linking,      \* rest of the batch persist_or_link is linking
  update,       \* the fork update_blocks deletes and stores
  \* bounds
  refusals, failures, crashes

dbVars == <<db, index, tx, pending, cut>>
syncVars == <<up, syncing, target, fork_height, batching, used, next, fetched, linking, update>>
boundVars == <<refusals, failures, crashes>>
vars == <<node_tip, dbVars, syncVars, boundVars>>

-----------------------------------------------------------------------------
SubU32(a, b) == (a - b) % U32

\* What fork_detection_heights is for: branches part above the fork detection
\* height of every sync, so that blocks up to it are persisted without linking.
ShallowForks ==
  \A b, c \in Block : \A h \in 1 .. HeightOf(b) :
    h <= SubU32(HeightOf(b), ForkDetectionHeights) /\ h <= HeightOf(c)
      => ChainOf[b][h] = ChainOf[c][h]

LastOf(table) == IF DOMAIN table = {} THEN 0 ELSE Max(DOMAIN table)

last_height == LastOf(db["key"])

\* Header::compose finds the row of every column; the key table is not asked.
Readable(h) == h \in DOMAIN db["hash"] /\ h \in DOMAIN db["prev"]

Blocks(seq) == {seq[i] : i \in DOMAIN seq}

Heights(seq) == {HeightOf(b) : b \in Blocks(seq)}

\* One row a height, whatever was there.
Stored(table, blocks) ==
  [h \in DOMAIN table \cup Heights(blocks) |->
     IF h \in Heights(blocks) THEN CHOOSE b \in Blocks(blocks) : HeightOf(b) = h ELSE table[h]]

\* Block::delete of every height of the fork.
Deleted(table, blocks) == [h \in DOMAIN table \ Heights(blocks) |-> table[h]]

Written(table) ==
  IF tx.op = "store" THEN Stored(table, tx.blocks) ELSE Deleted(table, tx.blocks)

\* Mutant: the rows of the reverse table are left behind.
IndexKept == IF tx.op = "store" THEN index \cup Blocks(tx.blocks) ELSE index

\* The reverse table: a store adds a row and leaves that of a block it writes over;
\* a delete takes the row of the block that is stored at the height.
IndexWritten ==
  IF tx.op = "store"
  THEN index \cup Blocks(tx.blocks)
  ELSE index \ {db["hash"][h] : h \in Heights(tx.blocks) \cap DOMAIN db["hash"]}

\* A transaction of the sync's context, once the one before has ended.
Begin(op, blocks) ==
  /\ tx' = [op |-> op, blocks |-> blocks]
  /\ pending' = Db
  /\ used' = (used \/ op = "store")
  /\ UNCHANGED <<db, index>>

store_blocks(blocks) == Begin("store", blocks)

DeleteBlocks(blocks) == Begin("delete", blocks)

\* The root is committed when every other column has acknowledged.  A context
\* that has stored flushes its dependent columns when they are ready, which a
\* delete never makes them (fork_hang).
MayCommit(d) ==
  /\ d \in pending
  /\ d = "root" => pending = {"root"} /\ (tx.op = "delete" => ~used)

\* Mutant: any block stored at the height below counts as the parent.
LinksAtHeight(b, i) == i = 1 \/ (i - 1) \in DOMAIN db["hash"]

\* Mutant: the walk goes back to the first block.
LinksAtGenesis(b, i) == i = 1

\* Whether the walk from b stops at its ancestor of height i: the first block,
\* or one whose parent get_header_by_hash finds at the height below.
LinksAt(b, i) == i = 1 \/ ChainOf[b][i - 1] \in index

LinkHeight(b) == Max({i \in 1 .. HeightOf(b) : LinksAt(b, i)})

\* chain_link when the node serves every parent it is asked for.
chain_link(b) == SubSeq(ChainOf[b], LinkHeight(b), HeightOf(b))

\* chain_link when the node refuses the block of height j: the recursive call
\* that asked for it returns an empty fork, its callers push their blocks.
RefusedAt(b, j) == SubSeq(ChainOf[b], j + 2, HeightOf(b))

Parent(b) == IF HeightOf(b) = 1 THEN {} ELSE {ChainOf[b][HeightOf(b) - 1]}

\* validate_chain: heights whose header is not the parent of the next one.  The
\* stream ends before the last header, which is compared with nothing.
Unlinked ==
  {h \in DOMAIN db["key"] :
     \E k \in DOMAIN db["key"] :
       /\ h < k /\ k < last_height
       /\ \A m \in DOMAIN db["key"] : m <= h \/ k <= m
       /\ db["hash"][h] \notin Parent(db["prev"][k])}

-----------------------------------------------------------------------------
NoBlocks == [h \in {} |-> Start]

Init ==
  /\ node_tip = Start
  /\ db = [d \in Db |-> ChainOf[Start]]
  /\ index = Blocks(ChainOf[Start])
  /\ tx = [op |-> "store", blocks |-> <<>>] /\ pending = {} /\ cut = FALSE
  /\ up = FALSE /\ syncing = FALSE /\ target = 0 /\ fork_height = 0 /\ batching = FALSE
  /\ used = FALSE /\ next = 1 /\ fetched = NoBlocks /\ linking = <<>> /\ update = <<>>
  /\ refusals = 0 /\ failures = 0 /\ crashes = 0

\* The node extends its chain or switches to a longer branch.
NodeMoves ==
  /\ \E b \in Block :
       /\ HeightOf(b) > HeightOf(node_tip)
       /\ node_tip' = b
  /\ UNCHANGED <<dbVars, syncVars, boundVars>>

\* sync after the header of height last.
SyncFrom(last) ==
  LET tip == HeightOf(node_tip)
      missing == SubU32(tip, last)
  IN  /\ syncing' = (missing >= 1)
      /\ target' = tip
      /\ fork_height' = SubU32(tip, ForkDetectionHeights)
      /\ batching' = (missing > ForkDetectionHeights)
      /\ next' = last + 1
      /\ used' = FALSE
      /\ fetched' = NoBlocks /\ linking' = <<>> /\ update' = <<>>

\* launch_with_provider: the chain is validated, which ends the launch when a
\* header cannot be read, and the first sync starts after the first header that
\* its successor does not link to.
Launch ==
  /\ ~up /\ \A h \in DOMAIN db["key"] : Readable(h)
  /\ up' = TRUE
  /\ SyncFrom(IF Unlinked = {} THEN last_height ELSE Min(Unlinked))
  /\ UNCHANGED <<node_tip, dbVars, boundVars>>

\* The scheduler's tick, after the commits that a failed sync left; a last header
\* that cannot be read fails it.
SyncStart ==
  /\ up /\ ~syncing /\ pending = {} /\ HeightOf(node_tip) # last_height
  /\ DOMAIN db["key"] # {} => Readable(last_height)
  /\ SyncFrom(last_height)
  /\ UNCHANGED <<node_tip, dbVars, up, boundVars>>

\* Blocks are requested by height, in parallel: each answer is the block that
\* the node's chain has at that height when it answers.
Fetch ==
  /\ syncing
  /\ \E h \in next .. target :
       /\ h \notin DOMAIN fetched
       /\ fetched' = [k \in DOMAIN fetched \cup {h} |->
                        IF k = h THEN ChainOf[node_tip][h] ELSE fetched[k]]
  /\ UNCHANGED <<node_tip, dbVars, up, syncing, target, fork_height, batching, used,
                 next, linking, update, boundVars>>

\* The persist thread waits for no commit of its own.
Idle == syncing /\ pending = {}

\* Heights of a batch of n blocks end here.
BatchEnd(n) == next + n - 1

\* persist_or_link of the next batch: one commit when it ends at or below the
\* fork detection height, otherwise its blocks are linked one by one.
PersistBatch ==
  /\ Idle /\ linking = <<>> /\ update = <<>>
  /\ \E n \in 1 .. (IF batching THEN Cardinality(DOMAIN fetched) ELSE 1) :
       LET end == BatchEnd(n)
           batch == [i \in 1 .. n |-> fetched[next + i - 1]]
       IN  /\ next .. (next + n - 1) \subseteq DOMAIN fetched
           /\ \/ end <= fork_height /\ store_blocks(batch) /\ UNCHANGED linking
              \/ end > fork_height /\ linking' = batch
                 /\ UNCHANGED <<db, index, tx, pending, used>>
           /\ next' = end + 1
           /\ fetched' = [h \in DOMAIN fetched \ (next .. (next + n - 1)) |-> fetched[h]]
  /\ UNCHANGED <<node_tip, cut, up, syncing, target, fork_height, batching, update, boundVars>>

\* The loop of persist_or_link: nothing to do, one block, or a fork, which
\* update_blocks deletes in a first transaction.
PersistLinked(fork) ==
  /\ linking' = Tail(linking)
  /\ \/ Len(fork) = 0 /\ UNCHANGED <<db, index, tx, pending, used, update>>
     \/ Len(fork) = 1 /\ store_blocks(fork) /\ UNCHANGED update
     \/ Len(fork) > 1 /\ DeleteBlocks(fork) /\ update' = fork
  /\ UNCHANGED <<node_tip, up, syncing, target, fork_height, batching, next, fetched,
                 failures, crashes>>

\* The block below which the walk from b stops can be read.
LinkReadable(b) == LinkHeight(b) = 1 \/ Readable(LinkHeight(b) - 1)

LinkNext ==
  /\ Idle /\ linking # <<>> /\ update = <<>>
  /\ LinkReadable(Head(linking))
  /\ PersistLinked(chain_link(Head(linking)))
  /\ UNCHANGED <<cut, refusals>>

\* get_processed_block gives None for one of the parents.
LinkRefused ==
  /\ Idle /\ linking # <<>> /\ update = <<>>
  /\ refusals < MaxRefusals /\ refusals' = refusals + 1
  /\ \E j \in LinkHeight(Head(linking)) .. (HeightOf(Head(linking)) - 1) :
       /\ PersistLinked(RefusedAt(Head(linking), j))
       /\ cut' = (cut \/ RefusedAt(Head(linking), j) # <<>>)

\* The second transaction of update_blocks.
StoreFork ==
  /\ Idle /\ update # <<>>
  /\ store_blocks(update)
  /\ update' = <<>>
  /\ UNCHANGED <<node_tip, cut, up, syncing, target, fork_height, batching, next, fetched,
                 linking, boundVars>>

\* One database of the transaction commits.
CommitDb(d) ==
  /\ MayCommit(d)
  /\ db' = [db EXCEPT ![d] = Written(db[d])]
  /\ index' = IF d = "hash" THEN IndexWritten ELSE index
  /\ pending' = pending \ {d}
  /\ UNCHANGED <<node_tip, tx, cut, syncVars, boundVars>>

\* Everything that was fetched is persisted: sync returns.
SyncEnds ==
  /\ Idle /\ next > target /\ linking = <<>> /\ update = <<>>
  /\ syncing' = FALSE
  /\ UNCHANGED <<node_tip, dbVars, up, target, fork_height, batching, used, next, fetched,
                 linking, update, boundVars>>

\* The sync returns and drops what it had not persisted.
Abandon ==
  /\ syncing' = FALSE
  /\ fetched' = NoBlocks /\ linking' = <<>> /\ update' = <<>>
  /\ UNCHANGED <<node_tip, target, fork_height, batching, used, next, refusals>>

\* The parent's row leads to a header that cannot be read: chain_link fails.
LinkFails ==
  /\ Idle /\ linking # <<>> /\ update = <<>>
  /\ ~LinkReadable(Head(linking))
  /\ Abandon
  /\ UNCHANGED <<dbVars, up, failures, crashes>>

\* The lookup of a parent, or the begin of a transaction, fails.
SyncFails ==
  /\ Idle /\ failures < MaxFailures /\ failures' = failures + 1
  /\ Abandon
  /\ UNCHANGED <<dbVars, up, crashes>>

\* The commit of one database fails: it keeps what it had, the root is not
\* committed any more, the others are.
CommitFails(d) ==
  /\ MayCommit(d) /\ failures < MaxFailures /\ failures' = failures + 1
  /\ pending' = pending \ {d, "root"}
  /\ cut' = TRUE
  /\ Abandon
  /\ UNCHANGED <<db, index, tx, up, crashes>>

\* The process dies; what was committed stays.
Crash ==
  /\ up /\ crashes < MaxCrashes /\ crashes' = crashes + 1
  /\ up' = FALSE
  /\ cut' = (cut \/ pending \notin {{}, Db}) /\ pending' = {}
  /\ Abandon
  /\ UNCHANGED <<db, index, tx, failures>>

Next ==
  \/ NodeMoves \/ Launch \/ SyncStart \/ Fetch \/ PersistBatch
  \/ LinkNext \/ LinkRefused \/ LinkFails \/ StoreFork
  \/ \E d \in Db : CommitDb(d) \/ CommitFails(d)
  \/ SyncEnds \/ SyncFails \/ Crash

Spec == Init /\ [][Next]_vars

-----------------------------------------------------------------------------
\* The state is well formed.
TypeOK ==
  /\ node_tip \in Block /\ index \subseteq Block
  /\ DOMAIN db = Db
  /\ \A d \in Db : \A h \in DOMAIN db[d] : db[d][h] \in Block /\ HeightOf(db[d][h]) = h
  /\ tx \in [op : {"store", "delete"}, blocks : Seq(Block)] /\ pending \subseteq Db
  /\ cut \in BOOLEAN
  /\ up \in BOOLEAN /\ syncing \in BOOLEAN /\ batching \in BOOLEAN /\ used \in BOOLEAN
  /\ target \in Nat /\ fork_height \in 0 .. (U32 - 1)
  /\ next \in Nat
  /\ DOMAIN fetched \subseteq Nat /\ linking \in Seq(Block) /\ update \in Seq(Block)

IsChain(table) == DOMAIN table # {} => table = ChainOf[table[LastOf(table)]]

\* As long as no write was cut short, every table is one chain from height 1 to its
\* last header, without gaps and every header linked to the one below, also while
\* the databases commit one after the other: whichever branches the node's answers
\* came from and wherever between its transactions a reorganisation was stopped.
HeadersAreAChain == ~cut => \A d \in Db : IsChain(db[d])

\* Between transactions, as long as no write was cut short, the databases agree and
\* the hash index leads to exactly the headers of the table: a superseded block
\* that stayed indexed would be taken for a parent.
IndexExact ==
  ~cut /\ pending = {} =>
    /\ \A d \in Db : db[d] = db["key"]
    /\ index = Blocks(db["hash"])

\* A reorganisation takes superseded blocks out of the hash index only: no delete
\* reaches a block that the branch which replaces it has, its tip apart, whatever
\* failures, crashes, refused parents and partial commits came before.
RollbackOnlySuperseded ==
  [][\A h \in DOMAIN db["hash"] \ DOMAIN db'["hash"] :
       /\ tx.op = "delete"
       /\ LET tip == tx.blocks[Len(tx.blocks)]
          IN  h < HeightOf(tip) => db["hash"][h] # ChainOf[tip][h]]_vars

\* The database holds one fork at any moment: its headers are one chain.
OneWinningFork == pending = {} => IsChain(db["hash"])
=============================================================================
