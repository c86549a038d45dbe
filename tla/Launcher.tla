------------------------------ MODULE Launcher ------------------------------
(***************************************************************************)
(* A process from launch to exit, and the launches after it                *)
(* (chain/src/launcher.rs, combine.rs; StorageOwner in                     *)
(* redbit/src/storage/init.rs; BlockChain::init): the databases are        *)
(* created or opened, a created storage is initialised by storing and      *)
(* removing a sample block, an opened one is validated, then comes a first *)
(* sync, then scheduling and the server until a signal, then the teardown. *)
(* What a sync does is in SyncPipeline and ForkSync: here it runs, ends or *)
(* fails, and its tasks outlive the future that is dropped by a signal.    *)
(***************************************************************************)
EXTENDS CacheAllocation

CONSTANTS
  Defs,        \* the db_defs() of possible programs: Seq([weight, shards])
  TotalMb,     \* possible sizes of the cache
  MaxLaunches  \* bound

ASSUME LauncherAssumption ==
  /\ \A d \in Defs : d \in Seq([weight : Nat, shards : Nat])
  /\ TotalMb \subseteq Nat /\ MaxLaunches \in Nat

VARIABLES
  defs, total,  \* the program's columns and the configured cache
  \* the file system and the databases
  dir,          \* the directory exists
  disk,         \* database files: <<column, suffix>>
  tables,       \* the header table exists, which validate_chain reads
  sample,       \* the sample block is stored
  \* the process
  pc,
  config,       \* settings: [indexer, schedule, http]
  at,           \* creation: <<column, shard>> created next
  owned,        \* StorageOwner: by column the files behind its shards
  cache,        \* by column the cache of each of its databases, in bytes
  flag,         \* the shutdown watch channel
  workers,      \* the tasks of a sync are running
  wedged,       \* its persist thread waits for a writer that never answers
  why,          \* why a launch failed
  launches

diskVars == <<dir, disk, tables, sample>>
vars == <<defs, total, diskVars, pc, config, at, owned, cache, flag, workers, wedged, why,
          launches>>

-----------------------------------------------------------------------------
NoSuffix == -1

\* db_file_path: a single database has no suffix.
db_file_path(c, i) == <<c, IF defs[c].shards = 1 THEN NoSuffix ELSE i>>

Layout == [c \in DOMAIN defs |-> [i \in 1 .. defs[c].shards |-> db_file_path(c, i - 1)]]

\* The cache of a database that is opened without a size: redb's default.
RedbDefaultCache == 1073741824

\* validate: a column without shards is refused.
Invalid(c) == defs[c].shards = 0

Settings == [indexer : BOOLEAN, schedule : BOOLEAN, http : BOOLEAN]

Fails(reason) == pc' = "failed" /\ why' = reason

Init ==
  /\ defs \in Defs /\ total \in TotalMb
  /\ dir = FALSE /\ disk = {} /\ tables = FALSE /\ sample = FALSE
  /\ pc = "down" /\ config \in Settings
  /\ at = <<1, 0>> /\ owned = <<>> /\ cache = <<>>
  /\ flag = FALSE /\ workers = FALSE /\ wedged = FALSE /\ why = "" /\ launches = 0

\* StorageOwner::init: the directory decides between creating and opening.
Launch ==
  /\ pc = "down" /\ launches < MaxLaunches
  /\ launches' = launches + 1
  /\ flag' = FALSE
  /\ IF allocation_panics(defs, total) THEN Fails("panic") /\ UNCHANGED <<at, owned, dir>>
     ELSE IF dir THEN pc' = "open" /\ UNCHANGED <<at, owned, dir, why>>
     ELSE /\ dir' = TRUE /\ pc' = "create"
          /\ at' = <<1, 0>> /\ owned' = [c \in DOMAIN defs |-> <<>>]
          /\ UNCHANGED why
  /\ UNCHANGED <<defs, total, disk, tables, sample, config, cache, workers, wedged>>

\* build_owned_map_create: column by column, shard by shard.  set_cache_size takes
\* bytes and is given the number of megabytes.
CreateDb ==
  LET c == at[1]
      file == db_file_path(c, at[2])
  IN  /\ pc = "create" /\ c <= Len(defs)
      /\ \/ /\ Invalid(c)
            /\ Fails("invalid")
            /\ UNCHANGED <<at, owned, cache, disk>>
         \/ /\ ~Invalid(c)
            /\ disk' = disk \cup {file}
            /\ owned' = [owned EXCEPT ![c] = Append(@, file)]
            /\ cache' = allocate_cache_mb(defs, total)
            /\ at' = IF at[2] + 1 < defs[c].shards THEN <<c, at[2] + 1>> ELSE <<c + 1, 0>>
            /\ UNCHANGED <<pc, why>>
         \/ /\ ~Invalid(c)
            /\ Fails("create")
            /\ UNCHANGED <<at, owned, cache, disk>>
      /\ UNCHANGED <<defs, total, dir, tables, sample, config, flag, workers, wedged, launches>>

Created ==
  /\ pc = "create" /\ at[1] > Len(defs)
  /\ pc' = "persist"
  /\ UNCHANGED <<defs, total, diskVars, config, at, owned, cache, flag, workers, wedged, why,
                 launches>>

\* Mutant: every database is opened under the path of an unsharded column.
OpenUnsharded ==
  /\ pc = "open"
  /\ owned' = [c \in DOMAIN defs |-> [i \in 1 .. defs[c].shards |-> <<c, NoSuffix>>]]
  /\ pc' = "validate"
  /\ UNCHANGED <<defs, total, diskVars, config, at, cache, flag, workers, wedged, why, launches>>

\* build_owned_map_open and DbSetOwned::new: all columns are validated, then all
\* files opened, without a cache size; a missing one fails the launch.
OpenDbs ==
  /\ pc = "open"
  /\ IF \E c \in DOMAIN defs : Invalid(c)
     THEN Fails("invalid") /\ UNCHANGED <<owned, cache>>
     ELSE IF \E c \in DOMAIN defs : \E i \in DOMAIN Layout[c] : Layout[c][i] \notin disk
     THEN Fails("open") /\ UNCHANGED <<owned, cache>>
     ELSE /\ owned' = Layout /\ cache' = [c \in DOMAIN defs |-> RedbDefaultCache]
          /\ pc' = "validate" /\ UNCHANGED why
  /\ UNCHANGED <<defs, total, diskVars, config, at, flag, workers, wedged, launches>>

\* BlockChain::init stores a sample block, which creates every table ...  A store
\* and a remove commit database by database (WriteTx): one that fails or is killed
\* on the way may have committed the header table or not.
InitPersist ==
  /\ pc = "persist"
  /\ \/ tables' = TRUE /\ sample' = TRUE /\ pc' = "remove" /\ UNCHANGED why
     \/ \E committed \in BOOLEAN :
          tables' = committed /\ sample' = committed /\ Fails("create")
  /\ UNCHANGED <<defs, total, dir, disk, config, at, owned, cache, flag, workers, wedged, launches>>

\* ... and removes it.
InitRemove ==
  /\ pc = "remove"
  /\ \/ sample' = FALSE /\ pc' = "sync" /\ UNCHANGED why
     \/ \E committed \in BOOLEAN : sample' = ~committed /\ Fails("create")
  /\ UNCHANGED <<defs, total, dir, disk, tables, config, at, owned, cache, flag, workers, wedged,
                 launches>>

\* validate_chain reads the header table, which has to exist.
Validate ==
  /\ pc = "validate"
  /\ IF tables THEN pc' = "sync" /\ UNCHANGED why ELSE Fails("open")
  /\ UNCHANGED <<defs, total, diskVars, config, at, owned, cache, flag, workers, wedged, launches>>

-----------------------------------------------------------------------------
\* A sync of the initial phase or of the scheduler starts its tasks.
SyncStarts ==
  /\ \/ pc = "sync"
     \/ pc = "run" /\ config.schedule
  /\ config.indexer /\ ~workers /\ ~flag
  /\ workers' = TRUE
  /\ UNCHANGED <<defs, total, diskVars, pc, config, at, owned, cache, flag, wedged, why, launches>>

\* Its persist thread blocks for good: in the delete of a fork update
\* (WriteTxFork.cfg), or on the lock of a writer a failed store left behind
\* (SyncPipeline, wedged).
SyncWedges ==
  /\ workers /\ ~wedged
  /\ wedged' = TRUE
  /\ UNCHANGED <<defs, total, diskVars, pc, config, at, owned, cache, flag, workers, why, launches>>

\* Its tasks end, all of them once they see the shutdown.  An error of the
\* initial sync asks for a shutdown, one of a scheduled sync is only logged.
SyncEnds ==
  /\ workers /\ ~wedged
  /\ workers' = FALSE
  /\ \/ pc = "sync" /\ pc' = "check" /\ UNCHANGED flag
     \/ pc = "sync" /\ pc' = "check" /\ flag' = TRUE
     \/ pc # "sync" /\ UNCHANGED <<pc, flag>>
  /\ UNCHANGED <<defs, total, diskVars, config, at, owned, cache, wedged, why, launches>>

SyncDisabled ==
  /\ pc = "sync" /\ ~config.indexer
  /\ pc' = "check"
  /\ UNCHANGED <<defs, total, diskVars, config, at, owned, cache, flag, workers, wedged, why,
                 launches>>

\* combine::futures: a signal ends the wait and drops the futures; the spawned
\* tasks of a sync go on.
Signal ==
  /\ pc \in {"sync", "run"}
  /\ flag' = TRUE
  /\ pc' = IF pc = "sync" THEN "check" ELSE "teardown"
  /\ UNCHANGED <<defs, total, diskVars, config, at, owned, cache, workers, wedged, why, launches>>

\* Mutant: the flag of the initial phase is not looked at.
AlwaysContinue ==
  /\ pc = "check"
  /\ pc' = "run"
  /\ UNCHANGED <<defs, total, diskVars, config, at, owned, cache, flag, workers, wedged, why,
                 launches>>

\* Flow::Stop or Flow::Continue.
CheckFlow ==
  /\ pc = "check"
  /\ pc' = IF flag THEN "teardown" ELSE "run"
  /\ UNCHANGED <<defs, total, diskVars, config, at, owned, cache, flag, workers, wedged, why,
                 launches>>

\* Neither scheduling nor the server is enabled: join ends by itself.
NothingToRun ==
  /\ pc = "run" /\ ~(config.indexer /\ config.schedule) /\ ~config.http
  /\ pc' = "teardown"
  /\ UNCHANGED <<defs, total, diskVars, config, at, owned, cache, flag, workers, wedged, why,
                 launches>>

\* The server panics when it cannot bind its address.
BindFails ==
  /\ pc = "run" /\ config.http
  /\ Fails("bind")
  /\ UNCHANGED <<defs, total, diskVars, config, at, owned, cache, flag, workers, wedged, launches>>

\* teardown logs the references that are left and drops the owner.
Teardown ==
  /\ pc = "teardown"
  /\ owned' = <<>> /\ cache' = <<>>
  /\ pc' = "exit"
  /\ UNCHANGED <<defs, total, diskVars, config, at, flag, workers, wedged, why, launches>>

\* main returns or unwinds: the runtime waits for the blocking tasks that are left;
\* settings may be edited before the next launch.
Exit ==
  /\ pc \in {"exit", "failed"} /\ ~workers
  /\ pc' = "down" /\ why' = "" /\ owned' = <<>> /\ cache' = <<>>
  /\ config' \in Settings
  /\ UNCHANGED <<defs, total, diskVars, at, flag, workers, wedged, launches>>

\* The process is killed; the files stay.
Crash ==
  /\ pc # "down"
  /\ pc' = "down" /\ why' = "" /\ owned' = <<>> /\ cache' = <<>>
  /\ workers' = FALSE /\ wedged' = FALSE
  /\ UNCHANGED <<defs, total, diskVars, config, at, flag, launches>>

Next ==
  \/ Launch \/ CreateDb \/ Created \/ OpenDbs \/ InitPersist \/ InitRemove
  \/ Validate \/ SyncStarts \/ SyncWedges \/ SyncEnds \/ SyncDisabled \/ Signal \/ CheckFlow
  \/ NothingToRun \/ BindFails \/ Teardown \/ Exit \/ Crash

\* The process makes progress.  Of a sync it is only assumed that it ends once the
\* shutdown is requested (SyncPipeline, TasksEnd), and not of a wedged one.
Fairness ==
  /\ WF_vars(CreateDb \/ Created \/ OpenDbs \/ InitPersist \/ InitRemove \/ Validate)
  /\ WF_vars(CheckFlow \/ SyncDisabled \/ Teardown \/ Exit)
  /\ WF_vars(flag /\ SyncEnds)

Spec == Init /\ [][Next]_vars /\ Fairness

-----------------------------------------------------------------------------
TypeOK ==
  /\ defs \in Defs /\ total \in TotalMb /\ config \in Settings
  /\ {dir, tables, sample, flag, workers, wedged} \subseteq BOOLEAN
  /\ \A f \in disk : f[1] \in DOMAIN defs /\ f[2] \in {NoSuffix} \cup 0..defs[f[1]].shards - 1
  /\ pc \in {"down", "create", "persist", "remove", "open", "validate", "sync",
             "check", "run", "teardown", "exit", "failed"}
  /\ why \in {"", "panic", "invalid", "create", "open", "bind"}

InUse == pc \in {"validate", "sync", "check", "run", "teardown"}

\* Whether a storage was created shard by shard in this launch or opened in a later
\* one, also after launches that were interrupted on the way: every shard of every
\* column is backed by an existing file that no other shard has, and the i-th shard
\* by the same file each time (StorageOwner::init): rows are found where they were put.
ShardsOwnTheirFiles ==
  InUse =>
    /\ owned = Layout
    /\ \A c \in DOMAIN defs : Len(owned[c]) = defs[c].shards
    /\ \A c, d \in DOMAIN defs : \A i \in DOMAIN owned[c], j \in DOMAIN owned[d] :
         /\ owned[c][i] \in disk
         /\ owned[c][i] = owned[d][j] => c = d /\ i = j

\* allocate_cache_mb never hands out more than the configured cache, loses less
\* than a megabyte per shard to rounding, gives nothing to a column of weight zero
\* and no less per column to a greater weight.
CacheWithinBudget ==
  LET mb == allocate_cache_mb(defs, total)
      used == SumOf([i \in DOMAIN defs |-> mb[i] * defs[i].shards])
      shards == SumOf([i \in DOMAIN defs |-> defs[i].shards])
  IN  ~allocation_panics(defs, total) =>
        /\ used <= total
        /\ ~NoCache(defs, total) => total - used <= shards - Len(defs)
        /\ \A i, j \in DOMAIN defs :
             /\ defs[i].weight = 0 => mb[i] = 0
             /\ defs[i].shards = defs[j].shards /\ defs[i].weight > defs[j].weight
                  => mb[i] >= mb[j]

\* A sync never runs on a storage in which the sample block of BlockChain::init is
\* stored: it would be taken for the last header.
NoSampleIndexed == workers => ~sample

\* A directory that a launch finds can be opened, whenever the process before it was
\* killed: build_owned_map_open is not refused for files or tables that are missing.
OpensWhatExists == why # "open"

\* The databases of a storage in use share the configured cache by their weights.
Megabyte == 1048576
CacheAsConfigured ==
  InUse => \A c \in DOMAIN defs : cache[c] = allocate_cache_mb(defs, total)[c] * Megabyte

\* After a signal, or an error of the initial sync, the process exits, whatever state
\* a sync and its detached tasks are in, except with a persist thread that is wedged:
\* the runtime waits for it for ever.
ShutdownExits == flag /\ pc \in {"check", "run", "teardown"} ~> pc = "down" \/ wedged
=============================================================================
