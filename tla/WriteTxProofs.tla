--------------------------- MODULE WriteTxProofs ---------------------------
(***************************************************************************)
(* For every set of databases, any number of index shards and dependent    *)
(* columns, of blocks, forks, failures, crashes and write contexts, the    *)
(* commit over many databases is safe: what the root key lists is backed   *)
(* by all columns in memory and on disk, what a store has acknowledged is  *)
(* stored, and no thread meets a command outside its transaction.          *)
(*                                                                         *)
(* The invariant says, for every step of the master, what each writer's    *)
(* queue can hold and how far its transaction is.  The deferred flush is   *)
(* the delicate part: a dependent has buffered the rows of a set D of      *)
(* index shards, the handshake has counted exactly the members of D, and   *)
(* a shard that still has its query queued is neither in D nor queued      *)
(* here; so the count reaches the number of shards only when D is all of   *)
(* them and nothing can arrive any more.                                   *)
(***************************************************************************)
EXTENDS WriteTx, FiniteSetTheorems, SequenceTheorems, WellFoundedInduction, TLAPS

-----------------------------------------------------------------------------
(* The invariant. *)

Plain == Writer \ (QueryShards \cup Dependents)

Commands == {"Begin", "Insert", "Query", "Remove", "Sorted", "Merge", "Ready", "Flush",
             "FlushWhenReady", "Shutdown"}

MoreTypes ==
  /\ queue \in [Writer -> Seq([cmd : Commands, rows : SUBSET Row])]
  /\ flushing \in [Writer -> [sender : BOOLEAN, sum : Nat, shards : Nat]]
  /\ acked \subseteq Height /\ replaced \subseteq Height

CBegin == Command("Begin", {})
CInsert == Command("Insert", Rows(target))
CQuery(s) == Command("Query", target \X {s})
CRemove == Command("Remove", Rows(target))
CSorted == Command("Sorted", Rows(target))
CFlush == Command("Flush", {})
CWhenReady == Command("FlushWhenReady", {})
CShutdown == Command("Shutdown", {})

\* Right after Begin.
Open(w) == work[w] = db[w] /\ buf[w] = {} /\ ~failed[w] /\ flushing[w] = NoFlush

\* The query of an index shard is still queued.
Asked(s) == \E i \in DOMAIN queue[s] : queue[s][i].cmd = "Query"

\* A store in a column that is neither queried nor dependent: the rows arrive
\* sorted with the flush.
PlainOK(w) ==
  /\ work[w] = db[w] /\ ~failed[w]
  /\ \/ queue[w] \in {<<CSorted>>, <<CSorted, CFlush>>} /\ buf[w] = {}
     \/ queue[w] = <<CFlush>> /\ buf[w] = Rows(target)
     \/ queue[w] = <<>> /\ buf[w] \in {{}, Rows(target)}

\* A store in an index shard: the rows are written, then queried.
QueryOK(w) ==
  /\ db[w] \subseteq work[w] /\ buf[w] = {}
  /\ \/ queue[w] \in {<<>>, <<CInsert, CQuery(w)>>, <<CInsert, CQuery(w), CFlush>>}
     \/ /\ queue[w] \in {<<CQuery(w)>>, <<CQuery(w), CFlush>>, <<CFlush>>}
        /\ failed[w] \/ Rows(target) \subseteq work[w]

\* A dependent has the rows of the shards in D, and has counted them, except one
\* whose Ready is next.  Queued are rows of other shards, that have been asked.
Collected(v, D) ==
  /\ buf[v] = target \X D
  /\ \A s \in D : ~Asked(s)
  /\ Cardinality(D) = IF queue[v] # <<>> /\ Head(queue[v]).cmd = "Ready"
                      THEN flushing[v].sum + 1 ELSE flushing[v].sum
  /\ \A i \in DOMAIN queue[v] :
       queue[v][i].cmd = "Merge" =>
         \E s \in QueryShards \ D : queue[v][i].rows = target \X {s} /\ ~Asked(s)

\* Every Merge is followed by its Ready, shards and the flush come once.
Paired(q, sender) ==
  \A i \in DOMAIN q :
    /\ q[i].cmd \in {"Merge", "Ready", "FlushWhenReady"}
    /\ q[i].cmd = "Merge" => i + 1 \in DOMAIN q /\ q[i + 1].cmd = "Ready"
    /\ q[i].cmd = "Ready" /\ i # 1 => q[i - 1].cmd = "Merge"
    /\ q[i].cmd = "FlushWhenReady" => ~sender
    /\ \A j \in DOMAIN q :
         /\ q[i].cmd = "Merge" /\ q[j].cmd = "Merge" /\ q[i].rows = q[j].rows => i = j
         /\ q[i].cmd = "FlushWhenReady" /\ q[j].cmd = "FlushWhenReady" => i = j

DependentOK(v) ==
  /\ work[v] = db[v]
  /\ \E D \in SUBSET QueryShards : Collected(v, D)
  /\ flushing[v].shards \in {0, Cardinality(QueryShards)}
  /\ Paired(queue[v], flushing[v].sender)

StoreOK(w) ==
  /\ w \in Plain => PlainOK(w)
  /\ w \in QueryShards => QueryOK(w)
  /\ w \in Dependents => DependentOK(w)

DeleteOK(w) ==
  /\ work[w] \subseteq db[w] /\ db[w] \subseteq work[w] \cup Rows(target) /\ buf[w] = {}
  /\ flushing[w].shards = 0
  /\ queue[w] \in {<<>>, <<CRemove>>, <<CFlush>>, <<CWhenReady>>}

\* Inside the transaction, between Begin and Flush.
TxOK(w) ==
  /\ thread[w] = "intx"
  /\ op = "store" => StoreOK(w)
  /\ op = "delete" => DeleteOK(w)

BeginOK(w) ==
  \/ queue[w] = <<CBegin>> /\ thread[w] = "outer" /\ ack[w] = "none"
  \/ queue[w] = <<>> /\ thread[w] = "intx" /\ ack[w] = "ok" /\ Open(w)
  \/ queue[w] = <<>> /\ thread[w] = "outer" /\ ack[w] = "err"

CommitOK(w) ==
  /\ TxOK(w)
  /\ op = "delete" => queue[w] = <<>>
  /\ op = "store" =>
       /\ deferred
       /\ w \in Plain => queue[w] = <<>> /\ buf[w] = {}
       /\ w \in QueryShards =>
            \/ queue[w] \in {<<CInsert, CQuery(w)>>, <<CQuery(w)>>}
            \/ queue[w] = <<>> /\ (failed[w] \/ Rows(target) \subseteq work[w])
       /\ w \in Dependents =>
            /\ ~flushing[w].sender
            /\ \A i \in DOMAIN queue[w] : queue[w][i].cmd # "FlushWhenReady"

\* Committed by the running transaction.
DoneOK(w) ==
  /\ thread[w] = "outer" /\ queue[w] = <<>>
  /\ op = "store" => Rows(target) \subseteq db[w]
  /\ durability => safe[w] = db[w]

FlushOK(w) ==
  /\ ack[w] = "none" => TxOK(w)
  /\ ack[w] = "ok" => DoneOK(w)
  /\ ack[w] = "err" => queue[w] = <<>> /\ thread[w] = "outer"

StopOK(w) ==
  \/ queue[w] = <<CShutdown>> /\ thread[w] # "dead" /\ ack[w] = "none"
  \/ queue[w] = <<>> /\ thread[w] = "dead" /\ ack[w] = "ok"

FailedOK(w) ==
  \/ TxOK(w)
  \/ queue[w] = <<>> /\ thread[w] # "intx"
  \/ queue[w] = <<CBegin>> /\ thread[w] = "outer"

\* What a writer can be doing while the master is at pc.
WriterOK(w) ==
  /\ pc \in {"down", "closed"} => queue[w] = <<>> /\ thread[w] = "dead"
  /\ pc = "idle" => queue[w] = <<>> /\ thread[w] = "outer"
  /\ pc = "begin" => BeginOK(w)
  /\ pc = "body" => queue[w] = <<>> /\ thread[w] = "intx" /\ Open(w)
  /\ pc = "removing" => op = "delete" /\ TxOK(w) /\ queue[w] \in {<<>>, <<CRemove>>}
  /\ pc = "commit" => CommitOK(w)
  /\ pc \in {"flush", "root"} => FlushOK(w)
  /\ pc = "stop" => StopOK(w)
  /\ pc = "failed" => FailedOK(w)
  /\ thread[w] # "intx" => buf[w] = {} /\ ~failed[w] /\ flushing[w] = NoFlush

WritersInv == \A w \in Writer : WriterOK(w)

\* How far the master has waited, and that the root is flushed last.
MasterInv ==
  /\ pc \in {"begin", "flush"} => \A i \in 1 .. pos - 1 : ack[Order[i]] = "ok"
  /\ pc = "flush" => ack[Root] = "none"
  /\ pc = "flush" /\ op = "store" /\ queue[Root] = <<>> => buf[Root] = Rows(target)
  /\ pc = "flush" /\ op = "delete" => DOMAIN queue[Root] = {}
  /\ pc = "root" => \A w \in Writer \ {Root} : ack[w] = "ok"
  /\ pc # "root" => \A i \in DOMAIN queue[Root] : queue[Root][i].cmd # "Flush"
  /\ pc \in {"begin", "body", "removing", "commit", "flush", "root"} => next <= MaxHeight
  /\ pc \in {"begin", "body", "removing", "commit", "flush", "root", "failed"} => target # {}

\* A shard is asked in a store only, and while every dependent still listens.
AskInv ==
  \A s \in QueryShards :
    Asked(s) => op = "store" /\ \A v \in Dependents : thread[v] = "intx"

\* What a delete takes away is on record as replaced and not acknowledged; what
\* is on disk is in the database, but for what was deleted since.
HistoryInv ==
  /\ op = "delete" => target \subseteq replaced /\ acked \cap target = {}
  /\ \A w \in Writer : safe[w] \subseteq db[w] \cup Rows(replaced)

IInv ==
  /\ TypeOK /\ MoreTypes /\ WritersInv /\ MasterInv /\ AskInv /\ HistoryInv
  /\ RootBacked /\ AckedIsStored

-----------------------------------------------------------------------------
(* Queues are short tuples. *)

\* Head and Tail of the queues of one to three commands that a master sends.
LEMMA TupleFacts ==
  /\ \A a : Head(<<a>>) = a /\ Tail(<<a>>) = <<>> /\ <<a>> # <<>>
  /\ \A a, b : Head(<<a, b>>) = a /\ Tail(<<a, b>>) = <<b>> /\ <<a, b>> # <<>>
  /\ \A a, b, c : Head(<<a, b, c>>) = a /\ Tail(<<a, b, c>>) = <<b, c>> /\ <<a, b, c>> # <<>>
<1>1. \A a : Head(<<a>>) = a /\ Tail(<<a>>) = <<>> /\ <<a>> # <<>>
  OBVIOUS
<1>2. \A a, b : Head(<<a, b>>) = a /\ Tail(<<a, b>>) = <<b>> /\ <<a, b>> # <<>>
  OBVIOUS
<1>3. \A a, b, c : Head(<<a, b, c>>) = a /\ Tail(<<a, b, c>>) = <<b, c>> /\ <<a, b, c>> # <<>>
  OBVIOUS
<1>. QED  BY <1>1, <1>2, <1>3

\* What appending to a queue of up to two commands gives.
LEMMA ConcatFacts ==
  /\ <<>> \o <<>> = <<>>
  /\ \A a : <<>> \o <<a>> = <<a>> /\ <<a>> \o <<>> = <<a>> /\ Append(<<>>, a) = <<a>>
  /\ \A a, b : <<>> \o <<a, b>> = <<a, b>>
  /\ \A a, b : <<a>> \o <<b>> = <<a, b>>
  /\ \A a, b : Append(<<a>>, b) = <<a, b>>
  /\ \A a, b, c : <<a, b>> \o <<c>> = <<a, b, c>>
<1>1. \A a : <<>> \o <<a>> = <<a>> /\ <<a>> \o <<>> = <<a>> /\ Append(<<>>, a) = <<a>>
  OBVIOUS
<1>2. ASSUME NEW a, NEW b
      PROVE  /\ <<>> \o <<a, b>> = <<a, b>> /\ <<a>> \o <<b>> = <<a, b>>
             /\ Append(<<a>>, b) = <<a, b>>
  <2>1. <<a>> \in Seq({a, b}) /\ <<a, b>> \in Seq({a, b}) /\ b \in {a, b}
    OBVIOUS
  <2>2. Append(<<a>>, b) = <<a, b>>
    <3>. DEFINE u == Append(<<a>>, b)
                t == <<a, b>>
    <3>1. u \in Seq({a, b}) /\ t \in Seq({a, b}) /\ Len(u) = 2 /\ Len(t) = 2
      BY <2>1
    <3>2. u[1] = a /\ t[1] = a /\ u[2] = b /\ t[2] = b
      BY <2>1
    <3>. HIDE DEF u, t
    <3>3. \A i \in 1 .. Len(u) : u[i] = t[i]
      BY <3>1, <3>2
    <3>4. u = t
      BY <3>1, <3>3, SeqEqual
    <3>. QED  BY <3>4 DEF u, t
  <2>3. Append(<<a>>, b) = <<a>> \o <<b>>
    BY <2>1, AppendIsConcat
  <2>4. <<>> \o <<a, b>> = <<a, b>>
    BY <2>1, ConcatEmptySeq
  <2>. QED  BY <2>2, <2>3, <2>4
<1>3. ASSUME NEW a, NEW b, NEW c PROVE <<a, b>> \o <<c>> = <<a, b, c>>
  <2>1. /\ <<a, b>> \in Seq({a, b, c}) /\ c \in {a, b, c}
        /\ <<a, b, c>> \in Seq({a, b, c})
    OBVIOUS
  <2>2. Append(<<a, b>>, c) = <<a, b, c>>
    <3>. DEFINE u == Append(<<a, b>>, c)
                t == <<a, b, c>>
    <3>1. u \in Seq({a, b, c}) /\ t \in Seq({a, b, c}) /\ Len(u) = 3 /\ Len(t) = 3
      BY <2>1
    <3>2. u[1] = a /\ t[1] = a /\ u[2] = b /\ t[2] = b /\ u[3] = c /\ t[3] = c
      BY <2>1
    <3>. HIDE DEF u, t
    <3>3. \A i \in 1 .. Len(u) : u[i] = t[i]
      BY <3>1, <3>2
    <3>4. u = t
      BY <3>1, <3>3, SeqEqual
    <3>. QED  BY <3>4 DEF u, t
  <2>3. Append(<<a, b>>, c) = <<a, b>> \o <<c>>
    BY <2>1, AppendIsConcat
  <2>. QED  BY <2>2, <2>3
<1>4. <<>> \o <<>> = <<>>
  OBVIOUS
<1>. QED  BY <1>1, <1>2, <1>3, <1>4

-----------------------------------------------------------------------------
(* Constants. *)

\* The root is a writer of its own, listed once and last; writers are finitely
\* many.
LEMMA OrderFacts ==
  /\ Len(Order) \in Nat /\ Len(Order) >= 1 /\ DOMAIN Order = 1 .. Len(Order)
  /\ Root \in Writer /\ Root \in Plain
  /\ \A i \in DOMAIN Order : Order[i] \in Writer /\ (Order[i] = Root => i = Len(Order))
  /\ \A w \in Writer \ {Root} : \E i \in 1 .. Len(Order) - 1 : Order[i] = w
<1>1. Len(Order) \in Nat /\ Len(Order) >= 1 /\ DOMAIN Order = 1 .. Len(Order)
  BY WriteTxAssumption
<1>2. Len(Order) \in DOMAIN Order
  BY <1>1
<1>3. Root \in Writer /\ Root \in Plain
  BY <1>2, WriteTxAssumption DEF Root, Writer, Plain
<1>4. \A i \in DOMAIN Order : Order[i] \in Writer /\ (Order[i] = Root => i = Len(Order))
  BY <1>2, WriteTxAssumption DEF Root, Writer
<1>5. \A w \in Writer \ {Root} : \E i \in 1 .. Len(Order) - 1 : Order[i] = w
  <2>. SUFFICES ASSUME NEW w \in Writer \ {Root}
                PROVE  \E i \in 1 .. Len(Order) - 1 : Order[i] = w
    OBVIOUS
  <2>1. PICK i \in DOMAIN Order : Order[i] = w
    BY DEF Writer
  <2>2. i # Len(Order)
    BY <2>1 DEF Root
  <2>3. i \in 1 .. Len(Order) - 1
    BY <1>1, <2>1, <2>2
  <2>. QED  BY <2>1, <2>3
<1>. QED  BY <1>1, <1>3, <1>4, <1>5

\* The index shards are finitely many and at least one, and every writer is a
\* plain column, an index shard or a dependent of the hook, and only one of them.
LEMMA ShardFacts ==
  /\ IsFiniteSet(QueryShards) /\ Cardinality(QueryShards) \in Nat
  /\ Cardinality(QueryShards) > 0
  /\ QueryShards \subseteq Writer /\ Dependents \subseteq Writer /\ Plain \subseteq Writer
  /\ \A w \in Writer : \/ w \in Plain /\ w \notin QueryShards /\ w \notin Dependents
                       \/ w \in QueryShards /\ w \notin Plain /\ w \notin Dependents
                       \/ w \in Dependents /\ w \notin Plain /\ w \notin QueryShards
<1>1. IsFiniteSet(Writer)
  <2>1. Order \in Surjection(1 .. Len(Order), Writer)
    <3>1. Order \in [1 .. Len(Order) -> Writer]
      BY WriteTxAssumption
    <3>2. \A w \in Writer : \E i \in 1 .. Len(Order) : Order[i] = w
      BY OrderFacts DEF Writer
    <3>. QED  BY <3>1, <3>2 DEF Surjection
  <2>2. IsFiniteSet(1 .. Len(Order))
    BY OrderFacts, FS_Interval
  <2>. QED  BY <2>1, <2>2, FS_Surjection
<1>2. QueryShards \subseteq Writer /\ Dependents \subseteq Writer /\ QueryShards # {}
      /\ QueryShards \cap Dependents = {}
  BY WriteTxAssumption
<1>3. IsFiniteSet(QueryShards)
  BY <1>1, <1>2, FS_Subset
<1>4. Cardinality(QueryShards) \in Nat /\ Cardinality(QueryShards) # 0
  BY <1>2, <1>3, FS_CardinalityType, FS_EmptySet
<1>. QED  BY <1>2, <1>3, <1>4 DEF Plain

\* Of a set of heights that is not empty one is the last.
LEMMA LastHeight ==
  ASSUME NEW hs \in SUBSET Height, hs # {}
  PROVE  \E h \in hs : \A k \in hs : k <= h
<1>. DEFINE S == {MaxHeight - h : h \in hs}
            R == {p \in Nat \X Nat : p[1] < p[2]}
<1>1. MaxHeight \in Nat
  BY WriteTxAssumption
<1>2. S \in SUBSET Nat /\ S # {}
  <2>1. \A h \in hs : MaxHeight - h \in Nat
    BY <1>1 DEF Height
  <2>. QED  BY <2>1
<1>3. IsWellFoundedOn(R, Nat)
  BY NatLessThanWellFounded, Zenon DEF OpToRel
<1>4. ASSUME NEW y \in Nat, NEW x \in Nat, y < x PROVE <<y, x>> \in R
  BY <1>4
<1>. HIDE DEF R
<1>5. PICK x \in S : \A y \in S : ~ (<<y, x>> \in R)
  <2>. HIDE DEF S
  <2>. QED  BY <1>2, <1>3, WFMin
<1>6. PICK h \in hs : x = MaxHeight - h
  BY <1>5
<1>7. ASSUME NEW k \in hs PROVE k <= h
  <2>1. MaxHeight - k \in S /\ MaxHeight - k \in Nat /\ x \in Nat
    BY <1>1, <1>2, <1>5 DEF Height
  <2>2. ~ (MaxHeight - k < x)
    BY <1>4, <1>5, <2>1
  <2>. QED  BY <1>1, <1>6, <2>2 DEF Height
<1>. QED  BY <1>7

\* get_last_header is 0 or a height: indexing resumes within the bound.
LEMMA LastHeader == get_last_header \in 0 .. MaxHeight
<1>. DEFINE hs == Complete(db[Header])
<1>1. hs \in SUBSET Height /\ MaxHeight \in Nat
  BY WriteTxAssumption DEF Complete
<1>. HIDE DEF hs
<1>2. CASE hs = {}
  BY <1>1, <1>2 DEF get_last_header, hs
<1>3. CASE hs # {}
  <2>1. get_last_header = CHOOSE h \in hs : \A k \in hs : k <= h
    BY <1>3 DEF get_last_header, hs
  <2>2. get_last_header \in hs
    BY <1>1, <1>3, <2>1, LastHeight
  <2>. QED  BY <1>1, <2>2 DEF Height
<1>. QED  BY <1>2, <1>3

-----------------------------------------------------------------------------
(* A writer nobody touches. *)

SameWriter(x) ==
  /\ queue'[x] = queue[x] /\ thread'[x] = thread[x] /\ ack'[x] = ack[x]
  /\ work'[x] = work[x] /\ buf'[x] = buf[x] /\ failed'[x] = failed[x]
  /\ flushing'[x] = flushing[x] /\ db'[x] = db[x] /\ safe'[x] = safe[x]

\* What a store has collected in a dependent stays valid when queries are
\* answered.
LEMMA TxKept ==
  ASSUME NEW x \in Writer, TxOK(x), SameWriter(x), UNCHANGED <<op, target>>,
         \A s \in QueryShards : Asked(s)' => Asked(s)
  PROVE  TxOK(x)'
<1>1. PlainOK(x) => PlainOK(x)'
  BY DEF SameWriter, PlainOK, CSorted, CFlush, Command, Rows
<1>2. QueryOK(x) => QueryOK(x)'
  BY DEF SameWriter, QueryOK, CInsert, CQuery, CFlush, Command, Rows
<1>3. ASSUME DependentOK(x) PROVE DependentOK(x)'
  <2>1. PICK D \in SUBSET QueryShards : Collected(x, D)
    BY <1>3 DEF DependentOK
  <2>2. Collected(x, D)'
    BY <2>1 DEF Collected, SameWriter
  <2>. QED  BY <1>3, <2>2 DEF DependentOK, SameWriter
<1>4. DeleteOK(x) => DeleteOK(x)'
  BY DEF SameWriter, DeleteOK, CRemove, CFlush, CWhenReady, Command, Rows
<1>. QED  BY <1>1, <1>2, <1>3, <1>4 DEF TxOK, StoreOK, SameWriter

\* A step that is not about writer x leaves what x can be doing as it is.
LEMMA WriterKept ==
  ASSUME NEW x \in Writer, WriterOK(x), SameWriter(x),
         UNCHANGED <<pc, op, target, durability, deferred>>,
         \A s \in QueryShards : Asked(s)' => Asked(s)
  PROVE  WriterOK(x)'
<1>1. TxOK(x) => TxOK(x)'
  BY TxKept
<1>2. /\ BeginOK(x) => BeginOK(x)'
      /\ Open(x) => Open(x)'
      /\ StopOK(x) => StopOK(x)'
      /\ DoneOK(x) => DoneOK(x)'
  BY DEF SameWriter, BeginOK, Open, StopOK, DoneOK, CBegin, CShutdown, Command, Rows
<1>3. FlushOK(x) => FlushOK(x)'
  BY <1>1, <1>2 DEF FlushOK, SameWriter
<1>4. CommitOK(x) => CommitOK(x)'
  BY <1>1 DEF CommitOK, SameWriter, CInsert, CQuery, Command, Rows
<1>5. FailedOK(x) => FailedOK(x)'
  BY <1>1 DEF FailedOK, SameWriter, CBegin, Command
<1>6. queue[x] \in {<<>>, <<CRemove>>} => queue'[x] \in {<<>>, <<CRemove'>>}
  BY DEF SameWriter, CRemove, Command, Rows
<1>. QED  BY <1>1, <1>2, <1>3, <1>4, <1>5, <1>6 DEF WriterOK, SameWriter

-----------------------------------------------------------------------------
(* The type invariant in parts. *)

MasterTypes ==
  /\ pc \in {"down", "idle", "begin", "body", "removing", "commit", "flush", "root",
             "stop", "failed", "closed"}
  /\ op \in {"store", "delete"} /\ target \subseteq Height
  /\ pos \in DOMAIN Order /\ next \in 1 .. (MaxHeight + 1)
  /\ durability \in BOOLEAN /\ oneshot \in BOOLEAN /\ deferred \in BOOLEAN

Queues == [Writer -> Seq([cmd : Commands, rows : SUBSET Row])]

ThreadTypes ==
  /\ thread \in [Writer -> {"outer", "intx", "dead"}]
  /\ ack \in [Writer -> {"none", "ok", "err"}]

TxTypes ==
  /\ work \in [Writer -> SUBSET Row] /\ buf \in [Writer -> SUBSET Row]
  /\ failed \in [Writer -> BOOLEAN]
  /\ flushing \in [Writer -> [sender : BOOLEAN, sum : Nat, shards : Nat]]

DbTypes ==
  /\ db \in [Writer -> SUBSET Row] /\ safe \in [Writer -> SUBSET Row]
  /\ acked \subseteq Height /\ replaced \subseteq Height

\* The types, component by component, make up the type invariant.
LEMMA TypeParts ==
  TypeOK /\ MoreTypes <=> MasterTypes /\ queue \in Queues /\ ThreadTypes /\ TxTypes /\ DbTypes
BY DEF TypeOK, MoreTypes, MasterTypes, Queues, ThreadTypes, TxTypes, DbTypes

\* The direction needed for the state after a step.
LEMMA TypePartsNext ==
  MasterTypes' /\ queue' \in Queues /\ ThreadTypes' /\ TxTypes' /\ DbTypes'
    => TypeOK' /\ MoreTypes'
BY DEF TypeOK, MoreTypes, MasterTypes, Queues, ThreadTypes, TxTypes, DbTypes

\* A part whose variables a step leaves alone keeps its types.
LEMMA TypesKept ==
  /\ MasterTypes /\ UNCHANGED masterVars => MasterTypes'
  /\ ThreadTypes /\ UNCHANGED <<thread, ack>> => ThreadTypes'
  /\ TxTypes /\ UNCHANGED txVars => TxTypes'
  /\ DbTypes /\ UNCHANGED <<dbVars, acked, replaced>> => DbTypes'
<1>1. MasterTypes /\ UNCHANGED masterVars => MasterTypes'
  BY DEF MasterTypes, masterVars
<1>2. ThreadTypes /\ UNCHANGED <<thread, ack>> => ThreadTypes'
  BY DEF ThreadTypes
<1>3. TxTypes /\ UNCHANGED txVars => TxTypes'
  BY DEF TxTypes, txVars
<1>4. DbTypes /\ UNCHANGED <<dbVars, acked, replaced>> => DbTypes'
  BY DEF DbTypes, dbVars
<1>. QED  BY <1>1, <1>2, <1>3, <1>4

\* What is sent are commands with rows of the blocks being written.
LEMMA CommandTypes ==
  /\ \A c \in Commands, rows \in SUBSET Row :
       /\ Command(c, rows) \in [cmd : Commands, rows : SUBSET Row]
       /\ Command(c, rows).cmd = c /\ Command(c, rows).rows = rows
  /\ \A c \in Commands : Command(c, {}) \in [cmd : Commands, rows : SUBSET Row]
  /\ \A hs \in SUBSET Height :
       Rows(hs) \in SUBSET Row /\ \A s \in QueryShards : hs \X {s} \in SUBSET Row
BY DEF Command, Rows, Row

\* Taking the first command off a queue, and adding commands to queues.
LEMMA ConsumeFacts ==
  ASSUME queue \in Queues, NEW w \in Writer, queue[w] # <<>>, Consume(w)
  PROVE  /\ queue' \in Queues /\ queue'[w] = Tail(queue[w])
         /\ \A x \in Writer \ {w} : queue'[x] = queue[x]
         /\ Head(queue[w]) = queue[w][1] /\ 1 \in DOMAIN queue[w]
         /\ queue[w][1].cmd \in Commands /\ queue[w][1].rows \in SUBSET Row
         /\ Len(queue[w]) \in Nat /\ Len(queue'[w]) = Len(queue[w]) - 1
         /\ DOMAIN queue[w] = 1 .. Len(queue[w])
         /\ \A i \in DOMAIN queue'[w] :
              /\ i \in Nat /\ i >= 1
              /\ i + 1 \in DOMAIN queue[w] /\ queue'[w][i] = queue[w][i + 1]
<1>. DEFINE C == [cmd : Commands, rows : SUBSET Row]
            q == queue[w]
<1>1. q \in Seq(C) /\ q # <<>>
  BY DEF Queues
<1>. HIDE DEF C, q
<1>2. /\ Tail(q) \in Seq(C) /\ Head(q) \in C /\ Head(q) = q[1]
      /\ Len(q) \in Nat /\ Len(q) >= 1 /\ Len(Tail(q)) = Len(q) - 1 /\ DOMAIN q = 1 .. Len(q)
  BY <1>1
<1>3. \A i \in DOMAIN Tail(q) :
        i \in Nat /\ i >= 1 /\ i + 1 \in DOMAIN q /\ Tail(q)[i] = q[i + 1]
  BY <1>1, <1>2
<1>4. queue' = [queue EXCEPT ![w] = Tail(q)] /\ queue \in [Writer -> Seq(C)]
  BY DEF Consume, Queues, C, q
<1>5. queue' \in [Writer -> Seq(C)] /\ queue'[w] = Tail(q)
      /\ \A x \in Writer \ {w} : queue'[x] = queue[x]
  BY <1>2, <1>4
<1>6. 1 \in DOMAIN q /\ q[1].cmd \in Commands /\ q[1].rows \in SUBSET Row
  BY <1>2 DEF C
<1>. QED  BY <1>2, <1>3, <1>5, <1>6 DEF Queues, C, q

\* A queue that only loses commands asks no new shard.
LEMMA AskedShrinks ==
  ASSUME queue \in Queues, NEW w \in Writer, queue[w] # <<>>, Consume(w)
  PROVE  \A s \in QueryShards : Asked(s)' => Asked(s)
<1>. SUFFICES ASSUME NEW s \in QueryShards, Asked(s)' PROVE Asked(s)
  OBVIOUS
<1>1. PICK i \in DOMAIN queue'[s] : queue'[s][i].cmd = "Query"
  BY DEF Asked
<1>2. s \in Writer
  BY ShardFacts
<1>3. CASE s = w
  BY <1>1, <1>3, ConsumeFacts DEF Asked
<1>4. CASE s # w
  BY <1>1, <1>2, <1>4, ConsumeFacts DEF Asked
<1>. QED  BY <1>3, <1>4

\* A command sent to every writer is appended to each queue.
LEMMA SendFacts ==
  ASSUME queue \in Queues, NEW cmds \in Queues, SendAll(cmds)
  PROVE  queue' \in Queues /\ \A x \in Writer : queue'[x] = queue[x] \o cmds[x]
<1>. DEFINE C == [cmd : Commands, rows : SUBSET Row]
<1>. HIDE DEF C
<1>1. queue \in [Writer -> Seq(C)] /\ cmds \in [Writer -> Seq(C)]
  BY DEF Queues, C
<1>2. \A x \in Writer : queue[x] \o cmds[x] \in Seq(C)
  BY <1>1
<1>3. queue' \in [Writer -> Seq(C)] /\ \A x \in Writer : queue'[x] = queue[x] \o cmds[x]
  BY <1>2 DEF SendAll
<1>. QED  BY <1>3 DEF Queues, C

-----------------------------------------------------------------------------
(* A step of one writer. *)

\* What the master relies on while a writer w works: answers stay, and the root
\* gets no flush by itself.
LEMMA MasterKept ==
  ASSUME IInv, NEW w \in Writer, UNCHANGED masterVars,
         \A x \in Writer \ {w} : ack'[x] = ack[x] /\ queue'[x] = queue[x] /\ buf'[x] = buf[x],
         ack'[w] = ack[w] \/ ack[w] = "none" \/ pc = "failed",
         w = Root =>
           /\ pc = "flush" => ack'[Root] = "none"
           /\ pc = "flush" /\ op = "store" /\ queue'[Root] = <<>> => buf'[Root] = Rows(target)
           /\ \A i \in DOMAIN queue'[Root] : \E j \in DOMAIN queue[Root] :
                queue'[Root][i] = queue[Root][j]
  PROVE  MasterInv'
<1>1. MasterInv
  BY DEF IInv
<1>2. UNCHANGED <<pc, op, target, pos, next>>
  BY DEF masterVars
<1>3. ASSUME NEW x \in Writer, ack[x] = "ok", pc # "failed" PROVE ack'[x] = "ok"
  BY <1>3
<1>4. ASSUME pc \in {"begin", "flush"}, NEW i \in 1 .. pos - 1 PROVE ack'[Order[i]] = "ok"
  <2>1. pos \in DOMAIN Order /\ Len(Order) \in Nat /\ DOMAIN Order = 1 .. Len(Order)
    BY TypeParts, OrderFacts DEF IInv, MasterTypes
  <2>2. i \in DOMAIN Order
    BY <2>1
  <2>3. Order[i] \in Writer
    BY <2>2, OrderFacts
  <2>. QED  BY <1>1, <1>3, <1>4, <2>3 DEF MasterInv
<1>5. pc = "root" => \A x \in Writer \ {Root} : ack'[x] = "ok"
  BY <1>1, <1>3 DEF MasterInv
<1>6. CASE w = Root
  BY <1>1, <1>2, <1>4, <1>5, <1>6 DEF MasterInv, Rows
<1>7. CASE w # Root
  <2>1. ack'[Root] = ack[Root] /\ queue'[Root] = queue[Root] /\ buf'[Root] = buf[Root]
    BY <1>7, OrderFacts
  <2>. QED  BY <1>1, <1>2, <1>4, <1>5, <2>1 DEF MasterInv, Rows
<1>. QED  BY <1>6, <1>7

\* A writer's step that leaves the databases alone.
LEMMA WriterFrame ==
  ASSUME IInv, NEW w \in Writer, UNCHANGED <<masterVars, dbVars, acked, replaced>>,
         TypeOK', MoreTypes', MasterInv', AskInv', WriterOK(w)',
         \A x \in Writer \ {w} : SameWriter(x),
         \A s \in QueryShards : Asked(s)' => Asked(s)
  PROVE  IInv'
<1>1. WritersInv'
  <2>. SUFFICES ASSUME NEW x \in Writer PROVE WriterOK(x)'
    BY DEF WritersInv
  <2>1. CASE x = w
    BY <2>1
  <2>2. CASE x # w
    BY <2>2, WriterKept DEF IInv, WritersInv, masterVars
  <2>. QED  BY <2>1, <2>2
<1>2. HistoryInv' /\ RootBacked' /\ AckedIsStored'
  BY DEF IInv, HistoryInv, RootBacked, AckedIsStored, Rows, masterVars, dbVars
<1>. QED  BY <1>1, <1>2 DEF IInv

\* A thread in its transaction that receives anything but the shutdown.
LEMMA InTransactionReceives ==
  ASSUME IInv, NEW w \in Writer, thread[w] = "intx", queue[w] # <<>>,
         Head(queue[w]).cmd # "Shutdown"
  PROVE  /\ TxOK(w) /\ pc \in {"removing", "commit", "flush", "root", "failed"}
         /\ pc \in {"flush", "root"} => ack[w] = "none"
<1>1. WriterOK(w)
  BY DEF IInv, WritersInv
<1>2. MasterTypes /\ ThreadTypes
  BY TypeParts DEF IInv
<1>3. pc # "stop"
  <2>. SUFFICES ASSUME pc = "stop" PROVE FALSE
    OBVIOUS
  <2>1. queue[w] = <<CShutdown>>
    BY <1>1 DEF WriterOK, StopOK
  <2>2. Head(queue[w]) = CShutdown
    BY <2>1, TupleFacts
  <2>. QED  BY <2>2 DEF CShutdown, Command
<1>4. pc \in {"removing", "commit", "flush", "root", "failed"}
  BY <1>1, <1>2, <1>3 DEF WriterOK, BeginOK, MasterTypes
<1>5. CASE pc = "removing" \/ pc = "commit"
  BY <1>1, <1>5 DEF WriterOK, CommitOK
<1>6. CASE pc \in {"flush", "root"}
  <2>1. FlushOK(w) /\ ack[w] \in {"none", "ok", "err"}
    BY <1>1, <1>2, <1>6 DEF WriterOK, ThreadTypes
  <2>2. ack[w] = "none"
    BY <2>1 DEF FlushOK, DoneOK
  <2>. QED  BY <1>6, <2>1, <2>2 DEF FlushOK
<1>7. CASE pc = "failed"
  BY <1>1, <1>7 DEF WriterOK, FailedOK
<1>. QED  BY <1>4, <1>5, <1>6, <1>7

\* A step inside the transaction.
LEMMA TxStep ==
  ASSUME IInv, NEW w \in Writer, UNCHANGED <<masterVars, thread, ack>>,
         TxOK(w)', pc \in {"removing", "commit", "flush", "root", "failed"},
         pc \in {"flush", "root"} => ack[w] = "none",
         pc = "removing" => op = "delete" /\ queue'[w] = <<>>,
         pc = "commit" => CommitOK(w)'
  PROVE  WriterOK(w)'
<1>1. UNCHANGED pc /\ thread'[w] = "intx" /\ ack'[w] = ack[w] /\ UNCHANGED op
  BY DEF TxOK, masterVars
<1>2. FlushOK(w)' \/ pc \notin {"flush", "root"}
  BY <1>1 DEF FlushOK
<1>3. FailedOK(w)'
  BY DEF FailedOK
<1>. QED  BY <1>1, <1>2, <1>3 DEF WriterOK

\* A command handled inside the transaction that does not end it.
LEMMA InsideStep ==
  ASSUME IInv, NEW w \in Writer, thread[w] = "intx", queue[w] # <<>>,
         Head(queue[w]).cmd # "Shutdown", Consume(w),
         UNCHANGED <<masterVars, thread, ack, dbVars, acked, replaced>>,
         TxTypes', TxOK(w)',
         \A x \in Writer \ {w} : /\ work'[x] = work[x] /\ buf'[x] = buf[x]
                                 /\ failed'[x] = failed[x] /\ flushing'[x] = flushing[x],
         pc = "removing" => queue'[w] = <<>>,
         pc = "commit" => CommitOK(w)',
         w = Root /\ pc = "flush" /\ op = "store" /\ queue'[w] = <<>>
           => buf'[w] = Rows(target)
  PROVE  IInv'
<1>1. MasterTypes /\ queue \in Queues /\ ThreadTypes /\ TxTypes /\ DbTypes
  BY TypeParts DEF IInv
<1>2. TypeOK' /\ MoreTypes'
  BY <1>1, TypesKept, TypePartsNext, ConsumeFacts
<1>3. \A x \in Writer \ {w} : SameWriter(x)
  BY <1>1, ConsumeFacts DEF SameWriter, dbVars
<1>4. \A s \in QueryShards : Asked(s)' => Asked(s)
  BY <1>1, AskedShrinks
<1>5. MasterInv'
  <2>1. /\ UNCHANGED masterVars
        /\ \A x \in Writer \ {w} : ack'[x] = ack[x] /\ queue'[x] = queue[x] /\ buf'[x] = buf[x]
        /\ ack'[w] = ack[w]
    BY <1>3 DEF SameWriter
  <2>2. pc = "flush" => ack'[Root] = "none"
    BY DEF IInv, MasterInv
  <2>3. \A i \in DOMAIN queue'[w] : \E j \in DOMAIN queue[w] : queue'[w][i] = queue[w][j]
    BY <1>1, ConsumeFacts
  <2>. QED  BY <2>1, <2>2, <2>3, MasterKept
<1>6. AskInv'
  BY <1>4 DEF IInv, AskInv, masterVars
<1>7. WriterOK(w)'
  <2>1. /\ pc \in {"removing", "commit", "flush", "root", "failed"}
        /\ pc \in {"flush", "root"} => ack[w] = "none"
    BY InTransactionReceives
  <2>2. pc = "removing" => op = "delete"
    BY DEF IInv, WritersInv, WriterOK
  <2>. QED  BY <2>1, <2>2, TxStep
<1>. QED  BY <1>2, <1>3, <1>4, <1>5, <1>6, <1>7, WriterFrame

\* Which command a writer can find in its transaction, and what that says of the
\* transaction.
LEMMA HeadFacts ==
  ASSUME NEW w \in Writer, TxOK(w), op \in {"store", "delete"}, queue \in Queues,
         queue[w] # <<>>
  PROVE  LET c == Head(queue[w]).cmd
         IN  /\ c \notin {"Begin", "Shutdown"}
             /\ c = "Insert" => /\ op = "store" /\ w \in QueryShards
                                /\ queue[w] \in {<<CInsert, CQuery(w)>>,
                                                 <<CInsert, CQuery(w), CFlush>>}
             /\ c = "Query" => /\ op = "store" /\ w \in QueryShards
                               /\ queue[w] \in {<<CQuery(w)>>, <<CQuery(w), CFlush>>}
                               /\ failed[w] \/ Rows(target) \subseteq work[w]
             /\ c = "Remove" => op = "delete" /\ queue[w] = <<CRemove>>
             /\ c = "Sorted" => /\ op = "store" /\ w \in Plain /\ buf[w] = {}
                                /\ queue[w] \in {<<CSorted>>, <<CSorted, CFlush>>}
             /\ c \in {"Merge", "Ready"} => op = "store" /\ w \in Dependents
             /\ c = "Flush" =>
                  /\ queue[w] = <<CFlush>>
                  /\ op = "store" => \/ w \in Plain /\ buf[w] = Rows(target)
                                     \/ /\ w \in QueryShards
                                        /\ failed[w] \/ Rows(target) \subseteq work[w]
             /\ c = "FlushWhenReady" =>
                  \/ op = "store" /\ w \in Dependents
                  \/ op = "delete" /\ queue[w] = <<CWhenReady>>
<1>. DEFINE c == Head(queue[w]).cmd
<1>0. /\ CBegin.cmd = "Begin" /\ CInsert.cmd = "Insert" /\ CQuery(w).cmd = "Query"
      /\ CRemove.cmd = "Remove" /\ CSorted.cmd = "Sorted" /\ CFlush.cmd = "Flush"
      /\ CWhenReady.cmd = "FlushWhenReady" /\ CShutdown.cmd = "Shutdown"
  BY DEF CBegin, CInsert, CQuery, CRemove, CSorted, CFlush, CWhenReady, CShutdown, Command
<1>1. CASE op = "delete"
  <2>1. queue[w] \in {<<CRemove>>, <<CFlush>>, <<CWhenReady>>}
    BY <1>1 DEF TxOK, DeleteOK
  <2>2. \/ queue[w] = <<CRemove>> /\ c = "Remove"
        \/ queue[w] = <<CFlush>> /\ c = "Flush"
        \/ queue[w] = <<CWhenReady>> /\ c = "FlushWhenReady"
    BY <1>0, <2>1, TupleFacts
  <2>. HIDE DEF c
  <2>3. QED  BY <1>1, <2>2 DEF c
<1>2. CASE op = "store" /\ w \in Plain
  <2>1. PlainOK(w)
    BY <1>2 DEF TxOK, StoreOK
  <2>2. \/ queue[w] \in {<<CSorted>>, <<CSorted, CFlush>>} /\ c = "Sorted" /\ buf[w] = {}
        \/ queue[w] = <<CFlush>> /\ c = "Flush" /\ buf[w] = Rows(target)
    BY <1>0, <2>1, TupleFacts DEF PlainOK
  <2>. HIDE DEF c
  <2>3. QED  BY <1>2, <2>2 DEF c
<1>3. CASE op = "store" /\ w \in QueryShards
  <2>1. QueryOK(w)
    BY <1>3 DEF TxOK, StoreOK
  <2>2. \/ /\ queue[w] \in {<<CInsert, CQuery(w)>>, <<CInsert, CQuery(w), CFlush>>}
           /\ c = "Insert"
        \/ /\ queue[w] \in {<<CQuery(w)>>, <<CQuery(w), CFlush>>} /\ c = "Query"
           /\ failed[w] \/ Rows(target) \subseteq work[w]
        \/ /\ queue[w] = <<CFlush>> /\ c = "Flush"
           /\ failed[w] \/ Rows(target) \subseteq work[w]
    BY <1>0, <2>1, TupleFacts DEF QueryOK
  <2>. HIDE DEF c
  <2>3. QED  BY <1>3, <2>2 DEF c
<1>4. CASE op = "store" /\ w \in Dependents
  <2>1. Paired(queue[w], flushing[w].sender)
    BY <1>4 DEF TxOK, StoreOK, DependentOK
  <2>2. 1 \in DOMAIN queue[w] /\ Head(queue[w]) = queue[w][1]
    <3>1. queue[w] \in Seq([cmd : Commands, rows : SUBSET Row])
      BY DEF Queues
    <3>. QED  BY <3>1
  <2>3. c \in {"Merge", "Ready", "FlushWhenReady"}
    BY <2>1, <2>2 DEF Paired
  <2>. HIDE DEF c
  <2>4. QED  BY <1>4, <2>3 DEF c
<1>. QED  BY <1>1, <1>2, <1>3, <1>4, ShardFacts

-----------------------------------------------------------------------------
(* Commands that do not end a transaction. *)

\* An open transaction satisfies what the commands rely on, whatever follows.
LEMMA OpenIsTx ==
  ASSUME NEW w \in Writer, thread'[w] = "intx", queue'[w] = <<>>, Open(w)'
  PROVE  TxOK(w)'
<1>1. PlainOK(w)' /\ QueryOK(w)' /\ DeleteOK(w)'
  BY DEF Open, PlainOK, QueryOK, DeleteOK, NoFlush
<1>2. DependentOK(w)'
  <2>1. Cardinality({}) = 0
    BY FS_EmptySet
  <2>2. flushing'[w].sum = 0 /\ flushing'[w].shards = 0
    BY DEF Open, NoFlush
  <2>3. DOMAIN queue'[w] = {}
    OBVIOUS
  <2>4. target' \X {} = {}
    OBVIOUS
  <2>5. Collected(w, {})'
    BY <2>1, <2>2, <2>3, <2>4 DEF Collected, Open
  <2>6. Paired(queue[w], flushing[w].sender)'
    BY <2>3 DEF Paired
  <2>. QED  BY <2>2, <2>5, <2>6 DEF DependentOK, Open
<1>. QED  BY <1>1, <1>2 DEF TxOK, StoreOK

\* Begin outside a transaction.
LEMMA WriterBeginStep ==
  ASSUME IInv, NEW w \in Writer, WriterBegin(w)
  PROVE  IInv'
<1>1. MasterTypes /\ queue \in Queues /\ ThreadTypes /\ TxTypes /\ DbTypes /\ WriterOK(w)
  BY TypeParts DEF IInv, WritersInv
<1>2. /\ queue[w] # <<>> /\ Head(queue[w]).cmd = "Begin" /\ thread[w] = "outer" /\ Consume(w)
      /\ UNCHANGED <<masterVars, dbVars, acked, replaced>>
  BY DEF WriterBegin, Receives
<1>3. /\ pc \in {"begin", "failed"} /\ queue[w] = <<CBegin>>
      /\ pc = "begin" => ack[w] = "none"
  <2>1. pc # "stop"
    <3>1. Head(<<CShutdown>>).cmd = "Shutdown"
      BY TupleFacts DEF CShutdown, Command
    <3>. QED  BY <1>1, <1>2, <3>1 DEF WriterOK, StopOK
  <2>2. pc \notin {"removing", "commit", "flush", "root"}
    BY <1>1, <1>2 DEF WriterOK, CommitOK, FlushOK, TxOK, DoneOK, ThreadTypes
  <2>3. pc \in {"begin", "failed"}
    BY <1>1, <1>2, <2>1, <2>2 DEF WriterOK, MasterTypes
  <2>. QED  BY <1>1, <1>2, <2>3 DEF WriterOK, BeginOK, FailedOK, TxOK
<1>4. queue'[w] = <<>> /\ queue' \in Queues /\ \A x \in Writer \ {w} : queue'[x] = queue[x]
  BY <1>1, <1>2, <1>3, ConsumeFacts, TupleFacts
<1>5. buf[w] = {} /\ ~failed[w] /\ flushing[w] = NoFlush
  BY <1>1, <1>2 DEF WriterOK
<1>6. /\ ThreadTypes' /\ TxTypes'
      /\ \A x \in Writer \ {w} :
           /\ thread'[x] = thread[x] /\ ack'[x] = ack[x] /\ work'[x] = work[x]
           /\ UNCHANGED <<buf, failed, flushing>>
      /\ \/ thread'[w] = "intx" /\ ack'[w] = "ok" /\ Open(w)'
         \/ thread'[w] = "outer" /\ ack'[w] = "err"
      /\ buf'[w] = {} /\ ~failed'[w] /\ flushing'[w] = NoFlush
  <2>0. db[w] \in SUBSET Row
    BY <1>1 DEF DbTypes
  <2>1. CASE /\ thread' = [thread EXCEPT ![w] = "intx"]
             /\ ack' = [ack EXCEPT ![w] = "ok"]
             /\ work' = [work EXCEPT ![w] = db[w]]
             /\ UNCHANGED <<buf, failed, flushing, failures>>
    <3>1. ThreadTypes' /\ TxTypes'
      BY <1>1, <2>0, <2>1 DEF ThreadTypes, TxTypes
    <3>2. thread'[w] = "intx" /\ ack'[w] = "ok" /\ work'[w] = db[w]
      BY <1>1, <2>1 DEF ThreadTypes, TxTypes
    <3>3. \A x \in Writer \ {w} : thread'[x] = thread[x] /\ ack'[x] = ack[x] /\ work'[x] = work[x]
      BY <1>1, <2>1 DEF ThreadTypes, TxTypes
    <3>. QED  BY <1>2, <1>5, <2>1, <3>1, <3>2, <3>3 DEF Open, dbVars
  <2>2. CASE /\ ack' = [ack EXCEPT ![w] = "err"]
             /\ UNCHANGED <<thread, txVars>>
    <3>1. ThreadTypes' /\ TxTypes'
      BY <1>1, <2>2 DEF ThreadTypes, TxTypes, txVars
    <3>. QED  BY <1>1, <1>2, <1>5, <2>2, <3>1 DEF ThreadTypes, txVars
  <2>. QED  BY <2>1, <2>2 DEF WriterBegin
<1>7. TypeOK' /\ MoreTypes'
  BY <1>1, <1>2, <1>4, <1>6, TypesKept, TypePartsNext
<1>8. \A x \in Writer \ {w} : SameWriter(x)
  BY <1>2, <1>4, <1>6 DEF SameWriter, dbVars
<1>9. \A s \in QueryShards : Asked(s)' => Asked(s)
  BY <1>1, <1>2, AskedShrinks
<1>10. AskInv'
  <2>1. \A x \in Writer : thread[x] = "intx" => thread'[x] = "intx"
    BY <1>2, <1>6
  <2>. QED  BY <1>2, <1>9, <2>1, ShardFacts DEF IInv, AskInv, masterVars
<1>11. MasterInv'
  <2>1. \A x \in Writer \ {w} : ack'[x] = ack[x] /\ queue'[x] = queue[x] /\ buf'[x] = buf[x]
    BY <1>4, <1>6
  <2>2. DOMAIN queue'[w] = {}
    BY <1>4
  <2>. QED  BY <1>2, <1>3, <2>1, <2>2, MasterKept
<1>12. WriterOK(w)'
  <2>1. UNCHANGED pc
    BY <1>2 DEF masterVars
  <2>2. CASE thread'[w] = "intx" /\ ack'[w] = "ok" /\ Open(w)'
    BY <1>3, <1>4, <2>1, <2>2, OpenIsTx DEF WriterOK, BeginOK, FailedOK
  <2>3. CASE thread'[w] = "outer" /\ ack'[w] = "err"
    BY <1>3, <1>4, <1>6, <2>1, <2>3 DEF WriterOK, BeginOK, FailedOK
  <2>. QED  BY <1>6, <2>2, <2>3
<1>. QED  BY <1>2, <1>7, <1>8, <1>9, <1>10, <1>11, <1>12, WriterFrame

\* The transaction of one writer.
LEMMA TxSame ==
  ASSUME TxTypes, NEW w \in Writer
  PROVE  /\ work[w] \in SUBSET Row /\ buf[w] \in SUBSET Row /\ failed[w] \in BOOLEAN
         /\ flushing[w] \in [sender : BOOLEAN, sum : Nat, shards : Nat]
BY DEF TxTypes

\* WriteInsertNow: an index shard takes the rows, or remembers that it could not.
LEMMA WriterInsertStep ==
  ASSUME IInv, NEW w \in Writer, WriterInsert(w)
  PROVE  IInv'
<1>1. MasterTypes /\ queue \in Queues /\ ThreadTypes /\ TxTypes /\ DbTypes /\ WriterOK(w)
  BY TypeParts DEF IInv, WritersInv
<1>2. /\ queue[w] # <<>> /\ Head(queue[w]).cmd = "Insert" /\ thread[w] = "intx" /\ Consume(w)
      /\ UNCHANGED <<masterVars, thread, ack, dbVars, acked, replaced>>
      /\ UNCHANGED <<pc, op, target, deferred>>
  BY DEF WriterInsert, Receives, masterVars
<1>3. TxOK(w) /\ op = "store" /\ w \in QueryShards
      /\ queue[w] \in {<<CInsert, CQuery(w)>>, <<CInsert, CQuery(w), CFlush>>}
  BY <1>1, <1>2, InTransactionReceives, HeadFacts DEF MasterTypes
<1>4. /\ queue[w] = <<CInsert, CQuery(w)>> => queue'[w] = <<CQuery(w)>>
      /\ queue[w] = <<CInsert, CQuery(w), CFlush>> => queue'[w] = <<CQuery(w), CFlush>>
      /\ queue'[w] # <<>> /\ Received(w) = Rows(target)
  <2>1. CInsert.rows = Rows(target)
    BY DEF CInsert, Command
  <2>2. queue'[w] = Tail(queue[w])
    BY <1>1, <1>2, ConsumeFacts
  <2>3. CASE queue[w] = <<CInsert, CQuery(w)>>
    <3>1. Head(queue[w]) = CInsert /\ queue'[w] = <<CQuery(w)>>
      BY <2>2, <2>3, TupleFacts
    <3>2. queue[w] # <<CInsert, CQuery(w), CFlush>>
      BY <2>2, <2>3, TupleFacts
    <3>. QED  BY <2>1, <3>1, <3>2, TupleFacts DEF Received
  <2>4. CASE queue[w] = <<CInsert, CQuery(w), CFlush>>
    <3>1. Head(queue[w]) = CInsert /\ queue'[w] = <<CQuery(w), CFlush>>
      BY <2>2, <2>4, TupleFacts
    <3>2. queue[w] # <<CInsert, CQuery(w)>>
      BY <2>2, <2>4, TupleFacts
    <3>. QED  BY <2>1, <3>1, <3>2, TupleFacts DEF Received
  <2>. QED  BY <1>3, <2>3, <2>4
<1>5. QueryOK(w) /\ Rows(target) \in SUBSET Row
  BY <1>1, <1>3, CommandTypes DEF TxOK, StoreOK, MasterTypes
<1>6. /\ TxTypes' /\ buf'[w] = buf[w] /\ flushing'[w] = flushing[w]
      /\ work[w] \subseteq work'[w] /\ (failed'[w] \/ Rows(target) \subseteq work'[w])
      /\ \A x \in Writer \ {w} : /\ work'[x] = work[x] /\ buf'[x] = buf[x]
                                 /\ failed'[x] = failed[x] /\ flushing'[x] = flushing[x]
  <2>. DEFINE W == work[w] \cup Rows(target)
  <2>1. CASE StepFails(w)
    <3>1. UNCHANGED <<work, buf, flushing>> /\ failed' = [failed EXCEPT ![w] = TRUE]
      BY <2>1 DEF StepFails
    <3>2. TxTypes' /\ failed'[w] /\ \A x \in Writer \ {w} : failed'[x] = failed[x]
      BY <1>1, <3>1 DEF TxTypes
    <3>. QED  BY <3>1, <3>2
  <2>2. CASE /\ work' = [work EXCEPT ![w] = @ \cup Received(w)]
             /\ UNCHANGED <<buf, failed, flushing, failures>>
    <3>1. W \in SUBSET Row
      BY <1>1, <1>5, TxSame
    <3>2. work' = [work EXCEPT ![w] = W]
      BY <1>4, <2>2
    <3>3. TxTypes' /\ work'[w] = W /\ \A x \in Writer \ {w} : work'[x] = work[x]
      <4>. HIDE DEF W
      <4>. QED  BY <1>1, <2>2, <3>1, <3>2 DEF TxTypes
    <3>. QED  BY <2>2, <3>3
  <2>. QED  BY <2>1, <2>2 DEF WriterInsert
<1>8. CInsert' = CInsert /\ CQuery(w)' = CQuery(w) /\ CFlush' = CFlush /\ Rows(target)' = Rows(target)
      /\ db' = db
  BY <1>2 DEF CInsert, CQuery, CFlush, Command, Rows, dbVars
<1>9. queue'[w] \in {<<CQuery(w)>>, <<CQuery(w), CFlush>>}
  BY <1>3, <1>4
<1>10. QueryOK(w)'
  BY <1>5, <1>6, <1>8, <1>9 DEF QueryOK
<1>11. TxOK(w)'
  BY <1>2, <1>3, <1>10, ShardFacts DEF TxOK, StoreOK
<1>12. ASSUME pc = "commit" PROVE CommitOK(w)'
  <2>1. deferred /\ queue[w] \in {<<CInsert, CQuery(w)>>, <<CQuery(w)>>}
    BY <1>1, <1>2, <1>3, <1>12 DEF WriterOK, CommitOK
  <2>2. <<CQuery(w)>> # <<CInsert, CQuery(w)>> /\ <<CQuery(w)>> # <<CInsert, CQuery(w), CFlush>>
        /\ <<CInsert, CQuery(w), CFlush>> # <<CInsert, CQuery(w)>>
    BY TupleFacts
  <2>3. queue'[w] = <<CQuery(w)>>
    BY <1>3, <1>4, <2>1, <2>2
  <2>. QED  BY <1>2, <1>3, <1>8, <1>11, <2>1, <2>3, ShardFacts DEF CommitOK
<1>13. pc # "removing"
  BY <1>1, <1>3 DEF WriterOK
<1>14. w # Root
  BY <1>3, OrderFacts, ShardFacts
<1>. QED  BY <1>2, <1>6, <1>11, <1>12, <1>13, <1>14, InsideStep

\* Remove: a delete takes the rows of its blocks, or remembers that it could not.
LEMMA WriterRemoveStep ==
  ASSUME IInv, NEW w \in Writer, WriterRemove(w)
  PROVE  IInv'
<1>1. MasterTypes /\ queue \in Queues /\ ThreadTypes /\ TxTypes /\ DbTypes /\ WriterOK(w)
  BY TypeParts DEF IInv, WritersInv
<1>2. /\ queue[w] # <<>> /\ Head(queue[w]).cmd = "Remove" /\ thread[w] = "intx" /\ Consume(w)
      /\ UNCHANGED <<masterVars, thread, ack, dbVars, acked, replaced>>
      /\ UNCHANGED <<pc, op, target, deferred>>
  BY DEF WriterRemove, Receives, masterVars
<1>3. TxOK(w) /\ op = "delete" /\ queue[w] = <<CRemove>>
  BY <1>1, <1>2, InTransactionReceives, HeadFacts DEF MasterTypes
<1>4. queue'[w] = <<>> /\ Received(w) = Rows(target)
  <2>1. CRemove.rows = Rows(target)
    BY DEF CRemove, Command
  <2>2. queue'[w] = Tail(queue[w])
    BY <1>1, <1>2, ConsumeFacts
  <2>. QED  BY <1>3, <2>1, <2>2, TupleFacts DEF Received
<1>5. DeleteOK(w) /\ Rows(target) \in SUBSET Row
  BY <1>1, <1>3, CommandTypes DEF TxOK, MasterTypes
<1>6. /\ TxTypes' /\ buf'[w] = buf[w] /\ flushing'[w] = flushing[w]
      /\ work'[w] \subseteq work[w] /\ work[w] \subseteq work'[w] \cup Rows(target)
      /\ \A x \in Writer \ {w} : /\ work'[x] = work[x] /\ buf'[x] = buf[x]
                                 /\ failed'[x] = failed[x] /\ flushing'[x] = flushing[x]
  <2>. DEFINE W == work[w] \ Rows(target)
  <2>1. CASE StepFails(w)
    <3>1. UNCHANGED <<work, buf, flushing>> /\ failed' = [failed EXCEPT ![w] = TRUE]
      BY <2>1 DEF StepFails
    <3>2. TxTypes' /\ failed'[w] /\ \A x \in Writer \ {w} : failed'[x] = failed[x]
      BY <1>1, <3>1 DEF TxTypes
    <3>. QED  BY <3>1, <3>2
  <2>2. CASE /\ work' = [work EXCEPT ![w] = @ \ Received(w)]
             /\ UNCHANGED <<buf, failed, flushing, failures>>
    <3>1. W \in SUBSET Row
      BY <1>1, <1>5, TxSame
    <3>2. work' = [work EXCEPT ![w] = W]
      BY <1>4, <2>2
    <3>3. TxTypes' /\ work'[w] = W /\ \A x \in Writer \ {w} : work'[x] = work[x]
      <4>. HIDE DEF W
      <4>. QED  BY <1>1, <2>2, <3>1, <3>2 DEF TxTypes
    <3>. QED  BY <2>2, <3>3
  <2>. QED  BY <2>1, <2>2 DEF WriterRemove
<1>8. DeleteOK(w)'
  <2>1. Rows(target)' = Rows(target) /\ db' = db
    BY <1>2 DEF Rows, dbVars
  <2>. QED  BY <1>4, <1>5, <1>6, <2>1 DEF DeleteOK
<1>9. TxOK(w)'
  BY <1>2, <1>3, <1>8 DEF TxOK
<1>10. pc # "commit"
  BY <1>1, <1>2, <1>3 DEF WriterOK, CommitOK
<1>. QED  BY <1>2, <1>3, <1>4, <1>6, <1>9, <1>10, InsideStep

\* The pairing of Merge and Ready survives taking the first command; a flush
\* command that is taken was the only one.
LEMMA PairedTail ==
  ASSUME NEW C, NEW q \in Seq(C), q # <<>>, NEW b \in BOOLEAN, NEW c \in BOOLEAN,
         Paired(q, b), c => b \/ q[1].cmd = "FlushWhenReady"
  PROVE  Paired(Tail(q), c)
<1>. DEFINE t == Tail(q)
<1>1. /\ DOMAIN q = 1 .. Len(q) /\ DOMAIN t = 1 .. (Len(q) - 1)
      /\ Len(q) \in Nat /\ 1 \in DOMAIN q
      /\ \A i \in DOMAIN t : t[i] = q[i + 1]
  OBVIOUS
<1>. HIDE DEF t
<1>. SUFFICES ASSUME NEW i \in DOMAIN t
              PROVE  /\ t[i].cmd \in {"Merge", "Ready", "FlushWhenReady"}
                     /\ t[i].cmd = "Merge" => i + 1 \in DOMAIN t /\ t[i + 1].cmd = "Ready"
                     /\ t[i].cmd = "Ready" /\ i # 1 => t[i - 1].cmd = "Merge"
                     /\ t[i].cmd = "FlushWhenReady" => ~c
                     /\ \A j \in DOMAIN t :
                          /\ t[i].cmd = "Merge" /\ t[j].cmd = "Merge" /\ t[i].rows = t[j].rows
                               => i = j
                          /\ t[i].cmd = "FlushWhenReady" /\ t[j].cmd = "FlushWhenReady"
                               => i = j
  BY DEF Paired, t
<1>2. i + 1 \in DOMAIN q /\ t[i] = q[i + 1] /\ i \in Int /\ i >= 1
  BY <1>1
<1>3. t[i].cmd \in {"Merge", "Ready", "FlushWhenReady"}
  BY <1>2 DEF Paired
<1>4. ASSUME t[i].cmd = "Merge" PROVE i + 1 \in DOMAIN t /\ t[i + 1].cmd = "Ready"
  <2>1. (i + 1) + 1 \in DOMAIN q /\ q[(i + 1) + 1].cmd = "Ready"
    BY <1>2, <1>4 DEF Paired
  <2>2. i + 1 \in DOMAIN t
    BY <1>1, <1>2, <2>1
  <2>. QED  BY <1>1, <2>1, <2>2
<1>5. ASSUME t[i].cmd = "Ready", i # 1 PROVE t[i - 1].cmd = "Merge"
  <2>1. i + 1 # 1 /\ (i + 1) - 1 = i /\ i - 1 \in DOMAIN t /\ (i - 1) + 1 = i
    BY <1>1, <1>2, <1>5
  <2>2. q[(i + 1) - 1].cmd = "Merge"
    BY <1>2, <1>5, <2>1 DEF Paired
  <2>3. t[i - 1] = q[(i - 1) + 1]
    BY <1>1, <2>1
  <2>. QED  BY <2>1, <2>2, <2>3
<1>6. ASSUME NEW j \in DOMAIN t
      PROVE  /\ t[i].cmd = "Merge" /\ t[j].cmd = "Merge" /\ t[i].rows = t[j].rows => i = j
             /\ t[i].cmd = "FlushWhenReady" /\ t[j].cmd = "FlushWhenReady" => i = j
  <2>1. j + 1 \in DOMAIN q /\ t[j] = q[j + 1] /\ j \in Int
    BY <1>1
  <2>2. i + 1 = j + 1 => i = j
    BY <1>2, <2>1
  <2>. QED  BY <1>2, <2>1, <2>2 DEF Paired
<1>7. ASSUME t[i].cmd = "FlushWhenReady" PROVE ~c
  <2>1. ~b
    BY <1>2, <1>7 DEF Paired
  <2>2. i + 1 # 1
    BY <1>2
  <2>3. q[1].cmd # "FlushWhenReady"
    BY <1>1, <1>2, <1>7, <2>2 DEF Paired
  <2>. QED  BY <2>1, <2>3
<1>. QED  BY <1>3, <1>4, <1>5, <1>6, <1>7

\* WriteSortedInsertsOnFlush in a column that is neither queried nor dependent:
\* nothing else has been buffered there, so that it is never refused.
LEMMA WriterSortedStep ==
  ASSUME IInv, NEW w \in Writer, WriterBuffer(w), Head(queue[w]).cmd = "Sorted"
  PROVE  IInv'
<1>1. MasterTypes /\ queue \in Queues /\ ThreadTypes /\ TxTypes /\ DbTypes /\ WriterOK(w)
  BY TypeParts DEF IInv, WritersInv
<1>2. /\ queue[w] # <<>> /\ thread[w] = "intx" /\ Consume(w)
      /\ UNCHANGED <<masterVars, thread, ack, dbVars, acked, replaced>>
      /\ UNCHANGED <<pc, op, target, deferred, db, work, flushing>>
  BY DEF WriterBuffer, Receives, masterVars, dbVars
<1>3. TxOK(w) /\ op = "store" /\ w \in Plain /\ buf[w] = {}
      /\ queue[w] \in {<<CSorted>>, <<CSorted, CFlush>>}
  BY <1>1, <1>2, InTransactionReceives, HeadFacts DEF MasterTypes
<1>4. queue'[w] \in {<<>>, <<CFlush>>} /\ Received(w) = Rows(target)
  <2>1. CSorted.rows = Rows(target)
    BY DEF CSorted, Command
  <2>2. queue'[w] = Tail(queue[w])
    BY <1>1, <1>2, ConsumeFacts
  <2>3. Head(queue[w]) = CSorted /\ Tail(queue[w]) \in {<<>>, <<CFlush>>}
    BY <1>3, TupleFacts
  <2>. QED  BY <2>1, <2>2, <2>3 DEF Received
<1>5. PlainOK(w) /\ Rows(target) \in SUBSET Row
  BY <1>1, <1>3, CommandTypes DEF TxOK, StoreOK, MasterTypes
<1>6. /\ TxTypes' /\ buf'[w] = Rows(target) /\ failed' = failed
      /\ \A x \in Writer \ {w} : buf'[x] = buf[x]
  <2>1. buf' = [buf EXCEPT ![w] = Rows(target)] /\ UNCHANGED failed
    BY <1>3, <1>4 DEF WriterBuffer
  <2>. QED  BY <1>1, <1>2, <1>5, <2>1 DEF TxTypes
<1>7. PlainOK(w)'
  <2>1. CSorted' = CSorted /\ CFlush' = CFlush /\ Rows(target)' = Rows(target)
    BY <1>2 DEF CSorted, CFlush, Command, Rows
  <2>. QED  BY <1>2, <1>4, <1>5, <1>6, <2>1 DEF PlainOK
<1>8. TxOK(w)'
  BY <1>2, <1>3, <1>7, ShardFacts DEF TxOK, StoreOK
<1>9. pc # "commit" /\ pc # "removing"
  BY <1>1, <1>2, <1>3 DEF WriterOK, CommitOK
<1>. QED  BY <1>2, <1>6, <1>8, <1>9, InsideStep

\* A dependent in a store finds Merge: rows of a shard it does not have yet, whose
\* Ready follows.
LEMMA WriterMergeStep ==
  ASSUME IInv, NEW w \in Writer, WriterBuffer(w), Head(queue[w]).cmd = "Merge"
  PROVE  IInv'
<1>1. MasterTypes /\ queue \in Queues /\ ThreadTypes /\ TxTypes /\ DbTypes /\ WriterOK(w)
  BY TypeParts DEF IInv, WritersInv
<1>2. /\ queue[w] # <<>> /\ thread[w] = "intx" /\ Consume(w)
      /\ UNCHANGED <<masterVars, thread, ack, dbVars, acked, replaced>>
      /\ UNCHANGED <<pc, op, target, deferred, db, work, flushing>>
  BY DEF WriterBuffer, Receives, masterVars, dbVars
<1>3. TxOK(w) /\ op = "store" /\ w \in Dependents
  BY <1>1, <1>2, InTransactionReceives, HeadFacts DEF MasterTypes
<1>4. /\ queue'[w] = Tail(queue[w]) /\ Head(queue[w]) = queue[w][1] /\ 1 \in DOMAIN queue[w]
      /\ queue[w][1].rows \in SUBSET Row /\ DOMAIN queue[w] = 1 .. Len(queue[w])
      /\ Len(queue[w]) \in Nat
      /\ \A i \in DOMAIN queue'[w] :
           i \in Nat /\ i >= 1 /\ i + 1 \in DOMAIN queue[w] /\ queue'[w][i] = queue[w][i + 1]
  BY <1>1, <1>2, ConsumeFacts
<1>5. DependentOK(w)
  BY <1>3, ShardFacts DEF TxOK, StoreOK
<1>6. PICK D \in SUBSET QueryShards : Collected(w, D)
  BY <1>5 DEF DependentOK
<1>7. PICK s \in QueryShards \ D : queue[w][1].rows = target \X {s} /\ ~Asked(s)
  BY <1>4, <1>6 DEF Collected
<1>8. /\ TxTypes' /\ failed' = failed /\ buf'[w] = buf[w] \cup (target \X {s})
      /\ \A x \in Writer \ {w} : buf'[x] = buf[x]
  <2>. DEFINE B == buf[w] \cup queue[w][1].rows
  <2>1. buf' = [buf EXCEPT ![w] = B] /\ UNCHANGED failed /\ B \in SUBSET Row
    BY <1>1, <1>4, TxSame DEF WriterBuffer, Received
  <2>. HIDE DEF B
  <2>2. TxTypes' /\ buf'[w] = B /\ \A x \in Writer \ {w} : buf'[x] = buf[x]
    BY <1>1, <1>2, <2>1 DEF TxTypes
  <2>. QED  BY <1>7, <2>1, <2>2 DEF B
<1>9. Paired(queue[w], flushing[w].sender)
  BY <1>5 DEF DependentOK
<1>10. queue'[w] # <<>> /\ Head(queue'[w]).cmd = "Ready"
  <2>1. 1 + 1 \in DOMAIN queue[w] /\ queue[w][1 + 1].cmd = "Ready"
    BY <1>4, <1>9 DEF Paired
  <2>2. queue'[w] \in Seq([cmd : Commands, rows : SUBSET Row]) /\ Len(queue'[w]) = Len(queue[w]) - 1
    BY <1>1, <1>2, ConsumeFacts DEF Queues
  <2>3. Len(queue'[w]) >= 1
    BY <1>4, <2>1, <2>2
  <2>4. 1 \in DOMAIN queue'[w] /\ Head(queue'[w]) = queue'[w][1] /\ queue'[w] # <<>>
    BY <2>2, <2>3
  <2>. QED  BY <1>4, <2>1, <2>4
<1>11. Collected(w, D \cup {s})'
  <2>1. buf'[w] = target' \X (D \cup {s})
    <3>1. buf[w] = target \X D
      BY <1>6 DEF Collected
    <3>. QED  BY <1>2, <1>8, <3>1
  <2>2. \A r \in QueryShards : Asked(r)' => Asked(r)
    BY <1>1, <1>2, AskedShrinks
  <2>3. \A r \in D \cup {s} : ~Asked(r)'
    BY <1>6, <1>7, <2>2 DEF Collected
  <2>4. Cardinality(D \cup {s}) = flushing[w].sum + 1
    <3>1. IsFiniteSet(D)
      BY ShardFacts, FS_Subset
    <3>2. Cardinality(D) = flushing[w].sum
      BY <1>2, <1>6 DEF Collected
    <3>. QED  BY <1>7, <3>1, <3>2, FS_AddElement
  <2>5. ASSUME NEW i \in DOMAIN queue'[w], queue'[w][i].cmd = "Merge"
        PROVE  \E r \in QueryShards \ (D \cup {s}) :
                 queue'[w][i].rows = target' \X {r} /\ ~Asked(r)'
    <3>1. i + 1 \in DOMAIN queue[w] /\ queue'[w][i] = queue[w][i + 1] /\ i + 1 # 1
      BY <1>4
    <3>2. PICK r \in QueryShards \ D : queue[w][i + 1].rows = target \X {r} /\ ~Asked(r)
      BY <1>6, <2>5, <3>1 DEF Collected
    <3>3. r # s
      <4>. SUFFICES ASSUME r = s PROVE FALSE
        OBVIOUS
      <4>1. queue[w][i + 1].rows = queue[w][1].rows
        BY <1>7, <3>2
      <4>. QED  BY <1>4, <1>9, <2>5, <3>1, <4>1 DEF Paired
    <3>. QED  BY <1>2, <2>2, <3>1, <3>2, <3>3
  <2>. QED  BY <1>2, <1>10, <2>1, <2>3, <2>4, <2>5 DEF Collected
<1>12. Paired(queue[w], flushing[w].sender)'
  <2>1. queue[w] \in Seq([cmd : Commands, rows : SUBSET Row]) /\ flushing[w].sender \in BOOLEAN
    BY <1>1 DEF Queues, TxTypes
  <2>. QED  BY <1>2, <1>4, <1>9, <2>1, PairedTail
<1>13. TxOK(w)'
  <2>1. D \cup {s} \in SUBSET QueryShards
    OBVIOUS
  <2>2. DependentOK(w)'
    BY <1>2, <1>5, <1>11, <1>12, <2>1 DEF DependentOK
  <2>. QED  BY <1>2, <1>3, <2>2, ShardFacts DEF TxOK, StoreOK
<1>14. ASSUME pc = "commit" PROVE CommitOK(w)'
  <2>1. deferred /\ ~flushing[w].sender
        /\ \A i \in DOMAIN queue[w] : queue[w][i].cmd # "FlushWhenReady"
    BY <1>1, <1>3, <1>14 DEF WriterOK, CommitOK
  <2>. QED  BY <1>2, <1>3, <1>4, <1>13, <2>1, ShardFacts DEF CommitOK
<1>15. pc # "removing"
  BY <1>1, <1>3 DEF WriterOK
<1>16. w # Root
  BY <1>3, OrderFacts, ShardFacts
<1>. QED  BY <1>2, <1>8, <1>13, <1>14, <1>15, <1>16, InsideStep

-----------------------------------------------------------------------------
(* The end of a transaction. *)

\* What a transaction takes away from a database was recorded as replaced, was not
\* acknowledged, and what it adds are the rows of the blocks being written.
LEMMA TxContents ==
  ASSUME IInv, NEW w \in Writer, TxOK(w)
  PROVE  /\ db[w] \subseteq work[w] \cup buf[w] \cup Rows(replaced)
         /\ Rows(acked) \subseteq work[w] \cup buf[w]
         /\ w = Root => work[w] \cup buf[w] \subseteq
                          db[w] \cup (IF op = "store" THEN Rows(target) ELSE {})
<1>1. op \in {"store", "delete"} /\ HistoryInv /\ Rows(acked) \subseteq db[w]
  BY TypeParts DEF IInv, MasterTypes, AckedIsStored
<1>2. CASE op = "store"
  <2>1. StoreOK(w)
    BY <1>2 DEF TxOK
  <2>2. db[w] \subseteq work[w]
    BY <2>1, ShardFacts DEF StoreOK, PlainOK, QueryOK, DependentOK
  <2>3. w = Root => work[w] = db[w] /\ buf[w] \in {{}, Rows(target)}
    BY <2>1, OrderFacts DEF StoreOK, PlainOK
  <2>. QED  BY <1>1, <1>2, <2>2, <2>3
<1>3. CASE op = "delete"
  <2>1. DeleteOK(w)
    BY <1>3 DEF TxOK
  <2>2. work[w] \subseteq db[w] /\ db[w] \subseteq work[w] \cup Rows(target) /\ buf[w] = {}
    BY <2>1 DEF DeleteOK
  <2>3. target \subseteq replaced /\ acked \cap target = {}
    BY <1>1, <1>3 DEF HistoryInv
  <2>4. Rows(target) \subseteq Rows(replaced) /\ Rows(acked) \cap Rows(target) = {}
    BY <2>3 DEF Rows
  <2>. QED  BY <1>1, <1>3, <2>2, <2>4
<1>. QED  BY <1>1, <1>2, <1>3

\* A flush, when nothing more is queued: it keeps the databases consistent, and
\* for the root because all the others have committed.
LEMMA FlushKeeps ==
  ASSUME IInv, NEW w \in Writer, thread[w] = "intx", queue[w] # <<>>,
         Head(queue[w]).cmd # "Shutdown", Consume(w), FlushTx(w), queue'[w] = <<>>,
         UNCHANGED <<masterVars, acked, replaced>>,
         pc \in {"flush", "root", "failed"},
         ~failed[w] /\ op = "store" => Rows(target) \subseteq work[w] \cup buf[w],
         w = Root => pc = "root",
         w \in Dependents => \A s \in QueryShards : ~Asked(s)
  PROVE  IInv'
<1>1. MasterTypes /\ queue \in Queues /\ ThreadTypes /\ TxTypes /\ DbTypes
  BY TypeParts DEF IInv
<1>2. TxOK(w) /\ (pc \in {"flush", "root"} => ack[w] = "none")
  BY InTransactionReceives
<1>3. UNCHANGED <<pc, op, target, durability, deferred>>
  BY DEF masterVars
<1>4. /\ queue' \in Queues /\ \A x \in Writer \ {w} : queue'[x] = queue[x]
      /\ \A s \in QueryShards : Asked(s)' => Asked(s)
  BY <1>1, ConsumeFacts, AskedShrinks
<1>5. /\ TxTypes' /\ thread' \in [Writer -> {"outer", "intx", "dead"}] /\ thread'[w] = "outer"
      /\ work'[w] = {} /\ buf'[w] = {} /\ ~failed'[w] /\ flushing'[w] = NoFlush
      /\ \A x \in Writer \ {w} :
           /\ thread'[x] = thread[x] /\ work'[x] = work[x] /\ buf'[x] = buf[x]
           /\ failed'[x] = failed[x] /\ flushing'[x] = flushing[x]
  <2>1. thread' = [thread EXCEPT ![w] = "outer"] /\ DropTx({w})
    BY DEF FlushTx
  <2>2. NoFlush \in [sender : BOOLEAN, sum : Nat, shards : Nat]
    BY DEF NoFlush
  <2>3. TxTypes'
    BY <1>1, <2>1, <2>2 DEF DropTx, TxTypes
  <2>4. thread' \in [Writer -> {"outer", "intx", "dead"}] /\ thread'[w] = "outer"
        /\ \A x \in Writer \ {w} : thread'[x] = thread[x]
    BY <1>1, <2>1 DEF ThreadTypes
  <2>. QED  BY <2>1, <2>3, <2>4 DEF DropTx
<1>6. /\ ack' \in [Writer -> {"none", "ok", "err"}] /\ DbTypes'
      /\ \A x \in Writer \ {w} : ack'[x] = ack[x] /\ db'[x] = db[x] /\ safe'[x] = safe[x]
      /\ \/ /\ ~failed[w] /\ ack'[w] = "ok" /\ db'[w] = work[w] \cup buf[w]
            /\ safe'[w] = IF durability THEN db'[w] ELSE safe[w]
         \/ ack'[w] = "err" /\ UNCHANGED dbVars
  <2>1. CASE /\ ~failed[w]
             /\ ack' = [ack EXCEPT ![w] = "ok"]
             /\ db' = [db EXCEPT ![w] = work[w] \cup buf[w]]
             /\ safe' = [safe EXCEPT ![w] = IF durability THEN db'[w] ELSE @]
    <3>1. work[w] \cup buf[w] \in SUBSET Row
      BY <1>1, TxSame
    <3>2. db' \in [Writer -> SUBSET Row] /\ db'[w] = work[w] \cup buf[w]
          /\ \A x \in Writer \ {w} : db'[x] = db[x]
      BY <1>1, <2>1, <3>1 DEF DbTypes
    <3>3. /\ safe' \in [Writer -> SUBSET Row]
          /\ safe'[w] = IF durability THEN db'[w] ELSE safe[w]
          /\ \A x \in Writer \ {w} : safe'[x] = safe[x]
      BY <1>1, <2>1, <3>2 DEF DbTypes
    <3>. QED  BY <1>1, <2>1, <3>2, <3>3 DEF ThreadTypes, DbTypes
  <2>2. CASE ack' = [ack EXCEPT ![w] = "err"] /\ UNCHANGED dbVars
    BY <1>1, <2>2 DEF ThreadTypes, DbTypes, dbVars
  <2>. QED  BY <2>1, <2>2 DEF FlushTx
<1>7. TypeOK' /\ MoreTypes'
  <2>1. MasterTypes'
    BY <1>1, TypesKept
  <2>. QED  BY <1>4, <1>5, <1>6, <2>1, TypePartsNext DEF ThreadTypes
<1>8. \A x \in Writer \ {w} : SameWriter(x)
  BY <1>4, <1>5, <1>6 DEF SameWriter
<1>9. WritersInv'
  <2>1. \A x \in Writer \ {w} : WriterOK(x)'
    BY <1>3, <1>4, <1>8, WriterKept DEF IInv, WritersInv
  <2>2. pc \in {"flush", "root"} => FlushOK(w)'
    <3>1. CASE /\ ~failed[w] /\ ack'[w] = "ok" /\ db'[w] = work[w] \cup buf[w]
               /\ safe'[w] = IF durability THEN db'[w] ELSE safe[w]
      <4>1. op = "store" => Rows(target)' \subseteq db'[w]
        BY <1>3, <3>1 DEF Rows
      <4>. QED  BY <1>3, <1>5, <3>1, <4>1 DEF FlushOK, DoneOK
    <3>2. CASE ack'[w] = "err"
      BY <1>5, <3>2 DEF FlushOK
    <3>. QED  BY <1>6, <3>1, <3>2
  <2>3. WriterOK(w)'
    BY <1>3, <1>5, <2>2 DEF WriterOK, FailedOK
  <2>. QED  BY <2>1, <2>3 DEF WritersInv
<1>10. AskInv'
  BY <1>3, <1>4, <1>5, ShardFacts DEF IInv, AskInv
<1>11. MasterInv'
  <2>1. DOMAIN queue'[w] = {}
    OBVIOUS
  <2>2. \A x \in Writer \ {w} : ack'[x] = ack[x] /\ queue'[x] = queue[x] /\ buf'[x] = buf[x]
    BY <1>8 DEF SameWriter
  <2>3. ack[w] = "none" \/ pc = "failed"
    BY <1>2
  <2>. QED  BY <2>1, <2>2, <2>3, MasterKept
<1>12. HistoryInv' /\ RootBacked' /\ AckedIsStored'
  <2>1. CASE UNCHANGED dbVars
    BY <1>3, <2>1 DEF IInv, HistoryInv, RootBacked, AckedIsStored, Rows, dbVars
  <2>2. CASE /\ ~failed[w] /\ ack'[w] = "ok" /\ db'[w] = work[w] \cup buf[w]
             /\ safe'[w] = IF durability THEN db'[w] ELSE safe[w]
    <3>. DEFINE R == Rows(replaced)
    <3>1. R' = R /\ Rows(acked)' = Rows(acked)
      BY DEF Rows
    <3>2. /\ db[w] \subseteq db'[w] \cup R /\ Rows(acked) \subseteq db'[w]
          /\ w = Root => db'[w] \subseteq db[w] \cup (IF op = "store" THEN Rows(target) ELSE {})
      BY <1>2, <2>2, TxContents
    <3>3. /\ \A x \in Writer : safe[x] \subseteq db[x] \cup R
          /\ \A x \in Writer : db[Root] \subseteq db[x] \cup R /\ safe[Root] \subseteq safe[x] \cup R
          /\ \A x \in Writer : Rows(acked) \subseteq db[x]
          /\ op = "delete" => target \subseteq replaced /\ acked \cap target = {}
      BY DEF IInv, HistoryInv, RootBacked, AckedIsStored
    <3>4. durability => safe'[w] = db'[w]
      BY <2>2
    <3>5. ~durability => safe'[w] = safe[w]
      BY <2>2
    <3>6. durability \in BOOLEAN
      BY <1>1 DEF MasterTypes
    <3>. HIDE DEF R
    <3>7. \A x \in Writer : safe'[x] \subseteq db'[x] \cup R
      <4>1. safe'[w] \subseteq db'[w] \cup R
        BY <3>2, <3>3, <3>4, <3>5, <3>6
      <4>. QED  BY <1>6, <3>3, <4>1
    <3>8. \A x \in Writer : Rows(acked) \subseteq db'[x]
      BY <1>6, <3>2, <3>3
    <3>9. CASE w # Root
      <4>1. db'[Root] = db[Root] /\ safe'[Root] = safe[Root]
        BY <1>6, <3>9, OrderFacts
      <4>2. db'[Root] \subseteq db'[w] \cup R
        BY <3>2, <3>3, <4>1
      <4>3. safe'[Root] \subseteq safe'[w] \cup R
        <5>1. safe[Root] \subseteq safe[w] \cup R /\ safe[w] \subseteq db[w] \cup R
          BY <3>3
        <5>2. safe[w] \subseteq safe'[w] \cup R
          BY <3>2, <3>4, <3>5, <3>6, <5>1
        <5>. QED  BY <4>1, <5>1, <5>2
      <4>4. RootBacked'
        BY <1>6, <3>1, <3>3, <4>1, <4>2, <4>3 DEF RootBacked, R
      <4>. QED  BY <1>3, <3>1, <3>3, <3>7, <3>8, <4>4 DEF HistoryInv, AckedIsStored, R
    <3>10. CASE w = Root
      <4>1. \A x \in Writer \ {Root} : DoneOK(x)
        BY <3>10 DEF IInv, WritersInv, WriterOK, FlushOK, MasterInv
      <4>2. \A x \in Writer \ {Root} : db'[Root] \subseteq db'[x] \cup R
        <5>. SUFFICES ASSUME NEW x \in Writer \ {Root} PROVE db'[Root] \subseteq db'[x] \cup R
          OBVIOUS
        <5>1. db'[x] = db[x] /\ db[Root] \subseteq db[x] \cup R
          BY <1>6, <3>3, <3>10
        <5>2. op = "store" => Rows(target) \subseteq db[x]
          BY <4>1 DEF DoneOK
        <5>3. op = "store" => db'[Root] \subseteq db[Root] \cup Rows(target)
          BY <3>2, <3>10
        <5>4. op # "store" => db'[Root] \subseteq db[Root]
          BY <3>2, <3>10
        <5>. QED  BY <5>1, <5>2, <5>3, <5>4
      <4>3. \A x \in Writer \ {Root} : safe'[Root] \subseteq safe'[x] \cup R
        <5>. SUFFICES ASSUME NEW x \in Writer \ {Root} PROVE safe'[Root] \subseteq safe'[x] \cup R
          OBVIOUS
        <5>1. db'[x] = db[x] /\ safe'[x] = safe[x]
          BY <1>6, <3>10
        <5>2. durability => safe[x] = db[x]
          BY <4>1 DEF DoneOK
        <5>3. CASE durability
          BY <3>4, <3>10, <4>2, <5>1, <5>2, <5>3
        <5>4. CASE ~durability
          BY <3>3, <3>5, <3>10, <5>1, <5>4
        <5>. QED  BY <5>3, <5>4
      <4>4. RootBacked'
        BY <3>1, <4>2, <4>3 DEF RootBacked, R
      <4>. QED  BY <1>3, <3>1, <3>3, <3>7, <3>8, <4>4 DEF HistoryInv, AckedIsStored, R
    <3>. QED  BY <3>9, <3>10
  <2>. QED  BY <1>6, <2>1, <2>2
<1>. QED  BY <1>7, <1>9, <1>10, <1>11, <1>12 DEF IInv

\* Flush of a column that waits for nobody.
LEMMA WriterFlushStep ==
  ASSUME IInv, NEW w \in Writer, WriterFlush(w)
  PROVE  IInv'
<1>1. MasterTypes /\ queue \in Queues /\ WriterOK(w)
  BY TypeParts DEF IInv, WritersInv
<1>2. /\ queue[w] # <<>> /\ Head(queue[w]).cmd = "Flush" /\ thread[w] = "intx" /\ Consume(w)
      /\ FlushTx(w) /\ UNCHANGED <<masterVars, acked, replaced>>
  BY DEF WriterFlush, Receives
<1>3. TxOK(w) /\ pc \in {"removing", "commit", "flush", "root", "failed"}
  BY <1>2, InTransactionReceives
<1>4. /\ queue[w] = <<CFlush>>
      /\ op = "store" => \/ w \in Plain /\ buf[w] = Rows(target)
                         \/ w \in QueryShards /\ (failed[w] \/ Rows(target) \subseteq work[w])
  BY <1>1, <1>2, <1>3, HeadFacts DEF MasterTypes
<1>5. queue'[w] = <<>>
  <2>1. queue'[w] = Tail(queue[w])
    BY <1>1, <1>2, ConsumeFacts
  <2>. QED  BY <1>4, <2>1, TupleFacts
<1>6. CFlush.cmd = "Flush" /\ CRemove.cmd = "Remove" /\ CInsert.cmd = "Insert" /\ CQuery(w).cmd = "Query"
  BY DEF CFlush, CRemove, CInsert, CQuery, Command
<1>7. pc # "removing"
  <2>1. <<CFlush>> # <<CRemove>> /\ <<CFlush>> # <<>>
    BY <1>6, TupleFacts
  <2>. QED  BY <1>1, <1>4, <2>1 DEF WriterOK
<1>8. pc # "commit"
  <2>1. <<CFlush>> # <<CInsert, CQuery(w)>> /\ <<CFlush>> # <<CQuery(w)>> /\ <<CFlush>> # <<>>
    BY <1>6, TupleFacts
  <2>2. op \in {"store", "delete"}
    BY <1>1 DEF MasterTypes
  <2>. QED  BY <1>1, <1>4, <2>1, <2>2 DEF WriterOK, CommitOK
<1>9. w = Root => pc = "root"
  <2>1. 1 \in DOMAIN queue[w] /\ queue[w][1].cmd = "Flush"
    BY <1>1, <1>2, ConsumeFacts
  <2>. QED  BY <2>1 DEF IInv, MasterInv
<1>10. w \in Dependents => \A s \in QueryShards : ~Asked(s)
  BY <1>4, ShardFacts DEF IInv, AskInv
<1>11. ~failed[w] /\ op = "store" => Rows(target) \subseteq work[w] \cup buf[w]
  BY <1>4
<1>. QED  BY <1>2, <1>3, <1>5, <1>7, <1>8, <1>9, <1>10, <1>11, FlushKeeps

\* ReadyForFlush and FlushWhenReady in a store.  The count reaches the number of
\* shards only when the rows of all of them are buffered; then the queue is empty
\* and no shard will send anything more.
LEMMA HandshakeKeeps ==
  ASSUME IInv, NEW w \in Dependents, op = "store", thread[w] = "intx", queue[w] # <<>>,
         Head(queue[w]).cmd \in {"Ready", "FlushWhenReady"}, Consume(w),
         UNCHANGED <<masterVars, acked, replaced>>,
         NEW st \in [sender : BOOLEAN, sum : Nat, shards : Nat], Handshake(w, st),
         st.sum = IF Head(queue[w]).cmd = "Ready" THEN flushing[w].sum + 1 ELSE flushing[w].sum,
         st.shards \in {0, Cardinality(QueryShards)},
         st.sender => flushing[w].sender \/ Head(queue[w]).cmd = "FlushWhenReady"
  PROVE  IInv'
<1>0. w \in Writer /\ w # Root
  BY ShardFacts, OrderFacts
<1>1. MasterTypes /\ queue \in Queues /\ ThreadTypes /\ TxTypes /\ DbTypes /\ WriterOK(w)
  BY <1>0, TypeParts DEF IInv, WritersInv
<1>2. TxOK(w) /\ pc \in {"removing", "commit", "flush", "root", "failed"} /\ pc # "removing"
  BY <1>0, <1>1, InTransactionReceives DEF WriterOK
<1>3. DependentOK(w)
  BY <1>2 DEF TxOK, StoreOK
<1>4. PICK D \in SUBSET QueryShards : Collected(w, D)
  BY <1>3 DEF DependentOK
<1>5. /\ queue'[w] = Tail(queue[w]) /\ Head(queue[w]) = queue[w][1] /\ 1 \in DOMAIN queue[w]
      /\ queue' \in Queues
      /\ \A i \in DOMAIN queue'[w] :
           i \in Nat /\ i >= 1 /\ i + 1 \in DOMAIN queue[w] /\ queue'[w][i] = queue[w][i + 1]
  BY <1>0, <1>1, ConsumeFacts
<1>6. Paired(queue[w], flushing[w].sender)
  BY <1>3 DEF DependentOK
<1>7. Cardinality(D) = st.sum
  BY <1>4 DEF Collected
<1>8. ASSUME NEW i \in DOMAIN queue'[w], queue'[w][i].cmd = "Ready"
      PROVE  i # 1 /\ queue[w][i].cmd = "Merge" /\ i \in DOMAIN queue[w]
  <2>1. i + 1 \in DOMAIN queue[w] /\ queue[w][i + 1].cmd = "Ready" /\ i + 1 # 1 /\ (i + 1) - 1 = i
    BY <1>5, <1>8
  <2>2. queue[w][(i + 1) - 1].cmd = "Merge"
    BY <1>6, <2>1 DEF Paired
  <2>3. i \in DOMAIN queue[w]
    <3>1. DOMAIN queue[w] = 1 .. Len(queue[w]) /\ Len(queue[w]) \in Nat
      BY <1>0, <1>1, ConsumeFacts
    <3>. QED  BY <1>5, <2>1, <3>1
  <2>. QED  BY <1>5, <2>1, <2>2, <2>3
<1>9. \A s \in QueryShards : Asked(s)' => Asked(s)
  BY <1>0, <1>1, AskedShrinks
<1>10. CASE st.sender /\ st.shards > 0 /\ st.sum = st.shards
  <2>1. FlushTx(w)
    BY <1>10 DEF Handshake
  <2>2. D = QueryShards
    <3>1. Cardinality(D) = Cardinality(QueryShards)
      BY <1>7, <1>10
    <3>. QED  BY <3>1, ShardFacts, FS_Subset
  <2>3. \A i \in DOMAIN queue[w] : queue[w][i].cmd # "Merge"
    BY <1>4, <2>2 DEF Collected
  <2>4. \A i \in DOMAIN queue'[w] : FALSE
    <3>. SUFFICES ASSUME NEW i \in DOMAIN queue'[w] PROVE FALSE
      OBVIOUS
    <3>1. i + 1 \in DOMAIN queue[w] /\ queue'[w][i] = queue[w][i + 1] /\ i + 1 # 1
      BY <1>5
    <3>2. queue'[w][i].cmd = "FlushWhenReady"
      BY <1>6, <1>8, <2>3, <3>1 DEF Paired
    <3>3. ~flushing[w].sender /\ queue[w][1].cmd # "FlushWhenReady"
      BY <1>5, <1>6, <3>1, <3>2 DEF Paired
    <3>. QED  BY <1>5, <1>10, <3>3
  <2>5. queue'[w] = <<>>
    <3>1. queue'[w] \in Seq([cmd : Commands, rows : SUBSET Row])
      BY <1>0, <1>5 DEF Queues
    <3>2. DOMAIN queue'[w] = 1 .. Len(queue'[w]) /\ Len(queue'[w]) \in Nat
      BY <3>1
    <3>3. Len(queue'[w]) = 0
      <4>1. 1 \notin DOMAIN queue'[w]
        BY <2>4
      <4>. QED  BY <3>2, <4>1
    <3>. QED  BY <3>1, <3>3
  <2>6. pc # "commit"
    BY <1>1, <1>5, <1>10 DEF WriterOK, CommitOK
  <2>7. Rows(target) \subseteq work[w] \cup buf[w]
    BY <1>4, <2>2 DEF Collected, Rows
  <2>8. \A s \in QueryShards : ~Asked(s)
    BY <1>4, <2>2 DEF Collected
  <2>. QED  BY <1>0, <1>2, <2>1, <2>5, <2>6, <2>7, <2>8, FlushKeeps
<1>11. CASE ~ (st.sender /\ st.shards > 0 /\ st.sum = st.shards)
  <2>1. /\ flushing' = [flushing EXCEPT ![w] = st]
        /\ UNCHANGED <<thread, ack, work, buf, failed, dbVars>>
    BY <1>11 DEF Handshake
  <2>2. UNCHANGED <<pc, op, target, deferred, db>>
    BY <2>1 DEF masterVars, dbVars
  <2>3. TxTypes' /\ flushing'[w] = st /\ \A x \in Writer \ {w} : flushing'[x] = flushing[x]
    BY <1>0, <1>1, <2>1 DEF TxTypes
  <2>4. Collected(w, D)'
    <3>1. ~(queue'[w] # <<>> /\ Head(queue'[w]).cmd = "Ready")
      <4>1. queue'[w] \in Seq([cmd : Commands, rows : SUBSET Row])
        BY <1>0, <1>5 DEF Queues
      <4>2. queue'[w] # <<>> => 1 \in DOMAIN queue'[w] /\ Head(queue'[w]) = queue'[w][1]
        BY <4>1
      <4>. QED  BY <1>8, <4>2
    <3>2. ASSUME NEW i \in DOMAIN queue'[w], queue'[w][i].cmd = "Merge"
          PROVE  \E s \in QueryShards \ D : queue'[w][i].rows = target' \X {s} /\ ~Asked(s)'
      <4>1. i + 1 \in DOMAIN queue[w] /\ queue'[w][i] = queue[w][i + 1]
        BY <1>5
      <4>2. PICK s \in QueryShards \ D : queue[w][i + 1].rows = target \X {s} /\ ~Asked(s)
        BY <1>4, <3>2, <4>1 DEF Collected
      <4>. QED  BY <1>9, <2>2, <4>1, <4>2
    <3>3. \A s \in D : ~Asked(s)'
      BY <1>4, <1>9 DEF Collected
    <3>4. buf'[w] = target' \X D
      BY <1>4, <2>1, <2>2 DEF Collected
    <3>. QED  BY <1>7, <2>3, <3>1, <3>2, <3>3, <3>4 DEF Collected
  <2>5. Paired(queue[w], flushing[w].sender)'
    <3>1. queue[w] \in Seq([cmd : Commands, rows : SUBSET Row]) /\ flushing[w].sender \in BOOLEAN
          /\ st.sender \in BOOLEAN
      BY <1>0, <1>1 DEF Queues, TxTypes
    <3>2. st.sender => flushing[w].sender \/ queue[w][1].cmd = "FlushWhenReady"
      BY <1>5
    <3>3. Paired(Tail(queue[w]), st.sender)
      BY <1>6, <3>1, <3>2, PairedTail
    <3>. QED  BY <1>5, <2>3, <3>3
  <2>6. TxOK(w)'
    <3>1. DependentOK(w)'
      BY <1>3, <2>1, <2>2, <2>3, <2>4, <2>5 DEF DependentOK
    <3>. QED  BY <2>1, <2>2, <3>1, ShardFacts, <1>0 DEF TxOK, StoreOK
  <2>7. ASSUME pc = "commit" PROVE CommitOK(w)'
    <3>1. deferred /\ ~flushing[w].sender
          /\ \A i \in DOMAIN queue[w] : queue[w][i].cmd # "FlushWhenReady"
      BY <1>1, <2>7 DEF WriterOK, CommitOK
    <3>2. ~st.sender
      BY <1>5, <3>1
    <3>3. \A i \in DOMAIN queue'[w] : queue'[w][i].cmd # "FlushWhenReady"
      BY <1>5, <3>1
    <3>. QED  BY <1>0, <2>2, <2>3, <2>6, <3>1, <3>2, <3>3, ShardFacts DEF CommitOK
  <2>. QED  BY <1>0, <1>2, <2>1, <2>3, <2>6, <2>7, InsideStep
<1>. QED  BY <1>10, <1>11

\* A dependent counts a Ready: one more shard is in the set it has collected.
LEMMA WriterReadyStep ==
  ASSUME IInv, NEW w \in Writer, WriterReady(w)
  PROVE  IInv'
<1>. DEFINE st == [flushing[w] EXCEPT !.sum = @ + 1, !.shards = Cardinality(QueryShards)]
<1>1. MasterTypes /\ queue \in Queues /\ TxTypes
  BY TypeParts DEF IInv
<1>2. /\ queue[w] # <<>> /\ Head(queue[w]).cmd = "Ready" /\ thread[w] = "intx" /\ Consume(w)
      /\ Handshake(w, st) /\ UNCHANGED <<masterVars, acked, replaced>>
  BY DEF WriterReady, Receives
<1>3. TxOK(w)
  BY <1>2, InTransactionReceives
<1>4. op = "store" /\ w \in Dependents
  BY <1>1, <1>2, <1>3, HeadFacts DEF MasterTypes
<1>5. /\ st \in [sender : BOOLEAN, sum : Nat, shards : Nat]
      /\ st.sum = flushing[w].sum + 1 /\ st.shards = Cardinality(QueryShards)
      /\ st.sender = flushing[w].sender
  <2>1. flushing[w] \in [sender : BOOLEAN, sum : Nat, shards : Nat]
    BY <1>1 DEF TxTypes
  <2>2. ASSUME NEW r \in [sender : BOOLEAN, sum : Nat, shards : Nat], NEW n \in Nat
        PROVE  LET t == [r EXCEPT !.sum = @ + 1, !.shards = n]
               IN  /\ t \in [sender : BOOLEAN, sum : Nat, shards : Nat]
                   /\ t.sum = r.sum + 1 /\ t.shards = n /\ t.sender = r.sender
    <3>. DEFINE k == r.sum + 1
                u == [r EXCEPT !.sum = k]
                t == [u EXCEPT !.shards = n]
    <3>1. k \in Nat
      OBVIOUS
    <3>. HIDE DEF k
    <3>2. u \in [sender : BOOLEAN, sum : Nat, shards : Nat] /\ u.sum = k /\ u.sender = r.sender
      BY <3>1
    <3>. HIDE DEF u
    <3>3. /\ t \in [sender : BOOLEAN, sum : Nat, shards : Nat]
          /\ t.sum = k /\ t.shards = n /\ t.sender = r.sender
      BY <3>1, <3>2
    <3>4. t = [r EXCEPT !.sum = r.sum + 1, !.shards = n]
      BY DEF u, k
    <3>. HIDE DEF t
    <3>. QED  BY <3>3, <3>4 DEF k
  <2>3. Cardinality(QueryShards) \in Nat
    BY ShardFacts
  <2>. QED  BY <2>1, <2>2, <2>3
<1>. HIDE DEF st
<1>. QED  BY <1>2, <1>4, <1>5, HandshakeKeeps

\* In a delete nobody is ready and the flush stays deferred.
LEMMA WriterFlushWhenReadyStep ==
  ASSUME IInv, NEW w \in Writer, WriterFlushWhenReady(w)
  PROVE  IInv'
<1>. DEFINE st == [flushing[w] EXCEPT !.sender = TRUE]
<1>1. MasterTypes /\ queue \in Queues /\ TxTypes /\ WriterOK(w)
  BY TypeParts DEF IInv, WritersInv
<1>2. /\ queue[w] # <<>> /\ Head(queue[w]).cmd = "FlushWhenReady" /\ thread[w] = "intx"
      /\ Consume(w) /\ Handshake(w, st) /\ UNCHANGED <<masterVars, acked, replaced>>
  BY DEF WriterFlushWhenReady, Receives
<1>3. TxOK(w) /\ pc \in {"removing", "commit", "flush", "root", "failed"}
  BY <1>2, InTransactionReceives
<1>4. \/ op = "store" /\ w \in Dependents
      \/ op = "delete" /\ queue[w] = <<CWhenReady>>
  BY <1>1, <1>2, <1>3, HeadFacts DEF MasterTypes
<1>5. /\ st \in [sender : BOOLEAN, sum : Nat, shards : Nat]
      /\ st.sum = flushing[w].sum /\ st.shards = flushing[w].shards
  BY <1>1 DEF TxTypes
<1>. HIDE DEF st
<1>6. CASE op = "store" /\ w \in Dependents
  <2>1. flushing[w].shards \in {0, Cardinality(QueryShards)}
    BY <1>3, <1>6 DEF TxOK, StoreOK, DependentOK
  <2>. QED  BY <1>2, <1>5, <1>6, <2>1, HandshakeKeeps
<1>7. CASE op = "delete" /\ queue[w] = <<CWhenReady>>
  <2>1. DeleteOK(w) /\ flushing[w].shards = 0
    BY <1>3, <1>7 DEF TxOK, DeleteOK
  <2>2. /\ flushing' = [flushing EXCEPT ![w] = st]
        /\ UNCHANGED <<thread, ack, work, buf, failed, dbVars>>
    BY <1>2, <1>5, <2>1 DEF Handshake
  <2>3. UNCHANGED <<pc, op, target, db>>
    BY <1>2, <2>2 DEF masterVars, dbVars
  <2>4. TxTypes' /\ flushing'[w] = st /\ \A x \in Writer \ {w} : flushing'[x] = flushing[x]
    BY <1>1, <1>5, <2>2 DEF TxTypes
  <2>5. queue'[w] = <<>>
    <3>1. queue'[w] = Tail(queue[w])
      BY <1>1, <1>2, ConsumeFacts
    <3>. QED  BY <1>7, <3>1, TupleFacts
  <2>6. TxOK(w)'
    <3>1. Rows(target)' = Rows(target)
      BY <2>3 DEF Rows
    <3>2. DeleteOK(w)'
      BY <1>5, <2>1, <2>2, <2>3, <2>4, <2>5, <3>1 DEF DeleteOK
    <3>. QED  BY <1>2, <1>7, <2>2, <2>3, <3>2 DEF TxOK
  <2>7. pc # "commit"
    BY <1>1, <1>2, <1>7 DEF WriterOK, CommitOK
  <2>. QED  BY <1>2, <1>7, <2>2, <2>4, <2>5, <2>6, <2>7, InsideStep
<1>. QED  BY <1>4, <1>6, <1>7

-----------------------------------------------------------------------------
(* The hook's query: a step of one index shard that writes to all dependents. *)

\* A queue with two more commands.
LEMMA ConcatTwo ==
  ASSUME NEW C, NEW q \in Seq(C), NEW m \in C, NEW r \in C
  PROVE  LET t == q \o <<m, r>>
             n == Len(q)
         IN  /\ t \in Seq(C) /\ t # <<>> /\ n \in Nat
             /\ DOMAIN q = 1 .. n /\ DOMAIN t = 1 .. (n + 2)
             /\ \A i \in 1 .. n : t[i] = q[i]
             /\ t[n + 1] = m /\ t[n + 2] = r
             /\ Head(t) = IF q = <<>> THEN m ELSE Head(q)
<1>. DEFINE p == <<m, r>>
            t == q \o p
            n == Len(q)
<1>1. p \in Seq(C) /\ Len(p) = 2 /\ p[1] = m /\ p[2] = r /\ DOMAIN p = 1 .. 2
  OBVIOUS
<1>2. n \in Nat /\ DOMAIN q = 1 .. n
  OBVIOUS
<1>. HIDE DEF p
<1>3. t \in Seq(C) /\ Len(t) = n + 2
  <2>1. t \in Seq(C) /\ Len(t) = n + Len(p)
    BY <1>1, ConcatProperties, Zenon
  <2>. QED  BY <1>1, <2>1
<1>4. DOMAIN t = 1 .. (n + 2)
  BY <1>3
<1>5. \A i \in 1 .. (n + 2) : t[i] = IF i <= n THEN q[i] ELSE p[i - n]
  <2>1. \A i \in 1 .. (n + Len(p)) : t[i] = IF i <= n THEN q[i] ELSE p[i - n]
    BY <1>1, ConcatProperties, Zenon
  <2>. QED  BY <1>1, <2>1
<1>. HIDE DEF t, n
<1>6. \A i \in 1 .. n : t[i] = q[i]
  BY <1>2, <1>5
<1>7. t[n + 1] = m /\ t[n + 2] = r
  <2>1. n + 1 \in 1 .. (n + 2) /\ n + 2 \in 1 .. (n + 2) /\ ~(n + 1 <= n) /\ ~(n + 2 <= n)
        /\ (n + 1) - n = 1 /\ (n + 2) - n = 2
    BY <1>2
  <2>. QED  BY <1>1, <1>5, <2>1
<1>8. t # <<>> /\ Head(t) = t[1]
  BY <1>2, <1>3
<1>9. Head(t) = IF q = <<>> THEN m ELSE Head(q)
  <2>1. CASE q = <<>>
    <3>1. n = 0
      BY <2>1 DEF n
    <3>. QED  BY <1>7, <1>8, <2>1, <3>1
  <2>2. CASE q # <<>>
    <3>1. Head(q) = q[1] /\ 1 \in 1 .. n
      BY <2>2 DEF n
    <3>. QED  BY <1>6, <1>8, <2>2, <3>1
  <2>. QED  BY <2>1, <2>2
<1>. QED  BY <1>2, <1>3, <1>6, <1>7, <1>8, <1>9, <1>4 DEF t, n, p

\* Adding a Merge with its Ready keeps the pairing, when those rows are new.
LEMMA PairedAppend ==
  ASSUME NEW C, NEW q \in Seq(C), NEW m \in C, NEW r \in C, NEW b,
         m.cmd = "Merge", r.cmd = "Ready", Paired(q, b),
         \A i \in DOMAIN q : q[i].cmd = "Merge" => q[i].rows # m.rows
  PROVE  Paired(q \o <<m, r>>, b)
<1>. DEFINE t == q \o <<m, r>>
            n == Len(q)
<1>1. /\ n \in Nat /\ DOMAIN q = 1 .. n /\ DOMAIN t = 1 .. (n + 2)
      /\ \A i \in 1 .. n : t[i] = q[i]
      /\ t[n + 1] = m /\ t[n + 2] = r
  BY ConcatTwo
<1>. HIDE DEF t, n
<1>2. \A i \in DOMAIN t : i \in Int /\ (i \in DOMAIN q \/ i = n + 1 \/ i = n + 2)
  BY <1>1
<1>. SUFFICES ASSUME NEW i \in DOMAIN t
              PROVE  /\ t[i].cmd \in {"Merge", "Ready", "FlushWhenReady"}
                     /\ t[i].cmd = "Merge" => i + 1 \in DOMAIN t /\ t[i + 1].cmd = "Ready"
                     /\ t[i].cmd = "Ready" /\ i # 1 => t[i - 1].cmd = "Merge"
                     /\ t[i].cmd = "FlushWhenReady" => ~b
                     /\ \A j \in DOMAIN t :
                          /\ t[i].cmd = "Merge" /\ t[j].cmd = "Merge" /\ t[i].rows = t[j].rows
                               => i = j
                          /\ t[i].cmd = "FlushWhenReady" /\ t[j].cmd = "FlushWhenReady"
                               => i = j
  BY DEF Paired, t
<1>3. /\ t[i].cmd \in {"Merge", "Ready", "FlushWhenReady"}
      /\ t[i].cmd = "FlushWhenReady" => ~b
  BY <1>1, <1>2 DEF Paired
<1>4. ASSUME t[i].cmd = "Merge" PROVE i + 1 \in DOMAIN t /\ t[i + 1].cmd = "Ready"
  <2>1. CASE i \in DOMAIN q
    <3>1. i + 1 \in DOMAIN q /\ q[i + 1].cmd = "Ready"
      BY <1>1, <1>4, <2>1 DEF Paired
    <3>. QED  BY <1>1, <3>1
  <2>2. CASE i = n + 1
    <3>1. i + 1 = n + 2 /\ i + 1 \in DOMAIN t
      BY <1>1, <2>2
    <3>. QED  BY <1>1, <3>1
  <2>3. CASE i = n + 2
    BY <1>1, <1>4, <2>3
  <2>. QED  BY <1>2, <2>1, <2>2, <2>3
<1>5. ASSUME t[i].cmd = "Ready", i # 1 PROVE t[i - 1].cmd = "Merge"
  <2>1. CASE i \in DOMAIN q
    <3>1. q[i - 1].cmd = "Merge"
      BY <1>1, <1>5, <2>1 DEF Paired
    <3>2. i - 1 \in 1 .. n
      BY <1>1, <1>5, <2>1
    <3>. QED  BY <1>1, <3>1, <3>2
  <2>2. CASE i = n + 1
    BY <1>1, <1>5, <2>2
  <2>3. CASE i = n + 2
    <3>1. i - 1 = n + 1
      BY <1>1, <2>3
    <3>. QED  BY <1>1, <3>1
  <2>. QED  BY <1>2, <2>1, <2>2, <2>3
<1>6. ASSUME NEW j \in DOMAIN t
      PROVE  /\ t[i].cmd = "Merge" /\ t[j].cmd = "Merge" /\ t[i].rows = t[j].rows => i = j
             /\ t[i].cmd = "FlushWhenReady" /\ t[j].cmd = "FlushWhenReady" => i = j
  <2>1. CASE i \in DOMAIN q /\ j \in DOMAIN q
    BY <1>1, <2>1 DEF Paired
  <2>2. CASE i \in DOMAIN q /\ j \in {n + 1, n + 2}
    BY <1>1, <2>2
  <2>3. CASE i \in {n + 1, n + 2} /\ j \in DOMAIN q
    BY <1>1, <2>3
  <2>4. CASE i \in {n + 1, n + 2} /\ j \in {n + 1, n + 2}
    BY <1>1, <2>4
  <2>. QED  BY <1>2, <2>1, <2>2, <2>3, <2>4
<1>. QED  BY <1>3, <1>4, <1>5, <1>6

\* What an index shard finds when it queries.
LEMMA QueryFacts ==
  ASSUME IInv, NEW w \in Writer, WriterQuery(w)
  PROVE  /\ TxOK(w) /\ op = "store" /\ w \in QueryShards /\ thread[w] = "intx"
         /\ pc \in {"commit", "flush", "root", "failed"}
         /\ failed[w] \/ Rows(target) \subseteq work[w]
         /\ Head(queue[w]) = CQuery(w) /\ Received(w) = target \X {w}
         /\ Tail(queue[w]) \in {<<>>, <<CFlush>>}
         /\ pc = "commit" => Tail(queue[w]) = <<>>
         /\ Asked(w) /\ queue[w] # <<>>
         /\ UNCHANGED <<masterVars, thread, ack, dbVars, acked, replaced>>
<1>1. MasterTypes /\ queue \in Queues /\ WriterOK(w)
  BY TypeParts DEF IInv, WritersInv
<1>2. /\ queue[w] # <<>> /\ Head(queue[w]).cmd = "Query" /\ thread[w] = "intx"
      /\ UNCHANGED <<masterVars, thread, ack, dbVars, acked, replaced>>
  BY DEF WriterQuery, Receives
<1>3. TxOK(w) /\ pc \in {"removing", "commit", "flush", "root", "failed"}
  BY <1>2, InTransactionReceives
<1>4. /\ op = "store" /\ w \in QueryShards /\ (failed[w] \/ Rows(target) \subseteq work[w])
      /\ queue[w] \in {<<CQuery(w)>>, <<CQuery(w), CFlush>>}
  BY <1>1, <1>2, <1>3, HeadFacts DEF MasterTypes
<1>5. Head(queue[w]) = CQuery(w) /\ Tail(queue[w]) \in {<<>>, <<CFlush>>}
  BY <1>4, TupleFacts
<1>6. Received(w) = target \X {w}
  BY <1>5 DEF Received, CQuery, Command
<1>7. Asked(w)
  <2>1. queue[w] \in Seq([cmd : Commands, rows : SUBSET Row])
    BY <1>1 DEF Queues
  <2>2. 1 \in DOMAIN queue[w] /\ queue[w][1] = Head(queue[w])
    BY <1>2, <2>1
  <2>. QED  BY <1>2, <2>2 DEF Asked
<1>8. ASSUME pc = "commit" PROVE Tail(queue[w]) = <<>>
  <2>1. queue[w] \in {<<CInsert, CQuery(w)>>, <<CQuery(w)>>}
    BY <1>1, <1>2, <1>4, <1>8 DEF WriterOK, CommitOK
  <2>2. CQuery(w).cmd = "Query" /\ CInsert.cmd = "Insert"
    BY DEF CQuery, CInsert, Command
  <2>3. queue[w] = <<CQuery(w)>>
    BY <1>2, <2>1, <2>2, TupleFacts
  <2>. QED  BY <2>3, TupleFacts
<1>9. pc # "removing"
  BY <1>1, <1>4 DEF WriterOK
<1>. QED  BY <1>2, <1>3, <1>4, <1>5, <1>6, <1>7, <1>8, <1>9

\* The query fails: nothing is sent, and the shard will refuse its flush.
LEMMA WriterQueryFailsStep ==
  ASSUME IInv, NEW w \in Writer, WriterQuery(w), StepFails(w), Consume(w)
  PROVE  IInv'
<1>1. TxTypes /\ queue \in Queues
  BY TypeParts DEF IInv
<1>2. /\ TxOK(w) /\ op = "store" /\ w \in QueryShards /\ thread[w] = "intx"
      /\ pc \in {"commit", "flush", "root", "failed"}
      /\ Head(queue[w]) = CQuery(w) /\ Tail(queue[w]) \in {<<>>, <<CFlush>>}
      /\ pc = "commit" => Tail(queue[w]) = <<>>
      /\ queue[w] # <<>> /\ UNCHANGED <<masterVars, thread, ack, dbVars, acked, replaced>>
  BY QueryFacts
<1>3. UNCHANGED <<pc, op, target, deferred, db>>
  BY <1>2 DEF masterVars, dbVars
<1>4. /\ TxTypes' /\ UNCHANGED <<work, buf, flushing>> /\ failed'[w]
      /\ \A x \in Writer \ {w} : failed'[x] = failed[x]
  BY <1>1 DEF StepFails, TxTypes
<1>5. queue'[w] = Tail(queue[w])
  BY <1>1, <1>2, ConsumeFacts
<1>6. CFlush' = CFlush
  BY DEF CFlush
<1>7. QueryOK(w)'
  <2>1. QueryOK(w)
    BY <1>2 DEF TxOK, StoreOK
  <2>. QED  BY <1>2, <1>3, <1>4, <1>5, <1>6, <2>1 DEF QueryOK
<1>8. TxOK(w)'
  BY <1>2, <1>3, <1>7, ShardFacts DEF TxOK, StoreOK
<1>9. ASSUME pc = "commit" PROVE CommitOK(w)'
  <2>1. deferred
    BY <1>2, <1>9 DEF IInv, WritersInv, WriterOK, CommitOK
  <2>. QED  BY <1>2, <1>3, <1>4, <1>5, <1>8, <1>9, <2>1, ShardFacts DEF CommitOK
<1>10. w # Root /\ CQuery(w).cmd # "Shutdown"
  BY <1>2, OrderFacts, ShardFacts DEF CQuery, Command
<1>. QED  BY <1>2, <1>4, <1>8, <1>9, <1>10, InsideStep

\* The sink's rows reach a dependent that still listens.
LEMMA DependentHears ==
  ASSUME IInv, NEW w \in Writer, WriterQuery(w), NEW v \in Dependents,
         UNCHANGED txVars, queue' \in Queues,
         queue'[v] = queue[v] \o <<Command("Merge", Received(w)), Command("Ready", {})>>,
         \A s \in QueryShards : Asked(s)' => Asked(s), ~Asked(w)'
  PROVE  WriterOK(v)'
<1>. DEFINE m == Command("Merge", target \X {w})
            r == Command("Ready", {})
            C == [cmd : Commands, rows : SUBSET Row]
            n == Len(queue[v])
<1>1. v \in Writer /\ WriterOK(v) /\ queue \in Queues /\ TxTypes /\ ThreadTypes /\ MasterTypes
  BY ShardFacts, TypeParts DEF IInv, WritersInv
<1>2. /\ op = "store" /\ w \in QueryShards
      /\ pc \in {"commit", "flush", "root", "failed"}
      /\ Received(w) = target \X {w} /\ Asked(w)
      /\ UNCHANGED <<masterVars, thread, ack, dbVars, acked, replaced>>
  BY QueryFacts
<1>3. UNCHANGED <<pc, op, target, deferred, db, work, buf, failed, flushing>>
  BY <1>2 DEF masterVars, dbVars, txVars
<1>4. thread[v] = "intx"
  BY <1>2 DEF IInv, AskInv
<1>5. TxOK(v) /\ (pc \in {"flush", "root"} => ack[v] = "none")
  <2>1. CASE pc = "commit"
    BY <1>1, <2>1 DEF WriterOK, CommitOK
  <2>2. CASE pc \in {"flush", "root"}
    <3>1. ack[v] \in {"none", "ok", "err"}
      BY <1>1 DEF ThreadTypes
    <3>. QED  BY <1>1, <1>4, <2>2, <3>1 DEF WriterOK, FlushOK, DoneOK
  <2>3. CASE pc = "failed"
    BY <1>1, <1>4, <2>3 DEF WriterOK, FailedOK
  <2>. QED  BY <1>2, <2>1, <2>2, <2>3
<1>6. DependentOK(v)
  BY <1>2, <1>5 DEF TxOK, StoreOK
<1>7. PICK D \in SUBSET QueryShards : Collected(v, D)
  BY <1>6 DEF DependentOK
<1>8. w \notin D
  BY <1>2, <1>7 DEF Collected
<1>9. /\ m \in C /\ r \in C /\ m.cmd = "Merge" /\ r.cmd = "Ready" /\ m.rows = target \X {w}
      /\ queue[v] \in Seq(C) /\ queue'[v] = queue[v] \o <<m, r>>
  <2>1. target \X {w} \in SUBSET Row
    BY <1>1, <1>2, CommandTypes DEF MasterTypes
  <2>2. "Merge" \in Commands /\ "Ready" \in Commands
    BY DEF Commands
  <2>3. queue[v] \in Seq(C)
    BY <1>1 DEF Queues
  <2>. QED  BY <1>2, <2>1, <2>2, <2>3, CommandTypes
<1>. HIDE DEF m, r, C, n
<1>10. /\ queue'[v] \in Seq(C) /\ queue'[v] # <<>> /\ n \in Nat
       /\ DOMAIN queue[v] = 1 .. n /\ DOMAIN queue'[v] = 1 .. (n + 2)
       /\ \A i \in 1 .. n : queue'[v][i] = queue[v][i]
       /\ queue'[v][n + 1] = m /\ queue'[v][n + 2] = r
       /\ Head(queue'[v]) = IF queue[v] = <<>> THEN m ELSE Head(queue[v])
  BY <1>9, ConcatTwo DEF n
<1>11. \A i \in DOMAIN queue'[v] : i \in DOMAIN queue[v] \/ i = n + 1 \/ i = n + 2
  BY <1>10
<1>12. Collected(v, D)'
  <2>1. \A s \in D : ~Asked(s)'
    BY <1>7 DEF Collected
  <2>2. (queue'[v] # <<>> /\ Head(queue'[v]).cmd = "Ready")
          <=> (queue[v] # <<>> /\ Head(queue[v]).cmd = "Ready")
    BY <1>9, <1>10
  <2>3. ASSUME NEW i \in DOMAIN queue'[v], queue'[v][i].cmd = "Merge"
        PROVE  \E s \in QueryShards \ D : queue'[v][i].rows = target' \X {s} /\ ~Asked(s)'
    <3>1. CASE i \in DOMAIN queue[v]
      <4>1. queue'[v][i] = queue[v][i]
        BY <1>10, <3>1
      <4>2. PICK s \in QueryShards \ D : queue[v][i].rows = target \X {s} /\ ~Asked(s)
        BY <1>7, <2>3, <3>1, <4>1 DEF Collected
      <4>. QED  BY <1>3, <4>1, <4>2
    <3>2. CASE i = n + 1
      BY <1>2, <1>3, <1>8, <1>9, <1>10, <3>2
    <3>3. CASE i = n + 2
      BY <1>9, <1>10, <2>3, <3>3
    <3>. QED  BY <1>11, <3>1, <3>2, <3>3
  <2>4. buf'[v] = target' \X D
    BY <1>3, <1>7 DEF Collected
  <2>5. Cardinality(D) = IF queue'[v] # <<>> /\ Head(queue'[v]).cmd = "Ready"
                         THEN flushing'[v].sum + 1 ELSE flushing'[v].sum
    BY <1>3, <1>7, <2>2 DEF Collected
  <2>. QED  BY <2>1, <2>3, <2>4, <2>5 DEF Collected
<1>13. Paired(queue[v], flushing[v].sender)'
  <2>1. ASSUME NEW i \in DOMAIN queue[v], queue[v][i].cmd = "Merge"
        PROVE  queue[v][i].rows # m.rows
    <3>1. PICK s \in QueryShards \ D : queue[v][i].rows = target \X {s} /\ ~Asked(s)
      BY <1>7, <2>1 DEF Collected
    <3>2. s # w
      BY <1>2, <3>1
    <3>3. target # {}
      BY <1>2 DEF IInv, MasterInv
    <3>4. target \X {s} # target \X {w}
      <4>1. PICK h \in target : TRUE
        BY <3>3
      <4>2. <<h, s>> \in target \X {s} /\ <<h, s>> \notin target \X {w}
        BY <3>2
      <4>. QED  BY <4>2
    <3>. QED  BY <1>9, <3>1, <3>4
  <2>2. Paired(queue[v], flushing[v].sender)
    BY <1>6 DEF DependentOK
  <2>3. Paired(queue[v] \o <<m, r>>, flushing[v].sender)
    BY <1>9, <2>1, <2>2, PairedAppend
  <2>. QED  BY <1>3, <1>9, <2>3
<1>14. TxOK(v)'
  <2>1. DependentOK(v)'
    BY <1>3, <1>6, <1>12, <1>13 DEF DependentOK
  <2>. QED  BY <1>1, <1>2, <1>3, <1>4, <2>1, ShardFacts DEF TxOK, StoreOK
<1>15. ASSUME pc = "commit" PROVE CommitOK(v)'
  <2>1. deferred /\ ~flushing[v].sender
        /\ \A i \in DOMAIN queue[v] : queue[v][i].cmd # "FlushWhenReady"
    BY <1>1, <1>2, <1>15 DEF WriterOK, CommitOK
  <2>2. \A i \in DOMAIN queue'[v] : queue'[v][i].cmd # "FlushWhenReady"
    BY <1>9, <1>10, <1>11, <2>1
  <2>. QED  BY <1>1, <1>2, <1>3, <1>14, <2>1, <2>2, ShardFacts DEF CommitOK
<1>. QED  BY <1>1, <1>2, <1>5, <1>14, <1>15, TxStep

\* The query succeeds: its rows and its Ready go to every dependent.
LEMMA WriterQueryStep ==
  ASSUME IInv, NEW w \in Writer, WriterQuery(w)
  PROVE  IInv'
<1>1. CASE StepFails(w) /\ Consume(w)
  BY <1>1, WriterQueryFailsStep
<1>2. CASE /\ queue' = [v \in Writer |->
                IF v = w THEN Tail(queue[v])
                ELSE IF v \in Dependents
                THEN queue[v] \o <<Command("Merge", Received(w)), Command("Ready", {})>>
                ELSE queue[v]]
           /\ UNCHANGED <<txVars, failures>>
  <2>1. MasterTypes /\ queue \in Queues /\ ThreadTypes /\ TxTypes /\ DbTypes /\ WriterOK(w)
    BY TypeParts DEF IInv, WritersInv
  <2>2. /\ TxOK(w) /\ op = "store" /\ w \in QueryShards /\ thread[w] = "intx"
        /\ pc \in {"commit", "flush", "root", "failed"}
        /\ failed[w] \/ Rows(target) \subseteq work[w]
        /\ Head(queue[w]) = CQuery(w) /\ Received(w) = target \X {w}
        /\ Tail(queue[w]) \in {<<>>, <<CFlush>>}
        /\ pc = "commit" => Tail(queue[w]) = <<>>
        /\ queue[w] # <<>> /\ UNCHANGED <<masterVars, thread, ack, dbVars, acked, replaced>>
    BY QueryFacts
  <2>3. UNCHANGED <<pc, op, target, deferred, durability, db, safe, work, buf, failed, flushing>>
    BY <1>2, <2>2 DEF masterVars, dbVars, txVars
  <2>4. queue'[w] \in {<<>>, <<CFlush>>} /\ queue'[w] = Tail(queue[w])
    BY <1>2, <2>2
  <2>5. \A x \in Writer : x # w /\ x \notin Dependents => queue'[x] = queue[x]
    BY <1>2
  <2>6. ASSUME NEW v \in Dependents
        PROVE  /\ v \in Writer /\ v # w
               /\ queue'[v] = queue[v] \o <<Command("Merge", Received(w)), Command("Ready", {})>>
    BY <1>2, <2>2, ShardFacts
  <2>7. queue' \in Queues
    <3>. DEFINE C == [cmd : Commands, rows : SUBSET Row]
                m == Command("Merge", Received(w))
                r == Command("Ready", {})
    <3>1. m \in C /\ r \in C
      <4>1. target \X {w} \in SUBSET Row
        BY <2>1, <2>2, CommandTypes DEF MasterTypes
      <4>2. "Merge" \in Commands /\ "Ready" \in Commands
        BY DEF Commands
      <4>. QED  BY <2>2, <4>1, <4>2, CommandTypes
    <3>2. \A x \in Writer : queue[x] \in Seq(C)
      BY <2>1 DEF Queues
    <3>. HIDE DEF C, m, r
    <3>3. \A x \in Writer : queue[x] \o <<m, r>> \in Seq(C)
      BY <3>1, <3>2
    <3>4. Tail(queue[w]) \in Seq(C)
      BY <2>2, <3>2
    <3>5. queue' \in [Writer -> Seq(C)]
      BY <1>2, <3>2, <3>3, <3>4 DEF m, r
    <3>. QED  BY <3>5 DEF Queues, C
  <2>8. ~Asked(w)'
    <3>1. CFlush.cmd = "Flush"
      BY DEF CFlush, Command
    <3>2. CASE queue'[w] = <<>>
      <4>1. DOMAIN queue'[w] = {}
        BY <3>2
      <4>. QED  BY <4>1 DEF Asked
    <3>3. CASE queue'[w] = <<CFlush>>
      <4>. DEFINE c == CFlush
      <4>. HIDE DEF c
      <4>1. \A i \in DOMAIN <<c>> : <<c>>[i] = c
        OBVIOUS
      <4>2. \A i \in DOMAIN queue'[w] : queue'[w][i].cmd = "Flush"
        BY <3>1, <3>3, <4>1 DEF c
      <4>. QED  BY <4>2 DEF Asked
    <3>. QED  BY <2>4, <3>2, <3>3
  <2>9. \A s \in QueryShards : Asked(s)' => Asked(s)
    <3>. SUFFICES ASSUME NEW s \in QueryShards, Asked(s)' PROVE Asked(s)
      OBVIOUS
    <3>1. s # w /\ s \in Writer /\ s \notin Dependents
      BY <2>8, ShardFacts
    <3>. QED  BY <2>5, <3>1 DEF Asked
  <2>10. TypeOK' /\ MoreTypes'
    BY <1>2, <2>1, <2>2, <2>7, TypesKept, TypePartsNext
  <2>11. WriterOK(w)'
    <3>1. CFlush' = CFlush /\ Rows(target)' = Rows(target)
      BY <2>3 DEF CFlush, Rows
    <3>2. QueryOK(w)'
      <4>1. QueryOK(w)
        BY <2>2 DEF TxOK, StoreOK
      <4>. QED  BY <2>2, <2>3, <2>4, <3>1, <4>1 DEF QueryOK
    <3>3. TxOK(w)'
      BY <2>2, <2>3, <3>2, ShardFacts DEF TxOK, StoreOK
    <3>4. ASSUME pc = "commit" PROVE CommitOK(w)'
      <4>1. deferred
        BY <2>1, <2>2, <3>4 DEF WriterOK, CommitOK
      <4>. QED  BY <2>2, <2>3, <2>4, <3>1, <3>3, <3>4, <4>1, ShardFacts DEF CommitOK
    <3>5. pc \in {"flush", "root"} => ack[w] = "none"
      BY <2>2, InTransactionReceives DEF CQuery, Command
    <3>. QED  BY <2>2, <3>3, <3>4, <3>5, TxStep
  <2>12. WritersInv'
    <3>. SUFFICES ASSUME NEW x \in Writer PROVE WriterOK(x)'
      BY DEF WritersInv
    <3>1. CASE x = w
      BY <2>11, <3>1
    <3>2. CASE x \in Dependents
      BY <1>2, <2>6, <2>7, <2>8, <2>9, <3>2, DependentHears
    <3>3. CASE x # w /\ x \notin Dependents
      <4>1. SameWriter(x)
        BY <2>2, <2>3, <2>5, <3>3 DEF SameWriter
      <4>. QED  BY <2>3, <2>9, <4>1, WriterKept DEF IInv, WritersInv
    <3>. QED  BY <3>1, <3>2, <3>3
  <2>13. MasterInv'
    <3>1. queue'[Root] = queue[Root]
      <4>1. Root # w /\ Root \notin Dependents /\ Root \in Writer
        BY <2>2, OrderFacts, ShardFacts
      <4>. QED  BY <2>5, <4>1
    <3>2. UNCHANGED <<pos, next, ack>>
      BY <2>2 DEF masterVars
    <3>. QED  BY <2>3, <3>1, <3>2 DEF IInv, MasterInv, Rows
  <2>14. AskInv'
    BY <2>2, <2>3, <2>9 DEF IInv, AskInv
  <2>15. HistoryInv' /\ RootBacked' /\ AckedIsStored'
    BY <2>2, <2>3 DEF IInv, HistoryInv, RootBacked, AckedIsStored, Rows
  <2>. QED  BY <2>10, <2>12, <2>13, <2>14, <2>15 DEF IInv
<1>. QED  BY <1>1, <1>2 DEF WriterQuery

-----------------------------------------------------------------------------
(* The end of a thread. *)

\* An empty queue, and one that holds a single other command, has no query.
LEMMA NotAsked ==
  ASSUME NEW s, NEW c, c.cmd # "Query"
  PROVE  /\ queue[s] = <<>> \/ queue[s] = <<c>> => ~Asked(s)
         /\ queue'[s] = <<>> \/ queue'[s] = <<c>> => ~Asked(s)'
<1>1. \A i \in DOMAIN <<c>> : <<c>>[i] = c
  OBVIOUS
<1>2. DOMAIN <<>> = {}
  OBVIOUS
<1>. QED  BY <1>1, <1>2 DEF Asked

\* Shutdown is sent to all threads at once, when nothing else is queued.
LEMMA WriterShutdownStep ==
  ASSUME IInv, NEW w \in Writer, WriterShutdown(w)
  PROVE  IInv'
<1>1. MasterTypes /\ queue \in Queues /\ ThreadTypes /\ TxTypes /\ DbTypes /\ WriterOK(w)
  BY TypeParts DEF IInv, WritersInv
<1>2. /\ queue[w] # <<>> /\ Head(queue[w]).cmd = "Shutdown" /\ thread[w] # "dead" /\ Consume(w)
      /\ thread' = [thread EXCEPT ![w] = "dead"] /\ ack' = [ack EXCEPT ![w] = "ok"]
      /\ DropTx({w}) /\ UNCHANGED <<masterVars, dbVars, acked, replaced>>
  BY DEF WriterShutdown, Receives
<1>3. UNCHANGED <<pc, op, target, durability, deferred>>
  BY <1>2 DEF masterVars
<1>4. pc = "stop"
  <2>1. ~TxOK(w)
    BY <1>1, <1>2, HeadFacts DEF MasterTypes
  <2>2. queue[w] # <<CBegin>>
    BY <1>2, TupleFacts DEF CBegin, Command
  <2>3. ack[w] \in {"none", "ok", "err"}
    BY <1>1 DEF ThreadTypes
  <2>. QED  BY <1>1, <1>2, <2>1, <2>2, <2>3
            DEF WriterOK, MasterTypes, BeginOK, CommitOK, FlushOK, DoneOK, FailedOK
<1>5. queue[w] = <<CShutdown>> /\ ack[w] = "none"
  BY <1>1, <1>2, <1>4 DEF WriterOK, StopOK
<1>6. /\ queue'[w] = <<>> /\ queue' \in Queues
      /\ \A x \in Writer \ {w} : queue'[x] = queue[x]
      /\ \A s \in QueryShards : Asked(s)' => Asked(s)
  <2>1. queue'[w] = Tail(queue[w])
    BY <1>1, <1>2, ConsumeFacts
  <2>2. queue'[w] = <<>>
    BY <1>5, <2>1, TupleFacts
  <2>. QED  BY <1>1, <1>2, <2>2, ConsumeFacts, AskedShrinks
<1>7. /\ TxTypes' /\ ThreadTypes' /\ thread'[w] = "dead" /\ ack'[w] = "ok"
      /\ work'[w] = {} /\ buf'[w] = {} /\ ~failed'[w] /\ flushing'[w] = NoFlush
      /\ \A x \in Writer \ {w} :
           /\ thread'[x] = thread[x] /\ ack'[x] = ack[x] /\ work'[x] = work[x]
           /\ buf'[x] = buf[x] /\ failed'[x] = failed[x] /\ flushing'[x] = flushing[x]
  <2>1. NoFlush \in [sender : BOOLEAN, sum : Nat, shards : Nat]
    BY DEF NoFlush
  <2>2. TxTypes'
    BY <1>1, <1>2, <2>1 DEF DropTx, TxTypes
  <2>3. ThreadTypes' /\ thread'[w] = "dead" /\ ack'[w] = "ok"
        /\ \A x \in Writer \ {w} : thread'[x] = thread[x] /\ ack'[x] = ack[x]
    BY <1>1, <1>2 DEF ThreadTypes
  <2>. QED  BY <1>2, <2>2, <2>3 DEF DropTx
<1>8. TypeOK' /\ MoreTypes'
  BY <1>1, <1>2, <1>6, <1>7, TypesKept, TypePartsNext
<1>9. \A x \in Writer \ {w} : SameWriter(x)
  BY <1>2, <1>6, <1>7 DEF SameWriter, dbVars
<1>10. \A s \in QueryShards : ~Asked(s)
  <2>. SUFFICES ASSUME NEW s \in QueryShards PROVE ~Asked(s)
    OBVIOUS
  <2>1. queue[s] = <<>> \/ queue[s] = <<CShutdown>>
    BY <1>4, ShardFacts DEF IInv, WritersInv, WriterOK, StopOK
  <2>2. CShutdown.cmd # "Query"
    BY DEF CShutdown, Command
  <2>. QED  BY <2>1, <2>2, NotAsked
<1>11. AskInv'
  BY <1>6, <1>10 DEF AskInv
<1>12. MasterInv'
  <2>1. DOMAIN queue'[w] = {}
    BY <1>6
  <2>. QED  BY <1>2, <1>4, <1>5, <1>6, <1>7, <2>1, MasterKept
<1>13. WriterOK(w)'
  BY <1>3, <1>4, <1>6, <1>7 DEF WriterOK, StopOK
<1>. QED  BY <1>2, <1>6, <1>8, <1>9, <1>11, <1>12, <1>13, WriterFrame

\* A thread outside a transaction ends when its context is gone.
LEMMA WriterDisconnectedStep ==
  ASSUME IInv, NEW w \in Writer, WriterDisconnected(w)
  PROVE  IInv'
<1>1. MasterTypes /\ queue \in Queues /\ ThreadTypes /\ TxTypes /\ DbTypes /\ WriterOK(w)
  BY TypeParts DEF IInv, WritersInv
<1>2. /\ pc = "failed" /\ queue[w] = <<>> /\ thread[w] = "outer"
      /\ thread' = [thread EXCEPT ![w] = "dead"]
      /\ UNCHANGED <<masterVars, queue, ack, txVars, dbVars, acked, replaced>>
  BY DEF WriterDisconnected
<1>3. UNCHANGED <<pc, op, target, durability, deferred, work, buf, failed, flushing, db, safe>>
  BY <1>2 DEF masterVars, txVars, dbVars
<1>4. /\ ThreadTypes' /\ thread'[w] = "dead"
      /\ \A x \in Writer \ {w} : thread'[x] = thread[x]
  BY <1>1, <1>2 DEF ThreadTypes
<1>5. TypeOK' /\ MoreTypes'
  BY <1>1, <1>2, <1>4, TypesKept, TypePartsNext
<1>6. \A x \in Writer \ {w} : SameWriter(x)
  BY <1>2, <1>3, <1>4 DEF SameWriter
<1>7. \A s \in QueryShards : Asked(s)' <=> Asked(s)
  BY <1>2 DEF Asked
<1>8. AskInv'
  <2>1. \A v \in Dependents : thread[v] = "intx" => thread'[v] = "intx"
    BY <1>2, <1>4, ShardFacts
  <2>. QED  BY <1>3, <1>7, <2>1 DEF IInv, AskInv
<1>9. MasterInv'
  <2>1. UNCHANGED <<pos, next>>
    BY <1>2 DEF masterVars
  <2>. QED  BY <1>2, <1>3, <2>1 DEF IInv, MasterInv, Rows
<1>10. WriterOK(w)'
  BY <1>1, <1>2, <1>3, <1>4 DEF WriterOK, FailedOK
<1>. QED  BY <1>2, <1>5, <1>6, <1>7, <1>8, <1>9, <1>10, WriterFrame

\* Every command of a writer thread keeps the invariant.
LEMMA WriterSteps ==
  ASSUME IInv, NEW w \in Writer, WriterStep(w)
  PROVE  IInv'
<1>1. CASE WriterBuffer(w)
  <2>1. Head(queue[w]).cmd \in {"Merge", "Sorted"}
    BY <1>1 DEF WriterBuffer, Receives
  <2>. QED  BY <1>1, <2>1, WriterMergeStep, WriterSortedStep
<1>. QED  BY <1>1, WriterBeginStep, WriterInsertStep, WriterRemoveStep, WriterQueryStep,
             WriterFlushStep, WriterReadyStep, WriterFlushWhenReadyStep, WriterShutdownStep,
             WriterDisconnectedStep DEF WriterStep

-----------------------------------------------------------------------------
(* The master: the same command to every writer, and waiting. *)

\* A process that has just started, with its writers idle.
LEMMA InitIInv == Init => IInv
<1>. SUFFICES ASSUME Init PROVE IInv
  OBVIOUS
<1>1. MasterTypes
  <2>1. 1 \in DOMAIN Order /\ 1 \in 1 .. (MaxHeight + 1)
    BY OrderFacts, WriteTxAssumption
  <2>. QED  BY <2>1 DEF Init, MasterTypes
<1>2. queue \in Queues /\ ThreadTypes /\ TxTypes /\ DbTypes
  BY DEF Init, Queues, ThreadTypes, TxTypes, DbTypes, NoFlush
<1>3. WritersInv
  BY DEF Init, WritersInv, WriterOK
<1>4. \A x \in Writer : DOMAIN queue[x] = {}
  BY DEF Init
<1>5. MasterInv
  BY <1>4, OrderFacts DEF Init, MasterInv
<1>6. AskInv
  BY <1>4, ShardFacts DEF AskInv, Asked
<1>7. HistoryInv /\ RootBacked /\ AckedIsStored
  BY OrderFacts DEF Init, HistoryInv, RootBacked, AckedIsStored, Rows
<1>. QED  BY <1>1, <1>2, <1>3, <1>5, <1>6, <1>7, TypeParts DEF IInv

\* The same command goes to queues that are empty, and the answers are awaited.
LEMMA SendToIdle ==
  ASSUME IInv, \A x \in Writer : queue[x] = <<>>, NEW p,
         NEW c \in [cmd : Commands, rows : SUBSET Row],
         SendAll([x \in Writer |-> <<c>>]), Await(p), UNCHANGED thread
  PROVE  /\ queue' \in Queues /\ ThreadTypes' /\ pc' = p /\ pos' = 1
         /\ \A x \in Writer : queue'[x] = <<c>> /\ ack'[x] = "none" /\ thread'[x] = thread[x]
<1>1. queue \in Queues /\ ThreadTypes
  BY TypeParts DEF IInv
<1>. DEFINE cmds == [x \in Writer |-> <<c>>]
<1>2. cmds \in Queues
  BY DEF Queues
<1>3. queue' \in Queues /\ \A x \in Writer : queue'[x] = queue[x] \o cmds[x]
  <2>. HIDE DEF cmds
  <2>1. SendAll(cmds)
    BY DEF cmds
  <2>. QED  BY <1>1, <1>2, <2>1, SendFacts
<1>4. \A x \in Writer : queue'[x] = <<c>>
  BY <1>3, ConcatFacts
<1>5. ThreadTypes' /\ pc' = p /\ pos' = 1 /\ \A x \in Writer : ack'[x] = "none"
  BY <1>1 DEF Await, ThreadTypes
<1>. QED  BY <1>3, <1>4, <1>5

\* begin_writing: all writers are outside a transaction.
LEMMA BeginKeeps ==
  ASSUME IInv, \A x \in Writer : queue[x] = <<>> /\ thread[x] = "outer",
         SendAll([x \in Writer |-> <<Command("Begin", {})>>]), Await("begin"),
         UNCHANGED <<thread, txVars>>, next' <= MaxHeight, target' # {}
  PROVE  /\ queue' \in Queues /\ ThreadTypes' /\ pc' = "begin" /\ pos' = 1
         /\ WritersInv' /\ MasterInv' /\ AskInv'
<1>1. CBegin \in [cmd : Commands, rows : SUBSET Row] /\ CBegin.cmd = "Begin" /\ CBegin' = CBegin
  BY CommandTypes DEF CBegin, Commands, Command
<1>2. /\ queue' \in Queues /\ ThreadTypes' /\ pc' = "begin" /\ pos' = 1
      /\ \A x \in Writer : queue'[x] = <<CBegin>> /\ ack'[x] = "none" /\ thread'[x] = thread[x]
  BY <1>1, SendToIdle DEF CBegin
<1>3. WritersInv'
  <2>. SUFFICES ASSUME NEW x \in Writer PROVE WriterOK(x)'
    BY DEF WritersInv
  <2>1. BeginOK(x)'
    BY <1>1, <1>2 DEF BeginOK
  <2>2. buf'[x] = {} /\ ~failed'[x] /\ flushing'[x] = NoFlush
    BY DEF IInv, WritersInv, WriterOK, txVars
  <2>. QED  BY <1>2, <2>1, <2>2 DEF WriterOK
<1>4. AskInv'
  <2>1. \A s \in QueryShards : ~Asked(s)'
    BY <1>1, <1>2, ShardFacts, NotAsked
  <2>. QED  BY <2>1 DEF AskInv
<1>5. MasterInv'
  <2>. DEFINE c == CBegin
  <2>1. \A i \in DOMAIN queue'[Root] : queue'[Root][i].cmd # "Flush"
    <3>1. queue'[Root] = <<c>> /\ c.cmd = "Begin"
      BY <1>1, <1>2, OrderFacts
    <3>. HIDE DEF c
    <3>. QED  BY <3>1
  <2>. QED  BY <1>2, <2>1 DEF MasterInv
<1>. QED  BY <1>2, <1>3, <1>4, <1>5

\* stop_writing: nothing is queued and no thread has ended.
LEMMA StopKeeps ==
  ASSUME IInv, \A x \in Writer : queue[x] = <<>> /\ thread[x] # "dead",
         SendAll([x \in Writer |-> <<Command("Shutdown", {})>>]), Await("stop"),
         UNCHANGED <<thread, txVars>>
  PROVE  /\ queue' \in Queues /\ ThreadTypes' /\ pc' = "stop" /\ pos' = 1
         /\ WritersInv' /\ MasterInv' /\ AskInv'
<1>1. /\ CShutdown \in [cmd : Commands, rows : SUBSET Row] /\ CShutdown.cmd = "Shutdown"
      /\ CShutdown' = CShutdown
  BY CommandTypes DEF CShutdown, Commands, Command
<1>2. /\ queue' \in Queues /\ ThreadTypes' /\ pc' = "stop" /\ pos' = 1
      /\ \A x \in Writer : queue'[x] = <<CShutdown>> /\ ack'[x] = "none" /\ thread'[x] = thread[x]
  BY <1>1, SendToIdle DEF CShutdown
<1>3. WritersInv'
  <2>. SUFFICES ASSUME NEW x \in Writer PROVE WriterOK(x)'
    BY DEF WritersInv
  <2>1. StopOK(x)'
    BY <1>1, <1>2 DEF StopOK
  <2>2. thread[x] # "intx" => buf'[x] = {} /\ ~failed'[x] /\ flushing'[x] = NoFlush
    BY DEF IInv, WritersInv, WriterOK, txVars
  <2>. QED  BY <1>2, <2>1, <2>2 DEF WriterOK
<1>4. AskInv'
  <2>1. \A s \in QueryShards : ~Asked(s)'
    BY <1>1, <1>2, ShardFacts, NotAsked
  <2>. QED  BY <2>1 DEF AskInv
<1>5. MasterInv'
  <2>. DEFINE c == CShutdown
  <2>1. \A i \in DOMAIN queue'[Root] : queue'[Root][i].cmd # "Flush"
    <3>1. queue'[Root] = <<c>> /\ c.cmd = "Shutdown"
      BY <1>1, <1>2, OrderFacts
    <3>. HIDE DEF c
    <3>. QED  BY <3>1
  <2>. QED  BY <1>2, <2>1 DEF MasterInv
<1>. QED  BY <1>2, <1>3, <1>4, <1>5

-----------------------------------------------------------------------------
(* The master: a transaction begins and ends. *)

\* A new context starts all threads over; indexing resumes after the last header.
LEMMA NewContextStep == ASSUME IInv, new_write_ctx PROVE IInv'
<1>1. MasterTypes /\ queue \in Queues /\ DbTypes
  BY TypeParts DEF IInv
<1>2. /\ \A x \in Writer : queue[x] = <<>>
      /\ DropTx(Writer) /\ thread' = [x \in Writer |-> "outer"]
      /\ ack' = [x \in Writer |-> "none"]
      /\ deferred' = FALSE /\ oneshot' \in BOOLEAN /\ next' = get_last_header + 1
      /\ pc' = "idle" /\ op' = "store" /\ target' = {} /\ pos' = 1 /\ durability' = FALSE
      /\ UNCHANGED <<queue, db, safe, acked, replaced>>
  BY DEF new_write_ctx, dbVars
<1>3. MasterTypes'
  <2>1. 1 \in DOMAIN Order
    BY OrderFacts
  <2>2. next' \in 1 .. (MaxHeight + 1)
    BY <1>2, LastHeader, WriteTxAssumption
  <2>. QED  BY <1>2, <2>1, <2>2 DEF MasterTypes
<1>4. /\ TxTypes' /\ ThreadTypes'
      /\ \A x \in Writer : /\ thread'[x] = "outer" /\ buf'[x] = {} /\ ~failed'[x]
                           /\ flushing'[x] = NoFlush
  BY <1>2 DEF DropTx, TxTypes, ThreadTypes, NoFlush
<1>5. DbTypes' /\ queue' \in Queues
  BY <1>1, <1>2 DEF DbTypes
<1>6. WritersInv'
  BY <1>2, <1>4 DEF WritersInv, WriterOK
<1>7. \A x \in Writer : DOMAIN queue'[x] = {}
  BY <1>2
<1>8. MasterInv' /\ AskInv'
  BY <1>2, <1>7, OrderFacts, ShardFacts DEF MasterInv, AskInv, Asked
<1>9. HistoryInv' /\ RootBacked' /\ AckedIsStored'
  BY <1>2 DEF IInv, HistoryInv, RootBacked, AckedIsStored, Rows
<1>. QED  BY <1>3, <1>4, <1>5, <1>6, <1>8, <1>9, TypePartsNext DEF IInv

\* A store of the next block begins.
LEMMA StoreBeginStep == ASSUME IInv, StoreBegin PROVE IInv'
<1>1. MasterTypes /\ TxTypes /\ DbTypes
  BY TypeParts DEF IInv
<1>2. /\ pc = "idle" /\ next <= MaxHeight /\ op' = "store" /\ target' = {next}
      /\ durability' \in BOOLEAN
      /\ SendAll([x \in Writer |-> <<Command("Begin", {})>>]) /\ Await("begin")
      /\ UNCHANGED <<next, oneshot, deferred, thread, txVars, dbVars, acked, replaced>>
  BY DEF StoreBegin
<1>3. \A x \in Writer : queue[x] = <<>> /\ thread[x] = "outer"
  BY <1>2 DEF IInv, WritersInv, WriterOK
<1>4. /\ queue' \in Queues /\ ThreadTypes' /\ pc' = "begin" /\ pos' = 1
      /\ WritersInv' /\ MasterInv' /\ AskInv'
  BY <1>2, <1>3, BeginKeeps
<1>5. MasterTypes'
  <2>1. 1 \in DOMAIN Order
    BY OrderFacts
  <2>2. {next} \subseteq Height
    BY <1>1, <1>2, WriteTxAssumption DEF MasterTypes, Height
  <2>. QED  BY <1>1, <1>2, <1>4, <2>1, <2>2 DEF MasterTypes
<1>6. TxTypes' /\ DbTypes'
  BY <1>1, <1>2, TypesKept
<1>7. HistoryInv' /\ RootBacked' /\ AckedIsStored'
  BY <1>2 DEF IInv, HistoryInv, RootBacked, AckedIsStored, Rows, dbVars
<1>. QED  BY <1>4, <1>5, <1>6, <1>7, TypePartsNext DEF IInv

\* An update begins: the blocks it replaces are no longer acknowledged.
LEMMA UpdateBeginStep == ASSUME IInv, UpdateBegin PROVE IInv'
<1>1. MasterTypes /\ TxTypes /\ DbTypes
  BY TypeParts DEF IInv
<1>2. /\ pc = "idle" /\ 1 < next /\ next <= MaxHeight
      /\ op' = "delete" /\ target' = {next - 1, next} /\ durability' = TRUE
      /\ acked' = acked \ target' /\ replaced' = replaced \cup target'
      /\ SendAll([x \in Writer |-> <<Command("Begin", {})>>]) /\ Await("begin")
      /\ UNCHANGED <<next, oneshot, deferred, thread, txVars, dbVars>>
  BY DEF UpdateBegin
<1>3. \A x \in Writer : queue[x] = <<>> /\ thread[x] = "outer"
  BY <1>2 DEF IInv, WritersInv, WriterOK
<1>4. /\ queue' \in Queues /\ ThreadTypes' /\ pc' = "begin" /\ pos' = 1
      /\ WritersInv' /\ MasterInv' /\ AskInv'
  BY <1>2, <1>3, BeginKeeps
<1>5. target' \subseteq Height
  BY <1>1, <1>2, WriteTxAssumption DEF MasterTypes, Height
<1>6. MasterTypes'
  <2>1. 1 \in DOMAIN Order
    BY OrderFacts
  <2>. QED  BY <1>1, <1>2, <1>4, <1>5, <2>1 DEF MasterTypes
<1>7. TxTypes' /\ DbTypes'
  <2>1. acked' \subseteq Height /\ replaced' \subseteq Height
    BY <1>1, <1>2, <1>5 DEF DbTypes
  <2>. QED  BY <1>1, <1>2, <2>1, TypesKept DEF DbTypes, dbVars
<1>8. HistoryInv' /\ RootBacked' /\ AckedIsStored'
  <2>1. Rows(replaced) \subseteq Rows(replaced)' /\ Rows(acked)' \subseteq Rows(acked)
    BY <1>2 DEF Rows
  <2>2. UNCHANGED <<db, safe>>
    BY <1>2 DEF dbVars
  <2>3. /\ \A x \in Writer : safe[x] \subseteq db[x] \cup Rows(replaced)
        /\ \A x \in Writer : /\ db[Root] \subseteq db[x] \cup Rows(replaced)
                             /\ safe[Root] \subseteq safe[x] \cup Rows(replaced)
        /\ \A x \in Writer : Rows(acked) \subseteq db[x]
    BY DEF IInv, HistoryInv, RootBacked, AckedIsStored
  <2>4. RootBacked' /\ AckedIsStored'
    BY <2>1, <2>2, <2>3 DEF RootBacked, AckedIsStored
  <2>5. target' \subseteq replaced' /\ acked' \cap target' = {}
    BY <1>2
  <2>6. \A x \in Writer : safe'[x] \subseteq db'[x] \cup Rows(replaced)'
    BY <2>1, <2>2, <2>3
  <2>. QED  BY <2>4, <2>5, <2>6 DEF HistoryInv
<1>. QED  BY <1>4, <1>6, <1>7, <1>8, TypePartsNext DEF IInv

\* StartFuture::wait: the body runs when all have begun; the first error is
\* returned, while others may still be beginning.
LEMMA BeginWaitStep == ASSUME IInv, BeginWait PROVE IInv'
<1>. DEFINE w == Order[pos]
<1>1. MasterTypes /\ ThreadTypes /\ TxTypes /\ DbTypes /\ queue \in Queues
  BY TypeParts DEF IInv
<1>2. /\ pc = "begin" /\ ack[w] # "none"
      /\ IF ack[w] = "err" THEN pc' = "failed" /\ UNCHANGED pos
         ELSE IF pos = Len(Order) THEN pc' = "body" /\ UNCHANGED pos
         ELSE pos' = pos + 1 /\ UNCHANGED pc
      /\ UNCHANGED <<op, target, durability, next, oneshot, deferred, queue, thread, ack,
                     work, buf, failed, flushing, db, safe, acked, replaced>>
  BY DEF BeginWait, threadVars, txVars, dbVars
<1>3. /\ pos \in 1 .. Len(Order) /\ Len(Order) \in Nat /\ w \in Writer
      /\ ack[w] \in {"none", "ok", "err"} /\ DOMAIN Order = 1 .. Len(Order)
  BY <1>1, OrderFacts DEF MasterTypes, ThreadTypes
<1>4. MasterInv /\ \A x \in Writer : WriterOK(x)
  BY DEF IInv, WritersInv
<1>. HIDE DEF w
<1>5. ThreadTypes' /\ TxTypes' /\ DbTypes' /\ queue' \in Queues
  BY <1>1, <1>2 DEF ThreadTypes, TxTypes, DbTypes
<1>6. AskInv' /\ HistoryInv' /\ RootBacked' /\ AckedIsStored'
  BY <1>2 DEF IInv, AskInv, Asked, HistoryInv, RootBacked, AckedIsStored, Rows
<1>7. \A x \in Writer : /\ BeginOK(x)
                        /\ thread[x] # "intx" => buf[x] = {} /\ ~failed[x] /\ flushing[x] = NoFlush
  BY <1>2, <1>4 DEF WriterOK
<1>8. CASE ack[w] = "err"
  <2>1. pc' = "failed" /\ pos' = pos
    BY <1>2, <1>8
  <2>2. MasterTypes' /\ MasterInv'
    BY <1>1, <1>2, <1>4, <2>1 DEF MasterTypes, MasterInv
  <2>3. WritersInv'
    <3>. SUFFICES ASSUME NEW x \in Writer PROVE WriterOK(x)'
      BY DEF WritersInv
    <3>1. CASE queue[x] = <<>> /\ thread[x] = "intx" /\ Open(x)
      <4>1. Open(x)' /\ queue'[x] = <<>> /\ thread'[x] = "intx"
        BY <1>2, <3>1 DEF Open
      <4>. QED  BY <2>1, <4>1, OpenIsTx DEF WriterOK, FailedOK
    <3>2. CASE ~(queue[x] = <<>> /\ thread[x] = "intx" /\ Open(x))
      <4>1. thread[x] = "outer" /\ (queue[x] = <<>> \/ queue[x] = <<CBegin>>)
        BY <1>7, <3>2 DEF BeginOK
      <4>2. CBegin' = CBegin
        BY DEF CBegin
      <4>. QED  BY <1>2, <1>7, <2>1, <4>1, <4>2 DEF WriterOK, FailedOK
    <3>. QED  BY <3>1, <3>2
  <2>. QED  BY <1>5, <1>6, <2>2, <2>3, TypePartsNext DEF IInv
<1>9. CASE ack[w] # "err" /\ pos = Len(Order)
  <2>1. pc' = "body" /\ pos' = pos
    BY <1>2, <1>9
  <2>2. \A x \in Writer : ack[x] = "ok"
    <3>. SUFFICES ASSUME NEW x \in Writer PROVE ack[x] = "ok"
      OBVIOUS
    <3>1. ack[w] = "ok" /\ w = Root
      BY <1>2, <1>3, <1>9 DEF w, Root
    <3>2. CASE x # Root
      <4>1. PICK i \in 1 .. Len(Order) - 1 : Order[i] = x
        BY <3>2, OrderFacts
      <4>. QED  BY <1>2, <1>4, <1>9, <4>1 DEF MasterInv
    <3>. QED  BY <3>1, <3>2
  <2>3. WritersInv'
    <3>. SUFFICES ASSUME NEW x \in Writer PROVE WriterOK(x)'
      BY DEF WritersInv
    <3>1. queue[x] = <<>> /\ thread[x] = "intx" /\ Open(x)
      BY <1>7, <2>2 DEF BeginOK
    <3>2. queue'[x] = <<>> /\ thread'[x] = "intx" /\ Open(x)'
      BY <1>2, <3>1 DEF Open
    <3>. QED  BY <2>1, <3>2 DEF WriterOK
  <2>4. MasterTypes'
    BY <1>1, <1>2, <2>1 DEF MasterTypes
  <2>5. MasterInv'
    BY <1>2, <1>4, <2>1 DEF MasterInv
  <2>. QED  BY <1>5, <1>6, <2>3, <2>4, <2>5, TypePartsNext DEF IInv
<1>10. CASE ack[w] # "err" /\ pos # Len(Order)
  <2>1. pos' = pos + 1 /\ UNCHANGED pc /\ pos + 1 \in 1 .. Len(Order)
    <3>1. pos' = pos + 1 /\ UNCHANGED pc
      BY <1>2, <1>10
    <3>2. pos + 1 \in 1 .. Len(Order)
      <4>1. \A n \in Nat : \A k \in 1 .. n : k # n => k + 1 \in 1 .. n
        OBVIOUS
      <4>. QED  BY <1>3, <1>10, <4>1
    <3>. QED  BY <3>1, <3>2
  <2>2. \A i \in 1 .. pos' - 1 : ack[Order[i]] = "ok"
    <3>. SUFFICES ASSUME NEW i \in 1 .. pos' - 1 PROVE ack[Order[i]] = "ok"
      OBVIOUS
    <3>1. i \in 1 .. pos - 1 \/ i = pos
      BY <1>3, <2>1
    <3>. QED  BY <1>2, <1>3, <1>4, <1>10, <3>1 DEF MasterInv, w
  <2>3. MasterInv'
    BY <1>2, <1>4, <2>1, <2>2 DEF MasterInv
  <2>4. MasterTypes'
    BY <1>1, <1>2, <1>3, <2>1 DEF MasterTypes
  <2>5. WritersInv'
    <3>. SUFFICES ASSUME NEW x \in Writer PROVE WriterOK(x)'
      BY DEF WritersInv
    <3>1. SameWriter(x) /\ \A s \in QueryShards : Asked(s)' => Asked(s)
      BY <1>2 DEF SameWriter, Asked
    <3>. QED  BY <1>2, <1>4, <2>1, <3>1, WriterKept
  <2>. QED  BY <1>5, <1>6, <2>3, <2>4, <2>5, TypePartsNext DEF IInv
<1>. QED  BY <1>8, <1>9, <1>10

\* store_many: the index shards get their rows and their query.
LEMMA StoreBodyStep == ASSUME IInv, StoreBody PROVE IInv'
<1>1. MasterTypes /\ ThreadTypes /\ TxTypes /\ DbTypes /\ queue \in Queues
  BY TypeParts DEF IInv
<1>. DEFINE C == [cmd : Commands, rows : SUBSET Row]
            cmds == [x \in Writer |-> IF x \in QueryShards THEN <<CInsert, CQuery(x)>> ELSE <<>>]
<1>2. /\ pc = "body" /\ op = "store" /\ SendAll(cmds) /\ deferred' = TRUE /\ pc' = "commit"
      /\ UNCHANGED <<op, target, pos, durability, next, oneshot, thread, ack, txVars, dbVars,
                     acked, replaced>>
  BY DEF StoreBody, CInsert, CQuery
<1>3. UNCHANGED <<op, target, pos, next, work, buf, failed, flushing, db, safe>>
  BY <1>2 DEF txVars, dbVars
<1>4. /\ CInsert \in C /\ \A s \in QueryShards : CQuery(s) \in C
      /\ CInsert.cmd = "Insert" /\ \A s \in QueryShards : CQuery(s).cmd = "Query"
  <2>1. "Insert" \in Commands /\ "Query" \in Commands
    BY DEF Commands
  <2>. QED  BY <1>1, <2>1, CommandTypes DEF CInsert, CQuery, MasterTypes
<1>5. cmds \in Queues
  <2>. HIDE DEF C
  <2>1. \A x \in Writer : cmds[x] \in Seq(C)
    BY <1>4
  <2>. QED  BY <2>1 DEF Queues, C
<1>6. /\ queue' \in Queues
      /\ \A x \in Writer : queue'[x] = IF x \in QueryShards THEN <<CInsert, CQuery(x)>> ELSE <<>>
  <2>. HIDE DEF cmds
  <2>1. queue' \in Queues /\ \A x \in Writer : queue'[x] = queue[x] \o cmds[x]
    BY <1>1, <1>2, <1>5, SendFacts
  <2>2. \A x \in Writer : queue[x] = <<>>
    BY <1>2 DEF IInv, WritersInv, WriterOK
  <2>3. \A x \in Writer : cmds[x] = IF x \in QueryShards THEN <<CInsert, CQuery(x)>> ELSE <<>>
    BY DEF cmds
  <2>. QED  BY <2>1, <2>2, <2>3, ConcatFacts
<1>7. CInsert' = CInsert /\ \A s \in QueryShards : CQuery(s)' = CQuery(s)
  BY <1>3 DEF CInsert, CQuery, Rows
<1>8. ASSUME NEW x \in Writer PROVE WriterOK(x)' /\ thread'[x] = "intx"
  <2>1. thread'[x] = "intx" /\ Open(x)'
    BY <1>2, <1>3 DEF IInv, WritersInv, WriterOK, Open
  <2>2. TxOK(x)'
    <3>1. CASE x \in QueryShards
      <4>1. queue'[x] \in {<<>>, <<CInsert, CQuery(x)>>, <<CInsert, CQuery(x), CFlush>>}'
        BY <1>6, <1>7, <3>1
      <4>2. QueryOK(x)'
        BY <2>1, <4>1 DEF QueryOK, Open
      <4>. QED  BY <1>2, <2>1, <3>1, <4>2, ShardFacts DEF TxOK, StoreOK
    <3>2. CASE x \notin QueryShards
      BY <1>6, <2>1, <3>2, OpenIsTx
    <3>. QED  BY <3>1, <3>2
  <2>3. CommitOK(x)'
    <3>1. x \in Dependents \cup Plain => queue'[x] = <<>>
      BY <1>6, ShardFacts
    <3>2. DOMAIN <<>> = {}
      OBVIOUS
    <3>3. x \in QueryShards => queue'[x] = <<CInsert', CQuery(x)'>>
      BY <1>6, <1>7
    <3>4. buf'[x] = {} /\ ~flushing'[x].sender
      BY <2>1 DEF Open, NoFlush
    <3>. QED  BY <1>2, <2>2, <3>1, <3>2, <3>3, <3>4 DEF CommitOK
  <2>. QED  BY <1>2, <2>1, <2>3 DEF WriterOK
<1>9. WritersInv' /\ AskInv'
  BY <1>2, <1>8, ShardFacts DEF WritersInv, AskInv
<1>10. MasterInv'
  <2>1. queue'[Root] = <<>>
    BY <1>6, OrderFacts, ShardFacts
  <2>2. DOMAIN queue'[Root] = {}
    BY <2>1
  <2>. QED  BY <1>2, <1>3, <2>2 DEF IInv, MasterInv
<1>11. HistoryInv' /\ RootBacked' /\ AckedIsStored'
  BY <1>2, <1>3 DEF IInv, HistoryInv, RootBacked, AckedIsStored, Rows
<1>12. MasterTypes' /\ ThreadTypes' /\ TxTypes' /\ DbTypes'
  BY <1>1, <1>2, TypesKept DEF MasterTypes
<1>. QED  BY <1>6, <1>9, <1>10, <1>11, <1>12, TypePartsNext DEF IInv

\* The closure fails before it has sent anything.
LEMMA BodyFailsStep == ASSUME IInv, BodyFails PROVE IInv'
<1>1. MasterTypes /\ ThreadTypes /\ TxTypes /\ DbTypes /\ queue \in Queues
  BY TypeParts DEF IInv
<1>2. /\ pc = "body" /\ op = "store"
      /\ UNCHANGED <<op, target, durability, next, oneshot, deferred, thread, txVars, dbVars,
                     acked, replaced>>
  BY DEF BodyFails
<1>3. \A x \in Writer : queue[x] = <<>> /\ thread[x] = "intx" /\ Open(x)
  BY <1>2 DEF IInv, WritersInv, WriterOK
<1>4. HistoryInv' /\ RootBacked' /\ AckedIsStored' /\ TxTypes' /\ DbTypes'
  <2>1. TxTypes' /\ DbTypes'
    BY <1>1, <1>2, TypesKept
  <2>. QED  BY <1>2, <2>1 DEF IInv, HistoryInv, RootBacked, AckedIsStored, Rows, dbVars
<1>5. CASE pc' = "failed" /\ UNCHANGED <<queue, pos, ack>>
  <2>1. WritersInv'
    <3>. SUFFICES ASSUME NEW x \in Writer PROVE WriterOK(x)'
      BY DEF WritersInv
    <3>1. queue'[x] = <<>> /\ thread'[x] = "intx" /\ Open(x)'
      BY <1>2, <1>3, <1>5 DEF Open, txVars, dbVars
    <3>. QED  BY <1>5, <3>1, OpenIsTx DEF WriterOK, FailedOK
  <2>2. MasterInv' /\ AskInv'
    BY <1>2, <1>5 DEF IInv, MasterInv, AskInv, Asked
  <2>3. MasterTypes' /\ ThreadTypes' /\ queue' \in Queues
    BY <1>1, <1>2, <1>5, TypesKept DEF MasterTypes
  <2>. QED  BY <1>4, <2>1, <2>2, <2>3, TypePartsNext DEF IInv
<1>6. CASE SendAll([x \in Writer |-> <<Command("Shutdown", {})>>]) /\ Await("stop")
  <2>1. /\ queue' \in Queues /\ ThreadTypes' /\ pc' = "stop" /\ pos' = 1
        /\ WritersInv' /\ MasterInv' /\ AskInv'
    BY <1>2, <1>3, <1>6, StopKeeps
  <2>2. MasterTypes'
    BY <1>1, <1>2, <2>1, OrderFacts DEF MasterTypes
  <2>. QED  BY <1>4, <2>1, <2>2, TypePartsNext DEF IInv
<1>. QED  BY <1>5, <1>6 DEF BodyFails

\* Block::delete: every writer is told to remove the rows.
LEMMA DeleteBodyStep == ASSUME IInv, DeleteBody PROVE IInv'
<1>1. MasterTypes /\ ThreadTypes /\ TxTypes /\ DbTypes /\ queue \in Queues
  BY TypeParts DEF IInv
<1>. DEFINE cmds == [x \in Writer |-> <<CRemove>>]
<1>2. /\ pc = "body" /\ op = "delete" /\ SendAll(cmds) /\ pc' = "removing"
      /\ UNCHANGED <<op, target, pos, durability, next, oneshot, deferred, thread, ack,
                     txVars, dbVars, acked, replaced>>
  BY DEF DeleteBody, CRemove
<1>3. UNCHANGED <<op, target, pos, next, work, buf, failed, flushing, db, safe>>
  BY <1>2 DEF txVars, dbVars
<1>4. CRemove \in [cmd : Commands, rows : SUBSET Row] /\ CRemove.cmd = "Remove" /\ CRemove' = CRemove
  <2>1. "Remove" \in Commands
    BY DEF Commands
  <2>2. CRemove' = CRemove
    BY <1>3 DEF CRemove, Rows
  <2>. QED  BY <1>1, <2>1, <2>2, CommandTypes DEF CRemove, MasterTypes
<1>5. cmds \in Queues
  BY <1>4 DEF Queues
<1>6. queue' \in Queues /\ \A x \in Writer : queue'[x] = <<CRemove>>
  <2>. HIDE DEF cmds
  <2>1. queue' \in Queues /\ \A x \in Writer : queue'[x] = queue[x] \o cmds[x]
    BY <1>1, <1>2, <1>5, SendFacts
  <2>2. \A x \in Writer : queue[x] = <<>>
    BY <1>2 DEF IInv, WritersInv, WriterOK
  <2>3. \A x \in Writer : cmds[x] = <<CRemove>>
    BY DEF cmds
  <2>. QED  BY <2>1, <2>2, <2>3, ConcatFacts
<1>7. ASSUME NEW x \in Writer PROVE WriterOK(x)'
  <2>1. thread'[x] = "intx" /\ Open(x)'
    BY <1>2, <1>3 DEF IInv, WritersInv, WriterOK, Open
  <2>2. DeleteOK(x)'
    <3>1. queue'[x] = <<CRemove'>>
      BY <1>4, <1>6
    <3>2. work'[x] = db'[x] /\ buf'[x] = {} /\ flushing'[x].shards = 0
      BY <2>1 DEF Open, NoFlush
    <3>. QED  BY <3>1, <3>2 DEF DeleteOK
  <2>3. TxOK(x)'
    BY <1>2, <2>1, <2>2 DEF TxOK
  <2>. QED  BY <1>2, <1>4, <1>6, <2>1, <2>3 DEF WriterOK
<1>8. WritersInv'
  BY <1>7 DEF WritersInv
<1>9. AskInv'
  <2>1. \A s \in QueryShards : ~Asked(s)'
    BY <1>4, <1>6, ShardFacts, NotAsked
  <2>. QED  BY <2>1 DEF AskInv
<1>10. MasterInv'
  <2>. DEFINE c == CRemove
  <2>1. \A i \in DOMAIN queue'[Root] : queue'[Root][i].cmd # "Flush"
    <3>1. queue'[Root] = <<c>> /\ c.cmd = "Remove"
      BY <1>4, <1>6, OrderFacts
    <3>. HIDE DEF c
    <3>. QED  BY <3>1
  <2>. QED  BY <1>2, <1>3, <2>1 DEF IInv, MasterInv
<1>11. HistoryInv' /\ RootBacked' /\ AckedIsStored'
  BY <1>2, <1>3 DEF IInv, HistoryInv, RootBacked, AckedIsStored, Rows
<1>12. MasterTypes' /\ ThreadTypes' /\ TxTypes' /\ DbTypes'
  BY <1>1, <1>2, TypesKept DEF MasterTypes
<1>. QED  BY <1>6, <1>8, <1>9, <1>10, <1>11, <1>12, TypePartsNext DEF IInv

\* The deletes have been acknowledged.
LEMMA RemoveWaitStep == ASSUME IInv, RemoveWait PROVE IInv'
<1>1. MasterTypes /\ ThreadTypes /\ TxTypes /\ DbTypes /\ queue \in Queues
  BY TypeParts DEF IInv
<1>2. /\ pc = "removing" /\ \A x \in Writer : queue[x] = <<>>
      /\ pc' \in {"failed", "commit"}
      /\ UNCHANGED <<op, target, pos, durability, next, oneshot, deferred, queue, thread, ack,
                     txVars, dbVars, acked, replaced>>
  BY DEF RemoveWait, threadVars
<1>3. UNCHANGED <<op, target, pos, next, work, buf, failed, flushing, db, safe>>
  BY <1>2 DEF txVars, dbVars
<1>4. op = "delete" /\ \A x \in Writer : TxOK(x)
  BY <1>2, OrderFacts DEF IInv, WritersInv, WriterOK
<1>5. \A s \in QueryShards : Asked(s)' <=> Asked(s)
  BY <1>2 DEF Asked
<1>6. ASSUME NEW x \in Writer PROVE WriterOK(x)'
  <2>1. SameWriter(x)
    BY <1>2, <1>3 DEF SameWriter
  <2>2. TxOK(x)'
    BY <1>2, <1>4, <1>5, <2>1, TxKept
  <2>3. thread'[x] = "intx"
    BY <2>2 DEF TxOK
  <2>. QED  BY <1>2, <1>4, <2>2, <2>3 DEF WriterOK, CommitOK, FailedOK
<1>7. MasterInv' /\ AskInv'
  BY <1>2, <1>3, <1>5 DEF IInv, MasterInv, AskInv
<1>8. HistoryInv' /\ RootBacked' /\ AckedIsStored'
  BY <1>2, <1>3 DEF IInv, HistoryInv, RootBacked, AckedIsStored, Rows
<1>9. MasterTypes' /\ ThreadTypes' /\ TxTypes' /\ DbTypes' /\ queue' \in Queues
  BY <1>1, <1>2, TypesKept DEF MasterTypes
<1>. QED  BY <1>6, <1>7, <1>8, <1>9, TypePartsNext DEF IInv, WritersInv

-----------------------------------------------------------------------------
(* The commit. *)

\* A queue with one more command.
LEMMA ConcatOne ==
  ASSUME NEW C, NEW q \in Seq(C), NEW f \in C
  PROVE  LET t == q \o <<f>>
             n == Len(q)
         IN  /\ t \in Seq(C) /\ t # <<>> /\ n \in Nat
             /\ DOMAIN q = 1 .. n /\ DOMAIN t = 1 .. (n + 1)
             /\ \A i \in 1 .. n : t[i] = q[i]
             /\ t[n + 1] = f
             /\ Head(t) = IF q = <<>> THEN f ELSE Head(q)
<1>. DEFINE p == <<f>>
            t == q \o p
            n == Len(q)
<1>1. p \in Seq(C) /\ Len(p) = 1 /\ p[1] = f
  OBVIOUS
<1>2. n \in Nat /\ DOMAIN q = 1 .. n
  OBVIOUS
<1>. HIDE DEF p
<1>3. t \in Seq(C) /\ Len(t) = n + 1
  <2>1. t \in Seq(C) /\ Len(t) = n + Len(p)
    BY <1>1, ConcatProperties, Zenon
  <2>. QED  BY <1>1, <2>1
<1>4. DOMAIN t = 1 .. (n + 1)
  BY <1>3
<1>5. \A i \in 1 .. (n + 1) : t[i] = IF i <= n THEN q[i] ELSE p[i - n]
  <2>1. \A i \in 1 .. n + Len(p) : t[i] = IF i <= n THEN q[i] ELSE p[i - n]
    BY <1>1, ConcatProperties, Zenon
  <2>. QED  BY <1>1, <2>1
<1>. HIDE DEF t, n
<1>6. \A i \in 1 .. n : t[i] = q[i]
  BY <1>2, <1>5
<1>7. t[n + 1] = f
  <2>1. n + 1 \in 1 .. (n + 1) /\ ~(n + 1 <= n) /\ (n + 1) - n = 1
    BY <1>2
  <2>. QED  BY <1>1, <1>5, <2>1
<1>8. t # <<>> /\ Head(t) = t[1]
  BY <1>2, <1>3
<1>9. Head(t) = IF q = <<>> THEN f ELSE Head(q)
  <2>1. CASE q = <<>>
    <3>1. n = 0
      BY <2>1 DEF n
    <3>. QED  BY <1>7, <1>8, <2>1, <3>1
  <2>2. CASE q # <<>>
    <3>1. Head(q) = q[1] /\ 1 \in 1 .. n
      BY <2>2 DEF n
    <3>. QED  BY <1>6, <1>8, <2>2, <3>1
  <2>. QED  BY <2>1, <2>2
<1>. QED  BY <1>2, <1>3, <1>4, <1>6, <1>7, <1>8, <1>9 DEF t, n, p

\* The flush command is added once.
LEMMA PairedFlush ==
  ASSUME NEW C, NEW q \in Seq(C), NEW f \in C, NEW b,
         f.cmd = "FlushWhenReady", Paired(q, b), ~b,
         \A i \in DOMAIN q : q[i].cmd # "FlushWhenReady"
  PROVE  Paired(q \o <<f>>, b)
<1>. DEFINE t == q \o <<f>>
            n == Len(q)
<1>1. /\ n \in Nat /\ DOMAIN q = 1 .. n /\ DOMAIN t = 1 .. (n + 1)
      /\ \A i \in 1 .. n : t[i] = q[i]
      /\ t[n + 1] = f
  BY ConcatOne
<1>. HIDE DEF t, n
<1>2. \A i \in DOMAIN t : i \in Int /\ (i \in DOMAIN q \/ i = n + 1)
  BY <1>1
<1>. SUFFICES ASSUME NEW i \in DOMAIN t
              PROVE  /\ t[i].cmd \in {"Merge", "Ready", "FlushWhenReady"}
                     /\ t[i].cmd = "Merge" => i + 1 \in DOMAIN t /\ t[i + 1].cmd = "Ready"
                     /\ t[i].cmd = "Ready" /\ i # 1 => t[i - 1].cmd = "Merge"
                     /\ t[i].cmd = "FlushWhenReady" => ~b
                     /\ \A j \in DOMAIN t :
                          /\ t[i].cmd = "Merge" /\ t[j].cmd = "Merge" /\ t[i].rows = t[j].rows
                               => i = j
                          /\ t[i].cmd = "FlushWhenReady" /\ t[j].cmd = "FlushWhenReady"
                               => i = j
  BY DEF Paired, t
<1>3. /\ t[i].cmd \in {"Merge", "Ready", "FlushWhenReady"}
      /\ t[i].cmd = "FlushWhenReady" => ~b
  BY <1>1, <1>2 DEF Paired
<1>4. ASSUME t[i].cmd = "Merge" PROVE i + 1 \in DOMAIN t /\ t[i + 1].cmd = "Ready"
  <2>1. i \in DOMAIN q
    BY <1>1, <1>2, <1>4
  <2>2. i + 1 \in DOMAIN q /\ q[i + 1].cmd = "Ready"
    BY <1>1, <1>4, <2>1 DEF Paired
  <2>. QED  BY <1>1, <2>2
<1>5. ASSUME t[i].cmd = "Ready", i # 1 PROVE t[i - 1].cmd = "Merge"
  <2>1. i \in DOMAIN q
    BY <1>1, <1>2, <1>5
  <2>2. q[i - 1].cmd = "Merge"
    BY <1>1, <1>5, <2>1 DEF Paired
  <2>3. i - 1 \in 1 .. n
    BY <1>1, <1>5, <2>1
  <2>. QED  BY <1>1, <2>2, <2>3
<1>6. ASSUME NEW j \in DOMAIN t
      PROVE  /\ t[i].cmd = "Merge" /\ t[j].cmd = "Merge" /\ t[i].rows = t[j].rows => i = j
             /\ t[i].cmd = "FlushWhenReady" /\ t[j].cmd = "FlushWhenReady" => i = j
  <2>1. CASE i \in DOMAIN q /\ j \in DOMAIN q
    BY <1>1, <2>1 DEF Paired
  <2>2. CASE i = n + 1 \/ j = n + 1
    BY <1>1, <1>2, <2>2
  <2>. QED  BY <1>2, <2>1, <2>2
<1>. QED  BY <1>3, <1>4, <1>5, <1>6

\* What each writer is sent at the commit, and what its transaction is then.
LEMMA CommitSends ==
  ASSUME IInv, commit_ctx_async
  PROVE  /\ queue' \in Queues /\ ThreadTypes' /\ pc' = "flush" /\ pos' = 1
         /\ \A x \in Writer :
              /\ ack'[x] = "none" /\ CommitOK(x)
              /\ queue'[x] = queue[x] \o
                   (IF op = "store" /\ x \notin QueryShards \cup Dependents
                    THEN (IF x = Root THEN <<CSorted>> ELSE <<CSorted, CFlush>>)
                    ELSE IF x = Root THEN <<>>
                    ELSE IF x \in Dependents /\ deferred THEN <<CWhenReady>>
                    ELSE <<CFlush>>)
         /\ CSorted \in [cmd : Commands, rows : SUBSET Row] /\ CSorted.cmd = "Sorted"
         /\ CFlush \in [cmd : Commands, rows : SUBSET Row] /\ CFlush.cmd = "Flush"
         /\ CWhenReady \in [cmd : Commands, rows : SUBSET Row]
         /\ CWhenReady.cmd = "FlushWhenReady"
<1>. DEFINE C == [cmd : Commands, rows : SUBSET Row]
            first(x) == IF op = "store" /\ x \notin QueryShards \cup Dependents
                        THEN <<CSorted>> ELSE <<>>
            cmds == [x \in Writer |-> first(x) \o FlushCommand(x)]
            sent(x) == IF op = "store" /\ x \notin QueryShards \cup Dependents
                       THEN (IF x = Root THEN <<CSorted>> ELSE <<CSorted, CFlush>>)
                       ELSE IF x = Root THEN <<>>
                       ELSE IF x \in Dependents /\ deferred THEN <<CWhenReady>>
                       ELSE <<CFlush>>
<1>1. MasterTypes /\ ThreadTypes /\ queue \in Queues
  BY TypeParts DEF IInv
<1>2. pc = "commit" /\ SendAll(cmds) /\ Await("flush") /\ UNCHANGED thread
  BY DEF commit_ctx_async, CSorted
<1>3. /\ CSorted \in C /\ CSorted.cmd = "Sorted" /\ CFlush \in C /\ CFlush.cmd = "Flush"
      /\ CWhenReady \in C /\ CWhenReady.cmd = "FlushWhenReady"
  <2>1. {"Sorted", "Flush", "FlushWhenReady"} \subseteq Commands
    BY DEF Commands
  <2>. QED  BY <1>1, <2>1, CommandTypes DEF CSorted, CFlush, CWhenReady, MasterTypes
<1>4. \A x \in Writer : cmds[x] = sent(x)
  <2>. SUFFICES ASSUME NEW x \in Writer PROVE first(x) \o FlushCommand(x) = sent(x)
    OBVIOUS
  <2>1. FlushCommand(x) = IF x = Root THEN <<>>
                          ELSE IF x \in Dependents /\ deferred THEN <<CWhenReady>>
                          ELSE <<CFlush>>
    BY DEF FlushCommand, CWhenReady, CFlush
  <2>2. CASE op = "store" /\ x \notin QueryShards \cup Dependents
    BY <2>1, <2>2, ConcatFacts
  <2>3. CASE ~(op = "store" /\ x \notin QueryShards \cup Dependents)
    BY <2>1, <2>3, ConcatFacts
  <2>. QED  BY <2>2, <2>3
<1>5. cmds \in Queues
  <2>1. \A x \in Writer : sent(x) \in Seq(C)
    <3>. HIDE DEF C
    <3>. QED  BY <1>3
  <2>2. cmds = [x \in Writer |-> sent(x)]
    <3>. HIDE DEF sent
    <3>. QED  BY <1>4
  <2>. HIDE DEF sent, cmds
  <2>. QED  BY <2>1, <2>2 DEF Queues
<1>6. queue' \in Queues /\ \A x \in Writer : queue'[x] = queue[x] \o sent(x)
  <2>. HIDE DEF cmds, sent
  <2>1. queue' \in Queues /\ \A x \in Writer : queue'[x] = queue[x] \o cmds[x]
    BY <1>1, <1>2, <1>5, SendFacts
  <2>. QED  BY <1>4, <2>1
<1>7. ThreadTypes' /\ pc' = "flush" /\ pos' = 1 /\ \A x \in Writer : ack'[x] = "none"
  BY <1>1, <1>2 DEF Await, ThreadTypes
<1>8. \A x \in Writer : CommitOK(x)
  BY <1>2 DEF IInv, WritersInv, WriterOK
<1>. QED  BY <1>3, <1>6, <1>7, <1>8

\* flush_async of every table but the root, whose flush waits for the others.
LEMMA CommitStep == ASSUME IInv, commit_ctx_async PROVE IInv'
<1>1. MasterTypes /\ ThreadTypes /\ TxTypes /\ DbTypes /\ queue \in Queues /\ op \in {"store", "delete"}
  BY TypeParts DEF IInv, MasterTypes
<1>2. /\ queue' \in Queues /\ ThreadTypes' /\ pc' = "flush" /\ pos' = 1
      /\ \A x \in Writer : ack'[x] = "none" /\ CommitOK(x)
  BY CommitSends
<1>3. /\ CSorted \in [cmd : Commands, rows : SUBSET Row] /\ CSorted.cmd = "Sorted"
      /\ CFlush \in [cmd : Commands, rows : SUBSET Row] /\ CFlush.cmd = "Flush"
      /\ CWhenReady \in [cmd : Commands, rows : SUBSET Row]
      /\ CWhenReady.cmd = "FlushWhenReady"
  BY CommitSends
<1>4. /\ pc = "commit"
      /\ UNCHANGED <<op, target, durability, next, oneshot, deferred, thread, txVars, dbVars,
                     acked, replaced>>
      /\ UNCHANGED <<work, buf, failed, flushing, db, safe>>
  BY DEF commit_ctx_async, txVars, dbVars
<1>5. /\ CSorted' = CSorted /\ CFlush' = CFlush /\ CWhenReady' = CWhenReady /\ CInsert' = CInsert
      /\ Rows(target)' = Rows(target) /\ \A x : CQuery(x)' = CQuery(x)
  BY <1>4 DEF CSorted, CFlush, CWhenReady, CInsert, CQuery, Rows
\* A delete.
<1>6. ASSUME NEW x \in Writer, op = "delete"
      PROVE  TxOK(x)' /\ (x = Root => queue'[x] = <<>>) /\ ~Asked(x)'
  <2>1. queue[x] = <<>> /\ TxOK(x) /\ DeleteOK(x)
    BY <1>2, <1>6 DEF CommitOK, TxOK
  <2>2. queue'[x] = queue[x] \o (IF x = Root THEN <<>>
                                ELSE IF x \in Dependents /\ deferred THEN <<CWhenReady>>
                                ELSE <<CFlush>>)
    BY <1>6, CommitSends
  <2>3. \/ queue'[x] = <<>> /\ x = Root
        \/ x # Root /\ queue'[x] \in {<<CWhenReady>>, <<CFlush>>}
    BY <2>1, <2>2, ConcatFacts
  <2>4. DeleteOK(x)'
    BY <1>4, <1>5, <2>1, <2>3 DEF DeleteOK
  <2>5. ~Asked(x)'
    BY <1>3, <2>3, NotAsked
  <2>. QED  BY <1>4, <1>6, <2>1, <2>3, <2>4, <2>5 DEF TxOK
\* A store in a column of its own.
<1>7. ASSUME NEW x \in Plain, op = "store"
      PROVE  TxOK(x)' /\ (x = Root => queue'[x] = <<CSorted>>)
  <2>1. x \in Writer /\ queue[x] = <<>> /\ TxOK(x) /\ PlainOK(x) /\ buf[x] = {}
    BY <1>2, <1>7, ShardFacts DEF CommitOK, TxOK, StoreOK
  <2>2. queue'[x] = queue[x] \o (IF x = Root THEN <<CSorted>> ELSE <<CSorted, CFlush>>)
    BY <1>7, <2>1, CommitSends DEF Plain
  <2>3. queue'[x] = IF x = Root THEN <<CSorted>> ELSE <<CSorted, CFlush>>
    BY <2>1, <2>2, ConcatFacts
  <2>4. PlainOK(x)'
    BY <1>4, <1>5, <2>1, <2>3 DEF PlainOK
  <2>. QED  BY <1>4, <1>7, <2>1, <2>3, <2>4, ShardFacts DEF TxOK, StoreOK
\* A store in an index shard.
<1>8. ASSUME NEW x \in QueryShards, op = "store"
      PROVE  TxOK(x)' /\ (Asked(x)' => Asked(x))
  <2>1. x \in Writer /\ x # Root /\ x \notin Dependents
    BY ShardFacts, OrderFacts
  <2>2. /\ TxOK(x) /\ QueryOK(x)
        /\ \/ queue[x] \in {<<CInsert, CQuery(x)>>, <<CQuery(x)>>}
           \/ queue[x] = <<>> /\ (failed[x] \/ Rows(target) \subseteq work[x])
    BY <1>2, <1>8, <2>1 DEF CommitOK, TxOK, StoreOK
  <2>3. queue'[x] = queue[x] \o <<CFlush>>
    BY <1>8, <2>1, CommitSends
  <2>4. QueryOK(x)'
    <3>1. CASE queue[x] = <<CInsert, CQuery(x)>>
      <4>1. queue'[x] = <<CInsert, CQuery(x), CFlush>>
        BY <2>3, <3>1, ConcatFacts
      <4>. QED  BY <1>4, <1>5, <2>2, <4>1 DEF QueryOK
    <3>2. CASE queue[x] = <<CQuery(x)>>
      <4>1. queue'[x] = <<CQuery(x), CFlush>>
        BY <2>3, <3>2, ConcatFacts
      <4>2. <<CQuery(x)>> # <<CInsert, CQuery(x)>> /\ <<CQuery(x)>> # <<CInsert, CQuery(x), CFlush>>
            /\ <<CQuery(x)>> # <<>>
        BY TupleFacts
      <4>3. failed[x] \/ Rows(target) \subseteq work[x]
        BY <2>2, <3>2, <4>2 DEF QueryOK
      <4>. QED  BY <1>4, <1>5, <2>2, <4>1, <4>3 DEF QueryOK
    <3>3. CASE queue[x] = <<>> /\ (failed[x] \/ Rows(target) \subseteq work[x])
      <4>1. queue'[x] = <<CFlush>>
        BY <2>3, <3>3, ConcatFacts
      <4>. QED  BY <1>4, <1>5, <2>2, <3>3, <4>1 DEF QueryOK
    <3>. QED  BY <2>2, <3>1, <3>2, <3>3
  <2>5. ASSUME Asked(x)' PROVE Asked(x)
    <3>. DEFINE n == Len(queue[x])
    <3>1. queue[x] \in Seq([cmd : Commands, rows : SUBSET Row])
      BY <1>1, <2>1 DEF Queues
    <3>2. /\ n \in Nat /\ DOMAIN queue[x] = 1 .. n /\ DOMAIN queue'[x] = 1 .. (n + 1)
          /\ \A i \in 1 .. n : queue'[x][i] = queue[x][i]
          /\ queue'[x][n + 1] = CFlush
      BY <1>3, <2>3, <3>1, ConcatOne
    <3>. HIDE DEF n
    <3>3. PICK i \in DOMAIN queue'[x] : queue'[x][i].cmd = "Query"
      BY <2>5 DEF Asked
    <3>4. i \in 1 .. n
      BY <1>3, <3>2, <3>3
    <3>. QED  BY <3>2, <3>3, <3>4 DEF Asked
  <2>. QED  BY <1>4, <1>8, <2>1, <2>2, <2>4, <2>5, ShardFacts DEF TxOK, StoreOK
<1>9. \A s \in QueryShards : Asked(s)' => Asked(s)
  BY <1>1, <1>6, <1>8, ShardFacts
\* A store in a dependent column.
<1>10. ASSUME NEW v \in Dependents, op = "store"
       PROVE  TxOK(v)'
  <2>. DEFINE C == [cmd : Commands, rows : SUBSET Row]
              n == Len(queue[v])
              f == CWhenReady
  <2>1. v \in Writer /\ v # Root /\ v \notin QueryShards
    BY ShardFacts, OrderFacts
  <2>2. /\ TxOK(v) /\ DependentOK(v) /\ deferred /\ ~flushing[v].sender
        /\ \A i \in DOMAIN queue[v] : queue[v][i].cmd # "FlushWhenReady"
    BY <1>2, <1>10, <2>1 DEF CommitOK, TxOK, StoreOK
  <2>3. queue'[v] = queue[v] \o <<f>> /\ queue[v] \in Seq(C) /\ f \in C
        /\ f.cmd = "FlushWhenReady"
    BY <1>1, <1>3, <1>10, <2>1, <2>2, CommitSends DEF Queues
  <2>. HIDE DEF C, n, f
  <2>4. /\ queue'[v] # <<>> /\ n \in Nat
        /\ DOMAIN queue[v] = 1 .. n /\ DOMAIN queue'[v] = 1 .. (n + 1)
        /\ \A i \in 1 .. n : queue'[v][i] = queue[v][i]
        /\ queue'[v][n + 1] = f
        /\ Head(queue'[v]) = IF queue[v] = <<>> THEN f ELSE Head(queue[v])
    BY <2>3, ConcatOne DEF n
  <2>5. PICK D \in SUBSET QueryShards : Collected(v, D)
    BY <2>2 DEF DependentOK
  <2>6. Collected(v, D)'
    <3>1. (queue'[v] # <<>> /\ Head(queue'[v]).cmd = "Ready")
            <=> (queue[v] # <<>> /\ Head(queue[v]).cmd = "Ready")
      BY <2>3, <2>4
    <3>2. ASSUME NEW i \in DOMAIN queue'[v], queue'[v][i].cmd = "Merge"
          PROVE  \E s \in QueryShards \ D : queue'[v][i].rows = target' \X {s} /\ ~Asked(s)'
      <4>1. i \in DOMAIN queue[v] /\ queue'[v][i] = queue[v][i]
        BY <2>3, <2>4, <3>2
      <4>2. PICK s \in QueryShards \ D : queue[v][i].rows = target \X {s} /\ ~Asked(s)
        BY <2>5, <3>2, <4>1 DEF Collected
      <4>. QED  BY <1>4, <1>9, <4>1, <4>2
    <3>3. \A s \in D : ~Asked(s)'
      BY <1>9, <2>5 DEF Collected
    <3>4. buf'[v] = target' \X D
      BY <1>4, <2>5 DEF Collected
    <3>5. Cardinality(D) = IF queue'[v] # <<>> /\ Head(queue'[v]).cmd = "Ready"
                           THEN flushing'[v].sum + 1 ELSE flushing'[v].sum
      BY <1>4, <2>5, <3>1 DEF Collected
    <3>. QED  BY <3>2, <3>3, <3>4, <3>5 DEF Collected
  <2>7. Paired(queue[v], flushing[v].sender)'
    <3>1. Paired(queue[v], flushing[v].sender)
      BY <2>2 DEF DependentOK
    <3>2. Paired(queue[v] \o <<f>>, flushing[v].sender)
      BY <2>2, <2>3, <3>1, PairedFlush
    <3>. QED  BY <1>4, <2>3, <3>2
  <2>8. DependentOK(v)'
    BY <1>4, <2>2, <2>6, <2>7 DEF DependentOK
  <2>. QED  BY <1>4, <1>10, <2>1, <2>2, <2>8, ShardFacts DEF TxOK, StoreOK
<1>11. \A x \in Writer : TxOK(x)'
  BY <1>1, <1>6, <1>7, <1>8, <1>10, ShardFacts
<1>12. WritersInv'
  <2>. SUFFICES ASSUME NEW x \in Writer PROVE WriterOK(x)'
    BY DEF WritersInv
  <2>1. thread'[x] = "intx" /\ FlushOK(x)'
    BY <1>2, <1>11 DEF FlushOK, TxOK
  <2>. QED  BY <1>2, <2>1 DEF WriterOK
<1>13. AskInv'
  BY <1>4, <1>9 DEF IInv, AskInv
<1>14. MasterInv'
  <2>1. CASE op = "store"
    <3>. DEFINE c == CSorted
    <3>1. queue'[Root] = <<c>> /\ c.cmd = "Sorted"
      BY <1>3, <1>7, <2>1, OrderFacts
    <3>. HIDE DEF c
    <3>2. queue'[Root] # <<>> /\ \A i \in DOMAIN queue'[Root] : queue'[Root][i].cmd # "Flush"
      BY <3>1
    <3>. QED  BY <1>2, <1>4, <2>1, <3>2, OrderFacts DEF IInv, MasterInv
  <2>2. CASE op = "delete"
    <3>1. queue'[Root] = <<>>
      BY <1>6, <2>2, OrderFacts
    <3>2. DOMAIN queue'[Root] = {}
      BY <3>1
    <3>. QED  BY <1>2, <1>4, <2>2, <3>2, OrderFacts DEF IInv, MasterInv
  <2>. QED  BY <1>1, <2>1, <2>2
<1>15. HistoryInv' /\ RootBacked' /\ AckedIsStored'
  BY <1>4 DEF IInv, HistoryInv, RootBacked, AckedIsStored, Rows
<1>16. MasterTypes' /\ TxTypes' /\ DbTypes'
  BY <1>1, <1>2, <1>4, TypesKept, OrderFacts DEF MasterTypes
<1>. QED  BY <1>2, <1>12, <1>13, <1>14, <1>15, <1>16, TypePartsNext DEF IInv

\* A commit that returns an error leaves its writers in a state a new context can
\* deal with.
LEMMA FlushFails ==
  ASSUME IInv, pc \in {"flush", "root"}, pc = "root" => ack[Root] # "none", pc' = "failed",
         UNCHANGED <<op, target, pos, durability, next, oneshot, deferred, queue, thread, ack,
                     txVars, dbVars, acked, replaced>>
  PROVE  IInv'
<1>1. MasterTypes /\ ThreadTypes /\ TxTypes /\ DbTypes /\ queue \in Queues
  BY TypeParts DEF IInv
<1>2. UNCHANGED <<work, buf, failed, flushing, db, safe>>
  BY DEF txVars, dbVars
<1>3. \A s \in QueryShards : Asked(s)' <=> Asked(s)
  BY DEF Asked
<1>4. ASSUME NEW x \in Writer PROVE WriterOK(x)'
  <2>1. FlushOK(x) /\ ack[x] \in {"none", "ok", "err"}
        /\ (thread[x] # "intx" => buf[x] = {} /\ ~failed[x] /\ flushing[x] = NoFlush)
    BY <1>1 DEF IInv, WritersInv, WriterOK, ThreadTypes
  <2>2. CASE ack[x] = "none"
    <3>1. TxOK(x) /\ SameWriter(x)
      BY <1>2, <2>1, <2>2 DEF FlushOK, SameWriter
    <3>2. TxOK(x)'
      BY <1>3, <3>1, TxKept
    <3>3. thread'[x] = "intx"
      BY <3>2 DEF TxOK
    <3>. QED  BY <3>2, <3>3 DEF WriterOK, FailedOK
  <2>3. CASE ack[x] # "none"
    <3>1. queue'[x] = <<>> /\ thread'[x] = "outer"
      BY <2>1, <2>3 DEF FlushOK, DoneOK
    <3>. QED  BY <1>2, <2>1, <3>1 DEF WriterOK, FailedOK
  <2>. QED  BY <2>2, <2>3
<1>5. AskInv'
  BY <1>3 DEF IInv, AskInv
<1>6. MasterInv'
  <2>1. \A i \in DOMAIN queue'[Root] : queue'[Root][i].cmd # "Flush"
    <3>1. CASE pc = "flush"
      BY <3>1 DEF IInv, MasterInv
    <3>2. CASE pc = "root"
      <4>1. FlushOK(Root) /\ ack[Root] \in {"none", "ok", "err"}
        BY <1>1, <3>2, OrderFacts DEF IInv, WritersInv, WriterOK, ThreadTypes
      <4>2. queue'[Root] = <<>>
        BY <3>2, <4>1 DEF FlushOK, DoneOK
      <4>3. DOMAIN queue'[Root] = {}
        BY <4>2
      <4>. QED  BY <4>3
    <3>. QED  BY <3>1, <3>2
  <2>. QED  BY <2>1 DEF IInv, MasterInv
<1>7. HistoryInv' /\ RootBacked' /\ AckedIsStored'
  BY <1>2 DEF IInv, HistoryInv, RootBacked, AckedIsStored, Rows
<1>8. MasterTypes' /\ ThreadTypes' /\ TxTypes' /\ DbTypes' /\ queue' \in Queues
  BY <1>1, TypesKept DEF MasterTypes
<1>. QED  BY <1>4, <1>5, <1>6, <1>7, <1>8, TypePartsNext DEF IInv, WritersInv

\* All others have committed: the root's flush is sent behind its rows.
LEMMA FlushRootStep == ASSUME IInv, FlushRoot PROVE IInv'
<1>1. MasterTypes /\ ThreadTypes /\ TxTypes /\ DbTypes /\ queue \in Queues /\ op \in {"store", "delete"}
  BY TypeParts DEF IInv, MasterTypes
<1>2. /\ pc = "flush" /\ Order[pos] = Root /\ pc' = "root"
      /\ queue' = [queue EXCEPT ![Root] = Append(@, CFlush)]
      /\ UNCHANGED <<op, target, pos, durability, next, oneshot, deferred, thread, ack,
                     txVars, dbVars, acked, replaced>>
  BY DEF FlushRoot, CFlush
<1>3. UNCHANGED <<op, target, pos, next, work, buf, failed, flushing, db, safe>>
  BY <1>2 DEF txVars, dbVars
<1>4. Root \in Writer /\ Root \in Plain /\ Root \notin QueryShards /\ Root \notin Dependents
  BY OrderFacts, ShardFacts
<1>5. /\ queue' \in Queues /\ queue'[Root] = Append(queue[Root], CFlush)
      /\ \A x \in Writer \ {Root} : queue'[x] = queue[x]
  <2>. DEFINE C == [cmd : Commands, rows : SUBSET Row]
  <2>1. CFlush \in C /\ queue \in [Writer -> Seq(C)]
    BY <1>1, CommandTypes DEF CFlush, Commands, Queues
  <2>. HIDE DEF C
  <2>2. Append(queue[Root], CFlush) \in Seq(C)
    BY <1>4, <2>1
  <2>3. /\ queue' \in [Writer -> Seq(C)] /\ queue'[Root] = Append(queue[Root], CFlush)
        /\ \A x \in Writer \ {Root} : queue'[x] = queue[x]
    BY <1>2, <1>4, <2>1, <2>2
  <2>. QED  BY <2>3 DEF Queues, C
<1>6. \A s \in QueryShards : Asked(s)' <=> Asked(s)
  BY <1>4, <1>5, ShardFacts DEF Asked
<1>7. CFlush' = CFlush /\ CSorted' = CSorted /\ Rows(target)' = Rows(target) /\ CFlush.cmd = "Flush"
  BY <1>3 DEF CFlush, CSorted, Rows, Command
<1>8. MasterInv /\ ack[Root] = "none" /\ TxOK(Root) /\ thread[Root] = "intx"
      /\ \A i \in DOMAIN queue[Root] : queue[Root][i].cmd # "Flush"
  BY <1>2, <1>4 DEF IInv, MasterInv, WritersInv, WriterOK, FlushOK, TxOK
<1>9. TxOK(Root)'
  <2>1. CASE op = "store"
    <3>1. PlainOK(Root)
      BY <1>4, <1>8, <2>1 DEF TxOK, StoreOK
    <3>. DEFINE c == CFlush
                d == CSorted
    <3>2. c.cmd = "Flush"
      BY <1>7
    <3>3. queue[Root] # <<c>> /\ queue[Root] # <<d, c>>
      <4>. HIDE DEF c, d
      <4>1. 1 \in DOMAIN <<c>> /\ <<c>>[1] = c /\ 2 \in DOMAIN <<d, c>> /\ <<d, c>>[2] = c
        OBVIOUS
      <4>. QED  BY <1>8, <3>2, <4>1
    <3>4. CASE queue[Root] = <<CSorted>> /\ buf[Root] = {}
      <4>1. queue'[Root] = <<CSorted, CFlush>>
        BY <1>5, <3>4, ConcatFacts
      <4>2. PlainOK(Root)'
        BY <1>3, <1>7, <3>1, <3>4, <4>1 DEF PlainOK
      <4>. QED  BY <1>2, <1>4, <1>8, <2>1, <4>2 DEF TxOK, StoreOK
    <3>5. CASE queue[Root] = <<>>
      <4>1. queue'[Root] = <<CFlush>>
        BY <1>5, <3>5, ConcatFacts
      <4>2. buf[Root] = Rows(target)
        BY <1>2, <1>8, <2>1, <3>5 DEF MasterInv
      <4>3. PlainOK(Root)'
        BY <1>3, <1>7, <3>1, <4>1, <4>2 DEF PlainOK
      <4>. QED  BY <1>2, <1>4, <1>8, <2>1, <4>3 DEF TxOK, StoreOK
    <3>. QED  BY <3>1, <3>3, <3>4, <3>5 DEF PlainOK
  <2>2. CASE op = "delete"
    <3>1. DeleteOK(Root) /\ DOMAIN queue[Root] = {}
      BY <1>2, <1>8, <2>2 DEF TxOK, MasterInv
    <3>2. queue[Root] = <<>>
      <4>1. queue[Root] \in Seq([cmd : Commands, rows : SUBSET Row])
        BY <1>1, <1>4 DEF Queues
      <4>2. DOMAIN queue[Root] = 1 .. Len(queue[Root]) /\ Len(queue[Root]) \in Nat
        BY <4>1
      <4>3. 1 \notin 1 .. Len(queue[Root])
        BY <3>1, <4>2
      <4>4. Len(queue[Root]) = 0
        BY <4>2, <4>3
      <4>. QED  BY <4>1, <4>4
    <3>3. queue'[Root] = <<CFlush>>
      BY <1>5, <3>2, ConcatFacts
    <3>4. DeleteOK(Root)'
      BY <1>3, <1>7, <3>1, <3>3 DEF DeleteOK
    <3>. QED  BY <1>2, <1>8, <2>2, <3>4 DEF TxOK
  <2>. QED  BY <1>1, <2>1, <2>2
<1>10. ASSUME NEW x \in Writer PROVE WriterOK(x)'
  <2>1. CASE x = Root
    <3>1. ack'[x] = "none" /\ TxOK(x)' /\ thread'[x] = "intx"
      BY <1>2, <1>8, <1>9, <2>1 DEF TxOK
    <3>. QED  BY <1>2, <3>1 DEF WriterOK, FlushOK
  <2>2. CASE x # Root
    <3>1. SameWriter(x)
      BY <1>2, <1>3, <1>5, <2>2 DEF SameWriter
    <3>2. TxOK(x) => TxOK(x)'
      BY <1>2, <1>6, <3>1, TxKept
    <3>3. FlushOK(x) /\ (thread[x] # "intx" => buf[x] = {} /\ ~failed[x] /\ flushing[x] = NoFlush)
      BY <1>2 DEF IInv, WritersInv, WriterOK
    <3>4. DoneOK(x) => DoneOK(x)'
      BY <1>2, <1>7, <3>1 DEF DoneOK, SameWriter
    <3>5. FlushOK(x)'
      BY <3>1, <3>2, <3>3, <3>4 DEF FlushOK, SameWriter
    <3>. QED  BY <1>2, <3>1, <3>3, <3>5 DEF WriterOK, SameWriter
  <2>. QED  BY <2>1, <2>2
<1>11. AskInv'
  BY <1>2, <1>6 DEF IInv, AskInv
<1>12. MasterInv'
  <2>1. \A x \in Writer \ {Root} : ack[x] = "ok"
    <3>. SUFFICES ASSUME NEW x \in Writer \ {Root} PROVE ack[x] = "ok"
      OBVIOUS
    <3>1. pos = Len(Order)
      BY <1>1, <1>2, OrderFacts DEF MasterTypes
    <3>2. PICK i \in 1 .. Len(Order) - 1 : Order[i] = x
      BY OrderFacts
    <3>. QED  BY <1>2, <1>8, <3>1, <3>2 DEF MasterInv
  <2>. QED  BY <1>2, <1>8, <2>1 DEF MasterInv
<1>13. HistoryInv' /\ RootBacked' /\ AckedIsStored'
  BY <1>2, <1>3 DEF IInv, HistoryInv, RootBacked, AckedIsStored, Rows
<1>14. MasterTypes' /\ ThreadTypes' /\ TxTypes' /\ DbTypes'
  BY <1>1, <1>2, TypesKept DEF MasterTypes
<1>. QED  BY <1>5, <1>10, <1>11, <1>12, <1>13, <1>14, TypePartsNext DEF IInv, WritersInv

\* FlushFuture::wait for a writer before the root.
LEMMA FlushWaitStep == ASSUME IInv, FlushWait PROVE IInv'
<1>. DEFINE w == Order[pos]
<1>1. MasterTypes /\ ThreadTypes /\ TxTypes /\ DbTypes /\ queue \in Queues
  BY TypeParts DEF IInv
<1>2. /\ pc = "flush" /\ w # Root /\ ack[w] # "none"
      /\ \/ ack[w] = "err" /\ pc' = "failed" /\ UNCHANGED pos
         \/ ack[w] # "err" /\ pos' = pos + 1 /\ UNCHANGED pc
      /\ UNCHANGED <<op, target, durability, next, oneshot, deferred, queue, thread, ack,
                     txVars, dbVars, acked, replaced>>
      /\ UNCHANGED <<work, buf, failed, flushing, db, safe>>
  BY DEF FlushWait, threadVars, txVars, dbVars
<1>3. /\ pos \in 1 .. Len(Order) /\ Len(Order) \in Nat /\ w \in Writer
      /\ ack[w] \in {"none", "ok", "err"} /\ DOMAIN Order = 1 .. Len(Order) /\ pos # Len(Order)
  <2>1. pos # Len(Order)
    BY <1>2 DEF Root
  <2>. QED  BY <1>1, <2>1, OrderFacts DEF MasterTypes, ThreadTypes
<1>. HIDE DEF w
<1>4. CASE ack[w] = "err"
  BY <1>2, <1>4, FlushFails
<1>5. CASE ack[w] # "err"
  <2>1. pos' = pos + 1 /\ UNCHANGED pc /\ ack[w] = "ok"
    BY <1>2, <1>3, <1>5
  <2>2. pos + 1 \in 1 .. Len(Order)
    <3>1. \A n \in Nat : \A k \in 1 .. n : k # n => k + 1 \in 1 .. n
      OBVIOUS
    <3>. QED  BY <1>3, <3>1
  <2>3. pos \in Int
    <3>1. \A n \in Nat : \A k \in 1 .. n : k \in Int
      OBVIOUS
    <3>. QED  BY <1>3, <3>1
  <2>4. \A i \in 1 .. pos' - 1 : ack[Order[i]] = "ok"
    <3>. SUFFICES ASSUME NEW i \in 1 .. pos' - 1 PROVE ack[Order[i]] = "ok"
      OBVIOUS
    <3>1. i \in 1 .. pos - 1 \/ i = pos
      <4>1. \A k \in Int : \A j \in 1 .. (k + 1) - 1 : j \in 1 .. k - 1 \/ j = k
        OBVIOUS
      <4>2. pos' = pos + 1
        BY <2>1
      <4>3. i \in 1 .. (pos + 1) - 1
        BY <4>2
      <4>. QED  BY <2>3, <4>1, <4>3
    <3>. QED  BY <1>2, <2>1, <3>1 DEF IInv, MasterInv, w
  <2>5. MasterInv'
    BY <1>2, <2>1, <2>4 DEF IInv, MasterInv, Rows
  <2>6. MasterTypes'
    BY <1>1, <1>2, <1>3, <2>1, <2>2 DEF MasterTypes
  <2>7. \A s \in QueryShards : Asked(s)' => Asked(s)
    BY <1>2 DEF Asked
  <2>8. WritersInv'
    <3>. SUFFICES ASSUME NEW x \in Writer PROVE WriterOK(x)'
      BY DEF WritersInv
    <3>1. SameWriter(x)
      BY <1>2 DEF SameWriter
    <3>. QED  BY <1>2, <2>1, <2>7, <3>1, WriterKept DEF IInv, WritersInv
  <2>9. AskInv'
    BY <1>2, <2>7 DEF IInv, AskInv
  <2>10. HistoryInv' /\ RootBacked' /\ AckedIsStored'
    BY <1>2 DEF IInv, HistoryInv, RootBacked, AckedIsStored, Rows
  <2>11. ThreadTypes' /\ TxTypes' /\ DbTypes' /\ queue' \in Queues
    BY <1>1, <1>2, TypesKept
  <2>. QED  BY <2>5, <2>6, <2>8, <2>9, <2>10, <2>11, TypePartsNext DEF IInv
<1>. QED  BY <1>4, <1>5

\* The root has answered: the transaction is over.
LEMMA RootWaitStep == ASSUME IInv, RootWait PROVE IInv'
<1>1. MasterTypes /\ ThreadTypes /\ TxTypes /\ DbTypes /\ queue \in Queues
  BY TypeParts DEF IInv
<1>2. /\ pc = "root" /\ ack[Root] # "none"
      /\ UNCHANGED <<target, oneshot, deferred, thread, txVars, dbVars, replaced>>
      /\ UNCHANGED <<work, buf, failed, flushing, db, safe>>
  BY DEF RootWait, txVars, dbVars
<1>3. CASE ack[Root] = "err"
  <2>1. /\ pc' = "failed"
        /\ UNCHANGED <<op, pos, durability, next, queue, ack, acked>>
    BY <1>3 DEF RootWait
  <2>. QED  BY <1>2, <2>1, FlushFails
<1>4. ASSUME ack[Root] = "ok"
      PROVE  \A x \in Writer : DoneOK(x) /\ queue[x] = <<>> /\ thread[x] = "outer"
  <2>1. \A x \in Writer : ack[x] = "ok" /\ FlushOK(x)
    BY <1>2, <1>4 DEF IInv, MasterInv, WritersInv, WriterOK
  <2>. QED  BY <2>1 DEF FlushOK, DoneOK
<1>5. TxTypes' /\ next <= MaxHeight /\ target # {} /\ 1 \in DOMAIN Order
  BY <1>1, <1>2, TypesKept, OrderFacts DEF IInv, MasterInv
\* update_blocks goes on to store what it has deleted.
<1>6. CASE ack[Root] = "ok" /\ op = "delete"
  <2>1. /\ op' = "store" /\ durability' = TRUE
        /\ SendAll([x \in Writer |-> <<Command("Begin", {})>>]) /\ Await("begin")
        /\ UNCHANGED <<next, acked>>
    BY <1>6 DEF RootWait
  <2>2. /\ queue' \in Queues /\ ThreadTypes' /\ pc' = "begin" /\ pos' = 1
        /\ WritersInv' /\ MasterInv' /\ AskInv'
    BY <1>2, <1>4, <1>5, <1>6, <2>1, BeginKeeps
  <2>3. MasterTypes' /\ DbTypes'
    BY <1>1, <1>2, <1>5, <2>1, <2>2 DEF MasterTypes, DbTypes
  <2>4. HistoryInv' /\ RootBacked' /\ AckedIsStored'
    BY <1>2, <2>1 DEF IInv, HistoryInv, RootBacked, AckedIsStored, Rows
  <2>. QED  BY <1>5, <2>2, <2>3, <2>4, TypePartsNext DEF IInv
\* The store is acknowledged.
<1>7. CASE ack[Root] = "ok" /\ op = "store"
  <2>1. /\ next' = next + 1 /\ acked' = acked \cup target /\ UNCHANGED <<op, durability>>
        /\ IF oneshot
           THEN /\ SendAll([x \in Writer |-> <<Command("Shutdown", {})>>])
                /\ Await("stop")
           ELSE pc' = "idle" /\ UNCHANGED <<pos, queue, ack>>
    BY <1>7 DEF RootWait
  <2>2. next' \in 1 .. (MaxHeight + 1) /\ DbTypes'
    <3>1. next' \in 1 .. (MaxHeight + 1)
      BY <1>1, <1>5, <2>1, WriteTxAssumption DEF MasterTypes
    <3>. QED  BY <1>1, <1>2, <2>1, <3>1 DEF MasterTypes, DbTypes
  <2>3. HistoryInv' /\ RootBacked' /\ AckedIsStored'
    <3>1. \A x \in Writer : Rows(acked) \subseteq db[x] /\ Rows(target) \subseteq db[x]
      BY <1>4, <1>7 DEF IInv, AckedIsStored, DoneOK
    <3>2. Rows(acked)' = Rows(acked) \cup Rows(target)
      BY <2>1 DEF Rows
    <3>3. AckedIsStored'
      BY <1>2, <3>1, <3>2 DEF AckedIsStored
    <3>. QED  BY <1>2, <1>7, <2>1, <3>3 DEF IInv, HistoryInv, RootBacked, Rows
  <2>4. CASE oneshot
    <3>1. /\ queue' \in Queues /\ ThreadTypes' /\ pc' = "stop" /\ pos' = 1
          /\ WritersInv' /\ MasterInv' /\ AskInv'
      <4>1. \A x \in Writer : queue[x] = <<>> /\ thread[x] # "dead"
        BY <1>4, <1>7
      <4>. QED  BY <1>2, <2>1, <2>4, <4>1, StopKeeps
    <3>2. MasterTypes'
      BY <1>1, <1>2, <1>5, <2>1, <2>2, <3>1 DEF MasterTypes
    <3>. QED  BY <1>5, <2>2, <2>3, <3>1, <3>2, TypePartsNext DEF IInv
  <2>5. CASE ~oneshot
    <3>1. pc' = "idle" /\ UNCHANGED <<pos, queue, ack>>
      BY <2>1, <2>5
    <3>2. MasterTypes' /\ ThreadTypes' /\ queue' \in Queues
      BY <1>1, <1>2, <2>1, <2>2, <3>1, TypesKept DEF MasterTypes
    <3>3. \A x \in Writer : DOMAIN queue'[x] = {}
      <4>1. \A x \in Writer : queue'[x] = <<>>
        BY <1>4, <1>7, <3>1
      <4>. QED  BY <4>1
    <3>4. WritersInv'
      <4>. SUFFICES ASSUME NEW x \in Writer PROVE WriterOK(x)'
        BY DEF WritersInv
      <4>1. queue'[x] = <<>> /\ thread'[x] = "outer"
        BY <1>2, <1>4, <1>7, <3>1
      <4>2. buf'[x] = {} /\ ~failed'[x] /\ flushing'[x] = NoFlush
        BY <1>2, <1>4, <1>7 DEF IInv, WritersInv, WriterOK
      <4>. QED  BY <3>1, <4>1, <4>2 DEF WriterOK
    <3>5. MasterInv' /\ AskInv'
      BY <3>1, <3>3, OrderFacts, ShardFacts DEF MasterInv, AskInv, Asked
    <3>. QED  BY <1>5, <2>2, <2>3, <3>2, <3>4, <3>5, TypePartsNext DEF IInv
  <2>. QED  BY <2>4, <2>5
<1>. QED  BY <1>3, <1>6, <1>7 DEF RootWait

\* The persist loop ends.
LEMMA StopWritingStep == ASSUME IInv, StopWriting PROVE IInv'
<1>1. MasterTypes /\ TxTypes /\ DbTypes
  BY TypeParts DEF IInv
<1>2. /\ pc = "idle" /\ SendAll([x \in Writer |-> <<Command("Shutdown", {})>>]) /\ Await("stop")
      /\ UNCHANGED <<op, target, durability, next, oneshot, deferred, thread, txVars, dbVars,
                     acked, replaced>>
  BY DEF StopWriting
<1>3. \A x \in Writer : queue[x] = <<>> /\ thread[x] # "dead"
  BY <1>2 DEF IInv, WritersInv, WriterOK
<1>4. /\ queue' \in Queues /\ ThreadTypes' /\ pc' = "stop" /\ pos' = 1
      /\ WritersInv' /\ MasterInv' /\ AskInv'
  BY <1>2, <1>3, StopKeeps
<1>5. MasterTypes' /\ TxTypes' /\ DbTypes'
  BY <1>1, <1>2, <1>4, TypesKept, OrderFacts DEF MasterTypes
<1>6. HistoryInv' /\ RootBacked' /\ AckedIsStored'
  BY <1>2 DEF IInv, HistoryInv, RootBacked, AckedIsStored, Rows, dbVars
<1>. QED  BY <1>4, <1>5, <1>6, TypePartsNext DEF IInv

\* All threads have ended.
LEMMA StopWaitStep == ASSUME IInv, StopWait PROVE IInv'
<1>1. MasterTypes /\ ThreadTypes /\ TxTypes /\ DbTypes /\ queue \in Queues
  BY TypeParts DEF IInv
<1>2. /\ pc = "stop" /\ \A x \in Writer : ack[x] = "ok" /\ thread[x] = "dead"
      /\ pc' = "closed"
      /\ UNCHANGED <<op, target, pos, durability, next, oneshot, deferred, queue, thread, ack,
                     txVars, dbVars, acked, replaced>>
      /\ UNCHANGED <<work, buf, failed, flushing, db, safe>>
  BY DEF StopWait, threadVars, txVars, dbVars
<1>3. WritersInv'
  <2>. SUFFICES ASSUME NEW x \in Writer PROVE WriterOK(x)'
    BY DEF WritersInv
  <2>1. queue[x] = <<>> /\ buf[x] = {} /\ ~failed[x] /\ flushing[x] = NoFlush
    BY <1>2 DEF IInv, WritersInv, WriterOK, StopOK
  <2>. QED  BY <1>2, <2>1 DEF WriterOK
<1>4. MasterInv' /\ AskInv'
  BY <1>2 DEF IInv, MasterInv, AskInv, Asked
<1>5. HistoryInv' /\ RootBacked' /\ AckedIsStored'
  BY <1>2 DEF IInv, HistoryInv, RootBacked, AckedIsStored, Rows
<1>6. MasterTypes' /\ ThreadTypes' /\ TxTypes' /\ DbTypes' /\ queue' \in Queues
  BY <1>1, <1>2, TypesKept DEF MasterTypes
<1>. QED  BY <1>3, <1>4, <1>5, <1>6, TypePartsNext DEF IInv

\* The process dies: what is durable is consistent by itself.
LEMMA CrashStep == ASSUME IInv, Crash PROVE IInv'
<1>1. DbTypes
  BY TypeParts DEF IInv
<1>2. /\ pc' = "down" /\ queue' = [x \in Writer |-> <<>>] /\ thread' = [x \in Writer |-> "dead"]
      /\ db' = safe /\ acked' = {} /\ DropTx(Writer) /\ ack' = [x \in Writer |-> "none"]
      /\ op' = "store" /\ target' = {} /\ pos' = 1 /\ durability' = FALSE
      /\ next' = 1 /\ oneshot' = FALSE /\ deferred' = FALSE
      /\ UNCHANGED <<safe, replaced>>
  BY DEF Crash
<1>3. MasterTypes'
  <2>1. 1 \in DOMAIN Order /\ 1 \in 1 .. (MaxHeight + 1)
    BY OrderFacts, WriteTxAssumption
  <2>. QED  BY <1>2, <2>1 DEF MasterTypes
<1>4. queue' \in Queues /\ ThreadTypes' /\ DbTypes'
  BY <1>1, <1>2 DEF Queues, ThreadTypes, DbTypes
<1>5. /\ TxTypes' 
      /\ \A x \in Writer : buf'[x] = {} /\ ~failed'[x] /\ flushing'[x] = NoFlush
  BY <1>2 DEF DropTx, TxTypes, NoFlush
<1>6. WritersInv'
  BY <1>2, <1>5 DEF WritersInv, WriterOK
<1>7. \A x \in Writer : DOMAIN queue'[x] = {}
  BY <1>2
<1>8. MasterInv' /\ AskInv'
  BY <1>2, <1>7, OrderFacts, ShardFacts DEF MasterInv, AskInv, Asked
<1>9. HistoryInv' /\ RootBacked' /\ AckedIsStored'
  BY <1>2 DEF IInv, HistoryInv, RootBacked, AckedIsStored, Rows
<1>. QED  BY <1>3, <1>4, <1>5, <1>6, <1>8, <1>9, TypePartsNext DEF IInv

-----------------------------------------------------------------------------
(* The theorems. *)

\* Nothing happens.
LEMMA StutterStep == ASSUME IInv, UNCHANGED vars PROVE IInv'
<1>1. /\ UNCHANGED <<pc, op, target, pos, durability, next, oneshot, deferred>>
      /\ UNCHANGED <<queue, thread, ack, work, buf, failed, flushing, db, safe, acked, replaced>>
  BY DEF vars, masterVars, threadVars, txVars, dbVars
<1>2. TypeOK' /\ MoreTypes'
  BY <1>1 DEF IInv, TypeOK, MoreTypes
<1>3. WritersInv'
  <2>. SUFFICES ASSUME NEW x \in Writer PROVE WriterOK(x)'
    BY DEF WritersInv
  <2>1. SameWriter(x) /\ \A s \in QueryShards : Asked(s)' => Asked(s)
    BY <1>1 DEF SameWriter, Asked
  <2>. QED  BY <1>1, <2>1, WriterKept DEF IInv, WritersInv
<1>4. MasterInv' /\ AskInv'
  BY <1>1 DEF IInv, MasterInv, AskInv, Asked, Rows
<1>5. HistoryInv' /\ RootBacked' /\ AckedIsStored'
  BY <1>1 DEF IInv, HistoryInv, RootBacked, AckedIsStored, Rows
<1>. QED  BY <1>2, <1>3, <1>4, <1>5 DEF IInv

\* All steps of master, writers, node and crashes preserve the invariant.
LEMMA InductiveInvariant == Spec => []IInv
<1>1. Init => IInv
  BY InitIInv
<1>2. IInv /\ [Next]_vars => IInv'
  <2>. SUFFICES ASSUME IInv, [Next]_vars PROVE IInv'
    OBVIOUS
  <2>1. CASE Master
    BY <2>1, BeginWaitStep, StoreBodyStep, DeleteBodyStep, RemoveWaitStep, CommitStep,
       FlushRootStep, FlushWaitStep, RootWaitStep, StopWaitStep DEF Master
  <2>2. CASE \E w \in Writer : WriterStep(w)
    BY <2>2, WriterSteps
  <2>3. CASE UNCHANGED vars
    BY <2>3, StutterStep
  <2>. QED  BY <2>1, <2>2, <2>3, NewContextStep, StoreBeginStep, UpdateBeginStep,
               BodyFailsStep, StopWritingStep, CrashStep DEF Next
<1>. QED  BY <1>1, <1>2, PTL DEF Spec

\* Type correctness of the write transaction.
THEOREM TypeCorrect == Spec => []TypeOK
<1>1. IInv => TypeOK
  BY DEF IInv
<1>. QED  BY <1>1, InductiveInvariant, PTL

\* Root keys are backed by all columns, in memory and on disk, whatever fails,
\* whenever the process dies, for any number of databases and shards.
THEOREM RootIsBacked == Spec => []RootBacked
<1>1. IInv => RootBacked
  BY DEF IInv
<1>. QED  BY <1>1, InductiveInvariant, PTL

\* What a store has acknowledged is in every column: the deferred flush of a
\* dependent never overtakes the rows an index shard is still resolving.
THEOREM AcknowledgedIsStored == Spec => []AckedIsStored
<1>1. IInv => AckedIsStored
  BY DEF IInv
<1>. QED  BY <1>1, InductiveInvariant, PTL

\* No thread meets a command outside the transaction it belongs to.
THEOREM InScope == Spec => []CommandsInScope
<1>1. IInv => CommandsInScope
  <2>. SUFFICES ASSUME IInv, NEW w \in Writer, queue[w] # <<>>
                PROVE  /\ thread[w] = "outer" => Head(queue[w]).cmd \in {"Begin", "Shutdown"}
                       /\ thread[w] = "intx" => Head(queue[w]).cmd # "Begin"
    BY DEF CommandsInScope
  <2>1. WriterOK(w) /\ MasterTypes /\ ThreadTypes /\ queue \in Queues
    BY TypeParts DEF IInv, WritersInv
  <2>2. ASSUME thread[w] = "outer" PROVE Head(queue[w]).cmd \in {"Begin", "Shutdown"}
    <3>1. queue[w] = <<CBegin>> \/ queue[w] = <<CShutdown>>
      BY <2>1, <2>2
         DEF WriterOK, MasterTypes, ThreadTypes, BeginOK, CommitOK, FlushOK, TxOK, DoneOK,
             FailedOK, StopOK
    <3>2. CBegin.cmd = "Begin" /\ CShutdown.cmd = "Shutdown"
      BY DEF CBegin, CShutdown, Command
    <3>. QED  BY <3>1, <3>2, TupleFacts
  <2>3. ASSUME thread[w] = "intx", Head(queue[w]).cmd = "Begin" PROVE FALSE
    <3>1. TxOK(w)
      BY <2>3, InTransactionReceives
    <3>. QED  BY <2>1, <2>3, <3>1, HeadFacts DEF MasterTypes
  <2>. QED  BY <2>2, <2>3
<1>. QED  BY <1>1, InductiveInvariant, PTL
=============================================================================
