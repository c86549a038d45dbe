------------------------ MODULE ShardedColumnProofs ------------------------
(***************************************************************************)
(* A column over any number of shards, for all keys, values, hashes and    *)
(* queries, in every interleaving of the caller with the writer threads:   *)
(* readers find what was written, deletes and ranges answer as one table   *)
(* would, and once every shard has reported, every place of every query    *)
(* has its one answer.  A caller stores no key that is there already       *)
(* (Overwrites = FALSE).                                                   *)
(*                                                                         *)
(* The rows on their way are part of the column: the inductive invariant   *)
(* says that a key is in one place, a table or a command in a queue, of    *)
(* the shard its row belongs to; where a delete that has not come to the   *)
(* key's shard yet leaves it; and that a query in a queue will find what   *)
(* was stored when it was made, in the table or ahead of it in the queue.  *)
(***************************************************************************)
EXTENDS ShardedColumn, SequenceTheorems, FiniteSetTheorems, WellFoundedInduction, TLAPS

Row == [k : Key, v : Value]
Map == [Key -> Value \cup {None}]
RowMaps == UNION {[D -> Row] : D \in SUBSET Nat}

InsertCmd == [op : {"insert"}, k : Key, v : Value]
WriteCmd == [op : {"write"}, rows : RowMaps]
RemoveCmd == [op : {"remove"}, k : Key]
RangeCmd == [op : {"range"}, from : Key, until : Key]
QueryCmd == [op : {"query"}, q : Nat, last : BOOLEAN, items : SUBSET [pos : Nat, v : Value]]
FlushCmd == [op : {"flush"}]

Cmd == InsertCmd \cup WriteCmd \cup RemoveCmd \cup RangeCmd \cup QueryCmd \cup FlushCmd

\* Where a row belongs.
ShardOf(k, v) == IF n = 1 THEN 0 ELSE PartitionOf(k, v)

TypeInv ==
  /\ kind \in {"plain", "index"} /\ n \in Nat \ {0}
  /\ phase \in {"idle", "open", "flushing"}
  /\ sync_buf \in Seq(Row)
  /\ queue \in [Shard -> Seq(Cmd)]
  /\ forward \in [Shard -> Map] /\ reverse \in [Shard -> [Value -> SUBSET Key]]
  /\ flushed \subseteq Shard /\ ready \subseteq Shard
  /\ logical \in Map
  /\ call.op \in {"none", "remove", "removed", "range", "ranged"}
  /\ call.op = "none" => call = NoCall
  /\ call.op \in {"remove", "removed"} =>
       call.k \in Key /\ call.shard \in Shard /\ call.expected \in BOOLEAN
  /\ call.op = "removed" => call.found \in BOOLEAN

Puts(c, k, v) ==
  \/ c.op = "insert" /\ c.k = k /\ c.v = v
  \/ c.op = "write" /\ \E i \in DOMAIN c.rows : c.rows[i].k = k /\ c.rows[i].v = v

\* A row for k is on its way to a shard, or has arrived.
Coming(s, k) == \E i \in 1 .. Len(queue[s]), v \in Value : Puts(queue[s][i], k, v)
At(s, k) == forward[s][k] # None \/ Coming(s, k)

\* A delete of k has not returned yet.
Busy(k) == call.op \in {"remove", "removed"} /\ call.k = k

\* A row in a table, or on its way to one, is in the shard it belongs to, and the
\* caller knows of it, unless a delete is on its way to it.
Known(k, v) == Busy(k) \/ logical[k] = v

PlaceTables ==
  \A s \in Shard, k \in Key, v \in Value : forward[s][k] = v => s = ShardOf(k, v) /\ Known(k, v)

PlaceQueues ==
  \A s \in Shard, k \in Key, v \in Value : \A i \in 1 .. Len(queue[s]) :
    Puts(queue[s][i], k, v) => s = ShardOf(k, v) /\ Known(k, v) /\ forward[s][k] = None

\* A key is in one shard, by one command, and one row of it.
PlaceOnce == \A k \in Key : \A s, t \in Shard : At(s, k) /\ At(t, k) => s = t

PutOnce ==
  \A s \in Shard, k \in Key, v, w \in Value : \A i, j \in 1 .. Len(queue[s]) :
    Puts(queue[s][i], k, v) /\ Puts(queue[s][j], k, w) => i = j

DistinctKeys(c) == \A i, j \in DOMAIN c.rows : c.rows[i].k = c.rows[j].k => i = j

RowsDistinct ==
  \A s \in Shard : \A i \in 1 .. Len(queue[s]) :
    queue[s][i].op = "write" => DistinctKeys(queue[s][i])

\* No row is lost.
PlaceAll == \A k \in Key, v \in Value : logical[k] = v => At(ShardOf(k, v), k)

\* Every row is on its way to, or in, the one shard it belongs to.
PlaceInv == PlaceTables /\ PlaceQueues /\ PlaceOnce /\ PutOnce /\ RowsDistinct /\ PlaceAll

\* Rows that wait for the flush are of keys that are nowhere else.
BufInv ==
  /\ \A i, j \in 1 .. Len(sync_buf) : sync_buf[i].k = sync_buf[j].k => i = j
  /\ \A i \in 1 .. Len(sync_buf) : logical[sync_buf[i].k] = None /\ ~Busy(sync_buf[i].k)
  /\ phase # "open" => sync_buf = <<>>

\* Deletes and ranges are the last command of their shard, and the caller waits
\* for them: what they will find is known.
RemoveInv ==
  /\ call.op \in {"remove", "removed"} => logical[call.k] = None
  /\ call.op = "remove" =>
       /\ queue[call.shard] # <<>>
       /\ queue[call.shard][Len(queue[call.shard])].op = "remove"
       /\ call.expected <=> \E s \in Shard : At(s, call.k)
       /\ \A s \in Shard : At(s, call.k) => IF kind = "plain" THEN s = call.shard ELSE s >= call.shard
  /\ call.op = "removed" =>
       IF call.found THEN call.expected /\ \A s \in Shard : ~At(s, call.k)
       ELSE /\ call.expected <=> \E s \in Shard : At(s, call.k)
            /\ \A s \in Shard : At(s, call.k) => kind = "index" /\ s > call.shard
  /\ \A s \in Shard, i \in Nat : i \in 1 .. Len(queue[s]) /\ queue[s][i].op = "remove" =>
       i = Len(queue[s]) /\ call.op = "remove" /\ call.shard = s /\ call.k = queue[s][i].k

RangeInv ==
  /\ call.op = "range" =>
       /\ n = 1 /\ queue[0] # <<>>
       /\ LET c == queue[0][Len(queue[0])]
          IN  c.op = "range" /\ call.expected = RowsIn(logical, c.from, c.until)
  /\ call.op = "ranged" => call.found = call.expected
  /\ \A s \in Shard, i \in Nat : i \in 1 .. Len(queue[s]) /\ queue[s][i].op = "range" =>
       i = Len(queue[s]) /\ call.op = "range"

\* A flush is the last command of a transaction.
PhaseInv ==
  /\ phase = "idle" => \A s \in Shard : queue[s] = <<>>
  /\ phase = "open" => flushed = {}
  /\ phase = "flushing" => \A s \in Shard :
       IF s \in flushed THEN queue[s] = <<>>
       ELSE queue[s] # <<>> /\ queue[s][Len(queue[s])].op = "flush"
  /\ \A s \in Shard, i \in Nat : i \in 1 .. Len(queue[s]) /\ queue[s][i].op = "flush" =>
       i = Len(queue[s]) /\ phase = "flushing"
  /\ call.op # "none" => phase = "open"

RevInv ==
  kind = "index" => \A s \in Shard, v \in Value : reverse[s][v] = {k \in Key : forward[s][k] = v}

Pending(a, s) ==
  \E i \in 1 .. Len(queue[s]) : queue[s][i].op = "query" /\ queue[s][i].q = a.q

Got(a, p) == {x \in sink : x.q = a.q /\ x.pos = p}

Answered(a, p) ==
  LET keys == KeysOf(a.seen, a.values[p])
  IN  \E x \in Got(a, p) : Got(a, p) = {x} /\ IF keys = {} THEN x.key = None ELSE x.key \in keys

\* Queries are numbered.
AskedKnown ==
  /\ IsFiniteSet(asked)
  /\ \A a \in asked : a \in [q : 1 .. Cardinality(asked), values : Queries, last : BOOLEAN, seen : Map]
  /\ \A a, b \in asked : a.q = b.q => a = b
  /\ \A x \in sink : x.q \in 1 .. Cardinality(asked)

\* A place of a query has no answer as long as its shard has the query before
\* it, and its one answer afterwards.
AnswersInv ==
  \A a \in asked, s \in Shard : \A p \in PositionsOf(a.values, s) :
    IF Pending(a, s) THEN Got(a, p) = {} ELSE Answered(a, p)

\* The last query is before a shard until the shard reports.
ReadyInv ==
  /\ \A a \in asked, s \in Shard : a.last => Pending(a, s) \/ s \in ready
  /\ \A s \in ready : /\ \E a \in asked : a.last
                      /\ \A i \in 1 .. Len(queue[s]) : queue[s][i].op # "query"

\* What was asked, and where its commands and answers are.
AskedInv == AskedKnown /\ AnswersInv /\ ReadyInv

\* The keys with v that the commands ahead of the i-th bring.
Ahead(s, i, v) == {k \in Key : \E j \in 1 .. (i - 1) : Puts(queue[s][j], k, v)}

\* A query will find what was stored when it was made.
Finds(a, s, i) ==
  \A p \in PositionsOf(a.values, s) :
    KeysOf(a.seen, a.values[p]) = reverse[s][a.values[p]] \cup Ahead(s, i, a.values[p])

QueryCommand(a, s) == [op |-> "query", q |-> a.q, last |-> a.last, items |-> BucketOf(a.values, s)]

QueryFinds ==
  \A s \in Shard : \A i \in 1 .. Len(queue[s]) : queue[s][i].op = "query" =>
    kind = "index" /\ \E a \in asked : queue[s][i] = QueryCommand(a, s) /\ Finds(a, s, i)

\* A shard has a query once, and none after the last one.
QueryOrder ==
  \A s \in Shard : \A i, j \in 1 .. Len(queue[s]) :
    queue[s][i].op = "query" /\ queue[s][j].op = "query" /\ i < j =>
      queue[s][i].q # queue[s][j].q /\ ~queue[s][i].last

QueryInv == QueryFinds /\ QueryOrder

IInv ==
  /\ TypeInv /\ PlaceInv /\ BufInv /\ RemoveInv /\ RangeInv
  /\ PhaseInv /\ RevInv /\ AskedInv /\ QueryInv

-----------------------------------------------------------------------------
(***************************************************************************)
(* The shard of a key                                                      *)
(***************************************************************************)

\* Induction over the natural numbers: a set with 0 and with every successor of
\* its elements has no least number outside it (used for lists of bytes and of shards).
LEMMA NatInd ==
  ASSUME NEW S \in SUBSET Nat, 0 \in S, \A m \in S : m + 1 \in S
  PROVE  S = Nat
<1>. DEFINE T == Nat \ S
            R == {p \in Nat \X Nat : p[1] < p[2]}
<1>. SUFFICES ASSUME T # {} PROVE FALSE
  OBVIOUS
<1>1. IsWellFoundedOn(R, Nat)
  BY NatLessThanWellFounded, Zenon DEF OpToRel
<1>2. ASSUME NEW y \in Nat, NEW x \in Nat, y < x PROVE <<y, x>> \in R
  BY <1>2
<1>. HIDE DEF R
<1>3. T \in SUBSET Nat
  OBVIOUS
<1>4. PICK x \in T : \A y \in T : ~ (<<y, x>> \in R)
  <2>. HIDE DEF T
  <2>. QED  BY <1>1, <1>3, WFMin
<1>5. x \in Nat /\ x # 0 /\ x - 1 \in Nat /\ x - 1 < x /\ (x - 1) + 1 = x
  OBVIOUS
<1>6. x - 1 \in T
  BY <1>5
<1>. QED  BY <1>2, <1>4, <1>5, <1>6

\* The recursion of the folds: g gives base for the empty set, and for any other
\* set what st makes of its chosen element and of the fold of the rest.
Folds(g, D, base, st, pick) ==
  \A t \in D : g[t] = IF t = {} THEN base ELSE st[<<g[t \ {pick[t]}], pick[t]>>]

\* Such a function exists whatever the element chosen (behind FoldLeft and FoldRight).
LEMMA FoldExists ==
  ASSUME NEW D, IsFiniteSet(D), NEW A, NEW base \in A, NEW st \in [A \X D -> A],
         NEW pick, \A t \in SUBSET D : t # {} => pick[t] \in t
  PROVE  \E g \in [SUBSET D -> A] : Folds(g, SUBSET D, base, st, pick)
<1>. DEFINE P(j) == {t \in SUBSET D : Cardinality(t) <= j}
            S == {j \in Nat : \E g \in [P(j) -> A] : Folds(g, P(j), base, st, pick)}
<1>0. ASSUME NEW t \in SUBSET D
      PROVE  /\ IsFiniteSet(t) /\ Cardinality(t) \in Nat
             /\ t # {} => t \ {pick[t]} \in SUBSET D /\ Cardinality(t \ {pick[t]}) = Cardinality(t) - 1
             /\ Cardinality(t) = 0 => t = {}
             /\ Cardinality(t) <= Cardinality(D)
  <2>1. IsFiniteSet(t) /\ Cardinality(t) <= Cardinality(D)
    BY FS_Subset
  <2>2. Cardinality(t) \in Nat
    BY <2>1, FS_CardinalityType
  <2>3. ASSUME t # {} PROVE Cardinality(t \ {pick[t]}) = Cardinality(t) - 1
    <3>1. pick[t] \in t
      BY <2>3
    <3>. QED  BY <2>1, <3>1, FS_RemoveElement
  <2>4. Cardinality(t) = 0 => t = {}
    BY <2>1, FS_EmptySet
  <2>. QED  BY <2>1, <2>2, <2>3, <2>4
<1>1. 0 \in S
  <2>. DEFINE g == [t \in P(0) |-> base]
  <2>1. ASSUME NEW t \in P(0) PROVE t = {}
    <3>1. t \in SUBSET D /\ Cardinality(t) <= 0
      OBVIOUS
    <3>. HIDE DEF S, P
    <3>2. Cardinality(t) \in Nat /\ (Cardinality(t) = 0 => t = {})
      BY <1>0, <3>1
    <3>. QED  BY <3>1, <3>2
  <2>2. g \in [P(0) -> A] /\ Folds(g, P(0), base, st, pick)
    <3>. HIDE DEF P
    <3>. QED  BY <2>1 DEF Folds
  <2>. QED  BY <2>2
<1>2. ASSUME NEW j \in S PROVE j + 1 \in S
  <2>1. j \in Nat
    OBVIOUS
  <2>2. PICK g \in [P(j) -> A] : Folds(g, P(j), base, st, pick)
    OBVIOUS
  <2>. DEFINE h == [t \in P(j + 1) |-> IF t = {} THEN base ELSE st[<<g[t \ {pick[t]}], pick[t]>>]]
  <2>3. ASSUME NEW t \in P(j) PROVE h[t] = g[t] /\ t \in P(j + 1)
    <3>1. t \in P(j + 1)
      <4>1. t \in SUBSET D /\ Cardinality(t) <= j
        OBVIOUS
      <4>. HIDE DEF S
      <4>2. Cardinality(t) \in Nat
        BY <1>0, <4>1
      <4>. QED  BY <2>1, <4>1, <4>2
    <3>2. h[t] = IF t = {} THEN base ELSE st[<<g[t \ {pick[t]}], pick[t]>>]
      <4>. HIDE DEF P
      <4>. QED  BY <3>1
    <3>3. g[t] = IF t = {} THEN base ELSE st[<<g[t \ {pick[t]}], pick[t]>>]
      <4>. HIDE DEF P
      <4>. QED  BY <2>2 DEF Folds
    <3>. QED  BY <3>1, <3>2, <3>3
  <2>4. ASSUME NEW t \in P(j + 1), t # {} PROVE t \ {pick[t]} \in P(j) /\ pick[t] \in D
    <3>1. t \in SUBSET D /\ Cardinality(t) <= j + 1
      OBVIOUS
    <3>. HIDE DEF S
    <3>2. Cardinality(t) \in Nat /\ t \ {pick[t]} \in SUBSET D /\ Cardinality(t \ {pick[t]}) = Cardinality(t) - 1
      BY <1>0, <2>4, <3>1
    <3>3. Cardinality(t \ {pick[t]}) <= j
      BY <2>1, <3>1, <3>2
    <3>4. pick[t] \in D
      BY <2>4, <3>1
    <3>. QED  BY <3>2, <3>3, <3>4
  <2>5. h \in [P(j + 1) -> A]
    <3>1. ASSUME NEW t \in P(j + 1), t # {} PROVE st[<<g[t \ {pick[t]}], pick[t]>>] \in A
      <4>1. t \ {pick[t]} \in P(j) /\ pick[t] \in D
        BY <2>4, <3>1
      <4>. HIDE DEF P
      <4>. QED  BY <2>2, <4>1
    <3>. HIDE DEF P
    <3>. QED  BY <3>1
  <2>6. Folds(h, P(j + 1), base, st, pick)
    <3>1. ASSUME NEW t \in P(j + 1)
          PROVE  h[t] = IF t = {} THEN base ELSE st[<<h[t \ {pick[t]}], pick[t]>>]
      <4>1. h[t] = IF t = {} THEN base ELSE st[<<g[t \ {pick[t]}], pick[t]>>]
        <5>. HIDE DEF P
        <5>. QED  OBVIOUS
      <4>2. t # {} => h[t \ {pick[t]}] = g[t \ {pick[t]}]
        <5>. HIDE DEF P, h
        <5>. QED  BY <2>3, <2>4
      <4>. HIDE DEF P, h
      <4>. QED  BY <4>1, <4>2
    <3>. HIDE DEF P, h
    <3>. QED  BY <3>1 DEF Folds
  <2>. HIDE DEF h, P
  <2>. QED  BY <2>1, <2>5, <2>6
<1>3. S = Nat
  <2>1. S \in SUBSET Nat
    OBVIOUS
  <2>. HIDE DEF S
  <2>. QED  BY <1>1, <1>2, <2>1, NatInd
<1>4. Cardinality(D) \in S /\ P(Cardinality(D)) = SUBSET D
  <2>1. Cardinality(D) \in Nat
    BY FS_CardinalityType
  <2>2. P(Cardinality(D)) = SUBSET D
    BY <1>0
  <2>. HIDE DEF S
  <2>. QED  BY <1>3, <2>1, <2>2
<1>. HIDE DEF P
<1>. QED  BY <1>4

\* A set of numbers that is not empty has a least element, the one Min chooses.
LEMMA MinInSet ==
  ASSUME NEW S \in SUBSET Nat, S # {}
  PROVE  Min(S) \in S /\ \A y \in S : Min(S) <= y
<1>. DEFINE Up == {m \in Nat : \A y \in S : m <= y}
<1>1. PICK x \in S : \A y \in S : x <= y
  <2>. SUFFICES ASSUME \A x \in S : \E y \in S : ~ (x <= y) PROVE FALSE
    OBVIOUS
  <2>1. 0 \in Up
    OBVIOUS
  <2>2. ASSUME NEW m \in Up PROVE m + 1 \in Up
    <3>1. m \notin S
      OBVIOUS
    <3>2. ASSUME NEW y \in S PROVE m + 1 <= y
      <4>1. m <= y /\ m # y /\ y \in Nat
        BY <3>1
      <4>. QED  BY <4>1
    <3>. QED  BY <3>2
  <2>3. Up = Nat
    <3>1. Up \in SUBSET Nat
      OBVIOUS
    <3>. HIDE DEF Up
    <3>. QED  BY <2>1, <2>2, <3>1, NatInd
  <2>4. PICK y \in S : TRUE
    OBVIOUS
  <2>5. y + 1 \in Up
    BY <2>3
  <2>. QED  BY <2>5
<1>. QED  BY <1>1 DEF Min

\* A set of numbers up to N that is not empty has a largest one, Max.
LEMMA MaxInSet ==
  ASSUME NEW N \in Nat, NEW S \in SUBSET (0 .. N), S # {}
  PROVE  Max(S) \in S /\ \A y \in S : Max(S) >= y
<1>. DEFINE T == {N - y : y \in S}
<1>1. T \in SUBSET Nat /\ T # {}
  <2>1. \A y \in S : N - y \in Nat
    OBVIOUS
  <2>. QED  BY <2>1
<1>2. Min(T) \in T /\ \A y \in T : Min(T) <= y
  <2>. HIDE DEF T
  <2>. QED  BY <1>1, MinInSet
<1>3. PICK x \in S : Min(T) = N - x
  BY <1>2
<1>4. ASSUME NEW y \in S PROVE x >= y
  <2>1. N - y \in T
    OBVIOUS
  <2>2. N - x <= N - y
    BY <1>2, <1>3, <2>1
  <2>. QED  BY <2>2
<1>5. \E z \in S : \A y \in S : z >= y
  BY <1>4
<1>. QED  BY <1>5 DEF Max

\* The largest of 1 .. k + 1 and the least of k + 1 .. N, and what is left of them.
LEMMA EndsOfSegment ==
  ASSUME NEW N \in Nat, NEW k \in 0 .. (N - 1)
  PROVE  /\ 1 .. (k + 1) \in SUBSET (1 .. N) /\ 1 .. (k + 1) # {}
         /\ Max(1 .. (k + 1)) = k + 1 /\ (1 .. (k + 1)) \ {k + 1} = 1 .. k
         /\ (k + 1) .. N \in SUBSET (1 .. N) /\ (k + 1) .. N # {}
         /\ Min((k + 1) .. N) = k + 1 /\ ((k + 1) .. N) \ {k + 1} = (k + 2) .. N
<1>1. /\ 1 .. (k + 1) \in SUBSET (1 .. N) /\ k + 1 \in 1 .. (k + 1)
      /\ (1 .. (k + 1)) \ {k + 1} = 1 .. k /\ 1 .. (k + 1) \in SUBSET (0 .. N)
      /\ (k + 1) .. N \in SUBSET (1 .. N) /\ k + 1 \in (k + 1) .. N
      /\ ((k + 1) .. N) \ {k + 1} = (k + 2) .. N /\ (k + 1) .. N \in SUBSET Nat
  OBVIOUS
<1>2. Max(1 .. (k + 1)) \in 1 .. (k + 1) /\ Max(1 .. (k + 1)) >= k + 1
  BY <1>1, MaxInSet
<1>3. Min((k + 1) .. N) \in (k + 1) .. N /\ Min((k + 1) .. N) <= k + 1
  BY <1>1, MinInSet
<1>. QED  BY <1>1, <1>2, <1>3

\* A chain of values that starts in A and never leaves it is in A.
LEMMA ChainTyped ==
  ASSUME NEW N \in Nat, NEW A, NEW r, r[0] \in A,
         \A k \in 0 .. (N - 1) : r[k] \in A => r[k + 1] \in A
  PROVE  \A k \in 0 .. N : r[k] \in A
<1>. DEFINE S == {k \in Nat : k <= N => r[k] \in A}
<1>1. 0 \in S
  OBVIOUS
<1>2. ASSUME NEW k \in S PROVE k + 1 \in S
  OBVIOUS
<1>3. S = Nat
  <2>1. S \in SUBSET Nat
    OBVIOUS
  <2>. HIDE DEF S
  <2>. QED  BY <1>1, <1>2, <2>1, NatInd
<1>. QED  BY <1>3

\* The rows of the shards added up (StatsTotal).
Total(s) == FoldLeft(+, 0, s)

SumFold(g, s) ==
  g = [t \in SUBSET DOMAIN s |-> IF t = {} THEN 0 ELSE g[t \ {Max(t)}] + s[Max(t)]]

\* A sum is such a fold.
LEMMA TotalIs ==
  ASSUME NEW s \in Seq(Nat)
  PROVE  \E g : SumFold(g, s) /\ Total(s) = g[1 .. Len(s)]
<1>. DEFINE D == 1 .. Len(s)
            st == [p \in Nat \X D |-> p[1] + s[p[2]]]
            pick == [t \in SUBSET D |-> Max(t)]
<1>1. DOMAIN s = D /\ Len(s) \in Nat /\ \A i \in D : s[i] \in Nat
  OBVIOUS
<1>2. IsFiniteSet(D)
  <2>1. 1 \in Int /\ Len(s) \in Int
    BY <1>1
  <2>. QED  BY <2>1, FS_Interval
<1>3. ASSUME NEW t \in SUBSET D, t # {} PROVE pick[t] \in t /\ pick[t] = Max(t)
  <2>1. t \in SUBSET (0 .. Len(s))
    BY <1>1
  <2>. QED  BY <1>1, <1>3, <2>1, MaxInSet
<1>4. st \in [Nat \X D -> Nat] /\ \A x \in Nat, i \in D : st[<<x, i>>] = x + s[i]
  BY <1>1
<1>. HIDE DEF st, pick
<1>5. PICK g \in [SUBSET D -> Nat] : Folds(g, SUBSET D, 0, st, pick)
  <2>. HIDE DEF D
  <2>1. \A t \in SUBSET D : t # {} => pick[t] \in t
    BY <1>3
  <2>. QED  BY <1>2, <1>4, <2>1, FoldExists
<1>6. ASSUME NEW t \in SUBSET D
      PROVE  g[t] = IF t = {} THEN 0 ELSE g[t \ {Max(t)}] + s[Max(t)]
  <2>. HIDE DEF D
  <2>1. t # {} => g[t \ {Max(t)}] \in Nat /\ Max(t) \in D
    BY <1>3, <1>5
  <2>. QED  BY <1>3, <1>4, <1>5, <2>1 DEF Folds
<1>7. SumFold(g, s)
  <2>. HIDE DEF D
  <2>. QED  BY <1>1, <1>5, <1>6 DEF SumFold
<1>8. Total(s) = (CHOOSE f : SumFold(f, s))[1 .. Len(s)]
  BY <1>1 DEF Total, FoldLeft, MapThenFoldSet, SumFold
<1>9. SumFold(CHOOSE f : SumFold(f, s), s)
  BY <1>7
<1>. QED  BY <1>8, <1>9

\* The running sums of a list of numbers; the last one is its sum.
LEMMA RunningTotals ==
  ASSUME NEW s \in Seq(Nat)
  PROVE  \E r : /\ r[0] = 0
                /\ \A k \in 0 .. (Len(s) - 1) : r[k + 1] = r[k] + s[k + 1]
                /\ Total(s) = r[Len(s)]
<1>0. DOMAIN s = 1 .. Len(s) /\ Len(s) \in Nat
  OBVIOUS
<1>1. PICK g : SumFold(g, s) /\ Total(s) = g[1 .. Len(s)]
  BY TotalIs
<1>2. ASSUME NEW t \in SUBSET (1 .. Len(s))
      PROVE  g[t] = IF t = {} THEN 0 ELSE g[t \ {Max(t)}] + s[Max(t)]
  BY <1>0, <1>1 DEF SumFold
<1>. DEFINE r == [k \in 0 .. Len(s) |-> g[1 .. k]]
<1>3. r[0] = 0 /\ Total(s) = r[Len(s)]
  <2>1. 1 .. 0 = {} /\ 1 .. 0 \in SUBSET (1 .. Len(s)) /\ 0 \in 0 .. Len(s) /\ Len(s) \in 0 .. Len(s)
    BY <1>0
  <2>2. g[1 .. 0] = 0
    BY <1>2, <2>1, Zenon
  <2>. QED  BY <1>1, <2>1, <2>2, Zenon
<1>4. ASSUME NEW k \in 0 .. (Len(s) - 1) PROVE r[k + 1] = r[k] + s[k + 1]
  <2>1. r[k] = g[1 .. k] /\ r[k + 1] = g[1 .. (k + 1)]
    BY <1>0
  <2>2. g[1 .. (k + 1)] = g[1 .. k] + s[k + 1]
    <3>1. /\ 1 .. (k + 1) \in SUBSET (1 .. Len(s)) /\ 1 .. (k + 1) # {}
          /\ Max(1 .. (k + 1)) = k + 1 /\ (1 .. (k + 1)) \ {k + 1} = 1 .. k
      BY <1>0, EndsOfSegment
    <3>2. g[1 .. (k + 1)] = g[(1 .. (k + 1)) \ {Max(1 .. (k + 1))}] + s[Max(1 .. (k + 1))]
      BY <1>2, <3>1, Zenon
    <3>. QED  BY <3>1, <3>2, Zenon
  <2>. QED  BY <2>1, <2>2
<1>. HIDE DEF r
<1>. QED  BY <1>3, <1>4

Bytes == 0 .. 255
Chunk == [acc : Nat, pow : Nat]

ChunkFold(g, m, s) ==
  g = [t \in SUBSET DOMAIN s |->
         IF t = {} THEN [acc |-> 0, pow |-> 1]
         ELSE [acc |-> (g[t \ {Max(t)}].acc + s[Max(t)] * g[t \ {Max(t)}].pow) % m,
               pow |-> (g[t \ {Max(t)}].pow * 256) % m]]

\* Products and rests of natural numbers are natural numbers.
LEMMA ChunkNat ==
  ASSUME NEW m \in Nat \ {0}, NEW c \in Chunk, NEW b \in Nat
  PROVE  [acc |-> (c.acc + b * c.pow) % m, pow |-> (c.pow * 256) % m] \in Chunk
<1>1. c.acc \in Nat /\ c.pow \in Nat
  BY DEF Chunk
<1>2. c.acc + b * c.pow \in Nat /\ c.pow * 256 \in Nat
  BY <1>1
<1>3. ASSUME NEW x \in Nat PROVE x % m \in Nat
  OBVIOUS
<1>. QED  BY <1>2, <1>3 DEF Chunk

\* le_mod_fold_chunk is such a fold.
LEMMA ChunkIs ==
  ASSUME NEW m \in Nat \ {0}, NEW s \in Seq(Bytes)
  PROVE  \E g : ChunkFold(g, m, s) /\ le_mod_fold_chunk(m, s) = g[1 .. Len(s)]
<1>. DEFINE D == 1 .. Len(s)
            st == [p \in Chunk \X D |-> [acc |-> (p[1].acc + s[p[2]] * p[1].pow) % m,
                                         pow |-> (p[1].pow * 256) % m]]
            pick == [t \in SUBSET D |-> Max(t)]
<1>1. DOMAIN s = D /\ Len(s) \in Nat /\ \A i \in D : s[i] \in Nat
  <2>1. DOMAIN s = D /\ Len(s) \in Nat /\ \A i \in D : s[i] \in Bytes
    OBVIOUS
  <2>2. \A b \in Bytes : b \in Nat
    BY DEF Bytes
  <2>. QED  BY <2>1, <2>2
<1>2. IsFiniteSet(D)
  <2>1. 1 \in Int /\ Len(s) \in Int
    BY <1>1
  <2>. QED  BY <2>1, FS_Interval
<1>3. ASSUME NEW t \in SUBSET D, t # {} PROVE pick[t] \in t /\ pick[t] = Max(t)
  <2>1. t \in SUBSET (0 .. Len(s))
    BY <1>1
  <2>. QED  BY <1>1, <1>3, <2>1, MaxInSet
<1>4. \A x \in Chunk, i \in D :
        st[<<x, i>>] = [acc |-> (x.acc + s[i] * x.pow) % m, pow |-> (x.pow * 256) % m]
  <2>. HIDE DEF D
  <2>. QED  BY Zenon
<1>4a. st \in [Chunk \X D -> Chunk]
  <2>. HIDE DEF D
  <2>1. ASSUME NEW x \in Chunk, NEW i \in D
        PROVE  [acc |-> (x.acc + s[i] * x.pow) % m, pow |-> (x.pow * 256) % m] \in Chunk
    BY <1>1, ChunkNat
  <2>. QED  BY <2>1, Zenon
<1>. HIDE DEF st, pick
<1>. DEFINE base == [acc |-> 0, pow |-> 1]
<1>5. PICK g \in [SUBSET D -> Chunk] : Folds(g, SUBSET D, base, st, pick)
  <2>1. base \in Chunk
    BY DEF Chunk
  <2>. HIDE DEF D, base
  <2>2. \A t \in SUBSET D : t # {} => pick[t] \in t
    BY <1>3
  <2>. QED  BY <1>2, <1>4a, <2>1, <2>2, FoldExists
<1>6. ASSUME NEW t \in SUBSET D
      PROVE  g[t] = IF t = {} THEN base
                    ELSE [acc |-> (g[t \ {Max(t)}].acc + s[Max(t)] * g[t \ {Max(t)}].pow) % m,
                          pow |-> (g[t \ {Max(t)}].pow * 256) % m]
  <2>. HIDE DEF D, base
  <2>1. t # {} => g[t \ {Max(t)}] \in Chunk /\ Max(t) \in D
    BY <1>3, <1>5
  <2>2. g[t] = IF t = {} THEN base ELSE st[<<g[t \ {Max(t)}], Max(t)>>]
    BY <1>3, <1>5 DEF Folds
  <2>. QED  BY <1>4, <2>1, <2>2, Zenon
<1>7. ChunkFold(g, m, s)
  <2>1. g = [t \in SUBSET D |-> g[t]]
    <3>. HIDE DEF D
    <3>. QED  BY <1>5
  <2>. HIDE DEF D
  <2>. QED  BY <1>1, <1>6, <2>1, Zenon DEF ChunkFold
<1>8. le_mod_fold_chunk(m, s) = (CHOOSE f : ChunkFold(f, m, s))[1 .. Len(s)]
  BY <1>1, Zenon DEF le_mod_fold_chunk, FoldLeft, MapThenFoldSet, ChunkFold
<1>9. ChunkFold(CHOOSE f : ChunkFold(f, m, s), m, s)
  BY <1>7
<1>. QED  BY <1>8, <1>9

LeFold(g, s) ==
  g = [t \in SUBSET DOMAIN s |-> IF t = {} THEN 0 ELSE s[Min(t)] + 256 * g[t \ {Min(t)}]]

\* LeValue is such a fold.
LEMMA LeValueIs ==
  ASSUME NEW s \in Seq(Bytes)
  PROVE  \E g : LeFold(g, s) /\ LeValue(s) = g[1 .. Len(s)]
<1>. DEFINE D == 1 .. Len(s)
            st == [p \in Nat \X D |-> s[p[2]] + 256 * p[1]]
            pick == [t \in SUBSET D |-> Min(t)]
<1>1. DOMAIN s = D /\ Len(s) \in Nat /\ \A i \in D : s[i] \in Nat
  <2>1. DOMAIN s = D /\ Len(s) \in Nat /\ \A i \in D : s[i] \in Bytes
    OBVIOUS
  <2>2. \A b \in Bytes : b \in Nat
    BY DEF Bytes
  <2>. QED  BY <2>1, <2>2
<1>2. IsFiniteSet(D)
  <2>1. 1 \in Int /\ Len(s) \in Int
    BY <1>1
  <2>. QED  BY <2>1, FS_Interval
<1>3. ASSUME NEW t \in SUBSET D, t # {} PROVE pick[t] \in t /\ pick[t] = Min(t)
  <2>1. t \in SUBSET Nat
    BY <1>1
  <2>. QED  BY <1>1, <1>3, <2>1, MinInSet
<1>4. st \in [Nat \X D -> Nat] /\ \A x \in Nat, i \in D : st[<<x, i>>] = s[i] + 256 * x
  BY <1>1
<1>. HIDE DEF st, pick
<1>5. PICK g \in [SUBSET D -> Nat] : Folds(g, SUBSET D, 0, st, pick)
  <2>. HIDE DEF D
  <2>1. \A t \in SUBSET D : t # {} => pick[t] \in t
    BY <1>3
  <2>. QED  BY <1>2, <1>4, <2>1, FoldExists
<1>6. ASSUME NEW t \in SUBSET D
      PROVE  g[t] = IF t = {} THEN 0 ELSE s[Min(t)] + 256 * g[t \ {Min(t)}]
  <2>. HIDE DEF D
  <2>1. t # {} => g[t \ {Min(t)}] \in Nat /\ Min(t) \in D
    BY <1>3, <1>5
  <2>2. g[t] = IF t = {} THEN 0 ELSE st[<<g[t \ {Min(t)}], Min(t)>>]
    BY <1>3, <1>5 DEF Folds
  <2>. QED  BY <1>4, <2>1, <2>2, Zenon
<1>7. LeFold(g, s)
  <2>. HIDE DEF D
  <2>. QED  BY <1>1, <1>5, <1>6 DEF LeFold
<1>8. LeValue(s) = (CHOOSE f : LeFold(f, s))[1 .. Len(s)]
  BY <1>1, Zenon DEF LeValue, FoldRight, MapThenFoldSet, LeFold
<1>9. LeFold(CHOOSE f : LeFold(f, s), s)
  BY <1>7
<1>. QED  BY <1>8, <1>9

\* The steps of le_mod_fold_chunk, from the lowest byte on.
LEMMA RunningChunks ==
  ASSUME NEW m \in Nat \ {0}, NEW s \in Seq(Bytes)
  PROVE  \E r : /\ r[0] = [acc |-> 0, pow |-> 1]
                /\ \A k \in 0 .. (Len(s) - 1) :
                     r[k + 1] = [acc |-> (r[k].acc + s[k + 1] * r[k].pow) % m,
                                 pow |-> (r[k].pow * 256) % m]
                /\ le_mod_fold_chunk(m, s) = r[Len(s)]
                /\ \A k \in 0 .. Len(s) : r[k] \in Chunk
<1>0. DOMAIN s = 1 .. Len(s) /\ Len(s) \in Nat /\ \A i \in 1 .. Len(s) : s[i] \in Nat
  <2>1. DOMAIN s = 1 .. Len(s) /\ Len(s) \in Nat /\ \A i \in 1 .. Len(s) : s[i] \in Bytes
    OBVIOUS
  <2>2. \A b \in Bytes : b \in Nat
    BY DEF Bytes
  <2>. QED  BY <2>1, <2>2
<1>1. PICK g : ChunkFold(g, m, s) /\ le_mod_fold_chunk(m, s) = g[1 .. Len(s)]
  BY ChunkIs
<1>2. ASSUME NEW t \in SUBSET (1 .. Len(s))
      PROVE  g[t] = IF t = {} THEN [acc |-> 0, pow |-> 1]
                    ELSE [acc |-> (g[t \ {Max(t)}].acc + s[Max(t)] * g[t \ {Max(t)}].pow) % m,
                          pow |-> (g[t \ {Max(t)}].pow * 256) % m]
  BY <1>0, <1>1, Zenon DEF ChunkFold
<1>. DEFINE r == [k \in 0 .. Len(s) |-> g[1 .. k]]
<1>3. r[0] = [acc |-> 0, pow |-> 1] /\ le_mod_fold_chunk(m, s) = r[Len(s)]
  <2>1. 1 .. 0 = {} /\ 1 .. 0 \in SUBSET (1 .. Len(s)) /\ 0 \in 0 .. Len(s) /\ Len(s) \in 0 .. Len(s)
    BY <1>0
  <2>2. g[1 .. 0] = [acc |-> 0, pow |-> 1]
    BY <1>2, <2>1, Zenon
  <2>. QED  BY <1>1, <2>1, <2>2, Zenon
<1>4. ASSUME NEW k \in 0 .. (Len(s) - 1)
      PROVE  r[k + 1] = [acc |-> (r[k].acc + s[k + 1] * r[k].pow) % m,
                         pow |-> (r[k].pow * 256) % m]
  <2>0. k \in 0 .. Len(s) /\ k + 1 \in 0 .. Len(s)
    BY <1>0
  <2>1. r[k] = g[1 .. k] /\ r[k + 1] = g[1 .. (k + 1)]
    BY <2>0, Zenon
  <2>2. g[1 .. (k + 1)] = [acc |-> (g[1 .. k].acc + s[k + 1] * g[1 .. k].pow) % m,
                           pow |-> (g[1 .. k].pow * 256) % m]
    <3>1. /\ 1 .. (k + 1) \in SUBSET (1 .. Len(s)) /\ 1 .. (k + 1) # {}
          /\ Max(1 .. (k + 1)) = k + 1 /\ (1 .. (k + 1)) \ {k + 1} = 1 .. k
      BY <1>0, EndsOfSegment
    <3>. DEFINE t == 1 .. (k + 1)
    <3>2. g[t] = [acc |-> (g[t \ {Max(t)}].acc + s[Max(t)] * g[t \ {Max(t)}].pow) % m,
                  pow |-> (g[t \ {Max(t)}].pow * 256) % m]
      BY <1>2, <3>1, Zenon
    <3>. QED  BY <3>1, <3>2, Zenon
  <2>. HIDE DEF r
  <2>. QED  BY <2>1, <2>2, Zenon
<1>. HIDE DEF r
<1>5. \A k \in 0 .. Len(s) : r[k] \in Chunk
  <2>1. r[0] \in Chunk
    BY <1>3 DEF Chunk
  <2>2. ASSUME NEW k \in 0 .. (Len(s) - 1), r[k] \in Chunk PROVE r[k + 1] \in Chunk
    <3>1. s[k + 1] \in Nat
      BY <1>0
    <3>2. [acc |-> (r[k].acc + s[k + 1] * r[k].pow) % m, pow |-> (r[k].pow * 256) % m] \in Chunk
      BY <2>2, <3>1, ChunkNat
    <3>. QED  BY <1>4, <3>2, Zenon
  <2>. QED  BY <1>0, <2>1, <2>2, ChainTyped
<1>. QED  BY <1>3, <1>4, <1>5

\* The numbers the bytes encode from the k-th on.
LEMMA UpperValues ==
  ASSUME NEW s \in Seq(Bytes)
  PROVE  \E r : /\ r[Len(s)] = 0
                /\ \A k \in 0 .. (Len(s) - 1) : r[k] = s[k + 1] + 256 * r[k + 1]
                /\ LeValue(s) = r[0]
                /\ \A k \in 0 .. Len(s) : r[k] \in Nat
<1>0. DOMAIN s = 1 .. Len(s) /\ Len(s) \in Nat /\ \A i \in 1 .. Len(s) : s[i] \in Nat
  <2>1. DOMAIN s = 1 .. Len(s) /\ Len(s) \in Nat /\ \A i \in 1 .. Len(s) : s[i] \in Bytes
    OBVIOUS
  <2>2. \A b \in Bytes : b \in Nat
    BY DEF Bytes
  <2>. QED  BY <2>1, <2>2
<1>1. PICK g : LeFold(g, s) /\ LeValue(s) = g[1 .. Len(s)]
  BY LeValueIs
<1>2. ASSUME NEW t \in SUBSET (1 .. Len(s))
      PROVE  g[t] = IF t = {} THEN 0 ELSE s[Min(t)] + 256 * g[t \ {Min(t)}]
  BY <1>0, <1>1 DEF LeFold
<1>. DEFINE r == [k \in 0 .. Len(s) |-> g[(k + 1) .. Len(s)]]
<1>3. r[Len(s)] = 0 /\ LeValue(s) = r[0]
  <2>1. /\ (Len(s) + 1) .. Len(s) = {} /\ {} \in SUBSET (1 .. Len(s)) /\ 0 + 1 = 1
        /\ 0 \in 0 .. Len(s) /\ Len(s) \in 0 .. Len(s)
    BY <1>0
  <2>2. g[{}] = 0
    BY <1>2, <2>1, Zenon
  <2>3. r[Len(s)] = g[(Len(s) + 1) .. Len(s)] /\ r[0] = g[(0 + 1) .. Len(s)]
    BY <2>1, Zenon
  <2>. HIDE DEF r
  <2>. QED  BY <1>1, <2>1, <2>2, <2>3
<1>4. ASSUME NEW k \in 0 .. (Len(s) - 1) PROVE r[k] = s[k + 1] + 256 * r[k + 1]
  <2>0. k \in 0 .. Len(s) /\ k + 1 \in 0 .. Len(s) /\ (k + 1) + 1 = k + 2
    BY <1>0
  <2>1. r[k] = g[(k + 1) .. Len(s)] /\ r[k + 1] = g[((k + 1) + 1) .. Len(s)]
    BY <2>0, Zenon
  <2>2. g[(k + 1) .. Len(s)] = s[k + 1] + 256 * g[(k + 2) .. Len(s)]
    <3>1. /\ (k + 1) .. Len(s) \in SUBSET (1 .. Len(s)) /\ (k + 1) .. Len(s) # {}
          /\ Min((k + 1) .. Len(s)) = k + 1 /\ ((k + 1) .. Len(s)) \ {k + 1} = (k + 2) .. Len(s)
      BY <1>0, EndsOfSegment
    <3>. DEFINE t == (k + 1) .. Len(s)
    <3>2. g[t] = s[Min(t)] + 256 * g[t \ {Min(t)}]
      BY <1>2, <3>1, Zenon
    <3>. QED  BY <3>1, <3>2, Zenon
  <2>. HIDE DEF r
  <2>. QED  BY <2>0, <2>1, <2>2
<1>. HIDE DEF r
<1>5. \A k \in 0 .. Len(s) : r[k] \in Nat
  <2>. DEFINE u == [j \in 0 .. Len(s) |-> r[Len(s) - j]]
  <2>1. u[0] \in Nat
    BY <1>0, <1>3
  <2>2. ASSUME NEW j \in 0 .. (Len(s) - 1), u[j] \in Nat PROVE u[j + 1] \in Nat
    <3>. DEFINE k == Len(s) - (j + 1)
    <3>1. k \in 0 .. (Len(s) - 1) /\ k + 1 = Len(s) - j /\ k + 1 \in 1 .. Len(s)
          /\ j \in 0 .. Len(s) /\ j + 1 \in 0 .. Len(s)
      BY <1>0
    <3>2. u[j] = r[Len(s) - j] /\ u[j + 1] = r[Len(s) - (j + 1)]
      BY <3>1, Zenon
    <3>3. s[k + 1] \in Nat /\ r[k] = s[k + 1] + 256 * r[k + 1]
      BY <1>0, <1>4, <3>1
    <3>4. r[k + 1] \in Nat /\ u[j + 1] = r[k]
      BY <2>2, <3>1, <3>2
    <3>. HIDE DEF u, k
    <3>. QED  BY <3>3, <3>4
  <2>. HIDE DEF u
  <2>3. \A j \in 0 .. Len(s) : u[j] \in Nat
    BY <1>0, <2>1, <2>2, ChainTyped
  <2>4. ASSUME NEW k \in 0 .. Len(s) PROVE r[k] \in Nat
    <3>1. Len(s) - k \in 0 .. Len(s) /\ Len(s) - (Len(s) - k) = k
      BY <1>0
    <3>2. u[Len(s) - k] = r[Len(s) - (Len(s) - k)]
      BY <3>1, Zenon DEF u
    <3>. QED  BY <2>3, <3>1, <3>2
  <2>. QED  BY <2>4
<1>. QED  BY <1>3, <1>4, <1>5

\* The quotient and the rest of a division.
LEMMA DivMod ==
  ASSUME NEW a \in Nat, NEW b \in Nat \ {0}
  PROVE  \E q \in Nat : a % b \in 0 .. (b - 1) /\ a = b * q + (a % b)
<1>. DEFINE q == a \div b
            r == a % b
<1>1. q \in Int /\ r \in 0 .. b - 1 /\ q >= 0
  OBVIOUS
<1>2. a = b * q + r
  BY <1>1
<1>3. q \in Nat
  BY <1>1
<1>4. a % b \in 0 .. (b - 1) /\ a = b * q + (a % b)
  <2>. HIDE DEF q
  <2>. QED  BY <1>1, <1>2, Zenon
<1>. HIDE DEF q, r
<1>. QED  BY <1>3, <1>4, Zenon

\* A product grows with its factors.
LEMMA ProductMonotone ==
  ASSUME NEW m \in Nat, NEW d \in Nat, d >= 1
  PROVE  m * d >= m
<1>1. PICK e \in Nat : d = e + 1
  <2>1. d - 1 \in Nat /\ d = (d - 1) + 1
    OBVIOUS
  <2>. QED  BY <2>1
<1>2. m * (e + 1) = m * e + m
  OBVIOUS
<1>3. m * e \in Nat
  OBVIOUS
<1>. QED  BY <1>1, <1>2, <1>3

\* A quotient is no larger when its rest is in the same range.
LEMMA QuotientBelow ==
  ASSUME NEW m \in Nat \ {0}, NEW p \in Nat, NEW q \in Nat,
         NEW r \in 0 .. (m - 1), NEW t \in 0 .. (m - 1), m * p + r = m * q + t
  PROVE  p <= q
<1>. SUFFICES ASSUME p > q PROVE FALSE
  OBVIOUS
<1>1. PICK d \in Nat : d >= 1 /\ p = q + d
  <2>1. p - q \in Nat /\ p - q >= 1 /\ p = q + (p - q)
    OBVIOUS
  <2>. QED  BY <2>1
<1>2. m * (q + d) = m * q + m * d
  OBVIOUS
<1>3. m * d >= m /\ m * d \in Nat /\ m * q \in Nat
  BY <1>1, ProductMonotone
<1>. DEFINE x == m * q
            y == m * d
<1>4. x + y + r = x + t /\ y >= m /\ x \in Nat /\ y \in Nat
  BY <1>1, <1>2, <1>3
<1>. HIDE DEF x, y
<1>. QED  BY <1>4

\* Multiples do not change a rest.
LEMMA RestOfSum ==
  ASSUME NEW m \in Nat \ {0}, NEW a \in Nat, NEW z \in Nat
  PROVE  (a + m * z) % m = a % m
<1>. DEFINE r == a % m
            b == a + m * z
            t == b % m
<1>1. PICK q \in Nat : r \in 0 .. (m - 1) /\ a = m * q + r
  BY DivMod
<1>2. b \in Nat
  OBVIOUS
<1>3. PICK p \in Nat : t \in 0 .. (m - 1) /\ b = m * p + t
  <2>. HIDE DEF b
  <2>. QED  BY <1>2, DivMod
<1>4. b = m * (q + z) + r
  <2>. HIDE DEF r
  <2>1. m * (q + z) = m * q + m * z
    OBVIOUS
  <2>2. m * q \in Nat /\ m * z \in Nat /\ r \in Nat
    BY <1>1
  <2>3. b = (m * q + r) + m * z
    BY <1>1
  <2>. QED  BY <2>1, <2>2, <2>3
<1>. HIDE DEF r, b, t
<1>5. q + z \in Nat /\ m * p + t = m * (q + z) + r
  BY <1>3, <1>4
<1>6. p <= q + z /\ q + z <= p
  BY <1>1, <1>3, <1>5, QuotientBelow
<1>7. p = q + z
  BY <1>6, <1>5
<1>8. r = t
  <2>. DEFINE x == m * p
  <2>1. x \in Nat /\ x + t = x + r
    BY <1>5, <1>7
  <2>. HIDE DEF x
  <2>. QED  BY <1>1, <1>3, <2>1
<1>. QED  BY <1>8 DEF r, t, b

ChunkKept(m, a, p, b, v) ==
  \E z \in Nat : a + p * (b + 256 * v) = (((a + b * p) % m) + ((p * 256) % m) * v) + m * z

\* One byte more: the sum so far and the bytes to come, weighed, change by a
\* multiple of the number of shards.
LEMMA ChunkStep ==
  ASSUME NEW m \in Nat \ {0}, NEW a \in Nat, NEW p \in Nat, NEW b \in Nat, NEW v \in Nat
  PROVE  ChunkKept(m, a, p, b, v)
<1>. DEFINE r == (a + b * p) % m
            t == (p * 256) % m
<1>1. a + b * p \in Nat /\ p * 256 \in Nat
  OBVIOUS
<1>2. PICK x \in Nat : r \in 0 .. (m - 1) /\ a + b * p = m * x + r
  BY <1>1, DivMod
<1>3. PICK y \in Nat : t \in 0 .. (m - 1) /\ p * 256 = m * y + t
  BY <1>1, DivMod
<1>. HIDE DEF r, t
<1>4. p * (b + 256 * v) = b * p + (p * 256) * v
  OBVIOUS
<1>5. (m * y + t) * v = m * (y * v) + t * v
  BY <1>3
<1>6. m * (x + y * v) = m * x + m * (y * v)
  <2>1. y * v \in Nat
    OBVIOUS
  <2>. HIDE DEF r
  <2>. QED  BY <2>1
<1>7. a + p * (b + 256 * v) = (r + t * v) + m * (x + y * v)
  <2>. DEFINE bp == b * p
              mx == m * x
              tv == t * v
              myv == m * (y * v)
  <2>1. bp \in Nat /\ mx \in Nat /\ tv \in Nat /\ myv \in Nat /\ r \in Nat
    BY <1>2, <1>3
  <2>2. a + bp = mx + r
    BY <1>2
  <2>3. p * (b + 256 * v) = bp + (myv + tv)
    BY <1>3, <1>4, <1>5
  <2>4. m * (x + y * v) = mx + myv
    BY <1>6
  <2>. HIDE DEF bp, mx, tv, myv
  <2>5. a + (bp + (myv + tv)) = (r + tv) + (mx + myv)
    BY <2>1, <2>2
  <2>. QED  BY <2>3, <2>4, <2>5 DEF tv
<1>8. x + y * v \in Nat
  OBVIOUS
<1>. QED  BY <1>7, <1>8 DEF r, t, ChunkKept

\* le_mod_fold_chunk computes the rest of the number the bytes encode, though it
\* keeps only rests on the way.
LEMMA ChunkIsResidue ==
  ASSUME NEW m \in Nat \ {0}, NEW s \in Seq(Bytes)
  PROVE  le_mod_fold_chunk(m, s).acc % m = LeValue(s) % m /\ LeValue(s) \in Nat
<1>0. Len(s) \in Nat /\ \A i \in 1 .. Len(s) : s[i] \in Nat
  <2>1. Len(s) \in Nat /\ \A i \in 1 .. Len(s) : s[i] \in Bytes
    OBVIOUS
  <2>2. \A b \in Bytes : b \in Nat
    BY DEF Bytes
  <2>. QED  BY <2>1, <2>2
<1>. DEFINE N == Len(s)
<1>1. PICK r : /\ r[0] = [acc |-> 0, pow |-> 1]
               /\ \A k \in 0 .. (N - 1) :
                    r[k + 1] = [acc |-> (r[k].acc + s[k + 1] * r[k].pow) % m,
                                pow |-> (r[k].pow * 256) % m]
               /\ le_mod_fold_chunk(m, s) = r[N]
               /\ \A k \in 0 .. N : r[k] \in Chunk
  BY RunningChunks
<1>2. PICK u : /\ u[N] = 0
               /\ \A k \in 0 .. (N - 1) : u[k] = s[k + 1] + 256 * u[k + 1]
               /\ LeValue(s) = u[0]
               /\ \A k \in 0 .. N : u[k] \in Nat
  BY UpperValues
<1>. DEFINE Kept(k) == \E z \in Nat : u[0] = (r[k].acc + r[k].pow * u[k]) + m * z
            S == {k \in Nat : k <= N => Kept(k)}
<1>. HIDE DEF N
<1>3. 0 \in S
  <2>1. r[0].acc = 0 /\ r[0].pow = 1 /\ u[0] \in Nat
    BY <1>0, <1>1, <1>2 DEF N
  <2>2. u[0] = (r[0].acc + r[0].pow * u[0]) + m * 0
    <3>1. ASSUME NEW x \in Nat PROVE x = (0 + 1 * x) + m * 0
      OBVIOUS
    <3>. QED  BY <2>1, <3>1
  <2>3. Kept(0)
    BY <2>2
  <2>. HIDE DEF Kept
  <2>. QED  BY <2>3
<1>4. ASSUME NEW k \in S PROVE k + 1 \in S
  <2>. SUFFICES ASSUME k + 1 <= N PROVE Kept(k + 1)
    <3>. HIDE DEF Kept
    <3>. QED  OBVIOUS
  <2>1. k \in 0 .. (N - 1) /\ k \in 0 .. N /\ k + 1 \in 0 .. N /\ k + 1 \in 1 .. N /\ k <= N
    BY <1>0 DEF N
  <2>2. PICK z \in Nat : u[0] = (r[k].acc + r[k].pow * u[k]) + m * z
    <3>. HIDE DEF Kept
    <3>1. Kept(k)
      BY <2>1
    <3>. QED  BY <3>1 DEF Kept
  <2>3. r[k].acc \in Nat /\ r[k].pow \in Nat /\ s[k + 1] \in Nat /\ u[k + 1] \in Nat
    BY <1>0, <1>1, <1>2, <2>1 DEF N, Chunk
  <2>4. /\ r[k + 1].acc = (r[k].acc + s[k + 1] * r[k].pow) % m
        /\ r[k + 1].pow = (r[k].pow * 256) % m
    <3>. DEFINE x == (r[k].acc + s[k + 1] * r[k].pow) % m
                y == (r[k].pow * 256) % m
    <3>1. r[k + 1] = [acc |-> x, pow |-> y]
      BY <1>1, <2>1, Zenon
    <3>. HIDE DEF x, y
    <3>2. r[k + 1].acc = x /\ r[k + 1].pow = y
      BY <3>1
    <3>. QED  BY <3>2 DEF x, y
  <2>5. u[k] = s[k + 1] + 256 * u[k + 1]
    BY <1>2, <2>1
  <2>6. PICK y \in Nat : r[k].acc + r[k].pow * (s[k + 1] + 256 * u[k + 1]) =
                           (r[k + 1].acc + r[k + 1].pow * u[k + 1]) + m * y
    <3>. DEFINE a == r[k].acc
                p == r[k].pow
                b == s[k + 1]
                v == u[k + 1]
    <3>. HIDE DEF a, p, b, v, S, Kept
    <3>1. a \in Nat /\ p \in Nat /\ b \in Nat /\ v \in Nat
      BY <2>3 DEF a, p, b, v
    <3>2. \E z1 \in Nat : a + p * (b + 256 * v) = (((a + b * p) % m) + ((p * 256) % m) * v) + m * z1
      <4>1. ChunkKept(m, a, p, b, v)
        BY <3>1, ChunkStep
      <4>. QED  BY <4>1 DEF ChunkKept
    <3>. QED  BY <2>4, <3>2 DEF a, p, b, v
  <2>7. u[0] = ((r[k + 1].acc + r[k + 1].pow * u[k + 1]) + m * y) + m * z
    BY <2>2, <2>5, <2>6, Zenon
  <2>8. r[k + 1].acc \in Nat /\ r[k + 1].pow \in Nat
    BY <1>1, <2>1 DEF Chunk
  <2>9. u[0] = (r[k + 1].acc + r[k + 1].pow * u[k + 1]) + m * (y + z)
    <3>1. ASSUME NEW x \in Nat PROVE (x + m * y) + m * z = x + m * (y + z)
      OBVIOUS
    <3>2. r[k + 1].acc + r[k + 1].pow * u[k + 1] \in Nat
      <4>1. ASSUME NEW a \in Nat, NEW b \in Nat, NEW c \in Nat PROVE a + b * c \in Nat
        OBVIOUS
      <4>. QED  BY <2>3, <2>8, <4>1
    <3>. QED  BY <2>7, <3>1, <3>2, Zenon
  <2>10. y + z \in Nat
    OBVIOUS
  <2>. QED  BY <2>9, <2>10, Zenon
<1>5. N \in S
  <2>1. S \in SUBSET Nat
    <3>. HIDE DEF Kept
    <3>. QED  OBVIOUS
  <2>2. N \in Nat
    BY <1>0 DEF N
  <2>. HIDE DEF S
  <2>. QED  BY <1>3, <1>4, <2>1, <2>2, NatInd
<1>6. PICK z \in Nat : u[0] = (r[N].acc + r[N].pow * u[N]) + m * z
  <2>1. N \in Nat /\ N <= N
    BY <1>0 DEF N
  <2>2. Kept(N)
    <3>. HIDE DEF Kept
    <3>. QED  BY <1>5, <2>1
  <2>. QED  BY <2>2
<1>7. r[N].acc \in Nat /\ r[N].pow \in Nat /\ u[N] = 0 /\ u[0] \in Nat
  <2>1. N \in 0 .. N /\ 0 \in 0 .. N
    BY <1>0 DEF N
  <2>. QED  BY <1>1, <1>2, <2>1 DEF Chunk
<1>8. u[0] = r[N].acc + m * z
  <2>1. ASSUME NEW a \in Nat, NEW b \in Nat, NEW c \in Nat PROVE (a + b * 0) + m * c = a + m * c
    OBVIOUS
  <2>. QED  BY <1>6, <1>7, <2>1
<1>9. (r[N].acc + m * z) % m = r[N].acc % m
  BY <1>7, RestOfSum
<1>10. LeValue(s) % m = r[N].acc % m
  BY <1>2, <1>8, <1>9, Zenon
<1>. QED  BY <1>1, <1>2, <1>7, <1>10, Zenon

\* The shard of a key is a rest of the number its bytes encode, and a shard; so is
\* the shard of a value, and of a row (partition_bytes_le, Xxh3Partition, PartitionOf).
LEMMA ShardsOfRows ==
  ASSUME n \in Nat \ {0}
  PROVE  /\ \A k \in Key : /\ partition_bytes_le(n, KeyBytes[k]) = LeValue(KeyBytes[k]) % n
                           /\ partition_bytes_le(n, KeyBytes[k]) \in Shard
         /\ \A v \in Value : Xxh3Partition(n, Hash[v]) \in Shard
         /\ \A k \in Key, v \in Value : PartitionOf(k, v) \in Shard /\ ShardOf(k, v) \in Shard
         /\ 0 \in Shard /\ (n = 1 => Shard = {0})
<1>0. ASSUME NEW x \in Nat PROVE x % n \in Shard
  BY DEF Shard
<1>1. ASSUME NEW k \in Key
      PROVE  /\ partition_bytes_le(n, KeyBytes[k]) = LeValue(KeyBytes[k]) % n
             /\ partition_bytes_le(n, KeyBytes[k]) \in Shard
  <2>1. KeyBytes[k] \in Seq(Bytes)
    BY ShardedAssumption DEF Bytes
  <2>2. le_mod_fold_chunk(n, KeyBytes[k]).acc % n = LeValue(KeyBytes[k]) % n /\ LeValue(KeyBytes[k]) \in Nat
    BY <2>1, ChunkIsResidue
  <2>3. LeValue(KeyBytes[k]) % n \in Shard
    BY <1>0, <2>2
  <2>4. CASE n = 1
    <3>1. LeValue(KeyBytes[k]) % n = 0
      BY <2>3, <2>4 DEF Shard
    <3>. QED  BY <2>3, <2>4, <3>1 DEF partition_bytes_le
  <2>5. CASE n # 1
    BY <2>2, <2>3, <2>5 DEF partition_bytes_le
  <2>. QED  BY <2>4, <2>5
<1>2. ASSUME NEW v \in Value PROVE Xxh3Partition(n, Hash[v]) \in Shard
  BY <1>0, ShardedAssumption DEF Xxh3Partition
<1>3. 0 \in Shard /\ (n = 1 => Shard = {0})
  BY DEF Shard
<1>4. ASSUME NEW k \in Key, NEW v \in Value PROVE PartitionOf(k, v) \in Shard /\ ShardOf(k, v) \in Shard
  BY <1>1, <1>2, <1>3 DEF PartitionOf, ShardOf
<1>. QED  BY <1>1, <1>2, <1>3, <1>4

-----------------------------------------------------------------------------
(***************************************************************************)
(* The queues                                                              *)
(***************************************************************************)

\* The caller adds commands at the ends of the queues.
Extend(ext) ==
  /\ ext \in [Shard -> Seq(Cmd)]
  /\ queue' = [s \in Shard |-> queue[s] \o ext[s]]

One(s, c) == [t \in Shard |-> IF t = s THEN <<c>> ELSE <<>>]

\* Where the commands are after that.
Longer(ext) ==
  /\ Shard' = Shard /\ queue' \in [Shard -> Seq(Cmd)]
  /\ \A s \in Shard :
       /\ Len(queue[s]) \in Nat /\ Len(ext[s]) \in Nat
       /\ Len(queue'[s]) = Len(queue[s]) + Len(ext[s])
       /\ \A i \in 1 .. Len(queue[s]) : i \in 1 .. Len(queue'[s]) /\ queue'[s][i] = queue[s][i]
       /\ \A i \in 1 .. Len(ext[s]) : /\ Len(queue[s]) + i \in 1 .. Len(queue'[s])
                                      /\ queue'[s][Len(queue[s]) + i] = ext[s][i]
       /\ \A i \in 1 .. Len(queue'[s]) :
            \/ i \in 1 .. Len(queue[s])
            \/ /\ i \notin 1 .. Len(queue[s]) /\ i - Len(queue[s]) \in 1 .. Len(ext[s])
               /\ queue'[s][i] = ext[s][i - Len(queue[s])]

\* The commands that were there stay where they are.
LEMMA Extended ==
  ASSUME TypeInv, n' = n, NEW ext, Extend(ext)
  PROVE  Longer(ext)
<1>1. Shard' = Shard
  BY DEF Shard
<1>2. ASSUME NEW s \in Shard
      PROVE  /\ queue[s] \in Seq(Cmd) /\ ext[s] \in Seq(Cmd) /\ queue'[s] = queue[s] \o ext[s]
             /\ queue'[s] \in Seq(Cmd)
  <2>1. queue[s] \in Seq(Cmd) /\ ext[s] \in Seq(Cmd)
    BY DEF TypeInv, Extend
  <2>2. queue'[s] = queue[s] \o ext[s]
    BY DEF Extend
  <2>. QED  BY <2>1, <2>2
<1>3. queue' \in [Shard -> Seq(Cmd)]
  BY <1>2 DEF Extend
<1>4. ASSUME NEW s \in Shard
      PROVE  /\ Len(queue[s]) \in Nat /\ Len(ext[s]) \in Nat
             /\ Len(queue'[s]) = Len(queue[s]) + Len(ext[s])
             /\ \A i \in 1 .. Len(queue[s]) : i \in 1 .. Len(queue'[s]) /\ queue'[s][i] = queue[s][i]
             /\ \A i \in 1 .. Len(ext[s]) : /\ Len(queue[s]) + i \in 1 .. Len(queue'[s])
                                            /\ queue'[s][Len(queue[s]) + i] = ext[s][i]
             /\ \A i \in 1 .. Len(queue'[s]) :
                  \/ i \in 1 .. Len(queue[s])
                  \/ /\ i \notin 1 .. Len(queue[s]) /\ i - Len(queue[s]) \in 1 .. Len(ext[s])
                     /\ queue'[s][i] = ext[s][i - Len(queue[s])]
  <2>. DEFINE q == queue[s]
              e == ext[s]
              r == queue'[s]
  <2>1. q \in Seq(Cmd) /\ e \in Seq(Cmd) /\ r = q \o e
    BY <1>2
  <2>. HIDE DEF q, e, r
  <2>2. /\ Len(q) \in Nat /\ Len(e) \in Nat /\ Len(r) = Len(q) + Len(e)
        /\ \A i \in 1 .. Len(r) : r[i] = IF i <= Len(q) THEN q[i] ELSE e[i - Len(q)]
    BY <2>1
  <2>3. \A i \in 1 .. Len(q) : i \in 1 .. Len(r) /\ r[i] = q[i]
    BY <2>2
  <2>4. ASSUME NEW i \in 1 .. Len(e) PROVE Len(q) + i \in 1 .. Len(r) /\ r[Len(q) + i] = e[i]
    <3>1. Len(q) + i \in 1 .. Len(r) /\ ~ (Len(q) + i <= Len(q)) /\ (Len(q) + i) - Len(q) = i
      BY <2>2
    <3>. QED  BY <2>2, <3>1
  <2>5. \A i \in 1 .. Len(r) : \/ i \in 1 .. Len(q)
                               \/ /\ i \notin 1 .. Len(q) /\ i - Len(q) \in 1 .. Len(e)
                                  /\ r[i] = e[i - Len(q)]
    BY <2>2
  <2>. QED  BY <2>2, <2>3, <2>4, <2>5 DEF q, e, r
<1>. QED  BY <1>1, <1>3, <1>4 DEF Longer

\* A command is an old one, where it was, or a new one.
LEMMA OldOrNew ==
  ASSUME NEW ext, Longer(ext), NEW s \in Shard
  PROVE  /\ \A i \in 1 .. Len(queue[s]) : i \in 1 .. Len(queue'[s]) /\ queue'[s][i] = queue[s][i]
         /\ \A i \in 1 .. Len(queue'[s]) :
              \/ i \in 1 .. Len(queue[s]) /\ queue'[s][i] = queue[s][i]
              \/ i \notin 1 .. Len(queue[s]) /\ \E j \in 1 .. Len(ext[s]) : queue'[s][i] = ext[s][j]
         /\ \A i \in 1 .. Len(queue'[s]) : queue'[s][i] \in Cmd
<1>1. \A i \in 1 .. Len(queue'[s]) : queue'[s][i] \in Cmd
  <2>1. queue'[s] \in Seq(Cmd)
    BY DEF Longer
  <2>. QED  BY <2>1
<1>2. \A i \in 1 .. Len(queue[s]) : i \in 1 .. Len(queue'[s]) /\ queue'[s][i] = queue[s][i]
  BY Zenon DEF Longer
<1>3. ASSUME NEW i \in 1 .. Len(queue'[s])
      PROVE  \/ i \in 1 .. Len(queue[s]) /\ queue'[s][i] = queue[s][i]
             \/ i \notin 1 .. Len(queue[s]) /\ \E j \in 1 .. Len(ext[s]) : queue'[s][i] = ext[s][j]
  BY <1>2, Zenon DEF Longer
<1>. QED  BY <1>1, <1>2, <1>3

\* A command for one shard.
LEMMA SendExtends ==
  ASSUME TypeInv, NEW s \in Shard, NEW c \in Cmd, Send(s, c)
  PROVE  Extend(One(s, c)) /\ One(s, c)[s] = <<c>> /\ \A t \in Shard : t # s => One(s, c)[t] = <<>>
<1>1. One(s, c) \in [Shard -> Seq(Cmd)]
  BY DEF One
<1>2. One(s, c)[s] = <<c>> /\ \A t \in Shard : t # s => One(s, c)[t] = <<>>
  BY DEF One
<1>3. queue \in [Shard -> Seq(Cmd)]
  BY DEF TypeInv
<1>4. ASSUME NEW t \in Shard PROVE queue'[t] = queue[t] \o One(s, c)[t]
  <2>1. queue[t] \in Seq(Cmd) /\ queue'[t] = IF t = s THEN Append(queue[t], c) ELSE queue[t]
    BY <1>3 DEF Send
  <2>2. ASSUME NEW q \in Seq(Cmd) PROVE Append(q, c) = q \o <<c>> /\ q \o <<>> = q
    <3>1. q \o <<>> = q
      BY ConcatEmptySeq
    <3>2. Append(q, c) = q \o <<c>>
      BY AppendIsConcat
    <3>. QED  BY <3>1, <3>2
  <2>. QED  BY <1>2, <2>1, <2>2
<1>5. queue' = [t \in Shard |-> queue[t] \o One(s, c)[t]]
  BY <1>3, <1>4 DEF Send
<1>. QED  BY <1>1, <1>2, <1>5 DEF Extend

\* Where the commands are when a writer thread has taken the first one.
Shorter(s) ==
  /\ Shard' = Shard /\ queue' \in [Shard -> Seq(Cmd)]
  /\ Head(queue[s]) = queue[s][1] /\ 1 \in 1 .. Len(queue[s]) /\ queue[s][1] \in Cmd
  /\ Len(queue[s]) \in Nat /\ Len(queue'[s]) = Len(queue[s]) - 1 /\ Len(queue'[s]) \in Nat
  /\ \A i \in 1 .. Len(queue'[s]) : i + 1 \in 1 .. Len(queue[s]) /\ queue'[s][i] = queue[s][i + 1]
  /\ \A i \in 1 .. Len(queue[s]) :
       i = 1 \/ (i - 1 \in 1 .. Len(queue'[s]) /\ queue'[s][i - 1] = queue[s][i])
  /\ Len(queue[s]) = 1 => queue'[s] = <<>>
  /\ \A t \in Shard : t # s => queue'[t] = queue[t]

\* A writer thread takes the first command.
LEMMA Popped ==
  ASSUME TypeInv, n' = n, NEW s \in Shard, queue[s] # <<>>, queue' = [queue EXCEPT ![s] = Tail(@)]
  PROVE  Shorter(s)
<1>1. Shard' = Shard
  BY DEF Shard
<1>2. queue \in [Shard -> Seq(Cmd)]
  BY DEF TypeInv
<1>. DEFINE q == queue[s]
            r == queue'[s]
<1>3. q \in Seq(Cmd) /\ q # <<>> /\ r = Tail(q) /\ \A t \in Shard : t # s => queue'[t] = queue[t]
  BY <1>2
<1>4. queue' \in [Shard -> Seq(Cmd)]
  <2>1. r \in Seq(Cmd)
    <3>. HIDE DEF q, r
    <3>. QED  BY <1>3
  <2>2. ASSUME NEW t \in Shard PROVE queue'[t] \in Seq(Cmd)
    BY <1>2, <1>3, <2>1
  <2>3. queue' = [t \in Shard |-> queue'[t]]
    BY <1>2
  <2>. QED  BY <2>2, <2>3
<1>. HIDE DEF q, r
<1>5. /\ Head(q) = q[1] /\ 1 \in 1 .. Len(q) /\ q[1] \in Cmd
      /\ Len(q) \in Nat /\ Len(r) = Len(q) - 1 /\ Len(r) \in Nat
      /\ \A i \in 1 .. Len(r) : r[i] = q[i + 1]
      /\ Len(r) = 0 => r = <<>>
  BY <1>3
<1>6. \A i \in 1 .. Len(r) : i + 1 \in 1 .. Len(q) /\ r[i] = q[i + 1]
  BY <1>5
<1>7. ASSUME NEW i \in 1 .. Len(q)
      PROVE  i = 1 \/ (i - 1 \in 1 .. Len(r) /\ r[i - 1] = q[i])
  <2>1. i = 1 \/ (i - 1 \in 1 .. Len(r) /\ (i - 1) + 1 = i)
    BY <1>5
  <2>2. i - 1 \in 1 .. Len(r) => r[i - 1] = q[(i - 1) + 1]
    BY <1>5, Zenon
  <2>. QED  BY <2>1, <2>2, Zenon
<1>8. Len(q) = 1 => r = <<>>
  BY <1>5
<1>9. \A i \in 1 .. Len(q) : i = 1 \/ (i - 1 \in 1 .. Len(r) /\ r[i - 1] = q[i])
  BY <1>7, Zenon
<1>. QED  BY <1>1, <1>3, <1>4, <1>5, <1>6, <1>8, <1>9, Zenon DEF q, r, Shorter

\* What the commands bring.
LEMMA PutsOfCommands ==
  /\ \A c \in Cmd, k \in Key, v \in Value : Puts(c, k, v) => c.op \in {"insert", "write"}
  /\ \A k, j \in Key, v, w \in Value :
       Puts([op |-> "insert", k |-> k, v |-> v], j, w) <=> j = k /\ w = v
BY DEF Puts

\* A command is one of its kind.
LEMMA CommandKinds ==
  ASSUME NEW c \in Cmd
  PROVE  /\ c.op \in {"insert", "write", "remove", "range", "query", "flush"}
         /\ c.op = "insert" => c \in InsertCmd
         /\ c.op = "write" => c \in WriteCmd
         /\ c.op = "remove" => c \in RemoveCmd
         /\ c.op = "range" => c \in RangeCmd
         /\ c.op = "query" => c \in QueryCmd
         /\ c.op = "flush" => c \in FlushCmd
BY DEF Cmd, InsertCmd, WriteCmd, RemoveCmd, RangeCmd, QueryCmd, FlushCmd

-----------------------------------------------------------------------------
(***************************************************************************)
(* What a call that brings no row leaves as it was                         *)
(***************************************************************************)

\* Where the rows are, when the caller sends commands without rows.
LEMMA PlaceKept ==
  ASSUME TypeInv, PlaceInv, UNCHANGED <<n, kind, forward>>, NEW ext, Extend(ext),
         \A s \in Shard : \A i \in 1 .. Len(ext[s]) : ext[s][i].op \notin {"insert", "write"},
         \A k \in Key, v \in Value : Known(k, v) /\ (\E s \in Shard : At(s, k)) => Known(k, v)',
         \A k \in Key, v \in Value : logical'[k] = v => logical[k] = v
  PROVE  PlaceInv' /\ \A s \in Shard, k \in Key : At(s, k)' <=> At(s, k)
<1>1. Longer(ext)
  BY Extended
<1>2. \A k \in Key, v \in Value : ShardOf(k, v)' = ShardOf(k, v)
  BY DEF ShardOf, PartitionOf
<1>3. ASSUME NEW s \in Shard, NEW i \in 1 .. Len(queue'[s]), queue'[s][i].op \in {"insert", "write"}
      PROVE  i \in 1 .. Len(queue[s]) /\ queue'[s][i] = queue[s][i]
  BY <1>1, <1>3, OldOrNew
<1>4. ASSUME NEW s \in Shard, NEW i \in 1 .. Len(queue'[s]), NEW k \in Key, NEW v \in Value,
             Puts(queue'[s][i], k, v)
      PROVE  i \in 1 .. Len(queue[s]) /\ queue'[s][i] = queue[s][i] /\ Puts(queue[s][i], k, v)
  <2>1. queue'[s][i] \in Cmd
    BY <1>1, OldOrNew
  <2>2. queue'[s][i].op \in {"insert", "write"}
    BY <1>4, <2>1, PutsOfCommands
  <2>. QED  BY <1>3, <1>4, <2>2
<1>5. ASSUME NEW s \in Shard, NEW k \in Key PROVE At(s, k)' <=> At(s, k)
  <2>1. Coming(s, k)' <=> Coming(s, k)
    <3>1. \A i \in 1 .. Len(queue[s]) : i \in 1 .. Len(queue'[s]) /\ queue'[s][i] = queue[s][i]
      BY <1>1, OldOrNew
    <3>. QED  BY <1>4, <3>1 DEF Coming
  <2>. QED  BY <2>1 DEF At
<1>6. PlaceTables'
  <2>. SUFFICES ASSUME NEW s \in Shard, NEW k \in Key, NEW v \in Value, forward[s][k] = v
                PROVE  s = ShardOf(k, v) /\ Known(k, v)'
    BY <1>1, <1>2 DEF Longer, PlaceTables
  <2>1. s = ShardOf(k, v) /\ Known(k, v)
    BY DEF PlaceInv, PlaceTables
  <2>2. At(s, k)
    BY ShardedAssumption DEF At
  <2>. QED  BY <2>1, <2>2
<1>7. PlaceQueues'
  <2>. SUFFICES ASSUME NEW s \in Shard, NEW k \in Key, NEW v \in Value, NEW i \in 1 .. Len(queue'[s]),
                       Puts(queue'[s][i], k, v)
                PROVE  s = ShardOf(k, v) /\ Known(k, v)' /\ forward[s][k] = None
    BY <1>1, <1>2 DEF Longer, PlaceQueues
  <2>1. i \in 1 .. Len(queue[s]) /\ Puts(queue[s][i], k, v)
    BY <1>4
  <2>2. s = ShardOf(k, v) /\ Known(k, v) /\ forward[s][k] = None
    BY <2>1 DEF PlaceInv, PlaceQueues
  <2>3. At(s, k)
    BY <2>1 DEF At, Coming
  <2>. QED  BY <2>2, <2>3
<1>8. PlaceOnce'
  BY <1>1, <1>5 DEF Longer, PlaceInv, PlaceOnce
<1>9. PutOnce'
  BY <1>1, <1>4 DEF Longer, PlaceInv, PutOnce
<1>10. RowsDistinct'
  BY <1>1, <1>3 DEF Longer, PlaceInv, RowsDistinct
<1>11. PlaceAll'
  <2>1. \A k \in Key, v \in Value : ShardOf(k, v) \in Shard
    BY ShardsOfRows DEF TypeInv
  <2>. QED  BY <1>2, <1>5, <2>1 DEF PlaceInv, PlaceAll
<1>. QED  BY <1>5, <1>6, <1>7, <1>8, <1>9, <1>10, <1>11 DEF PlaceInv

\* The positions and the commands of a query depend on the number of shards only.
LEMMA PositionsKept ==
  ASSUME n' = n, Shard' = Shard
  PROVE  \A values : \A s \in Shard : /\ PositionsOf(values, s)' = PositionsOf(values, s)
                                      /\ BucketOf(values, s)' = BucketOf(values, s)
BY DEF PositionsOf, BucketOf

\* The queries and their answers, when the caller sends no query.
LEMMA QueriesKept ==
  ASSUME TypeInv, AskedInv, QueryInv, UNCHANGED <<n, kind, reverse, sink, ready, asked>>,
         NEW ext, Extend(ext),
         \A s \in Shard : \A i \in 1 .. Len(ext[s]) : ext[s][i].op # "query"
  PROVE  AskedInv' /\ QueryInv'
<1>0. Longer(ext)
  BY Extended
<1>1. Longer(ext) /\ Shard' = Shard
  BY <1>0 DEF Shard
<1>2. ASSUME NEW s \in Shard, NEW i \in 1 .. Len(queue'[s]), queue'[s][i].op = "query"
      PROVE  i \in 1 .. Len(queue[s]) /\ queue'[s][i] = queue[s][i]
  BY <1>1, <1>2, OldOrNew
<1>3. ASSUME NEW s \in Shard, NEW i \in 1 .. Len(queue[s])
      PROVE  i \in 1 .. Len(queue'[s]) /\ queue'[s][i] = queue[s][i]
  BY <1>1, OldOrNew
<1>4. ASSUME NEW s \in Shard, NEW a PROVE Pending(a, s)' <=> Pending(a, s)
  BY <1>2, <1>3 DEF Pending
<1>5. \A a : \A p : Got(a, p)' = Got(a, p) /\ (Answered(a, p)' <=> Answered(a, p))
  BY DEF Got, Answered
<1>6. AskedKnown'
  BY DEF AskedInv, AskedKnown
<1>7. AnswersInv'
  BY <1>1, <1>4, <1>5, PositionsKept DEF AskedInv, AnswersInv
<1>8. ReadyInv'
  <2>1. ready \subseteq Shard
    BY DEF TypeInv
  <2>2. \A a \in asked', s \in Shard' : a.last => Pending(a, s)' \/ s \in ready'
    BY <1>1, <1>4 DEF AskedInv, ReadyInv
  <2>3. \A s \in ready' : /\ \E a \in asked' : a.last
                          /\ \A i \in 1 .. Len(queue'[s]) : queue'[s][i].op # "query"
    BY <1>2, <2>1 DEF AskedInv, ReadyInv
  <2>. QED  BY <2>2, <2>3 DEF ReadyInv
<1>9. ASSUME NEW s \in Shard, NEW i \in 1 .. Len(queue[s]), NEW v PROVE Ahead(s, i, v)' = Ahead(s, i, v)
  <2>1. \A j \in 1 .. (i - 1) : j \in 1 .. Len(queue[s])
    BY <1>1 DEF Longer
  <2>2. \A j \in 1 .. (i - 1) : queue'[s][j] = queue[s][j]
    BY <1>3, <2>1
  <2>. QED  BY <2>2 DEF Ahead
<1>10. QueryFinds'
  <2>. SUFFICES ASSUME NEW s \in Shard, NEW i \in 1 .. Len(queue'[s]), queue'[s][i].op = "query"
                PROVE  kind' = "index" /\ \E a \in asked' : queue'[s][i] = QueryCommand(a, s)' /\ Finds(a, s, i)'
    BY <1>1 DEF QueryFinds
  <2>1. i \in 1 .. Len(queue[s]) /\ queue'[s][i] = queue[s][i]
    BY <1>2
  <2>2. kind = "index"
    BY <2>1 DEF QueryInv, QueryFinds
  <2>3. PICK a \in asked : queue[s][i] = QueryCommand(a, s) /\ Finds(a, s, i)
    BY <2>1 DEF QueryInv, QueryFinds
  <2>4. QueryCommand(a, s)' = QueryCommand(a, s)
    BY <1>1, PositionsKept DEF QueryCommand
  <2>5. Finds(a, s, i)'
    BY <1>1, <1>9, <2>1, <2>3, PositionsKept DEF Finds
  <2>. QED  BY <2>1, <2>2, <2>3, <2>4, <2>5
<1>11. QueryOrder'
  BY <1>1, <1>2 DEF QueryInv, QueryOrder
<1>. QED  BY <1>6, <1>7, <1>8, <1>10, <1>11 DEF AskedInv, QueryInv

Nothing == [s \in Shard |-> <<>>]

\* Queues that stay are extended by nothing.
LEMMA SendNothing ==
  ASSUME TypeInv, queue' = queue
  PROVE  Extend(Nothing) /\ \A s \in Shard : Len(Nothing[s]) = 0 /\ 1 .. Len(Nothing[s]) = {}
<1>1. Nothing \in [Shard -> Seq(Cmd)] /\ queue \in [Shard -> Seq(Cmd)]
  BY DEF Nothing, TypeInv
<1>2. \A s \in Shard : queue[s] \o Nothing[s] = queue[s]
  <2>1. \A q \in Seq(Cmd) : q \o <<>> = q
    BY ConcatEmptySeq
  <2>. QED  BY <1>1, <2>1 DEF Nothing
<1>3. queue' = [s \in Shard |-> queue[s] \o Nothing[s]]
  BY <1>1, <1>2
<1>4. \A s \in Shard : Len(Nothing[s]) = 0 /\ 1 .. Len(Nothing[s]) = {}
  BY DEF Nothing
<1>. QED  BY <1>1, <1>3, <1>4 DEF Extend

\* While the caller waits for nothing in a transaction, the queues hold rows and
\* queries only.
LEMMA QuietQueues ==
  ASSUME TypeInv, RemoveInv, RangeInv, PhaseInv, call = NoCall, phase = "open"
  PROVE  \A s \in Shard : \A i \in 1 .. Len(queue[s]) :
           queue[s][i].op \notin {"remove", "range", "flush"}
<1>1. call.op = "none"
  BY DEF NoCall
<1>2. ASSUME NEW s \in Shard, NEW i \in 1 .. Len(queue[s])
      PROVE  queue[s][i].op \notin {"remove", "range", "flush"} /\ i \in Nat
  <2>1. i \in Nat
    OBVIOUS
  <2>. QED  BY <1>1, <2>1 DEF RemoveInv, RangeInv, PhaseInv
<1>. QED  BY <1>2

\* Without a call, nothing is known of deletes and ranges but that there are none.
LEMMA NoCallInv ==
  ASSUME call' = NoCall,
         \A s \in Shard' : \A i \in 1 .. Len(queue'[s]) : queue'[s][i].op \notin {"remove", "range"}
  PROVE  RemoveInv' /\ RangeInv'
<1>1. call'.op = "none"
  BY DEF NoCall
<1>. QED  BY <1>1 DEF RemoveInv, RangeInv

\* The tables of the readers.
LEMMA RevKept ==
  ASSUME RevInv, UNCHANGED <<n, kind, forward, reverse>>
  PROVE  RevInv'
BY DEF RevInv, Shard

-----------------------------------------------------------------------------
(***************************************************************************)
(* The calls                                                               *)
(***************************************************************************)

\* Init.
LEMMA InitIInv ==
  ASSUME Init
  PROVE  IInv
<1>0. n \in Nat \ {0} /\ Shard = 0 .. (n - 1)
  BY ShardedAssumption DEF Init, Shard
<1>1. \A s \in Shard : /\ Len(queue[s]) = 0 /\ queue[s] = <<>> /\ 1 .. Len(queue[s]) = {}
                       /\ \A k \in Key : forward[s][k] = None
                       /\ \A v \in Value : reverse[s][v] = {}
  BY DEF Init, EmptyMap
<1>2. call = NoCall /\ call.op = "none" /\ logical = [k \in Key |-> None] /\ sync_buf = <<>>
  BY DEF Init, NoCall, EmptyMap
<1>3. TypeInv
  <2>1. /\ queue \in [Shard -> Seq(Cmd)] /\ sync_buf \in Seq(Row)
    BY DEF Init
  <2>2. forward \in [Shard -> Map] /\ reverse \in [Shard -> [Value -> SUBSET Key]] /\ logical \in Map
    BY DEF Init, EmptyMap, Map
  <2>. QED  BY <1>0, <1>2, <2>1, <2>2 DEF Init, TypeInv
<1>4. PlaceInv
  <2>1. \A s \in Shard, k \in Key : ~At(s, k)
    BY <1>1 DEF At, Coming
  <2>2. \A k \in Key, v \in Value : logical[k] # v
    BY <1>2, ShardedAssumption
  <2>. QED  BY <1>1, <2>1, <2>2, ShardedAssumption
            DEF PlaceInv, PlaceTables, PlaceQueues, PlaceOnce, PutOnce, RowsDistinct, PlaceAll
<1>5. BufInv
  BY <1>2 DEF BufInv
<1>6. RemoveInv /\ RangeInv
  BY <1>1, <1>2 DEF RemoveInv, RangeInv
<1>7. PhaseInv
  BY <1>1, <1>2 DEF PhaseInv, Init
<1>8. RevInv
  BY <1>1, ShardedAssumption DEF RevInv
<1>9. AskedInv
  <2>1. asked = {} /\ sink = {} /\ ready = {}
    BY DEF Init
  <2>2. IsFiniteSet({})
    BY FS_EmptySet
  <2>. QED  BY <2>1, <2>2 DEF AskedInv, AskedKnown, AnswersInv, ReadyInv
<1>10. QueryInv
  BY <1>1 DEF QueryInv, QueryFinds, QueryOrder
<1>. QED  BY <1>3, <1>4, <1>5, <1>6, <1>7, <1>8, <1>9, <1>10 DEF IInv

\* A transaction begins: the queues are empty.
LEMMA BeginInv ==
  ASSUME IInv, begin
  PROVE  IInv'
<1>0. /\ TypeInv /\ PlaceInv /\ BufInv /\ RemoveInv /\ RangeInv
      /\ PhaseInv /\ RevInv /\ AskedInv /\ QueryInv
  BY DEF IInv
<1>1. /\ phase = "idle" /\ phase' = "open" /\ flushed' = {} /\ sink' = {} /\ ready' = {} /\ asked' = {}
      /\ UNCHANGED <<kind, n, call, sync_buf, queue, forward, reverse, logical>>
  BY DEF begin, tableVars
<1>2. Shard' = Shard
  BY <1>1 DEF Shard
<1>3. \A s \in Shard : Len(queue[s]) = 0 /\ queue[s] = <<>> /\ 1 .. Len(queue[s]) = {}
  BY <1>0, <1>1 DEF PhaseInv
<1>4. TypeInv'
  BY <1>0, <1>1, <1>2 DEF TypeInv
<1>5. PlaceInv'
  <2>1. Extend(Nothing) /\ \A s \in Shard : 1 .. Len(Nothing[s]) = {}
    BY <1>0, <1>1, SendNothing
  <2>2. \A k \in Key, v \in Value : Known(k, v) => Known(k, v)'
    BY <1>1 DEF Known, Busy
  <2>. QED  BY <1>0, <1>1, <2>1, <2>2, PlaceKept
<1>6. BufInv'
  BY <1>0, <1>1 DEF BufInv, Busy
<1>7. call.op = "none"
  BY <1>0, <1>1 DEF PhaseInv
<1>8. RemoveInv' /\ RangeInv'
  BY <1>1, <1>2, <1>3, <1>7 DEF RemoveInv, RangeInv
<1>9. PhaseInv'
  BY <1>1, <1>2, <1>3, <1>7 DEF PhaseInv
<1>10. RevInv'
  BY <1>0, <1>1, RevKept
<1>11. AskedInv'
  <2>1. IsFiniteSet({})
    BY FS_EmptySet
  <2>. QED  BY <1>1, <2>1 DEF AskedInv, AskedKnown, AnswersInv, ReadyInv
<1>12. QueryInv'
  BY <1>1, <1>2, <1>3 DEF QueryInv, QueryFinds, QueryOrder
<1>. QED  BY <1>4, <1>5, <1>6, <1>8, <1>9, <1>10, <1>11, <1>12 DEF IInv

\* A flush has been acknowledged by every shard.
LEMMA FlushAckedInv ==
  ASSUME IInv, FlushAcked
  PROVE  IInv'
<1>0. /\ TypeInv /\ PlaceInv /\ BufInv /\ RemoveInv /\ RangeInv
      /\ PhaseInv /\ RevInv /\ AskedInv /\ QueryInv
  BY DEF IInv
<1>1. /\ phase = "flushing" /\ phase' = "idle" /\ flushed = Shard
      /\ UNCHANGED <<kind, n, call, sync_buf, queue, forward, reverse, flushed, sink, ready, asked, logical>>
  BY DEF FlushAcked, tableVars, sinkVars
<1>2. Shard' = Shard
  BY <1>1 DEF Shard
<1>3. Extend(Nothing) /\ \A s \in Shard : 1 .. Len(Nothing[s]) = {}
  BY <1>0, <1>1, SendNothing
<1>4. TypeInv'
  BY <1>0, <1>1, <1>2 DEF TypeInv
<1>5. PlaceInv'
  <2>1. \A k \in Key, v \in Value : Known(k, v) => Known(k, v)'
    BY <1>1 DEF Known, Busy
  <2>. QED  BY <1>0, <1>1, <1>3, <2>1, PlaceKept
<1>6. BufInv'
  BY <1>0, <1>1 DEF BufInv, Busy
<1>7. call.op = "none" /\ call = NoCall
  BY <1>0, <1>1 DEF PhaseInv, TypeInv
<1>8. RemoveInv' /\ RangeInv'
  BY <1>0, <1>1, <1>2, <1>7 DEF RemoveInv, RangeInv
<1>9. PhaseInv'
  <2>1. \A s \in Shard : queue[s] = <<>> /\ 1 .. Len(queue[s]) = {}
    BY <1>0, <1>1 DEF PhaseInv
  <2>. QED  BY <1>1, <1>2, <1>7, <2>1 DEF PhaseInv
<1>10. RevInv'
  BY <1>0, <1>1, RevKept
<1>11. AskedInv' /\ QueryInv'
  BY <1>0, <1>1, <1>3, QueriesKept
<1>. QED  BY <1>4, <1>5, <1>6, <1>8, <1>9, <1>10, <1>11 DEF IInv

\* A range has been answered.
LEMMA RangeAnsweredInv ==
  ASSUME IInv, RangeAnswered
  PROVE  IInv'
<1>0. /\ TypeInv /\ PlaceInv /\ BufInv /\ RemoveInv /\ RangeInv
      /\ PhaseInv /\ RevInv /\ AskedInv /\ QueryInv
  BY DEF IInv
<1>1. /\ call.op = "ranged" /\ call' = NoCall /\ call'.op = "none"
      /\ UNCHANGED <<kind, n, phase, sync_buf, queue, forward, reverse, flushed, sink, ready, asked, logical>>
  BY DEF RangeAnswered, tableVars, sinkVars, NoCall
<1>2. Shard' = Shard
  BY <1>1 DEF Shard
<1>3. Extend(Nothing) /\ \A s \in Shard : 1 .. Len(Nothing[s]) = {}
  BY <1>0, <1>1, SendNothing
<1>4. TypeInv'
  BY <1>0, <1>1, <1>2 DEF TypeInv
<1>5. PlaceInv'
  <2>1. \A k \in Key, v \in Value : Known(k, v) => Known(k, v)'
    BY <1>1 DEF Known, Busy
  <2>. QED  BY <1>0, <1>1, <1>3, <2>1, PlaceKept
<1>6. BufInv'
  BY <1>0, <1>1 DEF BufInv, Busy
<1>8. RemoveInv' /\ RangeInv'
  BY <1>0, <1>1, <1>2 DEF RemoveInv, RangeInv
<1>9. PhaseInv'
  BY <1>0, <1>1, <1>2 DEF PhaseInv
<1>10. RevInv'
  BY <1>0, <1>1, RevKept
<1>11. AskedInv' /\ QueryInv'
  BY <1>0, <1>1, <1>3, QueriesKept
<1>. QED  BY <1>4, <1>5, <1>6, <1>8, <1>9, <1>10, <1>11 DEF IInv

\* A row waits with the caller.
LEMMA InsertOnFlushInv ==
  ASSUME IInv, Overwrites = FALSE, NEW k \in Key, NEW v \in Value, insert_on_flush(k, v)
  PROVE  IInv'
<1>0. /\ TypeInv /\ PlaceInv /\ BufInv /\ RemoveInv /\ RangeInv
      /\ PhaseInv /\ RevInv /\ AskedInv /\ QueryInv
  BY DEF IInv
<1>. DEFINE row == [k |-> k, v |-> v]
<1>1. /\ phase = "open" /\ call = NoCall /\ call.op = "none" /\ sync_buf' = Append(sync_buf, row)
      /\ UNCHANGED <<kind, n, phase, call, queue, forward, reverse, flushed, sink, ready, asked, logical>>
  BY DEF insert_on_flush, Calling, tableVars, sinkVars, NoCall
<1>2. logical[k] = None /\ \A i \in DOMAIN sync_buf : sync_buf[i].k # k
  BY DEF insert_on_flush, MayStore
<1>3. Shard' = Shard
  BY <1>1 DEF Shard
<1>4. Extend(Nothing) /\ \A s \in Shard : 1 .. Len(Nothing[s]) = {}
  BY <1>0, <1>1, SendNothing
<1>5. row \in Row /\ row.k = k /\ sync_buf \in Seq(Row)
  BY <1>0 DEF Row, TypeInv
<1>. HIDE DEF row
<1>6. /\ sync_buf' \in Seq(Row) /\ Len(sync_buf) \in Nat /\ Len(sync_buf') = Len(sync_buf) + 1
      /\ DOMAIN sync_buf = 1 .. Len(sync_buf)
      /\ \A i \in 1 .. Len(sync_buf') : \/ i \in 1 .. Len(sync_buf) /\ sync_buf'[i] = sync_buf[i]
                                        \/ i = Len(sync_buf) + 1 /\ sync_buf'[i] = row
  BY <1>1, <1>5
<1>7. TypeInv'
  BY <1>0, <1>1, <1>3, <1>6 DEF TypeInv
<1>8. PlaceInv'
  <2>1. \A j \in Key, w \in Value : Known(j, w) => Known(j, w)'
    BY <1>1 DEF Known, Busy
  <2>. QED  BY <1>0, <1>1, <1>4, <2>1, PlaceKept
<1>9. BufInv'
  <2>1. \A i, j \in 1 .. Len(sync_buf') : sync_buf'[i].k = sync_buf'[j].k => i = j
    BY <1>0, <1>2, <1>5, <1>6 DEF BufInv
  <2>2. \A i \in 1 .. Len(sync_buf') : logical'[sync_buf'[i].k] = None
    BY <1>0, <1>1, <1>2, <1>5, <1>6 DEF BufInv
  <2>3. \A j : ~Busy(j)'
    BY <1>1 DEF Busy
  <2>. QED  BY <1>1, <2>1, <2>2, <2>3 DEF BufInv
<1>10. RemoveInv' /\ RangeInv'
  BY <1>0, <1>1, <1>3 DEF RemoveInv, RangeInv
<1>11. PhaseInv'
  BY <1>0, <1>1, <1>3 DEF PhaseInv
<1>12. RevInv'
  BY <1>0, <1>1, RevKept
<1>13. AskedInv' /\ QueryInv'
  BY <1>0, <1>1, <1>4, QueriesKept
<1>. QED  BY <1>7, <1>8, <1>9, <1>10, <1>11, <1>12, <1>13 DEF IInv

\* A key that the caller does not know of is nowhere.
LEMMA Nowhere ==
  ASSUME TypeInv, PlaceInv, NEW k \in Key, ~Busy(k), logical[k] = None
  PROVE  \A s \in Shard : ~At(s, k)
<1>. SUFFICES ASSUME NEW s \in Shard, At(s, k) PROVE FALSE
  OBVIOUS
<1>1. \A v \in Value : ~Known(k, v)
  BY ShardedAssumption DEF Known
<1>2. CASE forward[s][k] # None
  <2>1. forward[s][k] \in Value
    BY <1>2 DEF TypeInv, Map
  <2>. QED  BY <1>1, <2>1 DEF PlaceInv, PlaceTables
<1>3. CASE Coming(s, k)
  BY <1>1, <1>3 DEF Coming, PlaceInv, PlaceQueues
<1>. QED  BY <1>2, <1>3 DEF At

\* A key that the caller knows of is in its shard, with the value it knows.
LEMMA Somewhere ==
  ASSUME TypeInv, PlaceInv, NEW k \in Key, ~Busy(k), NEW s \in Shard, At(s, k)
  PROVE  logical[k] \in Value /\ s = ShardOf(k, logical[k])
<1>1. CASE forward[s][k] # None
  <2>1. forward[s][k] \in Value
    BY <1>1 DEF TypeInv, Map
  <2>. QED  BY <2>1 DEF PlaceInv, PlaceTables, Known
<1>2. CASE Coming(s, k)
  BY <1>2 DEF Coming, PlaceInv, PlaceQueues, Known
<1>. QED  BY <1>1, <1>2 DEF At

\* A command for one shard is its new last one.
LEMMA SentLast ==
  ASSUME TypeInv, n' = n, NEW s \in Shard, NEW c \in Cmd, Send(s, c)
  PROVE  /\ Extend(One(s, c)) /\ Longer(One(s, c))
         /\ \A t \in Shard : \A i \in 1 .. Len(One(s, c)[t]) : t = s /\ One(s, c)[t][i] = c
         /\ Len(queue'[s]) = Len(queue[s]) + 1 /\ Len(queue[s]) \in Nat
         /\ queue'[s] # <<>> /\ queue'[s][Len(queue'[s])] = c
         /\ \A t \in Shard : \A i \in 1 .. Len(queue'[t]) :
              \/ i \in 1 .. Len(queue[t]) /\ queue'[t][i] = queue[t][i]
              \/ t = s /\ i = Len(queue[s]) + 1 /\ queue'[t][i] = c
         /\ \A t \in Shard : \A i \in 1 .. Len(queue[t]) :
              i \in 1 .. Len(queue'[t]) /\ queue'[t][i] = queue[t][i]
<1>1. Extend(One(s, c)) /\ One(s, c)[s] = <<c>> /\ \A t \in Shard : t # s => One(s, c)[t] = <<>>
  BY SendExtends
<1>2. Longer(One(s, c))
  BY <1>1, Extended
<1>3. Len(One(s, c)[s]) = 1 /\ One(s, c)[s][1] = c /\ \A t \in Shard : t # s => Len(One(s, c)[t]) = 0
  BY <1>1
<1>4. \A t \in Shard : \A i \in 1 .. Len(One(s, c)[t]) : t = s /\ i = 1 /\ One(s, c)[t][i] = c
  <2>1. 1 .. 0 = {} /\ 1 .. 1 = {1}
    OBVIOUS
  <2>2. \A t \in Shard : t # s => 1 .. Len(One(s, c)[t]) = {}
    BY <1>3, <2>1
  <2>3. 1 .. Len(One(s, c)[s]) = {1}
    BY <1>3, <2>1
  <2>. QED  BY <1>3, <2>2, <2>3
<1>5. /\ Len(queue'[s]) = Len(queue[s]) + 1 /\ Len(queue[s]) \in Nat
      /\ queue'[s][Len(queue[s]) + 1] = c /\ queue'[s] \in Seq(Cmd)
  <2>1. /\ Len(queue'[s]) = Len(queue[s]) + Len(One(s, c)[s]) /\ Len(queue[s]) \in Nat
        /\ \A i \in 1 .. Len(One(s, c)[s]) : queue'[s][Len(queue[s]) + i] = One(s, c)[s][i]
        /\ queue'[s] \in Seq(Cmd)
    BY <1>2, Zenon DEF Longer
  <2>. QED  BY <1>3, <2>1
<1>6. queue'[s] # <<>>
  BY <1>5
<1>7. ASSUME NEW t \in Shard, NEW i \in 1 .. Len(queue'[t])
      PROVE  \/ i \in 1 .. Len(queue[t]) /\ queue'[t][i] = queue[t][i]
             \/ t = s /\ i = Len(queue[s]) + 1 /\ queue'[t][i] = c
  <2>1. \/ i \in 1 .. Len(queue[t]) /\ queue'[t][i] = queue[t][i]
        \/ i \notin 1 .. Len(queue[t]) /\ \E j \in 1 .. Len(One(s, c)[t]) : queue'[t][i] = One(s, c)[t][j]
    BY <1>2, OldOrNew
  <2>2. ASSUME i \notin 1 .. Len(queue[t]), t = s PROVE i = Len(queue[s]) + 1
    BY <1>5, <2>2
  <2>. QED  BY <1>4, <2>1, <2>2
<1>8. \A t \in Shard : \A i \in 1 .. Len(queue[t]) : i \in 1 .. Len(queue'[t]) /\ queue'[t][i] = queue[t][i]
  BY <1>2, OldOrNew
<1>. QED  BY <1>1, <1>2, <1>4, <1>5, <1>6, <1>7, <1>8

\* A row is sent to its shard at once.
LEMMA InsertNowInv ==
  ASSUME IInv, Overwrites = FALSE, NEW k \in Key, NEW v \in Value, insert_now(k, v)
  PROVE  IInv'
<1>0. /\ TypeInv /\ PlaceInv /\ BufInv /\ RemoveInv /\ RangeInv
      /\ PhaseInv /\ RevInv /\ AskedInv /\ QueryInv
  BY DEF IInv
<1>. DEFINE c == [op |-> "insert", k |-> k, v |-> v]
<1>d. PICK d : d = ShardOf(k, v)
  OBVIOUS
<1>1. /\ phase = "open" /\ call = NoCall /\ call.op = "none"
      /\ logical' = [logical EXCEPT ![k] = v] /\ Send(d, c)
      /\ UNCHANGED <<kind, n, phase, call, sync_buf, forward, reverse, flushed, sink, ready, asked>>
  BY <1>d DEF insert_now, Calling, tableVars, sinkVars, NoCall, ShardOf
<1>2. logical[k] = None /\ \A i \in DOMAIN sync_buf : sync_buf[i].k # k
  BY DEF insert_now, MayStore
<1>3. Shard' = Shard /\ d \in Shard /\ d \in Nat
  BY <1>0, <1>1, <1>d, ShardsOfRows DEF Shard, TypeInv
<1>4. /\ c \in Cmd /\ c.op = "insert"
      /\ \A j \in Key, w \in Value : Puts(c, j, w) <=> j = k /\ w = v
  BY PutsOfCommands DEF Cmd, InsertCmd
<1>. HIDE DEF c
<1>5. /\ Extend(One(d, c)) /\ Longer(One(d, c))
      /\ \A t \in Shard : \A i \in 1 .. Len(One(d, c)[t]) : t = d /\ One(d, c)[t][i] = c
      /\ Len(queue'[d]) = Len(queue[d]) + 1 /\ Len(queue[d]) \in Nat
      /\ queue'[d][Len(queue'[d])] = c
      /\ \A t \in Shard : \A i \in 1 .. Len(queue'[t]) :
           \/ i \in 1 .. Len(queue[t]) /\ queue'[t][i] = queue[t][i]
           \/ t = d /\ i = Len(queue[d]) + 1 /\ queue'[t][i] = c
      /\ \A t \in Shard : \A i \in 1 .. Len(queue[t]) :
           i \in 1 .. Len(queue'[t]) /\ queue'[t][i] = queue[t][i]
  BY <1>0, <1>1, <1>3, <1>4, SentLast
<1>6. TypeInv'
  <2>1. queue' \in [Shard -> Seq(Cmd)]
    BY <1>5 DEF Longer
  <2>2. logical' \in Map
    BY <1>0, <1>1 DEF TypeInv, Map
  <2>. QED  BY <1>0, <1>1, <1>3, <2>1, <2>2 DEF TypeInv
<1>7. /\ \A j : ~Busy(j) /\ ~Busy(j)'
      /\ \A j \in Key, w \in Value : ShardOf(j, w)' = ShardOf(j, w)
      /\ logical'[k] = v /\ \A j \in Key : j # k => logical'[j] = logical[j]
  BY <1>0, <1>1 DEF Busy, ShardOf, PartitionOf, TypeInv, Map
<1>8. \A s \in Shard : ~At(s, k)
  BY <1>0, <1>2, <1>7, Nowhere
<1>9. \A s \in Shard, w \in Value : forward[s][k] = None /\ \A i \in 1 .. Len(queue[s]) : ~Puts(queue[s][i], k, w)
  BY <1>8 DEF At, Coming
<1>10. \A j \in Key, w \in Value : j # k => (Known(j, w)' <=> Known(j, w))
  BY <1>7 DEF Known
<1>10a. Known(k, v)'
  BY <1>7 DEF Known
<1>11. ASSUME NEW s \in Shard, NEW i \in 1 .. Len(queue'[s]), NEW j \in Key, NEW w \in Value,
              Puts(queue'[s][i], j, w)
       PROVE  \/ j # k /\ i \in 1 .. Len(queue[s]) /\ Puts(queue[s][i], j, w)
              \/ j = k /\ w = v /\ s = d /\ i = Len(queue[d]) + 1
  BY <1>4, <1>5, <1>9, <1>11
<1>12. ASSUME NEW s \in Shard, NEW j \in Key, j # k PROVE At(s, j)' <=> At(s, j)
  <2>1. Coming(s, j)' <=> Coming(s, j)
    BY <1>5, <1>11, <1>12 DEF Coming
  <2>. QED  BY <1>1, <2>1 DEF At
<1>13. ASSUME NEW s \in Shard PROVE At(s, k)' <=> s = d
  <2>1. At(s, k)' => s = d
    BY <1>1, <1>9, <1>11 DEF At, Coming
  <2>2. Coming(d, k)'
    <3>1. Len(queue'[d]) \in 1 .. Len(queue'[d]) /\ Puts(queue'[d][Len(queue'[d])], k, v)
      BY <1>4, <1>5
    <3>. QED  BY <3>1 DEF Coming
  <2>. QED  BY <2>1, <2>2 DEF At
<1>14. PlaceInv'
  <2>1. PlaceTables'
    <3>1. \A s \in Shard, w \in Value : forward[s][k] # w
      BY <1>9, ShardedAssumption
    <3>. QED  BY <1>0, <1>1, <1>3, <1>7, <1>10, <3>1 DEF PlaceInv, PlaceTables
  <2>2. PlaceQueues'
    <3>. SUFFICES ASSUME NEW s \in Shard, NEW j \in Key, NEW w \in Value, NEW i \in 1 .. Len(queue'[s]),
                         Puts(queue'[s][i], j, w)
                  PROVE  s = ShardOf(j, w) /\ Known(j, w)' /\ forward[s][j] = None
      BY <1>1, <1>3, <1>7 DEF PlaceQueues
    <3>1. CASE j # k /\ i \in 1 .. Len(queue[s]) /\ Puts(queue[s][i], j, w)
      <4>1. s = ShardOf(j, w) /\ Known(j, w) /\ forward[s][j] = None
        BY <1>0, <3>1 DEF PlaceInv, PlaceQueues
      <4>. QED  BY <1>10, <3>1, <4>1
    <3>2. CASE j = k /\ w = v /\ s = d
      BY <1>9, <1>10a, <1>d, <3>2
    <3>. QED  BY <1>11, <3>1, <3>2
  <2>3. PlaceOnce'
    BY <1>0, <1>3, <1>12, <1>13 DEF PlaceInv, PlaceOnce
  <2>4. PutOnce'
    <3>. SUFFICES ASSUME NEW s \in Shard, NEW j \in Key, NEW w \in Value, NEW x \in Value,
                         NEW i \in 1 .. Len(queue'[s]), NEW h \in 1 .. Len(queue'[s]),
                         Puts(queue'[s][i], j, w), Puts(queue'[s][h], j, x)
                  PROVE  i = h
      BY <1>3 DEF PutOnce
    <3>1. CASE j = k
      BY <1>11, <3>1
    <3>2. CASE j # k
      <4>1. /\ i \in 1 .. Len(queue[s]) /\ Puts(queue[s][i], j, w)
            /\ h \in 1 .. Len(queue[s]) /\ Puts(queue[s][h], j, x)
        BY <1>11, <3>2
      <4>. QED  BY <1>0, <4>1 DEF PlaceInv, PutOnce
    <3>. QED  BY <3>1, <3>2
  <2>5. RowsDistinct'
    BY <1>0, <1>3, <1>4, <1>5 DEF PlaceInv, RowsDistinct
  <2>6. PlaceAll'
    <3>. SUFFICES ASSUME NEW j \in Key, NEW w \in Value, logical'[j] = w
                  PROVE  At(ShardOf(j, w), j)'
      BY DEF PlaceAll
    <3>1. ShardOf(j, w) \in Shard
      BY <1>0, ShardsOfRows DEF TypeInv
    <3>2. CASE j = k
      BY <1>7, <1>13, <1>d, <3>1, <3>2
    <3>3. CASE j # k
      BY <1>0, <1>7, <1>12, <3>1, <3>3 DEF PlaceInv, PlaceAll
    <3>. QED  BY <3>2, <3>3
  <2>. QED  BY <2>1, <2>2, <2>3, <2>4, <2>5, <2>6 DEF PlaceInv
<1>15. BufInv'
  <2>1. DOMAIN sync_buf = 1 .. Len(sync_buf) /\ \A i \in 1 .. Len(sync_buf) : sync_buf[i].k \in Key
    <3>1. sync_buf \in Seq(Row)
      BY <1>0 DEF TypeInv
    <3>2. \A r \in Row : r.k \in Key
      BY DEF Row
    <3>. QED  BY <3>1, <3>2
  <2>. QED  BY <1>0, <1>1, <1>2, <1>7, <2>1 DEF BufInv
<1>16. \A s \in Shard : \A i \in 1 .. Len(queue'[s]) : queue'[s][i].op \notin {"remove", "range", "flush"}
  <2>1. \A s \in Shard : \A i \in 1 .. Len(queue[s]) : queue[s][i].op \notin {"remove", "range", "flush"}
    BY <1>0, <1>1, QuietQueues
  <2>. QED  BY <1>4, <1>5, <2>1
<1>17. RemoveInv' /\ RangeInv'
  BY <1>1, <1>3, <1>16, NoCallInv
<1>18. PhaseInv'
  BY <1>0, <1>1, <1>3, <1>16 DEF PhaseInv
<1>19. RevInv'
  BY <1>0, <1>1, RevKept
<1>20. AskedInv' /\ QueryInv'
  <2>1. \A t \in Shard : \A i \in 1 .. Len(One(d, c)[t]) : One(d, c)[t][i].op # "query"
    BY <1>4, <1>5
  <2>. QED  BY <1>0, <1>1, <1>5, <2>1, QueriesKept
<1>. QED  BY <1>6, <1>14, <1>15, <1>17, <1>18, <1>19, <1>20 DEF IInv

\* A delete is sent to the first shard that may have the key.
LEMMA DeleteInv ==
  ASSUME IInv, NEW k \in Key, delete_kv(k)
  PROVE  IInv'
<1>0. /\ TypeInv /\ PlaceInv /\ BufInv /\ RemoveInv /\ RangeInv
      /\ PhaseInv /\ RevInv /\ AskedInv /\ QueryInv
  BY DEF IInv
<1>. DEFINE c == [op |-> "remove", k |-> k]
<1>d. PICK d : d = IF kind = "plain" /\ n > 1 THEN partition_bytes_le(n, KeyBytes[k]) ELSE 0
  OBVIOUS
<1>1. /\ phase = "open" /\ call = NoCall /\ call.op = "none"
      /\ logical' = [logical EXCEPT ![k] = None] /\ Send(d, c)
      /\ call' = [op |-> "remove", k |-> k, shard |-> d, expected |-> logical[k] # None]
      /\ UNCHANGED <<kind, n, phase, sync_buf, forward, reverse, flushed, sink, ready, asked>>
  BY <1>d DEF delete_kv, Calling, tableVars, sinkVars, NoCall
<1>2. \A i \in DOMAIN sync_buf : sync_buf[i].k # k
  BY DEF delete_kv
<1>3. Shard' = Shard /\ d \in Shard /\ n \in Nat \ {0}
  BY <1>0, <1>1, <1>d, ShardsOfRows DEF Shard, TypeInv
<1>4. c \in Cmd /\ c.op = "remove" /\ c.k = k
  BY DEF Cmd, RemoveCmd
<1>4a. /\ call'.op = "remove" /\ call'.k = k /\ call'.shard = d /\ call'.expected = (logical[k] # None)
  BY <1>1
<1>. HIDE DEF c
<1>5. /\ Extend(One(d, c)) /\ Longer(One(d, c))
      /\ \A t \in Shard : \A i \in 1 .. Len(One(d, c)[t]) : t = d /\ One(d, c)[t][i] = c
      /\ Len(queue'[d]) = Len(queue[d]) + 1 /\ Len(queue[d]) \in Nat
      /\ queue'[d] # <<>> /\ queue'[d][Len(queue'[d])] = c
      /\ \A t \in Shard : \A i \in 1 .. Len(queue'[t]) :
           \/ i \in 1 .. Len(queue[t]) /\ queue'[t][i] = queue[t][i]
           \/ t = d /\ i = Len(queue[d]) + 1 /\ queue'[t][i] = c
  BY <1>0, <1>1, <1>3, <1>4, SentLast
<1>6. TypeInv'
  <2>1. queue' \in [Shard -> Seq(Cmd)]
    BY <1>5 DEF Longer
  <2>2. logical' \in Map
    BY <1>0, <1>1 DEF TypeInv, Map
  <2>. QED  BY <1>0, <1>1, <1>3, <1>4a, <2>1, <2>2 DEF TypeInv
<1>7. /\ \A j : ~Busy(j) /\ (Busy(j)' <=> j = k)
      /\ logical'[k] = None /\ \A j \in Key : j # k => logical'[j] = logical[j]
  BY <1>0, <1>1, <1>4a DEF Busy, TypeInv, Map
<1>8. PlaceInv' /\ \A s \in Shard, j \in Key : At(s, j)' <=> At(s, j)
  <2>1. \A j \in Key, w \in Value : Known(j, w) => Known(j, w)'
    BY <1>7 DEF Known
  <2>2. \A j \in Key, w \in Value : logical'[j] = w => logical[j] = w
    BY <1>7, ShardedAssumption
  <2>3. \A t \in Shard : \A i \in 1 .. Len(One(d, c)[t]) : One(d, c)[t][i].op \notin {"insert", "write"}
    BY <1>4, <1>5
  <2>. QED  BY <1>0, <1>1, <1>5, <2>1, <2>2, <2>3, PlaceKept
<1>9. BufInv'
  <2>1. DOMAIN sync_buf = 1 .. Len(sync_buf) /\ \A i \in 1 .. Len(sync_buf) : sync_buf[i].k \in Key
    <3>1. sync_buf \in Seq(Row)
      BY <1>0 DEF TypeInv
    <3>2. \A r \in Row : r.k \in Key
      BY DEF Row
    <3>. QED  BY <3>1, <3>2
  <2>. QED  BY <1>0, <1>1, <1>2, <1>7, <2>1 DEF BufInv
<1>10. \A s \in Shard : \A i \in 1 .. Len(queue[s]) : queue[s][i].op \notin {"remove", "range", "flush"}
  BY <1>0, <1>1, QuietQueues
<1>11. RemoveInv'
  <2>1. call'.expected <=> \E s \in Shard : At(s, k)
    <3>1. ASSUME NEW s \in Shard, At(s, k) PROVE logical[k] # None
      BY <1>0, <1>7, <3>1, Somewhere, ShardedAssumption
    <3>2. ASSUME logical[k] # None PROVE \E s \in Shard : At(s, k)
      <4>1. logical[k] \in Value
        BY <1>0, <3>2 DEF TypeInv, Map
      <4>2. ShardOf(k, logical[k]) \in Shard
        BY <1>3, <4>1, ShardsOfRows
      <4>. QED  BY <1>0, <4>1, <4>2 DEF PlaceInv, PlaceAll
    <3>. QED  BY <1>4a, <3>1, <3>2
  <2>2. ASSUME NEW s \in Shard, At(s, k)
        PROVE  IF kind = "plain" THEN s = d ELSE s >= d
    <3>1. s = ShardOf(k, logical[k])
      BY <1>0, <1>7, <2>2, Somewhere
    <3>2. CASE kind = "plain"
      BY <1>3, <1>d, <3>1, <3>2 DEF ShardOf, PartitionOf
    <3>3. CASE kind # "plain"
      BY <1>d, <3>3 DEF Shard
    <3>. QED  BY <3>2, <3>3
  <2>3. ASSUME NEW s \in Shard, NEW i \in 1 .. Len(queue'[s]), queue'[s][i].op = "remove"
        PROVE  i = Len(queue'[s]) /\ s = d /\ queue'[s][i] = c
    BY <1>5, <1>10, <2>3
  <2>4. \A s \in Shard, i \in Nat : i \in 1 .. Len(queue'[s]) /\ queue'[s][i].op = "remove" =>
          i = Len(queue'[s]) /\ call'.op = "remove" /\ call'.shard = s /\ call'.k = queue'[s][i].k
    BY <1>4, <1>4a, <2>3
  <2>5. \A s \in Shard : At(s, k)' => IF kind = "plain" THEN s = d ELSE s >= d
    BY <1>8, <2>2
  <2>6. call'.expected <=> \E s \in Shard : At(s, k)'
    BY <1>8, <2>1
  <2>7. \A s : At(s, call.k)' <=> At(s, k)'
    BY <1>4a DEF At, Coming
  <2>. QED  BY <1>1, <1>3, <1>4, <1>4a, <1>5, <1>7, <2>4, <2>5, <2>6, <2>7 DEF RemoveInv
<1>12. RangeInv'
  <2>1. \A s \in Shard : \A i \in 1 .. Len(queue'[s]) : queue'[s][i].op # "range"
    BY <1>4, <1>5, <1>10
  <2>. QED  BY <1>3, <1>4a, <2>1 DEF RangeInv
<1>13. PhaseInv'
  <2>1. \A s \in Shard : \A i \in 1 .. Len(queue'[s]) : queue'[s][i].op # "flush"
    BY <1>4, <1>5, <1>10
  <2>. QED  BY <1>0, <1>1, <1>3, <2>1 DEF PhaseInv
<1>14. RevInv'
  BY <1>0, <1>1, RevKept
<1>15. AskedInv' /\ QueryInv'
  <2>1. \A t \in Shard : \A i \in 1 .. Len(One(d, c)[t]) : One(d, c)[t][i].op # "query"
    BY <1>4, <1>5
  <2>. QED  BY <1>0, <1>1, <1>5, <2>1, QueriesKept
<1>. QED  BY <1>6, <1>8, <1>9, <1>11, <1>12, <1>13, <1>14, <1>15 DEF IInv

\* A delete that is answered returns: the key is nowhere.
LEMMA DeleteReturnsInv ==
  ASSUME IInv, DeleteAnswered, call.found \/ kind = "plain" \/ call.shard = n - 1
  PROVE  IInv'
<1>0. /\ TypeInv /\ PlaceInv /\ BufInv /\ RemoveInv /\ RangeInv
      /\ PhaseInv /\ RevInv /\ AskedInv /\ QueryInv
  BY DEF IInv
<1>1. /\ call.op = "removed" /\ call' = NoCall /\ call'.op = "none"
      /\ UNCHANGED <<kind, n, phase, sync_buf, queue, forward, reverse, flushed, sink, ready, asked, logical>>
  BY DEF DeleteAnswered, tableVars, sinkVars, NoCall
<1>2. Shard' = Shard /\ call.k \in Key /\ call.shard \in Shard /\ n \in Nat \ {0}
  BY <1>0, <1>1 DEF Shard, TypeInv
<1>3. Extend(Nothing) /\ \A s \in Shard : 1 .. Len(Nothing[s]) = {}
  BY <1>0, <1>1, SendNothing
<1>4. TypeInv'
  BY <1>0, <1>1, <1>2 DEF TypeInv
<1>5. \A s \in Shard : ~At(s, call.k)
  <2>1. CASE call.found
    BY <1>0, <1>1, <2>1 DEF RemoveInv
  <2>2. CASE ~call.found
    <3>1. \A s \in Shard : At(s, call.k) => kind = "index" /\ s > call.shard
      BY <1>0, <1>1, <2>2 DEF RemoveInv
    <3>2. \A s \in Shard : ~ (s > n - 1)
      BY <1>2 DEF Shard
    <3>. QED  BY <2>2, <3>1, <3>2
  <2>. QED  BY <2>1, <2>2
<1>6. PlaceInv'
  <2>1. \A k \in Key, v \in Value : Known(k, v) /\ (\E s \in Shard : At(s, k)) => Known(k, v)'
    BY <1>1, <1>5 DEF Known, Busy
  <2>. QED  BY <1>0, <1>1, <1>3, <2>1, PlaceKept
<1>7. BufInv'
  BY <1>0, <1>1 DEF BufInv, Busy
<1>8. RemoveInv' /\ RangeInv'
  <2>1. \A s \in Shard : \A i \in 1 .. Len(queue[s]) : queue[s][i].op \notin {"remove", "range"}
    <3>1. ASSUME NEW s \in Shard, NEW i \in 1 .. Len(queue[s]) PROVE queue[s][i].op \notin {"remove", "range"}
      <4>1. i \in Nat
        OBVIOUS
      <4>. QED  BY <1>0, <1>1, <4>1 DEF RemoveInv, RangeInv
    <3>. QED  BY <3>1
  <2>. QED  BY <1>1, <1>2, <2>1, NoCallInv
<1>9. PhaseInv'
  BY <1>0, <1>1, <1>2 DEF PhaseInv
<1>10. RevInv'
  BY <1>0, <1>1, RevKept
<1>11. AskedInv' /\ QueryInv'
  BY <1>0, <1>1, <1>3, QueriesKept
<1>. QED  BY <1>4, <1>6, <1>7, <1>8, <1>9, <1>10, <1>11 DEF IInv

\* A shard did not have the key: the next one is asked.
LEMMA DeleteGoesOnInv ==
  ASSUME IInv, DeleteAnswered, ~ (call.found \/ kind = "plain" \/ call.shard = n - 1)
  PROVE  IInv'
<1>0. /\ TypeInv /\ PlaceInv /\ BufInv /\ RemoveInv /\ RangeInv
      /\ PhaseInv /\ RevInv /\ AskedInv /\ QueryInv
  BY DEF IInv
<1>d. PICK k, d : k = call.k /\ d = call.shard + 1
  OBVIOUS
<1>. DEFINE c == [op |-> "remove", k |-> k]
<1>1. /\ call.op = "removed" /\ ~call.found /\ kind = "index" /\ Send(d, c)
      /\ call' = [op |-> "remove", k |-> k, shard |-> d, expected |-> call.expected]
      /\ UNCHANGED <<kind, n, phase, sync_buf, forward, reverse, flushed, sink, ready, asked, logical>>
  BY <1>0, <1>d DEF DeleteAnswered, tableVars, sinkVars, TypeInv
<1>2. /\ Shard' = Shard /\ k \in Key /\ call.shard \in Shard /\ d \in Shard /\ n \in Nat \ {0}
      /\ call.expected \in BOOLEAN
  <2>1. call.shard \in 0 .. (n - 1) /\ call.k \in Key /\ n \in Nat \ {0} /\ call.expected \in BOOLEAN
    BY <1>0, <1>1 DEF Shard, TypeInv
  <2>2. d \in 0 .. (n - 1)
    BY <1>d, <2>1
  <2>. QED  BY <1>1, <1>d, <2>1, <2>2 DEF Shard
<1>3. c \in Cmd /\ c.op = "remove" /\ c.k = k
  BY <1>2 DEF Cmd, RemoveCmd
<1>4. call'.op = "remove" /\ call'.k = k /\ call'.shard = d /\ call'.expected = call.expected
  BY <1>1
<1>. HIDE DEF c
<1>5. /\ Extend(One(d, c)) /\ Longer(One(d, c))
      /\ \A t \in Shard : \A i \in 1 .. Len(One(d, c)[t]) : t = d /\ One(d, c)[t][i] = c
      /\ Len(queue'[d]) = Len(queue[d]) + 1 /\ Len(queue[d]) \in Nat
      /\ queue'[d] # <<>> /\ queue'[d][Len(queue'[d])] = c
      /\ \A t \in Shard : \A i \in 1 .. Len(queue'[t]) :
           \/ i \in 1 .. Len(queue[t]) /\ queue'[t][i] = queue[t][i]
           \/ t = d /\ i = Len(queue[d]) + 1 /\ queue'[t][i] = c
  BY <1>0, <1>1, <1>2, <1>3, SentLast
<1>6. TypeInv'
  <2>1. queue' \in [Shard -> Seq(Cmd)]
    BY <1>5 DEF Longer
  <2>. QED  BY <1>0, <1>1, <1>2, <1>4, <2>1 DEF TypeInv
<1>7. \A j : Busy(j)' <=> Busy(j)
  BY <1>1, <1>4, <1>d DEF Busy
<1>8. PlaceInv' /\ \A s \in Shard, j \in Key : At(s, j)' <=> At(s, j)
  <2>1. \A j \in Key, w \in Value : Known(j, w) => Known(j, w)'
    BY <1>1, <1>7 DEF Known
  <2>3. \A t \in Shard : \A i \in 1 .. Len(One(d, c)[t]) : One(d, c)[t][i].op \notin {"insert", "write"}
    BY <1>3, <1>5
  <2>. QED  BY <1>0, <1>1, <1>5, <2>1, <2>3, PlaceKept
<1>9. BufInv'
  BY <1>0, <1>1, <1>7 DEF BufInv
<1>10. \A s \in Shard : \A i \in 1 .. Len(queue[s]) : queue[s][i].op \notin {"remove", "range", "flush"}
  <2>1. phase = "open"
    BY <1>0, <1>1 DEF PhaseInv
  <2>2. ASSUME NEW s \in Shard, NEW i \in 1 .. Len(queue[s])
        PROVE  queue[s][i].op \notin {"remove", "range", "flush"}
    <3>1. i \in Nat
      OBVIOUS
    <3>. QED  BY <1>0, <1>1, <2>1, <3>1 DEF RemoveInv, RangeInv, PhaseInv
  <2>. QED  BY <2>2
<1>11. RemoveInv'
  <2>1. call.expected <=> \E s \in Shard : At(s, k)
    BY <1>0, <1>1, <1>d DEF RemoveInv
  <2>2. ASSUME NEW s \in Shard, At(s, k) PROVE s >= d
    <3>1. s > call.shard
      BY <1>0, <1>1, <1>d, <2>2 DEF RemoveInv
    <3>2. s \in Int /\ call.shard \in Int
      BY <1>2 DEF Shard
    <3>. QED  BY <1>d, <3>1, <3>2
  <2>3. ASSUME NEW s \in Shard, NEW i \in 1 .. Len(queue'[s]), queue'[s][i].op = "remove"
        PROVE  i = Len(queue'[s]) /\ s = d /\ queue'[s][i] = c
    BY <1>5, <1>10, <2>3
  <2>4. \A s \in Shard, i \in Nat : i \in 1 .. Len(queue'[s]) /\ queue'[s][i].op = "remove" =>
          i = Len(queue'[s]) /\ call'.op = "remove" /\ call'.shard = s /\ call'.k = queue'[s][i].k
    BY <1>3, <1>4, <2>3
  <2>5. \A s \in Shard : At(s, k)' => IF kind = "plain" THEN s = d ELSE s >= d
    BY <1>1, <1>8, <1>2, <2>2
  <2>6. call'.expected <=> \E s \in Shard : At(s, k)'
    BY <1>4, <1>2, <1>8, <2>1
  <2>7. \A s : At(s, call.k)' <=> At(s, k)'
    BY <1>4 DEF At, Coming
  <2>8. logical'[call'.k] = None
    BY <1>0, <1>1, <1>4, <1>d DEF RemoveInv
  <2>. QED  BY <1>1, <1>2, <1>3, <1>4, <1>5, <2>4, <2>5, <2>6, <2>7, <2>8 DEF RemoveInv
<1>12. RangeInv'
  <2>1. \A s \in Shard : \A i \in 1 .. Len(queue'[s]) : queue'[s][i].op # "range"
    BY <1>3, <1>5, <1>10
  <2>. QED  BY <1>2, <1>4, <2>1 DEF RangeInv
<1>13. PhaseInv'
  <2>1. \A s \in Shard : \A i \in 1 .. Len(queue'[s]) : queue'[s][i].op # "flush"
    BY <1>3, <1>5, <1>10
  <2>2. phase = "open"
    BY <1>0, <1>1 DEF PhaseInv
  <2>. QED  BY <1>0, <1>1, <1>2, <2>1, <2>2 DEF PhaseInv
<1>14. RevInv'
  BY <1>0, <1>1, RevKept
<1>15. AskedInv' /\ QueryInv'
  <2>1. \A t \in Shard : \A i \in 1 .. Len(One(d, c)[t]) : One(d, c)[t][i].op # "query"
    BY <1>3, <1>5
  <2>. QED  BY <1>0, <1>1, <1>5, <2>1, QueriesKept
<1>. QED  BY <1>6, <1>8, <1>9, <1>11, <1>12, <1>13, <1>14, <1>15 DEF IInv

\* A range is asked of the one shard.
LEMMA AskRangeInv ==
  ASSUME IInv, NEW from \in Key, NEW until \in Key, range(from, until)
  PROVE  IInv'
<1>0. /\ TypeInv /\ PlaceInv /\ BufInv /\ RemoveInv /\ RangeInv
      /\ PhaseInv /\ RevInv /\ AskedInv /\ QueryInv
  BY DEF IInv
<1>. DEFINE c == [op |-> "range", from |-> from, until |-> until]
<1>1. /\ phase = "open" /\ call = NoCall /\ call.op = "none" /\ n = 1 /\ Send(0, c)
      /\ call' = [op |-> "range", expected |-> RowsIn(logical, from, until)]
      /\ UNCHANGED <<kind, n, phase, sync_buf, forward, reverse, flushed, sink, ready, asked, logical>>
  BY DEF range, Calling, tableVars, sinkVars, NoCall
<1>2. Shard' = Shard /\ Shard = {0}
  BY <1>1 DEF Shard
<1>3. c \in Cmd /\ c.op = "range" /\ c.from = from /\ c.until = until
  BY DEF Cmd, RangeCmd
<1>4. call'.op = "range" /\ call'.expected = RowsIn(logical, from, until)
  BY <1>1
<1>. HIDE DEF c
<1>5. /\ Extend(One(0, c)) /\ Longer(One(0, c))
      /\ \A t \in Shard : \A i \in 1 .. Len(One(0, c)[t]) : t = 0 /\ One(0, c)[t][i] = c
      /\ Len(queue'[0]) = Len(queue[0]) + 1 /\ Len(queue[0]) \in Nat
      /\ queue'[0] # <<>> /\ queue'[0][Len(queue'[0])] = c
      /\ \A t \in Shard : \A i \in 1 .. Len(queue'[t]) :
           \/ i \in 1 .. Len(queue[t]) /\ queue'[t][i] = queue[t][i]
           \/ t = 0 /\ i = Len(queue[0]) + 1 /\ queue'[t][i] = c
  <2>1. 0 \in Shard
    BY <1>2
  <2>. QED  BY <1>0, <1>1, <1>3, <2>1, SentLast
<1>6. TypeInv'
  <2>1. queue' \in [Shard -> Seq(Cmd)]
    BY <1>5 DEF Longer
  <2>. QED  BY <1>0, <1>1, <1>2, <1>4, <2>1 DEF TypeInv
<1>7. \A j : ~Busy(j)' /\ ~Busy(j)
  BY <1>1, <1>4 DEF Busy
<1>8. PlaceInv'
  <2>1. \A j \in Key, w \in Value : Known(j, w) => Known(j, w)'
    BY <1>1, <1>7 DEF Known
  <2>3. \A t \in Shard : \A i \in 1 .. Len(One(0, c)[t]) : One(0, c)[t][i].op \notin {"insert", "write"}
    BY <1>3, <1>5
  <2>. QED  BY <1>0, <1>1, <1>5, <2>1, <2>3, PlaceKept
<1>9. BufInv'
  BY <1>0, <1>1, <1>7 DEF BufInv
<1>10. \A s \in Shard : \A i \in 1 .. Len(queue[s]) : queue[s][i].op \notin {"remove", "range", "flush"}
  BY <1>0, <1>1, QuietQueues
<1>11. RemoveInv'
  <2>1. \A s \in Shard : \A i \in 1 .. Len(queue'[s]) : queue'[s][i].op # "remove"
    BY <1>3, <1>5, <1>10
  <2>. QED  BY <1>2, <1>4, <2>1 DEF RemoveInv
<1>12. RangeInv'
  <2>1. ASSUME NEW s \in Shard, NEW i \in 1 .. Len(queue'[s]), queue'[s][i].op = "range"
        PROVE  i = Len(queue'[s])
    BY <1>5, <1>10, <2>1
  <2>2. RowsIn(logical, from, until)' = RowsIn(logical, from, until)
    BY <1>1 DEF RowsIn
  <2>3. \A s \in Shard, i \in Nat : i \in 1 .. Len(queue'[s]) /\ queue'[s][i].op = "range" =>
          i = Len(queue'[s]) /\ call'.op = "range"
    BY <1>4, <2>1
  <2>4. n' = 1 /\ queue'[0] # <<>> /\ queue'[0][Len(queue'[0])].op = "range"
        /\ call'.expected = RowsIn(logical', queue'[0][Len(queue'[0])].from, queue'[0][Len(queue'[0])].until)
    BY <1>1, <1>3, <1>4, <1>5
  <2>. QED  BY <1>2, <1>4, <2>3, <2>4 DEF RangeInv
<1>13. PhaseInv'
  <2>1. \A s \in Shard : \A i \in 1 .. Len(queue'[s]) : queue'[s][i].op # "flush"
    BY <1>3, <1>5, <1>10
  <2>. QED  BY <1>0, <1>1, <1>2, <2>1 DEF PhaseInv
<1>14. RevInv'
  BY <1>0, <1>1, RevKept
<1>15. AskedInv' /\ QueryInv'
  <2>1. \A t \in Shard : \A i \in 1 .. Len(One(0, c)[t]) : One(0, c)[t][i].op # "query"
    BY <1>3, <1>5
  <2>. QED  BY <1>0, <1>1, <1>5, <2>1, QueriesKept
<1>. QED  BY <1>6, <1>8, <1>9, <1>11, <1>12, <1>13, <1>14, <1>15 DEF IInv

\* The values of a query are values, at positions of it.
LEMMA BucketTyped ==
  ASSUME NEW values \in Seq(Value), NEW s
  PROVE  /\ PositionsOf(values, s) \subseteq Nat /\ \A p \in PositionsOf(values, s) : values[p] \in Value
         /\ BucketOf(values, s) \subseteq [pos : Nat, v : Value]
<1>1. \A i \in DOMAIN values : i \in Nat /\ values[i] \in Value
  <2>1. DOMAIN values = 1 .. Len(values) /\ Len(values) \in Nat
    OBVIOUS
  <2>. QED  BY <2>1
<1>. QED  BY <1>1 DEF PositionsOf, BucketOf

\* When a query is made, the keys with one of its values are in the value's shard
\* or on the way to it, and no other key is.
LEMMA FoundWhenMade ==
  ASSUME TypeInv, PlaceInv, RevInv, kind = "index", call = NoCall,
         NEW values \in Seq(Value), NEW s \in Shard, NEW p \in PositionsOf(values, s)
  PROVE  KeysOf(logical, values[p]) =
           reverse[s][values[p]] \cup {k \in Key : \E j \in 1 .. Len(queue[s]) : Puts(queue[s][j], k, values[p])}
<1>. DEFINE v == values[p]
<1>1. v \in Value /\ \A k \in Key : ShardOf(k, v) = s
  <2>1. v \in Value
    BY BucketTyped
  <2>2. n = 1 \/ Xxh3Partition(n, Hash[v]) = s
    BY DEF PositionsOf
  <2>3. n = 1 => s = 0
    BY DEF Shard
  <2>. QED  BY <2>1, <2>2, <2>3 DEF ShardOf, PartitionOf
<1>. HIDE DEF v
<1>2. \A k \in Key : ~Busy(k)
  BY DEF Busy, NoCall
<1>3. reverse[s][v] = {k \in Key : forward[s][k] = v}
  BY <1>1 DEF RevInv
<1>4. ASSUME NEW k \in Key, logical[k] = v
      PROVE  forward[s][k] = v \/ \E j \in 1 .. Len(queue[s]) : Puts(queue[s][j], k, v)
  <2>1. At(s, k)
    BY <1>1, <1>4 DEF PlaceInv, PlaceAll
  <2>2. CASE forward[s][k] # None
    <3>1. forward[s][k] \in Value
      BY <2>2 DEF TypeInv, Map
    <3>2. logical[k] = forward[s][k]
      BY <1>2, <3>1 DEF PlaceInv, PlaceTables, Known
    <3>. QED  BY <1>4, <3>2
  <2>3. CASE Coming(s, k)
    <3>1. PICK j \in 1 .. Len(queue[s]), w \in Value : Puts(queue[s][j], k, w)
      BY <2>3 DEF Coming
    <3>2. logical[k] = w
      BY <1>2, <3>1 DEF PlaceInv, PlaceQueues, Known
    <3>. QED  BY <1>4, <3>1, <3>2
  <2>. QED  BY <2>1, <2>2, <2>3 DEF At
<1>5. ASSUME NEW k \in Key, forward[s][k] = v PROVE logical[k] = v
  BY <1>1, <1>2, <1>5 DEF PlaceInv, PlaceTables, Known
<1>6. ASSUME NEW k \in Key, NEW j \in 1 .. Len(queue[s]), Puts(queue[s][j], k, v) PROVE logical[k] = v
  BY <1>1, <1>2, <1>6 DEF PlaceInv, PlaceQueues, Known
<1>7. KeysOf(logical, v) = reverse[s][v] \cup {k \in Key : \E j \in 1 .. Len(queue[s]) : Puts(queue[s][j], k, v)}
  BY <1>3, <1>4, <1>5, <1>6 DEF KeysOf
<1>. QED  BY <1>7 DEF v

\* A query goes to the shards of its values, the last one to every shard.
LEMMA QueryInvKept ==
  ASSUME IInv, NEW values \in Queries, NEW last \in BOOLEAN, query_and_write(values, last)
  PROVE  IInv'
<1>0. /\ TypeInv /\ PlaceInv /\ BufInv /\ RemoveInv /\ RangeInv
      /\ PhaseInv /\ RevInv /\ AskedInv /\ QueryInv
  BY DEF IInv
<1>N. PICK N : N = Cardinality(asked) + 1
  OBVIOUS
<1>a. PICK a0 : a0 = [q |-> N, values |-> values, last |-> last, seen |-> logical]
  OBVIOUS
<1>1. /\ phase = "open" /\ call = NoCall /\ kind = "index"
      /\ \A q \in asked : ~q.last
      /\ asked' = asked \cup {a0}
      /\ UNCHANGED <<kind, n, phase, call, sync_buf, forward, reverse, flushed, sink, ready, logical>>
  BY <1>N, <1>a DEF query_and_write, Calling, tableVars
<1>2. queue' = [s \in Shard |-> IF Asked(values, last, s)
                                THEN Append(queue[s], [op |-> "query", q |-> N, last |-> last,
                                                       items |-> BucketOf(values, s)])
                                ELSE queue[s]]
  BY <1>N DEF query_and_write
<1>3. /\ Shard' = Shard /\ values \in Seq(Value) /\ call.op = "none"
      /\ IsFiniteSet(asked) /\ Cardinality(asked) \in Nat /\ N \in Nat
  <2>1. IsFiniteSet(asked)
    BY <1>0 DEF AskedInv, AskedKnown
  <2>2. Cardinality(asked) \in Nat
    BY <2>1, FS_CardinalityType
  <2>. QED  BY <1>1, <1>N, <2>1, <2>2, ShardedAssumption DEF Shard, NoCall
<1>4. a0.q = N /\ a0.values = values /\ a0.last = last /\ a0.seen = logical
  BY <1>a
<1>e. PICK ext : ext = [s \in Shard |-> IF Asked(values, last, s) THEN <<QueryCommand(a0, s)>> ELSE <<>>]
  OBVIOUS
<1>5. ASSUME NEW s \in Shard
      PROVE  /\ QueryCommand(a0, s) \in Cmd /\ QueryCommand(a0, s).op = "query"
             /\ QueryCommand(a0, s).q = N /\ QueryCommand(a0, s).last = last
  <2>1. BucketOf(values, s) \subseteq [pos : Nat, v : Value]
    BY <1>3, BucketTyped
  <2>. QED  BY <1>3, <1>4, <2>1 DEF QueryCommand, Cmd, QueryCmd
<1>6. Extend(ext)
  <2>1. ext \in [Shard -> Seq(Cmd)]
    BY <1>5, <1>e
  <2>2. ASSUME NEW s \in Shard PROVE queue'[s] = queue[s] \o ext[s]
    <3>1. queue[s] \in Seq(Cmd)
      BY <1>0 DEF TypeInv
    <3>2. ASSUME NEW q \in Seq(Cmd), NEW c \in Cmd PROVE Append(q, c) = q \o <<c>> /\ q \o <<>> = q
      <4>1. q \o <<>> = q
        BY ConcatEmptySeq
      <4>2. Append(q, c) = q \o <<c>>
        BY AppendIsConcat
      <4>. QED  BY <4>1, <4>2
    <3>3. QueryCommand(a0, s) = [op |-> "query", q |-> N, last |-> last, items |-> BucketOf(values, s)]
      BY <1>4 DEF QueryCommand
    <3>4. ext[s] = IF Asked(values, last, s) THEN <<QueryCommand(a0, s)>> ELSE <<>>
      BY <1>e
    <3>5. queue'[s] = IF Asked(values, last, s) THEN Append(queue[s], QueryCommand(a0, s)) ELSE queue[s]
      BY <1>2, <3>3
    <3>6. CASE Asked(values, last, s)
      <4>. DEFINE c == QueryCommand(a0, s)
      <4>1. c \in Cmd /\ ext[s] = <<c>> /\ queue'[s] = Append(queue[s], c)
        BY <1>5, <3>4, <3>5, <3>6
      <4>. HIDE DEF c
      <4>. QED  BY <3>1, <3>2, <4>1
    <3>7. CASE ~Asked(values, last, s)
      <4>1. ext[s] = <<>> /\ queue'[s] = queue[s]
        BY <3>4, <3>5, <3>7
      <4>2. queue[s] \o <<>> = queue[s]
        BY <3>1, ConcatEmptySeq
      <4>. QED  BY <4>1, <4>2
    <3>. QED  BY <3>6, <3>7
  <2>3. queue' = [s \in Shard |-> queue[s] \o ext[s]]
    BY <1>2, <2>2
  <2>. QED  BY <2>1, <2>3 DEF Extend
<1>7. Longer(ext)
  BY <1>0, <1>1, <1>6, Extended
<1>8. ASSUME NEW s \in Shard
      PROVE  /\ Len(queue[s]) \in Nat
             /\ \A i \in 1 .. Len(queue[s]) : i \in 1 .. Len(queue'[s]) /\ queue'[s][i] = queue[s][i]
             /\ \A i \in 1 .. Len(queue'[s]) :
                  \/ i \in 1 .. Len(queue[s]) /\ queue'[s][i] = queue[s][i]
                  \/ i = Len(queue[s]) + 1 /\ queue'[s][i] = QueryCommand(a0, s)
             /\ Asked(values, last, s) =>
                  /\ Len(queue[s]) + 1 \in 1 .. Len(queue'[s])
                  /\ queue'[s][Len(queue[s]) + 1] = QueryCommand(a0, s)
  <2>1. /\ Len(queue[s]) \in Nat /\ Len(queue'[s]) = Len(queue[s]) + Len(ext[s])
        /\ \A i \in 1 .. Len(queue[s]) : i \in 1 .. Len(queue'[s]) /\ queue'[s][i] = queue[s][i]
        /\ \A i \in 1 .. Len(ext[s]) : /\ Len(queue[s]) + i \in 1 .. Len(queue'[s])
                                       /\ queue'[s][Len(queue[s]) + i] = ext[s][i]
    BY <1>7, Zenon DEF Longer
  <2>2. ext[s] = IF Asked(values, last, s) THEN <<QueryCommand(a0, s)>> ELSE <<>>
    BY <1>e
  <2>3. CASE Asked(values, last, s)
    <3>1. ext[s] = <<QueryCommand(a0, s)>> /\ Len(ext[s]) = 1 /\ ext[s][1] = QueryCommand(a0, s)
      BY <2>2, <2>3
    <3>2. Len(queue[s]) + 1 \in 1 .. Len(queue'[s]) /\ queue'[s][Len(queue[s]) + 1] = QueryCommand(a0, s)
      BY <2>1, <3>1
    <3>3. \A i \in 1 .. Len(queue'[s]) : i \in 1 .. Len(queue[s]) \/ i = Len(queue[s]) + 1
      BY <2>1, <3>1
    <3>. QED  BY <2>1, <3>2, <3>3
  <2>4. CASE ~Asked(values, last, s)
    <3>1. Len(ext[s]) = 0
      BY <2>2, <2>4
    <3>2. Len(queue'[s]) = Len(queue[s])
      BY <2>1, <3>1
    <3>. QED  BY <2>1, <2>4, <3>2
  <2>. QED  BY <2>3, <2>4
<1>9. TypeInv'
  <2>1. queue' \in [Shard -> Seq(Cmd)]
    BY <1>7 DEF Longer
  <2>. QED  BY <1>0, <1>1, <1>3, <2>1 DEF TypeInv
<1>10. PlaceInv'
  <2>1. \A j \in Key, w \in Value : Known(j, w) => Known(j, w)'
    BY <1>1 DEF Known, Busy
  <2>2. ASSUME NEW s \in Shard, NEW i \in 1 .. Len(ext[s]) PROVE ext[s][i].op \notin {"insert", "write"}
    <3>1. ext[s] = IF Asked(values, last, s) THEN <<QueryCommand(a0, s)>> ELSE <<>>
      BY <1>e
    <3>2. ext[s][i] = QueryCommand(a0, s)
      BY <3>1
    <3>. QED  BY <1>5, <3>2
  <2>. QED  BY <1>0, <1>1, <1>6, <2>1, <2>2, PlaceKept
<1>11. BufInv'
  BY <1>0, <1>1 DEF BufInv, Busy
<1>12. \A s \in Shard : \A i \in 1 .. Len(queue'[s]) : queue'[s][i].op \notin {"remove", "range", "flush"}
  <2>1. \A s \in Shard : \A i \in 1 .. Len(queue[s]) : queue[s][i].op \notin {"remove", "range", "flush"}
    BY <1>0, <1>1, QuietQueues
  <2>. QED  BY <1>5, <1>8, <2>1
<1>13. RemoveInv' /\ RangeInv'
  BY <1>1, <1>3, <1>12, NoCallInv
<1>14. PhaseInv'
  BY <1>0, <1>1, <1>3, <1>12 DEF PhaseInv
<1>15. RevInv'
  BY <1>0, <1>1, RevKept
<1>16. \A a \in asked : a.q \in 1 .. (N - 1) /\ a.q # N
  BY <1>0, <1>3, <1>N DEF AskedInv, AskedKnown
<1>17. ASSUME NEW s \in Shard, NEW a \in asked PROVE Pending(a, s)' <=> Pending(a, s)
  BY <1>5, <1>8, <1>16 DEF Pending
<1>18. ASSUME NEW s \in Shard, Asked(values, last, s) PROVE Pending(a0, s)'
  <2>1. Len(queue[s]) + 1 \in 1 .. Len(queue'[s]) /\ queue'[s][Len(queue[s]) + 1] = QueryCommand(a0, s)
    BY <1>8, <1>18
  <2>. QED  BY <1>4, <1>5, <2>1 DEF Pending
<1>19. \A x \in sink : x.q \in 1 .. (N - 1)
  BY <1>0, <1>3, <1>N DEF AskedInv, AskedKnown
<1>20. AskedKnown'
  <2>1. a0 \notin asked
    BY <1>4, <1>16
  <2>2. IsFiniteSet(asked') /\ Cardinality(asked') = N
    BY <1>1, <1>3, <1>N, <2>1, FS_AddElement
  <2>3. ASSUME NEW a \in asked'
        PROVE  a \in [q : 1 .. N, values : Queries, last : BOOLEAN, seen : Map]
    <3>1. CASE a = a0
      <4>1. N \in 1 .. N /\ logical \in Map
        BY <1>0, <1>3, <1>N DEF TypeInv
      <4>. QED  BY <1>a, <3>1, <4>1
    <3>2. CASE a \in asked
      <4>1. a \in [q : 1 .. Cardinality(asked), values : Queries, last : BOOLEAN, seen : Map]
        BY <1>0, <3>2 DEF AskedInv, AskedKnown
      <4>2. 1 .. Cardinality(asked) \subseteq 1 .. N
        BY <1>3, <1>N
      <4>. QED  BY <4>1, <4>2
    <3>. QED  BY <1>1, <3>1, <3>2
  <2>4. \A a, b \in asked' : a.q = b.q => a = b
    BY <1>0, <1>1, <1>4, <1>16 DEF AskedInv, AskedKnown
  <2>5. \A x \in sink' : x.q \in 1 .. N
    BY <1>1, <1>3, <1>19
  <2>. QED  BY <2>2, <2>3, <2>4, <2>5 DEF AskedKnown
<1>21. AnswersInv'
  <2>1. \A a : \A p : Got(a, p)' = Got(a, p)
    BY <1>1 DEF Got
  <2>2. \A a : \A p : Answered(a, p)' <=> Answered(a, p)
    BY <2>1 DEF Answered
  <2>. SUFFICES ASSUME NEW a \in asked', NEW s \in Shard, NEW p \in PositionsOf(a.values, s)
                PROVE  IF Pending(a, s)' THEN Got(a, p)' = {} ELSE Answered(a, p)'
    BY <1>1, <1>3, PositionsKept DEF AnswersInv
  <2>3. CASE a \in asked
    <3>1. IF Pending(a, s) THEN Got(a, p) = {} ELSE Answered(a, p)
      BY <1>0, <2>3 DEF AskedInv, AnswersInv
    <3>. QED  BY <1>17, <2>1, <2>2, <2>3, <3>1
  <2>4. CASE a = a0
    <3>1. BucketOf(values, s) # {}
      BY <1>4, <2>4 DEF BucketOf
    <3>2. Asked(values, last, s)
      BY <3>1 DEF Asked
    <3>3. Got(a, p) = {}
      BY <1>3, <1>4, <1>19, <2>4 DEF Got
    <3>. QED  BY <1>18, <2>1, <2>4, <3>2, <3>3
  <2>. QED  BY <1>1, <2>3, <2>4
<1>22. ReadyInv'
  <2>1. ready = {}
    BY <1>0, <1>1 DEF AskedInv, ReadyInv
  <2>2. ASSUME NEW a \in asked', NEW s \in Shard, a.last PROVE Pending(a, s)'
    <3>1. a = a0 /\ last
      BY <1>1, <1>4, <2>2
    <3>2. Asked(values, last, s)
      BY <3>1 DEF Asked
    <3>. QED  BY <1>18, <3>1, <3>2
  <2>. QED  BY <1>1, <1>3, <2>1, <2>2 DEF ReadyInv
<1>23. ASSUME NEW s \in Shard, NEW i \in 1 .. (Len(queue[s]) + 1), NEW v
       PROVE  Ahead(s, i, v)' = {k \in Key : \E j \in 1 .. (i - 1) : Puts(queue[s][j], k, v)}
  <2>1. \A j \in 1 .. (i - 1) : j \in 1 .. Len(queue[s])
    BY <1>8
  <2>2. \A j \in 1 .. (i - 1) : queue'[s][j] = queue[s][j]
    BY <1>8, <2>1
  <2>. QED  BY <2>2 DEF Ahead
<1>24. \A s \in Shard : QueryCommand(a0, s)' = QueryCommand(a0, s) /\ \A a \in asked : QueryCommand(a, s)' = QueryCommand(a, s)
  BY <1>1, <1>3, PositionsKept DEF QueryCommand
<1>25. QueryFinds'
  <2>. SUFFICES ASSUME NEW s \in Shard, NEW i \in 1 .. Len(queue'[s]), queue'[s][i].op = "query"
                PROVE  \E a \in asked' : queue'[s][i] = QueryCommand(a, s)' /\ Finds(a, s, i)'
    BY <1>1, <1>3 DEF QueryFinds
  <2>1. CASE i \in 1 .. Len(queue[s]) /\ queue'[s][i] = queue[s][i]
    <3>1. PICK a \in asked : queue[s][i] = QueryCommand(a, s) /\ Finds(a, s, i)
      BY <1>0, <2>1 DEF QueryInv, QueryFinds
    <3>2. i \in 1 .. (Len(queue[s]) + 1)
      BY <1>8, <2>1
    <3>3. \A v : Ahead(s, i, v)' = Ahead(s, i, v)
      BY <1>23, <3>2 DEF Ahead
    <3>4. Finds(a, s, i)'
      BY <1>1, <1>3, <3>1, <3>3, PositionsKept DEF Finds
    <3>. QED  BY <1>1, <1>24, <2>1, <3>1, <3>4
  <2>2. CASE i = Len(queue[s]) + 1 /\ queue'[s][i] = QueryCommand(a0, s)
    <3>1. i \in 1 .. (Len(queue[s]) + 1) /\ i - 1 = Len(queue[s])
      BY <1>8, <2>2
    <3>2. \A v : Ahead(s, i, v)' = {k \in Key : \E j \in 1 .. Len(queue[s]) : Puts(queue[s][j], k, v)}
      BY <1>23, <3>1
    <3>3. ASSUME NEW p \in PositionsOf(values, s)
          PROVE  KeysOf(logical, values[p]) = reverse[s][values[p]]
                   \cup {k \in Key : \E j \in 1 .. Len(queue[s]) : Puts(queue[s][j], k, values[p])}
      BY <1>0, <1>1, <1>3, FoundWhenMade
    <3>4. Finds(a0, s, i)'
      BY <1>1, <1>3, <1>4, <3>2, <3>3, PositionsKept DEF Finds
    <3>. QED  BY <1>1, <1>24, <2>2, <3>4
  <2>. QED  BY <1>8, <2>1, <2>2
<1>26. QueryOrder'
  <2>. SUFFICES ASSUME NEW s \in Shard, NEW i \in 1 .. Len(queue'[s]), NEW j \in 1 .. Len(queue'[s]),
                       queue'[s][i].op = "query", queue'[s][j].op = "query", i < j
                PROVE  queue'[s][i].q # queue'[s][j].q /\ ~queue'[s][i].last
    BY <1>3 DEF QueryOrder
  <2>1. i \in 1 .. Len(queue[s]) /\ queue'[s][i] = queue[s][i]
    BY <1>8
  <2>2. PICK a \in asked : queue[s][i] = QueryCommand(a, s)
    BY <1>0, <2>1 DEF QueryInv, QueryFinds
  <2>3. queue[s][i].q = a.q /\ queue[s][i].last = a.last
    BY <2>2 DEF QueryCommand
  <2>4. ~queue'[s][i].last
    BY <1>1, <2>1, <2>3
  <2>5. CASE j \in 1 .. Len(queue[s]) /\ queue'[s][j] = queue[s][j]
    BY <1>0, <2>1, <2>4, <2>5 DEF QueryInv, QueryOrder
  <2>6. CASE queue'[s][j] = QueryCommand(a0, s)
    BY <1>5, <1>16, <2>1, <2>3, <2>4, <2>6
  <2>. QED  BY <1>8, <2>5, <2>6
<1>. QED  BY <1>9, <1>10, <1>11, <1>13, <1>14, <1>15, <1>20, <1>21, <1>22, <1>25, <1>26 DEF IInv, AskedInv, QueryInv

\* A table after rows of different keys were written: their keys have their values,
\* the others what they had (Stored).
LEMMA StoredIs ==
  ASSUME NEW map, NEW rows, DOMAIN rows \subseteq Nat,
         \A i, j \in DOMAIN rows : rows[i].k = rows[j].k => i = j
  PROVE  /\ \A k \in Key : (\A i \in DOMAIN rows : rows[i].k # k) => Stored(map, rows)[k] = map[k]
         /\ \A i \in DOMAIN rows : rows[i].k \in Key => Stored(map, rows)[rows[i].k] = rows[i].v
         /\ DOMAIN Stored(map, rows) = Key
         /\ Stored(map, rows) = [k \in Key |-> Stored(map, rows)[k]]
<1>1. ASSUME NEW k \in Key, \A i \in DOMAIN rows : rows[i].k # k PROVE Stored(map, rows)[k] = map[k]
  <2>1. {i \in DOMAIN rows : rows[i].k = k} = {}
    BY <1>1
  <2>. QED  BY <2>1 DEF Stored
<1>2. ASSUME NEW i \in DOMAIN rows, rows[i].k \in Key PROVE Stored(map, rows)[rows[i].k] = rows[i].v
  <2>. DEFINE at == {j \in DOMAIN rows : rows[j].k = rows[i].k}
  <2>1. at = {i} /\ i \in Nat
    BY <1>2
  <2>2. (CHOOSE x \in at : \A j \in at : j <= x) = i
    <3>. HIDE DEF at
    <3>1. i \in at /\ \A j \in at : j <= i
      BY <2>1
    <3>2. \A x \in at : x = i
      BY <2>1
    <3>. QED  BY <3>1, <3>2
  <2>3. at # {}
    BY <2>1
  <2>4. Stored(map, rows)[rows[i].k] = IF at = {} THEN map[rows[i].k]
                                       ELSE rows[CHOOSE x \in at : \A j \in at : j <= x].v
    BY <1>2, Zenon DEF Stored
  <2>. HIDE DEF at
  <2>. QED  BY <2>2, <2>3, <2>4
<1>3. DOMAIN Stored(map, rows) = Key /\ Stored(map, rows) = [k \in Key |-> Stored(map, rows)[k]]
  BY DEF Stored
<1>. QED  BY <1>1, <1>2, <1>3

\* The buffer has a row for the key.
Buffered(k, v) == \E i \in 1 .. Len(sync_buf) : sync_buf[i].k = k /\ sync_buf[i].v = v

WriteOf(s) == [op |-> "write", rows |-> RowsOf(sync_buf, s)]
FlushOf == [op |-> "flush"]

\* The rows of the buffer that go to a shard, at a flush.
LEMMA RowsOfBuffer ==
  ASSUME TypeInv, BufInv, NEW s \in Shard
  PROVE  /\ WriteOf(s) \in Cmd /\ WriteOf(s).op = "write" /\ DistinctKeys(WriteOf(s))
         /\ \A k \in Key, v \in Value : Puts(WriteOf(s), k, v) <=> Buffered(k, v) /\ s = ShardOf(k, v)
         /\ \A k \in Key, v \in Value : Buffered(k, v) /\ s = ShardOf(k, v) => DOMAIN RowsOf(sync_buf, s) # {}
<1>. DEFINE D == {i \in 1 .. Len(sync_buf) : n = 1 \/ PartitionOf(sync_buf[i].k, sync_buf[i].v) = s}
<1>1. /\ sync_buf \in Seq(Row) /\ DOMAIN sync_buf = 1 .. Len(sync_buf) /\ Len(sync_buf) \in Nat
      /\ \A i \in 1 .. Len(sync_buf) : sync_buf[i] \in Row
  BY DEF TypeInv
<1>2. RowsOf(sync_buf, s) = [i \in D |-> sync_buf[i]]
  BY <1>1 DEF RowsOf, Restrict
<1>3. \A r \in Row : r.k \in Key /\ r.v \in Value
  BY DEF Row
<1>4. ASSUME NEW i \in 1 .. Len(sync_buf) PROVE i \in D <=> s = ShardOf(sync_buf[i].k, sync_buf[i].v)
  <2>1. n = 1 => s = 0
    BY DEF Shard
  <2>. QED  BY <2>1 DEF ShardOf
<1>5. D \subseteq Nat /\ D \subseteq 1 .. Len(sync_buf)
  BY <1>1
<1>. HIDE DEF D
<1>6. RowsOf(sync_buf, s) \in [D -> Row] /\ DOMAIN RowsOf(sync_buf, s) = D
  BY <1>1, <1>2, <1>5
<1>7. WriteOf(s).op = "write" /\ WriteOf(s).rows = RowsOf(sync_buf, s)
  BY DEF WriteOf
<1>8. WriteOf(s) \in Cmd
  <2>1. RowsOf(sync_buf, s) \in RowMaps
    BY <1>5, <1>6 DEF RowMaps
  <2>. QED  BY <2>1 DEF WriteOf, Cmd, WriteCmd
<1>9. DistinctKeys(WriteOf(s))
  <2>1. \A i \in D : RowsOf(sync_buf, s)[i] = sync_buf[i] /\ i \in 1 .. Len(sync_buf)
    BY <1>2, <1>5
  <2>2. \A i, j \in 1 .. Len(sync_buf) : sync_buf[i].k = sync_buf[j].k => i = j
    BY DEF BufInv
  <2>3. \A i, j \in D : RowsOf(sync_buf, s)[i].k = RowsOf(sync_buf, s)[j].k => i = j
    BY <2>1, <2>2
  <2>. QED  BY <1>6, <1>7, <2>3 DEF DistinctKeys
<1>10. ASSUME NEW k \in Key, NEW v \in Value PROVE Puts(WriteOf(s), k, v) <=> Buffered(k, v) /\ s = ShardOf(k, v)
  <2>1. Puts(WriteOf(s), k, v) <=> \E i \in D : sync_buf[i].k = k /\ sync_buf[i].v = v
    BY <1>2, <1>6, <1>7 DEF Puts
  <2>. QED  BY <1>4, <1>5, <2>1 DEF Buffered
<1>11. ASSUME NEW k \in Key, NEW v \in Value, Buffered(k, v), s = ShardOf(k, v) PROVE D # {}
  BY <1>4, <1>11 DEF Buffered
<1>. QED  BY <1>6, <1>7, <1>8, <1>9, <1>10, <1>11

\* What the caller knows after a flush.
LEMMA StoredBuffer ==
  ASSUME TypeInv, BufInv, logical' = Stored(logical, sync_buf)
  PROVE  /\ \A k \in Key, v \in Value : Buffered(k, v) => logical'[k] = v /\ logical[k] = None /\ ~Busy(k)
         /\ \A k \in Key : (\A v \in Value : ~Buffered(k, v)) => logical'[k] = logical[k]
         /\ logical' \in Map
<1>1. /\ sync_buf \in Seq(Row) /\ DOMAIN sync_buf = 1 .. Len(sync_buf) /\ Len(sync_buf) \in Nat
      /\ \A i \in 1 .. Len(sync_buf) : sync_buf[i] \in Row
  BY DEF TypeInv
<1>2. \A r \in Row : r.k \in Key /\ r.v \in Value
  BY DEF Row
<1>3. /\ \A k \in Key : (\A i \in DOMAIN sync_buf : sync_buf[i].k # k) => logical'[k] = logical[k]
      /\ \A i \in DOMAIN sync_buf : sync_buf[i].k \in Key => logical'[sync_buf[i].k] = sync_buf[i].v
      /\ logical' = [k \in Key |-> logical'[k]]
  <2>1. DOMAIN sync_buf \subseteq Nat /\ \A i, j \in DOMAIN sync_buf : sync_buf[i].k = sync_buf[j].k => i = j
    BY <1>1 DEF BufInv
  <2>. QED  BY <2>1, StoredIs
<1>4. ASSUME NEW k \in Key, NEW v \in Value, Buffered(k, v)
      PROVE  logical'[k] = v /\ logical[k] = None /\ ~Busy(k)
  BY <1>1, <1>3, <1>4 DEF Buffered, BufInv
<1>5. ASSUME NEW k \in Key, \A v \in Value : ~Buffered(k, v) PROVE logical'[k] = logical[k]
  BY <1>1, <1>2, <1>3, <1>5 DEF Buffered
<1>6. ASSUME NEW k \in Key PROVE logical'[k] \in Value \cup {None}
  <2>1. logical[k] \in Value \cup {None}
    BY DEF TypeInv, Map
  <2>. QED  BY <1>4, <1>5, <2>1
<1>7. logical' \in Map
  BY <1>3, <1>6 DEF Map
<1>. QED  BY <1>4, <1>5, <1>7

\* The buffered rows go to their shards, each with a flush behind it.
LEMMA FlushInv ==
  ASSUME IInv, flush
  PROVE  IInv'
<1>0. /\ TypeInv /\ PlaceInv /\ BufInv /\ RemoveInv /\ RangeInv
      /\ PhaseInv /\ RevInv /\ AskedInv /\ QueryInv
  BY DEF IInv
<1>1. /\ phase = "open" /\ call = NoCall /\ call.op = "none" /\ phase' = "flushing"
      /\ logical' = Stored(logical, sync_buf) /\ sync_buf' = <<>>
      /\ UNCHANGED <<kind, n, call, forward, reverse, flushed, sink, ready, asked>>
  BY DEF flush, tableVars, sinkVars, NoCall
<1>2. queue' = [s \in Shard |-> queue[s] \o (IF DOMAIN RowsOf(sync_buf, s) = {} THEN <<>> ELSE <<WriteOf(s)>>)
                                         \o <<FlushOf>>]
  BY DEF flush, WriteOf, FlushOf
<1>3. Shard' = Shard
  BY <1>1 DEF Shard
<1>4. FlushOf \in Cmd /\ FlushOf.op = "flush"
  BY DEF FlushOf, Cmd, FlushCmd
<1>5. \A s \in Shard : /\ WriteOf(s) \in Cmd /\ WriteOf(s).op = "write" /\ DistinctKeys(WriteOf(s))
  BY <1>0, RowsOfBuffer
<1>e. PICK ext : ext = [s \in Shard |-> IF DOMAIN RowsOf(sync_buf, s) = {} THEN <<FlushOf>>
                                        ELSE <<WriteOf(s), FlushOf>>]
  OBVIOUS
<1>6. Extend(ext)
  <2>1. ext \in [Shard -> Seq(Cmd)]
    BY <1>4, <1>5, <1>e
  <2>2. ASSUME NEW s \in Shard PROVE queue'[s] = queue[s] \o ext[s]
    <3>. DEFINE q == queue[s]
                c == WriteOf(s)
                f == FlushOf
    <3>1. q \in Seq(Cmd) /\ c \in Cmd /\ f \in Cmd
      BY <1>0, <1>4, <1>5 DEF TypeInv
    <3>2. CASE DOMAIN RowsOf(sync_buf, s) = {}
      <4>1. queue'[s] = (q \o <<>>) \o <<f>> /\ ext[s] = <<f>>
        BY <1>2, <1>e, <3>2
      <4>. HIDE DEF q, c, f
      <4>2. q \o <<>> = q
        BY <3>1, ConcatEmptySeq
      <4>. QED  BY <4>1, <4>2 DEF q
    <3>3. CASE DOMAIN RowsOf(sync_buf, s) # {}
      <4>1. queue'[s] = (q \o <<c>>) \o <<f>> /\ ext[s] = <<c, f>>
        BY <1>2, <1>e, <3>3
      <4>. HIDE DEF q, c, f
      <4>2. (q \o <<c>>) \o <<f>> = q \o (<<c>> \o <<f>>)
        BY <3>1, ConcatAssociative
      <4>3. <<c>> \o <<f>> = <<c, f>>
        <5>1. <<c>> \in Seq(Cmd) /\ <<f>> \in Seq(Cmd) /\ <<c, f>> \in Seq(Cmd)
          BY <3>1
        <5>2. <<c>> \o <<f>> \in Seq(Cmd) /\ Len(<<c>> \o <<f>>) = 2 /\ Len(<<c, f>>) = 2
          BY <5>1
        <5>3. (<<c>> \o <<f>>)[1] = c /\ (<<c>> \o <<f>>)[2] = f
          BY <5>1
        <5>4. <<c, f>>[1] = c /\ <<c, f>>[2] = f
          OBVIOUS
        <5>5. \A i \in 1 .. 2 : i = 1 \/ i = 2
          OBVIOUS
        <5>. QED  BY <5>1, <5>2, <5>3, <5>4, <5>5, SeqEqual
      <4>. QED  BY <4>1, <4>2, <4>3 DEF q
    <3>. QED  BY <3>2, <3>3
  <2>3. queue' = [s \in Shard |-> queue[s] \o ext[s]]
    BY <1>2, <2>2
  <2>. QED  BY <2>1, <2>3 DEF Extend
<1>7. Longer(ext)
  BY <1>0, <1>1, <1>6, Extended
<1>8. ASSUME NEW s \in Shard
      PROVE  /\ Len(queue[s]) \in Nat /\ Len(queue'[s]) \in Nat
             /\ \A i \in 1 .. Len(queue[s]) : i \in 1 .. Len(queue'[s]) /\ queue'[s][i] = queue[s][i]
             /\ \A i \in 1 .. Len(queue'[s]) :
                  \/ i \in 1 .. Len(queue[s]) /\ queue'[s][i] = queue[s][i]
                  \/ i = Len(queue[s]) + 1 /\ i # Len(queue'[s]) /\ queue'[s][i] = WriteOf(s)
                  \/ i = Len(queue'[s]) /\ queue'[s][i] = FlushOf
             /\ DOMAIN RowsOf(sync_buf, s) # {} =>
                  Len(queue[s]) + 1 \in 1 .. Len(queue'[s]) /\ queue'[s][Len(queue[s]) + 1] = WriteOf(s)
             /\ queue'[s] # <<>> /\ queue'[s][Len(queue'[s])] = FlushOf
  <2>1. /\ Len(queue[s]) \in Nat /\ Len(queue'[s]) = Len(queue[s]) + Len(ext[s]) /\ queue'[s] \in Seq(Cmd)
        /\ \A i \in 1 .. Len(queue[s]) : i \in 1 .. Len(queue'[s]) /\ queue'[s][i] = queue[s][i]
        /\ \A i \in 1 .. Len(ext[s]) : /\ Len(queue[s]) + i \in 1 .. Len(queue'[s])
                                       /\ queue'[s][Len(queue[s]) + i] = ext[s][i]
    BY <1>7, Zenon DEF Longer
  <2>2. CASE DOMAIN RowsOf(sync_buf, s) = {}
    <3>1. ext[s] = <<FlushOf>> /\ Len(ext[s]) = 1 /\ ext[s][1] = FlushOf
      BY <1>e, <2>2
    <3>2. Len(queue'[s]) = Len(queue[s]) + 1 /\ queue'[s][Len(queue[s]) + 1] = FlushOf
      BY <2>1, <3>1
    <3>a. Len(queue[s]) \in Nat /\ queue'[s] \in Seq(Cmd)
      BY <2>1
    <3>3. \A i \in 1 .. Len(queue'[s]) : i \in 1 .. Len(queue[s]) \/ i = Len(queue'[s])
      BY <3>2, <3>a
    <3>4. queue'[s] # <<>> /\ Len(queue'[s]) \in Nat
      BY <3>2, <3>a
    <3>. QED  BY <2>1, <2>2, <3>2, <3>3, <3>4
  <2>3. CASE DOMAIN RowsOf(sync_buf, s) # {}
    <3>1. ext[s] = <<WriteOf(s), FlushOf>> /\ Len(ext[s]) = 2 /\ ext[s][1] = WriteOf(s) /\ ext[s][2] = FlushOf
      BY <1>e, <2>3
    <3>2. /\ Len(queue'[s]) = Len(queue[s]) + 2 /\ queue'[s][Len(queue[s]) + 2] = FlushOf
          /\ queue'[s][Len(queue[s]) + 1] = WriteOf(s)
      BY <2>1, <3>1
    <3>a. Len(queue[s]) \in Nat /\ queue'[s] \in Seq(Cmd)
      BY <2>1
    <3>3. \A i \in 1 .. Len(queue'[s]) :
            i \in 1 .. Len(queue[s]) \/ (i = Len(queue[s]) + 1 /\ i # Len(queue'[s])) \/ i = Len(queue'[s])
      BY <3>2, <3>a
    <3>4. queue'[s] # <<>> /\ Len(queue'[s]) \in Nat /\ Len(queue[s]) + 1 \in 1 .. Len(queue'[s])
      BY <3>2, <3>a
    <3>. QED  BY <2>1, <2>3, <3>2, <3>3, <3>4
  <2>. QED  BY <2>2, <2>3
<1>9. /\ \A k \in Key, v \in Value : Buffered(k, v) => logical'[k] = v /\ logical[k] = None /\ ~Busy(k)
      /\ \A k \in Key : (\A v \in Value : ~Buffered(k, v)) => logical'[k] = logical[k]
      /\ logical' \in Map
  BY <1>0, <1>1, StoredBuffer
<1>10. TypeInv'
  <2>1. queue' \in [Shard -> Seq(Cmd)] /\ sync_buf' \in Seq(Row)
    BY <1>1, <1>7 DEF Longer
  <2>. QED  BY <1>0, <1>1, <1>3, <1>9, <2>1 DEF TypeInv
<1>11. \A k \in Key, v \in Value : Buffered(k, v) => \A s \in Shard : ~At(s, k)
  BY <1>0, <1>9, Nowhere
<1>12. /\ \A k : ~Busy(k) /\ ~Busy(k)'
       /\ \A k \in Key, v \in Value : ShardOf(k, v)' = ShardOf(k, v) /\ ShardOf(k, v) \in Shard
  <2>1. \A k \in Key, v \in Value : ShardOf(k, v) \in Shard
    BY <1>0, ShardsOfRows DEF TypeInv
  <2>. QED  BY <1>1, <2>1 DEF Busy, ShardOf, PartitionOf
<1>13. ASSUME NEW s \in Shard, NEW i \in 1 .. Len(queue'[s]), NEW k \in Key, NEW v \in Value,
              Puts(queue'[s][i], k, v)
       PROVE  \/ /\ i \in 1 .. Len(queue[s]) /\ Puts(queue[s][i], k, v)
                 /\ \A w \in Value : ~Buffered(k, w)
              \/ i = Len(queue[s]) + 1 /\ Buffered(k, v) /\ s = ShardOf(k, v)
  <2>1. CASE i \in 1 .. Len(queue[s]) /\ queue'[s][i] = queue[s][i]
    <3>1. At(s, k)
      BY <1>13, <2>1 DEF At, Coming
    <3>. QED  BY <1>11, <1>13, <2>1, <3>1
  <2>2. CASE i = Len(queue[s]) + 1 /\ queue'[s][i] = WriteOf(s)
    BY <1>0, <1>13, <2>2, RowsOfBuffer
  <2>3. CASE queue'[s][i] = FlushOf
    BY <1>4, <1>13, <2>3, PutsOfCommands
  <2>. QED  BY <1>8, <2>1, <2>2, <2>3
<1>14. ASSUME NEW s \in Shard, NEW k \in Key, \A w \in Value : ~Buffered(k, w) PROVE At(s, k)' <=> At(s, k)
  <2>1. Coming(s, k)' <=> Coming(s, k)
    <3>1. \A i \in 1 .. Len(queue[s]) : i \in 1 .. Len(queue'[s]) /\ queue'[s][i] = queue[s][i]
      BY <1>8
    <3>. QED  BY <1>13, <1>14, <3>1 DEF Coming
  <2>. QED  BY <1>1, <2>1 DEF At
<1>15. ASSUME NEW s \in Shard, NEW k \in Key, NEW v \in Value, Buffered(k, v) PROVE At(s, k)' <=> s = ShardOf(k, v)
  <2>1. forward[s][k] = None
    BY <1>11, <1>15 DEF At
  <2>2. At(s, k)' => s = ShardOf(k, v)
    <3>1. ASSUME NEW i \in 1 .. Len(queue'[s]), NEW w \in Value, Puts(queue'[s][i], k, w)
          PROVE  s = ShardOf(k, v)
      <4>1. Buffered(k, w) /\ s = ShardOf(k, w)
        BY <1>13, <1>15, <3>1
      <4>2. w = v
        BY <1>9, <1>15, <4>1
      <4>. QED  BY <4>1, <4>2
    <3>. QED  BY <1>1, <2>1, <3>1 DEF At, Coming
  <2>3. ASSUME s = ShardOf(k, v) PROVE At(s, k)'
    <3>1. Puts(WriteOf(s), k, v) /\ DOMAIN RowsOf(sync_buf, s) # {}
      BY <1>0, <1>15, <2>3, RowsOfBuffer
    <3>2. Len(queue[s]) + 1 \in 1 .. Len(queue'[s]) /\ Puts(queue'[s][Len(queue[s]) + 1], k, v)
      BY <1>8, <3>1
    <3>. QED  BY <3>2 DEF At, Coming
  <2>. QED  BY <2>2, <2>3
<1>16. PlaceInv'
  <2>1. PlaceTables'
    <3>. SUFFICES ASSUME NEW s \in Shard, NEW k \in Key, NEW v \in Value, forward[s][k] = v
                  PROVE  s = ShardOf(k, v) /\ Known(k, v)'
      BY <1>1, <1>3, <1>12 DEF PlaceTables
    <3>1. s = ShardOf(k, v) /\ logical[k] = v
      BY <1>0, <1>12 DEF PlaceInv, PlaceTables, Known
    <3>2. \A w \in Value : ~Buffered(k, w)
      BY <1>9, <3>1, ShardedAssumption
    <3>. QED  BY <1>9, <3>1, <3>2 DEF Known
  <2>2. PlaceQueues'
    <3>. SUFFICES ASSUME NEW s \in Shard, NEW k \in Key, NEW v \in Value, NEW i \in 1 .. Len(queue'[s]),
                         Puts(queue'[s][i], k, v)
                  PROVE  s = ShardOf(k, v) /\ Known(k, v)' /\ forward[s][k] = None
      BY <1>1, <1>3, <1>12 DEF PlaceQueues
    <3>1. CASE /\ i \in 1 .. Len(queue[s]) /\ Puts(queue[s][i], k, v)
               /\ \A w \in Value : ~Buffered(k, w)
      <4>1. s = ShardOf(k, v) /\ logical[k] = v /\ forward[s][k] = None
        BY <1>0, <1>12, <3>1 DEF PlaceInv, PlaceQueues, Known
      <4>. QED  BY <1>9, <3>1, <4>1 DEF Known
    <3>2. CASE Buffered(k, v) /\ s = ShardOf(k, v)
      <4>1. forward[s][k] = None
        BY <1>11, <3>2 DEF At
      <4>. QED  BY <1>9, <3>2, <4>1 DEF Known
    <3>. QED  BY <1>13, <3>1, <3>2
  <2>3. PlaceOnce'
    <3>. SUFFICES ASSUME NEW k \in Key, NEW s \in Shard, NEW t \in Shard, At(s, k)', At(t, k)'
                  PROVE  s = t
      BY <1>3 DEF PlaceOnce
    <3>1. CASE \A w \in Value : ~Buffered(k, w)
      BY <1>0, <1>14, <3>1 DEF PlaceInv, PlaceOnce
    <3>2. CASE \E w \in Value : Buffered(k, w)
      BY <1>15, <3>2
    <3>. QED  BY <3>1, <3>2
  <2>4. PutOnce'
    <3>. SUFFICES ASSUME NEW s \in Shard, NEW k \in Key, NEW w \in Value, NEW x \in Value,
                         NEW i \in 1 .. Len(queue'[s]), NEW h \in 1 .. Len(queue'[s]),
                         Puts(queue'[s][i], k, w), Puts(queue'[s][h], k, x)
                  PROVE  i = h
      BY <1>3 DEF PutOnce
    <3>1. CASE \A y \in Value : ~Buffered(k, y)
      <4>1. /\ i \in 1 .. Len(queue[s]) /\ Puts(queue[s][i], k, w)
            /\ h \in 1 .. Len(queue[s]) /\ Puts(queue[s][h], k, x)
        BY <1>13, <3>1
      <4>. QED  BY <1>0, <4>1 DEF PlaceInv, PutOnce
    <3>2. CASE \E y \in Value : Buffered(k, y)
      BY <1>13, <3>2
    <3>. QED  BY <3>1, <3>2
  <2>5. RowsDistinct'
    <3>. SUFFICES ASSUME NEW s \in Shard, NEW i \in 1 .. Len(queue'[s]), queue'[s][i].op = "write"
                  PROVE  DistinctKeys(queue'[s][i])
      BY <1>3 DEF RowsDistinct
    <3>1. CASE i \in 1 .. Len(queue[s]) /\ queue'[s][i] = queue[s][i]
      BY <1>0, <3>1 DEF PlaceInv, RowsDistinct
    <3>2. CASE queue'[s][i] = WriteOf(s)
      BY <1>5, <3>2
    <3>3. CASE queue'[s][i] = FlushOf
      BY <1>4, <3>3
    <3>. QED  BY <1>8, <3>1, <3>2, <3>3
  <2>6. PlaceAll'
    <3>. SUFFICES ASSUME NEW k \in Key, NEW w \in Value, logical'[k] = w
                  PROVE  At(ShardOf(k, w), k)'
      BY DEF PlaceAll
    <3>s. PICK s \in Shard : s = ShardOf(k, w) /\ s = ShardOf(k, w)'
      BY <1>12
    <3>1. CASE \A y \in Value : ~Buffered(k, y)
      <4>1. At(s, k)
        BY <1>0, <1>9, <3>1, <3>s DEF PlaceInv, PlaceAll
      <4>2. At(s, k)'
        BY <1>14, <3>1, <4>1
      <4>. QED  BY <3>s, <4>2
    <3>2. CASE \E y \in Value : Buffered(k, y)
      <4>1. Buffered(k, w)
        BY <1>9, <3>2
      <4>2. At(s, k)'
        BY <1>15, <3>s, <4>1
      <4>. QED  BY <3>s, <4>2
    <3>. QED  BY <3>1, <3>2
  <2>. QED  BY <2>1, <2>2, <2>3, <2>4, <2>5, <2>6 DEF PlaceInv
<1>17. BufInv'
  BY <1>1 DEF BufInv
<1>18. \A s \in Shard : \A i \in 1 .. Len(queue'[s]) :
         /\ queue'[s][i].op \notin {"remove", "range"}
         /\ queue'[s][i].op = "flush" => i = Len(queue'[s])
  <2>1. \A s \in Shard : \A i \in 1 .. Len(queue[s]) : queue[s][i].op \notin {"remove", "range", "flush"}
    BY <1>0, <1>1, QuietQueues
  <2>. QED  BY <1>4, <1>5, <1>8, <2>1
<1>19. RemoveInv' /\ RangeInv'
  BY <1>1, <1>3, <1>18, NoCallInv
<1>20. PhaseInv'
  <2>1. flushed = {}
    BY <1>0, <1>1 DEF PhaseInv
  <2>2. \A s \in Shard : queue'[s] # <<>> /\ queue'[s][Len(queue'[s])].op = "flush"
    BY <1>4, <1>8
  <2>. QED  BY <1>1, <1>3, <1>18, <2>1, <2>2 DEF PhaseInv
<1>21. RevInv'
  BY <1>0, <1>1, RevKept
<1>22. AskedInv' /\ QueryInv'
  <2>1. ASSUME NEW s \in Shard, NEW i \in 1 .. Len(ext[s]) PROVE ext[s][i].op # "query"
    <3>1. ext[s] = IF DOMAIN RowsOf(sync_buf, s) = {} THEN <<FlushOf>> ELSE <<WriteOf(s), FlushOf>>
      BY <1>e
    <3>2. ext[s][i] = FlushOf \/ ext[s][i] = WriteOf(s)
      BY <3>1
    <3>. QED  BY <1>4, <1>5, <3>2
  <2>. QED  BY <1>0, <1>1, <1>6, <2>1, QueriesKept
<1>. QED  BY <1>10, <1>16, <1>17, <1>19, <1>20, <1>21, <1>22 DEF IInv

-----------------------------------------------------------------------------
(***************************************************************************)
(* The writer threads                                                      *)
(***************************************************************************)

\* Where the i-th command of shard t was before shard s took its first one.
Was(s, t, i) == IF t = s THEN i + 1 ELSE i

\* Every command but the first one of the shard is still there, in the order it was.
LEMMA Shifted ==
  ASSUME TypeInv, NEW s \in Shard, Shorter(s)
  PROVE  /\ \A t \in Shard : \A i \in 1 .. Len(queue'[t]) :
              Was(s, t, i) \in 1 .. Len(queue[t]) /\ queue'[t][i] = queue[t][Was(s, t, i)]
         /\ \A t \in Shard : \A j \in 1 .. Len(queue[t]) :
              \/ t = s /\ j = 1
              \/ \E i \in 1 .. Len(queue'[t]) : queue'[t][i] = queue[t][j] /\ j = Was(s, t, i)
         /\ \A t \in Shard : \A i, j \in 1 .. Len(queue'[t]) :
              /\ Was(s, t, i) = Was(s, t, j) => i = j
              /\ i < j => Was(s, t, i) < Was(s, t, j)
         /\ \A t \in Shard : \A i \in 1 .. Len(queue'[t]) : Was(s, t, i) = Len(queue[t]) <=> i = Len(queue'[t])
<1>1. /\ Len(queue[s]) \in Nat /\ Len(queue'[s]) = Len(queue[s]) - 1 /\ Len(queue'[s]) \in Nat
      /\ \A i \in 1 .. Len(queue'[s]) : i + 1 \in 1 .. Len(queue[s]) /\ queue'[s][i] = queue[s][i + 1]
      /\ \A i \in 1 .. Len(queue[s]) :
           i = 1 \/ (i - 1 \in 1 .. Len(queue'[s]) /\ queue'[s][i - 1] = queue[s][i])
      /\ \A t \in Shard : t # s => queue'[t] = queue[t]
  BY DEF Shorter
<1>2. \A t \in Shard : \A i \in 1 .. Len(queue'[t]) :
        Was(s, t, i) \in 1 .. Len(queue[t]) /\ queue'[t][i] = queue[t][Was(s, t, i)]
  BY <1>1 DEF Was
<1>3. ASSUME NEW t \in Shard, NEW j \in 1 .. Len(queue[t]), ~(t = s /\ j = 1)
      PROVE  \E i \in 1 .. Len(queue'[t]) : queue'[t][i] = queue[t][j] /\ j = Was(s, t, i)
  <2>1. CASE t = s
    <3>1. j - 1 \in 1 .. Len(queue'[s]) /\ queue'[s][j - 1] = queue[s][j] /\ j = (j - 1) + 1
      BY <1>1, <1>3, <2>1
    <3>. QED  BY <2>1, <3>1 DEF Was
  <2>2. CASE t # s
    BY <1>1, <2>2 DEF Was
  <2>. QED  BY <2>1, <2>2
<1>4. \A t \in Shard : \A i, j \in 1 .. Len(queue'[t]) :
        /\ Was(s, t, i) = Was(s, t, j) => i = j
        /\ i < j => Was(s, t, i) < Was(s, t, j)
  BY DEF Was
<1>5. ASSUME NEW t \in Shard, NEW i \in 1 .. Len(queue'[t])
      PROVE  Was(s, t, i) = Len(queue[t]) <=> i = Len(queue'[t])
  BY <1>1 DEF Was
<1>. QED  BY <1>2, <1>3, <1>4, <1>5

\* Where the rows are, when a command without rows is taken.
LEMMA StepPlace ==
  ASSUME TypeInv, PlaceInv, NEW s \in Shard, Shorter(s), UNCHANGED <<n, kind, forward, logical>>,
         queue[s][1].op \notin {"insert", "write"}, \A k \in Key : Busy(k)' <=> Busy(k)
  PROVE  PlaceInv' /\ \A t \in Shard, k \in Key : At(t, k)' <=> At(t, k)
<1>1. /\ \A t \in Shard : \A i \in 1 .. Len(queue'[t]) :
           Was(s, t, i) \in 1 .. Len(queue[t]) /\ queue'[t][i] = queue[t][Was(s, t, i)]
      /\ \A t \in Shard : \A i, j \in 1 .. Len(queue'[t]) : Was(s, t, i) = Was(s, t, j) => i = j
  BY Shifted
<1>2. Shard' = Shard /\ queue[s][1] \in Cmd
  BY DEF Shorter
<1>3. \A k \in Key, v \in Value : ShardOf(k, v)' = ShardOf(k, v) /\ (Known(k, v)' <=> Known(k, v))
  BY DEF ShardOf, PartitionOf, Known
<1>4. \A k \in Key, v \in Value : ~Puts(queue[s][1], k, v)
  BY <1>2, PutsOfCommands
<1>5. ASSUME NEW t \in Shard, NEW k \in Key PROVE At(t, k)' <=> At(t, k)
  <2>1. Coming(t, k)' => Coming(t, k)
    BY <1>1 DEF Coming
  <2>2. ASSUME NEW j \in 1 .. Len(queue[t]), NEW v \in Value, Puts(queue[t][j], k, v)
        PROVE  Coming(t, k)'
    <3>1. PICK i \in 1 .. Len(queue'[t]) : queue'[t][i] = queue[t][j]
      BY <1>4, <2>2, Shifted
    <3>. QED  BY <2>2, <3>1 DEF Coming
  <2>3. Coming(t, k) => Coming(t, k)'
    BY <2>2 DEF Coming
  <2>. QED  BY <2>1, <2>3 DEF At
<1>6. PlaceTables'
  BY <1>2, <1>3 DEF PlaceInv, PlaceTables
<1>7. PlaceQueues'
  <2>. SUFFICES ASSUME NEW t \in Shard, NEW k \in Key, NEW v \in Value, NEW i \in 1 .. Len(queue'[t]),
                       Puts(queue'[t][i], k, v)
                PROVE  t = ShardOf(k, v) /\ Known(k, v) /\ forward[t][k] = None
    BY <1>2, <1>3 DEF PlaceQueues
  <2>1. Was(s, t, i) \in 1 .. Len(queue[t]) /\ Puts(queue[t][Was(s, t, i)], k, v)
    BY <1>1
  <2>. QED  BY <2>1 DEF PlaceInv, PlaceQueues
<1>8. PlaceOnce'
  BY <1>2, <1>5 DEF PlaceInv, PlaceOnce
<1>9. PutOnce'
  <2>. SUFFICES ASSUME NEW t \in Shard, NEW k \in Key, NEW v \in Value, NEW w \in Value,
                       NEW i \in 1 .. Len(queue'[t]), NEW j \in 1 .. Len(queue'[t]),
                       Puts(queue'[t][i], k, v), Puts(queue'[t][j], k, w)
                PROVE  i = j
    BY <1>2 DEF PutOnce
  <2>1. /\ Was(s, t, i) \in 1 .. Len(queue[t]) /\ Puts(queue[t][Was(s, t, i)], k, v)
        /\ Was(s, t, j) \in 1 .. Len(queue[t]) /\ Puts(queue[t][Was(s, t, j)], k, w)
    BY <1>1
  <2>2. Was(s, t, i) = Was(s, t, j)
    BY <2>1 DEF PlaceInv, PutOnce
  <2>. QED  BY <1>1, <2>2
<1>10. RowsDistinct'
  BY <1>1, <1>2 DEF PlaceInv, RowsDistinct
<1>11. PlaceAll'
  <2>1. \A k \in Key, v \in Value : ShardOf(k, v) \in Shard
    BY ShardsOfRows DEF TypeInv
  <2>. QED  BY <1>3, <1>5, <2>1 DEF PlaceInv, PlaceAll
<1>. QED  BY <1>5, <1>6, <1>7, <1>8, <1>9, <1>10, <1>11 DEF PlaceInv

\* The call that waits, when the command is not the one it waits for.
LEMMA StepCall ==
  ASSUME TypeInv, RemoveInv, RangeInv, NEW s \in Shard, Shorter(s),
         UNCHANGED <<n, kind, call, logical>>, queue[s][1].op \notin {"remove", "range"},
         \A t \in Shard, k \in Key : At(t, k)' <=> At(t, k)
  PROVE  RemoveInv' /\ RangeInv'
<1>1. /\ \A t \in Shard : \A i \in 1 .. Len(queue'[t]) :
           Was(s, t, i) \in 1 .. Len(queue[t]) /\ queue'[t][i] = queue[t][Was(s, t, i)]
      /\ \A t \in Shard : \A i \in 1 .. Len(queue'[t]) : Was(s, t, i) = Len(queue[t]) <=> i = Len(queue'[t])
  BY Shifted
<1>2. Shard' = Shard /\ queue' \in [Shard -> Seq(Cmd)] /\ queue \in [Shard -> Seq(Cmd)]
  BY DEF Shorter, TypeInv
<1>3. ASSUME NEW t \in Shard, queue[t] # <<>>, queue[t][Len(queue[t])].op \in {"remove", "range"}
      PROVE  queue'[t] # <<>> /\ queue'[t][Len(queue'[t])] = queue[t][Len(queue[t])]
  <2>1. Len(queue[t]) \in Nat /\ Len(queue[t]) # 0
    BY <1>2, <1>3
  <2>2. Len(queue[t]) \in 1 .. Len(queue[t]) /\ ~(t = s /\ Len(queue[t]) = 1)
    BY <1>3, <2>1
  <2>3. PICK i \in 1 .. Len(queue'[t]) : queue'[t][i] = queue[t][Len(queue[t])] /\ Len(queue[t]) = Was(s, t, i)
    BY <2>2, Shifted
  <2>4. i = Len(queue'[t])
    BY <1>1, <2>3
  <2>5. queue'[t] # <<>>
    BY <1>2, <2>3
  <2>. QED  BY <2>3, <2>4, <2>5
<1>4. ASSUME NEW t \in Shard, NEW i \in 1 .. Len(queue'[t]), queue'[t][i].op \in {"remove", "range"}
      PROVE  /\ Was(s, t, i) \in 1 .. Len(queue[t]) /\ Was(s, t, i) \in Nat
             /\ queue'[t][i] = queue[t][Was(s, t, i)]
             /\ Was(s, t, i) = Len(queue[t]) <=> i = Len(queue'[t])
  BY <1>1 DEF Was
<1>5. RemoveInv'
  <2>1. call.op \in {"remove", "removed"} => call.k \in Key /\ call.shard \in Shard
    BY DEF TypeInv
  <2>2. call'.op = "remove" =>
          /\ queue'[call'.shard] # <<>>
          /\ queue'[call'.shard][Len(queue'[call'.shard])].op = "remove"
    BY <1>3, <2>1 DEF RemoveInv
  <2>3. \A t \in Shard', i \in Nat : i \in 1 .. Len(queue'[t]) /\ queue'[t][i].op = "remove" =>
          i = Len(queue'[t]) /\ call'.op = "remove" /\ call'.shard = t /\ call'.k = queue'[t][i].k
    <3>. SUFFICES ASSUME NEW t \in Shard, NEW i \in Nat, i \in 1 .. Len(queue'[t]), queue'[t][i].op = "remove"
                  PROVE  i = Len(queue'[t]) /\ call.op = "remove" /\ call.shard = t /\ call.k = queue'[t][i].k
      BY <1>2
    <3>1. /\ Was(s, t, i) \in 1 .. Len(queue[t]) /\ Was(s, t, i) \in Nat
          /\ queue'[t][i] = queue[t][Was(s, t, i)]
          /\ Was(s, t, i) = Len(queue[t]) <=> i = Len(queue'[t])
      BY <1>4
    <3>2. /\ Was(s, t, i) = Len(queue[t]) /\ call.op = "remove" /\ call.shard = t
          /\ call.k = queue[t][Was(s, t, i)].k
      BY <3>1 DEF RemoveInv
    <3>. QED  BY <3>1, <3>2
  <2>4. call'.op \in {"remove", "removed"} => logical'[call'.k] = None
    BY DEF RemoveInv
  <2>5. call'.op = "remove" =>
          /\ call'.expected <=> \E t \in Shard' : At(t, call.k)'
          /\ \A t \in Shard' : At(t, call.k)' => IF kind' = "plain" THEN t = call'.shard ELSE t >= call'.shard
    BY <1>2, <2>1 DEF RemoveInv
  <2>6. call'.op = "removed" =>
          IF call'.found THEN call'.expected /\ \A t \in Shard' : ~At(t, call.k)'
          ELSE /\ call'.expected <=> \E t \in Shard' : At(t, call.k)'
               /\ \A t \in Shard' : At(t, call.k)' => kind' = "index" /\ t > call'.shard
    BY <1>2, <2>1 DEF RemoveInv
  <2>. QED  BY <2>2, <2>3, <2>4, <2>5, <2>6 DEF RemoveInv
<1>6. RangeInv'
  <2>1. 0 \in Shard
    BY ShardsOfRows DEF TypeInv
  <2>2. call'.op = "range" =>
          /\ n' = 1 /\ queue'[0] # <<>>
          /\ queue'[0][Len(queue'[0])] = queue[0][Len(queue[0])]
    BY <1>3, <2>1 DEF RangeInv
  <2>3. \A t \in Shard', i \in Nat : i \in 1 .. Len(queue'[t]) /\ queue'[t][i].op = "range" =>
          i = Len(queue'[t]) /\ call'.op = "range"
    <3>. SUFFICES ASSUME NEW t \in Shard, NEW i \in Nat, i \in 1 .. Len(queue'[t]), queue'[t][i].op = "range"
                  PROVE  i = Len(queue'[t]) /\ call.op = "range"
      BY <1>2
    <3>1. /\ Was(s, t, i) \in 1 .. Len(queue[t]) /\ Was(s, t, i) \in Nat
          /\ queue'[t][i] = queue[t][Was(s, t, i)]
          /\ Was(s, t, i) = Len(queue[t]) <=> i = Len(queue'[t])
      BY <1>4
    <3>2. Was(s, t, i) = Len(queue[t]) /\ call.op = "range"
      BY <3>1 DEF RangeInv
    <3>. QED  BY <3>1, <3>2
  <2>. QED  BY <2>2, <2>3 DEF RangeInv, RowsIn
<1>. QED  BY <1>5, <1>6

\* The phase of the transaction, when the command is not a flush.
LEMMA StepPhase ==
  ASSUME TypeInv, PhaseInv, NEW s \in Shard, Shorter(s), queue[s] # <<>>,
         UNCHANGED <<n, phase, flushed>>, queue[s][1].op # "flush",
         call'.op # "none" => call.op # "none"
  PROVE  PhaseInv'
<1>1. /\ \A t \in Shard : \A i \in 1 .. Len(queue'[t]) :
           Was(s, t, i) \in 1 .. Len(queue[t]) /\ queue'[t][i] = queue[t][Was(s, t, i)]
      /\ \A t \in Shard : \A i \in 1 .. Len(queue'[t]) : Was(s, t, i) = Len(queue[t]) <=> i = Len(queue'[t])
  BY Shifted
<1>2. /\ Shard' = Shard /\ queue' \in [Shard -> Seq(Cmd)] /\ queue \in [Shard -> Seq(Cmd)]
      /\ \A t \in Shard : t # s => queue'[t] = queue[t]
  BY DEF Shorter, TypeInv
<1>3. ASSUME NEW t \in Shard, queue[t] # <<>>, queue[t][Len(queue[t])].op = "flush"
      PROVE  queue'[t] # <<>> /\ queue'[t][Len(queue'[t])] = queue[t][Len(queue[t])]
  <2>1. Len(queue[t]) \in Nat /\ Len(queue[t]) # 0
    BY <1>2, <1>3
  <2>2. Len(queue[t]) \in 1 .. Len(queue[t]) /\ ~(t = s /\ Len(queue[t]) = 1)
    BY <1>3, <2>1
  <2>3. PICK i \in 1 .. Len(queue'[t]) : queue'[t][i] = queue[t][Len(queue[t])] /\ Len(queue[t]) = Was(s, t, i)
    BY <2>2, Shifted
  <2>4. i = Len(queue'[t])
    BY <1>1, <2>3
  <2>5. queue'[t] # <<>>
    BY <1>2, <2>3
  <2>. QED  BY <2>3, <2>4, <2>5
<1>4. phase # "idle"
  BY DEF PhaseInv
<1>5. \A t \in Shard', i \in Nat : i \in 1 .. Len(queue'[t]) /\ queue'[t][i].op = "flush" =>
        i = Len(queue'[t]) /\ phase' = "flushing"
  <2>. SUFFICES ASSUME NEW t \in Shard, NEW i \in Nat, i \in 1 .. Len(queue'[t]), queue'[t][i].op = "flush"
                PROVE  i = Len(queue'[t]) /\ phase = "flushing"
    BY <1>2
  <2>1. /\ Was(s, t, i) \in 1 .. Len(queue[t]) /\ Was(s, t, i) \in Nat
        /\ queue'[t][i] = queue[t][Was(s, t, i)]
        /\ Was(s, t, i) = Len(queue[t]) <=> i = Len(queue'[t])
    BY <1>1
  <2>2. Was(s, t, i) = Len(queue[t]) /\ phase = "flushing"
    BY <2>1 DEF PhaseInv
  <2>. QED  BY <2>1, <2>2
<1>6. phase' = "flushing" => \A t \in Shard' :
        IF t \in flushed' THEN queue'[t] = <<>>
        ELSE queue'[t] # <<>> /\ queue'[t][Len(queue'[t])].op = "flush"
  <2>. SUFFICES ASSUME phase = "flushing", NEW t \in Shard
                PROVE  IF t \in flushed THEN queue'[t] = <<>>
                       ELSE queue'[t] # <<>> /\ queue'[t][Len(queue'[t])].op = "flush"
    BY <1>2
  <2>1. IF t \in flushed THEN queue[t] = <<>>
        ELSE queue[t] # <<>> /\ queue[t][Len(queue[t])].op = "flush"
    BY DEF PhaseInv
  <2>2. CASE t \in flushed
    <3>1. t # s
      BY <2>1, <2>2
    <3>. QED  BY <1>2, <2>1, <2>2, <3>1
  <2>3. CASE t \notin flushed
    BY <1>3, <2>1, <2>3
  <2>. QED  BY <2>2, <2>3
<1>7. call'.op # "none" => phase' = "open"
  BY DEF PhaseInv
<1>8. phase' = "open" => flushed' = {}
  BY DEF PhaseInv
<1>. QED  BY <1>4, <1>5, <1>6, <1>7, <1>8 DEF PhaseInv

\* The answers, when the command is not a query.
LEMMA StepAsked ==
  ASSUME TypeInv, AskedInv, NEW s \in Shard, Shorter(s), queue[s][1].op # "query",
         UNCHANGED <<n, sink, ready, asked>>
  PROVE  AskedInv'
<1>1. \A t \in Shard : \A i \in 1 .. Len(queue'[t]) :
        Was(s, t, i) \in 1 .. Len(queue[t]) /\ queue'[t][i] = queue[t][Was(s, t, i)]
  BY Shifted
<1>2. Shard' = Shard
  BY DEF Shorter
<1>3. ASSUME NEW t \in Shard, NEW a PROVE Pending(a, t)' <=> Pending(a, t)
  <2>1. Pending(a, t)' => Pending(a, t)
    BY <1>1 DEF Pending
  <2>2. ASSUME NEW j \in 1 .. Len(queue[t]), queue[t][j].op = "query", queue[t][j].q = a.q
        PROVE  Pending(a, t)'
    <3>1. PICK i \in 1 .. Len(queue'[t]) : queue'[t][i] = queue[t][j]
      BY <2>2, Shifted
    <3>. QED  BY <2>2, <3>1 DEF Pending
  <2>. QED  BY <2>1, <2>2 DEF Pending
<1>4. \A a : \A p : Got(a, p)' = Got(a, p) /\ (Answered(a, p)' <=> Answered(a, p))
  BY DEF Got, Answered
<1>5. AskedKnown'
  BY DEF AskedInv, AskedKnown
<1>6. AnswersInv'
  BY <1>2, <1>3, <1>4, PositionsKept DEF AskedInv, AnswersInv
<1>7. ReadyInv'
  <2>1. ready \subseteq Shard
    BY DEF TypeInv
  <2>2. \A a \in asked', t \in Shard' : a.last => Pending(a, t)' \/ t \in ready'
    BY <1>2, <1>3 DEF AskedInv, ReadyInv
  <2>3. \A t \in ready' : /\ \E a \in asked' : a.last
                          /\ \A i \in 1 .. Len(queue'[t]) : queue'[t][i].op # "query"
    BY <1>1, <2>1 DEF AskedInv, ReadyInv
  <2>. QED  BY <2>2, <2>3 DEF ReadyInv
<1>. QED  BY <1>5, <1>6, <1>7 DEF AskedInv

\* What the command of a shard does to the shard's keys by value: nothing is behind
\* it in the queue, or it adds the keys it brings.
Moves(s) ==
  /\ queue'[s] = <<>> \/ \A v \in Value :
       reverse'[s][v] = reverse[s][v] \cup {k \in Key : Puts(queue[s][1], k, v)}
  /\ \A t \in Shard : t # s => reverse'[t] = reverse[t]

\* A query behind the command finds in the table what it would have found ahead of it.
LEMMA StepQuery ==
  ASSUME TypeInv, QueryInv, AskedKnown, NEW s \in Shard, Shorter(s), UNCHANGED <<n, kind, asked>>,
         kind = "index" => Moves(s)
  PROVE  QueryInv'
<1>1. /\ \A t \in Shard : \A i \in 1 .. Len(queue'[t]) :
           Was(s, t, i) \in 1 .. Len(queue[t]) /\ queue'[t][i] = queue[t][Was(s, t, i)]
      /\ \A t \in Shard : \A i, j \in 1 .. Len(queue'[t]) : i < j => Was(s, t, i) < Was(s, t, j)
  BY Shifted
<1>2. /\ Shard' = Shard /\ queue' \in [Shard -> Seq(Cmd)]
      /\ \A t \in Shard : t # s => queue'[t] = queue[t]
      /\ Len(queue[s]) \in Nat /\ Len(queue'[s]) \in Nat
  BY DEF Shorter
<1>3. QueryOrder'
  <2>. SUFFICES ASSUME NEW t \in Shard, NEW i \in 1 .. Len(queue'[t]), NEW j \in 1 .. Len(queue'[t]),
                       queue'[t][i].op = "query", queue'[t][j].op = "query", i < j
                PROVE  queue'[t][i].q # queue'[t][j].q /\ ~queue'[t][i].last
    BY <1>2 DEF QueryOrder
  <2>1. /\ Was(s, t, i) \in 1 .. Len(queue[t]) /\ queue'[t][i] = queue[t][Was(s, t, i)]
        /\ Was(s, t, j) \in 1 .. Len(queue[t]) /\ queue'[t][j] = queue[t][Was(s, t, j)]
        /\ Was(s, t, i) < Was(s, t, j)
    BY <1>1
  <2>. QED  BY <2>1 DEF QueryInv, QueryOrder
<1>4. ASSUME NEW i \in 1 .. Len(queue'[s]), NEW v \in Value, kind = "index"
      PROVE  reverse'[s][v] \cup Ahead(s, i, v)' = reverse[s][v] \cup Ahead(s, i + 1, v)
  <2>1. queue'[s] # <<>>
    BY <1>2
  <2>2. reverse'[s][v] = reverse[s][v] \cup {k \in Key : Puts(queue[s][1], k, v)}
    BY <1>4, <2>1 DEF Moves
  <2>3. ASSUME NEW k \in Key
        PROVE  (\E j \in 1 .. ((i + 1) - 1) : Puts(queue[s][j], k, v)) <=>
                 (Puts(queue[s][1], k, v) \/ \E j \in 1 .. (i - 1) : Puts(queue'[s][j], k, v))
    <3>0. i \in Nat /\ (i + 1) - 1 = i /\ 1 \in 1 .. i
      OBVIOUS
    <3>1. \A j \in 1 .. (i - 1) : j \in 1 .. Len(queue'[s]) /\ j + 1 \in 1 .. i
      BY <1>2
    <3>2. \A j \in 1 .. (i - 1) : queue'[s][j] = queue[s][j + 1]
      BY <3>1 DEF Shorter
    <3>3. ASSUME NEW j \in 1 .. i, j # 1 PROVE j - 1 \in 1 .. (i - 1) /\ (j - 1) + 1 = j
      BY <3>3
    <3>4. ASSUME NEW j \in 1 .. i, j # 1, Puts(queue[s][j], k, v)
          PROVE  \E h \in 1 .. (i - 1) : Puts(queue'[s][h], k, v)
      <4>1. j - 1 \in 1 .. (i - 1) /\ queue'[s][j - 1] = queue[s][j]
        BY <3>2, <3>3, <3>4
      <4>. QED  BY <3>4, <4>1
    <3>. QED  BY <3>0, <3>1, <3>2, <3>4
  <2>. QED  BY <2>2, <2>3 DEF Ahead
<1>5. QueryFinds'
  <2>. SUFFICES ASSUME NEW t \in Shard, NEW i \in 1 .. Len(queue'[t]), queue'[t][i].op = "query"
                PROVE  kind = "index" /\ \E a \in asked : queue'[t][i] = QueryCommand(a, t)' /\ Finds(a, t, i)'
    BY <1>2 DEF QueryFinds
  <2>1. Was(s, t, i) \in 1 .. Len(queue[t]) /\ queue'[t][i] = queue[t][Was(s, t, i)]
    BY <1>1
  <2>2. kind = "index"
    BY <2>1 DEF QueryInv, QueryFinds
  <2>3. PICK a \in asked : queue[t][Was(s, t, i)] = QueryCommand(a, t) /\ Finds(a, t, Was(s, t, i))
    BY <2>1 DEF QueryInv, QueryFinds
  <2>4. QueryCommand(a, t)' = QueryCommand(a, t)
    BY <1>2, PositionsKept DEF QueryCommand
  <2>5. \A p \in PositionsOf(a.values, t) : a.values[p] \in Value
    <3>1. a.values \in Seq(Value)
      BY ShardedAssumption DEF AskedKnown
    <3>. QED  BY <3>1, BucketTyped
  <2>6. \A v \in Value : reverse'[t][v] \cup Ahead(t, i, v)' = reverse[t][v] \cup Ahead(t, Was(s, t, i), v)
    <3>1. CASE t = s
      BY <1>4, <2>2, <3>1 DEF Was
    <3>2. CASE t # s
      <4>1. reverse'[t] = reverse[t] /\ queue'[t] = queue[t] /\ Was(s, t, i) = i
        BY <1>2, <2>2, <3>2 DEF Was, Moves
      <4>. QED  BY <4>1 DEF Ahead
    <3>. QED  BY <3>1, <3>2
  <2>7. Finds(a, t, i)'
    BY <1>2, <2>3, <2>5, <2>6, PositionsKept DEF Finds
  <2>. QED  BY <2>1, <2>2, <2>3, <2>4, <2>7
<1>. QED  BY <1>3, <1>5 DEF QueryInv

\* What every command of a writer thread leaves alone.
LEMMA StepTakes ==
  ASSUME TypeInv, NEW s \in Shard, step(s)
  PROVE  /\ Shorter(s) /\ queue[s] # <<>> /\ Head(queue[s]) = queue[s][1]
         /\ queue[s][1] \in Cmd /\ 1 \in 1 .. Len(queue[s]) /\ Len(queue[s]) \in Nat
         /\ UNCHANGED <<kind, n, phase, sync_buf, asked, logical, calls, txs>>
<1>1. /\ UNCHANGED <<kind, n, phase, sync_buf, asked, logical, calls, txs>>
      /\ queue[s] # <<>> /\ queue' = [queue EXCEPT ![s] = Tail(@)]
  BY DEF step
<1>2. Shorter(s)
  BY <1>1, Popped
<1>. QED  BY <1>1, <1>2 DEF Shorter

\* A shard commits.
LEMMA StepFlushInv ==
  ASSUME IInv, NEW s \in Shard, step(s), queue[s][1].op = "flush"
  PROVE  IInv'
<1>0. /\ TypeInv /\ PlaceInv /\ BufInv /\ RemoveInv /\ RangeInv
      /\ PhaseInv /\ RevInv /\ AskedInv /\ QueryInv
  BY DEF IInv
<1>1. /\ Shorter(s) /\ queue[s] # <<>> /\ Head(queue[s]) = queue[s][1]
      /\ queue[s][1] \in Cmd /\ 1 \in 1 .. Len(queue[s]) /\ Len(queue[s]) \in Nat
      /\ UNCHANGED <<kind, n, phase, sync_buf, asked, logical, calls, txs>>
  BY <1>0, StepTakes
<1>2. flushed' = flushed \cup {s} /\ UNCHANGED <<call, forward, reverse, sink, ready>>
  BY <1>1 DEF step, tableVars
<1>3. /\ Shard' = Shard /\ queue' \in [Shard -> Seq(Cmd)]
      /\ \A t \in Shard : t # s => queue'[t] = queue[t]
  BY <1>1 DEF Shorter
<1>4. phase = "flushing" /\ queue'[s] = <<>> /\ Len(queue'[s]) = 0 /\ 1 .. Len(queue'[s]) = {}
  <2>1. Len(queue[s]) = 1 /\ phase = "flushing"
    BY <1>0, <1>1 DEF PhaseInv
  <2>2. queue'[s] = <<>>
    BY <1>1, <2>1 DEF Shorter
  <2>. QED  BY <2>1, <2>2
<1>5. TypeInv'
  BY <1>0, <1>1, <1>2, <1>3 DEF TypeInv
<1>6. PlaceInv' /\ \A t \in Shard, k \in Key : At(t, k)' <=> At(t, k)
  <2>1. \A k \in Key : Busy(k)' <=> Busy(k)
    BY <1>2 DEF Busy
  <2>. QED  BY <1>0, <1>1, <1>2, <2>1, StepPlace
<1>7. BufInv'
  BY <1>0, <1>1, <1>2 DEF BufInv, Busy
<1>8. RemoveInv' /\ RangeInv'
  BY <1>0, <1>1, <1>2, <1>6, StepCall
<1>9. PhaseInv'
  <2>1. \A t \in Shard : IF t \in flushed' THEN queue'[t] = <<>>
                         ELSE queue'[t] # <<>> /\ queue'[t][Len(queue'[t])].op = "flush"
    BY <1>0, <1>2, <1>3, <1>4 DEF PhaseInv
  <2>2. \A t \in Shard, i \in Nat : i \in 1 .. Len(queue'[t]) /\ queue'[t][i].op = "flush" => i = Len(queue'[t])
    BY <1>0, <1>3, <1>4 DEF PhaseInv
  <2>3. call'.op # "none" => phase' = "open"
    BY <1>0, <1>1, <1>2 DEF PhaseInv
  <2>. QED  BY <1>1, <1>3, <1>4, <2>1, <2>2, <2>3 DEF PhaseInv
<1>10. RevInv'
  BY <1>0, <1>1, <1>2, RevKept
<1>11. AskedInv'
  BY <1>0, <1>1, <1>2, StepAsked
<1>12. QueryInv'
  BY <1>0, <1>1, <1>2, <1>4, StepQuery DEF Moves, AskedInv
<1>. QED  BY <1>5, <1>6, <1>7, <1>8, <1>9, <1>10, <1>11, <1>12 DEF IInv

\* What a table of one shard has in an interval, once the rows ahead have arrived,
\* is what the caller has in it.
LEMMA RangeFinds ==
  ASSUME TypeInv, PlaceInv, n = 1, \A k \in Key : ~Busy(k), \A k \in Key : ~Coming(0, k),
         NEW from, NEW until
  PROVE  RowsIn(forward[0], from, until) = RowsIn(logical, from, until)
<1>1. 0 \in Shard /\ \A k \in Key, v \in Value : ShardOf(k, v) = 0
  BY ShardsOfRows DEF TypeInv, ShardOf
<1>2. ASSUME NEW k \in Key PROVE forward[0][k] = logical[k]
  <2>1. forward[0][k] \in Value \cup {None} /\ logical[k] \in Value \cup {None}
    BY <1>1 DEF TypeInv, Map
  <2>2. forward[0][k] \in Value => logical[k] = forward[0][k]
    BY <1>1 DEF PlaceInv, PlaceTables, Known
  <2>3. logical[k] \in Value => forward[0][k] # None
    BY <1>1 DEF PlaceInv, PlaceAll, At
  <2>. QED  BY <2>1, <2>2, <2>3
<1>. QED  BY <1>2 DEF RowsIn

\* The table answers a range.
LEMMA StepRangeInv ==
  ASSUME IInv, NEW s \in Shard, step(s), queue[s][1].op = "range"
  PROVE  IInv'
<1>0. /\ TypeInv /\ PlaceInv /\ BufInv /\ RemoveInv /\ RangeInv
      /\ PhaseInv /\ RevInv /\ AskedInv /\ QueryInv
  BY DEF IInv
<1>1. /\ Shorter(s) /\ queue[s] # <<>> /\ Head(queue[s]) = queue[s][1]
      /\ queue[s][1] \in Cmd /\ 1 \in 1 .. Len(queue[s]) /\ Len(queue[s]) \in Nat
      /\ UNCHANGED <<kind, n, phase, sync_buf, asked, logical, calls, txs>>
  BY <1>0, StepTakes
<1>c. PICK c : c = queue[s][1]
  OBVIOUS
<1>2. /\ call' = [op |-> "ranged", expected |-> call.expected, found |-> RowsIn(forward[s], c.from, c.until)]
      /\ UNCHANGED <<forward, reverse, flushed, sink, ready>>
  BY <1>1, <1>c DEF step, tableVars
<1>3. /\ Shard' = Shard /\ queue' \in [Shard -> Seq(Cmd)]
      /\ \A t \in Shard : t # s => queue'[t] = queue[t]
  BY <1>1 DEF Shorter
<1>4. /\ Len(queue[s]) = 1 /\ call.op = "range" /\ n = 1 /\ s = 0 /\ Shard = {0}
      /\ call.expected = RowsIn(logical, c.from, c.until)
  <2>1. Len(queue[s]) = 1 /\ call.op = "range"
    BY <1>0, <1>1 DEF RangeInv
  <2>2. n = 1
    BY <1>0, <2>1 DEF RangeInv
  <2>3. s = 0 /\ Shard = {0}
    BY <1>0, <2>2, ShardsOfRows DEF TypeInv
  <2>. QED  BY <1>0, <1>c, <2>1, <2>2, <2>3 DEF RangeInv
<1>5. queue'[s] = <<>> /\ Len(queue'[s]) = 0 /\ 1 .. Len(queue'[s]) = {}
  <2>1. queue'[s] = <<>>
    BY <1>1, <1>4 DEF Shorter
  <2>. QED  BY <2>1
<1>6. call'.op = "ranged" /\ call'.found = call'.expected /\ \A k : ~Busy(k) /\ ~Busy(k)'
  <2>1. \A k \in Key : ~Coming(0, k)
    <3>0. Len(queue[0]) = 1
      BY <1>4
    <3>1. 1 .. Len(queue[0]) = {1}
      BY <3>0
    <3>2. \A k \in Key, v \in Value : ~Puts(queue[0][1], k, v)
      BY <1>1, <1>4, PutsOfCommands
    <3>. QED  BY <3>1, <3>2 DEF Coming
  <2>2. \A k : ~Busy(k) /\ ~Busy(k)'
    BY <1>2, <1>4 DEF Busy
  <2>3. RowsIn(forward[0], c.from, c.until) = RowsIn(logical, c.from, c.until)
    BY <1>0, <1>4, <2>1, <2>2, RangeFinds
  <2>. QED  BY <1>2, <1>4, <2>2, <2>3
<1>7. TypeInv'
  BY <1>0, <1>1, <1>2, <1>3, <1>6 DEF TypeInv
<1>8. PlaceInv' /\ \A t \in Shard, k \in Key : At(t, k)' <=> At(t, k)
  BY <1>0, <1>1, <1>2, <1>6, StepPlace
<1>9. BufInv'
  BY <1>0, <1>1, <1>6 DEF BufInv
<1>10. RemoveInv' /\ RangeInv'
  BY <1>3, <1>4, <1>5, <1>6 DEF RemoveInv, RangeInv
<1>11. PhaseInv'
  <2>1. call'.op # "none" => call.op # "none"
    BY <1>4
  <2>. QED  BY <1>0, <1>1, <1>2, <2>1, StepPhase
<1>12. RevInv'
  BY <1>0, <1>1, <1>2, RevKept
<1>13. AskedInv'
  BY <1>0, <1>1, <1>2, StepAsked
<1>14. QueryInv'
  BY <1>0, <1>1, <1>2, <1>5, StepQuery DEF Moves, AskedInv
<1>. QED  BY <1>7, <1>8, <1>9, <1>10, <1>11, <1>12, <1>13, <1>14 DEF IInv

\* The shard answers the items of the q-th query.
Answers(s, q, items) ==
  \E answer \in [items -> Key \cup {None}] :
    /\ \A e \in items : AnyForIndex(s, e.v, answer[e])
    /\ sink' = sink \cup {[q |-> q, pos |-> e.pos, key |-> answer[e]] : e \in items}

\* A shard answers its part of a query.
LEMMA StepQueryAnswers ==
  ASSUME IInv, NEW s \in Shard, step(s), queue[s][1].op = "query"
  PROVE  AskedInv'
<1>0. TypeInv /\ AskedInv /\ QueryInv
  BY DEF IInv
<1>1. /\ Shorter(s) /\ queue[s] # <<>> /\ Head(queue[s]) = queue[s][1]
      /\ queue[s][1] \in Cmd /\ 1 \in 1 .. Len(queue[s]) /\ Len(queue[s]) \in Nat
      /\ UNCHANGED <<kind, n, phase, sync_buf, asked, logical, calls, txs>>
  BY <1>0, StepTakes
<1>2. Shard' = Shard /\ \A t \in Shard : t # s => queue'[t] = queue[t]
  BY <1>1 DEF Shorter
<1>3. PICK a \in asked : queue[s][1] = QueryCommand(a, s) /\ Finds(a, s, 1)
  BY <1>0, <1>1 DEF QueryInv, QueryFinds
<1>B. PICK B : B = BucketOf(a.values, s)
  OBVIOUS
<1>P. PICK P : P = PositionsOf(a.values, s)
  OBVIOUS
<1>4. queue[s][1].q = a.q /\ queue[s][1].last = a.last /\ queue[s][1].items = B
  BY <1>3, <1>B DEF QueryCommand
<1>5. PICK answer \in [B -> Key \cup {None}] :
        /\ \A e \in B : AnyForIndex(s, e.v, answer[e])
        /\ sink' = sink \cup {[q |-> a.q, pos |-> e.pos, key |-> answer[e]] : e \in B}
  <2>1. Answers(s, Head(queue[s]).q, Head(queue[s]).items)
    BY <1>1, Zenon DEF step, Answers
  <2>2. Answers(s, a.q, B)
    BY <1>1, <1>4, <2>1
  <2>. QED  BY <2>2, Zenon DEF Answers
<1>6. ready' = IF a.last THEN ready \cup {s} ELSE ready
  BY <1>1, <1>4 DEF step
<1>7. /\ a.values \in Seq(Value) /\ a.q \in 1 .. Cardinality(asked) /\ a.last \in BOOLEAN
      /\ \A b \in asked : b.q = a.q => b = a
  BY <1>0, ShardedAssumption DEF AskedInv, AskedKnown
<1>8. \A p \in P : a.values[p] \in Value /\ [pos |-> p, v |-> a.values[p]] \in B
  BY <1>7, <1>B, <1>P, BucketTyped DEF BucketOf
<1>K. PICK key : key = [p \in P |-> answer[[pos |-> p, v |-> a.values[p]]]]
  OBVIOUS
<1>9. sink' = sink \cup {[q |-> a.q, pos |-> p, key |-> key[p]] : p \in P}
  <2>1. B = {[pos |-> p, v |-> a.values[p]] : p \in P}
    BY <1>B, <1>P DEF BucketOf
  <2>2. {[q |-> a.q, pos |-> e.pos, key |-> answer[e]] : e \in B} = {[q |-> a.q, pos |-> p, key |-> key[p]] : p \in P}
    <3>1. ASSUME NEW e \in B PROVE e.pos \in P /\ answer[e] = key[e.pos]
      BY <1>K, <2>1
    <3>2. ASSUME NEW p \in P PROVE \E e \in B : e.pos = p /\ answer[e] = key[p]
      <4>1. [pos |-> p, v |-> a.values[p]] \in B
        BY <1>8
      <4>. QED  BY <1>K, <4>1
    <3>. QED  BY <3>1, <3>2
  <2>. QED  BY <1>5, <2>2
<1>10. ASSUME NEW p \in P
       PROVE  LET keys == KeysOf(a.seen, a.values[p])
              IN  IF keys = {} THEN key[p] = None ELSE key[p] \in keys
  <2>1. KeysOf(a.seen, a.values[p]) = reverse[s][a.values[p]]
    <3>1. 1 .. (1 - 1) = {}
      OBVIOUS
    <3>2. Ahead(s, 1, a.values[p]) = {}
      BY <3>1 DEF Ahead
    <3>. QED  BY <1>3, <1>P, <3>2 DEF Finds
  <2>2. AnyForIndex(s, a.values[p], key[p])
    BY <1>5, <1>8, <1>K
  <2>. QED  BY <2>1, <2>2 DEF AnyForIndex
<1>11. ASSUME NEW b \in asked, NEW p, ~(b = a /\ p \in P) PROVE Got(b, p)' = Got(b, p)
  BY <1>1, <1>7, <1>9, <1>11 DEF Got
<1>12. ASSUME NEW p \in P, Got(a, p) = {} PROVE Got(a, p)' = {[q |-> a.q, pos |-> p, key |-> key[p]]}
  BY <1>9, <1>12 DEF Got
<1>13. Pending(a, s)
  BY <1>1, <1>4 DEF Pending
<1>14. ~Pending(a, s)' /\ (a.last => \A i \in 1 .. Len(queue'[s]) : queue'[s][i].op # "query")
  <2>1. ASSUME NEW i \in 1 .. Len(queue'[s]), queue'[s][i].op = "query"
        PROVE  queue'[s][i].q # a.q /\ ~a.last
    <3>1. i + 1 \in 1 .. Len(queue[s]) /\ queue'[s][i] = queue[s][i + 1] /\ 1 < i + 1
      BY <1>1 DEF Shorter
    <3>. QED  BY <1>0, <1>1, <1>4, <2>1, <3>1 DEF QueryInv, QueryOrder
  <2>. QED  BY <2>1 DEF Pending
<1>15. ASSUME NEW b \in asked, NEW t \in Shard, ~(b = a /\ t = s) PROVE Pending(b, t)' <=> Pending(b, t)
  <2>1. CASE t # s
    BY <1>1, <1>2, <2>1 DEF Pending
  <2>2. CASE t = s /\ b.q # a.q
    <3>1. Pending(b, s)' => Pending(b, s)
      <4>1. \A i \in 1 .. Len(queue'[s]) : i + 1 \in 1 .. Len(queue[s]) /\ queue'[s][i] = queue[s][i + 1]
        BY <1>1 DEF Shorter
      <4>. QED  BY <4>1, Zenon DEF Pending
    <3>2. ASSUME NEW j \in 1 .. Len(queue[s]), queue[s][j].op = "query", queue[s][j].q = b.q
          PROVE  Pending(b, s)'
      <4>1. j # 1
        BY <1>4, <2>2, <3>2
      <4>2. j - 1 \in 1 .. Len(queue'[s]) /\ queue'[s][j - 1] = queue[s][j]
        BY <1>1, <4>1 DEF Shorter
      <4>. QED  BY <3>2, <4>2 DEF Pending
    <3>. QED  BY <2>2, <3>1, <3>2 DEF Pending
  <2>. QED  BY <1>7, <1>15, <2>1, <2>2
<1>16. AskedKnown'
  <2>1. \A x \in sink' : x.q \in 1 .. Cardinality(asked)
    BY <1>0, <1>7, <1>9 DEF AskedInv, AskedKnown
  <2>. QED  BY <1>0, <1>1, <2>1 DEF AskedInv, AskedKnown
<1>17. AnswersInv'
  <2>. SUFFICES ASSUME NEW b \in asked, NEW t \in Shard, NEW p \in PositionsOf(b.values, t)
                PROVE  IF Pending(b, t)' THEN Got(b, p)' = {} ELSE Answered(b, p)'
    BY <1>1, <1>2, PositionsKept DEF AnswersInv
  <2>1. IF Pending(b, t) THEN Got(b, p) = {} ELSE Answered(b, p)
    BY <1>0 DEF AskedInv, AnswersInv
  <2>2. CASE b = a /\ t = s
    <3>1. p \in P /\ Got(a, p) = {}
      BY <1>13, <1>P, <2>1, <2>2
    <3>x. PICK x : x = [q |-> a.q, pos |-> p, key |-> key[p]]
      OBVIOUS
    <3>2. Got(a, p)' = {x} /\ x.key = key[p]
      BY <1>12, <3>1, <3>x
    <3>3. LET keys == KeysOf(a.seen, a.values[p])
          IN  IF keys = {} THEN key[p] = None ELSE key[p] \in keys
      BY <1>10, <3>1
    <3>4. Answered(a, p)'
      BY <3>2, <3>3 DEF Answered
    <3>. QED  BY <1>14, <2>2, <3>4
  <2>3. CASE ~(b = a /\ t = s)
    <3>1. ~(b = a /\ p \in P)
      <4>. SUFFICES ASSUME b = a, p \in P PROVE FALSE
        OBVIOUS
      <4>1. t # s
        BY <2>3
      <4>2. n # 1
        BY <1>0, <4>1, ShardsOfRows DEF TypeInv
      <4>. QED  BY <1>P, <4>1, <4>2 DEF PositionsOf
    <3>2. Got(b, p)' = Got(b, p)
      BY <1>11, <3>1
    <3>3. Answered(b, p)' <=> Answered(b, p)
      BY <3>2 DEF Answered
    <3>. QED  BY <1>15, <2>1, <2>3, <3>2, <3>3
  <2>. QED  BY <2>2, <2>3
<1>18. ReadyInv'
  <2>0. ready \subseteq Shard
    BY <1>0 DEF TypeInv
  <2>1. ASSUME NEW b \in asked, NEW t \in Shard, b.last PROVE Pending(b, t)' \/ t \in ready'
    <3>1. CASE b = a /\ t = s
      BY <1>6, <2>1, <3>1
    <3>2. CASE ~(b = a /\ t = s)
      BY <1>0, <1>6, <1>15, <2>1, <3>2 DEF AskedInv, ReadyInv
    <3>. QED  BY <3>1, <3>2
  <2>2. ASSUME NEW t \in ready'
        PROVE  /\ \E b \in asked : b.last
               /\ \A i \in 1 .. Len(queue'[t]) : queue'[t][i].op # "query"
    <3>1. CASE t \in ready
      <4>1. t # s
        BY <1>0, <1>1, <3>1 DEF AskedInv, ReadyInv
      <4>. QED  BY <1>0, <1>2, <2>0, <3>1, <4>1 DEF AskedInv, ReadyInv
    <3>2. CASE t \notin ready
      <4>1. a.last /\ t = s
        BY <1>6, <3>2
      <4>. QED  BY <1>14, <4>1
    <3>. QED  BY <3>1, <3>2
  <2>. QED  BY <1>1, <1>2, <2>1, <2>2 DEF ReadyInv
<1>. QED  BY <1>16, <1>17, <1>18 DEF AskedInv

\* The rest of the column, when a shard answers a query.
LEMMA StepQueryInv ==
  ASSUME IInv, NEW s \in Shard, step(s), queue[s][1].op = "query"
  PROVE  IInv'
<1>0. /\ TypeInv /\ PlaceInv /\ BufInv /\ RemoveInv /\ RangeInv
      /\ PhaseInv /\ RevInv /\ AskedInv /\ QueryInv
  BY DEF IInv
<1>1. /\ Shorter(s) /\ queue[s] # <<>> /\ Head(queue[s]) = queue[s][1]
      /\ queue[s][1] \in Cmd /\ 1 \in 1 .. Len(queue[s]) /\ Len(queue[s]) \in Nat
      /\ UNCHANGED <<kind, n, phase, sync_buf, asked, logical, calls, txs>>
  BY <1>0, StepTakes
<1>2. UNCHANGED <<call, forward, reverse, flushed>> /\ ready' \subseteq ready \cup {s}
  BY <1>1 DEF step, tableVars
<1>3. Shard' = Shard /\ queue' \in [Shard -> Seq(Cmd)]
  BY <1>1 DEF Shorter
<1>4. TypeInv'
  BY <1>0, <1>1, <1>2, <1>3 DEF TypeInv
<1>5. PlaceInv' /\ \A t \in Shard, k \in Key : At(t, k)' <=> At(t, k)
  <2>1. \A k \in Key : Busy(k)' <=> Busy(k)
    BY <1>2 DEF Busy
  <2>. QED  BY <1>0, <1>1, <1>2, <2>1, StepPlace
<1>6. BufInv'
  BY <1>0, <1>1, <1>2 DEF BufInv, Busy
<1>7. RemoveInv' /\ RangeInv'
  BY <1>0, <1>1, <1>2, <1>5, StepCall
<1>8. PhaseInv'
  BY <1>0, <1>1, <1>2, StepPhase
<1>9. RevInv'
  BY <1>0, <1>1, <1>2, RevKept
<1>10. AskedInv'
  BY StepQueryAnswers
<1>11. QueryInv'
  <2>1. \A k \in Key, v \in Value : ~Puts(queue[s][1], k, v)
    BY <1>1, PutsOfCommands
  <2>2. Moves(s)
    BY <1>2, <2>1 DEF Moves
  <2>. QED  BY <1>0, <1>1, <1>2, <2>2, StepQuery DEF AskedInv
<1>. QED  BY <1>4, <1>5, <1>6, <1>7, <1>8, <1>9, <1>10, <1>11 DEF IInv

\* A shard deletes a key, or does not have it.
LEMMA StepRemoveInv ==
  ASSUME IInv, NEW s \in Shard, step(s), queue[s][1].op = "remove"
  PROVE  IInv'
<1>0. /\ TypeInv /\ PlaceInv /\ BufInv /\ RemoveInv /\ RangeInv
      /\ PhaseInv /\ RevInv /\ AskedInv /\ QueryInv
  BY DEF IInv
<1>1. /\ Shorter(s) /\ queue[s] # <<>> /\ Head(queue[s]) = queue[s][1]
      /\ queue[s][1] \in Cmd /\ 1 \in 1 .. Len(queue[s]) /\ Len(queue[s]) \in Nat
      /\ UNCHANGED <<kind, n, phase, sync_buf, asked, logical, calls, txs>>
  BY <1>0, StepTakes
<1>k. PICK k : k = queue[s][1].k
  OBVIOUS
<1>f. PICK f : f = (forward[s][k] # None)
  OBVIOUS
<1>2. /\ RemoveRow(s, k)
      /\ call' = [op |-> "removed", k |-> k, shard |-> s, found |-> f, expected |-> call.expected]
      /\ UNCHANGED <<flushed, sink, ready>>
  BY <1>1, <1>k, <1>f DEF step
<1>3. /\ Shard' = Shard /\ queue' \in [Shard -> Seq(Cmd)]
      /\ \A t \in Shard : t # s => queue'[t] = queue[t]
  BY <1>1 DEF Shorter
<1>4. /\ Len(queue[s]) = 1 /\ call.op = "remove" /\ call.shard = s /\ call.k = k /\ k \in Key
      /\ logical[k] = None /\ call.expected \in BOOLEAN
  <2>1. Len(queue[s]) = 1 /\ call.op = "remove" /\ call.shard = s /\ call.k = k
    BY <1>0, <1>1, <1>k DEF RemoveInv
  <2>2. call.k \in Key /\ call.expected \in BOOLEAN
    BY <1>0, <2>1 DEF TypeInv
  <2>3. logical[k] = None
    BY <1>0, <2>1 DEF RemoveInv
  <2>. QED  BY <2>1, <2>2, <2>3
<1>5. queue'[s] = <<>> /\ Len(queue'[s]) = 0 /\ 1 .. Len(queue'[s]) = {} /\ 1 .. Len(queue[s]) = {1}
  <2>1. queue'[s] = <<>>
    BY <1>1, <1>4 DEF Shorter
  <2>. QED  BY <1>4, <2>1
<1>6. /\ call'.op = "removed" /\ call'.k = k /\ call'.shard = s /\ call'.found = f
      /\ call'.expected = call.expected /\ \A j : Busy(j)' <=> Busy(j)
  BY <1>2, <1>4 DEF Busy
<1>7. /\ forward' \in [Shard -> Map] /\ forward'[s][k] = None
      /\ \A t \in Shard, j \in Key : ~(t = s /\ j = k) => forward'[t][j] = forward[t][j]
  <2>1. forward \in [Shard -> Map] /\ forward[s] \in Map
    BY <1>0 DEF TypeInv
  <2>m. PICK m : m = [forward[s] EXCEPT ![k] = None]
    OBVIOUS
  <2>2. forward' = [forward EXCEPT ![s] = m]
    BY <1>2, <2>m DEF RemoveRow
  <2>3. m \in Map /\ m[k] = None /\ \A j \in Key : j # k => m[j] = forward[s][j]
    BY <1>4, <2>1, <2>m DEF Map
  <2>. QED  BY <2>1, <2>2, <2>3
<1>8. /\ reverse' \in [Shard -> [Value -> SUBSET Key]]
      /\ \A t \in Shard : t # s => reverse'[t] = reverse[t]
      /\ kind = "index" => \A v \in Value :
           reverse'[s][v] = IF forward[s][k] = v THEN reverse[s][v] \ {k} ELSE reverse[s][v]
  <2>1. reverse \in [Shard -> [Value -> SUBSET Key]]
    BY <1>0 DEF TypeInv
  <2>m. PICK m : m = [v \in Value |-> IF forward[s][k] = v THEN reverse[s][v] \ {k} ELSE reverse[s][v]]
    OBVIOUS
  <2>2. reverse' = IF kind = "plain" THEN reverse ELSE [reverse EXCEPT ![s] = m]
    BY <1>2, <2>m DEF RemoveRow
  <2>3. m \in [Value -> SUBSET Key]
    BY <2>1, <2>m
  <2>4. \A v \in Value : m[v] = IF forward[s][k] = v THEN reverse[s][v] \ {k} ELSE reverse[s][v]
    BY <2>m
  <2>. QED  BY <2>1, <2>2, <2>3, <2>4
<1>9. TypeInv'
  <2>1. f \in BOOLEAN
    BY <1>f
  <2>2. /\ call'.op = "removed" /\ call'.k \in Key /\ call'.shard \in Shard'
        /\ call'.expected \in BOOLEAN /\ call'.found \in BOOLEAN
    BY <1>3, <1>4, <1>6, <2>1
  <2>. QED  BY <1>0, <1>1, <1>2, <1>3, <1>7, <1>8, <2>2 DEF TypeInv
<1>10. \A j \in Key : ~Coming(s, j) /\ ~Coming(s, j)'
  <2>1. \A j \in Key, v \in Value : ~Puts(queue[s][1], j, v)
    BY <1>1, PutsOfCommands
  <2>. QED  BY <1>5, <2>1 DEF Coming
<1>11. ASSUME NEW t \in Shard, NEW j \in Key
       PROVE  At(t, j)' <=> At(t, j) /\ ~(t = s /\ j = k)
  <2>1. CASE t = s
    BY <1>7, <1>10, <2>1 DEF At
  <2>2. CASE t # s
    <3>1. Coming(t, j)' <=> Coming(t, j)
      BY <1>3, <2>2 DEF Coming
    <3>. QED  BY <1>7, <2>2, <3>1 DEF At
  <2>. QED  BY <2>1, <2>2
<1>12. \A j \in Key, v \in Value : ShardOf(j, v)' = ShardOf(j, v) /\ (Known(j, v)' <=> Known(j, v))
  BY <1>1, <1>6 DEF ShardOf, PartitionOf, Known
<1>13. PlaceInv'
  <2>1. PlaceTables'
    <3>. SUFFICES ASSUME NEW t \in Shard, NEW j \in Key, NEW v \in Value, forward'[t][j] = v
                  PROVE  t = ShardOf(j, v) /\ Known(j, v)
      BY <1>3, <1>12 DEF PlaceTables
    <3>1. ~(t = s /\ j = k)
      BY <1>7, ShardedAssumption
    <3>2. forward[t][j] = v
      BY <1>7, <3>1
    <3>. QED  BY <1>0, <3>2 DEF PlaceInv, PlaceTables
  <2>2. PlaceQueues'
    <3>. SUFFICES ASSUME NEW t \in Shard, NEW j \in Key, NEW v \in Value, NEW i \in 1 .. Len(queue'[t]),
                         Puts(queue'[t][i], j, v)
                  PROVE  t = ShardOf(j, v) /\ Known(j, v) /\ forward'[t][j] = None
      BY <1>3, <1>12 DEF PlaceQueues
    <3>1. t # s /\ queue'[t] = queue[t]
      BY <1>3, <1>5
    <3>2. t = ShardOf(j, v) /\ Known(j, v) /\ forward[t][j] = None
      BY <1>0, <3>1 DEF PlaceInv, PlaceQueues
    <3>. QED  BY <1>7, <3>1, <3>2
  <2>3. PlaceOnce'
    BY <1>0, <1>3, <1>11 DEF PlaceInv, PlaceOnce
  <2>4. PutOnce' /\ RowsDistinct'
    <3>1. \A t \in Shard : queue'[t] = queue[t] \/ 1 .. Len(queue'[t]) = {}
      BY <1>3, <1>5
    <3>. QED  BY <1>0, <1>3, <3>1 DEF PlaceInv, PutOnce, RowsDistinct
  <2>5. PlaceAll'
    <3>. SUFFICES ASSUME NEW j \in Key, NEW v \in Value, logical[j] = v
                  PROVE  At(ShardOf(j, v), j)'
      BY <1>1, <1>12 DEF PlaceAll
    <3>1. ShardOf(j, v) \in Shard
      BY <1>0, ShardsOfRows DEF TypeInv
    <3>2. j # k
      BY <1>4, ShardedAssumption
    <3>3. At(ShardOf(j, v), j)
      BY <1>0 DEF PlaceInv, PlaceAll
    <3>. QED  BY <1>11, <1>12, <3>1, <3>2, <3>3
  <2>. QED  BY <2>1, <2>2, <2>3, <2>4, <2>5 DEF PlaceInv
<1>14. BufInv'
  BY <1>0, <1>1, <1>6 DEF BufInv
<1>15. RemoveInv'
  <2>1. /\ call.expected <=> \E t \in Shard : At(t, k)
        /\ \A t \in Shard : At(t, k) => IF kind = "plain" THEN t = s ELSE t >= s
    BY <1>0, <1>4 DEF RemoveInv
  <2>2. f <=> At(s, k)
    BY <1>4, <1>10, <1>f DEF At
  <2>3. ASSUME f PROVE call.expected /\ \A t \in Shard : ~At(t, k)'
    <3>1. \A t \in Shard : At(t, k) => t = s
      BY <1>0, <1>4, <2>2, <2>3 DEF PlaceInv, PlaceOnce
    <3>. QED  BY <1>4, <1>11, <2>1, <2>2, <2>3, <3>1
  <2>4. ASSUME ~f
        PROVE  /\ call.expected <=> \E t \in Shard : At(t, k)'
               /\ \A t \in Shard : At(t, k)' => kind = "index" /\ t > s
    <3>1. \A t \in Shard : At(t, k)' <=> At(t, k)
      BY <1>4, <1>11, <2>2, <2>4
    <3>2. ASSUME NEW t \in Shard, At(t, k) PROVE kind = "index" /\ t > s
      <4>1. t # s
        BY <2>2, <2>4, <3>2
      <4>2. kind \in {"plain", "index"} /\ t \in Int /\ s \in Int
        BY <1>0 DEF TypeInv, Shard
      <4>. QED  BY <2>1, <3>2, <4>1, <4>2
    <3>. QED  BY <2>1, <3>1, <3>2
  <2>5. ASSUME NEW t \in Shard, NEW i \in Nat, i \in 1 .. Len(queue'[t]) PROVE queue'[t][i].op # "remove"
    <3>1. t # s /\ queue'[t] = queue[t]
      BY <1>3, <1>5, <2>5
    <3>. QED  BY <1>0, <1>4, <2>5, <3>1 DEF RemoveInv
  <2>6. IF call'.found THEN call'.expected /\ \A t \in Shard' : ~At(t, call.k)'
        ELSE /\ call'.expected <=> \E t \in Shard' : At(t, call.k)'
             /\ \A t \in Shard' : At(t, call.k)' => kind' = "index" /\ t > call'.shard
    <3>1. (call.k)' = k
      BY <1>6
    <3>. QED  BY <1>1, <1>3, <1>6, <2>3, <2>4, <3>1
  <2>7. logical'[call'.k] = None
    BY <1>1, <1>4, <1>6
  <2>. QED  BY <1>3, <1>6, <2>5, <2>6, <2>7 DEF RemoveInv
<1>16. RangeInv'
  <2>1. ASSUME NEW t \in Shard, NEW i \in Nat, i \in 1 .. Len(queue'[t]) PROVE queue'[t][i].op # "range"
    <3>1. t # s /\ queue'[t] = queue[t]
      BY <1>3, <1>5, <2>1
    <3>. QED  BY <1>0, <1>4, <2>1, <3>1 DEF RangeInv
  <2>. QED  BY <1>3, <1>6, <2>1 DEF RangeInv
<1>17. PhaseInv'
  <2>1. call'.op # "none" => call.op # "none"
    BY <1>4
  <2>. QED  BY <1>0, <1>1, <1>2, <2>1, StepPhase
<1>18. RevInv'
  <2>. SUFFICES ASSUME kind = "index", NEW t \in Shard, NEW v \in Value
                PROVE  reverse'[t][v] = {j \in Key : forward'[t][j] = v}
    BY <1>1, <1>3 DEF RevInv
  <2>1. reverse[t][v] = {j \in Key : forward[t][j] = v}
    BY <1>0 DEF RevInv
  <2>2. CASE t # s
    BY <1>7, <1>8, <2>1, <2>2
  <2>3. CASE t = s
    <3>1. ASSUME NEW j \in Key PROVE forward'[s][j] = v <=> forward[s][j] = v /\ j # k
      BY <1>7, ShardedAssumption
    <3>2. reverse'[s][v] = reverse[s][v] \ {k}
      <4>1. reverse'[s][v] = IF forward[s][k] = v THEN reverse[s][v] \ {k} ELSE reverse[s][v]
        BY <1>8
      <4>2. forward[s][k] # v => k \notin reverse[s][v]
        BY <2>1, <2>3
      <4>. QED  BY <4>1, <4>2
    <3>. QED  BY <2>1, <2>3, <3>1, <3>2
  <2>. QED  BY <2>2, <2>3
<1>19. AskedInv'
  BY <1>0, <1>1, <1>2, StepAsked
<1>20. QueryInv'
  BY <1>0, <1>1, <1>5, <1>8, StepQuery DEF Moves, AskedInv
<1>. QED  BY <1>9, <1>13, <1>14, <1>15, <1>16, <1>17, <1>18, <1>19, <1>20 DEF IInv

\* The rows of a command.
RowsOfCmd(c, rows) == (c.op = "insert" /\ rows = <<c>>) \/ (c.op = "write" /\ rows = c.rows)

\* A command with rows brings them to the table, and nothing else changes there.
LEMMA RowsStored ==
  ASSUME TypeInv, NEW s \in Shard, NEW c \in Cmd, c.op = "write" => DistinctKeys(c),
         NEW rows, RowsOfCmd(c, rows), InsertRows(s, rows)
  PROVE  /\ forward' \in [Shard -> Map] /\ reverse' \in [Shard -> [Value -> SUBSET Key]]
         /\ \A t \in Shard : t # s => forward'[t] = forward[t] /\ reverse'[t] = reverse[t]
         /\ \A k \in Key, v \in Value : Puts(c, k, v) => forward'[s][k] = v
         /\ \A k \in Key : (\A v \in Value : ~Puts(c, k, v)) => forward'[s][k] = forward[s][k]
         /\ kind = "index" => \A v \in Value :
              reverse'[s][v] = reverse[s][v] \cup {k \in Key : Puts(c, k, v)}
<1>1. /\ DOMAIN rows \subseteq Nat
      /\ \A i \in DOMAIN rows : rows[i].k \in Key /\ rows[i].v \in Value
      /\ \A i, j \in DOMAIN rows : rows[i].k = rows[j].k => i = j
      /\ \A k, v : Puts(c, k, v) <=> \E i \in DOMAIN rows : rows[i].k = k /\ rows[i].v = v
  <2>1. CASE c.op = "insert"
    <3>1. c \in InsertCmd /\ rows = <<c>>
      BY <2>1, CommandKinds DEF RowsOfCmd
    <3>2. c.k \in Key /\ c.v \in Value
      BY <3>1 DEF InsertCmd
    <3>3. DOMAIN rows = {1} /\ rows[1] = c
      BY <3>1
    <3>. QED  BY <2>1, <3>2, <3>3 DEF Puts
  <2>2. CASE c.op = "write"
    <3>1. c \in WriteCmd /\ rows = c.rows /\ DistinctKeys(c)
      BY <2>2, CommandKinds DEF RowsOfCmd
    <3>2. rows \in RowMaps
      BY <3>1 DEF WriteCmd
    <3>3. PICK D \in SUBSET Nat : rows \in [D -> Row]
      BY <3>2 DEF RowMaps
    <3>4. DOMAIN rows \subseteq Nat /\ \A i \in DOMAIN rows : rows[i].k \in Key /\ rows[i].v \in Value
      BY <3>3 DEF Row
    <3>. QED  BY <2>2, <3>1, <3>4 DEF Puts, DistinctKeys
  <2>. QED  BY <2>1, <2>2 DEF RowsOfCmd
<1>m. PICK m : m = Stored(forward[s], rows)
  OBVIOUS
<1>2. /\ \A k \in Key : (\A i \in DOMAIN rows : rows[i].k # k) => m[k] = forward[s][k]
      /\ \A i \in DOMAIN rows : m[rows[i].k] = rows[i].v
      /\ m = [k \in Key |-> m[k]]
  BY <1>1, <1>m, StoredIs
<1>3. forward \in [Shard -> Map] /\ reverse \in [Shard -> [Value -> SUBSET Key]] /\ forward[s] \in Map
  BY DEF TypeInv
<1>4. forward' = [forward EXCEPT ![s] = m]
  BY <1>m DEF InsertRows
<1>5. /\ \A k \in Key, v \in Value : Puts(c, k, v) => m[k] = v
      /\ \A k \in Key : (\A v \in Value : ~Puts(c, k, v)) => m[k] = forward[s][k]
  BY <1>1, <1>2
<1>6. m \in Map
  <2>1. ASSUME NEW k \in Key PROVE m[k] \in Value \cup {None}
    <3>1. CASE \E v \in Value : Puts(c, k, v)
      BY <1>5, <3>1
    <3>2. CASE \A v \in Value : ~Puts(c, k, v)
      BY <1>3, <1>5, <3>2 DEF Map
    <3>. QED  BY <3>1, <3>2
  <2>. QED  BY <1>2, <2>1 DEF Map
<1>w. PICK w : w = [v \in Value |-> reverse[s][v] \cup {rows[i].k : i \in {i \in DOMAIN rows : rows[i].v = v}}]
  OBVIOUS
<1>7. reverse' = IF kind = "plain" THEN reverse ELSE [reverse EXCEPT ![s] = w]
  BY <1>w DEF InsertRows
<1>8. ASSUME NEW v \in Value PROVE w[v] = reverse[s][v] \cup {k \in Key : Puts(c, k, v)}
  <2>1. {rows[i].k : i \in {i \in DOMAIN rows : rows[i].v = v}} = {k \in Key : Puts(c, k, v)}
    BY <1>1
  <2>. QED  BY <1>w, <2>1
<1>9. w \in [Value -> SUBSET Key]
  BY <1>3, <1>8, <1>w
<1>10. reverse' \in [Shard -> [Value -> SUBSET Key]] /\ \A t \in Shard : t # s => reverse'[t] = reverse[t]
  BY <1>3, <1>7, <1>9
<1>11. kind = "index" => reverse'[s] = w
  BY <1>3, <1>7
<1>. QED  BY <1>3, <1>4, <1>5, <1>6, <1>8, <1>10, <1>11

\* A shard stores rows.
LEMMA StepPutInv ==
  ASSUME IInv, NEW s \in Shard, step(s), queue[s][1].op \in {"insert", "write"}
  PROVE  IInv'
<1>0. /\ TypeInv /\ PlaceInv /\ BufInv /\ RemoveInv /\ RangeInv
      /\ PhaseInv /\ RevInv /\ AskedInv /\ QueryInv
  BY DEF IInv
<1>1. /\ Shorter(s) /\ queue[s] # <<>> /\ Head(queue[s]) = queue[s][1]
      /\ queue[s][1] \in Cmd /\ 1 \in 1 .. Len(queue[s]) /\ Len(queue[s]) \in Nat
      /\ UNCHANGED <<kind, n, phase, sync_buf, asked, logical, calls, txs>>
  BY <1>0, StepTakes
<1>c. PICK c : c = queue[s][1]
  OBVIOUS
<1>2. /\ \E rows : RowsOfCmd(c, rows) /\ InsertRows(s, rows)
      /\ UNCHANGED <<call, flushed, sink, ready>>
  <2>1. CASE c.op = "insert"
    <3>1. InsertRows(s, <<c>>) /\ UNCHANGED <<call, flushed, sink, ready>>
      BY <1>1, <1>c, <2>1 DEF step
    <3>. QED  BY <2>1, <3>1 DEF RowsOfCmd
  <2>2. CASE c.op = "write"
    <3>1. InsertRows(s, c.rows) /\ UNCHANGED <<call, flushed, sink, ready>>
      BY <1>1, <1>c, <2>2 DEF step
    <3>. QED  BY <2>2, <3>1 DEF RowsOfCmd
  <2>. QED  BY <1>c, <2>1, <2>2
<1>3. /\ forward' \in [Shard -> Map] /\ reverse' \in [Shard -> [Value -> SUBSET Key]]
      /\ \A t \in Shard : t # s => forward'[t] = forward[t] /\ reverse'[t] = reverse[t]
      /\ \A k \in Key, v \in Value : Puts(c, k, v) => forward'[s][k] = v
      /\ \A k \in Key : (\A v \in Value : ~Puts(c, k, v)) => forward'[s][k] = forward[s][k]
      /\ kind = "index" => \A v \in Value :
           reverse'[s][v] = reverse[s][v] \cup {k \in Key : Puts(c, k, v)}
  <2>1. c \in Cmd /\ (c.op = "write" => DistinctKeys(c))
    BY <1>0, <1>1, <1>c DEF PlaceInv, RowsDistinct
  <2>2. PICK rows : RowsOfCmd(c, rows) /\ InsertRows(s, rows)
    BY <1>2
  <2>. QED  BY <1>0, <2>1, <2>2, RowsStored
<1>4. /\ Shard' = Shard /\ queue' \in [Shard -> Seq(Cmd)]
      /\ \A t \in Shard : t # s => queue'[t] = queue[t]
  BY <1>1 DEF Shorter
<1>5. \A k \in Key, v \in Value : Puts(c, k, v) => s = ShardOf(k, v) /\ Known(k, v) /\ forward[s][k] = None
  BY <1>0, <1>1, <1>c DEF PlaceInv, PlaceQueues
<1>6. ASSUME NEW k \in Key, NEW v \in Value, Puts(c, k, v)
      PROVE  \A i \in 1 .. Len(queue'[s]), w \in Value : ~Puts(queue'[s][i], k, w)
  <2>. SUFFICES ASSUME NEW i \in 1 .. Len(queue'[s]), NEW w \in Value, Puts(queue'[s][i], k, w) PROVE FALSE
    OBVIOUS
  <2>1. i + 1 \in 1 .. Len(queue[s]) /\ queue'[s][i] = queue[s][i + 1] /\ i + 1 # 1
    BY <1>1 DEF Shorter
  <2>. QED  BY <1>0, <1>1, <1>6, <1>c, <2>1 DEF PlaceInv, PutOnce
<1>7. \A k \in Key, v \in Value : /\ ShardOf(k, v)' = ShardOf(k, v)
                                  /\ (Known(k, v)' <=> Known(k, v)) /\ (Busy(k)' <=> Busy(k))
  BY <1>1, <1>2 DEF ShardOf, PartitionOf, Known, Busy
<1>8. TypeInv'
  BY <1>0, <1>1, <1>2, <1>3, <1>4 DEF TypeInv
<1>9. \A k \in Key : forward[s][k] # None => \A v \in Value : ~Puts(c, k, v)
  BY <1>5
<1>10. ASSUME NEW t \in Shard, NEW k \in Key PROVE At(t, k)' <=> At(t, k)
  <2>1. CASE t # s
    <3>1. Coming(t, k)' <=> Coming(t, k)
      BY <1>4, <2>1 DEF Coming
    <3>. QED  BY <1>3, <2>1, <3>1 DEF At
  <2>2. CASE t = s
    <3>1. Coming(s, k)' => Coming(s, k)
      <4>1. \A i \in 1 .. Len(queue'[s]) : i + 1 \in 1 .. Len(queue[s]) /\ queue'[s][i] = queue[s][i + 1]
        BY <1>1 DEF Shorter
      <4>. QED  BY <4>1, Zenon DEF Coming
    <3>2. forward'[s][k] # None => At(s, k)
      BY <1>1, <1>3, <1>c DEF At, Coming
    <3>3. forward[s][k] # None => At(s, k)'
      BY <1>3, <1>9 DEF At
    <3>4. ASSUME NEW j \in 1 .. Len(queue[s]), NEW v \in Value, Puts(queue[s][j], k, v) PROVE At(s, k)'
      <4>1. CASE j = 1
        <5>1. forward'[s][k] = v
          BY <1>3, <1>c, <3>4, <4>1
        <5>. QED  BY <5>1, ShardedAssumption DEF At
      <4>2. CASE j # 1
        <5>1. j - 1 \in 1 .. Len(queue'[s]) /\ queue'[s][j - 1] = queue[s][j]
          BY <1>1, <4>2 DEF Shorter
        <5>. QED  BY <3>4, <5>1 DEF At, Coming
      <4>. QED  BY <4>1, <4>2
    <3>. QED  BY <2>2, <3>1, <3>2, <3>3, <3>4 DEF At, Coming
  <2>. QED  BY <2>1, <2>2
<1>11. PlaceTables'
  <2>. SUFFICES ASSUME NEW t \in Shard, NEW k \in Key, NEW v \in Value, forward'[t][k] = v
                PROVE  t = ShardOf(k, v) /\ Known(k, v)
    BY <1>4, <1>7 DEF PlaceTables
  <2>1. CASE t = s /\ \E w \in Value : Puts(c, k, w)
    BY <1>3, <1>5, <2>1
  <2>2. CASE ~(t = s /\ \E w \in Value : Puts(c, k, w))
    <3>1. forward[t][k] = v
      BY <1>3, <2>2
    <3>. QED  BY <1>0, <3>1 DEF PlaceInv, PlaceTables
  <2>. QED  BY <2>1, <2>2
<1>12. PlaceQueues'
  <2>. SUFFICES ASSUME NEW t \in Shard, NEW k \in Key, NEW v \in Value, NEW i \in 1 .. Len(queue'[t]),
                       Puts(queue'[t][i], k, v)
                PROVE  t = ShardOf(k, v) /\ Known(k, v) /\ forward'[t][k] = None
    BY <1>4, <1>7 DEF PlaceQueues
  <2>1. Was(s, t, i) \in 1 .. Len(queue[t]) /\ queue'[t][i] = queue[t][Was(s, t, i)]
    BY <1>0, <1>1, Shifted
  <2>2. t = ShardOf(k, v) /\ Known(k, v) /\ forward[t][k] = None
    BY <1>0, <2>1 DEF PlaceInv, PlaceQueues
  <2>3. forward'[t][k] = forward[t][k]
    BY <1>3, <1>6
  <2>. QED  BY <2>2, <2>3
<1>13. PlaceOnce'
  BY <1>0, <1>4, <1>10 DEF PlaceInv, PlaceOnce
<1>14. PutOnce'
  <2>. SUFFICES ASSUME NEW t \in Shard, NEW k \in Key, NEW v \in Value, NEW w \in Value,
                       NEW i \in 1 .. Len(queue'[t]), NEW j \in 1 .. Len(queue'[t]),
                       Puts(queue'[t][i], k, v), Puts(queue'[t][j], k, w)
                PROVE  i = j
    BY <1>4 DEF PutOnce
  <2>1. /\ Was(s, t, i) \in 1 .. Len(queue[t]) /\ Puts(queue[t][Was(s, t, i)], k, v)
        /\ Was(s, t, j) \in 1 .. Len(queue[t]) /\ Puts(queue[t][Was(s, t, j)], k, w)
        /\ Was(s, t, i) = Was(s, t, j) => i = j
    BY <1>0, <1>1, Shifted
  <2>. QED  BY <1>0, <2>1 DEF PlaceInv, PutOnce
<1>15. RowsDistinct'
  <2>1. \A t \in Shard : \A i \in 1 .. Len(queue'[t]) :
          Was(s, t, i) \in 1 .. Len(queue[t]) /\ queue'[t][i] = queue[t][Was(s, t, i)]
    BY <1>0, <1>1, Shifted
  <2>. QED  BY <1>0, <1>4, <2>1 DEF PlaceInv, RowsDistinct
<1>16. PlaceAll'
  <2>1. \A k \in Key, v \in Value : ShardOf(k, v) \in Shard
    BY <1>0, ShardsOfRows DEF TypeInv
  <2>. QED  BY <1>0, <1>1, <1>7, <1>10, <2>1 DEF PlaceInv, PlaceAll
<1>17. PlaceInv'
  BY <1>11, <1>12, <1>13, <1>14, <1>15, <1>16 DEF PlaceInv
<1>18. BufInv'
  BY <1>0, <1>1, <1>2 DEF BufInv, Busy
<1>19. RemoveInv' /\ RangeInv'
  BY <1>0, <1>1, <1>2, <1>10, StepCall
<1>20. PhaseInv'
  BY <1>0, <1>1, <1>2, StepPhase
<1>21. RevInv'
  <2>. SUFFICES ASSUME kind = "index", NEW t \in Shard, NEW v \in Value
                PROVE  reverse'[t][v] = {k \in Key : forward'[t][k] = v}
    BY <1>1, <1>4 DEF RevInv
  <2>1. reverse[t][v] = {k \in Key : forward[t][k] = v}
    BY <1>0 DEF RevInv
  <2>2. CASE t # s
    BY <1>3, <2>1, <2>2
  <2>3. CASE t = s
    <3>1. ASSUME NEW k \in Key PROVE forward'[s][k] = v <=> forward[s][k] = v \/ Puts(c, k, v)
      <4>1. CASE \E w \in Value : Puts(c, k, w)
        <5>1. PICK w \in Value : Puts(c, k, w)
          BY <4>1
        <5>2. forward'[s][k] = w /\ forward[s][k] = None
          BY <1>3, <1>5, <5>1
        <5>3. Puts(c, k, v) => forward'[s][k] = v
          BY <1>3
        <5>. QED  BY <5>1, <5>2, <5>3, ShardedAssumption
      <4>2. CASE \A w \in Value : ~Puts(c, k, w)
        BY <1>3, <4>2
      <4>. QED  BY <4>1, <4>2
    <3>2. reverse'[s][v] = reverse[s][v] \cup {k \in Key : Puts(c, k, v)}
      BY <1>3
    <3>. QED  BY <2>1, <2>3, <3>1, <3>2
  <2>. QED  BY <2>2, <2>3
<1>22. AskedInv'
  BY <1>0, <1>1, <1>2, StepAsked
<1>23. QueryInv'
  <2>1. kind = "index" => Moves(s)
    BY <1>3, <1>c DEF Moves
  <2>. QED  BY <1>0, <1>1, <2>1, StepQuery DEF AskedInv
<1>. QED  BY <1>8, <1>17, <1>18, <1>19, <1>20, <1>21, <1>22, <1>23 DEF IInv

\* A writer thread takes its next command.
LEMMA StepInv ==
  ASSUME IInv, NEW s \in Shard, step(s)
  PROVE  IInv'
<1>1. TypeInv
  BY DEF IInv
<1>2. queue[s][1] \in Cmd
  BY <1>1, StepTakes
<1>3. queue[s][1].op \in {"insert", "write", "remove", "range", "query", "flush"}
  BY <1>2, CommandKinds
<1>4. CASE queue[s][1].op \in {"insert", "write"}
  BY <1>4, StepPutInv
<1>5. CASE queue[s][1].op = "remove"
  BY <1>5, StepRemoveInv
<1>6. CASE queue[s][1].op = "range"
  BY <1>6, StepRangeInv
<1>7. CASE queue[s][1].op = "query"
  BY <1>7, StepQueryInv
<1>8. CASE queue[s][1].op = "flush"
  BY <1>8, StepFlushInv
<1>. QED  BY <1>3, <1>4, <1>5, <1>6, <1>7, <1>8

\* Nothing happens.
LEMMA StutterInv ==
  ASSUME IInv, UNCHANGED vars
  PROVE  IInv'
<1>1. /\ TypeInv /\ PlaceInv /\ BufInv /\ RemoveInv /\ RangeInv
      /\ PhaseInv /\ RevInv /\ AskedInv /\ QueryInv
  BY DEF IInv
<1>2. UNCHANGED <<kind, n, phase, call, sync_buf, queue, forward, reverse, flushed,
                  sink, ready, asked, logical>>
  BY DEF vars
<1>3. /\ Shard' = Shard /\ \A k : Busy(k)' <=> Busy(k)
      /\ \A k, v : ShardOf(k, v)' = ShardOf(k, v) /\ (Known(k, v)' <=> Known(k, v))
      /\ \A s, k : Coming(s, k)' <=> Coming(s, k)
  BY <1>2 DEF Shard, Busy, ShardOf, PartitionOf, Known, Coming
<1>4. \A s, k : At(s, k)' <=> At(s, k)
  BY <1>2, <1>3 DEF At
<1>5. TypeInv'
  BY <1>1, <1>2, <1>3 DEF TypeInv
<1>6. PlaceTables' /\ PlaceQueues' /\ PlaceOnce'
  BY <1>1, <1>2, <1>3, <1>4 DEF PlaceInv, PlaceTables, PlaceQueues, PlaceOnce
<1>7. PutOnce' /\ RowsDistinct' /\ PlaceAll'
  BY <1>1, <1>2, <1>3, <1>4 DEF PlaceInv, PutOnce, RowsDistinct, PlaceAll
<1>8. BufInv'
  BY <1>1, <1>2, <1>3 DEF BufInv
<1>9. RemoveInv'
  BY <1>1, <1>2, <1>3, <1>4 DEF RemoveInv
<1>10. RangeInv' /\ PhaseInv'
  BY <1>1, <1>2, <1>3 DEF RangeInv, PhaseInv, RowsIn
<1>11. RevInv'
  BY <1>1, <1>2, RevKept
<1>12. AskedInv' /\ QueryInv'
  <2>1. Extend(Nothing) /\ \A s \in Shard : \A i \in 1 .. Len(Nothing[s]) : Nothing[s][i].op # "query"
    BY <1>1, <1>2, SendNothing
  <2>. QED  BY <1>1, <1>2, <2>1, QueriesKept
<1>. QED  BY <1>5, <1>6, <1>7, <1>8, <1>9, <1>10, <1>11, <1>12 DEF IInv, PlaceInv

\* Every step keeps the invariant.
LEMMA NextInv ==
  ASSUME IInv, Overwrites = FALSE, [Next]_vars
  PROVE  IInv'
<1>1. CASE begin
  BY <1>1, BeginInv
<1>2. ASSUME NEW k \in Key, delete_kv(k) PROVE IInv'
  BY <1>2, DeleteInv
<1>3. ASSUME NEW k \in Key, NEW v \in Value, insert_on_flush(k, v) PROVE IInv'
  BY <1>3, InsertOnFlushInv
<1>4. ASSUME NEW k \in Key, NEW v \in Value, insert_now(k, v) PROVE IInv'
  BY <1>4, InsertNowInv
<1>5. ASSUME NEW from \in Key, NEW until \in Key, range(from, until) PROVE IInv'
  BY <1>5, AskRangeInv
<1>6. ASSUME NEW values \in Queries, NEW last \in BOOLEAN, query_and_write(values, last) PROVE IInv'
  BY <1>6, QueryInvKept
<1>7. CASE DeleteAnswered
  <2>1. CASE call.found \/ kind = "plain" \/ call.shard = n - 1
    BY <1>7, <2>1, DeleteReturnsInv
  <2>2. CASE ~ (call.found \/ kind = "plain" \/ call.shard = n - 1)
    BY <1>7, <2>2, DeleteGoesOnInv
  <2>. QED  BY <2>1, <2>2
<1>8. CASE RangeAnswered
  BY <1>8, RangeAnsweredInv
<1>9. CASE flush
  BY <1>9, FlushInv
<1>10. CASE FlushAcked
  BY <1>10, FlushAckedInv
<1>11. ASSUME NEW s \in Shard, step(s) PROVE IInv'
  BY <1>11, StepInv
<1>12. CASE UNCHANGED vars
  BY <1>12, StutterInv
<1>. QED  BY <1>1, <1>2, <1>3, <1>4, <1>5, <1>6, <1>7, <1>8, <1>9, <1>10, <1>11, <1>12 DEF Next

-----------------------------------------------------------------------------
(***************************************************************************)
(* What the callers see                                                    *)
(***************************************************************************)

\* After a flush a key is in its shard with the value the caller knows, and nowhere else.
LEMMA Settled ==
  ASSUME IInv, phase = "idle"
  PROVE  /\ \A s \in Shard, k \in Key : forward[s][k] # None =>
              logical[k] \in Value /\ s = ShardOf(k, logical[k]) /\ forward[s][k] = logical[k]
         /\ \A k \in Key : logical[k] # None =>
              /\ logical[k] \in Value /\ ShardOf(k, logical[k]) \in Shard
              /\ forward[ShardOf(k, logical[k])][k] = logical[k]
<1>0. TypeInv /\ PlaceInv /\ PhaseInv
  BY DEF IInv
<1>1. /\ \A k : ~Busy(k)
      /\ \A s \in Shard : queue[s] = <<>> /\ 1 .. Len(queue[s]) = {}
  <2>1. call.op = "none" /\ \A s \in Shard : queue[s] = <<>>
    BY <1>0 DEF PhaseInv
  <2>2. \A s \in Shard : 1 .. Len(queue[s]) = {}
    BY <2>1
  <2>. QED  BY <2>1, <2>2 DEF Busy
<1>2. \A s \in Shard, k \in Key : At(s, k) <=> forward[s][k] # None
  BY <1>1 DEF At, Coming
<1>3. \A s \in Shard, k \in Key : forward[s][k] \in Value \cup {None} /\ logical[k] \in Value \cup {None}
  BY <1>0 DEF TypeInv, Map
<1>4. ASSUME NEW s \in Shard, NEW k \in Key, forward[s][k] # None
      PROVE  logical[k] \in Value /\ s = ShardOf(k, logical[k]) /\ forward[s][k] = logical[k]
  <2>1. forward[s][k] \in Value
    BY <1>3, <1>4
  <2>2. s = ShardOf(k, forward[s][k]) /\ logical[k] = forward[s][k]
    BY <1>0, <1>1, <2>1 DEF PlaceInv, PlaceTables, Known
  <2>. QED  BY <2>1, <2>2
<1>5. ASSUME NEW k \in Key, logical[k] # None
      PROVE  /\ logical[k] \in Value /\ ShardOf(k, logical[k]) \in Shard
             /\ forward[ShardOf(k, logical[k])][k] = logical[k]
  <2>1. logical[k] \in Value
    BY <1>0, <1>5 DEF TypeInv, Map
  <2>2. ShardOf(k, logical[k]) \in Shard
    BY <1>0, <2>1, ShardsOfRows DEF TypeInv
  <2>3. At(ShardOf(k, logical[k]), k)
    BY <1>0, <2>1 DEF PlaceInv, PlaceAll
  <2>. QED  BY <1>2, <1>4, <2>1, <2>2, <2>3
<1>. QED  BY <1>4, <1>5

\* The readers find the value of a key.
LEMMA ValuesRead ==
  ASSUME IInv, phase = "idle", NEW k \in Key
  PROVE  get_value(k) = logical[k]
<1>0. TypeInv /\ kind \in {"plain", "index"} /\ n \in Nat \ {0}
  BY DEF IInv, TypeInv
<1>1. /\ \A s \in Shard : forward[s][k] # None =>
           logical[k] \in Value /\ s = ShardOf(k, logical[k]) /\ forward[s][k] = logical[k]
      /\ logical[k] # None => /\ logical[k] \in Value /\ ShardOf(k, logical[k]) \in Shard
                              /\ forward[ShardOf(k, logical[k])][k] = logical[k]
  BY Settled
<1>2. CASE kind = "plain"
  <2>d. PICK d : d = IF n = 1 THEN 0 ELSE partition_bytes_le(n, KeyBytes[k])
    OBVIOUS
  <2>1. d \in Shard /\ \A v : ShardOf(k, v) = d
    BY <1>0, <1>2, <2>d, ShardsOfRows DEF ShardOf, PartitionOf
  <2>2. get_value(k) = forward[d][k]
    BY <1>2, <2>d DEF get_value
  <2>. QED  BY <1>1, <2>1, <2>2
<1>3. CASE kind = "index"
  <2>h. PICK having : having = {s \in Shard : forward[s][k] # None}
    OBVIOUS
  <2>1. get_value(k) = IF having = {} THEN None
                       ELSE forward[CHOOSE s \in having : \A t \in having : s <= t][k]
    BY <1>3, <2>h DEF get_value
  <2>2. CASE logical[k] = None
    <3>1. having = {}
      BY <1>1, <2>2, <2>h, ShardedAssumption
    <3>. QED  BY <2>1, <2>2, <3>1
  <2>3. CASE logical[k] # None
    <3>d. PICK d : d = ShardOf(k, logical[k])
      OBVIOUS
    <3>1. having = {d} /\ d \in Shard /\ forward[d][k] = logical[k]
      BY <1>1, <2>3, <2>h, <3>d
    <3>2. d \in Int
      BY <3>1 DEF Shard
    <3>3. (CHOOSE s \in having : \A t \in having : s <= t) = d
      BY <3>1, <3>2
    <3>4. having # {}
      BY <3>1
    <3>. QED  BY <2>1, <3>1, <3>3, <3>4
  <2>. QED  BY <2>2, <2>3
<1>. QED  BY <1>0, <1>2, <1>3

\* The readers find the keys of a value.
LEMMA KeysRead ==
  ASSUME IInv, phase = "idle", kind = "index", NEW v \in Value
  PROVE  index_keys(v) = KeysOf(logical, v)
<1>0. n \in Nat \ {0} /\ RevInv
  BY DEF IInv, TypeInv
<1>d. PICK d : d = IF n = 1 THEN 0 ELSE Xxh3Partition(n, Hash[v])
  OBVIOUS
<1>1. d \in Shard /\ \A k : ShardOf(k, v) = d
  BY <1>0, <1>d, ShardsOfRows DEF ShardOf, PartitionOf
<1>2. index_keys(v) = {k \in Key : forward[d][k] = v}
  BY <1>0, <1>1, <1>d DEF index_keys, RevInv
<1>3. ASSUME NEW k \in Key PROVE forward[d][k] = v <=> logical[k] = v
  BY <1>1, Settled, ShardedAssumption
<1>. QED  BY <1>2, <1>3 DEF KeysOf

\* The rows of the shards add up to the rows of the column.
LEMMA RowsCounted ==
  ASSUME IInv, phase = "idle"
  PROVE  StatsTotal = Cardinality({k \in Key : logical[k] # None})
<1>0. n \in Nat \ {0} /\ IsFiniteSet(Key) /\ Shard = 0 .. (n - 1)
  BY ShardedAssumption DEF IInv, TypeInv, Shard
<1>. DEFINE R(s) == {k \in Key : forward[s][k] # None}
            U(j) == {k \in Key : \E s \in 0 .. (j - 1) : forward[s][k] # None}
            rows == [i \in 1 .. n |-> Cardinality(R(i - 1))]
<1>1. ASSUME NEW s PROVE IsFiniteSet(R(s)) /\ Cardinality(R(s)) \in Nat
  <2>1. R(s) \subseteq Key
    OBVIOUS
  <2>2. IsFiniteSet(R(s))
    BY <1>0, <2>1, FS_Subset
  <2>. QED  BY <2>2, FS_CardinalityType
<1>2. ASSUME NEW j PROVE IsFiniteSet(U(j)) /\ Cardinality(U(j)) \in Nat
  <2>1. U(j) \subseteq Key
    OBVIOUS
  <2>2. IsFiniteSet(U(j))
    BY <1>0, <2>1, FS_Subset
  <2>. QED  BY <2>2, FS_CardinalityType
<1>3. U(0) = {} /\ U(n) = {k \in Key : logical[k] # None}
  <2>1. 0 .. (0 - 1) = {}
    OBVIOUS
  <2>2. ASSUME NEW k \in Key PROVE (\E s \in 0 .. (n - 1) : forward[s][k] # None) <=> logical[k] # None
    BY <1>0, Settled, ShardedAssumption
  <2>. QED  BY <2>1, <2>2
<1>4. ASSUME NEW j \in 0 .. (n - 1) PROVE U(j + 1) = U(j) \cup R(j) /\ U(j) \cap R(j) = {}
  <2>1. 0 .. ((j + 1) - 1) = (0 .. (j - 1)) \cup {j} /\ j \notin 0 .. (j - 1) /\ 0 .. (j - 1) \subseteq Shard /\ j \in Shard
    BY <1>0
  <2>2. \A k \in Key : \A s, t \in Shard : forward[s][k] # None /\ forward[t][k] # None => s = t
    BY Settled
  <2>3. U(j) \cap R(j) = {}
    BY <2>1, <2>2
  <2>. QED  BY <2>1, <2>3
<1>5. ASSUME NEW j \in 0 .. (n - 1) PROVE Cardinality(U(j + 1)) = Cardinality(U(j)) + Cardinality(R(j))
  <2>. HIDE DEF U, R
  <2>1. Cardinality(U(j) \cup R(j)) = Cardinality(U(j)) + Cardinality(R(j)) - Cardinality(U(j) \cap R(j))
    BY <1>1, <1>2, FS_Union
  <2>2. Cardinality(U(j) \cap R(j)) = 0
    BY <1>4, FS_EmptySet
  <2>3. U(j + 1) = U(j) \cup R(j)
    BY <1>4
  <2>4. Cardinality(U(j)) \in Nat /\ Cardinality(R(j)) \in Nat
    BY <1>1, <1>2
  <2>5. \A x, y \in Nat : x + y - 0 = x + y
    OBVIOUS
  <2>6. Cardinality(U(j + 1)) = Cardinality(U(j)) + Cardinality(R(j)) - 0
    BY <2>1, <2>2, <2>3, Zenon
  <2>. QED  BY <2>4, <2>5, <2>6, Zenon
<1>6. rows \in Seq(Nat) /\ Len(rows) = n /\ \A j \in 0 .. (n - 1) : rows[j + 1] = Cardinality(R(j))
  <2>. HIDE DEF R
  <2>1. \A j \in 0 .. (n - 1) : j + 1 \in 1 .. n /\ (j + 1) - 1 = j
    BY <1>0
  <2>2. rows \in Seq(Nat) /\ Len(rows) = n
    BY <1>0, <1>1
  <2>3. ASSUME NEW j \in 0 .. (n - 1) PROVE rows[j + 1] = Cardinality(R(j))
    <3>1. rows[j + 1] = Cardinality(R((j + 1) - 1))
      BY <2>1
    <3>. QED  BY <2>1, <3>1
  <2>. QED  BY <2>2, <2>3
<1>7. StatsTotal = Total(rows)
  BY Zenon DEF StatsTotal, Total
<1>. HIDE DEF rows
<1>8. PICK r : /\ r[0] = 0
               /\ \A k \in 0 .. (Len(rows) - 1) : r[k + 1] = r[k] + rows[k + 1]
               /\ Total(rows) = r[Len(rows)]
  BY <1>6, RunningTotals
<1>. DEFINE S == {j \in Nat : j <= n => r[j] = Cardinality(U(j))}
<1>9. 0 \in S
  <2>1. Cardinality(U(0)) = 0
    BY <1>3, FS_EmptySet
  <2>. HIDE DEF U
  <2>. QED  BY <1>8, <2>1
<1>10. ASSUME NEW j \in S PROVE j + 1 \in S
  <2>. HIDE DEF U, R
  <2>1. j \in Nat /\ (j <= n => r[j] = Cardinality(U(j)))
    OBVIOUS
  <2>2. ASSUME j + 1 <= n PROVE r[j + 1] = Cardinality(U(j + 1))
    <3>1. j \in 0 .. (n - 1) /\ j <= n
      BY <1>0, <2>1, <2>2
    <3>2. r[j + 1] = r[j] + rows[j + 1]
      BY <1>6, <1>8, <3>1
    <3>. QED  BY <1>5, <1>6, <2>1, <3>1, <3>2
  <2>. QED  BY <2>1, <2>2
<1>11. n \in S
  <2>1. S \in SUBSET Nat
    OBVIOUS
  <2>. HIDE DEF S
  <2>2. S = Nat
    BY <1>9, <1>10, <2>1, NatInd
  <2>. QED  BY <1>0, <2>2
<1>12. r[n] = Cardinality(U(n))
  <2>. HIDE DEF U
  <2>. QED  BY <1>0, <1>11
<1>. HIDE DEF U
<1>. QED  BY <1>3, <1>6, <1>7, <1>8, <1>12

\* The invariant gives what the callers see of the rows.
LEMMA RowsFromInv ==
  ASSUME IInv
  PROVE  RowsFound
<1>1. KeyShardIsResidue
  BY ShardsOfRows DEF IInv, TypeInv, KeyShardIsResidue
<1>2. ReadsBack
  BY ValuesRead, KeysRead, RowsCounted DEF ReadsBack
<1>. QED  BY <1>1, <1>2 DEF RowsFound

\* The invariant gives what deletes and ranges answer.
LEMMA AnswersFromInv ==
  ASSUME IInv
  PROVE  AnswersExact
<1>0. TypeInv /\ RemoveInv /\ RangeInv
  BY DEF IInv
<1>1. CASE call.op = "ranged"
  BY <1>0, <1>1 DEF RangeInv, AnswersExact
<1>2. CASE call.op = "removed"
  <2>0. call.shard \in Shard /\ call.expected \in BOOLEAN /\ call.found \in BOOLEAN /\ n \in Nat
    BY <1>0, <1>2 DEF TypeInv
  <2>1. CASE call.found
    BY <1>0, <1>2, <2>0, <2>1 DEF RemoveInv, AnswersExact
  <2>2. CASE ~call.found /\ call.expected
    <3>1. PICK s \in Shard : kind = "index" /\ s > call.shard
      BY <1>0, <1>2, <2>2 DEF RemoveInv
    <3>2. call.shard < n - 1
      BY <2>0, <3>1 DEF Shard
    <3>. QED  BY <1>2, <2>2, <3>1, <3>2 DEF AnswersExact
  <2>3. CASE ~call.found /\ ~call.expected
    BY <2>0, <2>3 DEF AnswersExact
  <2>. QED  BY <2>1, <2>2, <2>3
<1>3. CASE call.op \notin {"removed", "ranged"}
  BY <1>3 DEF AnswersExact
<1>. QED  BY <1>1, <1>2, <1>3

\* The invariant gives what the queries come to.
LEMMA QueriesFromInv ==
  ASSUME IInv
  PROVE  QueriesSettled
<1>0. TypeInv /\ AskedInv /\ PhaseInv /\ n \in Nat \ {0}
  BY DEF IInv, TypeInv
<1>1. QueriesAnswered
  <2>. SUFFICES ASSUME ready = Shard, NEW a \in asked, NEW p \in DOMAIN a.values
                PROVE  LET keys == KeysOf(a.seen, a.values[p])
                           got == {x \in sink : x.q = a.q /\ x.pos = p}
                       IN  \E x \in got : got = {x} /\ IF keys = {} THEN x.key = None ELSE x.key \in keys
    BY DEF QueriesAnswered
  <2>s. PICK s : s = IF n = 1 THEN 0 ELSE Xxh3Partition(n, Hash[a.values[p]])
    OBVIOUS
  <2>1. a.values[p] \in Value
    <3>1. a.values \in Seq(Value)
      BY <1>0, ShardedAssumption DEF AskedInv, AskedKnown
    <3>. QED  BY <3>1
  <2>2. s \in Shard /\ p \in PositionsOf(a.values, s)
    BY <1>0, <2>1, <2>s, ShardsOfRows DEF PositionsOf
  <2>3. ~Pending(a, s)
    BY <1>0, <2>2 DEF AskedInv, ReadyInv, Pending
  <2>4. Answered(a, p)
    BY <1>0, <2>2, <2>3 DEF AskedInv, AnswersInv
  <2>. QED  BY <2>4, Zenon DEF Answered, Got
<1>2. AllShardsReport
  <2>. SUFFICES ASSUME phase = "idle", NEW a \in asked, a.last PROVE ready = Shard
    BY DEF AllShardsReport
  <2>1. ready \subseteq Shard /\ \A s \in Shard : queue[s] = <<>>
    BY <1>0 DEF TypeInv, PhaseInv
  <2>2. \A s \in Shard : 1 .. Len(queue[s]) = {}
    BY <2>1
  <2>3. \A s \in Shard : ~Pending(a, s)
    BY <2>2 DEF Pending
  <2>. QED  BY <1>0, <2>1, <2>3 DEF AskedInv, ReadyInv
<1>. QED  BY <1>1, <1>2 DEF QueriesSettled

\* Where every row, delete, range and query is, in every state that callers who
\* store no key twice can reach.
THEOREM ColumnInvariant == Overwrites = FALSE => (Spec => []IInv)
<1>. SUFFICES ASSUME Overwrites = FALSE PROVE Spec => []IInv
  OBVIOUS
<1>1. Init => IInv
  BY InitIInv
<1>2. IInv /\ [Next]_vars => IInv'
  BY NextInv
<1>. QED  BY <1>1, <1>2, PTL DEF Spec

\* Writers and readers agree on the shard of a key of any length, and after a flush
\* every reader finds what the calls amount to, over any number of shards
\* (get_value, index_keys, stats, partition_bytes_le).
THEOREM RowsCorrect == Overwrites = FALSE => (Spec => []RowsFound)
<1>. SUFFICES ASSUME Overwrites = FALSE PROVE Spec => []RowsFound
  OBVIOUS
<1>1. Spec => []IInv
  BY ColumnInvariant
<1>2. IInv => RowsFound
  BY RowsFromInv
<1>. QED  BY <1>1, <1>2, PTL

\* Deletes and ranges answer as one table would, whatever of the earlier calls is
\* still on its way to the shards (delete_kv, range).
THEOREM AnswersCorrect == Overwrites = FALSE => (Spec => []AnswersExact)
<1>. SUFFICES ASSUME Overwrites = FALSE PROVE Spec => []AnswersExact
  OBVIOUS
<1>1. Spec => []IInv
  BY ColumnInvariant
<1>2. IInv => AnswersExact
  BY AnswersFromInv
<1>. QED  BY <1>1, <1>2, PTL

\* Once every shard has reported, every place of every query has its one answer, a
\* key that had the value when the query was made, and no shard is left waiting
\* when a transaction ends (query_and_write, the writer threads' sinks).
THEOREM QueriesCorrect == Overwrites = FALSE => (Spec => []QueriesSettled)
<1>. SUFFICES ASSUME Overwrites = FALSE PROVE Spec => []QueriesSettled
  OBVIOUS
<1>1. Spec => []IInv
  BY ColumnInvariant
<1>2. IInv => QueriesSettled
  BY QueriesFromInv
<1>. QED  BY <1>1, <1>2, PTL
=============================================================================
