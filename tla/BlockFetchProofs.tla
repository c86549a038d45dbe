-------------------------- MODULE BlockFetchProofs --------------------------
(***************************************************************************)
(* The block stream for every chain, every number of requests in flight,   *)
(* every chain height and every number of faults: blocks go by their own   *)
(* height whatever the node does between two requests, a REST stream sends *)
(* every height once, a Cardano stream the main chain, batches keep to the *)
(* byte limit, and the task gives up only after all its attempts.          *)
(*                                                                         *)
(* The inductive invariant says for every call what it knows at each of    *)
(* its requests, counts the blocks passed on and the calls in flight       *)
(* against the heights asked for, and keeps, for the chain-sync cursor,    *)
(* that the branch it is on has been passed on up to it.                   *)
(***************************************************************************)
EXTENDS BlockFetch, SequenceTheorems, FiniteSetTheorems, WellFoundedInduction, TLAPS

BlockT == [height : 0 .. MaxHeight, branch : {0, 1, 2}]
Item == [height : 0 .. MaxHeight, block : BlockT]
CallT == [at : 0 .. 4, left : Nat, height : 0 .. MaxHeight, hash : BlockT, raw : BlockT]

BtcLike == {"btc", "ltc", "bch"}
Chain == BtcLike \cup {"ergo", "cardano"}

\* The node's chain is branch 1 and then branch 2; it has only blocks of those.
NodeInv ==
  /\ main \in Seq({1, 2}) /\ Len(main) \in 1 .. MaxHeight
  /\ \A i, j \in 1 .. Len(main) : i <= j => main[i] <= main[j]
  /\ known \subseteq [height : 0 .. MaxHeight, branch : {1, 2}]

\* What the call behind get_chain_tip knows at each of its requests.
TipCall(c) ==
  /\ chain \in BtcLike =>
       /\ c.at \in {2, 3, 4} => c.hash.height <= Len(main)
       /\ c.at \in {3, 4} => c.raw \in {c.hash, Garbage}
       /\ c.at = 4 => c.height = c.hash.height
  /\ chain = "ergo" =>
       /\ c.at \in {2, 3, 4} => c.height \in 1 .. Len(main)
       /\ c.at \in {3, 4} => c.hash.height <= Len(main)
       /\ c.at = 4 => c.raw \in {c.hash, Garbage}
  /\ chain = "cardano" =>
       /\ c.at \in 0 .. 3
       /\ c.at \in {2, 3} => c.hash.height <= Len(main)
       /\ c.at = 3 => c.raw = c.hash

\* The plan of the sync: the last persisted block and the tip.
PlanInv ==
  /\ chain \in Chain /\ faults \in Nat
  /\ last \in {Origin, Block(1, 1)}
  /\ tip \in Item /\ tip.height = tip.block.height /\ tip.height <= Len(main)
  /\ pc = "stream" => tip.height > last.height
  /\ pc = "tip" => call \in CallT /\ TipCall(call)
  /\ pc = "tip" => /\ DOMAIN flight = {} /\ next = last.height + 1 /\ cursor = Garbage
                   /\ sent = <<>> /\ sbuf = <<>>

\* A call for a height knows blocks of that height only; of its a attempts every
\* one it has used up was one of the f faults.
FlightCall(h, c, f, a) ==
  /\ c \in CallT /\ c.height = h
  /\ c.at = 2 => c.hash.height = h
  /\ c.raw = Garbage \/ c.raw.height = h
  /\ c.left <= a /\ f >= a - c.left

FlightInv ==
  /\ next \in last.height + 1 .. MaxHeight + 1
  /\ next = last.height + 1 \/ next <= tip.height + 1
  /\ DOMAIN flight \subseteq last.height + 1 .. next - 1
  /\ ~Rest => DOMAIN flight = {}
  /\ \A h \in DOMAIN flight : FlightCall(h, flight[h], faults, Client.attempts)

\* Every height asked for is in flight or was passed on, once.
ItemsInv ==
  /\ \A i \in 1 .. Len(Fetched) :
       Fetched[i].block # Garbage => Fetched[i].height = Fetched[i].block.height
  /\ Rest =>
       /\ Len(Fetched) + Cardinality(DOMAIN flight) = next - last.height - 1
       /\ \A i \in 1 .. Len(Fetched) : Fetched[i].block # Garbage =>
            /\ Fetched[i].height \in last.height + 1 .. next - 1
            /\ Fetched[i].height \notin DOMAIN flight
            /\ immediate => \A h \in DOMAIN flight : Fetched[i].height < h
       /\ \A i, j \in 1 .. Len(Fetched) :
            Fetched[i].block # Garbage /\ Fetched[j].block # Garbage /\ i < j =>
              /\ Fetched[i].height # Fetched[j].height
              /\ immediate => Fetched[i].height < Fetched[j].height

BatchInv ==
  /\ sbuf \in Seq(Item) /\ sout \in Seq(Item) /\ sent \in Seq(Item)
  /\ immediate \in BOOLEAN /\ (immediate => sbuf = <<>>)
  /\ BatchesWithinLimit

\* The block of height h on the branch of b.
OnBranchOf(b, h) == IF b.branch = 1 THEN Block(h, 1) ELSE MainAt(h)

\* A cursor on branch 2 is on the main chain; all blocks up to the cursor that
\* are new to the sync have been passed on.
CursorInv ==
  /\ cursor \in BlockT /\ cursor.height <= Len(main)
  /\ cursor # Garbage =>
       /\ cursor.branch # 0
       /\ cursor.branch = 2 => cursor.height > 0 /\ main[cursor.height] = 2
       /\ \A h \in last.height + 1 .. cursor.height :
            \E i \in 1 .. Len(Fetched) : Fetched[i] = [height |-> h, block |-> OnBranchOf(cursor, h)]

IInv ==
  /\ NodeInv /\ PlanInv /\ FlightInv /\ ItemsInv /\ BatchInv /\ CursorInv
  /\ GivesUpLate

-----------------------------------------------------------------------------
(***************************************************************************)
(* Numbers, sums and the client of a chain                                 *)
(***************************************************************************)

\* Induction over the natural numbers: a set with 0 and with every successor of
\* its elements has no least number outside it (used for lengths of batches).
LEMMA NatInd ==
  ASSUME NEW S \in SUBSET Nat, 0 \in S, \A n \in S : n + 1 \in S
  PROVE  S = Nat
<1>. DEFINE T == Nat \ S
            R == {p \in Nat \X Nat : p[1] < p[2]}
<1>. SUFFICES ASSUME T # {} PROVE FALSE
  OBVIOUS
<1>1. IsWellFoundedOn(R, Nat)
  BY NatLessThanWellFounded, Zenon DEF OpToRel
<1>2. ASSUME NEW y \in Nat, NEW x \in Nat, y < x PROVE <<y, x>> \in R
  BY <1>2
<1>. HIDE DEF R
<1>3. T \in SUBSET Nat
  OBVIOUS
<1>4. PICK x \in T : \A y \in T : ~ (<<y, x>> \in R)
  <2>. HIDE DEF T
  <2>. QED  BY <1>1, <1>3, WFMin
<1>5. x \in Nat /\ x # 0 /\ x - 1 \in Nat /\ x - 1 < x /\ (x - 1) + 1 = x
  OBVIOUS
<1>6. x - 1 \in T
  BY <1>5
<1>. QED  BY <1>2, <1>4, <1>5, <1>6

\* g sums s over the subsets of 1 .. n from the largest index down,
\* the recursion of FoldLeft.
SumFold(g, s, n) ==
  g = [t \in SUBSET (1 .. n) |-> IF t = {} THEN 0 ELSE g[t \ {Max(t)}] + s[Max(t)]]

\* The largest index of a set with n in it is n.
LEMMA MaxIs ==
  ASSUME NEW n \in Nat, NEW t \in SUBSET (1 .. n), n \in t
  PROVE  Max(t) = n
<1>1. \A y \in t : y \in Int /\ n >= y
  OBVIOUS
<1>2. Max(t) \in t /\ \A y \in t : Max(t) >= y
  BY <1>1 DEF Max
<1>3. Max(t) \in Int /\ n >= Max(t) /\ Max(t) >= n
  BY <1>1, <1>2
<1>. QED  BY <1>3

\* Such a fold exists for every length of the sequence.
LEMMA SumFoldExists ==
  ASSUME NEW s
  PROVE  \A n \in Nat : \E g : SumFold(g, s, n)
<1>. DEFINE S == {n \in Nat : \E g : SumFold(g, s, n)}
<1>1. 0 \in S
  <2>. DEFINE g == [t \in SUBSET (1 .. 0) |-> 0]
  <2>1. SUBSET (1 .. 0) = {{}}
    OBVIOUS
  <2>2. SumFold(g, s, 0)
    BY <2>1 DEF SumFold
  <2>. QED  BY <2>2
<1>2. ASSUME NEW n \in S PROVE n + 1 \in S
  <2>1. PICK g : SumFold(g, s, n)
    OBVIOUS
  <2>. DEFINE h == [t \in SUBSET (1 .. (n + 1)) |->
                      IF n + 1 \in t THEN g[t \ {n + 1}] + s[n + 1] ELSE g[t]]
              k == [t \in SUBSET (1 .. (n + 1)) |->
                      IF t = {} THEN 0 ELSE h[t \ {Max(t)}] + s[Max(t)]]
  <2>2. ASSUME NEW t \in SUBSET (1 .. n)
        PROVE  /\ g[t] = IF t = {} THEN 0 ELSE g[t \ {Max(t)}] + s[Max(t)]
               /\ g[t] = h[t]
    <3>1. t \in SUBSET (1 .. (n + 1)) /\ n + 1 \notin t
      OBVIOUS
    <3>2. h[t] = g[t]
      BY <3>1
    <3>3. g[t] = IF t = {} THEN 0 ELSE g[t \ {Max(t)}] + s[Max(t)]
      BY <2>1 DEF SumFold
    <3>. QED  BY <3>2, <3>3
  <2>3. ASSUME NEW t \in SUBSET (1 .. (n + 1)) PROVE h[t] = k[t]
    <3>1. CASE n + 1 \in t
      <4>1. Max(t) = n + 1 /\ t # {}
        BY <3>1, MaxIs
      <4>2. t \ {n + 1} \in SUBSET (1 .. n)
        OBVIOUS
      <4>3. h[t] = g[t \ {n + 1}] + s[n + 1]
        BY <3>1
      <4>4. g[t \ {n + 1}] = h[t \ {n + 1}]
        <5>. HIDE DEF h
        <5>. QED  BY <2>2, <4>2
      <4>5. k[t] = h[t \ {n + 1}] + s[n + 1]
        <5>. HIDE DEF h
        <5>. QED  BY <4>1
      <4>. QED  BY <4>3, <4>4, <4>5
    <3>2. CASE n + 1 \notin t
      <4>1. t \in SUBSET (1 .. n)
        BY <3>2
      <4>2. h[t] = g[t] /\ g[t] = IF t = {} THEN 0 ELSE g[t \ {Max(t)}] + s[Max(t)]
        <5>. HIDE DEF h
        <5>. QED  BY <2>2, <4>1
      <4>3. t \ {Max(t)} \in SUBSET (1 .. n)
        BY <4>1
      <4>4. g[t \ {Max(t)}] = h[t \ {Max(t)}]
        <5>. HIDE DEF h
        <5>. QED  BY <2>2, <4>3
      <4>5. k[t] = IF t = {} THEN 0 ELSE h[t \ {Max(t)}] + s[Max(t)]
        <5>. HIDE DEF h
        <5>. QED  OBVIOUS
      <4>. HIDE DEF h, k
      <4>. QED  BY <4>2, <4>4, <4>5
    <3>. QED  BY <3>1, <3>2
  <2>4. h = k
    <3>1. DOMAIN h = SUBSET (1 .. (n + 1)) /\ DOMAIN k = SUBSET (1 .. (n + 1))
      OBVIOUS
    <3>2. h = [t \in SUBSET (1 .. (n + 1)) |-> h[t]] /\ k = [t \in SUBSET (1 .. (n + 1)) |-> k[t]]
      OBVIOUS
    <3>. HIDE DEF h, k
    <3>. QED  BY <2>3, <3>2
  <2>5. SumFold(h, s, n + 1)
    <3>1. h = [t \in SUBSET (1 .. (n + 1)) |->
                 IF t = {} THEN 0 ELSE h[t \ {Max(t)}] + s[Max(t)]]
      <4>. HIDE DEF h
      <4>. QED  BY <2>4
    <3>. HIDE DEF h
    <3>. QED  BY <3>1 DEF SumFold
  <2>. QED  BY <2>5
<1>3. S = Nat
  <2>1. S \in SUBSET Nat
    OBVIOUS
  <2>. HIDE DEF S
  <2>. QED  BY <1>1, <1>2, <2>1, NatInd
<1>. QED  BY <1>3

\* Along the initial segments such a fold is the running sum.
LEMMA SumFoldStep ==
  ASSUME NEW s, NEW n \in Nat, NEW g, SumFold(g, s, n)
  PROVE  /\ g[1 .. 0] = 0
         /\ \A k \in 0 .. (n - 1) : g[1 .. (k + 1)] = g[1 .. k] + s[k + 1]
<1>1. ASSUME NEW t \in SUBSET (1 .. n)
      PROVE  g[t] = IF t = {} THEN 0 ELSE g[t \ {Max(t)}] + s[Max(t)]
  BY DEF SumFold
<1>2. g[1 .. 0] = 0
  <2>1. 1 .. 0 \in SUBSET (1 .. n) /\ 1 .. 0 = {}
    OBVIOUS
  <2>. QED  BY <1>1, <2>1
<1>3. ASSUME NEW k \in 0 .. (n - 1)
      PROVE  g[1 .. (k + 1)] = g[1 .. k] + s[k + 1]
  <2>. DEFINE t == 1 .. (k + 1)
  <2>1. t \in SUBSET (1 .. n) /\ t # {} /\ k + 1 \in t /\ k + 1 \in Nat
    OBVIOUS
  <2>2. Max(t) = k + 1
    BY <2>1, MaxIs
  <2>3. t \ {k + 1} = 1 .. k
    OBVIOUS
  <2>. HIDE DEF t
  <2>4. g[t] = g[t \ {Max(t)}] + s[Max(t)]
    BY <1>1, <2>1
  <2>5. g[t] = g[1 .. k] + s[k + 1]
    BY <2>2, <2>3, <2>4
  <2>. QED  BY <2>5 DEF t
<1>. QED  BY <1>2, <1>3

\* A sum is such a fold over the whole sequence.
LEMMA SumOfIs ==
  ASSUME NEW s \in Seq(Nat)
  PROVE  \E g : SumFold(g, s, Len(s)) /\ SumOf(s) = g[1 .. Len(s)]
<1>1. DOMAIN s = 1 .. Len(s) /\ Len(s) \in Nat
  OBVIOUS
<1>2. SumOf(s) = (CHOOSE g : SumFold(g, s, Len(s)))[1 .. Len(s)]
  BY <1>1 DEF SumOf, FoldLeft, MapThenFoldSet, SumFold
<1>3. \E g : SumFold(g, s, Len(s))
  BY <1>1, SumFoldExists
<1>. DEFINE f == CHOOSE g : SumFold(g, s, Len(s))
<1>4. SumFold(f, s, Len(s))
  BY <1>3
<1>. QED  BY <1>2, <1>4

\* An empty sum is 0, one more number adds itself: what the running size of
\* SizeBatcher::push has to agree with.
LEMMA SumOfAppend ==
  ASSUME NEW s \in Seq(Nat), NEW b \in Nat
  PROVE  /\ SumOf(<<>>) = 0
         /\ SumOf(s) \in Nat
         /\ SumOf(Append(s, b)) = SumOf(s) + b
<1>. DEFINE c == Append(s, b)
            n == Len(s)
<1>1. /\ c \in Seq(Nat) /\ Len(c) = n + 1 /\ n \in Nat
      /\ c[n + 1] = b /\ \A i \in 1 .. n : s[i] = c[i]
      /\ <<>> \in Seq(Nat) /\ Len(<<>>) = 0
  OBVIOUS
<1>. HIDE DEF c, n
<1>2. SumOf(<<>>) = 0
  <2>1. PICK g : SumFold(g, <<>>, 0) /\ SumOf(<<>>) = g[1 .. 0]
    BY <1>1, SumOfIs
  <2>. QED  BY <2>1, SumFoldStep
<1>3. PICK g : SumFold(g, s, n) /\ SumOf(s) = g[1 .. n]
  BY SumOfIs DEF n
<1>4. PICK h : SumFold(h, c, n + 1) /\ SumOf(c) = h[1 .. (n + 1)]
  BY <1>1, SumOfIs
<1>5. /\ g[1 .. 0] = 0 /\ h[1 .. 0] = 0
      /\ \A k \in 0 .. (n - 1) : g[1 .. (k + 1)] = g[1 .. k] + s[k + 1]
      /\ \A k \in 0 .. ((n + 1) - 1) : h[1 .. (k + 1)] = h[1 .. k] + c[k + 1]
  <2>1. /\ g[1 .. 0] = 0
        /\ \A k \in 0 .. (n - 1) : g[1 .. (k + 1)] = g[1 .. k] + s[k + 1]
    BY <1>1, <1>3, SumFoldStep
  <2>2. n + 1 \in Nat
    BY <1>1
  <2>3. /\ h[1 .. 0] = 0
        /\ \A k \in 0 .. ((n + 1) - 1) : h[1 .. (k + 1)] = h[1 .. k] + c[k + 1]
    BY <1>4, <2>2, SumFoldStep
  <2>. QED  BY <2>1, <2>3
<1>. DEFINE S == {k \in Nat : k <= n => g[1 .. k] = h[1 .. k] /\ g[1 .. k] \in Nat}
<1>6. 0 \in S
  BY <1>5
<1>7. ASSUME NEW k \in S PROVE k + 1 \in S
  <2>. SUFFICES ASSUME k + 1 <= n
                PROVE  g[1 .. (k + 1)] = h[1 .. (k + 1)] /\ g[1 .. (k + 1)] \in Nat
    OBVIOUS
  <2>1. k \in 0 .. (n - 1) /\ k \in 0 .. ((n + 1) - 1) /\ k + 1 \in 1 .. n
    BY <1>1
  <2>2. g[1 .. k] = h[1 .. k] /\ g[1 .. k] \in Nat
    BY <1>1, <2>1
  <2>3. s[k + 1] = c[k + 1] /\ s[k + 1] \in Nat
    <3>1. k + 1 \in 1 .. Len(s)
      BY <2>1 DEF n
    <3>. QED  BY <1>1, <2>1, <3>1, ElementOfSeq
  <2>5. /\ g[1 .. (k + 1)] = g[1 .. k] + s[k + 1]
        /\ h[1 .. (k + 1)] = h[1 .. k] + c[k + 1]
    BY <1>5, <2>1
  <2>. QED  BY <2>2, <2>3, <2>5
<1>8. S = Nat
  <2>1. S \in SUBSET Nat
    OBVIOUS
  <2>. HIDE DEF S
  <2>. QED  BY <1>6, <1>7, <2>1, NatInd
<1>9. g[1 .. n] = h[1 .. n] /\ g[1 .. n] \in Nat
  <2>1. n \in S
    <3>. HIDE DEF S
    <3>. QED  BY <1>1, <1>8
  <2>2. n <= n
    BY <1>1
  <2>. QED  BY <2>1, <2>2
<1>10. h[1 .. (n + 1)] = h[1 .. n] + b
  <2>1. n \in 0 .. ((n + 1) - 1)
    BY <1>1
  <2>2. h[1 .. (n + 1)] = h[1 .. n] + c[n + 1]
    BY <1>5, <2>1
  <2>. QED  BY <1>1, <2>2
<1>. QED  BY <1>2, <1>3, <1>4, <1>9, <1>10 DEF c

\* A set of numbers that is not empty has a least element, the one Min chooses.
LEMMA MinInSet ==
  ASSUME NEW S \in SUBSET Nat, S # {}
  PROVE  Min(S) \in S /\ \A y \in S : Min(S) <= y
<1>. DEFINE Up == {n \in Nat : \A y \in S : n <= y}
<1>1. PICK x \in S : \A y \in S : x <= y
  <2>. SUFFICES ASSUME \A x \in S : \E y \in S : ~ (x <= y) PROVE FALSE
    OBVIOUS
  <2>1. 0 \in Up
    OBVIOUS
  <2>2. ASSUME NEW n \in Up PROVE n + 1 \in Up
    <3>1. n \notin S
      OBVIOUS
    <3>2. ASSUME NEW y \in S PROVE n + 1 <= y
      <4>1. n <= y /\ n # y /\ y \in Nat
        BY <3>1
      <4>. QED  BY <4>1
    <3>. QED  BY <3>2
  <2>3. Up = Nat
    <3>1. Up \in SUBSET Nat
      OBVIOUS
    <3>. HIDE DEF Up
    <3>. QED  BY <2>1, <2>2, <3>1, NatInd
  <2>4. PICK y \in S : TRUE
    OBVIOUS
  <2>5. y + 1 \in Up
    BY <2>3
  <2>. QED  BY <2>5
<1>. QED  BY <1>1 DEF Min

\* A set of numbers up to n that is not empty has a largest one, Max.
LEMMA MaxInSet ==
  ASSUME NEW n \in Nat, NEW S \in SUBSET (0 .. n), S # {}
  PROVE  Max(S) \in S /\ \A y \in S : Max(S) >= y
<1>. DEFINE T == {n - y : y \in S}
<1>1. T \in SUBSET Nat /\ T # {}
  <2>1. \A y \in S : n - y \in Nat
    OBVIOUS
  <2>. QED  BY <2>1
<1>2. Min(T) \in T /\ \A y \in T : Min(T) <= y
  <2>. HIDE DEF T
  <2>. QED  BY <1>1, MinInSet
<1>3. PICK x \in S : Min(T) = n - x
  BY <1>2
<1>4. ASSUME NEW y \in S PROVE x >= y
  <2>1. n - y \in T
    OBVIOUS
  <2>2. n - x <= n - y
    BY <1>2, <1>3, <2>1
  <2>. QED  BY <2>2
<1>5. \E z \in S : \A y \in S : z >= y
  BY <1>4
<1>. QED  BY <1>5 DEF Max

\* The requests of a call, by chain, and how often it is tried.
LEMMA ClientFacts ==
  ASSUME chain \in Chain
  PROVE  /\ chain \in BtcLike =>
              /\ Client.best = <<"bestblockhash", "block", "height">>
              /\ Client.byHeight = <<"blockhash", "block">> /\ Client.attempts = 3
         /\ chain = "ergo" =>
              /\ Client.best = <<"info", "ids", "block">>
              /\ Client.byHeight = <<"ids", "block">> /\ Client.attempts = 5
         /\ chain = "cardano" =>
              /\ Client.best = <<"point", "block">>
              /\ Client.byHeight = <<>> /\ Client.attempts = 1
         /\ Client.attempts \in Nat \ {0}
         /\ Client.bestAttempts \in Nat
         /\ Rest <=> chain \in BtcLike \cup {"ergo"}
BY DEF Chain, BtcLike, Client, BtcClient, LtcClient, BchClient, ErgoClient, CardanoClient, Rest

\* One more block in a batch adds its size.
LEMMA BatchSizeFacts ==
  ASSUME NEW s \in Seq(Item), NEW x \in Item
  PROVE  /\ BatchSize(s) \in Nat /\ SizeOf[x.block.height] \in Nat
         /\ BatchSize(<<>>) = 0
         /\ BatchSize(<<x>>) = SizeOf[x.block.height]
         /\ BatchSize(Append(s, x)) = BatchSize(s) + SizeOf[x.block.height]
<1>. DEFINE V(t) == [i \in DOMAIN t |-> SizeOf[t[i].block.height]]
<1>1. ASSUME NEW y \in Item PROVE SizeOf[y.block.height] \in Nat
  BY FetchAssumption DEF Item, BlockT
<1>2. ASSUME NEW t \in Seq(Item) PROVE V(t) \in Seq(Nat) /\ Len(V(t)) = Len(t)
  <2>1. DOMAIN t = 1 .. Len(t) /\ Len(t) \in Nat /\ \A i \in 1 .. Len(t) : t[i] \in Item
    OBVIOUS
  <2>2. V(t) \in [1 .. Len(t) -> Nat]
    BY <1>1, <2>1
  <2>. QED  BY <2>1, <2>2
<1>3. ASSUME NEW t \in Seq(Item), NEW y \in Item
      PROVE  V(Append(t, y)) = Append(V(t), SizeOf[y.block.height])
  <2>. DEFINE a == V(Append(t, y))
              b == Append(V(t), SizeOf[y.block.height])
  <2>1. Append(t, y) \in Seq(Item) /\ Len(Append(t, y)) = Len(t) + 1
    OBVIOUS
  <2>2. a \in Seq(Nat) /\ Len(a) = Len(t) + 1
    BY <1>2, <2>1
  <2>3. b \in Seq(Nat) /\ Len(b) = Len(t) + 1
    <3>1. V(t) \in Seq(Nat) /\ Len(V(t)) = Len(t) /\ SizeOf[y.block.height] \in Nat
      BY <1>1, <1>2
    <3>. HIDE DEF V
    <3>. QED  BY <3>1
  <2>4. ASSUME NEW i \in 1 .. Len(a) PROVE a[i] = b[i]
    <3>1. i \in DOMAIN Append(t, y)
      BY <2>1, <2>2
    <3>2. a[i] = SizeOf[Append(t, y)[i].block.height]
      BY <3>1
    <3>3. CASE i \in 1 .. Len(t)
      <4>1. b[i] = V(t)[i]
        <5>1. V(t) \in Seq(Nat) /\ Len(V(t)) = Len(t)
          BY <1>2
        <5>. HIDE DEF V
        <5>. QED  BY <3>3, <5>1
      <4>2. V(t)[i] = SizeOf[t[i].block.height]
        BY <3>3
      <4>3. Append(t, y)[i] = t[i]
        BY <3>3
      <4>. QED  BY <3>2, <4>1, <4>2, <4>3
    <3>4. CASE i = Len(t) + 1
      <4>1. b[i] = SizeOf[y.block.height]
        <5>1. V(t) \in Seq(Nat) /\ Len(V(t)) = Len(t)
          BY <1>2
        <5>. HIDE DEF V
        <5>. QED  BY <3>4, <5>1
      <4>2. Append(t, y)[i] = y
        BY <3>4
      <4>. QED  BY <3>2, <4>1, <4>2
    <3>. QED  BY <2>2, <3>3, <3>4
  <2>. HIDE DEF a, b
  <2>5. a = b
    BY <2>2, <2>3, <2>4, SeqEqual
  <2>. QED  BY <2>5 DEF a, b
<1>4. \A t : BatchSize(t) = SumOf(V(t))
  BY DEF BatchSize
<1>5. <<>> \in Seq(Item) /\ Append(<<>>, x) = <<x>>
  OBVIOUS
<1>6. V(<<>>) = <<>>
  OBVIOUS
<1>. HIDE DEF V
<1>7. ASSUME NEW t \in Seq(Item), NEW y \in Item
      PROVE  /\ BatchSize(t) \in Nat
             /\ BatchSize(Append(t, y)) = BatchSize(t) + SizeOf[y.block.height]
  <2>1. V(t) \in Seq(Nat) /\ SizeOf[y.block.height] \in Nat
    BY <1>1, <1>2
  <2>2. /\ SumOf(V(t)) \in Nat
        /\ SumOf(Append(V(t), SizeOf[y.block.height])) = SumOf(V(t)) + SizeOf[y.block.height]
    BY <2>1, SumOfAppend
  <2>3. V(Append(t, y)) = Append(V(t), SizeOf[y.block.height])
    BY <1>3
  <2>4. BatchSize(t) = SumOf(V(t)) /\ BatchSize(Append(t, y)) = SumOf(V(Append(t, y)))
    BY <1>4
  <2>. QED  BY <2>2, <2>3, <2>4
<1>8. BatchSize(<<>>) = 0
  <2>1. V(s) \in Seq(Nat) /\ SizeOf[x.block.height] \in Nat
    BY <1>1, <1>2
  <2>. QED  BY <1>4, <1>6, <2>1, SumOfAppend
<1>9. BatchSize(<<x>>) = SizeOf[x.block.height]
  <2>1. BatchSize(Append(<<>>, x)) = BatchSize(<<>>) + SizeOf[x.block.height]
    BY <1>5, <1>7
  <2>2. BatchSize(Append(<<>>, x)) = 0 + SizeOf[x.block.height]
    BY <1>8, <2>1
  <2>3. SizeOf[x.block.height] \in Nat
    BY <1>1
  <2>4. 0 + SizeOf[x.block.height] = SizeOf[x.block.height]
    BY <2>3
  <2>. QED  BY <1>5, <2>2, <2>4
<1>. QED  BY <1>1, <1>7, <1>8, <1>9

-----------------------------------------------------------------------------
(***************************************************************************)
(* The size batcher and the calls                                          *)
(***************************************************************************)

\* Appending batches is associative.
LEMMA Assoc ==
  ASSUME NEW s \in Seq(Item), NEW t \in Seq(Item), NEW u \in Seq(Item)
  PROVE  (s \o t) \o u = s \o (t \o u)
<1>. DEFINE a == (s \o t) \o u
            b == s \o (t \o u)
<1>1. /\ a \in Seq(Item) /\ b \in Seq(Item)
      /\ Len(a) = Len(s) + Len(t) + Len(u) /\ Len(b) = Len(a)
  OBVIOUS
<1>2. ASSUME NEW i \in 1 .. Len(a) PROVE a[i] = b[i]
  OBVIOUS
<1>. HIDE DEF a, b
<1>3. a = b
  BY <1>1, <1>2, SeqEqual
<1>. QED  BY <1>3 DEF a, b

\* push passes every block on, in order: what was sent and what is buffered gain
\* the block at the end, and the batches keep to the limit.
LEMMA PushFacts ==
  ASSUME BatchInv, NEW x \in Item, Push(x)
  PROVE  BatchInv' /\ Fetched' = Append(Fetched, x) /\ immediate' = immediate
<1>. DEFINE size == SizeOf[x.block.height]
            projected == Raw!SaturatingAdd(bytes, size)
<1>0. /\ sbuf \in Seq(Item) /\ sout \in Seq(Item) /\ sent \in Seq(Item)
      /\ immediate \in BOOLEAN /\ (immediate => sbuf = <<>>)
      /\ bytes = BatchSize(sbuf) /\ (Len(sbuf) > 1 => BatchSize(sbuf) <= ByteLimit)
      /\ (Len(sout) > 1 => BatchSize(sout) <= ByteLimit)
      /\ UsizeMax \in Nat /\ ByteLimit \in Nat /\ ByteLimit < UsizeMax
  BY FetchAssumption DEF BatchInv, BatchesWithinLimit
<1>1. immediate' = immediate /\ sent' = sent \o sout'
  BY DEF Push, Raw!push
<1>2. /\ BatchSize(sbuf) \in Nat /\ size \in Nat /\ BatchSize(<<x>>) = size
      /\ BatchSize(Append(sbuf, x)) = BatchSize(sbuf) + size
  BY <1>0, BatchSizeFacts
<1>3. projected = IF bytes + size <= UsizeMax THEN bytes + size ELSE UsizeMax
  BY DEF Raw!SaturatingAdd
<1>4. /\ <<x>> \in Seq(Item) /\ Len(<<x>>) = 1 /\ <<>> \in Seq(Item) /\ Len(<<>>) = 0
      /\ Append(sbuf, x) \in Seq(Item) /\ sent \o <<>> = sent
      /\ sent \o <<x>> = Append(sent, x)
      /\ Append(sent \o sbuf, x) = (sent \o sbuf) \o <<x>>
      /\ Append(sbuf, x) = sbuf \o <<x>>
      /\ (sent \o <<x>>) \o <<>> = sent \o <<x>>
  BY <1>0
<1>5. sent \o (sbuf \o <<x>>) = (sent \o sbuf) \o <<x>>
  BY <1>0, <1>4, Assoc
<1>6. CASE sout' = <<x>> /\ UNCHANGED <<sbuf, bytes>> /\ sbuf = <<>>
  <2>1. Fetched' = Append(Fetched, x)
    BY <1>1, <1>4, <1>6 DEF Fetched
  <2>2. sent' \in Seq(Item)
    BY <1>0, <1>1, <1>4, <1>6
  <2>. QED  BY <1>0, <1>1, <1>4, <1>6, <2>1, <2>2 DEF BatchInv, BatchesWithinLimit
<1>7. CASE ~immediate /\ sout' = sbuf /\ sbuf' = <<x>> /\ bytes' = size
  <2>1. Fetched' = Append(Fetched, x)
    BY <1>1, <1>4, <1>7 DEF Fetched
  <2>2. sent' \in Seq(Item)
    BY <1>0, <1>1, <1>7
  <2>. HIDE DEF size
  <2>. QED  BY <1>0, <1>1, <1>2, <1>4, <1>7, <2>1, <2>2 DEF BatchInv, BatchesWithinLimit
<1>8. CASE /\ ~immediate /\ projected <= ByteLimit
           /\ sout' = <<>> /\ sbuf' = Append(sbuf, x) /\ bytes' = projected
  <2>1. Fetched' = Append(Fetched, x)
    BY <1>1, <1>4, <1>5, <1>8 DEF Fetched
  <2>2. sent' = sent
    BY <1>1, <1>4, <1>8
  <2>3. projected = BatchSize(sbuf) + size
    <3>. HIDE DEF projected, size
    <3>. QED  BY <1>0, <1>2, <1>3, <1>8
  <2>. HIDE DEF size, projected
  <2>. QED  BY <1>0, <1>1, <1>2, <1>4, <1>8, <2>1, <2>2, <2>3 DEF BatchInv, BatchesWithinLimit
<1>9. \/ sout' = <<x>> /\ UNCHANGED <<sbuf, bytes>> /\ sbuf = <<>>
      \/ ~immediate /\ sout' = sbuf /\ sbuf' = <<x>> /\ bytes' = size
      \/ /\ ~immediate /\ projected <= ByteLimit
         /\ sout' = <<>> /\ sbuf' = Append(sbuf, x) /\ bytes' = projected
  BY <1>0 DEF Push, Raw!push
<1>. QED  BY <1>6, <1>7, <1>8, <1>9

\* The end of the stream sends what the batcher holds and passes nothing else on.
LEMMA EndFacts ==
  ASSUME BatchInv, NEW how, End(how)
  PROVE  /\ BatchInv' /\ Fetched' = Fetched /\ immediate' = immediate
         /\ sbuf' = <<>> /\ sent' = Fetched /\ pc' = "ended" /\ ending' = how
<1>0. /\ sbuf \in Seq(Item) /\ sout \in Seq(Item) /\ sent \in Seq(Item)
      /\ immediate \in BOOLEAN /\ (immediate => sbuf = <<>>)
      /\ bytes = BatchSize(sbuf) /\ (Len(sbuf) > 1 => BatchSize(sbuf) <= ByteLimit)
  BY DEF BatchInv, BatchesWithinLimit
<1>1. /\ immediate' = immediate /\ sent' = sent \o sout' /\ pc' = "ended" /\ ending' = how
      /\ sout' = IF immediate THEN <<>> ELSE sbuf
      /\ sbuf' = IF immediate THEN sbuf ELSE <<>>
      /\ bytes' = IF immediate \/ sbuf = <<>> THEN bytes ELSE 0
  BY DEF End, Raw!take_all
<1>2. sout' = sbuf /\ sbuf' = <<>> /\ <<>> \in Seq(Item) /\ Len(<<>>) = 0
  BY <1>0, <1>1
<1>3. sent' = Fetched /\ sent' \in Seq(Item) /\ Fetched' = Fetched
  BY <1>0, <1>1, <1>2 DEF Fetched
<1>4. bytes' = BatchSize(<<>>)
  <2>1. CASE sbuf = <<>>
    BY <1>0, <1>1, <2>1
  <2>2. CASE sbuf # <<>>
    <3>1. sbuf[1] \in Item
      BY <1>0, <2>2
    <3>2. BatchSize(<<>>) = 0
      BY <1>0, <3>1, BatchSizeFacts
    <3>. QED  BY <1>0, <1>1, <2>2, <3>2
  <2>. QED  BY <2>1, <2>2
<1>5. BatchInv'
  BY <1>0, <1>1, <1>2, <1>3, <1>4 DEF BatchInv, BatchesWithinLimit
<1>. QED  BY <1>1, <1>2, <1>3, <1>5

\* The blocks of the main chain have its heights.
LEMMA MainFacts ==
  ASSUME NodeInv
  PROVE  /\ Len(main) \in Nat /\ Len(main) <= MaxHeight /\ MaxHeight \in Nat
         /\ \A h \in 1 .. Len(main) : /\ main[h] \in {1, 2}
                                      /\ MainAt(h) \in BlockT /\ MainAt(h).height = h
                                      /\ MainAt(h).branch = main[h] /\ MainAt(h) # Garbage
         /\ Tip \in BlockT /\ Tip.height = Len(main)
         /\ Garbage \in BlockT /\ Garbage.height = 0 /\ Origin \in BlockT
<1>1. Len(main) \in Nat /\ Len(main) \in 1 .. MaxHeight /\ MaxHeight \in Nat
  BY FetchAssumption DEF NodeInv
<1>2. ASSUME NEW h \in 1 .. Len(main)
      PROVE  /\ main[h] \in {1, 2}
             /\ MainAt(h) \in BlockT /\ MainAt(h).height = h
             /\ MainAt(h).branch = main[h] /\ MainAt(h) # Garbage
  <2>1. main[h] \in {1, 2}
    BY DEF NodeInv
  <2>. QED  BY <1>1, <2>1 DEF MainAt, Block, BlockT, Garbage
<1>3. Len(main) \in 1 .. Len(main)
  BY <1>1
<1>. QED  BY <1>1, <1>2, <1>3 DEF Tip, Garbage, Origin, Block, BlockT

\* A new call knows nothing yet.
LEMMA NewCallFacts ==
  ASSUME NEW n \in Nat, NEW h \in 0 .. MaxHeight
  PROVE  /\ NewCall(n, h) \in CallT
         /\ NewCall(n, h).at = 1 /\ NewCall(n, h).left = n /\ NewCall(n, h).height = h
         /\ NewCall(n, h).raw = Garbage
BY FetchAssumption DEF NewCall, CallT, BlockT, Garbage, Block

\* How a request can end.
LEMMA OutcomeKinds ==
  ASSUME NEW steps, NEW c, NEW o \in Outcomes(steps, c)
  PROVE  /\ \/ o.call = Answered(steps, c) /\ o.fault = 0 /\ ~o.panic
            \/ o.call = retry_with_delay(c) /\ o.fault = 1 /\ ~o.panic
            \/ o.call = [c EXCEPT !.at = 0] /\ o.fault = 1 /\ ~o.panic
            \/ /\ o.call = ErrorBody(c) /\ o.fault = 1 /\ ~o.panic
               /\ steps[c.at] = "block" /\ chain # "cardano"
            \/ o.call = c /\ o.fault = 1 /\ o.panic /\ steps[c.at] = "ids"
         /\ o.panic \in BOOLEAN
<1>. DEFINE rec(x, f, s, p) == [call |-> x, fault |-> f, stuck |-> s, panic |-> p]
<1>1. \/ o = rec(Answered(steps, c), 0, FALSE, FALSE)
      \/ o = rec(retry_with_delay(c), 1, FALSE, FALSE)
      \/ o = rec([c EXCEPT !.at = 0], 1, TRUE, FALSE)
      \/ /\ o = rec(ErrorBody(c), 1, FALSE, FALSE)
         /\ steps[c.at] = "block" /\ chain # "cardano"
      \/ o = rec(c, 1, FALSE, TRUE) /\ steps[c.at] = "ids"
  BY Zenon DEF Outcomes
<1>2. ASSUME NEW x, NEW f, NEW s \in BOOLEAN, NEW p \in BOOLEAN, o = rec(x, f, s, p)
      PROVE  o.call = x /\ o.fault = f /\ o.panic = p
  BY <1>2
<1>. HIDE DEF rec
<1>. QED  BY <1>1, <1>2

\* What an answer adds to a call.
LEMMA AnswerFacts ==
  ASSUME NodeInv, NEW steps, NEW c \in CallT, c.at \in 1 .. 3,
         steps[c.at] \in {"bestblockhash", "point", "info", "blockhash", "ids", "block", "height"},
         steps[c.at] \in {"blockhash", "ids"} => c.height \in 1 .. Len(main)
  PROVE  LET a == Answered(steps, c)
         IN  /\ a \in CallT /\ a.at = c.at + 1 /\ a.left = c.left
             /\ steps[c.at] \in {"bestblockhash", "point"} =>
                  a.hash.height = Len(main) /\ a.height = c.height /\ a.raw = c.raw
             /\ steps[c.at] = "info" =>
                  a.hash = c.hash /\ a.height = Len(main) /\ a.raw = c.raw
             /\ steps[c.at] \in {"blockhash", "ids"} =>
                  a.hash.height = c.height /\ a.height = c.height /\ a.raw = c.raw
             /\ steps[c.at] = "block" =>
                  a.hash = c.hash /\ a.height = c.height /\ a.raw = c.hash
             /\ steps[c.at] = "height" =>
                  a.hash = c.hash /\ a.height = c.hash.height /\ a.raw = c.raw
<1>. DEFINE step == steps[c.at]
            a == Answered(steps, c)
<1>0. /\ Len(main) \in 0 .. MaxHeight
      /\ Tip \in BlockT /\ Tip.height = Len(main)
      /\ c.height \in 1 .. Len(main) => MainAt(c.height) \in BlockT /\ MainAt(c.height).height = c.height
  BY MainFacts
<1>1. a = [Answer(c, step) EXCEPT !.at = c.at + 1] /\ c.at + 1 \in 0 .. 4
  BY DEF Answered
<1>2. /\ c = [at |-> c.at, left |-> c.left, height |-> c.height, hash |-> c.hash, raw |-> c.raw]
      /\ c.left \in Nat /\ c.height \in 0 .. MaxHeight /\ c.hash \in BlockT /\ c.raw \in BlockT
      /\ c.hash.height \in 0 .. MaxHeight
  BY DEF CallT, BlockT
<1>. HIDE DEF a
<1>3. CASE step \in {"bestblockhash", "point"}
  <2>1. Answer(c, step) = [c EXCEPT !.hash = Tip]
    BY <1>3 DEF Answer
  <2>2. a = [at |-> c.at + 1, left |-> c.left, height |-> c.height, hash |-> Tip, raw |-> c.raw]
    BY <1>1, <1>2, <2>1
  <2>. QED  BY <1>0, <1>1, <1>2, <1>3, <2>2 DEF CallT, a
<1>4. CASE step = "info"
  <2>1. Answer(c, step) = [c EXCEPT !.height = Len(main)]
    BY <1>4 DEF Answer
  <2>2. a = [at |-> c.at + 1, left |-> c.left, height |-> Len(main), hash |-> c.hash, raw |-> c.raw]
    BY <1>1, <1>2, <2>1
  <2>. QED  BY <1>0, <1>1, <1>2, <1>4, <2>2 DEF CallT, a
<1>5. CASE step \in {"blockhash", "ids"}
  <2>1. Answer(c, step) = [c EXCEPT !.hash = MainAt(c.height)]
    BY <1>5 DEF Answer
  <2>2. a = [at |-> c.at + 1, left |-> c.left, height |-> c.height, hash |-> MainAt(c.height), raw |-> c.raw]
    BY <1>1, <1>2, <2>1
  <2>. QED  BY <1>0, <1>1, <1>2, <1>5, <2>2 DEF CallT, a
<1>6. CASE step = "block"
  <2>1. Answer(c, step) = [c EXCEPT !.raw = c.hash]
    BY <1>6 DEF Answer
  <2>2. a = [at |-> c.at + 1, left |-> c.left, height |-> c.height, hash |-> c.hash, raw |-> c.hash]
    BY <1>1, <1>2, <2>1
  <2>. QED  BY <1>0, <1>1, <1>2, <1>6, <2>2 DEF CallT, a
<1>7. CASE step = "height"
  <2>1. Answer(c, step) = [c EXCEPT !.height = c.hash.height]
    BY <1>7 DEF Answer
  <2>2. a = [at |-> c.at + 1, left |-> c.left, height |-> c.hash.height, hash |-> c.hash, raw |-> c.raw]
    BY <1>1, <1>2, <2>1
  <2>. QED  BY <1>0, <1>1, <1>2, <1>7, <2>2 DEF CallT, a
<1>. QED  BY <1>3, <1>4, <1>5, <1>6, <1>7

\* What a fault makes of a call: start over or give up, hang, or an error body.
LEMMA FaultFacts ==
  ASSUME NEW c \in CallT, c.at \in 1 .. 3, c.left > 0
  PROVE  /\ retry_with_delay(c) \in CallT
         /\ retry_with_delay(c).height = c.height /\ retry_with_delay(c).left = c.left - 1
         /\ \/ /\ retry_with_delay(c).at = 1 /\ retry_with_delay(c).raw = Garbage
               /\ retry_with_delay(c).left > 0
            \/ /\ retry_with_delay(c).left = 0 /\ retry_with_delay(c).at = c.at
               /\ retry_with_delay(c).hash = c.hash /\ retry_with_delay(c).raw = c.raw
         /\ [c EXCEPT !.at = 0] \in CallT /\ [c EXCEPT !.at = 0].at = 0
         /\ [c EXCEPT !.at = 0].height = c.height /\ [c EXCEPT !.at = 0].left = c.left
         /\ [c EXCEPT !.at = 0].raw = c.raw
         /\ ErrorBody(c) \in CallT /\ ErrorBody(c).at = c.at + 1
         /\ ErrorBody(c).height = c.height /\ ErrorBody(c).left = c.left
         /\ ErrorBody(c).hash = c.hash /\ ErrorBody(c).raw = Garbage
<1>2. /\ c = [at |-> c.at, left |-> c.left, height |-> c.height, hash |-> c.hash, raw |-> c.raw]
      /\ c.left \in Nat /\ c.height \in 0 .. MaxHeight /\ c.hash \in BlockT /\ c.raw \in BlockT
      /\ MaxHeight \in Nat /\ Garbage \in BlockT
  BY FetchAssumption DEF CallT, BlockT, Garbage, Block
<1>a. [c EXCEPT !.at = 0] = [at |-> 0, left |-> c.left, height |-> c.height, hash |-> c.hash, raw |-> c.raw]
  BY <1>2
<1>b. ErrorBody(c) = [at |-> c.at + 1, left |-> c.left, height |-> c.height, hash |-> c.hash, raw |-> Garbage]
  <2>. DEFINE e == [c EXCEPT !.at = c.at + 1]
  <2>1. e = [at |-> c.at + 1, left |-> c.left, height |-> c.height, hash |-> c.hash, raw |-> c.raw]
    BY <1>2
  <2>2. ErrorBody(c) = [e EXCEPT !.raw = Garbage]
    BY DEF ErrorBody
  <2>. HIDE DEF e
  <2>. QED  BY <2>1, <2>2
<1>c. [c EXCEPT !.left = 0] = [at |-> c.at, left |-> 0, height |-> c.height, hash |-> c.hash, raw |-> c.raw]
  BY <1>2
<1>d. /\ [c EXCEPT !.at = 0] \in CallT /\ [c EXCEPT !.at = 0].at = 0
      /\ [c EXCEPT !.at = 0].height = c.height /\ [c EXCEPT !.at = 0].left = c.left
      /\ [c EXCEPT !.at = 0].raw = c.raw
  BY <1>2, <1>a DEF CallT
<1>e. /\ ErrorBody(c) \in CallT /\ ErrorBody(c).at = c.at + 1
      /\ ErrorBody(c).height = c.height /\ ErrorBody(c).left = c.left
      /\ ErrorBody(c).hash = c.hash /\ ErrorBody(c).raw = Garbage
  BY <1>2, <1>b DEF CallT
<1>3. CASE c.left > 1
  <2>1. retry_with_delay(c) = NewCall(c.left - 1, c.height) /\ c.left - 1 \in Nat /\ c.left - 1 > 0
    BY <1>2, <1>3 DEF retry_with_delay
  <2>2. /\ retry_with_delay(c) \in CallT
        /\ retry_with_delay(c).at = 1 /\ retry_with_delay(c).left = c.left - 1
        /\ retry_with_delay(c).height = c.height /\ retry_with_delay(c).raw = Garbage
    BY <1>2, <2>1, NewCallFacts
  <2>. QED  BY <1>d, <1>e, <2>1, <2>2
<1>4. CASE ~ (c.left > 1)
  <2>1. retry_with_delay(c) = [c EXCEPT !.left = 0] /\ c.left = 1
    BY <1>2, <1>4 DEF retry_with_delay
  <2>2. /\ retry_with_delay(c) \in CallT
        /\ retry_with_delay(c).at = c.at /\ retry_with_delay(c).left = 0
        /\ retry_with_delay(c).height = c.height
        /\ retry_with_delay(c).hash = c.hash /\ retry_with_delay(c).raw = c.raw
    BY <1>2, <1>c, <2>1 DEF CallT
  <2>. QED  BY <1>d, <1>e, <2>1, <2>2
<1>. QED  BY <1>3, <1>4

\* A request of a call for height h leaves the call with blocks of height h, and
\* the task panics only when all attempts are used up, or, for Ergo, after a fault.
LEMMA FlightOutcome ==
  ASSUME NodeInv, chain \in Chain, Rest, faults \in Nat, NEW h \in 1 .. Len(main), NEW c,
         FlightCall(h, c, faults, Client.attempts), Running(Client.byHeight, c),
         NEW o \in Outcomes(Client.byHeight, c)
  PROVE  /\ FlightCall(h, o.call, faults + o.fault, Client.attempts)
         /\ o.fault \in {0, 1}
         /\ o.panic \in BOOLEAN
         /\ o.panic \/ Failed(o.call) =>
              faults + o.fault >= Client.attempts \/ (chain = "ergo" /\ faults + o.fault > 0)
<1>. DEFINE steps == Client.byHeight
            a == Client.attempts
<1>0. /\ a \in Nat \ {0} /\ c \in CallT /\ c.height = h /\ c.left \in Nat /\ h \in Nat
      /\ (c.at = 2 => c.hash.height = h) /\ (c.raw = Garbage \/ c.raw.height = h)
      /\ c.left <= a /\ faults >= a - c.left
      /\ Garbage.height = 0
  BY ClientFacts, MainFacts DEF FlightCall, CallT
<1>1. /\ DOMAIN steps = 1 .. 2 /\ steps[2] = "block" /\ steps[1] \in {"blockhash", "ids"}
      /\ steps[1] = "ids" => chain = "ergo"
  BY ClientFacts DEF BtcLike
<1>2. c.at \in 1 .. 2 /\ c.left > 0
  BY <1>0, <1>1 DEF Running, Failed
<1>. HIDE DEF steps, a
<1>3. /\ \/ o.call = Answered(steps, c) /\ o.fault = 0 /\ ~o.panic
         \/ o.call = retry_with_delay(c) /\ o.fault = 1 /\ ~o.panic
         \/ o.call = [c EXCEPT !.at = 0] /\ o.fault = 1 /\ ~o.panic
         \/ /\ o.call = ErrorBody(c) /\ o.fault = 1 /\ ~o.panic
            /\ steps[c.at] = "block" /\ chain # "cardano"
         \/ o.call = c /\ o.fault = 1 /\ o.panic /\ steps[c.at] = "ids"
      /\ o.panic \in BOOLEAN
  BY OutcomeKinds DEF steps
<1>4. CASE o.call = Answered(steps, c) /\ o.fault = 0 /\ ~o.panic
  <2>. DEFINE d == Answered(steps, c)
  <2>1. steps[c.at] \in {"blockhash", "ids", "block"} /\ (steps[c.at] = "block" <=> c.at = 2)
    BY <1>1, <1>2
  <2>2. /\ d \in CallT /\ d.at = c.at + 1 /\ d.left = c.left /\ d.height = h
        /\ c.at = 1 => d.hash.height = h /\ d.raw = c.raw
        /\ c.at = 2 => d.hash = c.hash /\ d.raw = c.hash
    BY <1>0, <1>2, <2>1, AnswerFacts
  <2>z. o.call = d
    BY <1>4
  <2>. HIDE DEF d
  <2>3. FlightCall(h, d, faults + 0, a)
    BY <1>0, <1>2, <2>2 DEF FlightCall
  <2>4. ~ Failed(d)
    BY <1>2, <2>2 DEF Failed
  <2>. QED  BY <1>3, <1>4, <2>z, <2>3, <2>4 DEF a
<1>5. CASE o.call = retry_with_delay(c) /\ o.fault = 1 /\ ~o.panic
  <2>. DEFINE d == retry_with_delay(c)
  <2>1. /\ d \in CallT /\ d.height = h /\ d.left = c.left - 1
        /\ \/ d.at = 1 /\ d.raw = Garbage /\ d.left > 0
           \/ d.left = 0 /\ d.at = c.at /\ d.hash = c.hash /\ d.raw = c.raw
    <3>1. c.at \in 1 .. 3 /\ c \in CallT /\ c.left > 0
      BY <1>0, <1>2
    <3>2. /\ d \in CallT /\ d.height = c.height /\ d.left = c.left - 1
          /\ \/ d.at = 1 /\ d.raw = Garbage /\ d.left > 0
             \/ d.left = 0 /\ d.at = c.at /\ d.hash = c.hash /\ d.raw = c.raw
      BY <3>1, FaultFacts
    <3>. HIDE DEF d
    <3>. QED  BY <1>0, <3>2
  <2>z. o.call = d
    BY <1>5
  <2>. HIDE DEF d
  <2>2. FlightCall(h, d, faults + 1, a)
    BY <1>0, <1>2, <2>1 DEF FlightCall
  <2>3. Failed(d) => faults + 1 >= a
    BY <1>0, <2>1 DEF Failed
  <2>. QED  BY <1>3, <1>5, <2>z, <2>2, <2>3 DEF a
<1>6. CASE o.call = [c EXCEPT !.at = 0] /\ o.fault = 1 /\ ~o.panic
  <2>. DEFINE d == [c EXCEPT !.at = 0]
  <2>1. /\ d \in CallT /\ d.height = h /\ d.left = c.left /\ d.at = 0 /\ d.raw = c.raw
    BY <1>0, <1>2, FaultFacts
  <2>z. o.call = d
    BY <1>6
  <2>. HIDE DEF d
  <2>2. FlightCall(h, d, faults + 1, a)
    BY <1>0, <1>2, <2>1 DEF FlightCall
  <2>3. ~ Failed(d)
    BY <1>2, <2>1 DEF Failed
  <2>. QED  BY <1>3, <1>6, <2>z, <2>2, <2>3 DEF a
<1>7. CASE o.call = ErrorBody(c) /\ o.fault = 1 /\ ~o.panic /\ steps[c.at] = "block"
  <2>. DEFINE d == ErrorBody(c)
  <2>0. c.at = 2
    BY <1>1, <1>2, <1>7
  <2>1. d \in CallT /\ d.height = h /\ d.left = c.left /\ d.at = 3 /\ d.raw = Garbage
    <3>1. c.at \in 1 .. 3 /\ c \in CallT /\ c.left > 0
      BY <1>0, <1>2
    <3>2. /\ d \in CallT /\ d.height = c.height /\ d.left = c.left /\ d.at = c.at + 1
          /\ d.raw = Garbage
      BY <3>1, FaultFacts
    <3>. HIDE DEF d
    <3>. QED  BY <1>0, <2>0, <3>2
  <2>z. o.call = d
    BY <1>7
  <2>. HIDE DEF d
  <2>2. FlightCall(h, d, faults + 1, a)
    BY <1>0, <1>2, <2>1 DEF FlightCall
  <2>3. ~ Failed(d)
    BY <1>2, <2>1 DEF Failed
  <2>. QED  BY <1>3, <1>7, <2>z, <2>2, <2>3 DEF a
<1>8. CASE o.call = c /\ o.fault = 1 /\ o.panic /\ steps[c.at] = "ids"
  <2>1. chain = "ergo"
    BY <1>1, <1>2, <1>8
  <2>2. FlightCall(h, c, faults + 1, a)
    BY <1>0 DEF FlightCall
  <2>. QED  BY <1>0, <1>8, <2>1, <2>2 DEF a
<1>. QED  BY <1>3, <1>4, <1>5, <1>6, <1>7, <1>8

\* A request of the call for the tip keeps what the call knows consistent.
LEMMA TipOutcome ==
  ASSUME NodeInv, chain \in Chain, NEW c \in CallT, TipCall(c), Running(Client.best, c),
         NEW o \in Outcomes(Client.best, c)
  PROVE  /\ o.call \in CallT /\ TipCall(o.call)
         /\ o.fault \in {0, 1} /\ o.panic \in BOOLEAN
         /\ o.panic => chain = "ergo" /\ o.fault = 1
<1>. DEFINE steps == Client.best
<1>0. /\ Len(main) \in Nat /\ Len(main) >= 1 /\ c.left \in Nat /\ Garbage.height = 0
      /\ c.hash.height \in Nat /\ c.height \in Nat
  BY MainFacts DEF CallT, BlockT, NodeInv
<1>1. /\ chain \in BtcLike => steps = <<"bestblockhash", "block", "height">>
      /\ chain = "ergo" => steps = <<"info", "ids", "block">>
      /\ chain = "cardano" => steps = <<"point", "block">>
      /\ chain \in BtcLike \/ chain = "ergo" \/ chain = "cardano"
      /\ "ergo" \notin BtcLike /\ "cardano" \notin BtcLike
  BY ClientFacts DEF BtcLike, Chain
<1>. HIDE DEF steps
<1>2. /\ c.at \in DOMAIN steps /\ c.left > 0
  BY <1>0 DEF Running, Failed, steps
<1>3. /\ c.at \in 1 .. 3 /\ steps[c.at] \in {"bestblockhash", "point", "info", "ids", "block", "height"}
      /\ steps[c.at] = "ids" => chain = "ergo" /\ c.at = 2 /\ c.height \in 1 .. Len(main)
  BY <1>1, <1>2 DEF TipCall
<1>4. /\ \/ o.call = Answered(steps, c) /\ o.fault = 0 /\ ~o.panic
         \/ o.call = retry_with_delay(c) /\ o.fault = 1 /\ ~o.panic
         \/ o.call = [c EXCEPT !.at = 0] /\ o.fault = 1 /\ ~o.panic
         \/ /\ o.call = ErrorBody(c) /\ o.fault = 1 /\ ~o.panic
            /\ steps[c.at] = "block" /\ chain # "cardano"
         \/ o.call = c /\ o.fault = 1 /\ o.panic /\ steps[c.at] = "ids"
      /\ o.panic \in BOOLEAN
  BY OutcomeKinds DEF steps
<1>5. CASE o.call = Answered(steps, c) /\ o.fault = 0 /\ ~o.panic
  <2>. DEFINE d == Answered(steps, c)
  <2>1. /\ d \in CallT /\ d.at = c.at + 1 /\ d.left = c.left
        /\ steps[c.at] \in {"bestblockhash", "point"} =>
             d.hash.height = Len(main) /\ d.height = c.height /\ d.raw = c.raw
        /\ steps[c.at] = "info" =>
             d.hash = c.hash /\ d.height = Len(main) /\ d.raw = c.raw
        /\ steps[c.at] \in {"blockhash", "ids"} =>
             d.hash.height = c.height /\ d.height = c.height /\ d.raw = c.raw
        /\ steps[c.at] = "block" =>
             d.hash = c.hash /\ d.height = c.height /\ d.raw = c.hash
        /\ steps[c.at] = "height" =>
             d.hash = c.hash /\ d.height = c.hash.height /\ d.raw = c.raw
    BY <1>3, AnswerFacts
  <2>z. o.call = d
    BY <1>5
  <2>. HIDE DEF d
  <2>2. TipCall(d)
    <3>1. CASE chain \in BtcLike
      BY <1>0, <1>1, <1>2, <2>1, <3>1 DEF TipCall
    <3>2. CASE chain = "ergo"
      BY <1>0, <1>1, <1>2, <2>1, <3>2 DEF TipCall
    <3>3. CASE chain = "cardano"
      BY <1>0, <1>1, <1>2, <2>1, <3>3 DEF TipCall
    <3>. QED  BY <1>1, <3>1, <3>2, <3>3
  <2>. QED  BY <1>4, <1>5, <2>z, <2>1, <2>2
<1>6. CASE o.call = retry_with_delay(c) /\ o.fault = 1 /\ ~o.panic
  <2>. DEFINE d == retry_with_delay(c)
  <2>1. /\ d \in CallT /\ d.height = c.height
        /\ \/ d.at = 1
           \/ d.at = c.at /\ d.hash = c.hash /\ d.raw = c.raw
    BY <1>2, <1>3, FaultFacts
  <2>z. o.call = d
    BY <1>6
  <2>. HIDE DEF d
  <2>2. TipCall(d)
    BY <2>1 DEF TipCall
  <2>. QED  BY <1>4, <1>6, <2>z, <2>1, <2>2
<1>7. CASE o.call = [c EXCEPT !.at = 0] /\ o.fault = 1 /\ ~o.panic
  <2>. DEFINE d == [c EXCEPT !.at = 0]
  <2>1. d \in CallT /\ d.at = 0
    BY <1>2, <1>3, FaultFacts
  <2>z. o.call = d
    BY <1>7
  <2>. HIDE DEF d
  <2>2. TipCall(d)
    BY <2>1 DEF TipCall
  <2>. QED  BY <1>4, <1>7, <2>z, <2>1, <2>2
<1>8. CASE /\ o.call = ErrorBody(c) /\ o.fault = 1 /\ ~o.panic
           /\ steps[c.at] = "block" /\ chain # "cardano"
  <2>. DEFINE d == ErrorBody(c)
  <2>1. /\ d \in CallT /\ d.at = c.at + 1 /\ d.height = c.height /\ d.hash = c.hash /\ d.raw = Garbage
    BY <1>2, <1>3, FaultFacts
  <2>z. o.call = d
    BY <1>8
  <2>. HIDE DEF d
  <2>2. TipCall(d)
    <3>1. CASE chain \in BtcLike
      <4>1. c.at = 2
        BY <1>1, <1>2, <1>8, <3>1
      <4>. QED  BY <1>1, <2>1, <3>1, <4>1 DEF TipCall
    <3>2. CASE chain = "ergo"
      <4>1. c.at = 3
        BY <1>1, <1>2, <1>8, <3>2
      <4>. QED  BY <1>1, <2>1, <3>2, <4>1 DEF TipCall
    <3>. QED  BY <1>1, <1>8, <3>1, <3>2
  <2>. QED  BY <1>4, <1>8, <2>z, <2>1, <2>2
<1>9. CASE o.call = c /\ o.fault = 1 /\ o.panic /\ steps[c.at] = "ids"
  BY <1>3, <1>9
<1>. QED  BY <1>4, <1>5, <1>6, <1>7, <1>8, <1>9

-----------------------------------------------------------------------------
(***************************************************************************)
(* What a step that leaves the variables of a part alone keeps             *)
(***************************************************************************)

\* The client and the kind of stream depend on the chain alone.
LEMMA KeepClient ==
  ASSUME chain' = chain
  PROVE  Client' = Client /\ (Rest' <=> Rest)
BY DEF Client, BtcClient, LtcClient, BchClient, ErgoClient, CardanoClient, Rest

\* A sync starts with nothing known and nothing fetched.
LEMMA InitIInv == Init => IInv
<1>. SUFFICES ASSUME Init PROVE IInv
  OBVIOUS
<1>0. MaxHeight \in Nat /\ MaxHeight > 1
  BY FetchAssumption
<1>1. /\ chain \in Chain /\ faults = 0 /\ pc = "tip" /\ last \in {Origin, Block(1, 1)}
      /\ tip = [height |-> 0, block |-> Garbage] /\ call = NewCall(Client.bestAttempts, 0)
      /\ flight = << >> /\ next = last.height + 1 /\ cursor = Garbage
      /\ sent = <<>> /\ lookup = <<>>
      /\ sbuf = <<>> /\ bytes = 0 /\ sout = <<>> /\ immediate \in BOOLEAN
  BY FetchAssumption DEF Init, Raw!new, Chain, BtcLike
<1>2. PICK n \in 1 .. MaxHeight - 1 : main = [h \in 1 .. n |-> 1]
  BY DEF Init
<1>3. main \in Seq({1, 2}) /\ Len(main) = n /\ \A h \in 1 .. n : main[h] = 1
  <2>1. main \in [1 .. n -> {1, 2}] /\ n \in Nat
    BY <1>2
  <2>. QED  BY <1>2, <2>1
<1>4. NodeInv
  <2>1. known \subseteq [height : 0 .. MaxHeight, branch : {1, 2}]
    BY <1>0, <1>2, <1>3 DEF Init, MainAt, Block
  <2>. QED  BY <1>0, <1>2, <1>3, <2>1 DEF NodeInv
<1>5. last.height \in {0, 1} /\ Garbage \in BlockT /\ Garbage.height = 0 /\ Garbage.branch = 0
  BY <1>0, <1>1 DEF Origin, Block, Garbage, BlockT
<1>6. PlanInv
  <2>1. tip \in Item /\ tip.height = 0 /\ tip.block.height = 0
    BY <1>0, <1>1, <1>5 DEF Item
  <2>2. call \in CallT /\ call.at = 1
    <3>1. Client.bestAttempts \in Nat /\ 0 \in 0 .. MaxHeight
      BY <1>0, <1>1, ClientFacts
    <3>. QED  BY <1>1, <3>1, NewCallFacts
  <2>3. TipCall(call)
    BY <2>2 DEF TipCall
  <2>4. DOMAIN flight = {}
    BY <1>1
  <2>. QED  BY <1>1, <1>2, <1>3, <2>1, <2>2, <2>3, <2>4 DEF PlanInv
<1>7. FlightInv
  BY <1>0, <1>1, <1>5 DEF FlightInv
<1>8. Fetched = <<>> /\ Len(Fetched) = 0
  BY <1>1 DEF Fetched
<1>9. ItemsInv
  <2>1. Cardinality(DOMAIN flight) = 0
    BY <1>1, FS_EmptySet
  <2>. QED  BY <1>1, <1>5, <1>8, <2>1 DEF ItemsInv
<1>10. BatchInv
  <2>1. BatchSize(<<>>) = 0
    <3>1. tip \in Item /\ <<>> \in Seq(Item)
      BY <1>6 DEF PlanInv
    <3>. QED  BY <3>1, BatchSizeFacts
  <2>. QED  BY <1>1, <2>1 DEF BatchInv, BatchesWithinLimit
<1>11. CursorInv
  BY <1>1, <1>2, <1>3, <1>5 DEF CursorInv
<1>12. GivesUpLate
  BY <1>1 DEF GivesUpLate
<1>. QED  BY <1>4, <1>6, <1>7, <1>9, <1>10, <1>11, <1>12 DEF IInv

\* The calls stay what they are when only faults are added elsewhere.
LEMMA KeepFlight ==
  ASSUME FlightInv, UNCHANGED <<chain, last, flight, next>>, tip' = tip \/ next = last.height + 1,
         chain \in Chain, faults \in Nat, faults' \in Nat, faults' >= faults
  PROVE  FlightInv'
<1>1. Client' = Client /\ (Rest' <=> Rest) /\ Client.attempts \in Nat
  BY KeepClient, ClientFacts
<1>2. ASSUME NEW h \in DOMAIN flight
      PROVE  FlightCall(h, flight[h], faults', Client.attempts)
  <2>1. FlightCall(h, flight[h], faults, Client.attempts)
    BY DEF FlightInv
  <2>2. flight[h].left \in Nat
    BY <2>1 DEF FlightCall, CallT
  <2>. QED  BY <1>1, <2>1, <2>2 DEF FlightCall
<1>. QED  BY <1>1, <1>2 DEF FlightInv

\* The blocks passed on stay what they are.
LEMMA KeepItems ==
  ASSUME ItemsInv, UNCHANGED <<chain, last, flight, next, immediate>>, Fetched' = Fetched
  PROVE  ItemsInv'
<1>1. Rest' <=> Rest
  BY KeepClient
<1>. QED  BY <1>1 DEF ItemsInv

\* The batcher is not touched.
LEMMA KeepBatch ==
  ASSUME UNCHANGED <<immediate, sbuf, bytes, sout, sent>>
  PROVE  Fetched' = Fetched /\ (BatchInv => BatchInv')
<1>1. Fetched' = Fetched
  BY DEF Fetched
<1>. QED  BY <1>1 DEF BatchInv, BatchesWithinLimit

\* The cursor stays where it is while more is passed on.
LEMMA KeepCursor ==
  ASSUME CursorInv, UNCHANGED <<main, last, cursor>>,
         Len(Fetched) \in Nat, Len(Fetched') \in Nat, Len(Fetched) <= Len(Fetched'),
         \A i \in 1 .. Len(Fetched) : Fetched'[i] = Fetched[i]
  PROVE  CursorInv'
<1>1. \A i \in 1 .. Len(Fetched) : i \in 1 .. Len(Fetched')
  OBVIOUS
<1>2. \A h : OnBranchOf(cursor, h)' = OnBranchOf(cursor, h)
  BY DEF OnBranchOf, MainAt
<1>. QED  BY <1>1, <1>2 DEF CursorInv

\* No step but the task's own panic makes it give up.
LEMMA KeepGivesUp ==
  ASSUME GivesUpLate, chain' = chain, chain \in Chain, faults \in Nat, faults' \in Nat, faults' >= faults,
         pc' = "panicked" => pc = "panicked"
  PROVE  GivesUpLate'
<1>1. Client' = Client /\ Client.attempts \in Nat
  BY KeepClient, ClientFacts
<1>. QED  BY <1>1 DEF GivesUpLate

\* The plan of the sync is made before the stream starts and then kept.
LEMMA KeepPlan ==
  ASSUME PlanInv, UNCHANGED <<chain, last, tip, call, main>>, faults' \in Nat,
         pc' # "tip", pc' = "stream" => pc = "stream"
  PROVE  PlanInv'
BY DEF PlanInv

\* Facts that most steps need.
LEMMA Basics ==
  ASSUME IInv
  PROVE  /\ chain \in Chain /\ faults \in Nat /\ last.height \in {0, 1} /\ last \in BlockT
         /\ last.branch = 1 /\ last # Garbage
         /\ tip \in Item /\ tip.height \in Nat /\ tip.height <= Len(main)
         /\ Len(main) \in Nat /\ Len(main) \in 1 .. MaxHeight /\ MaxHeight \in Nat
         /\ sbuf \in Seq(Item) /\ sent \in Seq(Item) /\ Fetched \in Seq(Item)
         /\ Len(Fetched) \in Nat /\ next \in Nat
<1>1. /\ chain \in Chain /\ faults \in Nat /\ last \in {Origin, Block(1, 1)}
      /\ tip \in Item /\ tip.height <= Len(main)
  BY DEF IInv, PlanInv
<1>2. MaxHeight \in Nat /\ MaxHeight > 1
  BY FetchAssumption
<1>3. last.height \in {0, 1} /\ last \in BlockT /\ last.branch = 1 /\ last # Garbage
  BY <1>1, <1>2 DEF Origin, Block, BlockT, Garbage
<1>4. tip.height \in Nat
  BY <1>1, <1>2 DEF Item
<1>5. sbuf \in Seq(Item) /\ sent \in Seq(Item)
  BY DEF IInv, BatchInv
<1>6. Fetched \in Seq(Item) /\ Len(Fetched) \in Nat
  BY <1>5 DEF Fetched
<1>7. next \in Nat
  BY <1>2, <1>3 DEF IInv, FlightInv
<1>8. Len(main) \in Nat /\ Len(main) \in 1 .. MaxHeight
  BY DEF IInv, NodeInv
<1>. QED  BY <1>1, <1>2, <1>3, <1>4, <1>5, <1>6, <1>7, <1>8

-----------------------------------------------------------------------------
(***************************************************************************)
(* Every step keeps the invariant                                          *)
(***************************************************************************)

\* The node's chain grows; the heights the calls know stay heights of it, and
\* the branch of the cursor below the cursor does not change.
LEMMA NodeStep ==
  ASSUME IInv, NodeInv', Len(main') >= Len(main),
         \A h \in 1 .. Len(main) : main'[h] # main[h] => main[Len(main)] = 1,
         UNCHANGED <<chain, faults, pc, last, tip, call, streamVars, lookup>>
  PROVE  IInv'
<1>0. /\ UNCHANGED <<chain, faults, pc, last, tip, call, flight, next, cursor, immediate, sbuf, bytes,
                     sout, sent, lookup>>
  BY DEF streamVars, sizeVars
<1>1. /\ Len(main) \in Nat /\ Len(main') \in Nat /\ chain \in Chain /\ faults \in Nat
      /\ Len(Fetched) \in Nat /\ Len(main) >= 1
  <2>1. Len(main') \in Nat
    BY DEF NodeInv
  <2>. QED  BY <2>1, Basics
<1>2. Fetched' = Fetched /\ BatchInv'
  BY <1>0, KeepBatch DEF IInv
<1>3. PlanInv'
  <2>1. pc = "tip" => TipCall(call)'
    <3>. SUFFICES ASSUME pc = "tip" PROVE TipCall(call)'
      OBVIOUS
    <3>1. TipCall(call) /\ call.height \in Nat /\ call.hash.height \in Nat
      BY Basics DEF IInv, PlanInv, CallT, BlockT
    <3>. QED  BY <1>0, <1>1, <3>1 DEF TipCall
  <2>2. tip.height <= Len(main')
    <3>1. tip.height \in Nat /\ tip.height <= Len(main)
      BY Basics
    <3>. QED  BY <1>1, <3>1
  <2>. QED  BY <1>0, <2>1, <2>2 DEF IInv, PlanInv
<1>4. FlightInv' /\ ItemsInv'
  BY <1>0, <1>1, <1>2, KeepFlight, KeepItems DEF IInv
<1>5. CursorInv'
  <2>1. cursor \in BlockT /\ cursor.height \in Nat /\ cursor.height <= Len(main)
        /\ cursor.branch \in {0, 1, 2}
    BY Basics DEF IInv, CursorInv, BlockT
  <2>2. CASE cursor # Garbage /\ cursor.branch = 2
    <3>1. cursor.height > 0 /\ main[cursor.height] = 2
      BY <2>2 DEF IInv, CursorInv
    <3>2. \A i, j \in 1 .. Len(main) : i <= j => main[i] <= main[j]
      BY DEF IInv, NodeInv
    <3>3. cursor.height \in 1 .. Len(main) /\ Len(main) \in 1 .. Len(main)
      BY <1>1, <2>1, <3>1
    <3>4. main[Len(main)] # 1
      BY <1>1, <2>1, <3>1, <3>2, <3>3
    <3>5. \A h \in 1 .. Len(main) : main'[h] = main[h]
      BY <3>4
    <3>6. ASSUME NEW h \in last.height + 1 .. cursor.height
          PROVE  OnBranchOf(cursor, h)' = OnBranchOf(cursor, h)
      <4>1. h \in 1 .. Len(main)
        BY <1>1, <2>1, Basics
      <4>. QED  BY <1>0, <3>5, <4>1 DEF OnBranchOf, MainAt
    <3>. QED  BY <1>0, <1>1, <1>2, <2>1, <3>1, <3>3, <3>5, <3>6 DEF IInv, CursorInv
  <2>3. CASE cursor # Garbage /\ cursor.branch # 2
    <3>1. cursor.branch = 1
      BY <2>1, <2>3 DEF IInv, CursorInv
    <3>2. \A h : OnBranchOf(cursor, h)' = OnBranchOf(cursor, h)
      BY <1>0, <3>1 DEF OnBranchOf
    <3>. QED  BY <1>0, <1>1, <1>2, <2>1, <3>1, <3>2 DEF IInv, CursorInv
  <2>4. CASE cursor = Garbage
    <3>1. cursor' = Garbage' /\ cursor' = cursor
      BY <1>0, <2>4 DEF Garbage
    <3>. QED  BY <1>1, <2>1, <3>1 DEF CursorInv
  <2>. QED  BY <2>2, <2>3, <2>4
<1>6. GivesUpLate'
  BY <1>0, <1>1, KeepGivesUp DEF IInv
<1>. QED  BY <1>2, <1>3, <1>4, <1>5, <1>6 DEF IInv

\* A new block on the main chain.
LEMMA ExtendIInv ==
  ASSUME IInv, Extend
  PROVE  IInv'
<1>0. /\ main \in Seq({1, 2}) /\ Len(main) \in Nat /\ Len(main) >= 1 /\ Len(main) < MaxHeight
      /\ MaxHeight \in Nat /\ main[Len(main)] \in {1, 2}
      /\ \A i, j \in 1 .. Len(main) : i <= j => main[i] <= main[j]
      /\ known \subseteq [height : 0 .. MaxHeight, branch : {1, 2}]
      /\ main' = Append(main, main[Len(main)])
      /\ known' = known \cup {Block(Len(main) + 1, main[Len(main)])}
  BY Basics DEF IInv, NodeInv, Extend, Last
<1>1. /\ main' \in Seq({1, 2}) /\ Len(main') = Len(main) + 1
      /\ \A h \in 1 .. Len(main) : main'[h] = main[h]
      /\ main'[Len(main) + 1] = main[Len(main)]
  BY <1>0
<1>2. ASSUME NEW i \in 1 .. Len(main'), NEW j \in 1 .. Len(main'), i <= j
      PROVE  main'[i] <= main'[j]
  <2>. DEFINE Down(k) == IF k <= Len(main) THEN k ELSE Len(main)
  <2>1. Down(i) \in 1 .. Len(main) /\ Down(j) \in 1 .. Len(main) /\ Down(i) <= Down(j)
    BY <1>0, <1>1, <1>2
  <2>2. ASSUME NEW k \in 1 .. Len(main') PROVE main'[k] = main[Down(k)]
    <3>1. CASE k <= Len(main)
      BY <1>0, <1>1, <3>1
    <3>2. CASE ~ (k <= Len(main))
      <4>1. k = Len(main) + 1
        BY <1>0, <1>1, <3>2
      <4>. QED  BY <1>0, <1>1, <3>2, <4>1
    <3>. QED  BY <3>1, <3>2
  <2>3. main'[i] = main[Down(i)] /\ main'[j] = main[Down(j)]
    BY <2>2
  <2>. HIDE DEF Down
  <2>. QED  BY <1>0, <2>1, <2>3
<1>3. known' \subseteq [height : 0 .. MaxHeight, branch : {1, 2}]
  <2>1. Block(Len(main) + 1, main[Len(main)]) \in [height : 0 .. MaxHeight, branch : {1, 2}]
    BY <1>0 DEF Block
  <2>. QED  BY <1>0, <2>1
<1>4. NodeInv'
  BY <1>0, <1>1, <1>2, <1>3 DEF NodeInv
<1>5. UNCHANGED <<chain, faults, pc, last, tip, call, streamVars, lookup>>
  BY DEF Extend
<1>6. Len(main') >= Len(main)
  BY <1>0, <1>1
<1>. QED  BY <1>1, <1>4, <1>5, <1>6, NodeStep

\* A longer branch replaces blocks of the main chain.
LEMMA ReorgIInv ==
  ASSUME IInv, NEW h \in DOMAIN main, Reorg(h)
  PROVE  IInv'
<1>0. /\ main \in Seq({1, 2}) /\ Len(main) \in Nat /\ Len(main) >= 1 /\ Len(main) < MaxHeight
      /\ MaxHeight \in Nat /\ main[Len(main)] = 1 /\ DOMAIN main = 1 .. Len(main)
      /\ \A i, j \in 1 .. Len(main) : i <= j => main[i] <= main[j]
      /\ known \subseteq [height : 0 .. MaxHeight, branch : {1, 2}]
      /\ main' = [k \in 1 .. Len(main) + 1 |-> IF k < h THEN main[k] ELSE 2]
      /\ known' = known \cup {Block(k, 2) : k \in h .. Len(main) + 1}
  BY Basics DEF IInv, NodeInv, Reorg, Last
<1>1. h \in 1 .. Len(main)
  BY <1>0
<1>2. ASSUME NEW k \in 1 .. Len(main) PROVE main[k] = 1
  <2>1. Len(main) \in 1 .. Len(main) /\ k <= Len(main) /\ main[k] \in {1, 2}
    BY <1>0
  <2>2. main[k] <= main[Len(main)]
    BY <1>0, <2>1
  <2>. QED  BY <1>0, <2>1, <2>2
<1>3. ASSUME NEW k \in 1 .. Len(main) + 1
      PROVE  main'[k] = IF k < h THEN 1 ELSE 2
  BY <1>0, <1>1, <1>2
<1>4. main' \in Seq({1, 2}) /\ Len(main') = Len(main) + 1
  <2>1. main' \in [1 .. Len(main) + 1 -> {1, 2}] /\ Len(main) + 1 \in Nat
    BY <1>0, <1>1, <1>2
  <2>2. DOMAIN main' = 1 .. Len(main) + 1 /\ main' \in Seq({1, 2})
    BY <2>1
  <2>. QED  BY <2>1, <2>2
<1>5. \A i, j \in 1 .. Len(main') : i <= j => main'[i] <= main'[j]
  BY <1>0, <1>1, <1>3, <1>4
<1>6. known' \subseteq [height : 0 .. MaxHeight, branch : {1, 2}]
  <2>1. \A k \in h .. Len(main) + 1 : Block(k, 2) \in [height : 0 .. MaxHeight, branch : {1, 2}]
    BY <1>0, <1>1 DEF Block
  <2>. QED  BY <1>0, <2>1
<1>7. NodeInv'
  BY <1>0, <1>4, <1>5, <1>6 DEF NodeInv
<1>8. UNCHANGED <<chain, faults, pc, last, tip, call, streamVars, lookup>>
  BY DEF Reorg
<1>9. Len(main') >= Len(main)
  BY <1>0, <1>4
<1>. QED  BY <1>0, <1>7, <1>8, <1>9, NodeStep

\* A request for the tip.
LEMMA TipRequestIInv ==
  ASSUME IInv, TipRequest
  PROVE  IInv'
<1>0. /\ UNCHANGED <<chain, main, known, last, tip, flight, next, cursor, immediate, sbuf, bytes,
                     sout, sent, lookup>>
      /\ pc = "tip" /\ Running(Client.best, call)
  BY DEF TipRequest, streamVars, sizeVars, nodeVars
<1>1. PICK o \in Outcomes(Client.best, call) :
        Count(o) /\ call' = o.call /\ pc' = IF o.panic THEN "panicked" ELSE pc
  BY DEF TipRequest
<1>2. /\ chain \in Chain /\ faults \in Nat /\ call \in CallT /\ TipCall(call) /\ NodeInv
  BY <1>0 DEF IInv, PlanInv
<1>3. /\ o.call \in CallT /\ TipCall(o.call) /\ o.fault \in {0, 1} /\ o.panic \in BOOLEAN
      /\ o.panic => chain = "ergo" /\ o.fault = 1
  BY <1>0, <1>2, TipOutcome
<1>4. faults' = faults + o.fault /\ faults' \in Nat /\ faults' >= faults
  BY <1>1, <1>2, <1>3 DEF Count
<1>5. TipCall(o.call)'
  <2>. DEFINE c == o.call
  <2>1. TipCall(c)
    BY <1>3
  <2>. HIDE DEF c
  <2>2. TipCall(c)'
    BY <1>0, <2>1 DEF TipCall
  <2>. QED  BY <2>2 DEF c
<1>6. PlanInv'
  <2>1. TipCall(call)'
    BY <1>1, <1>5
  <2>2. pc' # "stream"
    BY <1>0, <1>1, <1>3
  <2>3. call' \in CallT
    BY <1>1, <1>3
  <2>. QED  BY <1>0, <1>4, <2>1, <2>2, <2>3 DEF IInv, PlanInv
<1>7. Fetched' = Fetched /\ BatchInv'
  BY <1>0, KeepBatch DEF IInv
<1>8. FlightInv' /\ ItemsInv'
  BY <1>0, <1>2, <1>4, <1>7, KeepFlight, KeepItems DEF IInv
<1>9. CursorInv'
  BY <1>0, <1>7, Basics, KeepCursor DEF IInv
<1>10. GivesUpLate'
  <2>1. CASE o.panic
    BY <1>0, <1>2, <1>3, <1>4, <2>1 DEF GivesUpLate
  <2>2. CASE ~o.panic
    <3>1. pc' = pc
      BY <1>1, <2>2
    <3>. QED  BY <1>0, <1>2, <1>4, <3>1, KeepGivesUp DEF IInv
  <2>. QED  BY <1>3, <2>1, <2>2
<1>11. NodeInv'
  BY <1>0 DEF IInv, NodeInv
<1>. QED  BY <1>6, <1>7, <1>8, <1>9, <1>10, <1>11 DEF IInv

\* A step that leaves the stream, the plan and the node alone and only ends,
\* stops or signals.
LEMMA QuietStep ==
  ASSUME IInv, UNCHANGED <<chain, nodeVars, last, tip, call, streamVars, lookup, faults>>,
         pc' = pc \/ pc' = "ended"
  PROVE  IInv'
<1>0. UNCHANGED <<chain, main, known, last, tip, call, flight, next, cursor, immediate, sbuf, bytes,
                  sout, sent, lookup, faults>>
  BY DEF streamVars, sizeVars, nodeVars
<1>1. chain \in Chain /\ faults \in Nat /\ faults' \in Nat /\ faults' >= faults
  BY <1>0, Basics
<1>2. Fetched' = Fetched /\ BatchInv'
  BY <1>0, KeepBatch DEF IInv
<1>3. FlightInv' /\ ItemsInv'
  BY <1>0, <1>1, <1>2, KeepFlight, KeepItems DEF IInv
<1>4. CursorInv'
  BY <1>0, <1>2, Basics, KeepCursor DEF IInv
<1>5. NodeInv'
  BY <1>0 DEF IInv, NodeInv
<1>6. GivesUpLate'
  BY <1>0, <1>1, KeepGivesUp DEF IInv
<1>7. PlanInv'
  <2>1. CASE pc' = pc
    BY <1>0, <2>1 DEF IInv, PlanInv, TipCall
  <2>2. CASE pc' = "ended"
    BY <1>0, <1>1, <2>2, KeepPlan DEF IInv
  <2>. QED  BY <2>1, <2>2
<1>. QED  BY <1>2, <1>3, <1>4, <1>5, <1>6, <1>7 DEF IInv

\* No tip, no stream.
LEMMA TipFailsIInv ==
  ASSUME IInv, TipFails
  PROVE  IInv'
<1>1. UNCHANGED <<chain, nodeVars, last, tip, call, streamVars, lookup, faults>> /\ pc' = "ended"
  BY DEF TipFails
<1>. QED  BY <1>1, QuietStep

\* The tip is known: its height is that of its block.
LEMMA TipKnownIInv ==
  ASSUME IInv, TipKnown
  PROVE  IInv'
<1>0. /\ UNCHANGED <<chain, main, known, last, flight, next, cursor, immediate, sbuf, bytes,
                     sout, sent, lookup, faults>>
      /\ pc = "tip" /\ Done(Client.best, call) /\ call.raw # Garbage
      /\ tip' = [height |-> HeightOf(call), block |-> call.raw] /\ call' = NewCall(1, 0)
      /\ pc' = IF HeightOf(call) <= last.height THEN "ended" ELSE "stream"
  BY DEF TipKnown, streamVars, sizeVars, nodeVars
<1>1. /\ chain \in Chain /\ faults \in Nat /\ call \in CallT /\ TipCall(call)
      /\ next = last.height + 1 /\ last.height \in {0, 1} /\ Len(main) \in 1 .. MaxHeight /\ MaxHeight \in Nat
  BY <1>0, Basics DEF IInv, PlanInv
<1>2. call.raw \in BlockT /\ call.raw.height \in 0 .. MaxHeight /\ call.at \in 0 .. 4
  BY <1>1 DEF CallT, BlockT
<1>3. HeightOf(call) = call.raw.height /\ call.raw.height <= Len(main)
  <2>1. CASE chain \in BtcLike
    <3>1. Client.best = <<"bestblockhash", "block", "height">>
      BY <1>1, <2>1, ClientFacts
    <3>2. call.at = 4
      BY <1>0, <1>2, <3>1 DEF Done
    <3>3. HeightOf(call) = call.height
      BY <2>1 DEF HeightOf, BtcLike
    <3>. QED  BY <1>0, <1>1, <2>1, <3>2, <3>3 DEF TipCall
  <2>2. CASE chain = "ergo"
    <3>1. Client.best = <<"info", "ids", "block">>
      BY <1>1, <2>2, ClientFacts
    <3>2. call.at = 4
      BY <1>0, <1>2, <3>1 DEF Done
    <3>3. HeightOf(call) = call.raw.height
      BY <2>2 DEF HeightOf
    <3>. QED  BY <1>0, <1>1, <2>2, <3>2, <3>3 DEF TipCall
  <2>3. CASE chain = "cardano"
    <3>1. Client.best = <<"point", "block">>
      BY <1>1, <2>3, ClientFacts
    <3>2. call.at = 3
      BY <1>0, <1>1, <1>2, <2>3, <3>1 DEF Done, TipCall
    <3>3. HeightOf(call) = call.raw.height
      BY <2>3 DEF HeightOf
    <3>. QED  BY <1>0, <1>1, <2>3, <3>2, <3>3 DEF TipCall
  <2>. QED  BY <1>1, <2>1, <2>2, <2>3 DEF Chain
<1>4. /\ tip' \in Item /\ tip'.height = tip'.block.height /\ tip'.height <= Len(main)
      /\ tip'.height = call.raw.height /\ tip'.height \in Nat
  BY <1>0, <1>1, <1>2, <1>3 DEF Item
<1>5. PlanInv'
  <2>1. pc' # "tip" /\ (pc' = "stream" => tip'.height > last.height)
    BY <1>0, <1>1, <1>2, <1>3, <1>4
  <2>. QED  BY <1>0, <1>4, <2>1 DEF IInv, PlanInv
<1>6. Fetched' = Fetched /\ BatchInv'
  BY <1>0, KeepBatch DEF IInv
<1>7. FlightInv' /\ ItemsInv'
  <2>1. faults' \in Nat /\ faults' >= faults
    BY <1>0, <1>1
  <2>2. FlightInv'
    BY <1>0, <1>1, <2>1, KeepFlight DEF IInv
  <2>. QED  BY <1>0, <1>6, <2>2, KeepItems DEF IInv
<1>8. CursorInv'
  BY <1>0, <1>6, Basics, KeepCursor DEF IInv
<1>9. NodeInv'
  BY <1>0 DEF IInv, NodeInv
<1>10. GivesUpLate'
  BY <1>0 DEF GivesUpLate
<1>. QED  BY <1>5, <1>6, <1>7, <1>8, <1>9, <1>10 DEF IInv

\* A call for the next height is started.
LEMMA StartFetchIInv ==
  ASSUME IInv, StartFetch
  PROVE  IInv'
<1>0. /\ UNCHANGED <<chain, main, known, last, tip, call, cursor, immediate, sbuf, bytes,
                     sout, sent, lookup, faults, pc>>
      /\ pc = "stream" /\ Rest /\ next <= tip.height /\ next' = next + 1
      /\ flight' = [h \in DOMAIN flight \cup {next} |->
                      IF h = next THEN NewCall(Client.attempts, h) ELSE flight[h]]
  BY DEF StartFetch, Streaming, sizeVars, nodeVars
<1>1. /\ chain \in Chain /\ faults \in Nat /\ last.height \in {0, 1} /\ tip.height \in Nat
      /\ tip.height <= MaxHeight /\ MaxHeight \in Nat /\ next \in Nat /\ next >= last.height + 1
      /\ DOMAIN flight \subseteq last.height + 1 .. next - 1
      /\ Len(Fetched) \in Nat
  <2>1. tip.height <= Len(main) /\ Len(main) <= MaxHeight /\ Len(main) \in Nat
    BY Basics
  <2>2. next >= last.height + 1 /\ DOMAIN flight \subseteq last.height + 1 .. next - 1
    BY Basics DEF IInv, FlightInv
  <2>. QED  BY <2>1, <2>2, Basics
<1>2. /\ Client' = Client /\ Rest' /\ Client.attempts \in Nat \ {0}
  BY <1>0, <1>1, KeepClient, ClientFacts
<1>3. /\ DOMAIN flight' = DOMAIN flight \cup {next} /\ next \notin DOMAIN flight
      /\ flight'[next] = NewCall(Client.attempts, next)
      /\ \A h \in DOMAIN flight : flight'[h] = flight[h]
  <2>1. next \notin DOMAIN flight
    BY <1>1
  <2>. QED  BY <1>0, <2>1
<1>4. FlightInv'
  <2>1. FlightCall(next, flight'[next], faults, Client.attempts)
    <3>1. next \in 0 .. MaxHeight
      BY <1>0, <1>1
    <3>2. /\ flight'[next] \in CallT /\ flight'[next].at = 1 /\ flight'[next].left = Client.attempts
          /\ flight'[next].height = next /\ flight'[next].raw = Garbage
      BY <1>2, <1>3, <3>1, NewCallFacts
    <3>. QED  BY <1>1, <1>2, <3>2 DEF FlightCall
  <2>2. \A h \in DOMAIN flight : FlightCall(h, flight[h], faults, Client.attempts)
    BY DEF IInv, FlightInv
  <2>3. \A h \in DOMAIN flight' : FlightCall(h, flight'[h], faults', Client.attempts)
    BY <1>0, <1>3, <2>1, <2>2
  <2>4. /\ next' \in last.height + 1 .. MaxHeight + 1 /\ next' <= tip.height + 1
        /\ DOMAIN flight' \subseteq last.height + 1 .. next' - 1
    BY <1>0, <1>1, <1>3
  <2>. QED  BY <1>0, <1>2, <2>3, <2>4 DEF FlightInv
<1>5. Fetched' = Fetched /\ BatchInv'
  BY <1>0, KeepBatch DEF IInv
<1>6. ItemsInv'
  <2>1. /\ Cardinality(DOMAIN flight') = Cardinality(DOMAIN flight) + 1
        /\ Cardinality(DOMAIN flight) \in Nat
    <3>1. IsFiniteSet(DOMAIN flight)
      <4>0. last.height + 1 \in Int /\ next - 1 \in Int
        BY <1>1
      <4>1. IsFiniteSet(last.height + 1 .. next - 1)
        BY <4>0, FS_Interval
      <4>. QED  BY <1>1, <4>1, FS_Subset
    <3>2. Cardinality(DOMAIN flight) \in Nat
      BY <3>1, FS_CardinalityType
    <3>3. Cardinality(DOMAIN flight \cup {next}) = Cardinality(DOMAIN flight) + 1
      BY <1>3, <3>1, FS_AddElement
    <3>. QED  BY <1>3, <3>2, <3>3
  <2>2. Len(Fetched) + Cardinality(DOMAIN flight') = next' - last.height - 1
    BY <1>0, <1>1, <2>1 DEF IInv, ItemsInv
  <2>3. ASSUME NEW i \in 1 .. Len(Fetched), Fetched[i].block # Garbage
        PROVE  /\ Fetched[i].height \in last.height + 1 .. next' - 1
               /\ Fetched[i].height \notin DOMAIN flight'
               /\ immediate => \A h \in DOMAIN flight' : Fetched[i].height < h
    <3>1. /\ Fetched[i].height \in last.height + 1 .. next - 1
          /\ Fetched[i].height \notin DOMAIN flight
          /\ immediate => \A h \in DOMAIN flight : Fetched[i].height < h
      BY <1>0, <2>3 DEF IInv, ItemsInv
    <3>. QED  BY <1>0, <1>1, <1>3, <3>1
  <2>4. Garbage' = Garbage
    BY DEF Garbage
  <2>. QED  BY <1>0, <1>2, <1>5, <2>2, <2>3, <2>4 DEF IInv, ItemsInv
<1>7. CursorInv'
  BY <1>0, <1>5, Basics, KeepCursor DEF IInv
<1>8. NodeInv' /\ GivesUpLate' /\ PlanInv'
  <2>1. NodeInv' /\ PlanInv'
    BY <1>0 DEF IInv, NodeInv, PlanInv
  <2>. QED  BY <1>0, <2>1 DEF GivesUpLate
<1>. QED  BY <1>4, <1>5, <1>6, <1>7, <1>8 DEF IInv

\* A request of a call in flight.
LEMMA FetchRequestIInv ==
  ASSUME IInv, NEW h \in DOMAIN flight, FetchRequest(h)
  PROVE  IInv'
<1>0. /\ UNCHANGED <<chain, main, known, last, tip, call, next, cursor, immediate, sbuf, bytes,
                     sout, sent, lookup>>
      /\ pc = "stream" /\ Running(Client.byHeight, flight[h])
  BY DEF FetchRequest, Streaming, sizeVars, nodeVars
<1>1. PICK o \in Outcomes(Client.byHeight, flight[h]) :
        /\ Count(o) /\ flight' = [flight EXCEPT ![h] = o.call]
        /\ pc' = IF o.panic \/ Failed(o.call) THEN "panicked" ELSE pc
  BY DEF FetchRequest
<1>2. /\ chain \in Chain /\ faults \in Nat /\ NodeInv /\ last.height \in {0, 1} /\ tip.height \in Nat
      /\ next \in Nat /\ tip.height <= Len(main) /\ Len(main) \in Nat
      /\ DOMAIN flight \subseteq last.height + 1 .. next - 1
      /\ next = last.height + 1 \/ next <= tip.height + 1
      /\ FlightCall(h, flight[h], faults, Client.attempts)
  <2>1. NodeInv
    BY DEF IInv
  <2>. QED  BY <2>1, Basics DEF IInv, FlightInv
<1>3. h \in 1 .. Len(main)
  <2>1. h \in last.height + 1 .. next - 1
    BY <1>2
  <2>. QED  BY <1>2, <2>1
<1>4. Rest
  BY DEF IInv, FlightInv
<1>5. /\ FlightCall(h, o.call, faults + o.fault, Client.attempts)
      /\ o.fault \in {0, 1} /\ o.panic \in BOOLEAN
      /\ o.panic \/ Failed(o.call) =>
           faults + o.fault >= Client.attempts \/ (chain = "ergo" /\ faults + o.fault > 0)
  BY <1>0, <1>2, <1>3, <1>4, FlightOutcome
<1>6. faults' = faults + o.fault /\ faults' \in Nat /\ faults' >= faults
  BY <1>1, <1>2, <1>5 DEF Count
<1>7. /\ Client' = Client /\ (Rest' <=> Rest) /\ Client.attempts \in Nat
  BY <1>0, <1>2, KeepClient, ClientFacts
<1>8. /\ DOMAIN flight' = DOMAIN flight /\ flight'[h] = o.call
      /\ \A k \in DOMAIN flight : k # h => flight'[k] = flight[k]
  BY <1>1
<1>9. FlightInv'
  <2>1. ASSUME NEW k \in DOMAIN flight
        PROVE  FlightCall(k, flight'[k], faults', Client.attempts)
    <3>1. CASE k = h
      BY <1>5, <1>6, <1>8, <3>1
    <3>2. CASE k # h
      <4>1. FlightCall(k, flight[k], faults, Client.attempts)
        BY DEF IInv, FlightInv
      <4>2. flight[k].left \in Nat
        BY <4>1 DEF FlightCall, CallT
      <4>3. FlightCall(k, flight[k], faults', Client.attempts)
        BY <1>2, <1>6, <1>7, <4>1, <4>2 DEF FlightCall
      <4>. QED  BY <1>8, <3>2, <4>3
    <3>. QED  BY <3>1, <3>2
  <2>. QED  BY <1>0, <1>7, <1>8, <2>1 DEF IInv, FlightInv
<1>10. Fetched' = Fetched /\ BatchInv'
  BY <1>0, KeepBatch DEF IInv
<1>11. ItemsInv'
  BY <1>0, <1>7, <1>8, <1>10 DEF IInv, ItemsInv
<1>12. CursorInv'
  BY <1>0, <1>10, Basics, KeepCursor DEF IInv
<1>13. pc' = "panicked" \/ pc' = pc
  BY <1>1
<1>14. NodeInv' /\ PlanInv'
  <2>1. PlanInv'
    BY <1>0, <1>6, <1>13, KeepPlan DEF IInv
  <2>. QED  BY <1>0, <2>1 DEF IInv, NodeInv
<1>15. GivesUpLate'
  <2>1. CASE o.panic \/ Failed(o.call)
    BY <1>0, <1>5, <1>6, <1>7, <2>1 DEF GivesUpLate
  <2>2. CASE ~ (o.panic \/ Failed(o.call))
    BY <1>0, <1>1, <2>2 DEF GivesUpLate
  <2>. QED  BY <2>1, <2>2
<1>. QED  BY <1>9, <1>10, <1>11, <1>12, <1>14, <1>15 DEF IInv

\* A complete call leaves the stream: its block is passed on.
LEMMA YieldIInv ==
  ASSUME IInv, NEW h \in DOMAIN flight, Yield(h)
  PROVE  IInv'
<1>. DEFINE x == [height |-> HeightOf(flight[h]), block |-> flight[h].raw]
<1>0. /\ UNCHANGED <<chain, main, known, faults, pc, last, tip, call, next, cursor, lookup>>
      /\ pc = "stream" /\ Yields(h) /\ Push(x)
      /\ flight' = [k \in DOMAIN flight \ {h} |-> flight[k]]
  BY DEF Yield, Streaming, nodeVars
<1>1. /\ chain \in Chain /\ faults \in Nat /\ last.height \in {0, 1} /\ MaxHeight \in Nat
      /\ next \in Nat /\ Fetched \in Seq(Item) /\ Len(Fetched) \in Nat
      /\ DOMAIN flight \subseteq last.height + 1 .. next - 1
      /\ FlightCall(h, flight[h], faults, Client.attempts) /\ Rest /\ BatchInv
  BY Basics DEF IInv, FlightInv
<1>2. /\ Client' = Client /\ Rest' /\ "ergo" \notin BtcLike /\ chain \in BtcLike \cup {"ergo"}
  BY <1>0, <1>1, KeepClient, ClientFacts DEF BtcLike
<1>3. /\ flight[h] \in CallT /\ flight[h].height = h
      /\ flight[h].raw = Garbage \/ flight[h].raw.height = h
  BY <1>1 DEF FlightCall
<1>4. /\ x \in Item /\ x.block = flight[h].raw
      /\ x.block # Garbage => x.height = h /\ x.block.height = h
  <2>1. flight[h].raw \in BlockT /\ flight[h].raw.height \in 0 .. MaxHeight /\ flight[h].height \in 0 .. MaxHeight
    BY <1>3 DEF CallT, BlockT
  <2>2. HeightOf(flight[h]) \in {flight[h].height, flight[h].raw.height}
    BY DEF HeightOf
  <2>3. x.height = HeightOf(flight[h]) /\ x.block = flight[h].raw
    OBVIOUS
  <2>4. x \in Item
    BY <2>1, <2>2 DEF Item
  <2>. HIDE DEF x
  <2>. QED  BY <1>3, <2>2, <2>3, <2>4
<1>. HIDE DEF x
<1>5. BatchInv' /\ Fetched' = Append(Fetched, x) /\ immediate' = immediate
  BY <1>0, <1>1, <1>4, PushFacts
<1>6. /\ Len(Fetched') = Len(Fetched) + 1 /\ Fetched'[Len(Fetched) + 1] = x
      /\ \A i \in 1 .. Len(Fetched) : Fetched'[i] = Fetched[i]
      /\ 1 .. Len(Fetched') = 1 .. Len(Fetched) \cup {Len(Fetched) + 1}
  <2>1. /\ Len(Fetched') = Len(Fetched) + 1 /\ Fetched'[Len(Fetched) + 1] = x
        /\ \A i \in 1 .. Len(Fetched) : Fetched'[i] = Fetched[i]
    BY <1>1, <1>4, <1>5
  <2>. QED  BY <1>1, <2>1
<1>7. /\ DOMAIN flight' = DOMAIN flight \ {h}
      /\ \A k \in DOMAIN flight' : flight'[k] = flight[k]
  BY <1>0
<1>8. FlightInv'
  <2>1. \A k \in DOMAIN flight : FlightCall(k, flight[k], faults, Client.attempts)
    BY DEF IInv, FlightInv
  <2>2. \A k \in DOMAIN flight' : FlightCall(k, flight'[k], faults', Client.attempts)
    BY <1>0, <1>7, <2>1
  <2>3. DOMAIN flight' \subseteq last.height + 1 .. next - 1
    BY <1>1, <1>7
  <2>. QED  BY <1>0, <1>2, <2>2, <2>3 DEF IInv, FlightInv
<1>9. ItemsInv'
  <2>0. Garbage' = Garbage
    BY DEF Garbage
  <2>1. Len(Fetched') + Cardinality(DOMAIN flight') = next - last.height - 1
    <3>1. IsFiniteSet(DOMAIN flight)
      <4>0. last.height + 1 \in Int /\ next - 1 \in Int
        BY <1>1
      <4>1. IsFiniteSet(last.height + 1 .. next - 1)
        BY <4>0, FS_Interval
      <4>. QED  BY <1>1, <4>1, FS_Subset
    <3>2. Cardinality(DOMAIN flight) \in Nat
      BY <3>1, FS_CardinalityType
    <3>3. Cardinality(DOMAIN flight \ {h}) = Cardinality(DOMAIN flight) - 1
      BY <3>1, FS_RemoveElement
    <3>4. Len(Fetched) + Cardinality(DOMAIN flight) = next - last.height - 1
      BY <1>1 DEF IInv, ItemsInv
    <3>. QED  BY <1>1, <1>6, <1>7, <3>2, <3>3, <3>4
  <2>2. immediate => \A k \in DOMAIN flight' : h < k
    <3>. SUFFICES ASSUME immediate, NEW k \in DOMAIN flight' PROVE h < k
      OBVIOUS
    <3>1. DOMAIN flight \in SUBSET Nat /\ DOMAIN flight # {} /\ h = Min(DOMAIN flight)
      BY <1>0, <1>1 DEF Yields
    <3>2. h <= k /\ h # k /\ h \in Nat /\ k \in Nat
      BY <1>7, <3>1, MinInSet
    <3>. QED  BY <3>2
  <2>3. ASSUME NEW i \in 1 .. Len(Fetched), Fetched[i].block # Garbage
        PROVE  /\ Fetched[i].height = Fetched[i].block.height
               /\ Fetched[i].height \in last.height + 1 .. next - 1
               /\ Fetched[i].height \notin DOMAIN flight
               /\ immediate => \A k \in DOMAIN flight : Fetched[i].height < k
    BY <1>1, <2>3 DEF IInv, ItemsInv
  <2>4. ASSUME NEW i \in 1 .. Len(Fetched'), Fetched'[i].block # Garbage
        PROVE  /\ Fetched'[i].height = Fetched'[i].block.height
               /\ Fetched'[i].height \in last.height + 1 .. next - 1
               /\ Fetched'[i].height \notin DOMAIN flight'
               /\ immediate => \A k \in DOMAIN flight' : Fetched'[i].height < k
    <3>1. CASE i \in 1 .. Len(Fetched)
      BY <1>6, <1>7, <2>3, <2>4, <3>1
    <3>2. CASE i = Len(Fetched) + 1
      <4>1. Fetched'[i] = x /\ x.height = h /\ x.block.height = h
        BY <1>4, <1>6, <2>4, <3>2
      <4>. QED  BY <1>1, <1>7, <2>2, <4>1
    <3>. QED  BY <1>6, <3>1, <3>2
  <2>5. ASSUME NEW i \in 1 .. Len(Fetched'), NEW j \in 1 .. Len(Fetched'),
               Fetched'[i].block # Garbage, Fetched'[j].block # Garbage, i < j
        PROVE  /\ Fetched'[i].height # Fetched'[j].height
               /\ immediate => Fetched'[i].height < Fetched'[j].height
    <3>1. i \in 1 .. Len(Fetched) /\ Fetched'[i] = Fetched[i]
      BY <1>1, <1>6, <2>5
    <3>2. CASE j \in 1 .. Len(Fetched)
      <4>1. Fetched'[j] = Fetched[j]
        BY <1>6, <3>2
      <4>2. \A k, l \in 1 .. Len(Fetched) :
              Fetched[k].block # Garbage /\ Fetched[l].block # Garbage /\ k < l =>
                /\ Fetched[k].height # Fetched[l].height
                /\ immediate => Fetched[k].height < Fetched[l].height
        BY <1>1 DEF IInv, ItemsInv
      <4>3. Fetched[i].block # Garbage /\ Fetched[j].block # Garbage
        BY <2>5, <3>1, <4>1
      <4>4. /\ Fetched[i].height # Fetched[j].height
            /\ immediate => Fetched[i].height < Fetched[j].height
        BY <2>5, <3>1, <3>2, <4>2, <4>3
      <4>. QED  BY <3>1, <4>1, <4>4
    <3>3. CASE j = Len(Fetched) + 1
      <4>1. Fetched'[j] = x /\ x.height = h
        BY <1>4, <1>6, <2>5, <3>3
      <4>2. Fetched[i].height # h /\ (immediate => Fetched[i].height < h)
        BY <2>3, <2>5, <3>1
      <4>. QED  BY <3>1, <4>1, <4>2
    <3>. QED  BY <1>6, <3>2, <3>3
  <2>. QED  BY <1>0, <1>2, <1>5, <2>0, <2>1, <2>4, <2>5 DEF ItemsInv
<1>10. CursorInv'
  <2>1. Len(Fetched') \in Nat /\ Len(Fetched) <= Len(Fetched')
    BY <1>1, <1>6
  <2>. QED  BY <1>0, <1>1, <1>6, <2>1, KeepCursor DEF IInv
<1>11. NodeInv' /\ GivesUpLate' /\ PlanInv'
  <2>1. pc' = "stream"
    BY <1>0
  <2>2. PlanInv'
    BY <1>0, <1>1, <2>1, KeepPlan DEF IInv
  <2>3. GivesUpLate'
    BY <2>1 DEF GivesUpLate
  <2>. QED  BY <1>0, <2>2, <2>3 DEF IInv, NodeInv
<1>. QED  BY <1>5, <1>8, <1>9, <1>10, <1>11 DEF IInv

\* A stream that ends sends the tail of its batches and keeps the rest.
LEMMA EndIInv ==
  ASSUME IInv, NEW how, End(how), pc # "tip",
         UNCHANGED <<chain, main, known, last, tip, call, flight, next, cursor, lookup>>,
         faults' \in Nat, faults' >= faults
  PROVE  IInv'
<1>1. /\ BatchInv' /\ Fetched' = Fetched /\ immediate' = immediate /\ pc' = "ended"
  BY EndFacts DEF IInv
<1>2. chain \in Chain /\ faults \in Nat /\ Len(Fetched) \in Nat
  BY Basics
<1>3. FlightInv' /\ ItemsInv'
  BY <1>1, <1>2, KeepFlight, KeepItems DEF IInv
<1>4. CursorInv'
  BY <1>1, <1>2, KeepCursor DEF IInv
<1>5. NodeInv'
  BY DEF IInv, NodeInv
<1>6. PlanInv'
  BY <1>1, KeepPlan DEF IInv
<1>7. GivesUpLate'
  BY <1>1 DEF GivesUpLate
<1>. QED  BY <1>1, <1>3, <1>4, <1>5, <1>6, <1>7 DEF IInv

\* The four ways a stream ends by a step of the task.
LEMMA EndsIInv ==
  ASSUME IInv, FetchComplete \/ AwaitReply \/ RequestNextFails \/ StopOnShutdown
  PROVE  IInv'
<1>1. faults \in Nat
  BY Basics
<1>2. CASE FetchComplete
  <2>1. /\ End("complete") /\ pc # "tip" /\ faults' = faults
        /\ UNCHANGED <<chain, main, known, last, tip, call, flight, next, cursor, lookup>>
    BY <1>2 DEF FetchComplete, Streaming, nodeVars
  <2>2. faults' \in Nat /\ faults' >= faults
    BY <1>1, <2>1
  <2>. QED  BY <2>1, <2>2, EndIInv
<1>3. CASE AwaitReply
  <2>1. /\ End("complete") /\ pc # "tip" /\ faults' = faults
        /\ UNCHANGED <<chain, main, known, last, tip, call, flight, next, cursor, lookup>>
    BY <1>3 DEF AwaitReply, Streaming, nodeVars
  <2>2. faults' \in Nat /\ faults' >= faults
    BY <1>1, <2>1
  <2>. QED  BY <2>1, <2>2, EndIInv
<1>4. CASE RequestNextFails
  <2>1. /\ End("failed") /\ pc # "tip" /\ faults' = faults + 1
        /\ UNCHANGED <<chain, main, known, last, tip, call, flight, next, cursor, lookup>>
    BY <1>4 DEF RequestNextFails, Streaming, nodeVars
  <2>2. faults' \in Nat /\ faults' >= faults
    BY <1>1, <2>1
  <2>. QED  BY <2>1, <2>2, EndIInv
<1>5. CASE StopOnShutdown
  <2>1. /\ End("shutdown") /\ pc # "tip" /\ faults' = faults
        /\ UNCHANGED <<chain, main, known, last, tip, call, flight, next, cursor, lookup>>
    BY <1>5 DEF StopOnShutdown, nodeVars
  <2>2. faults' \in Nat /\ faults' >= faults
    BY <1>1, <2>1
  <2>. QED  BY <2>1, <2>2, EndIInv
<1>. QED  BY <1>2, <1>3, <1>4, <1>5

\* The intersection with the last persisted block, or a stream that fails there.
LEMMA IntersectIInv ==
  ASSUME IInv, Intersect
  PROVE  IInv'
<1>0. /\ UNCHANGED <<chain, main, known, last, tip, call, flight, next, immediate, sbuf, bytes,
                     sout, sent, lookup>>
      /\ pc = "stream" /\ cursor = Garbage
      /\ \/ cursor' \in {last, Origin} /\ UNCHANGED <<pc, faults>>
         \/ cursor' = cursor /\ pc' = "ended" /\ faults' \in {faults, faults + 1}
  BY DEF Intersect, Streaming, sizeVars, nodeVars
<1>1. /\ chain \in Chain /\ faults \in Nat /\ last.height \in {0, 1} /\ last \in BlockT
      /\ last.branch = 1 /\ last # Garbage /\ Len(main) \in Nat /\ Len(main) >= 1
      /\ Len(Fetched) \in Nat
  BY Basics
<1>2. faults' \in Nat /\ faults' >= faults /\ pc' # "tip" /\ pc' # "panicked"
  BY <1>0, <1>1
<1>3. Fetched' = Fetched /\ BatchInv'
  BY <1>0, KeepBatch DEF IInv
<1>4. FlightInv' /\ ItemsInv'
  BY <1>0, <1>1, <1>2, <1>3, KeepFlight, KeepItems DEF IInv
<1>5. CursorInv'
  <2>1. CASE cursor' = last
    <3>1. last.height <= Len(main) /\ last.height + 1 .. last.height = {}
      BY <1>1
    <3>. QED  BY <1>0, <1>1, <2>1, <3>1 DEF CursorInv
  <2>2. CASE cursor' = cursor
    BY <1>0, <1>1, <1>3, <2>2, KeepCursor DEF IInv
  <2>3. CASE cursor' = Origin
    <3>1. Origin.height = 0 /\ Origin.branch = 1 /\ Origin \in BlockT
      BY FetchAssumption DEF Origin, Block, BlockT
    <3>2. last.height + 1 .. Origin.height = {}
      BY <1>1, <3>1
    <3>. QED  BY <1>0, <1>1, <2>3, <3>1, <3>2 DEF CursorInv
  <2>. QED  BY <1>0, <2>1, <2>2, <2>3
<1>6. NodeInv'
  BY <1>0 DEF IInv, NodeInv
<1>7. PlanInv'
  BY <1>0, <1>2, KeepPlan DEF IInv
<1>8. GivesUpLate'
  BY <1>2 DEF GivesUpLate
<1>. QED  BY <1>3, <1>4, <1>5, <1>6, <1>7, <1>8 DEF IInv

\* The client follows the main chain by one block and passes it on.
LEMMA RollForwardIInv ==
  ASSUME IInv, RollForward
  PROVE  IInv'
<1>. DEFINE k == cursor.height + 1
            x == [height |-> cursor'.height, block |-> cursor']
<1>0. /\ UNCHANGED <<chain, main, known, faults, pc, last, tip, call, flight, next, lookup>>
      /\ pc = "stream" /\ ~Rest /\ cursor # Garbage /\ OnMain(cursor) /\ cursor # Tip
      /\ cursor' = MainAt(k) /\ Push(x)
  BY DEF RollForward, Streaming, nodeVars
<1>1. /\ chain \in Chain /\ faults \in Nat /\ last.height \in {0, 1} /\ MaxHeight \in Nat
      /\ Len(main) \in Nat /\ Len(main) >= 1 /\ Len(main) <= MaxHeight
      /\ Fetched \in Seq(Item) /\ Len(Fetched) \in Nat /\ NodeInv /\ BatchInv /\ DOMAIN main = 1 .. Len(main)
      /\ \A i, j \in 1 .. Len(main) : i <= j => main[i] <= main[j]
  BY Basics DEF IInv, NodeInv
<1>2. /\ cursor \in BlockT /\ cursor.height \in Nat /\ cursor.height <= Len(main)
      /\ cursor.branch \in {1, 2}
      /\ \A h \in last.height + 1 .. cursor.height :
           \E i \in 1 .. Len(Fetched) : Fetched[i] = [height |-> h, block |-> OnBranchOf(cursor, h)]
  BY <1>0, <1>1 DEF IInv, CursorInv, BlockT
<1>3. \/ cursor.height = 0 /\ cursor.branch = 1
      \/ cursor.height \in 1 .. Len(main) /\ main[cursor.height] = cursor.branch
  BY <1>0, <1>1 DEF OnMain, Origin, Block
<1>4. k \in 1 .. Len(main)
  <2>1. cursor.height # Len(main)
    <3>. SUFFICES ASSUME cursor.height = Len(main) PROVE FALSE
      OBVIOUS
    <3>1. main[Len(main)] = cursor.branch
      BY <1>1, <1>3
    <3>2. Tip = [height |-> cursor.height, branch |-> cursor.branch]
      BY <3>1 DEF Tip, MainAt, Block
    <3>3. cursor = [height |-> cursor.height, branch |-> cursor.branch]
      BY <1>2 DEF BlockT
    <3>. QED  BY <1>0, <3>2, <3>3
  <2>. QED  BY <1>1, <1>2, <2>1
<1>5. /\ cursor' \in BlockT /\ cursor'.height = k /\ cursor'.branch = main[k] /\ main[k] \in {1, 2}
      /\ cursor' # Garbage /\ MainAt(k) = Block(k, main[k])
  BY <1>0, <1>1, <1>4, MainFacts DEF MainAt
<1>6. x \in Item /\ x.height = k /\ x.block = cursor' /\ x.block.height = k
      /\ x = [height |-> k, block |-> cursor']
  <2>1. k \in 0 .. MaxHeight
    BY <1>1, <1>4
  <2>. HIDE DEF k
  <2>. QED  BY <1>5, <2>1 DEF Item
<1>. HIDE DEF x
<1>7. BatchInv' /\ Fetched' = Append(Fetched, x) /\ immediate' = immediate
  BY <1>0, <1>1, <1>6, PushFacts
<1>8. /\ Len(Fetched') = Len(Fetched) + 1 /\ Fetched'[Len(Fetched) + 1] = x
      /\ \A i \in 1 .. Len(Fetched) : Fetched'[i] = Fetched[i]
      /\ 1 .. Len(Fetched') = 1 .. Len(Fetched) \cup {Len(Fetched) + 1}
  <2>1. /\ Len(Fetched') = Len(Fetched) + 1 /\ Fetched'[Len(Fetched) + 1] = x
        /\ \A i \in 1 .. Len(Fetched) : Fetched'[i] = Fetched[i]
    BY <1>1, <1>6, <1>7
  <2>. QED  BY <1>1, <2>1
<1>9. Garbage' = Garbage /\ ~Rest'
  BY <1>0, KeepClient DEF Garbage
<1>10. ItemsInv'
  <2>1. ASSUME NEW i \in 1 .. Len(Fetched'), Fetched'[i].block # Garbage
        PROVE  Fetched'[i].height = Fetched'[i].block.height
    <3>1. CASE i \in 1 .. Len(Fetched)
      BY <1>8, <2>1, <3>1 DEF IInv, ItemsInv
    <3>2. CASE i = Len(Fetched) + 1
      BY <1>6, <1>8, <3>2
    <3>. QED  BY <1>8, <3>1, <3>2
  <2>. QED  BY <1>9, <2>1 DEF ItemsInv
<1>11. FlightInv'
  <2>1. faults' \in Nat /\ faults' >= faults
    BY <1>0, <1>1
  <2>. QED  BY <1>0, <1>1, <2>1, KeepFlight DEF IInv
<1>12. ASSUME NEW h \in last.height + 1 .. cursor.height
       PROVE  /\ OnBranchOf(cursor, h) = Block(h, main[h])
              /\ main[k] = 1 => main[h] = 1
  <2>1. /\ h \in 1 .. Len(main) /\ h <= cursor.height /\ cursor.height \in 1 .. Len(main)
        /\ cursor.height <= k /\ h <= k
    BY <1>1, <1>2, <1>12
  <2>2. main[cursor.height] = cursor.branch /\ main[h] \in {1, 2}
    <3>1. cursor.height # 0
      BY <2>1
    <3>. QED  BY <1>1, <1>3, <2>1, <3>1, MainFacts
  <2>3. main[h] <= main[cursor.height] /\ main[h] <= main[k]
    BY <1>1, <1>4, <2>1
  <2>4. main[k] = 1 => main[h] = 1
    BY <2>2, <2>3
  <2>5. cursor.branch = 1 => main[h] = 1
    BY <2>2, <2>3
  <2>. QED  BY <2>4, <2>5 DEF OnBranchOf, MainAt
<1>13. ASSUME NEW h \in last.height + 1 .. k
       PROVE  \E i \in 1 .. Len(Fetched') :
                Fetched'[i] = [height |-> h, block |-> OnBranchOf(cursor, h)']
  <2>1. CASE h = k
    <3>1. OnBranchOf(cursor, h)' = cursor'
      BY <1>0, <1>5, <2>1 DEF OnBranchOf, MainAt, Block
    <3>2. Fetched'[Len(Fetched) + 1] = [height |-> h, block |-> OnBranchOf(cursor, h)']
      BY <1>6, <1>8, <2>1, <3>1
    <3>. QED  BY <1>8, <3>2
  <2>2. CASE h # k
    <3>1. h \in last.height + 1 .. cursor.height
      BY <1>1, <1>2, <1>13, <2>2
    <3>2. OnBranchOf(cursor, h)' = Block(h, main[h])
      BY <1>0, <1>5, <1>12, <3>1 DEF OnBranchOf, MainAt
    <3>3. PICK i \in 1 .. Len(Fetched) : Fetched[i] = [height |-> h, block |-> OnBranchOf(cursor, h)]
      BY <1>2, <3>1
    <3>4. i \in 1 .. Len(Fetched') /\ Fetched'[i] = [height |-> h, block |-> OnBranchOf(cursor, h)']
      BY <1>8, <1>12, <3>1, <3>2, <3>3
    <3>. QED  BY <3>4
  <2>. QED  BY <2>1, <2>2
<1>14. CursorInv'
  <2>1. k \in Nat /\ k > 0 /\ k <= Len(main)
    BY <1>1, <1>2, <1>4
  <2>. HIDE DEF k
  <2>. QED  BY <1>0, <1>5, <1>9, <1>13, <2>1 DEF CursorInv
<1>15. NodeInv' /\ GivesUpLate' /\ PlanInv'
  <2>1. pc' = "stream"
    BY <1>0
  <2>2. PlanInv'
    BY <1>0, <1>1, <2>1, KeepPlan DEF IInv
  <2>3. GivesUpLate'
    BY <2>1 DEF GivesUpLate
  <2>. QED  BY <1>0, <2>2, <2>3 DEF IInv, NodeInv
<1>. QED  BY <1>7, <1>10, <1>11, <1>14, <1>15 DEF IInv

\* The node goes back to where the branches part.
LEMMA RollBackwardIInv ==
  ASSUME IInv, RollBackward
  PROVE  IInv'
<1>. DEFINE common == {h \in 1 .. cursor.height - 1 : main[h] = cursor.branch}
<1>0. /\ UNCHANGED <<chain, main, known, faults, pc, last, tip, call, flight, next, immediate, sbuf, bytes,
                     sout, sent, lookup>>
      /\ pc = "stream" /\ cursor # Garbage /\ ~OnMain(cursor)
      /\ cursor' = IF common = {} THEN Origin ELSE MainAt(Max(common))
  BY DEF RollBackward, Streaming, nodeVars, sizeVars
<1>1. /\ chain \in Chain /\ faults \in Nat /\ last.height \in {0, 1} /\ MaxHeight \in Nat
      /\ Len(main) \in Nat /\ Len(main) >= 1 /\ Len(Fetched) \in Nat /\ NodeInv
      /\ DOMAIN main = 1 .. Len(main)
  BY Basics DEF IInv, NodeInv
<1>2. /\ cursor \in BlockT /\ cursor.height \in Nat /\ cursor.height <= Len(main)
      /\ cursor.branch \in {1, 2}
      /\ cursor.branch = 2 => cursor.height > 0 /\ main[cursor.height] = 2
      /\ \A h \in last.height + 1 .. cursor.height :
           \E i \in 1 .. Len(Fetched) : Fetched[i] = [height |-> h, block |-> OnBranchOf(cursor, h)]
  BY <1>0, <1>1 DEF IInv, CursorInv, BlockT
<1>3. cursor.branch = 1
  <2>. SUFFICES ASSUME cursor.branch = 2 PROVE FALSE
    BY <1>2
  <2>1. cursor.height \in 1 .. Len(main) /\ main[cursor.height] = 2
    BY <1>1, <1>2
  <2>. QED  BY <1>0, <1>1, <2>1 DEF OnMain
<1>4. cursor.height > 0
  <2>. SUFFICES ASSUME cursor.height = 0 PROVE FALSE
    BY <1>2
  <2>1. cursor = [height |-> cursor.height, branch |-> cursor.branch]
    BY <1>2 DEF BlockT
  <2>2. cursor = Origin
    BY <1>3, <2>1 DEF Origin, Block
  <2>. QED  BY <1>0, <2>2 DEF OnMain
<1>5. Fetched' = Fetched /\ BatchInv'
  BY <1>0, KeepBatch DEF IInv
<1>6. FlightInv' /\ ItemsInv'
  <2>1. faults' \in Nat /\ faults' >= faults
    BY <1>0, <1>1
  <2>. QED  BY <1>0, <1>1, <1>5, <2>1, KeepFlight, KeepItems DEF IInv
<1>7. /\ cursor' \in BlockT /\ cursor'.height \in Nat /\ cursor'.height <= cursor.height /\ cursor'.branch = 1
  <2>1. CASE common = {}
    <3>1. cursor' = Origin
      BY <1>0, <2>1
    <3>. HIDE DEF common
    <3>. QED  BY <1>1, <1>2, <3>1, MainFacts DEF Origin, Block
  <2>2. CASE common # {}
    <3>1. cursor.height - 1 \in Nat /\ common \in SUBSET (0 .. cursor.height - 1)
      BY <1>2, <1>4
    <3>2. Max(common) \in common
      <4>. HIDE DEF common
      <4>. QED  BY <2>2, <3>1, MaxInSet
    <3>3. Max(common) \in 1 .. cursor.height - 1 /\ main[Max(common)] = 1
      BY <1>3, <3>2
    <3>4. Max(common) \in 1 .. Len(main)
      BY <1>1, <1>2, <3>3
    <3>5. cursor' = MainAt(Max(common))
      BY <1>0, <2>2
    <3>. HIDE DEF common
    <3>6. cursor' \in BlockT /\ cursor'.height = Max(common) /\ cursor'.branch = 1
      BY <1>1, <3>3, <3>4, <3>5, MainFacts
    <3>. QED  BY <1>2, <3>3, <3>6
  <2>. QED  BY <2>1, <2>2
<1>. HIDE DEF common
<1>8. CursorInv'
  <2>1. ASSUME NEW h \in last.height + 1 .. cursor'.height
        PROVE  \E i \in 1 .. Len(Fetched) : Fetched[i] = [height |-> h, block |-> OnBranchOf(cursor, h)']
    <3>1. h \in last.height + 1 .. cursor.height
      BY <1>1, <1>2, <1>7, <2>1
    <3>2. OnBranchOf(cursor, h)' = OnBranchOf(cursor, h)
      BY <1>3, <1>7 DEF OnBranchOf
    <3>. QED  BY <1>2, <3>1, <3>2
  <2>2. cursor'.height <= Len(main)
    BY <1>1, <1>2, <1>7
  <2>. QED  BY <1>0, <1>5, <1>7, <2>1, <2>2 DEF CursorInv
<1>9. NodeInv' /\ GivesUpLate' /\ PlanInv'
  <2>1. pc' = "stream"
    BY <1>0
  <2>2. PlanInv'
    BY <1>0, <1>1, <2>1, KeepPlan DEF IInv
  <2>3. GivesUpLate'
    BY <2>1 DEF GivesUpLate
  <2>. QED  BY <1>0, <2>2, <2>3 DEF IInv, NodeInv
<1>. QED  BY <1>5, <1>6, <1>8, <1>9 DEF IInv

\* A lookup touches neither the stream nor its plan.
LEMMA LookupIInv ==
  ASSUME IInv, NEW b \in known, get_processed_block(b)
  PROVE  IInv'
<1>0. /\ UNCHANGED <<chain, main, known, faults, pc, last, tip, call, flight, next, cursor, immediate,
                     sbuf, bytes, sout, sent>>
      /\ pc = "ended"
  BY DEF get_processed_block, nodeVars, sizeVars, streamVars
<1>1. chain \in Chain /\ faults \in Nat /\ faults' \in Nat /\ faults' >= faults /\ Len(Fetched) \in Nat
  BY <1>0, Basics
<1>4. Fetched' = Fetched /\ BatchInv'
  BY <1>0, KeepBatch DEF IInv
<1>5. FlightInv' /\ ItemsInv'
  BY <1>0, <1>1, <1>4, KeepFlight, KeepItems DEF IInv
<1>6. CursorInv'
  BY <1>0, <1>1, <1>4, KeepCursor DEF IInv
<1>7. NodeInv' /\ PlanInv'
  BY <1>0, <1>1, KeepPlan DEF IInv, NodeInv
<1>8. GivesUpLate'
  BY <1>0 DEF GivesUpLate
<1>. QED  BY <1>4, <1>5, <1>6, <1>7, <1>8 DEF IInv

\* The invariant is inductive.
LEMMA NextIInv ==
  ASSUME IInv, [Next]_vars
  PROVE  IInv'
<1>1. CASE Extend
  BY <1>1, ExtendIInv
<1>2. CASE \E h \in DOMAIN main : Reorg(h)
  BY <1>2, ReorgIInv
<1>3. CASE TipRequest
  BY <1>3, TipRequestIInv
<1>4. CASE TipFails
  BY <1>4, TipFailsIInv
<1>5. CASE TipKnown
  BY <1>5, TipKnownIInv
<1>6. CASE StartFetch
  BY <1>6, StartFetchIInv
<1>7. CASE \E h \in DOMAIN flight : FetchRequest(h) \/ Yield(h)
  BY <1>7, FetchRequestIInv, YieldIInv
<1>8. CASE FetchComplete \/ AwaitReply \/ RequestNextFails \/ StopOnShutdown
  BY <1>8, EndsIInv
<1>9. CASE Intersect
  BY <1>9, IntersectIInv
<1>10. CASE RollForward
  BY <1>10, RollForwardIInv
<1>11. CASE RollBackward
  BY <1>11, RollBackwardIInv
<1>12. CASE SignalShutdown
  <2>1. UNCHANGED <<chain, nodeVars, last, tip, call, streamVars, lookup, faults>> /\ pc' = pc
    BY <1>12 DEF SignalShutdown
  <2>. QED  BY <2>1, QuietStep
<1>13. CASE Abort
  <2>1. UNCHANGED <<chain, nodeVars, last, tip, call, streamVars, lookup, faults>> /\ pc' = "ended"
    BY <1>13 DEF Abort
  <2>. QED  BY <2>1, QuietStep
<1>14. CASE \E b \in known : get_processed_block(b)
  BY <1>14, LookupIInv
<1>15. CASE UNCHANGED vars
  <2>1. UNCHANGED <<chain, nodeVars, last, tip, call, streamVars, lookup, faults>> /\ pc' = pc
    BY <1>15 DEF vars
  <2>. QED  BY <2>1, QuietStep
<1>. QED  BY <1>1, <1>2, <1>3, <1>4, <1>5, <1>6, <1>7, <1>8, <1>9, <1>10, <1>11, <1>12, <1>13,
            <1>14, <1>15 DEF Next, Fetching

-----------------------------------------------------------------------------
(***************************************************************************)
(* What the stream guarantees                                              *)
(***************************************************************************)

\* The invariant gives what a stream passes on: no height twice and none that
\* was not asked for, each block by its own height.
LEMMA IInvSound == IInv => StreamSound
<1>. SUFFICES ASSUME IInv PROVE StreamSound
  OBVIOUS
<1>1. /\ last.height \in {0, 1} /\ tip.height \in Nat /\ next \in Nat
      /\ Fetched \in Seq(Item) /\ Len(Fetched) \in Nat /\ DOMAIN Fetched = 1 .. Len(Fetched)
  BY Basics
<1>2. OwnHeight
  <2>1. tip.height = tip.block.height
    BY DEF IInv, PlanInv
  <2>. QED  BY <1>1, <2>1 DEF IInv, ItemsInv, OwnHeight
<1>3. EachHeightOnce
  <2>. SUFFICES ASSUME Rest PROVE EachHeightOnce
    BY DEF EachHeightOnce
  <2>0. /\ next = last.height + 1 \/ next <= tip.height + 1
        /\ DOMAIN flight \subseteq last.height + 1 .. next - 1
    BY DEF IInv, FlightInv
  <2>1. Len(Fetched) + Cardinality(DOMAIN flight) = next - last.height - 1
    BY DEF IInv, ItemsInv
  <2>2. Cardinality(DOMAIN flight) \in Nat
    <3>0. last.height + 1 \in Int /\ next - 1 \in Int
      BY <1>1
    <3>1. IsFiniteSet(last.height + 1 .. next - 1)
      BY <3>0, FS_Interval
    <3>2. IsFiniteSet(DOMAIN flight)
      BY <2>0, <3>1, FS_Subset
    <3>. QED  BY <3>2, FS_CardinalityType
  <2>3. Len(Fetched) <= tip.height - last.height \/ Fetched = <<>>
    <3>1. CASE next = last.height + 1
      <4>1. Len(Fetched) = 0
        BY <1>1, <2>1, <2>2, <3>1
      <4>. QED  BY <1>1, <4>1
    <3>2. CASE next <= tip.height + 1
      BY <1>1, <2>1, <2>2, <3>2
    <3>. QED  BY <2>0, <3>1, <3>2
  <2>4. ASSUME NEW i \in 1 .. Len(Fetched), Fetched[i].block # Garbage
        PROVE  Fetched[i].height \in last.height + 1 .. tip.height
    <3>1. Fetched[i].height \in last.height + 1 .. next - 1
      BY <2>4 DEF IInv, ItemsInv
    <3>2. next <= tip.height + 1
      BY <1>1, <2>0, <3>1
    <3>. QED  BY <1>1, <3>1, <3>2
  <2>5. \A i, j \in 1 .. Len(Fetched) :
          Fetched[i].block # Garbage /\ Fetched[j].block # Garbage /\ i < j =>
            /\ Fetched[i].height # Fetched[j].height
            /\ immediate => Fetched[i].height < Fetched[j].height
    BY DEF IInv, ItemsInv
  <2>. QED  BY <1>1, <2>3, <2>4, <2>5 DEF EachHeightOnce
<1>4. BatchesWithinLimit /\ GivesUpLate
  BY DEF IInv, BatchInv
<1>. QED  BY <1>2, <1>3, <1>4 DEF StreamSound

\* RestBlockStream::stream and the Cardano stream pass every block on by its own
\* height and, over REST, no height twice and none outside the range asked for;
\* their batches keep to the byte limit; the task panics only when every attempt
\* has failed (for Ergo, also when the node lists no block at a height).
THEOREM StreamCorrect == Spec => []StreamSound
<1>1. Init => IInv
  BY InitIInv
<1>2. IInv /\ [Next]_vars => IInv'
  BY NextIInv
<1>3. IInv => StreamSound
  BY IInvSound
<1>. QED  BY <1>1, <1>2, <1>3, PTL DEF Spec

\* A REST stream that completes has sent as many blocks as there are heights.
LEMMA RestComplete ==
  ASSUME IInv, FetchComplete
  PROVE  Len(sent') = tip.height - last.height /\ sbuf' = <<>>
<1>1. Rest /\ flight = << >> /\ next > tip.height /\ End("complete") /\ pc = "stream"
  BY DEF FetchComplete, Streaming
<1>2. sent' = Fetched /\ sbuf' = <<>>
  BY <1>1, EndFacts DEF IInv
<1>3. Cardinality(DOMAIN flight) = 0
  <2>1. DOMAIN flight = {}
    BY <1>1
  <2>. QED  BY <2>1, FS_EmptySet
<1>4. Len(Fetched) + Cardinality(DOMAIN flight) = next - last.height - 1
  BY <1>1 DEF IInv, ItemsInv
<1>5. /\ last.height \in {0, 1} /\ tip.height \in Nat /\ next \in Nat /\ Len(Fetched) \in Nat
      /\ next = last.height + 1 \/ next <= tip.height + 1
      /\ tip.height > last.height
  BY <1>1, Basics DEF IInv, FlightInv, PlanInv
<1>. QED  BY <1>1, <1>2, <1>3, <1>4, <1>5

\* A Cardano stream that completes has sent the main chain.
LEMMA CardanoComplete ==
  ASSUME IInv, AwaitReply, NEW h \in last.height + 1 .. Len(main)
  PROVE  [height |-> h, block |-> MainAt(h)] \in ToSet(sent')
<1>1. cursor = Tip /\ End("complete")
  BY DEF AwaitReply
<1>2. sent' = Fetched
  BY <1>1, EndFacts DEF IInv
<1>3. /\ NodeInv /\ Len(main) \in Nat /\ Len(main) >= 1 /\ last.height \in {0, 1}
      /\ Fetched \in Seq(Item) /\ DOMAIN Fetched = 1 .. Len(Fetched)
  BY Basics DEF IInv
<1>4. /\ cursor = MainAt(Len(main)) /\ cursor.height = Len(main) /\ cursor.branch = main[Len(main)]
      /\ cursor # Garbage
  <2>1. Len(main) \in 1 .. Len(main)
    BY <1>3
  <2>. QED  BY <1>1, <1>3, <2>1, MainFacts DEF Tip
<1>5. h \in 1 .. Len(main) /\ Len(main) \in 1 .. Len(main) /\ h <= Len(main)
  BY <1>3
<1>6. main[h] \in {1, 2} /\ main[h] <= main[Len(main)]
  BY <1>3, <1>5, MainFacts DEF NodeInv
<1>7. OnBranchOf(cursor, h) = MainAt(h)
  BY <1>4, <1>6 DEF OnBranchOf, MainAt
<1>8. PICK i \in 1 .. Len(Fetched) : Fetched[i] = [height |-> h, block |-> OnBranchOf(cursor, h)]
  BY <1>4 DEF IInv, CursorInv
<1>. QED  BY <1>2, <1>3, <1>7, <1>8 DEF ToSet

\* A stream that ends by itself (the None of the REST stream, MsgAwaitReply of
\* the Cardano node) has sent everything up to the tip, whatever reorganisations
\* and faults happened on the way.
THEOREM CompletionCorrect == Spec => CompleteAtEnd
<1>. DEFINE Complete ==
       ending # "complete" /\ ending' = "complete" =>
         IF Rest THEN Len(sent') = tip.height - last.height /\ sbuf' = <<>>
         ELSE \A h \in last.height + 1 .. Len(main) : [height |-> h, block |-> MainAt(h)] \in ToSet(sent')
<1>1. Init => IInv
  BY InitIInv
<1>2. IInv /\ [Next]_vars => IInv'
  BY NextIInv
<1>3. IInv /\ [Next]_vars => [Complete]_vars
  <2>. SUFFICES ASSUME IInv, Next, ending # "complete", ending' = "complete"
                PROVE  Complete
    OBVIOUS
  <2>1. FetchComplete \/ AwaitReply
    <3>1. ~Extend /\ ~TipRequest /\ ~TipFails /\ ~TipKnown /\ ~StartFetch
      BY DEF Extend, TipRequest, TipFails, TipKnown, StartFetch
    <3>2. /\ \A h \in DOMAIN main : ~Reorg(h)
          /\ \A h \in DOMAIN flight : ~FetchRequest(h) /\ ~Yield(h)
          /\ \A b \in known : ~get_processed_block(b)
      BY DEF Reorg, FetchRequest, Yield, get_processed_block
    <3>3. ~Intersect /\ ~RollForward /\ ~RollBackward
      BY DEF Intersect, RollForward, RollBackward
    <3>4. ~SignalShutdown /\ ~StopOnShutdown /\ ~Abort /\ ~RequestNextFails
      BY DEF SignalShutdown, StopOnShutdown, Abort, RequestNextFails, End
    <3>. QED  BY <3>1, <3>2, <3>3, <3>4 DEF Next, Fetching
  <2>2. CASE FetchComplete
    <3>1. Rest
      BY <2>2 DEF FetchComplete
    <3>. QED  BY <2>2, <3>1, RestComplete
  <2>3. CASE AwaitReply
    <3>1. ~Rest
      BY <2>3 DEF AwaitReply
    <3>. QED  BY <2>3, <3>1, CardanoComplete
  <2>. QED  BY <2>1, <2>2, <2>3
<1>. QED  BY <1>1, <1>2, <1>3, PTL DEF Spec, CompleteAtEnd
=============================================================================
