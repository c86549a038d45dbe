-------------------------- MODULE SortTaskProofs --------------------------
(***************************************************************************)
(* The sort task for every start height, every bound on heights, every set *)
(* of blocks with any weights and any limits of the batcher.               *)
(*                                                                         *)
(* First the reorder buffer on its own: it releases blocks in order,       *)
(* exactly once, first come first served, and never withholds a block it   *)
(* could release.  The four invariants of ReorderBuffer are inductive      *)
(* together: order needs the history of first arrivals to agree with what  *)
(* is pending, and the exactness of gap_span needs to know which offered   *)
(* heights are still pending.                                              *)
(*                                                                         *)
(* Then the whole task: it implements the reorder buffer, and the batches  *)
(* it sends are the released blocks in order, cut at the threshold.  What  *)
(* the concatenation of the batches and the weight of a batch are for one  *)
(* more element is proved by induction over the natural numbers, from the  *)
(* least element of a set.                                                 *)
(***************************************************************************)
EXTENDS SortTask, SequenceTheorems, WellFoundedInduction, TLAPS

IInv ==
  /\ TypeOK
  /\ ReleasedInOrder
  /\ WaitsOnlyForMissing
  /\ GapSpanExact

\* Membership in PartialFcn without the union of function sets.
LEMMA PartialFcnDef ==
  ASSUME NEW S, NEW T, NEW f
  PROVE  f \in PartialFcn(S, T) <=> DOMAIN f \subseteq S /\ f \in [DOMAIN f -> T]
<1>1. ASSUME f \in PartialFcn(S, T)
      PROVE  DOMAIN f \subseteq S /\ f \in [DOMAIN f -> T]
  <2>1. PICK D \in SUBSET S : f \in [D -> T]
    BY <1>1 DEF PartialFcn
  <2>. QED  BY <2>1
<1>2. ASSUME DOMAIN f \subseteq S, f \in [DOMAIN f -> T]
      PROVE  f \in PartialFcn(S, T)
  BY <1>2 DEF PartialFcn
<1>. QED  BY <1>1, <1>2

\* Entry::Vacant / Entry::Occupied: the domain gains the height, old entries
\* stay, a new height gets the offered block.
LEMMA FirstComeWinsFacts ==
  ASSUME NEW p \in PartialFcn(Height, Block), NEW h \in Height, NEW b \in Block
  PROVE  /\ FirstComeWins(p, h, b) \in PartialFcn(Height, Block)
         /\ DOMAIN FirstComeWins(p, h, b) = DOMAIN p \cup {h}
         /\ \A k \in DOMAIN p : FirstComeWins(p, h, b)[k] = p[k]
         /\ h \notin DOMAIN p => FirstComeWins(p, h, b)[h] = b
         /\ h \in DOMAIN p => FirstComeWins(p, h, b) = p
<1>. DEFINE q == FirstComeWins(p, h, b)
<1>1. DOMAIN p \subseteq Height /\ p \in [DOMAIN p -> Block]
  BY PartialFcnDef
<1>2. /\ DOMAIN q = DOMAIN p \cup {h}
      /\ \A k \in DOMAIN p : q[k] = p[k]
      /\ h \notin DOMAIN p => q[h] = b
      /\ q \in [DOMAIN q -> Block]
  BY <1>1 DEF FirstComeWins
<1>3. q \in PartialFcn(Height, Block)
  BY <1>1, <1>2, PartialFcnDef
<1>4. ASSUME h \in DOMAIN p PROVE q = p
  <2>1. DOMAIN q = DOMAIN p
    BY <1>2, <1>4
  <2>. QED  BY <1>1, <1>2, <2>1
<1>. QED  BY <1>2, <1>3, <1>4

\* A new buffer satisfies the inductive invariant (ReorderBuffer::new).
LEMMA InitIInv == Init => IInv
<1>. SUFFICES ASSUME Init PROVE IInv
  OBVIOUS
<1>. USE ReorderAssumption DEF Init, new
<1>0. /\ DOMAIN pending = {} /\ DOMAIN first = {}
      /\ pending \in [DOMAIN pending -> Block]
      /\ first \in [DOMAIN first -> Block]
  OBVIOUS
<1>1. TypeOK
  <2>1. pending \in PartialFcn(Height, Block) /\ first \in PartialFcn(Height, Block)
    BY <1>0, PartialFcnDef
  <2>. QED  BY <2>1 DEF TypeOK, Height, None
<1>2. ReleasedInOrder
  BY DEF ReleasedInOrder
<1>3. WaitsOnlyForMissing
  BY <1>0 DEF WaitsOnlyForMissing
<1>4. GapSpanExact
  BY <1>0 DEF GapSpanExact, gap_span, None
<1>. QED  BY <1>1, <1>2, <1>3, <1>4 DEF IInv

\* A late arrival changes nothing but the counter: its height was released, so
\* its first block is already on record.
LEMMA TooLowKeepsIInv ==
  ASSUME IInv, NEW h \in Height, NEW b \in Block, Offer(h, b), h < next_height
  PROVE  IInv'
<1>. USE ReorderAssumption
<1>1. /\ UNCHANGED <<next_height, pending, max_seen>>
      /\ dropped_too_low' =
           IF dropped_too_low < MaxDropped THEN dropped_too_low + 1 ELSE MaxDropped
      /\ ready' = <<>>
  <2>1. next_height \in Int /\ h \in Int
    BY DEF IInv, TypeOK, Height
  <2>. QED  BY <2>1 DEF Offer, insert, InsertTooLow, InsertOrdered
<1>2. emitted' = emitted
  BY <1>1 DEF IInv, TypeOK, Offer
<1>3. first' = first
  <2>1. CASE h >= Start
    <3>1. h \in DOMAIN first
      <4>. DEFINE i == h - Start + 1
      <4>1. i \in 1 .. Len(emitted) /\ Start + i - 1 = h
        BY <2>1 DEF IInv, TypeOK, ReleasedInOrder, Height
      <4>. QED  BY <4>1 DEF IInv, ReleasedInOrder
    <3>2. FirstComeWins(first, h, b) = first
      <4>1. first \in PartialFcn(Height, Block)
        BY DEF IInv, TypeOK
      <4>. QED  BY <3>1, <4>1, FirstComeWinsFacts
    <3>. QED  BY <2>1, <3>2 DEF Offer
  <2>2. CASE ~(h >= Start)
    BY <2>2 DEF Offer
  <2>. QED  BY <2>1, <2>2
<1>4. TypeOK'
  BY <1>1, <1>2, <1>3 DEF IInv, TypeOK
<1>5. ReleasedInOrder' /\ WaitsOnlyForMissing' /\ GapSpanExact'
  BY <1>1, <1>2, <1>3
     DEF IInv, ReleasedInOrder, WaitsOnlyForMissing, GapSpanExact, gap_span
<1>. QED  BY <1>4, <1>5 DEF IInv

\* An accepted block: everything from next_height up to the first height that
\* is still missing is released, and the rest stays pending.
LEMMA OrderedKeepsIInv ==
  ASSUME IInv, NEW h \in Height, NEW b \in Block, Offer(h, b), h >= next_height
  PROVE  IInv'
<1>. USE ReorderAssumption
<1>. DEFINE n == next_height
            p == FirstComeWins(pending, h, b)
<1>0. /\ n \in Nat /\ n >= Start /\ h \in Nat /\ h <= MaxHeight /\ h >= n
      /\ pending \in PartialFcn(Height, Block)
      /\ first \in PartialFcn(Height, Block)
      /\ emitted \in Seq(Block)
      /\ max_seen \in Height \cup {None}
  BY DEF IInv, TypeOK, Height
<1>1. PICK m \in n .. (MaxHeight + 1) :
        /\ DrainStopsAt(p, n, m)
        /\ ready' = [i \in 1 .. (m - n) |-> p[n + i - 1]]
        /\ pending' = [k \in DOMAIN p \ (n .. (m - 1)) |-> p[k]]
        /\ next_height' = m
  <2>1. InsertOrdered(h, b)
    BY <1>0 DEF Offer, insert, InsertTooLow
  <2>. QED  BY <2>1 DEF InsertOrdered
<1>2. /\ max_seen' = IF max_seen = None \/ h > max_seen THEN h ELSE max_seen
      /\ dropped_too_low' = dropped_too_low
  BY <1>0 DEF Offer, insert, InsertTooLow, InsertOrdered
<1>3. /\ p \in PartialFcn(Height, Block)
      /\ DOMAIN p = DOMAIN pending \cup {h}
      /\ \A k \in DOMAIN pending : p[k] = pending[k]
      /\ h \notin DOMAIN pending => p[h] = b
  BY <1>0, FirstComeWinsFacts
<1>4. /\ first' \in PartialFcn(Height, Block)
      /\ DOMAIN first' = DOMAIN first \cup {h}
      /\ \A k \in DOMAIN first : first'[k] = first[k]
      /\ h \notin DOMAIN first => first'[h] = b
  <2>1. first' = FirstComeWins(first, h, b)
    BY <1>0 DEF Offer
  <2>. DEFINE g == FirstComeWins(first, h, b)
  <2>2. /\ g \in PartialFcn(Height, Block)
        /\ DOMAIN g = DOMAIN first \cup {h}
        /\ \A k \in DOMAIN first : g[k] = first[k]
        /\ h \notin DOMAIN first => g[h] = b
    BY <1>0, FirstComeWinsFacts
  <2>3. first' = g
    BY <2>1
  <2>. HIDE DEF g
  <2>. QED  BY <2>2, <2>3
<1>5. \A k \in DOMAIN p : k \in DOMAIN first' /\ p[k] = first'[k] /\ k >= n
  BY <1>0, <1>3, <1>4 DEF IInv, WaitsOnlyForMissing
<1>6. \A k \in n .. (m - 1) : k \in DOMAIN p
  BY <1>1 DEF DrainStopsAt
<1>7. p \in [DOMAIN p -> Block] /\ DOMAIN p \subseteq Height
  BY <1>3, PartialFcnDef
<1>8. ready' \in Seq(Block) /\ Len(ready') = m - n
      /\ \A i \in 1 .. (m - n) : ready'[i] = p[n + i - 1]
  <2>1. \A i \in 1 .. (m - n) : n + i - 1 \in DOMAIN p
    BY <1>0, <1>6
  <2>2. ready' \in [1 .. (m - n) -> Block] /\ m - n \in Nat
    BY <1>0, <1>1, <1>7, <2>1
  <2>. QED  BY <1>1, <2>2
<1>9. /\ emitted' = emitted \o ready'
      /\ Len(emitted) = n - Start
      /\ emitted' \in Seq(Block) /\ Len(emitted') = m - Start
  <2>1. emitted' = emitted \o ready'
    BY DEF Offer
  <2>2. Len(emitted) = n - Start
    BY DEF IInv, ReleasedInOrder
  <2>. HIDE DEF n
  <2>. QED  BY <1>0, <1>8, <2>1, <2>2
<1>10. /\ DOMAIN pending' = DOMAIN p \ (n .. (m - 1))
       /\ \A k \in DOMAIN pending' : pending'[k] = p[k]
       /\ pending' \in [DOMAIN pending' -> Block]
  BY <1>1, <1>7
<1>11. TypeOK'
  <2>1. pending' \in PartialFcn(Height, Block)
    BY <1>7, <1>10, PartialFcnDef
  <2>2. max_seen' \in Height \cup {None}
    BY <1>0, <1>2
  <2>3. next_height' \in Start .. (IF Start > MaxHeight THEN Start ELSE MaxHeight + 1)
    BY <1>0, <1>1
  <2>. QED  BY <1>2, <1>4, <1>8, <1>9, <2>1, <2>2, <2>3 DEF IInv, TypeOK
<1>12. ReleasedInOrder'
  <2>1. ASSUME NEW i \in 1 .. Len(emitted')
        PROVE  Start + i - 1 \in DOMAIN first' /\ emitted'[i] = first'[Start + i - 1]
    <3>1. CASE i <= Len(emitted)
      <4>1. i \in 1 .. Len(emitted) /\ emitted'[i] = emitted[i]
        BY <1>0, <1>8, <1>9, <3>1
      <4>. QED  BY <1>4, <4>1 DEF IInv, ReleasedInOrder
    <3>2. CASE i > Len(emitted)
      <4>. DEFINE j == i - Len(emitted)
      <4>1. j \in 1 .. (m - n) /\ n + j - 1 = Start + i - 1
        BY <1>0, <1>9, <3>2
      <4>2. emitted'[i] = ready'[j]
        BY <1>0, <1>8, <1>9, <3>2
      <4>3. n + j - 1 \in n .. (m - 1)
        BY <1>0, <4>1
      <4>4. n + j - 1 \in DOMAIN p
        BY <1>6, <4>3
      <4>5. ready'[j] = p[n + j - 1]
        BY <1>8, <4>1
      <4>. QED  BY <1>5, <4>1, <4>2, <4>4, <4>5
    <3>. QED  BY <1>0, <1>9, <3>1, <3>2
  <2>. QED  BY <1>1, <1>9, <2>1 DEF ReleasedInOrder
<1>13. m \notin DOMAIN p
  BY <1>1 DEF DrainStopsAt
<1>14. WaitsOnlyForMissing'
  <2>1. \A k \in DOMAIN first' : k >= n => k \in DOMAIN p
    BY <1>0, <1>3, <1>4 DEF IInv, WaitsOnlyForMissing
  <2>2. next_height' \notin DOMAIN first'
    BY <1>0, <1>1, <1>13, <2>1
  <2>3. DOMAIN first' \subseteq Nat /\ DOMAIN p \subseteq Nat
    BY <1>4, <1>7, PartialFcnDef DEF Height
  <2>4. DOMAIN pending' = {k \in DOMAIN first' : k >= next_height'}
    BY <1>0, <1>1, <1>5, <1>10, <2>1, <2>3
  <2>. QED  BY <1>5, <1>10, <2>2, <2>4 DEF WaitsOnlyForMissing
<1>15. GapSpanExact'
  <2>1. None \notin Nat /\ Height \subseteq Nat
    BY DEF None, Height
  <2>2. max_seen' \in Nat
    BY <1>0, <1>2, <2>1
  <2>3. \A k \in DOMAIN p : k <= max_seen'
    BY <1>0, <1>2, <1>3, <2>1 DEF IInv, GapSpanExact, gap_span, None
  <2>4. max_seen' \in DOMAIN p
    BY <1>0, <1>2, <1>3, <2>1 DEF IInv, GapSpanExact, gap_span, None
  <2>5. DOMAIN p \subseteq Nat
    BY <1>7, <2>1
  <2>6. DOMAIN pending' = {k \in DOMAIN p : k > m}
    BY <1>0, <1>1, <1>5, <1>10, <1>13, <2>5
  <2>7. max_seen' >= m <=> max_seen' \in DOMAIN pending'
    BY <1>0, <1>13, <2>2, <2>4, <2>6
  <2>8. DOMAIN pending' # {} <=> max_seen' >= m
    BY <1>0, <2>2, <2>3, <2>5, <2>6, <2>7
  <2>9. DOMAIN pending' \subseteq (m + 1) .. max_seen'
    BY <1>0, <2>2, <2>3, <2>5, <2>6
  <2>10. (gap_span # <<>>)' <=> max_seen' >= m
    BY <1>1, <2>1, <2>2 DEF gap_span
  <2>. QED  BY <1>1, <2>7, <2>8, <2>9, <2>10 DEF GapSpanExact
<1>. QED  BY <1>11, <1>12, <1>14, <1>15 DEF IInv

\* The conjunction of the four invariants is kept by every step.
LEMMA NextIInv == IInv /\ [Next]_vars => IInv'
<1>. SUFFICES ASSUME IInv, [Next]_vars PROVE IInv'
  OBVIOUS
<1>1. CASE Next
  <2>1. PICK h \in Height, b \in Block : Offer(h, b)
    BY <1>1 DEF Next
  <2>2. h < next_height \/ h >= next_height
    BY ReorderAssumption DEF IInv, TypeOK, Height
  <2>. QED  BY <2>1, <2>2, TooLowKeepsIInv, OrderedKeepsIInv
<1>2. CASE UNCHANGED vars
  BY <1>2 DEF vars, bufferVars, IInv, TypeOK, ReleasedInOrder, WaitsOnlyForMissing,
              GapSpanExact, gap_span
<1>. QED  BY <1>1, <1>2

\* The inductive invariant holds after any sequence of inserts.
LEMMA SpecIInv == Spec => []IInv
BY InitIInv, NextIInv, PTL DEF Spec

\* The state of the reorder buffer keeps its type, with next_height never below
\* the start bound (reorder_buffer.rs, insert).
THEOREM TypeCorrect == Spec => []TypeOK
<1>1. IInv => TypeOK
  BY DEF IInv
<1>. QED  BY SpecIInv, <1>1, PTL

\* Blocks leave the buffer contiguously from the start bound, each height once,
\* and with the first block that arrived for it (insert's "Global order is
\* guaranteed" and "First-come-wins").
THEOREM GlobalOrder == Spec => []ReleasedInOrder
<1>1. IInv => ReleasedInOrder
  BY DEF IInv
<1>. QED  BY SpecIInv, <1>1, PTL

\* The buffer holds back nothing it could release and loses nothing it was
\* given: the drain loop of insert is complete.
THEOREM NothingWithheld == Spec => []WaitsOnlyForMissing
<1>1. IInv => WaitsOnlyForMissing
  BY DEF IInv
<1>. QED  BY SpecIInv, <1>1, PTL

\* gap_span is Some exactly when blocks are pending, and spans all of them.
THEOREM GapSpanCorrect == Spec => []GapSpanExact
<1>1. IInv => GapSpanExact
  BY DEF IInv
<1>. QED  BY SpecIInv, <1>1, PTL

-----------------------------------------------------------------------------
(***************************************************************************)
(* Induction, and what the folds of the model compute for one more element *)
(***************************************************************************)

\* Induction over the natural numbers: a set with 0 and with every successor of
\* its elements has no least number outside it (used for Vec lengths below).
LEMMA NatInd ==
  ASSUME NEW S \in SUBSET Nat, 0 \in S, \A n \in S : n + 1 \in S
  PROVE  S = Nat
<1>. DEFINE T == Nat \ S
            R == {p \in Nat \X Nat : p[1] < p[2]}
<1>. SUFFICES ASSUME T # {} PROVE FALSE
  OBVIOUS
<1>1. IsWellFoundedOn(R, Nat)
  BY NatLessThanWellFounded, Zenon DEF OpToRel
<1>2. ASSUME NEW y \in Nat, NEW x \in Nat, y < x PROVE <<y, x>> \in R
  BY <1>2
<1>. HIDE DEF R
<1>3. T \in SUBSET Nat
  OBVIOUS
<1>4. PICK x \in T : \A y \in T : ~ (<<y, x>> \in R)
  <2>. HIDE DEF T
  <2>. QED  BY <1>1, <1>3, WFMin
<1>5. x \in Nat /\ x # 0 /\ x - 1 \in Nat /\ x - 1 < x /\ (x - 1) + 1 = x
  OBVIOUS
<1>6. x - 1 \in T
  BY <1>5
<1>. QED  BY <1>2, <1>4, <1>5, <1>6

\* g concatenates the first n elements of bs, as the recursion of FlattenSeq does.
Flat(g, bs, n) == g = [i \in 1 .. n |-> IF i = 1 THEN bs[i] ELSE g[i - 1] \o bs[i]]

\* Such a function exists for every length (the batches sent so far).
LEMMA FlatExists ==
  ASSUME NEW bs
  PROVE  \A n \in Nat : \E g : Flat(g, bs, n)
<1>. DEFINE S == {n \in Nat : \E g : Flat(g, bs, n)}
<1>1. 0 \in S
  <2>1. Flat([i \in 1 .. 0 |-> <<>>], bs, 0)
    BY DEF Flat
  <2>. QED  BY <2>1
<1>2. ASSUME NEW n \in S PROVE n + 1 \in S
  <2>1. PICK g : Flat(g, bs, n)
    OBVIOUS
  <2>. DEFINE h == [i \in 1 .. (n + 1) |-> IF i = 1 THEN bs[i] ELSE g[i - 1] \o bs[i]]
  <2>2. g = [i \in 1 .. n |-> IF i = 1 THEN bs[i] ELSE g[i - 1] \o bs[i]]
    BY <2>1 DEF Flat
  <2>3. ASSUME NEW i \in 1 .. n PROVE g[i] = h[i]
    <3>1. g[i] = IF i = 1 THEN bs[i] ELSE g[i - 1] \o bs[i]
      BY <2>2
    <3>2. i \in 1 .. (n + 1)
      OBVIOUS
    <3>. QED  BY <3>1, <3>2
  <2>4. ASSUME NEW i \in 1 .. (n + 1)
        PROVE  h[i] = IF i = 1 THEN bs[i] ELSE h[i - 1] \o bs[i]
    <3>1. CASE i = 1
      BY <3>1
    <3>2. CASE i # 1
      <4>1. i - 1 \in 1 .. n
        BY <3>2
      <4>2. g[i - 1] = h[i - 1]
        BY <2>3, <4>1
      <4>3. h[i] = g[i - 1] \o bs[i]
        BY <3>2
      <4>. QED  BY <3>2, <4>2, <4>3
    <3>. QED  BY <3>1, <3>2
  <2>5. Flat(h, bs, n + 1)
    <3>. DEFINE k == [i \in 1 .. (n + 1) |-> IF i = 1 THEN bs[i] ELSE h[i - 1] \o bs[i]]
    <3>1. DOMAIN h = DOMAIN k /\ \A i \in 1 .. (n + 1) : h[i] = k[i]
      <4>. HIDE DEF h
      <4>1. \A i \in 1 .. (n + 1) : h[i] = k[i]
        BY <2>4
      <4>2. DOMAIN h = 1 .. (n + 1)
        BY DEF h
      <4>. QED  BY <4>1, <4>2
    <3>2. h = k
      BY <3>1
    <3>. QED  BY <3>2 DEF Flat
  <2>. QED  BY <2>5
<1>3. S = Nat
  <2>1. S \in SUBSET Nat
    OBVIOUS
  <2>. HIDE DEF S
  <2>. QED  BY <1>1, <1>2, <2>1, NatInd
<1>. QED  BY <1>3

\* It is a function of the first elements alone: two sequences that agree up to
\* n have the same concatenations up to n.
LEMMA FlatPrefix ==
  ASSUME NEW B, NEW bs \in Seq(Seq(B)), NEW cs \in Seq(Seq(B)),
         NEW n \in Nat, NEW m \in Nat, n <= m, n <= Len(bs),
         \A i \in 1 .. n : bs[i] = cs[i],
         NEW g, Flat(g, bs, n), NEW h, Flat(h, cs, m)
  PROVE  \A i \in 1 .. n : g[i] = h[i] /\ g[i] \in Seq(B)
<1>. DEFINE S == {k \in Nat : k \in 1 .. n => g[k] = h[k] /\ g[k] \in Seq(B)}
<1>0. /\ g = [i \in 1 .. n |-> IF i = 1 THEN bs[i] ELSE g[i - 1] \o bs[i]]
      /\ h = [i \in 1 .. m |-> IF i = 1 THEN cs[i] ELSE h[i - 1] \o cs[i]]
  BY DEF Flat
<1>1. 0 \in S
  OBVIOUS
<1>2. ASSUME NEW k \in S PROVE k + 1 \in S
  <2>. SUFFICES ASSUME k + 1 \in 1 .. n
                PROVE  g[k + 1] = h[k + 1] /\ g[k + 1] \in Seq(B)
    OBVIOUS
  <2>1. /\ k + 1 \in 1 .. m /\ bs[k + 1] = cs[k + 1] /\ bs[k + 1] \in Seq(B)
    <3>1. k + 1 \in 1 .. Len(bs) /\ k + 1 \in 1 .. m
      OBVIOUS
    <3>. QED  BY <3>1, ElementOfSeq
  <2>2. /\ g[k + 1] = IF k + 1 = 1 THEN bs[k + 1] ELSE g[(k + 1) - 1] \o bs[k + 1]
        /\ h[k + 1] = IF k + 1 = 1 THEN cs[k + 1] ELSE h[(k + 1) - 1] \o cs[k + 1]
    BY <1>0, <2>1
  <2>3. CASE k = 0
    BY <2>1, <2>2, <2>3
  <2>4. CASE k # 0
    <3>1. k \in 1 .. n /\ (k + 1) - 1 = k /\ k + 1 # 1
      BY <2>4
    <3>2. g[k] = h[k] /\ g[k] \in Seq(B)
      BY <3>1
    <3>3. g[k + 1] = g[k] \o bs[k + 1] /\ h[k + 1] = h[k] \o cs[k + 1]
      BY <2>2, <3>1
    <3>. QED  BY <2>1, <3>2, <3>3
  <2>. QED  BY <2>3, <2>4
<1>3. S = Nat
  <2>1. S \in SUBSET Nat
    OBVIOUS
  <2>. HIDE DEF S
  <2>. QED  BY <1>1, <1>2, <2>1, NatInd
<1>4. ASSUME NEW i \in 1 .. n PROVE g[i] = h[i] /\ g[i] \in Seq(B)
  <2>1. i \in S
    <3>1. i \in Nat
      OBVIOUS
    <3>. HIDE DEF S
    <3>. QED  BY <1>3, <3>1
  <2>. QED  BY <2>1
<1>. QED  BY <1>4

\* FlattenSeq by the function above.
LEMMA FlattenIs ==
  ASSUME NEW B, NEW bs \in Seq(Seq(B))
  PROVE  /\ Len(bs) = 0 => FlattenSeq(bs) = <<>>
         /\ Len(bs) # 0 => \E g : Flat(g, bs, Len(bs)) /\ FlattenSeq(bs) = g[Len(bs)]
<1>1. FlattenSeq(bs) = IF Len(bs) = 0 THEN bs ELSE (CHOOSE g : Flat(g, bs, Len(bs)))[Len(bs)]
  BY DEF FlattenSeq, Flat
<1>2. Flat(CHOOSE g : Flat(g, bs, Len(bs)), bs, Len(bs))
  <2>1. \E g : Flat(g, bs, Len(bs))
    <3>1. Len(bs) \in Nat
      OBVIOUS
    <3>. QED  BY <3>1, FlatExists
  <2>. QED  BY <2>1
<1>3. Len(bs) = 0 => bs = <<>>
  OBVIOUS
<1>. QED  BY <1>1, <1>2, <1>3

\* A batch sent to the persist thread comes last in the concatenation of all.
LEMMA FlattenAppend ==
  ASSUME NEW B, NEW bs \in Seq(Seq(B)), NEW x \in Seq(B)
  PROVE  /\ FlattenSeq(bs) \in Seq(B)
         /\ FlattenSeq(Append(bs, x)) = FlattenSeq(bs) \o x
<1>. DEFINE cs == Append(bs, x)
            n == Len(bs)
<1>1. /\ cs \in Seq(Seq(B)) /\ Len(cs) = n + 1 /\ n \in Nat /\ Len(cs) # 0
      /\ cs[n + 1] = x /\ \A i \in 1 .. n : bs[i] = cs[i]
  OBVIOUS
<1>. HIDE DEF cs, n
<1>2. PICK h : Flat(h, cs, n + 1) /\ FlattenSeq(cs) = h[n + 1]
  BY <1>1, FlattenIs
<1>3. h[n + 1] = IF n + 1 = 1 THEN x ELSE h[n] \o x
  <2>1. h = [i \in 1 .. (n + 1) |-> IF i = 1 THEN cs[i] ELSE h[i - 1] \o cs[i]]
    BY <1>2 DEF Flat
  <2>2. n + 1 \in 1 .. (n + 1) /\ (n + 1) - 1 = n
    BY <1>1
  <2>3. h[n + 1] = IF n + 1 = 1 THEN cs[n + 1] ELSE h[(n + 1) - 1] \o cs[n + 1]
    BY <2>1, <2>2
  <2>. QED  BY <1>1, <2>2, <2>3
<1>4. CASE n = 0
  <2>1. FlattenSeq(bs) = <<>>
    BY <1>4, FlattenIs DEF n
  <2>2. FlattenSeq(cs) = x /\ <<>> \o x = x /\ <<>> \in Seq(B)
    BY <1>1, <1>2, <1>3, <1>4
  <2>. QED  BY <2>1, <2>2 DEF cs
<1>5. CASE n # 0
  <2>1. PICK g : Flat(g, bs, n) /\ FlattenSeq(bs) = g[n]
    BY <1>5, FlattenIs DEF n
  <2>2. \A i \in 1 .. n : g[i] = h[i] /\ g[i] \in Seq(B)
    <3>1. n <= n + 1 /\ n <= Len(bs) /\ n + 1 \in Nat
      BY <1>1 DEF n
    <3>. QED  BY <1>1, <1>2, <2>1, <3>1, FlatPrefix
  <2>3. n \in 1 .. n /\ n + 1 # 1
    BY <1>1, <1>5
  <2>4. FlattenSeq(cs) = h[n] \o x
    BY <1>2, <1>3, <2>3
  <2>. QED  BY <2>1, <2>2, <2>3, <2>4 DEF cs
<1>. QED  BY <1>4, <1>5

\* g folds the weights of s over the subsets of 1 .. n from the largest index down,
\* the recursion of FoldLeft for a sum.
WeighFold(g, s, n) ==
  g = [t \in SUBSET (1 .. n) |-> IF t = {} THEN 0 ELSE g[t \ {Max(t)}] + WeightOf[s[Max(t)]]]

\* The largest index of a set with n in it is n.
LEMMA MaxIs ==
  ASSUME NEW n \in Nat, NEW t \in SUBSET (1 .. n), n \in t
  PROVE  Max(t) = n
<1>1. \A y \in t : y \in Int /\ n >= y
  OBVIOUS
<1>2. Max(t) \in t /\ \A y \in t : Max(t) >= y
  BY <1>1 DEF Max
<1>3. Max(t) \in Int /\ n >= Max(t) /\ Max(t) >= n
  BY <1>1, <1>2
<1>. QED  BY <1>3

\* Such a fold exists for every length of the sequence.
LEMMA WeighFoldExists ==
  ASSUME NEW s
  PROVE  \A n \in Nat : \E g : WeighFold(g, s, n)
<1>. DEFINE S == {n \in Nat : \E g : WeighFold(g, s, n)}
<1>1. 0 \in S
  <2>. DEFINE g == [t \in SUBSET (1 .. 0) |-> 0]
  <2>1. SUBSET (1 .. 0) = {{}}
    OBVIOUS
  <2>2. WeighFold(g, s, 0)
    BY <2>1 DEF WeighFold
  <2>. QED  BY <2>2
<1>2. ASSUME NEW n \in S PROVE n + 1 \in S
  <2>1. PICK g : WeighFold(g, s, n)
    OBVIOUS
  <2>. DEFINE h == [t \in SUBSET (1 .. (n + 1)) |->
                      IF n + 1 \in t THEN g[t \ {n + 1}] + WeightOf[s[n + 1]] ELSE g[t]]
              k == [t \in SUBSET (1 .. (n + 1)) |->
                      IF t = {} THEN 0 ELSE h[t \ {Max(t)}] + WeightOf[s[Max(t)]]]
  <2>2. ASSUME NEW t \in SUBSET (1 .. n)
        PROVE  /\ g[t] = IF t = {} THEN 0 ELSE g[t \ {Max(t)}] + WeightOf[s[Max(t)]]
               /\ g[t] = h[t]
    <3>1. t \in SUBSET (1 .. (n + 1)) /\ n + 1 \notin t
      OBVIOUS
    <3>2. h[t] = g[t]
      BY <3>1
    <3>3. g[t] = IF t = {} THEN 0 ELSE g[t \ {Max(t)}] + WeightOf[s[Max(t)]]
      BY <2>1 DEF WeighFold
    <3>. QED  BY <3>2, <3>3
  <2>3. ASSUME NEW t \in SUBSET (1 .. (n + 1)) PROVE h[t] = k[t]
    <3>1. CASE n + 1 \in t
      <4>1. Max(t) = n + 1 /\ t # {}
        BY <3>1, MaxIs
      <4>2. t \ {n + 1} \in SUBSET (1 .. n)
        OBVIOUS
      <4>3. h[t] = g[t \ {n + 1}] + WeightOf[s[n + 1]]
        BY <3>1
      <4>4. g[t \ {n + 1}] = h[t \ {n + 1}]
        <5>. HIDE DEF h
        <5>. QED  BY <2>2, <4>2
      <4>5. k[t] = h[t \ {n + 1}] + WeightOf[s[n + 1]]
        <5>. HIDE DEF h
        <5>. QED  BY <4>1
      <4>. QED  BY <4>3, <4>4, <4>5
    <3>2. CASE n + 1 \notin t
      <4>1. t \in SUBSET (1 .. n)
        BY <3>2
      <4>2. h[t] = g[t] /\ g[t] = IF t = {} THEN 0 ELSE g[t \ {Max(t)}] + WeightOf[s[Max(t)]]
        <5>. HIDE DEF h
        <5>. QED  BY <2>2, <4>1
      <4>3. t \ {Max(t)} \in SUBSET (1 .. n)
        BY <4>1
      <4>4. g[t \ {Max(t)}] = h[t \ {Max(t)}]
        <5>. HIDE DEF h
        <5>. QED  BY <2>2, <4>3
      <4>5. k[t] = IF t = {} THEN 0 ELSE h[t \ {Max(t)}] + WeightOf[s[Max(t)]]
        <5>. HIDE DEF h
        <5>. QED  OBVIOUS
      <4>. HIDE DEF h, k
      <4>. QED  BY <4>2, <4>4, <4>5
    <3>. QED  BY <3>1, <3>2
  <2>4. h = k
    <3>1. DOMAIN h = SUBSET (1 .. (n + 1)) /\ DOMAIN k = SUBSET (1 .. (n + 1))
      OBVIOUS
    <3>2. h = [t \in SUBSET (1 .. (n + 1)) |-> h[t]] /\ k = [t \in SUBSET (1 .. (n + 1)) |-> k[t]]
      OBVIOUS
    <3>. HIDE DEF h, k
    <3>. QED  BY <2>3, <3>2
  <2>5. WeighFold(h, s, n + 1)
    <3>1. h = [t \in SUBSET (1 .. (n + 1)) |->
                 IF t = {} THEN 0 ELSE h[t \ {Max(t)}] + WeightOf[s[Max(t)]]]
      <4>. HIDE DEF h
      <4>. QED  BY <2>4
    <3>. HIDE DEF h
    <3>. QED  BY <3>1 DEF WeighFold
  <2>. QED  BY <2>5
<1>3. S = Nat
  <2>1. S \in SUBSET Nat
    OBVIOUS
  <2>. HIDE DEF S
  <2>. QED  BY <1>1, <1>2, <2>1, NatInd
<1>. QED  BY <1>3

\* Along the initial segments such a fold is the running sum of the values.
LEMMA WeighFoldStep ==
  ASSUME NEW s, NEW n \in Nat, NEW g, WeighFold(g, s, n)
  PROVE  /\ g[1 .. 0] = 0
         /\ \A k \in 0 .. (n - 1) : g[1 .. (k + 1)] = g[1 .. k] + WeightOf[s[k + 1]]
<1>1. ASSUME NEW t \in SUBSET (1 .. n)
      PROVE  g[t] = IF t = {} THEN 0 ELSE g[t \ {Max(t)}] + WeightOf[s[Max(t)]]
  BY DEF WeighFold
<1>2. g[1 .. 0] = 0
  <2>1. 1 .. 0 \in SUBSET (1 .. n) /\ 1 .. 0 = {}
    OBVIOUS
  <2>. QED  BY <1>1, <2>1
<1>3. ASSUME NEW k \in 0 .. (n - 1)
      PROVE  g[1 .. (k + 1)] = g[1 .. k] + WeightOf[s[k + 1]]
  <2>. DEFINE t == 1 .. (k + 1)
  <2>1. t \in SUBSET (1 .. n) /\ t # {} /\ k + 1 \in t /\ k + 1 \in Nat
    OBVIOUS
  <2>2. Max(t) = k + 1
    BY <2>1, MaxIs
  <2>3. t \ {k + 1} = 1 .. k
    OBVIOUS
  <2>. HIDE DEF t
  <2>4. g[t] = g[t \ {Max(t)}] + WeightOf[s[Max(t)]]
    BY <1>1, <2>1
  <2>5. g[t] = g[1 .. k] + WeightOf[s[k + 1]]
    BY <2>2, <2>3, <2>4
  <2>. QED  BY <2>5 DEF t
<1>. QED  BY <1>2, <1>3

\* The weight of a batch is such a fold over the whole batch.
LEMMA WeighIs ==
  ASSUME NEW s \in Seq(Block)
  PROVE  \E g : WeighFold(g, s, Len(s)) /\ Weigh(s) = g[1 .. Len(s)]
<1>1. DOMAIN s = 1 .. Len(s) /\ Len(s) \in Nat
  OBVIOUS
<1>2. Weigh(s) = (CHOOSE g : WeighFold(g, s, Len(s)))[1 .. Len(s)]
  BY <1>1 DEF Weigh, FoldLeft, MapThenFoldSet, WeighFold
<1>3. \E g : WeighFold(g, s, Len(s))
  BY <1>1, WeighFoldExists
<1>. DEFINE f == CHOOSE g : WeighFold(g, s, Len(s))
<1>4. WeighFold(f, s, Len(s))
  BY <1>3
<1>. QED  BY <1>2, <1>4

\* An empty batch weighs nothing, one more block adds its weight: what the
\* running weight of push_with has to agree with.
LEMMA WeighAppend ==
  ASSUME NEW s \in Seq(Block), NEW b \in Block
  PROVE  /\ Weigh(<<>>) = 0
         /\ Weigh(s) \in Nat
         /\ Weigh(Append(s, b)) = Weigh(s) + WeightOf[b]
<1>. DEFINE c == Append(s, b)
            n == Len(s)
<1>1. /\ c \in Seq(Block) /\ Len(c) = n + 1 /\ n \in Nat
      /\ c[n + 1] = b /\ \A i \in 1 .. n : s[i] = c[i]
      /\ <<>> \in Seq(Block) /\ Len(<<>>) = 0
  OBVIOUS
<1>. HIDE DEF c, n
<1>2. Weigh(<<>>) = 0
  <2>1. PICK g : WeighFold(g, <<>>, 0) /\ Weigh(<<>>) = g[1 .. 0]
    BY <1>1, WeighIs
  <2>. QED  BY <2>1, WeighFoldStep
<1>3. PICK g : WeighFold(g, s, n) /\ Weigh(s) = g[1 .. n]
  BY WeighIs DEF n
<1>4. PICK h : WeighFold(h, c, n + 1) /\ Weigh(c) = h[1 .. (n + 1)]
  BY <1>1, WeighIs
<1>5. /\ g[1 .. 0] = 0 /\ h[1 .. 0] = 0
      /\ \A k \in 0 .. (n - 1) : g[1 .. (k + 1)] = g[1 .. k] + WeightOf[s[k + 1]]
      /\ \A k \in 0 .. ((n + 1) - 1) : h[1 .. (k + 1)] = h[1 .. k] + WeightOf[c[k + 1]]
  BY <1>1, <1>3, <1>4, WeighFoldStep
<1>. DEFINE S == {k \in Nat : k <= n => g[1 .. k] = h[1 .. k] /\ g[1 .. k] \in Nat}
<1>6. 0 \in S
  BY <1>5
<1>7. ASSUME NEW k \in S PROVE k + 1 \in S
  <2>. SUFFICES ASSUME k + 1 <= n
                PROVE  g[1 .. (k + 1)] = h[1 .. (k + 1)] /\ g[1 .. (k + 1)] \in Nat
    OBVIOUS
  <2>1. k \in 0 .. (n - 1) /\ k \in 0 .. ((n + 1) - 1) /\ k + 1 \in 1 .. n
    BY <1>1
  <2>2. g[1 .. k] = h[1 .. k] /\ g[1 .. k] \in Nat
    BY <1>1, <2>1
  <2>3. s[k + 1] = c[k + 1] /\ s[k + 1] \in Block
    <3>1. k + 1 \in 1 .. Len(s)
      BY <2>1 DEF n
    <3>. QED  BY <1>1, <2>1, <3>1, ElementOfSeq
  <2>4. WeightOf[s[k + 1]] \in Nat
    BY <2>3, SortAssumption
  <2>5. /\ g[1 .. (k + 1)] = g[1 .. k] + WeightOf[s[k + 1]]
        /\ h[1 .. (k + 1)] = h[1 .. k] + WeightOf[c[k + 1]]
    BY <1>5, <2>1
  <2>. QED  BY <2>2, <2>3, <2>4, <2>5
<1>8. S = Nat
  <2>1. S \in SUBSET Nat
    OBVIOUS
  <2>. HIDE DEF S
  <2>. QED  BY <1>6, <1>7, <2>1, NatInd
<1>9. g[1 .. n] = h[1 .. n] /\ g[1 .. n] \in Nat
  <2>1. n \in S
    <3>. HIDE DEF S
    <3>. QED  BY <1>1, <1>8
  <2>2. n <= n
    BY <1>1
  <2>. QED  BY <2>1, <2>2
<1>10. h[1 .. (n + 1)] = h[1 .. n] + WeightOf[b]
  <2>1. n \in 0 .. ((n + 1) - 1)
    BY <1>1
  <2>2. h[1 .. (n + 1)] = h[1 .. n] + WeightOf[c[n + 1]]
    BY <1>5, <2>1
  <2>. QED  BY <1>1, <2>2
<1>. QED  BY <1>2, <1>3, <1>4, <1>9, <1>10 DEF c

-----------------------------------------------------------------------------
(***************************************************************************)
(* The sort task                                                           *)
(***************************************************************************)

\* The last block of a batch, taken off, leaves what was buffered before it.
LEMMA FrontOfAppend ==
  ASSUME NEW s \in Seq(Block), NEW b \in Block
  PROVE  /\ Front(Append(s, b)) = s
         /\ Append(s, b) \in Seq(Block) /\ Append(s, b) # <<>>
         /\ Len(Append(s, b)) = Len(s) + 1
<1>1. Append(s, b) \in Seq(Block) /\ Len(Append(s, b)) = Len(s) + 1
  OBVIOUS
<1>2. Append(s, b) # <<>>
  BY <1>1, EmptySeq
<1>3. /\ Front(Append(s, b)) \in Seq(Block) /\ Len(Front(Append(s, b))) = Len(s)
      /\ \A i \in 1 .. Len(s) : Front(Append(s, b))[i] = s[i]
  BY DEF Front
<1>4. Front(Append(s, b)) = s
  BY <1>3, SeqEqual
<1>. QED  BY <1>1, <1>2, <1>4

\* Appending sequences of blocks is associative.
LEMMA Assoc ==
  ASSUME NEW s \in Seq(Block), NEW t \in Seq(Block), NEW u \in Seq(Block)
  PROVE  (s \o t) \o u = s \o (t \o u)
<1>. DEFINE a == (s \o t) \o u
            b == s \o (t \o u)
<1>1. /\ a \in Seq(Block) /\ b \in Seq(Block)
      /\ Len(a) = Len(s) + Len(t) + Len(u) /\ Len(b) = Len(a)
  OBVIOUS
<1>2. ASSUME NEW i \in 1 .. Len(a) PROVE a[i] = b[i]
  OBVIOUS
<1>. HIDE DEF a, b
<1>3. a = b
  BY <1>1, <1>2, SeqEqual
<1>. QED  BY <1>3 DEF a, b

\* A released block handed to the batcher keeps its place: between what was
\* batched before it and what is still to be handed over.
LEMMA HandOver ==
  ASSUME NEW f \in Seq(Block), NEW w \in Seq(Block), NEW r \in Seq(Block), r # <<>>
  PROVE  /\ Head(r) \in Block /\ Tail(r) \in Seq(Block)
         /\ (f \o Append(w, Head(r))) \o Tail(r) = (f \o w) \o r
<1>1. Head(r) \in Block /\ Tail(r) \in Seq(Block) /\ <<Head(r)>> \in Seq(Block)
      /\ r = <<Head(r)>> \o Tail(r)
  <2>1. Head(r) \in Block /\ Tail(r) \in Seq(Block) /\ <<Head(r)>> \in Seq(Block)
    OBVIOUS
  <2>2. <<Head(r)>> \o Tail(r) \in Seq(Block) /\ Len(<<Head(r)>> \o Tail(r)) = Len(r)
        /\ \A i \in 1 .. Len(r) : r[i] = (<<Head(r)>> \o Tail(r))[i]
    OBVIOUS
  <2>. QED  BY <2>1, <2>2, SeqEqual
<1>. DEFINE x == <<Head(r)>>
            t == Tail(r)
<1>2. Append(w, Head(r)) = w \o x
  BY <1>1, AppendIsConcat
<1>. HIDE DEF x, t
<1>3. x \in Seq(Block) /\ t \in Seq(Block) /\ r = x \o t
  BY <1>1 DEF x, t
<1>4. w \o x \in Seq(Block) /\ f \o w \in Seq(Block)
  BY <1>3
<1>5. f \o (w \o x) = (f \o w) \o x
  BY <1>3, Assoc
<1>6. ((f \o w) \o x) \o t = (f \o w) \o (x \o t)
  BY <1>3, <1>4, Assoc
<1>. QED  BY <1>1, <1>2, <1>3, <1>5, <1>6 DEF t

\* What is sent is cut from the stream: below both limits before its last block.
CutInTime(x) ==
  /\ x # <<>> /\ Len(Front(x)) < Cap
  /\ Len(x) = 1 \/ Weigh(Front(x)) < MinWeight

\* ... and over one of them with it, as push_with requires.
FullBatch(x) == Weigh(x) >= MinWeight \/ Len(x) = Cap

\* The inductive invariant of the task.  Cutting in time needs the open batch to
\* be below both limits; that the batches are what was released needs the task
\* to have handed everything over before it closes.
TaskInv ==
  /\ IInv
  /\ wmode \in {"None", "Immediate"}
  /\ wbuf \in Seq(Block) /\ between \in Seq(Block) /\ batches \in Seq(Seq(Block))
  /\ closed \in BOOLEAN
  /\ closed => between = <<>>
  /\ BatchesExact

\* An open batch with one more block is cut in time, and so is the open batch
\* itself when it is flushed before it is full.
LEMMA CutFacts ==
  ASSUME TaskInv, wmode = "None"
  PROVE  /\ \A b \in Block : CutInTime(Append(wbuf, b))
         /\ wbuf # <<>> => CutInTime(wbuf)
<1>0. /\ wbuf \in Seq(Block) /\ Len(wbuf) < Cap
      /\ wbuf = <<>> \/ Weigh(wbuf) < MinWeight
      /\ Cap \in Nat /\ MinWeight \in Nat
  BY SortAssumption DEF TaskInv, BatchesExact, OpenBatchSmall
<1>1. ASSUME NEW b \in Block PROVE CutInTime(Append(wbuf, b))
  <2>1. wbuf = <<>> => Len(wbuf) = 0
    OBVIOUS
  <2>. QED  BY <1>0, <2>1, FrontOfAppend DEF CutInTime
<1>2. ASSUME wbuf # <<>> PROVE CutInTime(wbuf)
  <2>1. PICK s \in Seq(Block), b \in Block : wbuf = Append(s, b)
    BY <1>0, <1>2, SequenceEmptyOrAppend
  <2>2. Front(wbuf) = s /\ Len(wbuf) = Len(s) + 1
    BY <2>1, FrontOfAppend
  <2>3. Weigh(wbuf) = Weigh(s) + WeightOf[b] /\ Weigh(s) \in Nat /\ WeightOf[b] \in Nat
    BY <2>1, WeighAppend, SortAssumption
  <2>4. Weigh(s) < MinWeight
    BY <1>0, <1>2, <2>3
  <2>5. Len(s) \in Nat
    OBVIOUS
  <2>6. Len(s) < Cap
    BY <1>0, <2>2, <2>5
  <2>. QED  BY <1>2, <2>2, <2>4, <2>6 DEF CutInTime
<1>. QED  BY <1>1, <1>2

\* The task starts with nothing released and nothing batched.
LEMMA InitTaskInv == TaskInit => TaskInv
<1>. SUFFICES ASSUME TaskInit PROVE TaskInv
  OBVIOUS
<1>1. IInv /\ emitted = <<>>
  BY InitIInv DEF TaskInit, Init
<1>2. /\ wmode \in {"None", "Immediate"} /\ wbuf = <<>> /\ weight = 0
      /\ between = <<>> /\ batches = <<>> /\ closed = FALSE
  BY DEF TaskInit, Blk!new
<1>3. <<>> \in Seq(Block) /\ <<>> \in Seq(Seq(Block)) /\ Len(<<>>) = 0
  OBVIOUS
<1>4. BatchesAreReleased
  <2>1. FlattenSeq(batches) = <<>>
    BY <1>2, <1>3, FlattenIs
  <2>. QED  BY <1>1, <1>2, <1>3, <2>1 DEF BatchesAreReleased
<1>5. Weigh(wbuf) = 0
  <2>1. PICK g : WeighFold(g, <<>>, 0) /\ Weigh(<<>>) = g[1 .. 0]
    BY <1>3, WeighIs
  <2>. QED  BY <1>2, <2>1, WeighFoldStep
<1>6. CutAtThreshold
  BY <1>2, <1>5 DEF CutAtThreshold
<1>7. OpenBatchSmall
  BY <1>2, <1>3, SortAssumption DEF OpenBatchSmall
<1>. QED  BY <1>1, <1>2, <1>3, <1>4, <1>6, <1>7 DEF TaskInv, BatchesExact

\* A received block goes through insert; what it releases waits for the batcher.
LEMMA ReceiveTaskInv ==
  ASSUME TaskInv, NEW h \in Height, NEW b \in Block, Receive(h, b)
  PROVE  TaskInv'
<1>1. IInv'
  <2>1. Next
    BY DEF Receive, Next
  <2>. QED  BY <2>1, NextIInv DEF TaskInv
<1>2. /\ UNCHANGED <<wmode, wbuf, weight, wout, batches, closed>>
      /\ between = <<>> /\ between' = ready' /\ ~closed /\ emitted' = emitted \o ready'
  BY DEF Receive, Offer
<1>3. ready' \in Seq(Block)
  BY <1>1 DEF IInv, TypeOK
<1>4. BatchesAreReleased'
  <2>1. FlattenSeq(batches) \in Seq(Block) /\ wbuf \in Seq(Block)
    BY FlattenAppend, EmptySeq DEF TaskInv
  <2>2. (FlattenSeq(batches) \o wbuf) \o <<>> = emitted
    BY <1>2 DEF TaskInv, BatchesExact, BatchesAreReleased
  <2>3. FlattenSeq(batches) \o wbuf = emitted
    BY <2>1, <2>2
  <2>. QED  BY <1>2, <2>3 DEF BatchesAreReleased
<1>5. CutAtThreshold' /\ OpenBatchSmall'
  BY <1>2 DEF TaskInv, BatchesExact, CutAtThreshold, OpenBatchSmall
<1>. QED  BY <1>1, <1>2, <1>3, <1>4, <1>5 DEF TaskInv, BatchesExact

\* The cut of the batches sent so far, without the flush of the end.
LEMMA SentSoFar ==
  ASSUME TaskInv
  PROVE  /\ weight = Weigh(wbuf)
         /\ wmode = "None" => \A k \in 1 .. Len(batches) :
              CutInTime(batches[k]) /\ (FullBatch(batches[k]) \/ (closed /\ k = Len(batches)))
<1>1. DOMAIN batches = 1 .. Len(batches)
  BY DEF TaskInv
<1>. QED  BY <1>1 DEF TaskInv, BatchesExact, CutAtThreshold, CutInTime, FullBatch

\* One more batch is sent: the cut holds if it holds for the new batch, and if
\* no earlier one was the flush of the end.
LEMMA CutOneMore ==
  ASSUME TaskInv, ~closed, wmode' = wmode, NEW x \in Seq(Block),
         batches' = Append(batches, x), weight' = Weigh(wbuf'),
         wmode = "None" => CutInTime(x) /\ (FullBatch(x) \/ closed')
  PROVE  CutAtThreshold'
<1>1. batches \in Seq(Seq(Block))
  BY DEF TaskInv
<1>2. /\ Len(batches') = Len(batches) + 1 /\ Len(batches) \in Nat
      /\ DOMAIN batches' = 1 .. (Len(batches) + 1)
      /\ batches'[Len(batches) + 1] = x
      /\ \A k \in 1 .. Len(batches) : batches'[k] = batches[k]
  BY <1>1
<1>3. ASSUME wmode = "None", NEW k \in 1 .. (Len(batches) + 1)
      PROVE  CutInTime(batches'[k]) /\ (FullBatch(batches'[k]) \/ (closed' /\ k = Len(batches')))
  <2>1. CASE k = Len(batches) + 1
    BY <1>2, <1>3, <2>1
  <2>2. CASE k \in 1 .. Len(batches)
    BY <1>2, <1>3, <2>2, SentSoFar
  <2>. QED  BY <1>2, <2>1, <2>2
<1>. QED  BY <1>2, <1>3 DEF CutAtThreshold, CutInTime, FullBatch

\* A block pushed (push_with): passed through in Immediate mode, in None mode
\* buffered, or sent with the buffer when that makes it heavy or long enough.
LEMMA PushTaskInv ==
  ASSUME TaskInv, PushReady
  PROVE  TaskInv'
<1>. DEFINE x == Head(between)
            F == FlattenSeq(batches)
            sum == Blk!SaturatingAdd(weight, WeightOf[x])
            buf == Append(wbuf, x)
<1>0. /\ between # <<>> /\ between' = Tail(between) /\ UNCHANGED <<vars, closed, wmode>>
      /\ batches' = IF wout' = <<>> THEN batches ELSE Append(batches, wout')
      /\ Blk!push_with(x, WeightOf[x])
  BY DEF PushReady, Blk!push_with
<1>1. /\ wbuf \in Seq(Block) /\ between \in Seq(Block) /\ batches \in Seq(Seq(Block))
      /\ (F \o wbuf) \o between = emitted /\ ~closed /\ wmode \in {"None", "Immediate"}
  BY <1>0 DEF TaskInv, BatchesExact, BatchesAreReleased
<1>2. /\ x \in Block /\ Tail(between) \in Seq(Block) /\ F \in Seq(Block)
      /\ (F \o buf) \o Tail(between) = emitted
  <2>1. F \in Seq(Block)
    BY <1>1, FlattenAppend, EmptySeq
  <2>. HIDE DEF F
  <2>. QED  BY <1>0, <1>1, <2>1, HandOver
<1>3. IInv' /\ emitted' = emitted
  <2>1. UNCHANGED vars
    BY <1>0
  <2>. QED  BY <2>1, NextIInv DEF TaskInv, vars
<1>4. /\ weight = Weigh(wbuf) /\ Weigh(wbuf) \in Nat /\ WeightOf[x] \in Nat
      /\ Weigh(buf) = Weigh(wbuf) + WeightOf[x] /\ Weigh(<<>>) = 0
      /\ UsizeMax \in Nat /\ MinWeight \in Nat /\ MinWeight <= UsizeMax /\ Cap \in Nat /\ Cap > 0
  <2>1. weight = Weigh(wbuf)
    BY SentSoFar
  <2>. QED  BY <1>1, <1>2, <2>1, WeighAppend, SortAssumption
<1>5. /\ buf \in Seq(Block) /\ buf # <<>> /\ Len(buf) = Len(wbuf) + 1 /\ Len(wbuf) \in Nat
      /\ <<x>> \in Seq(Block) /\ <<x>> # <<>> /\ <<>> \in Seq(Block)
  <2>1. buf \in Seq(Block) /\ buf # <<>> /\ Len(buf) = Len(wbuf) + 1
    BY <1>1, <1>2, FrontOfAppend
  <2>. QED  BY <1>1, <1>2, <2>1
<1>6. CASE wmode = "Immediate"
  <2>1. wout' = <<x>> /\ UNCHANGED <<wbuf, weight>> /\ wbuf = <<>>
    BY <1>0, <1>6 DEF Blk!push_with, TaskInv, BatchesExact, OpenBatchSmall
  <2>2. batches' = Append(batches, <<x>>)
    BY <1>0, <1>5, <2>1
  <2>3. FlattenSeq(batches') = F \o <<x>>
    BY <1>1, <1>5, <2>2, FlattenAppend
  <2>4. buf = <<x>>
    BY <1>2, <2>1
  <2>5. (FlattenSeq(batches') \o wbuf') \o between' = emitted'
    <3>1. (F \o <<x>>) \o <<>> = F \o <<x>>
      <4>. HIDE DEF F, x
      <4>. QED  BY <1>2, <1>5
    <3>. QED  BY <1>0, <1>2, <1>3, <2>1, <2>3, <2>4, <3>1
  <2>6. BatchesAreReleased'
    BY <1>0, <1>1, <2>5 DEF BatchesAreReleased
  <2>7. CutAtThreshold'
    <3>1. weight' = Weigh(wbuf')
      BY <1>4, <2>1
    <3>. HIDE DEF x
    <3>. QED  BY <1>0, <1>1, <1>5, <1>6, <2>2, <3>1, CutOneMore
  <2>8. OpenBatchSmall'
    BY <1>0, <1>6, <2>1 DEF OpenBatchSmall
  <2>9. batches' \in Seq(Seq(Block))
    BY <1>1, <1>5, <2>2
  <2>. QED  BY <1>0, <1>1, <1>2, <1>3, <2>1, <2>6, <2>7, <2>8, <2>9 DEF TaskInv, BatchesExact
<1>7. CASE wmode = "None" /\ (sum >= MinWeight \/ Len(buf) >= Cap)
  <2>1. wout' = buf /\ wbuf' = <<>> /\ weight' = 0
    BY <1>0, <1>7 DEF Blk!push_with
  <2>2. batches' = Append(batches, buf)
    BY <1>0, <1>5, <2>1
  <2>3. FlattenSeq(batches') = F \o buf
    BY <1>1, <1>5, <2>2, FlattenAppend
  <2>4. (FlattenSeq(batches') \o wbuf') \o between' = emitted'
    <3>1. (F \o buf) \o <<>> = F \o buf
      <4>. HIDE DEF F, buf
      <4>. QED  BY <1>2, <1>5
    <3>. QED  BY <1>0, <1>2, <1>3, <2>1, <2>3, <3>1
  <2>5. BatchesAreReleased'
    BY <1>0, <1>1, <2>4 DEF BatchesAreReleased
  <2>6. CutInTime(buf)
    BY <1>2, <1>7, CutFacts
  <2>7. FullBatch(buf)
    <3>1. Len(wbuf) < Cap
      BY <1>7 DEF TaskInv, BatchesExact, OpenBatchSmall
    <3>2. CASE Len(buf) >= Cap
      <4>1. Len(buf) = Cap
        <5>. HIDE DEF buf
        <5>. QED  BY <1>4, <1>5, <3>1, <3>2
      <4>. QED  BY <4>1 DEF FullBatch
    <3>3. CASE sum >= MinWeight
      <4>1. Weigh(buf) >= MinWeight
        <5>1. sum = IF weight + WeightOf[x] <= UsizeMax THEN weight + WeightOf[x] ELSE UsizeMax
          BY DEF Blk!SaturatingAdd
        <5>. HIDE DEF sum, buf, x
        <5>. QED  BY <1>4, <3>3, <5>1
      <4>. QED  BY <4>1 DEF FullBatch
    <3>. QED  BY <1>7, <3>2, <3>3
  <2>8. CutAtThreshold'
    <3>1. weight' = Weigh(wbuf')
      BY <1>4, <2>1
    <3>. HIDE DEF buf
    <3>. QED  BY <1>0, <1>1, <1>5, <2>2, <2>6, <2>7, <3>1, CutOneMore
  <2>9. OpenBatchSmall'
    BY <1>0, <1>4, <1>7, <2>1 DEF OpenBatchSmall
  <2>10. batches' \in Seq(Seq(Block)) /\ wbuf' \in Seq(Block)
    BY <1>1, <1>5, <2>1, <2>2
  <2>. QED  BY <1>0, <1>1, <1>2, <1>3, <2>5, <2>8, <2>9, <2>10 DEF TaskInv, BatchesExact
<1>8. CASE wmode = "None" /\ ~ (sum >= MinWeight \/ Len(buf) >= Cap)
  <2>1. wout' = <<>> /\ wbuf' = buf /\ weight' = sum /\ batches' = batches
    BY <1>0, <1>8 DEF Blk!push_with
  <2>2. BatchesAreReleased'
    BY <1>0, <1>1, <1>2, <1>3, <2>1 DEF BatchesAreReleased
  <2>3. sum = Weigh(buf) /\ Weigh(buf) < MinWeight /\ Len(buf) < Cap
    <3>1. sum = IF weight + WeightOf[x] <= UsizeMax THEN weight + WeightOf[x] ELSE UsizeMax
      BY DEF Blk!SaturatingAdd
    <3>. HIDE DEF sum, buf, x
    <3>. QED  BY <1>4, <1>5, <1>8, <3>1
  <2>4. CutAtThreshold'
    <3>1. weight' = Weigh(wbuf')
      BY <2>1, <2>3
    <3>2. wmode' = wmode /\ closed' = closed
      BY <1>0
    <3>. QED  BY <2>1, <3>1, <3>2 DEF TaskInv, BatchesExact, CutAtThreshold
  <2>5. OpenBatchSmall'
    BY <1>0, <1>8, <2>1, <2>3 DEF OpenBatchSmall
  <2>6. wbuf' \in Seq(Block)
    BY <1>5, <2>1
  <2>. QED  BY <1>0, <1>1, <1>2, <1>3, <2>1, <2>2, <2>4, <2>5, <2>6 DEF TaskInv, BatchesExact
<1>. QED  BY <1>1, <1>6, <1>7, <1>8

\* The end of the task: the open batch, if any, is the last one sent.
LEMMA CloseTaskInv ==
  ASSUME TaskInv, Close
  PROVE  TaskInv'
<1>. DEFINE F == FlattenSeq(batches)
<1>0. /\ ~closed /\ closed' /\ between = <<>> /\ between' = between
      /\ UNCHANGED <<vars, wmode>>
      /\ batches' = IF wout' = <<>> THEN batches ELSE Append(batches, wout')
      /\ wout' = IF wmode = "None" THEN wbuf ELSE <<>>
      /\ wbuf' = IF wmode = "None" THEN <<>> ELSE wbuf
      /\ weight' = IF wmode = "None" /\ wbuf # <<>> THEN 0 ELSE weight
      /\ closed' \in BOOLEAN
  BY DEF Close, Blk!flush
<1>1. /\ wbuf \in Seq(Block) /\ batches \in Seq(Seq(Block))
      /\ (F \o wbuf) \o between = emitted /\ wmode \in {"None", "Immediate"}
      /\ wmode = "Immediate" => wbuf = <<>>
      /\ weight = Weigh(wbuf) /\ Cap > 0 /\ Cap \in Nat
  BY SentSoFar, SortAssumption DEF TaskInv, BatchesExact, BatchesAreReleased, OpenBatchSmall
<1>2. F \in Seq(Block)
  BY <1>1, FlattenAppend, EmptySeq
<1>3. IInv' /\ emitted' = emitted
  <2>1. UNCHANGED vars
    BY <1>0
  <2>. QED  BY <2>1, NextIInv DEF TaskInv, vars
<1>4. wbuf' = <<>> /\ <<>> \in Seq(Block) /\ Len(<<>>) = 0
  BY <1>0, <1>1
<1>5. weight' = Weigh(wbuf')
  <2>1. wbuf # <<>> => Weigh(<<>>) = 0
    <3>. SUFFICES ASSUME wbuf # <<>> PROVE Weigh(<<>>) = 0
      OBVIOUS
    <3>1. wbuf[1] \in Block
      BY <1>1
    <3>. QED  BY <1>1, <3>1, WeighAppend
  <2>. QED  BY <1>0, <1>1, <1>4, <2>1
<1>6. OpenBatchSmall'
  BY <1>1, <1>4 DEF OpenBatchSmall
<1>7. CASE wbuf = <<>>
  <2>1. batches' = batches
    BY <1>0, <1>7
  <2>2. BatchesAreReleased'
    BY <1>0, <1>1, <1>3, <1>4, <1>7, <2>1 DEF BatchesAreReleased
  <2>3. CutAtThreshold'
    <3>1. wmode' = wmode
      BY <1>0
    <3>. QED  BY <1>0, <1>5, <2>1, <3>1, SentSoFar DEF TaskInv, BatchesExact, CutAtThreshold
  <2>. QED  BY <1>0, <1>1, <1>3, <1>4, <1>6, <2>1, <2>2, <2>3 DEF TaskInv, BatchesExact
<1>8. CASE wbuf # <<>>
  <2>1. wmode = "None" /\ batches' = Append(batches, wbuf)
    BY <1>0, <1>1, <1>8
  <2>2. FlattenSeq(batches') = F \o wbuf
    BY <1>1, <2>1, FlattenAppend
  <2>3. BatchesAreReleased'
    <3>1. (F \o wbuf) \o <<>> = F \o wbuf
      <4>. HIDE DEF F
      <4>. QED  BY <1>1, <1>2
    <3>. QED  BY <1>0, <1>1, <1>3, <1>4, <2>2, <3>1 DEF BatchesAreReleased
  <2>4. CutAtThreshold'
    <3>1. CutInTime(wbuf)
      BY <1>8, <2>1, CutFacts
    <3>2. wmode' = wmode
      BY <1>0
    <3>. QED  BY <1>0, <1>1, <1>5, <2>1, <3>1, <3>2, CutOneMore
  <2>5. batches' \in Seq(Seq(Block))
    BY <1>1, <2>1
  <2>. QED  BY <1>0, <1>1, <1>3, <1>4, <1>6, <2>3, <2>4, <2>5 DEF TaskInv, BatchesExact
<1>. QED  BY <1>7, <1>8

\* Every step of the task keeps its invariant.
LEMMA NextTaskInv == TaskInv /\ [TaskNext]_taskVars => TaskInv'
<1>. SUFFICES ASSUME TaskInv, [TaskNext]_taskVars PROVE TaskInv'
  OBVIOUS
<1>1. CASE TaskNext
  BY <1>1, ReceiveTaskInv, PushTaskInv, CloseTaskInv DEF TaskNext
<1>2. CASE UNCHANGED taskVars
  <2>1. /\ UNCHANGED <<wmode, wbuf, weight, wout, between, batches, closed>>
        /\ UNCHANGED vars
    BY <1>2 DEF taskVars, sortVars
  <2>2. IInv' /\ emitted' = emitted
    BY <2>1, NextIInv DEF TaskInv, vars
  <2>3. BatchesExact'
    BY <2>1, <2>2 DEF TaskInv, BatchesExact, BatchesAreReleased, CutAtThreshold, OpenBatchSmall
  <2>. QED  BY <2>1, <2>2, <2>3 DEF TaskInv
<1>. QED  BY <1>1, <1>2

\* The sort task implements the reorder buffer: the batcher and the persist
\* thread behind it never touch it (syncer.rs, the sort handle).
THEOREM TaskImplementsBuffer == TaskSpec => Spec
<1>1. TaskInit => Init
  BY DEF TaskInit
<1>2. [TaskNext]_taskVars => [Next]_vars
  <2>. SUFFICES ASSUME [TaskNext]_taskVars PROVE [Next]_vars
    OBVIOUS
  <2>1. ASSUME NEW h \in Height, NEW b \in Block, Receive(h, b) PROVE Next
    BY <2>1 DEF Receive, Next
  <2>2. CASE PushReady \/ Close \/ UNCHANGED taskVars
    BY <2>2 DEF PushReady, Close, taskVars
  <2>. QED  BY <2>1, <2>2 DEF TaskNext
<1>. QED  BY <1>1, <1>2, PTL DEF TaskSpec, Spec

\* What the sort task hands to the persist thread, for every weight function and
\* every threshold: all blocks the reorder buffer released, in order, each once,
\* in batches cut at the first block that makes them heavy or long enough, and
\* nothing left over once the task has ended (WeightBatcher::push_with, flush).
THEOREM BatchesCorrect == TaskSpec => []BatchesExact
<1>1. TaskInv => BatchesExact
  BY DEF TaskInv
<1>. QED  BY InitTaskInv, NextTaskInv, <1>1, PTL DEF TaskSpec
=============================================================================
