----------------------------- MODULE BlockFetch -----------------------------
(***************************************************************************)
(* A block provider at work (chain/src/block_stream.rs, redbit/src/        *)
(* retry.rs, and the clients and providers in chains/*/src): it asks the   *)
(* node for its tip, streams the raw blocks up to it, several requests at  *)
(* a time, through the size batcher, and looks single blocks up by hash.   *)
(* The node (external) grows, switches to a longer branch between any two  *)
(* requests, fails, answers with an error body or never answers.  A block  *)
(* is known by its height and branch; an error body is Garbage.            *)
(***************************************************************************)
EXTENDS AddressCodec, BlockProcessing, FiniteSetsExt

CONSTANTS
  Chains,      \* providers that are explored
  Par,         \* fetching_parallelism
  MaxHeight,   \* bound: height of the node's chain
  MaxFaults,   \* bound: requests that go wrong
  SizeOf,      \* height -> size of the raw block; Garbage has height 0
  TxsOf,       \* height -> transactions of the block
  ByteLimit,   \* a number of kilobytes in bytes (from_kb): never usize::MAX
  UsizeMax

ASSUME FetchAssumption ==
  /\ Chains \subseteq {"btc", "ltc", "bch", "ergo", "cardano"}
  /\ Par \in Nat \ {0} /\ MaxFaults \in Nat /\ MaxHeight \in Nat \ {0, 1}
  /\ SizeOf \in [0 .. MaxHeight -> Nat]
  /\ UsizeMax \in Nat /\ ByteLimit \in 0 .. UsizeMax - 1

VARIABLES
  chain,      \* the provider
  main,       \* the branch of the node's main chain at each height
  known,      \* every block that has been on it; the node keeps them all
  faults,     \* requests that went wrong
  unanswered, \* whether one of them never ends
  pc,         \* "tip", "stream", "ended" or "panicked"
  ending,     \* how the stream ended
  last,       \* last persisted block
  tip,        \* what get_chain_tip answered
  call,       \* the call behind get_chain_tip
  flight,     \* calls of the stream, by height
  next,       \* the next height to ask for
  cursor,     \* chain-sync position of the Cardano node client
  immediate, sbuf, bytes, sout,   \* SizeBatcher
  sent,       \* history: raw blocks sent to the process task
  shutdown,
  lookup      \* the last get_processed_block: what was asked and the answer

nodeVars == <<main, known>>
sizeVars == <<immediate, sbuf, bytes, sout>>
streamVars == <<flight, next, cursor, sizeVars, sent>>
vars == <<chain, nodeVars, faults, unanswered, pc, ending, last, tip, call, streamVars, shutdown, lookup>>

Raw == INSTANCE SizeBatcher

Block(h, branch) == [height |-> h, branch |-> branch]
Garbage == Block(0, 0)
Origin == Block(0, 1)

MainAt(h) == Block(h, main[h])
OnMain(b) == b = Origin \/ (b.height \in DOMAIN main /\ main[b.height] = b.branch)
Tip == MainAt(Len(main))

-----------------------------------------------------------------------------
(* The node. *)

Extend ==
  /\ Len(main) < MaxHeight
  /\ main' = Append(main, Last(main))
  /\ known' = known \cup {Block(Len(main) + 1, Last(main))}
  /\ UNCHANGED <<chain, faults, unanswered, pc, ending, last, tip, call, streamVars, shutdown, lookup>>

\* A longer branch replaces the blocks from height h on.
Reorg(h) ==
  /\ Last(main) = 1 /\ Len(main) < MaxHeight
  /\ main' = [k \in 1 .. Len(main) + 1 |-> IF k < h THEN main[k] ELSE 2]
  /\ known' = known \cup {Block(k, 2) : k \in h .. Len(main) + 1}
  /\ UNCHANGED <<chain, faults, unanswered, pc, ending, last, tip, call, streamVars, shutdown, lookup>>

-----------------------------------------------------------------------------
(* Calls of the clients: the requests of one attempt, one after the other,   *)
(* and how many attempts there are.                                          *)

BtcClient ==
  [best |-> <<"bestblockhash", "block", "height">>, bestAttempts |-> 3,
   byHeight |-> <<"blockhash", "block">>, attempts |-> 3, heightByHash |-> TRUE]
LtcClient ==
  [best |-> <<"bestblockhash", "block", "height">>, bestAttempts |-> 3,
   byHeight |-> <<"blockhash", "block">>, attempts |-> 3, heightByHash |-> TRUE]
BchClient ==
  [best |-> <<"bestblockhash", "block", "height">>, bestAttempts |-> 3,
   byHeight |-> <<"blockhash", "block">>, attempts |-> 3, heightByHash |-> TRUE]
ErgoClient ==
  [best |-> <<"info", "ids", "block">>, bestAttempts |-> 1,
   byHeight |-> <<"ids", "block">>, attempts |-> 5, heightByHash |-> FALSE]
CardanoClient ==
  [best |-> <<"point", "block">>, bestAttempts |-> 1,
   byHeight |-> <<>>, attempts |-> 1, heightByHash |-> FALSE]

Client ==
  CASE chain = "btc"  -> BtcClient  [] chain = "ltc"     -> LtcClient
    [] chain = "bch"  -> BchClient
    [] chain = "ergo" -> ErgoClient [] chain = "cardano" -> CardanoClient

\* A call: the request it is at, attempts left, and what it knows.
NewCall(attempts, h) == [at |-> 1, left |-> attempts, height |-> h, hash |-> Garbage, raw |-> Garbage]

Done(steps, c) == c.at > Len(steps)

\* Mutant: the height of the best block is asked for at the end, not by hash.
AnswerTipHeight(c, step) ==
  CASE step \in {"bestblockhash", "point"} -> [c EXCEPT !.hash = Tip]
    [] step \in {"info", "height"}         -> [c EXCEPT !.height = Len(main)]
    [] step \in {"blockhash", "ids"}       -> [c EXCEPT !.hash = MainAt(c.height)]
    [] step = "block"                      -> [c EXCEPT !.raw = c.hash]

\* What a request that is answered adds: the node answers for its main chain of
\* the moment, and serves blocks of superseded branches by hash.
Answer(c, step) ==
  CASE step \in {"bestblockhash", "point"} -> [c EXCEPT !.hash = Tip]
    [] step = "info"                       -> [c EXCEPT !.height = Len(main)]
    [] step \in {"blockhash", "ids"}       -> [c EXCEPT !.hash = MainAt(c.height)]
    [] step = "block"                      -> [c EXCEPT !.raw = c.hash]
    [] step = "height"                     -> [c EXCEPT !.height = c.hash.height]

Answered(steps, c) == [Answer(c, steps[c.at]) EXCEPT !.at = c.at + 1]

\* The status of the answer is not looked at: an error body is taken for a block.
ErrorBody(c) == [c EXCEPT !.at = c.at + 1, !.raw = Garbage]

\* Mutant: one attempt fewer than asked for.
RetryOneLess(c) == IF c.left > 2 THEN NewCall(c.left - 1, c.height) ELSE [c EXCEPT !.left = 0]

\* retry_with_delay: start over, or give up with the last error.
retry_with_delay(c) == IF c.left > 1 THEN NewCall(c.left - 1, c.height) ELSE [c EXCEPT !.left = 0]

Failed(c) == c.left = 0

\* The outcomes of the request a call is at: the call afterwards.
Outcomes(steps, c) ==
  LET step == steps[c.at]
  IN  {[call |-> Answered(steps, c), fault |-> 0, stuck |-> FALSE, panic |-> FALSE]}
        \cup (IF faults = MaxFaults THEN {}
              ELSE {[call |-> retry_with_delay(c), fault |-> 1, stuck |-> FALSE, panic |-> FALSE],
                    [call |-> [c EXCEPT !.at = 0], fault |-> 1, stuck |-> TRUE, panic |-> FALSE]}
                   \cup (IF step # "block" \/ chain = "cardano" THEN {}
                         ELSE {[call |-> ErrorBody(c), fault |-> 1, stuck |-> FALSE, panic |-> FALSE]})
                   \cup (IF step # "ids" THEN {}
                         ELSE {[call |-> c, fault |-> 1, stuck |-> FALSE, panic |-> TRUE]}))

Running(steps, c) == c.at \in DOMAIN steps /\ ~Failed(c)

Count(o) ==
  /\ faults' = faults + o.fault
  /\ unanswered' = (unanswered \/ o.stuck)

-----------------------------------------------------------------------------
(* get_chain_tip, and the decision to stream.                                *)

\* The height a raw block goes by: the one it was asked for, or its own.
HeightOf(c) == IF chain \in {"ergo", "cardano"} THEN c.raw.height ELSE c.height

TipRequest ==
  /\ pc = "tip" /\ Running(Client.best, call)
  /\ \E o \in Outcomes(Client.best, call) :
       /\ Count(o)
       /\ call' = o.call
       /\ pc' = IF o.panic THEN "panicked" ELSE pc
  /\ UNCHANGED <<chain, nodeVars, ending, last, tip, streamVars, shutdown, lookup>>

\* An error, or a body that does not parse, ends the sync before it starts.
TipFails ==
  /\ pc = "tip"
  /\ Failed(call) \/ (Done(Client.best, call) /\ call.raw = Garbage)
  /\ pc' = "ended" /\ ending' = "no_tip"
  /\ UNCHANGED <<chain, nodeVars, faults, unanswered, last, tip, call, streamVars, shutdown, lookup>>

TipKnown ==
  /\ pc = "tip" /\ Done(Client.best, call) /\ call.raw # Garbage
  /\ tip' = [height |-> HeightOf(call), block |-> call.raw]
  /\ IF HeightOf(call) <= last.height
     THEN pc' = "ended" /\ ending' = "nothing_new"
     ELSE pc' = "stream" /\ UNCHANGED ending
  /\ call' = NewCall(1, 0)
  /\ UNCHANGED <<chain, nodeVars, faults, unanswered, last, streamVars, shutdown, lookup>>

-----------------------------------------------------------------------------
(* RestBlockStream::stream.                                                  *)

Rest == chain # "cardano"
Streaming == pc = "stream" /\ ~shutdown

StartFetch ==
  /\ Streaming /\ Rest
  /\ next <= tip.height /\ Cardinality(DOMAIN flight) < Par
  /\ flight' = [h \in DOMAIN flight \cup {next} |->
                  IF h = next THEN NewCall(Client.attempts, h) ELSE flight[h]]
  /\ next' = next + 1
  /\ UNCHANGED <<chain, nodeVars, faults, unanswered, pc, ending, last, tip, call, cursor, sizeVars,
                 sent, shutdown, lookup>>

\* A height that cannot be fetched panics the task (expect).
FetchRequest(h) ==
  /\ Streaming /\ Running(Client.byHeight, flight[h])
  /\ \E o \in Outcomes(Client.byHeight, flight[h]) :
       /\ Count(o)
       /\ flight' = [flight EXCEPT ![h] = o.call]
       /\ pc' = IF o.panic \/ Failed(o.call) THEN "panicked" ELSE pc
  /\ UNCHANGED <<chain, nodeVars, ending, last, tip, call, next, cursor, sizeVars, sent, shutdown, lookup>>

\* Mutant: blocks leave the stream as they come in either mode.
YieldsAny(h) == TRUE

\* buffer_unordered yields whatever is complete, buffered the oldest.
Yields(h) == ~immediate \/ h = Min(DOMAIN flight)

Push(item) ==
  /\ Raw!push(item, SizeOf[item.block.height])
  /\ sent' = sent \o sout'

Yield(h) ==
  /\ Streaming /\ Done(Client.byHeight, flight[h]) /\ Yields(h)
  /\ Push([height |-> HeightOf(flight[h]), block |-> flight[h].raw])
  /\ flight' = [k \in DOMAIN flight \ {h} |-> flight[k]]
  /\ UNCHANGED <<chain, nodeVars, faults, unanswered, pc, ending, last, tip, call, next, cursor, shutdown, lookup>>

\* Mutant: the stream ends without what the batcher still holds.
EndNoTail(how) ==
  /\ pc' = "ended" /\ ending' = how
  /\ UNCHANGED <<sizeVars, sent>>

\* The stream ends; what the batcher still holds is sent first.
End(how) ==
  /\ pc' = "ended" /\ ending' = how
  /\ Raw!take_all
  /\ sent' = sent \o sout'

FetchComplete ==
  /\ Streaming /\ Rest /\ flight = << >> /\ next > tip.height
  /\ End("complete")
  /\ UNCHANGED <<chain, nodeVars, faults, unanswered, last, tip, call, flight, next, cursor, shutdown, lookup>>

-----------------------------------------------------------------------------
(* CardanoBlockProvider::block_stream.                                       *)

\* find_intersect with the last persisted block.  Only an error ends the stream: a
\* node that does not have the block on its chain answers Ok without a point, and
\* its read pointer stays where a connection begins, at the origin.
Intersect ==
  /\ Streaming /\ ~Rest /\ cursor = Garbage
  /\ \/ cursor' = (IF OnMain(last) THEN last ELSE Origin) /\ UNCHANGED <<pc, ending, faults>>
     \/ /\ faults < MaxFaults
        /\ faults' = faults + 1
        /\ pc' = "ended" /\ ending' = "failed"
        /\ UNCHANGED cursor
  /\ UNCHANGED <<chain, nodeVars, unanswered, last, tip, call, flight, next, sizeVars, sent, shutdown, lookup>>

RollForward ==
  /\ Streaming /\ ~Rest /\ cursor # Garbage /\ OnMain(cursor) /\ cursor # Tip
  /\ cursor' = MainAt(cursor.height + 1)
  /\ Push([height |-> cursor'.height, block |-> cursor'])
  /\ UNCHANGED <<chain, nodeVars, faults, unanswered, pc, ending, last, tip, call, flight, next, shutdown, lookup>>

\* The node goes back to where the branches part; the client skips the message.
RollBackward ==
  /\ Streaming /\ ~Rest /\ cursor # Garbage /\ ~OnMain(cursor)
  /\ LET common == {h \in 1 .. cursor.height - 1 : main[h] = cursor.branch}
     IN  cursor' = IF common = {} THEN Origin ELSE MainAt(Max(common))
  /\ UNCHANGED <<chain, nodeVars, faults, unanswered, pc, ending, last, tip, call, flight, next, sizeVars,
                 sent, shutdown, lookup>>

\* Mutant: the client waits for the next block instead of ending the stream.
AwaitContinues ==
  /\ Streaming /\ ~Rest /\ cursor = Tip
  /\ UNCHANGED vars

AwaitReply ==
  /\ Streaming /\ ~Rest /\ cursor = Tip
  /\ End("complete")
  /\ UNCHANGED <<chain, nodeVars, faults, unanswered, last, tip, call, flight, next, cursor, shutdown, lookup>>

RequestNextFails ==
  /\ Streaming /\ ~Rest /\ cursor # Garbage /\ faults < MaxFaults
  /\ faults' = faults + 1
  /\ End("failed")
  /\ UNCHANGED <<chain, nodeVars, unanswered, last, tip, call, flight, next, cursor, shutdown, lookup>>

-----------------------------------------------------------------------------
(* Shutdown.                                                                 *)

SignalShutdown ==
  /\ pc = "stream" /\ ~shutdown
  /\ shutdown' = TRUE
  /\ UNCHANGED <<chain, nodeVars, faults, unanswered, pc, ending, last, tip, call, streamVars, lookup>>

\* Mutant: the signal is looked at between blocks only.
StopBetweenBlocks ==
  /\ pc = "stream" /\ shutdown
  /\ \A h \in DOMAIN flight : Done(Client.byHeight, flight[h])
  /\ End("shutdown")
  /\ UNCHANGED <<chain, nodeVars, faults, unanswered, last, tip, call, flight, next, cursor, shutdown, lookup>>

\* The select sees the signal whatever the requests are doing.
StopOnShutdown ==
  /\ pc = "stream" /\ shutdown
  /\ End("shutdown")
  /\ UNCHANGED <<chain, nodeVars, faults, unanswered, last, tip, call, flight, next, cursor, shutdown, lookup>>

\* The syncer aborts the task, or the receiver is gone when a batch is sent.
Abort ==
  /\ pc = "stream" /\ shutdown
  /\ pc' = "ended" /\ ending' = "aborted"
  /\ UNCHANGED <<chain, nodeVars, faults, unanswered, last, tip, call, streamVars, shutdown, lookup>>

-----------------------------------------------------------------------------
(* get_processed_block.                                                      *)

\* The bytes of a hash as the node displays them, and as they are stored.
Display(b) == <<0, b.height, b.branch>>

StoredHash(b) == IF Blocks(chain).hashes = "internal" THEN Reverse(Display(b)) ELSE Display(b)

\* The node looks blocks up by the text it displays; the request carries the
\* stored bytes as they are.
NodeFinds(hash) == {b \in known : Display(b) = hash}

\* Some(block) is the block and the height it goes by.  Without a block the btc
\* clients fail on the height request, every time; the Ergo client takes the
\* error body for a block and fails to parse it.
GetProcessedBlock(b) ==
  LET found == NodeFinds(StoredHash(b))
  IN  IF chain = "cardano" THEN {<<"None">>}
      ELSE IF found = {} THEN (IF Client.heightByHash THEN {<<"None">>} ELSE {<<"Err">>})
      ELSE {<<x, x.height>> : x \in found}
             \cup (IF faults = MaxFaults THEN {} ELSE {<<"None">>, <<"Err">>})

get_processed_block(b) ==
  /\ pc = "ended" /\ lookup = <<>>
  /\ lookup' \in {<<b, a>> : a \in GetProcessedBlock(b)}
  /\ UNCHANGED <<chain, nodeVars, faults, unanswered, pc, ending, last, tip, call, streamVars, shutdown>>

-----------------------------------------------------------------------------
Init ==
  /\ chain \in Chains
  /\ \E n \in 1 .. MaxHeight - 1 : main = [h \in 1 .. n |-> 1]
  /\ known = {MainAt(h) : h \in DOMAIN main}
  /\ last \in {Origin, Block(1, 1)}
  /\ faults = 0 /\ unanswered = FALSE
  /\ pc = "tip" /\ ending = "no" /\ tip = [height |-> 0, block |-> Garbage]
  /\ call = NewCall(Client.bestAttempts, 0)
  /\ flight = << >> /\ next = last.height + 1 /\ cursor = Garbage
  /\ \E batch \in BOOLEAN : Raw!new(~batch)
  /\ sent = <<>> /\ shutdown = FALSE /\ lookup = <<>>

Fetching ==
  \/ TipRequest \/ TipFails \/ TipKnown
  \/ StartFetch \/ \E h \in DOMAIN flight : FetchRequest(h) \/ Yield(h)
  \/ FetchComplete
  \/ Intersect \/ RollForward \/ RollBackward \/ AwaitReply

Next ==
  \/ Extend \/ \E h \in DOMAIN main : Reorg(h)
  \/ Fetching \/ RequestNextFails
  \/ SignalShutdown \/ StopOnShutdown \/ Abort
  \/ \E b \in known : get_processed_block(b)

\* A request that is answered at all is answered eventually, and the runtime
\* runs a task that can go on.
Spec == Init /\ [][Next]_vars /\ WF_vars(Fetching) /\ WF_vars(StopOnShutdown)

-----------------------------------------------------------------------------
Fetched == sent \o sbuf

\* A block goes by its own height: no switch of the node's main chain between
\* the requests of one call pairs a block with another one's height, neither in
\* the stream nor in the tip the sync is planned by.
OwnHeight ==
  /\ \A i \in DOMAIN Fetched :
       Fetched[i].block # Garbage => Fetched[i].height = Fetched[i].block.height
  /\ tip.height = tip.block.height

\* A REST stream fetches no height twice and none it was not asked for; in
\* continuous mode, where nothing restores the order, blocks leave it in order.
EachHeightOnce ==
  Rest =>
    LET ok == {i \in DOMAIN Fetched : Fetched[i].block # Garbage}
    IN  /\ Len(Fetched) <= tip.height - last.height \/ Fetched = <<>>
        /\ \A i \in ok : Fetched[i].height \in last.height + 1 .. tip.height
        /\ \A i, j \in ok : i < j =>
             /\ Fetched[i].height # Fetched[j].height
             /\ immediate => Fetched[i].height < Fetched[j].height

\* A stream that ends by itself has sent everything: every height up to the tip
\* the sync was planned by (an error body in place of some), or, from a Cardano
\* node, the whole main chain of that moment above the last persisted block,
\* rollbacks on the way included.
CompleteAtEnd ==
  [][ending # "complete" /\ ending' = "complete" =>
       IF Rest THEN Len(sent') = tip.height - last.height /\ sbuf' = <<>>
       ELSE \A h \in last.height + 1 .. Len(main) : [height |-> h, block |-> MainAt(h)] \in ToSet(sent')]_vars

BatchSize(s) == SumOf([i \in DOMAIN s |-> SizeOf[s[i].block.height]])

\* The running size is that of the open batch, and a batch of several raw blocks
\* stays within the byte limit whatever the sizes and the order of arrival.
BatchesWithinLimit ==
  /\ bytes = BatchSize(sbuf)
  /\ Len(sout) > 1 => BatchSize(sout) <= ByteLimit
  /\ Len(sbuf) > 1 => BatchSize(sbuf) <= ByteLimit

\* The fetch task dies (and with it the sync) only when a height has failed in
\* every attempt, or, for Ergo, when the node lists no block at a height.
GivesUpLate == pc = "panicked" => faults >= Client.attempts \/ (chain = "ergo" /\ faults > 0)

\* A block the node has is found by the hash its header is stored under, unless
\* the node fails: the fork resolution of the syncer depends on it for parents.
BlocksFoundByHash ==
  lookup # <<>> /\ faults = MaxFaults => lookup[2] = <<lookup[1], lookup[1].height>>

\* What only depends on the chain and its blocks is evaluated where a sync begins.
Begins == pc = "tip" /\ call.at = 1 /\ faults = 0

\* The address in an answer can be used in a request: it parses to the bytes the
\* output is indexed under (codec.rs of every chain).
AddressesRoundTrip == Begins => \A s \in Scripts : RoundTrips(chain, s)

\* A query by address finds the outputs of that address only: no two scripts
\* with different addresses are indexed under the same bytes.
AddressesToldApart == Begins => \A s, other \in Scripts : Told(chain, s, other)

Processed(h) == process_block(Blocks(chain), h, TxsOf[h])

\* process_block gives every row of a block a key of its own and counts each one.
RowsKeyed == Begins => \A h \in DOMAIN TxsOf : RowsDistinct(Blocks(chain), Processed(h))

\* The hook resolves every input of a stored chain: it points at exactly the
\* output it spends, and the markers of coinbase and unknown inputs at none.
InputsResolved ==
  Begins =>
    LET stored == [h \in DOMAIN TxsOf |-> Processed(h)]
    IN  \A h \in DOMAIN TxsOf : \A n \in DOMAIN TxsOf[h] : \A i \in DOMAIN TxsOf[h][n].ins :
          Resolved(Hook(chain), stored, stored[h].transactions[n], i, TxsOf[h][n].ins[i])

\* Unless a request is never answered (the async clients have no timeout), a
\* sync gets its stream to an end: complete, stopped, or given up.
StreamEnds == <>(pc \in {"ended", "panicked"} \/ unanswered)

\* A shutdown ends the stream even if the node has stopped answering.
ShutdownEnds == shutdown ~> pc = "ended"

\* What a stream passes on, in which batches, and when it gives up.
StreamSound == OwnHeight /\ EachHeightOnce /\ BatchesWithinLimit /\ GivesUpLate

\* What a fetched block becomes: rows with keys of their own, inputs that point to
\* the outputs they spend, addresses that are told apart and read back.
RowsSound == RowsKeyed /\ InputsResolved /\ AddressesToldApart /\ AddressesRoundTrip

\* A stream ends by itself where the node answers, and at a shutdown in any case.
EndsInTime == StreamEnds /\ ShutdownEnds
=============================================================================
