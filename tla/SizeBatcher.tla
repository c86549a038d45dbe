---------------------------- MODULE SizeBatcher ----------------------------
(***************************************************************************)
(* The byte-size batcher of the fetch task (chain/src/size_batcher.rs):    *)
(* groups raw blocks so that a batch stays within a byte limit.           *)
(* Instantiated by BlockFetch and SyncPipeline.                           *)
(***************************************************************************)
EXTENDS Integers, Sequences

CONSTANTS
  ByteLimit,  \* byte_limit
  UsizeMax    \* usize::MAX, where the projected size saturates

VARIABLES
  immediate,  \* every item is a batch of its own
  sbuf,       \* buf
  bytes,      \* running size of buf
  sout        \* what the last push or take_all returned, <<>> for None

batcherVars == <<immediate, sbuf, bytes, sout>>

SaturatingAdd(a, b) == IF a + b <= UsizeMax THEN a + b ELSE UsizeMax

new(imm) ==
  /\ immediate = imm
  /\ sbuf = <<>>
  /\ bytes = 0
  /\ sout = <<>>

\* Mutant: the limit is tested before the item is counted.
PushTestsLate(item, size) ==
  /\ UNCHANGED immediate
  /\ IF immediate
     THEN sout' = <<item>> /\ UNCHANGED <<sbuf, bytes>>
     ELSE IF bytes > ByteLimit
     THEN sout' = sbuf /\ sbuf' = <<item>> /\ bytes' = size
     ELSE sout' = <<>> /\ sbuf' = Append(sbuf, item) /\ bytes' = SaturatingAdd(bytes, size)

\* push: an item that would overflow the limit goes out alone when nothing is
\* buffered, and otherwise sends the buffer out and starts the next one.
push(item, size) ==
  LET projected == SaturatingAdd(bytes, size)
  IN  /\ UNCHANGED immediate
      /\ \/ /\ immediate \/ (projected > ByteLimit /\ sbuf = <<>>)
            /\ sout' = <<item>>
            /\ UNCHANGED <<sbuf, bytes>>
         \/ /\ ~immediate /\ projected > ByteLimit /\ sbuf # <<>>
            /\ sout' = sbuf
            /\ sbuf' = <<item>>
            /\ bytes' = size
         \/ /\ ~immediate /\ projected <= ByteLimit
            /\ sout' = <<>>
            /\ sbuf' = Append(sbuf, item)
            /\ bytes' = projected

\* take_all: the tail of the stream.
take_all ==
  /\ UNCHANGED immediate
  /\ sout' = IF immediate THEN <<>> ELSE sbuf
  /\ sbuf' = IF immediate THEN sbuf ELSE <<>>
  /\ bytes' = IF immediate \/ sbuf = <<>> THEN bytes ELSE 0

=============================================================================
