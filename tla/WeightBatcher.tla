--------------------------- MODULE WeightBatcher ---------------------------
(***************************************************************************)
(* The weight batcher of the sort task (chain/src/weight_batcher.rs): cuts *)
(* an in-order stream of blocks into the batches the persist thread        *)
(* commits.  Instantiated by SortTask and SyncPipeline.                    *)
(***************************************************************************)
EXTENDS Integers, Sequences

CONSTANTS
  MinWeight,  \* min_weight: flush as soon as the weight reaches it
  Cap,        \* cap: flush as soon as the buffer holds that many items
  UsizeMax    \* usize::MAX, where the weight saturates

VARIABLES
  wmode,   \* Durability the batcher was created with: "Immediate" or "None"
  wbuf,    \* buf
  weight,  \* running weight of buf
  wout     \* what the last push_with or flush returned, <<>> for None

batcherVars == <<wmode, wbuf, weight, wout>>

SaturatingAdd(a, b) == IF a + b <= UsizeMax THEN a + b ELSE UsizeMax

new(mode) ==
  /\ wmode = mode
  /\ wbuf = <<>>
  /\ weight = 0
  /\ wout = <<>>

\* Mutant: the threshold has to be exceeded.
PushWithStrict(item, w) ==
  /\ UNCHANGED wmode
  /\ \/ /\ wmode = "Immediate"
        /\ wout' = <<item>>
        /\ UNCHANGED <<wbuf, weight>>
     \/ /\ wmode = "None"
        /\ LET sum == SaturatingAdd(weight, w)
               buf == Append(wbuf, item)
           IN  IF sum > MinWeight \/ Len(buf) >= Cap
               THEN wout' = buf /\ wbuf' = <<>> /\ weight' = 0
               ELSE wout' = <<>> /\ wbuf' = buf /\ weight' = sum

\* push_with: Immediate mode passes the item through, None mode buffers it and
\* takes the buffer (take_inner) once it is heavy or long enough.
push_with(item, w) ==
  /\ UNCHANGED wmode
  /\ \/ /\ wmode = "Immediate"
        /\ wout' = <<item>>
        /\ UNCHANGED <<wbuf, weight>>
     \/ /\ wmode = "None"
        /\ LET sum == SaturatingAdd(weight, w)
               buf == Append(wbuf, item)
           IN  IF sum >= MinWeight \/ Len(buf) >= Cap
               THEN wout' = buf /\ wbuf' = <<>> /\ weight' = 0
               ELSE wout' = <<>> /\ wbuf' = buf /\ weight' = sum

\* flush: the tail of the stream; nothing is ever buffered in Immediate mode.
flush ==
  /\ UNCHANGED wmode
  /\ wout' = IF wmode = "None" THEN wbuf ELSE <<>>
  /\ wbuf' = IF wmode = "None" THEN <<>> ELSE wbuf
  /\ weight' = IF wmode = "None" /\ wbuf # <<>> THEN 0 ELSE weight

=============================================================================
