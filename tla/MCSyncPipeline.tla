-------------------------- MODULE MCSyncPipeline --------------------------
(* A small instance of SyncPipeline: every other block fills a batch by     *)
(* itself, the others are lighter than the processing threshold.            *)
EXTENDS SyncPipeline

MCWeightOf == [h \in 1 .. MaxHeight |-> IF h % 2 = 0 THEN 1 ELSE 3]

MCSizeOf == [h \in 1 .. MaxHeight |-> IF h = 2 THEN 3 ELSE 1]
=============================================================================
