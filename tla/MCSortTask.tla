---------------------------- MODULE MCSortTask ----------------------------
(* Small instance of SortTask: a light and a heavy block. *)
EXTENDS SortTask

CONSTANTS light, heavy

MCBlock == {light, heavy}

MCWeightOf == [b \in MCBlock |-> IF b = light THEN 1 ELSE 2]
=============================================================================
