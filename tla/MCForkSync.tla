----------------------------- MODULE MCForkSync -----------------------------
(***************************************************************************)
(* A tree of blocks for ForkSync: two branches leave the trunk at height 3 *)
(* and a third one leaves the first branch a block later.                  *)
(***************************************************************************)
EXTENDS ForkSync

MCChains == {<<"t1", "t2", "t3", "a4", "a5">>, <<"t1", "t2", "t3", "b4", "b5", "b6", "b7">>,
             <<"t1", "t2", "t3", "a4", "c5", "c6">>}

MCBlock == UNION {{c[i] : i \in DOMAIN c} : c \in MCChains}

MCChainOf ==
  [b \in MCBlock |->
     LET c == CHOOSE c \in MCChains : \E i \in DOMAIN c : c[i] = b
         n == CHOOSE i \in DOMAIN c : c[i] = b
     IN  SubSeq(c, 1, n)]

ASSUME TreeIsShallow == ShallowForks
=============================================================================
