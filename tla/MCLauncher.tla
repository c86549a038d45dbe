----------------------------- MODULE MCLauncher -----------------------------
EXTENDS Launcher

Col(w, s) == [weight |-> w, shards |-> s]

\* Weights in every proportion, zero included; one, several and no shards.
MCDefs == {<<Col(w1, s1), Col(w2, s2), Col(w3, 1)>> :
             w1 \in {0, 1, 3}, w2 \in {1, 2}, w3 \in {0, 2}, s1 \in {1, 2}, s2 \in {0, 3}}
=============================================================================
