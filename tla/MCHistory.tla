----------------------------- MODULE MCHistory -----------------------------
EXTENDS History, TLC
MCLoads == {s :> n : s \in Sources, n \in {1, 2}}
Alike == Permutations(Workers) \union Permutations(Sources)
=============================================================================
