------------------------------ MODULE MCGates ------------------------------
EXTENDS Gates, TLC
MCShipped == [tier1_z |-> -6, tier2_z |-> -8]
MCLoads == {{-9, -6, -5, 6}}
Alike == Permutations(Operators)
=============================================================================
