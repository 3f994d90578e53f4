----------------------------- MODULE MCRequests -----------------------------
EXTENDS Requests, TLC
Alike == Permutations(Agents) \union Permutations(Tenants)
=============================================================================
