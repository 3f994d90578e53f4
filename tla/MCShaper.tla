------------------------------ MODULE MCShaper -------------------------------
(***************************************************************************)
(* TrafficShaper on small instances: a soft lease of one tick and a hard   *)
(* one of two, so that a tier change can cut a lease short.                *)
(***************************************************************************)
EXTENDS TrafficShaper, TLC

MCTTL == (1 :> 1) @@ (2 :> 2)

MCSymmetry == Permutations(Agents) \union Permutations(Workers)

=============================================================================
