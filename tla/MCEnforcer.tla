----------------------------- MODULE MCEnforcer ------------------------------
(***************************************************************************)
(* Enforcer on small instances: two addresses, a soft lease of one tick    *)
(* and a hard one of two.                                                  *)
(***************************************************************************)
EXTENDS Enforcer, TLC

CONSTANTS a1, a2

MCIPs   == {a1, a2}
MCTTL   == (1 :> 1) @@ (2 :> 2)
MCShort == (1 :> 1) @@ (2 :> 1)
MCBoth  == {{"nginx", "iptables"}}
MCSym   == Permutations(MCIPs)

=============================================================================
