----------------------------- MODULE MCCollector -----------------------------
(***************************************************************************)
(* Collector on a small instance: the records come from two addresses in   *)
(* turn, so that a batch of three takes two writes.                        *)
(***************************************************************************)
EXTENDS Collector

MCFrom == [n \in 1..MaxRecords |-> n % 2]

=============================================================================
