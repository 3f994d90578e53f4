------------------------------ MODULE MCRetrain ------------------------------
(* Retrain on small instances.                                             *)
EXTENDS Retrain
=============================================================================
