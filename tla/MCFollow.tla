------------------------------ MODULE MCFollow -------------------------------
(* LogFollow on small instances.                                           *)
EXTENDS LogFollow
=============================================================================
