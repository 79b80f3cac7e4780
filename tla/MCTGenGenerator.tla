-------------------------- MODULE MCTGenGenerator ---------------------------
(* Instances of TGenGenerator for TLC.                                      *)
EXTENDS TGenGenerator
=============================================================================
