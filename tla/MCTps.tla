--------------------------------- MODULE MCTps ---------------------------------
(***************************************************************************)
(* An instance of Tps for TLC.                                             *)
(***************************************************************************)
EXTENDS Tps
================================================================================
