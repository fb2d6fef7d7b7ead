------------------------------ MODULE MCNbCfg ------------------------------
(***************************************************************************)
(* Instances of NbCfg for TLC.                                             *)
(***************************************************************************)
EXTENDS NbCfg

Load(ns, cfg, nbf, sbf, take, crash, ch) ==
  [northds |-> ns, cfg |-> cfg, nb_failures |-> nbf, sb_failures |-> sbf,
   takeovers |-> take, crashes |-> crash, chassis |-> ch]

OneNorthd  == Load({"a"}, 2, 1, 1, 0, 0, 1)
Restarts   == Load({"a"}, 2, 0, 1, 0, 1, 0)
TwoNorthds == Load({"a", "b"}, 1, 0, 0, 1, 0, 0)
AllLoads == {OneNorthd, Restarts, TwoNorthds}
=============================================================================
