--------------------------- MODULE MCModuleCaller ---------------------------
(***************************************************************************)
(* Instances of ModuleCaller for TLC.                                       *)
(***************************************************************************)
EXTENDS ModuleCaller, TLC
=============================================================================
