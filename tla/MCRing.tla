------------------------------- MODULE MCRing -------------------------------
(***************************************************************************)
(* Instances of Ring for TLC.                                               *)
(***************************************************************************)
EXTENDS Ring, TLC

CONSTANTS f1, f2, bad
=============================================================================
