----------------------------- MODULE MCWd33c93 -----------------------------
(* Instances of Wd33c93 for TLC.                                           *)
EXTENDS Wd33c93

CONSTANTS d0, d1, cd
=============================================================================
