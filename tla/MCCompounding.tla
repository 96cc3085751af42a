---------------------------- MODULE MCCompounding -----------------------------
(* Instances of Compounding for TLC. *)
EXTENDS Compounding

UpToFourfold == WAD..(4 * WAD)
==============================================================================
