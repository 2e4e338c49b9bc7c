----------------------------- MODULE MCRamdisk -----------------------------
(* Instances of Ramdisk for TLC.                                           *)
EXTENDS Ramdisk, TLC

ClientSymmetry == Permutations(Clients)
=============================================================================
