---------------------------- MODULE MCFileServer ----------------------------
(* Instances of FileServer for TLC.                                        *)
EXTENDS FileServer, TLC

CONSTANT N
MCNames == {<<Root, "a">>, <<N, "a">>}
ClientSymmetry == Permutations(Clients)
=============================================================================
