------------------------------ MODULE MCPdWork ------------------------------
(* Instances of PdWork for TLC. *)
EXTENDS PdWork, TLC

CONSTANTS s1, s2, c1, c2

NoPairs == {}

\* Ramdisk, kvstore and the toy server have no SEND case that finishes.
NoSendAtS1 == {<<s1, "SEND">>}

ServerSymmetry == Permutations({s1, s2})
=============================================================================
