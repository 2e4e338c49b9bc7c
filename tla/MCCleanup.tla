----------------------------- MODULE MCCleanup -----------------------------
(* Instances of Cleanup for TLC. *)
EXTENDS Cleanup

\* A depth of -1: the policy follows the dependencies to the end.
Unlimited == -1
=============================================================================
