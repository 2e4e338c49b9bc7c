----------------------------- MODULE Directory -----------------------------
(***************************************************************************)
(* What the resource directories (RDEs) of the PDs promise, for one        *)
(* resource type: a directory is a set of resource spaces.  A PD gets a    *)
(* space into its directory only when the space is created for it or when  *)
(* a PD that has the space shares it, and a space that is gone is in no    *)
(* directory.                                                              *)
(***************************************************************************)
CONSTANTS PDs, Spaces

VARIABLES
  live,    \* the PDs that exist
  spaces,  \* the resource spaces that exist
  dir      \* dir[p]: the spaces that PD p may request resources from

dirVars == <<live, spaces, dir>>

DInit ==
  /\ live = {}
  /\ spaces = {}
  /\ dir = [p \in PDs |-> {}]

\* A PD appears with an empty directory.
Create(p) ==
  /\ p \notin live
  /\ live' = live \cup {p}
  /\ dir' = [dir EXCEPT ![p] = {}]
  /\ UNCHANGED spaces

\* A space is created; the PD it is meant for gets it, if it has room.
Open(p, s) ==
  /\ p \in live /\ s \notin spaces
  /\ spaces' = spaces \cup {s}
  /\ dir' \in {dir, [dir EXCEPT ![p] = @ \cup {s}]}
  /\ UNCHANGED live

\* PD t gets a space that PD c has.
Grant(c, t, s) ==
  /\ {c, t} \subseteq live
  /\ s \in dir[c]
  /\ dir' = [dir EXCEPT ![t] = @ \cup {s}]
  /\ UNCHANGED <<live, spaces>>

\* PD t loses the spaces in S.
Withdraw(t, S) ==
  /\ t \in live
  /\ dir' = [dir EXCEPT ![t] = @ \ S]
  /\ UNCHANGED <<live, spaces>>

\* The spaces in S and the PDs in P go.
Close(S, P) ==
  /\ live' = live \ P
  /\ spaces' = spaces \ S
  /\ dir' = [p \in PDs |-> IF p \in P THEN {} ELSE dir[p] \ S]

DNext ==
  \/ \E p \in PDs : Create(p)
  \/ \E p \in PDs, s \in Spaces : Open(p, s)
  \/ \E c, t \in PDs, s \in Spaces : Grant(c, t, s)
  \/ \E t \in PDs, S \in SUBSET Spaces : Withdraw(t, S)
  \/ \E S \in SUBSET Spaces, P \in SUBSET PDs : Close(S, P)

DSpec == DInit /\ [][DNext]_dirVars
=============================================================================
