------------------------------ MODULE RdeTable ------------------------------
(***************************************************************************)
(* The resource directories of the PDs as the root task keeps them: in the *)
(* shared data of each PD a table of MAX_NS_PER_RDE entries for every      *)
(* resource type.  The rows of different types are independent, so this    *)
(* module follows one type.  Entries are filled at the first hole, cleared *)
(* in place and looked up from the front; the null space id stands for     *)
(* "the default" in lookups, for "all" in removals, and is also what a     *)
(* cleared entry holds.                                                    *)
(*                                                                         *)
(* A handler of the root task runs to its end before the next one starts,  *)
(* so each request is one action.                                          *)
(***************************************************************************)
EXTENDS Integers

CONSTANTS
  PDs,             \* PDs that may exist (the root task has no directory)
  Spaces,          \* ids of resource spaces of the type
  MAX_NS_PER_RDE,  \* entries of a row (8 in pd_obj.h)
  MintMayFail,     \* may the cspace of a PD be full?
  Null,            \* BADGE_SPACE_ID_NULL
  Unset            \* the space id of an entry never used (0 from the memset)

Slots == 1 .. MAX_NS_PER_RDE
Ids   == Spaces \cup {Null}

\* osmosis_rde_t: type says whether the entry has the row's type or
\* GPICAP_TYPE_NONE.  Its slots are in caps.
Entry      == [space_id : Spaces \cup {Null, Unset}, type : BOOLEAN]
NewEntry   == [space_id |-> Unset, type |-> FALSE]

\* MUTANT: an entry is cleared to an id that is not one of the type.
StrayEntry == [space_id |-> -1, type |-> FALSE]

ClearEntry == [space_id |-> Null, type |-> FALSE]
NewRow     == [i \in Slots |-> NewEntry]

ASSUME RdeAssumption ==
  /\ MAX_NS_PER_RDE \in Nat \ {0}
  /\ MintMayFail \in BOOLEAN
  /\ Null \notin Spaces /\ Unset \notin Spaces /\ Null # Unset

VARIABLES
  live,    \* PDs in the PD registry
  spaces,  \* resource spaces in the resource space registry
  rde,     \* rde[p]: the row in the shared data of PD p
  caps,    \* caps[p]: the spaces whose endpoint, badged for p, is in p's cspace
  told     \* <<c, t, id>>: the last request was a share by c with t that returned 0

vars == <<live, spaces, rde, caps, told>>

TypeOK ==
  /\ live \subseteq PDs
  /\ spaces \subseteq Spaces
  /\ rde \in [PDs -> [Slots -> Entry]]
  /\ caps \in [PDs -> SUBSET Spaces]
  /\ told \in (PDs \X PDs \X Ids) \cup {<<>>}

Init ==
  /\ live = {} /\ spaces = {}
  /\ rde = [p \in PDs |-> NewRow]
  /\ caps = [p \in PDs |-> {}]
  /\ told = <<>>

-----------------------------------------------------------------------------
(* The row *)

\* What the lookup accepts: for the null id any entry of the type, and
\* otherwise whatever entry holds the id, of the type or cleared.
Matches(e, id) == (id = Null /\ e.type) \/ e.space_id = id

\* pd_rde_find_idx(p, id) is i
Found(p, id, i) ==
  /\ Matches(rde[p][i], id)
  /\ \A j \in Slots : j < i => ~Matches(rde[p][j], id)

\* pd_rde_get is not NULL
Has(p, id) == \E i \in Slots : Matches(rde[p][i], id)

\* The scan of pd_add_rde stops at i with an entry it can fill.
CanFill(p, s, i) ==
  /\ ~rde[p][i].type
  /\ \A j \in Slots : j < i => rde[p][j].type /\ rde[p][j].space_id # s

\* pd_add_rde succeeds, or fails after the entry is filled because the cap
\* cannot be put into the cspace of p.
Fill(p, s) ==
  \E i \in Slots :
    /\ CanFill(p, s, i)
    /\ rde' = [rde EXCEPT ![p][i] = [space_id |-> s, type |-> TRUE]]
    /\ \/ caps' = [caps EXCEPT ![p] = @ \cup {s}]
       \/ MintMayFail /\ UNCHANGED caps

\* pd_add_rde: the entry exists, or there is no hole.
NoRoom(p, s) == \A i \in Slots : ~CanFill(p, s, i)

\* What pd_remove_rde removes: the first entry of the space, or all.
Removes(p, id, i) ==
  /\ rde[p][i].type
  /\ \/ id = Null
     \/ rde[p][i].space_id = id /\ \A j \in Slots : j < i => rde[p][j] # rde[p][i]

\* MUTANT: the entry is marked unused, its endpoint and its id stay.
ClearTypeOnly(row, p, id) ==
  [i \in Slots |-> IF Removes(p, id, i) THEN [row[i] EXCEPT !.type = FALSE] ELSE row[i]]

\* pd_remove_rde_by_idx on the entries removed
Clear(row, p, id) ==
  [i \in Slots |-> IF Removes(p, id, i) THEN ClearEntry ELSE row[i]]

RemovedIds(p, id) == {rde[p][i].space_id : i \in {j \in Slots : Removes(p, id, j)}}

-----------------------------------------------------------------------------
(* Requests *)

\* pd_new
NewPd(p) ==
  /\ p \notin live
  /\ live' = live \cup {p}
  /\ rde' = [rde EXCEPT ![p] = NewRow]
  /\ caps' = [caps EXCEPT ![p] = {}]
  /\ told' = <<>>
  /\ UNCHANGED spaces

\* handle_resspc_allocation_request (create_vmr_space alike) for client PD p:
\* the space stays registered when its entry cannot be added.
AllocSpace(p, s) ==
  /\ p \in live /\ s \notin spaces
  /\ spaces' = spaces \cup {s}
  /\ \/ Fill(p, s)
     \/ NoRoom(p, s) /\ UNCHANGED <<rde, caps>>
  /\ told' = <<>>
  /\ UNCHANGED live

\* MUTANT: the target is not asked whether it has the entry.
ShareTwice(c, t, id, i) == Found(c, id, i) /\ rde[c][i].space_id \in spaces

\* handle_share_rde_req goes on to add entry i of the caller to the target.
ShareAdds(c, t, id, i) ==
  /\ Found(c, id, i)
  /\ ~Has(t, id)
  /\ rde[c][i].space_id \in spaces

\* handle_share_rde_req.  The request that fails (no such entry, the entry
\* of a space that is gone, no room) leaves the tables alone.
ShareRde(c, t, id) ==
  /\ {c, t} \subseteq live
  /\ \/ \E i \in Slots :
          /\ ShareAdds(c, t, id, i)
          /\ Fill(t, rde[c][i].space_id)
          /\ told' = IF caps' # caps THEN <<c, t, id>> ELSE <<>>
     \/ /\ Has(c, id) /\ Has(t, id)    \* "RDE already exists in target PD"
        /\ told' = <<c, t, id>>
        /\ UNCHANGED <<rde, caps>>
  /\ UNCHANGED <<live, spaces>>

\* handle_remove_rde_req
RemoveRde(t, id) ==
  /\ t \in live
  /\ \E i \in Slots : Removes(t, id, i)
  /\ rde' = [rde EXCEPT ![t] = Clear(rde[t], t, id)]
  /\ caps' = [caps EXCEPT ![t] = @ \ RemovedIds(t, id)]
  /\ told' = <<>>
  /\ UNCHANGED <<live, spaces>>

\* MUTANT: pd_component_space_cleanup forgets the directories.
KeepRow(p, S) == rde[p]

\* The row of a PD that survives the deletion of the spaces in S.
RowWithout(p, S) ==
  [i \in Slots |-> IF \E s \in S : Removes(p, s, i) THEN ClearEntry ELSE rde[p][i]]

\* The spaces in S are deleted and the PDs in P destroyed by one request
\* (terminate, exit, deletion of a space); pd_component_space_cleanup takes
\* the spaces out of the tables of the PDs that stay.
CleanupSpaces(S, P) ==
  /\ S \subseteq spaces /\ P \subseteq live /\ (S # {} \/ P # {})
  /\ live' = live \ P
  /\ spaces' = spaces \ S
  /\ rde' = [p \in PDs |-> IF p \in P THEN NewRow ELSE RowWithout(p, S)]
  /\ caps' = [p \in PDs |-> IF p \in P THEN {}
                            ELSE caps[p] \ UNION {RemovedIds(p, s) : s \in S}]
  /\ told' = <<>>

Next ==
  \/ \E p \in PDs : NewPd(p)
  \/ \E p \in PDs, s \in Spaces : AllocSpace(p, s)
  \/ \E c, t \in PDs, id \in Ids : ShareRde(c, t, id)
  \/ \E t \in PDs, id \in Ids : RemoveRde(t, id)
  \/ \E S \in SUBSET Spaces, P \in SUBSET PDs : CleanupSpaces(S, P)

Spec == Init /\ [][Next]_vars

-----------------------------------------------------------------------------
(* Properties *)

\* The spaces that the directory of p names.
Named(p) == {rde[p][i].space_id : i \in {j \in Slots : rde[p][j].type}}

\* A PD has at most one entry for a space.  pd_add_rde does not see to it: its
\* scan stops at the first hole, before an entry of the same space behind it.
NoDuplicates ==
  \A p \in PDs : \A i, j \in Slots :
    rde[p][i].type /\ rde[p][i] = rde[p][j] => i = j

\* No entry outlives its space, and no endpoint its entry: the id of a deleted
\* space can be given to a new one without a PD reaching it through an entry
\* or an endpoint of the old one.
NoStaleDirectory == \A p \in PDs : caps[p] \subseteq Named(p) /\ Named(p) \subseteq spaces

\* An entry in use has a proper id; an entry not in use has none, so that a
\* lookup by id only finds live entries.
HolesHaveNoSpace ==
  \A p \in PDs : \A i \in Slots : rde[p][i].type <=> rde[p][i].space_id \in Spaces

\* A table whose entries come and go in place is a set of spaces, which grow
\* only by creation and by sharing what the sharing PD has.
D == INSTANCE Directory WITH dir <- [p \in PDs |-> Named(p)]
ImplementsDirectory == D!DSpec

\* Entry i is the default of PD c: the first one in use.
IsDefault(c, i) == rde[c][i].type /\ \A j \in Slots : j < i => ~rde[c][j].type

\* A share that returned 0 (pd_client_share_rde: "0 on success", with the null
\* id "to share this PD's default space") has given the space to the target.
ShareSucceeds ==
  told # <<>> =>
    IF told[3] # Null THEN told[3] \in Named(told[2])
    ELSE \E i \in Slots : IsDefault(told[1], i) /\ rde[told[1]][i].space_id \in Named(told[2])

=============================================================================
