-------------------------- MODULE ResourceRegistry --------------------------
(***************************************************************************)
(* The registry every component keeps its objects in (resource_registry.c) *)
(* and its allocation of ids.                                              *)
(*                                                                         *)
(* A new object gets the next id that is free, after the last one given    *)
(* out, wrapping round at max_object_id.  The search is a loop, so it is   *)
(* modelled one turn at a time.  Objects are counted by reference and      *)
(* deleted when the last reference goes.  An entry may also be registered   *)
(* under an id that its caller has chosen, which nobody looks up: the       *)
(* links of a PD are all registered under 0.                                *)
(***************************************************************************)
EXTENDS Integers

CONSTANTS
  Nodes,          \* registry entries that callers allocate
  max_object_id,  \* new ids are 1 .. max_object_id
  MaxCount        \* bound: references to one object

ASSUME RegistryAssumption ==
  max_object_id \in Nat \ {0} /\ MaxCount \in Nat \ {0}

Ids == 1 .. max_object_id

VARIABLES
  registered,  \* entries in the hash table
  object_id,   \* id of each entry, 0 unless it is registered
  count,       \* reference count of each entry
  id_counter,  \* the last id tried
  search,      \* the running insert_new_id: its node and start_id, and state
  origin       \* history: the id of the entry was new, or chosen by the caller,
               \* or chosen and taken by another entry at that time

vars == <<registered, object_id, count, id_counter, search, origin>>

NoSearch == [state |-> "none", node |-> 0, start_id |-> 0]
Searches == [state : {"trying", "panic"}, node : Nodes, start_id : 0 .. max_object_id]

TypeOK ==
  /\ registered \subseteq Nodes
  /\ object_id \in [Nodes -> 0 .. max_object_id]
  /\ count \in [Nodes -> Nat]
  /\ id_counter \in 0 .. max_object_id
  /\ search \in Searches \cup {NoSearch}
  /\ origin \in [Nodes -> {"new", "chosen", "taken"}]

\* resource_registry_initialize
Init ==
  /\ registered = {}
  /\ object_id = [n \in Nodes |-> 0] /\ count = [n \in Nodes |-> 0]
  /\ id_counter = 0 /\ search = NoSearch
  /\ origin = [n \in Nodes |-> "new"]

\* HASH_FIND
Used == {object_id[n] : n \in registered}

\* resource_registry_insert with the id that the caller has put into the node:
\* 0 for a link (pd_add_linkage), the id of its space for an ADS, the inode
\* number for a file.  Only the range is checked.
Insert(n, id) ==
  /\ search = NoSearch /\ n \notin registered
  /\ registered' = registered \cup {n}
  /\ object_id' = [object_id EXCEPT ![n] = id]
  /\ count' = [count EXCEPT ![n] = 1]
  /\ origin' = [origin EXCEPT ![n] = IF id \in Used THEN "taken" ELSE "chosen"]
  /\ UNCHANGED <<id_counter, search>>

\* resource_registry_insert_new_id is called for n.
StartInsert(n) ==
  /\ search = NoSearch /\ n \notin registered
  /\ search' = [state |-> "trying", node |-> n, start_id |-> id_counter]
  /\ UNCHANGED <<registered, object_id, count, id_counter, origin>>

\* MUTANT: the wrap-around does not look whether the first id is free.
FreeUnlessWrapped(id) == id \notin Used \/ id = 1
Free(id) == id \notin Used

\* MUTANT: the counter does not wrap.
NextIdUnwrapped == id_counter + 1

\* MUTANT: the counter stays at the maximum.
NextIdSticks == IF id_counter + 1 > max_object_id THEN max_object_id ELSE id_counter + 1

\* The id to try next.
NextId == IF id_counter + 1 > max_object_id THEN 1 ELSE id_counter + 1

\* MUTANT: the search gives up at the first id above the one it started from.
GoneRoundEarly == id_counter + 1 <= max_object_id /\ NextId >= search.start_id

\* The test for a full registry, which is not made in the turn that wraps.
GoneRound == id_counter + 1 <= max_object_id /\ NextId = search.start_id

\* One turn of the loop.
Try ==
  /\ search.state = "trying"
  /\ LET new_id == NextId IN
     /\ id_counter' = new_id
     /\ \/ GoneRound
           /\ search' = [search EXCEPT !.state = "panic"]
           /\ UNCHANGED <<registered, object_id, count, origin>>
        \/ ~GoneRound /\ Free(new_id)
           /\ registered' = registered \cup {search.node}
           /\ object_id' = [object_id EXCEPT ![search.node] = new_id]
           /\ count' = [count EXCEPT ![search.node] = 1]
           /\ origin' = [origin EXCEPT ![search.node] = "new"]
           /\ search' = NoSearch
        \/ ~GoneRound /\ ~Free(new_id)
           /\ UNCHANGED <<registered, object_id, count, search, origin>>

\* resource_registry_inc
Inc(n) ==
  /\ search = NoSearch /\ n \in registered /\ count[n] < MaxCount
  /\ count' = [count EXCEPT ![n] = @ + 1]
  /\ UNCHANGED <<registered, object_id, id_counter, search, origin>>

\* MUTANT: the last reference goes, the object stays.
LeftAfterDecAlways(n) == registered

\* The entries once a reference to n is dropped.
LeftAfterDec(n) == IF count[n] = 1 THEN registered \ {n} ELSE registered

\* HASH_DEL and free: entries that are registered no more keep nothing.
Freed ==
  /\ object_id' = [n \in Nodes |-> IF n \in registered' THEN object_id[n] ELSE 0]
  /\ origin' = [n \in Nodes |-> IF n \in registered' THEN origin[n] ELSE "new"]

\* resource_registry_dec, and with the last reference resource_registry_delete
Dec(n) ==
  /\ search = NoSearch /\ n \in registered
  /\ count' = [count EXCEPT ![n] = @ - 1]
  /\ registered' = LeftAfterDec(n)
  /\ Freed
  /\ UNCHANGED <<id_counter, search>>

\* resource_registry_delete, whatever the count.
Delete(n) ==
  /\ search = NoSearch /\ n \in registered
  /\ registered' = registered \ {n}
  /\ count' = [count EXCEPT ![n] = 0]
  /\ Freed
  /\ UNCHANGED <<id_counter, search>>

Next ==
  \/ \E n \in Nodes : StartInsert(n) \/ Inc(n) \/ Dec(n) \/ Delete(n)
  \/ \E n \in Nodes, id \in 0 .. max_object_id : Insert(n, id)
  \/ Try

Spec == Init /\ [][Next]_vars

\* The search is a loop of one thread.
FairSpec == Spec /\ WF_vars(Try)

-----------------------------------------------------------------------------
\* insert_new_id gives no entry the id of another one: two registered entries
\* share an id only where a caller registered one under an id that was taken.
\* Badges name an object by its id, so a client would otherwise reach the
\* object of another one.
IdsUnique ==
  \A m, n \in registered :
    object_id[m] = object_id[n] => m = n \/ "taken" \in {origin[m], origin[n]}

\* Every registered object has at least one reference, so that the next dec
\* does not wrap its count, and a new id is in range: 0 is what links have and
\* the one above max_object_id is BADGE_OBJ_ID_NULL.
EntriesValid ==
  \A n \in registered : count[n] > 0 /\ (origin[n] = "new" => object_id[n] \in Ids)

\* insert_new_id comes to an end, wherever the counter stands: it finds an id
\* or notices that every id is taken.  The one case in which it does not, and
\* goes round for ever, is that every id is taken and the search started from
\* 0 or 1: it comes to 1 only by wrapping, where the test is not made.
SearchEnds ==
  search.state = "trying" /\ ~(Ids \subseteq Used /\ search.start_id <= 1)
    ~> search.state # "trying"

\* insert_new_id gives up ("Out of IDs") only when it has seen every id taken
\* but the one it started from, wherever that is and however the search wraps.
\* That one it does not look up, so it may be free.
PanicOnlyWhenFull ==
  search.state = "panic" => Ids \ {search.start_id} \subseteq Used
=============================================================================
