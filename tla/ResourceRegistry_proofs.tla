----------------------- MODULE ResourceRegistry_proofs -----------------------
(***************************************************************************)
(* Proofs about the registry, for any number of entries and any            *)
(* max_object_id.                                                          *)
(***************************************************************************)
EXTENDS ResourceRegistry, TLAPS

\* The inductive invariant: an entry that is registered keeps its id, and the
\* search only ever registers the one entry it was called for.
RInv ==
  /\ TypeOK
  /\ IdsUnique
  /\ EntriesValid
  /\ search.state = "trying" => search.node \notin registered

\* What a search has seen taken so far: the ids from the one it started from up
\* to the counter, or round the end up to the counter.
Seen(id) ==
  \/ search.start_id < id /\ id <= id_counter
  \/ id_counter < search.start_id /\ (search.start_id < id \/ id <= id_counter)

\* Nothing is freed while a search runs, so what it has seen taken still is.
SearchInv ==
  /\ search.state = "trying" => \A id \in Ids : Seen(id) => id \in Used
  /\ PanicOnlyWhenFull

\* The initial registry is empty.
LEMMA InitRInv == Init => RInv
  BY RegistryAssumption DEF Init, RInv, TypeOK, IdsUnique, EntriesValid, NoSearch, Searches

\* A turn of the search registers an entry only under an id that is free.
LEMMA TryKeeps ==
  ASSUME RInv, Try
  PROVE  RInv'
  <1>1. /\ TypeOK /\ IdsUnique /\ EntriesValid
        /\ search.state = "trying" /\ search.node \notin registered
    BY DEF RInv, Try
  <1>2. /\ search \in Searches /\ search.node \in Nodes
        /\ search.start_id \in 0 .. max_object_id
    BY <1>1 DEF TypeOK, NoSearch, Searches
  <1>3. NextId \in Ids
    BY <1>1, RegistryAssumption DEF TypeOK, NextId, Ids
  <1>4. id_counter' = NextId
    BY DEF Try
  <1>5. CASE UNCHANGED <<registered, object_id, count, search, origin>>
    BY <1>1, <1>3, <1>4, <1>5 DEF RInv, TypeOK, IdsUnique, EntriesValid, Ids
  <1>6. CASE /\ search' = [search EXCEPT !.state = "panic"]
             /\ UNCHANGED <<registered, object_id, count, origin>>
    <2>1. search' \in Searches /\ search'.state = "panic"
      BY <1>2, <1>6 DEF Searches
    <2> QED
      BY <1>1, <1>3, <1>4, <1>6, <2>1 DEF RInv, TypeOK, IdsUnique, EntriesValid, Ids
  <1>7. CASE /\ Free(NextId)
             /\ registered' = registered \cup {search.node}
             /\ object_id' = [object_id EXCEPT ![search.node] = NextId]
             /\ count' = [count EXCEPT ![search.node] = 1]
             /\ origin' = [origin EXCEPT ![search.node] = "new"]
             /\ search' = NoSearch
    <2> DEFINE x == search.node
    <2>1. /\ x \in Nodes /\ x \notin registered
          /\ \A n \in registered : object_id[n] # NextId
      BY <1>1, <1>2, <1>7 DEF Free, Used
    <2>2. /\ object_id'[x] = NextId /\ count'[x] = 1
          /\ \A n \in registered : /\ object_id'[n] = object_id[n] /\ count'[n] = count[n]
                                  /\ origin'[n] = origin[n]
      BY <1>1, <1>7, <2>1 DEF TypeOK
    <2>3. TypeOK'
      BY <1>1, <1>3, <1>4, <1>7, <2>1 DEF TypeOK, Ids
    <2>4. IdsUnique' /\ EntriesValid'
      BY <1>1, <1>3, <1>7, <2>1, <2>2 DEF IdsUnique, EntriesValid
    <2>5. search'.state # "trying"
      BY <1>7 DEF NoSearch
    <2> QED
      BY <2>3, <2>4, <2>5 DEF RInv
  <1> QED
    BY <1>5, <1>6, <1>7 DEF Try

\* Entries that stay keep their ids when others are freed.
LEMMA RemovalKeeps ==
  ASSUME RInv, search = NoSearch, Freed, UNCHANGED <<id_counter, search>>,
         registered' \subseteq registered, count' \in [Nodes -> Nat],
         \A m \in registered' : count'[m] > 0
  PROVE  RInv'
  <1>1. /\ TypeOK /\ IdsUnique /\ EntriesValid
    BY DEF RInv
  <1>2. \A m \in registered' : object_id'[m] = object_id[m] /\ origin'[m] = origin[m]
    BY <1>1 DEF Freed, TypeOK
  <1>3. /\ object_id' \in [Nodes -> 0 .. max_object_id]
        /\ origin' \in [Nodes -> {"new", "chosen", "taken"}]
    BY <1>1, RegistryAssumption DEF Freed, TypeOK
  <1>4. TypeOK'
    BY <1>1, <1>3 DEF TypeOK
  <1>5. IdsUnique' /\ EntriesValid'
    BY <1>1, <1>2 DEF IdsUnique, EntriesValid
  <1> QED
    BY <1>4, <1>5 DEF RInv, NoSearch

\* Counting references touches no id, and the entry goes with the last one.
LEMMA NextKeepsRInv == RInv /\ [Next]_vars => RInv'
  <1> SUFFICES ASSUME RInv, [Next]_vars PROVE RInv'
    OBVIOUS
  <1>1. /\ TypeOK /\ IdsUnique /\ EntriesValid
        /\ search.state = "trying" => search.node \notin registered
    BY DEF RInv
  <1>2. ASSUME NEW n \in Nodes, StartInsert(n)
        PROVE  RInv'
    <2>1. search' \in Searches /\ search'.node = n
      BY <1>1, <1>2 DEF StartInsert, TypeOK, Searches
    <2> QED
      BY <1>1, <1>2, <2>1 DEF StartInsert, RInv, TypeOK, IdsUnique, EntriesValid
  <1>3. ASSUME NEW n \in Nodes, Inc(n)
        PROVE  RInv'
    <2>1. /\ count' \in [Nodes -> Nat]
          /\ \A m \in registered : count'[m] > 0
      BY <1>1, <1>3 DEF Inc, TypeOK, EntriesValid
    <2> QED
      BY <1>1, <1>3, <2>1 DEF Inc, RInv, TypeOK, IdsUnique, EntriesValid, NoSearch
  <1>4. ASSUME NEW n \in Nodes, Dec(n)
        PROVE  RInv'
    <2>1. /\ n \in registered /\ count[n] \in Nat /\ count[n] > 0
          /\ registered' \subseteq registered /\ Freed
          /\ count[n] = 1 => n \notin registered'
          /\ search = NoSearch /\ UNCHANGED <<id_counter, search>>
      BY <1>1, <1>4 DEF Dec, LeftAfterDec, TypeOK, EntriesValid
    <2>2. /\ count' \in [Nodes -> Nat]
          /\ \A m \in registered' : count'[m] > 0
      BY <1>1, <1>4, <2>1 DEF Dec, TypeOK, EntriesValid
    <2> QED
      BY <1>1, <2>1, <2>2, RemovalKeeps
  <1>5. ASSUME NEW n \in Nodes, Delete(n)
        PROVE  RInv'
    <2>1. /\ count' \in [Nodes -> Nat]
          /\ \A m \in registered' : count'[m] > 0
          /\ registered' \subseteq registered /\ Freed
          /\ search = NoSearch /\ UNCHANGED <<id_counter, search>>
      BY <1>1, <1>5 DEF Delete, TypeOK, EntriesValid
    <2> QED
      BY <1>1, <2>1, RemovalKeeps
  <1>6. CASE Try
    BY <1>6, TryKeeps
  <1>7. ASSUME NEW n \in Nodes, NEW id \in 0 .. max_object_id, Insert(n, id)
        PROVE  RInv'
    <2>1. /\ n \notin registered /\ search = NoSearch
          /\ origin' = [origin EXCEPT ![n] = IF id \in Used THEN "taken" ELSE "chosen"]
      BY <1>7 DEF Insert
    <2>2. /\ object_id'[n] = id /\ count'[n] = 1 /\ origin'[n] # "new"
          /\ origin'[n] = "taken" \/ \A m \in registered : object_id[m] # id
          /\ \A m \in registered : /\ object_id'[m] = object_id[m] /\ count'[m] = count[m]
                                  /\ origin'[m] = origin[m]
      BY <1>1, <1>7, <2>1 DEF Insert, TypeOK, Used
    <2>3. TypeOK'
      BY <1>1, <1>7 DEF Insert, TypeOK, Ids
    <2>4. IdsUnique' /\ EntriesValid'
      BY <1>1, <1>7, <2>1, <2>2 DEF Insert, IdsUnique, EntriesValid
    <2> QED
      BY <1>7, <2>1, <2>3, <2>4 DEF Insert, RInv, NoSearch
  <1>8. CASE UNCHANGED vars
    BY <1>1, <1>8 DEF vars, RInv, TypeOK, IdsUnique, EntriesValid
  <1> QED
    BY <1>2, <1>3, <1>4, <1>5, <1>6, <1>7, <1>8 DEF Next

\* A turn of the search sees one id more; it gives up next to where it started.
LEMMA NextKeepsSearchInv == RInv /\ SearchInv /\ [Next]_vars => SearchInv'
  <1> SUFFICES ASSUME RInv, SearchInv, [Next]_vars PROVE SearchInv'
    OBVIOUS
  <1>1. TypeOK /\ PanicOnlyWhenFull
    BY DEF RInv, SearchInv
  <1>2. CASE Try
    <2>1. /\ search \in Searches /\ search.state = "trying" /\ id_counter' = NextId
          /\ search.start_id \in 0 .. max_object_id /\ id_counter \in 0 .. max_object_id
          /\ \A id \in Ids : Seen(id) => id \in Used
      BY <1>1, <1>2 DEF Try, TypeOK, Searches, NoSearch, SearchInv
    <2>2. CASE /\ GoneRound /\ search' = [search EXCEPT !.state = "panic"]
               /\ UNCHANGED <<registered, object_id, count, origin>>
      <3>1. /\ search'.state = "panic" /\ search'.start_id = search.start_id /\ Used' = Used
        BY <2>1, <2>2 DEF Searches, Used
      <3>2. id_counter + 1 = search.start_id
        BY <2>1, <2>2, RegistryAssumption DEF GoneRound, NextId
      <3>3. \A id \in Ids \ {search.start_id} : Seen(id)
        BY <2>1, <3>2, RegistryAssumption DEF Seen, Ids
      <3> QED
        BY <2>1, <3>1, <3>3 DEF SearchInv, PanicOnlyWhenFull, Ids
    <2>3. CASE /\ ~GoneRound /\ ~Free(NextId)
               /\ UNCHANGED <<registered, object_id, count, search, origin>>
      <3>1. NextId \in Used /\ Used' = Used
        BY <2>3 DEF Free, Used
      <3>2. \A id \in Ids : Seen(id)' => Seen(id) \/ id = NextId
        BY <2>1, <2>3, RegistryAssumption DEF Seen, NextId, Ids, GoneRound
      <3> QED
        BY <2>1, <2>3, <3>1, <3>2 DEF SearchInv, PanicOnlyWhenFull, Ids
    <2>4. CASE search' = NoSearch
      BY <2>4 DEF SearchInv, PanicOnlyWhenFull, NoSearch
    <2> QED
      BY <1>2, <2>2, <2>3, <2>4 DEF Try
  <1>3. ASSUME NEW n \in Nodes, StartInsert(n)
        PROVE  SearchInv'
    <2>1. /\ search'.state = "trying" /\ search'.start_id = id_counter
          /\ id_counter' = id_counter /\ id_counter \in 0 .. max_object_id
      BY <1>1, <1>3 DEF StartInsert, TypeOK
    <2>2. \A id \in Ids : ~Seen(id)'
      BY <2>1, RegistryAssumption DEF Seen, Ids
    <2> QED
      BY <2>1, <2>2 DEF SearchInv, PanicOnlyWhenFull, Ids
  <1>4. CASE search' = NoSearch
    BY <1>4 DEF SearchInv, PanicOnlyWhenFull, NoSearch
  <1>5. CASE UNCHANGED vars
    BY <1>5 DEF vars, SearchInv, PanicOnlyWhenFull, Seen, Used, Ids
  <1> QED
    BY <1>2, <1>3, <1>4, <1>5 DEF Next, Insert, Inc, Dec, Delete

-----------------------------------------------------------------------------
\* The inductive invariant holds in every reachable state.
THEOREM RegistryInvariance == Spec => []RInv
  BY InitRInv, NextKeepsRInv, PTL DEF Spec

\* Ids stay below the bound of the registry and counts are never negative,
\* although a search for an id wraps round and counts go down.
THEOREM RegistryTypeCorrect == Spec => []TypeOK
  <1>1. RInv => TypeOK
    BY DEF RInv
  <1> QED
    BY <1>1, RegistryInvariance, PTL

\* resource_registry_insert_new_id never gives an object the id of a registered
\* one, also when callers register entries under ids of their own: whatever
\* shares an id was registered by resource_registry_insert under a taken one.
THEOREM RegistryIdsUnique == Spec => []IdsUnique
  <1>1. RInv => IdsUnique
    BY DEF RInv
  <1> QED
    BY <1>1, RegistryInvariance, PTL

\* Registered objects have positive reference counts, and the ids that
\* resource_registry_insert_new_id gives out are in range.
THEOREM RegistryEntriesValid == Spec => []EntriesValid
  <1>1. RInv => EntriesValid
    BY DEF RInv
  <1> QED
    BY <1>1, RegistryInvariance, PTL

\* The search gives up only after it has seen every id taken but the one that it
\* started from, for every maximal id and wherever it starts.
THEOREM RegistryPanicsWhenFull == Spec => []PanicOnlyWhenFull
  <1>1. Init => SearchInv
    BY DEF Init, SearchInv, PanicOnlyWhenFull, NoSearch
  <1>2. SearchInv => PanicOnlyWhenFull
    BY DEF SearchInv
  <1> QED
    BY <1>1, <1>2, NextKeepsSearchInv, RegistryInvariance, PTL DEF Spec
=============================================================================
