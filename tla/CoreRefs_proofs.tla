--------------------------- MODULE CoreRefs_proofs ---------------------------
(***************************************************************************)
(* Proofs about CoreRefs, for any sets of PDs and objects and any number   *)
(* of requests: apart from the requests that CoreRefs names, the count of  *)
(* an object is the number of references to it, through every chain of     *)
(* destructions.                                                           *)
(***************************************************************************)
EXTENDS CoreRefs, FiniteSetTheorems, TLAPS

-----------------------------------------------------------------------------
(* Counting elements *)

One(b) == IF b THEN 1 ELSE 0

\* Two sets that agree but for x.
LEMMA CardMove ==
  ASSUME NEW A, NEW B, NEW x, IsFiniteSet(A), IsFiniteSet(B), A \ {x} = B \ {x}
  PROVE  /\ Cardinality(A) \in Nat /\ Cardinality(B) \in Nat
         /\ Cardinality(B) + One(x \in A) = Cardinality(A) + One(x \in B)
  <1>1. Cardinality(A) \in Nat /\ Cardinality(B) \in Nat
    BY FS_CardinalityType
  <1>2. Cardinality(A \ {x}) = IF x \in A THEN Cardinality(A) - 1 ELSE Cardinality(A)
    BY FS_RemoveElement
  <1>3. Cardinality(B \ {x}) = IF x \in B THEN Cardinality(B) - 1 ELSE Cardinality(B)
    BY FS_RemoveElement
  <1> QED
    BY <1>1, <1>2, <1>3 DEF One

\* A set that is split in two.
LEMMA CardSplit ==
  ASSUME NEW S, NEW A, NEW B, IsFiniteSet(S), S = A \cup B, A \cap B = {}
  PROVE  /\ Cardinality(A) \in Nat /\ Cardinality(B) \in Nat
         /\ Cardinality(S) = Cardinality(A) + Cardinality(B)
  <1>1. IsFiniteSet(A) /\ IsFiniteSet(B)
    BY FS_Subset
  <1>2. Cardinality(A) \in Nat /\ Cardinality(B) \in Nat
    BY <1>1, FS_CardinalityType
  <1>3. Cardinality(A \cap B) = 0
    BY FS_EmptySet
  <1>4. Cardinality(A \cup B) = Cardinality(A) + Cardinality(B) - Cardinality(A \cap B)
    BY <1>1, FS_Union
  <1> QED
    BY <1>2, <1>3, <1>4

-----------------------------------------------------------------------------
(* The sets *)

\* The constants.
LEMMA Sets ==
  /\ IsFiniteSet(PDs) /\ IsFiniteSet(CPUs) /\ IsFiniteSet(Regions)
  /\ MOs \subseteq Objects /\ ADSs \subseteq Objects /\ CPUs \subseteq Objects
  /\ EPs \subseteq Objects
  /\ None \notin Objects /\ Reserved \notin Objects /\ Reserved # None
  /\ \A x \in MOs : x \notin ADSs /\ x \notin CPUs /\ x \notin EPs
  /\ \A x \in ADSs : x \notin MOs /\ x \notin CPUs /\ x \notin EPs
  /\ \A x \in CPUs : x \notin MOs /\ x \notin ADSs /\ x \notin EPs
  /\ \A r \in Regions : r[1] \in ADSs /\ r[1] \in Objects
  <1>1. IsFiniteSet(PDs) /\ IsFiniteSet(CPUs) /\ IsFiniteSet(ADSs) /\ IsFiniteSet(Vaddrs)
    BY CoreRefsAssumption
  <1>2. IsFiniteSet(Regions)
    BY <1>1, FS_Product DEF Regions
  <1>3. /\ MOs \subseteq Objects /\ ADSs \subseteq Objects /\ CPUs \subseteq Objects
        /\ EPs \subseteq Objects
        /\ \A r \in Regions : r[1] \in ADSs /\ r[1] \in Objects
    BY DEF Objects, Regions
  <1>4. /\ None \notin Objects /\ Reserved \notin Objects /\ Reserved # None
        /\ MOs \cap ADSs = {} /\ CPUs \cap EPs = {} /\ (MOs \cup ADSs) \cap (CPUs \cup EPs) = {}
    BY CoreRefsAssumption
  <1>5. /\ \A x \in MOs : x \notin ADSs /\ x \notin CPUs /\ x \notin EPs
        /\ \A x \in ADSs : x \notin MOs /\ x \notin CPUs /\ x \notin EPs
        /\ \A x \in CPUs : x \notin MOs /\ x \notin ADSs /\ x \notin EPs
    BY <1>4
  <1> QED
    BY <1>1, <1>2, <1>3, <1>4, <1>5

\* The parts of a state of the registries.
LEMMA CoreTypes ==
  ASSUME NEW s \in Core
  PROVE  /\ s.count \in [Objects -> Nat]
         /\ s.attach \in [Regions -> MOs \cup {None, Reserved}]
         /\ s.ipc_buf_mo \in [CPUs -> MOs \cup {None}]
         /\ s.binded_ads_id \in [CPUs -> ADSs \cup {None}]
         /\ \A o \in Objects : s.count[o] \in Nat
         /\ s = [count |-> s.count, attach |-> s.attach, ipc_buf_mo |-> s.ipc_buf_mo,
                 binded_ads_id |-> s.binded_ads_id]
  BY DEF Core

\* References from the registered objects of s to o.
RegionRefs(s, o) == {r \in Regions : s.count[r[1]] > 0 /\ s.attach[r] = o}
BufferRefs(s, o) == {c \in CPUs : s.count[c] > 0 /\ s.ipc_buf_mo[c] = o}
BindRefs(s, o)   == {c \in CPUs : s.count[c] > 0 /\ s.binded_ads_id[c] = o}
CoreCount(s, o) ==
  Cardinality(RegionRefs(s, o)) + Cardinality(BufferRefs(s, o)) + Cardinality(BindRefs(s, o))

\* The objects of F were not allocated yet, and s has no trace of them.
Untouched(s, F) ==
  \A o \in F :
    /\ s.count[o] = 0
    /\ \A r \in Regions : s.attach[r] # o /\ (r[1] = o => s.attach[r] = None)
    /\ \A c \in CPUs : /\ s.ipc_buf_mo[c] # o /\ s.binded_ads_id[c] # o
                       /\ c = o => s.ipc_buf_mo[c] = None /\ s.binded_ads_id[c] = None

LEMMA RefSets ==
  ASSUME NEW s, NEW o
  PROVE  /\ IsFiniteSet(RegionRefs(s, o)) /\ IsFiniteSet(BufferRefs(s, o))
         /\ IsFiniteSet(BindRefs(s, o))
         /\ Cardinality(RegionRefs(s, o)) \in Nat /\ Cardinality(BufferRefs(s, o)) \in Nat
         /\ Cardinality(BindRefs(s, o)) \in Nat /\ CoreCount(s, o) \in Nat
  <1>1. /\ RegionRefs(s, o) \in SUBSET Regions /\ BufferRefs(s, o) \in SUBSET CPUs
        /\ BindRefs(s, o) \in SUBSET CPUs
    BY DEF RegionRefs, BufferRefs, BindRefs
  <1>2. /\ IsFiniteSet(RegionRefs(s, o)) /\ IsFiniteSet(BufferRefs(s, o))
        /\ IsFiniteSet(BindRefs(s, o))
    BY <1>1, Sets, FS_Subset
  <1>3. /\ Cardinality(RegionRefs(s, o)) \in Nat /\ Cardinality(BufferRefs(s, o)) \in Nat
        /\ Cardinality(BindRefs(s, o)) \in Nat
    BY <1>2, FS_CardinalityType
  <1> QED
    BY <1>2, <1>3 DEF CoreCount

-----------------------------------------------------------------------------
(* Operations on the registries *)

\* References stay as they are while the same objects are registered.
LEMMA SameRefs ==
  ASSUME NEW s \in Core, NEW t \in Core, t.attach = s.attach,
         t.ipc_buf_mo = s.ipc_buf_mo, t.binded_ads_id = s.binded_ads_id,
         \A o \in ADSs \cup CPUs : t.count[o] > 0 <=> s.count[o] > 0
  PROVE  \A x : CoreCount(t, x) = CoreCount(s, x)
  <1> TAKE x
  <1>1. RegionRefs(t, x) = RegionRefs(s, x)
    BY Sets DEF RegionRefs
  <1>2. BufferRefs(t, x) = BufferRefs(s, x) /\ BindRefs(t, x) = BindRefs(s, x)
    BY DEF BufferRefs, BindRefs
  <1> QED
    BY <1>1, <1>2 DEF CoreCount

\* resource_component_inc
LEMMA IncEffect ==
  ASSUME NEW s \in Core, NEW o \in Objects
  PROVE  LET t == Inc(s, o) IN
         /\ t \in Core
         /\ \A x \in Objects : t.count[x] = s.count[x] + One(x = o /\ s.count[o] > 0)
         /\ \A x : CoreCount(t, x) = CoreCount(s, x)
         /\ \A F \in SUBSET Objects : Untouched(s, F) => Untouched(t, F)
         /\ t.attach = s.attach /\ t.ipc_buf_mo = s.ipc_buf_mo
         /\ t.binded_ads_id = s.binded_ads_id
  <1> DEFINE t == Inc(s, o)
  <1>1. /\ t \in Core
        /\ t.attach = s.attach /\ t.ipc_buf_mo = s.ipc_buf_mo
        /\ t.binded_ads_id = s.binded_ads_id
    BY DEF Inc, Core
  <1>2. \A x \in Objects : t.count[x] = s.count[x] + One(x = o /\ s.count[o] > 0)
    BY CoreTypes DEF Inc, Core, One
  <1> HIDE DEF t
  <1>3. \A x \in Objects : t.count[x] > 0 <=> s.count[x] > 0
    BY <1>2, CoreTypes DEF One
  <1>4. \A x : CoreCount(t, x) = CoreCount(s, x)
    BY <1>1, <1>3, SameRefs, Sets
  <1>5. ASSUME NEW F \in SUBSET Objects, Untouched(s, F)
        PROVE  Untouched(t, F)
    <2>1. \A x \in F : t.count[x] = 0
      BY <1>1, <1>3, <1>5, CoreTypes DEF Untouched
    <2> QED
      BY <1>1, <1>5, <2>1 DEF Untouched
  <1> QED
    BY <1>1, <1>2, <1>4, <1>5 DEF t

\* t is s with the object o registered
Registering(s, t, o) ==
  /\ t.attach = s.attach /\ t.ipc_buf_mo = s.ipc_buf_mo /\ t.binded_ads_id = s.binded_ads_id
  /\ \A x \in Objects : x # o => t.count[x] = s.count[x]

\* An object is registered, and nothing refers to it or from it yet.
LEMMA RegisterEffect ==
  ASSUME NEW s \in Core, NEW F \in SUBSET Objects, NEW o \in F, Untouched(s, F),
         NEW t \in Core, Registering(s, t, o)
  PROVE  /\ s.count[o] = 0 /\ CoreCount(s, o) = 0
         /\ \A x \in Objects : CoreCount(t, x) = CoreCount(s, x)
         /\ Untouched(t, F \ {o})
  <1>1. /\ t.attach = s.attach /\ t.ipc_buf_mo = s.ipc_buf_mo
        /\ t.binded_ads_id = s.binded_ads_id
    BY DEF Registering
  <1>2. s.count[o] = 0 /\ \A x \in Objects : x # o => t.count[x] = s.count[x]
    BY CoreTypes DEF Registering, Untouched
  <1>3. \A x \in Objects : x # o => (t.count[x] > 0 <=> s.count[x] > 0)
    BY <1>2, CoreTypes
  <1>4. ASSUME NEW x \in Objects
        PROVE  CoreCount(t, x) = CoreCount(s, x)
    <2>1. RegionRefs(t, x) = RegionRefs(s, x)
      <3>1. ASSUME NEW r \in Regions
            PROVE  r \in RegionRefs(t, x) <=> r \in RegionRefs(s, x)
        <4>1. CASE r[1] = o
          BY <1>1, <4>1, Sets DEF RegionRefs, Untouched
        <4>2. CASE r[1] # o
          BY <1>1, <1>3, <4>2, Sets DEF RegionRefs
        <4> QED
          BY <4>1, <4>2
      <3> QED
        BY <3>1 DEF RegionRefs
    <2>2. ASSUME NEW c \in CPUs
          PROVE  /\ c \in BufferRefs(t, x) <=> c \in BufferRefs(s, x)
                 /\ c \in BindRefs(t, x) <=> c \in BindRefs(s, x)
      <3>1. CASE c = o
        BY <1>1, <3>1, Sets DEF BufferRefs, BindRefs, Untouched
      <3>2. CASE c # o
        BY <1>1, <1>3, <3>2, Sets DEF BufferRefs, BindRefs
      <3> QED
        BY <3>1, <3>2
    <2>3. BufferRefs(t, x) = BufferRefs(s, x) /\ BindRefs(t, x) = BindRefs(s, x)
      BY <2>2 DEF BufferRefs, BindRefs
    <2> QED
      BY <2>1, <2>3 DEF CoreCount
  <1>5. Untouched(t, F \ {o})
    <2>1. \A x \in F \ {o} : t.count[x] = 0
      BY <1>2, CoreTypes DEF Untouched
    <2> QED
      BY <1>1, <2>1 DEF Untouched
  <1>6. CoreCount(s, o) = 0
    <2>1. RegionRefs(s, o) = {} /\ BufferRefs(s, o) = {} /\ BindRefs(s, o) = {}
      BY DEF RegionRefs, BufferRefs, BindRefs, Untouched
    <2> QED
      BY <2>1, FS_EmptySet DEF CoreCount
  <1> QED
    BY <1>1, <1>2, <1>4, <1>5, <1>6

\* A region of a registered ADS gets another MO, or none.
LEMMA SetAttachEffect ==
  ASSUME NEW s \in Core, NEW r \in Regions, NEW m \in MOs \cup {None, Reserved},
         s.count[r[1]] > 0
  PROVE  LET t == [s EXCEPT !.attach[r] = m] IN
         /\ t \in Core /\ t.count = s.count
         /\ \A x \in Objects : CoreCount(t, x) + One(s.attach[r] = x) = CoreCount(s, x) + One(m = x)
         /\ \A F \in SUBSET Objects : m \notin F /\ Untouched(s, F) => Untouched(t, F)
  <1> DEFINE t == [s EXCEPT !.attach[r] = m]
  <1>1. /\ t \in Core /\ t.count = s.count /\ t.ipc_buf_mo = s.ipc_buf_mo
        /\ t.binded_ads_id = s.binded_ads_id
        /\ \A y \in Regions : t.attach[y] = IF y = r THEN m ELSE s.attach[y]
    BY DEF Core
  <1> HIDE DEF t
  <1>2. ASSUME NEW x \in Objects
        PROVE  CoreCount(t, x) + One(s.attach[r] = x) = CoreCount(s, x) + One(m = x)
    <2>1. BufferRefs(t, x) = BufferRefs(s, x) /\ BindRefs(t, x) = BindRefs(s, x)
      BY <1>1 DEF BufferRefs, BindRefs
    <2>2. RegionRefs(t, x) \ {r} = RegionRefs(s, x) \ {r}
      BY <1>1 DEF RegionRefs
    <2>3. (r \in RegionRefs(t, x) <=> m = x) /\ (r \in RegionRefs(s, x) <=> s.attach[r] = x)
      BY <1>1 DEF RegionRefs
    <2>4. Cardinality(RegionRefs(t, x)) + One(r \in RegionRefs(s, x))
            = Cardinality(RegionRefs(s, x)) + One(r \in RegionRefs(t, x))
      BY <2>2, RefSets, CardMove
    <2>5. /\ Cardinality(RegionRefs(t, x)) \in Nat /\ Cardinality(RegionRefs(s, x)) \in Nat
          /\ Cardinality(BufferRefs(s, x)) \in Nat /\ Cardinality(BindRefs(s, x)) \in Nat
      BY RefSets
    <2> QED
      BY <2>1, <2>3, <2>4, <2>5 DEF CoreCount, One
  <1>3. ASSUME NEW F \in SUBSET Objects, m \notin F, Untouched(s, F)
        PROVE  Untouched(t, F)
    <2>1. r[1] \notin F
      BY <1>3, CoreTypes, Sets DEF Untouched
    <2> QED
      BY <1>1, <1>3, <2>1 DEF Untouched
  <1> QED
    BY <1>1, <1>2, <1>3 DEF t

\* The IPC buffer of a registered CPU is set.
LEMMA SetBufferEffect ==
  ASSUME NEW s \in Core, NEW c \in CPUs, NEW m \in MOs \cup {None}, s.count[c] > 0
  PROVE  LET t == [s EXCEPT !.ipc_buf_mo[c] = m] IN
         /\ t \in Core /\ t.count = s.count /\ t.binded_ads_id = s.binded_ads_id
         /\ \A x \in Objects :
              CoreCount(t, x) + One(s.ipc_buf_mo[c] = x) = CoreCount(s, x) + One(m = x)
         /\ \A F \in SUBSET Objects : m \notin F /\ Untouched(s, F) => Untouched(t, F)
  <1> DEFINE t == [s EXCEPT !.ipc_buf_mo[c] = m]
  <1>1. /\ t \in Core /\ t.count = s.count /\ t.attach = s.attach
        /\ t.binded_ads_id = s.binded_ads_id
        /\ \A y \in CPUs : t.ipc_buf_mo[y] = IF y = c THEN m ELSE s.ipc_buf_mo[y]
    BY DEF Core
  <1> HIDE DEF t
  <1>2. ASSUME NEW x \in Objects
        PROVE  CoreCount(t, x) + One(s.ipc_buf_mo[c] = x) = CoreCount(s, x) + One(m = x)
    <2>1. RegionRefs(t, x) = RegionRefs(s, x) /\ BindRefs(t, x) = BindRefs(s, x)
      BY <1>1 DEF RegionRefs, BindRefs
    <2>2. BufferRefs(t, x) \ {c} = BufferRefs(s, x) \ {c}
      BY <1>1 DEF BufferRefs
    <2>3. (c \in BufferRefs(t, x) <=> m = x) /\ (c \in BufferRefs(s, x) <=> s.ipc_buf_mo[c] = x)
      BY <1>1 DEF BufferRefs
    <2>4. Cardinality(BufferRefs(t, x)) + One(c \in BufferRefs(s, x))
            = Cardinality(BufferRefs(s, x)) + One(c \in BufferRefs(t, x))
      BY <2>2, RefSets, CardMove
    <2>5. /\ Cardinality(BufferRefs(t, x)) \in Nat /\ Cardinality(BufferRefs(s, x)) \in Nat
          /\ Cardinality(RegionRefs(s, x)) \in Nat /\ Cardinality(BindRefs(s, x)) \in Nat
      BY RefSets
    <2> QED
      BY <2>1, <2>3, <2>4, <2>5 DEF CoreCount, One
  <1>3. ASSUME NEW F \in SUBSET Objects, m \notin F, Untouched(s, F)
        PROVE  Untouched(t, F)
    <2>1. c \notin F
      BY <1>3, CoreTypes, Sets DEF Untouched
    <2> QED
      BY <1>1, <1>3, <2>1 DEF Untouched
  <1> QED
    BY <1>1, <1>2, <1>3 DEF t

\* The ADS of a registered CPU is set.
LEMMA SetBindEffect ==
  ASSUME NEW s \in Core, NEW c \in CPUs, NEW a \in ADSs \cup {None}, s.count[c] > 0
  PROVE  LET t == [s EXCEPT !.binded_ads_id[c] = a] IN
         /\ t \in Core /\ t.count = s.count
         /\ \A x \in Objects :
              CoreCount(t, x) + One(s.binded_ads_id[c] = x) = CoreCount(s, x) + One(a = x)
         /\ \A F \in SUBSET Objects : a \notin F /\ Untouched(s, F) => Untouched(t, F)
         /\ t.binded_ads_id[c] = a
  <1> DEFINE t == [s EXCEPT !.binded_ads_id[c] = a]
  <1>1. /\ t \in Core /\ t.count = s.count /\ t.attach = s.attach
        /\ t.ipc_buf_mo = s.ipc_buf_mo
        /\ \A y \in CPUs : t.binded_ads_id[y] = IF y = c THEN a ELSE s.binded_ads_id[y]
    BY DEF Core
  <1> HIDE DEF t
  <1>2. ASSUME NEW x \in Objects
        PROVE  CoreCount(t, x) + One(s.binded_ads_id[c] = x) = CoreCount(s, x) + One(a = x)
    <2>1. RegionRefs(t, x) = RegionRefs(s, x) /\ BufferRefs(t, x) = BufferRefs(s, x)
      BY <1>1 DEF RegionRefs, BufferRefs
    <2>2. BindRefs(t, x) \ {c} = BindRefs(s, x) \ {c}
      BY <1>1 DEF BindRefs
    <2>3. (c \in BindRefs(t, x) <=> a = x) /\ (c \in BindRefs(s, x) <=> s.binded_ads_id[c] = x)
      BY <1>1 DEF BindRefs
    <2>4. Cardinality(BindRefs(t, x)) + One(c \in BindRefs(s, x))
            = Cardinality(BindRefs(s, x)) + One(c \in BindRefs(t, x))
      BY <2>2, RefSets, CardMove
    <2>5. /\ Cardinality(BindRefs(t, x)) \in Nat /\ Cardinality(BindRefs(s, x)) \in Nat
          /\ Cardinality(RegionRefs(s, x)) \in Nat /\ Cardinality(BufferRefs(s, x)) \in Nat
      BY RefSets
    <2> QED
      BY <2>1, <2>3, <2>4, <2>5 DEF CoreCount, One
  <1>3. ASSUME NEW F \in SUBSET Objects, a \notin F, Untouched(s, F)
        PROVE  Untouched(t, F)
    <2>1. c \notin F
      BY <1>3, CoreTypes, Sets DEF Untouched
    <2> QED
      BY <1>1, <1>3, <2>1 DEF Untouched
  <1> QED
    BY <1>1, <1>2, <1>3 DEF t

\* resource_component_dec with all that it destroys: gone is what each object
\* loses with the references that are dropped in turn.
LEMMA DropEffect ==
  ASSUME NEW s \in Core, NEW times \in [Objects -> Nat]
  PROVE  LET t == Dropped(s, times) IN
         /\ t \in Core
         /\ \E gone \in [Objects -> Nat] :
              /\ \A x \in Objects : t.count[x] = CountAfter(s.count[x], times[x] + gone[x])
              /\ \A x \in Objects : CoreCount(t, x) + gone[x] = CoreCount(s, x)
              /\ \A x \in CPUs : gone[x] = 0
         /\ \A F \in SUBSET Objects : Untouched(s, F) => Untouched(t, F)
         /\ (\A c \in CPUs : times[c] = 0) =>
              t.ipc_buf_mo = s.ipc_buf_mo /\ t.binded_ads_id = s.binded_ads_id
  <1> DEFINE Gone(S, n) == {o \in S : s.count[o] > 0 /\ s.count[o] <= n[o]}
             cpus == Gone(CPUs, times)
             Bound(x) == {c \in cpus : s.binded_ads_id[c] = x}
             Used(x) == {c \in cpus : s.ipc_buf_mo[c] = x}
             adsTimes == [a \in ADSs |-> times[a] + Cardinality(Bound(a))]
             regions == RegionsOf(Gone(ADSs, adsTimes))
             Mapped(x) == {r \in regions : s.attach[r] = x}
             moTimes == [m \in MOs |-> times[m] + Cardinality(Used(m)) + Cardinality(Mapped(m))]
             total == [o \in Objects |-> CASE o \in ADSs -> adsTimes[o] [] o \in MOs -> moTimes[o]
                                           [] OTHER -> times[o]]
             t == Dropped(s, times)
             gone == [x \in Objects |-> Cardinality(Mapped(x)) + Cardinality(Used(x))
                                          + Cardinality(Bound(x))]
  <1>1. t = [count |-> [o \in Objects |-> CountAfter(s.count[o], total[o])],
             attach |-> [r \in Regions |-> IF r \in regions THEN None ELSE s.attach[r]],
             ipc_buf_mo |-> [c \in CPUs |-> IF c \in cpus THEN None ELSE s.ipc_buf_mo[c]],
             binded_ads_id |-> [c \in CPUs |-> IF c \in cpus THEN None ELSE s.binded_ads_id[c]]]
    BY DEF Dropped
  <1>2. /\ cpus \subseteq CPUs /\ regions \subseteq Regions
        /\ \A r \in Regions : r \in regions <=>
             s.count[r[1]] > 0 /\ s.count[r[1]] <= adsTimes[r[1]]
    BY DEF RegionsOf, Regions
  <1>3. ASSUME NEW x
        PROVE  /\ IsFiniteSet(Bound(x)) /\ IsFiniteSet(Used(x)) /\ IsFiniteSet(Mapped(x))
               /\ Cardinality(Bound(x)) \in Nat /\ Cardinality(Used(x)) \in Nat
               /\ Cardinality(Mapped(x)) \in Nat
    <2>1. Bound(x) \in SUBSET CPUs /\ Used(x) \in SUBSET CPUs /\ Mapped(x) \in SUBSET Regions
      BY <1>2
    <2>2. IsFiniteSet(Bound(x)) /\ IsFiniteSet(Used(x)) /\ IsFiniteSet(Mapped(x))
      BY <2>1, Sets, FS_Subset
    <2> QED
      BY <2>2, FS_CardinalityType
  <1>4. ASSUME NEW x \in Objects
        PROVE  /\ x \notin ADSs => Bound(x) = {}
               /\ x \notin MOs => Used(x) = {} /\ Mapped(x) = {}
    <2>1. x # None /\ x # Reserved
      BY Sets
    <2>2. /\ \A c \in CPUs : s.binded_ads_id[c] \in ADSs \cup {None}
          /\ \A c \in CPUs : s.ipc_buf_mo[c] \in MOs \cup {None}
          /\ \A r \in Regions : s.attach[r] \in MOs \cup {None, Reserved}
      BY CoreTypes
    <2> HIDE DEF cpus, regions
    <2> QED
      BY <1>2, <2>1, <2>2
  <1>5. gone \in [Objects -> Nat]
    <2>1. ASSUME NEW x \in Objects
          PROVE  Cardinality(Mapped(x)) + Cardinality(Used(x)) + Cardinality(Bound(x)) \in Nat
      <3>1. /\ Cardinality(Bound(x)) \in Nat /\ Cardinality(Used(x)) \in Nat
            /\ Cardinality(Mapped(x)) \in Nat
        BY <1>3
      <3> HIDE DEF Bound, Used, Mapped
      <3> QED
        BY <3>1
    <2> HIDE DEF Bound, Used, Mapped
    <2> QED
      BY <2>1
  <1>6. ASSUME NEW x \in Objects
        PROVE  total[x] = times[x] + gone[x] /\ total[x] \in Nat
    <2>1. /\ Cardinality(Bound(x)) \in Nat /\ Cardinality(Used(x)) \in Nat
          /\ Cardinality(Mapped(x)) \in Nat /\ times[x] \in Nat
      BY <1>3
    <2>2. gone[x] = Cardinality(Mapped(x)) + Cardinality(Used(x)) + Cardinality(Bound(x))
      OBVIOUS
    <2>3. CASE x \in ADSs
      <3>1. total[x] = times[x] + Cardinality(Bound(x))
        BY <2>3, Sets
      <3>2. Cardinality(Used(x)) = 0 /\ Cardinality(Mapped(x)) = 0
        BY <2>3, <1>4, Sets, FS_EmptySet
      <3> QED
        BY <2>1, <2>2, <3>1, <3>2
    <2>4. CASE x \in MOs
      <3>1. total[x] = times[x] + Cardinality(Used(x)) + Cardinality(Mapped(x))
        BY <2>4, Sets
      <3>2. Cardinality(Bound(x)) = 0
        BY <2>4, <1>4, Sets, FS_EmptySet
      <3> QED
        BY <2>1, <2>2, <3>1, <3>2
    <2>5. CASE x \notin ADSs /\ x \notin MOs
      <3>1. total[x] = times[x]
        BY <2>5
      <3>2. /\ Cardinality(Bound(x)) = 0 /\ Cardinality(Used(x)) = 0
            /\ Cardinality(Mapped(x)) = 0
        BY <2>5, <1>4, FS_EmptySet
      <3> QED
        BY <2>1, <2>2, <3>1, <3>2
    <2> QED
      BY <2>3, <2>4, <2>5
  <1>7. \A x \in CPUs : gone[x] = 0
    <2>1. ASSUME NEW x \in CPUs PROVE gone[x] = 0
      <3>1. /\ Cardinality(Bound(x)) = 0 /\ Cardinality(Used(x)) = 0
            /\ Cardinality(Mapped(x)) = 0 /\ x \in Objects
        BY <1>4, Sets, FS_EmptySet
      <3> QED
        BY <3>1
    <2> QED
      BY <2>1
  <1>8. \A x \in ADSs : adsTimes[x] = total[x]
    BY Sets
  <1>9. \A x \in Objects : s.count[x] \in Nat
    BY CoreTypes
  <1> HIDE DEF total, gone, adsTimes, moTimes
  <1>10. \A x \in Objects : t.count[x] = CountAfter(s.count[x], times[x] + gone[x])
    BY <1>1, <1>6
  <1>11. \A x \in Objects : /\ t.count[x] \in Nat
                            /\ t.count[x] > 0 <=> s.count[x] > 0 /\ ~(s.count[x] <= total[x])
    BY <1>1, <1>6, <1>9 DEF CountAfter
  <1>12. t \in Core
    <2>1. [o \in Objects |-> CountAfter(s.count[o], total[o])] \in [Objects -> Nat]
      BY <1>1, <1>11
    <2>2. [r \in Regions |-> IF r \in regions THEN None ELSE s.attach[r]]
            \in [Regions -> MOs \cup {None, Reserved}]
      BY CoreTypes
    <2>3. [c \in CPUs |-> IF c \in cpus THEN None ELSE s.ipc_buf_mo[c]]
            \in [CPUs -> MOs \cup {None}]
      BY CoreTypes
    <2>4. [c \in CPUs |-> IF c \in cpus THEN None ELSE s.binded_ads_id[c]]
            \in [CPUs -> ADSs \cup {None}]
      BY CoreTypes
    <2> QED
      BY <1>1, <2>1, <2>2, <2>3, <2>4 DEF Core
  <1>13. /\ \A r \in Regions : t.attach[r] = IF r \in regions THEN None ELSE s.attach[r]
         /\ \A c \in CPUs : t.ipc_buf_mo[c] = IF c \in cpus THEN None ELSE s.ipc_buf_mo[c]
         /\ \A c \in CPUs : t.binded_ads_id[c] = IF c \in cpus THEN None ELSE s.binded_ads_id[c]
    BY <1>1
  <1>14. \A c \in CPUs : c \in cpus <=> s.count[c] > 0 /\ s.count[c] <= total[c]
    BY <1>5, <1>6, <1>7, Sets
  <1>15. \A r \in Regions : r \in regions <=> s.count[r[1]] > 0 /\ s.count[r[1]] <= total[r[1]]
    BY <1>2, <1>8, Sets
  <1> HIDE DEF t, regions, cpus
  <1>16. ASSUME NEW x \in Objects
         PROVE  CoreCount(t, x) + gone[x] = CoreCount(s, x)
    <2>1. x # None
      BY Sets
    <2>2. RegionRefs(s, x) = RegionRefs(t, x) \cup Mapped(x) /\ RegionRefs(t, x) \cap Mapped(x) = {}
      BY <2>1, <1>2, <1>11, <1>13, <1>15, Sets DEF RegionRefs
    <2>3. BufferRefs(s, x) = BufferRefs(t, x) \cup Used(x) /\ BufferRefs(t, x) \cap Used(x) = {}
      BY <2>1, <1>2, <1>11, <1>13, <1>14, Sets DEF BufferRefs
    <2>4. BindRefs(s, x) = BindRefs(t, x) \cup Bound(x) /\ BindRefs(t, x) \cap Bound(x) = {}
      BY <2>1, <1>2, <1>11, <1>13, <1>14, Sets DEF BindRefs
    <2>5. gone[x] = Cardinality(Mapped(x)) + Cardinality(Used(x)) + Cardinality(Bound(x))
      BY DEF gone
    <2> HIDE DEF Mapped, Used, Bound
    <2>6. /\ Cardinality(RegionRefs(t, x)) \in Nat /\ Cardinality(Mapped(x)) \in Nat
          /\ Cardinality(RegionRefs(s, x)) = Cardinality(RegionRefs(t, x)) + Cardinality(Mapped(x))
      <3>1. IsFiniteSet(RegionRefs(s, x))
        BY RefSets
      <3> QED
        BY <2>2, <3>1, CardSplit
    <2>7. /\ Cardinality(BufferRefs(t, x)) \in Nat /\ Cardinality(Used(x)) \in Nat
          /\ Cardinality(BufferRefs(s, x)) = Cardinality(BufferRefs(t, x)) + Cardinality(Used(x))
      <3>1. IsFiniteSet(BufferRefs(s, x))
        BY RefSets
      <3> QED
        BY <2>3, <3>1, CardSplit
    <2>8. /\ Cardinality(BindRefs(t, x)) \in Nat /\ Cardinality(Bound(x)) \in Nat
          /\ Cardinality(BindRefs(s, x)) = Cardinality(BindRefs(t, x)) + Cardinality(Bound(x))
      <3>1. IsFiniteSet(BindRefs(s, x))
        BY RefSets
      <3> QED
        BY <2>4, <3>1, CardSplit
    <2> QED
      BY <2>5, <2>6, <2>7, <2>8 DEF CoreCount
  <1>17. ASSUME NEW F \in SUBSET Objects, Untouched(s, F)
         PROVE  Untouched(t, F)
    <2>1. \A x \in F : t.count[x] = 0
      BY <1>9, <1>11, <1>17 DEF Untouched
    <2>2. \A x \in F : x # None
      BY Sets
    <2> QED
      BY <1>13, <1>17, <2>1, <2>2 DEF Untouched
  <1>18. ASSUME \A c \in CPUs : times[c] = 0
         PROVE  t.ipc_buf_mo = s.ipc_buf_mo /\ t.binded_ads_id = s.binded_ads_id
    <2>1. cpus = {}
      BY <1>9, <1>18, Sets DEF cpus
    <2>2. \A c \in CPUs : t.ipc_buf_mo[c] = s.ipc_buf_mo[c] /\ t.binded_ads_id[c] = s.binded_ads_id[c]
      BY <1>13, <2>1
    <2> QED
      BY <1>12, <2>2, CoreTypes
  <1> QED
    BY <1>5, <1>7, <1>10, <1>12, <1>16, <1>17, <1>18 DEF t

\* One reference is dropped; None and Reserved stand for nothing to drop.
LEMMA DecEffect ==
  ASSUME NEW s \in Core, NEW o
  PROVE  LET t == Dec(s, o) IN
         /\ t \in Core
         /\ \E gone \in [Objects -> Nat] :
              /\ \A x \in Objects : t.count[x] = CountAfter(s.count[x], One(x = o) + gone[x])
              /\ \A x \in Objects : CoreCount(t, x) + gone[x] = CoreCount(s, x)
              /\ \A x \in CPUs : gone[x] = 0
         /\ \A F \in SUBSET Objects : Untouched(s, F) => Untouched(t, F)
         /\ o \notin CPUs => t.ipc_buf_mo = s.ipc_buf_mo /\ t.binded_ads_id = s.binded_ads_id
  <1>1. Once({o}) \in [Objects -> Nat] /\ \A x \in Objects : Once({o})[x] = One(x = o)
    BY DEF Once, One
  <1>2. o \notin CPUs => \A c \in CPUs : Once({o})[c] = 0
    BY Sets DEF Once
  <1> DEFINE t == Dropped(s, Once({o}))
  <1>3. /\ t \in Core
        /\ \E gone \in [Objects -> Nat] :
             /\ \A x \in Objects : t.count[x] = CountAfter(s.count[x], Once({o})[x] + gone[x])
             /\ \A x \in Objects : CoreCount(t, x) + gone[x] = CoreCount(s, x)
             /\ \A x \in CPUs : gone[x] = 0
        /\ \A F \in SUBSET Objects : Untouched(s, F) => Untouched(t, F)
        /\ (\A c \in CPUs : Once({o})[c] = 0) =>
             t.ipc_buf_mo = s.ipc_buf_mo /\ t.binded_ads_id = s.binded_ads_id
    BY <1>1, DropEffect
  <1>4. t = Dec(s, o)
    BY DEF Dec
  <1> HIDE DEF t
  <1>5. PICK gone \in [Objects -> Nat] :
             /\ \A x \in Objects : t.count[x] = CountAfter(s.count[x], Once({o})[x] + gone[x])
             /\ \A x \in Objects : CoreCount(t, x) + gone[x] = CoreCount(s, x)
             /\ \A x \in CPUs : gone[x] = 0
    BY <1>3
  <1>6. \A x \in Objects : t.count[x] = CountAfter(s.count[x], One(x = o) + gone[x])
    BY <1>1, <1>5
  <1> QED
    BY <1>2, <1>3, <1>4, <1>5, <1>6

-----------------------------------------------------------------------------
(* References from PDs *)

HoldRefs(o) == {p \in pds : hold[p][o] > 0}
DataRefs(o) == {p \in pds : shared_data_mo[p] = o}
AdsRefs(o)  == {p \in set_up : ads_conn[p] = o}
CpuRefs(o)  == {p \in set_up : cpu_conn[p] = o}
PdCount(o) ==
  Cardinality(HoldRefs(o)) + Cardinality(DataRefs(o)) + Cardinality(AdsRefs(o))
  + Cardinality(CpuRefs(o))

\* The references of one PD to o.
RefsOf(q, o) ==
  One(q \in pds /\ hold[q][o] > 0) + One(q \in pds /\ shared_data_mo[q] = o)
  + One(q \in set_up /\ ads_conn[q] = o) + One(q \in set_up /\ cpu_conn[q] = o)

LEMMA PdSets ==
  ASSUME TypeOK, NEW o
  PROVE  /\ IsFiniteSet(HoldRefs(o)) /\ IsFiniteSet(DataRefs(o)) /\ IsFiniteSet(AdsRefs(o))
         /\ IsFiniteSet(CpuRefs(o))
         /\ Cardinality(HoldRefs(o)) \in Nat /\ Cardinality(DataRefs(o)) \in Nat
         /\ Cardinality(AdsRefs(o)) \in Nat /\ Cardinality(CpuRefs(o)) \in Nat
         /\ PdCount(o) \in Nat
  <1>1. /\ HoldRefs(o) \in SUBSET PDs /\ DataRefs(o) \in SUBSET PDs
        /\ AdsRefs(o) \in SUBSET PDs /\ CpuRefs(o) \in SUBSET PDs
    BY DEF HoldRefs, DataRefs, AdsRefs, CpuRefs, TypeOK
  <1>2. /\ IsFiniteSet(HoldRefs(o)) /\ IsFiniteSet(DataRefs(o)) /\ IsFiniteSet(AdsRefs(o))
        /\ IsFiniteSet(CpuRefs(o))
    BY <1>1, Sets, FS_Subset
  <1>3. /\ Cardinality(HoldRefs(o)) \in Nat /\ Cardinality(DataRefs(o)) \in Nat
        /\ Cardinality(AdsRefs(o)) \in Nat /\ Cardinality(CpuRefs(o)) \in Nat
    BY <1>2, FS_CardinalityType
  <1> QED
    BY <1>2, <1>3 DEF PdCount

LEMMA PdSetsNext ==
  ASSUME TypeOK', NEW o
  PROVE  /\ IsFiniteSet(HoldRefs(o)') /\ IsFiniteSet(DataRefs(o)') /\ IsFiniteSet(AdsRefs(o)')
         /\ IsFiniteSet(CpuRefs(o)')
         /\ PdCount(o)' \in Nat
  <1>1. /\ HoldRefs(o)' \in SUBSET PDs /\ DataRefs(o)' \in SUBSET PDs
        /\ AdsRefs(o)' \in SUBSET PDs /\ CpuRefs(o)' \in SUBSET PDs
    BY DEF HoldRefs, DataRefs, AdsRefs, CpuRefs, TypeOK
  <1>2. /\ IsFiniteSet(HoldRefs(o)') /\ IsFiniteSet(DataRefs(o)') /\ IsFiniteSet(AdsRefs(o)')
        /\ IsFiniteSet(CpuRefs(o)')
    BY <1>1, Sets, FS_Subset
  <1>3. /\ Cardinality(HoldRefs(o)') \in Nat /\ Cardinality(DataRefs(o)') \in Nat
        /\ Cardinality(AdsRefs(o)') \in Nat /\ Cardinality(CpuRefs(o)') \in Nat
    BY <1>2, FS_CardinalityType
  <1> QED
    BY <1>2, <1>3 DEF PdCount

\* An element of a set is counted.
LEMMA CardMember ==
  ASSUME NEW A, NEW x, IsFiniteSet(A)
  PROVE  One(x \in A) <= Cardinality(A) /\ Cardinality(A) \in Nat
  <1>1. Cardinality(A) \in Nat
    BY FS_CardinalityType
  <1>2. x \in A => Cardinality(A) # 0
    BY FS_EmptySet
  <1> QED
    BY <1>1, <1>2 DEF One

\* The references of one PD are among those of all.
LEMMA RefsOfCounted ==
  ASSUME TypeOK, NEW q \in PDs, NEW x
  PROVE  RefsOf(q, x) <= PdCount(x) /\ RefsOf(q, x) \in Nat /\ PdCount(x) \in Nat
  <1>1. /\ One(q \in HoldRefs(x)) <= Cardinality(HoldRefs(x))
        /\ One(q \in DataRefs(x)) <= Cardinality(DataRefs(x))
        /\ One(q \in AdsRefs(x)) <= Cardinality(AdsRefs(x))
        /\ One(q \in CpuRefs(x)) <= Cardinality(CpuRefs(x))
    BY PdSets, CardMember
  <1>2. RefsOf(q, x) = One(q \in HoldRefs(x)) + One(q \in DataRefs(x)) + One(q \in AdsRefs(x))
                         + One(q \in CpuRefs(x))
    BY DEF RefsOf, HoldRefs, DataRefs, AdsRefs, CpuRefs
  <1>3. /\ One(q \in HoldRefs(x)) \in Nat /\ One(q \in DataRefs(x)) \in Nat
        /\ One(q \in AdsRefs(x)) \in Nat /\ One(q \in CpuRefs(x)) \in Nat
    BY DEF One
  <1>4. /\ Cardinality(HoldRefs(x)) \in Nat /\ Cardinality(DataRefs(x)) \in Nat
        /\ Cardinality(AdsRefs(x)) \in Nat /\ Cardinality(CpuRefs(x)) \in Nat
    BY PdSets
  <1> QED
    BY <1>1, <1>2, <1>3, <1>4 DEF PdCount

\* Every handler changes the references of one PD.
LEMMA PdMove ==
  ASSUME TypeOK, TypeOK', NEW q \in PDs, NEW x,
         pds' \ {q} = pds \ {q}, set_up' \ {q} = set_up \ {q},
         \A p \in PDs \ {q} : /\ hold'[p][x] = hold[p][x] /\ shared_data_mo'[p] = shared_data_mo[p]
                              /\ ads_conn'[p] = ads_conn[p] /\ cpu_conn'[p] = cpu_conn[p]
  PROVE  /\ PdCount(x)' + RefsOf(q, x) = PdCount(x) + RefsOf(q, x)'
         /\ PdCount(x) \in Nat /\ PdCount(x)' \in Nat
  <1>1. pds \subseteq PDs /\ set_up \subseteq PDs /\ pds' \subseteq PDs /\ set_up' \subseteq PDs
    BY DEF TypeOK
  <1>2. /\ HoldRefs(x) \ {q} = HoldRefs(x)' \ {q} /\ DataRefs(x) \ {q} = DataRefs(x)' \ {q}
        /\ AdsRefs(x) \ {q} = AdsRefs(x)' \ {q} /\ CpuRefs(x) \ {q} = CpuRefs(x)' \ {q}
    BY <1>1 DEF HoldRefs, DataRefs, AdsRefs, CpuRefs
  <1>3. /\ IsFiniteSet(HoldRefs(x)') /\ IsFiniteSet(DataRefs(x)') /\ IsFiniteSet(AdsRefs(x)')
        /\ IsFiniteSet(CpuRefs(x)')
    BY PdSetsNext
  <1>4. /\ IsFiniteSet(HoldRefs(x)) /\ IsFiniteSet(DataRefs(x)) /\ IsFiniteSet(AdsRefs(x))
        /\ IsFiniteSet(CpuRefs(x))
    BY PdSets
  <1>5. /\ Cardinality(HoldRefs(x)) \in Nat /\ Cardinality(HoldRefs(x)') \in Nat
        /\ Cardinality(HoldRefs(x)') + One(q \in HoldRefs(x))
             = Cardinality(HoldRefs(x)) + One(q \in HoldRefs(x)')
    BY <1>2, <1>3, <1>4, CardMove
  <1>6. /\ Cardinality(DataRefs(x)) \in Nat /\ Cardinality(DataRefs(x)') \in Nat
        /\ Cardinality(DataRefs(x)') + One(q \in DataRefs(x))
             = Cardinality(DataRefs(x)) + One(q \in DataRefs(x)')
    BY <1>2, <1>3, <1>4, CardMove
  <1>7. /\ Cardinality(AdsRefs(x)) \in Nat /\ Cardinality(AdsRefs(x)') \in Nat
        /\ Cardinality(AdsRefs(x)') + One(q \in AdsRefs(x))
             = Cardinality(AdsRefs(x)) + One(q \in AdsRefs(x)')
    BY <1>2, <1>3, <1>4, CardMove
  <1>8. /\ Cardinality(CpuRefs(x)) \in Nat /\ Cardinality(CpuRefs(x)') \in Nat
        /\ Cardinality(CpuRefs(x)') + One(q \in CpuRefs(x))
             = Cardinality(CpuRefs(x)) + One(q \in CpuRefs(x)')
    BY <1>2, <1>3, <1>4, CardMove
  <1>9. RefsOf(q, x) = One(q \in HoldRefs(x)) + One(q \in DataRefs(x)) + One(q \in AdsRefs(x))
                         + One(q \in CpuRefs(x))
    BY DEF RefsOf, HoldRefs, DataRefs, AdsRefs, CpuRefs
  <1>10. RefsOf(q, x)' = One(q \in HoldRefs(x)') + One(q \in DataRefs(x)')
                           + One(q \in AdsRefs(x)') + One(q \in CpuRefs(x)')
    BY DEF RefsOf, HoldRefs, DataRefs, AdsRefs, CpuRefs, One
  <1>11. /\ One(q \in HoldRefs(x)) \in Nat /\ One(q \in HoldRefs(x)') \in Nat
         /\ One(q \in DataRefs(x)) \in Nat /\ One(q \in DataRefs(x)') \in Nat
         /\ One(q \in AdsRefs(x)) \in Nat /\ One(q \in AdsRefs(x)') \in Nat
         /\ One(q \in CpuRefs(x)) \in Nat /\ One(q \in CpuRefs(x)') \in Nat
    BY DEF One
  <1>12. /\ PdCount(x)' = Cardinality(HoldRefs(x)') + Cardinality(DataRefs(x)')
                            + Cardinality(AdsRefs(x)') + Cardinality(CpuRefs(x)')
         /\ PdCount(x) = Cardinality(HoldRefs(x)) + Cardinality(DataRefs(x))
                           + Cardinality(AdsRefs(x)) + Cardinality(CpuRefs(x))
    BY DEF PdCount
  <1>13. PdCount(x) \in Nat /\ PdCount(x)' \in Nat
    BY PdSets, PdSetsNext
  <1> QED
    BY <1>5, <1>6, <1>7, <1>8, <1>9, <1>10, <1>11, <1>12, <1>13

\* What Refs counts.
LEMMA RefsSplit ==
  ASSUME TypeOK, NEW o \in Objects
  PROVE  Refs(o) = CoreCount(core, o) + PdCount(o)
  <1>1. core.attach \in [Regions -> MOs \cup {None, Reserved}]
    BY CoreTypes DEF TypeOK
  <1>2. {r \in Regions : Registered(r[1]) /\ core.attach[r] = o} = RegionRefs(core, o)
    BY Sets DEF RegionRefs, Registered
  <1>3. /\ {c \in CPUs : Registered(c) /\ core.ipc_buf_mo[c] = o} = BufferRefs(core, o)
        /\ {c \in CPUs : Registered(c) /\ core.binded_ads_id[c] = o} = BindRefs(core, o)
    BY Sets DEF BufferRefs, BindRefs, Registered
  <1>4. Refs(o) = Cardinality(HoldRefs(o)) + Cardinality(RegionRefs(core, o))
                    + Cardinality(BufferRefs(core, o)) + Cardinality(BindRefs(core, o))
                    + Cardinality(DataRefs(o)) + Cardinality(AdsRefs(o)) + Cardinality(CpuRefs(o))
    BY <1>2, <1>3 DEF Refs, HoldRefs, DataRefs, AdsRefs, CpuRefs
  <1>5. /\ Cardinality(HoldRefs(o)) \in Nat /\ Cardinality(DataRefs(o)) \in Nat
        /\ Cardinality(AdsRefs(o)) \in Nat /\ Cardinality(CpuRefs(o)) \in Nat
    BY PdSets
  <1>6. /\ Cardinality(RegionRefs(core, o)) \in Nat /\ Cardinality(BufferRefs(core, o)) \in Nat
        /\ Cardinality(BindRefs(core, o)) \in Nat
    BY RefSets
  <1> QED
    BY <1>4, <1>5, <1>6 DEF CoreCount, PdCount

\* The same, as a formula that also holds of the next state.
LEMMA RefsSplitAlways == TypeOK => \A o \in Objects : Refs(o) = CoreCount(core, o) + PdCount(o)
  BY RefsSplit

LEMMA RefsSplitNext == TypeOK' => \A o \in Objects : Refs(o)' = CoreCount(core', o) + PdCount(o)'
  <1>1. (TypeOK => \A o \in Objects : Refs(o) = CoreCount(core, o) + PdCount(o))'
    BY RefsSplitAlways, PTL
  <1> QED
    BY <1>1 DEF CoreCount, RegionRefs, BufferRefs, BindRefs

-----------------------------------------------------------------------------
(* The invariant *)

\* Objects that were not allocated yet are unknown to the PDs, and PDs that were
\* not allocated yet hold nothing: what a new object or PD starts with is 0.
FreshPds ==
  \A o \in fresh, p \in PDs :
    hold[p][o] = 0 /\ ads_conn[p] # o /\ cpu_conn[p] # o /\ shared_data_mo[p] # o
NewPds == \A q \in PDs \ created, o \in Objects : hold[q][o] = 0

\* The core caps of a PD whose runtime was set up are replaced, never taken away.
Connected == \A p \in set_up : ads_conn[p] # None /\ cpu_conn[p] # None

CoreRefsInv ==
  /\ TypeOK /\ Untouched(core, fresh) /\ FreshPds /\ NewPds /\ Connected
  /\ CountsCover /\ NoLeak

\* What the proofs use of it.
LEMMA Known ==
  ASSUME CoreRefsInv
  PROVE  /\ TypeOK /\ core \in Core /\ fresh \in SUBSET Objects /\ Untouched(core, fresh)
         /\ set_up \subseteq pds /\ pds \subseteq created /\ created \subseteq PDs
         /\ \A x \in Objects : /\ core.count[x] \in Nat /\ CoreCount(core, x) \in Nat
                               /\ PdCount(x) \in Nat
         /\ \A x \in Objects \ low : core.count[x] >= CoreCount(core, x) + PdCount(x)
         /\ \A x \in Objects \ leaked : core.count[x] <= CoreCount(core, x) + PdCount(x)
  <1>1. /\ TypeOK /\ core \in Core /\ fresh \in SUBSET Objects /\ Untouched(core, fresh)
        /\ set_up \subseteq pds /\ pds \subseteq created /\ created \subseteq PDs
    BY DEF CoreRefsInv, TypeOK
  <1>2. \A x \in Objects : /\ core.count[x] \in Nat /\ CoreCount(core, x) \in Nat
                           /\ PdCount(x) \in Nat
    BY <1>1, CoreTypes, RefSets, PdSets
  <1>3. /\ \A x \in Objects \ low : core.count[x] >= CoreCount(core, x) + PdCount(x)
        /\ \A x \in Objects \ leaked : core.count[x] <= CoreCount(core, x) + PdCount(x)
    BY <1>1, RefsSplit DEF CoreRefsInv, CountsCover, NoLeak
  <1> QED
    BY <1>1, <1>2, <1>3

\* What is to be shown of a step.
LEMMA Conclude ==
  ASSUME TypeOK', Untouched(core, fresh)', FreshPds', NewPds', Connected',
         \A x \in Objects \ low' : core'.count[x] >= CoreCount(core', x) + PdCount(x)',
         \A x \in Objects \ leaked' : core'.count[x] <= CoreCount(core', x) + PdCount(x)'
  PROVE  CoreRefsInv'
  <1>1. \A x \in Objects : Refs(x)' = CoreCount(core', x) + PdCount(x)'
    BY RefsSplitNext
  <1>2. CountsCover' /\ NoLeak'
    BY <1>1 DEF CountsCover, NoLeak
  <1> QED
    BY <1>2 DEF CoreRefsInv

\* The caller of a request is a registered PD.
LEMMA RequestFacts ==
  ASSUME TypeOK, NEW p \in PDs, Request(p)
  PROVE  p \in set_up /\ p \in pds /\ requests' \in 0 .. MaxRequests
  BY CoreRefsAssumption DEF Request, Running, TypeOK

\* Steps that leave the PDs alone.
LEMMA CoreStep ==
  ASSUME CoreRefsInv, UNCHANGED <<pdVars, low>>, core' \in Core,
         fresh' \subseteq fresh, Untouched(core', fresh'), leaked' \subseteq Objects,
         stale_badge' \in MOs \cup {None}, requests' \in 0 .. MaxRequests,
         \A x \in Objects \ low : core'.count[x] >= CoreCount(core', x) + PdCount(x),
         \A x \in Objects \ leaked' : core'.count[x] <= CoreCount(core', x) + PdCount(x)
  PROVE  CoreRefsInv'
  <1>1. UNCHANGED <<pds, created, set_up, hold, ads_conn, cpu_conn, shared_data_mo, low>>
    BY DEF pdVars
  <1>2. TypeOK'
    BY <1>1 DEF CoreRefsInv, TypeOK
  <1>3. FreshPds' /\ NewPds' /\ Connected'
    BY <1>1 DEF CoreRefsInv, FreshPds, NewPds, Connected
  <1>4. \A x : PdCount(x)' = PdCount(x)
    BY <1>1 DEF PdCount, HoldRefs, DataRefs, AdsRefs, CpuRefs
  <1>5. Untouched(core, fresh)'
    BY DEF Untouched
  <1> QED
    BY <1>1, <1>2, <1>3, <1>4, <1>5, Conclude

-----------------------------------------------------------------------------
(* Regions *)

\* handle_vmr_reserve_req
LEMMA ReserveInv ==
  ASSUME CoreRefsInv, NEW p \in PDs, NEW r \in Regions, Reserve(p, r)
  PROVE  CoreRefsInv'
  <1>1. /\ TypeOK /\ core \in Core /\ fresh \in SUBSET Objects /\ Untouched(core, fresh)
        /\ \A x \in Objects : /\ core.count[x] \in Nat /\ CoreCount(core, x) \in Nat
                              /\ PdCount(x) \in Nat
        /\ \A x \in Objects \ low : core.count[x] >= CoreCount(core, x) + PdCount(x)
        /\ \A x \in Objects \ leaked : core.count[x] <= CoreCount(core, x) + PdCount(x)
    BY Known
  <1>2. /\ core.count[r[1]] > 0 /\ core.attach[r] = None
        /\ core' = [core EXCEPT !.attach[r] = Reserved]
        /\ UNCHANGED <<pdVars, low, fresh, leaked, stale_badge>>
        /\ requests' \in 0 .. MaxRequests
    BY <1>1, RequestFacts DEF Reserve, Registered, regionFrame
  <1>3. /\ core' \in Core /\ core'.count = core.count
        /\ \A x \in Objects : CoreCount(core', x) + One(core.attach[r] = x)
                                = CoreCount(core, x) + One(Reserved = x)
        /\ Untouched(core', fresh)
    BY <1>1, <1>2, SetAttachEffect, Sets
  <1>4. \A x \in Objects : CoreCount(core', x) = CoreCount(core, x)
    BY <1>1, <1>2, <1>3, RefSets, Sets DEF One
  <1>5. leaked' \subseteq Objects /\ stale_badge' \in MOs \cup {None}
    BY <1>1, <1>2 DEF TypeOK
  <1> QED
    BY <1>1, <1>2, <1>3, <1>4, <1>5, CoreStep

\* ads_attach_to_res in a region of a registered ADS: the new MO has one
\* reference more and one more is counted if it exists; the old one loses one.
LEMMA AttachedEffect ==
  ASSUME NEW s \in Core, NEW r \in Regions, NEW m \in MOs, s.count[r[1]] > 0
  PROVE  LET t == Attached(s, r, m) IN
         /\ t \in Core
         /\ \A x \in Objects : t.count[x] = s.count[x] + One(x = m /\ s.count[m] > 0)
         /\ \A x \in Objects : CoreCount(t, x) + One(s.attach[r] = x) = CoreCount(s, x) + One(m = x)
         /\ \A F \in SUBSET Objects : m \notin F /\ Untouched(s, F) => Untouched(t, F)
  <1> DEFINE u == [s EXCEPT !.attach[r] = m]
  <1>1. /\ u \in Core /\ u.count = s.count
        /\ \A x \in Objects : CoreCount(u, x) + One(s.attach[r] = x) = CoreCount(s, x) + One(m = x)
        /\ \A F \in SUBSET Objects : m \notin F /\ Untouched(s, F) => Untouched(u, F)
    BY SetAttachEffect
  <1>2. Attached(s, r, m) = Inc(u, m) /\ m \in Objects
    BY Sets DEF Attached
  <1> HIDE DEF u
  <1>3. /\ Inc(u, m) \in Core
        /\ \A x \in Objects : Inc(u, m).count[x] = u.count[x] + One(x = m /\ u.count[m] > 0)
        /\ \A x : CoreCount(Inc(u, m), x) = CoreCount(u, x)
        /\ \A F \in SUBSET Objects : Untouched(u, F) => Untouched(Inc(u, m), F)
    BY <1>1, <1>2, IncEffect
  <1> QED
    BY <1>1, <1>2, <1>3

\* handle_vmr_attach_req
LEMMA AttachInv ==
  ASSUME CoreRefsInv, NEW p \in PDs, NEW r \in Regions, NEW m \in MOs, Attach(p, r, m)
  PROVE  CoreRefsInv'
  <1>1. /\ TypeOK /\ core \in Core /\ fresh \in SUBSET Objects /\ Untouched(core, fresh)
        /\ \A x \in Objects : /\ core.count[x] \in Nat /\ CoreCount(core, x) \in Nat
                              /\ PdCount(x) \in Nat
        /\ \A x \in Objects \ low : core.count[x] >= CoreCount(core, x) + PdCount(x)
        /\ \A x \in Objects \ leaked : core.count[x] <= CoreCount(core, x) + PdCount(x)
    BY Known
  <1>2. /\ core.count[r[1]] > 0 /\ core.count[m] > 0 /\ core' = Attached(core, r, m)
        /\ leaked' = IF core.attach[r] \in MOs THEN leaked \cup {core.attach[r]} ELSE leaked
        /\ UNCHANGED <<pdVars, low, fresh, stale_badge>>
        /\ requests' \in 0 .. MaxRequests
    BY <1>1, RequestFacts DEF Attach, Has, Registered, regionFrame
  <1>3. m \notin fresh /\ m \in Objects
    BY <1>1, <1>2, Sets DEF Untouched
  <1>4. /\ core' \in Core
        /\ \A x \in Objects : core'.count[x] = core.count[x] + One(x = m /\ core.count[m] > 0)
        /\ \A x \in Objects : CoreCount(core', x) + One(core.attach[r] = x)
                                = CoreCount(core, x) + One(m = x)
        /\ Untouched(core', fresh)
    BY <1>1, <1>2, <1>3, AttachedEffect
  <1>5. leaked' \subseteq Objects /\ stale_badge' \in MOs \cup {None}
    BY <1>1, <1>2, Sets DEF TypeOK
  <1>6. ASSUME NEW x \in Objects
        PROVE  /\ x \notin low => core'.count[x] >= CoreCount(core', x) + PdCount(x)
               /\ x \notin leaked' => core'.count[x] <= CoreCount(core', x) + PdCount(x)
    <2>1. x \notin leaked' => x \notin leaked /\ core.attach[r] # x
      BY <1>1, <1>2, CoreTypes, Sets
    <2>2. core'.count[x] = core.count[x] + One(m = x)
      BY <1>2, <1>4 DEF One
    <2>3. CoreCount(core', x) \in Nat
      BY RefSets
    <2> QED
      BY <1>1, <1>4, <2>1, <2>2, <2>3 DEF One
  <1> QED
    BY <1>1, <1>2, <1>4, <1>5, <1>6, CoreStep

\* handle_vmr_attach_no_reserve_req
LEMMA AttachNoReserveInv ==
  ASSUME CoreRefsInv, NEW p \in PDs, NEW r \in Regions, NEW m \in MOs, AttachNoReserve(p, r, m)
  PROVE  CoreRefsInv'
  <1>1. /\ core.count[r[1]] > 0 /\ core.count[m] > 0 /\ core' = Attached(core, r, m)
        /\ core.attach[r] = None
        /\ UNCHANGED <<pdVars, low, fresh, leaked, stale_badge>>
        /\ requests' \in 0 .. MaxRequests
    BY Known, RequestFacts DEF AttachNoReserve, Has, Registered, regionFrame
  <1>2. m \notin fresh /\ m \in Objects
    BY <1>1, Known, Sets DEF Untouched
  <1>3. /\ core' \in Core
        /\ \A x \in Objects : core'.count[x] = core.count[x] + One(x = m /\ core.count[m] > 0)
        /\ \A x \in Objects : CoreCount(core', x) + One(core.attach[r] = x)
                                = CoreCount(core, x) + One(m = x)
        /\ Untouched(core', fresh)
    BY <1>1, <1>2, Known, AttachedEffect
  <1>4. leaked' \subseteq Objects /\ stale_badge' \in MOs \cup {None}
    BY <1>1, Known DEF TypeOK
  <1>5. ASSUME NEW x \in Objects
        PROVE  /\ x \notin low => core'.count[x] >= CoreCount(core', x) + PdCount(x)
               /\ x \notin leaked => core'.count[x] <= CoreCount(core', x) + PdCount(x)
    <2>1. core'.count[x] = core.count[x] + One(m = x) /\ core.attach[r] # x
      BY <1>1, <1>3, Sets DEF One
    <2>2. CoreCount(core', x) = CoreCount(core, x) + One(m = x)
      BY <1>3, <2>1, RefSets DEF One
    <2> QED
      BY Known, <2>1, <2>2 DEF One
  <1> QED
    BY <1>1, <1>3, <1>4, <1>5, CoreStep

\* handle_load_elf_request.  Whatever a failure leaves, it leaves at least the
\* count of the attachment.
LEMMA LoadElfInv ==
  ASSUME CoreRefsInv, NEW p \in PDs, NEW r \in Regions, NEW m \in MOs, LoadElf(p, r, m)
  PROVE  CoreRefsInv'
  <1>1. /\ core.count[r[1]] > 0 /\ core.attach[r] = None /\ m \in fresh
        /\ fresh' = fresh \ {m} /\ UNCHANGED <<pdVars, low, stale_badge>>
        /\ requests' \in 0 .. MaxRequests
    BY Known, RequestFacts DEF LoadElf, Has, Registered
  <1>2. PICK n \in Nat \ {0}, to \in {m, Reserved} :
          /\ core' = [core EXCEPT !.count[m] = n, !.attach[r] = to]
          /\ \/ n = 1 /\ to = m /\ leaked' = leaked
             \/ leaked' = leaked \cup {m}
    <2> DEFINE Loaded(k, to) == [core EXCEPT !.count[m] = k, !.attach[r] = to]
    <2>1. \/ core' = Loaded(1, m) /\ leaked' = leaked
          \/ core' = Loaded(1, Reserved) /\ leaked' = leaked \cup {m}
          \/ core' = Loaded(2, m) /\ leaked' = leaked \cup {m}
          \/ core' = Loaded(3, m) /\ leaked' = leaked \cup {m}
      BY DEF LoadElf
    <2>2. \E k \in Nat \ {0}, to \in {m, Reserved} :
            /\ core' = Loaded(k, to)
            /\ \/ k = 1 /\ to = m /\ leaked' = leaked
               \/ leaked' = leaked \cup {m}
      <3>1. 1 \in Nat \ {0} /\ 2 \in Nat \ {0} /\ 3 \in Nat \ {0}
        OBVIOUS
      <3> HIDE DEF Loaded
      <3> QED
        BY <2>1, <3>1, Zenon
    <2> QED
      BY <2>2
  <1> DEFINE s == [core EXCEPT !.count[m] = n]
  <1>3. core' = [s EXCEPT !.attach[r] = to]
    BY <1>2, Known DEF Core
  <1>4. /\ s \in Core /\ core.count[m] = 0 /\ CoreCount(core, m) = 0
        /\ \A x \in Objects : s.count[x] = IF x = m THEN n ELSE core.count[x]
        /\ \A x \in Objects : CoreCount(s, x) = CoreCount(core, x)
        /\ Untouched(s, fresh \ {m})
        /\ s.attach = core.attach
    <2>1. core \in Core /\ fresh \in SUBSET Objects /\ Untouched(core, fresh)
      BY Known
    <2>2. /\ s \in Core /\ Registering(core, s, m) /\ s.attach = core.attach
          /\ \A x \in Objects : s.count[x] = IF x = m THEN n ELSE core.count[x]
      BY <2>1, Sets DEF Core, Registering
    <2> HIDE DEF s
    <2> QED
      BY <1>1, <2>1, <2>2, RegisterEffect
  <1> HIDE DEF s
  <1>5. s.count[r[1]] > 0
    BY <1>1, <1>4, Known, Sets
  <1>6. fresh \ {m} \in SUBSET Objects /\ to \notin fresh \ {m} /\ to \in MOs \cup {None, Reserved}
    BY Known, CoreRefsAssumption
  <1>7. /\ core' \in Core /\ core'.count = s.count
        /\ \A x \in Objects : CoreCount(core', x) + One(s.attach[r] = x) = CoreCount(s, x) + One(to = x)
        /\ Untouched(core', fresh \ {m})
    BY <1>3, <1>4, <1>5, <1>6, SetAttachEffect
  <1>8. leaked' \subseteq Objects /\ stale_badge' \in MOs \cup {None} /\ leaked \subseteq leaked'
    BY <1>1, <1>2, Known, Sets DEF TypeOK
  <1>9. ASSUME NEW x \in Objects
        PROVE  /\ x \notin low => core'.count[x] >= CoreCount(core', x) + PdCount(x)
               /\ x \notin leaked' => core'.count[x] <= CoreCount(core', x) + PdCount(x)
    <2>1. s.attach[r] # x
      BY <1>1, <1>4, Sets
    <2>2. CoreCount(core', x) = CoreCount(core, x) + One(to = x)
      BY <1>4, <1>7, <2>1, RefSets DEF One
    <2>3. CASE x = m
      <3>1. core'.count[x] = n /\ CoreCount(core', x) = One(to = m)
        BY <1>4, <1>7, <2>2, <2>3 DEF One
      <3>2. x \notin low => PdCount(x) = 0
        BY <1>4, <2>3, Known
      <3>3. x \notin leaked' => n = 1 /\ to = m
        BY <1>2, <2>3
      <3> QED
        BY <3>1, <3>2, <3>3, Known DEF One
    <2>4. CASE x # m
      <3>1. core'.count[x] = core.count[x] /\ to # x
        BY <1>4, <1>7, <2>4, CoreRefsAssumption
      <3> QED
        BY <1>8, <2>2, <3>1, Known DEF One
    <2> QED
      BY <2>3, <2>4
  <1> QED
    BY <1>1, <1>4, <1>7, <1>8, <1>9, CoreStep

\* handle_copy_req: the MO of a region exists, because the region is counted.
LEMMA ShallowCopyInv ==
  ASSUME CoreRefsInv, NEW p \in PDs, NEW r \in Regions, NEW t \in Regions, ShallowCopy(p, r, t)
  PROVE  CoreRefsInv'
  <1> DEFINE m == core.attach[r]
  <1>1. /\ core.count[r[1]] > 0 /\ core.count[t[1]] > 0 /\ m # None /\ core.attach[t] = None
        /\ m = Reserved => core' = [core EXCEPT !.attach[t] = Reserved]
        /\ m # Reserved => core' = Attached(core, t, m)
        /\ UNCHANGED <<pdVars, low, fresh, leaked, stale_badge>>
        /\ requests' \in 0 .. MaxRequests
    BY Known, RequestFacts DEF ShallowCopy, Has, Registered, regionFrame
  <1>2. m \in MOs \cup {Reserved} /\ m \notin fresh
    BY <1>1, Known, CoreTypes DEF Untouched
  <1>3. leaked' \subseteq Objects /\ stale_badge' \in MOs \cup {None}
    BY <1>1, Known DEF TypeOK
  <1>4. CASE m = Reserved
    <2>1. /\ core' \in Core /\ core'.count = core.count
          /\ \A x \in Objects : CoreCount(core', x) + One(core.attach[t] = x)
                                  = CoreCount(core, x) + One(Reserved = x)
          /\ Untouched(core', fresh)
      <3>1. core' = [core EXCEPT !.attach[t] = Reserved] /\ core.count[t[1]] > 0
        BY <1>1, <1>4
      <3>2. core \in Core /\ fresh \in SUBSET Objects /\ Untouched(core, fresh)
        BY Known
      <3>3. Reserved \notin fresh
        BY <3>2, Sets
      <3> HIDE DEF m
      <3> QED
        BY <3>1, <3>2, <3>3, SetAttachEffect
    <2>2. \A x \in Objects : CoreCount(core', x) = CoreCount(core, x)
      BY <1>1, <2>1, Known, RefSets, Sets DEF One
    <2> QED
      BY <1>1, <1>3, <2>1, <2>2, Known, CoreStep
  <1>5. CASE m # Reserved
    <2>1. m \in MOs /\ m \in Objects
      BY <1>2, <1>5, Sets
    <2>2. /\ core' \in Core
          /\ \A x \in Objects : core'.count[x] = core.count[x] + One(x = m /\ core.count[m] > 0)
          /\ \A x \in Objects : CoreCount(core', x) + One(core.attach[t] = x)
                                  = CoreCount(core, x) + One(m = x)
          /\ Untouched(core', fresh)
      BY <1>1, <1>2, <1>5, <2>1, Known, AttachedEffect
    <2>3. CoreCount(core, m) >= 1
      <3>1. r \in RegionRefs(core, m)
        BY <1>1 DEF RegionRefs
      <3>2. Cardinality(RegionRefs(core, m)) >= 1
        BY <3>1, RefSets, CardMember DEF One
      <3>3. /\ Cardinality(RegionRefs(core, m)) \in Nat /\ Cardinality(BufferRefs(core, m)) \in Nat
            /\ Cardinality(BindRefs(core, m)) \in Nat
        BY RefSets
      <3> QED
        BY <3>2, <3>3 DEF CoreCount
    <2>4. ASSUME NEW x \in Objects
          PROVE  /\ x \notin low => core'.count[x] >= CoreCount(core', x) + PdCount(x)
                 /\ x \notin leaked => core'.count[x] <= CoreCount(core', x) + PdCount(x)
      <3>1. CoreCount(core', x) = CoreCount(core, x) + One(m = x)
        <4>1. core.attach[t] # x
          BY <1>1, Sets
        <4> QED
          BY <4>1, <2>2, RefSets DEF One
      <3>2. CASE x = m /\ core.count[m] = 0
        <4>1. core'.count[x] = core.count[x]
          BY <2>2, <3>2, Known DEF One
        <4>2. x \in low
          BY <3>2, <2>3, Known
        <4> QED
          BY <3>1, <4>1, <4>2, Known DEF One
      <3>3. CASE x # m \/ core.count[m] # 0
        <4>1. core'.count[x] = core.count[x] + One(m = x)
          BY <2>1, <2>2, <3>3, Known DEF One
        <4> QED
          BY <3>1, <4>1, Known DEF One
      <3> QED
        BY <3>2, <3>3
    <2> QED
      BY <1>1, <1>3, <2>2, <2>4, CoreStep
  <1> QED
    BY <1>4, <1>5

\* handle_vmr_delete_req, handle_vmr_delete_by_vaddr_req
LEMMA RemoveInv ==
  ASSUME CoreRefsInv, NEW p \in PDs, NEW r \in Regions, Remove(p, r)
  PROVE  CoreRefsInv'
  <1> DEFINE m == core.attach[r]
             s == [core EXCEPT !.attach[r] = None]
  <1>1. /\ core.count[r[1]] > 0 /\ core' = Dec(s, m)
        /\ UNCHANGED <<pdVars, low, fresh, leaked, stale_badge>>
        /\ requests' \in 0 .. MaxRequests
    BY Known, RequestFacts DEF Remove, Registered, regionFrame
  <1>2. /\ s \in Core /\ s.count = core.count
        /\ \A x \in Objects : CoreCount(s, x) + One(m = x) = CoreCount(core, x) + One(None = x)
        /\ Untouched(s, fresh)
    BY <1>1, Known, SetAttachEffect, Sets
  <1>3. leaked' \subseteq Objects /\ stale_badge' \in MOs \cup {None}
    BY <1>1, Known DEF TypeOK
  <1> HIDE DEF s
  <1>4. core' \in Core /\ Untouched(core', fresh)
    BY <1>1, <1>2, Known, DecEffect
  <1>5. PICK gone \in [Objects -> Nat] :
          /\ \A x \in Objects : core'.count[x] = CountAfter(s.count[x], One(x = m) + gone[x])
          /\ \A x \in Objects : CoreCount(core', x) + gone[x] = CoreCount(s, x)
    BY <1>1, <1>2, DecEffect
  <1>6. ASSUME NEW x \in Objects
        PROVE  /\ x \notin low => core'.count[x] >= CoreCount(core', x) + PdCount(x)
               /\ x \notin leaked => core'.count[x] <= CoreCount(core', x) + PdCount(x)
    <2>1. CoreCount(s, x) + One(m = x) = CoreCount(core, x)
      BY <1>2, RefSets, Sets DEF One
    <2>2. core'.count[x] = CountAfter(core.count[x], One(m = x) + gone[x])
      BY <1>2, <1>5 DEF One
    <2>3. CoreCount(core', x) + gone[x] + One(m = x) = CoreCount(core, x)
      BY <1>5, <2>1
    <2>4. /\ CoreCount(core', x) \in Nat /\ gone[x] \in Nat /\ One(m = x) \in Nat
      BY RefSets DEF One
    <2> QED
      BY <2>2, <2>3, <2>4, Known DEF CountAfter
  <1> QED
    BY <1>1, <1>3, <1>4, <1>6, CoreStep

-----------------------------------------------------------------------------
(* CPUs *)

\* A state of the registries inside a handler that fits the PDs.
Balanced(s) ==
  /\ s \in Core /\ Untouched(s, fresh)
  /\ \A x \in Objects \ low : s.count[x] >= CoreCount(s, x) + PdCount(x)
  /\ \A x \in Objects \ leaked : s.count[x] <= CoreCount(s, x) + PdCount(x)

\* A reference o of s is dropped that u has not any more: t = Dec(u, o).
LEMMA DropReference ==
  ASSUME CoreRefsInv, NEW s, Balanced(s), NEW u \in Core, NEW o, o \notin CPUs,
         u.count = s.count, Untouched(u, fresh),
         \A x \in Objects : CoreCount(u, x) + One(o = x) = CoreCount(s, x)
  PROVE  LET t == Dec(u, o) IN
         /\ Balanced(t)
         /\ \A x \in CPUs : t.count[x] = s.count[x]
         /\ t.ipc_buf_mo = u.ipc_buf_mo /\ t.binded_ads_id = u.binded_ads_id
  <1> DEFINE t == Dec(u, o)
  <1>1. /\ t \in Core /\ Untouched(t, fresh)
        /\ t.ipc_buf_mo = u.ipc_buf_mo /\ t.binded_ads_id = u.binded_ads_id
    BY Known, DecEffect
  <1>2. PICK gone \in [Objects -> Nat] :
          /\ \A x \in Objects : t.count[x] = CountAfter(u.count[x], One(x = o) + gone[x])
          /\ \A x \in Objects : CoreCount(t, x) + gone[x] = CoreCount(u, x)
          /\ \A x \in CPUs : gone[x] = 0
    BY DecEffect
  <1> HIDE DEF t
  <1>3. \A x \in Objects : s.count[x] \in Nat
    BY CoreTypes DEF Balanced
  <1>4. ASSUME NEW x \in Objects
        PROVE  /\ x \notin low => t.count[x] >= CoreCount(t, x) + PdCount(x)
               /\ x \notin leaked => t.count[x] <= CoreCount(t, x) + PdCount(x)
    <2>1. t.count[x] = CountAfter(s.count[x], One(o = x) + gone[x])
      BY <1>2 DEF One
    <2>2. CoreCount(t, x) + gone[x] + One(o = x) = CoreCount(s, x)
      BY <1>2
    <2>3. /\ CoreCount(t, x) \in Nat /\ gone[x] \in Nat /\ One(o = x) \in Nat
          /\ s.count[x] \in Nat /\ PdCount(x) \in Nat /\ CoreCount(s, x) \in Nat
      BY <1>3, Known, RefSets DEF One
    <2>4. /\ x \notin low => s.count[x] >= CoreCount(s, x) + PdCount(x)
          /\ x \notin leaked => s.count[x] <= CoreCount(s, x) + PdCount(x)
      BY DEF Balanced
    <2> QED
      BY <2>1, <2>2, <2>3, <2>4 DEF CountAfter
  <1>5. ASSUME NEW x \in CPUs
        PROVE  t.count[x] = s.count[x]
    <2>1. x \in Objects /\ One(x = o) = 0 /\ gone[x] = 0 /\ s.count[x] \in Nat
      BY <1>2, <1>3, Sets DEF One
    <2>2. t.count[x] = CountAfter(s.count[x], 0 + 0)
      BY <1>2, <2>1
    <2> QED
      BY <2>1, <2>2 DEF CountAfter
  <1> QED
    BY <1>1, <1>4, <1>5 DEF t, Balanced

\* The CPU c lets go of its IPC buffer.
LEMMA DropBuffer ==
  ASSUME CoreRefsInv, NEW s, Balanced(s), NEW c \in CPUs, s.count[c] > 0
  PROVE  LET t == Dec([s EXCEPT !.ipc_buf_mo[c] = None], s.ipc_buf_mo[c]) IN
         /\ Balanced(t) /\ t.count[c] > 0 /\ t.ipc_buf_mo[c] = None
         /\ t.binded_ads_id = s.binded_ads_id
  <1> DEFINE u == [s EXCEPT !.ipc_buf_mo[c] = None]
             o == s.ipc_buf_mo[c]
  <1>1. s \in Core /\ Untouched(s, fresh) /\ fresh \in SUBSET Objects /\ None \notin fresh
    BY Known, Sets DEF Balanced
  <1>2. /\ u \in Core /\ u.count = s.count /\ u.binded_ads_id = s.binded_ads_id
        /\ \A x \in Objects : CoreCount(u, x) + One(o = x) = CoreCount(s, x) + One(None = x)
        /\ Untouched(u, fresh)
    BY <1>1, SetBufferEffect
  <1>3. u.ipc_buf_mo[c] = None /\ o \notin CPUs
    BY <1>1, CoreTypes, Sets DEF Core
  <1> HIDE DEF u, o
  <1>4. \A x \in Objects : CoreCount(u, x) + One(o = x) = CoreCount(s, x)
    BY <1>2, RefSets, Sets DEF One
  <1>5. /\ Balanced(Dec(u, o)) /\ Dec(u, o).count[c] = s.count[c]
        /\ Dec(u, o).ipc_buf_mo = u.ipc_buf_mo /\ Dec(u, o).binded_ads_id = u.binded_ads_id
    BY <1>2, <1>3, <1>4, DropReference
  <1> QED
    BY <1>2, <1>3, <1>5 DEF u, o

\* The CPU c is unbound from its ADS.
LEMMA DropBind ==
  ASSUME CoreRefsInv, NEW s, Balanced(s), NEW c \in CPUs, s.count[c] > 0
  PROVE  LET t == Dec([s EXCEPT !.binded_ads_id[c] = None], s.binded_ads_id[c]) IN
         /\ Balanced(t) /\ t.count[c] > 0 /\ t.binded_ads_id[c] = None
  <1> DEFINE u == [s EXCEPT !.binded_ads_id[c] = None]
             o == s.binded_ads_id[c]
  <1>1. s \in Core /\ Untouched(s, fresh) /\ fresh \in SUBSET Objects /\ None \notin fresh
    BY Known, Sets DEF Balanced
  <1>2. /\ u \in Core /\ u.count = s.count /\ u.binded_ads_id[c] = None
        /\ \A x \in Objects : CoreCount(u, x) + One(o = x) = CoreCount(s, x) + One(None = x)
        /\ Untouched(u, fresh)
    BY <1>1, SetBindEffect
  <1>3. o \notin CPUs
    BY <1>1, CoreTypes, Sets
  <1> HIDE DEF u, o
  <1>4. \A x \in Objects : CoreCount(u, x) + One(o = x) = CoreCount(s, x)
    BY <1>2, RefSets, Sets DEF One
  <1>5. /\ Balanced(Dec(u, o)) /\ Dec(u, o).count[c] = s.count[c]
        /\ Dec(u, o).binded_ads_id = u.binded_ads_id
    BY <1>2, <1>3, <1>4, DropReference
  <1> QED
    BY <1>2, <1>5 DEF u, o

\* The CPU c gets m for its IPC buffer.
LEMMA TakeBuffer ==
  ASSUME CoreRefsInv, NEW s, Balanced(s), NEW c \in CPUs, s.count[c] > 0,
         s.ipc_buf_mo[c] = None, NEW m \in MOs, s.count[m] > 0
  PROVE  LET t == [Inc(s, m) EXCEPT !.ipc_buf_mo[c] = m] IN
         /\ Balanced(t) /\ t.count[c] > 0 /\ t.binded_ads_id = s.binded_ads_id
  <1> DEFINE u == Inc(s, m)
             t == [u EXCEPT !.ipc_buf_mo[c] = m]
  <1>1. /\ s \in Core /\ Untouched(s, fresh) /\ fresh \in SUBSET Objects
        /\ m \in Objects /\ c \in Objects /\ m # c
        /\ \A x \in Objects : s.count[x] \in Nat
    BY Known, CoreTypes, Sets DEF Balanced
  <1>2. m \notin fresh
    BY <1>1 DEF Untouched
  <1>3. /\ u \in Core /\ Untouched(u, fresh)
        /\ \A x \in Objects : u.count[x] = s.count[x] + One(x = m /\ s.count[m] > 0)
        /\ \A x : CoreCount(u, x) = CoreCount(s, x)
        /\ u.ipc_buf_mo = s.ipc_buf_mo /\ u.binded_ads_id = s.binded_ads_id
    BY <1>1, IncEffect
  <1> HIDE DEF u
  <1>4. u.count[c] > 0 /\ \A x \in Objects : u.count[x] = s.count[x] + One(m = x)
    BY <1>1, <1>3 DEF One
  <1>5. /\ t \in Core /\ t.count = u.count /\ t.binded_ads_id = u.binded_ads_id
        /\ \A x \in Objects : CoreCount(t, x) + One(u.ipc_buf_mo[c] = x)
                                = CoreCount(u, x) + One(m = x)
        /\ Untouched(t, fresh)
    BY <1>1, <1>2, <1>3, <1>4, SetBufferEffect
  <1> HIDE DEF t
  <1>6. \A x \in Objects : CoreCount(t, x) = CoreCount(s, x) + One(m = x)
    BY <1>3, <1>5, RefSets, Sets DEF One
  <1>7. \A x \in Objects : CoreCount(s, x) \in Nat /\ PdCount(x) \in Nat
    BY Known, RefSets
  <1>8. Balanced(t)
    BY <1>1, <1>4, <1>5, <1>6, <1>7 DEF Balanced, One
  <1> QED
    BY <1>3, <1>4, <1>5, <1>8 DEF t, u

\* cpu_component_configure, however far it gets.
LEMMA ConfiguredEffect ==
  ASSUME CoreRefsInv, NEW c \in CPUs, NEW a \in ADSs, NEW m \in MOs \cup {None},
         core.count[c] > 0, PdCount(a) >= 1
  PROVE  LET end == Configured(core, c, a, m) IN
         /\ end.gives_up => Balanced(end.early)
         /\ ~end.gives_up =>
              /\ Balanced(end.bound)
              /\ end.unbound \in Core /\ Untouched(end.unbound, fresh)
              /\ \A x \in Objects \ low :
                   end.unbound.count[x] >= CoreCount(end.unbound, x) + PdCount(x)
              /\ \A x \in Objects \ (leaked \cup {a}) :
                   end.unbound.count[x] <= CoreCount(end.unbound, x) + PdCount(x)
  <1> DEFINE Missing(st, o) == o # None /\ st.count[o] = 0
             s1 == Dec([core EXCEPT !.ipc_buf_mo[c] = None], core.ipc_buf_mo[c])
             s2 == IF m = None THEN s1 ELSE [Inc(s1, m) EXCEPT !.ipc_buf_mo[c] = m]
             w == Dec([s2 EXCEPT !.binded_ads_id[c] = None], core.binded_ads_id[c])
             s3 == Inc(w, a)
             bound == [s3 EXCEPT !.binded_ads_id[c] = a]
             no_old_mo == Missing(core, core.ipc_buf_mo[c])
             no_mo == Missing(s1, m)
             gives_up == no_old_mo \/ no_mo \/ Missing(s2, core.binded_ads_id[c])
             early == IF no_old_mo THEN core ELSE IF no_mo THEN s1 ELSE s2
  <1>1. Configured(core, c, a, m) = [gives_up |-> gives_up, early |-> early, unbound |-> s3,
                                     bound |-> bound]
    BY DEF Configured
  <1>2. Balanced(core)
    BY Known DEF Balanced
  <1>3. /\ Balanced(s1) /\ s1.count[c] > 0 /\ s1.ipc_buf_mo[c] = None
        /\ s1.binded_ads_id = core.binded_ads_id
    BY <1>2, DropBuffer
  <1> HIDE DEF s1
  <1>4. ~no_mo => Balanced(s2) /\ s2.count[c] > 0 /\ s2.binded_ads_id = core.binded_ads_id
    <2>1. CASE m = None
      BY <1>3, <2>1
    <2>2. CASE m # None
      <3>1. SUFFICES ASSUME ~no_mo
                     PROVE  Balanced(s2) /\ s2.count[c] > 0 /\ s2.binded_ads_id = core.binded_ads_id
        OBVIOUS
      <3>2. m \in MOs /\ s1.count[m] \in Nat /\ s1.count[m] # 0
        BY <2>2, <3>1, <1>3, CoreTypes, Sets DEF Balanced
      <3>3. s1.count[m] > 0 /\ s2 = [Inc(s1, m) EXCEPT !.ipc_buf_mo[c] = m]
        BY <2>2, <3>2
      <3> HIDE DEF s2
      <3> QED
        BY <1>3, <3>2, <3>3, TakeBuffer
    <2> QED
      BY <2>1, <2>2
  <1> HIDE DEF s2
  <1>5. Balanced(early) \/ (no_mo /\ ~no_old_mo /\ early = s1) \/ early = core
    BY <1>4
  <1>6. Balanced(early)
    BY <1>2, <1>3, <1>5
  <1>7. ASSUME ~gives_up
        PROVE  /\ Balanced(bound)
               /\ s3 \in Core /\ Untouched(s3, fresh)
               /\ \A x \in Objects \ low : s3.count[x] >= CoreCount(s3, x) + PdCount(x)
               /\ \A x \in Objects \ (leaked \cup {a}) :
                    s3.count[x] <= CoreCount(s3, x) + PdCount(x)
    <2>1. Balanced(s2) /\ s2.count[c] > 0 /\ s2.binded_ads_id = core.binded_ads_id
      BY <1>4, <1>7
    <2>2. w = Dec([s2 EXCEPT !.binded_ads_id[c] = None], s2.binded_ads_id[c])
      BY <2>1
    <2>3. Balanced(w) /\ w.count[c] > 0 /\ w.binded_ads_id[c] = None
      <3> HIDE DEF w
      <3> QED
        BY <2>1, <2>2, DropBind
    <2> HIDE DEF w
    <2>4. /\ w \in Core /\ Untouched(w, fresh) /\ fresh \in SUBSET Objects
          /\ a \in Objects /\ c \in Objects /\ a # c
          /\ \A x \in Objects : w.count[x] \in Nat /\ CoreCount(w, x) \in Nat /\ PdCount(x) \in Nat
      BY <2>3, Known, CoreTypes, RefSets, Sets DEF Balanced
    <2>5. /\ s3 \in Core /\ Untouched(s3, fresh)
          /\ \A x \in Objects : s3.count[x] = w.count[x] + One(x = a /\ w.count[a] > 0)
          /\ \A x : CoreCount(s3, x) = CoreCount(w, x)
          /\ s3.binded_ads_id = w.binded_ads_id
      BY <2>4, IncEffect
    <2> HIDE DEF s3
    <2>6. /\ \A x \in Objects \ low : s3.count[x] >= CoreCount(s3, x) + PdCount(x)
          /\ \A x \in Objects \ (leaked \cup {a}) : s3.count[x] <= CoreCount(s3, x) + PdCount(x)
      BY <2>3, <2>4, <2>5 DEF Balanced, One
    <2>7. s3.count[c] > 0
      BY <2>3, <2>4, <2>5 DEF One
    <2>8. a \notin low => w.count[a] > 0
      BY <2>3, <2>4 DEF Balanced
    <2>9. a \notin fresh
      <3>1. ASSUME a \in fresh PROVE FALSE
        <4>1. HoldRefs(a) = {} /\ DataRefs(a) = {} /\ AdsRefs(a) = {} /\ CpuRefs(a) = {}
          BY <3>1, Known DEF HoldRefs, DataRefs, AdsRefs, CpuRefs, CoreRefsInv, FreshPds
        <4>2. PdCount(a) = 0
          BY <4>1, FS_EmptySet DEF PdCount
        <4> QED
          BY <4>2
      <3> QED
        BY <3>1
    <2>10. /\ bound \in Core /\ bound.count = s3.count
           /\ \A x \in Objects : CoreCount(bound, x) + One(s3.binded_ads_id[c] = x)
                                   = CoreCount(s3, x) + One(a = x)
           /\ Untouched(bound, fresh)
      <3>1. a \in ADSs \cup {None}
        OBVIOUS
      <3>2. /\ bound \in Core /\ bound.count = s3.count
            /\ \A x \in Objects : CoreCount(bound, x) + One(s3.binded_ads_id[c] = x)
                                    = CoreCount(s3, x) + One(a = x)
            /\ \A F \in SUBSET Objects : a \notin F /\ Untouched(s3, F) => Untouched(bound, F)
        BY <3>1, <2>5, <2>7, SetBindEffect
      <3> HIDE DEF bound
      <3> QED
        BY <3>2, <2>4, <2>5, <2>9
    <2> HIDE DEF bound
    <2>11. \A x \in Objects : CoreCount(bound, x) = CoreCount(w, x) + One(a = x)
      BY <2>3, <2>5, <2>10, RefSets, Sets DEF One
    <2>12. ASSUME NEW x \in Objects
           PROVE  /\ x \notin low => bound.count[x] >= CoreCount(bound, x) + PdCount(x)
                  /\ x \notin leaked => bound.count[x] <= CoreCount(bound, x) + PdCount(x)
      <3>1. bound.count[x] = w.count[x] + One(x = a /\ w.count[a] > 0)
        BY <2>5, <2>10
      <3>2. /\ x \notin low => w.count[x] >= CoreCount(w, x) + PdCount(x)
            /\ x \notin leaked => w.count[x] <= CoreCount(w, x) + PdCount(x)
        BY <2>3 DEF Balanced
      <3>3. CASE x = a
        BY <3>1, <3>2, <3>3, <2>4, <2>8, <2>11 DEF One
      <3>4. CASE x # a
        BY <3>1, <3>2, <3>4, <2>4, <2>11 DEF One
      <3> QED
        BY <3>3, <3>4
    <2> QED
      BY <2>5, <2>6, <2>10, <2>12 DEF Balanced
  <1> HIDE DEF s3, bound, early, gives_up
  <1> QED
    BY <1>1, <1>6, <1>7

\* handle_config_req
LEMMA ConfigureInv ==
  ASSUME CoreRefsInv, NEW p \in PDs, NEW c \in CPUs, NEW a \in ADSs, NEW cap \in MOs \cup {None},
         Configure(p, c, a, cap)
  PROVE  CoreRefsInv'
  <1> DEFINE badge == IF cap = None THEN stale_badge ELSE cap
             m == IF Registered(badge) THEN badge ELSE None
             end == Configured(core, c, a, m)
  <1>1. /\ Request(p) /\ core.count[c] > 0 /\ hold[p][a] > 0 /\ stale_badge' = badge
        /\ \/ end.gives_up /\ core' = end.early /\ UNCHANGED leaked
           \/ ~end.gives_up /\ core' = end.bound /\ UNCHANGED leaked
           \/ ~end.gives_up /\ core' = end.unbound /\ leaked' = leaked \cup {a}
        /\ UNCHANGED <<fresh, pdVars, low>>
    BY DEF Configure, Has, Registered
  <1>2. badge \in MOs \cup {None} /\ m \in MOs \cup {None}
    BY Known DEF TypeOK
  <1> HIDE DEF m, badge
  <1>3. requests' \in 0 .. MaxRequests /\ p \in pds
    BY <1>1, Known, RequestFacts
  <1>4. PdCount(a) >= 1
    <2>1. RefsOf(p, a) >= 1
      BY <1>1, <1>3 DEF RefsOf, One
    <2> QED
      BY <2>1, RefsOfCounted, Known
  <1>5. /\ end.gives_up => Balanced(end.early)
        /\ ~end.gives_up =>
             /\ Balanced(end.bound)
             /\ end.unbound \in Core /\ Untouched(end.unbound, fresh)
             /\ \A x \in Objects \ low :
                  end.unbound.count[x] >= CoreCount(end.unbound, x) + PdCount(x)
             /\ \A x \in Objects \ (leaked \cup {a}) :
                  end.unbound.count[x] <= CoreCount(end.unbound, x) + PdCount(x)
    BY <1>1, <1>2, <1>4, ConfiguredEffect
  <1> HIDE DEF end
  <1>6. leaked \subseteq Objects /\ a \in Objects
    BY Known, Sets DEF TypeOK
  <1>7. /\ core' \in Core /\ Untouched(core', fresh) /\ leaked' \subseteq Objects
        /\ \A x \in Objects \ low : core'.count[x] >= CoreCount(core', x) + PdCount(x)
        /\ \A x \in Objects \ leaked' : core'.count[x] <= CoreCount(core', x) + PdCount(x)
    BY <1>1, <1>5, <1>6 DEF Balanced
  <1> QED
    BY <1>1, <1>2, <1>3, <1>7, CoreStep

-----------------------------------------------------------------------------
(* Requests that change what a PD refers to *)

\* A handler changes one PD, which refers to nothing that is not allocated.
LEMMA PdStep ==
  ASSUME CoreRefsInv, TypeOK', NEW q \in PDs, q \in created', created \subseteq created',
         fresh' \subseteq fresh, pds' \ {q} = pds \ {q}, set_up' \ {q} = set_up \ {q},
         \A p \in PDs \ {q} : /\ hold'[p] = hold[p] /\ shared_data_mo'[p] = shared_data_mo[p]
                              /\ ads_conn'[p] = ads_conn[p] /\ cpu_conn'[p] = cpu_conn[p],
         \A o \in fresh' : /\ hold'[q][o] = 0 /\ ads_conn'[q] # o /\ cpu_conn'[q] # o
                           /\ shared_data_mo'[q] # o,
         q \in set_up' => ads_conn'[q] # None /\ cpu_conn'[q] # None
  PROVE  /\ FreshPds' /\ NewPds' /\ Connected'
         /\ \A x \in Objects : /\ PdCount(x)' + RefsOf(q, x) = PdCount(x) + RefsOf(q, x)'
                               /\ PdCount(x)' \in Nat
  <1>1. FreshPds'
    <2>1. ASSUME NEW o \in fresh', NEW p \in PDs
          PROVE  /\ hold'[p][o] = 0 /\ ads_conn'[p] # o /\ cpu_conn'[p] # o
                 /\ shared_data_mo'[p] # o
      <3>1. CASE p = q
        BY <3>1
      <3>2. CASE p # q
        BY <3>2 DEF CoreRefsInv, FreshPds
      <3> QED
        BY <3>1, <3>2
    <2> QED
      BY <2>1 DEF FreshPds
  <1>2. NewPds'
    BY DEF CoreRefsInv, NewPds
  <1>3. ASSUME NEW x \in Objects
        PROVE  /\ PdCount(x)' + RefsOf(q, x) = PdCount(x) + RefsOf(q, x)'
               /\ PdCount(x)' \in Nat
    BY Known, PdMove
  <1>4. Connected'
    <2>1. ASSUME NEW p \in set_up'
          PROVE  ads_conn'[p] # None /\ cpu_conn'[p] # None
      <3>1. p \in PDs
        BY DEF TypeOK
      <3>2. CASE p = q
        BY <3>2
      <3>3. CASE p # q
        BY <3>1, <3>3 DEF CoreRefsInv, Connected
      <3> QED
        BY <3>2, <3>3
    <2> QED
      BY <2>1 DEF Connected
  <1> QED
    BY <1>1, <1>2, <1>3, <1>4

\* An entry of a hold registry is set.
LEMMA HoldSet ==
  ASSUME NEW h \in [PDs -> [Objects -> Nat]], NEW p \in PDs, NEW o \in Objects, NEW n \in Nat
  PROVE  LET g == [h EXCEPT ![p][o] = n] IN
         /\ g \in [PDs -> [Objects -> Nat]]
         /\ \A q \in PDs \ {p} : g[q] = h[q]
         /\ \A x \in Objects : g[p][x] = IF x = o THEN n ELSE h[p][x]
  OBVIOUS

\* An entry of a hold registry is set and nothing else of the PDs changes.
LEMMA HoldStep ==
  ASSUME CoreRefsInv, NEW q \in pds, NEW o \in Objects, NEW n \in Nat,
         hold' = [hold EXCEPT ![q][o] = n],
         UNCHANGED <<pds, created, set_up, ads_conn, cpu_conn, shared_data_mo, stale_badge>>,
         fresh' \subseteq fresh, o \notin fresh', core' \in Core, Untouched(core', fresh'),
         low' \subseteq Objects, leaked' \subseteq Objects, requests' \in 0 .. MaxRequests
  PROVE  /\ TypeOK' /\ Untouched(core, fresh)' /\ FreshPds' /\ NewPds' /\ Connected'
         /\ \A x \in Objects : /\ PdCount(x)' + One(x = o /\ hold[q][o] > 0)
                                    = PdCount(x) + One(x = o /\ n > 0)
                               /\ PdCount(x)' \in Nat
  <1>1. /\ q \in PDs /\ q \in created /\ hold \in [PDs -> [Objects -> Nat]]
        /\ fresh \subseteq Objects
    BY Known DEF TypeOK
  <1>2. /\ hold' \in [PDs -> [Objects -> Nat]]
        /\ \A p \in PDs \ {q} : hold'[p] = hold[p]
        /\ \A x \in Objects : hold'[q][x] = IF x = o THEN n ELSE hold[q][x]
    BY <1>1, HoldSet
  <1>3. TypeOK'
    BY <1>1, <1>2 DEF CoreRefsInv, TypeOK
  <1>4. \A x \in fresh' : /\ hold'[q][x] = 0 /\ ads_conn'[q] # x /\ cpu_conn'[q] # x
                          /\ shared_data_mo'[q] # x
    BY <1>1, <1>2 DEF CoreRefsInv, FreshPds
  <1>5. q \in set_up' => ads_conn'[q] # None /\ cpu_conn'[q] # None
    BY DEF CoreRefsInv, Connected
  <1>6. /\ FreshPds' /\ NewPds' /\ Connected'
        /\ \A x \in Objects : /\ PdCount(x)' + RefsOf(q, x) = PdCount(x) + RefsOf(q, x)'
                              /\ PdCount(x)' \in Nat
    BY <1>1, <1>2, <1>3, <1>4, <1>5, PdStep
  <1>7. ASSUME NEW x \in Objects
        PROVE  PdCount(x)' + One(x = o /\ hold[q][o] > 0) = PdCount(x) + One(x = o /\ n > 0)
    <2> DEFINE rest == One(q \in pds /\ shared_data_mo[q] = x)
                         + One(q \in set_up /\ ads_conn[q] = x) + One(q \in set_up /\ cpu_conn[q] = x)
    <2>1. RefsOf(q, x) = One(hold[q][x] > 0) + rest /\ rest \in Nat
      BY DEF RefsOf, One
    <2>2. RefsOf(q, x)' = One(hold'[q][x] > 0) + rest
      BY DEF RefsOf, One
    <2> HIDE DEF rest
    <2>3. PdCount(x) \in Nat /\ PdCount(x)' \in Nat
      BY <1>6, Known
    <2> QED
      BY <1>2, <1>6, <2>1, <2>2, <2>3 DEF One
  <1>8. Untouched(core, fresh)'
    BY DEF Untouched
  <1> QED
    BY <1>3, <1>6, <1>7, <1>8

\* resource_component_allocate, whether the client gets the object or not
LEMMA AllocateInv ==
  ASSUME CoreRefsInv, NEW p \in PDs, NEW o \in Objects, Allocate(p, o)
  PROVE  CoreRefsInv'
  <1>1. /\ Request(p) /\ o \in fresh /\ fresh' = fresh \ {o}
        /\ core' = [core EXCEPT !.count[o] = 1]
        /\ UNCHANGED <<pds, created, set_up, ads_conn, cpu_conn, shared_data_mo, stale_badge,
                       low>>
    BY DEF Allocate
  <1>2. p \in pds /\ requests' \in 0 .. MaxRequests
    BY <1>1, Known, RequestFacts
  <1>3. /\ core' \in Core /\ core.count[o] = 0
        /\ \A x \in Objects : core'.count[x] = IF x = o THEN 1 ELSE core.count[x]
        /\ \A x \in Objects : CoreCount(core', x) = CoreCount(core, x)
        /\ Untouched(core', fresh')
    <2>1. core \in Core /\ fresh \in SUBSET Objects /\ Untouched(core, fresh)
      BY Known
    <2>2. /\ core' \in Core /\ Registering(core, core', o)
          /\ \A x \in Objects : core'.count[x] = IF x = o THEN 1 ELSE core.count[x]
      BY <1>1, <2>1 DEF Core, Registering
    <2>3. PICK t \in Core : t = core'
      BY <2>2
    <2>4. o \in fresh /\ Registering(core, t, o)
      BY <1>1, <2>2, <2>3
    <2>5. /\ core.count[o] = 0
          /\ \A x \in Objects : CoreCount(t, x) = CoreCount(core, x)
          /\ Untouched(t, fresh \ {o})
      BY <2>1, <2>4, RegisterEffect
    <2> QED
      BY <1>1, <2>2, <2>3, <2>5
  <1>4. low' \subseteq Objects /\ leaked \subseteq Objects /\ hold[p][o] = 0
    BY <1>1 DEF CoreRefsInv, TypeOK, FreshPds
  <1>5. CASE hold' = [hold EXCEPT ![p][o] = 1] /\ leaked' = leaked
    <2>1. /\ TypeOK' /\ Untouched(core, fresh)' /\ FreshPds' /\ NewPds' /\ Connected'
          /\ \A x \in Objects : /\ PdCount(x)' + One(x = o /\ hold[p][o] > 0)
                                     = PdCount(x) + One(x = o /\ 1 > 0)
                                /\ PdCount(x)' \in Nat
      BY <1>1, <1>2, <1>3, <1>4, <1>5, HoldStep
    <2>2. \A x \in Objects : PdCount(x)' = PdCount(x) + One(x = o)
      BY <1>4, <2>1, Known DEF One
    <2>3. /\ \A x \in Objects \ low' : core'.count[x] >= CoreCount(core', x) + PdCount(x)'
          /\ \A x \in Objects \ leaked' : core'.count[x] <= CoreCount(core', x) + PdCount(x)'
      BY <1>1, <1>3, <1>5, <2>2, Known DEF One
    <2> QED
      BY <2>1, <2>3, Conclude
  <1>6. CASE hold' = hold /\ leaked' = leaked \cup {o}
    <2>1. UNCHANGED <<pdVars, low>> /\ leaked' \subseteq Objects /\ fresh' \subseteq fresh
          /\ stale_badge' \in MOs \cup {None}
      BY <1>1, <1>4, <1>6, Known DEF pdVars, TypeOK
    <2>2. /\ \A x \in Objects \ low : core'.count[x] >= CoreCount(core', x) + PdCount(x)
          /\ \A x \in Objects \ leaked' : core'.count[x] <= CoreCount(core', x) + PdCount(x)
      BY <1>3, <1>6, Known
    <2> QED
      BY <1>2, <1>3, <2>1, <2>2, CoreStep
  <1> QED
    BY <1>5, <1>6 DEF Allocate

\* The disconnect handlers.
LEMMA DisconnectInv ==
  ASSUME CoreRefsInv, NEW p \in PDs, NEW o \in Objects, Disconnect(p, o)
  PROVE  CoreRefsInv'
  <1> DEFINE n == hold[p][o] - 1
  <1>1. /\ Request(p) /\ hold[p][o] > 0 /\ core.count[o] > 0
        /\ hold' = [hold EXCEPT ![p][o] = n]
        /\ core' = IF hold'[p][o] = 0 THEN Dec(core, o) ELSE core
        /\ UNCHANGED <<fresh, pds, created, set_up, ads_conn, cpu_conn, shared_data_mo,
                       stale_badge, low, leaked>>
    BY DEF Disconnect, Has, Registered
  <1>2. /\ p \in pds /\ requests' \in 0 .. MaxRequests /\ hold[p][o] \in Nat
        /\ hold \in [PDs -> [Objects -> Nat]] /\ core \in Core /\ fresh \in SUBSET Objects
        /\ Untouched(core, fresh) /\ low' \subseteq Objects /\ leaked' \subseteq Objects
    BY <1>1, Known, RequestFacts DEF TypeOK
  <1>3. n \in Nat /\ hold'[p][o] = n /\ o \notin fresh
    BY <1>1, <1>2, HoldSet DEF Untouched
  <1> HIDE DEF n
  <1>4. PICK gone \in [Objects -> Nat] :
          /\ \A x \in Objects : core'.count[x] = CountAfter(core.count[x],
                                                            One(x = o /\ n = 0) + gone[x])
          /\ \A x \in Objects : CoreCount(core', x) + gone[x] = CoreCount(core, x)
    <2>1. CASE n = 0
      <3>1. core' = Dec(core, o)
        BY <1>1, <1>3, <2>1
      <3>2. PICK gone \in [Objects -> Nat] :
              /\ \A x \in Objects : core'.count[x] = CountAfter(core.count[x], One(x = o) + gone[x])
              /\ \A x \in Objects : CoreCount(core', x) + gone[x] = CoreCount(core, x)
        BY <1>2, <3>1, DecEffect
      <3>3. \A x \in Objects : One(x = o) = One(x = o /\ n = 0)
        BY <2>1 DEF One
      <3> QED
        BY <3>2, <3>3
    <2>2. CASE n # 0
      <3> DEFINE gone == [x \in Objects |-> 0]
      <3>1. core' = core /\ gone \in [Objects -> Nat]
        BY <1>1, <1>3, <2>2
      <3>2. \A x \in Objects : core'.count[x] = CountAfter(core.count[x],
                                                          One(x = o /\ n = 0) + gone[x])
        BY <2>2, <3>1, Known DEF CountAfter, One
      <3>3. \A x \in Objects : CoreCount(core', x) + gone[x] = CoreCount(core, x)
        BY <3>1, Known
      <3> QED
        BY <3>1, <3>2, <3>3
    <2> QED
      BY <2>1, <2>2
  <1>5. core' \in Core /\ Untouched(core', fresh')
    BY <1>1, <1>2, DecEffect
  <1>6. /\ TypeOK' /\ Untouched(core, fresh)' /\ FreshPds' /\ NewPds' /\ Connected'
        /\ \A x \in Objects : /\ PdCount(x)' + One(x = o /\ hold[p][o] > 0)
                                   = PdCount(x) + One(x = o /\ n > 0)
                              /\ PdCount(x)' \in Nat
    BY <1>1, <1>2, <1>3, <1>5, HoldStep
  <1>7. ASSUME NEW x \in Objects
        PROVE  /\ x \notin low' => core'.count[x] >= CoreCount(core', x) + PdCount(x)'
               /\ x \notin leaked' => core'.count[x] <= CoreCount(core', x) + PdCount(x)'
    <2>1. PdCount(x)' + One(x = o /\ n = 0) = PdCount(x)
      BY <1>1, <1>3, <1>6, Known DEF One
    <2>2. /\ core'.count[x] = CountAfter(core.count[x], One(x = o /\ n = 0) + gone[x])
          /\ CoreCount(core', x) + gone[x] = CoreCount(core, x)
      BY <1>4
    <2>3. /\ CoreCount(core', x) \in Nat /\ gone[x] \in Nat /\ One(x = o /\ n = 0) \in Nat
          /\ PdCount(x)' \in Nat
      BY <1>6, RefSets DEF One
    <2> QED
      BY <1>1, <2>1, <2>2, <2>3, Known DEF CountAfter
  <1> QED
    BY <1>6, <1>7, Conclude

\* pd_send_cap
LEMMA SendCapInv ==
  ASSUME CoreRefsInv, NEW p \in PDs, NEW q \in PDs, NEW o \in Objects, SendCap(p, q, o)
  PROVE  CoreRefsInv'
  <1> DEFINE n == hold[q][o] + 1
  <1>1. /\ Request(p) /\ core.count[o] > 0 /\ q \in pds
        /\ core' = Inc(core, o) /\ hold' = [hold EXCEPT ![q][o] = n]
        /\ leaked' = IF hold[q][o] > 0 THEN leaked \cup {o} ELSE leaked
        /\ UNCHANGED <<fresh, pds, created, set_up, ads_conn, cpu_conn, shared_data_mo,
                       stale_badge, low>>
    BY DEF SendCap, Has, Registered
  <1>2. /\ requests' \in 0 .. MaxRequests /\ hold[q][o] \in Nat
        /\ core \in Core /\ fresh \in SUBSET Objects
        /\ Untouched(core, fresh) /\ low' \subseteq Objects /\ leaked' \subseteq Objects
    BY <1>1, Known, RequestFacts DEF TypeOK
  <1>3. n \in Nat /\ n > 0 /\ o \notin fresh'
    BY <1>1, <1>2 DEF Untouched
  <1> HIDE DEF n
  <1>4. /\ core' \in Core /\ Untouched(core', fresh')
        /\ \A x \in Objects : core'.count[x] = core.count[x] + One(x = o /\ core.count[o] > 0)
        /\ \A x : CoreCount(core', x) = CoreCount(core, x)
    BY <1>1, <1>2, IncEffect
  <1>5. /\ TypeOK' /\ Untouched(core, fresh)' /\ FreshPds' /\ NewPds' /\ Connected'
        /\ \A x \in Objects : /\ PdCount(x)' + One(x = o /\ hold[q][o] > 0)
                                   = PdCount(x) + One(x = o /\ n > 0)
                              /\ PdCount(x)' \in Nat
    BY <1>1, <1>2, <1>3, <1>4, HoldStep
  <1>6. ASSUME NEW x \in Objects
        PROVE  /\ x \notin low' => core'.count[x] >= CoreCount(core', x) + PdCount(x)'
               /\ x \notin leaked' => core'.count[x] <= CoreCount(core', x) + PdCount(x)'
    <2>1. core'.count[x] = core.count[x] + One(x = o) /\ CoreCount(core', x) = CoreCount(core, x)
      BY <1>1, <1>4 DEF One
    <2>2. PdCount(x)' + One(x = o /\ hold[q][o] > 0) = PdCount(x) + One(x = o)
      BY <1>3, <1>5 DEF One
    <2>3. x \notin leaked' => x \notin leaked /\ ~(x = o /\ hold[q][o] > 0)
      BY <1>1
    <2> QED
      BY <1>1, <1>5, <2>1, <2>2, <2>3, Known DEF One
  <1> QED
    BY <1>5, <1>6, Conclude

\* pd_send_cap with pd_set_core_cap.
LEMMA SendCoreCapInv ==
  ASSUME CoreRefsInv, NEW p \in PDs, NEW q \in PDs, NEW o \in Objects, SendCoreCap(p, q, o)
  PROVE  CoreRefsInv'
  <1> DEFINE old == IF o \in ADSs THEN ads_conn[q] ELSE cpu_conn[q]
             u == Inc(core, o)
             n == hold[q][o] + 1
  <1>1. /\ Request(p) /\ core.count[o] > 0 /\ q \in pds /\ o \in ADSs \cup CPUs
        /\ core' = Dec(u, old)
        /\ low' = IF old = None THEN low ELSE low \cup {IF q \in set_up THEN o ELSE old}
        /\ ads_conn' = IF o \in ADSs THEN [ads_conn EXCEPT ![q] = o] ELSE ads_conn
        /\ cpu_conn' = IF o \in CPUs THEN [cpu_conn EXCEPT ![q] = o] ELSE cpu_conn
        /\ hold' = [hold EXCEPT ![q][o] = n]
        /\ leaked' = IF hold[q][o] > 0 THEN leaked \cup {o} ELSE leaked
        /\ UNCHANGED <<fresh, pds, created, set_up, shared_data_mo, stale_badge>>
    BY DEF SendCoreCap, Has, Registered
  <1>2. /\ requests' \in 0 .. MaxRequests /\ hold[q][o] \in Nat
        /\ core \in Core /\ fresh \in SUBSET Objects /\ Untouched(core, fresh)
        /\ low \subseteq Objects /\ leaked \subseteq Objects
        /\ hold \in [PDs -> [Objects -> Nat]] /\ q \in created
        /\ ads_conn \in [PDs -> ADSs \cup {None}] /\ cpu_conn \in [PDs -> CPUs \cup {None}]
    BY <1>1, Known, RequestFacts DEF TypeOK
  <1>3. n \in Nat /\ n > 0 /\ o \notin fresh' /\ old \in Objects \cup {None}
    BY <1>1, <1>2, Sets DEF Untouched
  <1>4. q \in set_up => old # None
    BY DEF CoreRefsInv, Connected
  <1>5. /\ ads_conn' \in [PDs -> ADSs \cup {None}] /\ cpu_conn' \in [PDs -> CPUs \cup {None}]
        /\ \A y \in PDs \ {q} : ads_conn'[y] = ads_conn[y] /\ cpu_conn'[y] = cpu_conn[y]
        /\ o \in ADSs => /\ ads_conn'[q] = o /\ cpu_conn'[q] = cpu_conn[q]
                         /\ old = ads_conn[q]
        /\ o \in CPUs => /\ cpu_conn'[q] = o /\ ads_conn'[q] = ads_conn[q]
                         /\ old = cpu_conn[q]
    BY <1>1, <1>2, Sets
  <1>6. /\ hold' \in [PDs -> [Objects -> Nat]]
        /\ \A y \in PDs \ {q} : hold'[y] = hold[y]
        /\ \A x \in Objects : hold'[q][x] = IF x = o THEN n ELSE hold[q][x]
    BY <1>1, <1>2, <1>3, HoldSet
  <1>7. low' \subseteq Objects /\ leaked' \subseteq Objects
    BY <1>1, <1>2, <1>3
  <1> HIDE DEF n, old
  <1>8. /\ u \in Core /\ Untouched(u, fresh)
        /\ \A x \in Objects : u.count[x] = core.count[x] + One(x = o /\ core.count[o] > 0)
        /\ \A x : CoreCount(u, x) = CoreCount(core, x)
    BY <1>2, IncEffect
  <1> HIDE DEF u
  <1>9. core' \in Core /\ Untouched(core', fresh')
    BY <1>1, <1>2, <1>8, DecEffect
  <1>10. PICK gone \in [Objects -> Nat] :
           /\ \A x \in Objects : core'.count[x] = CountAfter(u.count[x], One(x = old) + gone[x])
           /\ \A x \in Objects : CoreCount(core', x) + gone[x] = CoreCount(u, x)
    BY <1>1, <1>8, DecEffect
  <1>11. TypeOK'
    BY <1>1, <1>2, <1>5, <1>6, <1>7, <1>9 DEF CoreRefsInv, TypeOK
  <1>12. \A x \in fresh' : /\ hold'[q][x] = 0 /\ ads_conn'[q] # x /\ cpu_conn'[q] # x
                           /\ shared_data_mo'[q] # x
    BY <1>1, <1>2, <1>3, <1>5, <1>6 DEF CoreRefsInv, FreshPds
  <1>13. q \in set_up' => ads_conn'[q] # None /\ cpu_conn'[q] # None
    BY <1>1, <1>5, Sets DEF CoreRefsInv, Connected
  <1>14. /\ FreshPds' /\ NewPds' /\ Connected'
         /\ \A x \in Objects : /\ PdCount(x)' + RefsOf(q, x) = PdCount(x) + RefsOf(q, x)'
                               /\ PdCount(x)' \in Nat
    BY <1>1, <1>2, <1>5, <1>6, <1>11, <1>12, <1>13, PdStep
  <1>15. ASSUME NEW x \in Objects
         PROVE  /\ RefsOf(q, x)' + One(x = o /\ hold[q][o] > 0) + One(q \in set_up /\ old = x)
                     = RefsOf(q, x) + One(x = o) + One(q \in set_up /\ o = x)
                /\ RefsOf(q, x) \in Nat /\ RefsOf(q, x)' \in Nat
    <2>1. RefsOf(q, x) = One(hold[q][x] > 0) + One(shared_data_mo[q] = x)
            + One(q \in set_up /\ ads_conn[q] = x) + One(q \in set_up /\ cpu_conn[q] = x)
      BY <1>1 DEF RefsOf, One
    <2>2. RefsOf(q, x)' = One(hold'[q][x] > 0) + One(shared_data_mo[q] = x)
            + One(q \in set_up /\ ads_conn'[q] = x) + One(q \in set_up /\ cpu_conn'[q] = x)
      BY <1>1 DEF RefsOf, One
    <2>3. One(hold'[q][x] > 0) + One(x = o /\ hold[q][o] > 0) = One(hold[q][x] > 0) + One(x = o)
      BY <1>3, <1>6 DEF One
    <2>4. CASE o \in ADSs
      BY <2>1, <2>2, <2>3, <2>4, <1>5 DEF One
    <2>5. CASE o \in CPUs
      BY <2>1, <2>2, <2>3, <2>5, <1>5 DEF One
    <2> QED
      BY <1>1, <2>4, <2>5
  <1>16. ASSUME NEW x \in Objects
         PROVE  /\ x \notin low' => core'.count[x] >= CoreCount(core', x) + PdCount(x)'
                /\ x \notin leaked' => core'.count[x] <= CoreCount(core', x) + PdCount(x)'
    <2>1. /\ core'.count[x] = CountAfter(core.count[x] + One(x = o), One(old = x) + gone[x])
          /\ CoreCount(core', x) + gone[x] = CoreCount(core, x)
      BY <1>1, <1>8, <1>10 DEF One
    <2>2. PdCount(x)' + One(x = o /\ hold[q][o] > 0) + One(q \in set_up /\ old = x)
            = PdCount(x) + One(x = o) + One(q \in set_up /\ o = x)
      <3>1. /\ One(x = o /\ hold[q][o] > 0) \in Nat /\ One(q \in set_up /\ old = x) \in Nat
            /\ One(x = o) \in Nat /\ One(q \in set_up /\ o = x) \in Nat
        BY DEF One
      <3>2. PdCount(x) \in Nat /\ PdCount(x)' \in Nat
        BY <1>14, Known
      <3> QED
        BY <1>14, <1>15, <3>1, <3>2
    <2>3. /\ x \notin leaked' => x \notin leaked /\ ~(x = o /\ hold[q][o] > 0)
          /\ x \notin low' => x \notin low /\ (old # None /\ q \in set_up => x # o)
                                           /\ (old # None /\ q \notin set_up => x # old)
      BY <1>1
    <2>4. /\ CoreCount(core', x) \in Nat /\ gone[x] \in Nat /\ PdCount(x)' \in Nat
          /\ CoreCount(core, x) \in Nat /\ PdCount(x) \in Nat /\ core.count[x] \in Nat
      BY <1>14, RefSets, Known
    <2>5. x \notin low' => core'.count[x] >= CoreCount(core', x) + PdCount(x)'
      <3>1. SUFFICES ASSUME x \notin low'
                     PROVE  core'.count[x] >= CoreCount(core', x) + PdCount(x)'
        OBVIOUS
      <3>2. core.count[x] >= CoreCount(core, x) + PdCount(x)
        BY <2>3, <3>1, Known
      <3>3. CASE q \in set_up
        BY <1>4, <2>1, <2>2, <2>3, <2>4, <3>1, <3>2, <3>3 DEF CountAfter, One
      <3>4. CASE q \notin set_up
        <4>1. One(old = x) = 0
          BY <2>3, <3>1, <3>4, Sets DEF One
        <4> QED
          BY <4>1, <2>1, <2>2, <2>4, <3>2, <3>4 DEF CountAfter, One
      <3> QED
        BY <3>3, <3>4
    <2>6. x \notin leaked' => core'.count[x] <= CoreCount(core', x) + PdCount(x)'
      <3>1. SUFFICES ASSUME x \notin leaked'
                     PROVE  core'.count[x] <= CoreCount(core', x) + PdCount(x)'
        OBVIOUS
      <3>2. core.count[x] <= CoreCount(core, x) + PdCount(x) /\ ~(x = o /\ hold[q][o] > 0)
        BY <2>3, <3>1, Known
      <3> QED
        BY <2>1, <2>2, <2>4, <3>2 DEF CountAfter, One
    <2> QED
      BY <2>5, <2>6
  <1>17. Untouched(core, fresh)'
    BY <1>9 DEF Untouched
  <1> QED
    BY <1>11, <1>14, <1>16, <1>17, Conclude

\* handle_share_resource_type_req: an MO that a PD holds exists.
LEMMA ShareMosInv ==
  ASSUME CoreRefsInv, NEW p \in PDs, NEW q \in PDs, ShareMos(p, q)
  PROVE  CoreRefsInv'
  <1> DEFINE shared == {m \in MOs : hold[p][m] > 0}
             count == [o \in Objects |-> IF o \in shared /\ core.count[o] > 0
                                         THEN core.count[o] + 1 ELSE core.count[o]]
             entries == [o \in Objects |-> hold[q][o] + Once(shared)[o]]
  <1>1. /\ Request(p) /\ q \in pds
        /\ core' = [core EXCEPT !.count = count]
        /\ hold' = [hold EXCEPT ![q] = entries]
        /\ leaked' = leaked \cup {m \in shared : hold[q][m] > 0}
        /\ UNCHANGED <<fresh, pds, created, set_up, ads_conn, cpu_conn, shared_data_mo,
                       stale_badge, low>>
    BY DEF ShareMos
  <1>2. /\ p \in pds /\ requests' \in 0 .. MaxRequests
        /\ core \in Core /\ fresh \in SUBSET Objects /\ Untouched(core, fresh)
        /\ low' \subseteq Objects /\ leaked \subseteq Objects
        /\ hold \in [PDs -> [Objects -> Nat]] /\ q \in created
    BY <1>1, Known, RequestFacts DEF TypeOK
  <1>3. shared \subseteq Objects /\ leaked' \subseteq Objects /\ \A x \in fresh : x \notin shared
    BY <1>1, <1>2, Sets DEF CoreRefsInv, FreshPds
  <1>4. /\ count \in [Objects -> Nat]
        /\ \A x \in Objects : count[x] = core.count[x] + One(x \in shared /\ core.count[x] > 0)
    BY <1>2, CoreTypes DEF One
  <1>5. /\ entries \in [Objects -> Nat]
        /\ \A x \in Objects : entries[x] = hold[q][x] + One(x \in shared)
    BY <1>2 DEF Once, One
  <1>6. \A x \in shared : x \notin low => core.count[x] > 0
    <2>1. ASSUME NEW x \in shared, x \notin low PROVE core.count[x] > 0
      <3>1. RefsOf(p, x) >= 1
        BY <1>2, <2>1 DEF RefsOf, One
      <3> QED
        BY <3>1, <1>3, <2>1, RefsOfCounted, Known
    <2> QED
      BY <2>1
  <1> HIDE DEF count, entries, shared
  <1>7. /\ core' \in Core /\ core'.count = count /\ core'.attach = core.attach
        /\ core'.ipc_buf_mo = core.ipc_buf_mo /\ core'.binded_ads_id = core.binded_ads_id
    BY <1>1, <1>2, <1>4 DEF Core
  <1>8. \A x \in Objects : core.count[x] \in Nat /\ (core'.count[x] > 0 <=> core.count[x] > 0)
    BY <1>4, <1>7, Known DEF One
  <1>9. \A x : CoreCount(core', x) = CoreCount(core, x)
    BY <1>2, <1>7, <1>8, SameRefs, Sets
  <1>10. Untouched(core', fresh)
    <2>1. \A x \in fresh : core'.count[x] = 0
      BY <1>2, <1>3, <1>4, <1>7 DEF Untouched, One
    <2> QED
      BY <1>2, <1>7, <2>1 DEF Untouched
  <1>11. /\ hold' \in [PDs -> [Objects -> Nat]]
         /\ \A y \in PDs \ {q} : hold'[y] = hold[y]
         /\ hold'[q] = entries
    BY <1>1, <1>2, <1>5
  <1>12. TypeOK'
    BY <1>1, <1>2, <1>3, <1>7, <1>11 DEF CoreRefsInv, TypeOK
  <1>13. \A x \in fresh' : /\ hold'[q][x] = 0 /\ ads_conn'[q] # x /\ cpu_conn'[q] # x
                           /\ shared_data_mo'[q] # x
    <2>1. ASSUME NEW x \in fresh'
          PROVE  /\ hold'[q][x] = 0 /\ ads_conn'[q] # x /\ cpu_conn'[q] # x
                 /\ shared_data_mo'[q] # x
      <3>1. x \in fresh /\ x \in Objects /\ x \notin shared
        BY <1>1, <1>2, <1>3
      <3>2. /\ hold[q][x] = 0 /\ ads_conn[q] # x /\ cpu_conn[q] # x /\ shared_data_mo[q] # x
        BY <3>1 DEF CoreRefsInv, FreshPds
      <3> QED
        BY <1>1, <1>5, <1>11, <3>1, <3>2 DEF One
    <2> QED
      BY <2>1
  <1>14. q \in set_up' => ads_conn'[q] # None /\ cpu_conn'[q] # None
    BY <1>1 DEF CoreRefsInv, Connected
  <1>15. /\ FreshPds' /\ NewPds' /\ Connected'
         /\ \A x \in Objects : /\ PdCount(x)' + RefsOf(q, x) = PdCount(x) + RefsOf(q, x)'
                               /\ PdCount(x)' \in Nat
    BY <1>1, <1>2, <1>11, <1>12, <1>13, <1>14, PdStep
  <1>16. ASSUME NEW x \in Objects
         PROVE  /\ x \notin low' => core'.count[x] >= CoreCount(core', x) + PdCount(x)'
                /\ x \notin leaked' => core'.count[x] <= CoreCount(core', x) + PdCount(x)'
    <2> DEFINE rest == One(q \in pds /\ shared_data_mo[q] = x)
                         + One(q \in set_up /\ ads_conn[q] = x) + One(q \in set_up /\ cpu_conn[q] = x)
    <2>1. RefsOf(q, x) = One(hold[q][x] > 0) + rest /\ rest \in Nat
      BY <1>1 DEF RefsOf, One
    <2>2. RefsOf(q, x)' = One(hold'[q][x] > 0) + rest
      BY <1>1 DEF RefsOf, One
    <2>3. hold[q][x] \in Nat /\ hold'[q][x] = hold[q][x] + One(x \in shared)
      BY <1>2, <1>5, <1>11
    <2> HIDE DEF rest
    <2>4. /\ PdCount(x) \in Nat /\ PdCount(x)' \in Nat /\ core.count[x] \in Nat
          /\ CoreCount(core, x) \in Nat
      BY <1>15, Known
    <2>5. PdCount(x)' + One(x \in shared /\ hold[q][x] > 0) = PdCount(x) + One(x \in shared)
      BY <1>15, <2>1, <2>2, <2>3, <2>4 DEF One
    <2>6. /\ core'.count[x] = core.count[x] + One(x \in shared /\ core.count[x] > 0)
          /\ CoreCount(core', x) = CoreCount(core, x)
      BY <1>4, <1>7, <1>9
    <2>7. /\ x \notin leaked' => x \notin leaked /\ ~(x \in shared /\ hold[q][x] > 0)
          /\ x \notin low' => x \notin low
      BY <1>1
    <2> QED
      BY <1>6, <2>4, <2>5, <2>6, <2>7, Known DEF One
  <1>17. Untouched(core, fresh)'
    BY <1>1, <1>10 DEF Untouched
  <1> QED
    BY <1>12, <1>15, <1>16, <1>17, Conclude

\* handle_change_vspace_req
LEMMA ChangeVspaceInv ==
  ASSUME CoreRefsInv, NEW p \in PDs, NEW c \in CPUs, NEW a \in ADSs, ChangeVspace(p, c, a)
  PROVE  CoreRefsInv'
  <1> DEFINE before == core.binded_ads_id[c]
             old == ads_conn[p]
             u == Dec(core, old)
             v == Inc(u, a)
  <1>1. /\ Request(p) /\ core.count[c] > 0 /\ hold[p][a] > 0 /\ core.count[a] > 0
        /\ core' = [v EXCEPT !.binded_ads_id[c] = a]
        /\ ads_conn' = [ads_conn EXCEPT ![p] = a]
        /\ low' = IF before = a THEN low ELSE low \cup {a}
        /\ leaked' = IF before \in {a, None} THEN leaked ELSE leaked \cup {before}
        /\ UNCHANGED <<fresh, pds, created, set_up, hold, cpu_conn, shared_data_mo, stale_badge>>
    BY DEF ChangeVspace, Has, Registered
  <1>2. /\ p \in pds /\ p \in set_up /\ requests' \in 0 .. MaxRequests
        /\ core \in Core /\ fresh \in SUBSET Objects /\ Untouched(core, fresh)
        /\ low \subseteq Objects /\ leaked \subseteq Objects /\ p \in created
        /\ ads_conn \in [PDs -> ADSs \cup {None}] /\ a \in Objects /\ c \in Objects /\ a # c
    BY <1>1, Known, RequestFacts, Sets DEF TypeOK
  <1>3. /\ a \notin fresh /\ before \in ADSs \cup {None} /\ old \in ADSs \cup {None}
        /\ old \notin CPUs
    BY <1>1, <1>2, CoreTypes, Sets DEF Untouched
  <1>4. low' \subseteq Objects /\ leaked' \subseteq Objects
    BY <1>1, <1>2, <1>3, Sets
  <1>5. /\ ads_conn' \in [PDs -> ADSs \cup {None}] /\ ads_conn'[p] = a
        /\ \A y \in PDs \ {p} : ads_conn'[y] = ads_conn[y]
    BY <1>1, <1>2
  <1> HIDE DEF old
  <1>6. u \in Core /\ Untouched(u, fresh) /\ u.binded_ads_id = core.binded_ads_id
    BY <1>2, <1>3, DecEffect
  <1>7. PICK gone \in [Objects -> Nat] :
          /\ \A x \in Objects : u.count[x] = CountAfter(core.count[x], One(x = old) + gone[x])
          /\ \A x \in Objects : CoreCount(u, x) + gone[x] = CoreCount(core, x)
          /\ \A x \in CPUs : gone[x] = 0
    <2>1. core \in Core
      BY <1>2
    <2> QED
      BY <2>1, DecEffect, SMTT(30)
  <1> HIDE DEF u
  <1>8. /\ v \in Core /\ Untouched(v, fresh) /\ v.binded_ads_id = u.binded_ads_id
        /\ \A x \in Objects : v.count[x] = u.count[x] + One(x = a /\ u.count[a] > 0)
        /\ \A x : CoreCount(v, x) = CoreCount(u, x)
    BY <1>2, <1>6, IncEffect
  <1> HIDE DEF v
  <1>9. v.count[c] > 0
    <2>1. One(c = old) = 0 /\ gone[c] = 0 /\ core.count[c] \in Nat
      BY <1>2, <1>3, <1>7, Known DEF One
    <2>2. u.count[c] = CountAfter(core.count[c], 0 + 0)
      BY <1>2, <1>7, <2>1
    <2> QED
      BY <1>1, <1>2, <1>8, <2>1, <2>2 DEF CountAfter, One
  <1>10. /\ core' \in Core /\ core'.count = v.count
         /\ \A x \in Objects : CoreCount(core', x) + One(v.binded_ads_id[c] = x)
                                 = CoreCount(v, x) + One(a = x)
         /\ Untouched(core', fresh)
    <2>1. a \in ADSs \cup {None}
      OBVIOUS
    <2> DEFINE t == [v EXCEPT !.binded_ads_id[c] = a]
    <2>2. /\ t \in Core /\ t.count = v.count
          /\ \A x \in Objects : CoreCount(t, x) + One(v.binded_ads_id[c] = x)
                                  = CoreCount(v, x) + One(a = x)
          /\ \A F \in SUBSET Objects : a \notin F /\ Untouched(v, F) => Untouched(t, F)
      BY <2>1, <1>8, <1>9, SetBindEffect
    <2>3. core' = t
      BY <1>1
    <2> HIDE DEF t
    <2> QED
      BY <2>2, <2>3, <1>2, <1>3, <1>8
  <1>11. TypeOK'
    BY <1>1, <1>2, <1>4, <1>5, <1>10 DEF CoreRefsInv, TypeOK
  <1>12. \A x \in fresh' : /\ hold'[p][x] = 0 /\ ads_conn'[p] # x /\ cpu_conn'[p] # x
                           /\ shared_data_mo'[p] # x
    BY <1>1, <1>3, <1>5 DEF CoreRefsInv, FreshPds
  <1>13. p \in set_up' => ads_conn'[p] # None /\ cpu_conn'[p] # None
    BY <1>1, <1>2, <1>5, Sets DEF CoreRefsInv, Connected
  <1>14. /\ FreshPds' /\ NewPds' /\ Connected'
         /\ \A x \in Objects : /\ PdCount(x)' + RefsOf(p, x) = PdCount(x) + RefsOf(p, x)'
                               /\ PdCount(x)' \in Nat
    BY <1>1, <1>2, <1>5, <1>11, <1>12, <1>13, PdStep
  <1> HIDE DEF before
  <1>15. ASSUME NEW x \in Objects
         PROVE  /\ PdCount(x)' + One(old = x) = PdCount(x) + One(a = x)
                /\ PdCount(x) >= One(old = x)
                /\ x = a => PdCount(x) >= One(a = x) + One(old = x)
    <2> DEFINE rest == One(p \in pds /\ shared_data_mo[p] = x)
                         + One(p \in set_up /\ cpu_conn[p] = x)
    <2>1. RefsOf(p, x) = One(hold[p][x] > 0) + One(old = x) + rest /\ rest \in Nat
      BY <1>2 DEF RefsOf, One, old
    <2>2. RefsOf(p, x)' = One(hold[p][x] > 0) + One(a = x) + rest
      BY <1>1, <1>2, <1>5 DEF RefsOf, One
    <2>3. /\ One(hold[p][x] > 0) \in Nat /\ One(old = x) \in Nat /\ One(a = x) \in Nat
          /\ x = a => One(hold[p][x] > 0) = 1 /\ One(a = x) = 1
      BY <1>1 DEF One
    <2> HIDE DEF rest
    <2>4. PdCount(x) \in Nat /\ PdCount(x)' \in Nat /\ RefsOf(p, x) <= PdCount(x)
      BY <1>14, Known, RefsOfCounted
    <2>5. PdCount(x)' + One(old = x) = PdCount(x) + One(a = x)
      BY <1>14, <2>1, <2>2, <2>3, <2>4
    <2>6. CASE x = a
      BY <2>1, <2>3, <2>4, <2>5, <2>6
    <2>7. CASE x # a
      BY <2>1, <2>3, <2>4, <2>5, <2>7
    <2> QED
      BY <2>6, <2>7
  <1>16. ASSUME NEW x \in Objects
         PROVE  /\ x \notin low' => core'.count[x] >= CoreCount(core', x) + PdCount(x)'
                /\ x \notin leaked' => core'.count[x] <= CoreCount(core', x) + PdCount(x)'
    <2>1. /\ u.count[x] = CountAfter(core.count[x], One(old = x) + gone[x])
          /\ CoreCount(u, x) + gone[x] = CoreCount(core, x)
      BY <1>7 DEF One
    <2>2. /\ core'.count[x] = u.count[x] + One(x = a /\ u.count[x] > 0)
          /\ CoreCount(core', x) + One(before = x) = CoreCount(u, x) + One(a = x)
      BY <1>6, <1>8, <1>10 DEF One, before
    <2>3. /\ CoreCount(core', x) \in Nat /\ gone[x] \in Nat /\ PdCount(x)' \in Nat
          /\ CoreCount(core, x) \in Nat /\ PdCount(x) \in Nat /\ core.count[x] \in Nat
          /\ CoreCount(u, x) \in Nat
      BY <1>14, RefSets, Known
    <2>4. /\ x \notin leaked' => x \notin leaked /\ (before = x => x = a)
          /\ x \notin low' => x \notin low /\ (x = a => before = a)
      BY <1>1, Sets
    <2>5. /\ x \notin low => core.count[x] >= CoreCount(core, x) + PdCount(x)
          /\ x \notin leaked => core.count[x] <= CoreCount(core, x) + PdCount(x)
      BY Known
    <2>6. CASE x = a
      <3>1. /\ core'.count[x] = u.count[x] + One(u.count[x] > 0)
            /\ CoreCount(core', x) + One(before = x) = CoreCount(u, x) + 1
            /\ PdCount(x)' + One(old = x) = PdCount(x) + 1
            /\ PdCount(x) >= 1 + One(old = x)
        BY <1>15, <2>2, <2>6 DEF One
      <3> QED
        BY <3>1, <2>1, <2>3, <2>4, <2>5, <2>6 DEF CountAfter, One
    <2>7. CASE x # a
      <3>1. /\ core'.count[x] = u.count[x]
            /\ CoreCount(core', x) + One(before = x) = CoreCount(u, x)
            /\ PdCount(x)' + One(old = x) = PdCount(x)
        <4>1. u.count[x] \in Nat
          BY <1>6, CoreTypes
        <4> QED
          BY <4>1, <1>15, <2>2, <2>3, <2>7 DEF One
      <3> QED
        BY <3>1, <2>1, <2>3, <2>4, <2>5, <2>7 DEF CountAfter, One
    <2> QED
      BY <2>6, <2>7
  <1>17. Untouched(core, fresh)'
    BY <1>1, <1>10 DEF Untouched
  <1> QED
    BY <1>11, <1>14, <1>16, <1>17, Conclude

\* handle_pd_allocation
LEMMA CreatePdInv ==
  ASSUME CoreRefsInv, NEW p \in PDs, NEW q \in PDs, NEW m \in MOs, CreatePd(p, q, m)
  PROVE  CoreRefsInv'
  <1>1. /\ Request(p) /\ core.count[m] > 0 /\ q \notin created
        /\ pds' = pds \cup {q} /\ created' = created \cup {q}
        /\ shared_data_mo' = [shared_data_mo EXCEPT ![q] = m]
        /\ core' = Inc(core, m)
        /\ UNCHANGED <<fresh, set_up, hold, ads_conn, cpu_conn, stale_badge, low, leaked>>
    BY DEF CreatePd, Has, Registered
  <1>2. /\ requests' \in 0 .. MaxRequests /\ m \in Objects
        /\ core \in Core /\ fresh \in SUBSET Objects /\ Untouched(core, fresh)
        /\ q \notin pds /\ q \notin set_up /\ shared_data_mo \in [PDs -> MOs \cup {None}]
    BY <1>1, Known, RequestFacts, Sets DEF TypeOK
  <1>3. m \notin fresh
    BY <1>1, <1>2 DEF Untouched
  <1>4. /\ core' \in Core /\ Untouched(core', fresh)
        /\ \A x \in Objects : core'.count[x] = core.count[x] + One(x = m /\ core.count[m] > 0)
        /\ \A x : CoreCount(core', x) = CoreCount(core, x)
    BY <1>1, <1>2, IncEffect
  <1>5. /\ shared_data_mo' \in [PDs -> MOs \cup {None}] /\ shared_data_mo'[q] = m
        /\ \A y \in PDs \ {q} : shared_data_mo'[y] = shared_data_mo[y]
    BY <1>1, <1>2
  <1>6. TypeOK'
    BY <1>1, <1>2, <1>4, <1>5 DEF CoreRefsInv, TypeOK
  <1>7. \A x \in fresh' : /\ hold'[q][x] = 0 /\ ads_conn'[q] # x /\ cpu_conn'[q] # x
                          /\ shared_data_mo'[q] # x
    BY <1>1, <1>3, <1>5 DEF CoreRefsInv, FreshPds
  <1>8. /\ FreshPds' /\ NewPds' /\ Connected'
        /\ \A x \in Objects : /\ PdCount(x)' + RefsOf(q, x) = PdCount(x) + RefsOf(q, x)'
                              /\ PdCount(x)' \in Nat
    BY <1>1, <1>2, <1>5, <1>6, <1>7, PdStep
  <1>9. ASSUME NEW x \in Objects
        PROVE  /\ x \notin low' => core'.count[x] >= CoreCount(core', x) + PdCount(x)'
               /\ x \notin leaked' => core'.count[x] <= CoreCount(core', x) + PdCount(x)'
    <2>1. RefsOf(q, x) = 0
      BY <1>2 DEF RefsOf, One
    <2>2. hold[q][x] = 0
      BY <1>1 DEF CoreRefsInv, NewPds
    <2>3. RefsOf(q, x)' = One(m = x)
      BY <1>1, <1>2, <1>5, <2>2 DEF RefsOf, One
    <2>4. PdCount(x)' = PdCount(x) + One(m = x)
      BY <1>8, <2>1, <2>3, Known DEF One
    <2>5. core'.count[x] = core.count[x] + One(m = x) /\ CoreCount(core', x) = CoreCount(core, x)
      BY <1>1, <1>4 DEF One
    <2> QED
      BY <1>1, <2>4, <2>5, Known DEF One
  <1>10. Untouched(core, fresh)'
    BY <1>1, <1>4 DEF Untouched
  <1> QED
    BY <1>6, <1>8, <1>9, <1>10, Conclude

\* handle_runtime_setup_req: the first call with the connections of the PD
\* counts them, any other is a leak.
LEMMA RuntimeSetupInv ==
  ASSUME CoreRefsInv, NEW p \in PDs, NEW q \in PDs, NEW a \in ADSs, NEW c \in CPUs,
         RuntimeSetup(p, q, a, c)
  PROVE  CoreRefsInv'
  <1> DEFINE u == Inc(core, a)
             first == q \notin set_up /\ a = ads_conn[q] /\ c = cpu_conn[q]
  <1>1. /\ Request(p) /\ q \in pds
        /\ core.count[a] > 0 /\ core.count[c] > 0
        /\ core' = Inc(u, c)
        /\ first => set_up' = set_up \cup {q} /\ leaked' = leaked
        /\ ~first => set_up' = set_up /\ leaked' = leaked \cup {a, c}
        /\ UNCHANGED <<fresh, pds, created, hold, ads_conn, cpu_conn, shared_data_mo,
                       stale_badge, low>>
    BY DEF RuntimeSetup, Has, Registered
  <1>2. /\ requests' \in 0 .. MaxRequests /\ a # None /\ c # None
        /\ a \in Objects /\ c \in Objects /\ a # c
        /\ core \in Core /\ fresh \in SUBSET Objects /\ Untouched(core, fresh) /\ q \in created
    BY <1>1, Known, RequestFacts, Sets, CoreRefsAssumption DEF TypeOK
  <1>3. /\ u \in Core /\ Untouched(u, fresh)
        /\ \A x \in Objects : u.count[x] = core.count[x] + One(x = a /\ core.count[a] > 0)
        /\ \A x : CoreCount(u, x) = CoreCount(core, x)
    BY <1>2, IncEffect
  <1> HIDE DEF u
  <1>4. /\ core' \in Core /\ Untouched(core', fresh)
        /\ \A x \in Objects : core'.count[x] = u.count[x] + One(x = c /\ u.count[c] > 0)
        /\ \A x : CoreCount(core', x) = CoreCount(u, x)
    <2>1. PICK d \in Objects : d = c
      BY <1>2
    <2>2. /\ Inc(u, d) \in Core /\ Untouched(Inc(u, d), fresh)
          /\ \A x \in Objects : Inc(u, d).count[x] = u.count[x] + One(x = d /\ u.count[d] > 0)
          /\ \A x : CoreCount(Inc(u, d), x) = CoreCount(u, x)
      BY <1>2, <1>3, IncEffect
    <2> QED
      BY <1>1, <2>1, <2>2
  <1>5. ASSUME NEW x \in Objects
        PROVE  /\ core'.count[x] = core.count[x] + One(a = x) + One(c = x)
               /\ CoreCount(core', x) = CoreCount(core, x)
    <2>1. u.count[x] = core.count[x] + One(a = x) /\ u.count[c] = core.count[c]
      BY <1>1, <1>2, <1>3, Known DEF One
    <2> QED
      BY <1>1, <1>3, <1>4, <2>1, Known DEF One
  <1>10. CASE ~first
    <2>1. UNCHANGED <<pdVars, low>> /\ leaked' \subseteq Objects /\ fresh' \subseteq fresh
          /\ stale_badge' \in MOs \cup {None} /\ Untouched(core', fresh')
      BY <1>1, <1>2, <1>4, <1>10, Known DEF pdVars, TypeOK
    <2>2. ASSUME NEW x \in Objects
          PROVE  /\ x \notin low => core'.count[x] >= CoreCount(core', x) + PdCount(x)
                 /\ x \notin leaked' => core'.count[x] <= CoreCount(core', x) + PdCount(x)
      BY <1>1, <1>5, <1>10, Known DEF One
    <2> QED
      BY <1>2, <1>4, <2>1, <2>2, CoreStep
  <1>11. CASE first
    <2>1. TypeOK'
      BY <1>1, <1>2, <1>4, <1>11 DEF CoreRefsInv, TypeOK
    <2>2. \A x \in fresh' : /\ hold'[q][x] = 0 /\ ads_conn'[q] # x /\ cpu_conn'[q] # x
                            /\ shared_data_mo'[q] # x
      BY <1>1 DEF CoreRefsInv, FreshPds
    <2>3. /\ set_up' = set_up \cup {q} /\ q \notin set_up
          /\ ads_conn[q] = a /\ cpu_conn[q] = c /\ leaked' = leaked
      BY <1>1, <1>11
    <2>4. /\ FreshPds' /\ NewPds' /\ Connected'
          /\ \A x \in Objects : /\ PdCount(x)' + RefsOf(q, x) = PdCount(x) + RefsOf(q, x)'
                                /\ PdCount(x)' \in Nat
      BY <1>1, <1>2, <2>1, <2>2, <2>3, PdStep
    <2>5. ASSUME NEW x \in Objects
          PROVE  /\ x \notin low' => core'.count[x] >= CoreCount(core', x) + PdCount(x)'
                 /\ x \notin leaked' => core'.count[x] <= CoreCount(core', x) + PdCount(x)'
      <3> DEFINE rest == One(q \in pds /\ hold[q][x] > 0)
                           + One(q \in pds /\ shared_data_mo[q] = x)
      <3>1. RefsOf(q, x) = rest /\ rest \in Nat
        BY <1>1, <2>3 DEF RefsOf, One
      <3>2. RefsOf(q, x)' = rest + One(a = x) + One(c = x)
        BY <1>1, <2>3 DEF RefsOf, One
      <3>3. One(a = x) \in Nat /\ One(c = x) \in Nat
        BY DEF One
      <3> HIDE DEF rest
      <3>4. /\ PdCount(x) \in Nat /\ PdCount(x)' \in Nat
            /\ PdCount(x)' + RefsOf(q, x) = PdCount(x) + RefsOf(q, x)'
        BY <2>4, Known
      <3>5. PdCount(x)' = PdCount(x) + One(a = x) + One(c = x)
        BY <3>1, <3>2, <3>3, <3>4
      <3>6. /\ x \notin low' => core.count[x] >= CoreCount(core, x) + PdCount(x)
            /\ x \notin leaked' => core.count[x] <= CoreCount(core, x) + PdCount(x)
            /\ core.count[x] \in Nat /\ CoreCount(core, x) \in Nat
        BY <1>1, <2>3, Known
      <3> QED
        BY <1>5, <3>3, <3>4, <3>5, <3>6
    <2>6. Untouched(core, fresh)'
      BY <1>1, <1>4 DEF Untouched
    <2> QED
      BY <2>1, <2>4, <2>5, <2>6, Conclude
  <1> QED
    BY <1>10, <1>11

-----------------------------------------------------------------------------
(* Destroying a PD *)

LEMMA CardOfFour ==
  ASSUME NEW A \in SUBSET (1 .. 4)
  PROVE  Cardinality(A) = One(1 \in A) + One(2 \in A) + One(3 \in A) + One(4 \in A)
  <1> DEFINE A1 == A \cap {1}
             A2 == A \cap {1, 2}
             A3 == A \cap {1, 2, 3}
  <1>1. IsFiniteSet(1 .. 4)
    <2>1. (1 .. 4) \in SUBSET Nat /\ 4 \in Nat /\ \A x \in 1 .. 4 : x <= 4
      OBVIOUS
    <2> QED
      BY <2>1, FS_BoundedSetOfNaturals
  <1>2. IsFiniteSet(A) /\ IsFiniteSet(A1) /\ IsFiniteSet(A2) /\ IsFiniteSet(A3)
    BY <1>1, FS_Subset
  <1>3. IsFiniteSet({}) /\ Cardinality({}) = 0
    BY FS_EmptySet
  <1>4. /\ {} \ {1} = A1 \ {1} /\ A1 \ {2} = A2 \ {2} /\ A2 \ {3} = A3 \ {3} /\ A3 \ {4} = A \ {4}
        /\ 2 \notin A1 /\ 3 \notin A2 /\ 4 \notin A3
        /\ 1 \in A1 <=> 1 \in A
        /\ 2 \in A2 <=> 2 \in A
        /\ 3 \in A3 <=> 3 \in A
    <2>1. \A x \in A : x = 1 \/ x = 2 \/ x = 3 \/ x = 4
      OBVIOUS
    <2>2. {} \ {1} = A1 \ {1} /\ (1 \in A1 <=> 1 \in A) /\ 2 \notin A1
      BY <2>1
    <2>3. A1 \ {2} = A2 \ {2} /\ (2 \in A2 <=> 2 \in A) /\ 3 \notin A2
      BY <2>1
    <2>4. A2 \ {3} = A3 \ {3} /\ (3 \in A3 <=> 3 \in A) /\ 4 \notin A3
      BY <2>1
    <2>5. A3 \ {4} = A \ {4}
      BY <2>1
    <2> QED
      BY <2>2, <2>3, <2>4, <2>5
  <1> HIDE DEF A1, A2, A3
  <1>5. Cardinality(A1) + One(1 \in {}) = Cardinality({}) + One(1 \in A1)
    BY <1>2, <1>3, <1>4, CardMove
  <1>6. Cardinality(A2) + One(2 \in A1) = Cardinality(A1) + One(2 \in A2)
    BY <1>2, <1>4, CardMove
  <1>7. Cardinality(A3) + One(3 \in A2) = Cardinality(A2) + One(3 \in A3)
    BY <1>2, <1>4, CardMove
  <1>8. Cardinality(A) + One(4 \in A3) = Cardinality(A3) + One(4 \in A)
    BY <1>2, <1>4, CardMove
  <1>9. /\ Cardinality(A) \in Nat /\ Cardinality(A1) \in Nat /\ Cardinality(A2) \in Nat
        /\ Cardinality(A3) \in Nat
    BY <1>2, FS_CardinalityType
  <1> QED
    BY <1>3, <1>4, <1>5, <1>6, <1>7, <1>8, <1>9 DEF One

\* pd_destroy drops every reference of the PD once, and connections that were not
\* counted.
LEMMA DroppedByCount ==
  ASSUME NEW p
  PROVE  /\ DroppedBy(p) \in [Objects -> Nat]
         /\ \A x \in Objects :
              DroppedBy(p)[x] = One(cpu_conn[p] = x) + One(ads_conn[p] = x)
                                  + One(hold[p][x] > 0) + One(shared_data_mo[p] = x)
  <1>1. ASSUME NEW x \in Objects
        PROVE  DroppedBy(p)[x] = One(cpu_conn[p] = x) + One(ads_conn[p] = x)
                                   + One(hold[p][x] > 0) + One(shared_data_mo[p] = x)
    <2> DEFINE A == {y \in 1 .. 4 : \/ y = 1 /\ cpu_conn[p] = x
                                    \/ y = 2 /\ ads_conn[p] = x
                                    \/ y = 3 /\ hold[p][x] > 0
                                    \/ y = 4 /\ shared_data_mo[p] = x}
    <2>1. DroppedBy(p)[x] = Cardinality(A)
      BY DEF DroppedBy
    <2>2. A \in SUBSET (1 .. 4)
      OBVIOUS
    <2>3. /\ 1 \in A <=> cpu_conn[p] = x
          /\ 2 \in A <=> ads_conn[p] = x
          /\ 3 \in A <=> hold[p][x] > 0
          /\ 4 \in A <=> shared_data_mo[p] = x
      OBVIOUS
    <2> HIDE DEF A
    <2>4. Cardinality(A) = One(1 \in A) + One(2 \in A) + One(3 \in A) + One(4 \in A)
      BY <2>2, CardOfFour
    <2> QED
      BY <2>1, <2>3, <2>4 DEF One
  <1>2. \A x \in Objects : DroppedBy(p)[x] \in Nat
    BY <1>1 DEF One
  <1>3. DroppedBy(p) = [x \in Objects |-> DroppedBy(p)[x]]
    BY DEF DroppedBy
  <1> QED
    BY <1>1, <1>2, <1>3

\* The PD is gone, with all its references.
LEMMA PdGoneStep ==
  ASSUME CoreRefsInv, NEW p \in PDs, p \in pds, PdGone(p), core' \in Core,
         low' \subseteq Objects, leaked' \subseteq Objects
  PROVE  /\ TypeOK' /\ FreshPds' /\ NewPds' /\ Connected'
         /\ \A x \in Objects : PdCount(x)' + RefsOf(p, x) = PdCount(x) /\ PdCount(x)' \in Nat
  <1>1. /\ pds' = pds \ {p} /\ set_up' = set_up \ {p}
        /\ hold' = [hold EXCEPT ![p] = Once({})]
        /\ ads_conn' = [ads_conn EXCEPT ![p] = None]
        /\ cpu_conn' = [cpu_conn EXCEPT ![p] = None]
        /\ shared_data_mo' = [shared_data_mo EXCEPT ![p] = None]
        /\ UNCHANGED <<fresh, created, stale_badge>>
    BY DEF PdGone
  <1>2. requests' \in 0 .. MaxRequests
    BY Known, CoreRefsAssumption DEF PdGone, TypeOK
  <1>3. Once({}) \in [Objects -> Nat] /\ \A x \in Objects : Once({})[x] = 0
    BY DEF Once
  <1>4. /\ hold \in [PDs -> [Objects -> Nat]] /\ ads_conn \in [PDs -> ADSs \cup {None}]
        /\ cpu_conn \in [PDs -> CPUs \cup {None}] /\ shared_data_mo \in [PDs -> MOs \cup {None}]
    BY Known DEF TypeOK
  <1>5. /\ hold' \in [PDs -> [Objects -> Nat]] /\ ads_conn' \in [PDs -> ADSs \cup {None}]
        /\ cpu_conn' \in [PDs -> CPUs \cup {None}] /\ shared_data_mo' \in [PDs -> MOs \cup {None}]
    BY <1>1, <1>3, <1>4
  <1>6. /\ \A x \in Objects : hold'[p][x] = 0
        /\ ads_conn'[p] = None /\ cpu_conn'[p] = None /\ shared_data_mo'[p] = None
        /\ \A y \in PDs \ {p} : /\ hold'[y] = hold[y] /\ shared_data_mo'[y] = shared_data_mo[y]
                                /\ ads_conn'[y] = ads_conn[y] /\ cpu_conn'[y] = cpu_conn[y]
    BY <1>1, <1>3, <1>4
  <1>7. TypeOK'
    BY <1>1, <1>2, <1>5 DEF CoreRefsInv, TypeOK
  <1>8. \A x \in fresh' : /\ hold'[p][x] = 0 /\ ads_conn'[p] # x /\ cpu_conn'[p] # x
                          /\ shared_data_mo'[p] # x
    BY <1>1, <1>6, Known, Sets
  <1>9. p \notin set_up' /\ p \notin pds' /\ p \in created' /\ created \subseteq created'
    BY <1>1, Known
  <1>10. /\ fresh' \subseteq fresh
         /\ pds' \ {p} = pds \ {p} /\ set_up' \ {p} = set_up \ {p}
    BY <1>1
  <1>11. /\ FreshPds' /\ NewPds' /\ Connected'
         /\ \A x \in Objects : /\ PdCount(x)' + RefsOf(p, x) = PdCount(x) + RefsOf(p, x)'
                               /\ PdCount(x)' \in Nat
    BY <1>6, <1>7, <1>8, <1>9, <1>10, PdStep
  <1>12. \A x \in Objects : RefsOf(p, x)' = 0
    BY <1>9 DEF RefsOf, One
  <1>13. \A x \in Objects : PdCount(x) \in Nat
    BY Known
  <1>14. ASSUME NEW x \in Objects
         PROVE  PdCount(x)' + RefsOf(p, x) = PdCount(x)
    BY <1>11, <1>12, <1>13
  <1> QED
    BY <1>7, <1>11, <1>14

\* pd_destroy
LEMMA DestroyInv ==
  ASSUME CoreRefsInv, NEW p \in PDs, Destroy(p)
  PROVE  CoreRefsInv'
  <1> DEFINE times == DroppedBy(p)
  <1>1. /\ p \in pds /\ core' = Dropped(core, times) /\ PdGone(p) /\ leaked' = leaked
        /\ low' = IF p \in set_up THEN low ELSE low \cup ({ads_conn[p], cpu_conn[p]} \ {None})
    BY DEF Destroy
  <1>2. /\ core \in Core /\ fresh \in SUBSET Objects /\ Untouched(core, fresh)
        /\ low \subseteq Objects /\ leaked \subseteq Objects
        /\ ads_conn[p] \in ADSs \cup {None} /\ cpu_conn[p] \in CPUs \cup {None}
    BY Known DEF TypeOK
  <1>3. low' \subseteq Objects /\ leaked' \subseteq Objects
    BY <1>1, <1>2, Sets
  <1>4. /\ times \in [Objects -> Nat]
        /\ \A x \in Objects : times[x] = One(cpu_conn[p] = x) + One(ads_conn[p] = x)
                                           + One(hold[p][x] > 0) + One(shared_data_mo[p] = x)
    BY DroppedByCount
  <1> HIDE DEF times
  <1> DEFINE t == Dropped(core, times)
  <1>5. /\ t \in Core
        /\ \E gone \in [Objects -> Nat] :
             /\ \A x \in Objects : t.count[x] = CountAfter(core.count[x], times[x] + gone[x])
             /\ \A x \in Objects : CoreCount(t, x) + gone[x] = CoreCount(core, x)
             /\ \A x \in CPUs : gone[x] = 0
        /\ \A F \in SUBSET Objects : Untouched(core, F) => Untouched(t, F)
    BY <1>2, <1>4, DropEffect
  <1>6. core' = t
    BY <1>1
  <1> HIDE DEF t
  <1>7. PICK gone \in [Objects -> Nat] :
          /\ \A x \in Objects : t.count[x] = CountAfter(core.count[x], times[x] + gone[x])
          /\ \A x \in Objects : CoreCount(t, x) + gone[x] = CoreCount(core, x)
          /\ \A x \in CPUs : gone[x] = 0
    BY <1>5
  <1>8. core' \in Core /\ Untouched(core', fresh)
    BY <1>2, <1>5, <1>6
  <1>9. /\ TypeOK' /\ FreshPds' /\ NewPds' /\ Connected'
        /\ \A x \in Objects : PdCount(x)' + RefsOf(p, x) = PdCount(x) /\ PdCount(x)' \in Nat
    BY <1>1, <1>3, <1>8, PdGoneStep
  <1>10. fresh' = fresh
    BY <1>1 DEF PdGone
  <1>11. Untouched(core, fresh)'
    BY <1>8, <1>10 DEF Untouched
  <1>12. ASSUME NEW x \in Objects
         PROVE  /\ x \notin low' => core'.count[x] >= CoreCount(core', x) + PdCount(x)'
                /\ x \notin leaked' => core'.count[x] <= CoreCount(core', x) + PdCount(x)'
    <2> DEFINE n == PdCount(x)
               k == RefsOf(p, x)
    <2>1. /\ x \notin low' => x \notin low /\ times[x] = k
          /\ times[x] >= k /\ k \in Nat /\ times[x] \in Nat
      <3>1. /\ One(hold[p][x] > 0) \in Nat /\ One(shared_data_mo[p] = x) \in Nat
            /\ One(ads_conn[p] = x) \in Nat /\ One(cpu_conn[p] = x) \in Nat
        BY DEF One
      <3>2. CASE p \in set_up
        <4>1. k = One(hold[p][x] > 0) + One(shared_data_mo[p] = x) + One(ads_conn[p] = x)
                    + One(cpu_conn[p] = x)
          BY <1>1, <3>2 DEF RefsOf, One
        <4> QED
          BY <1>1, <1>4, <3>1, <3>2, <4>1
      <3>3. CASE p \notin set_up
        <4>1. k = One(hold[p][x] > 0) + One(shared_data_mo[p] = x)
          BY <1>1, <3>3 DEF RefsOf, One
        <4>2. x \notin low' => x \notin low /\ ads_conn[p] # x /\ cpu_conn[p] # x
          BY <1>1, <3>3, Sets
        <4>3. x \notin low' => One(ads_conn[p] = x) = 0 /\ One(cpu_conn[p] = x) = 0
          BY <4>2 DEF One
        <4> QED
          BY <1>4, <3>1, <4>1, <4>2, <4>3
      <3> QED
        BY <3>2, <3>3
    <2>2. /\ core'.count[x] = CountAfter(core.count[x], times[x] + gone[x])
          /\ CoreCount(core', x) + gone[x] = CoreCount(core, x)
          /\ PdCount(x)' + k = n
      BY <1>6, <1>7, <1>9
    <2>3. /\ CoreCount(core', x) \in Nat /\ gone[x] \in Nat /\ core.count[x] \in Nat
          /\ n \in Nat /\ CoreCount(core, x) \in Nat /\ PdCount(x)' \in Nat
      BY <1>7, <1>9, Known, RefSets
    <2>4. /\ x \notin low => core.count[x] >= CoreCount(core, x) + n
          /\ x \notin leaked => core.count[x] <= CoreCount(core, x) + n
      BY Known
    <2> HIDE DEF n, k
    <2> QED
      BY <1>1, <2>1, <2>2, <2>3, <2>4 DEF CountAfter
  <1> QED
    BY <1>9, <1>11, <1>12, Conclude

\* pd_destroy that gives up
LEMMA DestroyGivesUpInv ==
  ASSUME CoreRefsInv, NEW p \in PDs, DestroyGivesUp(p)
  PROVE  CoreRefsInv'
  <1>1. /\ p \in pds /\ PdGone(p) /\ core' = core /\ low' = low
        /\ leaked' = leaked \cup {o \in Objects : DroppedBy(p)[o] > 0}
        /\ fresh' = fresh
    BY DEF DestroyGivesUp, PdGone
  <1>2. /\ core' \in Core /\ low' \subseteq Objects /\ leaked' \subseteq Objects
    BY <1>1, Known DEF TypeOK
  <1>3. /\ TypeOK' /\ FreshPds' /\ NewPds' /\ Connected'
        /\ \A x \in Objects : PdCount(x)' + RefsOf(p, x) = PdCount(x) /\ PdCount(x)' \in Nat
    BY <1>1, <1>2, PdGoneStep
  <1>4. Untouched(core, fresh)'
    BY <1>1, Known DEF Untouched
  <1>5. ASSUME NEW x \in Objects
        PROVE  /\ x \notin low' => core'.count[x] >= CoreCount(core', x) + PdCount(x)'
               /\ x \notin leaked' => core'.count[x] <= CoreCount(core', x) + PdCount(x)'
    <2>1. x \notin leaked' => x \notin leaked /\ ~(DroppedBy(p)[x] > 0)
      BY <1>1
    <2>2. DroppedBy(p)[x] = One(cpu_conn[p] = x) + One(ads_conn[p] = x)
                              + One(hold[p][x] > 0) + One(shared_data_mo[p] = x)
      BY DroppedByCount
    <2>3. RefsOf(p, x) > 0 => DroppedBy(p)[x] > 0
      BY <2>2 DEF RefsOf, One
    <2>4. RefsOf(p, x) \in Nat
      BY Known, RefsOfCounted
    <2>5. /\ PdCount(x)' + RefsOf(p, x) = PdCount(x) /\ PdCount(x)' \in Nat
          /\ core.count[x] \in Nat /\ CoreCount(core, x) \in Nat /\ PdCount(x) \in Nat
          /\ x \notin low => core.count[x] >= CoreCount(core, x) + PdCount(x)
          /\ x \notin leaked => core.count[x] <= CoreCount(core, x) + PdCount(x)
      BY <1>3, Known
    <2> QED
      BY <1>1, <2>1, <2>3, <2>4, <2>5
  <1> QED
    BY <1>3, <1>4, <1>5, Conclude

-----------------------------------------------------------------------------
(* The initial states *)

LEMMA CardOfOne ==
  ASSUME NEW S, NEW a, \A y \in S : y = a
  PROVE  Cardinality(S) = One(a \in S)
  <1>1. IsFiniteSet({}) /\ Cardinality({}) = 0 /\ IsFiniteSet({a}) /\ Cardinality({a}) = 1
    BY FS_EmptySet, FS_Singleton
  <1>2. S = {a} \/ S = {}
    OBVIOUS
  <1> QED
    BY <1>1, <1>2 DEF One

LEMMA CardOfTwo ==
  ASSUME NEW S, NEW a, NEW b, a # b, \A y \in S : y = a \/ y = b
  PROVE  Cardinality(S) = One(a \in S) + One(b \in S)
  <1> DEFINE A == S \cap {a}
  <1>1. Cardinality(A) = One(a \in A) /\ (a \in A <=> a \in S) /\ b \notin A
    BY CardOfOne
  <1>2. IsFiniteSet({a})
    BY FS_Singleton
  <1>3. IsFiniteSet({a} \cup {b})
    BY <1>2, FS_AddElement
  <1>4. IsFiniteSet(S) /\ IsFiniteSet(A)
    BY <1>3, FS_Subset
  <1>5. A \ {b} = S \ {b}
    OBVIOUS
  <1> HIDE DEF A
  <1>6. /\ Cardinality(A) \in Nat /\ Cardinality(S) \in Nat
        /\ Cardinality(S) + One(b \in A) = Cardinality(A) + One(b \in S)
    BY <1>4, <1>5, CardMove
  <1> QED
    BY <1>1, <1>6 DEF One

\* What is to be shown of an initial state.
LEMMA StartFrom ==
  ASSUME TypeOK, Untouched(core, fresh), FreshPds, NewPds, Connected,
         \A x \in Objects : core.count[x] = CoreCount(core, x) + PdCount(x)
  PROVE  CoreRefsInv
  <1>1. ASSUME NEW x \in Objects
        PROVE  core.count[x] = Refs(x) /\ core.count[x] \in Nat
    BY RefsSplit, CoreTypes DEF TypeOK
  <1>2. CountsCover /\ NoLeak
    BY <1>1 DEF CountsCover, NoLeak
  <1> QED
    BY <1>2 DEF CoreRefsInv

\* The objects of osm_set_up, and the region of the IPC buffer.
LEMMA FirstObjects ==
  LET region == <<FirstAds, CHOOSE v \in Vaddrs : TRUE>> IN
  /\ region \in Regions /\ region[1] = FirstAds
  /\ FirstAds \in Objects /\ FirstCpu \in Objects /\ FirstMo \in Objects
  /\ FirstPd \in PDs /\ FirstAds \in ADSs /\ FirstCpu \in CPUs /\ FirstMo \in MOs
  /\ FirstAds # FirstCpu /\ FirstAds # FirstMo /\ FirstCpu # FirstMo
  /\ FirstAds # None /\ FirstCpu # None /\ FirstMo # None
  <1>1. (CHOOSE v \in Vaddrs : TRUE) \in Vaddrs
    BY CoreRefsAssumption
  <1>2. FirstPd \in PDs /\ FirstAds \in ADSs /\ FirstCpu \in CPUs /\ FirstMo \in MOs
    BY CoreRefsAssumption
  <1> QED
    BY <1>1, <1>2, Sets DEF Regions

\* osm_set_up
LEMMA InitFirstInv ==
  ASSUME InitFirst, low = {}, leaked = {}
  PROVE  CoreRefsInv
  <1>1. PICK region : region = <<FirstAds, CHOOSE v \in Vaddrs : TRUE>>
    OBVIOUS
  <1>2. /\ region \in Regions /\ region[1] = FirstAds
        /\ FirstAds \in Objects /\ FirstCpu \in Objects /\ FirstMo \in Objects
        /\ FirstPd \in PDs /\ FirstAds \in ADSs /\ FirstCpu \in CPUs /\ FirstMo \in MOs
        /\ FirstAds # FirstCpu /\ FirstAds # FirstMo /\ FirstCpu # FirstMo
        /\ FirstAds # None /\ FirstCpu # None /\ FirstMo # None
    BY <1>1, FirstObjects
  <1> DEFINE count == [o \in Objects |-> CASE o = FirstAds -> 3 [] o = FirstCpu -> 2
                                           [] o = FirstMo -> 2 [] OTHER -> 0]
  <1>3. /\ count \in [Objects -> Nat]
        /\ count[FirstAds] = 3 /\ count[FirstCpu] = 2 /\ count[FirstMo] = 2
        /\ \A o \in Objects : o # FirstAds /\ o # FirstCpu /\ o # FirstMo => count[o] = 0
    BY <1>2
  <1>4. /\ core = [count |-> count,
                   attach |-> [r \in Regions |-> IF r = region THEN FirstMo ELSE None],
                   ipc_buf_mo |-> [c \in CPUs |-> IF c = FirstCpu THEN FirstMo ELSE None],
                   binded_ads_id |-> [c \in CPUs |-> IF c = FirstCpu THEN FirstAds ELSE None]]
        /\ fresh = Objects \ {FirstAds, FirstCpu, FirstMo}
        /\ pds = {FirstPd} /\ created = {FirstPd} /\ set_up = {FirstPd}
        /\ hold = [p \in PDs |-> [o \in Objects |->
                     IF p = FirstPd /\ o \in {FirstAds, FirstCpu} THEN 1 ELSE 0]]
        /\ ads_conn = [p \in PDs |-> IF p = FirstPd THEN FirstAds ELSE None]
        /\ cpu_conn = [p \in PDs |-> IF p = FirstPd THEN FirstCpu ELSE None]
        /\ shared_data_mo = [p \in PDs |-> None]
        /\ stale_badge = None /\ requests = 0
    BY <1>1 DEF InitFirst
  <1> HIDE DEF count
  <1>5. core \in Core
    <2>1. [r \in Regions |-> IF r = region THEN FirstMo ELSE None]
            \in [Regions -> MOs \cup {None, Reserved}]
      BY <1>2
    <2>2. /\ [c \in CPUs |-> IF c = FirstCpu THEN FirstMo ELSE None] \in [CPUs -> MOs \cup {None}]
          /\ [c \in CPUs |-> IF c = FirstCpu THEN FirstAds ELSE None] \in [CPUs -> ADSs \cup {None}]
      BY <1>2
    <2> QED
      BY <1>3, <1>4, <2>1, <2>2 DEF Core
  <1>6. /\ core.count = count
        /\ \A r \in Regions : core.attach[r] = IF r = region THEN FirstMo ELSE None
        /\ \A c \in CPUs : core.ipc_buf_mo[c] = IF c = FirstCpu THEN FirstMo ELSE None
        /\ \A c \in CPUs : core.binded_ads_id[c] = IF c = FirstCpu THEN FirstAds ELSE None
    BY <1>4
  <1>7. TypeOK
    <2>1. hold \in [PDs -> [Objects -> Nat]]
      BY <1>4
    <2>2. /\ ads_conn \in [PDs -> ADSs \cup {None}] /\ cpu_conn \in [PDs -> CPUs \cup {None}]
          /\ shared_data_mo \in [PDs -> MOs \cup {None}]
      BY <1>2, <1>4
    <2>3. requests \in 0 .. MaxRequests
      BY <1>4, CoreRefsAssumption
    <2> QED
      BY <1>2, <1>4, <1>5, <2>1, <2>2, <2>3 DEF TypeOK
  <1>8. Untouched(core, fresh)
    <2>1. ASSUME NEW o \in fresh
          PROVE  /\ o \in Objects /\ o # FirstAds /\ o # FirstCpu /\ o # FirstMo /\ o # None
                 /\ core.count[o] = 0
      BY <1>3, <1>4, <1>6, Sets
    <2> QED
      BY <1>2, <1>6, <2>1 DEF Untouched
  <1>9. FreshPds /\ NewPds /\ Connected
    <2>1. \A o \in fresh : /\ o \in Objects /\ o # None
                           /\ o # FirstAds /\ o # FirstCpu /\ o # FirstMo
      BY <1>4, Sets
    <2>2. FreshPds
      BY <1>4, <2>1 DEF FreshPds
    <2> QED
      BY <1>2, <1>4, <2>2 DEF NewPds, Connected
  <1>10. ASSUME NEW x \in Objects
         PROVE  core.count[x] = CoreCount(core, x) + PdCount(x)
    <2>1. x # None
      BY Sets
    <2>2. Cardinality(RegionRefs(core, x)) = One(x = FirstMo)
      <3>1. /\ \A r \in RegionRefs(core, x) : r = region
            /\ region \in RegionRefs(core, x) <=> x = FirstMo
        BY <1>2, <1>3, <1>6, <2>1 DEF RegionRefs
      <3> QED
        BY <3>1, CardOfOne DEF One
    <2>3. Cardinality(BufferRefs(core, x)) = One(x = FirstMo)
      <3>1. /\ \A c \in BufferRefs(core, x) : c = FirstCpu
            /\ FirstCpu \in BufferRefs(core, x) <=> x = FirstMo
        BY <1>2, <1>3, <1>6, <2>1 DEF BufferRefs
      <3> QED
        BY <3>1, CardOfOne DEF One
    <2>4. Cardinality(BindRefs(core, x)) = One(x = FirstAds)
      <3>1. /\ \A c \in BindRefs(core, x) : c = FirstCpu
            /\ FirstCpu \in BindRefs(core, x) <=> x = FirstAds
        BY <1>2, <1>3, <1>6, <2>1 DEF BindRefs
      <3> QED
        BY <3>1, CardOfOne DEF One
    <2>5. Cardinality(HoldRefs(x)) = One(x = FirstAds \/ x = FirstCpu)
      <3>1. /\ \A p \in HoldRefs(x) : p = FirstPd
            /\ FirstPd \in HoldRefs(x) <=> x = FirstAds \/ x = FirstCpu
        BY <1>2, <1>4 DEF HoldRefs
      <3> QED
        BY <3>1, CardOfOne DEF One
    <2>6. Cardinality(DataRefs(x)) = 0
      <3>1. DataRefs(x) = {}
        BY <1>2, <1>4, <2>1 DEF DataRefs
      <3> QED
        BY <3>1, FS_EmptySet
    <2>7. Cardinality(AdsRefs(x)) = One(x = FirstAds)
      <3>1. /\ \A p \in AdsRefs(x) : p = FirstPd
            /\ FirstPd \in AdsRefs(x) <=> x = FirstAds
        BY <1>2, <1>4 DEF AdsRefs
      <3> QED
        BY <3>1, CardOfOne DEF One
    <2>8. Cardinality(CpuRefs(x)) = One(x = FirstCpu)
      <3>1. /\ \A p \in CpuRefs(x) : p = FirstPd
            /\ FirstPd \in CpuRefs(x) <=> x = FirstCpu
        BY <1>2, <1>4 DEF CpuRefs
      <3> QED
        BY <3>1, CardOfOne DEF One
    <2>9. CoreCount(core, x) = One(x = FirstMo) + One(x = FirstMo) + One(x = FirstAds)
      BY <2>2, <2>3, <2>4 DEF CoreCount
    <2>10. PdCount(x) = One(x = FirstAds \/ x = FirstCpu) + 0 + One(x = FirstAds) + One(x = FirstCpu)
      BY <2>5, <2>6, <2>7, <2>8 DEF PdCount
    <2> QED
      BY <1>2, <1>3, <1>6, <2>9, <2>10 DEF One
  <1> QED
    BY <1>7, <1>8, <1>9, <1>10, StartFrom

\* A thread that was prepared
LEMMA InitThreadInv ==
  ASSUME InitThread, low = {}, leaked = {}
  PROVE  CoreRefsInv
  <1>1. PICK region : region = <<FirstAds, CHOOSE v \in Vaddrs : TRUE>>
    OBVIOUS
  <1>2. /\ region \in Regions /\ region[1] = FirstAds
        /\ FirstAds \in Objects /\ FirstCpu \in Objects /\ FirstMo \in Objects
        /\ FirstPd \in PDs /\ FirstAds \in ADSs /\ FirstCpu \in CPUs /\ FirstMo \in MOs
        /\ FirstAds # FirstCpu /\ FirstAds # FirstMo /\ FirstCpu # FirstMo
        /\ FirstAds # None /\ FirstCpu # None /\ FirstMo # None
    BY <1>1, FirstObjects
  <1>3. PICK q \in PDs \ {FirstPd}, c \in CPUs \ {FirstCpu}, d \in MOs \ {FirstMo} :
          LET both == {FirstPd, q} IN
          /\ core = [count |-> [o \in Objects |-> CASE o = FirstAds -> 6 [] o = FirstCpu -> 2
                                                  [] o = c -> 3 [] o = FirstMo -> 2
                                                  [] o = d -> 1 [] OTHER -> 0],
                     attach |-> [r \in Regions |-> IF r = <<FirstAds, CHOOSE v \in Vaddrs : TRUE>>
                                                   THEN FirstMo ELSE None],
                     ipc_buf_mo |-> [x \in CPUs |-> IF x = FirstCpu THEN FirstMo ELSE None],
                     binded_ads_id |-> [x \in CPUs |-> IF x \in {FirstCpu, c} THEN FirstAds
                                                       ELSE None]]
          /\ fresh = Objects \ {FirstAds, FirstCpu, FirstMo, c, d}
          /\ pds = both /\ created = both /\ set_up = both
          /\ hold = [p \in PDs |-> [o \in Objects |->
                       IF \/ p = FirstPd /\ o \in {FirstAds, FirstCpu, c}
                          \/ p = q /\ o \in {FirstAds, c} THEN 1 ELSE 0]]
          /\ ads_conn = [p \in PDs |-> IF p \in both THEN FirstAds ELSE None]
          /\ cpu_conn = [p \in PDs |-> IF p = FirstPd THEN FirstCpu ELSE IF p = q THEN c ELSE None]
          /\ shared_data_mo = [p \in PDs |-> IF p = q THEN d ELSE None]
          /\ stale_badge = None /\ requests = 2
    BY DEF InitThread
  <1>4. /\ q \in PDs /\ q # FirstPd /\ c \in CPUs /\ c # FirstCpu /\ d \in MOs /\ d # FirstMo
        /\ c \in Objects /\ d \in Objects /\ c # FirstAds /\ c # FirstMo /\ d # FirstAds
        /\ d # FirstCpu /\ c # d /\ c # None /\ d # None
    BY <1>2, Sets
  <1> DEFINE count == [o \in Objects |-> CASE o = FirstAds -> 6 [] o = FirstCpu -> 2
                                           [] o = c -> 3 [] o = FirstMo -> 2
                                           [] o = d -> 1 [] OTHER -> 0]
             New(o) == o # FirstAds /\ o # FirstCpu /\ o # FirstMo /\ o # c /\ o # d
  <1>5. /\ count[FirstAds] = 6 /\ count[FirstCpu] = 2 /\ count[FirstMo] = 2
        /\ count[c] = 3 /\ count[d] = 1
        /\ \A o \in Objects : New(o) => count[o] = 0
    BY <1>2, <1>4
  <1>6. count \in [Objects -> Nat]
    <2>1. \A o \in Objects : count[o] \in Nat
      BY <1>5
    <2> QED
      BY <2>1
  <1>7. /\ core.count = count
        /\ core = [count |-> count, attach |-> core.attach, ipc_buf_mo |-> core.ipc_buf_mo,
                   binded_ads_id |-> core.binded_ads_id]
        /\ core.attach = [r \in Regions |-> IF r = region THEN FirstMo ELSE None]
        /\ core.ipc_buf_mo = [x \in CPUs |-> IF x = FirstCpu THEN FirstMo ELSE None]
        /\ core.binded_ads_id = [x \in CPUs |-> IF x \in {FirstCpu, c} THEN FirstAds ELSE None]
    BY <1>1, <1>3
  <1> HIDE DEF count
  <1>8. core \in Core
    <2>1. core.attach \in [Regions -> MOs \cup {None, Reserved}]
      BY <1>2, <1>7
    <2>2. /\ core.ipc_buf_mo \in [CPUs -> MOs \cup {None}]
          /\ core.binded_ads_id \in [CPUs -> ADSs \cup {None}]
      BY <1>2, <1>7
    <2> QED
      BY <1>6, <1>7, <2>1, <2>2 DEF Core
  <1>9. /\ \A r \in Regions : core.attach[r] = IF r = region THEN FirstMo ELSE None
        /\ \A x \in CPUs : core.ipc_buf_mo[x] = IF x = FirstCpu THEN FirstMo ELSE None
        /\ \A x \in CPUs : core.binded_ads_id[x] = IF x = FirstCpu \/ x = c THEN FirstAds ELSE None
    BY <1>7
  <1>10. /\ pds = {FirstPd, q} /\ set_up = {FirstPd, q} /\ created = {FirstPd, q}
         /\ fresh = Objects \ {FirstAds, FirstCpu, FirstMo, c, d}
         /\ hold \in [PDs -> [Objects -> Nat]]
         /\ \A p \in PDs, o \in Objects :
              hold[p][o] = IF \/ p = FirstPd /\ (o = FirstAds \/ o = FirstCpu \/ o = c)
                              \/ p = q /\ (o = FirstAds \/ o = c) THEN 1 ELSE 0
    BY <1>3
  <1>11. /\ ads_conn \in [PDs -> ADSs \cup {None}] /\ cpu_conn \in [PDs -> CPUs \cup {None}]
         /\ shared_data_mo \in [PDs -> MOs \cup {None}]
         /\ \A p \in PDs : /\ ads_conn[p] = IF p = FirstPd \/ p = q THEN FirstAds ELSE None
                           /\ cpu_conn[p] = IF p = FirstPd THEN FirstCpu
                                            ELSE IF p = q THEN c ELSE None
                           /\ shared_data_mo[p] = IF p = q THEN d ELSE None
    BY <1>2, <1>3, <1>4
  <1>12. TypeOK
    <2>1. stale_badge \in MOs \cup {None} /\ requests \in 0 .. MaxRequests
      BY <1>3, CoreRefsAssumption
    <2> QED
      BY <1>2, <1>4, <1>8, <1>10, <1>11, <2>1 DEF TypeOK
  <1>13. \A o \in fresh : o \in Objects /\ o # None /\ New(o)
    BY <1>10, Sets
  <1>14. Untouched(core, fresh)
    <2>1. \A o \in fresh : core.count[o] = 0
      BY <1>5, <1>7, <1>13
    <2> QED
      BY <1>2, <1>9, <1>13, <2>1 DEF Untouched
  <1>15. FreshPds /\ NewPds /\ Connected
    <2>1. FreshPds
      BY <1>10, <1>11, <1>13 DEF FreshPds
    <2>2. NewPds
      BY <1>10 DEF NewPds
    <2>3. Connected
      BY <1>2, <1>4, <1>10, <1>11 DEF Connected
    <2> QED
      BY <2>1, <2>2, <2>3
  <1>16. ASSUME NEW x \in Objects
         PROVE  core.count[x] = CoreCount(core, x) + PdCount(x)
    <2>1. x # None
      BY Sets
    <2>2. Cardinality(RegionRefs(core, x)) = One(x = FirstMo)
      <3>1. /\ \A r \in RegionRefs(core, x) : r = region
            /\ region \in RegionRefs(core, x) <=> x = FirstMo
        BY <1>2, <1>5, <1>7, <1>9, <2>1 DEF RegionRefs
      <3> QED
        BY <3>1, CardOfOne DEF One
    <2>3. Cardinality(BufferRefs(core, x)) = One(x = FirstMo)
      <3>1. /\ \A y \in BufferRefs(core, x) : y = FirstCpu
            /\ FirstCpu \in BufferRefs(core, x) <=> x = FirstMo
        BY <1>2, <1>5, <1>7, <1>9, <2>1 DEF BufferRefs
      <3> QED
        BY <3>1, CardOfOne DEF One
    <2>4. Cardinality(BindRefs(core, x)) = One(x = FirstAds) + One(x = FirstAds)
      <3>1. /\ \A y \in BindRefs(core, x) : y = FirstCpu \/ y = c
            /\ FirstCpu \in BindRefs(core, x) <=> x = FirstAds
            /\ c \in BindRefs(core, x) <=> x = FirstAds
        BY <1>2, <1>4, <1>5, <1>7, <1>9, <2>1 DEF BindRefs
      <3>2. Cardinality(BindRefs(core, x))
              = One(FirstCpu \in BindRefs(core, x)) + One(c \in BindRefs(core, x))
        BY <1>4, <3>1, CardOfTwo
      <3> QED
        BY <3>1, <3>2 DEF One
    <2>5. Cardinality(HoldRefs(x)) = One(x = FirstAds \/ x = FirstCpu \/ x = c)
                                       + One(x = FirstAds \/ x = c)
      <3>1. /\ \A y \in HoldRefs(x) : y = FirstPd \/ y = q
            /\ FirstPd \in HoldRefs(x) <=> x = FirstAds \/ x = FirstCpu \/ x = c
            /\ q \in HoldRefs(x) <=> x = FirstAds \/ x = c
        BY <1>2, <1>4, <1>10 DEF HoldRefs
      <3>2. Cardinality(HoldRefs(x)) = One(FirstPd \in HoldRefs(x)) + One(q \in HoldRefs(x))
        BY <1>4, <3>1, CardOfTwo
      <3> QED
        BY <3>1, <3>2 DEF One
    <2>6. Cardinality(DataRefs(x)) = One(x = d)
      <3>1. /\ \A y \in DataRefs(x) : y = q
            /\ q \in DataRefs(x) <=> x = d
        BY <1>2, <1>4, <1>10, <1>11, <2>1 DEF DataRefs
      <3> QED
        BY <3>1, CardOfOne DEF One
    <2>7. Cardinality(AdsRefs(x)) = One(x = FirstAds) + One(x = FirstAds)
      <3>1. /\ \A y \in AdsRefs(x) : y = FirstPd \/ y = q
            /\ FirstPd \in AdsRefs(x) <=> x = FirstAds
            /\ q \in AdsRefs(x) <=> x = FirstAds
        BY <1>2, <1>4, <1>10, <1>11 DEF AdsRefs
      <3>2. Cardinality(AdsRefs(x)) = One(FirstPd \in AdsRefs(x)) + One(q \in AdsRefs(x))
        BY <1>4, <3>1, CardOfTwo
      <3> QED
        BY <3>1, <3>2 DEF One
    <2>8. Cardinality(CpuRefs(x)) = One(x = FirstCpu) + One(x = c)
      <3>1. /\ \A y \in CpuRefs(x) : y = FirstPd \/ y = q
            /\ FirstPd \in CpuRefs(x) <=> x = FirstCpu
            /\ q \in CpuRefs(x) <=> x = c
        BY <1>2, <1>4, <1>10, <1>11 DEF CpuRefs
      <3>2. Cardinality(CpuRefs(x)) = One(FirstPd \in CpuRefs(x)) + One(q \in CpuRefs(x))
        BY <1>4, <3>1, CardOfTwo
      <3> QED
        BY <3>1, <3>2 DEF One
    <2>9. CoreCount(core, x) = One(x = FirstMo) + One(x = FirstMo)
                                 + (One(x = FirstAds) + One(x = FirstAds))
      BY <2>2, <2>3, <2>4 DEF CoreCount
    <2>10. PdCount(x) = (One(x = FirstAds \/ x = FirstCpu \/ x = c) + One(x = FirstAds \/ x = c))
                          + One(x = d) + (One(x = FirstAds) + One(x = FirstAds))
                          + (One(x = FirstCpu) + One(x = c))
      BY <2>5, <2>6, <2>7, <2>8 DEF PdCount
    <2> QED
      BY <1>2, <1>4, <1>5, <1>7, <2>9, <2>10 DEF One
  <1> QED
    BY <1>12, <1>14, <1>15, <1>16, StartFrom

-----------------------------------------------------------------------------
(* Theorems *)

LEMMA InitInv ==
  Init => CoreRefsInv
  BY InitFirstInv, InitThreadInv DEF Init

LEMMA NextInv ==
  CoreRefsInv /\ [Next]_vars => CoreRefsInv'
  <1> SUFFICES ASSUME CoreRefsInv, [Next]_vars
               PROVE  CoreRefsInv'
    OBVIOUS
  <1>1. CASE UNCHANGED vars
    <2>1. UNCHANGED <<core, fresh, pdVars, stale_badge, low, leaked, requests>>
      BY <1>1 DEF vars
    <2>2. leaked \subseteq Objects /\ stale_badge \in MOs \cup {None} /\ requests \in 0 .. MaxRequests
      BY Known DEF TypeOK
    <2> QED
      BY <2>1, <2>2, Known, CoreStep
  <1>2. CASE \E p \in PDs, o \in Objects : Allocate(p, o) \/ Disconnect(p, o)
    BY <1>2, AllocateInv, DisconnectInv
  <1>3. CASE \E p, q \in PDs, o \in Objects : SendCap(p, q, o) \/ SendCoreCap(p, q, o)
    BY <1>3, SendCapInv, SendCoreCapInv
  <1>4. CASE \E p, q \in PDs : ShareMos(p, q)
    BY <1>4, ShareMosInv
  <1>5. CASE \E p, q \in PDs, m \in MOs : CreatePd(p, q, m)
    BY <1>5, CreatePdInv
  <1>6. CASE \E p \in PDs, r \in Regions :
               \/ Reserve(p, r) \/ Remove(p, r)
               \/ \E m \in MOs : Attach(p, r, m) \/ AttachNoReserve(p, r, m) \/ LoadElf(p, r, m)
               \/ \E t \in Regions : ShallowCopy(p, r, t)
    BY <1>6, ReserveInv, RemoveInv, AttachInv, AttachNoReserveInv, LoadElfInv, ShallowCopyInv
  <1>7. CASE \E p \in PDs, c \in CPUs, a \in ADSs :
               \/ ChangeVspace(p, c, a)
               \/ \E q \in PDs : RuntimeSetup(p, q, a, c)
               \/ \E m \in MOs \cup {None} : Configure(p, c, a, m)
    BY <1>7, ChangeVspaceInv, RuntimeSetupInv, ConfigureInv
  <1>8. CASE \E p \in PDs : Destroy(p) \/ DestroyGivesUp(p)
    BY <1>8, DestroyInv, DestroyGivesUpInv
  <1> QED
    BY <1>1, <1>2, <1>3, <1>4, <1>5, <1>6, <1>7, <1>8 DEF Next

LEMMA CoreRefsInvariance == Spec => []CoreRefsInv
  BY InitInv, NextInv, PTL DEF Spec

\* The registries, the regions, the CPUs and the PDs keep their types; in
\* particular no count becomes negative, however many references a request
\* drops and whatever it destroys with them.
THEOREM CoreRefsTypeCorrect == Spec => []TypeOK
  <1>1. CoreRefsInv => TypeOK
    BY DEF CoreRefsInv
  <1> QED
    BY <1>1, CoreRefsInvariance, PTL

\* resource_component_dec never destroys an object that a PD, a region or a CPU
\* still refers to, through any chain of destructions, except for the ADS or CPU
\* that change_vspace, a replaced core cap or the destruction of a PD that was
\* not set up has counted too little.
THEOREM CountsCoverReferences == Spec => []CountsCover
  <1>1. CoreRefsInv => CountsCover
    BY DEF CoreRefsInv
  <1> QED
    BY <1>1, CoreRefsInvariance, PTL

\* The last reference that is dropped destroys the object, except for one that a
\* PD was sent twice, an MO that was attached over or that a failed load of an
\* ELF has left, the ADS of change_vspace, what a repeated runtime_setup has
\* counted, and what an allocation, a configuration or a pd_destroy that failed
\* half-way was about.
THEOREM NothingLeaks == Spec => []NoLeak
  <1>1. CoreRefsInv => NoLeak
    BY DEF CoreRefsInv
  <1> QED
    BY <1>1, CoreRefsInvariance, PTL

=============================================================================
