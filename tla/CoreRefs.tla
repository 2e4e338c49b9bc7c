------------------------------ MODULE CoreRefs ------------------------------
(***************************************************************************)
(* Reference counts of the objects that the root task manages itself:      *)
(* memory objects, address spaces, CPUs and endpoints.                     *)
(*                                                                         *)
(* An object is registered with a count (0 here when it is not) and is     *)
(* destroyed when the count reaches 0.  It is referred to from the hold    *)
(* registries of PDs, from the regions of an address space, from the IPC   *)
(* buffer and the address space of a CPU, and from the connections of a    *)
(* PD.  Destroying a CPU drops its references, so does an address space.   *)
(*                                                                         *)
(* Every handler runs to completion in the root task, so it is one action. *)
(* The root task's own hold entries keep no counts and are left out, and   *)
(* so is what a PD holds of other PDs.  Ids are not reused: they wrap      *)
(* round after 2^24 allocations.                                           *)
(***************************************************************************)
EXTENDS Integers, FiniteSets

CONSTANTS
  PDs, MOs, ADSs, CPUs, EPs,
  Vaddrs,       \* addresses of an ADS where there may be a region
  None,         \* no object, no region
  Reserved,     \* a region without an MO
  FirstPd, FirstAds, FirstCpu, FirstMo,  \* what osm_set_up makes
  MaxHold,      \* bound: times that a PD gets the same object
  MaxRequests   \* bound: requests served

Objects == MOs \cup ADSs \cup CPUs \cup EPs
Regions == ADSs \X Vaddrs

ASSUME CoreRefsAssumption ==
  /\ FirstPd \in PDs /\ FirstAds \in ADSs /\ FirstCpu \in CPUs /\ FirstMo \in MOs
  /\ \A S \in {PDs, MOs, ADSs, CPUs, EPs, Vaddrs} : IsFiniteSet(S)
  /\ Vaddrs # {} /\ None \notin Objects /\ Reserved \notin Objects \cup {None}
  /\ MOs \cap ADSs = {} /\ CPUs \cap EPs = {} /\ (MOs \cup ADSs) \cap (CPUs \cup EPs) = {}
  /\ MaxHold \in Nat /\ MaxRequests \in Nat /\ MaxRequests >= 2

VARIABLES
  core,            \* the registries: counts, regions of ADSs, what CPUs use
  fresh,           \* objects not allocated yet
  pds,             \* registered PDs
  created,         \* PDs that were ever allocated
  set_up,          \* PDs whose runtime was set up with their own connections
  hold,            \* hold[p][o]: count of the entry for o in the registry of p
  ads_conn, cpu_conn, shared_data_mo,  \* of each PD
  stale_badge,     \* third badge in the IPC buffer of the root task
  low, leaked,     \* history: objects that a request was seen to miscount
  requests         \* requests served

pdVars == <<pds, created, set_up, hold, ads_conn, cpu_conn, shared_data_mo>>
vars == <<core, fresh, pdVars, stale_badge, low, leaked, requests>>

Core == [count : [Objects -> Nat],
         attach : [Regions -> MOs \cup {None, Reserved}],
         ipc_buf_mo : [CPUs -> MOs \cup {None}],
         binded_ads_id : [CPUs -> ADSs \cup {None}]]

TypeOK ==
  /\ core \in Core
  /\ fresh \subseteq Objects /\ set_up \subseteq pds /\ pds \subseteq created /\ created \subseteq PDs
  /\ hold \in [PDs -> [Objects -> Nat]]
  /\ ads_conn \in [PDs -> ADSs \cup {None}] /\ cpu_conn \in [PDs -> CPUs \cup {None}]
  /\ shared_data_mo \in [PDs -> MOs \cup {None}]
  /\ stale_badge \in MOs \cup {None}
  /\ low \subseteq Objects /\ leaked \subseteq Objects
  /\ requests \in 0 .. MaxRequests

\* osm_set_up: the first PD has an ADS and a CPU, with an IPC buffer.  Its other
\* regions are left out.
InitFirst ==
  /\ core = [count |-> [o \in Objects |-> CASE o = FirstAds -> 3 [] o = FirstCpu -> 2
                                          [] o = FirstMo -> 2 [] OTHER -> 0],
             attach |-> [r \in Regions |-> IF r = <<FirstAds, CHOOSE v \in Vaddrs : TRUE>>
                                           THEN FirstMo ELSE None],
             ipc_buf_mo |-> [c \in CPUs |-> IF c = FirstCpu THEN FirstMo ELSE None],
             binded_ads_id |-> [c \in CPUs |-> IF c = FirstCpu THEN FirstAds ELSE None]]
  /\ fresh = Objects \ {FirstAds, FirstCpu, FirstMo}
  /\ pds = {FirstPd} /\ created = {FirstPd} /\ set_up = {FirstPd}
  /\ hold = [p \in PDs |-> [o \in Objects |->
               IF p = FirstPd /\ o \in {FirstAds, FirstCpu} THEN 1 ELSE 0]]
  /\ ads_conn = [p \in PDs |-> IF p = FirstPd THEN FirstAds ELSE None]
  /\ cpu_conn = [p \in PDs |-> IF p = FirstPd THEN FirstCpu ELSE None]
  /\ shared_data_mo = [p \in PDs |-> None]
  /\ stale_badge = None /\ requests = 0

\* As a thread that the first PD has prepared in its own ADS with
\* sel4gpi_prepare_pd leaves it: another CPU, and an MO with the PD's data that
\* the creator has disconnected.  The requests for it count as two.
InitThread ==
  \E q \in PDs \ {FirstPd}, c \in CPUs \ {FirstCpu}, d \in MOs \ {FirstMo} :
    LET both == {FirstPd, q} IN
    /\ core = [count |-> [o \in Objects |-> CASE o = FirstAds -> 6 [] o = FirstCpu -> 2
                                            [] o = c -> 3 [] o = FirstMo -> 2
                                            [] o = d -> 1 [] OTHER -> 0],
               attach |-> [r \in Regions |-> IF r = <<FirstAds, CHOOSE v \in Vaddrs : TRUE>>
                                             THEN FirstMo ELSE None],
               ipc_buf_mo |-> [x \in CPUs |-> IF x = FirstCpu THEN FirstMo ELSE None],
               binded_ads_id |-> [x \in CPUs |-> IF x \in {FirstCpu, c} THEN FirstAds ELSE None]]
    /\ fresh = Objects \ {FirstAds, FirstCpu, FirstMo, c, d}
    /\ pds = both /\ created = both /\ set_up = both
    /\ hold = [p \in PDs |-> [o \in Objects |->
                 IF \/ p = FirstPd /\ o \in {FirstAds, FirstCpu, c}
                    \/ p = q /\ o \in {FirstAds, c} THEN 1 ELSE 0]]
    /\ ads_conn = [p \in PDs |-> IF p \in both THEN FirstAds ELSE None]
    /\ cpu_conn = [p \in PDs |-> IF p = FirstPd THEN FirstCpu ELSE IF p = q THEN c ELSE None]
    /\ shared_data_mo = [p \in PDs |-> IF p = q THEN d ELSE None]
    /\ stale_badge = None /\ requests = 2

Init == (InitFirst \/ InitThread) /\ low = {} /\ leaked = {}

-----------------------------------------------------------------------------
(* Counting *)

Registered(o) == o # None /\ core.count[o] > 0

\* resource_component_inc, which fails for an object that is not registered.
Inc(s, o) == IF s.count[o] = 0 THEN s ELSE [s EXCEPT !.count[o] = @ + 1]

\* MUTANT: the regions of a destroyed ADS keep their MOs.
RegionsOfNone(gone) == {}

\* ads_destroy removes every region.
RegionsOf(gone) == gone \X Vaddrs

\* MUTANT: a dec does not look whether the object is registered.
CountAfterUnchecked(n, times) == n - times
CountAfter(n, times) == IF times >= n THEN 0 ELSE n - times

\* resource_component_dec, times[o] times for each o, with the destruction of
\* what reaches 0 and the references that this drops in turn: those of CPUs to
\* ADSs and MOs, and those of ADSs to MOs.  A dec of an object that is gone is
\* an error that only cpu_component_configure acts on.
Dropped(s, times) ==
  LET Gone(S, n) == {o \in S : s.count[o] > 0 /\ s.count[o] <= n[o]}
      cpus == Gone(CPUs, times)
      adsTimes == [a \in ADSs |-> times[a] + Cardinality({c \in cpus : s.binded_ads_id[c] = a})]
      regions == RegionsOf(Gone(ADSs, adsTimes))
      moTimes == [m \in MOs |-> times[m] + Cardinality({c \in cpus : s.ipc_buf_mo[c] = m})
                                         + Cardinality({r \in regions : s.attach[r] = m})]
      total == [o \in Objects |-> CASE o \in ADSs -> adsTimes[o] [] o \in MOs -> moTimes[o]
                                    [] OTHER -> times[o]]
  IN  [count |-> [o \in Objects |-> CountAfter(s.count[o], total[o])],
       attach |-> [r \in Regions |-> IF r \in regions THEN None ELSE s.attach[r]],
       ipc_buf_mo |-> [c \in CPUs |-> IF c \in cpus THEN None ELSE s.ipc_buf_mo[c]],
       binded_ads_id |-> [c \in CPUs |-> IF c \in cpus THEN None ELSE s.binded_ads_id[c]]]

Once(S) == [o \in Objects |-> IF o \in S THEN 1 ELSE 0]
Dec(s, o) == Dropped(s, Once({o}))

\* A PD makes requests when its runtime is set up and its CPU exists.
Running(p) == p \in set_up /\ Registered(cpu_conn[p])

\* p has the badged cap of o that comes with the hold entry, and o exists.
Has(p, o) == hold[p][o] > 0 /\ Registered(o)

Request(p) == Running(p) /\ requests < MaxRequests /\ requests' = requests + 1

-----------------------------------------------------------------------------
(* Allocation, sharing and disconnecting *)

\* resource_component_allocate for a client.  The entry is registered first; it
\* stays when the object cannot be made or the client cannot be given it.
Allocate(p, o) ==
  /\ Request(p) /\ o \in fresh
  /\ fresh' = fresh \ {o}
  /\ core' = [core EXCEPT !.count[o] = 1]
  /\ \/ hold' = [hold EXCEPT ![p][o] = 1] /\ UNCHANGED leaked
     \/ leaked' = leaked \cup {o} /\ UNCHANGED hold
  /\ UNCHANGED <<pds, created, set_up, ads_conn, cpu_conn, shared_data_mo, stale_badge, low>>

\* The disconnect handlers of the MO, ADS, CPU and EP components:
\* pd_remove_resource, and pd_held_resource_on_delete for the last one.
Disconnect(p, o) ==
  /\ Request(p) /\ Has(p, o)
  /\ hold' = [hold EXCEPT ![p][o] = @ - 1]
  /\ core' = IF hold'[p][o] = 0 THEN Dec(core, o) ELSE core
  /\ UNCHANGED <<fresh, pds, created, set_up, ads_conn, cpu_conn, shared_data_mo,
                 stale_badge, low, leaked>>

\* pd_send_cap: each send counts, but the entries of a PD are dropped once.
SendCap(p, q, o) ==
  /\ Request(p) /\ Has(p, o) /\ q \in pds /\ hold[q][o] < MaxHold
  /\ core' = Inc(core, o)
  /\ hold' = [hold EXCEPT ![q][o] = @ + 1]
  /\ leaked' = IF hold[q][o] > 0 THEN leaked \cup {o} ELSE leaked
  /\ UNCHANGED <<fresh, pds, created, set_up, ads_conn, cpu_conn, shared_data_mo, stale_badge, low>>

\* pd_send_cap with pd_set_core_cap: the connection of q is set as well, and
\* what it replaces is dropped, whether runtime_setup has counted it or not.
SendCoreCap(p, q, o) ==
  /\ Request(p) /\ Has(p, o) /\ q \in pds /\ hold[q][o] < MaxHold /\ o \in ADSs \cup CPUs
  /\ LET old == IF o \in ADSs THEN ads_conn[q] ELSE cpu_conn[q] IN
     /\ core' = Dec(Inc(core, o), old)
     /\ low' = IF old = None THEN low ELSE low \cup {IF q \in set_up THEN o ELSE old}
  /\ ads_conn' = IF o \in ADSs THEN [ads_conn EXCEPT ![q] = o] ELSE ads_conn
  /\ cpu_conn' = IF o \in CPUs THEN [cpu_conn EXCEPT ![q] = o] ELSE cpu_conn
  /\ hold' = [hold EXCEPT ![q][o] = @ + 1]
  /\ leaked' = IF hold[q][o] > 0 THEN leaked \cup {o} ELSE leaked
  /\ UNCHANGED <<fresh, pds, created, set_up, shared_data_mo, stale_badge>>

\* handle_share_resource_type_req: every MO that p holds.
ShareMos(p, q) ==
  LET shared == {m \in MOs : hold[p][m] > 0} IN
  /\ Request(p) /\ q \in pds \ {p}
  /\ shared # {} /\ \A m \in shared : hold[q][m] < MaxHold
  /\ core' = [core EXCEPT !.count = [o \in Objects |->
                IF o \in shared /\ @[o] > 0 THEN @[o] + 1 ELSE @[o]]]
  /\ hold' = [hold EXCEPT ![q] = [o \in Objects |-> @[o] + Once(shared)[o]]]
  /\ leaked' = leaked \cup {m \in shared : hold[q][m] > 0}
  /\ UNCHANGED <<fresh, pds, created, set_up, ads_conn, cpu_conn, shared_data_mo, stale_badge, low>>

-----------------------------------------------------------------------------
(* Regions of address spaces *)

regionFrame == <<fresh, pdVars, stale_badge, low>>

\* handle_vmr_reserve_req; also what a failed attach or copy leaves behind.
Reserve(p, r) ==
  /\ Request(p) /\ Registered(r[1]) /\ core.attach[r] = None
  /\ core' = [core EXCEPT !.attach[r] = Reserved]
  /\ UNCHANGED <<regionFrame, leaked>>

\* MUTANT: an attachment is not counted.
AttachedUncounted(s, r, m) == [s EXCEPT !.attach[r] = m]

\* ads_attach_to_res
Attached(s, r, m) == Inc([s EXCEPT !.attach[r] = m], m)

\* handle_vmr_attach_req, on a region that exists.  One that has an MO is
\* overwritten, if the new pages do not overlap the old ones.
Attach(p, r, m) ==
  /\ Request(p) /\ Has(p, m) /\ Registered(r[1]) /\ core.attach[r] # None
  /\ core' = Attached(core, r, m)
  /\ leaked' = IF core.attach[r] \in MOs THEN leaked \cup {core.attach[r]} ELSE leaked
  /\ UNCHANGED regionFrame

\* handle_vmr_attach_no_reserve_req
AttachNoReserve(p, r, m) ==
  /\ Request(p) /\ Has(p, m) /\ Registered(r[1]) /\ core.attach[r] = None
  /\ core' = Attached(core, r, m)
  /\ UNCHANGED <<regionFrame, leaked>>

\* handle_load_elf_request: the MO of a segment is allocated by the root task,
\* which attaches it to both ADSs, and drops its own attachment and its count.
\* load_segments drops nothing when it fails: at the attachment to the ADS, at
\* the one to the root task, or later.
LoadElf(p, r, m) ==
  LET Loaded(n, to) == [core EXCEPT !.count[m] = n, !.attach[r] = to] IN
  /\ Request(p) /\ Has(p, r[1]) /\ core.attach[r] = None /\ m \in fresh
  /\ fresh' = fresh \ {m}
  /\ \/ core' = Loaded(1, m) /\ UNCHANGED leaked
     \/ /\ core' \in {Loaded(1, Reserved), Loaded(2, m), Loaded(3, m)}
        /\ leaked' = leaked \cup {m}
  /\ UNCHANGED <<pdVars, stale_badge, low>>

\* handle_copy_req for one region.  A copy by type does this for one region
\* after the other.  A region without an MO is reserved, then the copy fails.
ShallowCopy(p, r, t) ==
  /\ Request(p) /\ Has(p, r[1]) /\ Has(p, t[1])
  /\ core.attach[r] # None /\ core.attach[t] = None
  /\ core' = IF core.attach[r] = Reserved THEN [core EXCEPT !.attach[t] = Reserved]
                                          ELSE Attached(core, t, core.attach[r])
  /\ UNCHANGED <<regionFrame, leaked>>

\* handle_vmr_delete_req and handle_vmr_delete_by_vaddr_req
Remove(p, r) ==
  /\ Request(p) /\ Registered(r[1]) /\ core.attach[r] # None
  /\ core' = Dec([core EXCEPT !.attach[r] = None], core.attach[r])
  /\ UNCHANGED <<regionFrame, leaked>>

-----------------------------------------------------------------------------
(* CPUs *)

\* cpu_component_configure.  What is replaced is dropped before the new one is
\* counted.  m is the MO found for the third badge.  The function gives up at a
\* dropped MO or ADS, or a counted MO, that does not exist.
Configured(s, c, a, m) ==
  LET Missing(st, o) == o # None /\ st.count[o] = 0
      s1 == Dec([s EXCEPT !.ipc_buf_mo[c] = None], s.ipc_buf_mo[c])
      s2 == IF m = None THEN s1 ELSE [Inc(s1, m) EXCEPT !.ipc_buf_mo[c] = m]
      s3 == Inc(Dec([s2 EXCEPT !.binded_ads_id[c] = None], s.binded_ads_id[c]), a)
      no_old_mo == Missing(s, s.ipc_buf_mo[c])
      no_mo == Missing(s1, m)
  IN  [gives_up |-> no_old_mo \/ no_mo \/ Missing(s2, s.binded_ads_id[c]),
       early |-> IF no_old_mo THEN s ELSE IF no_mo THEN s1 ELSE s2,
       unbound |-> s3,
       bound |-> [s3 EXCEPT !.binded_ads_id[c] = a]]

\* handle_config_req.  Without a third cap, the badge that an earlier message
\* left in its place is looked up.  The notification may refuse to be bound.
Configure(p, c, a, cap) ==
  /\ Request(p) /\ Has(p, c) /\ Has(p, a) /\ (cap # None => Has(p, cap))
  /\ LET badge == IF cap = None THEN stale_badge ELSE cap
         m == IF Registered(badge) THEN badge ELSE None
         end == Configured(core, c, a, m)
     IN
     /\ stale_badge' = badge
     /\ \/ end.gives_up /\ core' = end.early /\ UNCHANGED leaked
        \/ ~end.gives_up /\ core' = end.bound /\ UNCHANGED leaked
        \/ ~end.gives_up /\ core' = end.unbound /\ leaked' = leaked \cup {a}
  /\ UNCHANGED <<fresh, pdVars, low>>

\* handle_change_vspace_req: drops the ADS of the caller's connection, counts the
\* new one once, and makes both the connection and the CPU refer to it.
ChangeVspace(p, c, a) ==
  LET before == core.binded_ads_id[c] IN
  /\ Request(p) /\ Has(p, c) /\ Has(p, a)
  /\ core' = [Inc(Dec(core, ads_conn[p]), a) EXCEPT !.binded_ads_id[c] = a]
  /\ ads_conn' = [ads_conn EXCEPT ![p] = a]
  /\ low' = IF before = a THEN low ELSE low \cup {a}
  /\ leaked' = IF before \in {a, None} THEN leaked ELSE leaked \cup {before}
  /\ UNCHANGED <<fresh, pds, created, set_up, hold, cpu_conn, shared_data_mo, stale_badge>>

-----------------------------------------------------------------------------
(* PDs *)

\* handle_pd_allocation and pd_new: the MO with the PD's data is attached to
\* the root task.
CreatePd(p, q, m) ==
  /\ Request(p) /\ Has(p, m) /\ q \notin created
  /\ pds' = pds \cup {q} /\ created' = created \cup {q}
  /\ shared_data_mo' = [shared_data_mo EXCEPT ![q] = m]
  /\ core' = Inc(core, m)
  /\ UNCHANGED <<fresh, set_up, hold, ads_conn, cpu_conn, stale_badge, low, leaked>>

\* handle_runtime_setup_req counts the ADS and the CPU that come with it, each
\* time.  sel4gpi_prepare_pd calls it once, with those that it has sent as core
\* caps; any other call counts what no connection refers to.
RuntimeSetup(p, q, a, c) ==
  /\ Request(p) /\ q \in pds /\ Has(p, a) /\ Has(p, c)
  /\ core' = Inc(Inc(core, a), c)
  /\ IF q \notin set_up /\ a = ads_conn[q] /\ c = cpu_conn[q]
       THEN set_up' = set_up \cup {q} /\ UNCHANGED leaked
       ELSE leaked' = leaked \cup {a, c} /\ UNCHANGED set_up
  /\ UNCHANGED <<fresh, pds, created, hold, ads_conn, cpu_conn, shared_data_mo,
                 stale_badge, low>>

\* What pd_destroy drops: the connections, each entry of the hold registry
\* once whatever its count, and the attachment to the root task.
DroppedBy(p) ==
  [o \in Objects |-> Cardinality({x \in 1 .. 4 : \/ x = 1 /\ cpu_conn[p] = o
                                                 \/ x = 2 /\ ads_conn[p] = o
                                                 \/ x = 3 /\ hold[p][o] > 0
                                                 \/ x = 4 /\ shared_data_mo[p] = o})]

PdGone(p) ==
  /\ pds' = pds \ {p} /\ set_up' = set_up \ {p}
  /\ hold' = [hold EXCEPT ![p] = Once({})]
  /\ ads_conn' = [ads_conn EXCEPT ![p] = None] /\ cpu_conn' = [cpu_conn EXCEPT ![p] = None]
  /\ shared_data_mo' = [shared_data_mo EXCEPT ![p] = None]
  /\ requests < MaxRequests /\ requests' = requests + 1
  /\ UNCHANGED <<fresh, created, stale_badge>>

\* pd_destroy; the connections of a PD that was never set up are dropped although
\* nothing has counted them.
Destroy(p) ==
  /\ p \in pds /\ (cpu_conn[p] # None => Registered(cpu_conn[p]))
  /\ core' = Dropped(core, DroppedBy(p))
  /\ low' = IF p \in set_up THEN low ELSE low \cup ({ads_conn[p], cpu_conn[p]} \ {None})
  /\ PdGone(p) /\ UNCHANGED leaked

\* pd_destroy gives up when it cannot stop the CPU because there is none.
DestroyGivesUp(p) ==
  /\ p \in pds /\ cpu_conn[p] # None /\ ~Registered(cpu_conn[p])
  /\ leaked' = leaked \cup {o \in Objects : DroppedBy(p)[o] > 0}
  /\ PdGone(p) /\ UNCHANGED <<core, low>>

Next ==
  \/ \E p \in PDs, o \in Objects : Allocate(p, o) \/ Disconnect(p, o)
  \/ \E p, q \in PDs, o \in Objects : SendCap(p, q, o) \/ SendCoreCap(p, q, o)
  \/ \E p, q \in PDs : ShareMos(p, q)
  \/ \E p, q \in PDs, m \in MOs : CreatePd(p, q, m)
  \/ \E p \in PDs, r \in Regions :
       \/ Reserve(p, r) \/ Remove(p, r)
       \/ \E m \in MOs : Attach(p, r, m) \/ AttachNoReserve(p, r, m) \/ LoadElf(p, r, m)
       \/ \E t \in Regions : ShallowCopy(p, r, t)
  \/ \E p \in PDs, c \in CPUs, a \in ADSs :
       \/ ChangeVspace(p, c, a)
       \/ \E q \in PDs : RuntimeSetup(p, q, a, c)
       \/ \E m \in MOs \cup {None} : Configure(p, c, a, m)
  \/ \E p \in PDs : Destroy(p) \/ DestroyGivesUp(p)

Spec == Init /\ [][Next]_vars

-----------------------------------------------------------------------------
(* Properties *)

\* The references to o, from PDs and from registered objects.
Refs(o) ==
  Cardinality({p \in pds : hold[p][o] > 0})
  + Cardinality({r \in Regions : Registered(r[1]) /\ core.attach[r] = o})
  + Cardinality({c \in CPUs : Registered(c) /\ core.ipc_buf_mo[c] = o})
  + Cardinality({c \in CPUs : Registered(c) /\ core.binded_ads_id[c] = o})
  + Cardinality({p \in pds : shared_data_mo[p] = o})
  + Cardinality({p \in set_up : ads_conn[p] = o})
  + Cardinality({p \in set_up : cpu_conn[p] = o})

\* The count of an object is at least the number of references to it, so none
\* of them is left behind when the object is destroyed.  The only requests that
\* break this are change_vspace, replacing a core cap, and destroying a PD that
\* has core caps and was not set up; and they break it only for the ADS or CPU
\* that they are about.
CountsCover == \A o \in Objects \ low : core.count[o] >= Refs(o)

\* The count is at most the number of references, so an object is destroyed
\* with the last of them.  The requests that break this are sending a PD what
\* it has, attaching over an MO, change_vspace, a runtime_setup that is not the
\* first with the connections of the PD, and an allocation, a load of an ELF, a
\* CPU configuration or a pd_destroy that fails half-way; and they break it only
\* for the objects that they are about.
NoLeak == \A o \in Objects \ leaked : core.count[o] <= Refs(o)

\* An object that something refers to is not destroyed.
NothingFreedEarly == \A o \in Objects : Refs(o) > 0 => core.count[o] > 0
=============================================================================
