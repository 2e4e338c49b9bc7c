------------------------------- MODULE Cleanup -------------------------------
(***************************************************************************)
(* Destruction of PDs and resource spaces in the root task.                *)
(*                                                                         *)
(* Destroying a PD takes its resource spaces with it, and the cleanup      *)
(* policy may take the PDs and spaces that depend on those.  The code does *)
(* this by marking (to_delete) and sweeping: pd_destroy sweeps the spaces, *)
(* then the PDs, and the sweep of the PDs calls pd_destroy again.  Each    *)
(* activation of pd_destroy is a frame of the stack below, with the saved  *)
(* position of the HASH_ITER it is in.  One visit of an iteration is one   *)
(* step.  The requests that build the graph are served between cleanups.   *)
(*                                                                         *)
(* Registries are iterated in the order of insertion.  Ids grow, so that   *)
(* is the order of the ids; 0 is the end of an iteration.                  *)
(*                                                                         *)
(* Entries of a hold registry are counted.  Entries for resources and      *)
(* spaces are deleted whatever their count (pd_destroy, cleanup of a       *)
(* space), so here they are there or not.  The hold of a PD loses one      *)
(* count when that PD is destroyed, so its count is kept.                  *)
(*                                                                         *)
(* pd_destroy may give up half way.  The entry of the PD is freed all the  *)
(* same, with its spaces left behind; what follows is modelled up to the   *)
(* point where the RT looks for the manager of such a space and reads      *)
(* through the NULL pointer it gets.                                       *)
(***************************************************************************)
EXTENDS Integers, Sequences, FiniteSets, FiniteSetsExt, SequencesExt

CONSTANTS
  NPds,      \* number of PDs, created before anything else
  NSpaces,   \* number of resource spaces that may be allocated
  PdDepth,   \* GPI_CLEANUP_PD_DEPTH, -1 for unlimited
  RsDepth,   \* GPI_CLEANUP_RS_DEPTH, -1 for unlimited
  Kinds,     \* kinds of edges of the graph that clients add
  MaxGraph   \* bound: requests that add an edge to the graph

PDs == 1 .. NPds
Spaces == 1 .. NSpaces

ASSUME CleanupAssumption ==
  /\ NPds \in Nat \ {0} /\ NSpaces \in Nat
  /\ PdDepth \in Nat \cup {-1} /\ RsDepth \in Nat \cup {-1}
  /\ Kinds \subseteq {"rde", "resource", "pd", "link", "map"} /\ MaxGraph \in Nat

\* Entries of a hold registry that are not counted here: a resource of a
\* space, a space.
Res(s)    == <<"RES", s>>
ResSpc(s) == <<"RESSPC", s>>
Holdable  == {Res(s) : s \in Spaces} \cup {ResSpc(s) : s \in Spaces}

VARIABLES
  pds,             \* the PD registry
  spaces,          \* the resource space registry
  n_spaces,        \* id of the youngest space
  manager,         \* pd_id of each space
  hold_registry, rde, linked_registry,       \* of each PD
  pd_holds,        \* of each PD, the counts of its holds of PDs
  map_spaces,      \* of each space, as a list
  to_delete, deleting, deletion_depth,       \* flags of the PDs
  space_to_delete, cleanup_policy, space_depth,  \* flags of the spaces
  work,            \* FREE and DESTROY entries queued for the managers
  stack,           \* activations of pd_destroy, the innermost last
  freed_read,      \* has memory that was freed been read?
  graph,           \* requests that may still add an edge
  survivors, owed, \* history: what the cleanup in progress has to leave
  resent,          \* history: who was sent which PD while it held it
  gave_up          \* history: has a destruction given up half way?

graphVars == <<n_spaces, manager, map_spaces, graph>>
flagVars  == <<to_delete, deleting, deletion_depth>>
spcVars   == <<spaces, space_to_delete, cleanup_policy, space_depth>>
pdVars    == <<pds, hold_registry, pd_holds, rde, linked_registry>>
history   == <<survivors, owed, resent>>
vars == <<graphVars, flagVars, spcVars, pdVars, work, stack, freed_read, history, gave_up>>

Frame == [pd : PDs, phase : {"spaces", "pds"}, curr : Nat, next : Nat]

TypeOK ==
  /\ pds \subseteq PDs /\ spaces \subseteq Spaces /\ n_spaces \in 0 .. NSpaces
  /\ manager \in [Spaces -> PDs]
  /\ hold_registry \in [PDs -> SUBSET Holdable]
  /\ pd_holds \in [PDs -> [PDs -> Nat]]
  /\ rde \in [PDs -> SUBSET Spaces] /\ linked_registry \in [PDs -> SUBSET PDs]
  /\ map_spaces \in [Spaces -> Seq(Spaces)]
  /\ to_delete \subseteq PDs /\ deleting \subseteq to_delete
  /\ deletion_depth \in [PDs -> Nat]
  /\ space_to_delete \subseteq Spaces /\ cleanup_policy \subseteq Spaces
  /\ space_depth \in [Spaces -> Nat]
  /\ work \subseteq [action : {"FREE", "DESTROY"}, pd : PDs, space : Spaces, client : Nat]
  /\ stack \in Seq(Frame)
  /\ freed_read \in BOOLEAN /\ graph \in 0 .. MaxGraph
  /\ survivors \subseteq PDs /\ resent \subseteq PDs \X PDs /\ gave_up \in BOOLEAN

Init ==
  /\ pds = PDs /\ spaces = {} /\ n_spaces = 0
  /\ manager = [s \in Spaces |-> 1]
  /\ hold_registry = [p \in PDs |-> {}]
  /\ pd_holds = [p \in PDs |-> [q \in PDs |-> 0]]
  /\ rde = [p \in PDs |-> {}] /\ linked_registry = [p \in PDs |-> {}]
  /\ map_spaces = [s \in Spaces |-> <<>>]
  /\ to_delete = {} /\ deleting = {} /\ deletion_depth = [p \in PDs |-> 0]
  /\ space_to_delete = {} /\ cleanup_policy = {} /\ space_depth = [s \in Spaces |-> 0]
  /\ work = {} /\ stack = <<>> /\ freed_read = FALSE /\ graph = MaxGraph
  /\ survivors = PDs /\ owed = {} /\ resent = {} /\ gave_up = FALSE

Idle == stack = <<>>

-----------------------------------------------------------------------------
(* Requests that build the graph *)

AddEdge(kind) == Idle /\ kind \in Kinds /\ graph > 0 /\ graph' = graph - 1

UNCHANGED_cleanup == UNCHANGED <<flagVars, pds, spaces, space_to_delete, cleanup_policy,
                                 space_depth, work, stack, freed_read, survivors, owed,
                                 gave_up>>

\* handle_resspc_allocation_request: p manages the new space, c gets its RDE.
AllocSpace(p, c) ==
  /\ Idle /\ n_spaces < NSpaces /\ {p, c} \subseteq pds
  /\ LET s == n_spaces + 1 IN
     /\ n_spaces' = s
     /\ spaces' = spaces \cup {s}
     /\ manager' = [manager EXCEPT ![s] = p]
     /\ hold_registry' = [hold_registry EXCEPT ![p] = @ \cup {ResSpc(s)}]
     /\ rde' = [rde EXCEPT ![c] = @ \cup {s}]
  /\ UNCHANGED <<flagVars, pds, pd_holds, linked_registry, map_spaces, graph, space_to_delete,
                 cleanup_policy, space_depth, work, stack, freed_read, history, gave_up>>

\* handle_share_rde_req: q gets an RDE that p has.
ShareRde(p, q, s) ==
  /\ AddEdge("rde") /\ {p, q} \subseteq pds
  /\ s \in rde[p] \cap spaces /\ s \notin rde[q]
  /\ rde' = [rde EXCEPT ![q] = @ \cup {s}]
  /\ UNCHANGED <<n_spaces, manager, map_spaces, hold_registry, linked_registry, pd_holds, resent>>
  /\ UNCHANGED_cleanup

\* handle_create_resource_request: the server holds what it creates.
CreateResource(s) ==
  /\ AddEdge("resource") /\ s \in spaces /\ manager[s] \in pds
  /\ hold_registry' = [hold_registry EXCEPT ![manager[s]] = @ \cup {Res(s)}]
  /\ UNCHANGED <<n_spaces, manager, map_spaces, rde, linked_registry, pd_holds, resent>>
  /\ UNCHANGED_cleanup

\* handle_give_resource_req
GiveResource(s, q) ==
  /\ AddEdge("resource") /\ s \in spaces /\ {q, manager[s]} \subseteq pds
  /\ Res(s) \in hold_registry[manager[s]] \ hold_registry[q]
  /\ hold_registry' = [hold_registry EXCEPT ![q] = @ \cup {Res(s)}]
  /\ UNCHANGED <<n_spaces, manager, map_spaces, rde, linked_registry, pd_holds, resent>>
  /\ UNCHANGED_cleanup

\* handle_send_cap_req for a PD: p gets to hold q, once more if it does already.
SendPd(p, q) ==
  /\ AddEdge("pd") /\ {p, q} \subseteq pds
  /\ pd_holds' = [pd_holds EXCEPT ![p][q] = @ + 1]
  /\ resent' = IF pd_holds[p][q] > 0 THEN resent \cup {<<p, q>>} ELSE resent
  /\ UNCHANGED <<n_spaces, manager, map_spaces, hold_registry, rde, linked_registry>>
  /\ UNCHANGED_cleanup

\* handle_link_child_req, as pd_creation uses it: p links a PD it created.
\* A second link to the same PD marks it twice, which changes nothing.
LinkChild(p, q) ==
  /\ AddEdge("link") /\ {p, q} \subseteq pds /\ p < q
  /\ q \notin linked_registry[p]
  /\ linked_registry' = [linked_registry EXCEPT ![p] = @ \cup {q}]
  /\ UNCHANGED <<n_spaces, manager, map_spaces, hold_registry, rde, pd_holds, resent>>
  /\ UNCHANGED_cleanup

\* handle_map_space_request: s maps to t.
MapSpace(s, t) ==
  /\ AddEdge("map") /\ {s, t} \subseteq spaces /\ s # t
  /\ map_spaces' = [map_spaces EXCEPT ![s] = Append(@, t)]
  /\ UNCHANGED <<n_spaces, manager, hold_registry, rde, linked_registry, pd_holds, resent>>
  /\ UNCHANGED_cleanup

-----------------------------------------------------------------------------
(* pd_destroy, up to the sweeps *)

\* The PDs that pd_mark_linked_for_deletion marks: linked over any number of
\* registered PDs.
LinkedTo(p) ==
  {q \in pds : \A K \in SUBSET pds :
     (\A x \in K \cup {p} : linked_registry[x] \cap pds \subseteq K) => q \in K}

\* MUTANT: flags of the linked PDs are set, but not that of the PD itself.
MarkedByLinks(p) == LinkedTo(p)

\* The PDs that pd_destroy marks.
Marked(p) == {p} \cup LinkedTo(p)

\* MUTANT: nobody is told while a linked PD goes too.
FreeWorkUnlinked(p) ==
  {[action |-> "FREE", pd |-> manager[s], space |-> s, client |-> p] :
     s \in {t \in spaces : Res(t) \in hold_registry[p] /\ to_delete = {} /\ manager[t] # p}}

\* pd_held_resource_on_delete: the manager of a held resource is told, unless
\* its space is going too or p is the manager itself.
FreeWork(p) ==
  {[action |-> "FREE", pd |-> manager[s], space |-> s, client |-> p] :
     s \in {t \in spaces : Res(t) \in hold_registry[p] /\ t \notin space_to_delete
                          /\ manager[t] # p}}

\* MUTANT: the spaces of the PD are not marked.
OwnSpacesNone(p) == {}

\* The spaces whose deletion pd_destroy leaves to the sweep.
OwnSpaces(p) == {s \in spaces : ResSpc(s) \in hold_registry[p]}

First(S)    == IF S = {} THEN 0 ELSE Min(S)
After(S, x) == First({y \in S : y > x})

\* What pd_destroy(p) has done when it comes to the sweeps.  It is entered at
\* the root of a deletion tree or from a sweep; both set the depth to 0, so the
\* spaces of p always execute the policy.
Release(p) ==
  /\ deletion_depth' = [deletion_depth EXCEPT ![p] = 0]
  /\ deleting' = deleting \cup {p}
  /\ to_delete' = to_delete \cup Marked(p)
  /\ linked_registry' = [x \in PDs |->
       IF x \in Marked(p) THEN {} ELSE linked_registry[x]]
  /\ space_to_delete' = space_to_delete \cup OwnSpaces(p)
  /\ cleanup_policy' = IF deletion_depth'[p] = 0 THEN cleanup_policy \cup OwnSpaces(p)
                                                 ELSE cleanup_policy \ OwnSpaces(p)
  /\ hold_registry' = [hold_registry EXCEPT ![p] = {}]
  /\ pd_holds' = [pd_holds EXCEPT ![p] = [q \in PDs |-> 0]]
  /\ rde' = [rde EXCEPT ![p] = {}]

\* The notice is queued on the entry of the manager, which is not tested for
\* NULL.  Bound: nothing is modelled beyond that read.
NullManager(p) == \E w \in FreeWork(p) : w.pd \notin pds

\* pd_destroy, up to the sweeps.
EnterDestroy(p, frames) ==
  /\ Release(p)
  /\ work' = work \cup FreeWork(p)
  /\ stack' = Append(frames, [pd |-> p, phase |-> "spaces", curr |-> First(spaces),
                              next |-> After(spaces, First(spaces))])
  /\ UNCHANGED <<graphVars, pds, spaces, space_depth, freed_read, gave_up>>

-----------------------------------------------------------------------------
(* Deletion of a resource space *)

\* Does resspc_check_map(t, s) find s?  The list holds pointers to the spaces
\* mapped to, which are not removed when such a space is freed: an entry of a
\* freed space before s may read as any id.
Live(t, s)   == SelectInSeq(map_spaces[t], LAMBDA u : u = s)
Freed(t, s)  == SelectInSeq(map_spaces[t], LAMBDA u : u \notin spaces)
ReadsFreed(t, s) == Freed(t, s) > 0 /\ (Live(t, s) = 0 \/ Freed(t, s) < Live(t, s))

\* The spaces that resspc_component_space_cleanup looks at.
Candidates(s) ==
  IF s \in cleanup_policy /\ (RsDepth = -1 \/ space_depth[s] < RsDepth)
  THEN {t \in spaces \ space_to_delete : map_spaces[t] # <<>>} ELSE {}

\* MUTANT: PDs that only hold resources of the space are spared.
DependsByRde(p, s) == s \in rde[p]

Depends(p, s) == s \in rde[p] \/ Res(s) \in hold_registry[p]

\* MUTANT: the RDEs for a deleted space stay.
WithoutSpaceHolds(p, s) == rde[p]

\* The RDEs p is left with.
WithoutSpace(p, s) == rde[p] \ {s}

\* on_resspc_registry_delete(s): apply the policy to the spaces that map to s,
\* tell the manager, apply the policy to the PDs that depend on s, and take
\* RDEs and resources of s away from the PDs that stay.
DeleteSpace(s, dont_notify) ==
  LET m      == manager[s]
      depth  == deletion_depth[m]
      \* pd_component_space_cleanup gives up if the manager is not registered
      staying == IF m \in pds THEN pds \ to_delete ELSE {}
      condemned == IF s \in cleanup_policy /\ (PdDepth = -1 \/ depth + 1 <= PdDepth)
                   THEN {p \in staying : Depends(p, s)} ELSE {}
  IN
  /\ \E wild \in SUBSET {t \in Candidates(s) : ReadsFreed(t, s)} :
       LET mapped == wild \cup {t \in Candidates(s) : Live(t, s) > 0} IN
       /\ space_to_delete' = (space_to_delete \cup mapped) \ {s}
       /\ cleanup_policy' = (cleanup_policy \cup mapped) \ {s}
       /\ space_depth' = [t \in Spaces |-> IF t \in mapped THEN space_depth[s] + 1
                                                           ELSE space_depth[t]]
  /\ freed_read' = (freed_read \/ \E t \in Candidates(s) : ReadsFreed(t, s))
  /\ work' = IF m \in staying /\ ~dont_notify
             THEN work \cup {[action |-> "DESTROY", pd |-> m, space |-> s, client |-> 0]}
             ELSE work
  /\ to_delete' = to_delete \cup condemned
  /\ deletion_depth' = [p \in PDs |-> IF p \in condemned THEN depth + 1 ELSE deletion_depth[p]]
  /\ rde' = [p \in PDs |-> IF p \in staying \ condemned THEN WithoutSpace(p, s) ELSE rde[p]]
  /\ hold_registry' = [p \in PDs |->
       hold_registry[p] \ ((IF p \in staying \ condemned THEN {Res(s)} ELSE {})
                          \cup (IF p = m /\ m \in staying THEN {ResSpc(s)} ELSE {}))]
  /\ spaces' = spaces \ {s}
  /\ UNCHANGED <<graphVars, pds, pd_holds, linked_registry, deleting, gave_up>>

-----------------------------------------------------------------------------
(* The sweeps *)

top == Last(stack)

\* MUTANT: the iteration stays where it is.
AdvancedStuck(f, S, stale) == f

\* HASH_ITER moves on to the entry it saved before the body, and reads which
\* comes after it; stale is what that reads in an entry that was freed.
Advanced(f, S, stale) ==
  [f EXCEPT !.curr = f.next,
            !.next = IF f.next = 0 THEN 0
                     ELSE IF f.next \in S THEN After(S, f.next) ELSE stale]

\* One visit of resspc_component_sweep.
SweepSpace ==
  /\ stack # <<>> /\ top.phase = "spaces" /\ top.curr # 0
  /\ IF top.curr \in space_to_delete
     THEN DeleteSpace(top.curr, FALSE)
     ELSE UNCHANGED <<graphVars, flagVars, spcVars, pdVars, work, freed_read, gave_up>>
  /\ stack' = Append(Front(stack), Advanced(top, spaces', 0))
  /\ UNCHANGED history

\* MUTANT: the sweep of the PDs starts behind the PD that is destroyed.
SweepStartsAfter(p) == After(pds, p)
SweepStartsAt(p) == First(pds)

\* resspc_component_sweep is done, pd_component_sweep begins.
StartPdSweep ==
  /\ stack # <<>> /\ top.phase = "spaces" /\ top.curr = 0
  /\ LET first == SweepStartsAt(top.pd) IN
     stack' = Append(Front(stack), [top EXCEPT !.phase = "pds", !.curr = first,
                                               !.next = After(pds, first)])
  /\ UNCHANGED <<graphVars, flagVars, spcVars, pdVars, work, freed_read, history, gave_up>>

\* The flags of a freed PD still read as set, so it is skipped, but what it
\* has for a next entry is whatever came after it when it was freed.
StaleNext(f, S) == IF f.next \in S \cup {0} THEN {0}
                   ELSE {0} \cup {y \in PDs : y > f.next}

\* One visit that finds nothing to do.
SkipPd ==
  /\ stack # <<>> /\ top.phase = "pds" /\ top.curr # 0
  /\ top.curr \notin to_delete \ deleting
  /\ \E stale \in StaleNext(top, pds) :
       stack' = Append(Front(stack), Advanced(top, pds, stale))
  /\ freed_read' = (freed_read \/ top.next \notin pds \cup {0})
  /\ UNCHANGED <<graphVars, flagVars, spcVars, pdVars, work, history, gave_up>>

\* resource_registry_delete(p) is done and the entry freed.  The sweep that
\* called it, if one did, moves on.
Unregister(p, frames) ==
  /\ pds' = pds \ {p}
  /\ IF frames = <<>> THEN stack' = <<>> /\ UNCHANGED freed_read
     ELSE /\ \E stale \in StaleNext(Last(frames), pds') :
               stack' = Append(Front(frames), Advanced(Last(frames), pds', stale))
          /\ freed_read' = (freed_read \/ Last(frames).next \notin pds' \cup {0})

\* MUTANT: the holds of a destroyed PD stay.
HoldsAfterKept(q, p) == pd_holds[q]

\* The holds of PDs that q has when p is destroyed: pd_remove_resource takes one
\* count.  PDs that are marked are skipped.
HoldsAfter(q, p) ==
  IF q \in pds \ to_delete /\ pd_holds[q][p] > 0
  THEN [pd_holds[q] EXCEPT ![p] = @ - 1] ELSE pd_holds[q]

\* The sweep is done: pd_component_resource_cleanup takes the PD from those
\* that hold it, and on_pd_registry_delete drops its lists.
LeaveDestroy ==
  /\ stack # <<>> /\ top.phase = "pds" /\ top.curr = 0
  /\ Unregister(top.pd, Front(stack))
  /\ pd_holds' = [q \in PDs |-> HoldsAfter(q, top.pd)]
  /\ work' = {w \in work : w.pd # top.pd}
  /\ UNCHANGED <<graphVars, flagVars, spcVars, hold_registry, rde, linked_registry, history,
                 gave_up>>

\* pd_destroy fails to stop the CPU of p, or to move the reply cap: it returns
\* before anything is released.
GiveUpEarly(p) ==
  /\ deletion_depth' = [deletion_depth EXCEPT ![p] = 0]
  /\ deleting' = deleting \cup {p} /\ to_delete' = to_delete \cup {p}
  /\ work' = {w \in work : w.pd # p}
  /\ UNCHANGED <<hold_registry, pd_holds, rde, linked_registry, space_to_delete,
                 cleanup_policy>>

\* It fails to remove the init data from the RT: it returns before the sweeps.
GiveUpLate(p) ==
  /\ Release(p)
  /\ work' = {w \in work \cup FreeWork(p) : w.pd # p}

\* Either way the spaces of p stay registered, PDs that hold p keep it, and
\* the entry of p is freed.
DestroyGivesUp(p, frames) ==
  /\ GiveUpEarly(p) \/ GiveUpLate(p)
  /\ Unregister(p, frames)
  /\ gave_up' = TRUE
  /\ UNCHANGED <<graphVars, spaces, space_depth>>

\* One visit of pd_component_sweep that finds a marked PD: destroy it.
SweepPd ==
  /\ stack # <<>> /\ top.phase = "pds" /\ top.curr \in to_delete \ deleting
  /\ ~NullManager(top.curr)
  /\ EnterDestroy(top.curr, stack) \/ DestroyGivesUp(top.curr, stack)
  /\ UNCHANGED history

-----------------------------------------------------------------------------
(* What the policy says, computed on the graph before the cleanup *)

\* PDs linked to one of K, over any number of PDs.
WithLinked(K) == K \cup UNION {LinkedTo(p) : p \in K}

\* PDs that depend on a space that a PD of K manages.
Dependents(K) ==
  {q \in pds : \E s \in spaces :
     manager[s] \in K /\ (s \in rde[q] \/ Res(s) \in hold_registry[q])}

\* K has every PD that goes with one of K, if the depth is 0 or unlimited.
Closed(K) ==
  /\ \A x \in K : linked_registry[x] \cap pds \subseteq K
  /\ PdDepth = -1 => Dependents(K) \subseteq K

\* The PDs to be killed when p is: those linked to it, and up to PdDepth times
\* those that depend on them.
Condemned(p) ==
  IF PdDepth \in {-1, 0}
  THEN {q \in pds : \A K \in SUBSET pds : p \in K /\ Closed(K) => q \in K}
  ELSE LET level[n \in 0 .. NPds] ==
             IF n = 0 THEN WithLinked({p})
             ELSE WithLinked(level[n - 1] \cup Dependents(level[n - 1]))
       IN  level[Min({PdDepth, NPds})]

\* The notices that the managers among the survivors are owed.
Owed(K) ==
  UNION {{[action |-> "FREE", pd |-> manager[s], space |-> s, client |-> q] :
            q \in {x \in K : Res(s) \in hold_registry[x]}} :
         s \in {t \in spaces : manager[t] \notin K}}

-----------------------------------------------------------------------------
(* Requests that delete *)

\* pd_component_terminate and handle_exit_req
Terminate(p) ==
  /\ Idle /\ p \in pds /\ ~NullManager(p)
  /\ EnterDestroy(p, <<>>) \/ DestroyGivesUp(p, <<>>)
  /\ survivors' = pds \ Condemned(p)
  /\ owed' = {w \in owed : w.pd \notin Condemned(p)} \cup Owed(Condemned(p))
  /\ UNCHANGED resent

\* handle_destroy_space_request, which only the manager makes.
DestroySpace(s) ==
  /\ Idle /\ s \in spaces \ space_to_delete
  /\ manager[s] \in pds /\ ResSpc(s) \in hold_registry[manager[s]]
  /\ DeleteSpace(s, TRUE)
  /\ UNCHANGED <<stack, history>>

CleanupStep == SweepSpace \/ StartPdSweep \/ SweepPd \/ SkipPd \/ LeaveDestroy

Next ==
  \/ \E p, q \in PDs :
       \/ AllocSpace(p, q) \/ SendPd(p, q) \/ LinkChild(p, q)
       \/ \E s \in Spaces : ShareRde(p, q, s)
  \/ \E s \in Spaces :
       \/ CreateResource(s) \/ DestroySpace(s)
       \/ \E q \in PDs : GiveResource(s, q)
       \/ \E t \in Spaces : MapSpace(s, t)
  \/ \E p \in PDs : Terminate(p)
  \/ CleanupStep

Spec == Init /\ [][Next]_vars

\* The cleanup is one run of a handler of the RT, which nothing interrupts.
FairSpec == Spec /\ WF_vars(CleanupStep)

-----------------------------------------------------------------------------
(* Properties *)

\* A registered space has a registered manager, also in the middle of nested
\* deletions, unless a destruction gave up: otherwise pd_component_space_cleanup
\* and the FREE notices of pd_held_resource_on_delete would look for a PD that
\* is gone.
SpaceHasManager == ~gave_up => \A s \in spaces : manager[s] \in pds

\* After a cleanup no PD is left marked: a marked PD is skipped by every later
\* cleanup of spaces and resources, so it would keep what it has for ever.
NoMarkedPdLeft == Idle /\ ~gave_up => to_delete \cap pds = {}

\* After a cleanup no PD that stays has an RDE, a resource or a PD of something
\* that was destroyed, whatever order the deletions were nested in.  A hold of
\* a PD that was sent again to its holder is the exception (NoDanglingPd).
NoDangling ==
  Idle /\ ~gave_up => \A p \in pds :
    /\ rde[p] \subseteq spaces
    /\ \A s \in Spaces : {Res(s), ResSpc(s)} \cap hold_registry[p] # {} => s \in spaces
    /\ \A q \in PDs : pd_holds[p][q] > 0 => q \in pds \/ <<p, q>> \in resent

\* The destruction of a PD removes it from the PDs that hold it, as the comment
\* in pd_destroy says.  It fails: one count is taken, and a PD that was sent
\* twice to the same holder counts two.
NoDanglingPd ==
  Idle /\ ~gave_up => \A p \in pds, q \in PDs : pd_holds[p][q] > 0 => q \in pds

\* A cleanup kills the PDs that the configured depth says, and no other.
KilledAsPolicySays == Idle /\ ~gave_up => pds = survivors

\* The managers that survive have been told of every resource of theirs that a
\* killed PD held, so that they can free it, and no list of a dead PD is left.
ManagersTold == Idle /\ ~gave_up => owed \subseteq work /\ \A w \in work : w.pd \in pds

\* The iterations never reach an entry that a nested deletion has freed.
NoFreedRead == ~freed_read

\* A cleanup comes to an end, however deep the deletions nest and also when one
\* of them gives up, unless the RT reads through a NULL pointer on the way.
CleanupEnds ==
  (stack # <<>>) ~> (stack = <<>> \/ (/\ top.phase = "pds"
                                      /\ top.curr \in to_delete \ deleting
                                      /\ NullManager(top.curr)))
=============================================================================
