------------------------ MODULE CleanupPolicy_proofs ------------------------
(***************************************************************************)
(* Proofs that a cleanup does what the policy says, for any number of PDs  *)
(* and spaces and any graph: it kills the PDs that the policy names and no *)
(* others, and the managers that survive are told of every resource that a *)
(* killed PD held.  This is for the depths 0 (the default of the build)    *)
(* and -1; with a depth of 1 the code kills more (run cleanup_depth_one).  *)
(***************************************************************************)
EXTENDS Cleanup_proofs

\* The depths for which the code follows the policy, where no space takes
\* another with it.
PolicyApplies == PdDepth \in {-1, 0} /\ (RsDepth = 0 \/ "map" \notin Kinds)

-----------------------------------------------------------------------------
(* The invariant *)

\* A marked space executes the policy and its manager is going; a PD that is
\* being destroyed has marked all that is linked to it.
MarksInv ==
  /\ RsDepth # 0 => \A s \in Spaces : map_spaces[s] = <<>>
  /\ space_to_delete \subseteq spaces /\ space_to_delete \subseteq cleanup_policy
  /\ \A s \in space_to_delete : manager[s] \in to_delete
  /\ \A x \in pds \cap deleting : linked_registry[x] = {}

\* Not too many: no PD that is to survive is marked, and none is linked to one
\* that goes or depends on it.  The graph only loses edges in a cleanup.
UpperInv ==
  /\ survivors \subseteq pds /\ survivors \cap to_delete = {}
  /\ Closed(pds \ survivors)

\* Not too few: whoever else is to go can be reached from a marked PD in what
\* is left of the graph.  An edge is lost only after both its ends are marked.
LowerInv ==
  \A K \in SUBSET pds : to_delete \cap pds \subseteq K /\ Closed(K) => pds \ survivors \subseteq K

\* A notice that is owed and not queued is due when its client is destroyed.
Due(w) ==
  /\ w = [action |-> "FREE", pd |-> w.pd, space |-> w.space, client |-> w.client]
  /\ w.client \in pds \ (deleting \cup survivors) /\ w.space \in spaces
  /\ manager[w.space] = w.pd /\ Res(w.space) \in hold_registry[w.client]

NoticesInv ==
  /\ \A w \in work : w.pd \in pds
  /\ \A w \in owed : w.pd \in survivors /\ (w \in work \/ Due(w))

PolicyInv == PolicyApplies => MarksInv /\ UpperInv /\ LowerInv /\ NoticesInv

-----------------------------------------------------------------------------
(* Steps between cleanups, and steps of the stack *)

\* Between cleanups the PDs are the survivors, and nothing is marked or due.
LEMMA IdlePolicy ==
  ASSUME CleanupInv, MarksInv, UpperInv, LowerInv, NoticesInv, Idle
  PROVE  pds = survivors /\ space_to_delete = {} /\ owed \subseteq work
  <1>1. pds \cap to_delete = {}
    BY IdleClean
  <1>2. Closed({})
    BY DEF Closed, Dependents
  <1>3. pds = survivors
    BY <1>1, <1>2 DEF LowerInv, UpperInv
  <1>4. space_to_delete = {}
    BY <1>1 DEF MarksInv, CleanupInv, SpacesInv
  <1>5. owed \subseteq work
    BY <1>3 DEF NoticesInv, Due
  <1> QED
    BY <1>3, <1>4, <1>5

\* A request that starts no cleanup.
LEMMA IdleStep ==
  ASSUME CleanupInv, PolicyInv, Idle, UNCHANGED <<pds, to_delete, deleting, survivors, owed>>,
         space_to_delete' \subseteq space_to_delete,
         work \subseteq work', \A w \in work' : w \in work \/ w.pd \in pds,
         PolicyApplies /\ RsDepth # 0 /\ (\A s \in Spaces : map_spaces[s] = <<>>) =>
           \A s \in Spaces : map_spaces'[s] = <<>>
  PROVE  PolicyInv'
  <1> SUFFICES ASSUME PolicyApplies
               PROVE  (MarksInv /\ UpperInv /\ LowerInv /\ NoticesInv)'
    BY DEF PolicyInv, PolicyApplies
  <1>1. MarksInv /\ UpperInv /\ LowerInv /\ NoticesInv
    BY DEF PolicyInv
  <1>2. pds = survivors /\ space_to_delete = {} /\ owed \subseteq work
    BY <1>1, IdlePolicy
  <1>3. pds \cap deleting = {}
    BY IdleClean
  <1>4. MarksInv'
    BY <1>1, <1>2, <1>3 DEF MarksInv
  <1>5. UpperInv'
    <2>1. survivors' \subseteq pds' /\ survivors' \cap to_delete' = {} /\ pds' \ survivors' = {}
      BY <1>1, <1>2 DEF UpperInv
    <2> QED
      BY <2>1 DEF UpperInv, Closed, Dependents
  <1>6. LowerInv'
    BY <1>2 DEF LowerInv
  <1>7. NoticesInv'
    BY <1>1, <1>2 DEF NoticesInv
  <1> QED
    BY <1>4, <1>5, <1>6, <1>7

\* A step that changes the stack only.
LEMMA StackStep ==
  ASSUME PolicyInv,
         UNCHANGED <<manager, map_spaces, to_delete, deleting, spaces, space_to_delete,
                     cleanup_policy, pds, hold_registry, rde, linked_registry, work,
                     survivors, owed>>
  PROVE  PolicyInv'
  <1>1. /\ MarksInv => MarksInv'
        /\ NoticesInv => NoticesInv'
    BY DEF MarksInv, NoticesInv, Due
  <1>2. \A K : Closed(K)' <=> Closed(K)
    BY DEF Closed, Dependents
  <1>3. UpperInv => UpperInv'
    BY DEF UpperInv, Closed, Dependents
  <1>4. LowerInv => LowerInv'
    BY <1>2 DEF LowerInv
  <1> QED
    BY <1>1, <1>3, <1>4 DEF PolicyInv, PolicyApplies

\* A cleanup takes edges away from the graph, so the PDs that are to go stay
\* closed.
LEMMA UpperStep ==
  ASSUME TypeOK, pds' \subseteq pds, spaces' \subseteq spaces, manager' = manager,
         \A x \in PDs : /\ linked_registry'[x] \subseteq linked_registry[x]
                        /\ rde'[x] \subseteq rde[x] /\ hold_registry'[x] \subseteq hold_registry[x],
         survivors' \subseteq pds', survivors' \cap to_delete' = {}, Closed(pds \ survivors')
  PROVE  UpperInv'
  <1>1. pds \subseteq PDs
    BY Types
  <1>2. \A x \in pds' \ survivors' : linked_registry'[x] \cap pds' \subseteq pds' \ survivors'
    BY <1>1 DEF Closed
  <1>3. ASSUME PdDepth = -1, NEW q \in pds', NEW s \in spaces', manager'[s] \in pds' \ survivors',
               s \in rde'[q] \/ Res(s) \in hold_registry'[q]
        PROVE  q \in pds' \ survivors'
    <2>1. /\ q \in pds /\ q \in PDs /\ s \in spaces /\ manager[s] \in pds \ survivors'
          /\ s \in rde[q] \/ Res(s) \in hold_registry[q]
      BY <1>1, <1>3
    <2>2. q \in Dependents(pds \ survivors')
      BY <2>1 DEF Dependents
    <2> QED
      BY <1>3, <2>2 DEF Closed
  <1> QED
    BY <1>2, <1>3 DEF UpperInv, Closed, Dependents

-----------------------------------------------------------------------------
(* pd_destroy is entered *)

\* A set that is closed under links has all that pd_mark_linked_for_deletion
\* marks from one of it.
LEMMA MarkedWithin ==
  ASSUME NEW C, C \subseteq pds, \A x \in C : linked_registry[x] \cap pds \subseteq C, NEW p \in C
  PROVE  Marked(p) \subseteq C
  <1>1. C \in SUBSET pds /\ C \cup {p} = C
    OBVIOUS
  <1>2. LinkedTo(p) \subseteq C
    BY <1>1 DEF LinkedTo
  <1> QED
    BY <1>2 DEF Marked

\* What it marks is closed under links.
LEMMA MarkedAll ==
  ASSUME NEW p, NEW x \in Marked(p), NEW y \in linked_registry[x] \cap pds
  PROVE  y \in Marked(p)
  <1>1. ASSUME NEW K \in SUBSET pds, \A z \in K \cup {p} : linked_registry[z] \cap pds \subseteq K
        PROVE  y \in K
    <2>1. CASE x = p
      BY <1>1, <2>1
    <2>2. CASE x \in LinkedTo(p)
      <3>1. x \in K
        BY <1>1, <2>2 DEF LinkedTo
      <3> QED
        BY <1>1, <3>1
    <2> QED
      BY <2>1, <2>2 DEF Marked
  <1>2. y \in LinkedTo(p)
    BY <1>1 DEF LinkedTo
  <1> QED
    BY <1>2 DEF Marked

\* What EnterDestroy changes, for the graph and the marks.
LEMMA EnterEffect ==
  ASSUME CleanupInv, NEW p \in pds, NEW frames, EnterDestroy(p, frames)
  PROVE  /\ UNCHANGED <<manager, map_spaces, pds, spaces>>
         /\ deleting' = deleting \cup {p} /\ to_delete' = to_delete \cup Marked(p)
         /\ space_to_delete' = space_to_delete \cup OwnSpaces(p)
         /\ cleanup_policy' = cleanup_policy \cup OwnSpaces(p)
         /\ work' = work \cup FreeWork(p)
         /\ \A x \in PDs : /\ x \in Marked(p) => linked_registry'[x] = {}
                           /\ x \notin Marked(p) => linked_registry'[x] = linked_registry[x]
         /\ \A x \in PDs : x # p => hold_registry'[x] = hold_registry[x] /\ rde'[x] = rde[x]
         /\ hold_registry'[p] = {} /\ rde'[p] = {}
  <1>1. TypeOK /\ p \in PDs
    BY Types DEF CleanupInv
  <1>2. deletion_depth'[p] = 0
    BY <1>1 DEF EnterDestroy, Release, TypeOK
  <1>3. cleanup_policy' = cleanup_policy \cup OwnSpaces(p)
    BY <1>2 DEF EnterDestroy, Release
  <1>4. /\ \A x \in PDs : x # p => hold_registry'[x] = hold_registry[x] /\ rde'[x] = rde[x]
        /\ hold_registry'[p] = {} /\ rde'[p] = {}
    BY <1>1, Types DEF EnterDestroy, Release
  <1>5. \A x \in PDs : /\ x \in Marked(p) => linked_registry'[x] = {}
                       /\ x \notin Marked(p) => linked_registry'[x] = linked_registry[x]
    BY DEF EnterDestroy, Release
  <1> QED
    BY <1>3, <1>4, <1>5 DEF EnterDestroy, Release, graphVars

\* A PD that is to go is destroyed: what it marks is to go too, and every edge
\* that is lost is one between PDs that are marked.
LEMMA EnterPolicy ==
  ASSUME CleanupInv, MarksInv, NEW p \in pds, NEW frames, EnterDestroy(p, frames),
         survivors' \subseteq pds, survivors' \cap to_delete = {}, p \notin survivors',
         Closed(pds \ survivors'),
         \A K \in SUBSET pds : p \in K /\ to_delete \cap pds \subseteq K /\ Closed(K) =>
           pds \ survivors' \subseteq K
  PROVE  MarksInv' /\ UpperInv' /\ LowerInv'
  <1>1. /\ UNCHANGED <<manager, map_spaces, pds, spaces>>
        /\ deleting' = deleting \cup {p} /\ to_delete' = to_delete \cup Marked(p)
        /\ space_to_delete' = space_to_delete \cup OwnSpaces(p)
        /\ cleanup_policy' = cleanup_policy \cup OwnSpaces(p)
        /\ \A x \in PDs : /\ x \in Marked(p) => linked_registry'[x] = {}
                          /\ x \notin Marked(p) => linked_registry'[x] = linked_registry[x]
        /\ \A x \in PDs : x # p => hold_registry'[x] = hold_registry[x] /\ rde'[x] = rde[x]
        /\ hold_registry'[p] = {} /\ rde'[p] = {}
    BY EnterEffect
  <1>2. TypeOK /\ pds \subseteq PDs /\ p \in PDs /\ p \in Marked(p)
    BY Types DEF CleanupInv, Marked
  <1>3. \A s \in OwnSpaces(p) : s \in spaces /\ s \in Spaces /\ manager[s] = p
    BY <1>2, Types DEF OwnSpaces, CleanupInv, RefsInv
  <1>4. MarksInv'
    <2>1. RsDepth # 0 => \A s \in Spaces : map_spaces'[s] = <<>>
      BY <1>1 DEF MarksInv
    <2>2. space_to_delete' \subseteq spaces' /\ space_to_delete' \subseteq cleanup_policy'
      BY <1>1, <1>3 DEF MarksInv
    <2>3. \A s \in space_to_delete' : manager'[s] \in to_delete'
      BY <1>1, <1>2, <1>3 DEF MarksInv
    <2>4. \A x \in pds' \cap deleting' : linked_registry'[x] = {}
      BY <1>1, <1>2 DEF MarksInv
    <2> QED
      BY <2>1, <2>2, <2>3, <2>4 DEF MarksInv
  <1>5. Marked(p) \subseteq pds \ survivors'
    BY MarkedWithin DEF Closed
  <1>6. UpperInv'
    <2>1. \A x \in PDs : /\ linked_registry'[x] \subseteq linked_registry[x]
                         /\ rde'[x] \subseteq rde[x] /\ hold_registry'[x] \subseteq hold_registry[x]
      BY <1>1
    <2>2. survivors' \cap to_delete' = {}
      BY <1>1, <1>5
    <2> QED
      BY <1>1, <1>2, <2>1, <2>2, UpperStep
  <1>7. LowerInv'
    <2>1. SUFFICES ASSUME NEW K \in SUBSET pds, to_delete' \cap pds \subseteq K, Closed(K)'
                   PROVE  pds \ survivors' \subseteq K
      BY <1>1 DEF LowerInv
    <2>2. Marked(p) \subseteq K /\ to_delete \cap pds \subseteq K /\ p \in K
      BY <1>1, <1>2, <1>5, <2>1
    <2>3. ASSUME NEW x \in K, NEW y \in linked_registry[x] \cap pds
          PROVE  y \in K
      <3>1. CASE x \in Marked(p)
        BY <2>2, <3>1, MarkedAll
      <3>2. CASE x \notin Marked(p)
        <4>1. linked_registry'[x] = linked_registry[x]
          BY <1>1, <1>2, <3>2
        <4> QED
          BY <1>1, <2>1, <4>1 DEF Closed
      <3> QED
        BY <3>1, <3>2
    <2>4. ASSUME PdDepth = -1, NEW q \in Dependents(K)
          PROVE  q \in K
      <3>1. CASE q = p
        BY <2>2, <3>1
      <3>2. CASE q # p
        <4>1. /\ q \in pds /\ q \in PDs
              /\ \E s \in spaces : manager[s] \in K /\ (s \in rde[q] \/ Res(s) \in hold_registry[q])
          BY <1>2, <2>4 DEF Dependents
        <4>2. hold_registry'[q] = hold_registry[q] /\ rde'[q] = rde[q]
          BY <1>1, <3>2, <4>1
        <4>3. \E s \in spaces' : manager'[s] \in K /\ (s \in rde'[q] \/ Res(s) \in hold_registry'[q])
          BY <1>1, <4>1, <4>2
        <4> QED
          BY <1>1, <2>1, <2>4, <4>1, <4>3 DEF Closed, Dependents
      <3> QED
        BY <3>1, <3>2
    <2>5. Closed(K)
      BY <2>3, <2>4 DEF Closed
    <2> QED
      BY <2>2, <2>5
  <1> QED
    BY <1>4, <1>6, <1>7

\* The manager of a resource that p holds is told, unless it is going itself.
LEMMA EnterNotices ==
  ASSUME CleanupInv, MarksInv, NEW p \in pds, NEW frames, EnterDestroy(p, frames),
         \A w \in work : w.pd \in pds, p \notin survivors', survivors' \cap to_delete = {},
         \A w \in owed' : w.pd \in survivors' /\ (w \in work \/ Due(w) \/
           (/\ w = [action |-> "FREE", pd |-> w.pd, space |-> w.space, client |-> w.client]
            /\ w.client \in pds \ (deleting \cup survivors') /\ w.space \in spaces
            /\ manager[w.space] = w.pd /\ Res(w.space) \in hold_registry[w.client])),
         survivors' \subseteq survivors
  PROVE  NoticesInv'
  <1>1. /\ UNCHANGED <<manager, pds, spaces>> /\ deleting' = deleting \cup {p}
        /\ work' = work \cup FreeWork(p)
        /\ \A x \in PDs : x # p => hold_registry'[x] = hold_registry[x]
    BY EnterEffect
  <1>2. TypeOK /\ pds \subseteq PDs
    BY Types DEF CleanupInv
  <1>3. \A w \in work' : w.pd \in pds'
    BY <1>1 DEF FreeWork, CleanupInv, SpacesInv
  <1>4. ASSUME NEW w \in owed'
        PROVE  w \in work' \/ Due(w)'
    <2>1. CASE w \in work
      BY <1>1, <2>1
    <2>2. CASE w \notin work
      <3>1. /\ w = [action |-> "FREE", pd |-> w.pd, space |-> w.space, client |-> w.client]
            /\ w.client \in pds \ (deleting \cup survivors') /\ w.space \in spaces
            /\ manager[w.space] = w.pd /\ Res(w.space) \in hold_registry[w.client]
            /\ w.pd \in survivors'
        BY <1>4, <2>2 DEF Due
      <3>2. CASE w.client = p
        <4>1. w.space \notin space_to_delete /\ manager[w.space] # p
          BY <3>1 DEF MarksInv
        <4>2. w.space \in {t \in spaces : Res(t) \in hold_registry[p] /\ t \notin space_to_delete
                                          /\ manager[t] # p}
          BY <3>1, <3>2, <4>1
        <4>3. w = [action |-> "FREE", pd |-> manager[w.space], space |-> w.space, client |-> p]
          BY <3>1, <3>2
        <4>4. w \in FreeWork(p)
          BY <4>2, <4>3, Zenon DEF FreeWork
        <4> QED
          BY <1>1, <4>4
      <3>3. CASE w.client # p
        <4>1. hold_registry'[w.client] = hold_registry[w.client]
          BY <1>1, <1>2, <3>1, <3>3
        <4> QED
          BY <1>1, <3>1, <3>3, <4>1 DEF Due
      <3> QED
        BY <3>2, <3>3
    <2> QED
      BY <2>1, <2>2
  <1> QED
    BY <1>3, <1>4 DEF NoticesInv

\* The PDs that the policy condemns with p: the least closed set that has p.
LEMMA CondemnedIsClosed ==
  ASSUME PdDepth \in {-1, 0}, NEW p \in pds
  PROVE  /\ p \in Condemned(p) /\ Condemned(p) \subseteq pds /\ Closed(Condemned(p))
         /\ \A K \in SUBSET pds : p \in K /\ Closed(K) => Condemned(p) \subseteq K
  <1> DEFINE C == {q \in pds : \A K \in SUBSET pds : p \in K /\ Closed(K) => q \in K}
  <1>1. Condemned(p) = C
    BY DEF Condemned
  <1>2. p \in C /\ C \subseteq pds /\ \A K \in SUBSET pds : p \in K /\ Closed(K) => C \subseteq K
    OBVIOUS
  <1>3. ASSUME NEW q \in pds, \A K \in SUBSET pds : p \in K /\ Closed(K) => q \in K
        PROVE  q \in C
    BY <1>3
  <1> HIDE DEF C
  <1>4. ASSUME NEW x \in C, NEW y \in linked_registry[x] \cap pds
        PROVE  y \in C
    <2>1. ASSUME NEW K \in SUBSET pds, p \in K, Closed(K) PROVE y \in K
      BY <2>1, <1>2 DEF Closed
    <2> QED
      BY <2>1, <1>3
  <1>5. ASSUME PdDepth = -1, NEW q \in Dependents(C)
        PROVE  q \in C
    <2>1. PICK s \in spaces : manager[s] \in C /\ (s \in rde[q] \/ Res(s) \in hold_registry[q])
      BY <1>5 DEF Dependents
    <2>2. q \in pds
      BY <1>5 DEF Dependents
    <2>3. ASSUME NEW K \in SUBSET pds, p \in K, Closed(K) PROVE q \in K
      <3>1. manager[s] \in K
        BY <1>2, <2>1, <2>3
      <3>2. q \in Dependents(K)
        BY <2>1, <2>2, <3>1 DEF Dependents
      <3> QED
        BY <1>5, <2>3, <3>2 DEF Closed
    <2> QED
      BY <2>2, <2>3, <1>3
  <1> QED
    BY <1>1, <1>2, <1>4, <1>5 DEF Closed

LEMMA TerminatePolicy ==
  ASSUME CleanupInv, PolicyInv, NEW p \in PDs, Terminate(p), ~gave_up'
  PROVE  PolicyInv'
  <1> SUFFICES ASSUME PolicyApplies
               PROVE  (MarksInv /\ UpperInv /\ LowerInv /\ NoticesInv)'
    BY DEF PolicyInv, PolicyApplies
  <1> DEFINE C == Condemned(p)
  <1>1. MarksInv /\ UpperInv /\ LowerInv /\ NoticesInv
    BY DEF PolicyInv
  <1>2. /\ Idle /\ p \in pds /\ EnterDestroy(p, <<>>) /\ survivors' = pds \ C
        /\ owed' = {w \in owed : w.pd \notin C} \cup Owed(C)
    BY DEF Terminate, DestroyGivesUp
  <1>3. pds = survivors /\ owed \subseteq work /\ pds \cap to_delete = {} /\ pds \cap deleting = {}
    BY <1>1, <1>2, IdlePolicy, IdleClean
  <1>4. /\ p \in C /\ C \subseteq pds /\ Closed(C)
        /\ \A K \in SUBSET pds : p \in K /\ Closed(K) => C \subseteq K
    BY <1>2, CondemnedIsClosed DEF PolicyApplies
  <1> HIDE DEF C
  <1>5. pds \ survivors' = C /\ survivors' \subseteq pds /\ p \notin survivors'
    BY <1>2, <1>4
  <1>6. MarksInv' /\ UpperInv' /\ LowerInv'
    BY <1>1, <1>2, <1>3, <1>4, <1>5, EnterPolicy
  <1>7. ASSUME NEW w \in owed'
        PROVE  w.pd \in survivors' /\ (w \in work \/
           (/\ w = [action |-> "FREE", pd |-> w.pd, space |-> w.space, client |-> w.client]
            /\ w.client \in pds \ (deleting \cup survivors') /\ w.space \in spaces
            /\ manager[w.space] = w.pd /\ Res(w.space) \in hold_registry[w.client]))
    <2>1. CASE w \in owed /\ w.pd \notin C
      BY <1>1, <1>2, <1>3, <2>1 DEF NoticesInv
    <2>2. CASE w \in Owed(C)
      <3>1. PICK s \in {t \in spaces : manager[t] \notin C} :
              w \in {[action |-> "FREE", pd |-> manager[s], space |-> s, client |-> q] :
                       q \in {x \in C : Res(s) \in hold_registry[x]}}
        BY <2>2 DEF Owed
      <3>2. PICK q \in {x \in C : Res(s) \in hold_registry[x]} :
              w = [action |-> "FREE", pd |-> manager[s], space |-> s, client |-> q]
        BY <3>1
      <3>3. w.pd = manager[s] /\ w.space = s /\ w.client = q
        BY <3>2
      <3>4. manager[s] \in pds
        BY DEF CleanupInv, SpacesInv
      <3> QED
        BY <1>2, <1>3, <1>4, <3>2, <3>3, <3>4
    <2> QED
      BY <1>2, <2>1, <2>2
  <1>8. NoticesInv'
    BY <1>1, <1>2, <1>3, <1>5, <1>7, EnterNotices DEF NoticesInv
  <1> QED
    BY <1>6, <1>8

LEMMA SweepPdPolicy ==
  ASSUME CleanupInv, PolicyInv, SweepPd, ~gave_up'
  PROVE  PolicyInv'
  <1> SUFFICES ASSUME PolicyApplies
               PROVE  (MarksInv /\ UpperInv /\ LowerInv /\ NoticesInv)'
    BY DEF PolicyInv, PolicyApplies
  <1>1. MarksInv /\ UpperInv /\ LowerInv /\ NoticesInv
    BY DEF PolicyInv
  <1>2. PICK p : p = top.curr
    OBVIOUS
  <1>3. p \in to_delete \ deleting /\ EnterDestroy(p, stack) /\ UNCHANGED <<survivors, owed>>
    BY <1>2 DEF SweepPd, DestroyGivesUp, history
  <1>4. p \in pds
    BY <1>3, Types DEF CleanupInv, MarkedInv
  <1>5. MarksInv' /\ UpperInv' /\ LowerInv'
    <2>1. /\ survivors' \subseteq pds /\ survivors' \cap to_delete = {} /\ p \notin survivors'
          /\ Closed(pds \ survivors')
      BY <1>1, <1>3 DEF UpperInv
    <2>2. \A K \in SUBSET pds : p \in K /\ to_delete \cap pds \subseteq K /\ Closed(K) =>
            pds \ survivors' \subseteq K
      BY <1>1, <1>3 DEF LowerInv
    <2> QED
      BY <1>1, <1>3, <1>4, <2>1, <2>2, EnterPolicy
  <1>6. NoticesInv'
    <2>1. p \notin survivors' /\ survivors' \cap to_delete = {}
      BY <1>1, <1>3 DEF UpperInv
    <2>2. /\ \A w \in work : w.pd \in pds
          /\ \A w \in owed' : w.pd \in survivors' /\ (w \in work \/ Due(w))
      BY <1>1, <1>3 DEF NoticesInv
    <2> QED
      BY <1>1, <1>3, <1>4, <2>1, <2>2, EnterNotices
  <1> QED
    BY <1>5, <1>6

-----------------------------------------------------------------------------
(* The deletion of spaces *)

\* A deletion that takes no other space with it: one outside a cleanup, or one
\* where the depth of spaces is 0 or no space maps to another.
LEMMA DeleteAlone ==
  ASSUME CleanupInv, NEW s \in spaces, NEW dont_notify, DeleteSpace(s, dont_notify),
         s \notin cleanup_policy \/ (PolicyApplies /\ MarksInv)
  PROVE  /\ space_to_delete' = space_to_delete \ {s} /\ cleanup_policy' = cleanup_policy \ {s}
         /\ work \subseteq work' /\ \A w \in work' : w \in work \/ w.pd = manager[s]
  <1>1. TypeOK /\ s \in Spaces /\ space_depth[s] \in Nat
    BY Types DEF CleanupInv, TypeOK
  <1>2. Candidates(s) = {}
    <2>1. CASE s \notin cleanup_policy
      BY <2>1 DEF Candidates
    <2>2. CASE RsDepth = 0
      BY <1>1, <2>2 DEF Candidates
    <2>3. CASE RsDepth # 0 /\ MarksInv
      BY <1>1, <2>3, Types DEF Candidates, MarksInv
    <2> QED
      BY <2>1, <2>2, <2>3
  <1>3. PICK wild \in SUBSET {t \in Candidates(s) : ReadsFreed(t, s)} :
          LET mapped == wild \cup {t \in Candidates(s) : Live(t, s) > 0} IN
          /\ space_to_delete' = (space_to_delete \cup mapped) \ {s}
          /\ cleanup_policy' = (cleanup_policy \cup mapped) \ {s}
          /\ space_depth' = [t \in Spaces |-> IF t \in mapped THEN space_depth[s] + 1
                                                              ELSE space_depth[t]]
    BY DEF DeleteSpace
  <1>4. wild \cup {t \in Candidates(s) : Live(t, s) > 0} = {}
    BY <1>2
  <1>5. space_to_delete' = space_to_delete \ {s} /\ cleanup_policy' = cleanup_policy \ {s}
    BY <1>3, <1>4
  <1>6. \/ work' = work
        \/ work' = work \cup {[action |-> "DESTROY", pd |-> manager[s], space |-> s, client |-> 0]}
    BY DEF DeleteSpace
  <1> QED
    BY <1>5, <1>6

\* What the deletion of a marked space does to the graph: the PDs that depend on
\* the space are marked if the depth is unlimited, and only edges to it are lost.
LEMMA DeleteGraph ==
  ASSUME CleanupInv, PdDepth \in {-1, 0}, NEW s \in spaces, s \in cleanup_policy,
         NEW dont_notify, DeleteSpace(s, dont_notify)
  PROVE  /\ to_delete' \subseteq to_delete \cup {q \in pds : PdDepth = -1 /\ Depends(q, s)}
         /\ PdDepth = -1 => \A q \in pds : Depends(q, s) => q \in to_delete'
         /\ \A x \in PDs : /\ rde'[x] \subseteq rde[x] /\ rde[x] \ {s} \subseteq rde'[x]
                           /\ hold_registry'[x] \subseteq hold_registry[x]
         /\ \A x \in PDs, t \in Spaces : t # s /\ Res(t) \in hold_registry[x] =>
              Res(t) \in hold_registry'[x]
  <1> DEFINE m == manager[s]
             depth == deletion_depth[m]
             staying == IF m \in pds THEN pds \ to_delete ELSE {}
             condemned == IF s \in cleanup_policy /\ (PdDepth = -1 \/ depth + 1 <= PdDepth)
                          THEN {p \in staying : Depends(p, s)} ELSE {}
  <1>1. TypeOK /\ s \in Spaces /\ m \in PDs /\ m \in pds /\ depth \in Nat /\ pds \subseteq PDs
    BY Types DEF CleanupInv, SpacesInv, TypeOK
  <1>2. /\ to_delete' = to_delete \cup condemned
        /\ rde' = [p \in PDs |-> IF p \in staying \ condemned THEN WithoutSpace(p, s)
                                                              ELSE rde[p]]
        /\ hold_registry' = [p \in PDs |->
             hold_registry[p] \ ((IF p \in staying \ condemned THEN {Res(s)} ELSE {})
                                \cup (IF p = m /\ m \in staying THEN {ResSpc(s)} ELSE {}))]
    BY DEF DeleteSpace
  <1>3. condemned = {q \in pds \ to_delete : PdDepth = -1 /\ Depends(q, s)}
    <2>1. CASE PdDepth = -1
      BY <1>1, <2>1
    <2>2. CASE PdDepth = 0
      <3>1. ~(depth + 1 <= PdDepth)
        BY <1>1, <2>2
      <3> QED
        BY <2>2, <3>1
    <2> QED
      BY <2>1, <2>2
  <1> HIDE DEF condemned, staying
  <1>4. /\ to_delete' \subseteq to_delete \cup {q \in pds : PdDepth = -1 /\ Depends(q, s)}
        /\ PdDepth = -1 => \A q \in pds : Depends(q, s) => q \in to_delete'
    BY <1>2, <1>3
  <1>5. \A x \in PDs : rde'[x] \subseteq rde[x] /\ rde[x] \ {s} \subseteq rde'[x]
    BY <1>2 DEF WithoutSpace
  <1>6. \A x \in PDs : /\ hold_registry'[x] \subseteq hold_registry[x]
                       /\ hold_registry[x] \ {Res(s), ResSpc(s)} \subseteq hold_registry'[x]
    BY <1>2
  <1>7. \A t \in Spaces : t # s => Res(t) \notin {Res(s), ResSpc(s)}
    BY Entries
  <1> QED
    BY <1>4, <1>5, <1>6, <1>7

\* One visit of resspc_component_sweep that deletes: the PDs that it condemns
\* depend on a PD that goes, and are marked before the edges are lost.
LEMMA DeletePolicy ==
  ASSUME CleanupInv, PolicyApplies, MarksInv, UpperInv, LowerInv, NoticesInv,
         NEW s \in space_to_delete, NEW dont_notify, DeleteSpace(s, dont_notify),
         UNCHANGED <<survivors, owed>>
  PROVE  MarksInv' /\ UpperInv' /\ LowerInv' /\ NoticesInv'
  <1>1. /\ TypeOK /\ s \in spaces /\ s \in cleanup_policy /\ pds \subseteq PDs /\ spaces \subseteq Spaces
        /\ manager[s] \in pds /\ manager[s] \in to_delete
    BY Types DEF CleanupInv, SpacesInv, MarksInv
  <1>2. /\ spaces' = spaces \ {s}
        /\ UNCHANGED <<manager, map_spaces, pds, linked_registry, deleting>>
        /\ to_delete \subseteq to_delete'
    BY <1>1, DeleteSpaceEffect
  <1>3. /\ space_to_delete' = space_to_delete \ {s} /\ cleanup_policy' = cleanup_policy \ {s}
        /\ work \subseteq work' /\ \A w \in work' : w \in work \/ w.pd = manager[s]
    BY <1>1, DeleteAlone
  <1>4. /\ to_delete' \subseteq to_delete \cup {q \in pds : PdDepth = -1 /\ Depends(q, s)}
        /\ PdDepth = -1 => \A q \in pds : Depends(q, s) => q \in to_delete'
        /\ \A x \in PDs : /\ rde'[x] \subseteq rde[x] /\ rde[x] \ {s} \subseteq rde'[x]
                          /\ hold_registry'[x] \subseteq hold_registry[x]
        /\ \A x \in PDs, t \in Spaces : t # s /\ Res(t) \in hold_registry[x] =>
             Res(t) \in hold_registry'[x]
    BY <1>1, DeleteGraph DEF PolicyApplies
  <1>5. MarksInv'
    BY <1>2, <1>3 DEF MarksInv
  <1>6. UpperInv'
    <2>1. ASSUME NEW q \in pds, PdDepth = -1, Depends(q, s)
          PROVE  q \notin survivors
      <3>1. manager[s] \in pds \ survivors
        BY <1>1 DEF UpperInv
      <3>2. q \in Dependents(pds \ survivors)
        BY <1>1, <2>1, <3>1 DEF Dependents, Depends
      <3> QED
        BY <2>1, <3>2 DEF UpperInv, Closed
    <2>2. survivors' \subseteq pds' /\ survivors' \cap to_delete' = {} /\ Closed(pds \ survivors')
      BY <1>2, <1>4, <2>1 DEF UpperInv
    <2>3. \A x \in PDs : linked_registry'[x] \subseteq linked_registry[x]
      BY <1>2
    <2> QED
      BY <1>1, <1>2, <1>4, <2>2, <2>3, UpperStep
  <1>7. LowerInv'
    <2>1. SUFFICES ASSUME NEW K \in SUBSET pds, to_delete' \cap pds \subseteq K, Closed(K)'
                   PROVE  pds \ survivors \subseteq K
      BY <1>2 DEF LowerInv
    <2>2. \A x \in K : linked_registry[x] \cap pds \subseteq K
      BY <1>2, <2>1 DEF Closed
    <2>3. ASSUME PdDepth = -1, NEW q \in Dependents(K)
          PROVE  q \in K
      <3>1. PICK t \in spaces : manager[t] \in K /\ (t \in rde[q] \/ Res(t) \in hold_registry[q])
        BY <2>3 DEF Dependents
      <3>2. q \in pds /\ q \in PDs /\ t \in Spaces
        BY <1>1, <2>3 DEF Dependents
      <3>3. CASE t = s
        BY <1>4, <2>1, <2>3, <3>1, <3>2, <3>3 DEF Depends
      <3>4. CASE t # s
        <4>1. /\ t \in spaces' /\ manager'[t] \in K /\ q \in pds'
              /\ t \in rde'[q] \/ Res(t) \in hold_registry'[q]
          BY <1>2, <1>4, <3>1, <3>2, <3>4
        <4>2. q \in Dependents(K)'
          BY <4>1 DEF Dependents
        <4> QED
          BY <2>1, <2>3, <4>2 DEF Closed
      <3> QED
        BY <3>3, <3>4
    <2>4. Closed(K)
      BY <2>2, <2>3 DEF Closed
    <2> QED
      BY <1>2, <2>1, <2>4 DEF LowerInv
  <1>8. NoticesInv'
    <2>1. \A w \in work' : w.pd \in pds'
      BY <1>1, <1>2, <1>3 DEF NoticesInv
    <2>2. ASSUME NEW w \in owed, Due(w)
          PROVE  Due(w)'
      <3>1. w.pd \in survivors
        BY <2>2 DEF NoticesInv
      <3>2. /\ w.space # s /\ w.space \in Spaces /\ w.client \in PDs
            /\ Res(w.space) \in hold_registry[w.client]
        BY <1>1, <2>2, <3>1 DEF Due, UpperInv
      <3>3. Res(w.space) \in hold_registry'[w.client]
        BY <1>4, <3>2
      <3> QED
        BY <1>2, <2>2, <3>2, <3>3 DEF Due
    <2> QED
      BY <1>3, <2>1, <2>2 DEF NoticesInv
  <1> QED
    BY <1>5, <1>6, <1>7, <1>8

LEMMA SweepSpacePolicy ==
  ASSUME CleanupInv, PolicyInv, SweepSpace
  PROVE  PolicyInv'
  <1>1. UNCHANGED <<survivors, owed>>
    BY DEF SweepSpace, history
  <1>2. CASE top.curr \in space_to_delete
    <2>1. DeleteSpace(top.curr, FALSE)
      BY <1>2 DEF SweepSpace
    <2> QED
      BY <1>1, <1>2, <2>1, DeletePolicy DEF PolicyInv, PolicyApplies
  <1>3. CASE top.curr \notin space_to_delete
    BY <1>1, <1>3, StackStep DEF SweepSpace, graphVars, flagVars, spcVars, pdVars
  <1> QED
    BY <1>2, <1>3

\* A space that its manager destroys takes nothing with it.
LEMMA DestroySpacePolicy ==
  ASSUME CleanupInv, PolicyInv, NEW s \in Spaces, DestroySpace(s)
  PROVE  PolicyInv'
  <1>1. /\ Idle /\ s \in spaces /\ s \notin cleanup_policy /\ DeleteSpace(s, TRUE)
        /\ UNCHANGED <<survivors, owed>>
    BY DEF DestroySpace, history, CleanupInv, MarkedInv
  <1>2. UNCHANGED <<pds, to_delete, deleting, map_spaces>>
    BY <1>1, DeleteSpaceEffect
  <1>3. /\ space_to_delete' \subseteq space_to_delete /\ work \subseteq work'
        /\ \A w \in work' : w \in work \/ w.pd = manager[s]
    BY <1>1, DeleteAlone
  <1>4. manager[s] \in pds
    BY <1>1 DEF CleanupInv, SpacesInv
  <1> QED
    BY <1>1, <1>2, <1>3, <1>4, IdleStep

-----------------------------------------------------------------------------
(* The other steps *)

\* A request that adds an edge other than one between spaces.
LEMMA GraphPolicy ==
  ASSUME CleanupInv, PolicyInv, NEW kind, AddEdge(kind), UNCHANGED map_spaces, UNCHANGED_cleanup
  PROVE  PolicyInv'
  BY IdleStep DEF AddEdge, UNCHANGED_cleanup, flagVars, history

\* Spaces are mapped only where the policy of spaces has depth 0.
LEMMA MapSpacePolicy ==
  ASSUME CleanupInv, PolicyInv, NEW s \in Spaces, NEW t \in Spaces, MapSpace(s, t)
  PROVE  PolicyInv'
  <1>1. ~(PolicyApplies /\ RsDepth # 0)
    BY DEF MapSpace, AddEdge, PolicyApplies
  <1> QED
    BY <1>1, IdleStep DEF MapSpace, AddEdge, UNCHANGED_cleanup, flagVars, history

LEMMA AllocSpacePolicy ==
  ASSUME CleanupInv, PolicyInv, NEW p \in PDs, NEW c \in PDs, AllocSpace(p, c)
  PROVE  PolicyInv'
  BY IdleStep DEF AllocSpace, flagVars, history

\* The iterations move on.
LEMMA IterationPolicy ==
  ASSUME CleanupInv, PolicyInv, StartPdSweep \/ SkipPd
  PROVE  PolicyInv'
  BY StackStep DEF StartPdSweep, SkipPd, graphVars, flagVars, spcVars, pdVars, history

\* pd_destroy returns: no link of the PD and no space of it is left, so what it
\* is taken out of stays closed.
LEMMA LeavePolicy ==
  ASSUME CleanupInv, PolicyInv, LeaveDestroy
  PROVE  PolicyInv'
  <1> SUFFICES ASSUME PolicyApplies
               PROVE  (MarksInv /\ UpperInv /\ LowerInv /\ NoticesInv)'
    BY DEF PolicyInv, PolicyApplies
  <1>1. MarksInv /\ UpperInv /\ LowerInv /\ NoticesInv
    BY DEF PolicyInv
  <1>2. PICK p : p = top.pd
    OBVIOUS
  <1>3. /\ top.phase = "pds" /\ pds' = pds \ {p} /\ work' = {w \in work : w.pd # p}
        /\ hold_registry' = hold_registry
        /\ UNCHANGED <<manager, map_spaces, to_delete, deleting, spaces, space_to_delete,
                       cleanup_policy, rde, linked_registry, survivors, owed>>
    BY <1>2 DEF LeaveDestroy, Unregister, graphVars, flagVars, spcVars, history
  <1>4. /\ TypeOK /\ pds \subseteq PDs /\ stack # <<>> /\ Len(stack) \in Nat \ {0}
        /\ spaces \subseteq Spaces /\ deleting \subseteq to_delete
    BY Types, LeaveStack DEF CleanupInv
  <1>5. /\ Len(stack) \in 1 .. Len(stack) /\ stack[Len(stack)].pd = p
        /\ stack[Len(stack)].phase = "pds"
    BY <1>2, <1>3, <1>4 DEF top, Last
  <1>6. p \in pds \cap deleting /\ p \in to_delete /\ \A s \in spaces : manager[s] # p
    BY <1>4, <1>5 DEF CleanupInv, FramesInv, SpacesInv
  <1>7. /\ p \notin survivors /\ linked_registry[p] = {}
    BY <1>1, <1>6 DEF UpperInv, MarksInv
  <1>8. \A q \in PDs : /\ hold_registry'[q] \subseteq hold_registry[q]
                       /\ \A s \in Spaces : Res(s) \in hold_registry[q] => Res(s) \in hold_registry'[q]
    BY <1>3
  <1>9. MarksInv'
    BY <1>1, <1>3 DEF MarksInv
  <1>10. UpperInv'
    <2>1. survivors' \subseteq pds' /\ survivors' \cap to_delete' = {} /\ Closed(pds \ survivors')
      BY <1>1, <1>3, <1>7 DEF UpperInv
    <2> QED
      BY <1>3, <1>4, <1>8, <2>1, UpperStep
  <1>11. LowerInv'
    <2>1. SUFFICES ASSUME NEW K \in SUBSET pds', to_delete \cap pds' \subseteq K, Closed(K)'
                   PROVE  pds' \ survivors \subseteq K
      BY <1>3 DEF LowerInv
    <2>2. PICK L : L = K \cup {p}
      OBVIOUS
    <2>3. L \in SUBSET pds /\ to_delete \cap pds \subseteq L
      BY <1>3, <1>6, <2>1, <2>2
    <2>4. \A x \in L : linked_registry[x] \cap pds \subseteq L
      BY <1>3, <1>7, <2>1, <2>2 DEF Closed
    <2>5. ASSUME PdDepth = -1, NEW q \in Dependents(L)
          PROVE  q \in L
      <3>1. PICK t \in spaces : manager[t] \in L /\ (t \in rde[q] \/ Res(t) \in hold_registry[q])
        BY <2>5 DEF Dependents
      <3>2. q \in pds /\ q \in PDs /\ t \in Spaces
        BY <1>4, <2>5 DEF Dependents
      <3>3. CASE q = p
        BY <2>2, <3>3
      <3>4. CASE q # p
        <4>1. /\ t \in spaces' /\ manager'[t] \in K /\ q \in pds'
              /\ t \in rde'[q] \/ Res(t) \in hold_registry'[q]
          BY <1>3, <1>6, <1>8, <2>2, <3>1, <3>2, <3>4
        <4>2. q \in Dependents(K)'
          BY <4>1 DEF Dependents
        <4> QED
          BY <2>1, <2>2, <2>5, <4>2 DEF Closed
      <3> QED
        BY <3>3, <3>4
    <2>6. Closed(L)
      BY <2>4, <2>5 DEF Closed
    <2>7. pds \ survivors \subseteq L
      BY <1>1, <2>3, <2>6 DEF LowerInv
    <2> QED
      BY <1>3, <2>2, <2>7
  <1>12. NoticesInv'
    <2>1. \A w \in work' : w.pd \in pds'
      BY <1>1, <1>3 DEF NoticesInv
    <2>2. ASSUME NEW w \in owed
          PROVE  w.pd \in survivors /\ (w \in work' \/ Due(w)')
      <3>1. w.pd \in survivors /\ w.pd # p
        BY <1>1, <1>7 DEF NoticesInv
      <3>2. CASE w \in work
        BY <1>3, <3>1, <3>2
      <3>3. CASE Due(w)
        <4>1. /\ w.client \in pds \ (deleting \cup survivors) /\ w.client # p
              /\ w.client \in PDs /\ w.space \in Spaces
          BY <1>4, <1>6, <3>3 DEF Due
        <4>2. Res(w.space) \in hold_registry'[w.client]
          BY <1>8, <3>3, <4>1 DEF Due
        <4> QED
          BY <1>3, <3>1, <3>3, <4>1, <4>2 DEF Due
      <3> QED
        BY <1>1, <3>2, <3>3 DEF NoticesInv
    <2> QED
      BY <1>3, <2>1, <2>2 DEF NoticesInv
  <1> QED
    BY <1>9, <1>10, <1>11, <1>12

-----------------------------------------------------------------------------
(* The theorems *)

LEMMA InitPolicy ==
  ASSUME Init
  PROVE  PolicyInv
  <1>1. /\ pds = PDs /\ survivors = PDs /\ to_delete = {} /\ deleting = {} /\ owed = {} /\ work = {}
        /\ space_to_delete = {} /\ \A s \in Spaces : map_spaces[s] = <<>>
    BY DEF Init
  <1>2. MarksInv /\ NoticesInv /\ LowerInv
    BY <1>1 DEF MarksInv, NoticesInv, LowerInv
  <1>3. UpperInv
    BY <1>1 DEF UpperInv, Closed, Dependents
  <1> QED
    BY <1>2, <1>3 DEF PolicyInv

LEMMA NextPolicy ==
  ASSUME CleanupInv, PolicyInv, [Next]_vars, ~gave_up'
  PROVE  PolicyInv'
  <1>1. CASE UNCHANGED vars
    BY <1>1, StackStep DEF vars, graphVars, flagVars, spcVars, pdVars, history
  <1>2. CASE Next
    <2>1. ASSUME NEW p \in PDs, NEW q \in PDs, AllocSpace(p, q) PROVE PolicyInv'
      BY <2>1, AllocSpacePolicy
    <2>2. ASSUME NEW p \in PDs, NEW q \in PDs, SendPd(p, q) \/ LinkChild(p, q) PROVE PolicyInv'
      BY <2>2, GraphPolicy DEF SendPd, LinkChild
    <2>3. ASSUME NEW p \in PDs, NEW q \in PDs, NEW s \in Spaces, ShareRde(p, q, s)
          PROVE  PolicyInv'
      BY <2>3, GraphPolicy DEF ShareRde
    <2>4. ASSUME NEW s \in Spaces, CreateResource(s) PROVE PolicyInv'
      BY <2>4, GraphPolicy DEF CreateResource
    <2>5. ASSUME NEW s \in Spaces, DestroySpace(s) PROVE PolicyInv'
      BY <2>5, DestroySpacePolicy
    <2>6. ASSUME NEW s \in Spaces, NEW q \in PDs, GiveResource(s, q) PROVE PolicyInv'
      BY <2>6, GraphPolicy DEF GiveResource
    <2>7. ASSUME NEW s \in Spaces, NEW t \in Spaces, MapSpace(s, t) PROVE PolicyInv'
      BY <2>7, MapSpacePolicy
    <2>8. ASSUME NEW p \in PDs, Terminate(p) PROVE PolicyInv'
      BY <2>8, TerminatePolicy
    <2>9. ASSUME CleanupStep PROVE PolicyInv'
      BY <2>9, SweepSpacePolicy, SweepPdPolicy, IterationPolicy, LeavePolicy DEF CleanupStep
    <2> QED
      BY <1>2, <2>1, <2>2, <2>3, <2>4, <2>5, <2>6, <2>7, <2>8, <2>9 DEF Next
  <1> QED
    BY <1>1, <1>2

LEMMA PolicyInvariance == Spec => [](~gave_up => PolicyInv)
  <1>1. InductiveInv /\ (~gave_up => PolicyInv) /\ [Next]_vars => (~gave_up => PolicyInv)'
    <2>1. SUFFICES ASSUME InductiveInv, ~gave_up => PolicyInv, [Next]_vars, ~gave_up'
                   PROVE  PolicyInv'
      OBVIOUS
    <2>2. ~gave_up
      BY <2>1, GaveUpStays DEF InductiveInv
    <2>3. CleanupInv
      BY <2>1, <2>2 DEF InductiveInv
    <2> QED
      BY <2>1, <2>2, <2>3, NextPolicy
  <1> QED
    BY <1>1, CleanupInvariance, InitPolicy, PTL DEF Spec

\* When the outermost pd_destroy returns and none gave up, the PDs that are gone
\* are exactly those that the policy names on the graph before the cleanup: the
\* PD, those linked to it and, with an unlimited depth, those that depend on one
\* that goes.  Marks that the nested sweeps spread on a graph that they take apart
\* reach no other PD and miss none.
THEOREM KilledByPolicy == Spec => [](PolicyApplies => KilledAsPolicySays)
  <1>1. InductiveInv /\ (~gave_up => PolicyInv) => (PolicyApplies => KilledAsPolicySays)
    BY IdlePolicy DEF InductiveInv, PolicyInv, KilledAsPolicySays
  <1> QED
    BY <1>1, CleanupInvariance, PolicyInvariance, PTL

\* When the outermost pd_destroy returns and none gave up,
\* pd_held_resource_on_delete has queued a FREE for every resource that a killed
\* PD held and whose manager survives, in whatever order the PDs were destroyed,
\* and no work is queued for a dead PD.
THEOREM ManagersAreTold == Spec => [](PolicyApplies => ManagersTold)
  <1>1. InductiveInv /\ (~gave_up => PolicyInv) => (PolicyApplies => ManagersTold)
    BY IdlePolicy DEF InductiveInv, PolicyInv, NoticesInv, ManagersTold
  <1> QED
    BY <1>1, CleanupInvariance, PolicyInvariance, PTL

=============================================================================
