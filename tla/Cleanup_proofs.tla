--------------------------- MODULE Cleanup_proofs ---------------------------
(***************************************************************************)
(* Proofs about Cleanup, for any number of PDs and spaces, any graph and   *)
(* any depth of the policy: however deletions nest, the sweeps find every  *)
(* space of a PD before the PD goes and every PD that was marked, and what *)
(* stays refers to nothing that is gone.                                   *)
(***************************************************************************)
EXTENDS Cleanup, SequenceTheorems, WellFoundedInduction, TLAPS

-----------------------------------------------------------------------------
(* Iterations *)

\* A set of numbers that is not empty has a smallest element.
LEMMA MinIsSmallest ==
  ASSUME NEW S, S \subseteq Nat, S # {}
  PROVE  Min(S) \in S /\ \A y \in S : Min(S) <= y
  <1> DEFINE R == OpToRel(<, Nat)
  <1>1. IsWellFoundedOn(R, Nat)
    BY NatLessThanWellFounded
  <1>2. \A x, y \in Nat : <<x, y>> \in R <=> x < y
    BY DEF OpToRel
  <1> HIDE DEF R
  <1>3. PICK x \in S : \A y \in S : ~(<<y, x>> \in R)
    BY <1>1, WFMin
  <1>4. ASSUME NEW y \in S
        PROVE  x <= y
    <2>1. x \in Nat /\ y \in Nat
      OBVIOUS
    <2>2. ~(y < x)
      BY <2>1, <1>2, <1>3
    <2> QED
      BY <2>1, <2>2
  <1> QED
    BY <1>4 DEF Min

\* The first entry of a registry: none if it is empty.
LEMMA FirstEntry ==
  ASSUME NEW S, S \subseteq Nat \ {0}
  PROVE  /\ First(S) \in S \cup {0} /\ First(S) \in Nat
         /\ \A y \in S : First(S) # 0 /\ First(S) <= y
  <1>1. CASE S = {}
    BY <1>1 DEF First
  <1>2. CASE S # {}
    <2>1. Min(S) \in S /\ \A y \in S : Min(S) <= y
      BY <1>2, MinIsSmallest
    <2> QED
      BY <1>2, <2>1 DEF First
  <1> QED
    BY <1>1, <1>2

\* The entry after x: none if x is the last.
LEMMA NextEntry ==
  ASSUME NEW S, S \subseteq Nat \ {0}, NEW x \in Nat
  PROVE  /\ After(S, x) \in S \cup {0} /\ After(S, x) \in Nat
         /\ After(S, x) # 0 => x < After(S, x)
         /\ \A y \in S : x < y => After(S, x) # 0 /\ After(S, x) <= y
  <1> DEFINE T == {y \in S : y > x}
  <1>1. T \subseteq Nat \ {0} /\ T \subseteq S /\ \A y \in T : x < y
    OBVIOUS
  <1>2. \A y \in S : x < y => y \in T
    OBVIOUS
  <1>3. After(S, x) = First(T)
    BY DEF After
  <1> HIDE DEF T
  <1>4. /\ First(T) \in T \cup {0} /\ First(T) \in Nat
        /\ \A y \in T : First(T) # 0 /\ First(T) <= y
    BY <1>1, FirstEntry
  <1> QED
    BY <1>1, <1>2, <1>3, <1>4

\* Deleting an entry behind the iteration does not disturb it.
LEMMA NextEntryKept ==
  ASSUME NEW S, S \subseteq Nat, NEW x \in Nat, NEW y \in Nat, x <= y
  PROVE  After(S \ {x}, y) = After(S, y)
  <1>1. {z \in S \ {x} : z > y} = {z \in S : z > y}
    OBVIOUS
  <1> QED
    BY <1>1 DEF After

-----------------------------------------------------------------------------
(* The stack *)

\* The frame below the innermost one, and the rest.
LEMMA StackFront ==
  ASSUME NEW st \in Seq(Frame), st # <<>>
  PROVE  /\ Front(st) \in Seq(Frame) /\ Len(st) \in Nat \ {0}
         /\ Len(Front(st)) = Len(st) - 1
         /\ \A i \in 1 .. Len(st) - 1 : Front(st)[i] = st[i]
         /\ Last(st) \in Frame
  <1>1. Len(st) \in Nat \ {0} /\ \A i \in 1 .. Len(st) : st[i] \in Frame
    BY EmptySeq, ElementOfSeq
  <1>2. \A i \in 1 .. Len(st) - 1 : st[i] \in Frame
    BY <1>1
  <1>3. /\ Front(st) \in Seq(Frame)
        /\ Len(Front(st)) = IF 1 <= Len(st) - 1 THEN Len(st) - 1 - 1 + 1 ELSE 0
        /\ \A i \in 1 .. Len(st) - 1 - 1 + 1 : Front(st)[i] = st[1 + i - 1]
    BY <1>1, <1>2, SubSeqProperties DEF Front
  <1>4. Len(Front(st)) = Len(st) - 1 /\ Len(st) - 1 - 1 + 1 = Len(st) - 1
    <2>1. PICK n \in Nat \ {0} : n = Len(st)
      BY <1>1
    <2>2. n - 1 - 1 + 1 = n - 1
      BY <2>1
    <2>3. Len(Front(st)) = IF 1 <= n - 1 THEN n - 1 - 1 + 1 ELSE 0
      BY <2>1, <1>3
    <2>4. (IF 1 <= n - 1 THEN n - 1 - 1 + 1 ELSE 0) = n - 1
      BY <2>1
    <2> QED
      BY <2>1, <2>2, <2>3, <2>4
  <1>5. \A i \in 1 .. Len(st) - 1 : Front(st)[i] = st[i]
    BY <1>1, <1>3, <1>4
  <1>6. Last(st) \in Frame
    BY <1>1 DEF Last
  <1> QED
    BY <1>1, <1>3, <1>4, <1>5, <1>6

\* A frame is pushed.
LEMMA StackPush ==
  ASSUME NEW st \in Seq(Frame), NEW f \in Frame
  PROVE  /\ Append(st, f) \in Seq(Frame) /\ Append(st, f) # <<>>
         /\ Len(Append(st, f)) = Len(st) + 1
         /\ \A i \in 1 .. Len(st) : Append(st, f)[i] = st[i]
         /\ Append(st, f)[Len(st) + 1] = f
         /\ Last(Append(st, f)) = f
  BY AppendProperties DEF Last

\* The innermost frame moves on.
LEMMA StackReplace ==
  ASSUME NEW st \in Seq(Frame), st # <<>>, NEW f \in Frame
  PROVE  LET new == Append(Front(st), f) IN
         /\ new \in Seq(Frame) /\ new # <<>>
         /\ Len(new) = Len(st)
         /\ \A i \in 1 .. Len(st) : i < Len(st) => new[i] = st[i]
         /\ new[Len(st)] = f
         /\ Last(new) = f
  <1>1. /\ Front(st) \in Seq(Frame) /\ Len(st) \in Nat \ {0}
        /\ Len(Front(st)) = Len(st) - 1
        /\ \A i \in 1 .. Len(st) - 1 : Front(st)[i] = st[i]
    BY StackFront
  <1> DEFINE new == Append(Front(st), f)
  <1>2. /\ new \in Seq(Frame) /\ new # <<>>
        /\ Len(new) = Len(Front(st)) + 1
        /\ \A i \in 1 .. Len(Front(st)) : new[i] = Front(st)[i]
        /\ new[Len(Front(st)) + 1] = f
        /\ Last(new) = f
    BY <1>1, StackPush
  <1> HIDE DEF new
  <1>3. Len(new) = Len(st) /\ new[Len(st)] = f
    BY <1>1, <1>2
  <1>4. \A i \in 1 .. Len(st) : i < Len(st) => new[i] = st[i]
    BY <1>1, <1>2
  <1> QED
    BY <1>2, <1>3, <1>4 DEF new

-----------------------------------------------------------------------------
(* The invariant *)

\* The frames of the stack are the PDs that are being destroyed, each once;
\* only the innermost may still be sweeping spaces.
FramesInv ==
  /\ \A i \in 1 .. Len(stack) : stack[i].pd \in pds \cap deleting
  /\ \A i, j \in 1 .. Len(stack) : stack[i].pd = stack[j].pd => i = j
  /\ \A i \in 1 .. Len(stack) : i < Len(stack) => stack[i].phase = "pds"
  /\ \A p \in pds \cap deleting : \E i \in 1 .. Len(stack) : stack[i].pd = p

\* A PD that is not being destroyed holds its spaces; the sweep of a PD that
\* is has its spaces marked and ahead of it, and later there are none left.
SpacesInv ==
  /\ \A s \in spaces : manager[s] \in pds
  /\ \A s \in spaces : manager[s] \notin deleting => ResSpc(s) \in hold_registry[manager[s]]
  /\ \A i \in 1 .. Len(stack) : stack[i].phase = "pds" =>
       \A s \in spaces : manager[s] # stack[i].pd
  /\ stack # <<>> /\ top.phase = "spaces" =>
       /\ top.curr \in spaces \cup {0}
       /\ top.curr # 0 => top.next = After(spaces, top.curr)
       /\ \A s \in spaces : manager[s] = top.pd =>
            s \in space_to_delete /\ top.curr # 0 /\ top.curr <= s

\* A PD is marked only while a sweep of the PDs is to come or has it ahead.
\* That sweep is on an iteration that no deletion has disturbed: the first
\* nested deletion that returns has left no PD marked.
MarkedInv ==
  /\ PDs \ pds \subseteq deleting
  /\ cleanup_policy \subseteq space_to_delete
  /\ Idle => to_delete \cap pds \subseteq deleting
  /\ stack # <<>> /\ top.phase = "pds" =>
       \/ to_delete \cap pds \subseteq deleting
       \/ /\ top.curr \in pds /\ top.next = After(pds, top.curr)
          /\ \A p \in (to_delete \cap pds) \ deleting : top.curr <= p

\* What the PDs that stay refer to exists; only the manager of a space holds it.
RefsInv ==
  /\ \A s \in spaces : s <= n_spaces
  /\ \A p \in PDs, s \in Spaces : ResSpc(s) \in hold_registry[p] =>
       manager[s] = p /\ s <= n_spaces
  /\ \A p \in pds \ to_delete :
       /\ rde[p] \subseteq spaces
       /\ \A s \in Spaces : Res(s) \in hold_registry[p] \/ ResSpc(s) \in hold_registry[p] =>
            s \in spaces

CleanupInv == TypeOK /\ FramesInv /\ SpacesInv /\ MarkedInv /\ RefsInv

\* A PD that stays holds PDs that are registered, each with one count, except
\* those that it was sent again.
HoldsInv ==
  \A p \in pds \ to_delete, q \in PDs :
    <<p, q>> \notin resent =>
      /\ pd_holds[p][q] > 0 => q \in pds
      /\ pd_holds[p][q] <= 1

\* The types are kept in any case, the rest until a destruction gives up.
InductiveInv == TypeOK /\ (~gave_up => CleanupInv /\ HoldsInv)

-----------------------------------------------------------------------------
(* Facts about the model's sets *)

\* The constants.
LEMMA Numbers ==
  /\ NPds \in Nat \ {0} /\ NSpaces \in Nat /\ MaxGraph \in Nat
  /\ PDs \subseteq Nat \ {0} /\ Spaces \subseteq Nat \ {0} /\ 1 \in PDs
  BY CleanupAssumption DEF PDs, Spaces

\* The entries of a hold registry.
LEMMA Entries ==
  /\ \A s \in Spaces : Res(s) \in Holdable /\ ResSpc(s) \in Holdable
  /\ \A s, t : /\ Res(s) # ResSpc(t)
               /\ Res(s) = Res(t) => s = t
               /\ ResSpc(s) = ResSpc(t) => s = t
  BY DEF Holdable, Res, ResSpc

\* The fields of a frame.
LEMMA FrameFields ==
  ASSUME NEW f \in Frame
  PROVE  f.pd \in PDs /\ f.phase \in {"spaces", "pds"} /\ f.curr \in Nat /\ f.next \in Nat
  BY DEF Frame

\* The parts of the type invariant that the proofs use.
LEMMA Types ==
  ASSUME TypeOK
  PROVE  /\ pds \subseteq PDs /\ pds \subseteq Nat \ {0}
         /\ spaces \subseteq Spaces /\ spaces \subseteq Nat \ {0}
         /\ manager \in [Spaces -> PDs] /\ hold_registry \in [PDs -> SUBSET Holdable]
         /\ rde \in [PDs -> SUBSET Spaces] /\ stack \in Seq(Frame)
         /\ to_delete \subseteq PDs /\ deleting \subseteq to_delete
         /\ n_spaces \in Nat
  BY Numbers DEF TypeOK

\* With no cleanup going on, no registered PD is being destroyed or is marked.
LEMMA IdleClean ==
  ASSUME CleanupInv, Idle
  PROVE  pds \cap deleting = {} /\ pds \cap to_delete = {}
  <1>1. 1 .. Len(stack) = {}
    BY DEF Idle
  <1>2. pds \cap deleting = {}
    BY <1>1 DEF CleanupInv, FramesInv
  <1> QED
    BY <1>2 DEF CleanupInv, MarkedInv

-----------------------------------------------------------------------------
(* Requests that build the graph *)

\* They keep the types.
LEMMA GraphTypes ==
  ASSUME TypeOK, NEW kind, AddEdge(kind), UNCHANGED_cleanup, UNCHANGED <<n_spaces, manager>>,
         hold_registry' \in [PDs -> SUBSET Holdable], rde' \in [PDs -> SUBSET Spaces],
         linked_registry' \in [PDs -> SUBSET PDs], map_spaces' \in [Spaces -> Seq(Spaces)],
         pd_holds' \in [PDs -> [PDs -> Nat]], resent' \subseteq PDs \X PDs
  PROVE  TypeOK'
  <1>1. graph' \in 0 .. MaxGraph
    BY Numbers DEF TypeOK, AddEdge
  <1>2. UNCHANGED <<pds, spaces, n_spaces, manager, to_delete, deleting, deletion_depth,
                    space_to_delete, cleanup_policy, space_depth, work, stack, freed_read,
                    survivors, gave_up>>
    BY DEF UNCHANGED_cleanup, flagVars
  <1> QED
    BY <1>1, <1>2 DEF TypeOK

LEMMA ShareRdeTypes ==
  ASSUME TypeOK, NEW p \in PDs, NEW q \in PDs, NEW s \in Spaces, ShareRde(p, q, s)
  PROVE  TypeOK'
  BY GraphTypes DEF TypeOK, ShareRde

LEMMA CreateResourceTypes ==
  ASSUME TypeOK, NEW s \in Spaces, CreateResource(s)
  PROVE  TypeOK'
  <1>1. hold_registry' \in [PDs -> SUBSET Holdable]
    BY Types, Entries DEF CreateResource
  <1> QED
    BY <1>1, GraphTypes DEF TypeOK, CreateResource

LEMMA GiveResourceTypes ==
  ASSUME TypeOK, NEW s \in Spaces, NEW q \in PDs, GiveResource(s, q)
  PROVE  TypeOK'
  <1>1. hold_registry' \in [PDs -> SUBSET Holdable]
    BY Types, Entries DEF GiveResource
  <1> QED
    BY <1>1, GraphTypes DEF TypeOK, GiveResource

LEMMA SendPdTypes ==
  ASSUME TypeOK, NEW p \in PDs, NEW q \in PDs, SendPd(p, q)
  PROVE  TypeOK' /\ \A x, y \in PDs : pd_holds'[x][y] =
                      IF x = p /\ y = q THEN pd_holds[x][y] + 1 ELSE pd_holds[x][y]
  <1>1. pd_holds \in [PDs -> [PDs -> Nat]] /\ pd_holds' = [pd_holds EXCEPT ![p][q] = @ + 1]
    BY DEF TypeOK, SendPd
  <1>2. \A x, y \in PDs : pd_holds[x][y] \in Nat
    BY <1>1
  <1>3. pd_holds' \in [PDs -> [PDs -> Nat]]
    BY <1>1, <1>2
  <1>4. \A x, y \in PDs : pd_holds'[x][y] =
          IF x = p /\ y = q THEN pd_holds[x][y] + 1 ELSE pd_holds[x][y]
    BY <1>1
  <1>5. resent' \subseteq PDs \X PDs
    BY DEF TypeOK, SendPd
  <1> QED
    BY <1>3, <1>4, <1>5, GraphTypes DEF TypeOK, SendPd

LEMMA LinkChildTypes ==
  ASSUME TypeOK, NEW p \in PDs, NEW q \in PDs, LinkChild(p, q)
  PROVE  TypeOK'
  BY GraphTypes DEF TypeOK, LinkChild

LEMMA MapSpaceTypes ==
  ASSUME TypeOK, NEW s \in Spaces, NEW t \in Spaces, MapSpace(s, t)
  PROVE  TypeOK'
  <1>1. map_spaces \in [Spaces -> Seq(Spaces)] /\ map_spaces[s] \in Seq(Spaces)
    BY DEF TypeOK
  <1>2. Append(map_spaces[s], t) \in Seq(Spaces)
    BY <1>1, AppendProperties
  <1>3. map_spaces' \in [Spaces -> Seq(Spaces)]
    BY <1>1, <1>2 DEF MapSpace
  <1> QED
    BY <1>3, GraphTypes DEF TypeOK, MapSpace

\* What they have in common: registries and flags stay, entries are added that
\* refer to something registered.
LEMMA GraphStep ==
  ASSUME CleanupInv, Idle, UNCHANGED_cleanup, UNCHANGED <<n_spaces, manager>>, TypeOK',
         \A p \in PDs : hold_registry[p] \subseteq hold_registry'[p],
         \A p \in PDs, s \in Spaces :
           ResSpc(s) \in hold_registry'[p] => ResSpc(s) \in hold_registry[p],
         \A p \in PDs, s \in Spaces : Res(s) \in hold_registry'[p] =>
           Res(s) \in hold_registry[p] \/ s \in spaces,
         \A p \in PDs : rde'[p] \subseteq rde[p] \cup spaces
  PROVE  CleanupInv'
  <1>1. /\ pds' = pds /\ spaces' = spaces /\ stack' = stack /\ deleting' = deleting
        /\ to_delete' = to_delete /\ space_to_delete' = space_to_delete
        /\ cleanup_policy' = cleanup_policy /\ manager' = manager /\ n_spaces' = n_spaces
    BY DEF UNCHANGED_cleanup, flagVars
  <1>2. TypeOK
    BY DEF CleanupInv
  <1>3. FramesInv'
    BY <1>1 DEF CleanupInv, FramesInv
  <1>4. SpacesInv'
    <2>1. \A s \in spaces : manager[s] \notin deleting =>
            ResSpc(s) \in hold_registry'[manager[s]]
      BY <1>2, Types DEF CleanupInv, SpacesInv
    <2>2. stack = <<>>
      BY DEF Idle
    <2> QED
      BY <1>1, <2>1, <2>2 DEF CleanupInv, SpacesInv, top
  <1>5. MarkedInv'
    BY <1>1 DEF CleanupInv, MarkedInv, Idle, top
  <1>6. RefsInv'
    <2>1. \A s \in spaces' : s <= n_spaces'
      BY <1>1 DEF CleanupInv, RefsInv
    <2>2. \A p \in PDs, s \in Spaces : ResSpc(s) \in hold_registry'[p] =>
            manager'[s] = p /\ s <= n_spaces'
      BY <1>1 DEF CleanupInv, RefsInv
    <2>3. ASSUME NEW p \in pds' \ to_delete'
          PROVE  /\ rde'[p] \subseteq spaces'
                 /\ \A s \in Spaces :
                      Res(s) \in hold_registry'[p] \/ ResSpc(s) \in hold_registry'[p] =>
                      s \in spaces'
      <3>1. p \in PDs /\ p \in pds \ to_delete
        BY <1>1, <1>2, Types
      <3>2. /\ rde[p] \subseteq spaces
            /\ \A s \in Spaces :
                 Res(s) \in hold_registry[p] \/ ResSpc(s) \in hold_registry[p] => s \in spaces
        BY <3>1 DEF CleanupInv, RefsInv
      <3> QED
        BY <1>1, <3>1, <3>2
    <2> QED
      BY <2>1, <2>2, <2>3 DEF RefsInv
  <1> QED
    BY <1>3, <1>4, <1>5, <1>6 DEF CleanupInv

LEMMA ShareRdeInv ==
  ASSUME CleanupInv, NEW p \in PDs, NEW q \in PDs, NEW s \in Spaces, ShareRde(p, q, s)
  PROVE  CleanupInv'
  <1>1. TypeOK /\ Idle
    BY DEF CleanupInv, ShareRde, AddEdge
  <1>2. TypeOK'
    BY <1>1, ShareRdeTypes
  <1>3. \A x \in PDs : rde'[x] \subseteq rde[x] \cup spaces
    BY <1>1, Types DEF ShareRde
  <1> QED
    BY <1>1, <1>2, <1>3, GraphStep DEF ShareRde

LEMMA CreateResourceInv ==
  ASSUME CleanupInv, NEW s \in Spaces, CreateResource(s)
  PROVE  CleanupInv'
  <1>1. TypeOK /\ Idle /\ manager[s] \in PDs /\ Res(s) \in Holdable /\ s \in spaces
    BY Types, Entries DEF CleanupInv, CreateResource, AddEdge
  <1>2. /\ hold_registry' \in [PDs -> SUBSET Holdable]
        /\ \A x \in PDs : /\ hold_registry[x] \subseteq hold_registry'[x]
                          /\ hold_registry'[x] \subseteq hold_registry[x] \cup {Res(s)}
    BY <1>1, Types DEF CreateResource
  <1>3. TypeOK'
    BY <1>1, CreateResourceTypes
  <1>4. UNCHANGED rde
    BY DEF CreateResource
  <1> QED
    BY <1>1, <1>2, <1>3, <1>4, GraphStep, Entries DEF CreateResource

LEMMA GiveResourceInv ==
  ASSUME CleanupInv, NEW s \in Spaces, NEW q \in PDs, GiveResource(s, q)
  PROVE  CleanupInv'
  <1>1. TypeOK /\ Idle /\ Res(s) \in Holdable /\ s \in spaces
    BY Types, Entries DEF CleanupInv, GiveResource, AddEdge
  <1>2. /\ hold_registry' \in [PDs -> SUBSET Holdable]
        /\ \A x \in PDs : /\ hold_registry[x] \subseteq hold_registry'[x]
                          /\ hold_registry'[x] \subseteq hold_registry[x] \cup {Res(s)}
    BY <1>1, Types DEF GiveResource
  <1>3. TypeOK'
    BY <1>1, GiveResourceTypes
  <1>4. UNCHANGED rde
    BY DEF GiveResource
  <1> QED
    BY <1>1, <1>2, <1>3, <1>4, GraphStep, Entries DEF GiveResource

LEMMA SendPdInv ==
  ASSUME CleanupInv, NEW p \in PDs, NEW q \in PDs, SendPd(p, q)
  PROVE  CleanupInv'
  <1>1. TypeOK /\ Idle /\ UNCHANGED <<hold_registry, rde>>
    BY DEF CleanupInv, SendPd, AddEdge
  <1>2. TypeOK'
    BY <1>1, SendPdTypes
  <1> QED
    BY <1>1, <1>2, GraphStep DEF SendPd

LEMMA LinkChildInv ==
  ASSUME CleanupInv, NEW p \in PDs, NEW q \in PDs, LinkChild(p, q)
  PROVE  CleanupInv'
  <1>1. TypeOK /\ Idle /\ UNCHANGED <<hold_registry, rde>>
    BY DEF CleanupInv, LinkChild, AddEdge
  <1>2. TypeOK'
    BY <1>1, LinkChildTypes
  <1> QED
    BY <1>1, <1>2, GraphStep DEF LinkChild

LEMMA MapSpaceInv ==
  ASSUME CleanupInv, NEW s \in Spaces, NEW t \in Spaces, MapSpace(s, t)
  PROVE  CleanupInv'
  <1>1. TypeOK /\ Idle /\ UNCHANGED <<hold_registry, rde>>
    BY DEF CleanupInv, MapSpace, AddEdge
  <1>2. TypeOK'
    BY <1>1, MapSpaceTypes
  <1> QED
    BY <1>1, <1>2, GraphStep DEF MapSpace

LEMMA AllocSpaceTypes ==
  ASSUME TypeOK, NEW p \in PDs, NEW c \in PDs, AllocSpace(p, c)
  PROVE  TypeOK'
  <1>1. /\ TypeOK /\ Idle /\ p \in pds /\ c \in pds /\ n_spaces < NSpaces
        /\ n_spaces \in Nat /\ NSpaces \in Nat
    <2>1. TypeOK /\ Idle /\ p \in pds /\ c \in pds /\ n_spaces < NSpaces
      BY DEF AllocSpace
    <2> QED
      BY <2>1, Types, Numbers
  <1>2. PICK s \in Spaces : s = n_spaces + 1
    BY <1>1 DEF Spaces
  <1>3. /\ n_spaces' = s /\ spaces' = spaces \cup {s}
        /\ manager' = [manager EXCEPT ![s] = p]
        /\ hold_registry' = [hold_registry EXCEPT ![p] = @ \cup {ResSpc(s)}]
        /\ rde' = [rde EXCEPT ![c] = @ \cup {s}]
        /\ UNCHANGED <<pds, linked_registry, map_spaces, graph, space_to_delete,
                       cleanup_policy, space_depth, work, stack, freed_read, survivors,
                       to_delete, deleting, deletion_depth, pd_holds, resent, gave_up>>
    BY <1>2 DEF AllocSpace, flagVars, history
  <1>4. /\ manager' \in [Spaces -> PDs] /\ manager'[s] = p
        /\ \A t \in Spaces : t # s => manager'[t] = manager[t]
    BY <1>1, <1>3, Types
  <1>5. /\ hold_registry' \in [PDs -> SUBSET Holdable]
        /\ ResSpc(s) \in hold_registry'[p]
        /\ \A q \in PDs : /\ hold_registry[q] \subseteq hold_registry'[q]
                          /\ q # p => hold_registry'[q] = hold_registry[q]
                          /\ hold_registry'[q] \subseteq hold_registry[q] \cup {ResSpc(s)}
    BY <1>1, <1>3, Types, Entries
  <1>6. /\ rde' \in [PDs -> SUBSET Spaces]
        /\ \A q \in PDs : rde'[q] \subseteq rde[q] \cup {s}
    BY <1>1, <1>3, Types
  <1>7. n_spaces' \in 0 .. NSpaces /\ spaces' \subseteq Spaces
    BY <1>1, <1>2, <1>3, Types
  <1> QED
    BY <1>1, <1>3, <1>4, <1>5, <1>6, <1>7 DEF TypeOK

LEMMA AllocSpaceInv ==
  ASSUME CleanupInv, NEW p \in PDs, NEW c \in PDs, AllocSpace(p, c)
  PROVE  CleanupInv'
  <1>1. /\ TypeOK /\ Idle /\ p \in pds /\ c \in pds /\ n_spaces < NSpaces
        /\ n_spaces \in Nat /\ NSpaces \in Nat
    <2>1. TypeOK /\ Idle /\ p \in pds /\ c \in pds /\ n_spaces < NSpaces
      BY DEF CleanupInv, AllocSpace
    <2> QED
      BY <2>1, Types, Numbers
  <1>2. PICK s \in Spaces : s = n_spaces + 1
    BY <1>1 DEF Spaces
  <1>3. /\ n_spaces' = s /\ spaces' = spaces \cup {s}
        /\ manager' = [manager EXCEPT ![s] = p]
        /\ hold_registry' = [hold_registry EXCEPT ![p] = @ \cup {ResSpc(s)}]
        /\ rde' = [rde EXCEPT ![c] = @ \cup {s}]
        /\ UNCHANGED <<pds, linked_registry, map_spaces, graph, space_to_delete,
                       cleanup_policy, space_depth, work, stack, freed_read, survivors,
                       to_delete, deleting, deletion_depth, pd_holds, resent, gave_up>>
    BY <1>2 DEF AllocSpace, flagVars, history
  <1>4. /\ manager' \in [Spaces -> PDs] /\ manager'[s] = p
        /\ \A t \in Spaces : t # s => manager'[t] = manager[t]
    BY <1>1, <1>3, Types
  <1>5. /\ hold_registry' \in [PDs -> SUBSET Holdable]
        /\ ResSpc(s) \in hold_registry'[p]
        /\ \A q \in PDs : /\ hold_registry[q] \subseteq hold_registry'[q]
                          /\ q # p => hold_registry'[q] = hold_registry[q]
                          /\ hold_registry'[q] \subseteq hold_registry[q] \cup {ResSpc(s)}
    BY <1>1, <1>3, Types, Entries
  <1>6. /\ rde' \in [PDs -> SUBSET Spaces]
        /\ \A q \in PDs : rde'[q] \subseteq rde[q] \cup {s}
    BY <1>1, <1>3, Types
  <1>7. s \notin spaces /\ \A q \in PDs : ResSpc(s) \notin hold_registry[q]
    BY <1>1, <1>2 DEF CleanupInv, RefsInv
  <1>8. TypeOK'
    BY <1>1, AllocSpaceTypes
  <1>9. FramesInv'
    BY <1>3 DEF CleanupInv, FramesInv
  <1>10. SpacesInv'
    <2>1. ASSUME NEW t \in spaces'
          PROVE  /\ manager'[t] \in pds'
                 /\ manager'[t] \notin deleting' => ResSpc(t) \in hold_registry'[manager'[t]]
      <3>1. CASE t = s
        BY <3>1, <1>1, <1>3, <1>4, <1>5
      <3>2. CASE t # s
        <4>1. t \in spaces /\ t \in Spaces /\ manager'[t] = manager[t] /\ manager[t] \in PDs
          BY <3>2, <1>1, <1>3, <1>4, Types
        <4> QED
          BY <4>1, <1>3, <1>5 DEF CleanupInv, SpacesInv
      <3> QED
        BY <3>1, <3>2
    <2>2. stack' = <<>>
      BY <1>1, <1>3 DEF Idle
    <2> QED
      BY <2>1, <2>2 DEF SpacesInv
  <1>11. MarkedInv'
    BY <1>1, <1>3 DEF CleanupInv, MarkedInv, Idle
  <1>12. RefsInv'
    <2>1. \A t \in spaces' : t <= n_spaces'
      BY <1>1, <1>2, <1>3, Types DEF CleanupInv, RefsInv
    <2>2. ASSUME NEW q \in PDs, NEW t \in Spaces, ResSpc(t) \in hold_registry'[q]
          PROVE  manager'[t] = q /\ t <= n_spaces'
      <3>1. CASE t = s
        <4>1. q = p
          BY <3>1, <2>2, <1>5, <1>7
        <4> QED
          BY <4>1, <3>1, <1>1, <1>2, <1>3, <1>4
      <3>2. CASE t # s
        <4>1. ResSpc(t) \in hold_registry[q]
          BY <3>2, <2>2, <1>5, Entries
        <4>2. manager[t] = q /\ t <= n_spaces /\ t \in Nat
          BY <4>1, Numbers DEF CleanupInv, RefsInv
        <4> QED
          BY <4>2, <3>2, <1>1, <1>2, <1>3, <1>4
      <3> QED
        BY <3>1, <3>2
    <2>3. ASSUME NEW q \in pds' \ to_delete'
          PROVE  /\ rde'[q] \subseteq spaces'
                 /\ \A t \in Spaces :
                      Res(t) \in hold_registry'[q] \/ ResSpc(t) \in hold_registry'[q] =>
                      t \in spaces'
      <3>1. q \in PDs /\ q \in pds \ to_delete
        BY <1>1, <1>3, Types
      <3>2. /\ rde[q] \subseteq spaces
            /\ \A t \in Spaces :
                 Res(t) \in hold_registry[q] \/ ResSpc(t) \in hold_registry[q] => t \in spaces
        BY <3>1 DEF CleanupInv, RefsInv
      <3> QED
        BY <1>3, <1>5, <1>6, <3>1, <3>2, Entries
    <2> QED
      BY <2>1, <2>2, <2>3 DEF RefsInv
  <1> QED
    BY <1>8, <1>9, <1>10, <1>11, <1>12 DEF CleanupInv

-----------------------------------------------------------------------------
(* pd_destroy *)

\* Where a sweep of the PDs goes next.
LEMMA PdFrameMoves ==
  ASSUME NEW f \in Frame, NEW S, S \subseteq PDs, NEW stale \in StaleNext(f, S)
  PROVE  LET g == Advanced(f, S, stale) IN
         /\ g \in Frame /\ g.pd = f.pd /\ g.phase = f.phase /\ g.curr = f.next
         /\ f.next \in S => g.next = After(S, f.next)
  <1>1. f.next \in Nat /\ S \subseteq Nat \ {0} /\ stale \in Nat /\ 0 \notin S
    BY FrameFields, Numbers DEF StaleNext
  <1>2. After(S, f.next) \in Nat
    BY <1>1, NextEntry
  <1> DEFINE n == IF f.next = 0 THEN 0
                  ELSE IF f.next \in S THEN After(S, f.next) ELSE stale
  <1>3. n \in Nat /\ (f.next \in S => n = After(S, f.next))
    BY <1>1, <1>2
  <1>4. Advanced(f, S, stale) = [f EXCEPT !.curr = f.next, !.next = n]
    BY DEF Advanced
  <1> HIDE DEF n
  <1> QED
    BY <1>1, <1>3, <1>4 DEF Frame

\* The PDs and notices of pd_destroy are what the state holds.
LEMMA DestroySets ==
  ASSUME TypeOK, NEW p \in PDs
  PROVE  /\ p \in Marked(p) /\ Marked(p) \subseteq PDs
         /\ OwnSpaces(p) \subseteq Spaces
         /\ FreeWork(p) \subseteq [action : {"FREE", "DESTROY"}, pd : PDs, space : Spaces,
                                   client : Nat]
  <1>1. p \in Marked(p) /\ Marked(p) \subseteq PDs
    BY Types DEF Marked, LinkedTo
  <1>2. OwnSpaces(p) \subseteq Spaces
    BY Types DEF OwnSpaces
  <1>3. FreeWork(p) \subseteq [action : {"FREE", "DESTROY"}, pd : PDs, space : Spaces,
                               client : Nat]
    <2>1. \A s \in spaces : manager[s] \in PDs /\ s \in Spaces
      BY Types
    <2>2. p \in Nat
      BY Numbers
    <2> QED
      BY <2>1, <2>2 DEF FreeWork
  <1> QED
    BY <1>1, <1>2, <1>3

\* pd_destroy up to the sweeps keeps the types.
LEMMA ReleaseTypes ==
  ASSUME TypeOK, NEW p \in PDs, Release(p)
  PROVE  /\ hold_registry' \in [PDs -> SUBSET Holdable] /\ rde' \in [PDs -> SUBSET Spaces]
         /\ pd_holds' \in [PDs -> [PDs -> Nat]] /\ linked_registry' \in [PDs -> SUBSET PDs]
         /\ deletion_depth' \in [PDs -> Nat]
         /\ to_delete' \subseteq PDs /\ deleting' \subseteq to_delete'
         /\ space_to_delete' \subseteq Spaces /\ cleanup_policy' \subseteq Spaces
         /\ cleanup_policy' = cleanup_policy \cup OwnSpaces(p)
  <1>1. /\ deletion_depth' = [deletion_depth EXCEPT ![p] = 0]
        /\ deleting' = deleting \cup {p}
        /\ to_delete' = to_delete \cup Marked(p)
        /\ linked_registry' = [x \in PDs |->
             IF x \in Marked(p) THEN {} ELSE linked_registry[x]]
        /\ space_to_delete' = space_to_delete \cup OwnSpaces(p)
        /\ hold_registry' = [hold_registry EXCEPT ![p] = {}]
        /\ pd_holds' = [pd_holds EXCEPT ![p] = [q \in PDs |-> 0]]
        /\ rde' = [rde EXCEPT ![p] = {}]
    BY DEF Release
  <1>2. cleanup_policy' = cleanup_policy \cup OwnSpaces(p)
    <2>1. deletion_depth'[p] = 0
      BY <1>1 DEF TypeOK
    <2> QED
      BY <2>1 DEF Release
  <1>3. p \in Marked(p) /\ Marked(p) \subseteq PDs /\ OwnSpaces(p) \subseteq Spaces
    BY DestroySets
  <1>4. hold_registry' \in [PDs -> SUBSET Holdable] /\ rde' \in [PDs -> SUBSET Spaces]
    BY <1>1, Types
  <1>5. pd_holds' \in [PDs -> [PDs -> Nat]]
    <2>1. pd_holds \in [PDs -> [PDs -> Nat]] /\ [q \in PDs |-> 0] \in [PDs -> Nat]
      BY DEF TypeOK
    <2> QED
      BY <1>1, <2>1
  <1>6. deletion_depth' \in [PDs -> Nat] /\ linked_registry' \in [PDs -> SUBSET PDs]
    BY <1>1 DEF TypeOK
  <1>7. /\ to_delete' \subseteq PDs /\ deleting' \subseteq to_delete'
        /\ space_to_delete' \subseteq Spaces /\ cleanup_policy' \subseteq Spaces
    BY <1>1, <1>2, <1>3 DEF TypeOK
  <1> QED
    BY <1>2, <1>4, <1>5, <1>6, <1>7

\* The frame that pd_destroy pushes.
LEMMA EnterStack ==
  ASSUME TypeOK, NEW p \in PDs, EnterDestroy(p, stack)
  PROVE  LET f == [pd |-> p, phase |-> "spaces", curr |-> First(spaces),
                   next |-> After(spaces, First(spaces))] IN
         /\ f \in Frame /\ Len(stack) \in Nat
         /\ First(spaces) \in spaces \cup {0} /\ First(spaces) \in Nat
         /\ stack' \in Seq(Frame) /\ stack' # <<>>
         /\ Len(stack') = Len(stack) + 1
         /\ \A i \in 1 .. Len(stack) : stack'[i] = stack[i]
         /\ stack'[Len(stack) + 1] = f /\ top' = f
  <1>1. stack \in Seq(Frame) /\ spaces \subseteq Nat \ {0}
    BY Types
  <1>2. First(spaces) \in spaces \cup {0} /\ First(spaces) \in Nat
    BY <1>1, FirstEntry
  <1>3. After(spaces, First(spaces)) \in Nat
    BY <1>1, <1>2, NextEntry
  <1>4. Len(stack) \in Nat
    BY <1>1, LenProperties
  <1> DEFINE f == [pd |-> p, phase |-> "spaces", curr |-> First(spaces),
                   next |-> After(spaces, First(spaces))]
  <1>5. f \in Frame
    BY <1>2, <1>3 DEF Frame
  <1>6. stack' = Append(stack, f)
    BY DEF EnterDestroy
  <1> HIDE DEF f
  <1>7. /\ stack' \in Seq(Frame) /\ stack' # <<>>
        /\ Len(stack') = Len(stack) + 1
        /\ \A i \in 1 .. Len(stack) : stack'[i] = stack[i]
        /\ stack'[Len(stack) + 1] = f /\ top' = f
    BY <1>1, <1>5, <1>6, StackPush DEF top
  <1> QED
    BY <1>2, <1>4, <1>5, <1>7 DEF f

LEMMA EnterDestroyTypes ==
  ASSUME TypeOK, NEW p \in PDs, EnterDestroy(p, stack),
         survivors' \subseteq PDs, resent' = resent
  PROVE  TypeOK'
  <1>1. UNCHANGED <<n_spaces, manager, map_spaces, graph, pds, spaces, space_depth,
                    freed_read, gave_up>>
    BY DEF EnterDestroy, graphVars
  <1>2. /\ hold_registry' \in [PDs -> SUBSET Holdable] /\ rde' \in [PDs -> SUBSET Spaces]
        /\ pd_holds' \in [PDs -> [PDs -> Nat]] /\ linked_registry' \in [PDs -> SUBSET PDs]
        /\ deletion_depth' \in [PDs -> Nat]
        /\ to_delete' \subseteq PDs /\ deleting' \subseteq to_delete'
        /\ space_to_delete' \subseteq Spaces /\ cleanup_policy' \subseteq Spaces
    BY ReleaseTypes DEF EnterDestroy
  <1>3. work' \subseteq [action : {"FREE", "DESTROY"}, pd : PDs, space : Spaces, client : Nat]
    <2>1. work' = work \cup FreeWork(p)
      BY DEF EnterDestroy
    <2> QED
      BY <2>1, DestroySets DEF TypeOK
  <1>4. stack' \in Seq(Frame)
    BY EnterStack
  <1> QED
    BY <1>1, <1>2, <1>3, <1>4 DEF TypeOK

\* Entering pd_destroy for a PD that is registered and not being destroyed,
\* from a request or from the sweep of the PDs.
LEMMA EnterDestroyInv ==
  ASSUME CleanupInv, NEW p \in pds, p \notin deleting,
         stack # <<>> => top.phase = "pds",
         EnterDestroy(p, stack), survivors' \subseteq PDs, resent' = resent
  PROVE  CleanupInv'
  <1>1. TypeOK /\ p \in PDs /\ stack \in Seq(Frame)
    BY Types DEF CleanupInv
  <1> DEFINE f == [pd |-> p, phase |-> "spaces", curr |-> First(spaces),
                   next |-> After(spaces, First(spaces))]
  <1>2. /\ f.pd = p /\ f.phase = "spaces" /\ f.curr = First(spaces)
        /\ f.next = After(spaces, First(spaces))
    OBVIOUS
  <1>4. /\ stack' \in Seq(Frame) /\ stack' # <<>> /\ Len(stack) \in Nat
        /\ First(spaces) \in spaces \cup {0} /\ First(spaces) \in Nat
        /\ Len(stack') = Len(stack) + 1
        /\ \A i \in 1 .. Len(stack) : stack'[i] = stack[i]
        /\ stack'[Len(stack) + 1] = f /\ top' = f
    BY <1>1, EnterStack
  <1> HIDE DEF f
  <1>5. /\ deleting' = deleting \cup {p}
        /\ to_delete' = to_delete \cup Marked(p)
        /\ space_to_delete' = space_to_delete \cup OwnSpaces(p)
        /\ hold_registry' = [hold_registry EXCEPT ![p] = {}]
        /\ rde' = [rde EXCEPT ![p] = {}]
        /\ UNCHANGED <<n_spaces, manager, pds, spaces>>
    BY DEF EnterDestroy, Release, graphVars
  <1>6. cleanup_policy' = cleanup_policy \cup OwnSpaces(p)
    BY <1>1, ReleaseTypes DEF EnterDestroy
  <1>7. p \in Marked(p)
    BY <1>1, DestroySets
  <1>8. /\ \A q \in PDs : /\ hold_registry'[q] \subseteq hold_registry[q]
                          /\ q # p => hold_registry'[q] = hold_registry[q]
        /\ \A q \in PDs : q # p => rde'[q] = rde[q]
    BY <1>1, <1>5, Types
  <1>9. TypeOK'
    BY <1>1, EnterDestroyTypes
  <1>10. FramesInv'
    <2>1. ASSUME NEW i \in 1 .. Len(stack')
          PROVE  /\ i \in 1 .. Len(stack) \/ i = Len(stack) + 1
                 /\ i < Len(stack') <=> i \in 1 .. Len(stack)
      BY <1>1, <1>4
    <2>2. ASSUME NEW i \in 1 .. Len(stack')
          PROVE  /\ stack'[i].pd \in pds' \cap deleting'
                 /\ i \in 1 .. Len(stack) => stack'[i].pd \in deleting
                 /\ i = Len(stack) + 1 => stack'[i].pd = p
      BY <2>1, <1>2, <1>4, <1>5 DEF CleanupInv, FramesInv
    <2>3. ASSUME NEW i \in 1 .. Len(stack'), NEW j \in 1 .. Len(stack'),
                 stack'[i].pd = stack'[j].pd
          PROVE  i = j
      <3>1. CASE i \in 1 .. Len(stack) /\ j \in 1 .. Len(stack)
        BY <3>1, <2>3, <1>4 DEF CleanupInv, FramesInv
      <3>2. CASE i = Len(stack) + 1 \/ j = Len(stack) + 1
        BY <3>2, <2>1, <2>2, <2>3
      <3> QED
        BY <3>1, <3>2, <2>1
    <2>4. ASSUME NEW i \in 1 .. Len(stack)
          PROVE  stack[i].phase = "pds"
      <3>1. CASE i < Len(stack)
        BY <3>1 DEF CleanupInv, FramesInv
      <3>2. CASE i = Len(stack)
        <4>1. stack # <<>>
          BY <3>2, <1>1, <1>4
        <4> QED
          BY <4>1, <3>2 DEF top, Last
      <3> QED
        BY <3>1, <3>2, <1>4
    <2>5. ASSUME NEW q \in pds' \cap deleting'
          PROVE  \E i \in 1 .. Len(stack') : stack'[i].pd = q
      <3>1. Len(stack) + 1 \in 1 .. Len(stack') /\ 1 .. Len(stack) \subseteq 1 .. Len(stack')
        BY <1>1, <1>4
      <3>2. CASE q = p
        BY <3>1, <3>2, <1>2, <1>4
      <3>3. CASE q # p
        <4>1. PICK i \in 1 .. Len(stack) : stack[i].pd = q
          BY <3>3, <1>5 DEF CleanupInv, FramesInv
        <4> QED
          BY <4>1, <3>1, <1>4
      <3> QED
        BY <3>2, <3>3
    <2> QED
      BY <2>1, <2>2, <2>3, <2>4, <2>5, <1>4 DEF FramesInv
  <1>11. SpacesInv'
    <2>1. ASSUME NEW s \in spaces, manager[s] \notin deleting'
          PROVE  ResSpc(s) \in hold_registry'[manager[s]]
      <3>1. manager[s] \notin deleting /\ manager[s] # p /\ manager[s] \in PDs
        BY <2>1, <1>1, <1>5, Types
      <3> QED
        BY <3>1, <1>8 DEF CleanupInv, SpacesInv
    <2>2. ASSUME NEW i \in 1 .. Len(stack'), stack'[i].phase = "pds", NEW s \in spaces
          PROVE  manager[s] # stack'[i].pd
      <3>1. i \in 1 .. Len(stack) \/ i = Len(stack) + 1
        BY <1>1, <1>4
      <3>2. i \in 1 .. Len(stack)
        BY <3>1, <2>2, <1>2, <1>4
      <3> QED
        BY <3>2, <2>2, <1>4 DEF CleanupInv, SpacesInv
    <2>3. ASSUME NEW s \in spaces, manager[s] = p
          PROVE  s \in space_to_delete' /\ f.curr # 0 /\ f.curr <= s
      <3>1. ResSpc(s) \in hold_registry[p]
        BY <2>3 DEF CleanupInv, SpacesInv
      <3>2. s \in OwnSpaces(p)
        BY <3>1 DEF OwnSpaces
      <3>3. First(spaces) # 0 /\ First(spaces) <= s
        BY <1>1, Types, FirstEntry
      <3> QED
        BY <3>2, <3>3, <1>2, <1>5
    <2>4. /\ f.curr \in spaces \cup {0} /\ f.next = After(spaces, f.curr)
          /\ f.pd = p
      BY <1>2, <1>4
    <2>5. \A s \in spaces : manager[s] \in pds
      BY DEF CleanupInv, SpacesInv
    <2> QED
      BY <1>4, <1>5, <2>1, <2>2, <2>3, <2>4, <2>5 DEF SpacesInv
  <1>12. MarkedInv'
    <2>1. ~Idle' /\ top'.phase = "spaces"
      BY <1>2, <1>4 DEF Idle
    <2>2. PDs \ pds' \subseteq deleting' /\ cleanup_policy' \subseteq space_to_delete'
      BY <1>5, <1>6 DEF CleanupInv, MarkedInv
    <2> QED
      BY <2>1, <2>2 DEF MarkedInv
  <1>13. RefsInv'
    <2>1. \A s \in spaces' : s <= n_spaces'
      BY <1>5 DEF CleanupInv, RefsInv
    <2>2. \A q \in PDs, s \in Spaces : ResSpc(s) \in hold_registry'[q] =>
            manager'[s] = q /\ s <= n_spaces'
      BY <1>5, <1>8 DEF CleanupInv, RefsInv
    <2>3. ASSUME NEW q \in pds' \ to_delete'
          PROVE  /\ q \in pds \ to_delete /\ hold_registry'[q] = hold_registry[q]
                 /\ rde'[q] = rde[q]
      BY <1>1, <1>5, <1>7, <1>8, Types
    <2>4. ASSUME NEW q \in pds' \ to_delete'
          PROVE  /\ rde'[q] \subseteq spaces'
                 /\ \A s \in Spaces :
                      Res(s) \in hold_registry'[q] \/ ResSpc(s) \in hold_registry'[q] =>
                      s \in spaces'
      BY <1>5, <2>3 DEF CleanupInv, RefsInv
    <2> QED
      BY <2>1, <2>2, <2>4 DEF RefsInv
  <1> QED
    BY <1>9, <1>10, <1>11, <1>12, <1>13 DEF CleanupInv

\* The entry of a PD is freed, and the sweep that called pd_destroy moves on.
LEMMA UnregisterTypes ==
  ASSUME TypeOK, NEW p, NEW frames \in Seq(Frame), Unregister(p, frames)
  PROVE  pds' \subseteq PDs /\ stack' \in Seq(Frame) /\ freed_read' \in BOOLEAN
  <1>1. pds' \subseteq PDs
    BY Types DEF Unregister
  <1>2. CASE frames = <<>>
    <2>1. stack' = <<>> /\ freed_read' = freed_read
      BY <1>2 DEF Unregister
    <2> QED
      BY <1>1, <2>1 DEF TypeOK
  <1>3. CASE frames # <<>>
    <2>1. PICK stale \in StaleNext(Last(frames), pds') :
            stack' = Append(Front(frames), Advanced(Last(frames), pds', stale))
      BY <1>3 DEF Unregister
    <2>2. freed_read' \in BOOLEAN
      BY <1>3 DEF Unregister
    <2>3. Last(frames) \in Frame
      BY <1>3, StackFront
    <2>4. Advanced(Last(frames), pds', stale) \in Frame
      BY <1>1, <2>1, <2>3, PdFrameMoves
    <2> QED
      BY <1>1, <1>3, <2>1, <2>2, <2>4, StackReplace
  <1> QED
    BY <1>2, <1>3

\* pd_destroy gives up: only the types are kept.
LEMMA GivesUpTypes ==
  ASSUME TypeOK, NEW p \in PDs, DestroyGivesUp(p, stack),
         survivors' \subseteq PDs, resent' = resent
  PROVE  TypeOK'
  <1>1. UNCHANGED <<n_spaces, manager, map_spaces, graph, spaces, space_depth>>
    BY DEF DestroyGivesUp, graphVars
  <1>2. pds' \subseteq PDs /\ stack' \in Seq(Frame) /\ freed_read' \in BOOLEAN
    BY Types, UnregisterTypes DEF DestroyGivesUp
  <1>3. gave_up' \in BOOLEAN
    BY DEF DestroyGivesUp
  <1>4. /\ hold_registry' \in [PDs -> SUBSET Holdable] /\ rde' \in [PDs -> SUBSET Spaces]
        /\ pd_holds' \in [PDs -> [PDs -> Nat]] /\ linked_registry' \in [PDs -> SUBSET PDs]
        /\ deletion_depth' \in [PDs -> Nat]
        /\ to_delete' \subseteq PDs /\ deleting' \subseteq to_delete'
        /\ space_to_delete' \subseteq Spaces /\ cleanup_policy' \subseteq Spaces
        /\ work' \subseteq [action : {"FREE", "DESTROY"}, pd : PDs, space : Spaces, client : Nat]
    <2>1. CASE GiveUpEarly(p)
      BY <2>1 DEF GiveUpEarly, TypeOK
    <2>2. CASE GiveUpLate(p)
      <3>1. work' \subseteq work \cup FreeWork(p) /\ Release(p)
        BY <2>2 DEF GiveUpLate
      <3>2. work' \subseteq [action : {"FREE", "DESTROY"}, pd : PDs, space : Spaces,
                            client : Nat]
        BY <3>1, DestroySets DEF TypeOK
      <3> QED
        BY <3>1, <3>2, ReleaseTypes
    <2> QED
      BY <2>1, <2>2 DEF DestroyGivesUp
  <1> QED
    BY <1>1, <1>2, <1>3, <1>4 DEF TypeOK

\* pd_component_terminate, handle_exit_req
LEMMA TerminateTypes ==
  ASSUME TypeOK, NEW p \in PDs, Terminate(p)
  PROVE  TypeOK'
  <1>1. EnterDestroy(p, stack) \/ DestroyGivesUp(p, stack)
    BY DEF Terminate, Idle
  <1>2. survivors' \subseteq PDs /\ resent' = resent
    BY Types DEF Terminate
  <1> QED
    BY <1>1, <1>2, EnterDestroyTypes, GivesUpTypes

LEMMA TerminateInv ==
  ASSUME CleanupInv, NEW p \in PDs, Terminate(p), ~gave_up'
  PROVE  CleanupInv'
  <1>1. stack = <<>> /\ p \in pds /\ EnterDestroy(p, stack)
    BY DEF Terminate, Idle, DestroyGivesUp
  <1>2. p \notin deleting
    BY <1>1, IdleClean DEF Idle
  <1>3. survivors' \subseteq PDs /\ resent' = resent
    BY Types DEF CleanupInv, Terminate
  <1> QED
    BY <1>1, <1>2, <1>3, EnterDestroyInv

\* pd_component_sweep finds a marked PD.
LEMMA SweepPdTypes ==
  ASSUME TypeOK, SweepPd
  PROVE  TypeOK'
  <1>1. EnterDestroy(top.curr, stack) \/ DestroyGivesUp(top.curr, stack)
    BY DEF SweepPd
  <1>2. top.curr \in PDs
    BY Types DEF SweepPd
  <1>3. survivors' \subseteq PDs /\ resent' = resent
    BY DEF SweepPd, TypeOK, history
  <1> QED
    BY <1>1, <1>2, <1>3, EnterDestroyTypes, GivesUpTypes

LEMMA SweepPdInv ==
  ASSUME CleanupInv, SweepPd, ~gave_up'
  PROVE  CleanupInv'
  <1>1. top.phase = "pds" /\ EnterDestroy(top.curr, stack) /\ top.curr \notin deleting
    BY DEF SweepPd, DestroyGivesUp
  <1>2. top.curr \in pds
    BY Types DEF SweepPd, CleanupInv, MarkedInv
  <1>3. survivors' \subseteq PDs /\ resent' = resent
    BY DEF SweepPd, CleanupInv, TypeOK, history
  <1> QED
    BY <1>1, <1>2, <1>3, EnterDestroyInv

-----------------------------------------------------------------------------
(* Deletion of a resource space *)

\* on_resspc_registry_delete keeps the types.
LEMMA DeleteSpaceTypes ==
  ASSUME TypeOK, NEW s \in Spaces, NEW dont_notify, DeleteSpace(s, dont_notify)
  PROVE  /\ UNCHANGED <<n_spaces, manager, map_spaces, graph, pds, pd_holds, linked_registry,
                        deleting, gave_up>>
         /\ spaces' \subseteq Spaces
         /\ space_to_delete' \subseteq Spaces /\ cleanup_policy' \subseteq Spaces
         /\ to_delete \subseteq to_delete' /\ to_delete' \subseteq PDs
         /\ hold_registry' \in [PDs -> SUBSET Holdable] /\ rde' \in [PDs -> SUBSET Spaces]
         /\ deletion_depth' \in [PDs -> Nat] /\ space_depth' \in [Spaces -> Nat]
         /\ freed_read' \in BOOLEAN
         /\ work' \subseteq [action : {"FREE", "DESTROY"}, pd : PDs, space : Spaces, client : Nat]
  <1> DEFINE m == manager[s]
             depth == deletion_depth[m]
             staying == IF m \in pds THEN pds \ to_delete ELSE {}
             condemned == IF s \in cleanup_policy /\ (PdDepth = -1 \/ depth + 1 <= PdDepth)
                          THEN {p \in staying : Depends(p, s)} ELSE {}
  <1>1. m \in PDs /\ depth \in Nat
    BY Types DEF TypeOK
  <1>2. /\ \E wild \in SUBSET {t \in Candidates(s) : ReadsFreed(t, s)} :
             LET mapped == wild \cup {t \in Candidates(s) : Live(t, s) > 0} IN
             /\ space_to_delete' = (space_to_delete \cup mapped) \ {s}
             /\ cleanup_policy' = (cleanup_policy \cup mapped) \ {s}
             /\ space_depth' = [t \in Spaces |-> IF t \in mapped THEN space_depth[s] + 1
                                                                 ELSE space_depth[t]]
        /\ freed_read' = (freed_read \/ \E t \in Candidates(s) : ReadsFreed(t, s))
        /\ work' = IF m \in staying /\ ~dont_notify
                   THEN work \cup {[action |-> "DESTROY", pd |-> m, space |-> s, client |-> 0]}
                   ELSE work
        /\ to_delete' = to_delete \cup condemned
        /\ deletion_depth' = [p \in PDs |-> IF p \in condemned THEN depth + 1
                                                               ELSE deletion_depth[p]]
        /\ rde' = [p \in PDs |-> IF p \in staying \ condemned THEN WithoutSpace(p, s)
                                                              ELSE rde[p]]
        /\ hold_registry' = [p \in PDs |->
             hold_registry[p] \ ((IF p \in staying \ condemned THEN {Res(s)} ELSE {})
                                \cup (IF p = m /\ m \in staying THEN {ResSpc(s)} ELSE {}))]
        /\ spaces' = spaces \ {s}
        /\ UNCHANGED <<graphVars, pds, pd_holds, linked_registry, deleting, gave_up>>
    BY DEF DeleteSpace
  <1>3. UNCHANGED <<n_spaces, manager, map_spaces, graph, pds, pd_holds, linked_registry,
                    deleting, gave_up>>
    BY <1>2 DEF graphVars
  <1>4. condemned \subseteq pds
    OBVIOUS
  <1> HIDE DEF condemned, staying
  <1>5. /\ space_to_delete' \subseteq Spaces /\ cleanup_policy' \subseteq Spaces
        /\ space_depth' \in [Spaces -> Nat]
    <2>1. PICK wild \in SUBSET {t \in Candidates(s) : ReadsFreed(t, s)} :
            LET mapped == wild \cup {t \in Candidates(s) : Live(t, s) > 0} IN
            /\ space_to_delete' = (space_to_delete \cup mapped) \ {s}
            /\ cleanup_policy' = (cleanup_policy \cup mapped) \ {s}
            /\ space_depth' = [t \in Spaces |-> IF t \in mapped THEN space_depth[s] + 1
                                                                ELSE space_depth[t]]
      BY <1>2
    <2> DEFINE mapped == wild \cup {t \in Candidates(s) : Live(t, s) > 0}
    <2>2. mapped \subseteq Spaces
      BY Types DEF Candidates
    <2>3. /\ space_to_delete' = (space_to_delete \cup mapped) \ {s}
          /\ cleanup_policy' = (cleanup_policy \cup mapped) \ {s}
          /\ space_depth' = [t \in Spaces |-> IF t \in mapped THEN space_depth[s] + 1
                                                              ELSE space_depth[t]]
      BY <2>1
    <2> HIDE DEF mapped
    <2> QED
      BY <2>2, <2>3 DEF TypeOK
  <1>6. to_delete \subseteq to_delete' /\ to_delete' \subseteq PDs
    BY <1>2, <1>4, Types
  <1>7. hold_registry' \in [PDs -> SUBSET Holdable]
    BY <1>2, Types
  <1>8. rde' \in [PDs -> SUBSET Spaces]
    BY <1>2, Types DEF WithoutSpace
  <1>9. deletion_depth' \in [PDs -> Nat]
    BY <1>1, <1>2 DEF TypeOK
  <1>10. freed_read' \in BOOLEAN
    BY <1>2
  <1>11. work' \subseteq [action : {"FREE", "DESTROY"}, pd : PDs, space : Spaces, client : Nat]
    <2>1. [action |-> "DESTROY", pd |-> m, space |-> s, client |-> 0]
            \in [action : {"FREE", "DESTROY"}, pd : PDs, space : Spaces, client : Nat]
      BY <1>1
    <2>2. work \subseteq [action : {"FREE", "DESTROY"}, pd : PDs, space : Spaces, client : Nat]
      BY DEF TypeOK
    <2> QED
      BY <1>2, <2>1, <2>2
  <1>12. spaces' \subseteq Spaces
    BY <1>2, Types
  <1> QED
    BY <1>3, <1>5, <1>6, <1>7, <1>8, <1>9, <1>10, <1>11, <1>12

\* What it does to the state.
LEMMA DeleteSpaceEffect ==
  ASSUME CleanupInv, NEW s \in spaces, NEW dont_notify, DeleteSpace(s, dont_notify)
  PROVE  /\ spaces' = spaces \ {s}
         /\ UNCHANGED <<n_spaces, manager, map_spaces, graph, pds, linked_registry, deleting>>
         /\ space_to_delete \ {s} \subseteq space_to_delete'
         /\ cleanup_policy' \subseteq space_to_delete' /\ to_delete \subseteq to_delete'
         /\ s \notin cleanup_policy => to_delete' = to_delete
         /\ \A p \in PDs : hold_registry'[p] \subseteq hold_registry[p]
         /\ \A p \in PDs, t \in Spaces : t # s /\ ResSpc(t) \in hold_registry[p] =>
              ResSpc(t) \in hold_registry'[p]
         /\ \A p \in pds \ to_delete' :
              /\ rde'[p] = rde[p] \ {s} /\ Res(s) \notin hold_registry'[p]
              /\ p = manager[s] => ResSpc(s) \notin hold_registry'[p]
  <1> DEFINE m == manager[s]
             depth == deletion_depth[m]
             staying == IF m \in pds THEN pds \ to_delete ELSE {}
             condemned == IF s \in cleanup_policy /\ (PdDepth = -1 \/ depth + 1 <= PdDepth)
                          THEN {p \in staying : Depends(p, s)} ELSE {}
  <1>1. TypeOK /\ s \in Spaces /\ m \in PDs /\ m \in pds /\ depth \in Nat
    BY Types DEF CleanupInv, SpacesInv, TypeOK
  <1>2. /\ \E wild \in SUBSET {t \in Candidates(s) : ReadsFreed(t, s)} :
             LET mapped == wild \cup {t \in Candidates(s) : Live(t, s) > 0} IN
             /\ space_to_delete' = (space_to_delete \cup mapped) \ {s}
             /\ cleanup_policy' = (cleanup_policy \cup mapped) \ {s}
        /\ to_delete' = to_delete \cup condemned
        /\ rde' = [p \in PDs |-> IF p \in staying \ condemned THEN WithoutSpace(p, s)
                                                              ELSE rde[p]]
        /\ hold_registry' = [p \in PDs |->
             hold_registry[p] \ ((IF p \in staying \ condemned THEN {Res(s)} ELSE {})
                                \cup (IF p = m /\ m \in staying THEN {ResSpc(s)} ELSE {}))]
        /\ spaces' = spaces \ {s}
        /\ UNCHANGED <<graphVars, pds, linked_registry, deleting>>
    BY DEF DeleteSpace
  <1>3. UNCHANGED <<n_spaces, manager, map_spaces, graph, pds, linked_registry, deleting>>
    BY <1>2 DEF graphVars
  <1>4. staying = pds \ to_delete
    BY <1>1
  <1>5. condemned \subseteq staying /\ (s \notin cleanup_policy => condemned = {})
    OBVIOUS
  <1> HIDE DEF condemned, staying
  <1>6. /\ space_to_delete \ {s} \subseteq space_to_delete'
        /\ cleanup_policy' \subseteq space_to_delete'
    <2>1. PICK wild \in SUBSET {t \in Candidates(s) : ReadsFreed(t, s)} :
            LET mapped == wild \cup {t \in Candidates(s) : Live(t, s) > 0} IN
            /\ space_to_delete' = (space_to_delete \cup mapped) \ {s}
            /\ cleanup_policy' = (cleanup_policy \cup mapped) \ {s}
      BY <1>2
    <2> DEFINE mapped == wild \cup {t \in Candidates(s) : Live(t, s) > 0}
    <2>2. mapped \subseteq Spaces
      BY <1>1, Types DEF Candidates
    <2>3. /\ space_to_delete' = (space_to_delete \cup mapped) \ {s}
          /\ cleanup_policy' = (cleanup_policy \cup mapped) \ {s}
      BY <2>1
    <2> HIDE DEF mapped
    <2>4. cleanup_policy \subseteq space_to_delete /\ space_to_delete \subseteq Spaces
      BY <1>1 DEF CleanupInv, MarkedInv, TypeOK
    <2> QED
      BY <2>2, <2>3, <2>4
  <1>7. to_delete \subseteq to_delete'
        /\ (s \notin cleanup_policy => to_delete' = to_delete)
    BY <1>1, <1>2, <1>4, <1>5, Types
  <1>8. \A p \in pds \ to_delete' : p \in PDs /\ p \in staying \ condemned
    BY <1>1, <1>2, <1>4, Types
  <1>9. \A p \in PDs : hold_registry'[p] \subseteq hold_registry[p]
    BY <1>1, <1>2, Types
  <1>10. \A p \in PDs, t \in Spaces : t # s /\ ResSpc(t) \in hold_registry[p] =>
           ResSpc(t) \in hold_registry'[p]
    BY <1>2, Entries
  <1>11. ASSUME NEW p \in pds \ to_delete'
         PROVE  /\ rde'[p] = rde[p] \ {s} /\ Res(s) \notin hold_registry'[p]
                /\ p = manager[s] => ResSpc(s) \notin hold_registry'[p]
    <2>1. p \in PDs /\ p \in staying \ condemned /\ p \in staying
      BY <1>8
    <2>2. rde'[p] = rde[p] \ {s}
      BY <1>2, <2>1 DEF WithoutSpace
    <2>3. hold_registry'[p] = hold_registry[p] \ ({Res(s)}
             \cup (IF p = m /\ m \in staying THEN {ResSpc(s)} ELSE {}))
      BY <1>2, <2>1
    <2> QED
      BY <2>1, <2>2, <2>3
  <1> QED
    BY <1>2, <1>3, <1>6, <1>7, <1>9, <1>10, <1>11

\* A deletion leaves no reference to the space with the PDs that stay.
LEMMA DeleteSpaceRefs ==
  ASSUME CleanupInv, NEW s \in spaces, NEW dont_notify, DeleteSpace(s, dont_notify)
  PROVE  RefsInv'
  <1>1. TypeOK /\ s \in Spaces
    BY Types DEF CleanupInv
  <1>2. /\ spaces' = spaces \ {s} /\ UNCHANGED <<n_spaces, manager, pds>>
        /\ to_delete \subseteq to_delete'
        /\ \A p \in PDs : hold_registry'[p] \subseteq hold_registry[p]
        /\ \A p \in pds \ to_delete' :
              /\ rde'[p] = rde[p] \ {s} /\ Res(s) \notin hold_registry'[p]
              /\ p = manager[s] => ResSpc(s) \notin hold_registry'[p]
    BY DeleteSpaceEffect
  <1>3. \A t \in spaces' : t <= n_spaces'
    BY <1>2 DEF CleanupInv, RefsInv
  <1>4. \A p \in PDs, t \in Spaces : ResSpc(t) \in hold_registry'[p] =>
          manager'[t] = p /\ t <= n_spaces'
    BY <1>2 DEF CleanupInv, RefsInv
  <1>5. ASSUME NEW p \in pds' \ to_delete'
        PROVE  /\ rde'[p] \subseteq spaces'
               /\ \A t \in Spaces :
                    Res(t) \in hold_registry'[p] \/ ResSpc(t) \in hold_registry'[p] =>
                    t \in spaces'
    <2>1. p \in PDs /\ p \in pds \ to_delete /\ p \in pds \ to_delete'
      BY <1>1, <1>2, Types
    <2>2. /\ rde[p] \subseteq spaces
          /\ \A t \in Spaces :
               Res(t) \in hold_registry[p] \/ ResSpc(t) \in hold_registry[p] => t \in spaces
      BY <2>1 DEF CleanupInv, RefsInv
    <2>3. ResSpc(s) \notin hold_registry'[p]
      BY <1>1, <1>2, <2>1 DEF CleanupInv, RefsInv
    <2> QED
      BY <1>2, <2>1, <2>2, <2>3
  <1> QED
    BY <1>3, <1>4, <1>5 DEF RefsInv

\* handle_destroy_space_request: no policy is executed, so no PD is marked.
LEMMA DestroySpaceTypes ==
  ASSUME TypeOK, NEW s \in Spaces, DestroySpace(s)
  PROVE  TypeOK'
  <1>1. DeleteSpace(s, TRUE) /\ UNCHANGED <<stack, survivors, resent>>
    BY DEF DestroySpace, history
  <1> QED
    BY <1>1, DeleteSpaceTypes DEF TypeOK

LEMMA DestroySpaceInv ==
  ASSUME CleanupInv, NEW s \in Spaces, DestroySpace(s)
  PROVE  CleanupInv'
  <1>1. /\ s \in spaces /\ s \notin space_to_delete /\ DeleteSpace(s, TRUE)
        /\ stack = <<>> /\ stack' = <<>>
    BY DEF DestroySpace, Idle
  <1>2. /\ spaces' = spaces \ {s} /\ UNCHANGED <<manager, pds, deleting>>
        /\ cleanup_policy' \subseteq space_to_delete'
        /\ s \notin cleanup_policy => to_delete' = to_delete
        /\ \A p \in PDs, t \in Spaces : t # s /\ ResSpc(t) \in hold_registry[p] =>
              ResSpc(t) \in hold_registry'[p]
    BY <1>1, DeleteSpaceEffect
  <1>3. to_delete' = to_delete
    BY <1>1, <1>2 DEF CleanupInv, MarkedInv
  <1>4. TypeOK
    BY DEF CleanupInv
  <1>5. TypeOK'
    BY <1>4, DestroySpaceTypes
  <1>6. FramesInv'
    BY <1>1, <1>2 DEF CleanupInv, FramesInv
  <1>7. SpacesInv'
    <2>1. ASSUME NEW t \in spaces'
          PROVE  /\ manager'[t] \in pds'
                 /\ manager'[t] \notin deleting' => ResSpc(t) \in hold_registry'[manager'[t]]
      <3>1. t \in spaces /\ t # s /\ t \in Spaces /\ manager[t] \in PDs
        BY <1>2, <1>4, Types
      <3> QED
        BY <3>1, <1>2 DEF CleanupInv, SpacesInv
    <2> QED
      BY <1>1, <2>1 DEF SpacesInv
  <1>8. MarkedInv'
    BY <1>1, <1>2, <1>3 DEF CleanupInv, MarkedInv, Idle
  <1>9. RefsInv'
    BY <1>1, DeleteSpaceRefs
  <1> QED
    BY <1>5, <1>6, <1>7, <1>8, <1>9 DEF CleanupInv

-----------------------------------------------------------------------------
(* The sweeps *)

\* The innermost frame moves on and still belongs to the same PD.
LEMMA FrameMoves ==
  ASSUME CleanupInv, stack # <<>>, NEW f \in Frame, f.pd = top.pd,
         stack' = Append(Front(stack), f), UNCHANGED <<pds, deleting>>
  PROVE  /\ stack' \in Seq(Frame) /\ stack' # <<>> /\ top' = f
         /\ Len(stack) \in Nat \ {0} /\ Len(stack') = Len(stack)
         /\ \A i \in 1 .. Len(stack) : i < Len(stack) => stack'[i] = stack[i]
         /\ stack'[Len(stack)] = f /\ top = stack[Len(stack)]
         /\ FramesInv'
  <1>1. stack \in Seq(Frame) /\ Len(stack) \in Nat \ {0} /\ top = stack[Len(stack)]
    BY Types, StackFront DEF CleanupInv, top, Last
  <1>2. /\ stack' \in Seq(Frame) /\ stack' # <<>> /\ Last(stack') = f
        /\ Len(stack') = Len(stack)
        /\ \A i \in 1 .. Len(stack) : i < Len(stack) => stack'[i] = stack[i]
        /\ stack'[Len(stack)] = f
    BY <1>1, StackReplace
  <1>3. \A i \in 1 .. Len(stack) : stack'[i].pd = stack[i].pd
    <2>1. \A i \in 1 .. Len(stack) : i < Len(stack) \/ i = Len(stack)
      BY <1>1
    <2> QED
      BY <2>1, <1>1, <1>2
  <1>4. FramesInv'
    <2>1. \A i \in 1 .. Len(stack) : stack'[i].pd \in pds \cap deleting
      BY <1>3 DEF CleanupInv, FramesInv
    <2>2. \A i, j \in 1 .. Len(stack) : stack'[i].pd = stack'[j].pd => i = j
      BY <1>3 DEF CleanupInv, FramesInv
    <2>3. \A i \in 1 .. Len(stack) : i < Len(stack) => stack'[i].phase = "pds"
      BY <1>2 DEF CleanupInv, FramesInv
    <2>4. ASSUME NEW p \in pds \cap deleting
          PROVE  \E i \in 1 .. Len(stack) : stack'[i].pd = p
      <3>1. PICK i \in 1 .. Len(stack) : stack[i].pd = p
        BY DEF CleanupInv, FramesInv
      <3> QED
        BY <3>1, <1>3
    <2> QED
      BY <1>2, <2>1, <2>2, <2>3, <2>4 DEF FramesInv
  <1> QED
    BY <1>1, <1>2, <1>4 DEF top

\* The innermost frame is typed.
LEMMA TopFrame ==
  ASSUME TypeOK, stack # <<>>
  PROVE  /\ top \in Frame /\ top.pd \in PDs /\ top.curr \in Nat /\ top.next \in Nat
         /\ \A f \in Frame : Append(Front(stack), f) \in Seq(Frame)
  BY Types, StackFront, StackReplace, FrameFields DEF top

\* One visit of resspc_component_sweep.
LEMMA SweepSpaceTypes ==
  ASSUME TypeOK, SweepSpace
  PROVE  TypeOK'
  <1> DEFINE c == top.curr
             f == Advanced(top, spaces', 0)
  <1>1. /\ stack # <<>> /\ stack' = Append(Front(stack), f) /\ UNCHANGED <<survivors, resent>>
    BY DEF SweepSpace, history
  <1>2. /\ UNCHANGED <<n_spaces, manager, map_spaces, graph, pds, pd_holds, linked_registry,
                       deleting, gave_up>>
        /\ spaces' \subseteq Spaces
        /\ space_to_delete' \subseteq Spaces /\ cleanup_policy' \subseteq Spaces
        /\ deleting \subseteq to_delete' /\ to_delete' \subseteq PDs
        /\ hold_registry' \in [PDs -> SUBSET Holdable] /\ rde' \in [PDs -> SUBSET Spaces]
        /\ deletion_depth' \in [PDs -> Nat] /\ space_depth' \in [Spaces -> Nat]
        /\ freed_read' \in BOOLEAN
        /\ work' \subseteq [action : {"FREE", "DESTROY"}, pd : PDs, space : Spaces, client : Nat]
    <2>1. CASE c \in space_to_delete
      <3>1. c \in Spaces /\ DeleteSpace(c, FALSE)
        BY <2>1 DEF TypeOK, SweepSpace
      <3> QED
        BY <3>1, DeleteSpaceTypes, Types
    <2>2. CASE c \notin space_to_delete
      <3>1. UNCHANGED <<spaces, n_spaces, manager, map_spaces, graph, pds, linked_registry,
                        to_delete, deleting, deletion_depth, space_to_delete, cleanup_policy,
                        space_depth, hold_registry, pd_holds, rde, work, freed_read, gave_up>>
        BY <2>2 DEF SweepSpace, graphVars, flagVars, spcVars, pdVars
      <3> QED
        BY <3>1 DEF TypeOK
    <2> QED
      BY <2>1, <2>2
  <1>3. f \in Frame
    <2>1. top \in Frame /\ top.next \in Nat /\ spaces' \subseteq Nat \ {0}
      BY <1>1, <1>2, TopFrame, Numbers
    <2>2. After(spaces', top.next) \in Nat
      BY <2>1, NextEntry
    <2> DEFINE n == IF top.next = 0 THEN 0
                    ELSE IF top.next \in spaces' THEN After(spaces', top.next) ELSE 0
    <2>3. f = [top EXCEPT !.curr = top.next, !.next = n]
      BY DEF Advanced
    <2>4. n \in Nat
      BY <2>2
    <2> HIDE DEF n, f
    <2> QED
      BY <2>1, <2>3, <2>4 DEF Frame
  <1> HIDE DEF f
  <1>4. stack' \in Seq(Frame)
    BY <1>1, <1>3, TopFrame
  <1> QED
    BY <1>1, <1>2, <1>4 DEF TypeOK

LEMMA SweepSpaceInv ==
  ASSUME CleanupInv, SweepSpace
  PROVE  CleanupInv'
  <1> DEFINE c == top.curr
             f == Advanced(top, spaces', 0)
  <1>1. /\ stack # <<>> /\ top.phase = "spaces" /\ c # 0
        /\ stack' = Append(Front(stack), f)
    BY DEF SweepSpace
  <1>2. /\ TypeOK /\ top \in Frame
        /\ spaces \subseteq Nat \ {0} /\ spaces \subseteq Spaces
    BY <1>1, Types, StackFront DEF CleanupInv, top
  <1>3. top.pd \in PDs /\ c \in Nat /\ top.next \in Nat
    BY <1>2, FrameFields
  <1>4. /\ c \in spaces /\ top.next = After(spaces, c)
        /\ \A s \in spaces : manager[s] = top.pd => s \in space_to_delete /\ c <= s
    BY <1>1 DEF CleanupInv, SpacesInv
  <1>5. /\ top.next \in spaces \cup {0}
        /\ top.next # 0 => c < top.next
        /\ \A y \in spaces : c < y => top.next # 0 /\ top.next <= y
    <2>1. PICK x \in Nat : x = c
      BY <1>3
    <2>2. /\ After(spaces, x) \in spaces \cup {0}
          /\ After(spaces, x) # 0 => x < After(spaces, x)
          /\ \A y \in spaces : x < y => After(spaces, x) # 0 /\ After(spaces, x) <= y
      BY <1>2, NextEntry
    <2> QED
      BY <1>4, <2>1, <2>2
  <1>6. /\ spaces' \subseteq spaces /\ spaces \ {c} \subseteq spaces'
        /\ c \in spaces' => c \notin space_to_delete
        /\ \A y \in Nat : c <= y => After(spaces', y) = After(spaces, y)
        /\ UNCHANGED <<n_spaces, manager, map_spaces, graph, pds, linked_registry, deleting>>
        /\ space_to_delete \ {c} \subseteq space_to_delete'
        /\ cleanup_policy' \subseteq space_to_delete' /\ to_delete \subseteq to_delete'
        /\ \A p \in PDs, t \in Spaces : t # c /\ ResSpc(t) \in hold_registry[p] =>
             ResSpc(t) \in hold_registry'[p]
        /\ c \in spaces' => hold_registry' = hold_registry
        /\ RefsInv'
    <2>1. CASE c \in space_to_delete
      <3>1. DeleteSpace(c, FALSE)
        BY <2>1 DEF SweepSpace
      <3>2. spaces' = spaces \ {c}
        BY <1>4, <3>1, DeleteSpaceEffect
      <3>3. \A y \in Nat : c <= y => After(spaces', y) = After(spaces, y)
        BY <1>2, <1>3, <3>2, NextEntryKept
      <3>4. RefsInv'
        BY <1>4, <3>1, DeleteSpaceRefs
      <3>5. /\ UNCHANGED <<n_spaces, manager, map_spaces, graph, pds, linked_registry, deleting>>
            /\ space_to_delete \ {c} \subseteq space_to_delete'
            /\ cleanup_policy' \subseteq space_to_delete' /\ to_delete \subseteq to_delete'
            /\ \A p \in PDs, t \in Spaces : t # c /\ ResSpc(t) \in hold_registry[p] =>
                 ResSpc(t) \in hold_registry'[p]
        BY <1>4, <3>1, DeleteSpaceEffect
      <3> QED
        BY <3>2, <3>3, <3>4, <3>5
    <2>2. CASE c \notin space_to_delete
      <3>1. UNCHANGED <<spaces, n_spaces, manager, map_spaces, graph, pds, linked_registry,
                        to_delete, deleting, space_to_delete, cleanup_policy,
                        hold_registry, rde>>
        BY <2>2 DEF SweepSpace, graphVars, flagVars, spcVars, pdVars
      <3>2. RefsInv'
        BY <3>1 DEF CleanupInv, RefsInv
      <3>3. cleanup_policy \subseteq space_to_delete
        BY DEF CleanupInv, MarkedInv
      <3> QED
        BY <2>2, <3>1, <3>2, <3>3
    <2> QED
      BY <2>1, <2>2
  <1>7. /\ f \in Frame /\ f.pd = top.pd /\ f.phase = "spaces" /\ f.curr = top.next
        /\ f.curr \in spaces' \cup {0}
        /\ f.curr # 0 => f.next = After(spaces', f.curr)
    <2>1. top.next \in spaces' \cup {0} /\ spaces' \subseteq Nat \ {0}
      BY <1>2, <1>3, <1>5, <1>6
    <2>2. After(spaces', top.next) \in Nat
      BY <1>3, <2>1, NextEntry
    <2> DEFINE n == IF top.next = 0 THEN 0
                    ELSE IF top.next \in spaces' THEN After(spaces', top.next) ELSE 0
    <2>3. f = [top EXCEPT !.curr = top.next, !.next = n]
      BY DEF Advanced
    <2>4. n \in Nat /\ (top.next # 0 => n = After(spaces', top.next))
      BY <2>1, <2>2
    <2> HIDE DEF n, f
    <2> QED
      BY <1>1, <1>2, <1>3, <2>1, <2>3, <2>4 DEF Frame
  <1> HIDE DEF f
  <1>8. /\ stack' \in Seq(Frame) /\ stack' # <<>> /\ top' = f
        /\ Len(stack) \in Nat \ {0} /\ Len(stack') = Len(stack)
        /\ \A i \in 1 .. Len(stack) : i < Len(stack) => stack'[i] = stack[i]
        /\ stack'[Len(stack)] = f
        /\ FramesInv'
    BY <1>1, <1>6, <1>7, FrameMoves
  <1>9. TypeOK'
    BY <1>2, SweepSpaceTypes
  <1>10. SpacesInv'
    <2>1. ASSUME NEW s \in spaces'
          PROVE  /\ manager[s] \in pds
                 /\ manager[s] \notin deleting => ResSpc(s) \in hold_registry'[manager[s]]
      <3>1. s \in spaces /\ s \in Spaces /\ manager[s] \in PDs
        BY <1>2, <1>6, <2>1, Types
      <3>2. manager[s] \in pds
        BY <3>1 DEF CleanupInv, SpacesInv
      <3>3. manager[s] \notin deleting => ResSpc(s) \in hold_registry[manager[s]]
        BY <3>1 DEF CleanupInv, SpacesInv
      <3> QED
        BY <2>1, <3>1, <3>2, <3>3, <1>6
    <2>2. ASSUME NEW i \in 1 .. Len(stack'), stack'[i].phase = "pds", NEW s \in spaces'
          PROVE  manager[s] # stack'[i].pd
      <3>1. i \in 1 .. Len(stack) /\ (i < Len(stack) \/ i = Len(stack))
        BY <1>8
      <3>2. i < Len(stack) /\ stack'[i] = stack[i]
        BY <1>7, <1>8, <2>2, <3>1
      <3> QED
        BY <3>1, <3>2, <2>2, <1>6 DEF CleanupInv, SpacesInv
    <2>3. ASSUME NEW s \in spaces', manager[s] = top.pd
          PROVE  s \in space_to_delete' /\ f.curr # 0 /\ f.curr <= s
      <3>1. s \in spaces /\ s \in Nat /\ s \in space_to_delete /\ c <= s
        BY <1>2, <1>4, <1>6, <2>3
      <3>2. s # c
        BY <1>6, <2>3, <3>1
      <3>3. c < s
        BY <1>3, <3>1, <3>2
      <3> QED
        BY <1>5, <1>6, <1>7, <3>1, <3>2, <3>3
    <2> QED
      BY <1>6, <1>7, <1>8, <2>1, <2>2, <2>3 DEF SpacesInv
  <1>11. MarkedInv'
    BY <1>6, <1>7, <1>8 DEF CleanupInv, MarkedInv, Idle
  <1> QED
    BY <1>6, <1>8, <1>9, <1>10, <1>11 DEF CleanupInv

\* resspc_component_sweep is done: no space of the PD is left, and the sweep of
\* the PDs starts at the first of them.
LEMMA StartPdSweepTypes ==
  ASSUME TypeOK, StartPdSweep
  PROVE  TypeOK'
  <1> DEFINE first == First(pds)
             f == [top EXCEPT !.phase = "pds", !.curr = first, !.next = After(pds, first)]
  <1>1. /\ stack # <<>> /\ top.phase = "spaces" /\ top.curr = 0
        /\ stack' = Append(Front(stack), f)
        /\ UNCHANGED <<n_spaces, manager, map_spaces, graph, to_delete, deleting, deletion_depth,
                       spaces, space_to_delete, cleanup_policy, space_depth, pds,
                       hold_registry, pd_holds, rde, linked_registry, work, freed_read,
                       survivors, resent, gave_up>>
    BY DEF StartPdSweep, SweepStartsAt, graphVars, flagVars, spcVars, pdVars, history
  <1>2. top \in Frame /\ pds \subseteq Nat \ {0}
    BY <1>1, Types, TopFrame
  <1>3. /\ first \in pds \cup {0} /\ first \in Nat
        /\ \A p \in pds : first # 0 /\ first <= p
    BY <1>2, FirstEntry
  <1>4. After(pds, first) \in Nat
    BY <1>2, <1>3, NextEntry
  <1>5. /\ f \in Frame /\ f.pd = top.pd /\ f.phase = "pds" /\ f.curr = first
        /\ f.next = After(pds, first)
    BY <1>2, <1>3, <1>4 DEF Frame
  <1> HIDE DEF f
  <1>6. stack' \in Seq(Frame)
    BY <1>1, <1>5, TopFrame
  <1> QED
    BY <1>1, <1>6 DEF TypeOK

LEMMA StartPdSweepInv ==
  ASSUME CleanupInv, StartPdSweep
  PROVE  CleanupInv'
  <1> DEFINE first == First(pds)
             f == [top EXCEPT !.phase = "pds", !.curr = first, !.next = After(pds, first)]
  <1>1. /\ stack # <<>> /\ top.phase = "spaces" /\ top.curr = 0
        /\ stack' = Append(Front(stack), f)
        /\ UNCHANGED <<n_spaces, manager, map_spaces, graph, to_delete, deleting, deletion_depth,
                       spaces, space_to_delete, cleanup_policy, space_depth, pds,
                       hold_registry, pd_holds, rde, linked_registry, work, freed_read,
                       survivors, resent, gave_up>>
    BY DEF StartPdSweep, SweepStartsAt, graphVars, flagVars, spcVars, pdVars, history
  <1>2. TypeOK /\ top \in Frame /\ pds \subseteq Nat \ {0}
    BY <1>1, Types, StackFront DEF CleanupInv, top
  <1>3. /\ first \in pds \cup {0} /\ first \in Nat
        /\ \A p \in pds : first # 0 /\ first <= p
    BY <1>2, FirstEntry
  <1>4. After(pds, first) \in Nat
    BY <1>2, <1>3, NextEntry
  <1>5. /\ f \in Frame /\ f.pd = top.pd /\ f.phase = "pds" /\ f.curr = first
        /\ f.next = After(pds, first)
    BY <1>2, <1>3, <1>4 DEF Frame
  <1> HIDE DEF f
  <1>6. /\ stack' \in Seq(Frame) /\ stack' # <<>> /\ top' = f
        /\ Len(stack) \in Nat \ {0} /\ Len(stack') = Len(stack)
        /\ \A i \in 1 .. Len(stack) : i < Len(stack) => stack'[i] = stack[i]
        /\ stack'[Len(stack)] = f /\ top = stack[Len(stack)]
        /\ FramesInv'
    BY <1>1, <1>5, FrameMoves
  <1>7. TypeOK'
    BY <1>2, StartPdSweepTypes
  <1>8. SpacesInv'
    <2>1. \A s \in spaces : manager[s] # top.pd
      BY <1>1 DEF CleanupInv, SpacesInv
    <2>2. ASSUME NEW i \in 1 .. Len(stack), stack'[i].phase = "pds", NEW s \in spaces
          PROVE  manager[s] # stack'[i].pd
      <3>1. CASE i < Len(stack)
        BY <2>2, <3>1, <1>6 DEF CleanupInv, SpacesInv
      <3>2. CASE i = Len(stack)
        BY <3>2, <2>1, <1>5, <1>6
      <3> QED
        BY <3>1, <3>2, <1>6
    <2>3. /\ \A s \in spaces : manager[s] \in pds
          /\ \A s \in spaces : manager[s] \notin deleting =>
               ResSpc(s) \in hold_registry[manager[s]]
      BY DEF CleanupInv, SpacesInv
    <2>4. top'.phase # "spaces"
      BY <1>5, <1>6
    <2> QED
      BY <1>1, <1>6, <2>2, <2>3, <2>4 DEF SpacesInv
  <1>9. MarkedInv'
    <2>1. /\ PDs \ pds \subseteq deleting /\ cleanup_policy \subseteq space_to_delete
      BY DEF CleanupInv, MarkedInv
    <2>2. \/ to_delete \cap pds \subseteq deleting
          \/ /\ f.curr \in pds /\ f.next = After(pds, f.curr)
             /\ \A p \in (to_delete \cap pds) \ deleting : f.curr <= p
      BY <1>3, <1>5
    <2> QED
      BY <1>1, <1>6, <2>1, <2>2 DEF MarkedInv, Idle
  <1>10. RefsInv'
    BY <1>1 DEF CleanupInv, RefsInv
  <1> QED
    BY <1>6, <1>7, <1>8, <1>9, <1>10 DEF CleanupInv

\* One visit of pd_component_sweep that finds nothing to do.
LEMMA SkipPdTypes ==
  ASSUME TypeOK, SkipPd
  PROVE  TypeOK'
  <1>1. /\ stack # <<>> /\ top.phase = "pds" /\ top.curr \notin to_delete \ deleting
        /\ freed_read' \in BOOLEAN
        /\ UNCHANGED <<n_spaces, manager, map_spaces, graph, to_delete, deleting, deletion_depth,
                       spaces, space_to_delete, cleanup_policy, space_depth, pds,
                       hold_registry, pd_holds, rde, linked_registry, work, survivors, resent,
                       gave_up>>
    BY DEF SkipPd, graphVars, flagVars, spcVars, pdVars, history
  <1>2. PICK stale \in StaleNext(top, pds) :
          stack' = Append(Front(stack), Advanced(top, pds, stale))
    BY DEF SkipPd
  <1>3. top \in Frame /\ pds \subseteq Nat \ {0} /\ pds \subseteq PDs
    BY <1>1, Types, TopFrame
  <1> DEFINE f == Advanced(top, pds, stale)
  <1>4. /\ f \in Frame /\ f.pd = top.pd /\ f.phase = top.phase /\ f.curr = top.next
        /\ top.next \in pds => f.next = After(pds, top.next)
    BY <1>3, PdFrameMoves
  <1> HIDE DEF f
  <1>5. stack' \in Seq(Frame)
    BY <1>1, <1>2, <1>4, TopFrame DEF f
  <1> QED
    BY <1>1, <1>5 DEF TypeOK

LEMMA SkipPdInv ==
  ASSUME CleanupInv, SkipPd
  PROVE  CleanupInv'
  <1>1. /\ stack # <<>> /\ top.phase = "pds" /\ top.curr \notin to_delete \ deleting
        /\ freed_read' \in BOOLEAN
        /\ UNCHANGED <<n_spaces, manager, map_spaces, graph, to_delete, deleting, deletion_depth,
                       spaces, space_to_delete, cleanup_policy, space_depth, pds,
                       hold_registry, pd_holds, rde, linked_registry, work, survivors, resent,
                       gave_up>>
    BY DEF SkipPd, graphVars, flagVars, spcVars, pdVars, history
  <1>2. PICK stale \in StaleNext(top, pds) :
          stack' = Append(Front(stack), Advanced(top, pds, stale))
    BY DEF SkipPd
  <1>3. TypeOK /\ top \in Frame /\ pds \subseteq Nat \ {0} /\ pds \subseteq PDs
    BY <1>1, Types, StackFront DEF CleanupInv, top
  <1> DEFINE f == Advanced(top, pds, stale)
  <1>4. /\ f \in Frame /\ f.pd = top.pd /\ f.phase = top.phase /\ f.curr = top.next
        /\ top.next \in pds => f.next = After(pds, top.next)
    BY <1>3, PdFrameMoves
  <1> HIDE DEF f
  <1>5. /\ stack' \in Seq(Frame) /\ stack' # <<>> /\ top' = f
        /\ Len(stack) \in Nat \ {0} /\ Len(stack') = Len(stack)
        /\ \A i \in 1 .. Len(stack) : i < Len(stack) => stack'[i] = stack[i]
        /\ stack'[Len(stack)] = f /\ top = stack[Len(stack)]
        /\ FramesInv'
    BY <1>1, <1>2, <1>4, FrameMoves DEF f
  <1>6. TypeOK'
    BY <1>3, SkipPdTypes
  <1>7. SpacesInv'
    <2>1. ASSUME NEW i \in 1 .. Len(stack), stack'[i].phase = "pds", NEW s \in spaces
          PROVE  manager[s] # stack'[i].pd
      <3>1. CASE i < Len(stack)
        BY <2>1, <3>1, <1>5 DEF CleanupInv, SpacesInv
      <3>2. CASE i = Len(stack)
        BY <3>2, <1>1, <1>4, <1>5 DEF CleanupInv, SpacesInv
      <3> QED
        BY <3>1, <3>2, <1>5
    <2>2. /\ \A s \in spaces : manager[s] \in pds
          /\ \A s \in spaces : manager[s] \notin deleting =>
               ResSpc(s) \in hold_registry[manager[s]]
      BY DEF CleanupInv, SpacesInv
    <2>3. top'.phase # "spaces"
      BY <1>1, <1>4, <1>5
    <2> QED
      BY <1>1, <1>5, <2>1, <2>2, <2>3 DEF SpacesInv
  <1>8. MarkedInv'
    <2>1. PDs \ pds \subseteq deleting /\ cleanup_policy \subseteq space_to_delete
      BY DEF CleanupInv, MarkedInv
    <2>2. \/ to_delete \cap pds \subseteq deleting
          \/ /\ f.curr \in pds /\ f.next = After(pds, f.curr)
             /\ \A p \in (to_delete \cap pds) \ deleting : f.curr <= p
      <3>1. SUFFICES ASSUME NEW q \in (to_delete \cap pds) \ deleting
                     PROVE  /\ f.curr \in pds /\ f.next = After(pds, f.curr)
                            /\ \A p \in (to_delete \cap pds) \ deleting : f.curr <= p
        OBVIOUS
      <3>2. /\ top.curr \in pds /\ top.next = After(pds, top.curr)
            /\ \A p \in (to_delete \cap pds) \ deleting : top.curr <= p
        BY <1>1 DEF CleanupInv, MarkedInv
      <3>3. PICK x \in pds : x = top.curr
        BY <3>2
      <3>4. /\ After(pds, x) \in pds \cup {0}
            /\ \A y \in pds : x < y => After(pds, x) # 0 /\ After(pds, x) <= y
        BY <1>3, NextEntry
      <3>5. \A p \in (to_delete \cap pds) \ deleting : x < p
        BY <1>1, <1>3, <3>2, <3>3
      <3>6. \A p \in (to_delete \cap pds) \ deleting : top.next # 0 /\ top.next <= p
        BY <3>2, <3>3, <3>4, <3>5
      <3>7. top.next \in pds
        BY <3>2, <3>3, <3>4, <3>6
      <3> QED
        BY <1>4, <3>6, <3>7
    <2> QED
      BY <1>1, <1>5, <2>1, <2>2 DEF MarkedInv, Idle
  <1>9. RefsInv'
    BY <1>1 DEF CleanupInv, RefsInv
  <1> QED
    BY <1>5, <1>6, <1>7, <1>8, <1>9 DEF CleanupInv

\* What is left of the stack when pd_destroy returns: the same PDs, all of them
\* in the sweep of the PDs.
LEMMA LeaveStack ==
  ASSUME CleanupInv, LeaveDestroy
  PROVE  /\ stack \in Seq(Frame) /\ stack # <<>> /\ Len(stack) \in Nat \ {0}
         /\ stack' \in Seq(Frame) /\ Len(stack') = Len(stack) - 1
         /\ \A i \in 1 .. Len(stack') :
              stack'[i].pd = stack[i].pd /\ stack'[i].phase = "pds"
         /\ freed_read' \in BOOLEAN
  <1> DEFINE frames == Front(stack)
  <1>1. /\ TypeOK /\ stack # <<>> /\ stack \in Seq(Frame) /\ pds \subseteq PDs
        /\ pds' = pds \ {top.pd}
    BY Types DEF CleanupInv, LeaveDestroy, Unregister
  <1>2. /\ frames \in Seq(Frame) /\ Len(stack) \in Nat \ {0}
        /\ Len(frames) = Len(stack) - 1
        /\ \A i \in 1 .. Len(stack) - 1 : frames[i] = stack[i]
    BY <1>1, StackFront
  <1>3. \A i \in 1 .. Len(stack) : i < Len(stack) => stack[i].phase = "pds"
    BY DEF CleanupInv, FramesInv
  <1>4. \A i \in 1 .. Len(frames) : frames[i] = stack[i] /\ frames[i].phase = "pds"
    BY <1>2, <1>3
  <1>5. CASE frames = <<>>
    <2>1. stack' = <<>> /\ freed_read' = freed_read
      BY <1>5 DEF LeaveDestroy, Unregister
    <2>2. Len(stack') = Len(frames) /\ stack' \in Seq(Frame)
      BY <1>2, <1>5, <2>1
    <2>3. freed_read' \in BOOLEAN
      BY <1>1, <2>1 DEF TypeOK
    <2>4. 1 .. Len(stack') = {}
      BY <2>1
    <2> QED
      BY <1>1, <1>2, <2>2, <2>3, <2>4
  <1>6. CASE frames # <<>>
    <2>1. PICK stale \in StaleNext(Last(frames), pds') :
            stack' = Append(Front(frames), Advanced(Last(frames), pds', stale))
      BY <1>6 DEF LeaveDestroy, Unregister
    <2>2. freed_read' \in BOOLEAN
      BY <1>6 DEF LeaveDestroy, Unregister
    <2>3. Last(frames) \in Frame /\ Len(frames) \in Nat \ {0}
      BY <1>2, <1>6, StackFront
    <2>4. Last(frames) = frames[Len(frames)]
      BY DEF Last
    <2> DEFINE g == Advanced(Last(frames), pds', stale)
    <2>5. pds' \subseteq PDs
      BY <1>1
    <2>6. g \in Frame /\ g.pd = Last(frames).pd /\ g.phase = Last(frames).phase
      BY <2>1, <2>3, <2>5, PdFrameMoves
    <2> HIDE DEF g
    <2>7. /\ stack' \in Seq(Frame) /\ Len(stack') = Len(frames)
          /\ \A i \in 1 .. Len(frames) : i < Len(frames) => stack'[i] = frames[i]
          /\ stack'[Len(frames)] = g
      BY <1>2, <1>6, <2>1, <2>6, StackReplace DEF g
    <2>8. ASSUME NEW i \in 1 .. Len(frames)
          PROVE  stack'[i].pd = stack[i].pd /\ stack'[i].phase = "pds"
      <3>1. i < Len(frames) \/ i = Len(frames)
        BY <2>3
      <3> QED
        BY <3>1, <1>4, <2>4, <2>6, <2>7
    <2> QED
      BY <1>1, <1>2, <2>2, <2>7, <2>8
  <1> QED
    BY <1>5, <1>6

\* pd_destroy returns: nobody is marked, nothing refers to the PD.
LEMMA LeaveDestroyTypes ==
  ASSUME TypeOK, LeaveDestroy
  PROVE  TypeOK'
  <1>1. /\ stack # <<>> /\ Unregister(top.pd, Front(stack))
        /\ pd_holds' = [q \in PDs |-> HoldsAfter(q, top.pd)]
        /\ work' \subseteq work
        /\ UNCHANGED <<n_spaces, manager, map_spaces, graph, to_delete, deleting, deletion_depth,
                       spaces, space_to_delete, cleanup_policy, space_depth, hold_registry,
                       rde, linked_registry, survivors, resent, gave_up>>
    BY DEF LeaveDestroy, graphVars, flagVars, spcVars, history
  <1>2. pds' \subseteq PDs /\ stack' \in Seq(Frame) /\ freed_read' \in BOOLEAN
    BY <1>1, Types, StackFront, UnregisterTypes
  <1>3. pd_holds' \in [PDs -> [PDs -> Nat]]
    <2>1. top.pd \in PDs /\ pd_holds \in [PDs -> [PDs -> Nat]]
      BY <1>1, TopFrame DEF TypeOK
    <2>2. \A q \in PDs : HoldsAfter(q, top.pd) \in [PDs -> Nat]
      BY <2>1 DEF HoldsAfter
    <2> QED
      BY <1>1, <2>2
  <1> QED
    BY <1>1, <1>2, <1>3 DEF TypeOK

LEMMA LeaveDestroyInv ==
  ASSUME CleanupInv, LeaveDestroy
  PROVE  CleanupInv'
  <1> DEFINE p == top.pd
  <1>1. /\ top.phase = "pds" /\ top.curr = 0
        /\ pds' = pds \ {p}
        /\ UNCHANGED <<n_spaces, manager, to_delete, deleting, spaces, space_to_delete,
                       cleanup_policy, hold_registry, rde>>
    BY DEF LeaveDestroy, Unregister, graphVars, flagVars, spcVars
  <1>2. TypeOK /\ pds \subseteq Nat \ {0} /\ pds \subseteq PDs
    BY Types DEF CleanupInv
  <1>3. /\ stack # <<>> /\ Len(stack) \in Nat \ {0}
        /\ stack' \in Seq(Frame) /\ Len(stack') = Len(stack) - 1
        /\ \A i \in 1 .. Len(stack') :
             stack'[i].pd = stack[i].pd /\ stack'[i].phase = "pds"
        /\ freed_read' \in BOOLEAN
    BY LeaveStack
  <1>4. /\ p = stack[Len(stack)].pd /\ Len(stack) \in 1 .. Len(stack)
        /\ stack[Len(stack)].phase = "pds"
    BY <1>1, <1>3 DEF top, Last
  <1>5. 1 .. Len(stack') \subseteq 1 .. Len(stack) /\ \A i \in 1 .. Len(stack') : i # Len(stack)
    BY <1>3
  <1>6. p \in pds \cap deleting /\ p \in PDs
    BY <1>2, <1>4 DEF CleanupInv, FramesInv
  <1>7. to_delete \cap pds \subseteq deleting
    BY <1>1, <1>2, <1>3 DEF CleanupInv, MarkedInv
  <1>8. \A s \in spaces : manager[s] # p
    BY <1>4 DEF CleanupInv, SpacesInv
  <1>10. TypeOK'
    BY <1>2, LeaveDestroyTypes
  <1>11. FramesInv'
    <2>1. ASSUME NEW i \in 1 .. Len(stack')
          PROVE  stack'[i].pd \in pds' \cap deleting'
      <3>1. i \in 1 .. Len(stack) /\ i # Len(stack)
        BY <1>5
      <3>2. stack[i].pd \in pds \cap deleting /\ stack[i].pd # p
        BY <3>1, <1>4 DEF CleanupInv, FramesInv
      <3> QED
        BY <3>2, <1>1, <1>3
    <2>2. ASSUME NEW i \in 1 .. Len(stack'), NEW j \in 1 .. Len(stack'),
                 stack'[i].pd = stack'[j].pd
          PROVE  i = j
      BY <2>2, <1>3, <1>5 DEF CleanupInv, FramesInv
    <2>3. ASSUME NEW q \in pds' \cap deleting'
          PROVE  \E i \in 1 .. Len(stack') : stack'[i].pd = q
      <3>1. q \in pds \cap deleting /\ q # p
        BY <1>1
      <3>2. PICK i \in 1 .. Len(stack) : stack[i].pd = q
        BY <3>1 DEF CleanupInv, FramesInv
      <3>3. i # Len(stack)
        BY <3>1, <3>2, <1>4
      <3>4. i \in 1 .. Len(stack')
        BY <3>3, <1>3
      <3> QED
        BY <3>2, <3>4, <1>3
    <2> QED
      BY <1>3, <2>1, <2>2, <2>3 DEF FramesInv
  <1>12. stack' # <<>> => top'.phase = "pds"
    <2>1. SUFFICES ASSUME stack' # <<>> PROVE top'.phase = "pds"
      OBVIOUS
    <2>2. Len(stack') \in 1 .. Len(stack')
      BY <1>3, <2>1, StackFront
    <2> QED
      BY <2>2, <1>3 DEF top, Last
  <1>13. SpacesInv'
    <2>1. \A s \in spaces : manager[s] \in pds'
      BY <1>1, <1>8 DEF CleanupInv, SpacesInv
    <2>2. ASSUME NEW s \in spaces, manager[s] \notin deleting
          PROVE  ResSpc(s) \in hold_registry'[manager[s]]
      BY <1>1, <2>2 DEF CleanupInv, SpacesInv
    <2>3. ASSUME NEW i \in 1 .. Len(stack'), NEW s \in spaces
          PROVE  manager[s] # stack'[i].pd
      <3>1. i \in 1 .. Len(stack) /\ i < Len(stack)
        BY <1>3
      <3>2. stack[i].phase = "pds" /\ stack'[i].pd = stack[i].pd
        BY <3>1, <1>3 DEF CleanupInv, FramesInv
      <3> QED
        BY <3>1, <3>2 DEF CleanupInv, SpacesInv
    <2> QED
      BY <1>1, <1>12, <2>1, <2>2, <2>3 DEF SpacesInv
  <1>14. MarkedInv'
    <2>1. PDs \ pds' \subseteq deleting' /\ cleanup_policy' \subseteq space_to_delete'
      BY <1>1, <1>6 DEF CleanupInv, MarkedInv
    <2>2. to_delete' \cap pds' \subseteq deleting'
      BY <1>1, <1>7
    <2> QED
      BY <2>1, <2>2 DEF MarkedInv
  <1>15. RefsInv'
    <2>1. \A q \in pds' \ to_delete' : q \in pds \ to_delete
      BY <1>1
    <2> QED
      BY <1>1, <2>1 DEF CleanupInv, RefsInv
  <1> QED
    BY <1>10, <1>11, <1>13, <1>14, <1>15 DEF CleanupInv

-----------------------------------------------------------------------------
(* Holds of PDs *)

\* Every step but two leaves the holds and the PD registry alone.
LEMMA HoldsKept ==
  ASSUME HoldsInv, UNCHANGED <<pds, pd_holds, resent>>, to_delete \subseteq to_delete'
  PROVE  HoldsInv'
  BY DEF HoldsInv

LEMMA SendPdHolds ==
  ASSUME TypeOK, HoldsInv, NEW p \in PDs, NEW q \in PDs, SendPd(p, q)
  PROVE  HoldsInv'
  <1>1. /\ UNCHANGED <<pds, to_delete>> /\ q \in pds
        /\ resent' = IF pd_holds[p][q] > 0 THEN resent \cup {<<p, q>>} ELSE resent
    BY DEF SendPd, UNCHANGED_cleanup, flagVars
  <1>2. \A x, y \in PDs : pd_holds'[x][y] =
          IF x = p /\ y = q THEN pd_holds[x][y] + 1 ELSE pd_holds[x][y]
    BY SendPdTypes
  <1>3. SUFFICES ASSUME NEW x \in pds \ to_delete, NEW y \in PDs, <<x, y>> \notin resent'
                 PROVE  (pd_holds'[x][y] > 0 => y \in pds) /\ pd_holds'[x][y] <= 1
    BY <1>1 DEF HoldsInv
  <1>4. x \in PDs /\ <<x, y>> \notin resent /\ pd_holds[x][y] \in Nat
    BY <1>1, <1>3, Types DEF TypeOK
  <1>5. (pd_holds[x][y] > 0 => y \in pds) /\ pd_holds[x][y] <= 1
    BY <1>4 DEF HoldsInv
  <1>6. CASE x = p /\ y = q
    <2>1. ~(pd_holds[p][q] > 0)
      BY <1>1, <1>3, <1>6
    <2> QED
      BY <1>1, <1>2, <1>4, <1>6, <2>1
  <1>7. CASE ~(x = p /\ y = q)
    BY <1>2, <1>4, <1>5, <1>7
  <1> QED
    BY <1>6, <1>7

\* A PD that is entered is marked; the others keep their holds.
LEMMA EnterDestroyHolds ==
  ASSUME TypeOK, HoldsInv, NEW p \in PDs, EnterDestroy(p, stack), resent' = resent
  PROVE  HoldsInv'
  <1>1. /\ pds' = pds /\ to_delete' = to_delete \cup Marked(p) /\ p \in Marked(p)
        /\ pd_holds' = [pd_holds EXCEPT ![p] = [q \in PDs |-> 0]]
    BY DestroySets DEF EnterDestroy, Release
  <1>2. \A x \in pds \ to_delete' : x \in pds \ to_delete /\ x \in PDs /\ x # p
    BY <1>1, Types
  <1>3. \A x \in pds \ to_delete' : pd_holds'[x] = pd_holds[x]
    BY <1>1, <1>2 DEF TypeOK
  <1> QED
    BY <1>1, <1>2, <1>3 DEF HoldsInv

\* pd_destroy returns and takes one count from the holders of its PD.
LEMMA LeaveDestroyHolds ==
  ASSUME TypeOK, HoldsInv, LeaveDestroy
  PROVE  HoldsInv'
  <1>1. PICK p \in PDs : p = top.pd
    BY TopFrame DEF LeaveDestroy
  <1>2. /\ pds' = pds \ {p} /\ UNCHANGED <<to_delete, resent>>
        /\ pd_holds' = [q \in PDs |-> HoldsAfter(q, p)]
    BY <1>1 DEF LeaveDestroy, Unregister, flagVars, history
  <1>3. SUFFICES ASSUME NEW x \in pds' \ to_delete, NEW y \in PDs, <<x, y>> \notin resent
                 PROVE  (pd_holds'[x][y] > 0 => y \in pds') /\ pd_holds'[x][y] <= 1
    BY <1>2 DEF HoldsInv
  <1>4. x \in PDs /\ x \in pds \ to_delete /\ pd_holds[x] \in [PDs -> Nat]
    BY <1>2, <1>3, Types DEF TypeOK
  <1>5. (pd_holds[x][y] > 0 => y \in pds) /\ pd_holds[x][y] <= 1 /\ pd_holds[x][y] \in Nat
    BY <1>3, <1>4 DEF HoldsInv
  <1>6. pd_holds'[x] = IF pd_holds[x][p] > 0 THEN [pd_holds[x] EXCEPT ![p] = @ - 1]
                                             ELSE pd_holds[x]
    BY <1>2, <1>4 DEF HoldsAfter
  <1>7. CASE y = p
    <2>1. pd_holds'[x][y] = 0
      BY <1>4, <1>5, <1>6, <1>7
    <2> QED
      BY <2>1
  <1>8. CASE y # p
    <2>1. pd_holds'[x][y] = pd_holds[x][y]
      BY <1>4, <1>6, <1>8
    <2> QED
      BY <1>2, <1>5, <1>8, <2>1
  <1> QED
    BY <1>7, <1>8

-----------------------------------------------------------------------------
(* The theorems *)

LEMMA InitInv ==
  ASSUME Init
  PROVE  CleanupInv /\ HoldsInv
  <1>1. stack = <<>> /\ 1 .. Len(stack) = {}
    BY DEF Init
  <1>2. TypeOK
    <2>1. manager \in [Spaces -> PDs] /\ map_spaces \in [Spaces -> Seq(Spaces)]
      BY Numbers DEF Init
    <2>2. /\ hold_registry \in [PDs -> SUBSET Holdable] /\ rde \in [PDs -> SUBSET Spaces]
          /\ linked_registry \in [PDs -> SUBSET PDs]
      BY DEF Init
    <2>3. deletion_depth \in [PDs -> Nat] /\ space_depth \in [Spaces -> Nat]
      BY DEF Init
    <2>4. n_spaces \in 0 .. NSpaces /\ graph \in 0 .. MaxGraph
      BY Numbers DEF Init
    <2>5. /\ pds \subseteq PDs /\ spaces \subseteq Spaces /\ survivors \subseteq PDs
          /\ to_delete \subseteq PDs /\ deleting \subseteq to_delete
          /\ space_to_delete \subseteq Spaces /\ cleanup_policy \subseteq Spaces
          /\ work \subseteq [action : {"FREE", "DESTROY"}, pd : PDs, space : Spaces, client : Nat]
      BY DEF Init
    <2>6. stack \in Seq(Frame)
      BY <1>1
    <2>7. freed_read \in BOOLEAN /\ gave_up \in BOOLEAN
      BY Zenon DEF Init
    <2>8. pd_holds \in [PDs -> [PDs -> Nat]] /\ resent \subseteq PDs \X PDs
      BY DEF Init
    <2> QED
      BY <2>1, <2>2, <2>3, <2>4, <2>5, <2>6, <2>7, <2>8 DEF TypeOK
  <1>3. FramesInv
    BY <1>1 DEF Init, FramesInv
  <1>4. SpacesInv
    BY <1>1 DEF Init, SpacesInv
  <1>5. MarkedInv
    BY <1>1 DEF Init, MarkedInv
  <1>6. RefsInv
    BY DEF Init, RefsInv
  <1>7. HoldsInv
    BY DEF Init, HoldsInv
  <1> QED
    BY <1>2, <1>3, <1>4, <1>5, <1>6, <1>7 DEF CleanupInv

\* Every step keeps the types, also after a destruction has given up.
LEMMA NextTypes ==
  ASSUME TypeOK, [Next]_vars
  PROVE  TypeOK'
  <1>1. CASE UNCHANGED vars
    BY <1>1 DEF TypeOK, vars, graphVars, flagVars, spcVars, pdVars, history
  <1>2. CASE Next
    <2>1. ASSUME NEW p \in PDs, NEW q \in PDs, AllocSpace(p, q) PROVE TypeOK'
      BY <2>1, AllocSpaceTypes
    <2>2. ASSUME NEW p \in PDs, NEW q \in PDs, SendPd(p, q) PROVE TypeOK'
      BY <2>2, SendPdTypes
    <2>3. ASSUME NEW p \in PDs, NEW q \in PDs, LinkChild(p, q) PROVE TypeOK'
      BY <2>3, LinkChildTypes
    <2>4. ASSUME NEW p \in PDs, NEW q \in PDs, NEW s \in Spaces, ShareRde(p, q, s)
          PROVE  TypeOK'
      BY <2>4, ShareRdeTypes
    <2>5. ASSUME NEW s \in Spaces, CreateResource(s) PROVE TypeOK'
      BY <2>5, CreateResourceTypes
    <2>6. ASSUME NEW s \in Spaces, DestroySpace(s) PROVE TypeOK'
      BY <2>6, DestroySpaceTypes
    <2>7. ASSUME NEW s \in Spaces, NEW q \in PDs, GiveResource(s, q) PROVE TypeOK'
      BY <2>7, GiveResourceTypes
    <2>8. ASSUME NEW s \in Spaces, NEW t \in Spaces, MapSpace(s, t) PROVE TypeOK'
      BY <2>8, MapSpaceTypes
    <2>9. ASSUME NEW p \in PDs, Terminate(p) PROVE TypeOK'
      BY <2>9, TerminateTypes
    <2>10. ASSUME CleanupStep PROVE TypeOK'
      BY <2>10, SweepSpaceTypes, StartPdSweepTypes, SweepPdTypes, SkipPdTypes, LeaveDestroyTypes
         DEF CleanupStep
    <2> QED
      BY <1>2, <2>1, <2>2, <2>3, <2>4, <2>5, <2>6, <2>7, <2>8, <2>9, <2>10 DEF Next
  <1> QED
    BY <1>1, <1>2

LEMMA NextInv ==
  ASSUME CleanupInv, [Next]_vars, ~gave_up'
  PROVE  CleanupInv'
  <1>1. CASE UNCHANGED vars
    <2>1. UNCHANGED <<n_spaces, manager, map_spaces, graph, to_delete, deleting, deletion_depth,
                      spaces, space_to_delete, cleanup_policy, space_depth, pds, hold_registry,
                      rde, linked_registry, work, stack, freed_read, survivors>>
      BY <1>1 DEF vars, graphVars, flagVars, spcVars, pdVars, history
    <2>2. TypeOK' /\ FramesInv'
      BY <1>1, <2>1, NextTypes DEF CleanupInv, FramesInv
    <2>3. SpacesInv' /\ MarkedInv'
      BY <2>1 DEF CleanupInv, SpacesInv, MarkedInv, Idle, top
    <2>4. RefsInv'
      BY <2>1 DEF CleanupInv, RefsInv
    <2> QED
      BY <2>2, <2>3, <2>4 DEF CleanupInv
  <1>2. CASE Next
    <2>1. ASSUME NEW p \in PDs, NEW q \in PDs, AllocSpace(p, q) PROVE CleanupInv'
      BY <2>1, AllocSpaceInv
    <2>2. ASSUME NEW p \in PDs, NEW q \in PDs, SendPd(p, q) PROVE CleanupInv'
      BY <2>2, SendPdInv
    <2>3. ASSUME NEW p \in PDs, NEW q \in PDs, LinkChild(p, q) PROVE CleanupInv'
      BY <2>3, LinkChildInv
    <2>4. ASSUME NEW p \in PDs, NEW q \in PDs, NEW s \in Spaces, ShareRde(p, q, s)
          PROVE  CleanupInv'
      BY <2>4, ShareRdeInv
    <2>5. ASSUME NEW s \in Spaces, CreateResource(s) PROVE CleanupInv'
      BY <2>5, CreateResourceInv
    <2>6. ASSUME NEW s \in Spaces, DestroySpace(s) PROVE CleanupInv'
      BY <2>6, DestroySpaceInv
    <2>7. ASSUME NEW s \in Spaces, NEW q \in PDs, GiveResource(s, q) PROVE CleanupInv'
      BY <2>7, GiveResourceInv
    <2>8. ASSUME NEW s \in Spaces, NEW t \in Spaces, MapSpace(s, t) PROVE CleanupInv'
      BY <2>8, MapSpaceInv
    <2>9. ASSUME NEW p \in PDs, Terminate(p) PROVE CleanupInv'
      BY <2>9, TerminateInv
    <2>10. ASSUME CleanupStep PROVE CleanupInv'
      BY <2>10, SweepSpaceInv, StartPdSweepInv, SweepPdInv, SkipPdInv, LeaveDestroyInv
         DEF CleanupStep
    <2> QED
      BY <1>2, <2>1, <2>2, <2>3, <2>4, <2>5, <2>6, <2>7, <2>8, <2>9, <2>10 DEF Next
  <1> QED
    BY <1>1, <1>2

\* A destruction that gave up is not forgotten.
LEMMA GaveUpStays ==
  ASSUME TypeOK, [Next]_vars, ~gave_up'
  PROVE  ~gave_up
  <1>1. CASE UNCHANGED vars
    BY <1>1 DEF vars
  <1>2. ASSUME NEW p \in PDs, NEW q \in PDs,
               AllocSpace(p, q) \/ SendPd(p, q) \/ LinkChild(p, q)
        PROVE  ~gave_up
    BY <1>2 DEF AllocSpace, SendPd, LinkChild, UNCHANGED_cleanup
  <1>3. ASSUME NEW p \in PDs, NEW q \in PDs, NEW s \in Spaces, ShareRde(p, q, s)
        PROVE  ~gave_up
    BY <1>3 DEF ShareRde, UNCHANGED_cleanup
  <1>4. ASSUME NEW s \in Spaces, CreateResource(s)
        PROVE  ~gave_up
    BY <1>4 DEF CreateResource, UNCHANGED_cleanup
  <1>5. ASSUME NEW s \in Spaces, DestroySpace(s)
        PROVE  ~gave_up
    BY <1>5, DeleteSpaceTypes DEF DestroySpace
  <1>6. ASSUME NEW s \in Spaces, NEW q \in PDs, GiveResource(s, q)
        PROVE  ~gave_up
    BY <1>6 DEF GiveResource, UNCHANGED_cleanup
  <1>7. ASSUME NEW s \in Spaces, NEW t \in Spaces, MapSpace(s, t)
        PROVE  ~gave_up
    BY <1>7 DEF MapSpace, UNCHANGED_cleanup
  <1>8. ASSUME NEW p, NEW frames, EnterDestroy(p, frames) \/ DestroyGivesUp(p, frames)
        PROVE  ~gave_up
    BY <1>8 DEF EnterDestroy, DestroyGivesUp
  <1>9. ASSUME NEW p \in PDs, Terminate(p)
        PROVE  ~gave_up
    BY <1>8, <1>9 DEF Terminate
  <1>10. CASE CleanupStep
    <2>1. CASE SweepSpace
      <3>1. CASE top.curr \in space_to_delete
        <4>1. top.curr \in Spaces /\ DeleteSpace(top.curr, FALSE)
          BY <2>1, <3>1 DEF TypeOK, SweepSpace
        <4> QED
          BY <4>1, DeleteSpaceTypes
      <3>2. CASE top.curr \notin space_to_delete
        BY <2>1, <3>2 DEF SweepSpace
      <3> QED
        BY <3>1, <3>2
    <2>2. CASE SweepPd
      BY <1>8, <2>2 DEF SweepPd
    <2>3. CASE StartPdSweep \/ SkipPd \/ LeaveDestroy
      BY <2>3 DEF StartPdSweep, SkipPd, LeaveDestroy
    <2> QED
      BY <1>10, <2>1, <2>2, <2>3 DEF CleanupStep
  <1> QED
    BY <1>1, <1>2, <1>3, <1>4, <1>5, <1>6, <1>7, <1>9, <1>10 DEF Next

\* The holds of PDs, as long as no destruction gives up.
LEMMA NextHolds ==
  ASSUME TypeOK, HoldsInv, [Next]_vars, ~gave_up'
  PROVE  HoldsInv'
  <1>1. CASE UNCHANGED vars
    BY <1>1, HoldsKept DEF vars, pdVars, flagVars, history
  <1>2. CASE \E p, q \in PDs : SendPd(p, q)
    BY <1>2, SendPdHolds
  <1>3. CASE LeaveDestroy
    BY <1>3, LeaveDestroyHolds
  <1>4. CASE SweepPd
    <2>1. EnterDestroy(top.curr, stack) /\ top.curr \in PDs /\ resent' = resent
      BY <1>4, Types DEF SweepPd, DestroyGivesUp, history
    <2> QED
      BY <2>1, EnterDestroyHolds
  <1>5. ASSUME NEW p \in PDs, Terminate(p)
        PROVE  HoldsInv'
    <2>1. EnterDestroy(p, stack) /\ resent' = resent
      BY <1>5 DEF Terminate, Idle, DestroyGivesUp
    <2> QED
      BY <2>1, EnterDestroyHolds
  <1>6. ASSUME NEW s \in Spaces, NEW dont_notify, DeleteSpace(s, dont_notify), resent' = resent
        PROVE  HoldsInv'
    BY <1>6, DeleteSpaceTypes, HoldsKept
  <1>7. CASE SweepSpace
    <2>1. resent' = resent
      BY <1>7 DEF SweepSpace, history
    <2>2. CASE top.curr \in space_to_delete
      <3>1. top.curr \in Spaces /\ DeleteSpace(top.curr, FALSE)
        BY <1>7, <2>2 DEF TypeOK, SweepSpace
      <3> QED
        BY <2>1, <3>1, <1>6
    <2>3. CASE top.curr \notin space_to_delete
      BY <1>7, <2>1, <2>3, HoldsKept DEF SweepSpace, pdVars, flagVars
    <2> QED
      BY <2>2, <2>3
  <1>8. ASSUME NEW s \in Spaces, DestroySpace(s)
        PROVE  HoldsInv'
    BY <1>6, <1>8 DEF DestroySpace, history
  <1>9. CASE StartPdSweep \/ SkipPd
    BY <1>9, HoldsKept DEF StartPdSweep, SkipPd, pdVars, flagVars, history
  <1>10. ASSUME NEW p \in PDs, NEW q \in PDs, AllocSpace(p, q) \/ LinkChild(p, q)
         PROVE  HoldsInv'
    BY <1>10, HoldsKept DEF AllocSpace, LinkChild, UNCHANGED_cleanup, flagVars, history
  <1>11. ASSUME NEW p \in PDs, NEW q \in PDs, NEW s \in Spaces, ShareRde(p, q, s)
         PROVE  HoldsInv'
    BY <1>11, HoldsKept DEF ShareRde, UNCHANGED_cleanup, flagVars
  <1>12. ASSUME NEW s \in Spaces, NEW q \in PDs, GiveResource(s, q)
         PROVE  HoldsInv'
    BY <1>12, HoldsKept DEF GiveResource, UNCHANGED_cleanup, flagVars
  <1>13. ASSUME NEW s \in Spaces, CreateResource(s)
         PROVE  HoldsInv'
    BY <1>13, HoldsKept DEF CreateResource, UNCHANGED_cleanup, flagVars
  <1>14. ASSUME NEW s \in Spaces, NEW t \in Spaces, MapSpace(s, t)
         PROVE  HoldsInv'
    BY <1>14, HoldsKept DEF MapSpace, UNCHANGED_cleanup, flagVars
  <1> QED
    BY <1>1, <1>2, <1>3, <1>4, <1>5, <1>7, <1>8, <1>9, <1>10, <1>11, <1>12, <1>13,
       <1>14 DEF Next, CleanupStep

LEMMA CleanupInvariance == Spec => []InductiveInv
  <1>1. Init => InductiveInv
    BY InitInv DEF InductiveInv, CleanupInv
  <1>2. InductiveInv /\ [Next]_vars => InductiveInv'
    <2>1. SUFFICES ASSUME InductiveInv, [Next]_vars PROVE InductiveInv'
      OBVIOUS
    <2>2. TypeOK'
      BY <2>1, NextTypes DEF InductiveInv
    <2>3. ASSUME ~gave_up' PROVE CleanupInv' /\ HoldsInv'
      <3>1. TypeOK /\ CleanupInv /\ HoldsInv
        BY <2>1, <2>3, GaveUpStays DEF InductiveInv
      <3> QED
        BY <2>1, <2>3, <3>1, NextInv, NextHolds
    <2> QED
      BY <2>2, <2>3 DEF InductiveInv
  <1> QED
    BY <1>1, <1>2, PTL DEF Spec

\* Every variable keeps its type, through any nesting of pd_destroy and also when
\* one gives up: ids stay in the registries' ranges and a PD that is being
\* destroyed is marked.
THEOREM CleanupTypeCorrect == Spec => []TypeOK
  <1>1. InductiveInv => TypeOK
    BY DEF InductiveInv
  <1> QED
    BY <1>1, CleanupInvariance, PTL

\* A PD leaves its registry only after the sweep has deleted every space that it
\* manages, unless pd_destroy gave up before: no space that
\* on_resspc_registry_delete or pd_held_resource_on_delete looks at has a manager
\* that is gone.
THEOREM SpacesManaged == Spec => []SpaceHasManager
  <1>1. InductiveInv => SpaceHasManager
    BY DEF InductiveInv, CleanupInv, SpacesInv, SpaceHasManager
  <1> QED
    BY <1>1, CleanupInvariance, PTL

\* When the outermost pd_destroy returns, the sweeps have destroyed every PD that
\* was marked, although a nested deletion changes the table that they iterate.
THEOREM NoPdLeftMarked == Spec => []NoMarkedPdLeft
  <1>1. InductiveInv => NoMarkedPdLeft
    BY IdleClean DEF InductiveInv, NoMarkedPdLeft
  <1> QED
    BY <1>1, CleanupInvariance, PTL

\* The PDs that a cleanup leaves have no RDE, resource, space or PD entry for
\* anything that pd_destroy or on_resspc_registry_delete has removed, apart from
\* the holds of PDs that pd_add_resource counted more than once.
THEOREM NothingDangles == Spec => []NoDangling
  <1>1. ASSUME CleanupInv, HoldsInv, Idle, NEW p \in pds
        PROVE  /\ rde[p] \subseteq spaces
               /\ \A s \in Spaces : {Res(s), ResSpc(s)} \cap hold_registry[p] # {} => s \in spaces
               /\ \A q \in PDs : pd_holds[p][q] > 0 => q \in pds \/ <<p, q>> \in resent
    <2>1. p \in pds \ to_delete
      BY <1>1, IdleClean
    <2>2. \A q \in PDs : pd_holds[p][q] > 0 => q \in pds \/ <<p, q>> \in resent
      BY <1>1, <2>1 DEF HoldsInv
    <2> QED
      BY <1>1, <2>1, <2>2 DEF CleanupInv, RefsInv
  <1>2. InductiveInv => NoDangling
    BY <1>1 DEF InductiveInv, NoDangling
  <1> QED
    BY <1>2, CleanupInvariance, PTL

=============================================================================
