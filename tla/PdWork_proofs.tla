---------------------------- MODULE PdWork_proofs ----------------------------
(***************************************************************************)
(* Proofs that the safety invariants of PdWork hold for any number of PDs, *)
(* any batch size and any bound on the work, whichever servers die, exit   *)
(* or give up.                                                             *)
(***************************************************************************)
EXTENDS PdWork, FiniteSetTheorems, TLAPS

\* Work is only queued for PDs that are in the registry: the lists of a PD go
\* with it, so NoLostWakeup survives the death of a signalled server.
QueuedLive == \A w \in queued : w.pd \in live

\* An entry is on a list or with a server, never both, and new ones are new:
\* the report of a batch removes it for good.
EntriesDistinct ==
  /\ queued \cap held = {}
  /\ \A w \in queued \cup held : w.id <= issued

\* The inductive invariant.  AnsweredAfterCleanup is not inductive by itself:
\* the RT decides on the counter alone, so the counter must cover the
\* outstanding work in every state, and must be zero between terminations.
IInv ==
  /\ TypeOK
  /\ MissingCoversOutstanding
  /\ QueuedLive
  /\ EntriesDistinct
  /\ NoLostWakeup
  /\ OneSendOutstanding
  /\ BlockedCallersAreOwed

-----------------------------------------------------------------------------
(* Lemmas *)

\* Removing part of a finite set takes exactly its size away.
LEMMA CardinalityOfPart ==
  ASSUME NEW T, IsFiniteSet(T), NEW S, S \subseteq T
  PROVE  /\ IsFiniteSet(S) /\ IsFiniteSet(T \ S)
         /\ Cardinality(S) \in Nat /\ Cardinality(T) \in Nat
         /\ Cardinality(S) <= Cardinality(T)
         /\ Cardinality(T \ S) = Cardinality(T) - Cardinality(S)
  <1>1. IsFiniteSet(S) /\ Cardinality(S) <= Cardinality(T)
    BY FS_Subset
  <1>2. IsFiniteSet(T \ S) /\ Cardinality(T \ S) = Cardinality(T) - Cardinality(T \cap S)
    BY FS_Difference
  <1>3. T \cap S = S
    OBVIOUS
  <1> QED
    BY <1>1, <1>2, <1>3, FS_CardinalityType

\* Every batch a request may queue is a finite set of well-formed entries.
LEMMA BatchFacts ==
  ASSUME TypeOK,
         NEW S \in SUBSET Servers, NEW A \in SUBSET Actions,
         NEW F \in SUBSET BOOLEAN, NEW b \in Batches(S, A, F)
  PROVE  /\ b \subseteq WorkEntry
         /\ IsFiniteSet(b) /\ Cardinality(b) \in Nat
         /\ \A w \in b : w.pd \in S /\ w.action \in A /\ w.is_critical \in F
         /\ \A w \in b : issued < w.id /\ w.id <= issued + Cardinality(b)
  <1> DEFINE hi == Min({issued + MaxPerRequest, MaxWork})
             E == [id : issued + 1 .. hi, pd : S, action : A, is_critical : F]
  <1>1. /\ b \in SUBSET E
        /\ IsFiniteSet(b)
        /\ {w.id : w \in b} = issued + 1 .. issued + Cardinality(b)
    BY DEF Batches
  <1>2. Cardinality(b) \in Nat /\ issued \in Nat
    BY <1>1, FS_CardinalityType DEF TypeOK
  <1>3. \A w \in b : w.id \in Nat /\ issued < w.id /\ w.id <= issued + Cardinality(b)
    BY <1>1, <1>2
  <1>4. ASSUME NEW w \in b
        PROVE  w \in WorkEntry /\ w.pd \in S /\ w.action \in A /\ w.is_critical \in F
    <2>1. w \in E
      BY <1>1
    <2> HIDE DEF hi
    <2> QED
      BY <1>3, <2>1 DEF WorkEntry
  <1> QED
    BY <1>1, <1>2, <1>3, <1>4

\* Queueing a batch of new entries keeps them distinct.
LEMMA BatchDistinct ==
  ASSUME TypeOK, EntriesDistinct,
         NEW S \in SUBSET Servers, NEW A \in SUBSET Actions,
         NEW F \in SUBSET BOOLEAN, NEW b \in Batches(S, A, F),
         queued' \subseteq queued \cup b, held' \subseteq held,
         issued' = issued + Cardinality(b)
  PROVE  EntriesDistinct'
  <1>1. /\ Cardinality(b) \in Nat
        /\ \A w \in b : w.id \in Nat /\ issued < w.id /\ w.id <= issued + Cardinality(b)
    BY BatchFacts DEF WorkEntry
  <1>2. \A w \in queued \cup held : w.id \in Nat /\ w.id <= issued
    BY DEF TypeOK, WorkEntry, EntriesDistinct
  <1>3. issued \in Nat
    BY DEF TypeOK
  <1>4. b \cap held = {}
    BY <1>1, <1>2, <1>3
  <1>5. \A w \in queued' \cup held' : w.id <= issued'
    BY <1>1, <1>2, <1>3
  <1> QED
    BY <1>4, <1>5 DEF EntriesDistinct

\* The outstanding entries are finitely many.
LEMMA OutstandingFinite ==
  ASSUME TypeOK
  PROVE  IsFiniteSet(Outstanding) /\ Cardinality(Outstanding) \in Nat
  <1>1. IsFiniteSet(queued \cup held)
    BY FS_Union DEF TypeOK
  <1>2. Outstanding \subseteq queued \cup held
    BY DEF Outstanding, Critical, OfKind
  <1> QED
    BY <1>1, <1>2, FS_Subset, FS_CardinalityType

\* If no outstanding entry is added, a counter that is left alone still covers.
LEMMA CoverMonotone ==
  ASSUME TypeOK, MissingCoversOutstanding, Outstanding' \subseteq Outstanding,
         UNCHANGED <<pending_termination, pd_termination_n_missing>>
  PROVE  MissingCoversOutstanding'
  <1>1. Cardinality(Outstanding') <= Cardinality(Outstanding)
        /\ Cardinality(Outstanding') \in Nat /\ Cardinality(Outstanding) \in Nat
    BY OutstandingFinite, CardinalityOfPart
  <1> QED
    BY <1>1 DEF MissingCoversOutstanding, TypeOK

-----------------------------------------------------------------------------
(* The destruction of PDs, common to terminate and exit *)

\* Destroying PDs keeps the lists well formed, their owners live and signalled.
LEMMA DestroyKeepsLists ==
  ASSUME IInv, NEW killed, NEW F \in SUBSET BOOLEAN,
         NEW b \in Batches((live \ killed) \cap Servers, Cleanup, F),
         DestroyPds(killed, b)
  PROVE  /\ live' \subseteq PDs /\ queued' \subseteq WorkEntry /\ held' \subseteq WorkEntry
         /\ IsFiniteSet(queued') /\ IsFiniteSet(held')
         /\ issued' \in Nat /\ signalled' \subseteq Servers /\ draining' \subseteq Servers
         /\ model_extraction_n_missing' \in Int /\ stray' \subseteq {"SEND", "EXTRACT"}
         /\ QueuedLive' /\ EntriesDistinct' /\ NoLostWakeup' /\ OneSendOutstanding'
         /\ Outstanding' = Critical(b) \cup
              {w \in Outstanding : w.pd \notin killed}
         /\ Critical(OfKind(Dropped(killed), Cleanup)) \subseteq
              {w \in Outstanding : w.pd \in killed}
  <1> DEFINE S == (live \ killed) \cap Servers
             D == Dropped(killed)
  <1>1. TypeOK /\ QueuedLive /\ EntriesDistinct /\ NoLostWakeup /\ OneSendOutstanding
    BY DEF IInv
  <1>2. /\ b \subseteq WorkEntry /\ IsFiniteSet(b) /\ Cardinality(b) \in Nat
        /\ \A w \in b : w.pd \in S /\ w.action \in Cleanup
    BY <1>1, BatchFacts DEF Cleanup, Actions
  <1>3. /\ live' = live \ killed
        /\ held' = {w \in held : w.pd \notin killed}
        /\ draining' = draining \ killed
        /\ queued' = (queued \ D) \cup b
        /\ issued' = issued + Cardinality(b)
        /\ signalled' = (signalled \cup {w.pd : w \in b}) \cap live'
        /\ model_extraction_n_missing' = model_extraction_n_missing -
             Cardinality(Critical(OfKind(D, {"EXTRACT"})))
        /\ pending_send_resource' = pending_send_resource
        /\ stray' = stray
    BY DEF DestroyPds, Queue, sendVars
  <1>4. D = {w \in queued : w.pd \in killed}
    BY DEF Dropped
  <1> HIDE DEF D, S
  <1>5. IsFiniteSet(queued') /\ IsFiniteSet(held')
    <2>1. IsFiniteSet(queued \ D) /\ IsFiniteSet(held')
      BY <1>1, <1>3, FS_Subset DEF TypeOK
    <2> QED
      BY <1>2, <1>3, <2>1, FS_Union
  <1>6. Cardinality(Critical(OfKind(D, {"EXTRACT"}))) \in Nat
    BY <1>1, <1>4, FS_Subset, FS_CardinalityType DEF TypeOK, Critical, OfKind
  <1>7. QueuedLive' /\ NoLostWakeup'
    BY <1>1, <1>2, <1>3, <1>4 DEF QueuedLive, NoLostWakeup, S
  <1>8. OneSendOutstanding'
    BY <1>1, <1>2, <1>3 DEF OneSendOutstanding, OutstandingOf, OfKind, Cleanup
  <1>11. EntriesDistinct'
    <2>1. /\ S \in SUBSET Servers /\ Cleanup \in SUBSET Actions
          /\ b \in Batches(S, Cleanup, F)
      BY DEF S, Cleanup, Actions
    <2> QED
      BY <1>1, <1>3, <2>1, BatchDistinct
  <1>9. /\ Outstanding' = Critical(b) \cup {w \in Outstanding : w.pd \notin killed}
        /\ Critical(OfKind(D, Cleanup)) \subseteq {w \in Outstanding : w.pd \in killed}
    BY <1>2, <1>3, <1>4 DEF Outstanding, Critical, OfKind
  <1>10. /\ live' \subseteq PDs /\ queued' \subseteq WorkEntry /\ held' \subseteq WorkEntry
         /\ issued' \in Nat /\ signalled' \subseteq Servers /\ draining' \subseteq Servers
         /\ model_extraction_n_missing' \in Int /\ stray' \subseteq {"SEND", "EXTRACT"}
    BY <1>1, <1>2, <1>3, <1>6 DEF TypeOK, S
  <1> QED
    BY <1>5, <1>7, <1>8, <1>9, <1>10, <1>11 DEF D

-----------------------------------------------------------------------------
(* Every action preserves IInv *)

\* At the start nothing is queued, pending or blocked.
LEMMA InitIInv == Init => IInv
  <1> SUFFICES ASSUME Init PROVE IInv
    OBVIOUS
  <1> USE DEF Init
  <1>1. TypeOK
    <2>1. IsFiniteSet({})
      BY FS_EmptySet
    <2>2. /\ pending_termination \in BOOLEAN /\ pending_extraction \in BOOLEAN
          /\ pending_send_resource \in BOOLEAN
      BY Zenon
    <2> QED
      BY <2>1, <2>2 DEF TypeOK, PDs
  <1>2. Outstanding = {}
    BY DEF Outstanding, Critical, OfKind
  <1>3. MissingCoversOutstanding
    BY <1>2, FS_EmptySet DEF MissingCoversOutstanding
  <1>4. /\ QueuedLive /\ EntriesDistinct /\ NoLostWakeup /\ OneSendOutstanding
        /\ BlockedCallersAreOwed
    BY DEF QueuedLive, EntriesDistinct, NoLostWakeup, OneSendOutstanding, OutstandingOf, OfKind,
           BlockedCallersAreOwed
  <1> QED
    BY <1>1, <1>3, <1>4 DEF IInv

\* A termination starts from a counter at zero, so what it queues is exactly
\* what the counter holds.
LEMMA TerminateKeeps ==
  ASSUME IInv, NEW c \in Clients, NEW killed, Terminate(c, killed)
  PROVE  IInv'
  <1>1. /\ c \in live /\ waiting[c] = "nothing" /\ ~pending_termination
        /\ TypeOK /\ MissingCoversOutstanding /\ BlockedCallersAreOwed
    BY DEF Terminate, CanTerminate, Idle, IInv
  <1>2. PICK b \in Batches((live \ killed) \cap Servers, Cleanup, {TRUE}) :
          LET n == MissingAfter(killed, b) IN
          /\ DestroyPds(killed, b)
          /\ pd_termination_n_missing' = n
          /\ pending_termination' = (n > 0)
          /\ pd_termination_reply' = IF n > 0 THEN c ELSE pd_termination_reply
          /\ waiting' = IF n > 0 /\ c \notin killed
                          THEN [Waiting(killed) EXCEPT ![c] = "terminate"]
                          ELSE Waiting(killed)
    BY DEF Terminate
  <1>3. /\ live' \subseteq PDs /\ queued' \subseteq WorkEntry /\ held' \subseteq WorkEntry
        /\ IsFiniteSet(queued') /\ IsFiniteSet(held')
        /\ issued' \in Nat /\ signalled' \subseteq Servers /\ draining' \subseteq Servers
        /\ model_extraction_n_missing' \in Int /\ stray' \subseteq {"SEND", "EXTRACT"}
        /\ QueuedLive' /\ EntriesDistinct' /\ NoLostWakeup' /\ OneSendOutstanding'
        /\ Outstanding' = Critical(b) \cup {w \in Outstanding : w.pd \notin killed}
        /\ Critical(OfKind(Dropped(killed), Cleanup)) \subseteq
             {w \in Outstanding : w.pd \in killed}
    BY <1>2, DestroyKeepsLists
  <1>4. Outstanding = {}
    BY <1>1, OutstandingFinite, FS_EmptySet DEF MissingCoversOutstanding
  <1>5. Outstanding' = Critical(b) /\ Critical(OfKind(Dropped(killed), Cleanup)) = {}
    BY <1>3, <1>4
  <1>6. Cardinality(Critical(b)) \in Nat
    <2>1. IsFiniteSet(b)
      BY <1>1, BatchFacts DEF Cleanup, Actions
    <2>2. Critical(b) \subseteq b
      BY DEF Critical
    <2> QED
      BY <2>1, <2>2, CardinalityOfPart
  <1>7. MissingAfter(killed, b) = Cardinality(Critical(b))
    BY <1>1, <1>5, <1>6, FS_EmptySet DEF MissingAfter, MissingCoversOutstanding
  <1>8. MissingCoversOutstanding'
    <2>1. /\ pd_termination_n_missing' = Cardinality(Critical(b))
          /\ pending_termination' = (Cardinality(Critical(b)) > 0)
      BY <1>2, <1>7, Zenon
    <2>2. Cardinality(Outstanding') <= pd_termination_n_missing'
      BY <1>5, <1>6, <2>1
    <2>3. ~pending_termination' => ~(Cardinality(Critical(b)) > 0)
      BY <2>1, Zenon
    <2>4. ~pending_termination' => pd_termination_n_missing' = 0
      BY <1>6, <2>1, <2>3
    <2> QED
      BY <2>2, <2>4 DEF MissingCoversOutstanding
  <1>9. UNCHANGED <<pending_extraction, model_extraction_reply,
                    pending_send_resource, send_resource_reply>>
    BY <1>2 DEF DestroyPds, sendVars
  <1>10. waiting' \in [Clients -> {"nothing", "terminate", "send", "dump"}]
    BY <1>1, <1>2 DEF TypeOK, Waiting
  <1>11. TypeOK'
    BY <1>1, <1>2, <1>3, <1>6, <1>7, <1>9, <1>10 DEF TypeOK
  <1>12. BlockedCallersAreOwed'
    BY <1>1, <1>2, <1>9 DEF BlockedCallersAreOwed, TypeOK, Waiting
  <1> QED
    BY <1>3, <1>8, <1>11, <1>12 DEF IInv

\* An exit queues nothing critical and counts down for what its own lists lose.
LEMMA ExitKeeps ==
  ASSUME IInv, NEW p, NEW killed, Exit(p, killed)
  PROVE  IInv'
  <1>1. TypeOK /\ MissingCoversOutstanding /\ BlockedCallersAreOwed
    BY DEF IInv
  <1>2. PICK b \in Batches((live \ killed) \cap Servers, Cleanup, {FALSE}) :
          /\ DestroyPds(killed, b)
          /\ pd_termination_n_missing' = MissingAfter(killed, b)
    BY DEF Exit
  <1>3. /\ waiting' = Waiting(killed)
        /\ UNCHANGED <<pending_termination, pd_termination_reply>>
    BY DEF Exit
  <1>4. /\ live' \subseteq PDs /\ queued' \subseteq WorkEntry /\ held' \subseteq WorkEntry
        /\ IsFiniteSet(queued') /\ IsFiniteSet(held')
        /\ issued' \in Nat /\ signalled' \subseteq Servers /\ draining' \subseteq Servers
        /\ model_extraction_n_missing' \in Int /\ stray' \subseteq {"SEND", "EXTRACT"}
        /\ QueuedLive' /\ EntriesDistinct' /\ NoLostWakeup' /\ OneSendOutstanding'
        /\ Outstanding' = Critical(b) \cup {w \in Outstanding : w.pd \notin killed}
        /\ Critical(OfKind(Dropped(killed), Cleanup)) \subseteq
             {w \in Outstanding : w.pd \in killed}
    BY <1>2, DestroyKeepsLists
  <1> DEFINE D == Critical(OfKind(Dropped(killed), Cleanup))
  <1>5. Critical(b) = {}
    <2> DEFINE S == (live \ killed) \cap Servers
               F == {FALSE}
    <2>1. /\ S \in SUBSET Servers /\ Cleanup \in SUBSET Actions
          /\ F \in SUBSET BOOLEAN /\ b \in Batches(S, Cleanup, F)
      BY Zenon DEF Cleanup, Actions
    <2> HIDE DEF S, F
    <2>2. \A w \in b : w.is_critical \in F
      BY <1>1, <2>1, BatchFacts
    <2>3. \A w \in b : ~w.is_critical
      BY <2>2, Zenon DEF F
    <2> QED
      BY <2>3 DEF Critical
  <1>6. D \subseteq Outstanding /\ Outstanding' \subseteq Outstanding \ D
    BY <1>4, <1>5
  <1> HIDE DEF D
  <1>7. IsFiniteSet(Outstanding)
    BY <1>1, OutstandingFinite
  <1>8. /\ IsFiniteSet(Outstanding \ D)
        /\ Cardinality(D) \in Nat /\ Cardinality(Outstanding) \in Nat
        /\ Cardinality(D) <= Cardinality(Outstanding)
        /\ Cardinality(Outstanding \ D) = Cardinality(Outstanding) - Cardinality(D)
    BY <1>6, <1>7, CardinalityOfPart
  <1>9. /\ Cardinality(Outstanding') <= Cardinality(Outstanding \ D)
        /\ Cardinality(Outstanding') \in Nat
    BY <1>6, <1>8, CardinalityOfPart
  <1>10. pd_termination_n_missing' = pd_termination_n_missing - Cardinality(D)
    BY <1>1, <1>2, <1>5, <1>8, FS_EmptySet DEF MissingAfter, D, TypeOK
  <1>11. MissingCoversOutstanding' /\ pd_termination_n_missing' \in Nat
    BY <1>1, <1>3, <1>8, <1>9, <1>10 DEF MissingCoversOutstanding, TypeOK
  <1>12. UNCHANGED <<pending_extraction, model_extraction_reply,
                     pending_send_resource, send_resource_reply>>
    BY <1>2 DEF DestroyPds, sendVars
  <1>13. waiting' \in [Clients -> {"nothing", "terminate", "send", "dump"}]
    BY <1>1, <1>3 DEF TypeOK, Waiting
  <1>14. TypeOK'
    BY <1>1, <1>3, <1>4, <1>11, <1>12, <1>13 DEF TypeOK
  <1>15. BlockedCallersAreOwed'
    BY <1>1, <1>3, <1>12 DEF BlockedCallersAreOwed, TypeOK, Waiting
  <1> QED
    BY <1>4, <1>11, <1>14, <1>15 DEF IInv

\* A send is only started when none is pending, so there is no other entry
\* unless an earlier send failed, which is what a failing one records.
LEMMA SendCapKeeps ==
  ASSUME IInv, NEW c \in Clients, NEW s \in Servers, SendCap(c, s)
  PROVE  IInv'
  <1>1. /\ waiting[c] = "nothing" /\ ~pending_send_resource /\ s \in live
        /\ TypeOK /\ MissingCoversOutstanding /\ QueuedLive /\ EntriesDistinct
        /\ NoLostWakeup /\ OneSendOutstanding /\ BlockedCallersAreOwed
    BY DEF SendCap, CanSend, Idle, IInv
  <1>2. PICK b \in Batches({s}, {"SEND"}, {FALSE}) :
          Cardinality(b) = 1 /\ UNCHANGED live /\ Queue(queued, b)
    BY DEF SendCap
  <1>3. /\ \/ /\ pending_send_resource' = TRUE /\ send_resource_reply' = c
              /\ waiting' = [waiting EXCEPT ![c] = "send"]
              /\ Begins("SEND")
           \/ /\ stray' = stray \cup {"SEND"}
              /\ UNCHANGED <<waiting, pending_send_resource, send_resource_reply>>
        /\ UNCHANGED <<held, draining, pending_termination, pd_termination_n_missing,
                       pd_termination_reply, pending_extraction,
                       model_extraction_n_missing, model_extraction_reply>>
    BY DEF SendCap, termVars, extrVars, sendVars
  <1>4. /\ b \subseteq WorkEntry /\ IsFiniteSet(b) /\ Cardinality(b) \in Nat
        /\ \A w \in b : w.pd = s /\ w.action = "SEND"
        /\ EntriesDistinct'
    <2> DEFINE A == {"SEND"}
               F == {FALSE}
    <2>1. /\ {s} \in SUBSET Servers /\ A \in SUBSET Actions /\ F \in SUBSET BOOLEAN
          /\ b \in Batches({s}, A, F)
      BY Zenon DEF Actions
    <2> HIDE DEF A, F
    <2>2. /\ b \subseteq WorkEntry /\ IsFiniteSet(b) /\ Cardinality(b) \in Nat
          /\ \A w \in b : w.pd \in {s} /\ w.action \in A
      BY <1>1, <2>1, BatchFacts
    <2>3. EntriesDistinct'
      BY <1>1, <1>2, <1>3, <2>1, BatchDistinct DEF Queue
    <2> QED
      BY <2>2, <2>3 DEF A
  <1>5. /\ queued' = queued \cup b /\ issued' = issued + Cardinality(b)
        /\ signalled' = (signalled \cup {w.pd : w \in b}) \cap live /\ live' = live
    BY <1>2 DEF Queue
  <1>6. IsFiniteSet(queued')
    BY <1>1, <1>4, <1>5, FS_Union DEF TypeOK
  <1>7. TypeOK'
    <2>1. pending_send_resource' \in BOOLEAN
      BY <1>1, <1>3, Zenon DEF TypeOK
    <2>2. /\ send_resource_reply' \in Clients \cup {None}
          /\ stray' \subseteq {"SEND", "EXTRACT"}
          /\ waiting' \in [Clients -> {"nothing", "terminate", "send", "dump"}]
      BY <1>1, <1>3 DEF TypeOK, Begins
    <2> QED
      BY <1>1, <1>3, <1>4, <1>5, <1>6, <2>1, <2>2 DEF TypeOK
  <1>8. MissingCoversOutstanding'
    <2>1. Outstanding' \subseteq Outstanding
      BY <1>3, <1>4, <1>5 DEF Outstanding, Critical, OfKind, Cleanup
    <2> QED
      BY <1>1, <1>3, <2>1, CoverMonotone
  <1>9. QueuedLive' /\ NoLostWakeup'
    BY <1>1, <1>3, <1>4, <1>5 DEF QueuedLive, NoLostWakeup
  <1>10. OneSendOutstanding'
    <2> SUFFICES ASSUME "SEND" \notin stray'
                 PROVE  \A v, w \in OutstandingOf("SEND")' : v = w /\ pending_send_resource'
      BY DEF OneSendOutstanding
    <2>1. pending_send_resource' = TRUE /\ Begins("SEND")
      BY <1>3
    <2>2. OutstandingOf("SEND") = {}
      BY <1>1, <2>1 DEF OneSendOutstanding, Begins
    <2>3. PICK x : b = {x}
      BY <1>2, <1>4, FS_Singleton
    <2>4. \A w \in OutstandingOf("SEND")' : w = x
      BY <1>3, <1>5, <2>2, <2>3 DEF OutstandingOf, OfKind
    <2> QED
      BY <2>1, <2>4
  <1>11. BlockedCallersAreOwed'
    BY <1>1, <1>3 DEF BlockedCallersAreOwed, TypeOK
  <1> QED
    BY <1>4, <1>7, <1>8, <1>9, <1>10, <1>11 DEF IInv

\* A dump queues EXTRACT entries only, which neither the termination counter
\* nor the send counts.
LEMMA DumpKeeps ==
  ASSUME IInv, NEW c \in Clients, Dump(c)
  PROVE  IInv'
  <1>1. /\ waiting[c] = "nothing" /\ ~pending_extraction
        /\ TypeOK /\ MissingCoversOutstanding /\ QueuedLive /\ EntriesDistinct
        /\ NoLostWakeup /\ OneSendOutstanding /\ BlockedCallersAreOwed
    BY DEF Dump, Idle, IInv
  <1>2. /\ live' = live
        /\ UNCHANGED <<held, draining, pending_termination, pd_termination_n_missing,
                       pd_termination_reply, pending_send_resource, send_resource_reply>>
    BY DEF Dump, termVars, sendVars
  <1>3. PICK b \in Batches(live \cap Servers, {"EXTRACT"}, BOOLEAN) :
          /\ Queue(queued, b)
          /\ model_extraction_n_missing' = Cardinality(b)
          /\ \/ /\ pending_extraction' = TRUE
                /\ model_extraction_reply' = c
                /\ waiting' = [waiting EXCEPT ![c] = "dump"]
             \/ UNCHANGED <<pending_extraction, model_extraction_reply, waiting>>
          /\ \/ Begins("EXTRACT")
             \/ stray' \in {stray, stray \cup {"EXTRACT"}}
    BY DEF Dump
  <1>13. /\ stray' \subseteq {"SEND", "EXTRACT"}
         /\ "SEND" \in stray => "SEND" \in stray'
    BY <1>1, <1>3 DEF TypeOK, Begins
  <1>4. /\ b \subseteq WorkEntry /\ IsFiniteSet(b) /\ Cardinality(b) \in Nat
        /\ \A w \in b : w.pd \in live \cap Servers /\ w.action = "EXTRACT"
    BY <1>1, <1>3, BatchFacts DEF Actions
  <1>12. EntriesDistinct'
    BY <1>1, <1>2, <1>3, BatchDistinct DEF Actions, Queue
  <1>5. /\ queued' = queued \cup b /\ issued' = issued + Cardinality(b)
        /\ signalled' = (signalled \cup {w.pd : w \in b}) \cap live
    BY <1>2, <1>3 DEF Queue
  <1>6. IsFiniteSet(queued')
    BY <1>1, <1>4, <1>5, FS_Union DEF TypeOK
  <1>7. TypeOK'
    <2>1. pending_extraction' \in BOOLEAN
      BY <1>1, <1>3, Zenon DEF TypeOK
    <2>2. /\ model_extraction_reply' \in Clients \cup {None}
          /\ waiting' \in [Clients -> {"nothing", "terminate", "send", "dump"}]
      BY <1>1, <1>3 DEF TypeOK
    <2> QED
      BY <1>1, <1>2, <1>3, <1>4, <1>5, <1>6, <1>13, <2>1, <2>2 DEF TypeOK
  <1>8. MissingCoversOutstanding'
    <2>1. Outstanding' \subseteq Outstanding
      BY <1>2, <1>4, <1>5 DEF Outstanding, Critical, OfKind, Cleanup
    <2> QED
      BY <1>1, <1>2, <2>1, CoverMonotone
  <1>9. QueuedLive' /\ NoLostWakeup'
    BY <1>1, <1>2, <1>4, <1>5 DEF QueuedLive, NoLostWakeup
  <1>10. OneSendOutstanding'
    BY <1>1, <1>2, <1>4, <1>5, <1>13 DEF OneSendOutstanding, OutstandingOf, OfKind
  <1>11. BlockedCallersAreOwed'
    BY <1>1, <1>2, <1>3 DEF BlockedCallersAreOwed, TypeOK
  <1> QED
    BY <1>7, <1>8, <1>9, <1>10, <1>11, <1>12 DEF IInv

\* Wake, GetWork and NoWork: the loop of the server moves entries, no counter.
LEMMA LoopKeeps ==
  ASSUME IInv, NEW s \in Servers, Wake(s) \/ GetWork(s) \/ NoWork(s)
  PROVE  IInv'
  <1>1. /\ TypeOK /\ MissingCoversOutstanding /\ QueuedLive /\ EntriesDistinct
        /\ NoLostWakeup /\ OneSendOutstanding /\ BlockedCallersAreOwed
    BY DEF IInv
  <1>2. UNCHANGED <<live, issued, waiting, stray, pending_termination,
                    pd_termination_n_missing, pd_termination_reply, pending_extraction,
                    model_extraction_n_missing, model_extraction_reply,
                    pending_send_resource, send_resource_reply>>
    BY DEF Wake, GetWork, NoWork, termVars, extrVars, sendVars
  <1>3. /\ queued' \cup held' = queued \cup held
        /\ queued' \subseteq queued
        /\ IsFiniteSet(held')
        /\ signalled' \subseteq Servers /\ draining' \subseteq Servers
        /\ queued' \cap held' = {}
        /\ NoLostWakeup'
    <2>1. CASE Wake(s)
      BY <1>1, <2>1 DEF Wake, TypeOK, EntriesDistinct, NoLostWakeup
    <2>2. CASE NoWork(s)
      BY <1>1, <2>2 DEF NoWork, TypeOK, EntriesDistinct, NoLostWakeup, OfPd
    <2>3. CASE GetWork(s)
      <3>1. PICK b : b \subseteq queued /\ queued' = queued \ b /\ held' = held \cup b
        BY <2>3 DEF GetWork, OfKind, OfPd
      <3>2. IsFiniteSet(held')
        BY <1>1, <3>1, FS_Subset, FS_Union DEF TypeOK
      <3> QED
        BY <1>1, <2>3, <3>1, <3>2 DEF GetWork, TypeOK, EntriesDistinct, NoLostWakeup
    <2> QED
      BY <2>1, <2>2, <2>3
  <1>4. IsFiniteSet(queued')
    BY <1>1, <1>3, FS_Subset DEF TypeOK
  <1>5. TypeOK'
    BY <1>1, <1>2, <1>3, <1>4 DEF TypeOK
  <1>6. Outstanding' \subseteq Outstanding
    BY <1>3 DEF Outstanding, Critical, OfKind
  <1>7. MissingCoversOutstanding'
    BY <1>1, <1>2, <1>6, CoverMonotone
  <1>8. QueuedLive' /\ EntriesDistinct' /\ OneSendOutstanding' /\ BlockedCallersAreOwed'
    BY <1>1, <1>2, <1>3 DEF QueuedLive, EntriesDistinct, OneSendOutstanding, OutstandingOf, OfKind,
                           BlockedCallersAreOwed
  <1> QED
    BY <1>3, <1>5, <1>7, <1>8 DEF IInv

\* What the end of a batch leaves of the lists, whatever is reported.
LEMMA EndBatchFacts ==
  ASSUME IInv, NEW s \in Servers, NEW A, EndBatch(s, A)
  PROVE  /\ UNCHANGED <<live, queued, issued, signalled, draining, stray>>
         /\ held' = held \ OfPd(held, s)
         /\ held' \subseteq WorkEntry /\ IsFiniteSet(held')
         /\ QueuedLive' /\ EntriesDistinct' /\ NoLostWakeup'
         /\ Outstanding' \subseteq Outstanding
  <1>1. /\ UNCHANGED <<live, queued, issued, signalled, draining, stray>>
        /\ held' = held \ OfPd(held, s)
    BY DEF EndBatch
  <1>2. TypeOK /\ QueuedLive /\ EntriesDistinct /\ NoLostWakeup
    BY DEF IInv
  <1>3. held' \subseteq WorkEntry /\ IsFiniteSet(held')
    BY <1>1, <1>2, FS_Subset DEF TypeOK
  <1>4. QueuedLive' /\ EntriesDistinct' /\ NoLostWakeup' /\ Outstanding' \subseteq Outstanding
    BY <1>1, <1>2 DEF QueuedLive, EntriesDistinct, NoLostWakeup, Outstanding, Critical, OfKind
  <1> QED
    BY <1>1, <1>3, <1>4

\* The critical entries of a cleanup batch are outstanding until the report,
\* so the counter can be lowered by their number and still covers the rest.
LEMMA FinishCleanupKeeps ==
  ASSUME IInv, NEW s \in Servers, FinishCleanup(s)
  PROVE  IInv'
  <1>1. /\ TypeOK /\ MissingCoversOutstanding /\ EntriesDistinct
        /\ OneSendOutstanding /\ BlockedCallersAreOwed
    BY DEF IInv
  <1>2. EndBatch(s, Cleanup)
    BY DEF FinishCleanup
  <1>3. /\ UNCHANGED <<live, queued, issued, signalled, draining, stray>>
        /\ held' = held \ OfPd(held, s)
        /\ held' \subseteq WorkEntry /\ IsFiniteSet(held')
        /\ QueuedLive' /\ EntriesDistinct' /\ NoLostWakeup'
        /\ Outstanding' \subseteq Outstanding
    BY <1>2, EndBatchFacts
  <1>4. UNCHANGED <<pending_extraction, model_extraction_n_missing,
                    model_extraction_reply, pending_send_resource, send_resource_reply>>
    BY DEF FinishCleanup, extrVars, sendVars
  <1>5. OneSendOutstanding'
    BY <1>1, <1>3, <1>4 DEF OneSendOutstanding, OutstandingOf, OfKind
  <1>6. CASE ~pending_termination
    <2>1. UNCHANGED <<waiting, pending_termination, pd_termination_n_missing,
                      pd_termination_reply>>
      BY <1>6 DEF FinishCleanup, termVars
    <2>2. TypeOK'
      BY <1>1, <1>3, <1>4, <2>1 DEF TypeOK
    <2>3. MissingCoversOutstanding'
      BY <1>1, <1>3, <2>1, CoverMonotone
    <2>4. BlockedCallersAreOwed'
      BY <1>1, <1>4, <2>1 DEF BlockedCallersAreOwed
    <2> QED
      BY <1>3, <1>5, <2>2, <2>3, <2>4 DEF IInv
  <1>7. CASE pending_termination
    <2> DEFINE C == Critical(OfPd(held, s))
               n == CleanupLeft(s)
    <2>1. /\ pd_termination_n_missing' = n
          /\ pending_termination' = (n # 0)
          /\ IF n = 0 THEN Answer(pd_termination_reply) ELSE UNCHANGED waiting
          /\ UNCHANGED pd_termination_reply
      BY <1>7 DEF FinishCleanup
    <2>2. C \subseteq Outstanding /\ Outstanding' \subseteq Outstanding \ C
      BY <1>1, <1>2, <1>3 DEF EndBatch, EntriesDistinct, Outstanding, Critical, OfKind, OfPd
    <2>3. IsFiniteSet(Outstanding)
      BY <1>1, OutstandingFinite
    <2> HIDE DEF C
    <2>4. /\ IsFiniteSet(Outstanding \ C)
          /\ Cardinality(C) \in Nat /\ Cardinality(Outstanding) \in Nat
          /\ Cardinality(C) <= Cardinality(Outstanding)
          /\ Cardinality(Outstanding \ C) = Cardinality(Outstanding) - Cardinality(C)
      BY <2>2, <2>3, CardinalityOfPart
    <2>5. /\ Cardinality(Outstanding') <= Cardinality(Outstanding \ C)
          /\ Cardinality(Outstanding') \in Nat
      BY <2>2, <2>4, CardinalityOfPart
    <2>6. n = pd_termination_n_missing - Cardinality(C) /\ n \in Nat
      <3>1. Cardinality(Outstanding) <= pd_termination_n_missing
        BY <1>1 DEF MissingCoversOutstanding
      <3>2. pd_termination_n_missing \in Nat
        BY <1>1 DEF TypeOK
      <3>3. ~(Cardinality(C) > pd_termination_n_missing)
        BY <2>4, <3>1, <3>2
      <3>4. n = pd_termination_n_missing - Cardinality(C)
        BY <3>3 DEF CleanupLeft, C
      <3> QED
        BY <2>4, <3>1, <3>2, <3>4
    <2> HIDE DEF n
    <2>7. MissingCoversOutstanding'
      <3>1. ~pending_termination' => n = 0
        BY <2>1, Zenon
      <3>2. Cardinality(Outstanding') <= n
        BY <1>1, <2>4, <2>5, <2>6 DEF MissingCoversOutstanding, TypeOK
      <3> QED
        BY <2>1, <3>1, <3>2 DEF MissingCoversOutstanding
    <2>8. /\ pending_termination' \in BOOLEAN
          /\ n # 0 => pending_termination'
      BY <2>1, Zenon
    <2>9. waiting' \in [Clients -> {"nothing", "terminate", "send", "dump"}]
      BY <1>1, <2>1 DEF TypeOK, Answer
    <2>10. TypeOK'
      BY <1>1, <1>3, <1>4, <2>1, <2>6, <2>8, <2>9 DEF TypeOK
    <2>11. BlockedCallersAreOwed'
      BY <1>1, <1>4, <2>1, <2>8 DEF BlockedCallersAreOwed, TypeOK, Answer
    <2> QED
      BY <1>3, <1>5, <2>7, <2>10, <2>11 DEF IInv
  <1> QED
    BY <1>6, <1>7

\* The report of a SEND takes away the one entry and the one blocked sender.
LEMMA FinishSendKeeps ==
  ASSUME IInv, NEW s \in Servers, FinishSend(s)
  PROVE  IInv'
  <1>1. /\ TypeOK /\ MissingCoversOutstanding /\ EntriesDistinct
        /\ OneSendOutstanding /\ BlockedCallersAreOwed
    BY DEF IInv
  <1>2. EndBatch(s, {"SEND"})
    BY DEF FinishSend
  <1>3. /\ UNCHANGED <<live, queued, issued, signalled, draining, stray>>
        /\ held' = held \ OfPd(held, s)
        /\ held' \subseteq WorkEntry /\ IsFiniteSet(held')
        /\ QueuedLive' /\ EntriesDistinct' /\ NoLostWakeup'
        /\ Outstanding' \subseteq Outstanding
    BY <1>2, EndBatchFacts
  <1>4. /\ UNCHANGED <<pending_termination, pd_termination_n_missing,
                       pd_termination_reply, pending_extraction,
                       model_extraction_n_missing, model_extraction_reply,
                       send_resource_reply>>
        /\ pending_send_resource' = FALSE
        /\ IF pending_send_resource THEN Answer(send_resource_reply)
                                    ELSE UNCHANGED waiting
    BY DEF FinishSend, termVars, extrVars
  <1>5. OneSendOutstanding'
    <2> SUFFICES ASSUME "SEND" \notin stray
                 PROVE  OutstandingOf("SEND")' = {}
      BY <1>3 DEF OneSendOutstanding
    <2>1. PICK x \in OfPd(held, s) : x.action = "SEND"
      BY <1>2 DEF EndBatch
    <2>2. \A v \in OfKind(queued \cup held, {"SEND"}) : v = x
      BY <1>1, <2>1 DEF OneSendOutstanding, OutstandingOf, OfKind, OfPd
    <2>3. x \notin queued' \cup held'
      BY <1>1, <1>3, <2>1 DEF EntriesDistinct, OfPd
    <2> QED
      BY <1>3, <2>2, <2>3 DEF OutstandingOf, OfKind
  <1>6. TypeOK'
    <2>1. pending_send_resource' \in BOOLEAN
      BY <1>4, Zenon
    <2>2. waiting' \in [Clients -> {"nothing", "terminate", "send", "dump"}]
      BY <1>1, <1>4 DEF TypeOK, Answer
    <2> QED
      BY <1>1, <1>3, <1>4, <2>1, <2>2 DEF TypeOK
  <1>7. MissingCoversOutstanding'
    BY <1>1, <1>3, <1>4, CoverMonotone
  <1>8. BlockedCallersAreOwed'
    BY <1>1, <1>4 DEF BlockedCallersAreOwed, TypeOK, Answer
  <1> QED
    BY <1>3, <1>5, <1>6, <1>7, <1>8 DEF IInv

\* SendSubgraph and Abandon touch neither the termination nor the send.
LEMMA SubgraphKeeps ==
  ASSUME IInv, NEW s \in Servers, SendSubgraph(s) \/ Abandon(s)
  PROVE  IInv'
  <1>1. /\ TypeOK /\ MissingCoversOutstanding /\ OneSendOutstanding
        /\ BlockedCallersAreOwed
    BY DEF IInv
  <1>2. PICK A : EndBatch(s, A)
    BY DEF SendSubgraph, Abandon
  <1>3. /\ UNCHANGED <<live, queued, issued, signalled, draining, stray>>
        /\ held' = held \ OfPd(held, s)
        /\ held' \subseteq WorkEntry /\ IsFiniteSet(held')
        /\ QueuedLive' /\ EntriesDistinct' /\ NoLostWakeup'
        /\ Outstanding' \subseteq Outstanding
    BY <1>2, EndBatchFacts
  <1>4. /\ UNCHANGED <<pending_termination, pd_termination_n_missing,
                       pd_termination_reply, pending_send_resource,
                       send_resource_reply>>
        /\ model_extraction_reply' = model_extraction_reply
    BY DEF SendSubgraph, Abandon, termVars, extrVars, sendVars
  <1>5. \/ UNCHANGED <<waiting, pending_extraction, model_extraction_n_missing>>
        \/ /\ model_extraction_n_missing' = ExtractLeft(s)
           /\ pending_extraction' = (ExtractLeft(s) # 0)
           /\ IF ExtractLeft(s) = 0 THEN Answer(model_extraction_reply)
                                    ELSE UNCHANGED waiting
    BY DEF SendSubgraph, Abandon, extrVars
  <1>6. ExtractLeft(s) \in Int
    <2>1. Cardinality(OfPd(held, s)) \in Nat
      BY <1>1, FS_Subset, FS_CardinalityType DEF TypeOK, OfPd
    <2> QED
      BY <1>1, <2>1 DEF ExtractLeft, TypeOK
  <1>7. /\ pending_extraction' \in BOOLEAN
        /\ \/ UNCHANGED <<waiting, pending_extraction>>
           \/ Answer(model_extraction_reply)
           \/ pending_extraction' /\ UNCHANGED waiting
    BY <1>1, <1>5, Zenon DEF TypeOK
  <1>8. waiting' \in [Clients -> {"nothing", "terminate", "send", "dump"}]
    BY <1>1, <1>7 DEF TypeOK, Answer
  <1>9. TypeOK'
    <2>1. model_extraction_n_missing' \in Int
      BY <1>1, <1>5, <1>6 DEF TypeOK
    <2> QED
      BY <1>1, <1>3, <1>4, <1>7, <1>8, <2>1 DEF TypeOK
  <1>10. MissingCoversOutstanding'
    BY <1>1, <1>3, <1>4, CoverMonotone
  <1>11. OneSendOutstanding'
    BY <1>1, <1>3, <1>4 DEF OneSendOutstanding, OutstandingOf, OfKind
  <1>12. BlockedCallersAreOwed'
    BY <1>1, <1>4, <1>7 DEF BlockedCallersAreOwed, TypeOK, Answer
  <1> QED
    BY <1>3, <1>9, <1>10, <1>11, <1>12 DEF IInv

\* Every step of the RT and of the servers keeps the invariant.
LEMMA NextKeepsIInv == IInv /\ [Next]_vars => IInv'
  <1> SUFFICES ASSUME IInv, [Next]_vars PROVE IInv'
    OBVIOUS
  <1>1. ASSUME NEW c \in Clients, NEW killed \in SUBSET Victims, Terminate(c, killed)
        PROVE  IInv'
    BY <1>1, TerminateKeeps
  <1>2. ASSUME NEW p \in Exiters, NEW killed \in SUBSET PDs, Exit(p, killed)
        PROVE  IInv'
    BY <1>2, ExitKeeps
  <1>3. ASSUME NEW c \in Clients, NEW s \in Servers, SendCap(c, s)
        PROVE  IInv'
    BY <1>3, SendCapKeeps
  <1>4. ASSUME NEW c \in Clients, Dump(c)
        PROVE  IInv'
    BY <1>4, DumpKeeps
  <1>5. ASSUME NEW s \in Servers, ServerStep(s)
        PROVE  IInv'
    BY <1>5, LoopKeeps, FinishCleanupKeeps, FinishSendKeeps, SubgraphKeeps DEF ServerStep
  <1>6. CASE UNCHANGED vars
    BY <1>6 DEF vars, workVars, termVars, extrVars, sendVars, IInv, TypeOK,
                MissingCoversOutstanding, Outstanding, Critical, OfKind, QueuedLive,
                EntriesDistinct, NoLostWakeup, OneSendOutstanding, OutstandingOf,
                BlockedCallersAreOwed
  <1> QED
    BY <1>1, <1>2, <1>3, <1>4, <1>5, <1>6 DEF Next

-----------------------------------------------------------------------------
(* The extraction of the model *)

\* The subgraphs that servers still have to send.
Subgraphs == OutstandingOf("EXTRACT")

\* ExtractionAnswerSound is not inductive for the reason that made the counter
\* of terminations necessary: the RT decides on model_extraction_n_missing.  It
\* covers the subgraphs, and none is left over from an earlier extraction,
\* unless pd_dump reported an error after it had queued work.
ExtractInv ==
  "EXTRACT" \notin stray =>
    /\ Cardinality(Subgraphs) <= model_extraction_n_missing
    /\ ~pending_extraction => Subgraphs = {}

\* The subgraphs are finitely many.
LEMMA SubgraphsFinite ==
  ASSUME TypeOK
  PROVE  IsFiniteSet(Subgraphs) /\ Cardinality(Subgraphs) \in Nat
  <1>1. IsFiniteSet(queued \cup held)
    BY FS_Union DEF TypeOK
  <1>2. Subgraphs \subseteq queued \cup held
    BY DEF Subgraphs, OutstandingOf, OfKind
  <1> QED
    BY <1>1, <1>2, FS_Subset, FS_CardinalityType

\* The counter is lowered by no more than the subgraphs that go.
LEMMA ExtractMonotone ==
  ASSUME TypeOK, ExtractInv, NEW G, G \subseteq Subgraphs, Subgraphs' \subseteq Subgraphs \ G,
         "EXTRACT" \in stray => "EXTRACT" \in stray',
         model_extraction_n_missing' = model_extraction_n_missing - Cardinality(G)
  PROVE  /\ "EXTRACT" \notin stray' => Cardinality(Subgraphs') <= model_extraction_n_missing'
         /\ "EXTRACT" \notin stray' => Cardinality(Subgraphs') \in Nat /\ IsFiniteSet(Subgraphs')
  <1>1. IsFiniteSet(Subgraphs) /\ Cardinality(Subgraphs) \in Nat
    BY SubgraphsFinite
  <1>2. /\ Cardinality(G) \in Nat /\ IsFiniteSet(Subgraphs \ G)
        /\ Cardinality(Subgraphs \ G) = Cardinality(Subgraphs) - Cardinality(G)
    BY <1>1, CardinalityOfPart
  <1>3. /\ Cardinality(Subgraphs') <= Cardinality(Subgraphs \ G)
        /\ Cardinality(Subgraphs') \in Nat /\ IsFiniteSet(Subgraphs')
    BY <1>2, CardinalityOfPart
  <1>4. model_extraction_n_missing \in Int
    BY DEF TypeOK
  <1> QED
    BY <1>1, <1>2, <1>3, <1>4 DEF ExtractInv

\* A step that leaves the counter alone and adds no subgraph.
LEMMA ExtractUntouched ==
  ASSUME TypeOK, ExtractInv, Subgraphs' \subseteq Subgraphs,
         "EXTRACT" \in stray => "EXTRACT" \in stray',
         UNCHANGED <<pending_extraction, model_extraction_n_missing>>
  PROVE  ExtractInv'
  <1>1. Cardinality({}) = 0 /\ {} \subseteq Subgraphs /\ Subgraphs' \subseteq Subgraphs \ {}
    BY FS_EmptySet
  <1>2. model_extraction_n_missing' = model_extraction_n_missing - Cardinality({})
    BY <1>1 DEF TypeOK
  <1>3. "EXTRACT" \notin stray' => Cardinality(Subgraphs') <= model_extraction_n_missing'
    BY <1>1, <1>2, ExtractMonotone
  <1> QED
    BY <1>3 DEF ExtractInv

\* A PD that is destroyed is counted down for its critical subgraphs only.
LEMMA DestroyKeepsExtract ==
  ASSUME IInv, ExtractInv, NEW killed, NEW F \in SUBSET BOOLEAN,
         NEW b \in Batches((live \ killed) \cap Servers, Cleanup, F),
         DestroyPds(killed, b)
  PROVE  ExtractInv'
  <1> DEFINE G == Critical(OfKind(Dropped(killed), {"EXTRACT"}))
  <1>1. TypeOK
    BY DEF IInv
  <1>2. \A w \in b : w.action \in Cleanup
    BY <1>1, BatchFacts DEF Cleanup, Actions
  <1>3. /\ held' = {w \in held : w.pd \notin killed}
        /\ queued' = (queued \ Dropped(killed)) \cup b
        /\ model_extraction_n_missing' = model_extraction_n_missing - Cardinality(G)
        /\ pending_extraction' = pending_extraction /\ stray' = stray
    BY DEF DestroyPds, Queue
  <1>4. Dropped(killed) = {w \in queued : w.pd \in killed}
    BY DEF Dropped
  <1>5. G \subseteq Subgraphs /\ Subgraphs' \subseteq Subgraphs \ G
    BY <1>2, <1>3, <1>4 DEF Subgraphs, OutstandingOf, OfKind, Critical, Cleanup
  <1> HIDE DEF G
  <1>6. "EXTRACT" \notin stray' => Cardinality(Subgraphs') <= model_extraction_n_missing'
    BY <1>1, <1>3, <1>5, ExtractMonotone
  <1> QED
    BY <1>3, <1>5, <1>6 DEF ExtractInv

\* A dump that finds no subgraph outstanding counts exactly its own; one that
\* finds some, or fails after queueing them, is marked in stray.
LEMMA DumpKeepsExtract ==
  ASSUME IInv, ExtractInv, NEW c \in Clients, Dump(c)
  PROVE  ExtractInv'
  <1> SUFFICES ASSUME "EXTRACT" \notin stray'
               PROVE  /\ Cardinality(Subgraphs') <= model_extraction_n_missing'
                      /\ ~pending_extraction' => Subgraphs' = {}
    BY DEF ExtractInv
  <1>1. TypeOK /\ ~pending_extraction
    BY DEF IInv, Dump
  <1>2. PICK b \in Batches(live \cap Servers, {"EXTRACT"}, BOOLEAN) :
          /\ Queue(queued, b)
          /\ model_extraction_n_missing' = Cardinality(b)
          /\ \/ /\ pending_extraction' = TRUE
                /\ Begins("EXTRACT")
             \/ stray' = IF b = {} THEN stray ELSE stray \cup {"EXTRACT"}
    BY DEF Dump
  <1>3. IsFiniteSet(b) /\ Cardinality(b) \in Nat
    BY <1>1, BatchFacts DEF Actions
  <1>4. Subgraphs = {}
    BY <1>1, <1>2 DEF Begins, ExtractInv, Subgraphs
  <1>5. Subgraphs' \subseteq b
    BY <1>2, <1>4 DEF Dump, Queue, Subgraphs, OutstandingOf, OfKind
  <1>6. Cardinality(Subgraphs') <= Cardinality(b)
    BY <1>3, <1>5, CardinalityOfPart
  <1>7. pending_extraction' \/ b = {}
    BY <1>2
  <1> QED
    BY <1>2, <1>5, <1>6, <1>7

\* handle_send_subgraph_req counts the batch that the server had, so that it
\* ends the extraction with the last one.
LEMMA SubgraphKeepsExtract ==
  ASSUME IInv, ExtractInv, NEW s \in Servers, SendSubgraph(s)
  PROVE  ExtractInv'
  <1> DEFINE G == OfPd(held, s)
  <1>1. TypeOK /\ EntriesDistinct
    BY DEF IInv
  <1>2. /\ EndBatch(s, {"EXTRACT"}) /\ queued' = queued /\ held' = held \ G
        /\ stray' = stray
    BY DEF SendSubgraph, EndBatch
  <1>3. G \subseteq Subgraphs /\ Subgraphs' \subseteq Subgraphs \ G
    BY <1>1, <1>2 DEF EndBatch, EntriesDistinct, Subgraphs, OutstandingOf, OfKind, OfPd
  <1>4. CASE ~pending_extraction
    BY <1>1, <1>2, <1>3, <1>4, ExtractUntouched DEF SendSubgraph, extrVars
  <1>5. CASE pending_extraction
    <2>1. /\ model_extraction_n_missing' = ExtractLeft(s)
          /\ pending_extraction' = (ExtractLeft(s) # 0)
      BY <1>5 DEF SendSubgraph
    <2>2. model_extraction_n_missing' = model_extraction_n_missing - Cardinality(G)
      BY <2>1 DEF ExtractLeft
    <2> HIDE DEF G
    <2>3. /\ "EXTRACT" \notin stray' => Cardinality(Subgraphs') <= model_extraction_n_missing'
          /\ "EXTRACT" \notin stray' => Cardinality(Subgraphs') \in Nat /\ IsFiniteSet(Subgraphs')
      BY <1>1, <1>2, <1>3, <2>2, ExtractMonotone
    <2>4. ~pending_extraction' => model_extraction_n_missing' = 0
      BY <2>1, Zenon
    <2>5. "EXTRACT" \notin stray' /\ ~pending_extraction' => Cardinality(Subgraphs') = 0
      BY <2>3, <2>4
    <2>6. "EXTRACT" \notin stray' /\ ~pending_extraction' => Subgraphs' = {}
      BY <2>3, <2>5, FS_EmptySet
    <2> QED
      BY <2>3, <2>6 DEF ExtractInv
  <1> QED
    BY <1>4, <1>5

LEMMA NextKeepsExtract == IInv /\ ExtractInv /\ [Next]_vars => ExtractInv'
  <1> SUFFICES ASSUME IInv, ExtractInv, [Next]_vars PROVE ExtractInv'
    OBVIOUS
  <1>0. TypeOK
    BY DEF IInv
  <1>1. ASSUME NEW c \in Clients, NEW killed \in SUBSET Victims, Terminate(c, killed)
        PROVE  ExtractInv'
    <2>1. PICK b \in Batches((live \ killed) \cap Servers, Cleanup, {TRUE}) : DestroyPds(killed, b)
      BY <1>1 DEF Terminate
    <2> QED
      BY <2>1, DestroyKeepsExtract
  <1>2. ASSUME NEW p \in Exiters, NEW killed \in SUBSET PDs, Exit(p, killed)
        PROVE  ExtractInv'
    <2>1. PICK b \in Batches((live \ killed) \cap Servers, Cleanup, {FALSE}) : DestroyPds(killed, b)
      BY <1>2 DEF Exit
    <2> QED
      BY <2>1, DestroyKeepsExtract
  <1>3. ASSUME NEW c \in Clients, NEW s \in Servers, SendCap(c, s)
        PROVE  ExtractInv'
    <2>1. PICK b \in Batches({s}, {"SEND"}, {FALSE}) : queued' = queued \cup b
      BY <1>3 DEF SendCap, Queue
    <2>2. \A w \in b : w.action = "SEND"
      <3>1. PICK A, F : A = {"SEND"} /\ F = {FALSE}
        OBVIOUS
      <3>2. /\ {s} \in SUBSET Servers /\ A \in SUBSET Actions /\ F \in SUBSET BOOLEAN
            /\ b \in Batches({s}, A, F)
        BY <2>1, <3>1, Zenon DEF Actions
      <3>3. \A w \in b : w.action \in A
        BY <1>0, <3>2, BatchFacts
      <3> QED
        BY <3>1, <3>3
    <2>3. /\ UNCHANGED <<held, pending_extraction, model_extraction_n_missing>>
          /\ "EXTRACT" \in stray => "EXTRACT" \in stray'
      BY <1>3 DEF SendCap, extrVars, Begins
    <2>4. Subgraphs' \subseteq Subgraphs
      BY <2>1, <2>2, <2>3 DEF Subgraphs, OutstandingOf, OfKind
    <2> QED
      BY <1>0, <2>3, <2>4, ExtractUntouched
  <1>4. ASSUME NEW c \in Clients, Dump(c)
        PROVE  ExtractInv'
    BY <1>4, DumpKeepsExtract
  <1>5. ASSUME NEW s \in Servers, Wake(s) \/ GetWork(s) \/ NoWork(s)
        PROVE  ExtractInv'
    <2>1. UNCHANGED <<pending_extraction, model_extraction_n_missing, stray>>
      BY <1>5 DEF Wake, GetWork, NoWork, extrVars
    <2>2. CASE Wake(s) \/ NoWork(s)
      BY <1>0, <2>1, <2>2, ExtractUntouched DEF Wake, NoWork, Subgraphs, OutstandingOf
    <2>3. CASE GetWork(s)
      <3>1. PICK b : b \subseteq queued /\ queued' = queued \ b /\ held' = held \cup b
        BY <2>3 DEF GetWork, OfKind, OfPd
      <3>2. Subgraphs' \subseteq Subgraphs
        BY <3>1 DEF Subgraphs, OutstandingOf, OfKind
      <3> QED
        BY <1>0, <2>1, <3>2, ExtractUntouched
    <2> QED
      BY <1>5, <2>2, <2>3
  <1>6. ASSUME NEW s \in Servers, FinishCleanup(s) \/ FinishSend(s) \/ Abandon(s)
        PROVE  ExtractInv'
    <2>1. /\ UNCHANGED <<pending_extraction, model_extraction_n_missing, queued, stray>>
          /\ held' \subseteq held
      BY <1>6 DEF FinishCleanup, FinishSend, Abandon, EndBatch, extrVars
    <2>2. Subgraphs' \subseteq Subgraphs
      BY <2>1 DEF Subgraphs, OutstandingOf, OfKind
    <2> QED
      BY <1>0, <2>1, <2>2, ExtractUntouched
  <1>7. ASSUME NEW s \in Servers, SendSubgraph(s)
        PROVE  ExtractInv'
    BY <1>7, SubgraphKeepsExtract
  <1>8. CASE UNCHANGED vars
    BY <1>0, <1>8, ExtractUntouched DEF vars, workVars, extrVars, Subgraphs, OutstandingOf
  <1> QED
    BY <1>1, <1>2, <1>3, <1>4, <1>5, <1>6, <1>7, <1>8 DEF Next, ServerStep

-----------------------------------------------------------------------------
(* Theorems *)

\* Every reachable state satisfies the inductive invariant.
THEOREM Invariance == Spec => []IInv
  BY InitIInv, NextKeepsIInv, PTL DEF Spec

\* The types hold; in particular pd_termination_n_missing, which several
\* handlers count down, never becomes negative.
THEOREM TypeCorrect == Spec => []TypeOK
  <1>1. IInv => TypeOK
    BY DEF IInv
  <1> QED
    BY <1>1, Invariance, PTL

\* handle_finish_work_req and handle_terminate_req keep the counter at or
\* above the critical work that is outstanding.
THEOREM CounterCovers == Spec => []MissingCoversOutstanding
  <1>1. IInv => MissingCoversOutstanding
    BY DEF IInv
  <1> QED
    BY <1>1, Invariance, PTL

\* No terminate request is answered while a resource server still has
\* cleanup work of it to do, also when servers die or give up meanwhile.
THEOREM TerminationSound == Spec => []AnsweredAfterCleanup
  <1>1. ASSUME IInv PROVE AnsweredAfterCleanup
    <2> SUFFICES ASSUME ~pending_termination PROVE Outstanding = {}
      BY DEF AnsweredAfterCleanup
    <2>1. Cardinality(Outstanding) <= 0
      BY <1>1 DEF IInv, MissingCoversOutstanding
    <2>2. IsFiniteSet(Outstanding) /\ Cardinality(Outstanding) \in Nat
      BY <1>1, OutstandingFinite DEF IInv
    <2>3. Cardinality(Outstanding) = 0
      BY <2>1, <2>2
    <2> QED
      BY <2>2, <2>3, FS_EmptySet
  <1> QED
    BY <1>1, Invariance, PTL

\* No server of resource_server_main waits for a message while one of its
\* pending_work lists holds an entry and no signal is under way.
THEOREM WakeupsKept == Spec => []NoLostWakeup
  <1>1. IInv => NoLostWakeup
    BY DEF IInv
  <1> QED
    BY <1>1, Invariance, PTL

\* A SEND report in handle_finish_work_req can only be about the send whose
\* reply cap is saved, until a send fails after it has queued its entry.
THEOREM SendUnique == Spec => []OneSendOutstanding
  <1>1. IInv => OneSendOutstanding
    BY DEF IInv
  <1> QED
    BY <1>1, Invariance, PTL

\* The reply cap of a blocked caller is never overwritten.
THEOREM CallersOwed == Spec => []BlockedCallersAreOwed
  <1>1. IInv => BlockedCallersAreOwed
    BY DEF IInv
  <1> QED
    BY <1>1, Invariance, PTL

\* An extraction is answered by the subgraph that is the last one outstanding:
\* handle_send_subgraph_req never completes a model that lacks the part of a
\* server that still has an EXTRACT entry, also when servers die or give up.
\* Only an extraction that began among the entries of a failed one is excepted.
THEOREM ExtractionsComplete == Spec => ExtractionAnswerSound
  <1>1. Init => ExtractInv
    BY FS_EmptySet DEF Init, ExtractInv, Subgraphs, OutstandingOf, OfKind
  <1>2. Spec => []ExtractInv
    BY <1>1, NextKeepsExtract, Invariance, PTL DEF Spec
  <1>3. ASSUME IInv, ExtractInv, [Next]_vars, ExtractInv'
        PROVE  [pending_extraction /\ ~pending_extraction' /\ "EXTRACT" \notin stray
                  => OutstandingOf("EXTRACT")' = {}]_vars
    <2> SUFFICES ASSUME pending_extraction, ~pending_extraction', "EXTRACT" \notin stray
                 PROVE  "EXTRACT" \notin stray'
      BY <1>3 DEF ExtractInv, Subgraphs
    <2>1. \A c \in Clients : ~Dump(c)
      BY DEF Dump
    <2>2. ASSUME NEW c \in Clients, NEW s \in Servers, SendCap(c, s) PROVE FALSE
      BY <2>2 DEF SendCap, extrVars
    <2>3. ASSUME NEW p, NEW killed, Terminate(p, killed) \/ Exit(p, killed) PROVE FALSE
      BY <2>3 DEF Terminate, Exit, DestroyPds
    <2>4. ASSUME NEW s \in Servers, ServerStep(s) PROVE stray' = stray
      BY <2>4 DEF ServerStep, Wake, GetWork, NoWork, FinishCleanup, FinishSend,
                  SendSubgraph, Abandon, EndBatch
    <2>5. CASE UNCHANGED vars
      BY <2>5 DEF vars, extrVars
    <2> QED
      BY <1>3, <2>1, <2>2, <2>3, <2>4, <2>5 DEF Next
  <1> QED
    BY <1>2, <1>3, Invariance, PTL DEF Spec, ExtractionAnswerSound
=============================================================================
