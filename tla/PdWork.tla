------------------------------- MODULE PdWork -------------------------------
(***************************************************************************)
(* The asynchronous work protocol between the root task (RT, the GPI       *)
(* server) and the resource-server PDs.                                    *)
(*                                                                         *)
(* The RT is one thread: it receives a message, runs the handler to the    *)
(* end and replies, so each handler is one action.  Three requests cannot  *)
(* be completed by the RT alone: terminating a PD, sending a non-core      *)
(* resource and extracting the model state.  For these the handler queues  *)
(* work entries on the PDs that manage the resources concerned, signals    *)
(* them, saves the caller's reply cap and does not reply.  A resource      *)
(* server that is woken drains its lists with get_work, runs its work      *)
(* handler on every batch, and reports it with finish_work (or             *)
(* send_subgraph), on which the RT counts down and answers the caller.     *)
(*                                                                         *)
(* Which managers a request owes work to depends on what the PDs hold.     *)
(* That is left open here: a request may queue any small batch of entries  *)
(* for live servers, and destroying a PD may take any set of further PDs   *)
(* with it (linked PDs, the cleanup policy).                               *)
(***************************************************************************)
EXTENDS Integers, FiniteSets, FiniteSetsExt

CONSTANTS
  Servers,        \* PDs that run resource_server_main
  Clients,        \* PDs that make the requests
  Victims,        \* PDs that a client may terminate (or that go with one)
  Exiters,        \* PDs that may exit on their own account
  NoHandler,      \* <<server, action>>: its work handler never finishes it
  Fallible,       \* may a work handler return before it calls finish_work?
  DumpMayFail,    \* may pd_dump report an error after it queued work?
  MaxBatch,       \* entries handed out by one get_work (16 in the .proto)
  MaxPerRequest,  \* bound: entries queued by one request
  MaxWork,        \* bound: entries queued in a behaviour
  None            \* no reply cap

PDs == Servers \cup Clients

\* Work lists, in the order get_work looks at them (PdWorkAction).
Actions  == {"EXTRACT", "SEND", "FREE", "DESTROY"}
Priority == [EXTRACT |-> 0, SEND |-> 1, FREE |-> 2, DESTROY |-> 3]
Cleanup  == {"FREE", "DESTROY"}

ASSUME PdWorkAssumption ==
  /\ Servers \cap Clients = {}
  /\ Victims \subseteq PDs
  /\ Exiters \subseteq PDs
  /\ NoHandler \subseteq Servers \X Actions
  /\ Fallible \in BOOLEAN
  /\ DumpMayFail \in BOOLEAN
  /\ MaxBatch \in Nat \ {0}
  /\ MaxPerRequest \in Nat
  /\ MaxWork \in Nat
  /\ None \notin Clients

\* One pd_work_entry_t; id is its age, so a list is ordered by id.
WorkEntry == [id : Nat, pd : Servers, action : Actions, is_critical : BOOLEAN]

VARIABLES
  live,       \* PDs in the PD registry
  queued,     \* entries on the pending_work lists of all PDs
  held,       \* entries handed to a server that has not reported them yet
  issued,     \* id of the youngest entry
  signalled,  \* servers whose notification object is signalled
  draining,   \* servers inside the get_work loop
  waiting,    \* what each client's thread is blocked on
  stray,      \* history: SEND, EXTRACT if an operation of that kind failed after
              \* it had queued work, which may still be there
  pending_termination, pd_termination_n_missing, pd_termination_reply,
  pending_extraction, model_extraction_n_missing, model_extraction_reply,
  pending_send_resource, send_resource_reply

termVars == <<pending_termination, pd_termination_n_missing, pd_termination_reply>>
extrVars == <<pending_extraction, model_extraction_n_missing, model_extraction_reply>>
sendVars == <<pending_send_resource, send_resource_reply>>
workVars == <<live, queued, held, issued, signalled, draining, waiting, stray>>
vars     == <<workVars, termVars, extrVars, sendVars>>

TypeOK ==
  /\ live \subseteq PDs
  /\ queued \subseteq WorkEntry
  /\ held \subseteq WorkEntry
  /\ IsFiniteSet(queued) /\ IsFiniteSet(held)
  /\ issued \in Nat
  /\ signalled \subseteq Servers
  /\ draining \subseteq Servers
  /\ waiting \in [Clients -> {"nothing", "terminate", "send", "dump"}]
  /\ stray \subseteq {"SEND", "EXTRACT"}
  /\ pending_termination \in BOOLEAN
  /\ pd_termination_n_missing \in Nat
  /\ pd_termination_reply \in Clients \cup {None}
  /\ pending_extraction \in BOOLEAN
  /\ model_extraction_n_missing \in Int
  /\ model_extraction_reply \in Clients \cup {None}
  /\ pending_send_resource \in BOOLEAN
  /\ send_resource_reply \in Clients \cup {None}

Init ==
  /\ live = PDs
  /\ queued = {} /\ held = {} /\ issued = 0
  /\ signalled = {} /\ draining = {}
  /\ waiting = [c \in Clients |-> "nothing"]
  /\ stray = {}
  /\ pending_termination = FALSE
  /\ pd_termination_n_missing = 0
  /\ pd_termination_reply = None
  /\ pending_extraction = FALSE
  /\ model_extraction_n_missing = 0
  /\ model_extraction_reply = None
  /\ pending_send_resource = FALSE
  /\ send_resource_reply = None

-----------------------------------------------------------------------------
(* Helpers *)

OfPd(W, s)   == {w \in W : w.pd = s}
Critical(W)  == {w \in W : w.is_critical}
OfKind(W, A) == {w \in W : w.action \in A}

\* The batches of new entries, for PDs in S, that one request can queue.
Batches(S, A, flags) ==
  {b \in SUBSET [id : issued + 1 .. Min({issued + MaxPerRequest, MaxWork}),
                 pd : S, action : A, is_critical : flags] :
     IsFiniteSet(b) /\ {w.id : w \in b} = issued + 1 .. issued + Cardinality(b)}

\* The pd_component_queue_*_work calls: append the entries, signal the PDs.
\* Q is what the lists hold otherwise.
Queue(Q, b) ==
  /\ queued' = Q \cup b
  /\ issued' = issued + Cardinality(b)
  /\ signalled' = (signalled \cup {w.pd : w \in b}) \cap live'

\* MUTANT: the reply is never sent.
AnswerNobody(c) == UNCHANGED waiting

\* A client's seL4_Call returns.  Replying to a dead client does nothing.
Answer(c) ==
  waiting' = IF c \in Clients THEN [waiting EXCEPT ![c] = "nothing"] ELSE waiting

-----------------------------------------------------------------------------
(* Requests that clients make of the RT.  A request that finds the same     *)
(* kind of operation in progress is refused at once (OPERATION_IN_PROGRESS) *)
(* and leaves the state alone, so it is no step of this specification.      *)

Idle(c) == c \in live /\ waiting[c] = "nothing"

\* MUTANT: no check for a termination in progress.
CanTerminateUnchecked(c) == Idle(c)
CanTerminate(c) == Idle(c) /\ ~pending_termination

\* MUTANT: no check for a send in progress.
CanSendUnchecked(c) == Idle(c)
CanSend(c) == Idle(c) /\ ~pending_send_resource

\* The entries that go with the lists of the PDs in killed.
Dropped(killed) == {w \in queued : w.pd \in killed}

\* resource_registry_delete on the PDs in killed: each is destroyed, leaves
\* the registry and its lists are emptied, counting down for the critical
\* entries.  b is the work queued for the managers that survive.
DestroyPds(killed, b) ==
  /\ live' = live \ killed
  /\ held' = {w \in held : w.pd \notin killed}
  /\ draining' = draining \ killed
  /\ Queue(queued \ Dropped(killed), b)
  /\ model_extraction_n_missing' = model_extraction_n_missing -
       Cardinality(Critical(OfKind(Dropped(killed), {"EXTRACT"})))
  /\ UNCHANGED <<stray, pending_extraction, model_extraction_reply, sendVars>>

\* MUTANT: entries that are not critical are counted down too.
MissingAfterAny(killed, b) ==
  pd_termination_n_missing + Cardinality(Critical(b)) -
    Cardinality(OfKind(Dropped(killed), Cleanup))

\* MUTANT: every entry that is dropped is counted down.
MissingAfterAll(killed, b) ==
  pd_termination_n_missing + Cardinality(Critical(b)) - Cardinality(Dropped(killed))

\* What pd_termination_n_missing is once the PDs in killed are destroyed.
MissingAfter(killed, b) ==
  pd_termination_n_missing + Cardinality(Critical(b)) -
    Cardinality(Critical(OfKind(Dropped(killed), Cleanup)))

\* Threads of destroyed clients wait no more.
Waiting(killed) ==
  [c \in Clients |-> IF c \in killed THEN "nothing" ELSE waiting[c]]

\* handle_terminate_req: work queued while starting_termination is critical.
Terminate(c, killed) ==
  /\ CanTerminate(c)
  /\ killed # {} /\ killed \subseteq Victims \cap live
  /\ \E b \in Batches((live \ killed) \cap Servers, Cleanup, {TRUE}) :
       LET n == MissingAfter(killed, b) IN
       /\ DestroyPds(killed, b)
       /\ pd_termination_n_missing' = n
       /\ pending_termination' = (n > 0)
       /\ pd_termination_reply' = IF n > 0 THEN c ELSE pd_termination_reply
       /\ waiting' = IF n > 0 /\ c \notin killed
                       THEN [Waiting(killed) EXCEPT ![c] = "terminate"]
                       ELSE Waiting(killed)

\* handle_exit_req: nobody waits for the cleanup, so its work is not critical.
Exit(p, killed) ==
  /\ p \in Exiters \cap live /\ p \in killed
  /\ killed \subseteq (Victims \cap live) \cup {p}
  /\ p \in Clients => waiting[p] = "nothing"
  /\ \E b \in Batches((live \ killed) \cap Servers, Cleanup, {FALSE}) :
       /\ DestroyPds(killed, b)
       /\ pd_termination_n_missing' = MissingAfter(killed, b)
  /\ waiting' = Waiting(killed)
  /\ UNCHANGED <<pending_termination, pd_termination_reply>>

\* The work that is queued or handed out of an operation of kind a.
OutstandingOf(a) == OfKind(queued \cup held, {a})

\* An operation of kind a begins: entries of a failed one are a nuisance to it
\* only as long as they are there.
Begins(a) == stray' = IF OutstandingOf(a) = {} THEN stray \ {a} ELSE stray

\* handle_send_cap_req for a non-core resource managed by PD s: the caller waits
\* until s has noted the new holder.  pd_send_cap mints the cap after it has
\* queued the work, and may then set the core cap of the receiver (is_core_cap,
\* which only core caps pass).  When one of them fails the caller is answered
\* at once and the entry stays.
SendCap(c, s) ==
  /\ CanSend(c)
  /\ s \in Servers \cap live
  /\ \E b \in Batches({s}, {"SEND"}, {FALSE}) :
       /\ Cardinality(b) = 1
       /\ UNCHANGED live
       /\ Queue(queued, b)
  /\ \/ /\ pending_send_resource' = TRUE
        /\ send_resource_reply' = c
        /\ waiting' = [waiting EXCEPT ![c] = "send"]
        /\ Begins("SEND")
     \/ /\ stray' = stray \cup {"SEND"}
        /\ UNCHANGED <<waiting, sendVars>>
  /\ UNCHANGED <<held, draining, termVars, extrVars>>

\* handle_dump_cap_req.  An EXTRACT entry is allocated with the size of a
\* gpi_res_id_t, so its is_critical lies beyond the allocation and reads as
\* anything; pd_dump_internal returns an uninitialised error code.
Dump(c) ==
  /\ Idle(c) /\ ~pending_extraction
  /\ UNCHANGED live
  /\ \E b \in Batches(live \cap Servers, {"EXTRACT"}, BOOLEAN) :
       /\ Queue(queued, b)
       /\ model_extraction_n_missing' = Cardinality(b)
       /\ \/ /\ b # {}
             /\ pending_extraction' = TRUE
             /\ model_extraction_reply' = c
             /\ waiting' = [waiting EXCEPT ![c] = "dump"]
             /\ Begins("EXTRACT")
          \/ /\ b = {} \/ DumpMayFail
             /\ stray' = IF b = {} THEN stray ELSE stray \cup {"EXTRACT"}
             /\ UNCHANGED <<pending_extraction, model_extraction_reply, waiting>>
  /\ UNCHANGED <<held, draining, termVars, sendVars>>

-----------------------------------------------------------------------------
(* The resource server's loop (resource_server_main) and the RT handlers it *)
(* calls.                                                                   *)

\* The server receives NOTIF_BADGE, which clears the notification.
Wake(s) ==
  /\ s \in signalled \ draining
  /\ signalled' = signalled \ {s}
  /\ draining' = draining \cup {s}
  /\ UNCHANGED <<live, queued, held, issued, waiting, stray, termVars, extrVars, sendVars>>

\* handle_get_work_req: the oldest entries of the first list that has any.
GetWork(s) ==
  /\ s \in draining /\ OfPd(held, s) = {}
  /\ \E a \in Actions :
       LET list == OfKind(OfPd(queued, s), {a}) IN
       /\ list # {}
       /\ \A w \in OfPd(queued, s) : Priority[a] <= Priority[w.action]
       /\ \E b \in SUBSET list :
            /\ Cardinality(b) = Min({MaxBatch, Cardinality(list)})
            /\ \A x \in b, y \in list \ b : x.id < y.id
            /\ queued' = queued \ b
            /\ held' = held \cup b
  /\ UNCHANGED <<live, issued, signalled, draining, waiting, stray, termVars, extrVars, sendVars>>

\* MUTANT: the server handles one batch for each notification.
NoWorkEarly(s) ==
  /\ s \in draining /\ OfPd(held, s) = {}
  /\ draining' = draining \ {s}
  /\ UNCHANGED <<live, queued, held, issued, signalled, waiting, stray,
                 termVars, extrVars, sendVars>>

\* handle_get_work_req returns NO_WORK: the server goes back to receiving.
NoWork(s) ==
  /\ s \in draining /\ OfPd(held, s) = {}
  /\ OfPd(queued, s) = {}
  /\ draining' = draining \ {s}
  /\ UNCHANGED <<live, queued, held, issued, signalled, waiting, stray,
                 termVars, extrVars, sendVars>>

\* The work handler ends for the batch that s holds, of an action in A.
EndBatch(s, A) ==
  /\ OfPd(held, s) # {}
  /\ \A w \in OfPd(held, s) : w.action \in A
  /\ held' = held \ OfPd(held, s)
  /\ UNCHANGED <<live, queued, issued, signalled, draining, stray>>

Handles(s) == \A w \in OfPd(held, s) : <<s, w.action>> \notin NoHandler

\* MUTANT: all requests of the batch are counted, critical or not.
CleanupLeftByRequests(s) ==
  LET n == Cardinality(OfPd(held, s))
  IN  IF n > pd_termination_n_missing THEN 0 ELSE pd_termination_n_missing - n

\* MUTANT: a report counts as one, whatever the size of its batch.
CleanupLeftByReports(s) ==
  IF pd_termination_n_missing = 0 THEN 0 ELSE pd_termination_n_missing - 1

\* The counter after s reports its batch, never below zero.
CleanupLeft(s) ==
  LET n_critical == Cardinality(Critical(OfPd(held, s)))
  IN  IF n_critical > pd_termination_n_missing THEN 0
      ELSE pd_termination_n_missing - n_critical

\* handle_finish_work_req for FREE and DESTROY.
FinishCleanup(s) ==
  /\ Handles(s)
  /\ EndBatch(s, Cleanup)
  /\ \/ /\ ~pending_termination
        /\ UNCHANGED <<waiting, termVars>>
     \/ /\ pending_termination
        /\ pd_termination_n_missing' = CleanupLeft(s)
        /\ pending_termination' = (CleanupLeft(s) # 0)
        /\ IF CleanupLeft(s) = 0 THEN Answer(pd_termination_reply) ELSE UNCHANGED waiting
        /\ UNCHANGED pd_termination_reply
  /\ UNCHANGED <<extrVars, sendVars>>

\* handle_finish_work_req for SEND.
FinishSend(s) ==
  /\ Handles(s)
  /\ EndBatch(s, {"SEND"})
  /\ IF pending_send_resource THEN Answer(send_resource_reply) ELSE UNCHANGED waiting
  /\ pending_send_resource' = FALSE
  /\ UNCHANGED <<send_resource_reply, termVars, extrVars>>

\* MUTANT: a subgraph counts as one, whatever the size of its batch.
ExtractLeftByReports(s) == model_extraction_n_missing - 1

\* MUTANT: the first subgraph completes the model.
ExtractLeftNone(s) == 0

\* The server counts the whole batch as fulfilled (n_requests).
ExtractLeft(s) == model_extraction_n_missing - Cardinality(OfPd(held, s))

\* handle_send_subgraph_req
SendSubgraph(s) ==
  /\ Handles(s)
  /\ EndBatch(s, {"EXTRACT"})
  /\ \/ /\ ~pending_extraction
        /\ UNCHANGED <<waiting, extrVars>>
     \/ /\ pending_extraction
        /\ model_extraction_n_missing' = ExtractLeft(s)
        /\ pending_extraction' = (ExtractLeft(s) # 0)
        /\ IF ExtractLeft(s) = 0 THEN Answer(model_extraction_reply) ELSE UNCHANGED waiting
        /\ UNCHANGED model_extraction_reply
  /\ UNCHANGED <<termVars, sendVars>>

\* The work handler returns without reporting the batch; resource_server_main
\* ignores its return value and asks for the next one.
Abandon(s) ==
  /\ Fallible \/ ~Handles(s)
  /\ EndBatch(s, Actions)
  /\ UNCHANGED <<waiting, termVars, extrVars, sendVars>>

-----------------------------------------------------------------------------
ServerStep(s) ==
  \/ Wake(s) \/ GetWork(s) \/ NoWork(s)
  \/ FinishCleanup(s) \/ FinishSend(s) \/ SendSubgraph(s) \/ Abandon(s)

Next ==
  \/ \E c \in Clients, killed \in SUBSET Victims : Terminate(c, killed)
  \/ \E p \in Exiters, killed \in SUBSET PDs : Exit(p, killed)
  \/ \E c \in Clients, s \in Servers : SendCap(c, s)
  \/ \E c \in Clients : Dump(c)
  \/ \E s \in Servers : ServerStep(s)

Spec == Init /\ [][Next]_vars

\* seL4 schedules PDs of one priority round robin, so a server thread that
\* can run does run; the RT runs above them and answers every call.
FairSpec == Spec /\ \A s \in Servers : WF_vars(ServerStep(s))

-----------------------------------------------------------------------------
(* Safety *)

\* Critical cleanup work that some server still has to do.
Outstanding == Critical(OfKind(queued \cup held, Cleanup))

\* A terminate request is answered only after the resource servers did all
\* the cleanup it caused: while critical work is outstanding the termination
\* is pending.  The RT only keeps a counter (pd_termination_n_missing) that
\* several handlers adjust, and servers may die or fail in between.
AnsweredAfterCleanup == Outstanding # {} => pending_termination

\* The counter never runs below the work it stands for, and is zero between
\* terminations (handle_terminate_req adds to whatever it finds).
MissingCoversOutstanding ==
  /\ Cardinality(Outstanding) <= pd_termination_n_missing
  /\ ~pending_termination => pd_termination_n_missing = 0

\* No lost wake-up: a server with queued work is either signalled or still in
\* its get_work loop, whichever way new work, the draining of the lists and
\* the clearing of the notification interleave.
NoLostWakeup == \A w \in queued : w.pd \in signalled \cup draining

\* handle_finish_work_req takes any SEND report for the pending one.  As long
\* as no send has failed after queueing its entry, that is sound: no two SEND
\* entries exist at once and each has its operation pending, also after a
\* server died or gave up on one.  A failed send spoils this only until a
\* later one finds no SEND entry outstanding.
OneSendOutstanding ==
  "SEND" \notin stray =>
    \A v, w \in OutstandingOf("SEND") : v = w /\ pending_send_resource

\* A blocked caller is the one whose reply cap the RT has saved for a pending
\* operation of that kind: no reply cap of a live caller is overwritten.
BlockedCallersAreOwed ==
  \A c \in Clients :
    /\ waiting[c] = "terminate" => pending_termination /\ pd_termination_reply = c
    /\ waiting[c] = "send" => pending_send_resource /\ send_resource_reply = c
    /\ waiting[c] = "dump" => pending_extraction /\ model_extraction_reply = c

\* A model extraction is answered only when no server owes a subgraph any
\* more, so that the printed model is complete, unless it began among the
\* EXTRACT entries of a dump that failed after queueing them.
ExtractionAnswerSound ==
  [][pending_extraction /\ ~pending_extraction' /\ "EXTRACT" \notin stray
       => OutstandingOf("EXTRACT")' = {}]_vars

\* "Wait for the resource server to complete the work before replying"
\* (handle_send_cap_req): a send is answered when its server has noted the new
\* holder, so no SEND entry is outstanding after the answer.  It fails: the
\* report of an entry that a failed send has left answers the next send.
SendAnsweredAfterWork ==
  [][pending_send_resource /\ ~pending_send_resource'
       => OutstandingOf("SEND")' = {}]_vars

-----------------------------------------------------------------------------
(* Liveness, under FairSpec *)

\* Every terminate call returns.
TerminateAnswered ==
  \A c \in Clients : waiting[c] = "terminate" ~> waiting[c] = "nothing"

\* Every send of a non-core resource returns.
SendAnswered == \A c \in Clients : waiting[c] = "send" ~> waiting[c] = "nothing"

\* Every model extraction returns.
DumpAnswered == \A c \in Clients : waiting[c] = "dump" ~> waiting[c] = "nothing"

=============================================================================
