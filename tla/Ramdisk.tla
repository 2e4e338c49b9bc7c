------------------------------ MODULE Ramdisk ------------------------------
(***************************************************************************)
(* The ramdisk server: it hands out the blocks of a disk to client PDs and *)
(* takes them back.  The blocks that nobody has are kept in a linked list  *)
(* of runs.  The root task records which PD holds which block, and tells   *)
(* the server by FREE work about the blocks of a PD that was destroyed.    *)
(*                                                                         *)
(* A request of a client has two parts: what the server does to its list,  *)
(* and a call of the root task (give or revoke).  A client can be          *)
(* destroyed in between.  The server is woken for work before it receives  *)
(* another request.                                                        *)
(***************************************************************************)
EXTENDS Integers, SequencesExt

CONSTANTS
  Clients,    \* the PDs that use the ramdisk
  NumBlocks,  \* RAMDISK_SIZE_BYTES / RAMDISK_BLOCK_SIZE
  None

Blocks == 0 .. NumBlocks - 1

\* ramdisk_block_node_t: n_blocks free blocks from blockno on
Node    == [blockno : Blocks, n_blocks : 1 .. NumBlocks]
Request == [op : {"alloc", "free"}, client : Clients, block : Blocks]

ASSUME RamdiskAssumption ==
  NumBlocks \in Nat \ {0} /\ None \notin Clients \cup Request

VARIABLES
  free_blocks,  \* the list of runs
  corrupt,      \* a node of the list has been given back to malloc
  current,      \* the request whose call of the root task is outstanding
  live,         \* the clients that exist
  holds,        \* holds[c][b]: count of block b in the hold registry of c
  freeq,        \* FREE work queued for the server
  sender,       \* the client whose send of a block is never answered
  sent          \* the blocks that were sent

vars == <<free_blocks, corrupt, current, live, holds, freeq, sender, sent>>

TypeOK ==
  /\ free_blocks \in Seq(Node)
  /\ corrupt \in BOOLEAN
  /\ current \in Request \cup {None}
  /\ live \subseteq Clients
  /\ holds \in [Clients -> [Blocks -> Nat]]
  /\ freeq \in Seq(Blocks)
  /\ sender \in Clients \cup {None}
  /\ sent \subseteq Blocks

\* ramdisk_init: one run with all blocks
Init ==
  /\ free_blocks = <<[blockno |-> 0, n_blocks |-> NumBlocks]>>
  /\ corrupt = FALSE
  /\ current = None
  /\ live = Clients
  /\ holds = [c \in Clients |-> [b \in Blocks |-> 0]]
  /\ freeq = <<>>
  /\ sender = None
  /\ sent = {}

-----------------------------------------------------------------------------
(* The list *)

Run(b, n) == [blockno |-> b, n_blocks |-> n]

\* MUTANT: a run keeps its length when its first block is taken.
AllocKeepsLength(list) ==
  IF list[1].n_blocks = 1 THEN Tail(list)
  ELSE [list EXCEPT ![1] = Run(@.blockno + 1, @.n_blocks)]

\* alloc_block takes the first block of the first run.
AllocBlock(list) ==
  IF list[1].n_blocks = 1 THEN Tail(list)
  ELSE [list EXCEPT ![1] = Run(@.blockno + 1, @.n_blocks - 1)]

\* The scan of free_block stops at node i: the block goes before the node or
\* at its end.
Stops(list, b, i) ==
  LET Here(j) == list[j].blockno > b \/ list[j].blockno + list[j].n_blocks = b
  IN Here(i) /\ \A j \in 1 .. i - 1 : ~Here(j)

\* MUTANT: the block next to the following run is not merged with it.
AtEndUnmerged(list, i) == [list EXCEPT ![i] = Run(@.blockno, @.n_blocks + 1)]

\* Block b extends run i; the run behind it is merged when they now touch.
AtEnd(list, i) ==
  LET n == list[i].n_blocks + 1 IN
  IF i < Len(list) /\ list[i + 1].blockno = list[i].blockno + n
  THEN RemoveAt([list EXCEPT ![i] = Run(@.blockno, n + list[i + 1].n_blocks)], i + 1)
  ELSE [list EXCEPT ![i] = Run(@.blockno, n)]

\* free_block.  prev is declared and tested but never assigned: the code that
\* inserts a node always makes it the head, and what was before it is lost.
FreeBlock(list, b) ==
  IF \A i \in DOMAIN list : ~Stops(list, b, i) THEN <<Run(b, 1)>>
  ELSE LET i == CHOOSE j \in DOMAIN list : Stops(list, b, j) IN
       CASE list[i].blockno = b + 1 -> [list EXCEPT ![i] = Run(b, @.n_blocks + 1)]
         [] list[i].blockno < b     -> AtEnd(list, i)
         [] OTHER                   -> <<Run(b, 1)>> \o SubSeq(list, i, Len(list))

\* free_block merges run i with the one behind it and then frees, instead of
\* that node, the one it has just linked.  (Without one it is free(NULL).)
FreesLinkedNode(list, b) ==
  \E i \in DOMAIN list :
    /\ Stops(list, b, i) /\ list[i].blockno < b
    /\ i + 2 <= Len(list) /\ list[i + 1].blockno = b + 1

\* The blocks that the list offers.
FreeBlocks(list) ==
  UNION {list[i].blockno .. list[i].blockno + list[i].n_blocks - 1 : i \in DOMAIN list}

-----------------------------------------------------------------------------
(* Requests.  From a use of a freed node on, behaviours are not followed. *)

Serving(c) == current # None /\ current.client = c

\* MUTANT: requests are received before the work that is waiting.
ReadyBeforeWork == ~corrupt /\ current = None

\* resource_server_main receives a request only when no work is waiting.
Ready == ~corrupt /\ current = None /\ freeq = <<>>

MayCall(c) == c \in live /\ ~Serving(c) /\ sender # c

\* RamdiskAction_ALLOC up to the call of the root task
Alloc(c) ==
  /\ Ready /\ MayCall(c)
  /\ free_blocks # <<>>
  /\ current' = [op |-> "alloc", client |-> c, block |-> free_blocks[1].blockno]
  /\ free_blocks' = AllocBlock(free_blocks)
  /\ UNCHANGED <<corrupt, live, holds, freeq, sender, sent>>

\* pd_add_resource: a block that c has already is counted.
AddResource(c, b) == [holds EXCEPT ![c][b] = @ + 1]

\* handle_give_resource_req: it fails when the client is gone.
GiveResource(c, b) == holds' = IF c \in live THEN AddResource(c, b) ELSE holds

\* resource_server_give_resource returns; a block not given stays off the list.
Given ==
  /\ current # None /\ current.op = "alloc" /\ ~corrupt
  /\ GiveResource(current.client, current.block)
  /\ current' = None
  /\ UNCHANGED <<free_blocks, corrupt, live, freeq, sender, sent>>

\* What a call of free_block does.
Release(b) == /\ free_blocks' = FreeBlock(free_blocks, b)
              /\ corrupt' = FreesLinkedNode(free_blocks, b)

\* RamdiskAction_FREE up to the call of the root task
Free(c, b) ==
  /\ Ready /\ MayCall(c)
  /\ holds[c][b] > 0
  /\ Release(b)
  /\ current' = [op |-> "free", client |-> c, block |-> b]
  /\ UNCHANGED <<live, holds, freeq, sender, sent>>

\* handle_revoke_resource_request, pd_remove_resource: one less, if c has it.
RevokeResource(c, b) ==
  IF holds[c][b] > 0 THEN [holds EXCEPT ![c][b] = @ - 1] ELSE holds

\* resspc_client_revoke_resource returns.
Revoked ==
  /\ current # None /\ current.op = "free" /\ ~corrupt
  /\ holds' = RevokeResource(current.client, current.block)
  /\ current' = None
  /\ UNCHANGED <<free_blocks, corrupt, live, freeq, sender, sent>>

\* PdWorkAction_FREE.  The handler frees a batch without a call in between.
FreeWork ==
  /\ ~corrupt /\ current = None /\ freeq # <<>>
  /\ Release(Head(freeq))
  /\ freeq' = Tail(freeq)
  /\ UNCHANGED <<current, live, holds, sender, sent>>

-----------------------------------------------------------------------------
(* The root task *)

Held(c) == {b \in Blocks : holds[c][b] > 0}

\* A client exits or is terminated: pd_held_resource_on_delete queues one FREE
\* for each block that it holds, however often.  They come in the order of the
\* registry, which can be any.
Destroy(c) ==
  /\ c \in live
  /\ live' = live \ {c}
  /\ \E q \in SetToSeqs(Held(c)) : freeq' = freeq \o q
  /\ holds' = [holds EXCEPT ![c] = [b \in Blocks |-> 0]]
  /\ UNCHANGED <<free_blocks, corrupt, current, sender, sent>>

\* pd_send_cap gives the block to d at once.  The server refuses the SEND work
\* and never finishes it: c waits for ever, and no other send is let in.
SendCap(c, d, b) ==
  /\ MayCall(c) /\ d \in live /\ sender = None
  /\ holds[c][b] > 0
  /\ holds' = AddResource(d, b)
  /\ sender' = c
  /\ sent' = sent \cup {b}
  /\ UNCHANGED <<free_blocks, corrupt, current, live, freeq>>

Next ==
  \/ \E c \in Clients : Alloc(c) \/ Destroy(c)
  \/ \E c \in Clients, b \in Blocks : Free(c, b)
  \/ \E c, d \in Clients, b \in Blocks : SendCap(c, d, b)
  \/ Given \/ Revoked \/ FreeWork

Spec == Init /\ [][Next]_vars

-----------------------------------------------------------------------------
(* Properties *)

\* The list stays sorted, with a gap between any two runs, whatever the order
\* in which blocks come back, those that come back twice included.
ListOrdered ==
  \A i \in 1 .. Len(free_blocks) - 1 :
    free_blocks[i].blockno + free_blocks[i].n_blocks < free_blocks[i + 1].blockno

\* The block whose request is not finished counts as its client's.
Holds(c, b) ==
  \/ holds[c][b] > 0 /\ current # [op |-> "free", client |-> c, block |-> b]
  \/ current = [op |-> "alloc", client |-> c, block |-> b]

\* A block that was never sent is never both free, or about to be freed, and
\* in the hands of a client; nor in the hands of two.  This has to survive a
\* client that is terminated while the server frees a block for it, which
\* frees the block twice.
NoSharing ==
  \A b \in Blocks \ sent : \A c \in Clients : Holds(c, b) =>
    /\ b \notin FreeBlocks(free_blocks) \cup ToSet(freeq)
    /\ \A d \in Clients \ {c} : ~Holds(d, b)

\* A block given back is free, and so is every block that was.  (free_block:
\* "Mark a block as free", "we need to insert at the end of the list".)
FreeingLosesNothing ==
  [][FreeBlocks(free_blocks') \subseteq FreeBlocks(free_blocks) \/
     FreeBlocks(free_blocks) \subseteq FreeBlocks(free_blocks')]_vars

=============================================================================
