----------------------------- MODULE FileServer -----------------------------
(***************************************************************************)
(* The xv6fs file server.  Three records are kept of an open file: the     *)
(* in-memory inode with its reference count, the server's file registry    *)
(* with a count and one struct file, and the hold registries of the client *)
(* PDs in the root task.  Files have names in the default space or in a    *)
(* namespace, which is a directory and a resource space of its own.        *)
(*                                                                         *)
(* The server is woken for work of the root task (SEND before FREE) before *)
(* it receives a request.  While it serves one, clients may exit, or send  *)
(* what they hold to each other; Receive fixes the request and the action  *)
(* named after it does what the handler does.  Its calls of the root task  *)
(* come after what it does to its own records, so that what happens        *)
(* between them might as well happen before.                               *)
(*                                                                         *)
(* Directories are not inodes here.  Linking is not modelled: see README.  *)
(* The cleanup policy has depth 0 for resource spaces, as by default:      *)
(* otherwise the server, whose spaces are mapped, would get DESTROY work.  *)
(***************************************************************************)
EXTENDS Integers, Sequences, FiniteSets

CONSTANTS
  Clients,
  NumInodes,     \* inode numbers 1 .. NumInodes are for files
  Names,         \* file names: <<space, name>>
  Root,          \* id of the default space
  MaxHold,       \* how often a client opens a file before it closes it
  MaxRef,        \* bound of its counts when a file is opened or sent
  MaxSends,      \* bound of the SEND work that is queued
  None

Inodes == 1 .. NumInodes
SpaceOf(n) == n[1]
Spaces == {Root} \cup {SpaceOf(n) : n \in Names}
NS     == Spaces \ {Root}

ASSUME FsAssumption ==
  /\ NumInodes \in Nat \ {0} /\ {MaxHold, MaxRef, MaxSends} \subseteq Nat \ {0}
  /\ IsFiniteSet(Clients) /\ IsFiniteSet(Names)
  /\ None \notin Inodes \cup Clients

VARIABLES
  names,    \* names[n]: the inode of name n or None
  inode,    \* inode[i]: type # 0 (used), nlink, ref of its table entry, and
            \* whether the entry was not read from disk and has type 0 (unread)
  reg,      \* reg[i]: count of the entry in file_registry (0: no entry), ref
            \* of its struct file
  ns,       \* namespaces in ns_registry
  current,  \* the request that the server is serving, or None
  live,     \* clients that exist
  hold,     \* hold[c][s][i]: count in the hold registry of c (0: not held)
  freeq,    \* freeq[i]: FREE work queued for file i
  sendq,    \* the files of the SEND work queued
  waiting,  \* client whose send is not finished (pending_send_resource), or None
  hung,     \* xv6fs_panic was called
  miscounted \* history: files that were unlinked while a client had them open
            \* twice, whose close was cut off by the end of the client, or
            \* whose SEND work was left undone

fsVars == <<names, inode, reg, ns>>
rtVars == <<live, hold, freeq, sendq, waiting>>
vars   == <<fsVars, current, rtVars, hung, miscounted>>

Request ==
  [op : {"create", "open", "unlink"}, client : Clients, name : Names] \cup
  [op : {"close"}, client : Clients, space : Spaces, file : Inodes] \cup
  [op : {"ns", "delete_ns"}, client : Clients, space : NS]

TypeOK ==
  /\ names \in [Names -> Inodes \cup {None}]
  /\ inode \in [Inodes -> [used : BOOLEAN, nlink : Nat, ref : Nat, unread : BOOLEAN]]
  /\ reg \in [Inodes -> [count : Nat, ref : Nat]]
  /\ ns \subseteq NS
  /\ current \in Request \cup {None}
  /\ live \subseteq Clients
  /\ hold \in [Clients -> [Spaces -> [Inodes -> Nat]]]
  /\ freeq \in [Inodes -> Nat]
  /\ sendq \in Seq(Inodes)
  /\ waiting \in Clients \cup {None}
  /\ hung \in BOOLEAN
  /\ miscounted \subseteq Inodes

FreeInode == [used |-> FALSE, nlink |-> 0, ref |-> 0, unread |-> FALSE]
NoEntry   == [count |-> 0, ref |-> 0]

Init ==
  /\ names = [n \in Names |-> None]
  /\ inode = [i \in Inodes |-> FreeInode]
  /\ reg = [i \in Inodes |-> NoEntry]
  /\ ns = {} /\ current = None /\ live = Clients
  /\ hold = [c \in Clients |-> [s \in Spaces |-> [i \in Inodes |-> 0]]]
  /\ freeq = [i \in Inodes |-> 0]
  /\ sendq = <<>> /\ waiting = None /\ hung = FALSE /\ miscounted = {}

-----------------------------------------------------------------------------
(* The records of a file *)

\* iget and ilock, which reads the inode if its table entry is new.
IgetLock(ip) == [ip EXCEPT !.ref = @ + 1, !.unread = FALSE]

\* iget alone, on an entry whose type was left at 0.
IgetUnread(ip) == [ip EXCEPT !.ref = @ + 1, !.unread = TRUE]

\* MUTANT: the inode is freed with its last link, open or not.
IputEager(ip) == IF ip.nlink = 0 THEN FreeInode ELSE [ip EXCEPT !.ref = @ - 1]

\* iput frees an inode without links with its last reference.
Iput(ip) ==
  IF ip.ref = 1 /\ ip.nlink = 0 THEN FreeInode ELSE [ip EXCEPT !.ref = @ - 1]

\* fileclose: the struct file keeps its inode until its own count is zero.
Fileclose(ip, f) == IF f.ref = 1 THEN Iput(ip) ELSE ip

\* unlink_de (between the lookup and iunlockput)
UnlinkDe(ip) == Iput([IgetLock(ip) EXCEPT !.nlink = @ - 1])

\* MUTANT: a PD that does not hold the file is counted down too.
DeleteUnheld(h, i, S) ==
  [c \in Clients |-> [s \in Spaces |->
    IF s \in S THEN [h[c][s] EXCEPT ![i] = @ - 1] ELSE h[c][s]]]

\* resspc_client_delete_resource in the spaces S: pd_remove_resource takes one
\* off the count of every PD.
DeleteResource(h, i, S) ==
  [c \in Clients |-> [s \in Spaces |->
    IF s \in S /\ h[c][s][i] > 0 THEN [h[c][s] EXCEPT ![i] = @ - 1] ELSE h[c][s]]]

\* resource_registry_delete with file_registry_entry_on_delete
DeleteEntry(i) ==
  /\ reg' = [reg EXCEPT ![i] = NoEntry]
  /\ hold' = DeleteResource(hold, i, ns \cup {Root})

\* resource_registry_dec on an entry that exists
Dec(i) ==
  IF reg[i].count = 1
  THEN /\ DeleteEntry(i)
       /\ inode' = [inode EXCEPT ![i] = Fileclose(@, reg[i])]
  ELSE /\ reg' = [reg EXCEPT ![i].count = @ - 1]
       /\ UNCHANGED <<hold, inode>>

-----------------------------------------------------------------------------
(* Requests *)

Serving(c) == current # None /\ current.client = c
MayCall(c) == c \in live /\ ~Serving(c) /\ waiting # c
NoWork     == sendq = <<>> /\ \A i \in Inodes : freeq[i] = 0

\* The caps that a request comes on: the space of a name must have been known
\* to the client, a file is held by it.
Sendable(r) ==
  CASE r.op \in {"create", "open"} -> \A i \in Inodes : names[r.name] = i =>
                                        /\ hold[r.client][SpaceOf(r.name)][i] < MaxHold
                                        /\ inode[i].ref < MaxRef /\ reg[i].ref < MaxRef
    [] r.op = "delete_ns" -> \A n \in Names : names[n] # None => inode[names[n]].ref < MaxRef
    [] r.op = "close"  -> hold[r.client][r.space][r.file] > 0
    [] r.op = "ns"     -> r.space \notin ns
    [] OTHER           -> TRUE

Receive(r) ==
  /\ ~hung /\ current = None /\ NoWork
  /\ miscounted = {}                \* bound: what follows a miscount is left out
  /\ MayCall(r.client) /\ Sendable(r)
  /\ current' = r
  /\ UNCHANGED <<fsVars, rtVars, hung, miscounted>>

\* The handler replies.
Done == current' = None /\ UNCHANGED <<live, freeq, sendq, waiting>>

Exists(s) == s = Root \/ s \in ns

\* The first inode of the disk that is not in use.
Ialloc(i) == ~inode[i].used /\ \A j \in Inodes : j < i => inode[j].used

\* resource_server_give_resource fails if the client is gone.
Give(c, s, i) ==
  hold' = IF c \in live THEN [hold EXCEPT ![c][s][i] = @ + 1] ELSE hold

\* The file is added to the registry, or counted there; a second struct file
\* is closed and the first one is counted up instead.
Register(i, ip) ==
  IF reg[i].count = 0
  THEN /\ reg' = [reg EXCEPT ![i] = [count |-> 1, ref |-> 1]]
       /\ inode' = [inode EXCEPT ![i] = ip]
  ELSE /\ reg' = [reg EXCEPT ![i] = [count |-> @.count + 1, ref |-> @.ref + 1]]
       /\ inode' = [inode EXCEPT ![i] = Fileclose(ip, [count |-> 1, ref |-> 1])]

\* FsMessage_create: xv6fs_sys_open with or without O_CREAT, registry, give
Create ==
  /\ current # None /\ current.op \in {"create", "open"}
  /\ LET n == current.name
         s == SpaceOf(n)
     IN \/ /\ Exists(s) /\ names[n] # None
           /\ Register(names[n], IgetLock(inode[names[n]]))
           /\ Give(current.client, s, names[n])
           /\ UNCHANGED names
        \/ /\ Exists(s) /\ names[n] = None /\ current.op = "create"
           /\ \E i \in Inodes :
                /\ Ialloc(i)
                /\ names' = [names EXCEPT ![n] = i]
                /\ Register(i, [used |-> TRUE, nlink |-> 1, ref |-> 1, unread |-> FALSE])
                /\ Give(current.client, s, i)
        \/ /\ \/ ~Exists(s)
              \/ names[n] = None /\ (current.op = "open" \/ \A i \in Inodes : inode[i].used)
           /\ UNCHANGED <<names, reg, inode, hold>>     \* NO_NS, NO_FILE
  /\ Done
  /\ UNCHANGED <<ns, hung, miscounted>>

\* resspc_client_revoke_resource: it fails if the client or the space is gone.
Revoke(h, c, s, i) ==
  IF c \in live /\ Exists(s) /\ h[c][s][i] > 0 THEN [h EXCEPT ![c][s][i] = @ - 1] ELSE h

\* FsMessage_close: resource_registry_dec, then the hold of the client is
\* taken back, if the client exists.
Close ==
  /\ current # None /\ current.op = "close"
  /\ LET i == current.file
         c == current.client
         s == current.space
     IN \/ /\ reg[i].count = 0                          \* BADGE
           /\ UNCHANGED <<reg, inode, hold>>
        \/ /\ reg[i].count = 1
           /\ reg' = [reg EXCEPT ![i] = NoEntry]
           /\ inode' = [inode EXCEPT ![i] = Fileclose(@, reg[i])]
           /\ hold' = Revoke(DeleteResource(hold, i, ns \cup {Root}), c, s, i)
        \/ /\ reg[i].count > 1
           /\ reg' = [reg EXCEPT ![i].count = @ - 1]
           /\ hold' = Revoke(hold, c, s, i)
           /\ UNCHANGED inode
  /\ Done
  /\ UNCHANGED <<names, ns, hung, miscounted>>

OpenTwice(i) == \E c \in Clients, s \in Spaces : hold[c][s][i] > 1

\* FsMessage_unlink.  xv6fs_sys_unlink locks the inode of the name without
\* asking whether there is one: the server panics and is never heard of again.
Unlink ==
  /\ current # None /\ current.op = "unlink"
  /\ LET n == current.name
         s == SpaceOf(n)
         i == names[n]
         inNs == IF s = Root THEN hold ELSE DeleteResource(hold, i, {s})
     IN \/ /\ ~Exists(s) /\ Done                        \* NO_NS
           /\ UNCHANGED <<names, inode, reg, hold, hung, miscounted>>
        \/ /\ Exists(s) /\ i = None
           /\ hung' = TRUE
           /\ UNCHANGED <<names, inode, reg, current, rtVars, miscounted>>
        \/ /\ Exists(s) /\ i # None /\ Done
           /\ names' = [names EXCEPT ![n] = None]
           /\ IF inode[i].nlink = 1 /\ reg[i].count > 0    \* delete_file
              THEN /\ reg' = [reg EXCEPT ![i] = NoEntry]
                   /\ inode' = [inode EXCEPT ![i] = Fileclose(UnlinkDe(@), reg[i])]
                   /\ hold' = DeleteResource(inNs, i, ns \cup {Root})
                   /\ miscounted' = IF OpenTwice(i) THEN miscounted \cup {i} ELSE miscounted
              ELSE /\ inode' = [inode EXCEPT ![i] = UnlinkDe(@)]
                   /\ hold' = inNs
                   /\ UNCHANGED <<reg, miscounted>>
           /\ UNCHANGED hung
  /\ UNCHANGED ns

\* FsMessage_ns: making the directory or the resource space may fail.
NewNs ==
  /\ current # None /\ current.op = "ns"
  /\ ns' \in {ns, ns \cup {current.space}}
  /\ Done
  /\ UNCHANGED <<names, inode, reg, hold, hung, miscounted>>

\* What clear_dir passes over: it looks at the type of the table entry before
\* ilock has read it, which for an inode not in memory is the type of the last
\* inode that used the entry, zero if that was freed.  Its reference stays.
PassedOver(K, files) ==
  /\ {n \in files : inode[names[n]].unread} \subseteq K
  /\ \A n \in K : inode[names[n]].unread \/ inode[names[n]].ref = 0

\* FsMessage_delete_ns: destroy_ns.  A directory that was not emptied cannot
\* be unlinked: the namespace stays, without the files that were unlinked.
DeleteNs ==
  /\ current # None /\ current.op = "delete_ns"
  /\ LET s == current.space
         files == {n \in Names : SpaceOf(n) = s /\ names[n] # None}
     IN \/ s \notin ns /\ UNCHANGED <<fsVars, hold>>     \* NO_NS
        \/ /\ s \in ns
           /\ \E K \in SUBSET files :
                /\ PassedOver(K, files)
                /\ names' = [n \in Names |-> IF n \in files \ K THEN None ELSE names[n]]
                /\ inode' = [i \in Inodes |->
                     CASE \E n \in files \ K : names[n] = i -> UnlinkDe(inode[i])
                       [] \E n \in K : names[n] = i         -> IgetUnread(inode[i])
                       [] OTHER                              -> inode[i]]
                /\ ns' = IF K = {} THEN ns \ {s} ELSE ns
                /\ hold' = IF K # {} THEN hold
                           ELSE [c \in Clients |-> [hold[c] EXCEPT ![s] = [i \in Inodes |-> 0]]]
           /\ UNCHANGED reg
  /\ Done
  /\ UNCHANGED <<hung, miscounted>>

-----------------------------------------------------------------------------
(* Work *)

\* MUTANT: the copies that were sent are not counted.
CountSentNot(K) == reg

\* resource_registry_inc for the entries K of the SEND work
CountSent(K) ==
  [i \in Inodes |-> [reg[i] EXCEPT !.count = @ + Cardinality({k \in K : sendq[k] = i})]]

\* PdWorkAction_SEND, a batch of n: what came after get_work stays queued, but
\* finish_work answers whoever waits.  At a file that is not in the registry
\* the handler leaves the batch: what follows is not counted, and the work is
\* not reported finished.
SendWork ==
  /\ ~hung /\ current = None
  /\ \E n \in 1 .. Len(sendq) :
       LET Known(k) == reg[sendq[k]].count > 0
           counted == {k \in 1 .. n : \A m \in 1 .. k : Known(m)}
       IN /\ sendq' = SubSeq(sendq, n + 1, Len(sendq))
          /\ reg' = CountSent(counted)
          /\ waiting' = IF counted = 1 .. n THEN None ELSE waiting
          /\ miscounted' = miscounted \cup {sendq[k] : k \in {m \in 1 .. n : Known(m)} \ counted}
  /\ UNCHANGED <<names, inode, ns, current, live, hold, freeq, hung>>

\* MUTANT: the queue of FREE work comes before the queue of SEND work.
FreeFirst(i) == ~hung /\ current = None /\ freeq[i] > 0

\* handle_get_work_req returns FREE work when there is no SEND work.
FreeIsNext(i) == ~hung /\ current = None /\ sendq = <<>> /\ freeq[i] > 0

\* PdWorkAction_FREE, one file of the batch
FreeWork(i) ==
  /\ FreeIsNext(i)
  /\ freeq' = [freeq EXCEPT ![i] = @ - 1]
  /\ IF reg[i].count > 0 THEN Dec(i) ELSE UNCHANGED <<reg, hold, inode>>
  /\ UNCHANGED <<names, ns, current, live, sendq, waiting, hung, miscounted>>

-----------------------------------------------------------------------------
(* The root task *)

\* A client exits or is terminated: pd_held_resource_on_delete queues one FREE
\* for each file that it holds in a space, however often it holds it.
Destroy(c) ==
  /\ c \in live
  /\ live' = live \ {c}
  /\ freeq' = [i \in Inodes |-> freeq[i] + Cardinality({s \in Spaces : hold[c][s][i] > 0})]
  /\ hold' = [hold EXCEPT ![c] = [s \in Spaces |-> [i \in Inodes |-> 0]]]
  /\ miscounted' = IF Serving(c) /\ current.op = "close" THEN miscounted \cup {current.file} ELSE miscounted
  /\ UNCHANGED <<fsVars, current, sendq, waiting, hung>>

\* pd_send_cap: the SEND work is queued before the cap is minted for d, which
\* may fail; storing it as a core cap may fail after that, and then c does not
\* wait.  The hold of d is recorded under the badge of the cap, which is that
\* of another cap where the kernel did not set it.  A client that is opening
\* a file is not sent one, which keeps to MaxHold.
SendCap(c, d, s, i) ==
  /\ MayCall(c) /\ d \in live
  /\ waiting = None /\ Len(sendq) < MaxSends /\ reg[i].count < MaxRef
  /\ Serving(d) => current.op \notin {"create", "open"}
  /\ hold[c][s][i] > 0 /\ hold[d][s][i] < MaxHold
  /\ hold' \in {hold, [hold EXCEPT ![d][s][i] = @ + 1]}
  /\ sendq' = Append(sendq, i)
  /\ waiting' \in {c, None}
  /\ UNCHANGED <<fsVars, current, live, freeq, hung, miscounted>>

Next ==
  \/ \E r \in Request : Receive(r)
  \/ Create \/ Close \/ Unlink \/ NewNs \/ DeleteNs
  \/ SendWork
  \/ \E i \in Inodes : FreeWork(i)
  \/ \E c \in Clients : Destroy(c)
  \/ \E c, d \in Clients, s \in Spaces, i \in Inodes : SendCap(c, d, s, i)

Spec == Init /\ [][Next]_vars

-----------------------------------------------------------------------------
(* Properties *)

\* A file in the registry has an inode that cannot be given to another file:
\* unlinking, deleting its namespace and the closing of struct files that were
\* one too many leave the reference that the entry's struct file stands for.
OpenFilePinned ==
  \A i \in Inodes : reg[i].count > 0 =>
    inode[i].used /\ inode[i].ref > 0 /\ reg[i].ref > 0

\* The copies of file i that the hold registries h count: the k-th of client c
\* in space s.
Copies(h, i) ==
  UNION {{<<p[1], p[2], k>> : k \in 1 .. h[p[1]][p[2]][i]} : p \in Clients \X Spaces}

HoldCount(i) == Cardinality(Copies(hold, i))

\* The SEND work for file i that was not done yet
Uncounted(i) == Cardinality({k \in DOMAIN sendq : sendq[k] = i})

\* A file that a client holds stays open: the count of its entry covers all
\* holds, and the FREE work that will be taken off it, in every order of
\* exits, closes, sends and deletions.  Not so for a file that was miscounted:
\* of a client that has the file open twice, deletion takes one hold and leaves
\* the other; a client that is terminated while the server closes the file
\* for it is counted off by the close and by the FREE work for its hold; and
\* SEND work queued behind a file that was deleted meanwhile is never done.
HeldFilesOpen ==
  \A i \in Inodes \ miscounted :
    IF reg[i].count = 0 THEN HoldCount(i) = 0
    ELSE HoldCount(i) + freeq[i] <= reg[i].count + Uncounted(i)

\* A client loses a file only when it closes it or exits, or when the file or
\* its namespace is deleted: never by what others do with their copies.
NoHoldStolen ==
  [][\A c \in live', s \in Spaces, i \in Inodes \ miscounted : hold'[c][s][i] < hold[c][s][i] =>
       /\ current # None
       /\ \/ current.op = "close" /\ current.client = c /\ current.file = i
          \/ current.op \in {"unlink", "delete_ns"}]_vars

=============================================================================
