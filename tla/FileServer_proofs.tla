------------------------- MODULE FileServer_proofs -------------------------
(***************************************************************************)
(* Proofs about the xv6fs file server, for any finite sets of clients and  *)
(* names, any number of inodes and any bounds.                             *)
(***************************************************************************)
EXTENDS FileServer, FiniteSetTheorems, TLAPS

\* A file has at most one name, since linking is not modelled.
NamesDistinct ==
  \A n, m \in Names : names[n] = names[m] /\ names[n] # None => n = m

\* The link count says whether there is a name, and an inode with a name is in
\* use, so that a free inode has no name left.
LinkIsName ==
  \A i \in Inodes :
    /\ inode[i].nlink = IF \E n \in Names : names[n] = i THEN 1 ELSE 0
    /\ inode[i].nlink > 0 => inode[i].used

\* What a client holds is in a space that exists, so that deleting a file in all
\* the spaces reaches every hold.
HoldsInSpaces ==
  \A c \in Clients, s \in Spaces, i \in Inodes : hold[c][s][i] > 0 => Exists(s)

\* While a request is served there is no FREE work for a file without an entry:
\* the server had done all work before, and only a client that holds the file
\* can have caused new work.
ServingClean ==
  current # None =>
    \A i \in Inodes \ miscounted : reg[i].count = 0 => freeq[i] = 0

\* A client that is waiting for its close still holds the file; sends that are
\* not counted yet were made by other clients, so the entry counts both.
CloseSound ==
  current # None /\ current.op = "close" /\ current.client \in live =>
    /\ hold[current.client][current.space][current.file] > 0
    /\ current.file \notin miscounted /\ Uncounted(current.file) > 0 => reg[current.file].count > 1

\* A close whose client was terminated meanwhile is known to miscount.
CloserGone ==
  current # None /\ current.op = "close" =>
    current.client \in live \/ current.file \in miscounted

\* The records of the server: inodes, names and struct files.
FilesInv == TypeOK /\ OpenFilePinned /\ NamesDistinct /\ LinkIsName

\* The records of the server and those of the root task together.
HoldsInv ==
  /\ HoldsInSpaces /\ ServingClean /\ CloseSound /\ CloserGone
  /\ HeldFilesOpen

\* The inductive invariant.
FsInv == FilesInv /\ HoldsInv

IpType   == [used : BOOLEAN, nlink : Nat, ref : Nat, unread : BOOLEAN]
HoldType == [Clients -> [Spaces -> [Inodes -> Nat]]]

-----------------------------------------------------------------------------
(* Operators on an inode *)

LEMMA FreeInodeType == FreeInode \in IpType
  BY DEF FreeInode, IpType

\* iget and ilock count a reference and nothing else.
LEMMA IgetLockFacts ==
  ASSUME NEW ip \in IpType
  PROVE  /\ IgetLock(ip) \in IpType
         /\ IgetLock(ip).used = ip.used /\ IgetLock(ip).nlink = ip.nlink
         /\ IgetLock(ip).ref = ip.ref + 1
<1>1. ip.ref + 1 \in Nat
  BY DEF IpType
<1>2. IgetLock(ip) \in IpType
  BY <1>1, Zenon DEF IpType, IgetLock
<1>3. /\ IgetLock(ip).used = ip.used /\ IgetLock(ip).nlink = ip.nlink
      /\ IgetLock(ip).ref = ip.ref + 1
  BY DEF IpType, IgetLock
<1> QED
  BY <1>2, <1>3

LEMMA IgetUnreadFacts ==
  ASSUME NEW ip \in IpType
  PROVE  /\ IgetUnread(ip) \in IpType
         /\ IgetUnread(ip).used = ip.used /\ IgetUnread(ip).nlink = ip.nlink
         /\ IgetUnread(ip).ref = ip.ref + 1
<1>1. ip.ref + 1 \in Nat
  BY DEF IpType
<1>2. IgetUnread(ip) \in IpType
  BY <1>1, Zenon DEF IpType, IgetUnread
<1>3. /\ IgetUnread(ip).used = ip.used /\ IgetUnread(ip).nlink = ip.nlink
      /\ IgetUnread(ip).ref = ip.ref + 1
  BY DEF IpType, IgetUnread
<1> QED
  BY <1>2, <1>3

\* iput keeps the link count, and keeps an inode that has a link or another
\* reference.
LEMMA IputFacts ==
  ASSUME NEW ip \in IpType, ip.ref > 0
  PROVE  /\ Iput(ip) \in IpType
         /\ Iput(ip).nlink = ip.nlink
         /\ ip.nlink > 0 => Iput(ip).used = ip.used
         /\ ip.ref > 1 => Iput(ip).used = ip.used /\ Iput(ip).ref = ip.ref - 1
<1>1. CASE ip.ref = 1 /\ ip.nlink = 0
  BY <1>1, FreeInodeType DEF Iput, IpType, FreeInode
<1>2. CASE ~(ip.ref = 1 /\ ip.nlink = 0)
  <2>1. Iput(ip) = [ip EXCEPT !.ref = @ - 1]
    BY <1>2, Zenon DEF Iput
  <2>2. ip.ref - 1 \in Nat
    BY DEF IpType
  <2>3. Iput(ip) \in IpType
    BY <2>1, <2>2, Zenon DEF IpType
  <2> QED
    BY <1>2, <2>1, <2>3 DEF IpType
<1> QED
  BY <1>1, <1>2

\* fileclose takes a reference from the inode only when the struct file goes.
LEMMA FilecloseFacts ==
  ASSUME NEW ip \in IpType, ip.ref > 0, NEW f
  PROVE  /\ Fileclose(ip, f) \in IpType
         /\ Fileclose(ip, f).nlink = ip.nlink
         /\ ip.nlink > 0 => Fileclose(ip, f).used = ip.used
         /\ ip.ref > 1 => /\ Fileclose(ip, f).used = ip.used
                          /\ Fileclose(ip, f).ref >= ip.ref - 1
<1>1. CASE f.ref = 1
  BY <1>1, IputFacts DEF Fileclose, IpType
<1>2. CASE f.ref # 1
  BY <1>2 DEF Fileclose, IpType
<1> QED
  BY <1>1, <1>2

\* unlink_de takes one link, and leaves the references of others.
LEMMA UnlinkDeFacts ==
  ASSUME NEW ip \in IpType, ip.nlink > 0
  PROVE  /\ UnlinkDe(ip) \in IpType
         /\ UnlinkDe(ip).nlink = ip.nlink - 1
         /\ ip.nlink > 1 => UnlinkDe(ip).used = ip.used
         /\ ip.ref > 0 => UnlinkDe(ip).used = ip.used /\ UnlinkDe(ip).ref = ip.ref
<1> DEFINE jp == [IgetLock(ip) EXCEPT !.nlink = @ - 1]
<1>1. /\ jp \in IpType /\ jp.used = ip.used /\ jp.nlink = ip.nlink - 1
      /\ jp.ref = ip.ref + 1 /\ jp.ref > 0
  BY IgetLockFacts DEF IpType
<1>2. UnlinkDe(ip) = Iput(jp)
  BY DEF UnlinkDe
<1> HIDE DEF jp
<1>3. /\ Iput(jp) \in IpType /\ Iput(jp).nlink = jp.nlink
      /\ jp.nlink > 0 => Iput(jp).used = jp.used
      /\ jp.ref > 1 => Iput(jp).used = jp.used /\ Iput(jp).ref = jp.ref - 1
  BY <1>1, IputFacts
<1> QED
  BY <1>1, <1>2, <1>3 DEF IpType

-----------------------------------------------------------------------------
(* The request being served *)

LEMMA CurrentType ==
  ASSUME TypeOK, current # None
  PROVE  /\ current.client \in Clients
         /\ current.op \in {"create", "open", "unlink"} =>
              current.name \in Names /\ SpaceOf(current.name) \in Spaces
         /\ current.op = "close" => current.space \in Spaces /\ current.file \in Inodes
         /\ current.op \in {"ns", "delete_ns"} => current.space \in NS
<1>1. current \in Request
  BY DEF TypeOK
<1>2. CASE current \in [op : {"create", "open", "unlink"}, client : Clients, name : Names]
  BY <1>2 DEF Spaces
<1>3. CASE current \in [op : {"close"}, client : Clients, space : Spaces, file : Inodes]
  BY <1>3
<1>4. CASE current \in [op : {"ns", "delete_ns"}, client : Clients, space : NS]
  BY <1>4
<1> QED
  BY <1>1, <1>2, <1>3, <1>4 DEF Request

\* pd_remove_resource never counts below zero.
LEMMA DeleteResourceType ==
  ASSUME NEW h \in HoldType, NEW i \in Inodes, NEW S
  PROVE  /\ DeleteResource(h, i, S) \in HoldType
         /\ \A c \in Clients, s \in Spaces, j \in Inodes :
              DeleteResource(h, i, S)[c][s][j] =
                IF j = i /\ s \in S /\ h[c][s][i] > 0 THEN h[c][s][j] - 1 ELSE h[c][s][j]
<1> DEFINE D == DeleteResource(h, i, S)
<1>1. ASSUME NEW c \in Clients, NEW s \in Spaces
      PROVE  /\ D[c][s] \in [Inodes -> Nat]
             /\ \A j \in Inodes : D[c][s][j] =
                  IF j = i /\ s \in S /\ h[c][s][i] > 0 THEN h[c][s][j] - 1 ELSE h[c][s][j]
  <2>1. h[c][s] \in [Inodes -> Nat] /\ h[c][s][i] \in Nat
    BY DEF HoldType
  <2>2. D[c][s] = IF s \in S /\ h[c][s][i] > 0 THEN [h[c][s] EXCEPT ![i] = @ - 1] ELSE h[c][s]
    BY DEF DeleteResource
  <2> HIDE DEF D
  <2>3. CASE s \in S /\ h[c][s][i] > 0
    BY <2>1, <2>2, <2>3
  <2>4. CASE ~(s \in S /\ h[c][s][i] > 0)
    BY <2>1, <2>2, <2>4
  <2> QED
    BY <2>3, <2>4
<1>2. D = [c \in Clients |-> [s \in Spaces |-> D[c][s]]]
  BY DEF DeleteResource
<1> HIDE DEF D
<1>3. D \in HoldType
  BY <1>1, <1>2 DEF HoldType
<1> QED
  BY <1>1, <1>3 DEF D

-----------------------------------------------------------------------------
(* The records of the server *)

\* What FilesInv says of one inode.
InodeOK(i) ==
  /\ inode[i] \in IpType /\ reg[i] \in [count : Nat, ref : Nat]
  /\ inode[i].nlink = IF \E n \in Names : names[n] = i THEN 1 ELSE 0
  /\ inode[i].nlink > 0 => inode[i].used
  /\ reg[i].count > 0 => inode[i].used /\ inode[i].ref > 0 /\ reg[i].ref > 0

NamesOK == names \in [Names -> Inodes \cup {None}] /\ NamesDistinct

\* The parts of TypeOK that the server's records do not say.
RestOK ==
  /\ ns \subseteq NS /\ current \in Request \cup {None}
  /\ live \subseteq Clients /\ hold \in HoldType /\ freeq \in [Inodes -> Nat]
  /\ sendq \in Seq(Inodes) /\ waiting \in Clients \cup {None}
  /\ hung \in BOOLEAN /\ miscounted \subseteq Inodes

LEMMA FilesInvParts ==
  ASSUME FilesInv
  PROVE  /\ NamesOK /\ RestOK /\ \A i \in Inodes : InodeOK(i)
         /\ inode \in [Inodes -> IpType] /\ reg \in [Inodes -> [count : Nat, ref : Nat]]
  BY DEF FilesInv, TypeOK, OpenFilePinned, LinkIsName, NamesOK, RestOK, InodeOK, IpType, HoldType

LEMMA FilesInvFromParts ==
  ASSUME NamesOK', RestOK', \A i \in Inodes : InodeOK(i)',
         inode' \in [Inodes -> IpType], reg' \in [Inodes -> [count : Nat, ref : Nat]]
  PROVE  FilesInv'
  BY DEF FilesInv, TypeOK, OpenFilePinned, LinkIsName, NamesOK, RestOK, InodeOK, IpType, HoldType

\* Inode i may change; the others and their names stay.
LEMMA OneInode ==
  ASSUME FilesInv, NEW i \in Inodes, NEW ip \in IpType, NEW f \in [count : Nat, ref : Nat],
         inode' = [inode EXCEPT ![i] = ip], reg' = [reg EXCEPT ![i] = f],
         NamesOK', RestOK',
         \A j \in Inodes \ {i} : (\E n \in Names : names'[n] = j) <=> (\E n \in Names : names[n] = j),
         ip.nlink = (IF \E n \in Names : names'[n] = i THEN 1 ELSE 0),
         ip.nlink > 0 => ip.used,
         f.count > 0 => ip.used /\ ip.ref > 0 /\ f.ref > 0
  PROVE  FilesInv'
<1>1. inode \in [Inodes -> IpType] /\ reg \in [Inodes -> [count : Nat, ref : Nat]]
  BY FilesInvParts
<1>2. inode' \in [Inodes -> IpType] /\ reg' \in [Inodes -> [count : Nat, ref : Nat]]
  BY <1>1
<1>3. inode'[i] = ip /\ reg'[i] = f
  BY <1>1
<1>4. InodeOK(i)'
  BY <1>3 DEF InodeOK
<1>5. ASSUME NEW j \in Inodes \ {i}  PROVE InodeOK(j)'
  <2>1. inode'[j] = inode[j] /\ reg'[j] = reg[j] /\ InodeOK(j)
    BY <1>1, <1>5, FilesInvParts
  <2> QED
    BY <2>1, <1>5 DEF InodeOK
<1> QED
  BY <1>2, <1>4, <1>5, FilesInvFromParts

LEMMA SameFiles ==
  ASSUME FilesInv, UNCHANGED <<names, inode, reg>>, RestOK'
  PROVE  FilesInv'
<1>1. NamesOK' /\ \A i \in Inodes : InodeOK(i)'
  BY FilesInvParts DEF NamesOK, NamesDistinct, InodeOK
<1>2. inode' \in [Inodes -> IpType] /\ reg' \in [Inodes -> [count : Nat, ref : Nat]]
  BY FilesInvParts
<1> QED
  BY <1>1, <1>2, FilesInvFromParts

\* Adding the file to the registry, or counting it there, where ip is the inode
\* with the reference that opening the file took.
LEMMA RegisterFiles ==
  ASSUME FilesInv, NEW i \in Inodes, NEW ip \in IpType, Register(i, ip),
         NamesOK', RestOK',
         \A j \in Inodes \ {i} : (\E n \in Names : names'[n] = j) <=> (\E n \in Names : names[n] = j),
         \E n \in Names : names'[n] = i,
         ip.used, ip.nlink = 1, ip.ref > 0, reg[i].count > 0 => ip.ref > 1
  PROVE  FilesInv'
<1>1. reg[i] \in [count : Nat, ref : Nat] /\ (reg[i].count > 0 => reg[i].ref > 0)
  BY FilesInvParts DEF InodeOK
<1>2. CASE reg[i].count = 0
  <2>1. /\ reg' = [reg EXCEPT ![i] = [count |-> 1, ref |-> 1]]
        /\ inode' = [inode EXCEPT ![i] = ip]
    BY <1>2 DEF Register
  <2> QED
    BY <2>1, OneInode
<1>3. CASE reg[i].count # 0
  <2> DEFINE f == [count |-> reg[i].count + 1, ref |-> reg[i].ref + 1]
             jp == Fileclose(ip, [count |-> 1, ref |-> 1])
  <2>1. reg' = [reg EXCEPT ![i] = f] /\ inode' = [inode EXCEPT ![i] = jp]
    BY <1>3 DEF Register
  <2>2. /\ jp \in IpType /\ jp.nlink = 1 /\ jp.used /\ jp.ref >= ip.ref - 1
    BY <1>1, <1>3, FilecloseFacts
  <2>3. f \in [count : Nat, ref : Nat] /\ f.ref > 0 /\ jp.ref > 0
    BY <1>1, <1>3, <2>2 DEF IpType
  <2> HIDE DEF f, jp
  <2> QED
    BY <2>1, <2>2, <2>3, OneInode
<1> QED
  BY <1>2, <1>3

LEMMA GiveType ==
  ASSUME FilesInv, NEW c \in Clients, NEW s \in Spaces, NEW i \in Inodes, Give(c, s, i)
  PROVE  /\ hold' \in HoldType
         /\ \A d \in Clients, t \in Spaces, j \in Inodes :
              hold'[d][t][j] = IF c \in live /\ d = c /\ t = s /\ j = i
                               THEN hold[d][t][j] + 1 ELSE hold[d][t][j]
<1>1. hold \in HoldType /\ hold[c][s][i] + 1 \in Nat
  BY FilesInvParts DEF RestOK, HoldType
<1>2. CASE c \in live
  <2>1. hold' = [hold EXCEPT ![c][s][i] = hold[c][s][i] + 1]
    BY <1>2 DEF Give
  <2>2. /\ hold' \in HoldType
        /\ \A d \in Clients, t \in Spaces, j \in Inodes :
             hold'[d][t][j] = IF d = c /\ t = s /\ j = i THEN hold[c][s][i] + 1
                                                       ELSE hold[d][t][j]
    BY <1>1, <2>1 DEF HoldType
  <2> QED
    BY <1>2, <2>2
<1>3. CASE c \notin live
  BY <1>1, <1>3 DEF Give
<1> QED
  BY <1>2, <1>3

LEMMA FilesCreate ==
  ASSUME FilesInv, Create
  PROVE  FilesInv'
<1> DEFINE n == current.name
           s == SpaceOf(n)
           c == current.client
<1>1. n \in Names /\ s \in Spaces /\ c \in Clients
  BY CurrentType DEF Create, FilesInv
<1>2. ASSUME hold' \in HoldType  PROVE RestOK'
  BY <1>2, FilesInvParts DEF RestOK, Create, Done
<1> HIDE DEF n, s, c
<1>3. ASSUME names[n] # None, Register(names[n], IgetLock(inode[names[n]])),
             Give(c, s, names[n]), UNCHANGED names
      PROVE  FilesInv'
  <2> DEFINE i == names[n]
             ip == IgetLock(inode[i])
  <2>1. i \in Inodes /\ InodeOK(i)
    BY <1>1, <1>3, FilesInvParts DEF NamesOK
  <2>2. /\ ip \in IpType /\ ip.used = inode[i].used /\ ip.nlink = inode[i].nlink
        /\ ip.ref = inode[i].ref + 1
    BY <2>1, IgetLockFacts DEF InodeOK
  <2>3. inode[i].nlink = 1 /\ inode[i].used /\ inode[i].ref \in Nat
    BY <1>1, <2>1 DEF InodeOK, IpType
  <2>4. NamesOK'
    BY <1>3, FilesInvParts DEF NamesOK, NamesDistinct
  <2>5. RestOK'
    BY <1>1, <1>2, <1>3, <2>1, GiveType
  <2>6. reg[i].count > 0 => ip.ref > 1
    BY <2>1, <2>2, <2>3 DEF InodeOK
  <2>7. ip.ref > 0 /\ Register(i, ip) /\ \E m \in Names : names'[m] = i
    BY <1>1, <1>3, <2>2, <2>3
  <2> HIDE DEF i, ip
  <2> QED
    BY <1>3, <2>1, <2>2, <2>3, <2>4, <2>5, <2>6, <2>7, RegisterFiles
<1>4. ASSUME names[n] = None, NEW i \in Inodes, Ialloc(i),
             names' = [names EXCEPT ![n] = i],
             Register(i, [used |-> TRUE, nlink |-> 1, ref |-> 1, unread |-> FALSE]),
             Give(c, s, i)
      PROVE  FilesInv'
  <2> DEFINE ip == [used |-> TRUE, nlink |-> 1, ref |-> 1, unread |-> FALSE]
  <2>2. ip \in IpType /\ ip.used /\ ip.nlink = 1 /\ ip.ref = 1
    BY DEF IpType
  <2>3. Register(i, ip)
    BY <1>4
  <2> HIDE DEF ip
  <2>4. InodeOK(i) /\ ~inode[i].used
    BY <1>4, FilesInvParts DEF Ialloc
  <2>5. reg[i].count = 0 /\ \A m \in Names : names[m] # i
    BY <2>4 DEF InodeOK, IpType
  <2>6. NamesOK /\ i # None
    BY FilesInvParts, FsAssumption
  <2>7. /\ names' \in [Names -> Inodes \cup {None}] /\ names'[n] = i
        /\ \A m \in Names \ {n} : names'[m] = names[m]
    BY <1>1, <1>4, <2>6 DEF NamesOK
  <2>8. NamesOK'
    BY <2>5, <2>6, <2>7 DEF NamesOK, NamesDistinct
  <2>9. RestOK'
    BY <1>1, <1>2, <1>4, GiveType
  <2>10. \A j \in Inodes \ {i} : (\E m \in Names : names'[m] = j) <=> (\E m \in Names : names[m] = j)
    BY <1>4, <2>7, FsAssumption
  <2>11. \E m \in Names : names'[m] = i
    BY <1>1, <2>7
  <2> QED
    BY <2>2, <2>3, <2>5, <2>8, <2>9, <2>10, <2>11, RegisterFiles
<1>5. CASE UNCHANGED <<names, reg, inode, hold>>
  <2>1. RestOK'
    BY <1>2, <1>5, FilesInvParts DEF RestOK
  <2> QED
    BY <1>5, <2>1, SameFiles
<1> QED
  BY <1>3, <1>4, <1>5 DEF Create, n, s, c

LEMMA RevokeType ==
  ASSUME NEW h \in HoldType, NEW c \in Clients, NEW s \in Spaces, NEW i \in Inodes
  PROVE  /\ Revoke(h, c, s, i) \in HoldType
         /\ \A d \in Clients, t \in Spaces, j \in Inodes :
              Revoke(h, c, s, i)[d][t][j] =
                IF /\ d = c /\ t = s /\ j = i
                   /\ c \in live /\ Exists(s) /\ h[c][s][i] > 0
                THEN h[d][t][j] - 1 ELSE h[d][t][j]
<1> DEFINE g == Revoke(h, c, s, i)
<1>1. CASE c \in live /\ Exists(s) /\ h[c][s][i] > 0
  <2>1. g = [h EXCEPT ![c][s][i] = h[c][s][i] - 1]
    BY <1>1 DEF Revoke
  <2>2. h[c][s][i] - 1 \in Nat
    BY <1>1 DEF HoldType
  <2> HIDE DEF g
  <2>3. /\ g \in HoldType
        /\ \A d \in Clients, t \in Spaces, j \in Inodes :
             g[d][t][j] = IF d = c /\ t = s /\ j = i THEN h[c][s][i] - 1 ELSE h[d][t][j]
    BY <2>1, <2>2 DEF HoldType
  <2> QED
    BY <1>1, <2>3 DEF g
<1>2. CASE ~(c \in live /\ Exists(s) /\ h[c][s][i] > 0)
  <2>1. g = h
    BY <1>2 DEF Revoke
  <2> QED
    BY <1>2, <2>1
<1> QED
  BY <1>1, <1>2

\* The entry of file i goes and its struct file is closed.
LEMMA CloseEntryFiles ==
  ASSUME FilesInv, NEW i \in Inodes, reg[i].count > 0, UNCHANGED names, RestOK',
         reg' = [reg EXCEPT ![i] = NoEntry],
         inode' = [inode EXCEPT ![i] = Fileclose(inode[i], reg[i])]
  PROVE  FilesInv'
<1> DEFINE jp == Fileclose(inode[i], reg[i])
<1>1. InodeOK(i) /\ inode[i].ref > 0
  BY FilesInvParts DEF InodeOK
<1>2. /\ jp \in IpType /\ jp.nlink = inode[i].nlink
      /\ inode[i].nlink > 0 => jp.used = inode[i].used
  BY <1>1, FilecloseFacts DEF InodeOK
<1>3. NoEntry \in [count : Nat, ref : Nat] /\ NoEntry.count = 0
  BY DEF NoEntry
<1>4. NamesOK'
  BY FilesInvParts DEF NamesOK, NamesDistinct
<1>5. inode' = [inode EXCEPT ![i] = jp]
  OBVIOUS
<1>6. jp.nlink = (IF \E n \in Names : names'[n] = i THEN 1 ELSE 0) /\ (jp.nlink > 0 => jp.used)
  BY <1>1, <1>2 DEF InodeOK
<1>7. \A j \in Inodes \ {i} : (\E n \in Names : names'[n] = j) <=> (\E n \in Names : names[n] = j)
  OBVIOUS
<1>8. NoEntry.count > 0 => FALSE
  BY <1>3
<1> HIDE DEF jp
<1> QED
  BY <1>2, <1>3, <1>4, <1>5, <1>6, <1>7, <1>8, OneInode, Zenon

\* Only the count of an entry changes.
LEMMA CountFiles ==
  ASSUME FilesInv, NEW i \in Inodes, reg[i].count > 0, UNCHANGED <<names, inode>>, RestOK',
         reg' \in [Inodes -> [count : Nat, ref : Nat]],
         \A j \in Inodes \ {i} : reg'[j] = reg[j],
         reg'[i].ref = reg[i].ref
  PROVE  FilesInv'
<1>1. inode \in [Inodes -> IpType]
  BY FilesInvParts
<1>2. \A j \in Inodes : InodeOK(j)'
  BY FilesInvParts DEF InodeOK
<1>3. NamesOK'
  BY FilesInvParts DEF NamesOK, NamesDistinct
<1> QED
  BY <1>1, <1>2, <1>3, FilesInvFromParts

LEMMA FilesClose ==
  ASSUME FilesInv, Close
  PROVE  FilesInv'
<1> DEFINE i == current.file
           s == current.space
           c == current.client
           all == DeleteResource(hold, i, ns \cup {Root})
<1>1. i \in Inodes /\ s \in Spaces /\ c \in Clients
  BY CurrentType DEF Close, FilesInv
<1>2. ASSUME hold' \in HoldType  PROVE RestOK'
  BY <1>2, FilesInvParts DEF RestOK, Close, Done
<1>3. hold \in HoldType /\ reg[i].count \in Nat
  BY <1>1, FilesInvParts DEF RestOK, InodeOK
<1>4. all \in HoldType
  BY <1>1, <1>3, DeleteResourceType
<1>5. UNCHANGED names
  BY DEF Close
<1>6. ASSUME reg[i].count = 1,
             reg' = [reg EXCEPT ![i] = NoEntry],
             inode' = [inode EXCEPT ![i] = Fileclose(@, reg[i])],
             hold' = Revoke(all, c, s, i)
      PROVE  FilesInv'
  <2> HIDE DEF i, s, c, all
  <2>1. RestOK'
    BY <1>1, <1>2, <1>4, <1>6, RevokeType
  <2>2. inode' = [inode EXCEPT ![i] = Fileclose(inode[i], reg[i])]
    BY <1>6
  <2>3. reg[i].count > 0
    BY <1>6
  <2> QED
    BY <1>1, <1>5, <1>6, <2>1, <2>2, <2>3, CloseEntryFiles
<1>7. ASSUME reg[i].count > 1,
             reg' = [reg EXCEPT ![i].count = @ - 1],
             hold' = Revoke(hold, c, s, i), UNCHANGED inode
      PROVE  FilesInv'
  <2> HIDE DEF i, s, c, all
  <2>1. RestOK'
    BY <1>1, <1>2, <1>3, <1>7, RevokeType
  <2>2. /\ reg' \in [Inodes -> [count : Nat, ref : Nat]]
        /\ \A j \in Inodes \ {i} : reg'[j] = reg[j]
        /\ reg'[i].ref = reg[i].ref
    BY <1>1, <1>3, <1>7, FilesInvParts
  <2> QED
    BY <1>1, <1>3, <1>5, <1>7, <2>1, <2>2, CountFiles
<1>8. CASE UNCHANGED <<reg, inode, hold>>
  BY <1>2, <1>3, <1>5, <1>8, SameFiles
<1> QED
  BY <1>6, <1>7, <1>8 DEF Close

\* A name that is taken away was the only one of its inode.
LEMMA NameTaken ==
  ASSUME FilesInv, NEW n \in Names, names[n] # None, names' = [names EXCEPT ![n] = None]
  PROVE  /\ NamesOK' /\ names[n] \in Inodes
         /\ \A m \in Names : names'[m] # names[n]
         /\ \A j \in Inodes \ {names[n]} :
              (\E m \in Names : names'[m] = j) <=> (\E m \in Names : names[m] = j)
<1>1. NamesOK
  BY FilesInvParts
<1>2. /\ names' \in [Names -> Inodes \cup {None}] /\ names'[n] = None
      /\ \A m \in Names \ {n} : names'[m] = names[m]
  BY <1>1 DEF NamesOK
<1>3. names[n] \in Inodes /\ NamesOK'
  BY <1>1, <1>2 DEF NamesOK, NamesDistinct
<1>4. \A m \in Names : names'[m] # names[n]
  BY <1>1, <1>2 DEF NamesOK, NamesDistinct
<1>5. \A j \in Inodes : j # None
  BY FsAssumption
<1> QED
  BY <1>2, <1>3, <1>4, <1>5

LEMMA FilesUnlink ==
  ASSUME FilesInv, Unlink
  PROVE  FilesInv'
<1> DEFINE n == current.name
           s == SpaceOf(n)
           i == names[n]
           inNs == IF s = Root THEN hold ELSE DeleteResource(hold, i, {s})
           all == DeleteResource(inNs, i, ns \cup {Root})
<1>1. n \in Names /\ s \in Spaces
  BY CurrentType DEF Unlink, FilesInv
<1>2. hold \in HoldType /\ RestOK /\ current \in Request
  BY FilesInvParts DEF RestOK, Unlink
<1>3. CASE UNCHANGED <<names, inode, reg, hold, miscounted>>
  <2>1. RestOK'
    BY <1>2, <1>3 DEF RestOK, Unlink, Done, rtVars
  <2> QED
    BY <1>3, <2>1, SameFiles
<1>4. ASSUME i # None, Done, UNCHANGED hung,
             names' = [names EXCEPT ![n] = None],
             IF inode[i].nlink = 1 /\ reg[i].count > 0
             THEN /\ reg' = [reg EXCEPT ![i] = NoEntry]
                  /\ inode' = [inode EXCEPT ![i] = Fileclose(UnlinkDe(inode[i]), reg[i])]
                  /\ hold' = all
                  /\ miscounted' = IF OpenTwice(i) THEN miscounted \cup {i} ELSE miscounted
             ELSE /\ inode' = [inode EXCEPT ![i] = UnlinkDe(inode[i])]
                  /\ hold' = inNs
                  /\ UNCHANGED <<reg, miscounted>>
      PROVE  FilesInv'
  <2>1. /\ NamesOK' /\ i \in Inodes /\ \A m \in Names : names'[m] # i
        /\ \A j \in Inodes \ {i} :
              (\E m \in Names : names'[m] = j) <=> (\E m \in Names : names[m] = j)
    BY <1>1, <1>4, NameTaken
  <2>2. inNs \in HoldType /\ all \in HoldType
    BY <1>2, <2>1, DeleteResourceType
  <2>3. InodeOK(i) /\ inode[i].nlink = 1 /\ inode[i] \in IpType /\ reg[i] \in [count : Nat, ref : Nat]
    BY <1>1, <2>1, FilesInvParts DEF InodeOK
  <2>4. ns' = ns
    BY DEF Unlink
  <2> DEFINE ip == UnlinkDe(inode[i])
             jp == Fileclose(ip, reg[i])
  <2> HIDE DEF n, s, i, inNs, all
  <2>5. RestOK'
    BY <1>2, <1>4, <2>1, <2>2, <2>4 DEF RestOK, Done
  <2>6. /\ ip \in IpType /\ ip.nlink = 0
        /\ inode[i].ref > 0 => ip.used = inode[i].used /\ ip.ref = inode[i].ref
    BY <2>3, UnlinkDeFacts
  <2>7. NoEntry \in [count : Nat, ref : Nat] /\ ~(NoEntry.count > 0)
    BY DEF NoEntry
  <2>8. CASE reg[i].count > 0
    <3>1. ip.ref > 0
      BY <2>3, <2>6, <2>8 DEF InodeOK
    <3>2. jp \in IpType /\ jp.nlink = 0 /\ ~(jp.nlink > 0)
      BY <2>6, <3>1, FilecloseFacts
    <3>3. reg' = [reg EXCEPT ![i] = NoEntry] /\ inode' = [inode EXCEPT ![i] = jp]
      BY <1>4, <2>3, <2>8
    <3>4. jp.nlink = (IF \E m \in Names : names'[m] = i THEN 1 ELSE 0)
      BY <2>1, <3>2
    <3> HIDE DEF ip, jp
    <3> QED
      BY <2>1, <2>5, <2>7, <3>2, <3>3, <3>4, OneInode, Zenon
  <2>9. CASE ~(reg[i].count > 0)
    <3>1. reg' = [reg EXCEPT ![i] = reg[i]] /\ inode' = [inode EXCEPT ![i] = ip]
      BY <1>4, <2>9, FilesInvParts
    <3>2. ip.nlink = (IF \E m \in Names : names'[m] = i THEN 1 ELSE 0) /\ ~(ip.nlink > 0)
      BY <2>1, <2>6
    <3> HIDE DEF ip, jp
    <3> QED
      BY <2>1, <2>3, <2>5, <2>6, <2>9, <3>1, <3>2, OneInode, Zenon
  <2> QED
    BY <2>8, <2>9
<1> QED
  BY <1>3, <1>4 DEF Unlink, rtVars

LEMMA FilesDeleteNs ==
  ASSUME FilesInv, DeleteNs
  PROVE  FilesInv'
<1> DEFINE s == current.space
           files == {n \in Names : SpaceOf(n) = s /\ names[n] # None}
<1>1. s \in NS
  BY CurrentType DEF DeleteNs, FilesInv
<1>2. RestOK /\ NamesOK
  BY FilesInvParts
<1>3. CASE UNCHANGED <<fsVars, hold>>
  <2>1. RestOK'
    BY <1>2, <1>3 DEF RestOK, DeleteNs, Done, fsVars
  <2> QED
    BY <1>3, <2>1, SameFiles DEF fsVars
<1>4. ASSUME NEW K \in SUBSET files,
             names' = [n \in Names |-> IF n \in files \ K THEN None ELSE names[n]],
             inode' = [i \in Inodes |->
                CASE \E n \in files \ K : names[n] = i -> UnlinkDe(inode[i])
                  [] \E n \in K : names[n] = i         -> IgetUnread(inode[i])
                  [] OTHER                              -> inode[i]],
             ns' = IF K = {} THEN ns \ {s} ELSE ns,
             hold' = IF K # {} THEN hold
                     ELSE [c \in Clients |-> [hold[c] EXCEPT ![s] = [i \in Inodes |-> 0]]],
             UNCHANGED reg
      PROVE  FilesInv'
  <2>1. hold' \in HoldType
    BY <1>2, <1>4 DEF RestOK, HoldType
  <2>2. RestOK'
    BY <1>2, <1>4, <2>1 DEF RestOK, DeleteNs, Done
  <2>3. names' \in [Names -> Inodes \cup {None}] /\ NamesDistinct'
    BY <1>2, <1>4 DEF NamesOK, NamesDistinct
  <2>4. ASSUME NEW i \in Inodes
        PROVE  InodeOK(i)' /\ inode'[i] \in IpType
    <3>1. /\ InodeOK(i) /\ inode[i] \in IpType /\ reg'[i] = reg[i]
          /\ reg[i] \in [count : Nat, ref : Nat] /\ i # None
      BY <1>4, FilesInvParts, FsAssumption
    <3>2. CASE \E n \in files \ K : names[n] = i
      <4>0. inode[i].nlink = 1
        <5>1. \E n \in Names : names[n] = i
          BY <3>2
        <5> QED
          BY <3>1, <5>1 DEF InodeOK
      <4>1. inode'[i] = UnlinkDe(inode[i])
        <5>1. ~(\E n \in K : names[n] = i)
          BY <1>2, <1>4, <3>1, <3>2 DEF NamesOK, NamesDistinct
        <5> HIDE DEF files, s
        <5> QED
          BY <1>4, <3>2, <5>1
      <4>2. \A n \in Names : names'[n] # i
        BY <1>2, <1>4, <3>1, <3>2 DEF NamesOK, NamesDistinct
      <4>3. /\ inode'[i] \in IpType /\ inode'[i].nlink = 0
            /\ inode[i].ref > 0 => inode'[i].used = inode[i].used /\ inode'[i].ref = inode[i].ref
        BY <3>1, <4>0, <4>1, UnlinkDeFacts
      <4> QED
        BY <3>1, <4>2, <4>3 DEF InodeOK
    <3>3. CASE ~(\E n \in files \ K : names[n] = i)
      <4>1. (\E n \in Names : names'[n] = i) <=> (\E n \in Names : names[n] = i)
        BY <1>4, <3>1, <3>3
      <4>2. inode'[i] \in {IgetUnread(inode[i]), inode[i]}
        BY <1>4, <3>3
      <4>3. /\ inode'[i] \in IpType /\ inode'[i].nlink = inode[i].nlink
            /\ inode'[i].used = inode[i].used /\ inode'[i].ref >= inode[i].ref
        BY <3>1, <4>2, IgetUnreadFacts DEF IpType
      <4> QED
        BY <3>1, <4>1, <4>3 DEF InodeOK, IpType
    <3> QED
      BY <3>2, <3>3
  <2>5. inode' \in [Inodes -> IpType] /\ reg' \in [Inodes -> [count : Nat, ref : Nat]]
    BY <1>4, <2>4, FilesInvParts
  <2> QED
    BY <2>2, <2>3, <2>4, <2>5, FilesInvFromParts DEF NamesOK
<1> QED
  BY <1>3, <1>4 DEF DeleteNs

\* The spaces are finitely many, like the names.
LEMMA SpacesFinite == IsFiniteSet(Spaces)
<1> DEFINE T == {SpaceOf(n) : n \in Names}
           f == [n \in Names |-> SpaceOf(n)]
<1>1. f \in Surjection(Names, T)
  BY DEF Surjection
<1>2. IsFiniteSet(T)
  BY <1>1, FS_Surjection, FsAssumption
<1>3. Spaces = T \cup {Root}
  BY DEF Spaces
<1> QED
  BY <1>2, <1>3, FS_AddElement

\* A set of positions in the queue of SEND work is finite.
LEMMA PositionsFinite ==
  ASSUME NEW n \in Nat, NEW K \in SUBSET (1 .. n)
  PROVE  IsFiniteSet(K) /\ Cardinality(K) \in Nat
<1>1. IsFiniteSet(1 .. n)
  BY FS_Interval
<1> QED
  BY <1>1, FS_Subset, FS_CardinalityType

\* Some of a batch of SEND work are counted: all of them, or those before the
\* first file without an entry.
LEMMA SendWorkParts ==
  ASSUME SendWork, sendq \in Seq(Inodes), reg \in [Inodes -> [count : Nat, ref : Nat]]
  PROVE  \E n \in 1 .. Len(sendq), K \in SUBSET (1 .. Len(sendq)) :
           /\ K \in SUBSET (1 .. n) /\ sendq' = SubSeq(sendq, n + 1, Len(sendq))
           /\ reg' = CountSent(K) /\ \A k \in K : reg[sendq[k]].count > 0
           /\ waiting' \in {None, waiting}
           /\ miscounted' \subseteq miscounted \cup {sendq[k] : k \in 1 .. n}
           /\ miscounted \subseteq miscounted'
           /\ \A k \in (1 .. n) \ K : reg[sendq[k]].count = 0 \/ sendq[k] \in miscounted'
<1> DEFINE Known(k) == reg[sendq[k]].count > 0
           Counted(n) == {k \in 1 .. n : \A m \in 1 .. k : Known(m)}
<1>1. PICK n \in 1 .. Len(sendq) :
        /\ sendq' = SubSeq(sendq, n + 1, Len(sendq))
        /\ reg' = CountSent(Counted(n))
        /\ waiting' = IF Counted(n) = 1 .. n THEN None ELSE waiting
        /\ miscounted' = miscounted \cup {sendq[k] : k \in {m \in 1 .. n : Known(m)} \ Counted(n)}
  BY DEF SendWork
<1>2. PICK K \in SUBSET (1 .. n) : K = Counted(n)
  OBVIOUS
<1>3. \A k \in K : reg[sendq[k]].count > 0
  <2>1. \A k \in 1 .. n : k \in 1 .. k
    OBVIOUS
  <2> QED
    BY <1>2, <2>1
<1>4. /\ miscounted' = miscounted \cup {sendq[k] : k \in {m \in 1 .. n : Known(m)} \ K}
      /\ reg' = CountSent(K) /\ waiting' \in {None, waiting}
  BY <1>1, <1>2
<1>5. \A k \in (1 .. n) \ K : reg[sendq[k]].count = 0 \/ sendq[k] \in miscounted'
  <2>1. ASSUME NEW k \in (1 .. n) \ K, reg[sendq[k]].count # 0  PROVE sendq[k] \in miscounted'
    <3>1. sendq[k] \in Inodes
      OBVIOUS
    <3>2. reg[sendq[k]].count > 0
      BY <2>1, <3>1
    <3> QED
      BY <1>4, <3>2
  <2> QED
    BY <2>1
<1>6. miscounted' \subseteq miscounted \cup {sendq[k] : k \in 1 .. n} /\ miscounted \subseteq miscounted'
  BY <1>4
<1>7. K \in SUBSET (1 .. Len(sendq))
  <2>1. Len(sendq) \in Nat
    OBVIOUS
  <2> QED
    BY <2>1
<1> HIDE DEF Counted, Known
<1> QED
  BY <1>1, <1>3, <1>4, <1>5, <1>6, <1>7

\* resource_registry_inc adds to the counts of entries that exist.
LEMMA CountSentFacts ==
  ASSUME reg \in [Inodes -> [count : Nat, ref : Nat]], sendq \in Seq(Inodes),
         NEW n \in 1 .. Len(sendq), NEW K \in SUBSET (1 .. n),
         \A k \in K : reg[sendq[k]].count > 0
  PROVE  /\ CountSent(K) \in [Inodes -> [count : Nat, ref : Nat]]
         /\ \A i \in Inodes :
              /\ CountSent(K)[i].ref = reg[i].ref
              /\ CountSent(K)[i].count = reg[i].count + Cardinality({k \in K : sendq[k] = i})
              /\ CountSent(K)[i].count > 0 <=> reg[i].count > 0
<1> DEFINE R == CountSent(K)
<1>1. ASSUME NEW i \in Inodes
      PROVE  /\ R[i] \in [count : Nat, ref : Nat] /\ R[i].ref = reg[i].ref
             /\ R[i].count = reg[i].count + Cardinality({k \in K : sendq[k] = i})
             /\ R[i].count > 0 <=> reg[i].count > 0
  <2> DEFINE S == {k \in K : sendq[k] = i}
  <2>1. S \in SUBSET (1 .. n) /\ n \in Nat
    <3>1. Len(sendq) \in Nat
      OBVIOUS
    <3>2. S \subseteq K
      OBVIOUS
    <3> HIDE DEF S
    <3> QED
      BY <3>1, <3>2
  <2>2. IsFiniteSet(S) /\ Cardinality(S) \in Nat
    BY <2>1, PositionsFinite
  <2>3. reg[i].count = 0 => Cardinality(S) = 0
    <3>1. reg[i].count = 0 => \A k \in K : sendq[k] # i
      OBVIOUS
    <3>2. reg[i].count = 0 => S = {}
      BY <3>1
    <3> QED
      BY <3>2, FS_EmptySet
  <2>4. R[i] = [reg[i] EXCEPT !.count = reg[i].count + Cardinality(S)]
    BY DEF CountSent
  <2>5. reg[i] \in [count : Nat, ref : Nat]
    OBVIOUS
  <2> HIDE DEF S, R
  <2>6. /\ R[i] \in [count : Nat, ref : Nat] /\ R[i].ref = reg[i].ref
        /\ R[i].count = reg[i].count + Cardinality(S)
    BY <2>2, <2>4, <2>5
  <2> QED
    BY <2>2, <2>3, <2>5, <2>6 DEF S
<1>2. R = [i \in Inodes |-> R[i]]
  BY DEF CountSent
<1> HIDE DEF R
<1>3. R \in [Inodes -> [count : Nat, ref : Nat]]
  BY <1>1, <1>2
<1> QED
  BY <1>1, <1>3 DEF R

\* Only counts of entries change.
LEMMA CountsFiles ==
  ASSUME FilesInv, UNCHANGED <<names, inode>>, RestOK',
         reg' \in [Inodes -> [count : Nat, ref : Nat]],
         \A i \in Inodes : reg'[i].ref = reg[i].ref /\ (reg'[i].count > 0 <=> reg[i].count > 0)
  PROVE  FilesInv'
<1>1. inode \in [Inodes -> IpType]
  BY FilesInvParts
<1>2. \A j \in Inodes : InodeOK(j)'
  BY FilesInvParts DEF InodeOK
<1>3. NamesOK'
  BY FilesInvParts DEF NamesOK, NamesDistinct
<1> QED
  BY <1>1, <1>2, <1>3, FilesInvFromParts

\* Work of the root task and what clients do.
LEMMA FilesOther ==
  ASSUME FilesInv
  PROVE  /\ \A r \in Request : Receive(r) => FilesInv'
         /\ NewNs => FilesInv'
         /\ SendWork => FilesInv'
         /\ \A c \in Clients : Destroy(c) => FilesInv'
         /\ \A c, d \in Clients, s \in Spaces, i \in Inodes : SendCap(c, d, s, i) => FilesInv'
         /\ UNCHANGED vars => FilesInv'
<1>1. RestOK
  BY FilesInvParts
<1>2. ASSUME NEW r \in Request, Receive(r)  PROVE FilesInv'
  <2>1. RestOK' /\ UNCHANGED <<names, inode, reg>>
    BY <1>1, <1>2 DEF RestOK, Receive, fsVars, rtVars
  <2> QED
    BY <2>1, SameFiles
<1>3. CASE NewNs
  <2>1. current.space \in NS
    BY <1>3, CurrentType DEF NewNs, FilesInv
  <2>2. RestOK' /\ UNCHANGED <<names, inode, reg>>
    BY <1>1, <1>3, <2>1 DEF RestOK, NewNs, Done
  <2> QED
    BY <2>2, SameFiles
<1>4. CASE SendWork
  <2>1. PICK n \in 1 .. Len(sendq), K \in SUBSET (1 .. Len(sendq)) :
          /\ K \in SUBSET (1 .. n) /\ sendq' = SubSeq(sendq, n + 1, Len(sendq))
          /\ reg' = CountSent(K) /\ \A k \in K : reg[sendq[k]].count > 0
          /\ waiting' \in {None, waiting}
          /\ miscounted' \subseteq miscounted \cup {sendq[k] : k \in 1 .. n}
    BY <1>1, <1>4, SendWorkParts, FilesInvParts DEF RestOK
  <2>2. RestOK' /\ UNCHANGED <<names, inode>>
    <3>1. sendq \in Seq(Inodes) /\ \A k \in 1 .. n : sendq[k] \in Inodes
      BY <1>1 DEF RestOK
    <3>2. sendq' \in Seq(Inodes)
      BY <2>1, <3>1
    <3>3. miscounted' \subseteq Inodes /\ waiting' \in Clients \cup {None}
      BY <1>1, <2>1, <3>1 DEF RestOK
    <3>4. UNCHANGED <<names, inode, ns, current, live, hold, freeq, hung>>
      BY <1>4 DEF SendWork
    <3> QED
      BY <1>1, <3>2, <3>3, <3>4 DEF RestOK
  <2>3. /\ reg' \in [Inodes -> [count : Nat, ref : Nat]]
        /\ \A i \in Inodes : reg'[i].ref = reg[i].ref /\ (reg'[i].count > 0 <=> reg[i].count > 0)
    BY <1>1, <2>1, CountSentFacts, FilesInvParts DEF RestOK
  <2> QED
    BY <2>2, <2>3, CountsFiles
<1>5. ASSUME NEW c \in Clients, Destroy(c)  PROVE FilesInv'
  <2>1. \A i \in Inodes : Cardinality({s \in Spaces : hold[c][s][i] > 0}) \in Nat
    <3> TAKE i \in Inodes
    <3>1. IsFiniteSet({s \in Spaces : hold[c][s][i] > 0})
      BY SpacesFinite, FS_Subset
    <3> QED
      BY <3>1, FS_CardinalityType
  <2>2. freeq' \in [Inodes -> Nat] /\ hold' \in HoldType
    <3>1. freeq \in [Inodes -> Nat] /\ hold \in HoldType
      BY <1>1 DEF RestOK
    <3> QED
      BY <1>5, <2>1, <3>1 DEF Destroy, HoldType
  <2>3. miscounted' \subseteq Inodes
    BY <1>1, <1>5, CurrentType DEF Destroy, RestOK, Serving, FilesInv
  <2>4. RestOK' /\ UNCHANGED <<names, inode, reg>>
    BY <1>1, <1>5, <2>2, <2>3 DEF RestOK, Destroy, fsVars
  <2> QED
    BY <2>4, SameFiles
<1>6. ASSUME NEW c \in Clients, NEW d \in Clients, NEW s \in Spaces, NEW i \in Inodes,
             SendCap(c, d, s, i)
      PROVE  FilesInv'
  <2>1. hold' \in HoldType
    <3>1. hold \in HoldType /\ hold' \in {hold, [hold EXCEPT ![d][s][i] = @ + 1]}
      BY <1>1, <1>6 DEF RestOK, SendCap
    <3>2. CASE hold' = hold
      BY <3>1, <3>2
    <3>3. CASE hold' = [hold EXCEPT ![d][s][i] = @ + 1]
      BY <3>1, <3>3 DEF HoldType
    <3> QED
      BY <3>1, <3>2, <3>3
  <2>2. RestOK' /\ UNCHANGED <<names, inode, reg>>
    BY <1>1, <1>6, <2>1 DEF RestOK, SendCap, fsVars
  <2> QED
    BY <2>2, SameFiles
<1>7. CASE UNCHANGED vars
  <2>1. RestOK' /\ UNCHANGED <<names, inode, reg>>
    BY <1>1, <1>7 DEF RestOK, vars, fsVars, rtVars
  <2> QED
    BY <2>1, SameFiles
<1> QED
  BY <1>2, <1>3, <1>4, <1>5, <1>6, <1>7

LEMMA FilesFreeWork ==
  ASSUME FilesInv, NEW i \in Inodes, FreeWork(i)
  PROVE  FilesInv'
<1>1. RestOK /\ hold \in HoldType /\ reg[i] \in [count : Nat, ref : Nat]
  BY FilesInvParts DEF RestOK
<1>2. freeq' \in [Inodes -> Nat]
  BY <1>1 DEF FreeWork, FreeIsNext, RestOK
<1>3. ASSUME hold' \in HoldType  PROVE RestOK'
  BY <1>1, <1>2, <1>3 DEF FreeWork, RestOK
<1>4. UNCHANGED names
  BY DEF FreeWork
<1>5. CASE reg[i].count = 1
  <2>1. /\ reg' = [reg EXCEPT ![i] = NoEntry]
        /\ inode' = [inode EXCEPT ![i] = Fileclose(inode[i], reg[i])]
        /\ hold' = DeleteResource(hold, i, ns \cup {Root})
    BY <1>5 DEF FreeWork, Dec, DeleteEntry
  <2>2. RestOK'
    BY <1>1, <1>3, <2>1, DeleteResourceType
  <2>3. reg[i].count > 0
    BY <1>5
  <2> QED
    BY <1>4, <2>1, <2>2, <2>3, CloseEntryFiles
<1>6. CASE reg[i].count > 1
  <2>1. reg' = [reg EXCEPT ![i].count = reg[i].count - 1] /\ UNCHANGED <<hold, inode>>
    BY <1>1, <1>6 DEF FreeWork, Dec
  <2>2. /\ reg' \in [Inodes -> [count : Nat, ref : Nat]]
        /\ \A j \in Inodes \ {i} : reg'[j] = reg[j]
        /\ reg'[i].ref = reg[i].ref
    BY <1>1, <1>6, <2>1, FilesInvParts
  <2>3. RestOK' /\ reg[i].count > 0
    BY <1>1, <1>3, <1>6, <2>1
  <2> QED
    BY <1>4, <2>1, <2>2, <2>3, CountFiles
<1>7. CASE reg[i].count = 0
  BY <1>1, <1>3, <1>4, <1>7, SameFiles DEF FreeWork
<1> QED
  BY <1>1, <1>5, <1>6, <1>7

LEMMA FilesInit == Init => FilesInv
<1> SUFFICES ASSUME Init  PROVE FilesInv
  OBVIOUS
<1>1. /\ TypeOK
  <2>1. sendq \in Seq(Inodes)
    BY DEF Init
  <2> QED
    BY <2>1, FreeInodeType DEF Init, TypeOK, IpType, NoEntry
<1>2. \A i \in Inodes : inode[i] = FreeInode /\ reg[i] = NoEntry /\ i # None
  BY FsAssumption DEF Init
<1> QED
  BY <1>1, <1>2 DEF Init, FilesInv, OpenFilePinned, NamesDistinct, LinkIsName, FreeInode, NoEntry

\* The server keeps its records in order by itself, whatever the root task tells
\* it and whatever clients hold.
LEMMA FilesNext ==
  ASSUME FilesInv, [Next]_vars
  PROVE  FilesInv'
  BY FilesCreate, FilesClose, FilesUnlink, FilesDeleteNs, FilesFreeWork, FilesOther DEF Next

-----------------------------------------------------------------------------
(* Copies of a file *)

LEMMA CopiesElements ==
  ASSUME NEW h, NEW i
  PROVE  \A x : x \in Copies(h, i) <=>
           \E c \in Clients, s \in Spaces : \E k \in 1 .. h[c][s][i] : x = <<c, s, k>>
<1>1. ASSUME NEW x \in Copies(h, i)
      PROVE  \E c \in Clients, s \in Spaces : \E k \in 1 .. h[c][s][i] : x = <<c, s, k>>
  <2>1. PICK p \in Clients \X Spaces : \E k \in 1 .. h[p[1]][p[2]][i] : x = <<p[1], p[2], k>>
    BY DEF Copies
  <2>2. p[1] \in Clients /\ p[2] \in Spaces
    OBVIOUS
  <2> QED
    BY <2>1, <2>2
<1>2. ASSUME NEW c \in Clients, NEW s \in Spaces, NEW k \in 1 .. h[c][s][i]
      PROVE  <<c, s, k>> \in Copies(h, i)
  <2> DEFINE p == <<c, s>>
  <2>1. p \in Clients \X Spaces /\ p[1] = c /\ p[2] = s
    OBVIOUS
  <2> HIDE DEF p
  <2>2. <<c, s, k>> \in {<<p[1], p[2], j>> : j \in 1 .. h[p[1]][p[2]][i]}
    BY <2>1
  <2>3. \E q \in Clients \X Spaces : <<c, s, k>> \in {<<q[1], q[2], j>> : j \in 1 .. h[q[1]][q[2]][i]}
    BY <2>1, <2>2
  <2> QED
    BY <2>3 DEF Copies
<1> QED
  BY <1>1, <1>2

LEMMA CopiesFinite ==
  ASSUME NEW h \in HoldType, NEW i \in Inodes
  PROVE  IsFiniteSet(Copies(h, i)) /\ Cardinality(Copies(h, i)) \in Nat
<1> DEFINE P == Clients \X Spaces
           C(p) == {<<p[1], p[2], k>> : k \in 1 .. h[p[1]][p[2]][i]}
           T == {C(p) : p \in P}
           f == [p \in P |-> C(p)]
<1>1. IsFiniteSet(P)
  BY SpacesFinite, FsAssumption, FS_Product
<1>2. f \in Surjection(P, T)
  BY DEF Surjection
<1>3. IsFiniteSet(T)
  BY <1>1, <1>2, FS_Surjection
<1>4. ASSUME NEW p \in P  PROVE IsFiniteSet(C(p))
  <2> DEFINE n == h[p[1]][p[2]][i]
             g == [k \in 1 .. n |-> <<p[1], p[2], k>>]
  <2>1. n \in Nat
    BY DEF HoldType
  <2>2. IsFiniteSet(1 .. n)
    BY <2>1, FS_Interval
  <2>3. g \in Surjection(1 .. n, C(p))
    BY DEF Surjection
  <2> QED
    BY <2>2, <2>3, FS_Surjection
<1>5. IsFiniteSet(UNION T)
  <2>1. \A t \in T : IsFiniteSet(t)
    BY <1>4
  <2> HIDE DEF T
  <2> QED
    BY <1>3, <2>1, FS_UNION
<1>6. Copies(h, i) = UNION T
  BY DEF Copies
<1> QED
  BY <1>5, <1>6, FS_CardinalityType

LEMMA CopiesFewer ==
  ASSUME NEW g \in HoldType, NEW h \in HoldType, NEW i \in Inodes,
         \A c \in Clients, s \in Spaces : g[c][s][i] <= h[c][s][i]
  PROVE  /\ Copies(g, i) \subseteq Copies(h, i)
         /\ Cardinality(Copies(g, i)) <= Cardinality(Copies(h, i))
<1>1. \A c \in Clients, s \in Spaces : 1 .. g[c][s][i] \subseteq 1 .. h[c][s][i]
  BY DEF HoldType
<1>2. Copies(g, i) \subseteq Copies(h, i)
  BY <1>1, CopiesElements
<1> QED
  BY <1>2, CopiesFinite, FS_Subset

LEMMA CopiesSame ==
  ASSUME NEW g, NEW h, NEW i,
         \A c \in Clients, s \in Spaces : g[c][s][i] = h[c][s][i]
  PROVE  Copies(g, i) = Copies(h, i)
<1>1. \A x : x \in Copies(g, i) <=> x \in Copies(h, i)
  BY CopiesElements
<1> QED
  BY <1>1

\* One more hold is one more copy.
LEMMA CopiesUp ==
  ASSUME NEW g \in HoldType, NEW h \in HoldType, NEW i \in Inodes,
         NEW c \in Clients, NEW s \in Spaces, g[c][s][i] = h[c][s][i] + 1,
         \A d \in Clients, t \in Spaces : d # c \/ t # s => g[d][t][i] = h[d][t][i]
  PROVE  Cardinality(Copies(g, i)) = Cardinality(Copies(h, i)) + 1
<1> DEFINE new == <<c, s, h[c][s][i] + 1>>
<1>1. h[c][s][i] \in Nat
  BY DEF HoldType
<1>2. 1 .. g[c][s][i] = (1 .. h[c][s][i]) \cup {h[c][s][i] + 1}
  BY <1>1
<1>3. new \notin Copies(h, i)
  BY <1>1, CopiesElements
<1>4. Copies(g, i) \subseteq Copies(h, i) \cup {new}
  <2> SUFFICES ASSUME NEW x \in Copies(g, i)  PROVE x \in Copies(h, i) \cup {new}
    OBVIOUS
  <2>1. PICK d \in Clients, t \in Spaces : \E k \in 1 .. g[d][t][i] : x = <<d, t, k>>
    BY CopiesElements
  <2>2. CASE d # c \/ t # s
    BY <2>1, <2>2, CopiesElements
  <2>3. CASE d = c /\ t = s
    <3>1. PICK k \in 1 .. g[c][s][i] : x = <<c, s, k>>
      BY <2>1, <2>3
    <3>2. k \in 1 .. h[c][s][i] \/ k = h[c][s][i] + 1
      BY <1>2
    <3> QED
      BY <3>1, <3>2, CopiesElements
  <2> QED
    BY <2>2, <2>3
<1>5. Copies(h, i) \cup {new} \subseteq Copies(g, i)
  <2>1. new \in Copies(g, i)
    BY <1>2, CopiesElements
  <2>2. \A d \in Clients, t \in Spaces : 1 .. h[d][t][i] \subseteq 1 .. g[d][t][i]
    BY <1>2
  <2> QED
    BY <2>1, <2>2, CopiesElements
<1>6. Copies(g, i) = Copies(h, i) \cup {new}
  BY <1>4, <1>5
<1> HIDE DEF new
<1> QED
  BY <1>3, <1>6, CopiesFinite, FS_AddElement

\* Without copies nobody holds the file.
LEMMA CopiesNone ==
  ASSUME NEW h \in HoldType, NEW i \in Inodes
  PROVE  Cardinality(Copies(h, i)) = 0 <=> \A c \in Clients, s \in Spaces : h[c][s][i] = 0
<1>1. Cardinality(Copies(h, i)) = 0 <=> Copies(h, i) = {}
  BY CopiesFinite, FS_EmptySet
<1>2. \A c \in Clients, s \in Spaces : h[c][s][i] \in Nat
  BY DEF HoldType
<1>3. ASSUME NEW c \in Clients, NEW s \in Spaces, h[c][s][i] # 0
      PROVE  <<c, s, 1>> \in Copies(h, i)
  <2>1. 1 \in 1 .. h[c][s][i]
    BY <1>2, <1>3
  <2> QED
    BY <2>1, CopiesElements
<1>4. ASSUME NEW x \in Copies(h, i)
      PROVE  \E c \in Clients, s \in Spaces : h[c][s][i] # 0
  BY <1>2, CopiesElements
<1> QED
  BY <1>1, <1>3, <1>4

\* Two holds are two copies, whether of two clients or of one.
LEMMA CopiesTwo ==
  ASSUME NEW h \in HoldType, NEW i \in Inodes,
         NEW c \in Clients, NEW s \in Spaces, NEW d \in Clients, NEW t \in Spaces,
         h[c][s][i] > 0, h[d][t][i] > 0, c # d \/ s # t \/ h[c][s][i] > 1
  PROVE  Cardinality(Copies(h, i)) >= 2
<1> DEFINE a == <<c, s, IF c = d /\ s = t THEN 2 ELSE 1>>
           b == <<d, t, 1>>
<1>1. a \in Copies(h, i) /\ b \in Copies(h, i) /\ a # b
  <2>1. h[c][s][i] \in Nat /\ h[d][t][i] \in Nat
    BY DEF HoldType
  <2>2. (IF c = d /\ s = t THEN 2 ELSE 1) \in 1 .. h[c][s][i] /\ 1 \in 1 .. h[d][t][i]
    BY <2>1
  <2> QED
    BY <2>2, CopiesElements
<1> HIDE DEF a, b
<1>2. IsFiniteSet({a}) /\ Cardinality({a}) = 1
  BY FS_Singleton
<1>3. Cardinality({a} \cup {b}) = 2
  <2>1. b \notin {a}
    BY <1>1
  <2>2. Cardinality({a} \cup {b}) = IF b \in {a} THEN Cardinality({a}) ELSE Cardinality({a}) + 1
    BY <1>2, FS_AddElement
  <2> QED
    BY <1>2, <2>1, <2>2
<1>4. {a} \cup {b} \in SUBSET Copies(h, i)
  BY <1>1
<1> QED
  BY <1>3, <1>4, CopiesFinite, FS_Subset

\* The copies of a client that is destroyed go; there is at least one in each
\* space in which it holds the file.
LEMMA CopiesDestroyed ==
  ASSUME NEW g \in HoldType, NEW h \in HoldType, NEW i \in Inodes, NEW c \in Clients,
         \A s \in Spaces : g[c][s][i] = 0,
         \A d \in Clients \ {c}, s \in Spaces : g[d][s][i] = h[d][s][i]
  PROVE  Cardinality(Copies(g, i)) + Cardinality({s \in Spaces : h[c][s][i] > 0})
           <= Cardinality(Copies(h, i))
<1> DEFINE held == {s \in Spaces : h[c][s][i] > 0}
           M == {<<c, s, 1>> : s \in held}
           f == [s \in held |-> <<c, s, 1>>]
<1>1. IsFiniteSet(held)
  BY SpacesFinite, FS_Subset
<1>2. f \in Bijection(held, M)
  <2>1. f \in Injection(held, M)
    <3> HIDE DEF held
    <3>1. f \in [held -> M]
      OBVIOUS
    <3>2. ASSUME NEW x \in held, NEW y \in held, f[x] = f[y]  PROVE x = y
      BY <3>2
    <3> HIDE DEF f, M
    <3> QED
      BY <3>1, <3>2 DEF Injection, IsInjective
  <2>2. f \in Surjection(held, M)
    BY DEF Surjection
  <2> QED
    BY <2>1, <2>2 DEF Bijection
<1>3. IsFiniteSet(M) /\ Cardinality(M) = Cardinality(held)
  BY <1>1, <1>2, FS_Bijection DEF ExistsBijection
<1>4. ASSUME NEW d \in Clients, NEW s \in Spaces
      PROVE  h[d][s][i] \in Nat /\ g[d][s][i] <= h[d][s][i]
  <2>1. h[d][s][i] \in Nat /\ g[d][s][i] \in Nat
    BY DEF HoldType
  <2> QED
    BY <2>1
<1>5. M \subseteq Copies(h, i)
  <2>1. \A s \in held : 1 \in 1 .. h[c][s][i]
    BY <1>4
  <2> QED
    BY <2>1, CopiesElements
<1>6. M \cap Copies(g, i) = {}
  <2>1. \A s \in Spaces : 1 .. g[c][s][i] = {}
    OBVIOUS
  <2> QED
    BY <2>1, CopiesElements
<1>7. Copies(g, i) \subseteq Copies(h, i)
  BY <1>4, CopiesFewer
<1>8. /\ IsFiniteSet(Copies(g, i)) /\ Cardinality(Copies(g, i)) \in Nat
      /\ IsFiniteSet(Copies(h, i)) /\ Cardinality(Copies(h, i)) \in Nat
  BY CopiesFinite
<1>9. Cardinality(M) \in Nat
  BY <1>3, FS_CardinalityType
<1> HIDE DEF M, held
<1>10. Cardinality(Copies(g, i) \cup M)
         = Cardinality(Copies(g, i)) + Cardinality(M) - Cardinality(Copies(g, i) \cap M)
  BY <1>3, <1>8, FS_Union
<1>11. Cardinality(Copies(g, i) \cap M) = 0
  <2>1. Copies(g, i) \cap M = {}
    BY <1>6
  <2> QED
    BY <2>1, FS_EmptySet
<1>12. Cardinality(Copies(g, i) \cup M) <= Cardinality(Copies(h, i))
  <2>1. Copies(g, i) \cup M \in SUBSET Copies(h, i)
    BY <1>5, <1>7
  <2> QED
    BY <1>8, <2>1, FS_Subset
<1> QED
  BY <1>3, <1>8, <1>9, <1>10, <1>11, <1>12 DEF held

-----------------------------------------------------------------------------
(* The records of the server and of the root task together *)

\* What HeldFilesOpen says of one file.
Covered(i) ==
  IF reg[i].count = 0 THEN HoldCount(i) = 0
  ELSE HoldCount(i) + freeq[i] <= reg[i].count + Uncounted(i)

\* What NoHoldStolen says of one step.
NotStolen ==
  \A c \in live', s \in Spaces, i \in Inodes \ miscounted : hold'[c][s][i] < hold[c][s][i] =>
       /\ current # None
       /\ \/ current.op = "close" /\ current.client = c /\ current.file = i
          \/ current.op \in {"unlink", "delete_ns"}

\* SEND work for a file that is queued and not done
LEMMA UncountedType ==
  /\ sendq \in Seq(Inodes) => \A i : Uncounted(i) \in Nat
  /\ sendq' \in Seq(Inodes) => \A i : Uncounted(i)' \in Nat
<1>1. ASSUME NEW q \in Seq(Inodes), NEW i
      PROVE  Cardinality({k \in DOMAIN q : q[k] = i}) \in Nat
  <2>1. {k \in DOMAIN q : q[k] = i} \in SUBSET (1 .. Len(q)) /\ Len(q) \in Nat
    OBVIOUS
  <2> QED
    BY <2>1, PositionsFinite
<1> QED
  BY <1>1 DEF Uncounted

LEMMA UncountedSame == sendq' = sendq => \A i : Uncounted(i)' = Uncounted(i)
  BY DEF Uncounted

LEMMA UncountedNone ==
  /\ sendq = <<>> => \A i : Uncounted(i) = 0
  /\ sendq' = <<>> => \A i : Uncounted(i)' = 0
<1>1. \A i : {k \in DOMAIN <<>> : <<>>[k] = i} = {}
  OBVIOUS
<1> QED
  BY <1>1, FS_EmptySet DEF Uncounted

\* One more send is one more to be counted.
LEMMA UncountedAppend ==
  ASSUME sendq \in Seq(Inodes), NEW i \in Inodes, sendq' = Append(sendq, i)
  PROVE  /\ Uncounted(i)' = Uncounted(i) + 1
         /\ \A j \in Inodes \ {i} : Uncounted(j)' = Uncounted(j)
<1> DEFINE P(q, j) == {k \in DOMAIN q : q[k] = j}
           new == Len(sendq) + 1
<1>1. /\ Len(sendq) \in Nat /\ DOMAIN sendq = 1 .. Len(sendq) /\ DOMAIN sendq' = 1 .. new
      /\ sendq'[new] = i /\ \A k \in 1 .. Len(sendq) : sendq'[k] = sendq[k]
  OBVIOUS
<1>2. P(sendq', i) = P(sendq, i) \cup {new} /\ new \notin P(sendq, i)
  BY <1>1
<1>3. \A j \in Inodes \ {i} : P(sendq', j) = P(sendq, j)
  BY <1>1
<1>4. P(sendq, i) \in SUBSET (1 .. Len(sendq))
  BY <1>1
<1>5. IsFiniteSet(P(sendq, i))
  BY <1>1, <1>4, PositionsFinite
<1>6. \A j : Uncounted(j) = Cardinality(P(sendq, j)) /\ Uncounted(j)' = Cardinality(P(sendq', j))
  BY DEF Uncounted
<1> HIDE DEF P, new
<1>7. Cardinality(P(sendq, i) \cup {new}) = Cardinality(P(sendq, i)) + 1
  BY <1>2, <1>5, FS_AddElement
<1> QED
  BY <1>2, <1>3, <1>6, <1>7

\* A batch of n is taken off the queue.
LEMMA UncountedTaken ==
  ASSUME sendq \in Seq(Inodes), NEW i \in Inodes, NEW n \in 1 .. Len(sendq),
         sendq' = SubSeq(sendq, n + 1, Len(sendq))
  PROVE  Uncounted(i) = Uncounted(i)' + Cardinality({k \in 1 .. n : sendq[k] = i})
<1> DEFINE L == Len(sendq)
           A == {k \in 1 .. n : sendq[k] = i}
           B == {k \in n + 1 .. L : sendq[k] = i}
           C == {k \in 1 .. L - n : sendq'[k] = i}
           f == [k \in C |-> k + n]
<1>1. /\ L \in Nat /\ n \in Nat /\ n <= L /\ DOMAIN sendq = 1 .. L
      /\ DOMAIN sendq' = 1 .. L - n
      /\ \A k \in 1 .. L - n : sendq'[k] = sendq[k + n]
  OBVIOUS
<1> HIDE DEF L
<1>2. A \cup B = {k \in 1 .. L : sendq[k] = i} /\ A \cap B = {}
  BY <1>1
<1>3. A \in SUBSET (1 .. L) /\ B \in SUBSET (1 .. L)
  BY <1>1
<1>4. C \in SUBSET (1 .. L) /\ C \subseteq Nat
  BY <1>1
<1>5. /\ IsFiniteSet(A) /\ Cardinality(A) \in Nat /\ IsFiniteSet(B) /\ Cardinality(B) \in Nat
      /\ IsFiniteSet(C)
  BY <1>1, <1>3, <1>4, PositionsFinite
<1>6. f \in Bijection(C, B)
  <2>1. \A k \in C : k + n \in B
    BY <1>1
  <2>2. \A k \in B : k - n \in C /\ (k - n) + n = k
    BY <1>1
  <2> HIDE DEF B, C
  <2>3. f \in [C -> B]
    BY <2>1
  <2>4. \A x, y \in C : f[x] = f[y] => x = y
    BY <1>1, <1>4
  <2>5. \A y \in B : \E x \in C : f[x] = y
    BY <2>2
  <2> HIDE DEF f
  <2> QED
    BY <2>3, <2>4, <2>5 DEF Bijection, Injection, IsInjective, Surjection
<1>7. Cardinality(C) = Cardinality(B)
  <2> HIDE DEF B, C, f
  <2>1. ExistsBijection(C, B)
    BY <1>6 DEF ExistsBijection
  <2> QED
    BY <1>5, <2>1, FS_Bijection
<1>8. Uncounted(i) = Cardinality(A \cup B) /\ Uncounted(i)' = Cardinality(C)
  <2>1. Uncounted(i) = Cardinality({k \in 1 .. L : sendq[k] = i})
    BY <1>1 DEF Uncounted
  <2>2. Uncounted(i)' = Cardinality(C)
    BY <1>1 DEF Uncounted
  <2> QED
    BY <1>2, <2>1, <2>2
<1>9. Cardinality(A \cap B) = 0
  BY <1>2, FS_EmptySet
<1>10. Cardinality(A \cup B) = Cardinality(A) + Cardinality(B) - Cardinality(A \cap B)
  <2> HIDE DEF A, B
  <2> QED
    BY <1>5, FS_Union
<1> HIDE DEF A, B, C
<1>11. Uncounted(i) = Uncounted(i)' + Cardinality(A)
  BY <1>5, <1>7, <1>8, <1>9, <1>10
<1> QED
  BY <1>11 DEF A

LEMMA CountTypes ==
  ASSUME FilesInv
  PROVE  /\ hold \in HoldType /\ live \subseteq Clients /\ miscounted \subseteq Inodes
         /\ \A i \in Inodes : /\ HoldCount(i) \in Nat /\ reg[i].count \in Nat
                             /\ freeq[i] \in Nat /\ Uncounted(i) \in Nat
         /\ \A c \in Clients, s \in Spaces, i \in Inodes : hold[c][s][i] \in Nat
<1>1. RestOK /\ \A i \in Inodes : InodeOK(i)
  BY FilesInvParts
<1>2. hold \in HoldType
  BY <1>1 DEF RestOK
<1>3. \A i \in Inodes : HoldCount(i) \in Nat
  BY <1>2, CopiesFinite DEF HoldCount
<1>4. \A i \in Inodes : Uncounted(i) \in Nat
  BY <1>1, UncountedType DEF RestOK
<1> QED
  BY <1>1, <1>2, <1>3, <1>4 DEF RestOK, InodeOK, HoldType

LEMMA CountTypesNext ==
  ASSUME FilesInv'
  PROVE  /\ hold' \in HoldType /\ live' \subseteq Clients
         /\ \A i \in Inodes : HoldCount(i)' \in Nat /\ reg'[i].count \in Nat /\ freeq'[i] \in Nat
         /\ \A c \in Clients, s \in Spaces, i \in Inodes : hold'[c][s][i] \in Nat
<1>1. /\ hold' \in HoldType /\ live' \subseteq Clients /\ freeq' \in [Inodes -> Nat]
      /\ reg' \in [Inodes -> [count : Nat, ref : Nat]]
  BY DEF FilesInv, TypeOK, HoldType
<1>2. \A i \in Inodes : HoldCount(i)' \in Nat
  BY <1>1, CopiesFinite DEF HoldCount
<1> QED
  BY <1>1, <1>2 DEF HoldType

\* A file whose records a step does not touch stays covered.
LEMMA CoveredSame ==
  ASSUME NEW i \in Inodes, Covered(i),
         \A c \in Clients, s \in Spaces : hold'[c][s][i] = hold[c][s][i],
         reg'[i] = reg[i], freeq'[i] = freeq[i], sendq' = sendq \/ Uncounted(i)' = Uncounted(i)
  PROVE  Covered(i)'
<1>1. HoldCount(i)' = HoldCount(i)
  BY CopiesSame DEF HoldCount
<1>2. Uncounted(i)' = Uncounted(i)
  BY UncountedSame
<1> QED
  BY <1>1, <1>2 DEF Covered

\* What a handler leaves when it replies.
LEMMA HandlerDone ==
  ASSUME FsInv, FilesInv', Done, miscounted \subseteq miscounted',
         HoldsInSpaces', \A i \in Inodes \ miscounted' : Covered(i)'
  PROVE  HoldsInv'
<1>1. ServingClean' /\ CloseSound' /\ CloserGone'
  BY DEF FsInv, HoldsInv, Done, ServingClean, CloseSound, CloserGone
<1>2. HeldFilesOpen'
  BY DEF HeldFilesOpen, Covered
<1> QED
  BY <1>1, <1>2 DEF HoldsInv

\* The file is opened for c: registry and hold registry count it together.
LEMMA OpenedHolds ==
  ASSUME FsInv, FilesInv', current # None, NEW c \in Clients, NEW s \in Spaces, Exists(s),
         NEW i \in Inodes, NEW ip, Register(i, ip), Give(c, s, i), Done, UNCHANGED <<ns, miscounted>>
  PROVE  HoldsInv' /\ NotStolen
<1>1. /\ hold \in HoldType /\ miscounted \subseteq Inodes
      /\ \A j \in Inodes : HoldCount(j) \in Nat /\ reg[j].count \in Nat /\ freeq[j] \in Nat /\ Uncounted(j) \in Nat
      /\ \A d \in Clients, t \in Spaces, j \in Inodes : hold[d][t][j] \in Nat
  BY CountTypes DEF FsInv
<1>2. /\ hold' \in HoldType
      /\ \A d \in Clients, t \in Spaces, j \in Inodes :
           hold'[d][t][j] = IF c \in live /\ d = c /\ t = s /\ j = i
                            THEN hold[d][t][j] + 1 ELSE hold[d][t][j]
  BY GiveType DEF FsInv
<1>3. reg \in [Inodes -> [count : Nat, ref : Nat]]
  BY FilesInvParts DEF FsInv
<1>4. reg'[i].count = reg[i].count + 1 /\ \A j \in Inodes \ {i} : reg'[j] = reg[j]
  BY <1>3 DEF Register
<1>5. /\ UNCHANGED <<freeq, sendq, live>>
  BY DEF Done
<1>6. HoldCount(i)' <= HoldCount(i) + 1
  <2>1. CASE c \in live
    BY <1>1, <1>2, <2>1, CopiesUp DEF HoldCount
  <2>2. CASE c \notin live
    <3>1. HoldCount(i)' = HoldCount(i)
      BY <1>2, <2>2, CopiesSame DEF HoldCount
    <3> QED
      BY <1>1, <3>1
  <2> QED
    BY <2>1, <2>2
<1>7. i \notin miscounted => HoldCount(i)' + freeq[i] <= reg'[i].count + Uncounted(i)
  <2> SUFFICES ASSUME i \notin miscounted
               PROVE  HoldCount(i)' + freeq[i] <= reg'[i].count + Uncounted(i)
    OBVIOUS
  <2>1. Covered(i) /\ (reg[i].count = 0 => freeq[i] = 0)
    BY DEF FsInv, HoldsInv, HeldFilesOpen, Covered, ServingClean
  <2>2. HoldCount(i)' \in Nat
    BY CountTypesNext
  <2> QED
    BY <1>1, <1>4, <1>6, <2>1, <2>2 DEF Covered
<1>8. ASSUME NEW j \in Inodes \ miscounted'  PROVE Covered(j)'
  <2>1. CASE j = i
    BY <1>1, <1>4, <1>5, <1>7, <2>1, UncountedSame DEF Covered
  <2>2. CASE j # i
    <3>1. Covered(j)
      BY DEF FsInv, HoldsInv, HeldFilesOpen, Covered
    <3> QED
      BY <1>2, <1>4, <1>5, <2>2, <3>1, CoveredSame
  <2> QED
    BY <2>1, <2>2
<1>9. HoldsInSpaces'
  BY <1>1, <1>2 DEF FsInv, HoldsInv, HoldsInSpaces, Exists
<1>10. HoldsInv'
  BY <1>8, <1>9, HandlerDone
<1>11. NotStolen
  <2>1. \A d \in Clients, t \in Spaces, j \in Inodes : ~(hold'[d][t][j] < hold[d][t][j])
    BY <1>1, <1>2
  <2>2. live' \subseteq Clients
    BY CountTypesNext
  <2> QED
    BY <2>1, <2>2 DEF NotStolen
<1> QED
  BY <1>10, <1>11

\* A step that leaves the counts alone.
LEMMA NothingCounted ==
  ASSUME FsInv, FilesInv', UNCHANGED <<reg, hold, freeq, sendq, waiting, ns, miscounted>>,
         ServingClean', CloseSound', CloserGone'
  PROVE  HoldsInv' /\ NotStolen
<1>1. \A i \in Inodes \ miscounted : Covered(i)'
  BY CoveredSame DEF FsInv, HoldsInv, HeldFilesOpen, Covered
<1>2. HeldFilesOpen' /\ HoldsInSpaces'
  BY <1>1 DEF HeldFilesOpen, Covered, FsInv, HoldsInv, HoldsInSpaces, Exists
<1>3. NotStolen
  BY CountTypes, CountTypesNext DEF NotStolen, FsInv
<1> QED
  BY <1>2, <1>3 DEF HoldsInv

LEMMA HoldsCreate ==
  ASSUME FsInv, FilesInv', Create
  PROVE  HoldsInv' /\ NotStolen
<1> DEFINE n == current.name
           s == SpaceOf(n)
           c == current.client
<1>1. n \in Names /\ s \in Spaces /\ c \in Clients /\ current # None
  BY CurrentType DEF Create, FsInv, FilesInv
<1>2. Done /\ UNCHANGED <<ns, miscounted>>
  BY DEF Create
<1>3. ASSUME Exists(s), names[n] # None, NEW ip, Register(names[n], ip), Give(c, s, names[n])
      PROVE  HoldsInv' /\ NotStolen
  <2>1. names[n] \in Inodes
    BY <1>1, <1>3, FilesInvParts DEF NamesOK, FsInv
  <2> HIDE DEF n, s, c
  <2> QED
    BY <1>1, <1>2, <1>3, <2>1, OpenedHolds
<1>4. ASSUME Exists(s), NEW i \in Inodes, NEW ip, Register(i, ip), Give(c, s, i)
      PROVE  HoldsInv' /\ NotStolen
  <2> HIDE DEF n, s, c
  <2> QED
    BY <1>1, <1>2, <1>4, OpenedHolds
<1>5. CASE UNCHANGED <<names, reg, inode, hold>>
  <2>1. ServingClean' /\ CloseSound' /\ CloserGone' /\ UNCHANGED <<freeq, sendq, waiting>>
    BY <1>2 DEF Done, ServingClean, CloseSound, CloserGone
  <2> QED
    BY <1>2, <1>5, <2>1, NothingCounted
<1> QED
  BY <1>3, <1>4, <1>5 DEF Create

LEMMA HoldsClose ==
  ASSUME FsInv, FilesInv', Close
  PROVE  HoldsInv' /\ NotStolen
<1>1. PICK i \in Inodes, s \in Spaces, c \in Clients :
        /\ i = current.file /\ s = current.space /\ c = current.client
        /\ current # None /\ current.op = "close"
  BY CurrentType DEF Close, FsInv, FilesInv
<1> DEFINE all == DeleteResource(hold, i, ns \cup {Root})
<1>2. Done /\ UNCHANGED <<ns, miscounted, freeq, sendq, waiting, live>>
  BY DEF Close, Done
<1>3. /\ hold \in HoldType /\ live \subseteq Clients /\ miscounted \subseteq Inodes
      /\ \A j \in Inodes : HoldCount(j) \in Nat /\ reg[j].count \in Nat /\ freeq[j] \in Nat /\ Uncounted(j) \in Nat
      /\ \A d \in Clients, t \in Spaces, j \in Inodes : hold[d][t][j] \in Nat
  BY CountTypes DEF FsInv
<1>4. i \notin miscounted => Covered(i)
  BY <1>1 DEF FsInv, HoldsInv, HeldFilesOpen, Covered
<1>5. c \in live => hold[c][s][i] > 0 /\ Exists(s) /\ (i \notin miscounted /\ Uncounted(i) > 0 => reg[i].count > 1)
  BY <1>1 DEF FsInv, HoldsInv, CloseSound, HoldsInSpaces
<1>10. i \in miscounted \/ c \in live
  BY <1>1 DEF FsInv, HoldsInv, CloserGone
<1>6. ASSUME \A j \in Inodes \ {i} : reg'[j] = reg[j],
             \A d \in Clients, t \in Spaces, j \in Inodes :
               hold'[d][t][j] <= hold[d][t][j] /\ (j # i => hold'[d][t][j] = hold[d][t][j]),
             i \notin miscounted => Covered(i)'
      PROVE  HoldsInv'
  <2>1. ASSUME NEW j \in Inodes \ miscounted'  PROVE Covered(j)'
    <3>1. CASE j = i
      BY <1>2, <1>6, <2>1, <3>1
    <3>2. CASE j # i
      <4>1. Covered(j)
        BY <1>2, <2>1 DEF FsInv, HoldsInv, HeldFilesOpen, Covered
      <4> HIDE DEF all
      <4> QED
        BY <1>2, <1>6, <2>1, <3>2, <4>1, CoveredSame
    <3> QED
      BY <3>1, <3>2
  <2>2. HoldsInSpaces'
    <3>1. \A d \in Clients, t \in Spaces, j \in Inodes : hold'[d][t][j] \in Nat
      BY CountTypesNext
    <3> QED
      BY <1>2, <1>3, <1>6, <3>1 DEF FsInv, HoldsInv, HoldsInSpaces, Exists
  <2> QED
    BY <1>2, <2>1, <2>2, HandlerDone
<1>7. CASE UNCHANGED <<reg, inode, hold>>
  <2>1. ServingClean' /\ CloseSound' /\ CloserGone'
    BY <1>2 DEF Done, ServingClean, CloseSound, CloserGone
  <2> QED
    BY <1>2, <1>7, <2>1, NothingCounted
<1>8. ASSUME reg[i].count = 1,
             reg' = [reg EXCEPT ![i] = NoEntry],
             hold' = Revoke(all, c, s, i)
      PROVE  HoldsInv' /\ NotStolen
  <2>1. /\ all \in HoldType
        /\ \A d \in Clients, t \in Spaces, j \in Inodes :
             all[d][t][j] = IF j = i /\ t \in ns \cup {Root} /\ hold[d][t][i] > 0
                            THEN hold[d][t][j] - 1 ELSE hold[d][t][j]
    BY <1>1, <1>3, DeleteResourceType
  <2>2. reg'[i].count = 0 /\ \A j \in Inodes \ {i} : reg'[j] = reg[j]
    BY <1>1, <1>8, FilesInvParts DEF FsInv, NoEntry
  <2> HIDE DEF all
  <2>3. \A d \in Clients, t \in Spaces, j \in Inodes :
          hold'[d][t][j] = IF /\ d = c /\ t = s /\ j = i
                              /\ c \in live /\ Exists(s) /\ all[c][s][i] > 0
                           THEN all[d][t][j] - 1 ELSE all[d][t][j]
    <3>1. PICK h \in HoldType : h = all
      BY <2>1
    <3>2. \A d \in Clients, t \in Spaces, j \in Inodes :
            Revoke(h, c, s, i)[d][t][j] =
              IF /\ d = c /\ t = s /\ j = i
                 /\ c \in live /\ Exists(s) /\ h[c][s][i] > 0
              THEN h[d][t][j] - 1 ELSE h[d][t][j]
      BY <1>1, RevokeType, SMTT(30)
    <3> QED
      BY <1>8, <3>1, <3>2
  <2>4. \A d \in Clients, t \in Spaces, j \in Inodes :
          hold'[d][t][j] <= hold[d][t][j] /\ (j # i => hold'[d][t][j] = hold[d][t][j])
    BY <1>3, <2>1, <2>3
  <2>5. ASSUME i \notin miscounted, NEW d \in Clients, NEW t \in Spaces
        PROVE  hold[d][t][i] > 0 => d = c /\ t = s /\ hold[d][t][i] = 1 /\ Exists(s)
    <3>1. c \in live /\ Uncounted(i) = 0
      BY <1>1, <1>3, <1>5, <1>8, <1>10, <2>5
    <3>2. HoldCount(i) <= 1
      BY <1>1, <1>3, <1>4, <1>8, <2>5, <3>1 DEF Covered
    <3>3. ~(HoldCount(i) >= 2)
      BY <1>1, <1>3, <3>2
    <3>4. Exists(s) /\ hold[c][s][i] > 0 /\ hold[d][t][i] \in Nat
      BY <1>3, <1>5, <3>1
    <3>5. ASSUME hold[d][t][i] > 0  PROVE d = c /\ t = s /\ ~(hold[d][t][i] > 1)
      BY <1>3, <3>3, <3>4, <3>5, CopiesTwo DEF HoldCount
    <3> QED
      BY <3>4, <3>5
  <2>6. ASSUME i \notin miscounted  PROVE Covered(i)'
    <3>1. ASSUME NEW d \in Clients, NEW t \in Spaces  PROVE hold'[d][t][i] = 0
      <4>1. CASE hold[d][t][i] > 0
        BY <1>3, <2>1, <2>3, <2>5, <2>6, <4>1 DEF Exists
      <4>2. CASE ~(hold[d][t][i] > 0)
        BY <1>3, <2>1, <2>3, <4>2
      <4> QED
        BY <4>1, <4>2
    <3>2. HoldCount(i)' = 0
      BY <1>1, <3>1, CountTypesNext, CopiesNone DEF HoldCount
    <3> QED
      BY <2>2, <3>2 DEF Covered
  <2>7. HoldsInv'
    BY <1>6, <2>2, <2>4, <2>6
  <2>8. NotStolen
    <3> SUFFICES ASSUME NEW d \in live', NEW t \in Spaces, NEW j \in Inodes \ miscounted,
                        hold'[d][t][j] < hold[d][t][j]
                 PROVE  d = c /\ j = i
      BY <1>1 DEF NotStolen
    <3>1. d \in Clients /\ hold'[d][t][j] \in Nat
      BY CountTypesNext
    <3>2. j = i
      BY <1>3, <2>4, <3>1
    <3> QED
      BY <1>3, <2>5, <3>1, <3>2
  <2> QED
    BY <2>7, <2>8
<1>9. ASSUME reg[i].count > 1,
             reg' = [reg EXCEPT ![i].count = @ - 1],
             hold' = Revoke(hold, c, s, i)
      PROVE  HoldsInv' /\ NotStolen
  <2>1. reg'[i].count = reg[i].count - 1 /\ \A j \in Inodes \ {i} : reg'[j] = reg[j]
    BY <1>1, <1>9, FilesInvParts DEF FsInv
  <2> HIDE DEF all
  <2>2. \A d \in Clients, t \in Spaces, j \in Inodes :
          hold'[d][t][j] = IF /\ d = c /\ t = s /\ j = i
                              /\ c \in live /\ Exists(s) /\ hold[c][s][i] > 0
                           THEN hold[d][t][j] - 1 ELSE hold[d][t][j]
    <3>1. PICK h \in HoldType : h = hold
      BY <1>3
    <3>2. \A d \in Clients, t \in Spaces, j \in Inodes :
            Revoke(h, c, s, i)[d][t][j] =
              IF /\ d = c /\ t = s /\ j = i
                 /\ c \in live /\ Exists(s) /\ h[c][s][i] > 0
              THEN h[d][t][j] - 1 ELSE h[d][t][j]
      BY <1>1, RevokeType, SMTT(30)
    <3> QED
      BY <1>9, <3>1, <3>2
  <2>3. \A d \in Clients, t \in Spaces, j \in Inodes :
          hold'[d][t][j] <= hold[d][t][j] /\ (j # i => hold'[d][t][j] = hold[d][t][j])
    BY <1>3, <2>2
  <2>4. ASSUME i \notin miscounted  PROVE Covered(i)'
    <3>1. c \in live /\ hold[c][s][i] > 0 /\ Exists(s)
      BY <1>5, <1>10, <2>4
    <3>2. /\ hold[c][s][i] = hold'[c][s][i] + 1
          /\ \A d \in Clients, t \in Spaces : d # c \/ t # s => hold[d][t][i] = hold'[d][t][i]
      BY <1>1, <1>3, <2>2, <3>1
    <3>3. hold' \in HoldType /\ HoldCount(i)' \in Nat
      BY <1>1, CountTypesNext
    <3>4. HoldCount(i) = HoldCount(i)' + 1
      BY <1>1, <1>3, <3>2, <3>3, CopiesUp DEF HoldCount
    <3> QED
      BY <1>1, <1>2, <1>3, <1>4, <1>9, <2>1, <2>4, <3>3, <3>4, UncountedSame DEF Covered
  <2>5. HoldsInv'
    BY <1>6, <2>1, <2>3, <2>4
  <2>6. NotStolen
    <3> SUFFICES ASSUME NEW d \in live', NEW t \in Spaces, NEW j \in Inodes \ miscounted,
                        hold'[d][t][j] < hold[d][t][j]
                 PROVE  d = c /\ j = i
      BY <1>1 DEF NotStolen
    <3>1. d \in Clients
      BY CountTypesNext
    <3> QED
      BY <1>3, <2>2, <3>1
  <2> QED
    BY <2>5, <2>6
<1> QED
  BY <1>1, <1>7, <1>8, <1>9 DEF Close

LEMMA HoldsUnlink ==
  ASSUME FsInv, FilesInv', Unlink
  PROVE  HoldsInv' /\ NotStolen
<1>1. PICK n \in Names : n = current.name
  BY CurrentType DEF Unlink, FsInv, FilesInv
<1>2. PICK s : s = SpaceOf(n)
  OBVIOUS
<1>3. PICK i : i = names[n]
  OBVIOUS
<1> DEFINE inNs == IF s = Root THEN hold ELSE DeleteResource(hold, i, {s})
           all == DeleteResource(inNs, i, ns \cup {Root})
<1>4. /\ hold \in HoldType /\ live \subseteq Clients /\ miscounted \subseteq Inodes
      /\ \A j \in Inodes : HoldCount(j) \in Nat /\ reg[j].count \in Nat /\ freeq[j] \in Nat /\ Uncounted(j) \in Nat
      /\ \A d \in Clients, t \in Spaces, j \in Inodes : hold[d][t][j] \in Nat
  BY CountTypes DEF FsInv
<1>5. NotStolen
  BY DEF NotStolen, Unlink
<1>6. CASE UNCHANGED <<reg, hold, miscounted, rtVars>> /\ current' \in {current, None}
  <2>1. ServingClean' /\ CloseSound' /\ CloserGone'
    BY <1>6, UncountedSame DEF FsInv, HoldsInv, ServingClean, CloseSound, CloserGone, rtVars
  <2>2. UNCHANGED <<freeq, sendq, waiting, ns>>
    BY <1>6 DEF rtVars, Unlink
  <2> QED
    BY <1>6, <2>1, <2>2, NothingCounted
<1>7. ASSUME i # None, Done, names' = [names EXCEPT ![n] = None],
             IF inode[i].nlink = 1 /\ reg[i].count > 0
             THEN /\ reg' = [reg EXCEPT ![i] = NoEntry]
                  /\ hold' = all
                  /\ miscounted' = IF OpenTwice(i) THEN miscounted \cup {i} ELSE miscounted
             ELSE /\ hold' = inNs
                  /\ UNCHANGED <<reg, miscounted>>
      PROVE  HoldsInv'
  <2>1. i \in Inodes /\ inode[i].nlink = 1 /\ NoEntry.count = 0
    BY <1>3, <1>7, FilesInvParts DEF NamesOK, InodeOK, FsInv, NoEntry
  <2>2. /\ inNs \in HoldType
        /\ \A d \in Clients, t \in Spaces, j \in Inodes :
             inNs[d][t][j] <= hold[d][t][j] /\ (j # i => inNs[d][t][j] = hold[d][t][j])
    <3>1. CASE s = Root
      BY <1>4, <3>1
    <3>2. CASE s # Root
      BY <1>4, <2>1, <3>2, DeleteResourceType
    <3> QED
      BY <3>1, <3>2
  <2> HIDE DEF inNs
  <2>3. /\ all \in HoldType
        /\ \A d \in Clients, t \in Spaces, j \in Inodes :
             all[d][t][j] = IF j = i /\ t \in ns \cup {Root} /\ inNs[d][t][i] > 0
                            THEN inNs[d][t][j] - 1 ELSE inNs[d][t][j]
    BY <2>1, <2>2, DeleteResourceType
  <2>4. \A d \in Clients, t \in Spaces, j \in Inodes : inNs[d][t][j] \in Nat
    BY <2>2 DEF HoldType
  <2> HIDE DEF all
  <2>5. \A d \in Clients, t \in Spaces, j \in Inodes :
           hold'[d][t][j] <= hold[d][t][j] /\ (j # i => hold'[d][t][j] = hold[d][t][j])
    BY <1>4, <1>7, <2>2, <2>3, <2>4
  <2>6. /\ \A j \in Inodes \ {i} : reg'[j] = reg[j]
        /\ miscounted \subseteq miscounted'
        /\ UNCHANGED <<freeq, sendq, ns>>
    BY <1>7, FilesInvParts DEF FsInv, Done, Unlink
  <2>7. HoldsInSpaces'
    <3>1. \A d \in Clients, t \in Spaces, j \in Inodes : hold'[d][t][j] \in Nat
      BY CountTypesNext
    <3> QED
      BY <1>4, <2>5, <2>6, <3>1 DEF FsInv, HoldsInv, HoldsInSpaces, Exists
  <2>8. ASSUME i \notin miscounted'  PROVE Covered(i)'
    <3>1. Covered(i)
      BY <2>1, <2>6, <2>8 DEF FsInv, HoldsInv, HeldFilesOpen, Covered
    <3>2. reg'[i].count = 0
      BY <1>4, <1>7, <2>1, FilesInvParts DEF FsInv
    <3>3. ASSUME NEW d \in Clients, NEW t \in Spaces  PROVE hold'[d][t][i] = 0
      <4>1. CASE reg[i].count > 0
        <5>1. ~OpenTwice(i) /\ hold' = all
          BY <1>7, <2>1, <2>8, <4>1
        <5>2. hold[d][t][i] <= 1
          BY <1>4, <2>1, <5>1 DEF OpenTwice
        <5>3. hold[d][t][i] > 0 => t \in ns \cup {Root}
          BY <2>1 DEF FsInv, HoldsInv, HoldsInSpaces, Exists
        <5> QED
          BY <1>4, <2>1, <2>2, <2>3, <2>4, <5>1, <5>2, <5>3
      <4>2. CASE ~(reg[i].count > 0)
        <5>1. HoldCount(i) = 0
          BY <1>4, <2>1, <3>1, <4>2 DEF Covered
        <5>2. hold[d][t][i] = 0
          BY <1>4, <2>1, <5>1, CopiesNone DEF HoldCount
        <5> QED
          BY <1>7, <2>1, <2>2, <2>4, <4>2, <5>2
      <4> QED
        BY <4>1, <4>2
    <3>4. HoldCount(i)' = 0
      BY <2>1, <3>3, CountTypesNext, CopiesNone DEF HoldCount
    <3> QED
      BY <3>2, <3>4 DEF Covered
  <2>9. ASSUME NEW j \in Inodes \ miscounted'  PROVE Covered(j)'
    <3>1. CASE j = i
      BY <2>8, <2>9, <3>1
    <3>2. CASE j # i
      <4>1. Covered(j)
        BY <2>6, <2>9 DEF FsInv, HoldsInv, HeldFilesOpen, Covered
      <4> QED
        BY <2>5, <2>6, <2>9, <3>2, <4>1, CoveredSame
    <3> QED
      BY <3>1, <3>2
  <2> QED
    BY <1>7, <2>6, <2>7, <2>9, HandlerDone
<1> QED
  BY <1>1, <1>2, <1>3, <1>5, <1>6, <1>7 DEF Unlink, Done, rtVars

LEMMA HoldsDeleteNs ==
  ASSUME FsInv, FilesInv', DeleteNs
  PROVE  HoldsInv' /\ NotStolen
<1>1. PICK s \in NS : s = current.space
  BY CurrentType DEF DeleteNs, FsInv, FilesInv
<1>2. /\ hold \in HoldType /\ live \subseteq Clients /\ miscounted \subseteq Inodes
      /\ \A j \in Inodes : HoldCount(j) \in Nat /\ reg[j].count \in Nat /\ freeq[j] \in Nat /\ Uncounted(j) \in Nat
      /\ \A d \in Clients, t \in Spaces, j \in Inodes : hold[d][t][j] \in Nat
  BY CountTypes DEF FsInv
<1>3. /\ Done /\ UNCHANGED <<reg, miscounted, freeq, sendq>>
      /\ \/ UNCHANGED <<hold, ns>>
         \/ /\ ns' = ns \ {s}
            /\ hold' = [c \in Clients |-> [hold[c] EXCEPT ![s] = [i \in Inodes |-> 0]]]
  <2>1. CASE current.space \notin ns
    BY <2>1 DEF DeleteNs, Done, fsVars
  <2>2. CASE current.space \in ns
    <3>1. PICK K :
            /\ ns' = IF K = {} THEN ns \ {current.space} ELSE ns
            /\ hold' = IF K # {} THEN hold
                       ELSE [c \in Clients |->
                              [hold[c] EXCEPT ![current.space] = [i \in Inodes |-> 0]]]
      BY <2>2, Zenon DEF DeleteNs
    <3>2. Done /\ UNCHANGED <<reg, miscounted>>
      BY <2>2 DEF DeleteNs
    <3> QED
      BY <1>1, <3>1, <3>2 DEF Done
  <2> QED
    BY <2>1, <2>2
<1>4. \A c \in Clients, t \in Spaces, i \in Inodes : hold'[c][t][i] <= hold[c][t][i]
  <2>1. CASE UNCHANGED <<hold, ns>>
    BY <1>2, <2>1
  <2>2. CASE hold' = [c \in Clients |-> [hold[c] EXCEPT ![s] = [i \in Inodes |-> 0]]]
    <3> SUFFICES ASSUME NEW c \in Clients, NEW t \in Spaces, NEW i \in Inodes
                 PROVE  hold'[c][t][i] <= hold[c][t][i]
      OBVIOUS
    <3>1. hold'[c][t][i] = IF t = s THEN 0 ELSE hold[c][t][i]
      BY <1>2, <2>2 DEF HoldType
    <3>2. hold[c][t][i] \in Nat
      BY <1>2
    <3> QED
      BY <3>1, <3>2
  <2> QED
    BY <1>3, <2>1, <2>2
<1>5. hold' \in HoldType /\ \A c \in Clients, t \in Spaces, i \in Inodes : hold'[c][t][i] \in Nat
  BY CountTypesNext
<1>6. HoldsInSpaces'
  <2>1. CASE UNCHANGED <<hold, ns>>
    BY <2>1 DEF FsInv, HoldsInv, HoldsInSpaces, Exists
  <2>2. CASE /\ ns' = ns \ {s}
             /\ hold' = [c \in Clients |-> [hold[c] EXCEPT ![s] = [i \in Inodes |-> 0]]]
    <3>1. \A c \in Clients, t \in Spaces, i \in Inodes :
            hold'[c][t][i] > 0 => t # s /\ hold[c][t][i] > 0
      BY <1>2, <2>2 DEF HoldType
    <3> QED
      BY <2>2, <3>1 DEF FsInv, HoldsInv, HoldsInSpaces, Exists
  <2> QED
    BY <1>3, <2>1, <2>2
<1>7. ASSUME NEW j \in Inodes \ miscounted'  PROVE Covered(j)'
  <2>1. Covered(j)
    BY <1>3, <1>7 DEF FsInv, HoldsInv, HeldFilesOpen, Covered
  <2>2. HoldCount(j)' <= HoldCount(j) /\ HoldCount(j)' \in Nat
    BY <1>2, <1>4, <1>5, CopiesFewer, CountTypesNext DEF HoldCount
  <2> QED
    BY <1>2, <1>3, <2>1, <2>2, UncountedSame DEF Covered
<1>8. NotStolen
  BY DEF NotStolen, DeleteNs
<1> QED
  BY <1>3, <1>6, <1>7, <1>8, HandlerDone

LEMMA HoldsSimple ==
  ASSUME FsInv, FilesInv',
         NewNs \/ UNCHANGED vars \/ \E r \in Request : Receive(r)
  PROVE  HoldsInv' /\ NotStolen
<1>1. CASE NewNs
  <2>1. /\ Done /\ UNCHANGED <<reg, hold, freeq, sendq, waiting, miscounted, live>> /\ ns \subseteq ns'
    BY <1>1 DEF NewNs, Done
  <2>2. \A i \in Inodes \ miscounted' : Covered(i)'
    BY <2>1, CoveredSame DEF FsInv, HoldsInv, HeldFilesOpen, Covered
  <2>3. HoldsInSpaces'
    BY <2>1 DEF FsInv, HoldsInv, HoldsInSpaces, Exists
  <2>4. NotStolen
    BY <2>1, CountTypes DEF NotStolen, FsInv
  <2> QED
    BY <2>1, <2>2, <2>3, <2>4, HandlerDone
<1>2. CASE UNCHANGED vars
  <2>1. UNCHANGED <<reg, hold, freeq, sendq, waiting, ns, miscounted, current, live>>
    BY <1>2 DEF vars, fsVars, rtVars
  <2>2. ServingClean' /\ CloseSound' /\ CloserGone'
    BY <2>1, UncountedSame DEF FsInv, HoldsInv, ServingClean, CloseSound, CloserGone
  <2> QED
    BY <2>1, <2>2, NothingCounted
<1>3. ASSUME NEW r \in Request, Receive(r)  PROVE HoldsInv' /\ NotStolen
  <2>1. /\ UNCHANGED <<reg, hold, freeq, sendq, waiting, ns, miscounted, live>> /\ current' = r
        /\ sendq = <<>> /\ (\A i \in Inodes : freeq[i] = 0) /\ r.client \in live /\ Sendable(r)
    BY <1>3 DEF Receive, fsVars, rtVars, NoWork, MayCall
  <2>2. ServingClean'
    BY <2>1 DEF ServingClean
  <2>3. CASE r.op = "close"
    <3>1. hold[r.client][r.space][r.file] > 0
      BY <2>1, <2>3 DEF Sendable
    <3>2. r.file \in Inodes
      BY <2>3 DEF Request
    <3>3. Uncounted(r.file)' = 0
      BY <2>1, UncountedNone
    <3>4. CloseSound' /\ CloserGone'
      BY <2>1, <3>1, <3>3 DEF CloseSound, CloserGone
    <3> QED
      BY <2>1, <2>2, <3>4, NothingCounted
  <2>4. CASE r.op # "close"
    <3>1. CloseSound' /\ CloserGone'
      BY <2>1, <2>4 DEF CloseSound, CloserGone
    <3> QED
      BY <2>1, <2>2, <3>1, NothingCounted
  <2> QED
    BY <2>3, <2>4
<1> QED
  BY <1>1, <1>2, <1>3

LEMMA HoldsSendWork ==
  ASSUME FsInv, FilesInv', SendWork
  PROVE  HoldsInv' /\ NotStolen
<1>1. /\ sendq \in Seq(Inodes) /\ reg \in [Inodes -> [count : Nat, ref : Nat]]
  BY FilesInvParts DEF FsInv, RestOK
<1>2. /\ hold \in HoldType /\ live \subseteq Clients /\ miscounted \subseteq Inodes
      /\ \A j \in Inodes : HoldCount(j) \in Nat /\ reg[j].count \in Nat /\ freeq[j] \in Nat /\ Uncounted(j) \in Nat
      /\ \A d \in Clients, t \in Spaces, j \in Inodes : hold[d][t][j] \in Nat
  BY CountTypes DEF FsInv
<1>3. PICK n \in 1 .. Len(sendq), K \in SUBSET (1 .. Len(sendq)) :
        /\ K \in SUBSET (1 .. n) /\ sendq' = SubSeq(sendq, n + 1, Len(sendq))
        /\ reg' = CountSent(K) /\ \A k \in K : reg[sendq[k]].count > 0
        /\ miscounted \subseteq miscounted'
        /\ \A k \in (1 .. n) \ K : reg[sendq[k]].count = 0 \/ sendq[k] \in miscounted'
  BY <1>1, SendWorkParts
<1>4. UNCHANGED <<hold, freeq, ns, live>> /\ current' = None
  BY DEF SendWork
<1>5. ASSUME NEW j \in Inodes \ miscounted'  PROVE Covered(j)'
  <2> DEFINE batch == {k \in 1 .. n : sendq[k] = j}
             counted == {k \in K : sendq[k] = j}
  <2>1. Covered(j) /\ HoldCount(j)' = HoldCount(j)
    BY <1>3, <1>4, <1>5 DEF FsInv, HoldsInv, HeldFilesOpen, Covered, HoldCount
  <2>2. /\ reg'[j].count = reg[j].count + Cardinality(counted)
        /\ reg'[j].count > 0 <=> reg[j].count > 0
    BY <1>1, <1>3, CountSentFacts
  <2>3. Uncounted(j) = Uncounted(j)' + Cardinality(batch)
    BY <1>1, <1>3, UncountedTaken
  <2>4. reg[j].count > 0 => counted = batch
    <3>1. ASSUME reg[j].count > 0, NEW k \in 1 .. n, sendq[k] = j  PROVE k \in K
      <4>1. reg[j].count # 0
        BY <1>2, <1>5, <3>1
      <4> QED
        BY <1>3, <1>5, <3>1, <4>1
    <3>2. K \subseteq 1 .. n
      BY <1>3
    <3> QED
      BY <3>1, <3>2
  <2>5. Uncounted(j)' \in Nat /\ reg'[j].count \in Nat
    <3>1. sendq' \in Seq(Inodes)
      BY <1>1, <1>3
    <3> QED
      BY <3>1, UncountedType, CountTypesNext
  <2> HIDE DEF batch, counted
  <2>6. CASE reg[j].count = 0
    BY <1>2, <1>5, <2>1, <2>2, <2>5, <2>6 DEF Covered
  <2>7. CASE reg[j].count # 0
    <3>1. reg[j].count > 0 /\ freeq'[j] = freeq[j]
      BY <1>2, <1>4, <1>5, <2>7
    <3>2. /\ HoldCount(j) + freeq[j] <= reg[j].count + Uncounted(j)
          /\ reg'[j].count + Uncounted(j)' = reg[j].count + Uncounted(j)
      <4>1. PICK x \in Nat : x = Cardinality(batch)
        <5>1. batch \in SUBSET (1 .. n) /\ n \in Nat
          BY DEF batch
        <5> QED
          BY <5>1, PositionsFinite
      <4> QED
        BY <1>2, <1>5, <2>1, <2>2, <2>3, <2>4, <2>5, <2>7, <3>1, <4>1 DEF Covered
    <3> QED
      BY <2>1, <2>2, <2>5, <3>1, <3>2 DEF Covered
  <2> QED
    BY <2>6, <2>7
<1>6. HeldFilesOpen' /\ HoldsInSpaces' /\ ServingClean' /\ CloseSound' /\ CloserGone'
  BY <1>4, <1>5 DEF HeldFilesOpen, Covered, FsInv, HoldsInv, HoldsInSpaces,
                    ServingClean, CloseSound, CloserGone, Exists
<1>7. NotStolen
  BY <1>2, <1>4 DEF NotStolen
<1> QED
  BY <1>6, <1>7 DEF HoldsInv

LEMMA HoldsFreeWork ==
  ASSUME FsInv, FilesInv', NEW i \in Inodes, FreeWork(i)
  PROVE  HoldsInv' /\ NotStolen
<1>1. /\ hold \in HoldType /\ live \subseteq Clients /\ miscounted \subseteq Inodes
      /\ \A j \in Inodes : HoldCount(j) \in Nat /\ reg[j].count \in Nat /\ freeq[j] \in Nat /\ Uncounted(j) \in Nat
      /\ \A d \in Clients, t \in Spaces, j \in Inodes : hold[d][t][j] \in Nat
  BY CountTypes DEF FsInv
<1>2. /\ UNCHANGED <<ns, live, sendq, waiting, miscounted>>
      /\ current = None /\ current' = None /\ sendq = <<>> /\ freeq[i] > 0
      /\ freeq' = [freeq EXCEPT ![i] = @ - 1]
  BY DEF FreeWork, FreeIsNext
<1>3. freeq'[i] = freeq[i] - 1 /\ \A j \in Inodes \ {i} : freeq'[j] = freeq[j]
  BY <1>2, FilesInvParts DEF FsInv, RestOK
<1>4. i # None
  BY FsAssumption
<1>5. i \notin miscounted => Covered(i)
  BY DEF FsInv, HoldsInv, HeldFilesOpen, Covered
<1>6. /\ \A j \in Inodes \ {i} : reg'[j] = reg[j]
      /\ \A d \in Clients, t \in Spaces, j \in Inodes :
           /\ hold'[d][t][j] <= hold[d][t][j] /\ (j # i => hold'[d][t][j] = hold[d][t][j])
           /\ i \notin miscounted => hold'[d][t][j] = hold[d][t][j]
      /\ i \notin miscounted => Covered(i)'
  <2>1. CASE reg[i].count = 0
    <3>1. UNCHANGED <<reg, hold>>
      BY <2>1 DEF FreeWork
    <3>2. HoldCount(i)' = HoldCount(i)
      BY <3>1 DEF HoldCount
    <3> QED
      BY <1>1, <1>5, <2>1, <3>1, <3>2 DEF Covered
  <2>2. CASE reg[i].count = 1
    <3>1. reg' = [reg EXCEPT ![i] = NoEntry] /\ hold' = DeleteResource(hold, i, ns \cup {Root})
      BY <2>2 DEF FreeWork, Dec, DeleteEntry
    <3>2. reg'[i].count = 0 /\ \A j \in Inodes \ {i} : reg'[j] = reg[j]
      BY <3>1, FilesInvParts DEF FsInv, NoEntry
    <3>3. \A d \in Clients, t \in Spaces, j \in Inodes :
            hold'[d][t][j] = IF j = i /\ t \in ns \cup {Root} /\ hold[d][t][i] > 0
                             THEN hold[d][t][j] - 1 ELSE hold[d][t][j]
      BY <1>1, <3>1, DeleteResourceType
    <3>4. ASSUME i \notin miscounted
          PROVE  HoldCount(i) = 0 /\ \A d \in Clients, t \in Spaces : hold[d][t][i] = 0
      <4>1. HoldCount(i) = 0
        BY <1>1, <1>2, <1>4, <1>5, <2>2, <3>4, UncountedNone DEF Covered
      <4> QED
        BY <1>1, <4>1, CopiesNone DEF HoldCount
    <3>5. ASSUME i \notin miscounted  PROVE Covered(i)'
      <4>1. \A d \in Clients, t \in Spaces : hold'[d][t][i] = hold[d][t][i]
        BY <1>1, <3>3, <3>4, <3>5
      <4>2. HoldCount(i)' = HoldCount(i)
        BY <4>1, CopiesSame DEF HoldCount
      <4> QED
        BY <3>2, <3>4, <3>5, <4>2 DEF Covered
    <3> QED
      BY <1>1, <3>2, <3>3, <3>4, <3>5
  <2>3. CASE reg[i].count > 1
    <3>1. reg' = [reg EXCEPT ![i].count = reg[i].count - 1] /\ UNCHANGED hold
      BY <1>1, <2>3 DEF FreeWork, Dec
    <3>2. reg'[i].count = reg[i].count - 1 /\ \A j \in Inodes \ {i} : reg'[j] = reg[j]
      BY <3>1, FilesInvParts DEF FsInv
    <3>3. HoldCount(i)' = HoldCount(i)
      BY <3>1 DEF HoldCount
    <3>4. i \notin miscounted => Covered(i)'
      BY <1>1, <1>2, <1>3, <1>4, <1>5, <2>3, <3>2, <3>3, UncountedSame DEF Covered
    <3> QED
      BY <1>1, <3>1, <3>2, <3>4
  <2> QED
    BY <1>1, <2>1, <2>2, <2>3
<1>7. ASSUME NEW j \in Inodes \ miscounted'  PROVE Covered(j)'
  <2>1. CASE j = i
    BY <1>2, <1>6, <1>7, <2>1
  <2>2. CASE j # i
    <3>1. Covered(j)
      BY <1>2, <1>7 DEF FsInv, HoldsInv, HeldFilesOpen, Covered
    <3> QED
      BY <1>2, <1>3, <1>6, <1>7, <2>2, <3>1, CoveredSame
  <2> QED
    BY <2>1, <2>2
<1>8. HoldsInSpaces'
  <2>1. \A d \in Clients, t \in Spaces, j \in Inodes : hold'[d][t][j] \in Nat
    BY CountTypesNext
  <2> QED
    BY <1>1, <1>2, <1>6, <2>1 DEF FsInv, HoldsInv, HoldsInSpaces, Exists
<1>9. HeldFilesOpen' /\ ServingClean' /\ CloseSound' /\ CloserGone'
  BY <1>2, <1>7 DEF HeldFilesOpen, Covered, FsInv, HoldsInv,
                    ServingClean, CloseSound, CloserGone
<1>10. NotStolen
  <2> SUFFICES ASSUME NEW c \in live', NEW s \in Spaces, NEW j \in Inodes \ miscounted
               PROVE  ~(hold'[c][s][j] < hold[c][s][j])
    BY DEF NotStolen
  <2>1. c \in Clients
    BY <1>1, <1>2
  <2> QED
    BY <1>1, <1>6, <2>1
<1> QED
  BY <1>8, <1>9, <1>10 DEF HoldsInv

LEMMA HoldsDestroy ==
  ASSUME FsInv, FilesInv', NEW c \in Clients, Destroy(c)
  PROVE  HoldsInv' /\ NotStolen
<1> DEFINE held(i) == {s \in Spaces : hold[c][s][i] > 0}
<1>1. /\ hold \in HoldType /\ live \subseteq Clients /\ miscounted \subseteq Inodes
      /\ \A j \in Inodes : HoldCount(j) \in Nat /\ reg[j].count \in Nat /\ freeq[j] \in Nat /\ Uncounted(j) \in Nat
      /\ \A d \in Clients, t \in Spaces, j \in Inodes : hold[d][t][j] \in Nat
  BY CountTypes DEF FsInv
<1>2. /\ UNCHANGED <<reg, ns, current, sendq, waiting>> /\ live' = live \ {c}
      /\ miscounted' = IF Serving(c) /\ current.op = "close" THEN miscounted \cup {current.file}
                                                            ELSE miscounted
      /\ \A i \in Inodes : freeq'[i] = freeq[i] + Cardinality(held(i))
  BY DEF Destroy, fsVars
<1>3. /\ \A s \in Spaces, i \in Inodes : hold'[c][s][i] = 0
      /\ \A d \in Clients \ {c}, s \in Spaces, i \in Inodes : hold'[d][s][i] = hold[d][s][i]
  BY <1>1 DEF Destroy, HoldType
<1>4. ASSUME NEW i \in Inodes
      PROVE  /\ HoldCount(i)' + Cardinality(held(i)) <= HoldCount(i)
             /\ HoldCount(i)' \in Nat /\ Cardinality(held(i)) \in Nat
  <2>1. hold' \in HoldType /\ HoldCount(i)' \in Nat
    BY CountTypesNext
  <2>2. Cardinality(held(i)) \in Nat
    <3>1. IsFiniteSet(held(i))
      BY SpacesFinite, FS_Subset
    <3> QED
      BY <3>1, FS_CardinalityType
  <2> QED
    BY <1>1, <1>3, <2>1, <2>2, CopiesDestroyed DEF HoldCount
<1> HIDE DEF held
<1>5. ASSUME NEW j \in Inodes \ miscounted
      PROVE  Covered(j)' /\ (reg[j].count = 0 => freeq'[j] = freeq[j])
  <2>1. Covered(j)
    BY DEF FsInv, HoldsInv, HeldFilesOpen, Covered
  <2> QED
    BY <1>1, <1>2, <1>4, <2>1, UncountedSame DEF Covered
<1>6. miscounted \subseteq miscounted'
  BY <1>2
<1>7. HeldFilesOpen' /\ ServingClean'
  BY <1>2, <1>5, <1>6 DEF HeldFilesOpen, Covered, FsInv, HoldsInv, ServingClean
<1>8. HoldsInSpaces'
  BY <1>2, <1>3 DEF FsInv, HoldsInv, HoldsInSpaces, Exists
<1>9. CASE Serving(c)
  <2>1. CloseSound' /\ CloserGone'
    BY <1>2, <1>9 DEF FsInv, HoldsInv, CloseSound, CloserGone, Serving
  <2>2. NotStolen
    BY <1>1, <1>2, <1>3 DEF NotStolen
  <2> QED
    BY <1>7, <1>8, <2>1, <2>2 DEF HoldsInv
<1>10. CASE ~Serving(c)
  <2>1. CloserGone' /\ miscounted' = miscounted
    BY <1>2, <1>10 DEF FsInv, HoldsInv, CloserGone, Serving
  <2>2. CloseSound'
    <3> SUFFICES ASSUME current # None, current.op = "close", current.client \in live \ {c}
                 PROVE  /\ hold'[current.client][current.space][current.file] > 0
                        /\ current.file \notin miscounted /\ Uncounted(current.file) > 0 =>
                             reg[current.file].count > 1
      BY <1>2, <2>1, UncountedSame DEF CloseSound
    <3>1. current.client \in Clients \ {c} /\ current.space \in Spaces /\ current.file \in Inodes
      BY CurrentType DEF FsInv, FilesInv
    <3> QED
      BY <1>3, <3>1 DEF FsInv, HoldsInv, CloseSound
  <2>3. NotStolen
    BY <1>1, <1>2, <1>3 DEF NotStolen
  <2> QED
    BY <1>7, <1>8, <2>1, <2>2, <2>3 DEF HoldsInv
<1> QED
  BY <1>9, <1>10

LEMMA HoldsSendCap ==
  ASSUME FsInv, FilesInv', NEW c \in Clients, NEW d \in Clients, NEW s \in Spaces,
         NEW i \in Inodes, SendCap(c, d, s, i)
  PROVE  HoldsInv' /\ NotStolen
<1>1. /\ hold \in HoldType /\ live \subseteq Clients /\ miscounted \subseteq Inodes
      /\ \A j \in Inodes : HoldCount(j) \in Nat /\ reg[j].count \in Nat /\ freeq[j] \in Nat /\ Uncounted(j) \in Nat
      /\ \A x \in Clients, t \in Spaces, j \in Inodes : hold[x][t][j] \in Nat
  BY CountTypes DEF FsInv
<1>2. /\ UNCHANGED <<reg, ns, current, live, freeq, miscounted>>
      /\ sendq' = Append(sendq, i) /\ ~Serving(c) /\ hold[c][s][i] > 0
  BY DEF SendCap, fsVars, MayCall
<1>3. /\ Uncounted(i)' = Uncounted(i) + 1
      /\ \A j \in Inodes \ {i} : Uncounted(j)' = Uncounted(j)
  BY <1>2, UncountedAppend, FilesInvParts DEF FsInv, RestOK
<1>4. /\ \A x \in Clients, t \in Spaces, j \in Inodes :
           /\ hold'[x][t][j] >= hold[x][t][j]
           /\ j # i \/ x # d \/ t # s => hold'[x][t][j] = hold[x][t][j]
      /\ hold'[d][s][i] \in {hold[d][s][i], hold[d][s][i] + 1}
  <2>1. CASE hold' = hold
    BY <1>1, <2>1
  <2>2. CASE hold' = [hold EXCEPT ![d][s][i] = @ + 1]
    <3>1. \A x \in Clients, t \in Spaces, j \in Inodes :
            hold'[x][t][j] = IF x = d /\ t = s /\ j = i THEN hold[x][t][j] + 1 ELSE hold[x][t][j]
      BY <1>1, <2>2 DEF HoldType
    <3> QED
      BY <1>1, <3>1
  <2> QED
    BY <2>1, <2>2 DEF SendCap
<1>5. hold' \in HoldType /\ HoldCount(i)' \in Nat
  BY CountTypesNext
<1>6. HoldCount(i)' <= HoldCount(i) + 1
  <2>1. CASE hold'[d][s][i] = hold[d][s][i]
    <3>1. HoldCount(i)' = HoldCount(i)
      BY <1>4, <2>1, CopiesSame DEF HoldCount
    <3> QED
      BY <1>1, <3>1
  <2>2. CASE hold'[d][s][i] = hold[d][s][i] + 1
    BY <1>1, <1>4, <1>5, <2>2, CopiesUp DEF HoldCount
  <2> QED
    BY <1>4, <2>1, <2>2
<1>7. HoldCount(i) > 0
  <2>1. HoldCount(i) # 0
    BY <1>1, <1>2, CopiesNone DEF HoldCount
  <2> QED
    BY <1>1, <2>1
<1>8. ASSUME NEW j \in Inodes \ miscounted'  PROVE Covered(j)'
  <2>1. Covered(j)
    BY <1>2, <1>8 DEF FsInv, HoldsInv, HeldFilesOpen, Covered
  <2>2. CASE j = i
    BY <1>1, <1>2, <1>3, <1>5, <1>6, <1>7, <2>1, <2>2, SMTT(40) DEF Covered
  <2>3. CASE j # i
    BY <1>2, <1>3, <1>4, <1>8, <2>1, <2>3, CoveredSame
  <2> QED
    BY <2>2, <2>3
<1>9. HoldsInSpaces'
  <2>1. ASSUME NEW x \in Clients, NEW t \in Spaces, NEW j \in Inodes, hold'[x][t][j] > 0
        PROVE  Exists(t)
    <3>1. CASE j = i /\ x = d /\ t = s
      BY <1>2, <3>1 DEF FsInv, HoldsInv, HoldsInSpaces
    <3>2. CASE j # i \/ x # d \/ t # s
      BY <1>4, <2>1, <3>2 DEF FsInv, HoldsInv, HoldsInSpaces
    <3> QED
      BY <3>1, <3>2
  <2> QED
    BY <1>2, <2>1 DEF HoldsInSpaces, Exists
<1>10. ServingClean' /\ CloserGone' /\ HeldFilesOpen'
  BY <1>2, <1>8 DEF FsInv, HoldsInv, ServingClean, CloserGone, HeldFilesOpen, Covered
<1>11. CloseSound'
  <2> SUFFICES ASSUME current # None, current.op = "close", current.client \in live
               PROVE  /\ hold'[current.client][current.space][current.file] > 0
                      /\ current.file \notin miscounted /\ Uncounted(current.file)' > 0 =>
                           reg[current.file].count > 1
    BY <1>2 DEF CloseSound
  <2>1. PICK e \in Clients, t \in Spaces, j \in Inodes :
          e = current.client /\ t = current.space /\ j = current.file
    BY CurrentType DEF FsInv, FilesInv
  <2>2. /\ hold[e][t][j] > 0 /\ e # c
        /\ j \notin miscounted /\ Uncounted(j) > 0 => reg[j].count > 1
    BY <1>2, <2>1 DEF FsInv, HoldsInv, CloseSound, Serving
  <2>3. hold'[e][t][j] > 0
    <3>1. hold[e][t][j] \in Nat /\ hold'[e][t][j] \in Nat /\ hold'[e][t][j] >= hold[e][t][j]
      BY <1>1, <1>4, CountTypesNext
    <3> QED
      BY <2>2, <3>1
  <2>4. ASSUME i \notin miscounted, i = j  PROVE reg[i].count > 1
    <3>1. HoldCount(i) >= 2
      BY <1>1, <1>2, <2>2, <2>4, CopiesTwo DEF HoldCount
    <3>2. Covered(i)
      BY <2>4 DEF FsInv, HoldsInv, HeldFilesOpen, Covered
    <3> QED
      BY <1>1, <2>2, <2>4, <3>1, <3>2 DEF Covered
  <2>5. ASSUME j \notin miscounted, Uncounted(j)' > 0  PROVE reg[j].count > 1
    BY <1>3, <2>2, <2>4, <2>5
  <2>6. Uncounted(current.file)' = Uncounted(j)'
    BY <1>2, <2>1
  <2> QED
    BY <2>1, <2>3, <2>5, <2>6
<1>12. NotStolen
  <2> SUFFICES ASSUME NEW x \in live', NEW t \in Spaces, NEW j \in Inodes
               PROVE  ~(hold'[x][t][j] < hold[x][t][j])
    BY DEF NotStolen
  <2>1. x \in Clients /\ hold[x][t][j] \in Nat /\ hold'[x][t][j] \in Nat
    BY <1>1, <1>2, CountTypesNext
  <2> QED
    BY <1>4, <2>1
<1> QED
  BY <1>9, <1>10, <1>11, <1>12 DEF HoldsInv

LEMMA HoldsInit == Init => HoldsInv
<1> SUFFICES ASSUME Init  PROVE HoldsInv
  OBVIOUS
<1>1. /\ \A c \in Clients, s \in Spaces, i \in Inodes : hold[c][s][i] = 0
      /\ \A i \in Inodes : reg[i].count = 0
      /\ current = None /\ sendq = <<>>
  BY DEF Init, NoEntry
<1>2. \A i \in Inodes : HoldCount(i) = 0
  <2>1. hold \in HoldType
    BY DEF Init, HoldType
  <2> QED
    BY <1>1, <2>1, CopiesNone DEF HoldCount
<1> QED
  BY <1>1, <1>2 DEF HoldsInv, HoldsInSpaces, ServingClean, CloseSound, CloserGone,
                    HeldFilesOpen

LEMMA FsNext ==
  ASSUME FsInv, [Next]_vars
  PROVE  FsInv' /\ NotStolen
<1>1. FilesInv'
  BY FilesNext DEF FsInv
<1>2. HoldsInv' /\ NotStolen
  BY <1>1, HoldsCreate, HoldsClose, HoldsUnlink, HoldsDeleteNs, HoldsSimple, HoldsSendWork,
     HoldsFreeWork, HoldsDestroy, HoldsSendCap DEF Next
<1> QED
  BY <1>1, <1>2 DEF FsInv

-----------------------------------------------------------------------------
(* The results *)

\* The inductive invariant holds in every reachable state.
LEMMA FsInvariance == Spec => []FsInv
<1>1. Init => FsInv
  BY FilesInit, HoldsInit DEF FsInv
<1>2. FsInv /\ [Next]_vars => FsInv'
  BY FsNext
<1> QED
  BY <1>1, <1>2, PTL DEF Spec

\* No count of references, links, opens or holds ever runs below zero, although
\* iput, fileclose, resource_registry_dec and pd_remove_resource do not check.
THEOREM FileServerTypeCorrect == Spec => []TypeOK
<1>1. FsInv => TypeOK
  BY DEF FsInv, FilesInv
<1> QED
  BY <1>1, FsInvariance, PTL

\* A file that is in file_registry keeps its inode, whatever is unlinked, closed
\* or deleted with its namespace.
THEOREM OpenFilesPinned == Spec => []OpenFilePinned
<1>1. FsInv => OpenFilePinned
  BY DEF FsInv, FilesInv
<1> QED
  BY <1>1, FsInvariance, PTL

\* A file that a client holds stays in file_registry, in every order of opens,
\* closes, sends, exits and the work they cause, unless it was miscounted.
THEOREM HeldFilesStayOpen == Spec => []HeldFilesOpen
<1>1. FsInv => HeldFilesOpen
  BY DEF FsInv, HoldsInv
<1> QED
  BY <1>1, FsInvariance, PTL

\* A client loses a file only by its own close or exit, or when the file or its
\* namespace is deleted.
THEOREM HoldsNeverStolen == Spec => NoHoldStolen
<1>1. FsInv /\ [Next]_vars => [NotStolen]_vars
  BY FsNext
<1>2. Spec => [][NotStolen]_vars
  BY <1>1, FsInvariance, PTL DEF Spec
<1> QED
  BY <1>2 DEF NoHoldStolen, NotStolen
=============================================================================
