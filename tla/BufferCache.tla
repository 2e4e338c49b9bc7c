---------------------------- MODULE BufferCache ----------------------------
(***************************************************************************)
(* The buffer cache of the xv6fs file server: NBUF buffers in a list by    *)
(* recency of use.  All of the file system (inodes, directories, bitmap,   *)
(* file data) reads and changes blocks through bread and brelse.  The log  *)
(* of xv6, which wrote changed buffers back, was taken out; bwrite has no  *)
(* caller left, so none is in the model.                                   *)
(*                                                                         *)
(* Contents are abstracted to a version: the number of changes made.       *)
(***************************************************************************)
EXTENDS Integers, SequencesExt

CONSTANTS
  Blocks,      \* blocks of the file system (FS_SIZE = 512 of them)
  NBUF,        \* 30 in fs_shared.h
  MaxVersion,  \* bound: changes of a block
  MaxHeld,     \* bound: buffers in use at a time (bmap, balloc)
  None

VARIABLES
  bcache,  \* the list from head.next, the most recently used, to head.prev
  disk,    \* disk[b]: the version of block b on the ramdisk
  latest   \* latest[b]: how often the file system has changed block b

vars == <<bcache, disk, latest>>

\* binit: no buffer belongs to a block.
Init ==
  /\ bcache = [k \in 1 .. NBUF |-> [blockno |-> None, refcnt |-> 0, data |-> 0]]
  /\ disk = [b \in Blocks |-> 0]
  /\ latest = [b \in Blocks |-> 0]

InUse == {k \in 1 .. NBUF : bcache[k].refcnt > 0}

\* bget finds the block in buffer k.
Cached(b, k) == bcache[k].blockno = b

\* bget takes buffer k for another block: the least recently used one that is
\* not in use.
Recycles(b, k) ==
  /\ \A j \in 1 .. NBUF : ~Cached(b, j)
  /\ k \notin InUse /\ \A j \in k + 1 .. NBUF : j \in InUse

\* bread: what was in the buffer is gone; the block is read from the disk.
Bread(b) ==
  /\ Cardinality(InUse) < MaxHeld
  /\ \E k \in 1 .. NBUF :
       \/ /\ Cached(b, k)
          /\ bcache' = [bcache EXCEPT ![k].refcnt = @ + 1]
       \/ /\ Recycles(b, k)
          /\ bcache' = [bcache EXCEPT ![k] = [blockno |-> b, refcnt |-> 1, data |-> disk[b]]]
  /\ UNCHANGED <<disk, latest>>

\* A file system function (iupdate, writei, balloc, ...) changes the data.
Change(k) ==
  LET b == bcache[k].blockno IN
  /\ k \in InUse /\ latest[b] < MaxVersion
  /\ bcache' = [bcache EXCEPT ![k].data = @ + 1]
  /\ latest' = [latest EXCEPT ![b] = @ + 1]
  /\ UNCHANGED disk

\* brelse: a buffer that nobody uses any more goes to the head of the list.
Brelse(k) ==
  /\ k \in InUse
  /\ LET freed == [bcache[k] EXCEPT !.refcnt = @ - 1]
     IN bcache' = IF freed.refcnt > 0 THEN [bcache EXCEPT ![k] = freed]
                  ELSE <<freed>> \o RemoveAt(bcache, k)
  /\ UNCHANGED <<disk, latest>>

Next ==
  \/ \E b \in Blocks : Bread(b)
  \/ \E k \in 1 .. NBUF : Change(k) \/ Brelse(k)

Spec == Init /\ [][Next]_vars

-----------------------------------------------------------------------------

\* A buffer in use holds the newest version of its block.  (bio.c: "To get a
\* buffer for a particular disk block, call bread", "After changing buffer
\* data, call bwrite to write it to disk".)
ReadsLatest ==
  \A k \in InUse : bcache[k].data = latest[bcache[k].blockno]

=============================================================================
