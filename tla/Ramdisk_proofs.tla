--------------------------- MODULE Ramdisk_proofs ---------------------------
(***************************************************************************)
(* Proofs about Ramdisk, for any number of clients and blocks: the list of *)
(* free runs stays sorted and merged, and a block that was never sent is   *)
(* in one place only.                                                      *)
(***************************************************************************)
EXTENDS Ramdisk, SequenceTheorems, FiniteSetTheorems, TLAPS

-----------------------------------------------------------------------------
(* Lists of runs *)

End(r) == r.blockno + r.n_blocks

\* ListOrdered is about neighbours; what the operations need and keep is the
\* order of any two runs, and that no run goes over the end of the disk.
Ordered(list) ==
  /\ list \in Seq(Node)
  /\ \A i \in 1 .. Len(list) : End(list[i]) <= NumBlocks
  /\ \A i, j \in 1 .. Len(list) : i < j => End(list[i]) < list[j].blockno

\* A run that lies on the disk is a node.
LEMMA RunType ==
  ASSUME NEW b \in Blocks, NEW n \in Nat \ {0}, b + n <= NumBlocks
  PROVE  /\ Run(b, n) \in Node
         /\ Run(b, n).blockno = b /\ Run(b, n).n_blocks = n
  <1>1. n \in 1 .. NumBlocks
    BY RamdiskAssumption DEF Blocks
  <1> QED
    BY <1>1 DEF Run, Node

\* The fields of a node are numbers.
LEMMA NodeType ==
  ASSUME NEW r \in Node
  PROVE  r.blockno \in Blocks /\ r.blockno \in Nat /\ r.n_blocks \in Nat \ {0}
         /\ End(r) \in Nat
  BY RamdiskAssumption DEF Node, Blocks, End

\* A run that replaces one of the list and stays between its neighbours.
LEMMA ReplaceRun ==
  ASSUME NEW list, Ordered(list), NEW k \in 1 .. Len(list), NEW r \in Node,
         End(r) <= NumBlocks,
         \A j \in 1 .. Len(list) : j < k => End(list[j]) < r.blockno,
         \A j \in 1 .. Len(list) : k < j => End(r) < list[j].blockno
  PROVE  Ordered([list EXCEPT ![k] = r])
  <1> DEFINE new == [list EXCEPT ![k] = r]
  <1>1. /\ new \in Seq(Node) /\ Len(new) = Len(list)
        /\ \A j \in 1 .. Len(list) : new[j] = IF j = k THEN r ELSE list[j]
    BY ExceptSeq DEF Ordered
  <1> QED
    BY <1>1 DEF Ordered

\* What the list offers, as a predicate.
LEMMA Offered ==
  ASSUME NEW list \in Seq(Node), NEW b
  PROVE  b \in FreeBlocks(list) <=>
           \E i \in 1 .. Len(list) : b \in list[i].blockno .. End(list[i]) - 1
  <1>1. DOMAIN list = 1 .. Len(list)
    BY LenProperties
  <1>2. \A i \in 1 .. Len(list) :
          End(list[i]) - 1 = list[i].blockno + list[i].n_blocks - 1
    BY ElementOfSeq, NodeType DEF End
  <1> DEFINE Span(i) == list[i].blockno .. list[i].blockno + list[i].n_blocks - 1
  <1>3. FreeBlocks(list) = UNION {Span(i) : i \in 1 .. Len(list)}
    BY <1>1 DEF FreeBlocks
  <1>4. b \in FreeBlocks(list) <=> \E i \in 1 .. Len(list) : b \in Span(i)
    <2> HIDE DEF Span
    <2> QED
      BY <1>3
  <1> QED
    BY <1>2, <1>4

\* alloc_block takes the first block off the list and leaves the others.
LEMMA AllocBlockCorrect ==
  ASSUME NEW list, Ordered(list), list # <<>>
  PROVE  /\ Ordered(AllocBlock(list))
         /\ list[1].blockno \in Blocks
         /\ list[1].blockno \in FreeBlocks(list)
         /\ FreeBlocks(AllocBlock(list)) \subseteq FreeBlocks(list) \ {list[1].blockno}
  <1> DEFINE new == AllocBlock(list)
  <1>1. list \in Seq(Node) /\ Len(list) \in Nat \ {0} /\ 1 \in 1 .. Len(list)
    BY EmptySeq DEF Ordered
  <1>2. \A i \in 1 .. Len(list) :
          /\ list[i] \in Node /\ list[i].blockno \in Blocks /\ list[i].blockno \in Nat
          /\ list[i].n_blocks \in Nat \ {0} /\ End(list[i]) \in Nat
    BY <1>1, ElementOfSeq, NodeType
  <1>3. list[1].blockno \in FreeBlocks(list)
    <2>1. PICK x \in Nat, y \in Nat \ {0} : x = list[1].blockno /\ y = list[1].n_blocks
      BY <1>1, <1>2
    <2>2. x \in x .. (x + y) - 1
      OBVIOUS
    <2>3. x \in list[1].blockno .. End(list[1]) - 1
      BY <2>1, <2>2 DEF End
    <2> QED
      BY <1>1, <2>1, <2>3, Offered
  <1>4. CASE list[1].n_blocks = 1
    <2>1. new = Tail(list)
      BY <1>4 DEF AllocBlock
    <2>2. /\ new \in Seq(Node) /\ Len(new) = Len(list) - 1
          /\ \A i \in 1 .. Len(new) : new[i] = list[i + 1]
      BY <2>1, <1>1, HeadTailProperties
    <2>3. \A i \in 1 .. Len(new) : i + 1 \in 1 .. Len(list)
      BY <2>2, <1>1
    <2> HIDE DEF new
    <2>4. Ordered(new)
      <3>1. \A i \in 1 .. Len(new) : End(new[i]) <= NumBlocks
        BY <2>2, <2>3 DEF Ordered
      <3>2. ASSUME NEW i \in 1 .. Len(new), NEW j \in 1 .. Len(new), i < j
            PROVE  End(new[i]) < new[j].blockno
        <4>1. i + 1 \in 1 .. Len(list) /\ j + 1 \in 1 .. Len(list) /\ i + 1 < j + 1
          BY <2>3, <3>2
        <4>2. End(list[i + 1]) < list[j + 1].blockno
          BY <4>1 DEF Ordered
        <4> QED
          BY <4>2, <2>2
      <3> QED
        BY <2>2, <3>1, <3>2 DEF Ordered
    <2>5. ASSUME NEW b \in FreeBlocks(new)
          PROVE  b \in FreeBlocks(list) \ {list[1].blockno}
      <3>1. PICK i \in 1 .. Len(new) : b \in new[i].blockno .. End(new[i]) - 1
        BY <2>2, <2>5, Offered
      <3>2. i + 1 \in 1 .. Len(list) /\ new[i] = list[i + 1] /\ 1 < i + 1
        BY <2>2, <2>3
      <3>3. b \in FreeBlocks(list)
        BY <3>1, <3>2, <1>1, Offered
      <3>4. End(list[1]) < list[i + 1].blockno
        BY <3>2, <1>1 DEF Ordered
      <3>5. b >= list[i + 1].blockno
        BY <3>1, <3>2, <1>1, <1>2
      <3>6. b # list[1].blockno
        <4>1. PICK x \in Nat, y \in Nat \ {0}, z \in Nat :
                x = list[1].blockno /\ y = list[1].n_blocks /\ z = list[i + 1].blockno
          BY <3>2, <1>1, <1>2
        <4>2. b \in Nat /\ x + y < z /\ b >= z
          BY <3>1, <3>4, <3>5, <4>1, <2>5 DEF End, FreeBlocks, Blocks
        <4> QED
          BY <4>1, <4>2
      <3> QED
        BY <3>3, <3>6
    <2> QED
      BY <2>4, <2>5, <1>1, <1>2, <1>3 DEF new
  <1>5. CASE list[1].n_blocks # 1
    <2> DEFINE r == Run(list[1].blockno + 1, list[1].n_blocks - 1)
    <2>1. new = [list EXCEPT ![1] = r]
      BY <1>5 DEF AllocBlock
    <2>2. End(list[1]) <= NumBlocks
      BY <1>1 DEF Ordered
    <2>3. /\ list[1].blockno + 1 \in Blocks /\ list[1].n_blocks - 1 \in Nat \ {0}
          /\ list[1].blockno + 1 + (list[1].n_blocks - 1) <= NumBlocks
      <3>1. /\ NumBlocks \in Nat /\ list[1].blockno \in Nat
            /\ list[1].n_blocks \in Nat \ {0} /\ list[1].n_blocks # 1
            /\ list[1].blockno + list[1].n_blocks <= NumBlocks
        BY <2>2, <1>1, <1>2, <1>5, RamdiskAssumption DEF End
      <3>2. PICK m \in Nat, x \in Nat, y \in Nat :
              m = NumBlocks /\ x = list[1].blockno /\ y = list[1].n_blocks
        BY <3>1
      <3>3. y # 0 /\ y # 1 /\ x + y <= m
        BY <3>1, <3>2
      <3>4. /\ x + 1 \in 0 .. m - 1 /\ y - 1 \in Nat \ {0}
            /\ x + 1 + (y - 1) <= m
        BY <3>3
      <3> QED
        BY <3>2, <3>4 DEF Blocks
    <2>4. /\ r \in Node /\ r.blockno = list[1].blockno + 1
          /\ r.n_blocks = list[1].n_blocks - 1
      BY <2>3, RunType
    <2>5. End(r) = End(list[1])
      BY <2>4, <1>1, <1>2 DEF End
    <2> HIDE DEF r
    <2>6. /\ \A j \in 1 .. Len(list) : j < 1 => End(list[j]) < r.blockno
          /\ \A j \in 1 .. Len(list) : 1 < j => End(r) < list[j].blockno
      BY <2>5, <1>1 DEF Ordered
    <2>7. Ordered(new)
      <3>1. r \in Node /\ End(r) <= NumBlocks
        BY <2>2, <2>4, <2>5
      <3>2. Ordered([list EXCEPT ![1] = r])
        BY <3>1, <2>6, <1>1, ReplaceRun
      <3> QED
        BY <3>2, <2>1
    <2>8. /\ new \in Seq(Node) /\ Len(new) = Len(list)
          /\ \A j \in 1 .. Len(list) : new[j] = IF j = 1 THEN r ELSE list[j]
      BY <2>1, <2>4, <1>1, ExceptSeq
    <2> HIDE DEF new
    <2>9. ASSUME NEW b \in FreeBlocks(new)
          PROVE  b \in FreeBlocks(list) \ {list[1].blockno}
      <3>1. PICK i \in 1 .. Len(list) : b \in new[i].blockno .. End(new[i]) - 1
        BY <2>8, <2>9, Offered
      <3>2. CASE i = 1
        <4>1. b \in list[1].blockno + 1 .. End(list[1]) - 1
          BY <3>1, <3>2, <2>8, <2>4, <2>5
        <4>2. b \in list[1].blockno .. End(list[1]) - 1 /\ b # list[1].blockno
          BY <4>1, <1>1, <1>2
        <4> QED
          BY <4>2, <1>1, Offered
      <3>3. CASE i # 1
        <4>1. new[i] = list[i] /\ End(list[1]) < list[i].blockno
          BY <3>3, <2>8, <1>1 DEF Ordered
        <4>2. b \in FreeBlocks(list)
          BY <3>1, <4>1, <1>1, Offered
        <4>3. b # list[1].blockno
          BY <3>1, <4>1, <1>1, <1>2 DEF End
        <4> QED
          BY <4>2, <4>3
      <3> QED
        BY <3>2, <3>3
    <2> QED
      BY <2>7, <2>9, <1>1, <1>2, <1>3 DEF new
  <1> QED
    BY <1>4, <1>5

\* The list without one of its runs.
LEMMA RemoveAtElements ==
  ASSUME NEW list \in Seq(Node), NEW k \in 1 .. Len(list)
  PROVE  /\ RemoveAt(list, k) \in Seq(Node)
         /\ Len(RemoveAt(list, k)) = Len(list) - 1
         /\ \A j \in 1 .. Len(list) - 1 :
              RemoveAt(list, k)[j] = IF j < k THEN list[j] ELSE list[j + 1]
  <1> DEFINE front == SubSeq(list, 1, k - 1)
             back  == SubSeq(list, k + 1, Len(list))
  <1>1. Len(list) \in Nat /\ \A i \in 1 .. Len(list) : list[i] \in Node
    BY LenProperties, ElementOfSeq
  <1>2. /\ front \in Seq(Node) /\ Len(front) = k - 1
        /\ \A i \in 1 .. k - 1 : front[i] = list[i]
    <2>1. \A i \in 1 .. k - 1 : list[i] \in Node
      BY <1>1
    <2>2. /\ front \in Seq(Node) /\ Len(front) = IF 1 <= k - 1 THEN k - 1 - 1 + 1 ELSE 0
          /\ \A i \in 1 .. k - 1 - 1 + 1 : front[i] = list[1 + i - 1]
      BY <2>1, <1>1, SubSeqProperties
    <2> QED
      BY <2>2, <1>1
  <1>3. /\ back \in Seq(Node) /\ Len(back) = Len(list) - k
        /\ \A i \in 1 .. Len(list) - k : back[i] = list[k + i]
    <2>1. \A i \in k + 1 .. Len(list) : list[i] \in Node
      BY <1>1
    <2>2. /\ back \in Seq(Node)
          /\ Len(back) = IF k + 1 <= Len(list) THEN Len(list) - (k + 1) + 1 ELSE 0
          /\ \A i \in 1 .. Len(list) - (k + 1) + 1 : back[i] = list[k + 1 + i - 1]
      BY <2>1, <1>1, SubSeqProperties
    <2> QED
      BY <2>2, <1>1
  <1> HIDE DEF front, back
  <1>4. /\ front \o back \in Seq(Node) /\ Len(front \o back) = Len(list) - 1
        /\ \A i \in 1 .. Len(list) - 1 :
             (front \o back)[i] = IF i <= k - 1 THEN front[i] ELSE back[i - (k - 1)]
    <2>1. /\ front \o back \in Seq(Node)
          /\ Len(front \o back) = Len(front) + Len(back)
          /\ \A i \in 1 .. Len(front) + Len(back) : (front \o back)[i] =
               IF i <= Len(front) THEN front[i] ELSE back[i - Len(front)]
      BY <1>2, <1>3, ConcatProperties
    <2>2. Len(front) + Len(back) = Len(list) - 1
      BY <1>1, <1>2, <1>3
    <2> QED
      BY <2>1, <2>2, <1>2
  <1>5. ASSUME NEW j \in 1 .. Len(list) - 1
        PROVE  (front \o back)[j] = IF j < k THEN list[j] ELSE list[j + 1]
    <2>1. CASE j < k
      BY <2>1, <1>1, <1>2, <1>4
    <2>2. CASE ~(j < k)
      <3>1. j - (k - 1) \in 1 .. Len(list) - k /\ k + (j - (k - 1)) = j + 1
        BY <2>2, <1>1
      <3>2. (front \o back)[j] = back[j - (k - 1)]
        BY <2>2, <1>1, <1>4
      <3> QED
        BY <2>2, <3>1, <3>2, <1>3
    <2> QED
      BY <2>1, <2>2
  <1> QED
    BY <1>4, <1>5 DEF RemoveAt, front, back

\* free_block at the end of a run, which may close the gap to the next one.
LEMMA AtEndCorrect ==
  ASSUME NEW list, Ordered(list), NEW k \in 1 .. Len(list), NEW b \in Blocks,
         End(list[k]) = b
  PROVE  /\ Ordered(AtEnd(list, k))
         /\ FreeBlocks(AtEnd(list, k)) \subseteq FreeBlocks(list) \cup {b}
  <1> DEFINE n == list[k].n_blocks + 1
             new == AtEnd(list, k)
  <1>1. list \in Seq(Node) /\ Len(list) \in Nat
    BY LenProperties DEF Ordered
  <1>2. \A i \in 1 .. Len(list) :
          /\ list[i] \in Node /\ list[i].blockno \in Blocks /\ list[i].blockno \in Nat
          /\ list[i].n_blocks \in Nat \ {0} /\ End(list[i]) \in Nat
    BY <1>1, ElementOfSeq, NodeType
  <1>3. b \in Nat /\ b + 1 <= NumBlocks /\ list[k].blockno + n = b + 1
    <2>1. b \in Nat /\ b + 1 <= NumBlocks
      BY RamdiskAssumption DEF Blocks
    <2>2. list[k].blockno + list[k].n_blocks = b
      BY DEF End
    <2>3. list[k].blockno \in Nat /\ list[k].n_blocks \in Nat
      BY <1>2
    <2> QED
      BY <2>1, <2>2, <2>3
  <1>4. \A j \in 1 .. Len(list) : k < j => b < list[j].blockno
    BY DEF Ordered
  <1>5. CASE k < Len(list) /\ list[k + 1].blockno = list[k].blockno + n
    <2> DEFINE m == n + list[k + 1].n_blocks
               r == Run(list[k].blockno, m)
               mid == [list EXCEPT ![k] = r]
    <2>1. k + 1 \in 1 .. Len(list) /\ list[k + 1].blockno = b + 1
      BY <1>1, <1>3, <1>5
    <2>2. list[k].blockno + m = End(list[k + 1]) /\ m \in Nat \ {0}
      <3>1. /\ list[k].blockno \in Nat /\ list[k].n_blocks \in Nat
            /\ list[k + 1].n_blocks \in Nat \ {0}
        BY <2>1, <1>2
      <3>2. End(list[k + 1]) = b + 1 + list[k + 1].n_blocks
        BY <2>1 DEF End
      <3>3. m \in Nat \ {0}
        <4>1. PICK y \in Nat, z \in Nat \ {0} : y = list[k].n_blocks /\ z = list[k + 1].n_blocks
          BY <3>1
        <4>2. (y + 1) + z \in Nat \ {0}
          OBVIOUS
        <4> QED
          BY <4>1, <4>2
      <3>4. list[k].blockno + m = list[k].blockno + n + list[k + 1].n_blocks
        <4>1. PICK x \in Nat, y \in Nat, z \in Nat :
                x = list[k].blockno /\ y = n /\ z = list[k + 1].n_blocks
          BY <3>1
        <4>2. x + (y + z) = x + y + z
          OBVIOUS
        <4> QED
          BY <4>1, <4>2
      <3> QED
        BY <3>2, <3>3, <3>4, <1>3
    <2>3. r \in Node /\ r.blockno = list[k].blockno /\ End(r) = End(list[k + 1])
      <3>1. list[k].blockno + m <= NumBlocks
        BY <2>1, <2>2 DEF Ordered
      <3>2. r \in Node /\ r.blockno = list[k].blockno /\ r.n_blocks = m
        BY <3>1, <2>2, <1>2, RunType
      <3> QED
        BY <3>2, <2>2 DEF End
    <2> HIDE DEF r
    <2>4. /\ mid \in Seq(Node) /\ Len(mid) = Len(list)
          /\ \A j \in 1 .. Len(list) : mid[j] = IF j = k THEN r ELSE list[j]
      BY <2>3, <1>1, ExceptSeq
    <2>5. new = RemoveAt(mid, k + 1)
      BY <1>5 DEF AtEnd, r
    <2> HIDE DEF mid, new
    <2>6. /\ new \in Seq(Node) /\ Len(new) = Len(list) - 1
          /\ \A j \in 1 .. Len(list) - 1 :
               new[j] = IF j < k + 1 THEN mid[j] ELSE mid[j + 1]
      <3>1. k + 1 \in 1 .. Len(mid)
        BY <2>1, <2>4
      <3>2. /\ RemoveAt(mid, k + 1) \in Seq(Node)
            /\ Len(RemoveAt(mid, k + 1)) = Len(mid) - 1
            /\ \A j \in 1 .. Len(mid) - 1 : RemoveAt(mid, k + 1)[j] =
                 IF j < k + 1 THEN mid[j] ELSE mid[j + 1]
        BY <3>1, <2>4, RemoveAtElements
      <3> QED
        BY <3>2, <2>4, <2>5
    <2>7. \A j \in 1 .. Len(list) - 1 :
            /\ j < k => new[j] = list[j]
            /\ j = k => new[j] = r
            /\ k < j => new[j] = list[j + 1] /\ j + 1 \in 1 .. Len(list)
      <3> TAKE j \in 1 .. Len(list) - 1
      <3>1. j \in 1 .. Len(list) /\ j + 1 \in 1 .. Len(list)
        BY <1>1
      <3> QED
        BY <3>1, <2>4, <2>6
    <2>8. Ordered(new)
      <3>1. \A i \in 1 .. Len(new) : End(new[i]) <= NumBlocks
        <4> TAKE i \in 1 .. Len(new)
        <4>1. i \in 1 .. Len(list) - 1 /\ i \in 1 .. Len(list)
          BY <2>6, <1>1
        <4>2. CASE i < k
          BY <4>1, <4>2, <2>7 DEF Ordered
        <4>3. CASE i = k
          BY <4>1, <4>3, <2>7, <2>1, <2>3 DEF Ordered
        <4>4. CASE k < i
          BY <4>1, <4>4, <2>7 DEF Ordered
        <4> QED
          BY <4>1, <4>2, <4>3, <4>4
      <3>2. ASSUME NEW i \in 1 .. Len(new), NEW j \in 1 .. Len(new), i < j
            PROVE  End(new[i]) < new[j].blockno
        <4>1. /\ i \in 1 .. Len(list) - 1 /\ i \in 1 .. Len(list)
              /\ j \in 1 .. Len(list) - 1 /\ j \in 1 .. Len(list)
          BY <2>6, <1>1
        <4>2. CASE j < k
          BY <4>1, <4>2, <3>2, <2>7 DEF Ordered
        <4>3. CASE j = k
          BY <4>1, <4>3, <3>2, <2>7, <2>3 DEF Ordered
        <4>4. CASE k < j /\ i < k
          <5>1. new[j] = list[j + 1] /\ j + 1 \in 1 .. Len(list) /\ new[i] = list[i]
            BY <4>1, <4>4, <2>7
          <5> QED
            BY <4>1, <5>1, <3>2 DEF Ordered
        <4>5. CASE k < j /\ i = k
          <5>1. new[j] = list[j + 1] /\ j + 1 \in 1 .. Len(list) /\ new[i] = r
            BY <4>1, <4>5, <2>7
          <5>2. End(list[k + 1]) < list[j + 1].blockno
            BY <4>1, <4>5, <5>1, <2>1 DEF Ordered
          <5> QED
            BY <5>1, <5>2, <2>3
        <4>6. CASE k < j /\ k < i
          <5>1. /\ new[j] = list[j + 1] /\ j + 1 \in 1 .. Len(list)
                /\ new[i] = list[i + 1] /\ i + 1 \in 1 .. Len(list) /\ i + 1 < j + 1
            BY <4>1, <4>6, <2>7, <3>2
          <5> QED
            BY <5>1 DEF Ordered
        <4> QED
          BY <4>1, <4>2, <4>3, <4>4, <4>5, <4>6
      <3> QED
        BY <2>6, <3>1, <3>2 DEF Ordered
    <2>9. ASSUME NEW x \in FreeBlocks(new)
          PROVE  x \in FreeBlocks(list) \cup {b}
      <3>1. PICK i \in 1 .. Len(new) : x \in new[i].blockno .. End(new[i]) - 1
        BY <2>6, <2>9, Offered
      <3>2. i \in 1 .. Len(list) - 1 /\ i \in 1 .. Len(list)
        BY <2>6, <1>1
      <3>3. CASE i < k
        BY <3>1, <3>2, <3>3, <2>7, <1>1, Offered
      <3>4. CASE i = k
        <4>1. x \in list[k].blockno .. End(list[k + 1]) - 1
          BY <3>1, <3>2, <3>4, <2>3, <2>7
        <4>2. \/ x = b \/ x \in list[k].blockno .. End(list[k]) - 1
              \/ x \in list[k + 1].blockno .. End(list[k + 1]) - 1
          BY <4>1, <2>1, <1>2, <1>3
        <4> QED
          BY <4>2, <2>1, <1>1, Offered
      <3>5. CASE k < i
        BY <3>1, <3>2, <3>5, <2>7, <1>1, Offered
      <3> QED
        BY <3>2, <3>3, <3>4, <3>5
    <2> QED
      BY <2>8, <2>9 DEF new
  <1>6. CASE ~(k < Len(list) /\ list[k + 1].blockno = list[k].blockno + n)
    <2> DEFINE r == Run(list[k].blockno, n)
    <2>1. new = [list EXCEPT ![k] = r]
      BY <1>6 DEF AtEnd
    <2>2. r \in Node /\ r.blockno = list[k].blockno /\ End(r) = b + 1
      <3>1. n \in Nat \ {0} /\ list[k].blockno + n <= NumBlocks
        BY <1>2, <1>3
      <3>2. r \in Node /\ r.blockno = list[k].blockno /\ r.n_blocks = n
        BY <3>1, <1>2, RunType
      <3> QED
        BY <3>2, <1>3 DEF End
    <2> HIDE DEF r
    <2>3. ASSUME NEW j \in 1 .. Len(list), k < j
          PROVE  End(r) < list[j].blockno
      <3>1. k < Len(list) /\ k + 1 \in 1 .. Len(list)
        BY <2>3, <1>1
      <3>2. b + 1 < list[k + 1].blockno
        BY <3>1, <1>2, <1>3, <1>4, <1>6
      <3>3. CASE j = k + 1
        BY <3>2, <3>3, <2>2
      <3>4. CASE j # k + 1
        <4>1. End(list[k + 1]) < list[j].blockno
          BY <3>1, <3>4, <2>3 DEF Ordered
        <4>2. list[k + 1].blockno < End(list[k + 1])
          BY <3>1, <1>2 DEF End
        <4>3. PICK x \in Nat, y \in Nat, z \in Nat :
                x = list[k + 1].blockno /\ y = End(list[k + 1]) /\ z = list[j].blockno
          BY <3>1, <1>2
        <4>4. b \in Nat /\ b + 1 < x /\ x < y /\ y < z
          BY <4>1, <4>2, <4>3, <3>2 DEF Blocks
        <4>5. b + 1 < z
          BY <4>4
        <4> QED
          BY <4>3, <4>5, <2>2
      <3> QED
        BY <3>3, <3>4
    <2>4. Ordered(new)
      <3>1. End(r) <= NumBlocks
        BY <2>2, <1>3
      <3>2. \A j \in 1 .. Len(list) : j < k => End(list[j]) < r.blockno
        BY <2>2 DEF Ordered
      <3>3. Ordered([list EXCEPT ![k] = r])
        BY <3>1, <3>2, <2>2, <2>3, ReplaceRun
      <3> QED
        BY <3>3, <2>1
    <2>5. /\ new \in Seq(Node) /\ Len(new) = Len(list)
          /\ \A j \in 1 .. Len(list) : new[j] = IF j = k THEN r ELSE list[j]
      BY <2>1, <2>2, <1>1, ExceptSeq
    <2> HIDE DEF new
    <2>6. ASSUME NEW x \in FreeBlocks(new)
          PROVE  x \in FreeBlocks(list) \cup {b}
      <3>1. PICK i \in 1 .. Len(list) : x \in new[i].blockno .. End(new[i]) - 1
        BY <2>5, <2>6, Offered
      <3>2. CASE i = k
        <4>1. x \in list[k].blockno .. b
          BY <3>1, <3>2, <2>2, <2>5, <1>3
        <4>2. x = b \/ x \in list[k].blockno .. End(list[k]) - 1
          BY <4>1, <1>2, <1>3
        <4> QED
          BY <4>2, <1>1, Offered
      <3>3. CASE i # k
        BY <3>1, <3>3, <2>5, <1>1, Offered
      <3> QED
        BY <3>2, <3>3
    <2> QED
      BY <2>4, <2>6 DEF new
  <1> QED
    BY <1>5, <1>6

\* The block in a run of its own at the head of what is left of the list.
LEMMA HeadRunCorrect ==
  ASSUME NEW list, Ordered(list), NEW k \in 1 .. Len(list), NEW b \in Blocks,
         b + 1 < list[k].blockno
  PROVE  LET new == <<Run(b, 1)>> \o SubSeq(list, k, Len(list))
         IN  Ordered(new) /\ FreeBlocks(new) \subseteq FreeBlocks(list) \cup {b}
  <1> DEFINE r == Run(b, 1)
             back == SubSeq(list, k, Len(list))
             new == <<r>> \o back
  <1>1. list \in Seq(Node) /\ Len(list) \in Nat
    BY LenProperties DEF Ordered
  <1>2. \A i \in 1 .. Len(list) :
          /\ list[i] \in Node /\ list[i].blockno \in Blocks /\ list[i].blockno \in Nat
          /\ list[i].n_blocks \in Nat \ {0} /\ End(list[i]) \in Nat
    BY <1>1, ElementOfSeq, NodeType
  <1>3. r \in Node /\ r.blockno = b /\ End(r) = b + 1 /\ b + 1 <= NumBlocks /\ b \in Nat
    <2>1. b \in Nat /\ b + 1 <= NumBlocks
      BY RamdiskAssumption DEF Blocks
    <2>2. r \in Node /\ r.blockno = b /\ r.n_blocks = 1
      BY <2>1, RunType
    <2> QED
      BY <2>1, <2>2 DEF End
  <1> HIDE DEF r
  <1>4. /\ back \in Seq(Node) /\ Len(back) = Len(list) - k + 1
        /\ \A i \in 1 .. Len(list) - k + 1 : back[i] = list[k + i - 1]
    <2>1. \A i \in k .. Len(list) : list[i] \in Node
      BY <1>1, <1>2
    <2>2. /\ back \in Seq(Node)
          /\ Len(back) = IF k <= Len(list) THEN Len(list) - k + 1 ELSE 0
          /\ \A i \in 1 .. Len(list) - k + 1 : back[i] = list[k + i - 1]
      BY <2>1, <1>1, SubSeqProperties
    <2> QED
      BY <2>2, <1>1
  <1> HIDE DEF back
  <1>5. <<r>> \in Seq(Node) /\ Len(<<r>>) = 1 /\ <<r>>[1] = r
    BY <1>3
  <1>6. /\ new \in Seq(Node) /\ Len(new) = Len(list) - k + 2
        /\ new[1] = r
        /\ \A i \in 2 .. Len(new) :
             new[i] = list[k + i - 2] /\ k + i - 2 \in 1 .. Len(list)
    <2>1. /\ new \in Seq(Node) /\ Len(new) = Len(<<r>>) + Len(back)
          /\ \A i \in 1 .. Len(<<r>>) + Len(back) : new[i] =
               IF i <= Len(<<r>>) THEN <<r>>[i] ELSE back[i - Len(<<r>>)]
      BY <1>4, <1>5, ConcatProperties
    <2>2. Len(new) = Len(list) - k + 2 /\ 1 \in 1 .. Len(<<r>>) + Len(back)
      BY <2>1, <1>1, <1>4, <1>5
    <2> HIDE DEF new
    <2>3. new[1] = r
      BY <2>1, <2>2, <1>5
    <2>4. ASSUME NEW i \in 2 .. Len(new)
          PROVE  new[i] = list[k + i - 2] /\ k + i - 2 \in 1 .. Len(list)
      <3>1. /\ i \in 1 .. Len(<<r>>) + Len(back) /\ ~(i <= Len(<<r>>))
            /\ i - 1 \in 1 .. Len(list) - k + 1 /\ k + i - 2 \in 1 .. Len(list)
            /\ k + (i - 1) - 1 = k + i - 2
        BY <2>1, <2>2, <1>1, <1>4, <1>5
      <3>2. new[i] = back[i - 1]
        BY <3>1, <2>1, <1>5
      <3> QED
        BY <3>1, <3>2, <1>4
    <2> QED
      BY <2>1, <2>2, <2>3, <2>4
  <1> HIDE DEF new
  <1>7. \A i \in 1 .. Len(list) : k <= i => b + 1 < list[i].blockno
    <2> SUFFICES ASSUME NEW i \in 1 .. Len(list), k <= i
                 PROVE  b + 1 < list[i].blockno
      OBVIOUS
    <2>1. CASE i = k
      BY <2>1
    <2>2. CASE i # k
      <3>1. End(list[k]) < list[i].blockno
        BY <2>2 DEF Ordered
      <3>2. list[k].blockno < End(list[k])
        BY <1>2 DEF End
      <3> QED
        BY <3>1, <3>2, <1>2, <1>3
    <2> QED
      BY <2>1, <2>2
  <1>8. Ordered(new)
    <2>1. \A i \in 1 .. Len(new) : End(new[i]) <= NumBlocks
      <3> TAKE i \in 1 .. Len(new)
      <3>1. CASE i = 1
        BY <3>1, <1>3, <1>6
      <3>2. CASE i # 1
        <4>1. i \in 2 .. Len(new)
          BY <3>2, <1>1, <1>6
        <4>2. new[i] = list[k + i - 2] /\ k + i - 2 \in 1 .. Len(list)
          BY <4>1, <1>6
        <4> QED
          BY <4>2 DEF Ordered
      <3> QED
        BY <3>1, <3>2
    <2>2. ASSUME NEW i \in 1 .. Len(new), NEW j \in 1 .. Len(new), i < j
          PROVE  End(new[i]) < new[j].blockno
      <3>1. j \in 2 .. Len(new) /\ k <= k + j - 2
        BY <2>2, <1>1, <1>6
      <3>2. new[j] = list[k + j - 2] /\ k + j - 2 \in 1 .. Len(list)
        BY <3>1, <1>6
      <3>3. CASE i = 1
        BY <3>1, <3>2, <3>3, <1>3, <1>6, <1>7
      <3>4. CASE i # 1
        <4>1. i \in 2 .. Len(new) /\ k + i - 2 < k + j - 2
          BY <3>4, <2>2, <1>1, <1>6
        <4>2. new[i] = list[k + i - 2] /\ k + i - 2 \in 1 .. Len(list)
          BY <4>1, <1>6
        <4> QED
          BY <3>2, <4>1, <4>2 DEF Ordered
      <3> QED
        BY <3>3, <3>4
    <2> QED
      BY <2>1, <2>2, <1>6 DEF Ordered
  <1>9. ASSUME NEW x \in FreeBlocks(new)
        PROVE  x \in FreeBlocks(list) \cup {b}
    <2>1. PICK i \in 1 .. Len(new) : x \in new[i].blockno .. End(new[i]) - 1
      BY <1>6, <1>9, Offered
    <2>2. CASE i = 1
      BY <2>1, <2>2, <1>3, <1>6
    <2>3. CASE i # 1
      <3>1. i \in 2 .. Len(new)
        BY <2>3, <1>1, <1>6
      <3>2. new[i] = list[k + i - 2] /\ k + i - 2 \in 1 .. Len(list)
        BY <3>1, <1>6
      <3> QED
        BY <3>2, <2>1, <1>1, Offered
    <2> QED
      BY <2>2, <2>3
  <1> QED
    BY <1>8, <1>9 DEF new, back, r

\* free_block keeps the order whatever block comes back, a free one included,
\* and offers nothing that was not on offer but that block.
LEMMA FreeBlockCorrect ==
  ASSUME NEW list, Ordered(list), NEW b \in Blocks
  PROVE  /\ Ordered(FreeBlock(list, b))
         /\ FreeBlocks(FreeBlock(list, b)) \subseteq FreeBlocks(list) \cup {b}
  <1> DEFINE new == FreeBlock(list, b)
             Here(j) == list[j].blockno > b \/ list[j].blockno + list[j].n_blocks = b
  <1>1. list \in Seq(Node) /\ Len(list) \in Nat /\ DOMAIN list = 1 .. Len(list)
    BY LenProperties DEF Ordered
  <1>2. \A i \in 1 .. Len(list) :
          /\ list[i] \in Node /\ list[i].blockno \in Blocks /\ list[i].blockno \in Nat
          /\ list[i].n_blocks \in Nat \ {0} /\ End(list[i]) \in Nat
    BY <1>1, ElementOfSeq, NodeType
  <1>3. b \in Nat /\ b + 1 <= NumBlocks
    BY RamdiskAssumption DEF Blocks
  <1>4. CASE \A i \in DOMAIN list : ~Stops(list, b, i)
    <2> DEFINE r == Run(b, 1)
    <2>1. new = <<r>>
      BY <1>4 DEF FreeBlock
    <2>2. r \in Node /\ r.blockno = b /\ End(r) = b + 1
      BY <1>3, RunType DEF End
    <2> HIDE DEF r
    <2>3. new \in Seq(Node) /\ Len(new) = 1 /\ new[1] = r
      BY <2>1, <2>2
    <2> HIDE DEF new
    <2>4. Ordered(new)
      BY <2>2, <2>3, <1>3 DEF Ordered
    <2>5. \A x \in FreeBlocks(new) : x = b
      BY <2>2, <2>3, <1>3, Offered
    <2> QED
      BY <2>4, <2>5 DEF new
  <1>5. CASE ~\A i \in DOMAIN list : ~Stops(list, b, i)
    <2> DEFINE k == CHOOSE j \in DOMAIN list : Stops(list, b, j)
    <2>1. k \in DOMAIN list /\ Stops(list, b, k)
      BY <1>5
    <2>2. new = CASE list[k].blockno = b + 1 -> [list EXCEPT ![k] = Run(b, @.n_blocks + 1)]
                  [] list[k].blockno < b     -> AtEnd(list, k)
                  [] OTHER                   -> <<Run(b, 1)>> \o SubSeq(list, k, Len(list))
      BY <1>5 DEF FreeBlock
    <2> HIDE DEF k
    <2>3. k \in 1 .. Len(list) /\ Here(k) /\ \A j \in 1 .. k - 1 : ~Here(j)
      BY <2>1, <1>1 DEF Stops
    <2>4. \A j \in 1 .. Len(list) : j < k => ~(End(list[j]) = b)
      BY <2>3 DEF End
    <2> HIDE DEF new
    <2>5. CASE list[k].blockno = b + 1
      <3> DEFINE r == Run(b, list[k].n_blocks + 1)
      <3>1. new = [list EXCEPT ![k] = r]
        <4>1. ~(list[k].blockno < b)
          BY <2>5, <1>3
        <4>2. new = [list EXCEPT ![k] = Run(b, @.n_blocks + 1)]
          BY <4>1, <2>2, <2>5
        <4> QED
          BY <4>2
      <3>2. End(list[k]) = b + 1 + list[k].n_blocks
        BY <2>5 DEF End
      <3>3. r \in Node /\ r.blockno = b /\ End(r) = End(list[k])
        <4>1. /\ list[k].n_blocks + 1 \in Nat \ {0}
              /\ b + (list[k].n_blocks + 1) = End(list[k])
          <5>1. list[k].n_blocks \in Nat \ {0}
            BY <2>3, <1>2
          <5> QED
            BY <5>1, <3>2, <1>3
        <4>2. End(list[k]) <= NumBlocks
          BY <2>3 DEF Ordered
        <4>3. r \in Node /\ r.blockno = b /\ r.n_blocks = list[k].n_blocks + 1
          BY <4>1, <4>2, RunType
        <4> QED
          BY <4>1, <4>3 DEF End
      <3> HIDE DEF r
      <3>4. \A j \in 1 .. Len(list) : j < k => End(list[j]) < r.blockno
        <4> SUFFICES ASSUME NEW j \in 1 .. Len(list), j < k
                     PROVE  End(list[j]) < b
          BY <3>3
        <4>1. End(list[j]) < b + 1
          BY <2>3, <2>5 DEF Ordered
        <4> QED
          BY <4>1, <2>4, <1>2, <1>3
      <3>5. Ordered(new)
        <4>1. \A j \in 1 .. Len(list) : k < j => End(r) < list[j].blockno
          BY <3>3, <2>3 DEF Ordered
        <4>2. End(r) <= NumBlocks
          BY <3>3, <2>3 DEF Ordered
        <4>3. Ordered([list EXCEPT ![k] = r])
          BY <4>1, <4>2, <3>3, <3>4, <2>3, ReplaceRun
        <4> QED
          BY <4>3, <3>1
      <3>6. /\ new \in Seq(Node) /\ Len(new) = Len(list)
            /\ \A j \in 1 .. Len(list) : new[j] = IF j = k THEN r ELSE list[j]
        BY <3>1, <3>3, <2>3, <1>1, ExceptSeq
      <3>7. ASSUME NEW x \in FreeBlocks(new)
            PROVE  x \in FreeBlocks(list) \cup {b}
        <4>1. PICK i \in 1 .. Len(list) : x \in new[i].blockno .. End(new[i]) - 1
          BY <3>6, <3>7, Offered
        <4>2. CASE i = k
          <5>1. x \in b .. End(list[k]) - 1
            BY <4>1, <4>2, <3>3, <3>6
          <5>2. x = b \/ x \in list[k].blockno .. End(list[k]) - 1
            BY <5>1, <2>3, <2>5, <1>2, <1>3
          <5> QED
            BY <5>2, <2>3, <1>1, Offered
        <4>3. CASE i # k
          BY <4>1, <4>3, <3>6, <1>1, Offered
        <4> QED
          BY <4>2, <4>3
      <3> QED
        BY <3>5, <3>7 DEF new
    <2>6. CASE list[k].blockno < b
      <3>1. new = AtEnd(list, k)
        BY <2>2, <2>3, <2>6, <1>2, <1>3
      <3>2. End(list[k]) = b
        BY <2>3, <2>6, <1>2, <1>3 DEF End
      <3> QED
        BY <3>1, <3>2, <2>3, AtEndCorrect DEF new
    <2>7. CASE ~(list[k].blockno = b + 1) /\ ~(list[k].blockno < b)
      <3>1. new = <<Run(b, 1)>> \o SubSeq(list, k, Len(list))
        BY <2>2, <2>7
      <3>2. b + 1 < list[k].blockno
        BY <2>3, <2>7, <1>2, <1>3
      <3> QED
        BY <3>1, <3>2, <2>3, HeadRunCorrect DEF new
    <2> QED
      BY <2>5, <2>6, <2>7
  <1> QED
    BY <1>4, <1>5

-----------------------------------------------------------------------------
(* The invariant *)

AllocReq(c, b) == [op |-> "alloc", client |-> c, block |-> b]
FreeReq(c, b)  == [op |-> "free", client |-> c, block |-> b]

\* Where block b is.  A client holds it once, so that a revocation takes it
\* away; a block that is held is not waiting to be freed, and is on the list
\* only while the server is freeing it for that client; a block that is being
\* given is nowhere else.  The last part is what is left to know of a block
\* whose client was terminated while it was freed.
OnePlace(b) ==
  /\ \A c \in Clients : holds[c][b] <= 1
  /\ \A c, d \in Clients : holds[c][b] > 0 /\ holds[d][b] > 0 => c = d
  /\ \A c \in Clients : holds[c][b] > 0 =>
       /\ b \notin ToSet(freeq)
       /\ b \in FreeBlocks(free_blocks) => current = FreeReq(c, b)
  /\ \A c \in Clients : current = AllocReq(c, b) =>
       /\ b \notin FreeBlocks(free_blocks) \cup ToSet(freeq)
       /\ \A d \in Clients : holds[d][b] = 0
  /\ \A c \in Clients : current = FreeReq(c, b) =>
       \A d \in Clients \ {c} : holds[d][b] = 0

RamdiskInv ==
  /\ TypeOK
  /\ Ordered(free_blocks)
  /\ \A b \in Blocks \ sent : OnePlace(b)

-----------------------------------------------------------------------------
(* The operators of the root task *)

\* pd_add_resource counts one block of one client.
LEMMA AddResourceCounts ==
  ASSUME TypeOK, NEW c \in Clients, NEW b \in Blocks
  PROVE  /\ AddResource(c, b) \in [Clients -> [Blocks -> Nat]]
         /\ AddResource(c, b)[c][b] = holds[c][b] + 1
         /\ \A d \in Clients, x \in Blocks : d # c \/ x # b =>
              AddResource(c, b)[d][x] = holds[d][x]
  <1>1. holds \in [Clients -> [Blocks -> Nat]] /\ holds[c] \in [Blocks -> Nat]
    BY DEF TypeOK
  <1> QED
    BY <1>1 DEF AddResource

\* pd_remove_resource counts one block of one client down, to zero at least.
LEMMA RevokeResourceCounts ==
  ASSUME TypeOK, NEW c \in Clients, NEW b \in Blocks
  PROVE  /\ RevokeResource(c, b) \in [Clients -> [Blocks -> Nat]]
         /\ RevokeResource(c, b)[c][b] = IF holds[c][b] > 0 THEN holds[c][b] - 1 ELSE 0
         /\ \A d \in Clients, x \in Blocks : d # c \/ x # b =>
              RevokeResource(c, b)[d][x] = holds[d][x]
  <1>1. /\ holds \in [Clients -> [Blocks -> Nat]] /\ holds[c] \in [Blocks -> Nat]
        /\ holds[c][b] \in Nat
    BY DEF TypeOK
  <1>2. CASE holds[c][b] > 0
    BY <1>1, <1>2 DEF RevokeResource
  <1>3. CASE ~(holds[c][b] > 0)
    BY <1>1, <1>3 DEF RevokeResource
  <1> QED
    BY <1>2, <1>3

\* The entries of a queue after it was shortened or lengthened.
LEMMA QueueEntries ==
  ASSUME NEW s \in Seq(Blocks)
  PROVE  /\ s # <<>> => /\ Head(s) \in Blocks /\ Head(s) \in ToSet(s)
                        /\ Tail(s) \in Seq(Blocks)
                        /\ ToSet(Tail(s)) \subseteq ToSet(s)
         /\ \A q \in Seq(Blocks) : /\ s \o q \in Seq(Blocks)
                                   /\ ToSet(s \o q) \subseteq ToSet(s) \cup ToSet(q)
  <1>1. Len(s) \in Nat /\ DOMAIN s = 1 .. Len(s)
    BY LenProperties
  <1>2. ASSUME s # <<>>
        PROVE  /\ Head(s) \in Blocks /\ Head(s) \in ToSet(s) /\ Tail(s) \in Seq(Blocks)
               /\ ToSet(Tail(s)) \subseteq ToSet(s)
    <2>1. Len(s) \in Nat \ {0} /\ Head(s) = s[1]
      BY <1>2, EmptySeq
    <2>2. Head(s) \in Blocks /\ Tail(s) \in Seq(Blocks) /\ Len(Tail(s)) = Len(s) - 1
          /\ \A i \in 1 .. Len(Tail(s)) : Tail(s)[i] = s[i + 1]
      BY <1>2, HeadTailProperties
    <2>3. DOMAIN Tail(s) = 1 .. Len(s) - 1
      BY <2>2, LenProperties
    <2>4. \A i \in 1 .. Len(s) - 1 : Tail(s)[i] = s[i + 1] /\ i + 1 \in 1 .. Len(s)
      BY <2>2, <1>1
    <2>5. ToSet(Tail(s)) \subseteq ToSet(s)
      BY <2>3, <2>4, <1>1 DEF ToSet
    <2>6. s[1] \in ToSet(s)
      BY <2>1, <1>1 DEF ToSet
    <2> QED
      BY <2>1, <2>2, <2>5, <2>6
  <1>3. ASSUME NEW q \in Seq(Blocks)
        PROVE  s \o q \in Seq(Blocks) /\ ToSet(s \o q) \subseteq ToSet(s) \cup ToSet(q)
    <2>1. Len(q) \in Nat /\ DOMAIN q = 1 .. Len(q)
      BY LenProperties
    <2>2. /\ s \o q \in Seq(Blocks) /\ Len(s \o q) = Len(s) + Len(q)
          /\ \A i \in 1 .. Len(s) + Len(q) : (s \o q)[i] =
               IF i <= Len(s) THEN s[i] ELSE q[i - Len(s)]
      BY ConcatProperties
    <2>3. DOMAIN (s \o q) = 1 .. Len(s) + Len(q)
      BY <2>2, LenProperties
    <2>4. ASSUME NEW i \in 1 .. Len(s) + Len(q)
          PROVE  (s \o q)[i] \in ToSet(s) \cup ToSet(q)
      <3>1. CASE i <= Len(s)
        <4>1. i \in DOMAIN s /\ (s \o q)[i] = s[i]
          BY <3>1, <1>1, <2>1, <2>2
        <4> QED
          BY <4>1 DEF ToSet
      <3>2. CASE ~(i <= Len(s))
        <4>1. i - Len(s) \in DOMAIN q /\ (s \o q)[i] = q[i - Len(s)]
          BY <3>2, <1>1, <2>1, <2>2
        <4> QED
          BY <4>1 DEF ToSet
      <3> QED
        BY <3>1, <3>2
    <2>5. \A x \in ToSet(s \o q) : \E i \in 1 .. Len(s) + Len(q) : x = (s \o q)[i]
      BY <2>3 DEF ToSet
    <2> QED
      BY <2>2, <2>4, <2>5
  <1> QED
    BY <1>2, <1>3

\* The blocks of a client in some order are a sequence of those blocks.
LEMMA HeldInOrder ==
  ASSUME NEW c, NEW q \in SetToSeqs(Held(c))
  PROVE  q \in Seq(Blocks) /\ ToSet(q) \subseteq Held(c)
  <1>1. IsFiniteSet(Blocks)
    BY FS_Interval, RamdiskAssumption DEF Blocks
  <1>2. IsFiniteSet(Held(c)) /\ Held(c) \subseteq Blocks
    BY <1>1, FS_Subset DEF Held
  <1>3. Cardinality(Held(c)) \in Nat
    BY <1>2, FS_CardinalityType
  <1>4. q \in [1 .. Cardinality(Held(c)) -> Held(c)]
    BY DEF SetToSeqs
  <1>5. q \in Seq(Held(c))
    BY <1>3, <1>4
  <1>6. q \in Seq(Blocks)
    BY <1>2, <1>5, SeqMonotonic
  <1> QED
    BY <1>4, <1>6 DEF ToSet

-----------------------------------------------------------------------------
(* Each action keeps the invariant *)

LEMMA InitInv == Init => RamdiskInv
  <1> SUFFICES ASSUME Init PROVE RamdiskInv
    OBVIOUS
  <1> DEFINE r == [blockno |-> 0, n_blocks |-> NumBlocks]
  <1>1. r \in Node /\ r.blockno = 0 /\ End(r) = NumBlocks
    BY RamdiskAssumption DEF Node, Blocks, End
  <1> HIDE DEF r
  <1>2. free_blocks = <<r>>
    BY DEF Init, r
  <1>3. free_blocks \in Seq(Node) /\ Len(free_blocks) = 1 /\ free_blocks[1] = r
    BY <1>1, <1>2
  <1>4. Ordered(free_blocks)
    BY <1>1, <1>3, RamdiskAssumption DEF Ordered
  <1>5. TypeOK
    <2>1. /\ current \in Request \cup {None} /\ sender \in Clients \cup {None}
          /\ live \subseteq Clients /\ sent \subseteq Blocks /\ corrupt \in BOOLEAN
      BY DEF Init
    <2>2. holds \in [Clients -> [Blocks -> Nat]]
      BY DEF Init
    <2>3. freeq \in Seq(Blocks)
      BY DEF Init
    <2> QED
      BY <1>3, <2>1, <2>2, <2>3 DEF TypeOK
  <1>6. /\ ToSet(freeq) = {} /\ current = None
        /\ \A c \in Clients, b \in Blocks : holds[c][b] = 0
    BY DEF Init, ToSet
  <1>7. ASSUME NEW b \in Blocks
        PROVE  OnePlace(b)
    <2>1. \A c \in Clients : None # AllocReq(c, b) /\ None # FreeReq(c, b)
      BY RamdiskAssumption DEF AllocReq, FreeReq, Request
    <2> QED
      BY <1>6, <2>1 DEF OnePlace
  <1> QED
    BY <1>4, <1>5, <1>7 DEF RamdiskInv

\* The guards and effects that the steps below share.
LEMMA ReleaseKeeps ==
  ASSUME RamdiskInv, NEW b \in Blocks, Release(b)
  PROVE  /\ Ordered(free_blocks') /\ free_blocks' \in Seq(Node) /\ corrupt' \in BOOLEAN
         /\ FreeBlocks(free_blocks') \subseteq FreeBlocks(free_blocks) \cup {b}
  <1>1. Ordered(free_blocks) /\ free_blocks' = FreeBlock(free_blocks, b)
    BY DEF RamdiskInv, Release
  <1>2. Ordered(free_blocks')
        /\ FreeBlocks(free_blocks') \subseteq FreeBlocks(free_blocks) \cup {b}
    BY <1>1, FreeBlockCorrect
  <1>3. corrupt' \in BOOLEAN
    BY DEF Release, FreesLinkedNode
  <1> QED
    BY <1>2, <1>3 DEF Ordered

\* The two kinds of requests are different from each other and from None.
LEMMA RequestsDiffer ==
  ASSUME NEW c \in Clients, NEW b \in Blocks, NEW d \in Clients, NEW x \in Blocks
  PROVE  /\ AllocReq(c, b) \in Request /\ FreeReq(c, b) \in Request
         /\ AllocReq(c, b) # None /\ FreeReq(c, b) # None
         /\ AllocReq(c, b) # FreeReq(d, x)
         /\ AllocReq(c, b) = AllocReq(d, x) => c = d /\ b = x
         /\ FreeReq(c, b) = FreeReq(d, x) => c = d /\ b = x
  <1>1. AllocReq(c, b) \in Request /\ FreeReq(c, b) \in Request
    BY DEF AllocReq, FreeReq, Request
  <1>2. /\ AllocReq(c, b).op = "alloc" /\ FreeReq(d, x).op = "free"
        /\ AllocReq(c, b).client = c /\ AllocReq(c, b).block = b
        /\ AllocReq(d, x).client = d /\ AllocReq(d, x).block = x
        /\ FreeReq(c, b).client = c /\ FreeReq(c, b).block = b
        /\ FreeReq(d, x).client = d /\ FreeReq(d, x).block = x
    BY DEF AllocReq, FreeReq
  <1> QED
    BY <1>1, <1>2, RamdiskAssumption

\* A request is one of the two kinds.
LEMMA RequestKinds ==
  ASSUME NEW r \in Request
  PROVE  /\ r.client \in Clients /\ r.block \in Blocks
         /\ r.op = "alloc" => r = AllocReq(r.client, r.block)
         /\ r.op = "free" => r = FreeReq(r.client, r.block)
  BY DEF Request, AllocReq, FreeReq

LEMMA AllocInv ==
  ASSUME RamdiskInv, NEW c \in Clients, Alloc(c)
  PROVE  RamdiskInv'
  <1> DEFINE b0 == free_blocks[1].blockno
  <1>1. /\ TypeOK /\ Ordered(free_blocks) /\ free_blocks # <<>> /\ current = None
        /\ freeq = <<>>
    BY DEF RamdiskInv, Alloc, Ready
  <1>2. /\ Ordered(free_blocks') /\ b0 \in Blocks /\ b0 \in FreeBlocks(free_blocks)
        /\ FreeBlocks(free_blocks') \subseteq FreeBlocks(free_blocks) \ {b0}
    BY <1>1, AllocBlockCorrect DEF Alloc
  <1>3. /\ current' = AllocReq(c, b0)
        /\ UNCHANGED <<corrupt, live, holds, freeq, sender, sent>>
    BY DEF Alloc, AllocReq
  <1> HIDE DEF b0
  <1>4. TypeOK'
    <2>1. current' \in Request
      BY <1>2, <1>3, RequestsDiffer
    <2>2. free_blocks' \in Seq(Node)
      BY <1>2 DEF Ordered
    <2> QED
      BY <1>1, <1>3, <2>1, <2>2 DEF TypeOK
  <1>5. ASSUME NEW b \in Blocks \ sent
        PROVE  OnePlace(b)'
    <2>1. OnePlace(b) /\ ToSet(freeq) = {}
      BY <1>1 DEF RamdiskInv, ToSet
    <2>2. \A d \in Clients : holds[d][b] \in Nat
      BY <1>1 DEF TypeOK
    <2>3. \A d \in Clients : current # FreeReq(d, b) /\ current' # FreeReq(d, b)
      BY <1>1, <1>2, <1>3, RequestsDiffer
    <2>4. \A d \in Clients : current' = AllocReq(d, b) => b = b0
      BY <1>2, <1>3, RequestsDiffer
    <2>5. \A d \in Clients : b \in FreeBlocks(free_blocks) => holds[d][b] = 0
      BY <2>1, <2>2, <2>3 DEF OnePlace
    <2>6. \A d \in Clients : b \in FreeBlocks(free_blocks') => holds[d][b] = 0
      BY <1>2, <2>5
    <2> QED
      BY <1>2, <1>3, <2>1, <2>2, <2>3, <2>4, <2>5, <2>6 DEF OnePlace
  <1> QED
    BY <1>2, <1>3, <1>4, <1>5 DEF RamdiskInv

LEMMA GivenInv ==
  ASSUME RamdiskInv, Given
  PROVE  RamdiskInv'
  <1>1. TypeOK /\ Ordered(free_blocks) /\ current \in Request
    BY DEF RamdiskInv, Given, TypeOK
  <1>2. PICK c \in Clients, x \in Blocks : current.client = c /\ current.block = x
    BY <1>1, RequestKinds
  <1>3. current = AllocReq(c, x)
    BY <1>1, <1>2, RequestKinds DEF Given
  <1>4. /\ holds' = IF c \in live THEN AddResource(c, x) ELSE holds
        /\ current' = None /\ UNCHANGED <<free_blocks, corrupt, live, freeq, sender, sent>>
    BY <1>2 DEF Given, GiveResource
  <1>5. /\ holds' \in [Clients -> [Blocks -> Nat]]
        /\ holds'[c][x] \in {holds[c][x], holds[c][x] + 1}
        /\ \A d \in Clients, b \in Blocks : d # c \/ b # x => holds'[d][b] = holds[d][b]
    <2>1. CASE c \in live
      <3>1. holds' = AddResource(c, x)
        BY <1>4, <2>1
      <3> QED
        BY <1>1, <3>1, AddResourceCounts
    <2>2. CASE c \notin live
      BY <1>1, <1>4, <2>2 DEF TypeOK
    <2> QED
      BY <2>1, <2>2
  <1>6. TypeOK'
    BY <1>1, <1>4, <1>5 DEF TypeOK
  <1>7. ASSUME NEW b \in Blocks \ sent
        PROVE  OnePlace(b)'
    <2>1. OnePlace(b) /\ \A d \in Clients : holds[d][b] \in Nat
      BY <1>1 DEF RamdiskInv, TypeOK
    <2>2. \A d \in Clients : /\ current' # FreeReq(d, b) /\ current' # AllocReq(d, b)
                             /\ current # FreeReq(d, b)
      BY <1>3, <1>4, RequestsDiffer
    <2>3. CASE b = x
      <3>1. b \notin FreeBlocks(free_blocks) \cup ToSet(freeq)
            /\ \A d \in Clients : holds[d][b] = 0
        BY <1>3, <2>1, <2>3 DEF OnePlace
      <3>2. \A d \in Clients : /\ holds'[d][b] \in {0, 1}
                               /\ d # c => holds'[d][b] = 0
        BY <1>5, <2>3, <3>1
      <3> QED
        BY <1>4, <2>2, <3>1, <3>2 DEF OnePlace
    <2>4. CASE b # x
      <3>1. \A d \in Clients : holds'[d][b] = holds[d][b]
        BY <1>5, <2>4
      <3> QED
        BY <1>4, <2>1, <2>2, <3>1 DEF OnePlace
    <2> QED
      BY <2>3, <2>4
  <1>8. Ordered(free_blocks')
    BY <1>1, <1>4
  <1> QED
    BY <1>4, <1>6, <1>7, <1>8 DEF RamdiskInv

LEMMA FreeInv ==
  ASSUME RamdiskInv, NEW c \in Clients, NEW x \in Blocks, Free(c, x)
  PROVE  RamdiskInv'
  <1>1. TypeOK /\ current = None /\ freeq = <<>> /\ holds[c][x] > 0
    BY DEF RamdiskInv, Free, Ready
  <1>2. /\ Ordered(free_blocks') /\ free_blocks' \in Seq(Node) /\ corrupt' \in BOOLEAN
        /\ FreeBlocks(free_blocks') \subseteq FreeBlocks(free_blocks) \cup {x}
    BY ReleaseKeeps DEF Free
  <1>3. current' = FreeReq(c, x) /\ UNCHANGED <<live, holds, freeq, sender, sent>>
    BY DEF Free, FreeReq
  <1>4. TypeOK'
    BY <1>1, <1>2, <1>3, RequestsDiffer DEF TypeOK
  <1>5. ASSUME NEW b \in Blocks \ sent
        PROVE  OnePlace(b)'
    <2>1. OnePlace(b) /\ \A d \in Clients : holds[d][b] \in Nat
      BY <1>1 DEF RamdiskInv, TypeOK
    <2>2. \A d \in Clients : /\ current # FreeReq(d, b) /\ current' # AllocReq(d, b)
                             /\ current' = FreeReq(d, b) => d = c /\ b = x
      BY <1>1, <1>3, RequestsDiffer
    <2>3. CASE b = x
      <3>1. \A d \in Clients \ {c} : holds[d][b] = 0
        BY <1>1, <2>1, <2>3 DEF OnePlace
      <3> QED
        BY <1>3, <2>1, <2>2, <2>3, <3>1 DEF OnePlace
    <2>4. CASE b # x
      <3>1. b \in FreeBlocks(free_blocks') => b \in FreeBlocks(free_blocks)
        BY <1>2, <2>4
      <3> QED
        BY <1>3, <2>1, <2>2, <2>4, <3>1 DEF OnePlace
    <2> QED
      BY <2>3, <2>4
  <1> QED
    BY <1>2, <1>3, <1>4, <1>5 DEF RamdiskInv

LEMMA RevokedInv ==
  ASSUME RamdiskInv, Revoked
  PROVE  RamdiskInv'
  <1>1. TypeOK /\ Ordered(free_blocks) /\ current \in Request
    BY DEF RamdiskInv, Revoked, TypeOK
  <1>2. PICK c \in Clients, x \in Blocks : current.client = c /\ current.block = x
    BY <1>1, RequestKinds
  <1>3. current = FreeReq(c, x)
    BY <1>1, <1>2, RequestKinds DEF Revoked
  <1>4. /\ holds' = RevokeResource(c, x) /\ current' = None
        /\ UNCHANGED <<free_blocks, corrupt, live, freeq, sender, sent>>
    BY <1>2 DEF Revoked
  <1>5. /\ holds' \in [Clients -> [Blocks -> Nat]]
        /\ holds'[c][x] = IF holds[c][x] > 0 THEN holds[c][x] - 1 ELSE 0
        /\ \A d \in Clients, b \in Blocks : d # c \/ b # x => holds'[d][b] = holds[d][b]
    BY <1>1, <1>4, RevokeResourceCounts
  <1>6. TypeOK'
    BY <1>1, <1>4, <1>5 DEF TypeOK
  <1>7. ASSUME NEW b \in Blocks \ sent
        PROVE  OnePlace(b)'
    <2>1. OnePlace(b) /\ \A d \in Clients : holds[d][b] \in Nat
      BY <1>1 DEF RamdiskInv, TypeOK
    <2>2. \A d \in Clients : /\ current' # FreeReq(d, b) /\ current' # AllocReq(d, b)
                             /\ current = FreeReq(d, b) => d = c /\ b = x
      BY <1>3, <1>4, RequestsDiffer
    <2>3. CASE b = x
      <3>1. holds[c][b] <= 1 /\ \A d \in Clients \ {c} : holds[d][b] = 0
        BY <1>3, <2>1, <2>3 DEF OnePlace
      <3>2. \A d \in Clients : holds'[d][b] = 0
        BY <1>5, <2>1, <2>3, <3>1
      <3> QED
        BY <2>2, <3>2 DEF OnePlace
    <2>4. CASE b # x
      <3>1. \A d \in Clients : holds'[d][b] = holds[d][b]
        BY <1>5, <2>4
      <3> QED
        BY <1>4, <2>1, <2>2, <2>4, <3>1 DEF OnePlace
    <2> QED
      BY <2>3, <2>4
  <1>8. Ordered(free_blocks')
    BY <1>1, <1>4
  <1> QED
    BY <1>4, <1>6, <1>7, <1>8 DEF RamdiskInv

LEMMA FreeWorkInv ==
  ASSUME RamdiskInv, FreeWork
  PROVE  RamdiskInv'
  <1>1. TypeOK /\ current = None /\ freeq # <<>> /\ freeq \in Seq(Blocks)
    BY DEF RamdiskInv, FreeWork, TypeOK
  <1>2. PICK x \in Blocks : x = Head(freeq) /\ x \in ToSet(freeq)
    BY <1>1, QueueEntries
  <1>3. freeq' \in Seq(Blocks) /\ ToSet(freeq') \subseteq ToSet(freeq)
    BY <1>1, QueueEntries DEF FreeWork
  <1>4. /\ Ordered(free_blocks') /\ free_blocks' \in Seq(Node) /\ corrupt' \in BOOLEAN
        /\ FreeBlocks(free_blocks') \subseteq FreeBlocks(free_blocks) \cup {x}
    BY <1>2, ReleaseKeeps DEF FreeWork
  <1>5. UNCHANGED <<current, live, holds, sender, sent>>
    BY DEF FreeWork
  <1>6. TypeOK'
    BY <1>1, <1>3, <1>4, <1>5 DEF TypeOK
  <1>7. ASSUME NEW b \in Blocks \ sent
        PROVE  OnePlace(b)'
    <2>1. OnePlace(b) /\ \A d \in Clients : holds[d][b] \in Nat
      BY <1>1 DEF RamdiskInv, TypeOK
    <2>2. \A d \in Clients : current # FreeReq(d, b) /\ current # AllocReq(d, b)
      BY <1>1, RequestsDiffer
    <2>3. \A d \in Clients : holds[d][b] > 0 => b \notin FreeBlocks(free_blocks')
      BY <1>2, <1>4, <2>1, <2>2 DEF OnePlace
    <2> QED
      BY <1>3, <1>5, <2>1, <2>2, <2>3 DEF OnePlace
  <1> QED
    BY <1>4, <1>5, <1>6, <1>7 DEF RamdiskInv

LEMMA DestroyInv ==
  ASSUME RamdiskInv, NEW c \in Clients, Destroy(c)
  PROVE  RamdiskInv'
  <1>1. TypeOK /\ Ordered(free_blocks) /\ freeq \in Seq(Blocks)
        /\ holds \in [Clients -> [Blocks -> Nat]]
    BY DEF RamdiskInv, TypeOK
  <1>2. PICK q \in SetToSeqs(Held(c)) : freeq' = freeq \o q
    BY DEF Destroy
  <1>3. q \in Seq(Blocks) /\ ToSet(q) \subseteq Held(c)
    BY HeldInOrder
  <1>4. freeq' \in Seq(Blocks) /\ ToSet(freeq') \subseteq ToSet(freeq) \cup Held(c)
    BY <1>1, <1>2, <1>3, QueueEntries
  <1>5. /\ holds' \in [Clients -> [Blocks -> Nat]]
        /\ \A b \in Blocks : holds'[c][b] = 0
        /\ \A d \in Clients \ {c}, b \in Blocks : holds'[d][b] = holds[d][b]
    BY <1>1 DEF Destroy
  <1>6. UNCHANGED <<free_blocks, corrupt, current, sender, sent>> /\ live' \subseteq live
    BY DEF Destroy
  <1>7. TypeOK'
    BY <1>1, <1>4, <1>5, <1>6 DEF TypeOK
  <1>8. ASSUME NEW b \in Blocks \ sent
        PROVE  OnePlace(b)'
    <2>1. OnePlace(b) /\ \A d \in Clients : holds[d][b] \in Nat
      BY <1>1 DEF RamdiskInv, TypeOK
    <2>2. b \in ToSet(freeq') => b \in ToSet(freeq) \/ holds[c][b] > 0
      BY <1>4 DEF Held
    <2>3. \A d \in Clients : holds'[d][b] > 0 => d # c /\ holds'[d][b] = holds[d][b]
      BY <1>5
    <2>4. \A d \in Clients : holds[d][b] = 0 => holds'[d][b] = 0
      BY <1>5
    <2>5. \A d \in Clients : holds'[d][b] <= 1
      BY <1>5, <2>1 DEF OnePlace
    <2>6. \A d, e \in Clients : holds'[d][b] > 0 /\ holds'[e][b] > 0 => d = e
      BY <2>1, <2>3 DEF OnePlace
    <2>7. \A d \in Clients : holds'[d][b] > 0 =>
            /\ b \notin ToSet(freeq')
            /\ b \in FreeBlocks(free_blocks) => current = FreeReq(d, b)
      BY <2>1, <2>2, <2>3 DEF OnePlace
    <2>8. \A d \in Clients : current = AllocReq(d, b) =>
            /\ b \notin FreeBlocks(free_blocks) \cup ToSet(freeq')
            /\ \A e \in Clients : holds'[e][b] = 0
      BY <2>1, <2>2, <2>4 DEF OnePlace
    <2>9. \A d \in Clients : current = FreeReq(d, b) =>
            \A e \in Clients \ {d} : holds'[e][b] = 0
      BY <2>1, <2>4 DEF OnePlace
    <2> QED
      BY <1>6, <2>5, <2>6, <2>7, <2>8, <2>9 DEF OnePlace
  <1>9. Ordered(free_blocks')
    BY <1>1, <1>6
  <1> QED
    BY <1>6, <1>7, <1>8, <1>9 DEF RamdiskInv

LEMMA SendCapInv ==
  ASSUME RamdiskInv, NEW c \in Clients, NEW d \in Clients, NEW x \in Blocks,
         SendCap(c, d, x)
  PROVE  RamdiskInv'
  <1>1. TypeOK /\ Ordered(free_blocks)
    BY DEF RamdiskInv
  <1>2. /\ holds' \in [Clients -> [Blocks -> Nat]]
        /\ \A e \in Clients, b \in Blocks : b # x => holds'[e][b] = holds[e][b]
    BY <1>1, AddResourceCounts DEF SendCap
  <1>3. /\ UNCHANGED <<free_blocks, corrupt, current, live, freeq>>
        /\ sent' = sent \cup {x} /\ sender' = c
    BY DEF SendCap
  <1>4. TypeOK'
    BY <1>1, <1>2, <1>3 DEF TypeOK
  <1>5. ASSUME NEW b \in Blocks \ sent'
        PROVE  OnePlace(b)'
    <2>1. OnePlace(b) /\ b # x
      BY <1>3 DEF RamdiskInv
    <2>2. \A e \in Clients : holds'[e][b] = holds[e][b]
      BY <1>2, <2>1
    <2> QED
      BY <1>3, <2>1, <2>2 DEF OnePlace
  <1>6. Ordered(free_blocks')
    BY <1>1, <1>3
  <1> QED
    BY <1>4, <1>5, <1>6 DEF RamdiskInv

LEMMA NextInv == RamdiskInv /\ [Next]_vars => RamdiskInv'
  <1> SUFFICES ASSUME RamdiskInv, [Next]_vars
               PROVE  RamdiskInv'
    OBVIOUS
  <1>1. ASSUME NEW c \in Clients, Alloc(c) PROVE RamdiskInv'
    BY <1>1, AllocInv
  <1>2. ASSUME NEW c \in Clients, Destroy(c) PROVE RamdiskInv'
    BY <1>2, DestroyInv
  <1>3. ASSUME NEW c \in Clients, NEW b \in Blocks, Free(c, b) PROVE RamdiskInv'
    BY <1>3, FreeInv
  <1>4. ASSUME NEW c \in Clients, NEW d \in Clients, NEW b \in Blocks, SendCap(c, d, b)
        PROVE  RamdiskInv'
    BY <1>4, SendCapInv
  <1>5. CASE UNCHANGED vars
    BY <1>5 DEF vars, RamdiskInv, TypeOK, OnePlace
  <1> QED
    BY <1>1, <1>2, <1>3, <1>4, <1>5, GivenInv, RevokedInv, FreeWorkInv DEF Next

LEMMA RamdiskInvariance == Spec => []RamdiskInv
  BY InitInv, NextInv, PTL DEF Spec

-----------------------------------------------------------------------------
(* Results *)

\* Type correctness: in particular alloc_block and free_block never leave a
\* run without blocks or one that starts off the disk.
THEOREM RamdiskTypeCorrect == Spec => []TypeOK
  <1>1. RamdiskInv => TypeOK
    BY DEF RamdiskInv
  <1> QED
    BY <1>1, RamdiskInvariance, PTL

\* The list of free runs stays sorted and merged, in whatever order alloc_block
\* and free_block are called and however often the same block comes back.
THEOREM FreeListOrdered == Spec => []ListOrdered
  <1>1. RamdiskInv => ListOrdered
    <2> SUFFICES ASSUME RamdiskInv, NEW i \in 1 .. Len(free_blocks) - 1
                 PROVE  End(free_blocks[i]) < free_blocks[i + 1].blockno
      BY DEF ListOrdered, End
    <2>1. Ordered(free_blocks) /\ Len(free_blocks) \in Nat
      BY LenProperties DEF RamdiskInv, Ordered
    <2>2. i \in 1 .. Len(free_blocks) /\ i + 1 \in 1 .. Len(free_blocks) /\ i < i + 1
      BY <2>1
    <2> QED
      BY <2>1, <2>2 DEF Ordered
  <1> QED
    BY <1>1, RamdiskInvariance, PTL

\* A block that was never sent belongs to one client, or is free or about to
\* be, for any number of clients, also when one is terminated while the server
\* is serving it.
THEOREM BlocksNotShared == Spec => []NoSharing
  <1>1. RamdiskInv => NoSharing
    <2> SUFFICES ASSUME RamdiskInv, NEW b \in Blocks \ sent, NEW c \in Clients, Holds(c, b)
                 PROVE  /\ b \notin FreeBlocks(free_blocks) \cup ToSet(freeq)
                        /\ \A d \in Clients \ {c} : ~Holds(d, b)
      BY DEF NoSharing
    <2>1. OnePlace(b) /\ \A d \in Clients : holds[d][b] \in Nat
      BY DEF RamdiskInv, TypeOK
    <2>2. \A d \in Clients : Holds(d, b) <=>
            \/ holds[d][b] > 0 /\ current # FreeReq(d, b)
            \/ current = AllocReq(d, b)
      BY DEF Holds, FreeReq, AllocReq
    <2>3. \A d \in Clients : current = AllocReq(c, b) /\ current = AllocReq(d, b) => c = d
      BY RequestsDiffer
    <2> QED
      BY <2>1, <2>2, <2>3 DEF OnePlace
  <1> QED
    BY <1>1, RamdiskInvariance, PTL

=============================================================================
