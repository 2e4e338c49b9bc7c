--------------------------- MODULE RdeTable_proofs ---------------------------
(***************************************************************************)
(* Proofs that the RDE tables keep their invariant and implement the       *)
(* abstract directory, for any PDs, any spaces and any length of a row.    *)
(***************************************************************************)
EXTENDS RdeTable, TLAPS

\* The inductive invariant.  An entry that is not in use holds no id, so a
\* lookup by id finds only entries in use; no PD has two entries for a space,
\* so clearing one entry removes the space; and entries and endpoints are of
\* spaces that exist, so a new space has none.
RdeInv == TypeOK /\ HolesHaveNoSpace /\ NoDuplicates /\ NoStaleDirectory

-----------------------------------------------------------------------------
(* The row *)

\* With no two entries for a space, pd_remove_rde removes every entry that
\* matches, although it stops at the first one.
LEMMA RemovesAll ==
  ASSUME RdeInv, NEW p \in PDs, NEW id \in Ids, NEW i \in Slots
  PROVE  Removes(p, id, i) <=> rde[p][i].type /\ (id = Null \/ rde[p][i].space_id = id)
<1>1. \A j \in Slots : j < i /\ rde[p][i].type => rde[p][j] # rde[p][i]
  BY DEF RdeInv, NoDuplicates, Slots
<1> QED
  BY <1>1 DEF Removes

\* Filling a hole of row p with space s.
LEMMA FillNames ==
  ASSUME RdeInv, NEW p \in PDs, NEW s \in Spaces, NEW i \in Slots,
         CanFill(p, s, i),
         rde' = [rde EXCEPT ![p][i] = [space_id |-> s, type |-> TRUE]]
  PROVE  /\ rde' \in [PDs -> [Slots -> Entry]]
         /\ \A q \in PDs \ {p} : rde'[q] = rde[q]
         /\ \A j \in Slots \ {i} : rde'[p][j] = rde[p][j]
         /\ rde'[p][i] = [space_id |-> s, type |-> TRUE]
         /\ [q \in PDs |-> Named(q)]'
              = [[q \in PDs |-> Named(q)] EXCEPT ![p] = @ \cup {s}]
<1>1. rde \in [PDs -> [Slots -> Entry]] /\ ~rde[p][i].type
  BY DEF RdeInv, TypeOK, CanFill
<1>2. /\ rde' \in [PDs -> [Slots -> Entry]]
      /\ \A q \in PDs \ {p} : rde'[q] = rde[q]
      /\ \A j \in Slots \ {i} : rde'[p][j] = rde[p][j]
      /\ rde'[p][i] = [space_id |-> s, type |-> TRUE]
  BY <1>1 DEF Entry
<1>3. \A q \in PDs \ {p} : Named(q)' = Named(q)
  BY <1>2 DEF Named
<1>4. Named(p)' = Named(p) \cup {s}
  BY <1>1, <1>2 DEF Named
<1> QED
  BY <1>2, <1>3, <1>4

\* pd_add_rde keeps the invariant, when the PD has no entry for the space.
LEMMA FillInv ==
  ASSUME RdeInv, NEW p \in PDs, NEW s \in Spaces,
         s \notin Named(p), s \in spaces',
         spaces \subseteq spaces', spaces' \subseteq Spaces,
         Fill(p, s)
  PROVE  /\ rde' \in [PDs -> [Slots -> Entry]] /\ caps' \in [PDs -> SUBSET Spaces]
         /\ HolesHaveNoSpace' /\ NoDuplicates' /\ NoStaleDirectory'
         /\ [q \in PDs |-> Named(q)]'
              = [[q \in PDs |-> Named(q)] EXCEPT ![p] = @ \cup {s}]
<1>1. PICK i \in Slots :
        /\ CanFill(p, s, i)
        /\ rde' = [rde EXCEPT ![p][i] = [space_id |-> s, type |-> TRUE]]
        /\ \/ caps' = [caps EXCEPT ![p] = @ \cup {s}]
           \/ MintMayFail /\ UNCHANGED caps
  BY DEF Fill
<1>2. /\ rde' \in [PDs -> [Slots -> Entry]]
      /\ \A q \in PDs \ {p} : rde'[q] = rde[q]
      /\ \A j \in Slots \ {i} : rde'[p][j] = rde[p][j]
      /\ rde'[p][i] = [space_id |-> s, type |-> TRUE]
      /\ [q \in PDs |-> Named(q)]'
           = [[q \in PDs |-> Named(q)] EXCEPT ![p] = @ \cup {s}]
  BY <1>1, FillNames
<1>3. \A q \in PDs : Named(q)' = IF q = p THEN Named(q) \cup {s} ELSE Named(q)
  BY <1>2
<1>4. caps' \in [PDs -> SUBSET Spaces]
  BY <1>1 DEF RdeInv, TypeOK
<1>5. HolesHaveNoSpace'
  BY <1>2 DEF RdeInv, HolesHaveNoSpace
<1>6. NoDuplicates'
  <2> SUFFICES ASSUME NEW q \in PDs, NEW j \in Slots, NEW k \in Slots,
                      rde'[q][j].type, rde'[q][j] = rde'[q][k]
               PROVE  j = k
    BY DEF NoDuplicates
  <2>1. CASE q # p
    BY <2>1, <1>2 DEF RdeInv, NoDuplicates
  <2>2. CASE q = p /\ j # i /\ k # i
    BY <2>2, <1>2 DEF RdeInv, NoDuplicates
  <2>3. CASE q = p /\ (j = i \/ k = i)
    <3>1. \A l \in Slots : rde[p][l].type => rde[p][l].space_id # s
      BY DEF Named
    <3> QED
      BY <2>3, <3>1, <1>2
  <2> QED
    BY <2>1, <2>2, <2>3
<1>7. NoStaleDirectory'
  <2>1. \A q \in PDs : caps'[q] \subseteq IF q = p THEN caps[q] \cup {s} ELSE caps[q]
    BY <1>1 DEF RdeInv, TypeOK
  <2> QED
    BY <2>1, <1>1, <1>3 DEF RdeInv, NoStaleDirectory, TypeOK
<1> QED
  BY <1>2, <1>4, <1>5, <1>6, <1>7

\* An entry that the target can take over from the caller: its space exists
\* and the target has no entry for it.
LEMMA ShareAddsNew ==
  ASSUME RdeInv, NEW c \in PDs, NEW t \in PDs, NEW id \in Ids, NEW i \in Slots,
         ShareAdds(c, t, id, i)
  PROVE  /\ rde[c][i].space_id \in Spaces \cap spaces
         /\ rde[c][i].space_id \in Named(c)
         /\ rde[c][i].space_id \notin Named(t)
<1> DEFINE s == rde[c][i].space_id
<1>1. s \in spaces /\ s \in Spaces
  BY DEF ShareAdds, RdeInv, TypeOK
<1>2. rde[c][i].type
  BY <1>1 DEF RdeInv, HolesHaveNoSpace
<1>3. s \in Named(c)
  BY <1>2 DEF Named
<1>4. s \notin Named(t)
  <2>1. CASE id = Null
    BY <2>1 DEF ShareAdds, Has, Matches, Named
  <2>2. CASE id # Null
    <3>1. s = id
      BY <2>2 DEF ShareAdds, Found, Matches
    <3> QED
      BY <2>2, <3>1 DEF ShareAdds, Has, Matches, Named
  <2> QED
    BY <2>1, <2>2
<1> QED
  BY <1>1, <1>3, <1>4

\* The row of q with the entries at R cleared.
Cleared(q, R) == [i \in Slots |-> IF i \in R THEN ClearEntry ELSE rde[q][i]]

\* Clearing entries in place leaves a well-formed row, which names what the
\* entries that are kept name.
LEMMA ClearInv ==
  ASSUME RdeInv, NEW q \in PDs, NEW R \in SUBSET Slots,
         \A i \in R : rde[q][i].type
  PROVE  /\ Cleared(q, R) \in [Slots -> Entry]
         /\ \A i \in Slots : Cleared(q, R)[i].type <=> Cleared(q, R)[i].space_id \in Spaces
         /\ \A i, j \in Slots :
              Cleared(q, R)[i].type /\ Cleared(q, R)[i] = Cleared(q, R)[j] => i = j
         /\ {Cleared(q, R)[i].space_id : i \in {j \in Slots : Cleared(q, R)[j].type}}
              = Named(q) \ {rde[q][i].space_id : i \in R}
<1> DEFINE row == Cleared(q, R)
<1>0. row = [i \in Slots |-> IF i \in R THEN ClearEntry ELSE rde[q][i]]
  BY DEF Cleared
<1> HIDE DEF row
<1>1. rde[q] \in [Slots -> Entry]
  BY DEF RdeInv, TypeOK
<1>2. ClearEntry \in Entry /\ ~ClearEntry.type /\ ClearEntry.space_id \notin Spaces
  BY RdeAssumption DEF ClearEntry, Entry
<1>3. row \in [Slots -> Entry]
  BY <1>0, <1>1, <1>2
<1>4. \A i \in Slots : row[i].type <=> row[i].space_id \in Spaces
  BY <1>0, <1>2 DEF RdeInv, HolesHaveNoSpace
<1>5. \A i \in Slots : row[i].type => i \notin R /\ row[i] = rde[q][i]
  BY <1>0, <1>2
<1>6. ASSUME NEW i \in Slots, NEW j \in Slots, row[i].type, row[i] = row[j]
      PROVE  i = j
  <2>1. row[j].type
    BY <1>6
  <2> QED
    BY <1>5, <1>6, <2>1 DEF RdeInv, NoDuplicates
<1>7. ASSUME NEW i \in Slots, NEW j \in R, row[i].type
      PROVE  row[i].space_id # rde[q][j].space_id
  <2>1. i \notin R /\ row[i] = rde[q][i] /\ rde[q][i].type /\ rde[q][j].type
    BY <1>5, <1>7
  <2>2. SUFFICES ASSUME rde[q][i].space_id = rde[q][j].space_id  PROVE FALSE
    BY <2>1
  <2>3. rde[q][i] = rde[q][j]
    BY <1>1, <2>1, <2>2 DEF Entry
  <2> QED
    BY <2>1, <2>3 DEF RdeInv, NoDuplicates
<1>8. {row[i].space_id : i \in {j \in Slots : row[j].type}}
        = Named(q) \ {rde[q][i].space_id : i \in R}
  <2>1. {row[i].space_id : i \in {j \in Slots : row[j].type}}
          \subseteq Named(q) \ {rde[q][i].space_id : i \in R}
    BY <1>5, <1>7 DEF Named
  <2>2. \A i \in Slots \ R : row[i] = rde[q][i]
    BY <1>0
  <2>3. Named(q) \ {rde[q][i].space_id : i \in R}
          \subseteq {row[i].space_id : i \in {j \in Slots : row[j].type}}
    BY <2>2 DEF Named
  <2> QED
    BY <2>1, <2>3
<1> QED
  BY <1>3, <1>4, <1>6, <1>8 DEF row

-----------------------------------------------------------------------------
(* The invariant *)

LEMMA InitInv ==
  ASSUME Init
  PROVE  RdeInv /\ D!DInit
<1>1. NewEntry \in Entry /\ ~NewEntry.type /\ NewEntry.space_id \notin Spaces
  BY RdeAssumption DEF NewEntry, Entry
<1>2. /\ rde \in [PDs -> [Slots -> Entry]]
      /\ \A p \in PDs : \A i \in Slots : rde[p][i] = NewEntry
  BY <1>1 DEF Init, NewRow
<1>3. \A p \in PDs : Named(p) = {}
  BY <1>1, <1>2 DEF Named
<1>4. TypeOK
  BY <1>2 DEF Init, TypeOK
<1>5. HolesHaveNoSpace /\ NoDuplicates
  BY <1>1, <1>2 DEF HolesHaveNoSpace, NoDuplicates
<1>6. NoStaleDirectory
  BY <1>3 DEF Init, NoStaleDirectory
<1> QED
  BY <1>3, <1>4, <1>5, <1>6 DEF RdeInv, Init, D!DInit

\* Every step keeps the invariant and is a step of the abstract directory.
LEMMA NewPdStep ==
  ASSUME RdeInv, NEW p \in PDs, NewPd(p)
  PROVE  RdeInv' /\ D!Create(p)
<1>1. NewEntry \in Entry /\ ~NewEntry.type /\ NewEntry.space_id \notin Spaces
  BY RdeAssumption DEF NewEntry, Entry
<1>2. /\ rde' \in [PDs -> [Slots -> Entry]]
      /\ \A q \in PDs \ {p} : rde'[q] = rde[q]
      /\ \A i \in Slots : rde'[p][i] = NewEntry
  BY <1>1 DEF NewPd, NewRow, RdeInv, TypeOK
<1>3. Named(p)' = {} /\ \A q \in PDs \ {p} : Named(q)' = Named(q)
  BY <1>1, <1>2 DEF Named
<1>4. TypeOK'
  BY <1>2 DEF NewPd, RdeInv, TypeOK
<1>5. HolesHaveNoSpace' /\ NoDuplicates'
  BY <1>1, <1>2 DEF RdeInv, HolesHaveNoSpace, NoDuplicates
<1>6. NoStaleDirectory'
  <2>1. caps'[p] = {} /\ \A q \in PDs \ {p} : caps'[q] = caps[q]
    BY DEF NewPd, RdeInv, TypeOK
  <2> QED
    BY <1>3, <2>1 DEF NewPd, RdeInv, NoStaleDirectory
<1>7. D!Create(p)
  BY <1>3 DEF NewPd, D!Create
<1> QED
  BY <1>4, <1>5, <1>6, <1>7 DEF RdeInv

LEMMA AllocSpaceStep ==
  ASSUME RdeInv, NEW p \in PDs, NEW s \in Spaces, AllocSpace(p, s)
  PROVE  RdeInv' /\ D!Open(p, s)
<1>1. /\ p \in live /\ s \notin spaces /\ spaces' = spaces \cup {s}
      /\ told' = <<>> /\ live' = live
  BY DEF AllocSpace
<1>2. CASE Fill(p, s)
  <2>1. s \notin Named(p)
    BY <1>1 DEF RdeInv, NoStaleDirectory
  <2>2. spaces' \subseteq Spaces
    BY <1>1 DEF RdeInv, TypeOK
  <2>3. /\ rde' \in [PDs -> [Slots -> Entry]] /\ caps' \in [PDs -> SUBSET Spaces]
        /\ HolesHaveNoSpace' /\ NoDuplicates' /\ NoStaleDirectory'
        /\ [q \in PDs |-> Named(q)]'
              = [[q \in PDs |-> Named(q)] EXCEPT ![p] = @ \cup {s}]
    BY <1>1, <1>2, <2>1, <2>2, FillInv
  <2>4. TypeOK'
    BY <1>1, <2>2, <2>3 DEF RdeInv, TypeOK
  <2>5. D!Open(p, s)
    BY <1>1, <2>3 DEF D!Open
  <2> QED
    BY <2>3, <2>4, <2>5 DEF RdeInv
<1>3. CASE UNCHANGED <<rde, caps>>
  <2>1. \A q \in PDs : Named(q)' = Named(q)
    BY <1>3 DEF Named
  <2>2. TypeOK' /\ HolesHaveNoSpace' /\ NoDuplicates' /\ NoStaleDirectory'
    BY <1>1, <1>3, <2>1 DEF RdeInv, TypeOK, HolesHaveNoSpace, NoDuplicates, NoStaleDirectory
  <2>3. D!Open(p, s)
    BY <1>1, <2>1 DEF D!Open
  <2> QED
    BY <2>2, <2>3 DEF RdeInv
<1> QED
  BY <1>2, <1>3 DEF AllocSpace

LEMMA ShareRdeStep ==
  ASSUME RdeInv, NEW c \in PDs, NEW t \in PDs, NEW id \in Ids, ShareRde(c, t, id)
  PROVE  RdeInv' /\ ((\E s \in Spaces : D!Grant(c, t, s)) \/ UNCHANGED D!dirVars)
<1>1. /\ {c, t} \subseteq live /\ UNCHANGED <<live, spaces>>
      /\ told' \in (PDs \X PDs \X Ids) \cup {<<>>}
  BY DEF ShareRde
<1>2. ASSUME NEW i \in Slots, ShareAdds(c, t, id, i), Fill(t, rde[c][i].space_id)
      PROVE  RdeInv' /\ \E s \in Spaces : D!Grant(c, t, s)
  <2> DEFINE s == rde[c][i].space_id
  <2>1. s \in Spaces \cap spaces /\ s \in Named(c) /\ s \notin Named(t)
    BY <1>2, ShareAddsNew
  <2>2. spaces' = spaces /\ spaces \subseteq Spaces
    BY <1>1 DEF RdeInv, TypeOK
  <2>3. Fill(t, s)
    BY <1>2
  <2> HIDE DEF s
  <2>4. /\ rde' \in [PDs -> [Slots -> Entry]] /\ caps' \in [PDs -> SUBSET Spaces]
        /\ HolesHaveNoSpace' /\ NoDuplicates' /\ NoStaleDirectory'
        /\ [q \in PDs |-> Named(q)]'
              = [[q \in PDs |-> Named(q)] EXCEPT ![t] = @ \cup {s}]
    BY <2>1, <2>2, <2>3, FillInv
  <2>5. TypeOK'
    BY <1>1, <2>4 DEF RdeInv, TypeOK
  <2>6. D!Grant(c, t, s)
    BY <1>1, <2>1, <2>4 DEF D!Grant
  <2> QED
    BY <2>1, <2>4, <2>5, <2>6 DEF RdeInv
<1>3. CASE UNCHANGED <<rde, caps>>
  <2>1. \A q \in PDs : Named(q)' = Named(q)
    BY <1>3 DEF Named
  <2>2. TypeOK' /\ HolesHaveNoSpace' /\ NoDuplicates' /\ NoStaleDirectory'
    BY <1>1, <1>3, <2>1 DEF RdeInv, TypeOK, HolesHaveNoSpace, NoDuplicates, NoStaleDirectory
  <2>3. UNCHANGED D!dirVars
    BY <1>1, <2>1 DEF D!dirVars
  <2> QED
    BY <2>2, <2>3 DEF RdeInv
<1> QED
  BY <1>2, <1>3 DEF ShareRde

LEMMA RemoveRdeStep ==
  ASSUME RdeInv, NEW t \in PDs, NEW id \in Ids, RemoveRde(t, id)
  PROVE  RdeInv' /\ \E S \in SUBSET Spaces : D!Withdraw(t, S)
<1> DEFINE R == {i \in Slots : Removes(t, id, i)}
           row == rde'[t]
           S == {rde[t][i].space_id : i \in R}
<1>1. /\ t \in live /\ UNCHANGED <<live, spaces>> /\ told' = <<>>
      /\ rde' = [rde EXCEPT ![t] = Clear(rde[t], t, id)]
      /\ caps' = [caps EXCEPT ![t] = @ \ RemovedIds(t, id)]
  BY DEF RemoveRde
<1>2. row = Cleared(t, R)
  BY <1>1 DEF Clear, Cleared, RdeInv, TypeOK
<1>3. \A i \in R : rde[t][i].type
  BY DEF Removes
<1>4. S = RemovedIds(t, id) /\ S \subseteq Spaces
  BY <1>3 DEF RemovedIds, RdeInv, HolesHaveNoSpace
<1>5. R \in SUBSET Slots
  OBVIOUS
<1> HIDE DEF R, row
<1>6. /\ row \in [Slots -> Entry]
      /\ \A i \in Slots : row[i].type <=> row[i].space_id \in Spaces
      /\ \A i, j \in Slots : row[i].type /\ row[i] = row[j] => i = j
      /\ {row[i].space_id : i \in {j \in Slots : row[j].type}} = Named(t) \ S
  BY <1>2, <1>3, <1>5, ClearInv
<1> USE DEF row
<1>7. \A q \in PDs \ {t} : rde'[q] = rde[q]
  BY <1>1 DEF RdeInv, TypeOK
<1>8. Named(t)' = Named(t) \ S
  BY <1>6 DEF Named
<1>9. \A q \in PDs \ {t} : Named(q)' = Named(q)
  BY <1>7 DEF Named
<1>10. TypeOK'
  <2>1. rde' \in [PDs -> [Slots -> Entry]]
    <3>1. rde' \in [PDs -> [Slots -> Entry]] \/ DOMAIN rde' = PDs
      BY <1>1 DEF RdeInv, TypeOK
    <3> QED
      BY <1>1, <1>6, <1>7, <3>1 DEF RdeInv, TypeOK
  <2> QED
    BY <1>1, <2>1 DEF RdeInv, TypeOK
<1>11. HolesHaveNoSpace' /\ NoDuplicates'
  BY <1>6, <1>7 DEF RdeInv, HolesHaveNoSpace, NoDuplicates
<1>12. NoStaleDirectory'
  <2>1. caps'[t] = caps[t] \ S /\ \A q \in PDs \ {t} : caps'[q] = caps[q]
    BY <1>1, <1>4 DEF RdeInv, TypeOK
  <2> QED
    BY <1>1, <1>8, <1>9, <2>1 DEF RdeInv, NoStaleDirectory
<1>13. D!Withdraw(t, S)
  BY <1>1, <1>8, <1>9 DEF D!Withdraw
<1> QED
  BY <1>4, <1>10, <1>11, <1>12, <1>13 DEF RdeInv

LEMMA CleanupSpacesStep ==
  ASSUME RdeInv, NEW S \in SUBSET Spaces, NEW P \in SUBSET PDs, CleanupSpaces(S, P)
  PROVE  RdeInv' /\ D!Close(S, P)
<1>1. /\ live' = live \ P /\ spaces' = spaces \ S /\ told' = <<>>
      /\ rde' = [p \in PDs |-> IF p \in P THEN NewRow ELSE RowWithout(p, S)]
      /\ caps' = [p \in PDs |-> IF p \in P THEN {}
                                ELSE caps[p] \ UNION {RemovedIds(p, s) : s \in S}]
  BY DEF CleanupSpaces
<1>2. NewEntry \in Entry /\ ~NewEntry.type /\ NewEntry.space_id \notin Spaces
  BY RdeAssumption DEF NewEntry, Entry
<1>3. ASSUME NEW p \in P
      PROVE  /\ rde'[p] \in [Slots -> Entry]
             /\ \A i \in Slots : rde'[p][i].type <=> rde'[p][i].space_id \in Spaces
             /\ \A i, j \in Slots : rde'[p][i].type /\ rde'[p][i] = rde'[p][j] => i = j
             /\ Named(p)' = {} /\ caps'[p] = {}
  <2>1. rde'[p] = [i \in Slots |-> NewEntry] /\ caps'[p] = {}
    BY <1>1, <1>3 DEF NewRow
  <2>2. Named(p)' = {}
    BY <1>2, <2>1 DEF Named
  <2> QED
    BY <1>2, <2>1, <2>2
<1>4. ASSUME NEW p \in PDs \ P
      PROVE  /\ rde'[p] \in [Slots -> Entry]
             /\ \A i \in Slots : rde'[p][i].type <=> rde'[p][i].space_id \in Spaces
             /\ \A i, j \in Slots : rde'[p][i].type /\ rde'[p][i] = rde'[p][j] => i = j
             /\ Named(p)' = Named(p) \ S /\ caps'[p] \subseteq Named(p)'
             /\ caps'[p] \in SUBSET Spaces
  <2> DEFINE R == {i \in Slots : \E s \in S : Removes(p, s, i)}
             row == rde'[p]
  <2>1. row = Cleared(p, R)
    BY <1>1, <1>4 DEF RowWithout, Cleared
  <2>2. R = {i \in Slots : rde[p][i].type /\ rde[p][i].space_id \in S}
    <3>1. \A i \in Slots, s \in S : Removes(p, s, i) <=> rde[p][i].type /\ rde[p][i].space_id = s
      <4>1. \A s \in S : s \in Ids /\ s # Null
        BY RdeAssumption DEF Ids
      <4> QED
        BY <1>4, <4>1, RemovesAll
    <3> QED
      BY <3>1
  <2>3. R \in SUBSET Slots /\ \A i \in R : rde[p][i].type
    BY <2>2
  <2>4. {rde[p][i].space_id : i \in R} = Named(p) \cap S
    BY <2>2 DEF Named
  <2>5. UNION {RemovedIds(p, s) : s \in S} = {rde[p][i].space_id : i \in R}
    BY DEF RemovedIds
  <2>0. p \in PDs
    BY <1>4
  <2> HIDE DEF R, row
  <2>6. /\ row \in [Slots -> Entry]
        /\ \A i \in Slots : row[i].type <=> row[i].space_id \in Spaces
        /\ \A i, j \in Slots : row[i].type /\ row[i] = row[j] => i = j
        /\ {row[i].space_id : i \in {j \in Slots : row[j].type}}
             = Named(p) \ {rde[p][i].space_id : i \in R}
    <3>1. \A Q \in SUBSET Slots : (\A i \in Q : rde[p][i].type) =>
            /\ Cleared(p, Q) \in [Slots -> Entry]
            /\ \A i \in Slots : Cleared(p, Q)[i].type <=> Cleared(p, Q)[i].space_id \in Spaces
            /\ \A i, j \in Slots :
                 Cleared(p, Q)[i].type /\ Cleared(p, Q)[i] = Cleared(p, Q)[j] => i = j
            /\ {Cleared(p, Q)[i].space_id : i \in {j \in Slots : Cleared(p, Q)[j].type}}
                 = Named(p) \ {rde[p][i].space_id : i \in Q}
      BY <2>0, ClearInv
    <3> QED
      BY <2>1, <2>3, <3>1
  <2> USE DEF row
  <2>7. Named(p)' = Named(p) \ S
    BY <2>4, <2>6 DEF Named
  <2>8. caps'[p] = caps[p] \ (Named(p) \cap S)
    BY <1>1, <1>4, <2>4, <2>5
  <2>9. caps[p] \subseteq Named(p) /\ caps[p] \subseteq Spaces
    BY <1>4 DEF RdeInv, NoStaleDirectory, TypeOK
  <2> QED
    BY <2>6, <2>7, <2>8, <2>9
<1>5. rde' \in [PDs -> [Slots -> Entry]] /\ caps' \in [PDs -> SUBSET Spaces]
  <2>1. \A p \in PDs : rde'[p] \in [Slots -> Entry] /\ caps'[p] \in SUBSET Spaces
    BY <1>3, <1>4
  <2> QED
    BY <1>1, <2>1
<1>6. TypeOK'
  BY <1>1, <1>5 DEF RdeInv, TypeOK
<1>7. HolesHaveNoSpace' /\ NoDuplicates'
  BY <1>3, <1>4 DEF HolesHaveNoSpace, NoDuplicates
<1>8. \A p \in PDs : Named(p)' = IF p \in P THEN {} ELSE Named(p) \ S
  BY <1>3, <1>4
<1>9. NoStaleDirectory'
  <2>1. \A p \in PDs : caps'[p] \subseteq Named(p)'
    BY <1>3, <1>4
  <2>2. \A p \in PDs : Named(p)' \subseteq spaces'
    BY <1>1, <1>8 DEF RdeInv, NoStaleDirectory
  <2> QED
    BY <2>1, <2>2 DEF NoStaleDirectory
<1>10. D!Close(S, P)
  BY <1>1, <1>8 DEF D!Close
<1> QED
  BY <1>6, <1>7, <1>9, <1>10 DEF RdeInv

LEMMA NextStep ==
  ASSUME RdeInv, [Next]_vars
  PROVE  RdeInv' /\ [D!DNext]_D!dirVars
<1>1. CASE UNCHANGED vars
  <2>1. \A q \in PDs : Named(q)' = Named(q)
    BY <1>1 DEF Named, vars
  <2> QED
    BY <1>1, <2>1 DEF vars, D!dirVars, RdeInv, TypeOK, HolesHaveNoSpace, NoDuplicates,
                      NoStaleDirectory
<1>2. ASSUME NEW p \in PDs, NewPd(p)  PROVE RdeInv' /\ D!DNext
  BY <1>2, NewPdStep DEF D!DNext
<1>3. ASSUME NEW p \in PDs, NEW s \in Spaces, AllocSpace(p, s)  PROVE RdeInv' /\ D!DNext
  BY <1>3, AllocSpaceStep DEF D!DNext
<1>4. ASSUME NEW c \in PDs, NEW t \in PDs, NEW id \in Ids, ShareRde(c, t, id)
      PROVE  RdeInv' /\ [D!DNext]_D!dirVars
  BY <1>4, ShareRdeStep DEF D!DNext
<1>5. ASSUME NEW t \in PDs, NEW id \in Ids, RemoveRde(t, id)  PROVE RdeInv' /\ D!DNext
  BY <1>5, RemoveRdeStep DEF D!DNext
<1>6. ASSUME NEW S \in SUBSET Spaces, NEW P \in SUBSET PDs, CleanupSpaces(S, P)
      PROVE  RdeInv' /\ D!DNext
  BY <1>6, CleanupSpacesStep DEF D!DNext
<1> QED
  BY <1>1, <1>2, <1>3, <1>4, <1>5, <1>6 DEF Next

-----------------------------------------------------------------------------
(* The results *)

\* The inductive invariant holds in every reachable state.
LEMMA RdeInvariance == Spec => []RdeInv
<1>1. Init => RdeInv
  BY InitInv
<1>2. RdeInv /\ [Next]_vars => RdeInv'
  BY NextStep
<1> QED
  BY <1>1, <1>2, PTL DEF Spec

\* Rows, endpoints and registries keep their types: a row never grows, and an
\* entry never names what is not a space.
THEOREM RdeTypeCorrect == Spec => []TypeOK
<1>1. RdeInv => TypeOK
  BY DEF RdeInv
<1> QED
  BY <1>1, RdeInvariance, PTL

\* A PD has at most one entry for a space, although pd_add_rde stops at the
\* first hole without looking at the rest of the row.
THEOREM RdeNoDuplicates == Spec => []NoDuplicates
<1>1. RdeInv => NoDuplicates
  BY DEF RdeInv
<1> QED
  BY <1>1, RdeInvariance, PTL

\* No entry outlives the space it is for, and no endpoint the entry, although
\* pd_remove_rde stops at the first entry it finds.
THEOREM RdeTablesSound == Spec => []NoStaleDirectory
<1>1. RdeInv => NoStaleDirectory
  BY DEF RdeInv
<1> QED
  BY <1>1, RdeInvariance, PTL

\* The tables implement the abstract directory: every request is a step of
\* Directory, or leaves the directories as they are.
THEOREM RdeTableImplementsDirectory == Spec => ImplementsDirectory
<1>1. Init => RdeInv /\ D!DInit
  BY InitInv
<1>2. RdeInv /\ [Next]_vars => RdeInv' /\ [D!DNext]_D!dirVars
  BY NextStep
<1> QED
  BY <1>1, <1>2, PTL DEF Spec, ImplementsDirectory, D!DSpec
=============================================================================
