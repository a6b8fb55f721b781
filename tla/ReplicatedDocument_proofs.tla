--------------------- MODULE ReplicatedDocument_proofs ---------------------
(***************************************************************************)
(* Proofs about ReplicatedDocument for any number of replicas and sites.   *)
(*                                                                         *)
(* The argument. Every replica's list is well placed (RGA_proofs), which   *)
(* applyInsert keeps because no UID is drawn twice and a character's UID   *)
(* is above its anchor's (ClocksDominate). Two well-placed lists agree on  *)
(* the order of any two characters, and are one list when they hold the    *)
(* same.                                                                   *)
(***************************************************************************)
EXTENDS ReplicatedDocument, RGA_proofs

----------------------------------------------------------------------------
(* The lemmas about well-placed lists, for this document's UIDs. *)

Uids == UID(Sites)

InsertOps == [type : {"INSERT"}, uid : Uids, after : Uids \cup {Root}]

\* The sites' UIDs are UIDs.
LEMMA UidsAreUids ==
  /\ Uids \subseteq AllUids /\ InsertOps \subseteq AllInserts
  /\ \A L \in Seq(Uids) : L \in Seq(AllUids)
<1>1. Uids \subseteq AllUids
  BY SitesAssumption DEF Uids, AllUids, UID
<1>2. QED
  BY <1>1, SeqOfMembers DEF InsertOps, AllInserts

\* The parts of one.
LEMMA UidParts ==
  ASSUME NEW u \in Uids \cup {Root}
  PROVE  /\ u.clock \in Nat /\ u.site \in Nat
         /\ u = [clock |-> u.clock, site |-> u.site]
         /\ u \in Uids <=> u.site \in Sites
<1>1. CASE u \in Uids
  BY <1>1, SitesAssumption DEF Uids, UID
<1>2. CASE u = Root
  BY <1>2, SitesAssumption DEF Root, Uids, UID
<1>3. QED BY <1>1, <1>2

\* The root is none of them.
LEMMA RootIsNoUid == Root \notin Uids
BY SitesAssumption DEF Root, Uids, UID

\* applyInsert on lists of this document's UIDs.
LEMMA PlaceProperties ==
  ASSUME NEW L \in Seq(Uids), NEW a \in Uids \cup {Root}, Known(L, a), NEW u \in Uids
  PROVE  LET k == ScanRight(L, Position(L, a), u)
             M == Place(L, a, u)
         IN /\ k \in Position(L, a)..Len(L) /\ k \in 0..Len(L)
            /\ \A j \in (Position(L, a) + 1)..k : Less(u, L[j])
            /\ k < Len(L) => ~Less(u, L[k + 1])
            /\ M \in Seq(Uids) /\ Len(M) = Len(L) + 1
            /\ \A i \in 1..(Len(L) + 1) :
                  M[i] = IF i <= k THEN L[i] ELSE IF i = k + 1 THEN u ELSE L[i - 1]
BY PlaceSplices

\* The scan keeps a list well placed.
LEMMA PlaceKeepsWellPlaced ==
  ASSUME NEW ins \in SUBSET InsertOps, OneOpPerUid(ins),
         NEW L \in Seq(Uids), WellPlaced(L, ins),
         NEW op \in ins, Known(L, op.after), ~Holds(L, op.uid)
  PROVE  WellPlaced(Place(L, op.after, op.uid), ins)
BY UidsAreUids, PlaceKeepsPlaced

\* Well-placed lists have any two characters in the same order,
LEMMA WellPlacedListsAgree ==
  ASSUME NEW ins \in SUBSET InsertOps, OneOpPerUid(ins), AboveAnchors(ins),
         NEW L \in Seq(Uids), WellPlaced(L, ins),
         NEW M \in Seq(Uids), WellPlaced(M, ins)
  PROVE  Agree(L, M)
BY UidsAreUids, PlacedListsAgree

\* and are the same list when they hold the same characters.
LEMMA AgreeingListsAreEqual ==
  ASSUME NEW L \in Seq(Uids), NEW M \in Seq(Uids),
         NoRepeats(L), NoRepeats(M), Agree(L, M), ToSet(L) = ToSet(M)
  PROVE  L = M
BY UidsAreUids, AgreeingAreEqual

----------------------------------------------------------------------------
(* The inductive invariant. *)

\* A site's clock has reached every UID it has drawn.
ClocksCoverOwnUids == \A op \in Inserts : op.uid.clock <= clock[op.uid.site]

ListsWellPlaced == \A r \in Replicas : WellPlaced(list[r], Inserts)

IInv ==
    /\ TypeOK
    /\ UidsUnique
    /\ ClocksDominate
    /\ ClocksCoverOwnUids
    /\ ListsWellPlaced

\* What a splice adds to the set of characters.
LEMMA PlaceElements ==
  ASSUME NEW L \in Seq(Uids), NEW a \in Uids \cup {Root}, Known(L, a), NEW u \in Uids
  PROVE  ToSet(Place(L, a, u)) \subseteq ToSet(L) \cup {u}
<1> DEFINE k == ScanRight(L, Position(L, a), u)
           M == Place(L, a, u)
<1>1. /\ k \in 0..Len(L)
      /\ M \in Seq(Uids) /\ Len(M) = Len(L) + 1
      /\ \A i \in 1..(Len(L) + 1) :
            M[i] = IF i <= k THEN L[i] ELSE IF i = k + 1 THEN u ELSE L[i - 1]
  BY PlaceProperties
<1>2. /\ DOMAIN M = 1..(Len(L) + 1)
      /\ DOMAIN L = 1..Len(L)
      /\ Len(L) \in Nat
  BY <1>1, LenProperties
<1> HIDE DEF k, M
<1>3. \A i \in 1..(Len(L) + 1) : M[i] = u \/ \E j \in 1..Len(L) : M[i] = L[j]
  <2> TAKE i \in 1..(Len(L) + 1)
  <2>1. CASE i <= k
    BY <2>1, <1>1, <1>2
  <2>2. CASE i = k + 1
    BY <2>2, <1>1, <1>2
  <2>3. CASE i > k + 1
    <3>1. i - 1 \in 1..Len(L) /\ M[i] = L[i - 1]
      BY <2>3, <1>1, <1>2
    <3>2. QED BY <3>1
  <2>4. QED BY <2>1, <2>2, <2>3, <1>1, <1>2
<1>4. QED BY <1>2, <1>3 DEF ToSet, M

\* A list does not notice an operation whose UID it does not hold.
LEMMA NewOpKeepsWellPlaced ==
  ASSUME NEW ins, NEW op, NEW L \in Seq(Uids), WellPlaced(L, ins),
         \A i \in 1..Len(L) : L[i] # op.uid
  PROVE  WellPlaced(L, ins \cup {op})
<1>1. Anchored(L, ins \cup {op})
  BY DEF WellPlaced, Anchored
<1>2. Sheltered(L, ins \cup {op})
  BY DEF WellPlaced, Sheltered
<1>3. QED BY <1>1, <1>2 DEF WellPlaced

\* Every held character comes from an operation.
LEMMA HeldIsInserted ==
  ASSUME ListsWellPlaced, TypeOK, NEW r \in Replicas, NEW i \in 1..Len(list[r])
  PROVE  \E op \in Inserts : op.uid = list[r][i]
BY DEF ListsWellPlaced, WellPlaced, Anchored

\* The parts of TypeOK in the form the lemmas above take.
LEMMA TypeParts ==
  ASSUME TypeOK
  PROVE  /\ Inserts \in SUBSET InsertOps
         /\ \A r \in Replicas :
               /\ list[r] \in Seq(Uids)
               /\ tomb[r] \in SUBSET Uids
               /\ ToSet(list[r]) \in SUBSET Uids
               /\ ToSet(list[r]) = {list[r][i] : i \in 1..Len(list[r])}
         /\ \A s \in Sites : s \in Replicas /\ clock[s] \in Nat
<1>1. Inserts \in SUBSET InsertOps
  BY DEF TypeOK, Inserts, InsertOps, Operations, Uids
<1>2. ASSUME NEW r \in Replicas
      PROVE  /\ list[r] \in Seq(Uids)
             /\ tomb[r] \in SUBSET Uids
             /\ ToSet(list[r]) \in SUBSET Uids
             /\ ToSet(list[r]) = {list[r][i] : i \in 1..Len(list[r])}
  <2>1. list[r] \in Seq(Uids) /\ tomb[r] \in SUBSET Uids
    BY DEF TypeOK, Uids
  <2>2. DOMAIN list[r] = 1..Len(list[r])
    BY <2>1, LenProperties
  <2>3. ToSet(list[r]) = {list[r][i] : i \in 1..Len(list[r])}
    BY <2>2 DEF ToSet
  <2>4. QED BY <2>1, <2>3, ElementOfSeq
<1>3. QED BY <1>1, <1>2, SitesAssumption DEF TypeOK
----------------------------------------------------------------------------
(* Every action keeps the invariant. *)

\* localInsert: the UID it draws is new everywhere and above everything its
\* site holds.
LEMMA LocalInsertKeepsIInv ==
  ASSUME IInv, NEW s \in Sites, LocalInsert(s)
  PROVE  IInv'
<1> DEFINE u == [clock |-> clock[s] + 1, site |-> s]
<1>1. PICK a \in {Root} \cup VisibleUids(doc(s)) :
         /\ list' = [list EXCEPT ![s] = Place(@, a, u)]
         /\ clock' = [clock EXCEPT ![s] = @ + 1]
         /\ ops' = ops \cup {InsertOp(u, a)}
         /\ tomb' = tomb
  BY DEF LocalInsert
<1>2. /\ TypeOK /\ UidsUnique /\ ClocksDominate
      /\ ClocksCoverOwnUids /\ ListsWellPlaced
  BY DEF IInv
<1>3. /\ Inserts \in SUBSET InsertOps
      /\ \A r \in Replicas :
            /\ list[r] \in Seq(Uids)
            /\ ToSet(list[r]) \in SUBSET Uids
            /\ ToSet(list[r]) = {list[r][i] : i \in 1..Len(list[r])}
      /\ s \in Replicas /\ clock[s] \in Nat
  BY <1>2, TypeParts
<1>4. u \in Uids /\ u.clock = clock[s] + 1 /\ u.site = s
  BY <1>3 DEF Uids, UID
<1>5. a \in ToSet(list[s]) \cup {Root} /\ a \in Uids \cup {Root}
  BY <1>3 DEF VisibleUids, doc
<1>6. Known(list[s], a)
  BY <1>5 DEF Known, Holds
<1>7. \A op \in Inserts : op.uid # u
  <2>1. \A op \in Inserts : op.uid.clock <= clock[op.uid.site] /\ op.uid.clock \in Nat
    BY <1>2, <1>3 DEF ClocksCoverOwnUids, InsertOps, Uids, UID
  <2>2. QED BY <2>1, <1>3, <1>4
<1>8. \A r \in Replicas : \A i \in 1..Len(list[r]) : list[r][i] # u
  BY <1>2, <1>7, HeldIsInserted
<1>9. a.clock \in Nat /\ a.clock < u.clock
  <2>1. CASE a = Root
    BY <2>1, <1>3, <1>4 DEF Root
  <2>2. CASE a \in ToSet(list[s])
    BY <2>2, <1>2, <1>3, <1>4, <1>5, UidParts DEF ClocksDominate
  <2>3. QED BY <2>1, <2>2, <1>5
<1> DEFINE new == InsertOp(u, a)
<1>10. new \in InsertOps /\ new.uid = u /\ new.after = a /\ new.type = "INSERT"
  BY <1>4, <1>5 DEF InsertOp, InsertOps
<1>11. Inserts' = Inserts \cup {new}
  BY <1>1, <1>10 DEF Inserts
<1>12. Place(list[s], a, u) \in Seq(Uids)
  BY <1>3, <1>4, <1>5, <1>6, PlaceProperties
<1>13. ToSet(Place(list[s], a, u)) \subseteq ToSet(list[s]) \cup {u}
  BY <1>3, <1>4, <1>5, <1>6, PlaceElements
<1> HIDE DEF u, new
<1>14. /\ \A r \in Replicas : list'[r] = IF r = s THEN Place(list[s], a, u) ELSE list[r]
       /\ \A q \in Sites : clock'[q] = IF q = s THEN clock[s] + 1 ELSE clock[q]
       /\ clock' \in [Sites -> Nat]
  BY <1>1, <1>2, <1>3 DEF TypeOK
<1>15. TypeOK'
  <2>1. list' \in [Replicas -> Seq(Uids)]
    BY <1>1, <1>2, <1>12 DEF TypeOK, Uids
  <2>2. tomb' \in [Replicas -> SUBSET Uids]
    BY <1>1, <1>2 DEF TypeOK, Uids
  <2>3. ops' \subseteq Operations
    BY <1>1, <1>2, <1>10 DEF TypeOK, Operations, InsertOps, Uids, new
  <2>4. QED BY <2>1, <2>2, <2>3, <1>14 DEF TypeOK, Uids
<1>16. UidsUnique'
  <2>1. OneOpPerUid(Inserts \cup {new})
    BY <1>2, <1>7, <1>10 DEF UidsUnique, OneOpPerUid
  <2>2. QED BY <2>1, <1>11 DEF UidsUnique, OneOpPerUid
<1>17. ClocksDominate'
  <2>1. \A op \in Inserts' : op.after.clock < op.uid.clock
    BY <1>2, <1>9, <1>10, <1>11 DEF ClocksDominate
  <2>2. ASSUME NEW q \in Sites, NEW v \in ToSet(list'[q])
        PROVE  v.clock <= clock'[q]
    <3>1. CASE q = s
      <4>1. v = u \/ v \in ToSet(list[s])
        BY <2>2, <3>1, <1>3, <1>13, <1>14
      <4>2. CASE v = u
        BY <4>2, <3>1, <1>3, <1>4, <1>14
      <4>3. CASE v \in ToSet(list[s])
        <5>1. v.clock <= clock[s] /\ v.clock \in Nat
          BY <4>3, <1>2, <1>3, UidParts DEF ClocksDominate
        <5>2. QED BY <5>1, <3>1, <1>3, <1>14
      <4>4. QED BY <4>1, <4>2, <4>3
    <3>2. CASE q # s
      BY <2>2, <3>2, <1>2, <1>14, SitesAssumption DEF ClocksDominate
    <3>3. QED BY <3>1, <3>2
  <2>3. QED BY <2>1, <2>2 DEF ClocksDominate
<1>18. ClocksCoverOwnUids'
  <2>1. ASSUME NEW op \in Inserts' PROVE op.uid.clock <= clock'[op.uid.site]
    <3>1. CASE op = new
      BY <3>1, <1>3, <1>4, <1>10, <1>14
    <3>2. CASE op \in Inserts
      <4>1. op.uid.site \in Sites /\ op.uid.clock \in Nat
        BY <3>2, <1>3 DEF InsertOps, Uids, UID
      <4>2. op.uid.clock <= clock[op.uid.site]
        BY <3>2, <1>2 DEF ClocksCoverOwnUids
      <4>3. QED BY <4>1, <4>2, <1>3, <1>14
    <3>3. QED BY <3>1, <3>2, <1>11
  <2>2. QED BY <2>1 DEF ClocksCoverOwnUids
<1>19. ListsWellPlaced'
  <2>1. ASSUME NEW r \in Replicas PROVE WellPlaced(list'[r], Inserts')
    <3>1. WellPlaced(list[r], Inserts \cup {new})
      BY <1>2, <1>3, <1>8, <1>10, NewOpKeepsWellPlaced DEF ListsWellPlaced
    <3>2. CASE r # s
      BY <3>1, <3>2, <1>11, <1>14
    <3>3. CASE r = s
      <4>1. Inserts \cup {new} \in SUBSET InsertOps /\ OneOpPerUid(Inserts \cup {new})
        BY <1>3, <1>10, <1>11, <1>16 DEF UidsUnique, OneOpPerUid
      <4>2. new \in Inserts \cup {new}
        OBVIOUS
      <4>3. ~Holds(list[s], u)
        BY <1>3, <1>8 DEF Holds
      <4>4. WellPlaced(Place(list[s], new.after, new.uid), Inserts \cup {new})
        BY <4>1, <4>2, <4>3, <3>1, <3>3, <1>3, <1>6, <1>10, PlaceKeepsWellPlaced
      <4>5. QED BY <4>4, <3>3, <1>10, <1>11, <1>14
    <3>4. QED BY <3>2, <3>3
  <2>2. QED BY <2>1 DEF ListsWellPlaced
<1>20. QED BY <1>15, <1>16, <1>17, <1>18, <1>19 DEF IInv
\* localDelete: only the flags of held characters change.
LEMMA LocalDeleteKeepsIInv ==
  ASSUME IInv, NEW s \in Sites, LocalDelete(s)
  PROVE  IInv'
<1>1. PICK u \in VisibleUids(doc(s)) :
         /\ tomb' = [tomb EXCEPT ![s] = @ \cup {u}]
         /\ ops' = ops \cup {DeleteOp(u)}
         /\ list' = list /\ clock' = clock
  BY DEF LocalDelete
<1>2. TypeOK
  BY DEF IInv
<1>3. u \in Uids
  BY <1>2, TypeParts DEF VisibleUids, doc
<1>4. Inserts' = Inserts
  BY <1>1 DEF Inserts, DeleteOp
<1>5. TypeOK'
  <2>1. tomb' \in [Replicas -> SUBSET Uids]
    BY <1>1, <1>2, <1>3 DEF TypeOK, Uids
  <2>2. ops' \subseteq Operations
    BY <1>1, <1>2, <1>3 DEF TypeOK, Operations, DeleteOp, Uids
  <2>3. QED BY <2>1, <2>2, <1>1, <1>2 DEF TypeOK, Uids
<1>6. QED
  BY <1>1, <1>4, <1>5
  DEF IInv, UidsUnique, ClocksDominate, ClocksCoverOwnUids, ListsWellPlaced

\* applyOperation of an insert a replica does not hold yet.
LEMMA DeliverInsertKeepsIInv ==
  ASSUME IInv, NEW r \in Replicas, NEW op \in ops, Deliver(r, op),
         op.type = "INSERT", ~Holds(list[r], op.uid)
  PROVE  IInv'
<1> DEFINE L == Place(list[r], op.after, op.uid)
<1>1. /\ TypeOK /\ UidsUnique /\ ClocksDominate
      /\ ClocksCoverOwnUids /\ ListsWellPlaced
  BY DEF IInv
<1>2. /\ Inserts \in SUBSET InsertOps
      /\ \A q \in Replicas :
            /\ list[q] \in Seq(Uids)
            /\ ToSet(list[q]) \in SUBSET Uids
            /\ ToSet(list[q]) = {list[q][i] : i \in 1..Len(list[q])}
      /\ \A q \in Sites : q \in Replicas /\ clock[q] \in Nat
  BY <1>1, TypeParts
<1>3. op \in Inserts /\ op.uid \in Uids /\ op.after \in Uids \cup {Root}
  BY <1>2 DEF Inserts, InsertOps
<1>4. Known(list[r], op.after)
  BY DEF Deliver, Applicable, doc
<1>5. /\ list' = [list EXCEPT ![r] = L]
      /\ tomb' = [tomb EXCEPT ![r] = tomb[r]]
      /\ ops' = ops
      /\ clock' = AdvanceClock(r, op)
  BY <1>4 DEF Deliver, Apply, ApplyInsert, doc
<1>6. L \in Seq(Uids) /\ ToSet(L) \subseteq ToSet(list[r]) \cup {op.uid}
  BY <1>2, <1>3, <1>4, PlaceProperties, PlaceElements
<1>7. WellPlaced(L, Inserts)
  BY <1>1, <1>2, <1>3, <1>4, PlaceKeepsWellPlaced
  DEF ListsWellPlaced, UidsUnique, OneOpPerUid
<1> HIDE DEF L
<1>8. op.uid.clock \in Nat
  BY <1>3, UidParts
<1>9. /\ clock' \in [Sites -> Nat]
      /\ \A q \in Sites : clock[q] <= clock'[q] /\ clock'[q] \in Nat
      /\ r \in Sites => op.uid.clock <= clock'[r]
  <2>1. CASE r \in Sites /\ op.uid.clock > clock[r]
    <3>1. clock' = [clock EXCEPT ![r] = op.uid.clock]
      BY <2>1, <1>5 DEF AdvanceClock
    <3>2. QED BY <2>1, <3>1, <1>1, <1>2, <1>8 DEF TypeOK
  <2>2. CASE ~(r \in Sites /\ op.uid.clock > clock[r])
    <3>1. clock' = clock
      BY <2>2, <1>5 DEF AdvanceClock
    <3>2. QED BY <2>2, <3>1, <1>1, <1>2, <1>8 DEF TypeOK
  <2>3. QED BY <2>1, <2>2
<1>10. Inserts' = Inserts
  BY <1>5 DEF Inserts
<1>11. \A q \in Replicas : list'[q] = IF q = r THEN L ELSE list[q]
  BY <1>1, <1>5 DEF TypeOK
<1>12. TypeOK'
  BY <1>1, <1>5, <1>6, <1>9 DEF TypeOK, Uids
<1>13. UidsUnique'
  BY <1>1, <1>10 DEF UidsUnique
<1>14. ClocksDominate'
  <2>1. ASSUME NEW q \in Sites, NEW v \in ToSet(list'[q])
        PROVE  v.clock <= clock'[q]
    <3>1. q \in Replicas
      BY <1>2
    <3>2. CASE v \in ToSet(list[q])
      <4>1. v.clock <= clock[q] /\ v.clock \in Nat
        BY <3>1, <3>2, <1>1, <1>2, UidParts DEF ClocksDominate
      <4>2. QED BY <4>1, <1>2, <1>9
    <3>3. CASE v \notin ToSet(list[q])
      <4>1. q = r /\ v = op.uid
        BY <3>1, <3>3, <2>1, <1>6, <1>11
      <4>2. QED BY <4>1, <1>9
    <3>4. QED BY <3>2, <3>3
  <2>2. QED BY <2>1, <1>1, <1>10 DEF ClocksDominate
<1>15. ClocksCoverOwnUids'
  <2>1. ASSUME NEW o \in Inserts PROVE o.uid.clock <= clock'[o.uid.site]
    <3>1. o.uid.site \in Sites /\ o.uid.clock \in Nat
      BY <1>2 DEF InsertOps, Uids, UID
    <3>2. o.uid.clock <= clock[o.uid.site]
      BY <1>1 DEF ClocksCoverOwnUids
    <3>3. QED BY <3>1, <3>2, <1>2, <1>9
  <2>2. QED BY <2>1, <1>10 DEF ClocksCoverOwnUids
<1>16. ListsWellPlaced'
  BY <1>1, <1>7, <1>10, <1>11 DEF ListsWellPlaced
<1>17. QED BY <1>12, <1>13, <1>14, <1>15, <1>16 DEF IInv

\* Any other delivery: a duplicate insert, or a delete of a held character.
LEMMA DeliverKeepsIInv ==
  ASSUME IInv, NEW r \in Replicas, NEW op \in ops, Deliver(r, op)
  PROVE  IInv'
<1>1. TypeOK
  BY DEF IInv
<1>2. CASE op.type = "INSERT" /\ ~Holds(list[r], op.uid)
  BY <1>2, DeliverInsertKeepsIInv
<1>3. CASE op.type = "INSERT" /\ Holds(list[r], op.uid)
  <2>1. /\ list' = [list EXCEPT ![r] = list[r]]
        /\ tomb' = [tomb EXCEPT ![r] = tomb[r]]
        /\ ops' = ops
        /\ clock' = clock
    BY <1>3 DEF Deliver, Apply, ApplyInsert, AdvanceClock, doc
  <2>2. list' = list /\ tomb' = tomb
    BY <2>1, <1>1 DEF TypeOK
  <2>3. QED
    BY <2>1, <2>2
    DEF IInv, TypeOK, UidsUnique, ClocksDominate, ClocksCoverOwnUids, ListsWellPlaced, Inserts
<1>4. CASE op.type # "INSERT"
  <2>1. Holds(list[r], op.uid)
    BY <1>4 DEF Deliver, Applicable, doc
  <2>2. op.uid \in Uids
    BY <2>1, <1>1, TypeParts DEF Holds
  <2>3. /\ list' = [list EXCEPT ![r] = list[r]]
        /\ tomb' = [tomb EXCEPT ![r] = tomb[r] \cup {op.uid}]
        /\ ops' = ops
        /\ clock' = clock
    BY <1>4, <2>1 DEF Deliver, Apply, ApplyDelete, AdvanceClock, doc
  <2>4. list' = list
    BY <2>3, <1>1 DEF TypeOK
  <2>5. TypeOK'
    <3>1. tomb' \in [Replicas -> SUBSET Uids]
      BY <2>2, <2>3, <1>1 DEF TypeOK, Uids
    <3>2. QED BY <3>1, <2>3, <2>4, <1>1 DEF TypeOK, Uids
  <2>6. QED
    BY <2>3, <2>4, <2>5
    DEF IInv, UidsUnique, ClocksDominate, ClocksCoverOwnUids, ListsWellPlaced, Inserts
<1>5. QED BY <1>2, <1>3, <1>4

\* At first nothing has been typed.
LEMMA InitEstablishesIInv == Init => IInv
<1> SUFFICES ASSUME Init PROVE IInv
  OBVIOUS
<1>1. TypeOK
  BY DEF Init, TypeOK
<1>2. UidsUnique /\ ClocksCoverOwnUids
  BY DEF Init, UidsUnique, ClocksCoverOwnUids, Inserts
<1>3. \A r \in Replicas : ToSet(list[r]) = {} /\ Len(list[r]) = 0
  <2>1. \A r \in Replicas : list[r] = << >>
    BY DEF Init
  <2>2. QED BY <2>1 DEF ToSet
<1>4. ClocksDominate
  BY <1>3, SitesAssumption DEF Init, ClocksDominate, Inserts
<1>5. ListsWellPlaced
  BY <1>3 DEF ListsWellPlaced, WellPlaced, NoRepeats, Anchored, Sheltered
<1>6. QED BY <1>1, <1>2, <1>4, <1>5 DEF IInv

\* Every step keeps the invariant.
LEMMA StepKeepsIInv == IInv /\ [Next]_vars => IInv'
<1> SUFFICES ASSUME IInv, [Next]_vars PROVE IInv'
  OBVIOUS
<1>1. ASSUME NEW s \in Sites, LocalInsert(s) PROVE IInv'
  BY <1>1, LocalInsertKeepsIInv
<1>2. ASSUME NEW s \in Sites, LocalDelete(s) PROVE IInv'
  BY <1>2, LocalDeleteKeepsIInv
<1>3. ASSUME NEW r \in Replicas, NEW op \in ops, Deliver(r, op) PROVE IInv'
  BY <1>3, DeliverKeepsIInv
<1>4. CASE UNCHANGED vars
  BY <1>4
  DEF vars, IInv, TypeOK, UidsUnique, ClocksDominate, ClocksCoverOwnUids, ListsWellPlaced, Inserts
<1>5. QED BY <1>1, <1>2, <1>3, <1>4 DEF Next

----------------------------------------------------------------------------
(* The theorems. *)

\* In every reachable state all five parts of the invariant hold: above all,
\* every replica's list is one applyInsert could have left it in.
THEOREM Invariance == Spec => []IInv
<1>1. QED BY InitEstablishesIInv, StepKeepsIInv, PTL DEF Spec

\* The lists, flags, clocks and operations keep their types: in particular
\* localInsert and localDelete only ever name UIDs that a site has drawn.
THEOREM TypeCorrect == Spec => []TypeOK
<1>1. IInv => TypeOK
  BY DEF IInv
<1>2. QED BY <1>1, Invariance, PTL

\* The promise of uid.ts, kept by localInsert: no two insert operations, of
\* whichever sites, share a UID.
THEOREM UidsAreUnique == Spec => []UidsUnique
<1>1. IInv => UidsUnique
  BY DEF IInv
<1>2. QED BY <1>1, Invariance, PTL

\* Lamport's condition, which localInsert and applyInsert maintain together: a
\* UID is above its anchor's, and below no clock of a site that holds it.
THEOREM ClocksAreLamport == Spec => []ClocksDominate
<1>1. IInv => ClocksDominate
  BY DEF IInv
<1>2. QED BY <1>1, Invariance, PTL

\* Well-placed lists of one set of inserts agree.
LEMMA IInvImpliesAgreement ==
  ASSUME IInv, NEW r \in Replicas, NEW s \in Replicas
  PROVE  Agree(list[r], list[s])
<1>1. /\ Inserts \in SUBSET InsertOps
      /\ list[r] \in Seq(Uids) /\ list[s] \in Seq(Uids)
  BY TypeParts DEF IInv
<1>2. WellPlaced(list[r], Inserts) /\ WellPlaced(list[s], Inserts)
  BY DEF IInv, ListsWellPlaced
<1>3. OneOpPerUid(Inserts) /\ AboveAnchors(Inserts)
  BY DEF IInv, UidsUnique, OneOpPerUid, ClocksDominate, AboveAnchors
<1>4. QED BY <1>1, <1>2, <1>3, WellPlacedListsAgree

\* applyInsert puts any two characters in the same order on every replica,
\* whichever operations else each of them has applied.
THEOREM OrdersAgree == Spec => []OrderAgreement
<1>1. IInv => OrderAgreement
  <2> SUFFICES ASSUME IInv, NEW r \in Replicas, NEW s \in Replicas
               PROVE  \A i, j \in DOMAIN list[r] : \A k, l \in DOMAIN list[s] :
                         list[r][i] = list[s][k] /\ list[r][j] = list[s][l]
                            => (i < j <=> k < l)
    BY DEF OrderAgreement
  <2>1. DOMAIN list[r] = 1..Len(list[r]) /\ DOMAIN list[s] = 1..Len(list[s])
    BY TypeParts, LenProperties DEF IInv
  <2>2. QED BY SMTT(60), <2>1, IInvImpliesAgreement DEF Agree
<1>2. QED BY <1>1, Invariance, PTL

\* Replicas that hold the same characters hold the same list: the convergence
\* the editor rests on, for any number of replicas and any delivery order.
THEOREM ReplicasConverge == Spec => []Convergence
<1>1. IInv => Convergence
  <2> SUFFICES ASSUME IInv, NEW r \in Replicas, NEW s \in Replicas,
                      ToSet(list[r]) = ToSet(list[s])
               PROVE  list[r] = list[s]
    BY DEF Convergence
  <2>1. list[r] \in Seq(Uids) /\ list[s] \in Seq(Uids)
    BY TypeParts DEF IInv
  <2>2. NoRepeats(list[r]) /\ NoRepeats(list[s])
    BY DEF IInv, ListsWellPlaced, WellPlaced
  <2>3. QED BY <2>1, <2>2, IInvImpliesAgreement, AgreeingListsAreEqual
<1>2. QED BY <1>1, Invariance, PTL
\* The scan passes nothing when the new UID is above the whole list, so a user
\* sees a character appear right behind the one the cursor stood at.
LEMMA NewestGoesToCursor ==
  ASSUME NEW L \in Seq(Uids), NEW a \in Uids \cup {Root}, Known(L, a), NEW u \in Uids,
         \A i \in 1..Len(L) : L[i].clock < u.clock,
         NoRepeats(Place(L, a, u))
  PROVE  Position(Place(L, a, u), u) = Position(Place(L, a, u), a) + 1
<1> DEFINE p == Position(L, a)
           k == ScanRight(L, p, u)
           M == Place(L, a, u)
<1>1. /\ k \in p..Len(L)
      /\ \A j \in (p + 1)..k : Less(u, L[j])
      /\ M \in Seq(Uids) /\ Len(M) = Len(L) + 1
      /\ \A i \in 1..(Len(L) + 1) :
            M[i] = IF i <= k THEN L[i] ELSE IF i = k + 1 THEN u ELSE L[i - 1]
  BY PlaceProperties
<1>2. /\ p \in 0..Len(L) /\ Len(L) \in Nat
      /\ a = Root => p = 0
      /\ a # Root => p \in 1..Len(L) /\ L[p] = a
  BY PositionProperties, LenProperties
<1>3. \A i \in 1..Len(L) : ~Less(u, L[i])
  <2>1. \A i \in 1..Len(L) : L[i] \in Uids
    BY ElementOfSeq
  <2>2. QED BY <2>1, UidParts DEF Less
<1> HIDE DEF k, p, M
<1>4. k = p
  <2>1. \A j \in (p + 1)..k : j \in 1..Len(L)
    BY <1>1, <1>2
  <2>2. \A j \in (p + 1)..k : FALSE
    BY <2>1, <1>1, <1>3
  <2>3. QED BY <2>2, <1>1, <1>2
<1>5. M[p + 1] = u /\ p + 1 \in 1..Len(M)
  BY <1>1, <1>2, <1>4
<1>6. a # Root => M[p] = a /\ p \in 1..Len(M)
  BY <1>1, <1>2, <1>4
<1>7. DOMAIN M = 1..Len(M)
  BY <1>1, LenProperties
<1>8. Known(M, u) /\ Known(M, a)
  BY <1>5, <1>6, <1>7 DEF Known, Holds, ToSet
<1>9. u # Root
  BY RootIsNoUid
<1>10. Position(M, u) = p + 1
  <2>1. Position(M, u) \in 1..Len(M) /\ M[Position(M, u)] = u
    BY <1>1, <1>8, <1>9, PositionProperties
  <2>2. QED BY <2>1, <1>5 DEF NoRepeats, M
<1>11. Position(M, a) = p
  <2>1. CASE a = Root
    BY <2>1, <1>2 DEF Position
  <2>2. CASE a # Root
    <3>1. Position(M, a) \in 1..Len(M) /\ M[Position(M, a)] = a
      BY <2>2, <1>1, <1>8, PositionProperties
    <3>2. QED BY <2>2, <3>1, <1>6 DEF NoRepeats, M
  <2>3. QED BY <2>1, <2>2
<1>12. QED BY <1>10, <1>11 DEF M

\* localInsert puts the character at the cursor of its author, although the
\* list may hold any number of concurrent and deleted characters there.
THEOREM TypingIsAtCursor == Spec => TypedAtCursor
<1> DEFINE AtCursor(op) ==
               op.type = "INSERT" =>
                  LET s == op.uid.site
                  IN Position(list'[s], op.uid) = Position(list'[s], op.after) + 1
<1>1. ASSUME IInv, IInv', NEW s \in Sites, LocalInsert(s), NEW op \in ops' \ ops
      PROVE  AtCursor(op)
  <2> DEFINE u == [clock |-> clock[s] + 1, site |-> s]
  <2>1. PICK a \in {Root} \cup VisibleUids(doc(s)) :
           /\ list' = [list EXCEPT ![s] = Place(@, a, u)]
           /\ ops' = ops \cup {InsertOp(u, a)}
    BY <1>1 DEF LocalInsert
  <2>2. /\ list[s] \in Seq(Uids) /\ clock[s] \in Nat /\ s \in Replicas
        /\ ToSet(list[s]) \in SUBSET Uids
        /\ ToSet(list[s]) = {list[s][i] : i \in 1..Len(list[s])}
    BY <1>1, TypeParts DEF IInv
  <2>3. u \in Uids /\ u.clock = clock[s] + 1 /\ u.site = s
    BY <2>2 DEF Uids, UID
  <2>4. a \in ToSet(list[s]) \cup {Root} /\ a \in Uids \cup {Root}
    BY <2>2 DEF VisibleUids, doc
  <2>5. Known(list[s], a)
    BY <2>4 DEF Known, Holds
  <2>6. \A i \in 1..Len(list[s]) : list[s][i].clock < u.clock
    <3>1. \A i \in 1..Len(list[s]) :
             list[s][i].clock <= clock[s] /\ list[s][i].clock \in Nat
      BY <1>1, <2>2, UidParts DEF IInv, ClocksDominate
    <3>2. QED BY <3>1, <2>2, <2>3
  <2>7. op = InsertOp(u, a)
    BY <1>1, <2>1
  <2>8. op.uid = u /\ op.after = a /\ op.uid.site = s
    BY <2>7, <2>3 DEF InsertOp
  <2> HIDE DEF u
  <2>9. list'[s] = Place(list[s], a, u)
    BY <1>1, <2>1, <2>2 DEF IInv, TypeOK
  <2>10. NoRepeats(list'[s])
    BY <1>1, <2>2 DEF IInv, ListsWellPlaced, WellPlaced
  <2>11. Position(list'[s], u) = Position(list'[s], a) + 1
    BY <2>2, <2>3, <2>4, <2>5, <2>6, <2>9, <2>10, NewestGoesToCursor
  <2>12. QED BY <2>8, <2>11
<1>2. ASSUME IInv, IInv', [Next]_vars PROVE [\A op \in ops' \ ops : AtCursor(op)]_vars
  <2>1. ASSUME NEW s \in Sites, LocalInsert(s) PROVE \A op \in ops' \ ops : AtCursor(op)
    BY <1>1, <1>2, <2>1
  <2>2. ASSUME NEW s \in Sites, LocalDelete(s) PROVE \A op \in ops' \ ops : AtCursor(op)
    BY <2>2 DEF LocalDelete, DeleteOp
  <2>3. ASSUME NEW r \in Replicas, NEW o \in ops, Deliver(r, o)
        PROVE  \A op \in ops' \ ops : AtCursor(op)
    BY <2>3 DEF Deliver
  <2>4. QED BY <1>2, <2>1, <2>2, <2>3 DEF Next
<1>3. QED BY <1>2, Invariance, PTL DEF Spec, TypedAtCursor

=============================================================================
