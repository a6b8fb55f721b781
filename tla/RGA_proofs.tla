------------------------------ MODULE RGA_proofs ------------------------------
(***************************************************************************)
(* Lemmas about the operators of RGA, for UIDs and lists of any set S, and *)
(* why replicas agree.                                                     *)
(*                                                                         *)
(* Call a list well placed when it repeats no UID, holds every character's *)
(* anchor to its left, and has between a character and its anchor only     *)
(* greater UIDs. applyInsert keeps a list well placed. Two well-placed     *)
(* lists agree on the order of any two characters: take two they disagree  *)
(* on whose clocks have the least sum; the greater of the two has its      *)
(* anchor in both lists, and the anchor and the lesser one are a           *)
(* disagreement with a smaller sum.                                        *)
(***************************************************************************)
EXTENDS RGA, WellFoundedInduction, SequenceTheorems, FiniteSetTheorems, TLAPS

----------------------------------------------------------------------------
(* Naturals and sequences. *)

\* Every nonempty set of naturals has a least element.
LEMMA LeastNat ==
  ASSUME NEW S \in SUBSET Nat, S # {}
  PROVE  \E m \in S : \A k \in S : m <= k
<1>1. IsWellFoundedOn(OpToRel(<, Nat), Nat)
  BY NatLessThanWellFounded
<1>2. PICK m \in S : \A k \in S : ~(<<k, m>> \in OpToRel(<, Nat))
  BY <1>1, WFMin
<1>3. ASSUME NEW k \in S, k < m PROVE FALSE
  <2>1. <<k, m>> \in Nat \X Nat
    OBVIOUS
  <2>2. <<k, m>> \in OpToRel(<, Nat)
    BY <2>1, <1>3, Zenon DEF OpToRel
  <2> QED BY <2>2, <1>2
<1>4. QED BY <1>3

\* What InsertAt returns: the element in its place, the rest moved aside.
LEMMA InsertAtProperties ==
  ASSUME NEW S, NEW s \in Seq(S), NEW k \in 0..Len(s), NEW e \in S
  PROVE  /\ InsertAt(s, k + 1, e) \in Seq(S)
         /\ Len(InsertAt(s, k + 1, e)) = Len(s) + 1
         /\ \A i \in 1..(Len(s) + 1) :
               InsertAt(s, k + 1, e)[i] =
                  IF i <= k THEN s[i] ELSE IF i = k + 1 THEN e ELSE s[i - 1]
<1> DEFINE a == SubSeq(s, 1, k)
           b == SubSeq(s, k + 1, Len(s))
           c == a \o <<e>>
           d == c \o b
<1>1. /\ a \in Seq(S) /\ Len(a) = k
      /\ \A i \in 1..k : a[i] = s[i]
  BY SubSeqProperties
<1>2. /\ b \in Seq(S) /\ Len(b) = Len(s) - k
      /\ \A i \in 1..(Len(s) - k) : b[i] = s[k + i]
  BY SubSeqProperties
<1>3. /\ <<e>> \in Seq(S) /\ Len(<<e>>) = 1 /\ <<e>>[1] = e
  OBVIOUS
<1>4. InsertAt(s, k + 1, e) = d
  <2>1. (k + 1) - 1 = k
    OBVIOUS
  <2>2. QED BY <2>1, Zenon DEF InsertAt
<1> HIDE DEF a, b
<1>5. /\ c \in Seq(S) /\ Len(c) = k + 1
      /\ \A i \in 1..(k + 1) : c[i] = IF i <= k THEN s[i] ELSE e
  BY <1>1, <1>3, ConcatProperties
<1> HIDE DEF c
<1>6. /\ d \in Seq(S) /\ Len(d) = Len(s) + 1
      /\ \A i \in 1..(Len(s) + 1) :
            d[i] = IF i <= k + 1 THEN c[i] ELSE b[i - (k + 1)]
  BY SMTT(60), <1>2, <1>5, ConcatProperties
<1> HIDE DEF d
<1>7. \A i \in 1..(Len(s) + 1) :
         d[i] = IF i <= k THEN s[i] ELSE IF i = k + 1 THEN e ELSE s[i - 1]
  <2> SUFFICES ASSUME NEW i \in 1..(Len(s) + 1)
               PROVE  d[i] = IF i <= k THEN s[i] ELSE IF i = k + 1 THEN e ELSE s[i - 1]
    OBVIOUS
  <2>1. CASE i <= k + 1
    BY <2>1, <1>5, <1>6
  <2>2. CASE i > k + 1
    <3>1. i - (k + 1) \in 1..(Len(s) - k) /\ k + (i - (k + 1)) = i - 1
      BY <2>2
    <3>2. d[i] = b[i - (k + 1)]
      BY <2>2, <1>6
    <3>3. b[i - (k + 1)] = s[i - 1]
      BY <3>1, <1>2
    <3>4. QED BY <2>2, <3>2, <3>3
  <2>3. QED BY <2>1, <2>2
<1>8. QED BY <1>4, <1>6, <1>7
----------------------------------------------------------------------------
(* The scan of applyInsert. *)

\* A known UID's position is that of the UID, the root's is before the list.
LEMMA PositionProperties ==
  ASSUME NEW S, NEW L \in Seq(S), NEW a \in S \cup {Root}, Known(L, a)
  PROVE  /\ Position(L, a) \in 0..Len(L)
         /\ a = Root => Position(L, a) = 0
         /\ a # Root => Position(L, a) \in 1..Len(L) /\ L[Position(L, a)] = a
<1>1. CASE a = Root
  BY <1>1 DEF Position
<1>2. CASE a # Root
  <2>1. \E i \in DOMAIN L : L[i] = a
    BY <1>2, Zenon DEF Known, Holds, ToSet
  <2>2. Position(L, a) = CHOOSE i \in DOMAIN L : L[i] = a
    BY <1>2 DEF Position
  <2>3. Position(L, a) \in DOMAIN L /\ L[Position(L, a)] = a
    BY <2>1, <2>2, Zenon
  <2>4. DOMAIN L = 1..Len(L) /\ Len(L) \in Nat
    BY LenProperties
  <2>5. QED BY <1>2, <2>3, <2>4
<1>3. QED BY <1>1, <1>2

\* The scan stops: there is a first place whose right neighbour is no greater.
LEMMA ScanRightProperties ==
  ASSUME NEW S, NEW L \in Seq(S), NEW p \in 0..Len(L), NEW u \in S
  PROVE  LET k == ScanRight(L, p, u)
         IN /\ k \in p..Len(L)
            /\ \A j \in (p + 1)..k : Less(u, L[j])
            /\ k < Len(L) => ~Less(u, L[k + 1])
<1> DEFINE Stops == {k \in p..Len(L) : k < Len(L) => ~Less(u, L[k + 1])}
<1>0. Len(L) \in Nat /\ p \in Nat
  BY LenProperties
<1>1. Len(L) \in Stops /\ Stops \in SUBSET Nat
  BY <1>0
<1>2. PICK m \in Stops : \A k \in Stops : m <= k
  BY <1>1, LeastNat
<1>3. \A j \in (p + 1)..m : Less(u, L[j])
  <2> SUFFICES ASSUME NEW j \in (p + 1)..m, ~Less(u, L[j])
               PROVE  FALSE
    OBVIOUS
  <2>1. j - 1 \in p..Len(L) /\ (j - 1) + 1 = j
    BY <1>0, <1>2
  <2>2. j - 1 \in Stops
    BY <2>1
  <2>3. m \in Nat /\ m <= j - 1
    BY <2>2, <1>1, <1>2
  <2>4. QED BY <2>3, <1>0
<1>4. \E k \in p..Len(L) :
         /\ \A j \in (p + 1)..k : Less(u, L[j])
         /\ k < Len(L) => ~Less(u, L[k + 1])
  BY <1>2, <1>3
<1>5. QED BY <1>4, Zenon DEF ScanRight

\* applyInsert returns the old list with the new UID in one place, behind its
\* anchor and what the scan passed.
LEMMA PlaceSplices ==
  ASSUME NEW S, NEW L \in Seq(S), NEW a \in S \cup {Root}, Known(L, a), NEW u \in S
  PROVE  LET k == ScanRight(L, Position(L, a), u)
             M == Place(L, a, u)
         IN /\ k \in Position(L, a)..Len(L) /\ k \in 0..Len(L)
            /\ \A j \in (Position(L, a) + 1)..k : Less(u, L[j])
            /\ k < Len(L) => ~Less(u, L[k + 1])
            /\ M \in Seq(S) /\ Len(M) = Len(L) + 1
            /\ \A i \in 1..(Len(L) + 1) :
                  M[i] = IF i <= k THEN L[i] ELSE IF i = k + 1 THEN u ELSE L[i - 1]
<1> DEFINE p == Position(L, a)
           k == ScanRight(L, p, u)
<1>1. p \in 0..Len(L) /\ Len(L) \in Nat
  BY PositionProperties, LenProperties
<1>2. /\ k \in p..Len(L)
      /\ \A j \in (p + 1)..k : Less(u, L[j])
      /\ k < Len(L) => ~Less(u, L[k + 1])
  BY <1>1, ScanRightProperties
<1>3. k \in 0..Len(L)
  BY <1>1, <1>2
<1>4. Place(L, a, u) = InsertAt(L, k + 1, u)
  BY DEF Place
<1> HIDE DEF p, k
<1>5. /\ InsertAt(L, k + 1, u) \in Seq(S)
      /\ Len(InsertAt(L, k + 1, u)) = Len(L) + 1
      /\ \A i \in 1..(Len(L) + 1) :
            InsertAt(L, k + 1, u)[i] =
               IF i <= k THEN L[i] ELSE IF i = k + 1 THEN u ELSE L[i - 1]
  <2>1. \A n \in 0..Len(L) :
           /\ InsertAt(L, n + 1, u) \in Seq(S)
           /\ Len(InsertAt(L, n + 1, u)) = Len(L) + 1
           /\ \A i \in 1..(Len(L) + 1) :
                 InsertAt(L, n + 1, u)[i] =
                    IF i <= n THEN L[i] ELSE IF i = n + 1 THEN u ELSE L[i - 1]
    BY InsertAtProperties
  <2>2. QED BY <2>1, <1>3
<1>6. QED BY <1>2, <1>3, <1>4, <1>5 DEF p, k

\* It adds that UID and no other.
LEMMA PlaceAddsOne ==
  ASSUME NEW S, NEW L \in Seq(S), NEW a \in S \cup {Root}, Known(L, a), NEW u \in S
  PROVE  ToSet(Place(L, a, u)) = ToSet(L) \cup {u}
<1> DEFINE k == ScanRight(L, Position(L, a), u)
           M == Place(L, a, u)
<1>1. /\ k \in 0..Len(L) /\ Len(L) \in Nat
      /\ M \in Seq(S) /\ Len(M) = Len(L) + 1
      /\ \A i \in 1..(Len(L) + 1) :
            M[i] = IF i <= k THEN L[i] ELSE IF i = k + 1 THEN u ELSE L[i - 1]
  BY PlaceSplices, LenProperties
<1> HIDE DEF k, M
<1>2. ToSet(M) = {M[i] : i \in 1..(Len(L) + 1)} /\ ToSet(L) = {L[i] : i \in 1..Len(L)}
  BY <1>1, LenProperties DEF ToSet
<1>3. \A i \in 1..(Len(L) + 1) : M[i] \in ToSet(L) \cup {u}
  <2> SUFFICES ASSUME NEW i \in 1..(Len(L) + 1) PROVE M[i] \in ToSet(L) \cup {u}
    OBVIOUS
  <2>1. CASE i <= k
    BY <1>1, <1>2, <2>1
  <2>2. CASE i = k + 1
    BY <1>1, <2>2
  <2>3. CASE i > k + 1
    <3>1. i - 1 \in 1..Len(L) /\ M[i] = L[i - 1]
      BY <1>1, <2>3
    <3>2. QED
      BY <1>2, <3>1
  <2>4. QED
    BY <1>1, <2>1, <2>2, <2>3
<1>4. u \in ToSet(M)
  <2>1. k + 1 \in 1..(Len(L) + 1) /\ M[k + 1] = u
    BY <1>1
  <2>2. QED
    BY <1>2, <2>1
<1>5. \A i \in 1..Len(L) : L[i] \in ToSet(M)
  <2> SUFFICES ASSUME NEW i \in 1..Len(L) PROVE L[i] \in ToSet(M)
    OBVIOUS
  <2>1. CASE i <= k
    <3>1. i \in 1..(Len(L) + 1) /\ M[i] = L[i]
      BY <1>1, <2>1
    <3>2. QED
      BY <1>2, <3>1
  <2>2. CASE i > k
    <3>1. i + 1 \in 1..(Len(L) + 1) /\ ~(i + 1 <= k) /\ i + 1 # k + 1 /\ (i + 1) - 1 = i
      BY <1>1, <2>2
    <3>2. M[i + 1] = L[i]
      BY <1>1, <3>1
    <3>3. QED
      BY <1>2, <3>1, <3>2
  <2>3. QED
    BY <1>1, <2>1, <2>2
<1>6. QED
  BY <1>2, <1>3, <1>4, <1>5 DEF M

\* What applyOperation leaves in the document: an insert that can be applied is
\* held, a delete marks what is held, and everything else changes nothing.
LEMMA ApplyElements ==
  ASSUME NEW S, NEW d, d = [list |-> d.list, tomb |-> d.tomb], d.list \in Seq(S), NEW op
  PROVE  /\ op.type = "INSERT" /\ op.uid \in S /\ op.after \in S \cup {Root} =>
               /\ ToSet(Apply(d, op).list) = IF Applicable(d, op) THEN ToSet(d.list) \cup {op.uid}
                                             ELSE ToSet(d.list)
               /\ Apply(d, op).tomb = d.tomb
               /\ Apply(d, op).list \in Seq(S)
         /\ op.type # "INSERT" =>
               /\ Apply(d, op).list = d.list
               /\ Apply(d, op).tomb = IF Applicable(d, op) THEN d.tomb \cup {op.uid} ELSE d.tomb
         /\ ~Applicable(d, op) => Apply(d, op) = d
         /\ Apply(d, op) = [list |-> Apply(d, op).list, tomb |-> Apply(d, op).tomb]
<1>1. CASE op.type = "INSERT"
  <2>1. op.uid \in S /\ op.after \in S \cup {Root} /\ Known(d.list, op.after) =>
           /\ Place(d.list, op.after, op.uid) \in Seq(S)
           /\ ToSet(Place(d.list, op.after, op.uid)) = ToSet(d.list) \cup {op.uid}
    BY PlaceSplices, PlaceAddsOne
  <2>2. Holds(d.list, op.uid) => ToSet(d.list) \cup {op.uid} = ToSet(d.list)
    BY DEF Holds
  <2>3. QED
    BY <1>1, <2>1, <2>2 DEF Apply, ApplyInsert, Applicable
<1>2. CASE op.type # "INSERT"
  BY <1>2 DEF Apply, ApplyDelete, Applicable
<1>3. QED
  BY <1>1, <1>2

\* applyOperation gives a record of a list and of tombstones.
LEMMA ApplyRecord ==
    ASSUME NEW d, d = [list |-> d.list, tomb |-> d.tomb], NEW op
    PROVE  Apply(d, op) = [list |-> Apply(d, op).list, tomb |-> Apply(d, op).tomb]
BY DEF Apply, ApplyInsert, ApplyDelete

----------------------------------------------------------------------------
(* Folds: what FoldLeft and FoldFunction compute, by induction over the    *)
(* numbers, whatever is folded.                                            *)

\* Induction over the naturals, for a set of them.
LEMMA NatSetInduction ==
  ASSUME NEW P \in SUBSET Nat, 0 \in P, \A n \in P : n + 1 \in P
  PROVE  P = Nat
<1> SUFFICES ASSUME Nat \ P # {} PROVE FALSE
  OBVIOUS
<1>1. PICK m \in Nat \ P : \A k \in Nat \ P : m <= k
  BY LeastNat
<1>2. m # 0 /\ m - 1 \in Nat
  BY <1>1
<1>3. m - 1 \in P
  BY <1>1, <1>2
<1>4. QED
  BY <1>1, <1>2, <1>3

\* What MapThenFoldSet is given: a choice from every set, and a step.
Chooses(ch, D) == \A t \in SUBSET D : t # {} => ch[t] \in t

Steps(step, D, V) == \A x \in D, v \in V : step[x][v] \in V

IsFold(G, D, b, ch, step) ==
  \A t \in SUBSET D : G[t] = IF t = {} THEN b ELSE step[ch[t]][G[t \ {ch[t]}]]

\* A fold over a finite set exists: what MapThenFoldSet's local function is,
\* `choose` being ch and the operator step.
LEMMA FoldExists ==
  ASSUME NEW D, IsFiniteSet(D), NEW V, NEW b \in V,
         NEW ch, Chooses(ch, D), NEW step, Steps(step, D, V)
  PROVE  \E G \in [SUBSET D -> V] : IsFold(G, D, b, ch, step)
<1> DEFINE Upto(k) == {t \in SUBSET D : Cardinality(t) <= k}
           Folds(G, k) == \A t \in Upto(k) :
                             G[t] = IF t = {} THEN b ELSE step[ch[t]][G[t \ {ch[t]}]]
           P == {k \in Nat : \E G \in [Upto(k) -> V] : Folds(G, k)}
<1> HIDE DEF Upto, Folds, P
<1>1. \A t \in SUBSET D : IsFiniteSet(t) /\ Cardinality(t) \in Nat
  BY FS_Subset, FS_CardinalityType
<1>2. \A k : \A t \in Upto(k) :
         t \in SUBSET D /\ IsFiniteSet(t) /\ Cardinality(t) \in Nat /\ Cardinality(t) <= k
  BY <1>1, Zenon DEF Upto
<1>3. \A t \in SUBSET D : t # {} => /\ ch[t] \in D /\ t \ {ch[t]} \in SUBSET D
                                    /\ Cardinality(t \ {ch[t]}) = Cardinality(t) - 1
  <2> SUFFICES ASSUME NEW t \in SUBSET D, t # {}
               PROVE  ch[t] \in D /\ Cardinality(t \ {ch[t]}) = Cardinality(t) - 1
    OBVIOUS
  <2>1. ch[t] \in t /\ IsFiniteSet(t)
    BY <1>1 DEF Chooses
  <2>2. QED
    BY <2>1, FS_RemoveElement
<1>4. 0 \in P
  <2>1. ASSUME NEW t \in Upto(0) PROVE t = {}
    <3>1. IsFiniteSet(t) /\ Cardinality(t) \in Nat /\ Cardinality(t) <= 0
      BY <1>2, Zenon
    <3>2. QED
      BY <3>1, FS_EmptySet
  <2> DEFINE G == [t \in Upto(0) |-> b]
  <2>2. G \in [Upto(0) -> V] /\ Folds(G, 0)
    BY <2>1 DEF Folds
  <2> HIDE DEF G
  <2>3. QED
    BY <2>2 DEF P
<1>5. ASSUME NEW k \in P PROVE k + 1 \in P
  <2>1. k \in Nat
    BY Zenon DEF P
  <2>2. PICK G \in [Upto(k) -> V] : Folds(G, k)
    BY DEF P
  <2> DEFINE H == [t \in Upto(k + 1) |-> IF t = {} THEN b ELSE step[ch[t]][G[t \ {ch[t]}]]]
  <2>3. ASSUME NEW t \in Upto(k + 1), t # {}
        PROVE  ch[t] \in D /\ t \ {ch[t]} \in Upto(k)
    <3>1. t \in SUBSET D /\ Cardinality(t) \in Nat /\ Cardinality(t) <= k + 1
      BY <1>2
    <3>2. /\ ch[t] \in D /\ t \ {ch[t]} \in SUBSET D
          /\ Cardinality(t \ {ch[t]}) = Cardinality(t) - 1
      BY <1>3, <2>3, <3>1, Zenon
    <3>3. Cardinality(t \ {ch[t]}) <= k
      BY <2>1, <3>1, <3>2
    <3>4. QED
      BY <3>2, <3>3, Zenon DEF Upto
  <2>4. ASSUME NEW t \in Upto(k) PROVE t \in Upto(k + 1)
    <3>1. t \in SUBSET D /\ Cardinality(t) \in Nat /\ Cardinality(t) <= k
      BY <1>2
    <3>2. Cardinality(t) <= k + 1
      BY <2>1, <3>1
    <3>3. QED
      BY <3>1, <3>2, Zenon DEF Upto
  <2>5. \A t \in Upto(k) : H[t] = G[t]
    BY <2>2, <2>4 DEF Folds
  <2>6. H \in [Upto(k + 1) -> V]
    BY <2>3 DEF Steps
  <2>7. Folds(H, k + 1)
    <3> SUFFICES ASSUME NEW t \in Upto(k + 1)
                 PROVE  H[t] = IF t = {} THEN b ELSE step[ch[t]][H[t \ {ch[t]}]]
      BY DEF Folds
    <3>1. CASE t = {}
      BY <3>1
    <3>2. CASE t # {}
      <4>1. H[t \ {ch[t]}] = G[t \ {ch[t]}]
        BY <2>3, <2>5, <3>2
      <4>2. QED
        BY <3>2, <4>1
    <3>3. QED
      BY <3>1, <3>2
  <2> HIDE DEF H
  <2>8. k + 1 \in Nat
    BY <2>1
  <2>9. QED
    BY <2>6, <2>7, <2>8, Zenon DEF P
<1>6. P = Nat
  <2>1. P \in SUBSET Nat
    BY DEF P
  <2>2. QED
    BY <1>4, <1>5, <2>1, NatSetInduction
<1>7. Cardinality(D) \in Nat /\ Upto(Cardinality(D)) = SUBSET D
  <2>1. \A t \in SUBSET D : Cardinality(t) <= Cardinality(D)
    BY FS_Subset
  <2>2. QED
    BY <1>1, <2>1 DEF Upto
<1>8. PICK G \in [SUBSET D -> V] : Folds(G, Cardinality(D))
  BY <1>6, <1>7 DEF P
<1>9. IsFold(G, D, b, ch, step)
  BY <1>7, <1>8 DEF Folds, IsFold
<1>10. QED
  BY <1>9

\* The last of the first n positions, which FoldLeft peels off first.
LEMMA MaxOfPrefix ==
  ASSUME NEW n \in Nat, n # 0
  PROVE  Max(1..n) = n /\ (1..n) \ {n} = 1..(n - 1)
<1>1. n \in 1..n /\ \A y \in 1..n : n >= y
  OBVIOUS
<1>2. \A x \in 1..n : (\A y \in 1..n : x >= y) => x = n
  OBVIOUS
<1>3. Max(1..n) = n
  BY <1>1, <1>2 DEF Max
<1>4. QED
  BY <1>3

\* FoldLeft takes the greatest position left: there is one.
LEMMA MaxOfSet ==
  ASSUME NEW n \in Nat, NEW t \in SUBSET (1..n), t # {}
  PROVE  Max(t) \in t
<1>1. \E x \in t : \A y \in t : x >= y
  <2> DEFINE Bounds == {k \in Nat : \A y \in t : y <= k}
  <2>1. n \in Bounds
    OBVIOUS
  <2>2. PICK m \in Bounds : \A k \in Bounds : m <= k
    BY <2>1, LeastNat
  <2>3. m \in t
    <3> SUFFICES ASSUME m \notin t PROVE FALSE
      OBVIOUS
    <3>1. \A y \in t : y \in 1..n /\ y <= m /\ y # m
      BY <2>2
    <3>2. m # 0 /\ m - 1 \in Bounds
      <4>1. PICK y \in t : TRUE
        OBVIOUS
      <4>2. m # 0
        BY <3>1, <4>1
      <4>3. QED
        BY <3>1, <4>2
    <3>3. QED
      BY <2>2, <3>2
  <2>4. QED
    BY <2>2, <2>3
<1>2. QED
  BY <1>1 DEF Max

\* A function that starts with b and takes in one operation at a time.
Replays(f, b, s) ==
  /\ DOMAIN f = 0..Len(s)
  /\ f[0] = b
  /\ \A k \in 1..Len(s) : f[k] = Apply(f[k - 1], s[k])

\* Documents of V stay in V under the operations of O.
ApplyStaysIn(V, O) == \A d \in V : \A op \in O : Apply(d, op) \in V

\* The document b with the operations of s applied.
Replayed(b, s) == FoldLeft(Apply, b, s)

\* Applying a list of operations is applying one after the other.
LEMMA ApplyFolds ==
  ASSUME NEW V, NEW b \in V, NEW O, NEW s \in Seq(O),
         ApplyStaysIn(V, O)
  PROVE  \E f : Replays(f, b, s) /\ f[Len(s)] = Replayed(b, s)
<1> DEFINE D == 1..Len(s)
           ch == [t \in SUBSET D |-> Max(t)]
           step == [x \in D |-> [v \in V |-> Apply(v, s[x])]]
           IsIter(G) == G = [t \in SUBSET D |->
                                IF t = {} THEN b ELSE Apply(G[t \ {Max(t)}], s[Max(t)])]
<1>1. Len(s) \in Nat /\ DOMAIN s = D /\ \A x \in D : s[x] \in O
  OBVIOUS
<1>2. IsFiniteSet(D)
  BY <1>1, FS_Interval
<1>3. \A t \in SUBSET D : t # {} => Max(t) \in t /\ Max(t) \in D
  BY <1>1, MaxOfSet
<1>4. Chooses(ch, D)
  BY <1>3 DEF Chooses
<1>5. \A x \in D, v \in V : step[x][v] = Apply(v, s[x]) /\ Apply(v, s[x]) \in V
  BY <1>1 DEF ApplyStaysIn
<1>6. Replayed(b, s) = (CHOOSE G : IsIter(G))[D]
  BY <1>1, Zenon DEF Replayed, FoldLeft, MapThenFoldSet
<1>7. Steps(step, D, V)
  BY <1>5 DEF Steps
<1> HIDE DEF D, ch, step
<1>8. PICK G0 \in [SUBSET D -> V] : IsFold(G0, D, b, ch, step)
  <2> HIDE DEF IsIter
  <2>1. QED
    BY <1>2, <1>4, <1>7, FoldExists
<1>9. IsIter(G0)
  <2>1. ASSUME NEW t \in SUBSET D, t # {}
        PROVE  step[ch[t]][G0[t \ {ch[t]}]] = Apply(G0[t \ {Max(t)}], s[Max(t)])
    <3>1. Max(t) \in D /\ ch[t] = Max(t) /\ t \ {Max(t)} \in SUBSET D
      BY <1>3, <2>1 DEF ch
    <3>2. QED
      BY <1>5, <3>1
  <2>2. \A t \in SUBSET D : G0[t] = IF t = {} THEN b ELSE Apply(G0[t \ {Max(t)}], s[Max(t)])
    BY <1>8, <2>1 DEF IsFold
  <2>3. QED
    BY <2>2
<1> DEFINE G == CHOOSE G : IsIter(G)
           f == [k \in 0..Len(s) |-> G[1..k]]
<1>10. IsIter(G)
  <2> HIDE DEF IsIter
  <2>1. QED
    BY <1>9, Zenon
<1>11. \A t \in SUBSET D : G[t] = IF t = {} THEN b ELSE Apply(G[t \ {Max(t)}], s[Max(t)])
  <2> HIDE DEF G
  <2>1. QED
    BY <1>10
<1> HIDE DEF G, IsIter
<1>12. \A k \in 0..Len(s) : f[k] = G[1..k] /\ 1..k \in SUBSET D
  BY <1>1 DEF D
<1>13. f[0] = b
  <2>1. 0 \in 0..Len(s) /\ 1..0 = {}
    BY <1>1
  <2>2. G[{}] = b
    BY <1>11, <1>12, <2>1
  <2>3. QED
    BY <1>12, <2>1, <2>2
<1>14. ASSUME NEW k \in 1..Len(s) PROVE f[k] = Apply(f[k - 1], s[k])
  <2>1. 1..k # {} /\ k \in Nat /\ k # 0 /\ k \in 0..Len(s) /\ k - 1 \in 0..Len(s)
    <3> HIDE DEF f
    <3>1. QED
      BY SMTT(60), <1>1
  <2>2. Max(1..k) = k /\ (1..k) \ {k} = 1..(k - 1)
    BY <2>1, MaxOfPrefix
  <2>3. G[1..k] = Apply(G[(1..k) \ {Max(1..k)}], s[Max(1..k)])
    BY <1>11, <1>12, <2>1, Zenon
  <2>4. QED
    BY <1>12, <2>1, <2>2, <2>3
<1>15. f[Len(s)] = Replayed(b, s)
  BY <1>1, <1>6, <1>12 DEF G, D
<1>16. Replays(f, b, s)
  <2>1. DOMAIN f = 0..Len(s)
    OBVIOUS
  <2> HIDE DEF f
  <2>2. QED
    BY <1>13, <1>14, <2>1 DEF Replays
<1>17. QED
  BY <1>15, <1>16

\* There is one way to replay.
LEMMA ReplaysAreOne ==
  ASSUME NEW b, NEW s, Len(s) \in Nat, NEW f, NEW g, Replays(f, b, s), Replays(g, b, s)
  PROVE  \A k \in 0..Len(s) : f[k] = g[k]
<1> DEFINE P == {k \in Nat : k <= Len(s) => f[k] = g[k]}
<1>1. 0 \in P
  BY DEF Replays
<1>2. ASSUME NEW k \in P PROVE k + 1 \in P
  <2>1. CASE k + 1 <= Len(s)
    <3>1. k + 1 \in 1..Len(s) /\ k <= Len(s) /\ (k + 1) - 1 = k
      BY <2>1
    <3>2. f[k + 1] = Apply(f[k], s[k + 1]) /\ g[k + 1] = Apply(g[k], s[k + 1])
      BY <3>1 DEF Replays
    <3>3. QED
      BY <3>1, <3>2
  <2>2. QED
    BY <2>1
<1>3. P = Nat
  <2>1. P \in SUBSET Nat
    OBVIOUS
  <2> HIDE DEF P
  <2>2. QED
    BY <1>1, <1>2, <2>1, NatSetInduction
<1>4. QED
  BY <1>3

\* Replaying stays in a set the operations do not lead out of.
LEMMA ReplaysStay ==
  ASSUME NEW V, NEW b \in V, NEW O, NEW s \in Seq(O), ApplyStaysIn(V, O), NEW f, Replays(f, b, s)
  PROVE  \A k \in 0..Len(s) : f[k] \in V
<1> DEFINE P == {k \in Nat : k <= Len(s) => f[k] \in V}
<1>1. 0 \in P
  BY DEF Replays
<1>2. ASSUME NEW k \in P PROVE k + 1 \in P
  <2>1. CASE k + 1 <= Len(s)
    <3>1. k + 1 \in 1..Len(s) /\ k <= Len(s) /\ (k + 1) - 1 = k /\ s[k + 1] \in O
      BY <2>1
    <3>2. f[k + 1] = Apply(f[k], s[k + 1])
      BY <3>1 DEF Replays
    <3>3. QED
      BY <3>1, <3>2 DEF ApplyStaysIn
  <2>2. QED
    BY <2>1
<1>3. P = Nat
  <2>1. P \in SUBSET Nat
    OBVIOUS
  <2> HIDE DEF P
  <2>2. QED
    BY <1>1, <1>2, <2>1, NatSetInduction
<1>4. QED
  BY <1>3

\* Nothing to apply leaves what there was.
LEMMA FoldApplyEmpty ==
  ASSUME NEW V, NEW b \in V, NEW O, ApplyStaysIn(V, O)
  PROVE  Replayed(b, << >>) = b
<1>1. << >> \in Seq(O)
  OBVIOUS
<1>2. PICK f : Replays(f, b, << >>) /\ f[Len(<< >>)] = Replayed(b, << >>)
  BY <1>1, ApplyFolds
<1>3. QED
  BY <1>2 DEF Replays

\* Replaying from a document of V ends in V.
LEMMA FoldApplyStays ==
  ASSUME NEW V, NEW b \in V, NEW O, NEW s \in Seq(O), ApplyStaysIn(V, O)
  PROVE  Replayed(b, s) \in V
<1>1. PICK f : Replays(f, b, s) /\ f[Len(s)] = Replayed(b, s)
  BY ApplyFolds
<1>2. Len(s) \in 0..Len(s)
  BY LenProperties
<1>3. QED
  BY <1>1, <1>2, ReplaysStay

\* applyOperation on what a load has built so far is what a load of the longer
\* table builds.
LEMMA FoldApplyAppend ==
  ASSUME NEW V, NEW b \in V, NEW O, NEW s \in Seq(O), NEW e \in O, ApplyStaysIn(V, O)
  PROVE  Replayed(b, Append(s, e)) = Apply(Replayed(b, s), e)
<1>1. PICK f : Replays(f, b, s) /\ f[Len(s)] = Replayed(b, s)
  BY ApplyFolds
<1> DEFINE t == Append(s, e)
<1>2. /\ t \in Seq(O) /\ Len(s) \in Nat /\ Len(t) = Len(s) + 1
      /\ t[Len(s) + 1] = e /\ \A k \in 1..Len(s) : t[k] = s[k]
  OBVIOUS
<1> HIDE DEF t
<1>3. PICK g : Replays(g, b, t) /\ g[Len(t)] = Replayed(b, t)
  BY <1>2, ApplyFolds
<1> DEFINE h == [k \in 0..Len(s) |-> g[k]]
<1>4. Replays(h, b, s)
  <2>1. h[0] = b
    BY <1>2, <1>3 DEF Replays
  <2>2. ASSUME NEW k \in 1..Len(s) PROVE h[k] = Apply(h[k - 1], s[k])
    <3>1. k \in 1..Len(t) /\ k \in 0..Len(s) /\ k - 1 \in 0..Len(s)
      BY <1>2
    <3>2. g[k] = Apply(g[k - 1], t[k]) /\ t[k] = s[k]
      BY <1>2, <1>3, <3>1 DEF Replays
    <3>3. QED
      BY <3>1, <3>2
  <2>3. QED
    BY <2>1, <2>2 DEF Replays
<1>5. h[Len(s)] = f[Len(s)] /\ h[Len(s)] = g[Len(s)]
  BY <1>1, <1>2, <1>4, ReplaysAreOne
<1>6. g[Len(t)] = Apply(g[Len(s)], e)
  <2>1. Len(t) \in 1..Len(t) /\ Len(t) - 1 = Len(s) /\ t[Len(t)] = e
    BY <1>2
  <2>2. QED
    BY <1>3, <2>1 DEF Replays
<1>7. QED
  BY <1>1, <1>3, <1>5, <1>6 DEF t

\* Induction over the subsets of a finite set, one choice removed at a time.
LEMMA SubsetInduction ==
  ASSUME NEW D, IsFiniteSet(D), NEW ch, Chooses(ch, D), NEW Q \in SUBSET SUBSET D, {} \in Q,
         \A t \in SUBSET D : t # {} /\ t \ {ch[t]} \in Q => t \in Q
  PROVE  Q = SUBSET D
<1> SUFFICES ASSUME (SUBSET D) \ Q # {} PROVE FALSE
  OBVIOUS
<1> DEFINE Sizes == {Cardinality(t) : t \in (SUBSET D) \ Q}
<1>1. \A t \in SUBSET D : IsFiniteSet(t) /\ Cardinality(t) \in Nat
  BY FS_Subset, FS_CardinalityType
<1>2. Sizes \in SUBSET Nat /\ Sizes # {}
  BY <1>1
<1>3. PICK m \in Sizes : \A k \in Sizes : m <= k
  BY <1>2, LeastNat
<1>4. PICK t \in (SUBSET D) \ Q : m = Cardinality(t)
  BY <1>3
<1>5. t # {} /\ t \in SUBSET D /\ t \notin Q
  BY <1>4
<1>6. ch[t] \in t /\ IsFiniteSet(t) /\ Cardinality(t) \in Nat
  BY <1>1, <1>5 DEF Chooses
<1>7. Cardinality(t \ {ch[t]}) = Cardinality(t) - 1 /\ t \ {ch[t]} \in SUBSET D
  BY ZenonT(60), <1>5, <1>6, FS_RemoveElement
<1>8. t \ {ch[t]} \in (SUBSET D) \ Q
  BY <1>5, <1>7
<1>9. Cardinality(t) - 1 \in Sizes
  BY <1>7, <1>8
<1> HIDE DEF Sizes
<1>10. Cardinality(t) <= Cardinality(t) - 1
  BY <1>3, <1>4, <1>9
<1>11. QED
  BY <1>6, <1>10

Some(t) == CHOOSE x \in t : TRUE

\* Totals[t]: what the members of t add to the sum.
Totals(G, f, S) == \A t \in SUBSET S : G[t] = IF t = {} THEN 0 ELSE f[Some(t)] + G[t \ {Some(t)}]

\* FoldFunction's sum takes in one member after the other.
LEMMA SumFolds ==
  ASSUME NEW S, IsFiniteSet(S), NEW f \in [S -> Nat]
  PROVE  \E G : Totals(G, f, S) /\ FoldFunction(+, 0, f) = G[S]
<1> DEFINE ch == [t \in SUBSET S |-> Some(t)]
           step == [x \in S |-> [v \in Nat |-> f[x] + v]]
           IsIter(G) == G = [t \in SUBSET S |->
                                IF t = {} THEN 0
                                ELSE f[CHOOSE x \in t : TRUE] + G[t \ {CHOOSE x \in t : TRUE}]]
<1>1. Chooses(ch, S)
  BY DEF Chooses, Some
<1>2. Steps(step, S, Nat) /\ \A x \in S, v \in Nat : step[x][v] = f[x] + v
  BY DEF Steps
<1>3. FoldFunction(+, 0, f) = (CHOOSE G : IsIter(G))[S]
  <2>1. DOMAIN f = S
    OBVIOUS
  <2>2. QED
    BY <2>1, Zenon DEF FoldFunction, FoldFunctionOnSet, MapThenFoldSet
<1> HIDE DEF step, ch
<1>4. PICK G0 \in [SUBSET S -> Nat] : IsFold(G0, S, 0, ch, step)
  BY <1>1, <1>2, FoldExists
<1>5. Totals(G0, f, S)
  <2>1. ASSUME NEW t \in SUBSET S, t # {}
        PROVE  step[ch[t]][G0[t \ {ch[t]}]] = f[Some(t)] + G0[t \ {Some(t)}]
    <3>1. ch[t] = Some(t) /\ Some(t) \in S /\ t \ {Some(t)} \in SUBSET S
      BY <2>1 DEF ch, Some
    <3>2. QED
      BY <1>2, <3>1
  <2>2. QED
    BY <1>4, <2>1 DEF IsFold, Totals
<1>6. IsIter(G0)
  BY <1>5 DEF Totals, Some
<1> DEFINE G == CHOOSE G : IsIter(G)
<1>7. IsIter(G)
  <2> HIDE DEF IsIter
  <2>1. QED
    BY <1>6, Zenon
<1>8. Totals(G, f, S)
  <2> HIDE DEF G
  <2>1. QED
    BY <1>7 DEF Totals, Some
<1>9. QED
  BY <1>3, <1>8, Zenon

\* A total of naturals is a natural.
LEMMA SumIsNat ==
  ASSUME NEW S, IsFiniteSet(S), NEW f \in [S -> Nat]
  PROVE  FoldFunction(+, 0, f) \in Nat
<1> DEFINE ch == [t \in SUBSET S |-> Some(t)]
<1>1. PICK G : Totals(G, f, S) /\ FoldFunction(+, 0, f) = G[S]
  BY SumFolds
<1>2. Chooses(ch, S) /\ \A t \in SUBSET S : ch[t] = Some(t)
  BY DEF Chooses, Some
<1> HIDE DEF ch
<1> DEFINE Q == {t \in SUBSET S : G[t] \in Nat}
<1>3. {} \in Q
  <2>1. G[{}] = 0 /\ {} \in SUBSET S
    BY <1>1 DEF Totals
  <2>2. QED
    BY <2>1
<1>4. ASSUME NEW t \in SUBSET S, t # {}, t \ {ch[t]} \in Q PROVE t \in Q
  <2>1. ch[t] = Some(t) /\ Some(t) \in S
    BY <1>2, <1>4 DEF Some
  <2>2. G[t] = f[Some(t)] + G[t \ {Some(t)}]
    BY <1>1, <1>4 DEF Totals
  <2>3. G[t \ {Some(t)}] \in Nat
    BY <1>4, <2>1
  <2>4. QED
    BY <2>1, <2>2, <2>3
<1>5. Q = SUBSET S
  <2>1. Q \in SUBSET SUBSET S
    OBVIOUS
  <2> HIDE DEF Q
  <2>2. QED
    BY <1>2, <1>3, <1>4, <2>1, SubsetInduction
<1>6. S \in Q
  BY <1>5
<1>7. QED
  BY <1>1, <1>6

\* A total is one more when one of its parts is.
LEMMA SumIncrement ==
  ASSUME NEW S, IsFiniteSet(S), NEW f \in [S -> Nat], NEW c \in S
  PROVE  FoldFunction(+, 0, [f EXCEPT ![c] = @ + 1]) = FoldFunction(+, 0, f) + 1
<1> DEFINE g == [f EXCEPT ![c] = @ + 1]
           ch == [t \in SUBSET S |-> Some(t)]
<1>1. g \in [S -> Nat] /\ g[c] = f[c] + 1 /\ \A x \in S : x # c => g[x] = f[x]
  OBVIOUS
<1> HIDE DEF g
<1>2. PICK G : Totals(G, f, S) /\ FoldFunction(+, 0, f) = G[S]
  BY SumFolds
<1>3. PICK H : Totals(H, g, S) /\ FoldFunction(+, 0, g) = H[S]
  BY <1>1, SumFolds
<1>4. Chooses(ch, S) /\ \A t \in SUBSET S : ch[t] = Some(t)
  BY DEF Chooses, Some
<1> HIDE DEF ch
<1> DEFINE Q == {t \in SUBSET S : G[t] \in Nat /\ H[t] = IF c \in t THEN G[t] + 1 ELSE G[t]}
<1>5. {} \in Q
  <2>1. G[{}] = 0 /\ H[{}] = 0 /\ {} \in SUBSET S /\ c \notin {}
    BY <1>2, <1>3 DEF Totals
  <2>2. QED
    BY <2>1
<1>6. ASSUME NEW t \in SUBSET S, t # {}, t \ {ch[t]} \in Q PROVE t \in Q
  <2>1. ch[t] = Some(t) /\ Some(t) \in t /\ Some(t) \in S
    BY <1>4, <1>6 DEF Some
  <2>2. /\ G[t] = f[Some(t)] + G[t \ {Some(t)}]
        /\ H[t] = g[Some(t)] + H[t \ {Some(t)}]
    BY <1>2, <1>3, <1>6 DEF Totals
  <2>3. /\ G[t \ {Some(t)}] \in Nat
        /\ H[t \ {Some(t)}] = IF c \in t \ {Some(t)} THEN G[t \ {Some(t)}] + 1 ELSE G[t \ {Some(t)}]
    BY <1>6, <2>1
  <2>4. f[Some(t)] \in Nat /\ g[Some(t)] = IF Some(t) = c THEN f[Some(t)] + 1 ELSE f[Some(t)]
    BY <1>1, <2>1
  <2>5. G[t] \in Nat
    BY <2>2, <2>3, <2>4
  <2>6. H[t] = IF c \in t THEN G[t] + 1 ELSE G[t]
    BY <2>1, <2>2, <2>3, <2>4
  <2>7. QED
    BY <2>5, <2>6
<1>7. Q = SUBSET S
  <2>1. Q \in SUBSET SUBSET S
    OBVIOUS
  <2> HIDE DEF Q
  <2>2. QED
    BY <1>4, <1>5, <1>6, <2>1, SubsetInduction
<1>8. S \in Q
  BY <1>7
<1>9. QED
  BY <1>2, <1>3, <1>8 DEF g

\* A finite set of naturals has a greatest member.
LEMMA MaxOfNats ==
    ASSUME NEW T, IsFiniteSet(T)
    PROVE  T \subseteq Nat /\ T # {} => Max(T) \in T /\ \A n \in T : n <= Max(T)
<1> DEFINE Bounded(U) == U = {} \/ \E m \in U : \A n \in U : n <= m
           Q == {U \in SUBSET T : Bounded(U)}
           ch == [U \in SUBSET T |-> Some(U)]
<1>1. {} \in Q /\ Q \in SUBSET SUBSET T
  OBVIOUS
<1>2. Chooses(ch, T)
  BY DEF Chooses, Some
<1>3. ASSUME T \subseteq Nat, NEW U \in Q, NEW x \in T PROVE U \cup {x} \in Q
  <2>1. CASE U = {}
    BY <1>3, <2>1
  <2>2. CASE U # {}
    <3>1. PICK m \in U : \A n \in U : n <= m
      BY <2>2
    <3>2. x \in Nat /\ m \in Nat /\ \A n \in U : n \in Nat
      BY <1>3
    <3>3. CASE x <= m
      BY <3>1, <3>3
    <3>4. CASE ~(x <= m)
      BY <3>1, <3>2, <3>4
    <3>5. QED
      BY <3>3, <3>4
  <2>3. QED
    BY <2>1, <2>2
<1>4. ASSUME T \subseteq Nat PROVE Q = SUBSET T
  <2> HIDE DEF Q
  <2>1. ASSUME NEW U \in SUBSET T, U # {}, U \ {ch[U]} \in Q PROVE U \in Q
    <3>1. ch[U] \in T /\ U = (U \ {ch[U]}) \cup {ch[U]}
      BY <1>2, <2>1 DEF Chooses
    <3> HIDE DEF ch
    <3>2. QED
      BY <1>3, <1>4, <2>1, <3>1
  <2> HIDE DEF ch
  <2>2. QED
    BY <1>1, <1>2, <2>1, SubsetInduction
<1>5. QED
  <2> SUFFICES ASSUME T \subseteq Nat, T # {} PROVE Max(T) \in T /\ \A n \in T : n <= Max(T)
    OBVIOUS
  <2>1. PICK m \in T : \A n \in T : n <= m
    BY <1>4
  <2>2. m \in T /\ \A n \in T : m >= n
    BY <2>1
  <2>3. Max(T) \in T /\ \A n \in T : Max(T) >= n
    BY <2>2 DEF Max
  <2>4. QED
    BY <2>3

\* The clock a replica counts up from, the greatest in its list, is one.
LEMMA GreatestClock ==
  ASSUME NEW S, \A u \in S : u.clock \in Nat, NEW L \in Seq(S)
  PROVE  /\ Max({u.clock : u \in ToSet(L)} \cup {0}) \in Nat
         /\ \A u \in ToSet(L) : u.clock <= Max({v.clock : v \in ToSet(L)} \cup {0})
<1> DEFINE T == {u.clock : u \in ToSet(L)} \cup {0}
<1>1. DOMAIN L = 1..Len(L) /\ Len(L) \in Nat
  OBVIOUS
<1>2. ToSet(L) \subseteq S
  BY <1>1 DEF ToSet
<1>3. T \subseteq Nat /\ T # {}
  BY <1>2
<1>4. IsFiniteSet(T)
  <2> DEFINE C == {u.clock : u \in ToSet(L)}
             f == [i \in 1..Len(L) |-> L[i].clock]
  <2>1. f \in Surjection(1..Len(L), C)
    BY <1>1 DEF ToSet, Surjection
  <2>2. IsFiniteSet(1..Len(L))
    BY <1>1, FS_Interval
  <2> HIDE DEF C, f
  <2>3. IsFiniteSet(C)
    BY <2>1, <2>2, FS_Surjection
  <2>4. QED
    BY <2>3, FS_AddElement DEF C
<1>5. \A u \in ToSet(L) : u.clock \in T
  OBVIOUS
<1> HIDE DEF T
<1>6. Max(T) \in T /\ \A n \in T : n <= Max(T)
  BY <1>3, <1>4, MaxOfNats
<1>7. QED
  BY <1>3, <1>5, <1>6 DEF T

\* None of its parts is above a total.
LEMMA PartsAreBelow ==
  ASSUME NEW S, IsFiniteSet(S), NEW f \in [S -> Nat], NEW c \in S
  PROVE  f[c] <= FoldFunction(+, 0, f)
<1> DEFINE ch == [t \in SUBSET S |-> Some(t)]
<1>1. PICK G : Totals(G, f, S) /\ FoldFunction(+, 0, f) = G[S]
  BY SumFolds
<1>2. Chooses(ch, S) /\ \A t \in SUBSET S : ch[t] = Some(t)
  BY DEF Chooses, Some
<1> HIDE DEF ch
<1> DEFINE Q == {t \in SUBSET S : G[t] \in Nat /\ (c \in t => f[c] <= G[t])}
<1>3. {} \in Q
  <2>1. G[{}] = 0 /\ {} \in SUBSET S
    BY <1>1 DEF Totals
  <2>2. QED
    BY <2>1
<1>4. ASSUME NEW t \in SUBSET S, t # {}, t \ {ch[t]} \in Q PROVE t \in Q
  <2>1. ch[t] = Some(t) /\ Some(t) \in S /\ f[Some(t)] \in Nat /\ f[c] \in Nat
    BY <1>2, <1>4 DEF Some
  <2>2. G[t] = f[Some(t)] + G[t \ {Some(t)}]
    BY <1>1, <1>4 DEF Totals
  <2>3. G[t \ {Some(t)}] \in Nat /\ (c \in t \ {Some(t)} => f[c] <= G[t \ {Some(t)}])
    BY <1>4, <2>1
  <2>4. CASE c = Some(t)
    BY <2>1, <2>2, <2>3, <2>4
  <2>5. CASE c # Some(t)
    BY <2>1, <2>2, <2>3, <2>5
  <2>6. QED
    BY <2>4, <2>5
<1>5. Q = SUBSET S
  <2>1. Q \in SUBSET SUBSET S
    OBVIOUS
  <2> HIDE DEF Q
  <2>2. QED
    BY <1>2, <1>3, <1>4, <2>1, SubsetInduction
<1>6. S \in Q
  BY <1>5
<1>7. QED
  BY <1>1, <1>6

\* Appending adds one element.
LEMMA AppendElements ==
  ASSUME NEW S, NEW s \in Seq(S), NEW e \in S
  PROVE  /\ Append(s, e) \in Seq(S) /\ Len(Append(s, e)) = Len(s) + 1
         /\ ToSet(Append(s, e)) = ToSet(s) \cup {e}
<1>1. /\ Append(s, e) \in Seq(S) /\ Len(Append(s, e)) = Len(s) + 1 /\ Len(s) \in Nat
      /\ \A i \in 1..Len(s) : Append(s, e)[i] = s[i]
      /\ Append(s, e)[Len(s) + 1] = e
  OBVIOUS
<1>2. ToSet(Append(s, e)) = {Append(s, e)[i] : i \in 1..(Len(s) + 1)} /\ ToSet(s) = {s[i] : i \in 1..Len(s)}
  BY <1>1 DEF ToSet
<1>3. QED
  BY <1>1, <1>2

\* A sequence's first element and the others.
LEMMA HeadAndTail ==
    ASSUME NEW S, NEW s \in Seq(S), s # << >>
    PROVE  /\ Head(s) \in S /\ Tail(s) \in Seq(S)
           /\ Head(s) \in ToSet(s) /\ ToSet(s) = {Head(s)} \cup ToSet(Tail(s))
<1>1. /\ Len(s) \in Nat /\ Len(s) # 0 /\ Head(s) = s[1] /\ Tail(s) \in Seq(S)
      /\ DOMAIN s = 1..Len(s) /\ DOMAIN Tail(s) = 1..(Len(s) - 1) /\ \A i \in 1..(Len(s) - 1) : Tail(s)[i] = s[i + 1]
  OBVIOUS
<1>2. ToSet(s) = {s[i] : i \in 1..Len(s)} /\ ToSet(Tail(s)) = {Tail(s)[i] : i \in 1..(Len(s) - 1)}
  BY <1>1 DEF ToSet
<1>3. \A i \in 1..Len(s) : i = 1 \/ (i - 1 \in 1..(Len(s) - 1) /\ (i - 1) + 1 = i)
  BY <1>1
<1>4. \A i \in 1..(Len(s) - 1) : i + 1 \in 1..Len(s)
  BY <1>1
<1>5. 1 \in 1..Len(s)
  BY <1>1
<1>6. \A i \in 1..Len(s) : s[i] \in {s[1]} \cup ToSet(Tail(s))
  <2> SUFFICES ASSUME NEW i \in 1..Len(s), i # 1 PROVE s[i] \in ToSet(Tail(s))
    OBVIOUS
  <2>1. Tail(s)[i - 1] = s[i] /\ i - 1 \in 1..(Len(s) - 1)
    BY <1>1, <1>3
  <2>2. QED
    BY <1>2, <2>1
<1>7. \A e \in ToSet(Tail(s)) : e \in ToSet(s)
  BY <1>1, <1>2, <1>4
<1>8. QED
  BY <1>1, <1>2, <1>5, <1>6, <1>7

\* Appending a sequence adds its elements.
LEMMA ConcatElements ==
    ASSUME NEW S, NEW s \in Seq(S), NEW t \in Seq(S)
    PROVE  s \o t \in Seq(S) /\ ToSet(s \o t) = ToSet(s) \cup ToSet(t)
<1>1. /\ s \o t \in Seq(S) /\ Len(s) \in Nat /\ Len(t) \in Nat /\ Len(s \o t) = Len(s) + Len(t)
      /\ \A i \in 1..(Len(s) + Len(t)) : (s \o t)[i] = IF i <= Len(s) THEN s[i] ELSE t[i - Len(s)]
  BY ConcatProperties
<1>2. /\ ToSet(s \o t) = {(s \o t)[i] : i \in 1..(Len(s) + Len(t))}
      /\ ToSet(s) = {s[i] : i \in 1..Len(s)} /\ ToSet(t) = {t[i] : i \in 1..Len(t)}
  BY <1>1 DEF ToSet
<1>3. \A i \in 1..(Len(s) + Len(t)) : (s \o t)[i] \in ToSet(s) \cup ToSet(t)
  <2> SUFFICES ASSUME NEW i \in 1..(Len(s) + Len(t)) PROVE (s \o t)[i] \in ToSet(s) \cup ToSet(t)
    OBVIOUS
  <2>1. CASE i <= Len(s)
    BY <1>1, <1>2, <2>1
  <2>2. CASE i > Len(s)
    <3>1. i - Len(s) \in 1..Len(t) /\ (s \o t)[i] = t[i - Len(s)]
      BY <1>1, <2>2
    <3>2. QED
      BY <1>2, <3>1
  <2>3. QED
    BY <1>1, <2>1, <2>2
<1>4. \A i \in 1..Len(s) : i \in 1..(Len(s) + Len(t)) /\ (s \o t)[i] = s[i]
  BY <1>1
<1>5. \A i \in 1..Len(t) : /\ i + Len(s) \in 1..(Len(s) + Len(t)) /\ ~(i + Len(s) <= Len(s))
                           /\ (i + Len(s)) - Len(s) = i
  BY <1>1
<1>6. \A i \in 1..Len(t) : (s \o t)[i + Len(s)] = t[i]
  BY <1>1, <1>5
<1>7. \A e \in ToSet(s) : e \in ToSet(s \o t)
  BY <1>2, <1>4
<1>8. \A e \in ToSet(t) : e \in ToSet(s \o t)
  <2> SUFFICES ASSUME NEW i \in 1..Len(t) PROVE t[i] \in ToSet(s \o t)
    BY <1>2
  <2>1. i + Len(s) \in 1..(Len(s) + Len(t)) /\ (s \o t)[i + Len(s)] = t[i]
    BY <1>5, <1>6
  <2>2. QED
    BY <1>2, <2>1
<1>9. \A e \in ToSet(s \o t) : e \in ToSet(s) \cup ToSet(t)
  BY <1>2, <1>3
<1>10. QED
  BY <1>1, <1>7, <1>8, <1>9

\* One more element at the end.
LEMMA LastElement ==
    ASSUME NEW S, NEW s \in Seq(S), NEW e \in S
    PROVE  s \o <<e>> \in Seq(S) /\ ToSet(s \o <<e>>) = ToSet(s) \cup {e}
<1>1. <<e>> \in Seq(S)
  OBVIOUS
<1>2. ToSet(<<e>>) = {e}
  BY DEF ToSet
<1>3. s \o <<e>> \in Seq(S) /\ ToSet(s \o <<e>>) = ToSet(s) \cup ToSet(<<e>>)
  BY ZenonT(60), <1>1, ConcatElements
<1>4. QED
  BY <1>2, <1>3

\* A sequence of elements of T, seen as one.
LEMMA SeqOfMembers ==
  ASSUME NEW S, NEW T, NEW seq \in Seq(S), \A i \in 1..Len(seq) : seq[i] \in T
  PROVE  seq \in Seq(T)
OBVIOUS

\* A function that starts with nothing and keeps one element at a time.
Keeps(f, s, X) ==
  /\ f[0] = << >>
  /\ \A k \in 1..Len(s) : f[k] = IF s[k] \in X THEN f[k - 1] ELSE Append(f[k - 1], s[k])

\* Leaving out elements is going through them one by one.
LEMMA OmitFolds ==
  ASSUME NEW S, NEW s \in Seq(S), NEW X
  PROVE  \E f : Keeps(f, s, X) /\ f[Len(s)] = Omit(s, X)
<1> DEFINE D == 1..Len(s)
           V == Seq(S)
           ch == [t \in SUBSET D |-> Max(t)]
           step == [x \in D |-> [v \in V |-> IF s[x] \in X THEN v ELSE Append(v, s[x])]]
           IsIter(G) == G = [t \in SUBSET D |->
                                IF t = {} THEN << >>
                                ELSE IF s[Max(t)] \in X THEN G[t \ {Max(t)}]
                                     ELSE Append(G[t \ {Max(t)}], s[Max(t)])]
<1>1. Len(s) \in Nat /\ DOMAIN s = D /\ \A x \in D : s[x] \in S
  OBVIOUS
<1>0. Len(s) \in Nat
  OBVIOUS
<1>2. IsFiniteSet(D)
  BY <1>1, FS_Interval
<1>3. \A t \in SUBSET D : t # {} => Max(t) \in t /\ Max(t) \in D
  BY <1>1, MaxOfSet
<1>4. Chooses(ch, D)
  BY <1>3 DEF Chooses
<1>5. \A x \in D, v \in V :
         /\ step[x][v] = IF s[x] \in X THEN v ELSE Append(v, s[x])
         /\ step[x][v] \in V
  BY <1>1
<1>6. Omit(s, X) = (CHOOSE G : IsIter(G))[D]
  BY <1>1, Zenon DEF Omit, FoldLeft, MapThenFoldSet
<1>7. Steps(step, D, V) /\ << >> \in V
  BY <1>5 DEF Steps
<1> HIDE DEF D, ch, step
<1>8. PICK G0 \in [SUBSET D -> V] : IsFold(G0, D, << >>, ch, step)
  <2> HIDE DEF V, IsIter
  <2>1. QED
    BY <1>2, <1>4, <1>7, FoldExists
<1>9. IsIter(G0)
  <2>1. ASSUME NEW t \in SUBSET D, t # {}
        PROVE  step[ch[t]][G0[t \ {ch[t]}]] =
                  IF s[Max(t)] \in X THEN G0[t \ {Max(t)}]
                  ELSE Append(G0[t \ {Max(t)}], s[Max(t)])
    <3>1. Max(t) \in D /\ ch[t] = Max(t) /\ t \ {Max(t)} \in SUBSET D
      BY <1>3, <2>1 DEF ch
    <3> HIDE DEF V, IsIter
    <3>2. QED
      BY <1>5, <3>1
  <2>2. \A t \in SUBSET D :
           G0[t] = IF t = {} THEN << >>
                   ELSE IF s[Max(t)] \in X THEN G0[t \ {Max(t)}]
                        ELSE Append(G0[t \ {Max(t)}], s[Max(t)])
    BY <1>8, <2>1 DEF IsFold
  <2>3. QED
    BY <2>2
<1> DEFINE G == CHOOSE G : IsIter(G)
           f == [k \in 0..Len(s) |-> G[1..k]]
<1>10. IsIter(G)
  <2> HIDE DEF IsIter
  <2>1. QED
    BY <1>9, Zenon
<1>11. \A t \in SUBSET D :
         G[t] = IF t = {} THEN << >>
                ELSE IF s[Max(t)] \in X THEN G[t \ {Max(t)}]
                     ELSE Append(G[t \ {Max(t)}], s[Max(t)])
  <2> HIDE DEF G
  <2>1. QED
    BY <1>10
<1> HIDE DEF G, IsIter
<1>12. \A k \in 0..Len(s) : f[k] = G[1..k] /\ 1..k \in SUBSET D
  BY <1>1 DEF D
<1>13. f[0] = << >>
  <2>1. 0 \in 0..Len(s) /\ 1..0 = {}
    BY <1>1
  <2>2. G[{}] = << >>
    BY <1>11, <1>12, <2>1
  <2>3. QED
    BY <1>12, <2>1, <2>2
<1>14. ASSUME NEW k \in 1..Len(s)
       PROVE  f[k] = IF s[k] \in X THEN f[k - 1] ELSE Append(f[k - 1], s[k])
  <2>1. 1..k # {} /\ k \in Nat /\ k # 0 /\ k \in 0..Len(s) /\ k - 1 \in 0..Len(s)
    <3> HIDE DEF f, V
    <3>1. k \in Nat /\ k # 0 /\ k \in 0..Len(s) /\ k - 1 \in 0..Len(s)
      BY <1>0
    <3>2. k \in 1..k
      BY <3>1
    <3>3. QED
      BY <3>1, <3>2
  <2>2. Max(1..k) = k /\ (1..k) \ {k} = 1..(k - 1)
    BY <2>1, MaxOfPrefix
  <2>3. G[1..k] = IF s[Max(1..k)] \in X THEN G[(1..k) \ {Max(1..k)}]
                  ELSE Append(G[(1..k) \ {Max(1..k)}], s[Max(1..k)])
    <3>1. 1..k \in SUBSET D
      BY <1>12, <2>1
    <3>2. QED
      BY <1>11, <2>1, <3>1
  <2>4. QED
    BY <1>12, <2>1, <2>2, <2>3
<1>15. f[Len(s)] = Omit(s, X)
  BY <1>1, <1>6, <1>12 DEF G, D
<1> HIDE DEF f
<1>16. Keeps(f, s, X)
  BY <1>13, <1>14 DEF Keeps
<1>17. QED
  BY <1>15, <1>16

\* What toText and OfflineQueue.acknowledge leave: the elements not left out.
LEMMA OmitElements ==
  ASSUME NEW S, NEW s \in Seq(S), NEW X
  PROVE  /\ Omit(s, X) \in Seq(S)
         /\ ToSet(Omit(s, X)) = ToSet(s) \ X
<1>1. Len(s) \in Nat /\ \A x \in 1..Len(s) : s[x] \in S
  OBVIOUS
<1>2. PICK f : Keeps(f, s, X) /\ f[Len(s)] = Omit(s, X)
  BY OmitFolds
<1>3. f[0] = << >> /\ \A k \in 1..Len(s) : f[k] = IF s[k] \in X THEN f[k - 1] ELSE Append(f[k - 1], s[k])
  BY <1>2 DEF Keeps
<1> DEFINE P == {k \in Nat : k <= Len(s) =>
                    /\ f[k] \in Seq(S)
                    /\ ToSet(f[k]) = {s[i] : i \in 1..k} \ X}
<1>4. 0 \in P
  <2>1. << >> \in Seq(S) /\ ToSet(<< >>) = {} /\ 1..0 = {}
    BY DEF ToSet
  <2>2. QED
    BY <1>3, <2>1
<1>5. ASSUME NEW k \in P PROVE k + 1 \in P
  <2> SUFFICES ASSUME k + 1 <= Len(s)
               PROVE  /\ f[k + 1] \in Seq(S)
                      /\ ToSet(f[k + 1]) = {s[i] : i \in 1..(k + 1)} \ X
    OBVIOUS
  <2>1. k \in Nat /\ k + 1 \in 1..Len(s) /\ k <= Len(s) /\ (k + 1) - 1 = k /\ s[k + 1] \in S
    BY <1>1
  <2>2. f[k] \in Seq(S) /\ ToSet(f[k]) = {s[i] : i \in 1..k} \ X
    BY <2>1
  <2>3. f[k + 1] = IF s[k + 1] \in X THEN f[k] ELSE Append(f[k], s[k + 1])
    BY <1>3, <2>1
  <2> HIDE DEF P
  <2>4. {s[i] : i \in 1..(k + 1)} = {s[i] : i \in 1..k} \cup {s[k + 1]}
    BY <2>1
  <2>5. ToSet(Append(f[k], s[k + 1])) = ToSet(f[k]) \cup {s[k + 1]}
    BY <2>1, <2>2, AppendElements
  <2>6. CASE s[k + 1] \in X
    <3>1. f[k + 1] = f[k]
      BY <2>3, <2>6
    <3>2. {s[i] : i \in 1..(k + 1)} \ X = {s[i] : i \in 1..k} \ X
      BY <2>4, <2>6
    <3>3. QED
      BY <2>2, <3>1, <3>2
  <2>7. CASE s[k + 1] \notin X
    <3>1. f[k + 1] = Append(f[k], s[k + 1])
      BY <2>3, <2>7
    <3>2. {s[i] : i \in 1..(k + 1)} \ X = ({s[i] : i \in 1..k} \ X) \cup {s[k + 1]}
      BY <2>4, <2>7
    <3>3. Append(f[k], s[k + 1]) \in Seq(S)
      BY <2>1, <2>2
    <3>4. QED
      BY <2>2, <2>5, <3>1, <3>2, <3>3
  <2>8. QED
    BY <2>6, <2>7
<1>6. P = Nat
  <2>1. P \in SUBSET Nat
    OBVIOUS
  <2> HIDE DEF P
  <2>2. QED
    BY <1>4, <1>5, <2>1, NatSetInduction
<1>7. f[Len(s)] \in Seq(S) /\ ToSet(f[Len(s)]) = {s[i] : i \in 1..Len(s)} \ X
  <2>1. Len(s) \in P
    <3> HIDE DEF P
    <3>1. QED
      BY <1>1, <1>6
  <2>2. QED
    BY <1>1, <2>1
<1>8. ToSet(s) = {s[i] : i \in 1..Len(s)}
  BY <1>1 DEF ToSet
<1> HIDE DEF P
<1>9. QED
  BY <1>2, <1>7, <1>8

----------------------------------------------------------------------------
(* UIDs and their order. *)

AllUids == UID(Nat \ {0})

\* The parts of a UID, the root's among them.
LEMMA UidFields ==
  ASSUME NEW u \in AllUids \cup {Root}
  PROVE  /\ u.clock \in Nat /\ u.site \in Nat
         /\ u = [clock |-> u.clock, site |-> u.site]
         /\ u \in AllUids <=> u.site # 0
<1>1. CASE u \in AllUids
  BY <1>1 DEF AllUids, UID
<1>2. CASE u = Root
  BY <1>2 DEF Root, AllUids, UID
<1>3. QED BY <1>1, <1>2

\* Any two different UIDs are ordered, one way only.
LEMMA LessIsTotal ==
  ASSUME NEW u \in AllUids \cup {Root}, NEW v \in AllUids \cup {Root}
  PROVE  /\ Less(u, v) \/ Less(v, u) \/ u = v
         /\ ~(Less(u, v) /\ Less(v, u))
         /\ ~Less(u, u)
<1>1. u.clock = v.clock /\ u.site = v.site => u = v
  BY UidFields
<1>2. /\ u.clock \in Nat /\ u.site \in Nat
      /\ v.clock \in Nat /\ v.site \in Nat
  BY UidFields
<1>3. QED BY <1>1, <1>2 DEF Less

\* The order is one.
LEMMA LessIsTransitive ==
  ASSUME NEW u \in AllUids, NEW v \in AllUids, NEW w \in AllUids, Less(u, v), Less(v, w)
  PROVE  Less(u, w)
<1>1. /\ u.clock \in Nat /\ u.site \in Nat
      /\ v.clock \in Nat /\ v.site \in Nat
      /\ w.clock \in Nat /\ w.site \in Nat
  BY UidFields
<1>2. QED BY <1>1 DEF Less

\* Site 0 is the root's only.
LEMMA RootIsNone == Root \notin AllUids
BY DEF Root, AllUids, UID

----------------------------------------------------------------------------
(* Well-placed lists. *)

AllInserts == [type : {"INSERT"}, uid : AllUids, after : AllUids \cup {Root}]

OneOpPerUid(ins) == \A o1, o2 \in ins : o1.uid = o2.uid => o1 = o2

NoRepeats(L) == \A i, j \in 1..Len(L) : L[i] = L[j] => i = j

LeftOf(L, a, j) == a = Root \/ \E k \in 1..(j - 1) : L[k] = a

Anchored(L, ins) ==
    \A i \in 1..Len(L) : \E op \in ins : op.uid = L[i] /\ LeftOf(L, op.after, i)

\* Between a character and its anchor stand only greater UIDs.
Sheltered(L, ins) ==
    \A op \in ins : \A i \in 1..Len(L) : \A j \in 1..(i - 1) :
        L[i] = op.uid /\ LeftOf(L, op.after, j) => Less(op.uid, L[j])

WellPlaced(L, ins) == NoRepeats(L) /\ Anchored(L, ins) /\ Sheltered(L, ins)

\* The scan keeps a list well placed.
LEMMA PlaceKeepsPlaced ==
  ASSUME NEW ins \in SUBSET AllInserts, OneOpPerUid(ins),
         NEW L \in Seq(AllUids), WellPlaced(L, ins),
         NEW op \in ins, Known(L, op.after), ~Holds(L, op.uid)
  PROVE  WellPlaced(Place(L, op.after, op.uid), ins)
<1> DEFINE x == op.uid
           a == op.after
           p == Position(L, a)
           k == ScanRight(L, p, x)
           M == Place(L, a, x)
           old(i) == IF i <= k THEN i ELSE i - 1
<1>1. x \in AllUids /\ a \in AllUids \cup {Root} /\ Len(L) \in Nat
  BY LenProperties DEF AllInserts
<1>2. /\ k \in p..Len(L) /\ k \in 0..Len(L)
      /\ \A j \in (p + 1)..k : Less(x, L[j])
      /\ k < Len(L) => ~Less(x, L[k + 1])
      /\ M \in Seq(AllUids) /\ Len(M) = Len(L) + 1
      /\ \A i \in 1..(Len(L) + 1) :
            M[i] = IF i <= k THEN L[i] ELSE IF i = k + 1 THEN x ELSE L[i - 1]
  BY <1>1, PlaceSplices
<1>3. /\ p \in 0..Len(L)
      /\ a = Root => p = 0
      /\ a # Root => p \in 1..Len(L) /\ L[p] = a
  BY <1>1, PositionProperties
<1>4. \A i \in 1..Len(L) : L[i] # x /\ L[i] \in AllUids
  <2>1. DOMAIN L = 1..Len(L)
    BY LenProperties
  <2>2. QED BY <2>1, ElementOfSeq DEF Holds, ToSet
<1>5. NoRepeats(L) /\ Anchored(L, ins) /\ Sheltered(L, ins)
  BY DEF WellPlaced
<1> HIDE DEF x, a, p, k, M
<1>6. \A i \in 1..(Len(L) + 1) :
         i # k + 1 => old(i) \in 1..Len(L) /\ M[i] = L[old(i)]
  BY <1>1, <1>2
<1>7. M[k + 1] = x /\ k + 1 \in 1..(Len(L) + 1)
  BY <1>1, <1>2
<1>8. \A i, j \in 1..(Len(L) + 1) :
         i # k + 1 /\ j # k + 1 => (i < j <=> old(i) < old(j))
  BY <1>1, <1>2
<1>9. \A i \in 1..Len(L) : \E n \in 1..(Len(L) + 1) : n # k + 1 /\ old(n) = i
  <2> TAKE i \in 1..Len(L)
  <2>1. CASE i <= k
    BY <2>1, <1>1, <1>2
  <2>2. CASE i > k
    <3>1. i + 1 \in 1..(Len(L) + 1) /\ i + 1 # k + 1 /\ old(i + 1) = i
      BY <2>2, <1>1, <1>2
    <3>2. QED BY <3>1
  <2>3. QED BY <2>1, <2>2, <1>2
<1> HIDE DEF old
<1>10. NoRepeats(M)
  <2> SUFFICES ASSUME NEW i \in 1..(Len(L) + 1), NEW j \in 1..(Len(L) + 1), M[i] = M[j]
               PROVE  i = j
    BY <1>2 DEF NoRepeats
  <2>1. CASE i = k + 1
    BY <2>1, <1>4, <1>6, <1>7
  <2>2. CASE j = k + 1
    BY <2>2, <1>4, <1>6, <1>7
  <2>3. CASE i # k + 1 /\ j # k + 1
    <3>1. old(i) = old(j)
      BY <2>3, <1>5, <1>6 DEF NoRepeats
    <3>2. old(i) \in 1..Len(L) /\ old(j) \in 1..Len(L)
      BY <2>3, <1>6
    <3>3. ~(i < j) /\ ~(j < i)
      BY <2>3, <3>1, <3>2, <1>8
    <3>4. QED BY <3>3, <1>1
  <2>4. QED BY <2>1, <2>2, <2>3
<1>11. ASSUME NEW i \in 1..(Len(L) + 1), i # k + 1, NEW b \in AllUids \cup {Root}
       PROVE  LeftOf(L, b, old(i)) => LeftOf(M, b, i)
  <2> SUFFICES ASSUME b # Root, NEW n \in 1..(old(i) - 1), L[n] = b
               PROVE  \E m \in 1..(i - 1) : M[m] = b
    BY DEF LeftOf
  <2>1. old(i) \in 1..Len(L) /\ n \in 1..Len(L)
    BY <1>1, <1>6, <1>11
  <2>2. PICK m \in 1..(Len(L) + 1) : m # k + 1 /\ old(m) = n
    BY <2>1, <1>9
  <2>3. m < i
    BY <2>1, <2>2, <1>8, <1>11
  <2>4. QED BY <2>2, <2>3, <1>6
<1>12. Anchored(M, ins)
  <2> SUFFICES ASSUME NEW i \in 1..(Len(L) + 1)
               PROVE  \E o \in ins : o.uid = M[i] /\ LeftOf(M, o.after, i)
    BY <1>2 DEF Anchored
  <2>1. CASE i = k + 1
    <3>1. a # Root => p \in 1..k /\ M[p] = a
      BY <1>1, <1>2, <1>3
    <3>2. LeftOf(M, a, i)
      BY <2>1, <3>1, <1>2 DEF LeftOf
    <3>3. QED BY <2>1, <3>2, <1>7 DEF x, a
  <2>2. CASE i # k + 1
    <3>1. PICK o \in ins : o.uid = L[old(i)] /\ LeftOf(L, o.after, old(i))
      BY <2>2, <1>5, <1>6 DEF Anchored
    <3>2. o.after \in AllUids \cup {Root}
      BY DEF AllInserts
    <3>3. QED BY <2>2, <3>1, <3>2, <1>6, <1>11
  <2>3. QED BY <2>1, <2>2
<1>13. Sheltered(M, ins)
  <2> SUFFICES ASSUME NEW o \in ins, NEW i \in 1..(Len(L) + 1), NEW j \in 1..(i - 1),
                      M[i] = o.uid, LeftOf(M, o.after, j)
               PROVE  Less(o.uid, M[j])
    BY <1>2 DEF Sheltered
  <2>1. j \in 1..(Len(L) + 1) /\ j < i
    BY <1>1
  <2>2. o.uid \in AllUids /\ o.after \in AllUids \cup {Root}
    BY DEF AllInserts
  <2>3. CASE i = k + 1
    <3>1. o = op
      BY <2>3, <1>7 DEF x, OneOpPerUid
    <3>2. j <= k /\ M[j] = L[j]
      BY <2>1, <2>3, <1>1, <1>2
    <3>3. CASE a = Root
      BY <3>1, <3>2, <3>3, <1>2, <1>3 DEF x
    <3>4. CASE a # Root
      <4>1. PICK n \in 1..(j - 1) : M[n] = a
        BY <3>1, <3>4 DEF LeftOf, a
      <4>2. n \in 1..Len(L) /\ n <= k /\ M[n] = L[n]
        BY <4>1, <3>2, <2>1, <1>1, <1>2
      <4>3. n = p
        BY <4>1, <4>2, <3>4, <1>3, <1>5 DEF NoRepeats
      <4>4. j \in (p + 1)..k
        BY <4>1, <4>3, <3>2, <2>1, <1>1
      <4>5. QED BY <4>4, <3>1, <3>2, <1>2 DEF x
    <3>5. QED BY <3>3, <3>4
  <2>4. CASE i # k + 1
    <3>1. old(i) \in 1..Len(L) /\ L[old(i)] = o.uid
      BY <2>4, <1>6
    <3>2. o.after # x
      <4>1. PICK o3 \in ins : o3.uid = L[old(i)] /\ LeftOf(L, o3.after, old(i))
        BY <3>1, <1>5 DEF Anchored
      <4>2. o3 = o
        BY <4>1, <3>1 DEF OneOpPerUid
      <4>3. CASE o.after = Root
        BY <4>3, <1>1, RootIsNone
      <4>4. CASE o.after # Root
        <5>1. PICK n \in 1..(old(i) - 1) : L[n] = o.after
          BY <4>1, <4>2, <4>4 DEF LeftOf
        <5>2. n \in 1..Len(L)
          BY <3>1, <1>1
        <5>3. QED BY <5>1, <5>2, <1>4
      <4>5. QED BY <4>3, <4>4
    <3>3. CASE j # k + 1
      <4>1. old(j) \in 1..Len(L) /\ M[j] = L[old(j)] /\ old(j) < old(i)
        BY <2>1, <2>4, <3>3, <1>6, <1>8
      <4>2. LeftOf(L, o.after, old(j))
        <5> SUFFICES ASSUME o.after # Root, NEW n \in 1..(j - 1), M[n] = o.after
                     PROVE  \E m \in 1..(old(j) - 1) : L[m] = o.after
          BY DEF LeftOf
        <5>1. n # k + 1 /\ n \in 1..(Len(L) + 1) /\ n < j
          BY <3>2, <2>1, <1>1, <1>7
        <5>2. old(n) \in 1..Len(L) /\ M[n] = L[old(n)] /\ old(n) < old(j)
          BY <5>1, <2>1, <3>3, <1>6, <1>8
        <5>3. old(n) \in 1..(old(j) - 1)
          <6> HIDE DEF old
          <6>1. QED BY <4>1, <5>2
        <5>4. QED BY <5>2, <5>3
      <4>3. old(j) \in 1..(old(i) - 1)
        BY <4>1, <3>1
      <4>4. QED BY <4>1, <4>2, <4>3, <3>1, <1>5 DEF Sheltered
    <3>4. CASE j = k + 1
      <4>1. k + 1 \in 1..Len(L) /\ old(i) = i - 1 /\ k + 1 <= old(i)
        BY <2>1, <3>4, <1>1, <1>2 DEF old
      <4>2. LeftOf(L, o.after, k + 1)
        <5> SUFFICES ASSUME o.after # Root, NEW n \in 1..(j - 1), M[n] = o.after
                     PROVE  \E m \in 1..((k + 1) - 1) : L[m] = o.after
          BY DEF LeftOf
        <5>1. n \in 1..k /\ M[n] = L[n]
          BY <3>4, <4>1, <1>1, <1>2
        <5>2. QED BY <5>1, <1>2
      <4>3. o.uid = L[k + 1] \/ Less(o.uid, L[k + 1])
        <5>1. CASE old(i) = k + 1
          BY <5>1, <3>1
        <5>2. CASE old(i) # k + 1
          <6>1. k + 1 \in 1..(old(i) - 1)
            BY <5>2, <4>1, <3>1, <1>2
          <6>2. QED BY <6>1, <4>2, <3>1, <1>5 DEF Sheltered
        <5>3. QED BY <5>1, <5>2
      <4>4. L[k + 1] \in AllUids /\ Less(L[k + 1], x)
        BY <4>1, <1>1, <1>2, <1>4, LessIsTotal
      <4>5. Less(o.uid, x)
        BY <4>3, <4>4, <2>2, <1>1, LessIsTransitive
      <4>6. QED BY <4>5, <3>4, <1>7
    <3>5. QED BY <3>3, <3>4
  <2>5. QED BY <2>3, <2>4
<1>14. QED BY <1>10, <1>12, <1>13 DEF WellPlaced, M, x, a
----------------------------------------------------------------------------
(* Well-placed lists agree. *)

AboveAnchors(ins) == \A op \in ins : op.after.clock < op.uid.clock

Agree(L, M) ==
    \A i, j \in 1..Len(L) : \A k, l \in 1..Len(M) :
        L[i] = M[k] /\ L[j] = M[l] => (i < j <=> k < l)

\* L has two characters in this order, M has them in the other, and c is the
\* sum of their clocks.
Disagree(L, M, c) ==
    \E i, j \in 1..Len(L) : \E k, l \in 1..Len(M) :
        /\ L[i] = M[k] /\ L[j] = M[l]
        /\ i < j /\ l < k
        /\ c = L[i].clock + L[j].clock

\* A sum decreases with either of its parts.
LEMMA SumDecreases ==
  ASSUME NEW p \in Nat, NEW q \in Nat, NEW r \in Nat, p < q
  PROVE  /\ p + r \in Nat /\ p + r < q + r
         /\ r + p \in Nat /\ r + p < r + q
OBVIOUS

\* A disagreement implies another one, of two characters with lesser clocks.
LEMMA DisagreementDescends ==
  ASSUME NEW ins \in SUBSET AllInserts, OneOpPerUid(ins), AboveAnchors(ins),
         NEW L \in Seq(AllUids), WellPlaced(L, ins),
         NEW M \in Seq(AllUids), WellPlaced(M, ins),
         NEW c \in Nat, Disagree(L, M, c)
  PROVE  \E d \in Nat : d < c /\ Disagree(L, M, d)
<1>1. PICK i \in 1..Len(L), j \in 1..Len(L), k \in 1..Len(M), l \in 1..Len(M) :
         /\ L[i] = M[k] /\ L[j] = M[l]
         /\ i < j /\ l < k
         /\ c = L[i].clock + L[j].clock
  BY Zenon DEF Disagree
<1>2. /\ Len(L) \in Nat /\ Len(M) \in Nat
      /\ \A n \in 1..Len(L) : L[n] \in AllUids /\ L[n].clock \in Nat
      /\ \A n \in 1..Len(M) : M[n] \in AllUids /\ M[n].clock \in Nat
  <2>1. /\ \A n \in 1..Len(L) : L[n] \in AllUids
        /\ \A n \in 1..Len(M) : M[n] \in AllUids
    BY ElementOfSeq
  <2>2. QED BY <2>1, UidFields, LenProperties
<1>3. /\ NoRepeats(L) /\ Anchored(L, ins) /\ Sheltered(L, ins)
      /\ NoRepeats(M) /\ Anchored(M, ins) /\ Sheltered(M, ins)
  BY DEF WellPlaced
<1>4. \A o \in ins : o.uid \in AllUids /\ o.after \in AllUids \cup {Root}
                   /\ o.after.clock \in Nat /\ o.after.clock < o.uid.clock
  BY UidFields DEF AllInserts, AboveAnchors
<1>5. L[i] # L[j]
  BY <1>1, <1>3 DEF NoRepeats
<1>6. CASE Less(L[j], L[i])
  \* The earlier character of L is the greater one: in M it stands behind the
  \* other, so its anchor does too.
  <2>1. PICK o \in ins : o.uid = L[i] /\ LeftOf(L, o.after, i)
    BY <1>3 DEF Anchored
  <2>2. LeftOf(M, o.after, k)
    <3>1. PICK o2 \in ins : o2.uid = M[k] /\ LeftOf(M, o2.after, k)
      BY <1>3 DEF Anchored
    <3>2. QED BY <3>1, <2>1, <1>1 DEF OneOpPerUid
  <2>3. ~LeftOf(M, o.after, l)
    <3>1. l \in 1..(k - 1)
      BY <1>1, <1>2
    <3>2. ~Less(L[i], M[l])
      BY <1>1, <1>2, <1>6, LessIsTotal
    <3>3. QED BY <3>1, <3>2, <2>1, <1>1, <1>3 DEF Sheltered
  <2>4. PICK n \in 1..(k - 1) : M[n] = o.after /\ o.after # Root
    BY <2>2, <2>3 DEF LeftOf
  <2>5. PICK m \in 1..(i - 1) : L[m] = o.after
    BY <2>1, <2>4 DEF LeftOf
  <2>6. n \in 1..Len(M) /\ m \in 1..Len(L) /\ m < j
    BY SMTT(60), <2>4, <2>5, <1>1, <1>2
  <2>7. ~(n < l)
    BY <2>3, <2>4, <2>6 DEF LeftOf
  <2>8. n # l
    BY <2>4, <2>5, <2>6, <1>1, <1>3 DEF NoRepeats
  <2>9. l < n
    BY <2>6, <2>7, <2>8
  <2>10. L[m].clock < L[i].clock
    BY <2>1, <2>5, <1>4
  <2>11. L[m].clock + L[j].clock \in Nat /\ L[m].clock + L[j].clock < c
    <3>1. L[m].clock \in Nat /\ L[j].clock \in Nat /\ L[i].clock \in Nat
      BY <2>6, <1>2
    <3>2. L[m].clock + L[j].clock \in Nat /\ L[m].clock + L[j].clock < L[i].clock + L[j].clock
      BY <3>1, <2>10, SumDecreases, Zenon
    <3>3. QED BY <3>2, <1>1, Zenon
  <2>12. Disagree(L, M, L[m].clock + L[j].clock)
    BY <2>4, <2>5, <2>6, <2>9, <1>1 DEF Disagree
  <2>13. QED BY <2>11, <2>12
<1>7. CASE Less(L[i], L[j])
  \* The mirror image: in L the greater character stands behind the lesser.
  <2>1. PICK o \in ins : o.uid = M[l] /\ LeftOf(M, o.after, l)
    BY <1>3 DEF Anchored
  <2>2. LeftOf(L, o.after, j)
    <3>1. PICK o2 \in ins : o2.uid = L[j] /\ LeftOf(L, o2.after, j)
      BY <1>3 DEF Anchored
    <3>2. QED BY <3>1, <2>1, <1>1 DEF OneOpPerUid
  <2>3. ~LeftOf(L, o.after, i)
    <3>1. i \in 1..(j - 1)
      BY <1>1, <1>2
    <3>2. ~Less(L[j], L[i])
      BY <1>1, <1>2, <1>7, LessIsTotal
    <3>3. QED BY <3>1, <3>2, <2>1, <1>1, <1>3 DEF Sheltered
  <2>4. PICK n \in 1..(j - 1) : L[n] = o.after /\ o.after # Root
    BY <2>2, <2>3 DEF LeftOf
  <2>5. PICK m \in 1..(l - 1) : M[m] = o.after
    BY <2>1, <2>4 DEF LeftOf
  <2>6. n \in 1..Len(L) /\ m \in 1..Len(M) /\ m < k
    BY SMTT(60), <2>4, <2>5, <1>1, <1>2
  <2>7. ~(n < i)
    BY <2>3, <2>4, <2>6 DEF LeftOf
  <2>8. n # i
    BY <2>4, <2>5, <2>6, <1>1, <1>3 DEF NoRepeats
  <2>9. i < n
    BY <2>6, <2>7, <2>8
  <2>10. L[n].clock < L[j].clock
    BY <2>1, <2>4, <1>1, <1>4
  <2>11. L[i].clock + L[n].clock \in Nat /\ L[i].clock + L[n].clock < c
    <3>1. L[i].clock \in Nat /\ L[n].clock \in Nat /\ L[j].clock \in Nat
      BY <2>6, <1>2
    <3>2. L[i].clock + L[n].clock \in Nat /\ L[i].clock + L[n].clock < L[i].clock + L[j].clock
      BY <3>1, <2>10, SumDecreases, Zenon
    <3>3. QED BY <3>2, <1>1, Zenon
  <2>12. Disagree(L, M, L[i].clock + L[n].clock)
    BY <2>4, <2>5, <2>6, <2>9, <1>1 DEF Disagree
  <2>13. QED BY <2>11, <2>12
<1>8. QED BY <1>1, <1>2, <1>5, <1>6, <1>7, LessIsTotal

\* There is none: well-placed lists have any two characters in the same order.
LEMMA PlacedListsAgree ==
  ASSUME NEW ins \in SUBSET AllInserts, OneOpPerUid(ins), AboveAnchors(ins),
         NEW L \in Seq(AllUids), WellPlaced(L, ins),
         NEW M \in Seq(AllUids), WellPlaced(M, ins)
  PROVE  Agree(L, M)
<1>1. \A c \in Nat : ~Disagree(L, M, c)
  <2> DEFINE Sums == {c \in Nat : Disagree(L, M, c)}
  <2> SUFFICES ASSUME Sums # {} PROVE FALSE
    OBVIOUS
  <2>1. PICK c \in Sums : \A d \in Sums : c <= d
    BY LeastNat
  <2>2. PICK d \in Nat : d < c /\ Disagree(L, M, d)
    BY DisagreementDescends
  <2>3. QED BY <2>1, <2>2
<1>2. /\ Len(L) \in Nat /\ Len(M) \in Nat
      /\ \A n \in 1..Len(L) : L[n] \in AllUids /\ L[n].clock \in Nat
  <2>1. \A n \in 1..Len(L) : L[n] \in AllUids
    BY ElementOfSeq
  <2>2. QED BY <2>1, UidFields, LenProperties
<1>3. NoRepeats(L) /\ NoRepeats(M)
  BY DEF WellPlaced
<1> SUFFICES ASSUME NEW i \in 1..Len(L), NEW j \in 1..Len(L),
                    NEW k \in 1..Len(M), NEW l \in 1..Len(M),
                    L[i] = M[k], L[j] = M[l]
             PROVE  i < j <=> k < l
  BY DEF Agree
<1>4. CASE i = j
  <2>1. k = l
    BY <1>3, <1>4 DEF NoRepeats
  <2>2. QED BY <2>1, <1>4
<1>5. CASE i < j
  <2>1. ~(l < k)
    <3>1. L[i].clock + L[j].clock \in Nat
      BY <1>2
    <3>2. ~Disagree(L, M, L[i].clock + L[j].clock)
      BY <3>1, <1>1
    <3>3. QED BY <3>2, <1>5 DEF Disagree
  <2>2. k # l
    BY <1>3, <1>5 DEF NoRepeats
  <2>3. QED BY <2>1, <2>2, <1>5
<1>6. CASE j < i
  <2>1. ~(k < l)
    <3>1. L[j].clock + L[i].clock \in Nat
      BY SMTT(60), <1>2
    <3>2. ~Disagree(L, M, L[j].clock + L[i].clock)
      BY <3>1, <1>1
    <3>3. QED BY <3>2, <1>6 DEF Disagree
  <2>2. QED BY <2>1, <1>6
<1>7. QED BY <1>2, <1>4, <1>5, <1>6

\* Lists that agree and hold the same characters are the same list.
LEMMA AgreeingAreEqual ==
  ASSUME NEW L \in Seq(AllUids), NEW M \in Seq(AllUids),
         NoRepeats(L), NoRepeats(M), Agree(L, M), ToSet(L) = ToSet(M)
  PROVE  L = M
<1>1. /\ Len(L) \in Nat /\ DOMAIN L = 1..Len(L)
      /\ Len(M) \in Nat /\ DOMAIN M = 1..Len(M)
  BY LenProperties
<1>2. /\ \A i \in 1..Len(L) : \E k \in 1..Len(M) : M[k] = L[i]
      /\ \A k \in 1..Len(M) : \E i \in 1..Len(L) : L[i] = M[k]
  BY <1>1 DEF ToSet
<1>3. \A i \in Nat : i \in 1..Len(L) /\ i \in 1..Len(M) => L[i] = M[i]
  <2> DEFINE Bad == {i \in Nat : i \in 1..Len(L) /\ i \in 1..Len(M) /\ L[i] # M[i]}
  <2> SUFFICES ASSUME Bad # {} PROVE FALSE
    OBVIOUS
  <2>1. PICK i \in Bad : \A j \in Bad : i <= j
    BY LeastNat
  <2>2. \A j \in 1..(i - 1) : L[j] = M[j]
    BY <2>1, <1>1
  <2>3. PICK k \in 1..Len(M) : M[k] = L[i]
    BY <2>1, <1>2
  <2>4. PICK j \in 1..Len(L) : L[j] = M[i]
    BY <2>1, <1>2
  <2>5. i < k
    <3>1. k # i
      BY <2>1, <2>3
    <3>2. ~(k < i)
      <4>1. SUFFICES ASSUME k < i PROVE FALSE
        OBVIOUS
      <4>2. k \in 1..(i - 1) /\ k \in 1..Len(L)
        BY <4>1, <2>1, <1>1
      <4>3. L[k] = L[i]
        BY <4>2, <2>2, <2>3
      <4>4. QED BY <4>1, <4>2, <4>3, <2>1 DEF NoRepeats
    <3>3. QED BY <3>1, <3>2, <2>1
  <2>6. i < j
    <3>1. j # i
      BY <2>1, <2>4
    <3>2. ~(j < i)
      <4>1. SUFFICES ASSUME j < i PROVE FALSE
        OBVIOUS
      <4>2. j \in 1..(i - 1) /\ j \in 1..Len(M)
        BY <4>1, <2>1, <1>1
      <4>3. M[j] = M[i]
        BY <4>2, <2>2, <2>4
      <4>4. QED BY <4>1, <4>2, <4>3, <2>1 DEF NoRepeats
    <3>3. QED BY <3>1, <3>2, <2>1
  <2>7. i < j <=> k < i
    BY <2>1, <2>3, <2>4 DEF Agree
  <2>8. QED BY <2>1, <2>5, <2>6, <2>7
<1>4. ~(Len(L) < Len(M))
  <2> SUFFICES ASSUME Len(L) < Len(M) PROVE FALSE
    OBVIOUS
  <2>1. PICK i \in 1..Len(L) : L[i] = M[Len(L) + 1]
    <3>1. Len(L) + 1 \in 1..Len(M)
      BY <1>1
    <3>2. QED BY <3>1, <1>2
  <2>2. M[i] = M[Len(L) + 1] /\ i \in 1..Len(M)
    BY <2>1, <1>1, <1>3
  <2>3. QED BY <2>2, <1>1 DEF NoRepeats
<1>5. ~(Len(M) < Len(L))
  <2> SUFFICES ASSUME Len(M) < Len(L) PROVE FALSE
    OBVIOUS
  <2>1. PICK i \in 1..Len(M) : M[i] = L[Len(M) + 1]
    <3>1. Len(M) + 1 \in 1..Len(L)
      BY <1>1
    <3>2. QED BY <3>1, <1>2
  <2>2. L[i] = L[Len(M) + 1] /\ i \in 1..Len(L)
    BY <2>1, <1>1, <1>3
  <2>3. QED BY <2>2, <1>1 DEF NoRepeats
<1>6. Len(L) = Len(M) /\ \A i \in 1..Len(L) : L[i] = M[i]
  <2>1. Len(L) = Len(M)
    <3>1. \A m, n \in Nat : ~(m < n) /\ ~(n < m) => m = n
      OBVIOUS
    <3>2. QED BY <3>1, <1>1, <1>4, <1>5, Zenon
  <2>2. QED BY <2>1, <1>1, <1>3
<1>7. QED BY <1>6, SeqEqual
=============================================================================
