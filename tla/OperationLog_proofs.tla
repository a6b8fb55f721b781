------------------------- MODULE OperationLog_proofs -------------------------
(***************************************************************************)
(* Proofs about OperationLog for any stored histories and any size of the  *)
(* buffer.                                                                 *)
(*                                                                         *)
(* The argument. The document is made of the applied operations: it holds  *)
(* their characters, well placed, and each of them names only characters   *)
(* of others. Operations make one document only, in whatever order they    *)
(* were applied, and replaying them in the history's order makes one, too. *)
(* A flush ends with nothing left that could be applied because a round    *)
(* that leaves the buffer as long as it was has applied nothing, and there *)
(* are as many rounds as envelopes wait.                                   *)
(***************************************************************************)
EXTENDS OperationLog, RGA_proofs, FiniteSetTheorems

----------------------------------------------------------------------------
(* The history. *)

Positions(type) == {i \in DOMAIN history : history[i].type = type}

\* The UIDs that the operations at positions K insert, or delete.
UidsOf(K, type) == {history[i].uid : i \in K \cap Positions(type)}

Inserts == {history[i] : i \in Positions("INSERT")}

Anchor(op) == IF op.type = "INSERT" THEN op.after ELSE op.uid

\* The history is a sequence of operations, no two of them inserting one UID,
\* each behind the insert of what it names.
LEMMA HistoryParts ==
    ASSUME history \in Histories
    PROVE  /\ history \in Seq(ToSet(history)) /\ Len(history) \in Nat /\ DOMAIN history = 1..Len(history)
           /\ Uids \subseteq UID(Nat \ {0}) /\ Root \notin Uids
           /\ \A i \in DOMAIN history :
                 /\ history[i].uid \in Uids /\ Anchor(history[i]) \in Uids \cup {Root}
                 /\ history[i].type \in {"INSERT", "DELETE"}
                 /\ history[i].type = "INSERT" => /\ history[i].after.clock < history[i].uid.clock
                                                  /\ history[i] \in AllInserts
           /\ \A i \in DOMAIN history :
                 \/ history[i].type = "INSERT" /\ Anchor(history[i]) = Root
                 \/ Anchor(history[i]) \in UidsOf(1..(i - 1), "INSERT")
           /\ \A i, j \in Positions("INSERT") : history[i].uid = history[j].uid => i = j
<1>1. history \in Seq(StoredOperations) /\ Causal(history)
  BY HistoriesAssumption
<1>2. /\ Len(history) \in Nat /\ DOMAIN history = 1..Len(history)
      /\ \A i \in 1..Len(history) : history[i] \in StoredOperations
  BY <1>1
<1>3. ToSet(history) = {history[i] : i \in 1..Len(history)}
  BY <1>2 DEF ToSet
<1>4. history \in Seq(ToSet(history))
  BY <1>1, <1>2, <1>3
<1>5. \A i \in DOMAIN history : /\ history[i].type \in {"INSERT", "DELETE"} /\ history[i].uid \in UID(Nat \ {0})
                                /\ history[i].type = "INSERT" => history[i].after \in UID(Nat \ {0}) \cup {Root}
  BY <1>2 DEF StoredOperations
<1>6. Uids \subseteq UID(Nat \ {0})
  BY <1>2, <1>3, <1>5 DEF Uids
<1>7. Root \notin Uids
  BY <1>6 DEF Root, UID
<1>8. \A i \in DOMAIN history : history[i].uid \in Uids
  BY <1>2, <1>3 DEF Uids
<1>9. ASSUME NEW i \in DOMAIN history
      PROVE  {history[j].uid : j \in {k \in 1..(i - 1) : history[k].type = "INSERT"}} = UidsOf(1..(i - 1), "INSERT")
             /\ UidsOf(1..(i - 1), "INSERT") \subseteq Uids
  <2>1. 1..(i - 1) \subseteq DOMAIN history
    BY <1>2
  <2>2. {k \in 1..(i - 1) : history[k].type = "INSERT"} = 1..(i - 1) \cap Positions("INSERT")
    BY <2>1 DEF Positions
  <2>3. QED
    BY <1>8, <2>1, <2>2 DEF UidsOf
<1>10. ASSUME NEW i \in DOMAIN history
       PROVE  /\ history[i].type = "INSERT" =>
                    /\ history[i].uid \notin UidsOf(1..(i - 1), "INSERT")
                    /\ history[i].after \in UidsOf(1..(i - 1), "INSERT") \cup {Root}
                    /\ history[i].after.clock < history[i].uid.clock
              /\ history[i].type # "INSERT" => history[i].uid \in UidsOf(1..(i - 1), "INSERT")
  BY <1>1, <1>9 DEF Causal
<1>11. \A i, j \in Positions("INSERT") : j < i => history[i].uid # history[j].uid
  <2>1. ASSUME NEW i \in Positions("INSERT"), NEW j \in Positions("INSERT"), j < i
        PROVE  history[j].uid \in UidsOf(1..(i - 1), "INSERT")
    BY <1>2, <2>1 DEF UidsOf, Positions
  <2>2. QED
    BY <1>10, <2>1 DEF Positions
<1>12. \A i, j \in Positions("INSERT") : history[i].uid = history[j].uid => i = j
  <2>1. Positions("INSERT") \subseteq Nat
    BY <1>2 DEF Positions
  <2>2. QED
    BY <1>11, <2>1
<1>13. \A i \in DOMAIN history : history[i].type = "INSERT" => history[i] \in AllInserts
  <2>1. ASSUME NEW i \in DOMAIN history, history[i].type = "INSERT" PROVE history[i] \in AllInserts
    BY <1>2, <2>1 DEF StoredOperations, AllInserts, AllUids
  <2>2. QED
    BY <2>1
<1>14. \A i \in DOMAIN history : Anchor(history[i]) \in Uids \cup {Root}
  BY <1>8, <1>9, <1>10 DEF Anchor
<1>15. \A i \in DOMAIN history :
                 \/ history[i].type = "INSERT" /\ Anchor(history[i]) = Root
                 \/ Anchor(history[i]) \in UidsOf(1..(i - 1), "INSERT")
  BY <1>10 DEF Anchor
<1>16. QED
  BY <1>2, <1>4, <1>5, <1>6, <1>7, <1>8, <1>10, <1>12, <1>13, <1>14, <1>15

\* Its inserts are as the lemmas about well-placed lists want them.
LEMMA InsertsParts ==
    ASSUME history \in Histories
    PROVE  Inserts \in SUBSET AllInserts /\ OneOpPerUid(Inserts) /\ AboveAnchors(Inserts)
<1>1. \A op \in Inserts : \E i \in Positions("INSERT") : op = history[i]
  BY DEF Inserts
<1>2. \A i \in Positions("INSERT") : i \in DOMAIN history /\ history[i].type = "INSERT"
  BY DEF Positions
<1>3. QED
  BY <1>1, <1>2, HistoryParts DEF OneOpPerUid, AboveAnchors

----------------------------------------------------------------------------
(* A document that the operations at some positions have made. *)

Documents == [list : Seq(Uids), tomb : SUBSET Uids]

\* What an operation of K names is inserted by one of K.
Rooted(K) ==
    \A i \in K : \/ history[i].type = "INSERT" /\ Anchor(history[i]) = Root
                 \/ Anchor(history[i]) \in UidsOf(K, "INSERT")

MadeOf(d, K) ==
    /\ d \in Documents
    /\ ToSet(d.list) = UidsOf(K, "INSERT") /\ d.tomb = UidsOf(K, "DELETE")
    /\ WellPlaced(d.list, Inserts)
    /\ Rooted(K)

\* The UIDs of one more position.
LEMMA UidsOfMore ==
    ASSUME NEW K \in SUBSET DOMAIN history, NEW i \in DOMAIN history, NEW type
    PROVE  UidsOf(K \cup {i}, type) =
              IF history[i].type = type THEN UidsOf(K, type) \cup {history[i].uid} ELSE UidsOf(K, type)
BY DEF UidsOf, Positions

\* Lists over the history's UIDs are lists over sites' UIDs.
LEMMA ListsAreTyped ==
    ASSUME history \in Histories, NEW l \in Seq(Uids)
    PROVE  l \in Seq(AllUids)
<1>1. \A i \in 1..Len(l) : l[i] \in Uids
  OBVIOUS
<1>2. Uids \subseteq AllUids
  BY HistoryParts DEF AllUids
<1>3. QED
  BY <1>1, <1>2, SeqOfMembers

\* applyOperation returns true for an operation whose anchor is inserted, and
\* for an insert that was applied before.
LEMMA ApplicableIs ==
    ASSUME history \in Histories, NEW d, NEW K \in SUBSET DOMAIN history, MadeOf(d, K),
           NEW i \in DOMAIN history
    PROVE  Applicable(d, history[i]) <=>
              \/ history[i].type = "INSERT" /\ (i \in K \/ Anchor(history[i]) = Root)
              \/ Anchor(history[i]) \in UidsOf(K, "INSERT")
<1>1. \A u : Holds(d.list, u) <=> u \in UidsOf(K, "INSERT")
  BY DEF MadeOf, Holds
<1>2. ASSUME history[i].type = "INSERT" PROVE Holds(d.list, history[i].uid) <=> i \in K
  <2>1. i \in Positions("INSERT")
    BY <1>2 DEF Positions
  <2>2. i \in K => history[i].uid \in UidsOf(K, "INSERT")
    BY <2>1 DEF UidsOf
  <2>3. history[i].uid \in UidsOf(K, "INSERT") => i \in K
    BY <2>1, HistoryParts DEF UidsOf
  <2>4. QED
    BY <1>1, <2>2, <2>3
<1>3. QED
  BY <1>1, <1>2 DEF Applicable, Known, Anchor

\* Applying one more.
LEMMA ApplyMakes ==
    ASSUME history \in Histories, NEW d, NEW K \in SUBSET DOMAIN history, MadeOf(d, K),
           NEW i \in DOMAIN history, Applicable(d, history[i])
    PROVE  MadeOf(Apply(d, history[i]), K \cup {i})
<1> DEFINE op == history[i]
           e == Apply(d, op)
<1>1. /\ op.uid \in Uids /\ Anchor(op) \in Uids \cup {Root} /\ op.type \in {"INSERT", "DELETE"}
      /\ op.type = "INSERT" => op.after \in Uids \cup {Root}
  BY HistoryParts DEF Anchor
<1>2. d = [list |-> d.list, tomb |-> d.tomb] /\ d.list \in Seq(Uids) /\ d.tomb \in SUBSET Uids
  BY DEF MadeOf, Documents
<1>3. /\ op.type = "INSERT" => /\ ToSet(e.list) = ToSet(d.list) \cup {op.uid}
                               /\ e.tomb = d.tomb /\ e.list \in Seq(Uids)
      /\ op.type # "INSERT" => e.list = d.list /\ e.tomb = d.tomb \cup {op.uid}
      /\ e = [list |-> e.list, tomb |-> e.tomb]
  <2>1. e = [list |-> e.list, tomb |-> e.tomb]
    BY <1>2, ApplyRecord
  <2>2. CASE op.type = "INSERT"
    <3>1. ToSet(e.list) = ToSet(d.list) \cup {op.uid} /\ e.tomb = d.tomb /\ e.list \in Seq(Uids)
      BY <1>1, <1>2, <2>2, ApplyElements
    <3>2. QED
      BY <2>1, <2>2, <3>1
  <2>3. CASE op.type # "INSERT"
    <3>1. e.list = d.list /\ e.tomb = d.tomb \cup {op.uid}
      BY <1>2, <2>3, ApplyElements
    <3>2. QED
      BY <2>1, <2>3, <3>1
  <2>4. QED
    BY <2>2, <2>3
<1>4. e \in Documents
  BY <1>1, <1>2, <1>3 DEF Documents
<1>5. ToSet(e.list) = UidsOf(K \cup {i}, "INSERT") /\ e.tomb = UidsOf(K \cup {i}, "DELETE")
  <2>1. ToSet(d.list) = UidsOf(K, "INSERT") /\ d.tomb = UidsOf(K, "DELETE")
    BY DEF MadeOf
  <2>2. UidsOf(K \cup {i}, "INSERT") =
           IF op.type = "INSERT" THEN UidsOf(K, "INSERT") \cup {op.uid} ELSE UidsOf(K, "INSERT")
    BY UidsOfMore
  <2>3. UidsOf(K \cup {i}, "DELETE") =
           IF op.type = "DELETE" THEN UidsOf(K, "DELETE") \cup {op.uid} ELSE UidsOf(K, "DELETE")
    BY UidsOfMore
  <2> HIDE DEF op, e
  <2>4. QED
    BY <1>1, <1>3, <2>1, <2>2, <2>3
<1>6. Rooted(K \cup {i})
  <2>1. UidsOf(K, "INSERT") \subseteq UidsOf(K \cup {i}, "INSERT")
    BY DEF UidsOf
  <2>2. \/ op.type = "INSERT" /\ Anchor(op) = Root
        \/ Anchor(op) \in UidsOf(K, "INSERT")
    BY ApplicableIs DEF MadeOf, Rooted
  <2>3. QED
    BY <2>1, <2>2 DEF MadeOf, Rooted
<1>7. WellPlaced(e.list, Inserts)
  <2>1. CASE op.type # "INSERT" \/ Holds(d.list, op.uid)
    BY <1>3, <2>1 DEF MadeOf, Apply, ApplyInsert
  <2>2. CASE op.type = "INSERT" /\ ~Holds(d.list, op.uid)
    <3>1. op \in Inserts /\ Known(d.list, op.after)
      BY <2>2 DEF Inserts, Positions, Applicable
    <3>2. e.list = Place(d.list, op.after, op.uid)
      BY <1>2, <2>2, <3>1 DEF Apply, ApplyInsert
    <3>3. d.list \in Seq(AllUids) /\ WellPlaced(d.list, Inserts)
      BY <1>2, ListsAreTyped DEF MadeOf
    <3> HIDE DEF op, e
    <3>4. WellPlaced(Place(d.list, op.after, op.uid), Inserts)
      BY <2>2, <3>1, <3>3, InsertsParts, PlaceKeepsPlaced
    <3>5. QED
      BY <3>2, <3>4
  <2>3. QED
    BY <2>1, <2>2
<1>8. QED
  BY <1>4, <1>5, <1>6, <1>7 DEF MadeOf

\* There is one document that the operations at given positions make.
LEMMA MadeOfOne ==
    ASSUME history \in Histories, NEW K, NEW d, NEW e, MadeOf(d, K), MadeOf(e, K)
    PROVE  d = e
<1>1. /\ d = [list |-> d.list, tomb |-> d.tomb] /\ d.list \in Seq(Uids)
      /\ e = [list |-> e.list, tomb |-> e.tomb] /\ e.list \in Seq(Uids)
      /\ ToSet(d.list) = ToSet(e.list) /\ d.tomb = e.tomb
      /\ WellPlaced(d.list, Inserts) /\ WellPlaced(e.list, Inserts)
  BY DEF MadeOf, Documents
<1>2. d.list \in Seq(AllUids) /\ e.list \in Seq(AllUids)
  BY <1>1, ListsAreTyped
<1>3. Agree(d.list, e.list)
  BY <1>1, <1>2, InsertsParts, PlacedListsAgree
<1>4. d.list = e.list
  BY <1>1, <1>2, <1>3, AgreeingAreEqual DEF WellPlaced
<1>5. QED
  BY <1>1, <1>4

\* The empty document is made of nothing.
LEMMA EmptyIsMade == MadeOf(EmptyDoc, {})
<1>1. EmptyDoc \in Documents /\ ToSet(EmptyDoc.list) = {} /\ EmptyDoc.tomb = {} /\ EmptyDoc.list = << >>
  BY DEF EmptyDoc, Documents, ToSet
<1>2. \A type : UidsOf({}, type) = {}
  BY DEF UidsOf
<1>3. WellPlaced(<< >>, Inserts)
  BY DEF WellPlaced, NoRepeats, Anchored, Sheltered
<1>4. QED
  BY <1>1, <1>2, <1>3 DEF MadeOf, Rooted

----------------------------------------------------------------------------
(* The log's fields as one value. *)

Envelopes == {env \in Envelope : env.seq \in {0, env.key}}

LogRecords == [doc : Documents, seqs : SUBSET DOMAIN history, keys : SUBSET DOMAIN history,
               top : Nat, buffer : Seq(Envelopes)]

\* The document is what the applied operations make, and the index of seqs
\* and the greatest seq are of applied operations.
Logs == {st \in LogRecords : /\ MadeOf(st.doc, st.keys)
                             /\ st.seqs \subseteq st.keys /\ st.top \in {0} \cup st.seqs}

\* A log with another buffer.
LEMMA OtherBuffer ==
    ASSUME NEW st \in Logs, NEW waiting \in Seq(Envelopes)
    PROVE  LET other == [st EXCEPT !.buffer = waiting]
           IN /\ other \in Logs /\ other.buffer = waiting /\ other.doc = st.doc
              /\ other.keys = st.keys
<1> DEFINE other == [st EXCEPT !.buffer = waiting]
<1>1. st \in LogRecords
  BY DEF Logs
<1>2. /\ other \in LogRecords /\ other.buffer = waiting /\ other.doc = st.doc /\ other.keys = st.keys
      /\ other.seqs = st.seqs /\ other.top = st.top
  <2> HIDE DEF Documents, Envelopes
  <2>1. QED
    BY <1>1 DEF LogRecords
<1> HIDE DEF other
<1>3. other \in Logs
  BY <1>2 DEF Logs
<1>4. QED
  BY <1>2, <1>3 DEF other

\* An envelope is of a stored operation.
LEMMA EnvelopeParts ==
    ASSUME history \in Histories, NEW env \in Envelopes
    PROVE  /\ env.key \in DOMAIN history /\ Op(env) = history[env.key] /\ env.seq \in {0, env.key}
           /\ env.seq \in Nat /\ env.key \in Nat
BY HistoryParts DEF Envelopes, Envelope, Op

\* recordApplied.
LEMMA AppliedIs ==
    ASSUME history \in Histories, NEW st \in Logs, NEW env \in Envelopes, Applicable(st.doc, Op(env))
    PROVE  LET next == Applied(st, env)
           IN /\ next \in Logs /\ next.buffer = st.buffer /\ next.keys = st.keys \cup {env.key}
<1> DEFINE next == Applied(st, env)
<1>1. /\ st \in LogRecords /\ MadeOf(st.doc, st.keys)
      /\ st.seqs \subseteq st.keys /\ st.top \in {0} \cup st.seqs
      /\ st.keys \in SUBSET DOMAIN history /\ st.seqs \in SUBSET DOMAIN history /\ st.top \in Nat
      /\ st.buffer \in Seq(Envelopes)
  BY DEF Logs, LogRecords
<1>2. /\ env.key \in DOMAIN history /\ Op(env) = history[env.key] /\ env.seq \in {0, env.key}
      /\ env.seq \in Nat
  BY EnvelopeParts
<1>3. /\ next.doc = Apply(st.doc, history[env.key]) /\ next.seqs = st.seqs \cup ({env.seq} \ {0})
      /\ next.keys = st.keys \cup {env.key} /\ next.buffer = st.buffer
      /\ next.top = IF env.seq > st.top THEN env.seq ELSE st.top
      /\ next = [doc |-> next.doc, seqs |-> next.seqs, keys |-> next.keys, top |-> next.top, buffer |-> next.buffer]
  BY <1>2 DEF Applied
<1> HIDE DEF next
<1>4. MadeOf(next.doc, next.keys)
  BY <1>1, <1>2, <1>3, ApplyMakes
<1>5. next.doc \in Documents
  BY <1>4 DEF MadeOf
<1>6. /\ next.seqs \in SUBSET DOMAIN history /\ next.keys \in SUBSET DOMAIN history /\ next.top \in Nat
      /\ next.seqs \subseteq next.keys /\ next.top \in {0} \cup next.seqs
  BY <1>1, <1>2, <1>3
<1>7. next \in Logs
  BY <1>1, <1>3, <1>4, <1>5, <1>6 DEF Logs, LogRecords
<1>8. QED
  BY <1>3, <1>7 DEF next

\* One waiting envelope tried.
LEMMA TryIs ==
    ASSUME history \in Histories, NEW st \in Logs, NEW env \in Envelopes
    PROVE  LET next == Try(st, env)
           IN /\ next \in Logs
              /\ Applicable(st.doc, Op(env)) =>
                    next.buffer = st.buffer /\ next.keys = st.keys \cup {env.key}
              /\ ~Applicable(st.doc, Op(env)) =>
                    next.buffer = Append(st.buffer, env) /\ next.keys = st.keys /\ next.doc = st.doc
<1>1. CASE Applicable(st.doc, Op(env))
  BY <1>1, AppliedIs DEF Try
<1>2. CASE ~Applicable(st.doc, Op(env))
  <2>1. st.buffer \in Seq(Envelopes)
    BY DEF Logs, LogRecords
  <2>2. Append(st.buffer, env) \in Seq(Envelopes)
    BY <2>1, AppendElements
  <2> DEFINE a == Append(st.buffer, env)
             other == [st EXCEPT !.buffer = a]
  <2>3. Try(st, env) = other
    BY <1>2 DEF Try
  <2> HIDE DEF a
  <2>4. other \in Logs /\ other.buffer = a /\ other.doc = st.doc /\ other.keys = st.keys
    BY <2>2, OtherBuffer DEF a
  <2> HIDE DEF other
  <2>5. QED
    BY <1>2, <2>3, <2>4 DEF a
<1>3. QED
  BY <1>1, <1>2

----------------------------------------------------------------------------
(* flushBuffer. *)

\* A function that starts with no buffer and tries one envelope at a time.
Tries(f, st) ==
    /\ f[0] = [st EXCEPT !.buffer = << >>]
    /\ \A k \in 1..Len(st.buffer) : f[k] = Try(f[k - 1], st.buffer[k])

\* A round is going through the buffer.
LEMMA RoundFolds ==
    ASSUME history \in Histories, NEW st \in Logs
    PROVE  \E f : Tries(f, st) /\ f[Len(st.buffer)] = Round(st)
<1> DEFINE s == st.buffer
           V == Logs
           b == [st EXCEPT !.buffer = << >>]
           D == 1..Len(s)
           ch == [t \in SUBSET D |-> Max(t)]
           step == [x \in D |-> [v \in V |-> Try(v, s[x])]]
           IsIter(G) == G = [t \in SUBSET D |->
                                IF t = {} THEN b ELSE Try(G[t \ {Max(t)}], s[Max(t)])]
<1>0. s \in Seq(Envelopes) /\ b \in V
  <2>1. st.buffer \in Seq(Envelopes)
    BY DEF Logs, LogRecords
  <2>2. << >> \in Seq(Envelopes)
    OBVIOUS
  <2>3. b \in Logs
    BY <2>2, OtherBuffer
  <2>4. QED
    BY <2>1, <2>3
<1> HIDE DEF V
<1>1. Len(s) \in Nat /\ DOMAIN s = D /\ \A x \in D : s[x] \in Envelopes
  <2> HIDE DEF s
  <2>1. QED
    BY <1>0
<1>2. IsFiniteSet(D)
  BY <1>1, FS_Interval
<1>3. \A t \in SUBSET D : t # {} => Max(t) \in t /\ Max(t) \in D
  BY <1>1, MaxOfSet
<1>4. Chooses(ch, D)
  BY <1>3 DEF Chooses
<1>5. \A x \in D, v \in V : step[x][v] = Try(v, s[x]) /\ Try(v, s[x]) \in V
  BY <1>1, TryIs DEF V
<1>6. Round(st) = (CHOOSE G : IsIter(G))[D]
  BY <1>1, Zenon DEF Round, FoldLeft, MapThenFoldSet
<1>7. Steps(step, D, V)
  BY <1>5 DEF Steps
<1> HIDE DEF D, ch, step, b
<1>8. PICK G0 \in [SUBSET D -> V] : IsFold(G0, D, b, ch, step)
  <2> HIDE DEF IsIter
  <2>1. QED
    BY <1>0, <1>2, <1>4, <1>7, FoldExists
<1>9. IsIter(G0)
  <2>1. ASSUME NEW t \in SUBSET D, t # {}
        PROVE  step[ch[t]][G0[t \ {ch[t]}]] = Try(G0[t \ {Max(t)}], s[Max(t)])
    <3>1. Max(t) \in D /\ ch[t] = Max(t) /\ t \ {Max(t)} \in SUBSET D
      BY <1>3, <2>1 DEF ch
    <3>2. QED
      BY <1>5, <3>1
  <2>2. \A t \in SUBSET D : G0[t] = IF t = {} THEN b ELSE Try(G0[t \ {Max(t)}], s[Max(t)])
    BY <1>8, <2>1 DEF IsFold
  <2>3. QED
    BY <2>2
<1> DEFINE G == CHOOSE G : IsIter(G)
           f == [k \in 0..Len(s) |-> G[1..k]]
<1>10. IsIter(G)
  <2> HIDE DEF IsIter
  <2>1. QED
    BY <1>9, Zenon
<1>11. \A t \in SUBSET D : G[t] = IF t = {} THEN b ELSE Try(G[t \ {Max(t)}], s[Max(t)])
  <2> HIDE DEF G
  <2>1. QED
    BY <1>10
<1> HIDE DEF G, IsIter
<1>12. \A k \in 0..Len(s) : f[k] = G[1..k] /\ 1..k \in SUBSET D
  BY <1>1 DEF D
<1>13. f[0] = b
  <2>1. 0 \in 0..Len(s) /\ 1..0 = {}
    BY <1>1
  <2>2. G[{}] = b
    BY <1>11, <1>12, <2>1
  <2>3. QED
    BY <1>12, <2>1, <2>2
<1>14. ASSUME NEW k \in 1..Len(s) PROVE f[k] = Try(f[k - 1], s[k])
  <2>1. 1..k # {} /\ k \in Nat /\ k # 0 /\ k \in 0..Len(s) /\ k - 1 \in 0..Len(s)
    <3> HIDE DEF f, s
    <3>1. k \in Nat /\ k # 0 /\ k \in 0..Len(s) /\ k - 1 \in 0..Len(s)
      BY <1>1
    <3>2. k \in 1..k
      BY <3>1
    <3>3. QED
      BY <3>1, <3>2
  <2>2. Max(1..k) = k /\ (1..k) \ {k} = 1..(k - 1)
    BY <2>1, MaxOfPrefix
  <2>3. G[1..k] = Try(G[(1..k) \ {Max(1..k)}], s[Max(1..k)])
    BY <1>11, <1>12, <2>1, Zenon
  <2>4. QED
    BY <1>12, <2>1, <2>2, <2>3
<1>15. f[Len(s)] = Round(st)
  BY <1>1, <1>6, <1>12 DEF G, D
<1>16. Tries(f, st)
  <2> HIDE DEF f
  <2>1. QED
    BY <1>13, <1>14 DEF Tries, b
<1>17. QED
  BY <1>15, <1>16

\* Nothing that waits can be applied.
Stuck(st) == \A env \in ToSet(st.buffer) : ~Applicable(st.doc, Op(env))

\* The operations a log has applied or holds back.
Held(st) == st.keys \cup {env.key : env \in ToSet(st.buffer)}

\* A round keeps what there is, and makes progress unless nothing can be
\* applied.
LEMMA RoundIs ==
    ASSUME history \in Histories, NEW st \in Logs
    PROVE  LET next == Round(st)
           IN /\ next \in Logs /\ st.keys \subseteq next.keys /\ Held(st) \subseteq Held(next)
              /\ Len(next.buffer) <= Len(st.buffer)
              /\ Len(next.buffer) < Len(st.buffer) \/ Stuck(next)
              /\ Stuck(st) => Stuck(next)
<1> DEFINE s == st.buffer
<1>1. s \in Seq(Envelopes) /\ Len(s) \in Nat /\ ToSet(s) = {s[i] : i \in 1..Len(s)}
  <2>1. st.buffer \in Seq(Envelopes)
    BY DEF Logs, LogRecords
  <2>2. QED
    BY <2>1 DEF ToSet
<1> HIDE DEF s
<1>2. \A i \in 1..Len(s) : s[i] \in Envelopes
  BY <1>1
<1>3. PICK f : Tries(f, st) /\ f[Len(s)] = Round(st)
  BY RoundFolds DEF s
<1>4. /\ f[0] = [st EXCEPT !.buffer = << >>]
      /\ \A k \in 1..Len(s) : f[k] = Try(f[k - 1], s[k])
  BY <1>3 DEF Tries, s
<1> DEFINE Kept(k) ==
              /\ f[k] \in Logs /\ st.keys \subseteq f[k].keys
              /\ f[k].buffer \in Seq(Envelopes) /\ Len(f[k].buffer) \in Nat /\ Len(f[k].buffer) <= k
              /\ ToSet(f[k].buffer) \subseteq {s[i] : i \in 1..k}
              /\ \A i \in 1..k : s[i].key \in Held(f[k])
           Unchanged(k) ==
              /\ f[k].doc = st.doc /\ Len(f[k].buffer) = k
              /\ \A i \in 1..k : ~Applicable(st.doc, Op(s[i]))
           P == {k \in Nat : k <= Len(s) => /\ Kept(k)
                                            /\ Len(f[k].buffer) < k \/ Unchanged(k)
                                            /\ Stuck(st) => Unchanged(k)}
<1>5. 0 \in P
  <2>1. << >> \in Seq(Envelopes) /\ Len(<< >>) = 0 /\ ToSet(<< >>) = {} /\ 1..0 = {}
    BY DEF ToSet
  <2>2. f[0] \in Logs /\ f[0].buffer = << >> /\ f[0].doc = st.doc /\ f[0].keys = st.keys
    <3> DEFINE b == [st EXCEPT !.buffer = << >>]
    <3> HIDE DEF P, Kept, Unchanged
    <3>1. b \in Logs /\ b.buffer = << >> /\ b.doc = st.doc /\ b.keys = st.keys
      BY <2>1, OtherBuffer
    <3> HIDE DEF b
    <3>2. f[0] = b
      BY <1>4 DEF b
    <3>3. QED
      BY <3>1, <3>2
  <2>3. Kept(0) /\ Unchanged(0)
    BY <2>1, <2>2
  <2> HIDE DEF Kept, Unchanged
  <2>4. QED
    BY <2>3
<1>6. ASSUME NEW k \in P PROVE k + 1 \in P
  <2> SUFFICES ASSUME k + 1 <= Len(s)
               PROVE  /\ Kept(k + 1) /\ (Len(f[k + 1].buffer) < k + 1 \/ Unchanged(k + 1))
                      /\ Stuck(st) => Unchanged(k + 1)
    OBVIOUS
  <2>1. k \in Nat /\ k + 1 \in 1..Len(s) /\ k <= Len(s) /\ (k + 1) - 1 = k
    <3> HIDE DEF Kept, Unchanged
    <3>1. QED
      BY <1>1
  <2>2. Kept(k) /\ (Len(f[k].buffer) < k \/ Unchanged(k)) /\ (Stuck(st) => Unchanged(k))
    BY <2>1
  <2> HIDE DEF P
  <2> DEFINE x == f[k]
             y == f[k + 1]
             e == s[k + 1]
  <2>3. e \in Envelopes /\ x \in Logs /\ y = Try(x, e)
    BY <1>2, <1>4, <2>1, <2>2
  <2>4. /\ x.buffer \in Seq(Envelopes) /\ Len(x.buffer) \in Nat /\ Len(x.buffer) <= k
        /\ ToSet(x.buffer) \subseteq {s[i] : i \in 1..k} /\ st.keys \subseteq x.keys
        /\ \A i \in 1..k : s[i].key \in Held(x)
    BY <2>2
  <2>5. Len(x.buffer) < k \/ (x.doc = st.doc /\ Len(x.buffer) = k /\ \A i \in 1..k : ~Applicable(st.doc, Op(s[i])))
    BY <2>2
  <2>6. Stuck(st) => x.doc = st.doc /\ Len(x.buffer) = k /\ ~Applicable(st.doc, Op(e))
    <3>1. e \in ToSet(s)
      BY <1>1, <2>1
    <3>2. QED
      BY <2>2, <3>1 DEF Stuck, s
  <2>7. \A i \in 1..(k + 1) : i \in 1..k \/ s[i] = e
    BY <2>1
  <2>8. {s[i] : i \in 1..(k + 1)} = {s[i] : i \in 1..k} \cup {e}
    <3> HIDE DEF e
    <3>1. \A i \in 1..k : i \in 1..(k + 1)
      BY <2>1
    <3>2. k + 1 \in 1..(k + 1) /\ e = s[k + 1]
      BY <2>1 DEF e
    <3>3. QED
      BY <2>7, <3>1, <3>2
  <2> HIDE DEF x, y, e
  <2>9. /\ y \in Logs
        /\ Applicable(x.doc, Op(e)) => y.buffer = x.buffer /\ y.keys = x.keys \cup {e.key}
        /\ ~Applicable(x.doc, Op(e)) => y.buffer = Append(x.buffer, e) /\ y.keys = x.keys /\ y.doc = x.doc
    BY <2>3, TryIs
  <2>10. /\ Append(x.buffer, e) \in Seq(Envelopes) /\ Len(Append(x.buffer, e)) = Len(x.buffer) + 1
         /\ ToSet(Append(x.buffer, e)) = ToSet(x.buffer) \cup {e}
    BY <2>3, <2>4, AppendElements
  <2>11. Held(x) \cup {e.key} \subseteq Held(y)
    BY <2>9, <2>10 DEF Held
  <2>12. Kept(k + 1)
    <3>1. /\ y \in Logs /\ st.keys \subseteq y.keys
          /\ y.buffer \in Seq(Envelopes) /\ Len(y.buffer) \in Nat /\ Len(y.buffer) <= k + 1
          /\ ToSet(y.buffer) \subseteq {s[i] : i \in 1..(k + 1)}
      <4> HIDE DEF Kept, Unchanged
      <4>1. CASE Applicable(x.doc, Op(e))
        <5>1. y.buffer = x.buffer /\ y.keys = x.keys \cup {e.key}
          BY <2>9, <4>1
        <5>2. QED
          BY <2>1, <2>4, <2>8, <2>9, <5>1
      <4>2. CASE ~Applicable(x.doc, Op(e))
        <5>1. y.buffer = Append(x.buffer, e) /\ y.keys = x.keys
          BY <2>9, <4>2
        <5> DEFINE a == Append(x.buffer, e)
        <5>2. a \in Seq(Envelopes) /\ Len(a) = Len(x.buffer) + 1 /\ ToSet(a) = ToSet(x.buffer) \cup {e} /\ y.buffer = a
          BY <2>10, <5>1
        <5> HIDE DEF a
        <5>3. y.buffer \in Seq(Envelopes) /\ Len(y.buffer) \in Nat /\ Len(y.buffer) <= k + 1
          BY <2>1, <2>4, <5>2
        <5>4. ToSet(y.buffer) \subseteq {s[i] : i \in 1..(k + 1)}
          BY <2>4, <2>8, <5>2
        <5>5. QED
          BY <2>4, <2>9, <5>1, <5>3, <5>4
      <4>3. QED
        BY <4>1, <4>2
    <3>2. \A i \in 1..(k + 1) : s[i].key \in Held(y)
      BY <2>4, <2>7, <2>11
    <3>3. QED
      BY <3>1, <3>2 DEF y
  <2>13. CASE Applicable(x.doc, Op(e))
    <3>1. Len(y.buffer) < k + 1
      BY <2>1, <2>4, <2>9, <2>13
    <3>2. ~Stuck(st)
      BY <2>6, <2>13
    <3>3. QED
      BY <2>12, <3>1, <3>2 DEF y
  <2>14. CASE ~Applicable(x.doc, Op(e))
    <3>1. y.doc = x.doc /\ Len(y.buffer) = Len(x.buffer) + 1
      BY <2>9, <2>10, <2>14
    <3>2. ASSUME x.doc = st.doc, Len(x.buffer) = k, \A i \in 1..k : ~Applicable(st.doc, Op(s[i]))
          PROVE  Unchanged(k + 1)
      <4>1. \A i \in 1..(k + 1) : ~Applicable(st.doc, Op(s[i]))
        BY <2>7, <2>14, <3>2
      <4>2. y.doc = st.doc /\ Len(y.buffer) = k + 1
        BY <3>1, <3>2
      <4>3. QED
        BY <4>1, <4>2 DEF y
    <3>3. Len(x.buffer) < k => Len(y.buffer) < k + 1
      BY <2>1, <2>4, <3>1
    <3>4. Len(y.buffer) < k + 1 \/ Unchanged(k + 1)
      BY <2>5, <3>2, <3>3
    <3>5. Stuck(st) => Unchanged(k + 1)
      BY <2>4, <2>1, <2>5, <2>6, <3>2
    <3> HIDE DEF Unchanged, Kept
    <3>6. QED
      BY <2>12, <3>4, <3>5 DEF y
  <2>15. QED
    BY <2>13, <2>14
<1>7. Len(s) \in P
  <2>1. P \in SUBSET Nat
    <3> HIDE DEF Kept, Unchanged
    <3>1. QED
      OBVIOUS
  <2> HIDE DEF P
  <2>2. P = Nat
    BY <1>5, <1>6, <2>1, NatSetInduction
  <2>3. QED
    BY <1>1, <2>2
<1> DEFINE next == f[Len(s)]
<1>8. /\ next \in Logs /\ st.keys \subseteq next.keys
      /\ Len(next.buffer) \in Nat /\ Len(next.buffer) <= Len(s)
      /\ ToSet(next.buffer) \subseteq ToSet(s)
      /\ \A i \in 1..Len(s) : s[i].key \in Held(next)
  BY <1>1, <1>7
<1>9. /\ Len(next.buffer) < Len(s) \/ (next.doc = st.doc /\ \A i \in 1..Len(s) : ~Applicable(st.doc, Op(s[i])))
      /\ Stuck(st) => (next.doc = st.doc /\ \A i \in 1..Len(s) : ~Applicable(st.doc, Op(s[i])))
  BY <1>1, <1>7
<1> HIDE DEF next, P
<1>10. ASSUME next.doc = st.doc, \A i \in 1..Len(s) : ~Applicable(st.doc, Op(s[i]))
       PROVE  Stuck(next)
  BY <1>1, <1>8, <1>10 DEF Stuck
<1>11. Held(st) \subseteq Held(next)
  <2>1. {env.key : env \in ToSet(s)} \subseteq Held(next)
    BY <1>1, <1>8
  <2>2. QED
    BY <1>8, <2>1 DEF Held, s
<1>12. QED
  BY <1>3, <1>8, <1>9, <1>10, <1>11 DEF s, next

\* A function that starts with the log and does one round at a time.
Rounds(f, st) ==
    /\ f[0] = st
    /\ \A k \in 1..Len(st.buffer) : f[k] = Round(f[k - 1])

\* A flush is as many rounds as envelopes wait.
LEMMA FlushFolds ==
    ASSUME history \in Histories, NEW st \in Logs
    PROVE  \E f : Rounds(f, st) /\ f[Len(st.buffer)] = Flush(st)
<1> DEFINE s == st.buffer
           V == Logs
           b == st
           D == 1..Len(s)
           ch == [t \in SUBSET D |-> Max(t)]
           step == [x \in D |-> [v \in V |-> Round(v)]]
           IsIter(G) == G = [t \in SUBSET D |->
                                IF t = {} THEN b ELSE Round(G[t \ {Max(t)}])]
<1>0. s \in Seq(Envelopes) /\ b \in V
  BY DEF Logs, LogRecords
<1> HIDE DEF V
<1>1. Len(s) \in Nat /\ DOMAIN s = D /\ \A x \in D : s[x] \in Envelopes
  <2> HIDE DEF s
  <2>1. QED
    BY <1>0
<1>2. IsFiniteSet(D)
  BY <1>1, FS_Interval
<1>3. \A t \in SUBSET D : t # {} => Max(t) \in t /\ Max(t) \in D
  BY <1>1, MaxOfSet
<1>4. Chooses(ch, D)
  BY <1>3 DEF Chooses
<1>5. \A x \in D, v \in V : step[x][v] = Round(v) /\ Round(v) \in V
  BY RoundIs DEF V
<1>6. Flush(st) = (CHOOSE G : IsIter(G))[D]
  BY <1>1, Zenon DEF Flush, FoldLeft, MapThenFoldSet
<1>7. Steps(step, D, V)
  BY <1>5 DEF Steps
<1> HIDE DEF D, ch, step, b
<1>8. PICK G0 \in [SUBSET D -> V] : IsFold(G0, D, b, ch, step)
  <2> HIDE DEF IsIter
  <2>1. QED
    BY <1>0, <1>2, <1>4, <1>7, FoldExists
<1>9. IsIter(G0)
  <2>1. ASSUME NEW t \in SUBSET D, t # {}
        PROVE  step[ch[t]][G0[t \ {ch[t]}]] = Round(G0[t \ {Max(t)}])
    <3>1. Max(t) \in D /\ ch[t] = Max(t) /\ t \ {Max(t)} \in SUBSET D
      BY <1>3, <2>1 DEF ch
    <3>2. QED
      BY <1>5, <3>1
  <2>2. \A t \in SUBSET D : G0[t] = IF t = {} THEN b ELSE Round(G0[t \ {Max(t)}])
    BY <1>8, <2>1 DEF IsFold
  <2>3. QED
    BY <2>2
<1> DEFINE G == CHOOSE G : IsIter(G)
           f == [k \in 0..Len(s) |-> G[1..k]]
<1>10. IsIter(G)
  <2> HIDE DEF IsIter
  <2>1. QED
    BY <1>9, Zenon
<1>11. \A t \in SUBSET D : G[t] = IF t = {} THEN b ELSE Round(G[t \ {Max(t)}])
  <2> HIDE DEF G
  <2>1. QED
    BY <1>10
<1> HIDE DEF G, IsIter
<1>12. \A k \in 0..Len(s) : f[k] = G[1..k] /\ 1..k \in SUBSET D
  BY <1>1 DEF D
<1>13. f[0] = b
  <2>1. 0 \in 0..Len(s) /\ 1..0 = {}
    BY <1>1
  <2>2. G[{}] = b
    BY <1>11, <1>12, <2>1
  <2>3. QED
    BY <1>12, <2>1, <2>2
<1>14. ASSUME NEW k \in 1..Len(s) PROVE f[k] = Round(f[k - 1])
  <2>1. 1..k # {} /\ k \in Nat /\ k # 0 /\ k \in 0..Len(s) /\ k - 1 \in 0..Len(s)
    <3> HIDE DEF f, s
    <3>1. k \in Nat /\ k # 0 /\ k \in 0..Len(s) /\ k - 1 \in 0..Len(s)
      BY <1>1
    <3>2. k \in 1..k
      BY <3>1
    <3>3. QED
      BY <3>1, <3>2
  <2>2. Max(1..k) = k /\ (1..k) \ {k} = 1..(k - 1)
    BY <2>1, MaxOfPrefix
  <2>3. G[1..k] = Round(G[(1..k) \ {Max(1..k)}])
    BY <1>11, <1>12, <2>1, Zenon
  <2>4. QED
    BY <1>12, <2>1, <2>2, <2>3
<1>15. f[Len(s)] = Flush(st)
  BY <1>1, <1>6, <1>12 DEF G, D
<1>16. Rounds(f, st)
  <2> HIDE DEF f
  <2>1. QED
    BY <1>13, <1>14 DEF Rounds, b
<1>17. QED
  BY <1>15, <1>16

\* A flush keeps what there is and leaves nothing that can be applied: of n
\* envelopes, no more than n - k wait after k rounds, or nothing more can be.
LEMMA FlushIs ==
    ASSUME history \in Histories, NEW st \in Logs
    PROVE  LET next == Flush(st)
           IN /\ next \in Logs /\ Held(st) \subseteq Held(next)
              /\ Len(next.buffer) <= Len(st.buffer) /\ Stuck(next)
<1> DEFINE n == Len(st.buffer)
<1>1. n \in Nat
  BY DEF Logs, LogRecords
<1>2. PICK f : Rounds(f, st) /\ f[n] = Flush(st)
  BY FlushFolds
<1>3. f[0] = st /\ \A k \in 1..n : f[k] = Round(f[k - 1])
  BY <1>2 DEF Rounds
<1> HIDE DEF n
<1> DEFINE Good(k) == /\ f[k] \in Logs /\ Held(st) \subseteq Held(f[k])
                      /\ Len(f[k].buffer) \in Nat /\ Len(f[k].buffer) <= n
                      /\ Len(f[k].buffer) <= n - k \/ Stuck(f[k])
           P == {k \in Nat : k <= n => Good(k)}
<1>4. 0 \in P
  BY <1>1, <1>3 DEF n
<1>5. ASSUME NEW k \in P PROVE k + 1 \in P
  <2> SUFFICES ASSUME k + 1 <= n PROVE Good(k + 1)
    OBVIOUS
  <2>1. k \in Nat /\ k <= n /\ k + 1 \in 1..n /\ (k + 1) - 1 = k
    <3> HIDE DEF Good
    <3>1. QED
      BY <1>1
  <2>2. Good(k)
    BY <2>1
  <2> HIDE DEF P
  <2> DEFINE x == f[k]
             y == f[k + 1]
  <2>3. x \in Logs /\ y = Round(x)
    BY <1>3, <2>1, <2>2
  <2>4. /\ Held(st) \subseteq Held(x) /\ Len(x.buffer) \in Nat /\ Len(x.buffer) <= n
        /\ Len(x.buffer) <= n - k \/ Stuck(x)
    BY <2>2
  <2> HIDE DEF x, y
  <2>5. /\ y \in Logs /\ Held(x) \subseteq Held(y)
        /\ Len(y.buffer) <= Len(x.buffer)
        /\ Len(y.buffer) < Len(x.buffer) \/ Stuck(y)
        /\ Stuck(x) => Stuck(y)
    BY <2>3, RoundIs
  <2>6. Len(y.buffer) \in Nat
    BY <2>5 DEF Logs, LogRecords
  <2>7. Len(y.buffer) <= n - (k + 1) \/ Stuck(y)
    BY <1>1, <2>1, <2>4, <2>5, <2>6
  <2>8. Len(y.buffer) <= n
    BY <1>1, <2>4, <2>5, <2>6
  <2>9. QED
    BY <2>4, <2>5, <2>6, <2>7, <2>8 DEF y
<1>6. n \in P
  <2>1. P \in SUBSET Nat
    <3> HIDE DEF Good
    <3>1. QED
      OBVIOUS
  <2> HIDE DEF P
  <2>2. P = Nat
    BY <1>4, <1>5, <2>1, NatSetInduction
  <2>3. QED
    BY <1>1, <2>2
<1> DEFINE next == f[n]
<1>7. /\ next \in Logs /\ Held(st) \subseteq Held(next)
      /\ Len(next.buffer) \in Nat /\ Len(next.buffer) <= n
      /\ Len(next.buffer) <= n - n \/ Stuck(next)
  BY <1>1, <1>6
<1> HIDE DEF next, P
<1>8. ASSUME Len(next.buffer) <= n - n PROVE Stuck(next)
  <2>1. Len(next.buffer) = 0 /\ next.buffer \in Seq(Envelopes)
    BY <1>1, <1>7, <1>8 DEF Logs, LogRecords
  <2>2. ToSet(next.buffer) = {}
    BY <2>1 DEF ToSet
  <2>3. QED
    BY <2>2 DEF Stuck
<1>9. QED
  BY <1>2, <1>7, <1>8 DEF n, next

----------------------------------------------------------------------------
(* The document as a part of the history. *)

\* applyOperation stays in the documents over the history's UIDs.
LEMMA ApplyStays == history \in Histories => ApplyStaysIn(Documents, ToSet(history)) /\ EmptyDoc \in Documents
<1> SUFFICES ASSUME history \in Histories
             PROVE  ApplyStaysIn(Documents, ToSet(history)) /\ EmptyDoc \in Documents
  OBVIOUS
<1>1. ASSUME NEW d \in Documents, NEW op \in ToSet(history) PROVE Apply(d, op) \in Documents
  <2>1. PICK i \in DOMAIN history : op = history[i]
    BY DEF ToSet
  <2>2. /\ op.uid \in Uids /\ op.type \in {"INSERT", "DELETE"}
        /\ op.type = "INSERT" => op.after \in Uids \cup {Root}
    BY <2>1, HistoryParts DEF Anchor
  <2>3. d = [list |-> d.list, tomb |-> d.tomb] /\ d.list \in Seq(Uids) /\ d.tomb \in SUBSET Uids
    BY DEF Documents
  <2> DEFINE e == Apply(d, op)
  <2>4. e.list \in Seq(Uids) /\ e.tomb \in SUBSET Uids /\ e = [list |-> e.list, tomb |-> e.tomb]
    <3>1. op.type = "INSERT" => e.tomb = d.tomb /\ e.list \in Seq(Uids)
      BY <2>2, <2>3, ApplyElements
    <3>2. op.type # "INSERT" => /\ e.list = d.list
                                /\ e.tomb = IF Applicable(d, op) THEN d.tomb \cup {op.uid} ELSE d.tomb
      BY <2>3, ApplyElements
    <3>3. e = [list |-> e.list, tomb |-> e.tomb]
      BY <2>3, ApplyRecord
    <3> HIDE DEF e
    <3>4. QED
      BY <2>2, <2>3, <3>1, <3>2, <3>3
  <2>5. QED
    BY <2>4 DEF Documents
<1>2. EmptyDoc \in Documents
  BY DEF EmptyDoc, Documents
<1>3. QED
  BY <1>1, <1>2 DEF ApplyStaysIn

OpsAt(q) == [k \in DOMAIN q |-> history[q[k]]]

\* Replaying the operations at some positions in the history's order, when they
\* name only each other's characters, makes their document.
LEMMA ReplayMakes ==
    ASSUME history \in Histories, NEW K \in SUBSET DOMAIN history, Rooted(K)
    PROVE  MadeOf(Replayed(EmptyDoc, OpsAt(Omit([i \in DOMAIN history |-> i], DOMAIN history \ K))), K)
<1> DEFINE s == [i \in DOMAIN history |-> i]
           X == DOMAIN history \ K
           n == Len(history)
           D == DOMAIN history
<1>1. n \in Nat /\ D = 1..n
  BY HistoryParts
<1>2. s \in Seq(D) /\ Len(s) = n /\ \A i \in 1..n : s[i] = i
  BY <1>1
<1> HIDE DEF s
<1>3. PICK f : Keeps(f, s, X) /\ f[Len(s)] = Omit(s, X)
  BY <1>2, OmitFolds
<1>4. f[0] = << >> /\ \A k \in 1..n : f[k] = IF k \in X THEN f[k - 1] ELSE Append(f[k - 1], k)
  BY <1>2, <1>3 DEF Keeps
<1>5. ApplyStaysIn(Documents, ToSet(history)) /\ EmptyDoc \in Documents
  BY ApplyStays
<1> DEFINE Good(k) == /\ f[k] \in Seq(D)
                      /\ MadeOf(Replayed(EmptyDoc, OpsAt(f[k])), K \cap 1..k)
           P == {k \in Nat : k <= n => Good(k)}
<1>6. 0 \in P
  <2>1. OpsAt(<< >>) = << >> /\ K \cap 1..0 = {}
    BY DEF OpsAt
  <2>2. Replayed(EmptyDoc, << >>) = EmptyDoc
    BY <1>5, FoldApplyEmpty
  <2>3. Good(0)
    BY <1>4, <2>1, <2>2, EmptyIsMade
  <2> HIDE DEF Good
  <2>4. QED
    BY <2>3
<1>7. ASSUME NEW k \in P PROVE k + 1 \in P
  <2> SUFFICES ASSUME k + 1 <= n PROVE Good(k + 1)
    OBVIOUS
  <2>1. k \in Nat /\ k <= n /\ k + 1 \in 1..n /\ (k + 1) - 1 = k
    <3> HIDE DEF Good
    <3>1. QED
      BY <1>1
  <2>2. Good(k)
    BY <2>1
  <2> HIDE DEF P
  <2>3. f[k + 1] = IF k + 1 \in X THEN f[k] ELSE Append(f[k], k + 1)
    BY <1>4, <2>1
  <2>4. CASE k + 1 \notin K
    <3>1. f[k + 1] = f[k] /\ K \cap 1..(k + 1) = K \cap 1..k
      BY <1>1, <2>1, <2>3, <2>4
    <3>2. QED
      BY <2>2, <3>1
  <2>5. CASE k + 1 \in K
    <3> DEFINE q == f[k]
               L == K \cap 1..k
               d == Replayed(EmptyDoc, OpsAt(q))
    <3>1. f[k + 1] = Append(q, k + 1) /\ K \cap 1..(k + 1) = L \cup {k + 1} /\ k + 1 \in D
      BY <1>1, <2>1, <2>3, <2>5
    <3>2. q \in Seq(D) /\ MadeOf(d, L) /\ L \in SUBSET D
      BY <2>2
    <3> HIDE DEF q, D
    <3>3. /\ OpsAt(q) \in Seq(ToSet(history)) /\ history[k + 1] \in ToSet(history)
          /\ OpsAt(Append(q, k + 1)) = Append(OpsAt(q), history[k + 1])
          /\ Append(q, k + 1) \in Seq(D)
      <4>1. \A i \in D : history[i] \in ToSet(history)
        BY DEF ToSet, D
      <4>2. QED
        BY SMTT(60), <3>1, <3>2, <4>1 DEF OpsAt
    <3>4. Replayed(EmptyDoc, Append(OpsAt(q), history[k + 1])) = Apply(d, history[k + 1])
      BY <1>5, <3>3, FoldApplyAppend
    <3>5. Applicable(d, history[k + 1])
      <4> DEFINE a == Anchor(history[k + 1])
      <4>1. (history[k + 1].type = "INSERT" /\ a = Root) \/ a \in UidsOf(1..k, "INSERT")
        BY <2>1, <3>1, HistoryParts DEF D
      <4>2. (history[k + 1].type = "INSERT" /\ a = Root) \/ a \in UidsOf(K, "INSERT")
        BY <2>5 DEF Rooted
      <4>3. ASSUME a \in UidsOf(1..k, "INSERT"), a \in UidsOf(K, "INSERT") PROVE a \in UidsOf(L, "INSERT")
        <5> HIDE DEF a
        <5>1. PICK i \in (1..k) \cap Positions("INSERT") : a = history[i].uid
          BY <4>3 DEF UidsOf
        <5>2. PICK j \in K \cap Positions("INSERT") : a = history[j].uid
          BY <4>3 DEF UidsOf
        <5>3. i = j
          BY <5>1, <5>2, HistoryParts
        <5>4. QED
          BY <5>1, <5>2, <5>3 DEF UidsOf
      <4> HIDE DEF a, d, L
      <4>4. (history[k + 1].type = "INSERT" /\ a = Root) \/ a \in UidsOf(L, "INSERT")
        BY <4>1, <4>2, <4>3
      <4>5. QED
        BY <3>1, <3>2, <4>4, ApplicableIs DEF a, D
    <3> HIDE DEF d, L
    <3>6. MadeOf(Apply(d, history[k + 1]), L \cup {k + 1})
      BY <3>1, <3>2, <3>5, ApplyMakes DEF D
    <3>7. QED
      BY <3>1, <3>3, <3>4, <3>6 DEF d
  <2>6. QED
    BY <2>4, <2>5
<1>8. n \in P
  <2>1. P \in SUBSET Nat
    <3> HIDE DEF Good
    <3>1. QED
      OBVIOUS
  <2> HIDE DEF P
  <2>2. P = Nat
    BY <1>6, <1>7, <2>1, NatSetInduction
  <2>3. QED
    BY <1>1, <2>2
<1>9. MadeOf(Replayed(EmptyDoc, OpsAt(f[n])), K \cap 1..n)
  BY <1>1, <1>8
<1>10. K \cap 1..n = K
  BY <1>1
<1> HIDE DEF P, n
<1>11. QED
  BY <1>2, <1>3, <1>9, <1>10 DEF s, n

----------------------------------------------------------------------------
(* The inductive invariant. *)

LogInvariant ==
    /\ history \in Histories /\ received \subseteq DOMAIN history /\ reload \in BOOLEAN
    /\ State \in Logs /\ Stuck(State) /\ Len(buffer) < MaxBufferSize
    /\ reload \/ received \subseteq Held(State)

\* A new log has applied nothing and holds nothing back.
LEMMA InitLog == Init => LogInvariant
<1> SUFFICES ASSUME Init PROVE LogInvariant
  OBVIOUS
<1>1. State = [doc |-> EmptyDoc, seqs |-> {}, keys |-> {}, top |-> 0, buffer |-> << >>]
  BY DEF Init, State
<1>2. history \in Histories /\ received = {} /\ reload = FALSE /\ buffer = << >> /\ Len(buffer) = 0
  BY DEF Init
<1>3. MadeOf(EmptyDoc, {}) /\ EmptyDoc \in Documents
  BY EmptyIsMade DEF MadeOf
<1>4. State \in Logs
  <2>1. << >> \in Seq(Envelopes) /\ 0 \in Nat /\ {} \in SUBSET DOMAIN history
    OBVIOUS
  <2>2. State \in LogRecords
    BY <1>1, <1>3, <2>1 DEF LogRecords
  <2>3. State.doc = EmptyDoc /\ State.keys = {} /\ State.seqs = {} /\ State.top = 0
    BY <1>1
  <2>4. QED
    BY <1>3, <2>2, <2>3 DEF Logs
<1>5. Stuck(State)
  BY <1>1 DEF Stuck, ToSet
<1>6. Len(buffer) < MaxBufferSize
  BY <1>2, MaxBufferSizeAssumption
<1>7. received \subseteq Held(State) /\ received \subseteq DOMAIN history /\ reload \in BOOLEAN
  BY <1>2
<1>8. QED
  BY <1>2, <1>4, <1>5, <1>6, <1>7 DEF LogInvariant

\* The parts of the log.
LEMMA StateParts ==
    /\ State.doc = doc /\ State.seqs = appliedSeqs /\ State.keys = appliedKeys
    /\ State.top = maxAppliedSeq /\ State.buffer = buffer
BY DEF State

\* What the invariant says of the next state when the log becomes st.
LEMMA NextLog ==
    ASSUME LogInvariant, UNCHANGED history, NEW st \in Logs, Stuck(st), Len(st.buffer) < MaxBufferSize,
           doc' = st.doc, appliedSeqs' = st.seqs, appliedKeys' = st.keys, maxAppliedSeq' = st.top,
           buffer' = st.buffer, reload' \in BOOLEAN, received' \subseteq DOMAIN history,
           reload' \/ received' \subseteq Held(st)
    PROVE  LogInvariant'
<1>1. State' = st
  <2>1. State' = [doc |-> st.doc, seqs |-> st.seqs, keys |-> st.keys, top |-> st.top, buffer |-> st.buffer]
    BY DEF State
  <2>2. st \in LogRecords
    BY DEF Logs
  <2> HIDE DEF Documents, Envelopes
  <2>3. QED
    BY <2>1, <2>2 DEF LogRecords
<1>0. history' = history
  OBVIOUS
<1>2. Logs' = Logs
  <2>1. Documents' = Documents
    BY <1>0 DEF Documents, Uids
  <2>2. LogRecords' = LogRecords
    <3>1. Envelopes' = Envelopes
      BY <1>0 DEF Envelopes, Envelope
    <3>2. QED
      BY <1>0, <2>1, <3>1 DEF LogRecords
  <2>3. ASSUME NEW d, NEW K PROVE MadeOf(d, K)' <=> MadeOf(d, K)
    <3>1. ASSUME NEW type PROVE Positions(type)' = Positions(type) /\ UidsOf(K, type)' = UidsOf(K, type)
      BY <1>0 DEF UidsOf, Positions
    <3>2. Inserts' = Inserts /\ (Rooted(K)' <=> Rooted(K))
      BY <1>0, <3>1 DEF Inserts, Rooted
    <3>3. QED
      BY <2>1, <3>1, <3>2 DEF MadeOf
  <2>4. QED
    BY <2>2, <2>3 DEF Logs
<1>3. State' \in Logs'
  BY <1>1, <1>2
<1>4. Stuck(State)'
  BY <1>1 DEF Stuck, Op
<1>5. Held(State)' = Held(st)
  BY <1>1 DEF Held
<1>6. QED
  BY <1>3, <1>4, <1>5 DEF LogInvariant

\* applyOrBuffer keeps it: what a flush leaves cannot be applied, what waits
\* does so for a predecessor, and what is thrown away is told.
LEMMA ApplyOrBufferKeepsLog ==
    ASSUME LogInvariant, NEW i \in DOMAIN history, NEW seq \in {0, i},
           ApplyOrBuffer([seq |-> seq, key |-> i])
    PROVE  LogInvariant'
<1> DEFINE env == [seq |-> seq, key |-> i]
<1>1. env \in Envelopes /\ env.key = i /\ env.seq = seq
  BY DEF Envelopes, Envelope
<1> HIDE DEF env
<1>2. /\ ApplyAndFlush(env) \/ Buffer(env) \/ Ignore(env)
      /\ received' = received \cup {i} /\ UNCHANGED history
  BY <1>1 DEF ApplyOrBuffer, env
<1>3. /\ history \in Histories /\ received \subseteq DOMAIN history /\ reload \in BOOLEAN
      /\ State \in Logs /\ Stuck(State) /\ Len(buffer) < MaxBufferSize
      /\ reload \/ received \subseteq Held(State)
      /\ received' \subseteq DOMAIN history
  BY <1>2 DEF LogInvariant
<1>4. buffer \in Seq(Envelopes) /\ Len(buffer) \in Nat /\ MaxBufferSize \in Nat \ {0}
  BY <1>3, StateParts, MaxBufferSizeAssumption DEF Logs, LogRecords
<1>5. CASE ApplyAndFlush(env)
  <2> DEFINE one == Applied(State, env)
             st == Flush(one)
  <2>1. Applicable(doc, Op(env)) /\ UNCHANGED reload
        /\ doc' = st.doc /\ appliedSeqs' = st.seqs /\ appliedKeys' = st.keys
        /\ maxAppliedSeq' = st.top /\ buffer' = st.buffer
    BY <1>5 DEF ApplyAndFlush
  <2>2. one \in Logs /\ one.buffer = buffer /\ one.keys = appliedKeys \cup {i}
    BY <1>1, <1>3, <2>1, StateParts, AppliedIs
  <2> HIDE DEF one
  <2>3. /\ st \in Logs /\ Held(one) \subseteq Held(st) /\ Len(st.buffer) <= Len(one.buffer) /\ Stuck(st)
    BY <1>3, <2>2, FlushIs
  <2> HIDE DEF st
  <2>4. Held(State) \cup {i} \subseteq Held(one)
    BY <2>2, StateParts DEF Held
  <2>5. Len(st.buffer) < MaxBufferSize
    <3>1. Len(st.buffer) \in Nat
      BY <2>3 DEF Logs, LogRecords
    <3>2. QED
      BY <1>3, <1>4, <2>2, <2>3, <3>1
  <2>6. reload' \/ received' \subseteq Held(st)
    BY <1>2, <1>3, <2>1, <2>3, <2>4
  <2>7. QED
    BY <1>2, <1>3, <2>1, <2>3, <2>5, <2>6, NextLog
<1>6. CASE Buffer(env)
  <2> DEFINE more == Append(buffer, env)
             kept == IF Len(more) >= MaxBufferSize THEN << >> ELSE more
             st == [State EXCEPT !.buffer = kept]
  <2>1. /\ ~Applicable(doc, Op(env))
        /\ UNCHANGED <<doc, appliedSeqs, appliedKeys, maxAppliedSeq>>
        /\ buffer' = kept /\ reload' = (reload \/ Len(more) >= MaxBufferSize)
    BY <1>3, <1>6 DEF Buffer, HoldBack
  <2>2. /\ more \in Seq(Envelopes) /\ Len(more) = Len(buffer) + 1 /\ ToSet(more) = ToSet(buffer) \cup {env}
        /\ << >> \in Seq(Envelopes) /\ Len(<< >>) = 0 /\ ToSet(<< >>) = {}
    <3>1. << >> \in Seq(Envelopes) /\ Len(<< >>) = 0 /\ ToSet(<< >>) = {}
      BY DEF ToSet
    <3>2. more \in Seq(Envelopes) /\ Len(more) = Len(buffer) + 1 /\ ToSet(more) = ToSet(buffer) \cup {env}
      BY <1>1, <1>4, AppendElements
    <3>3. QED
      BY <3>1, <3>2
  <2> HIDE DEF more
  <2>3. /\ kept \in Seq(Envelopes) /\ Len(kept) < MaxBufferSize
        /\ ToSet(kept) \subseteq ToSet(buffer) \cup {env}
        /\ ~(Len(more) >= MaxBufferSize) => ToSet(kept) = ToSet(buffer) \cup {env}
    BY <1>4, <2>2
  <2> HIDE DEF kept
  <2>4. /\ st \in Logs /\ st.buffer = kept /\ st.doc = doc /\ st.keys = appliedKeys
        /\ st.seqs = appliedSeqs /\ st.top = maxAppliedSeq
    <3>1. st \in Logs /\ st.buffer = kept /\ st.doc = State.doc /\ st.keys = State.keys
      BY <1>3, <2>3, OtherBuffer
    <3>2. st.seqs = appliedSeqs /\ st.top = maxAppliedSeq
      BY DEF State
    <3> HIDE DEF st
    <3>3. QED
      BY <3>1, <3>2, StateParts
  <2> HIDE DEF st
  <2>5. Stuck(st)
    BY <1>3, <2>1, <2>3, <2>4, StateParts DEF Stuck
  <2>6. reload' \in BOOLEAN /\ (reload' \/ received' \subseteq Held(st))
    <3>1. CASE Len(more) >= MaxBufferSize
      BY <2>1, <3>1
    <3>2. CASE ~(Len(more) >= MaxBufferSize)
      <4>1. Held(State) \cup {i} \subseteq Held(st)
        BY <1>1, <2>3, <2>4, <3>2, StateParts DEF Held
      <4>2. reload' = reload
        BY <1>3, <2>1, <3>2
      <4>3. QED
        BY <1>2, <1>3, <4>1, <4>2
    <3>3. QED
      BY <3>1, <3>2
  <2>7. QED
    BY <1>2, <1>3, <2>1, <2>3, <2>4, <2>5, <2>6, NextLog
<1>7. CASE Ignore(env)
  <2>1. seq \in appliedSeqs \/ i \in appliedKeys
    BY <1>1, <1>7 DEF Ignore, Duplicate
  <2>2. i \in appliedKeys
    <3>1. appliedSeqs \subseteq appliedKeys
      BY <1>3, StateParts DEF Logs
    <3>2. 0 \notin appliedSeqs
      <4>1. appliedSeqs \subseteq DOMAIN history
        BY <1>3, StateParts DEF Logs, LogRecords
      <4>2. QED
        BY <1>3, <4>1, HistoryParts
    <3>3. QED
      BY <2>1, <3>1, <3>2
  <2>3. /\ doc' = State.doc /\ appliedSeqs' = State.seqs /\ appliedKeys' = State.keys
        /\ maxAppliedSeq' = State.top /\ buffer' = State.buffer /\ reload' = reload
    BY <1>7, StateParts DEF Ignore
  <2>4. i \in Held(State) /\ State.buffer = buffer
    BY <2>2, StateParts DEF Held
  <2>5. reload' \/ received' \subseteq Held(State)
    BY <1>2, <1>3, <2>3, <2>4
  <2>6. QED
    BY <1>2, <1>3, <2>3, <2>4, <2>5, NextLog
<1>8. QED
  BY <1>2, <1>5, <1>6, <1>7

\* Every step does.
LEMMA NextKeepsLog == LogInvariant /\ [Next]_vars => LogInvariant'
<1> SUFFICES ASSUME LogInvariant, [Next]_vars PROVE LogInvariant'
  OBVIOUS
<1>1. CASE Next
  BY <1>1, ApplyOrBufferKeepsLog DEF Next
<1>2. CASE UNCHANGED vars
  <2>1. UNCHANGED <<history, received, doc, appliedSeqs, appliedKeys, maxAppliedSeq, buffer, reload>>
    BY <1>2 DEF vars
  <2>2. /\ State \in Logs /\ Stuck(State) /\ Len(State.buffer) < MaxBufferSize
        /\ doc' = State.doc /\ appliedSeqs' = State.seqs /\ appliedKeys' = State.keys
        /\ maxAppliedSeq' = State.top /\ buffer' = State.buffer
        /\ reload' \in BOOLEAN /\ received' \subseteq DOMAIN history
        /\ reload' \/ received' \subseteq Held(State)
    BY <2>1, StateParts DEF LogInvariant
  <2>3. QED
    BY <2>1, <2>2, NextLog
<1>3. QED
  BY <1>1, <1>2

\* It holds throughout.
THEOREM LogKeepsInvariant == Spec => []LogInvariant
BY InitLog, NextKeepsLog, PTL DEF Spec

----------------------------------------------------------------------------
\* The duplicate indexes, the greatest seq and the buffer are of operations
\* there are, and the document is over their UIDs.
THEOREM LogTypeCorrect == Spec => []TypeOK
<1>1. LogInvariant => TypeOK
  <2> SUFFICES ASSUME LogInvariant PROVE TypeOK
    OBVIOUS
  <2>1. State \in LogRecords /\ maxAppliedSeq \in {0} \cup appliedSeqs
    BY StateParts DEF LogInvariant, Logs
  <2>2. /\ doc \in Documents /\ appliedSeqs \subseteq DOMAIN history /\ appliedKeys \subseteq DOMAIN history
        /\ buffer \in Seq(Envelopes)
    BY <2>1, StateParts DEF LogRecords
  <2>3. buffer \in Seq(Envelope)
    <3>1. \A k \in 1..Len(buffer) : buffer[k] \in Envelope
      BY <2>2 DEF Envelopes
    <3>2. QED
      BY <2>2, <3>1, SeqOfMembers
  <2>4. QED
    BY <2>1, <2>2, <2>3 DEF LogInvariant, TypeOK, Documents
<1>2. QED
  BY <1>1, LogKeepsInvariant, PTL

\* flushBuffer's loop ends too early for no order of the buffer, however long
\* the chains in it: what waits after a call really has to wait.
THEOREM FlushIsComplete == Spec => []OnlyGapsWait
<1>1. LogInvariant => OnlyGapsWait
  BY StateParts DEF LogInvariant, OnlyGapsWait, Stuck
<1>2. QED
  BY <1>1, LogKeepsInvariant, PTL

\* applyOrBuffer loses no operation that arrived, unless it fires
\* onCausalGapExceeded.
THEOREM NothingIsDropped == Spec => []NothingDroppedSilently
<1>1. LogInvariant => NothingDroppedSilently
  <2> SUFFICES ASSUME LogInvariant, ~reload, NEW i \in received
               PROVE  Effective(history[i]) \/ \E env \in ToSet(buffer) : env.key = i
    BY DEF NothingDroppedSilently
  <2>1. i \in Held(State) /\ i \in DOMAIN history /\ history \in Histories
    BY DEF LogInvariant
  <2>2. CASE i \in appliedKeys
    <3>1. MadeOf(doc, appliedKeys)
      BY StateParts DEF LogInvariant, Logs
    <3>2. history[i].type \in {"INSERT", "DELETE"}
      BY <2>1, HistoryParts
    <3>3. history[i].uid \in UidsOf(appliedKeys, history[i].type)
      BY <2>1, <2>2 DEF UidsOf, Positions
    <3>4. QED
      BY <3>1, <3>2, <3>3 DEF MadeOf, Effective, Holds
  <2>3. QED
    BY <2>1, <2>2, StateParts DEF Held
<1>2. QED
  BY <1>1, LogKeepsInvariant, PTL

\* Whatever order, duplication and overflow the envelopes met: the document is
\* what the applied operations give in the order the server stored them.
THEOREM DocumentFollowsHistory == Spec => []DocumentIsHistory
<1>1. LogInvariant => DocumentIsHistory
  <2> SUFFICES ASSUME LogInvariant PROVE DocumentIsHistory
    OBVIOUS
  <2> DEFINE done == Omit([i \in DOMAIN history |-> i], DOMAIN history \ appliedKeys)
  <2>1. /\ history \in Histories /\ MadeOf(doc, appliedKeys) /\ appliedKeys \in SUBSET DOMAIN history
    BY StateParts DEF LogInvariant, Logs, LogRecords
  <2>2. MadeOf(Replayed(EmptyDoc, OpsAt(done)), appliedKeys)
    BY <2>1, ReplayMakes DEF MadeOf
  <2> HIDE DEF done
  <2>3. doc = Replayed(EmptyDoc, OpsAt(done))
    BY <2>1, <2>2, MadeOfOne
  <2>4. QED
    BY <2>3, Zenon DEF DocumentIsHistory, Replayed, OpsAt, done
<1>2. QED
  BY <1>1, LogKeepsInvariant, PTL
=============================================================================
